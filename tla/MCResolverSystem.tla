--------------------------- MODULE MCResolverSystem ---------------------------
(* Two concurrent LookupHost calls on the same system resolver.            *)
EXTENDS ResolverSystem

MCCallers == {"c1", "c2"}
=============================================================================
