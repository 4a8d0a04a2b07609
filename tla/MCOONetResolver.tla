--------------------------- MODULE MCOONetResolver ---------------------------
(* Two concurrent LookupHost calls and one CloseIdleConnections on a        *)
(* DNSResolver over each kind of underlying resolver.                       *)
EXTENDS OONetResolver

MCCallers    == {"c1", "c2"}
MCClosers    == {"k1"}
MCKinds      == {"net", "DoH", "DoT"}
MCAddrs      == {"a1"}
MCLookupErrs == {"timeout"}
=============================================================================
