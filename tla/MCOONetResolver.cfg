\* Every kind of underlying resolver, a DoH resolver that owns its client.
CONSTANTS
    Callers <- MCCallers
    Closers <- MCClosers
    Kinds <- MCKinds
    OwnsClient = TRUE
    Addrs <- MCAddrs
    LookupErrs <- MCLookupErrs
SPECIFICATION Spec
INVARIANT TypeOK
INVARIANT SingleInnerResolver
INVARIANT ErrorNamesCause
PROPERTY AllCallsReturn
\* Every call returns once and the goroutines stop.
CHECK_DEADLOCK FALSE
