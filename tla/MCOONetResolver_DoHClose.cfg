\* A DoH resolver that owns its HTTP client: does an idle close reach it?
CONSTANTS
    Callers <- MCCallers
    Closers <- MCClosers
    Kinds = {"DoH"}
    OwnsClient = TRUE
    Addrs <- MCAddrs
    LookupErrs <- MCLookupErrs
SPECIFICATION Spec
INVARIANT OwnedClientIdleClosed
\* Every call returns once and the goroutines stop.
CHECK_DEADLOCK FALSE
