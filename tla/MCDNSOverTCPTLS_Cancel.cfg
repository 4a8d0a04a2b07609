\* Contexts that expire; the network never delivers a reply late.
\* Expected: ExclusiveConnUse violated (I/O after try gave up the lock).
CONSTANTS
    Queriers <- MCQueriers
    Closers <- MCCloses
    Nil = Nil
    CtxCanExpire = TRUE
    ReadTimeouts = FALSE
    Zone <- MCZone
SPECIFICATION SpecFaults
INVARIANT ExclusiveConnUse
\* The program stops once every call has returned.
CHECK_DEADLOCK FALSE
