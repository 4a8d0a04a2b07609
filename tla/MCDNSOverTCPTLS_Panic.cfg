\* Contexts that expire; the network never delivers a reply late.
\* Expected: NoNilConnDeref violated (abandoned trySync meets dl.conn == nil).
CONSTANTS
    Queriers <- MCQueriers
    Closers <- MCCloses
    Nil = Nil
    CtxCanExpire = TRUE
    ReadTimeouts = FALSE
    Zone <- MCZone
SPECIFICATION SpecFaults
INVARIANT NoNilConnDeref
\* The program stops once every call has returned.
CHECK_DEADLOCK FALSE
