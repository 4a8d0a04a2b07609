\* Contexts never expire; a read may hit its deadline with the reply late.
\* Expected: LookupHostContract violated: the next query reads the late
\* reply, and a LookupHost returns the address of another host.
CONSTANTS
    Queriers <- MCQueriers
    Closers <- MCCloses
    Nil = Nil
    CtxCanExpire = FALSE
    ReadTimeouts = TRUE
    Zone <- MCZone
SPECIFICATION SpecFaults
PROPERTY LookupHostContract
\* The program stops once every call has returned.
CHECK_DEADLOCK FALSE
