\* Two calls; lookups that return addresses, fail or hang; timers; and
\* callers whose own contexts may be canceled.
CONSTANTS
    Callers <- MCCallers
SPECIFICATION Spec
INVARIANT TypeOK
PROPERTY LookupHostReturns
PROPERTY GoroutineExits
\* A goroutine whose OS lookup hangs never exits, and every caller stops
\* after its call; LookupHostReturns checks that the calls get there.
CHECK_DEADLOCK FALSE
