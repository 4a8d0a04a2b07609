\* Expected: TimeoutFirstReturnsCtxErr violated.  When the context is done
\* and a result is then buffered, Go's select picks a ready case at random
\* and may return the result that arrived after the timeout.
CONSTANTS
    Callers <- MCCallers
SPECIFICATION Spec
INVARIANT TimeoutFirstReturnsCtxErr
\* Every caller stops after its call.
CHECK_DEADLOCK FALSE
