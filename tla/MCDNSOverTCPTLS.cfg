\* Callers whose contexts never expire and a network that loses
\* connections but never delivers a reply after a read deadline.
CONSTANTS
    Queriers <- MCQueriers
    Closers <- MCCloses
    Nil = Nil
    Zone <- MCZone
SPECIFICATION Spec
INVARIANT TypeOK
INVARIANT ExclusiveConnUse
INVARIANT ReplyToOwnQuery
INVARIANT NoNilConnDeref
 
PROPERTY AllCallsReturn
\* Every goroutine stops once its call has returned; that it gets
\* there is the property AllCallsReturn.
CHECK_DEADLOCK FALSE
