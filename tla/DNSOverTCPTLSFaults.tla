------------------------- MODULE DNSOverTCPTLSFaults -------------------------
(***************************************************************************)
(* DNSOverTCPTLS with the two faults that let a background I/O goroutine   *)
(* outlive its round trip: the caller's context expiring while try waits   *)
(* in its select, and a read hitting trySync's 10-second deadline with the *)
(* reply still on its way.  Each is enabled by a constant, so a run can    *)
(* show what each does on its own.                                         *)
(***************************************************************************)
EXTENDS DNSOverTCPTLS

CONSTANTS
    CtxCanExpire,   \* the queriers' contexts may be canceled or time out
    ReadTimeouts    \* a read may hit the 10s deadline with the reply still due

ASSUME CtxCanExpire \in BOOLEAN /\ ReadTimeouts \in BOOLEAN

\* try's select sees ctx.Done() first and returns ctx.Err(); the worker
\* keeps running with nobody waiting for it.
tryCtxDone(q) ==
    /\ pc[q] = "select"
    /\ canceled[q]
    /\ Return(q, "ctx", Nil)
    /\ UNCHANGED <<users, conn, nextConn, dead, wire, canceled, wvars>>

\* The context passed to LookupHost is canceled or reaches its deadline.
ctxExpire(q) ==
    /\ ~canceled[q]
    /\ pc[q] # "done"
    /\ canceled' = [canceled EXCEPT ![q] = TRUE]
    /\ UNCHANGED <<pc, users, mu, conn, nextConn, dead, wire, attempt, wvars,
                   result, lhvars>>

\* trySync's io.ReadFull fails at the deadline set by SetDeadline: the
\* connection stays usable and the reply is still due on it.
trySyncReadTimeout(w) ==
    /\ wk[w] = "read"
    /\ conn # NoConn
    /\ conn \notin dead
    /\ Finish(w, "read", Nil)
    /\ UNCHANGED <<pc, users, mu, conn, nextConn, dead, wire, attempt,
                   canceled, result, lhvars>>

NextFaults ==
    \/ Next
    \/ /\ ~Crashed
       /\ \/ CtxCanExpire /\ \E q \in Queriers : ctxExpire(q) \/ tryCtxDone(q)
          \/ ReadTimeouts /\ \E w \in Workers : trySyncReadTimeout(w)

SpecFaults == Init /\ [][NextFaults]_vars /\ Fairness
=============================================================================
