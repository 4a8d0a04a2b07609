---------------------------- MODULE ResolverSystem ----------------------------
(***************************************************************************)
(* resolverSystem.LookupHost of src/unnamed/part_004 (netxlite): the OS    *)
(* lookup runs in a detached goroutine that sends its result on one of two *)
(* channels of capacity 1, while the caller selects between them and the   *)
(* Done channel of a context bounded by a 15-second timeout.               *)
(*                                                                         *)
(* Each caller c makes one call.  Its goroutine's OS lookup may return     *)
(* addresses or an error, or hang: getaddrinfo need not honour the         *)
(* context, so its return gets no fairness.  The context is done when its  *)
(* timer fires, when the caller's own context is canceled, or when the    *)
(* deferred cancel() runs as LookupHost returns.                           *)
(***************************************************************************)
EXTENDS Naturals, Sequences

CONSTANT Callers

\* (mutant) make(chan ..., 0): unbuffered result channels.
ChanCap_unbuffered == 0

\* addrsch, errch := make(chan []string, 1), make(chan error, 1)
ChanCap == 1

VARIABLES
    pc,       \* pc[c]: "idle", "select" or "done"
    ctx,      \* ctx[c]: "live", or why its Done channel is closed
    g,        \* g[c]: the goroutine: "none", "lookup", "send", "exited"
    out,      \* out[c]: what the OS lookup returned: "addrs", "err" or "none"
    addrsch,  \* addrsch[c], errch[c]: the buffered channels, as sequences
    errch,
    ret,      \* ret[c]: <<what LookupHost returned>>, or <<>>
    late      \* late[c]: ctx was done before the goroutine sent its result

vars == <<pc, ctx, g, out, addrsch, errch, ret, late>>

Results == {"addrs", "err", "deadline", "canceled"}

TypeOK ==
    /\ pc \in [Callers -> {"idle", "select", "done"}]
    /\ ctx \in [Callers -> {"live", "deadline", "canceled"}]
    /\ g \in [Callers -> {"none", "lookup", "send", "exited"}]
    /\ out \in [Callers -> {"addrs", "err", "none"}]
    /\ addrsch \in [Callers -> Seq({"addrs"})]
    /\ errch \in [Callers -> Seq({"err"})]
    /\ ret \in [Callers -> Seq(Results)]
    /\ late \in [Callers -> BOOLEAN]

Init ==
    /\ pc = [c \in Callers |-> "idle"]
    /\ ctx = [c \in Callers |-> "live"]
    /\ g = [c \in Callers |-> "none"]
    /\ out = [c \in Callers |-> "none"]
    /\ addrsch = [c \in Callers |-> <<>>]
    /\ errch = [c \in Callers |-> <<>>]
    /\ ret = [c \in Callers |-> <<>>]
    /\ late = [c \in Callers |-> FALSE]

-----------------------------------------------------------------------------
(* The caller                                                              *)

\* Make the channels, derive the timeout context, start the goroutine.
LookupHost(c) ==
    /\ pc[c] = "idle"
    /\ pc' = [pc EXCEPT ![c] = "select"]
    /\ g' = [g EXCEPT ![c] = "lookup"]
    /\ UNCHANGED <<ctx, out, addrsch, errch, ret, late>>

\* The select returns r; the deferred cancel() closes Done if still open.
Return(c, r) ==
    /\ pc' = [pc EXCEPT ![c] = "done"]
    /\ ret' = [ret EXCEPT ![c] = <<r>>]
    /\ ctx' = [ctx EXCEPT ![c] = IF @ = "live" THEN "canceled" ELSE @]

\* case <-ctx.Done(): return nil, ctx.Err()
selectCtxDone(c) ==
    /\ pc[c] = "select"
    /\ ctx[c] # "live"
    /\ Return(c, ctx[c])
    /\ UNCHANGED <<g, out, addrsch, errch, late>>

\* case addrs := <-addrsch: return addrs, nil
selectAddrs(c) ==
    /\ pc[c] = "select"
    /\ addrsch[c] # <<>>
    /\ addrsch' = [addrsch EXCEPT ![c] = Tail(@)]
    /\ Return(c, Head(addrsch[c]))
    /\ UNCHANGED <<g, out, errch, late>>

\* case err := <-errch: return nil, err
selectErr(c) ==
    /\ pc[c] = "select"
    /\ errch[c] # <<>>
    /\ errch' = [errch EXCEPT ![c] = Tail(@)]
    /\ Return(c, Head(errch[c]))
    /\ UNCHANGED <<g, out, addrsch, late>>

-----------------------------------------------------------------------------
(* The context                                                             *)

\* (mutant) No context.WithTimeout: only the caller's context can end it.
timerFires_noTimeout(c) ==
    /\ FALSE
    /\ UNCHANGED vars

\* The 15-second timer of context.WithTimeout fires.
timerFires(c) ==
    /\ pc[c] = "select"
    /\ ctx[c] = "live"
    /\ ctx' = [ctx EXCEPT ![c] = "deadline"]
    /\ UNCHANGED <<pc, g, out, addrsch, errch, ret, late>>

\* The caller's own context is canceled while the call is in progress.
parentCancel(c) ==
    /\ pc[c] = "select"
    /\ ctx[c] = "live"
    /\ ctx' = [ctx EXCEPT ![c] = "canceled"]
    /\ UNCHANGED <<pc, g, out, addrsch, errch, ret, late>>

-----------------------------------------------------------------------------
(* The detached goroutine                                                  *)

\* addrs, err := r.lookupHost()(ctx, hostname) returns.
lookupReturns(c) ==
    /\ g[c] = "lookup"
    /\ \E o \in {"addrs", "err"} : out' = [out EXCEPT ![c] = o]
    /\ g' = [g EXCEPT ![c] = "send"]
    /\ UNCHANGED <<pc, ctx, addrsch, errch, ret, late>>

\* A channel send completes when the buffer has room or, unbuffered, when
\* the caller is waiting in its select.
CanSend(c, ch) == Len(ch) < ChanCap \/ (ChanCap = 0 /\ pc[c] = "select")

\* (mutant) The `return` after errch <- err is missing: the goroutine goes
\* on to send its nil addrs on addrsch as well.
send_noReturn(c) ==
    /\ g[c] = "send"
    /\ IF out[c] = "err"
         THEN /\ CanSend(c, errch[c]) /\ CanSend(c, addrsch[c])
              /\ errch' = [errch EXCEPT ![c] = Append(@, "err")]
              /\ addrsch' = [addrsch EXCEPT ![c] = Append(@, "nil")]
         ELSE /\ CanSend(c, addrsch[c])
              /\ addrsch' = [addrsch EXCEPT ![c] = Append(@, "addrs")]
              /\ UNCHANGED errch
    /\ g' = [g EXCEPT ![c] = "exited"]
    /\ late' = [late EXCEPT ![c] = ctx[c] # "live"]
    /\ UNCHANGED <<pc, ctx, out, ret>>

\* errch <- err; return, or addrsch <- addrs.
send(c) ==
    /\ g[c] = "send"
    /\ IF out[c] = "err"
         THEN /\ CanSend(c, errch[c])
              /\ errch' = [errch EXCEPT ![c] = Append(@, "err")]
              /\ UNCHANGED addrsch
         ELSE /\ CanSend(c, addrsch[c])
              /\ addrsch' = [addrsch EXCEPT ![c] = Append(@, "addrs")]
              /\ UNCHANGED errch
    /\ g' = [g EXCEPT ![c] = "exited"]
    /\ late' = [late EXCEPT ![c] = ctx[c] # "live"]
    /\ UNCHANGED <<pc, ctx, out, ret>>

-----------------------------------------------------------------------------

Caller(c) == LookupHost(c) \/ selectCtxDone(c) \/ selectAddrs(c) \/ selectErr(c)

Next ==
    \E c \in Callers :
        \/ Caller(c)
        \/ timerFires(c) \/ parentCancel(c)
        \/ lookupReturns(c) \/ send(c)

\* The caller and the goroutine are scheduled; the timer fires once its
\* 15 seconds are up.  The OS lookup and the caller's own context get no
\* fairness: either may never return or never be canceled.
Fairness ==
    \A c \in Callers : /\ WF_vars(Caller(c))
                       /\ WF_vars(timerFires(c))
                       /\ WF_vars(send(c))

Spec == Init /\ [][Next]_vars /\ Fairness

-----------------------------------------------------------------------------
(* Properties                                                              *)

\* Spec 4.5 (issue 1726): LookupHost returns even when the OS lookup never
\* does, because the select also waits on the timeout context.
LookupHostReturns == \A c \in Callers : <>(pc[c] = "done")

\* Spec section 5: once the OS call returns, the detached goroutine exits
\* whether or not anybody still reads its channel: the capacity-1 buffer
\* takes its only send, so the abandoned task does not leak for ever.
GoroutineExits == \A c \in Callers : (g[c] = "send") ~> (g[c] = "exited")

\* Spec 4.5: "if the timeout/context fires first, the in-flight lookup's
\* result is discarded and a context error is returned".  A result the
\* goroutine sent after the context was done is never returned.
TimeoutFirstReturnsCtxErr ==
    \A c \in Callers :
        late[c] /\ ret[c] # <<>> => ret[c][1] \in {"deadline", "canceled"}

=============================================================================
