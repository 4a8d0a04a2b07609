---------------------------- MODULE DNSOverTCPTLS ----------------------------
(***************************************************************************)
(* The persistent-connection DNS transport dnsOverTCPTLSResolver of        *)
(* src/internal/engine/internal/oonet/dns.go.                              *)
(*                                                                         *)
(* Every caller goroutine runs roundTrip: it bumps the atomic waiter       *)
(* counter `users`, parks on the mutex `mu`, and then either performs the  *)
(* CloseIdleConnections sentinel check (query == nil) or the locked        *)
(* round trip `do`: maybeDial, try, and, on a redial hint, forceDial and a *)
(* second try.  `try` runs the I/O (trySync) in a background goroutine,    *)
(* here a "worker" <<q, k>> for the k-th try of querier q, and selects     *)
(* between its result and the caller's context expiring.                   *)
(*                                                                         *)
(* The server side of each connection is a FIFO of the queries written on  *)
(* it whose replies have not been read yet: the server answers in order,   *)
(* and a reply carries no information about which goroutine reads it.     *)
(*                                                                         *)
(* Each querier runs dnsOverTCPTLSResolver.LookupHost, i.e. the generic    *)
(* resolver's two rounds, A then AAAA, each one roundTrip whose reply is   *)
(* decoded by the codec, and the merge of the two.  A query is abstracted  *)
(* to <<host, qtype>>, where each querier resolves the host named after    *)
(* it; the server answers a query from the zone Zone.                      *)
(***************************************************************************)
EXTENDS Integers, Sequences, FiniteSets

CONSTANTS
    Queriers,       \* goroutines calling roundTrip with a query
    Closers,        \* goroutines calling CloseIdleConnections
    Nil,            \* no goroutine / no reply
    Zone            \* the <<host, qtype>> pairs the server has a record for

ASSUME /\ Queriers # {}
       /\ Queriers \cap Closers = {}
       /\ Nil \notin Queriers \cup Closers
       /\ Zone \subseteq Queriers \X {"A", "AAAA"}

Callers == Queriers \cup Closers

\* Errors roundTrip can return: a failed dial, a second redial hint, a
\* failed read, the context's error.
TransportErrs == {"dial", "redial", "read", "ctx"}
ErrKinds == {"ok"} \cup TransportErrs

GR == INSTANCE GenericResolver WITH Addrs <- Zone, step <- "done",
                                    round <- <<>>, ret <- <<>>
QTypes == GR!QTypes

\* Each roundTrip dials at most twice (maybeDial, then forceDial on a
\* redial hint), so this many connection identities are ever needed.
ConnIds == 1 .. 2 * Cardinality(Queriers \X QTypes)
NoConn  == 0                                   \* dl.conn == nil

\* The k-th background goroutine (asyncTry) of querier q's round t.
Workers == Queriers \X QTypes \X {1, 2}

\* The server's reply to the query <<h, t>>: the record of the zone, if any.
ServerReply(query) ==
    [rcode  |-> "Success",
     answer |-> IF query \in Zone
                  THEN <<[type |-> query[2], ip |-> query]>> ELSE <<>>]

VARIABLES
    pc,        \* control point of each caller goroutine
    users,     \* r.users, the atomic count of goroutines parked on r.mu
    mu,        \* holder of r.mu, or Nil
    conn,      \* r.conn, the persistent connection, or NoConn
    nextConn,  \* identity the next successful dial returns
    dead,      \* connections closed by us or broken by the network
    wire,      \* wire[c]: queries written on c whose reply is still unread
    qtype,     \* qtype[q]: the round (A or AAAA) querier q is in
    attempt,   \* number of tries the querier has started in `do`
    canceled,  \* canceled[q]: ctx.Done() of q is closed (DNSOverTCPTLSFaults)
    wk,        \* wk[w]: control point of background goroutine w
    wout,      \* wout[w]: the result w sent on its buffered channel
    result,    \* result[q][t]: what q's roundTrip of round t returned
    rounds,    \* rounds[q][t]: what q's doLookupHost of round t returned
    lookup     \* lookup[q]: <<what LookupHost returned>>, or <<>>

vars == <<pc, users, mu, conn, nextConn, dead, wire, qtype, attempt,
          canceled, wk, wout, result, rounds, lookup>>

Res(e, r) == [err |-> e, reply |-> r]
NoRes     == Res("none", Nil)
Queries   == Queriers \X QTypes
Outcome   == [addrs : Seq(Zone), err : GR!Errors]

TypeOK ==
    /\ pc \in [Callers -> {"idle", "lock", "rtriplocked", "maybeDial",
                           "dial", "try", "select", "redial", "done"}]
    /\ users \in 0 .. Cardinality(Callers)
    /\ mu \in Callers \cup {Nil}
    /\ conn \in ConnIds \cup {NoConn}
    /\ nextConn \in 1 .. Cardinality(ConnIds) + 1
    /\ dead \subseteq ConnIds
    /\ wire \in [ConnIds -> Seq(Queries)]
    /\ qtype \in [Queriers -> QTypes]
    /\ attempt \in [Queriers -> 0 .. 2]
    /\ canceled \in [Queriers -> BOOLEAN]
    /\ wk \in [Workers -> {"none", "write", "read", "done", "panicked"}]
    /\ wout \in [Workers -> [err : ErrKinds \cup {"none"},
                             reply : Queries \cup {Nil}]]
    /\ result \in [Queriers -> [QTypes -> [err : ErrKinds \cup {"none"},
                                          reply : Queries \cup {Nil}]]]
    /\ rounds \in [Queriers -> [QTypes -> Outcome]]
    /\ lookup \in [Queriers -> Seq(Outcome)]
    /\ \A q \in Queriers : Len(lookup[q]) <= 1

Init ==
    /\ pc = [c \in Callers |-> "idle"]
    /\ users = 0
    /\ mu = Nil
    /\ conn = NoConn
    /\ nextConn = 1
    /\ dead = {}
    /\ wire = [c \in ConnIds |-> <<>>]
    /\ qtype = [q \in Queriers |-> "A"]
    /\ attempt = [q \in Queriers |-> 0]
    /\ canceled = [q \in Queriers |-> FALSE]
    /\ wk = [w \in Workers |-> "none"]
    /\ wout = [w \in Workers |-> NoRes]
    /\ result = [q \in Queriers |-> [t \in QTypes |-> NoRes]]
    /\ rounds = [q \in Queriers |-> [t \in QTypes |-> GR!Codec!Decoded(<<>>, "none")]]
    /\ lookup = [q \in Queriers |-> <<>>]

-----------------------------------------------------------------------------
(* The caller side of roundTrip / rtriplocked / do.                        *)

\* What the background goroutines and the LookupHost layer own.
wvars  == <<wk, wout>>
lhvars == <<qtype, rounds, lookup>>

\* roundTrip: atomic.AddInt32(&r.users, 1) before parking on the mutex.
\* For a querier this is doLookupHost of its current round, started by
\* asyncLookupHost once the previous round's result has been received.
roundTripEnter(c) ==
    /\ pc[c] = "idle"
    /\ users' = users + 1
    /\ pc' = [pc EXCEPT ![c] = "lock"]
    /\ UNCHANGED <<mu, conn, nextConn, dead, wire, attempt, canceled, wvars,
                   result, lhvars>>

\* CloseIdleConnections: r.roundTrip(context.Background(), nil), the nil
\* query being the sentinel rtriplocked dispatches on.
CloseIdleConnections(k) == k \in Closers /\ roundTripEnter(k)

\* (mutant) Lock without waiting for the holder to release it.
roundTripLock_noGuard(c) ==
    /\ pc[c] = "lock"
    /\ mu' = c
    /\ users' = users - 1
    /\ pc' = [pc EXCEPT ![c] = IF c \in Closers THEN "rtriplocked"
                                               ELSE "maybeDial"]
    /\ UNCHANGED <<conn, nextConn, dead, wire, attempt, canceled, wvars,
                   result, lhvars>>

\* roundTrip: r.mu.Lock(), then atomic.AddInt32(&r.users, -1); rtriplocked
\* dispatches on the nil sentinel of CloseIdleConnections.
roundTripLock(c) ==
    /\ pc[c] = "lock"
    /\ mu = Nil
    /\ mu' = c
    /\ users' = users - 1
    /\ pc' = [pc EXCEPT ![c] = IF c \in Closers THEN "rtriplocked"
                                               ELSE "maybeDial"]
    /\ UNCHANGED <<conn, nextConn, dead, wire, attempt, canceled, wvars,
                   result, lhvars>>

\* rtriplocked with query == nil: close the connection only if nobody is
\* parked on the mutex, then r.mu.Unlock().
rtriplockedClose(c) ==
    /\ pc[c] = "rtriplocked"
    /\ IF users = 0 /\ conn # NoConn
         THEN /\ dead' = dead \cup {conn}
              /\ conn' = NoConn
         ELSE UNCHANGED <<dead, conn>>
    /\ mu' = Nil
    /\ pc' = [pc EXCEPT ![c] = "done"]
    /\ UNCHANGED <<users, nextConn, wire, attempt, canceled, wvars, result,
                   lhvars>>

\* The rest of doLookupHost and LookupHost once roundTrip has returned
\* (e, r) for q's round: the reply is decoded; after the A round the AAAA
\* round starts with a fresh `do`, after the AAAA round the two are merged
\* and LookupHost returns.
EndRound(q, e, r) ==
    LET t   == qtype[q]
        out == GR!RoundOutcome(t, IF e = "ok" THEN "none" ELSE e,
                               IF e = "ok" THEN ServerReply(r) ELSE Nil)
    IN  /\ result' = [result EXCEPT ![q][t] = Res(e, r)]
        /\ rounds' = [rounds EXCEPT ![q][t] = out]
        /\ IF t = "A"
             THEN /\ qtype' = [qtype EXCEPT ![q] = "AAAA"]
                  /\ attempt' = [attempt EXCEPT ![q] = 0]
                  /\ pc' = [pc EXCEPT ![q] = "idle"]
                  /\ UNCHANGED lookup
             ELSE /\ lookup' = [lookup EXCEPT ![q] =
                                  <<GR!LookupHostMerge(rounds[q]["A"], out)>>]
                  /\ pc' = [pc EXCEPT ![q] = "done"]
                  /\ UNCHANGED <<qtype, attempt>>

\* (mutant) An error path that returns without r.mu.Unlock().
Return_noUnlock(q, e, r) ==
    /\ mu' = IF e = "dial" THEN mu ELSE Nil
    /\ EndRound(q, e, r)

\* roundTrip returns (e, r) to querier q and unlocks r.mu.
Return(q, e, r) ==
    /\ mu' = Nil
    /\ EndRound(q, e, r)

\* maybeDial: dial only if dl.conn == nil.
maybeDial(q) ==
    /\ pc[q] = "maybeDial"
    /\ pc' = [pc EXCEPT ![q] = IF conn # NoConn THEN "try" ELSE "dial"]
    /\ UNCHANGED <<users, mu, conn, nextConn, dead, wire, attempt, canceled,
                   wvars, result, lhvars>>

\* forceDial, first half: close and forget the current connection.
forceDialClose(q) ==
    /\ pc[q] = "redial"
    /\ IF conn # NoConn THEN dead' = dead \cup {conn} ELSE UNCHANGED dead
    /\ conn' = NoConn
    /\ pc' = [pc EXCEPT ![q] = "dial"]
    /\ UNCHANGED <<users, mu, nextConn, wire, attempt, canceled, wvars,
                   result, lhvars>>

\* (mutant) The dial error is ignored and the try goes ahead.
dial_ignoreErr(q) ==
    /\ pc[q] = "dial"
    /\ \/ /\ conn' = nextConn
          /\ nextConn' = nextConn + 1
       \/ UNCHANGED <<conn, nextConn>>
    /\ pc' = [pc EXCEPT ![q] = "try"]
    /\ UNCHANGED <<users, mu, dead, wire, attempt, canceled, wvars, result,
                   lhvars>>

\* forceDial, second half: dl.dial either yields a fresh connection or an
\* error, which `do` returns at once.
dial(q) ==
    /\ pc[q] = "dial"
    /\ \/ /\ conn' = nextConn
          /\ nextConn' = nextConn + 1
          /\ pc' = [pc EXCEPT ![q] = "try"]
          /\ UNCHANGED <<mu, attempt, result, lhvars>>
       \/ /\ Return(q, "dial", Nil)
          /\ UNCHANGED <<conn, nextConn>>
    /\ UNCHANGED <<users, dead, wire, canceled, wvars>>

\* try: start asyncTry in a background goroutine.
try(q) ==
    /\ pc[q] = "try"
    /\ attempt' = [attempt EXCEPT ![q] = @ + 1]
    /\ wk' = [wk EXCEPT ![<<q, qtype[q], attempt[q] + 1>>] = "write"]
    /\ pc' = [pc EXCEPT ![q] = "select"]
    /\ UNCHANGED <<users, mu, conn, nextConn, dead, wire, canceled, wout,
                   result, lhvars>>

\* (mutant) Every redial hint redials, not only the first one.
tryResult_alwaysRedial(q) ==
    /\ pc[q] = "select"
    /\ LET w   == <<q, qtype[q], attempt[q]>>
           out == wout[w]
       IN /\ wk[w] = "done"
          /\ IF out.err = "redial"
               THEN /\ pc' = [pc EXCEPT ![q] = "redial"]
                    /\ UNCHANGED <<mu, attempt, result, lhvars>>
               ELSE Return(q, out.err, out.reply)
    /\ UNCHANGED <<users, conn, nextConn, dead, wire, canceled, wvars>>

\* try's select receives the worker's result; `do` then returns it, or on
\* a redial hint after the first try goes on to forceDial.
tryResult(q) ==
    /\ pc[q] = "select"
    /\ LET w   == <<q, qtype[q], attempt[q]>>
           out == wout[w]
       IN /\ wk[w] = "done"
          /\ IF out.err = "redial" /\ attempt[q] = 1
               THEN /\ pc' = [pc EXCEPT ![q] = "redial"]
                    /\ UNCHANGED <<mu, attempt, result, lhvars>>
               ELSE Return(q, out.err, out.reply)
    /\ UNCHANGED <<users, conn, nextConn, dead, wire, canceled, wvars>>

-----------------------------------------------------------------------------
(* The background goroutine asyncTry / trySync.  It reads the field        *)
(* dl.conn afresh at the Write and at the Read; it holds no lock of its    *)
(* own, so the value it reads is whatever the field holds at that moment.  *)

\* try: ch := make(chan *dnsOverTCPTLSResult, 1) // buffer!
TryChanCap == 1

\* asyncTry's ch <- &out completes when the channel has room or, without
\* a buffer, when try's select is still waiting for this goroutine.
CanSend(w) ==
    \/ TryChanCap > 0
    \/ pc[w[1]] = "select" /\ <<w[1], qtype[w[1]], attempt[w[1]]>> = w

\* asyncTry: trySync returned (e, r), which is sent on ch.
Finish(w, e, r) ==
    /\ CanSend(w)
    /\ wk' = [wk EXCEPT ![w] = "done"]
    /\ wout' = [wout EXCEPT ![w] = Res(e, r)]

\* trySync uses dl.conn while it is nil: the receiver of the deferred
\* SetDeadline is evaluated at the defer statement, and Write and ReadFull read
\* the field again; a method call on a nil interface panics.  The panic is not
\* recovered in the goroutine, so it ends the process: no goroutine takes
\* another step (see Next).
Panic(w) ==
    /\ wk' = [wk EXCEPT ![w] = "panicked"]
    /\ UNCHANGED <<wout, dead, wire>>

\* trySync, the length-prefixed Write: a failure is a redial hint.
trySyncWrite(w) ==
    /\ wk[w] = "write"
    /\ IF conn = NoConn
         THEN Panic(w)
         ELSE \/ /\ conn \notin dead
                 /\ wire' = [wire EXCEPT ![conn] = Append(@, <<w[1], w[2]>>)]
                 /\ wk' = [wk EXCEPT ![w] = "read"]
                 /\ UNCHANGED <<wout, dead>>
              \/ /\ dead' = dead \cup {conn}   \* reset, or already closed
                 /\ Finish(w, "redial", Nil)
                 /\ UNCHANGED wire
    /\ UNCHANGED <<pc, users, mu, conn, nextConn, attempt, canceled, result,
                   lhvars>>

\* (mutant) Only the 2-byte header is consumed; the body stays queued.
trySyncRead_headerOnly(w) ==
    /\ wk[w] = "read"
    /\ IF conn = NoConn
         THEN Panic(w)
         ELSE \/ /\ conn \notin dead
                 /\ wire[conn] # <<>>
                 /\ Finish(w, "ok", Head(wire[conn]))
                 /\ UNCHANGED <<dead, wire>>
              \/ /\ dead' = dead \cup {conn}
                 /\ Finish(w, "read", Nil)
                 /\ UNCHANGED wire
    /\ UNCHANGED <<pc, users, mu, conn, nextConn, attempt, canceled, result,
                   lhvars>>

\* trySync, the two io.ReadFull calls: the next reply the server sends on
\* the connection, or an error.  A reset loses the connection with every
\* reply still due on it.  A read that hits trySync's 10-second deadline
\* is trySyncReadTimeout of DNSOverTCPTLSFaults.
trySyncRead(w) ==
    /\ wk[w] = "read"
    /\ IF conn = NoConn
         THEN Panic(w)
         ELSE \/ /\ conn \notin dead
                 /\ wire[conn] # <<>>
                 /\ wire' = [wire EXCEPT ![conn] = Tail(@)]
                 /\ Finish(w, "ok", Head(wire[conn]))
                 /\ UNCHANGED dead
              \/ /\ dead' = dead \cup {conn}
                 /\ Finish(w, "read", Nil)
                 /\ UNCHANGED wire
    /\ UNCHANGED <<pc, users, mu, conn, nextConn, attempt, canceled, result,
                   lhvars>>

-----------------------------------------------------------------------------

\* The steps of caller c other than acquiring the mutex.
CallerStep(c) ==
    \/ c \in Queriers /\ roundTripEnter(c)
    \/ CloseIdleConnections(c) \/ rtriplockedClose(c)
    \/ maybeDial(c) \/ forceDialClose(c) \/ dial(c) \/ try(c)
    \/ tryResult(c)

Caller(c) == roundTripLock(c) \/ CallerStep(c)

\* A goroutine has panicked, and the process with it.
Crashed == \E w \in Workers : wk[w] = "panicked"

Next ==
    /\ ~Crashed
    /\ \/ \E c \in Closers : Caller(c)
       \/ \E q \in Queriers : Caller(q)
       \/ \E w \in Workers : trySyncWrite(w) \/ trySyncRead(w)

\* Go runs every runnable goroutine eventually; sync.Mutex switches to
\* starvation mode, so a goroutine that keeps finding it free gets it.
Fairness ==
    /\ \A c \in Callers :
          /\ WF_vars(CallerStep(c))
          /\ SF_vars(roundTripLock(c))
    /\ \A w \in Workers : WF_vars(trySyncWrite(w) \/ trySyncRead(w))

Spec == Init /\ [][Next]_vars /\ Fairness

-----------------------------------------------------------------------------
(* Properties                                                              *)

\* Goroutines currently doing I/O on the connection.
InFlight == {w \in Workers : wk[w] \in {"write", "read"}}

\* Spec section 3: "the TCP/TLS resolver never allows two queries to use
\* the connection concurrently".  Only the goroutine started by the
\* current holder of r.mu does I/O, and never two at once.
ExclusiveConnUse ==
    \A w \in InFlight : /\ mu = w[1]
                        /\ InFlight = {w}

\* A successful roundTrip returns the reply to its own query, not the
\* reply to some other query sent earlier on the same connection.
ReplyToOwnQuery ==
    \A q \in Queriers, t \in QTypes :
        result[q][t].err = "ok" => result[q][t].reply = <<q, t>>

\* trySync never dereferences a nil dl.conn (which would panic and bring
\* the whole process down).
NoNilConnDeref ==
    \A w \in Workers : wk[w] # "panicked"

\* Spec sections 3 and 4.4: LookupHost(ctx, h) returns, once, either a non-empty
\* list of addresses of h and no error, or an error and no addresses.
\* The whole stack (roundTrip over the shared connection, decode, merge)
\* is shown to implement LookupHostSpec under the mapping that exposes
\* what each querier's LookupHost returned.
LH == INSTANCE LookupHostSpec WITH
          Callers <- Queriers, ret <- lookup,
          AddrsOf <- LAMBDA h : {a \in Zone : a[1] = h},
          Errs <- GR!Errors \ {"none"}, MaxAddrs <- 2
LookupHostContract == LH!Spec

\* Every roundTrip and CloseIdleConnections call eventually returns.
AllCallsReturn == <>(\A c \in Callers : pc[c] = "done")

=============================================================================
