----------------------------- MODULE OONetResolver -----------------------------
(***************************************************************************)
(* The DNSResolver facade of src/internal/engine/internal/oonet/dns.go and *)
(* the underlying resolvers it may be given: net.Resolver, a               *)
(* DNSOverHTTPSResolver (DoH) or a DNSOverTLSResolver (DoT).               *)
(*                                                                         *)
(* Callers run DNSResolver.LookupHost concurrently, each with the monitor  *)
(* of its own context; closers run DNSResolver.CloseIdleConnections.  The  *)
(* DoT resolver creates its inner dnsOverTCPTLSResolver lazily under r.mu; *)
(* its lookups are abstracted to the LookupHostSpec outcomes that          *)
(* DNSOverTCPTLS is shown to implement.  A DoH lookup is the generic       *)
(* resolver's two rounds over the HTTPS round trip, each round's HTTP      *)
(* outcome chosen from a small set.                                        *)
(***************************************************************************)
EXTENDS Naturals, Sequences, FiniteSets

CONSTANTS
    Callers,      \* goroutines calling LookupHost
    Closers,      \* goroutines calling CloseIdleConnections
    Kinds,        \* underlying resolvers: subset of {"net", "DoH", "DoT"}
    OwnsClient,   \* DNSOverHTTPSResolver.OwnsClient
    Addrs,        \* addresses a lookup may return
    LookupErrs    \* errors of net.Resolver and of the DoT transport

ASSUME /\ Kinds \subseteq {"net", "DoH", "DoT"} /\ OwnsClient \in BOOLEAN
       /\ Callers \cap Closers = {}

None == "none"

\* The errors DNSOverHTTPSResolver.roundTrip returns untranslated.
DoHErrs == {"NewRequest", "Do", "ReadAll"}

GR == INSTANCE GenericResolver WITH TransportErrs <- DoHErrs,
                                    step <- "done", round <- <<>>, ret <- <<>>

\* What the HTTP exchange of one round may do: fail to build the request,
\* fail in client.Do, answer with another status, answer 200 with or
\* without the right content type, or fail while reading the body.
HTTPOutcomes == {"badURL", "doErr", "non200", "ok", "okWrongCType", "bodyErr"}

\* (mutant) A non-200 status is reported as a fresh error outside the
\* taxonomy instead of ErrDNSServerTemporarilyMisbehaving.
DoHroundTrip_rawStatus(o, reply) ==
    CASE o = "badURL" -> [err |-> "NewRequest", reply |-> reply]
      [] o = "doErr"  -> [err |-> "Do", reply |-> reply]
      [] o = "non200" -> [err |-> "HTTPStatus", reply |-> reply]
      [] o = "bodyErr" -> [err |-> "ReadAll", reply |-> reply]
      [] OTHER        -> [err |-> None, reply |-> reply]

\* DNSOverHTTPSResolver.roundTrip: its error, or the body as the reply.  A
\* wrong content type is only logged.
DoHroundTrip(o, reply) ==
    CASE o = "badURL" -> [err |-> "NewRequest", reply |-> reply]
      [] o = "doErr"  -> [err |-> "Do", reply |-> reply]
      [] o = "non200" -> [err |-> "ErrDNSServerTemporarilyMisbehaving",
                          reply |-> reply]
      [] o = "bodyErr" -> [err |-> "ReadAll", reply |-> reply]
      [] OTHER        -> [err |-> None, reply |-> reply]

\* What the inner dnsOverTCPTLSResolver.roundTrip of a DoT resolver may
\* return for one query: a transport error, or a reply.
DoTroundTrip(e, reply) == [err |-> e, reply |-> reply]

\* The round trips of the DNSResolver's underlying resolver, DoH or DoT,
\* that can end with the reply bytes `reply`.
RoundTrips(k, reply) ==
    IF k = "DoH" THEN {DoHroundTrip(o, reply) : o \in HTTPOutcomes}
                 ELSE {DoTroundTrip(e, reply) : e \in LookupErrs \cup {None}}

\* What a round trip's outcome hinges on: the transport's error, else the
\* rcode of the reply (history for the properties only).
RoundCause(rt) == IF rt.err # None THEN rt.err ELSE rt.reply.rcode

\* The monitor calls of one doLookupHost round: EncodeLookupHostRequest
\* calls OnDNSSendQuery before it packs the query, and
\* DecodeLookupHostResponse calls OnDNSRecvReply once reply.Unpack has
\* succeeded; after a round-trip error nothing is decoded.
RoundEvents(qtype, rt) ==
    <<[ev |-> "send", qtype |-> qtype]>>
      \o IF rt.err = None /\ rt.reply.rcode # "Unpackable"
            THEN <<[ev |-> "recv", qtype |-> qtype]>> ELSE <<>>

\* dnsGenericResolver.LookupHost: the A round runs to its result before
\* the AAAA round starts, so their monitor calls do not overlap.
LookupEvents(rtA, rtB) == RoundEvents("A", rtA) \o RoundEvents("AAAA", rtB)

\* The outcomes of net.Resolver.LookupHost, as LookupHostSpec allows them.
AbstractOutcomes ==
    {GR!Codec!Decoded(<<a>>, None) : a \in Addrs}
        \cup {GR!Codec!Decoded(<<>>, e) : e \in LookupErrs}

Errors == GR!Errors \cup LookupErrs

\* The text of an error: ErrDNSServerTemporarilyMisbehaving and
\* ErrDNSServerMisbehaving are two errors.New("server misbehaving").
ErrorText(e) ==
    IF e \in {"ErrDNSServerTemporarilyMisbehaving", "ErrDNSServerMisbehaving"}
      THEN "server misbehaving" ELSE e

-----------------------------------------------------------------------------

VARIABLES
    kind,      \* the UnderlyingResolver this DNSResolver was built with
    pc,        \* pc[c]: where caller c is in LookupHost
    res,       \* res[c]: what the underlying LookupHost returned
    ret,       \* ret[c]: what DNSResolver.LookupHost returned
    events,    \* events[c]: the calls c's context monitor received
    mu,        \* DNSOverTLSResolver.mu: its holder, or None
    reso,      \* DNSOverTLSResolver.reso: "nil" or "set"
    made,      \* how many dnsOverTCPTLSResolver the DoT resolver built
    cpc,       \* cpc[k]: where closer k is in CloseIdleConnections
    seen,      \* seen[k]: the reso closer k read under the lock
    forwarded, \* closers whose call reached the transport's idle close
    roundA     \* roundA[c]: history, RoundCause of c's A round trip (DoH, DoT)

vars == <<kind, pc, res, ret, events, mu, reso, made, cpc, seen, forwarded,
          roundA>>

Outcomes == [addrs : Seq(Addrs), err : Errors]
Returns  == [addrs : Seq(Addrs), err : Errors, wrapped : BOOLEAN]
Events   == [ev : {"start"}] \cup [ev : {"done"}, out : Returns]
              \cup [ev : {"send", "recv"}, qtype : GR!QTypes]

TypeOK ==
    /\ kind \in Kinds
    /\ pc \in [Callers -> {"idle", "lock", "check", "create", "unlock",
                           "inner", "wrap", "done"}]
    /\ res \in [Callers -> Outcomes]
    /\ ret \in [Callers -> Seq(Returns)]
    /\ events \in [Callers -> Seq(Events)]
    /\ mu \in Callers \cup Closers \cup {None}
    /\ reso \in {"nil", "set"}
    /\ made \in 0 .. Cardinality(Callers)
    /\ cpc \in [Closers -> {"idle", "lock", "unlock", "done"}]
    /\ seen \in [Closers -> {"nil", "set"}]
    /\ forwarded \subseteq Closers
    /\ roundA \in [Callers -> Errors \cup GR!Codec!Rcodes]

Init ==
    /\ kind \in Kinds
    /\ pc = [c \in Callers |-> "idle"]
    /\ res = [c \in Callers |-> GR!Codec!Decoded(<<>>, None)]
    /\ ret = [c \in Callers |-> <<>>]
    /\ events = [c \in Callers |-> <<>>]
    /\ mu = None
    /\ reso = "nil"
    /\ made = 0
    /\ cpc = [k \in Closers |-> "idle"]
    /\ seen = [k \in Closers |-> "nil"]
    /\ forwarded = {}
    /\ roundA = [c \in Callers |-> None]

-----------------------------------------------------------------------------
(* DNSResolver.LookupHost                                                  *)

\* OnDNSLookupHostStart, then the call of the underlying LookupHost.
lookupStart(c) ==
    /\ pc[c] = "idle"
    /\ events' = [events EXCEPT ![c] = Append(@, [ev |-> "start"])]
    /\ pc' = [pc EXCEPT ![c] = IF kind = "DoT" THEN "lock" ELSE "inner"]
    /\ UNCHANGED <<kind, res, ret, mu, reso, made, cpc, seen, forwarded, roundA>>

\* (mutant) The error is rebuilt from its text before it is wrapped
\* (errors.New(err.Error())), so only the text survives and the rebuilt
\* error equals whichever error has that text.
lookupDone_byText(c) ==
    /\ pc[c] = "wrap"
    /\ LET e   == CHOOSE x \in Errors : ErrorText(x) = ErrorText(res[c].err)
           out == [addrs |-> res[c].addrs, err |-> e, wrapped |-> e # None]
       IN  /\ ret' = [ret EXCEPT ![c] = <<out>>]
           /\ events' = [events EXCEPT ![c] = Append(@, [ev |-> "done", out |-> out])]
    /\ pc' = [pc EXCEPT ![c] = "done"]
    /\ UNCHANGED <<kind, res, mu, reso, made, cpc, seen, forwarded, roundA>>

\* A non-nil error becomes &ErrLookupHost{err}; OnDNSLookupHostDone gets
\* what is returned.
lookupDone(c) ==
    /\ pc[c] = "wrap"
    /\ LET out == [addrs |-> res[c].addrs, err |-> res[c].err,
                   wrapped |-> res[c].err # None]
       IN  /\ ret' = [ret EXCEPT ![c] = <<out>>]
           /\ events' = [events EXCEPT ![c] = Append(@, [ev |-> "done", out |-> out])]
    /\ pc' = [pc EXCEPT ![c] = "done"]
    /\ UNCHANGED <<kind, res, mu, reso, made, cpc, seen, forwarded, roundA>>

\* The underlying LookupHost returns: net.Resolver an outcome
\* LookupHostSpec allows, without calling the monitor; DoH and the DoT
\* resolver's dnsOverTCPTLSResolver the merge of the A and the AAAA round
\* of dnsGenericResolver over their round trips, whose codec calls the
\* monitor of the caller's context.
innerLookup(c) ==
    /\ pc[c] = "inner"
    /\ \/ /\ kind = "net"
          /\ \E o \in AbstractOutcomes : res' = [res EXCEPT ![c] = o]
          /\ UNCHANGED <<events, roundA>>
       \/ /\ kind \in {"DoH", "DoT"}
          /\ \E rA, rB \in GR!Codec!Replies :
             \E rtA \in RoundTrips(kind, rA), rtB \in RoundTrips(kind, rB) :
                /\ res' = [res EXCEPT ![c] =
                       GR!LookupHostMerge(GR!RoundOutcome("A", rtA.err, rtA.reply),
                                          GR!RoundOutcome("AAAA", rtB.err, rtB.reply))]
                /\ events' = [events EXCEPT ![c] = @ \o LookupEvents(rtA, rtB)]
                /\ roundA' = [roundA EXCEPT ![c] = RoundCause(rtA)]
    /\ pc' = [pc EXCEPT ![c] = "wrap"]
    /\ UNCHANGED <<kind, ret, mu, reso, made, cpc, seen, forwarded>>

-----------------------------------------------------------------------------
(* DNSOverTLSResolver.LookupHost: the lazy creation of r.reso             *)

\* (mutant) r.mu.Lock() is missing.
dotLock_noMutex(c) ==
    /\ pc[c] = "lock"
    /\ pc' = [pc EXCEPT ![c] = "check"]
    /\ UNCHANGED <<kind, res, ret, events, mu, reso, made, cpc, seen, forwarded, roundA>>

\* r.mu.Lock()
dotLock(c) ==
    /\ pc[c] = "lock"
    /\ mu = None
    /\ mu' = c
    /\ pc' = [pc EXCEPT ![c] = "check"]
    /\ UNCHANGED <<kind, res, ret, events, reso, made, cpc, seen, forwarded, roundA>>

\* (mutant) An early return when r.reso is already set skips the Unlock.
dotCheck_earlyReturn(c) ==
    /\ pc[c] = "check"
    /\ pc' = [pc EXCEPT ![c] = IF reso = "nil" THEN "create" ELSE "inner"]
    /\ UNCHANGED <<kind, res, ret, events, mu, reso, made, cpc, seen, forwarded, roundA>>

\* if r.reso == nil {
dotCheck(c) ==
    /\ pc[c] = "check"
    /\ pc' = [pc EXCEPT ![c] = IF reso = "nil" THEN "create" ELSE "unlock"]
    /\ UNCHANGED <<kind, res, ret, events, mu, reso, made, cpc, seen, forwarded, roundA>>

\* r.reso = &dnsOverTCPTLSResolver{...}
dotCreate(c) ==
    /\ pc[c] = "create"
    /\ reso' = "set"
    /\ made' = made + 1
    /\ pc' = [pc EXCEPT ![c] = "unlock"]
    /\ UNCHANGED <<kind, res, ret, events, mu, cpc, seen, forwarded, roundA>>

\* r.mu.Unlock(), then r.reso.LookupHost.
dotUnlock(c) ==
    /\ pc[c] = "unlock"
    /\ mu' = None
    /\ pc' = [pc EXCEPT ![c] = "inner"]
    /\ UNCHANGED <<kind, res, ret, events, reso, made, cpc, seen, forwarded, roundA>>

-----------------------------------------------------------------------------
(* DNSResolver.CloseIdleConnections                                        *)

\* The underlying resolver is asserted to dnsIdleConnectionsCloser.
\* net.Resolver has no CloseIdleConnections, and DNSOverHTTPSResolver only
\* a CloseIdleConnection, so for both the call does nothing.  The DoT
\* resolver takes r.mu to read r.reso.
closeStart(k) ==
    /\ cpc[k] = "idle"
    /\ \/ /\ kind = "DoT"
          /\ cpc' = [cpc EXCEPT ![k] = "lock"]
       \/ /\ kind \in {"net", "DoH"}
          /\ cpc' = [cpc EXCEPT ![k] = "done"]
    /\ UNCHANGED <<kind, pc, res, ret, events, mu, reso, made, seen, forwarded, roundA>>

\* r.mu.Lock(); reso := r.reso
dotCloseLock(k) ==
    /\ cpc[k] = "lock"
    /\ mu = None
    /\ mu' = k
    /\ seen' = [seen EXCEPT ![k] = reso]
    /\ cpc' = [cpc EXCEPT ![k] = "unlock"]
    /\ UNCHANGED <<kind, pc, res, ret, events, reso, made, forwarded, roundA>>

\* r.mu.Unlock(); if reso != nil { reso.CloseIdleConnections() }
dotCloseUnlock(k) ==
    /\ cpc[k] = "unlock"
    /\ mu' = None
    /\ forwarded' = IF seen[k] = "set" THEN forwarded \cup {k} ELSE forwarded
    /\ cpc' = [cpc EXCEPT ![k] = "done"]
    /\ UNCHANGED <<kind, pc, res, ret, events, reso, made, seen, roundA>>

-----------------------------------------------------------------------------

Caller(c) ==
    \/ lookupStart(c) \/ innerLookup(c) \/ lookupDone(c)
    \/ dotCheck(c) \/ dotCreate(c) \/ dotUnlock(c)

Closer(k) == closeStart(k) \/ dotCloseUnlock(k)

Next ==
    \/ \E c \in Callers : Caller(c) \/ dotLock(c)
    \/ \E k \in Closers : Closer(k) \/ dotCloseLock(k)

\* Goroutines are scheduled; sync.Mutex hands the lock to a waiter that
\* keeps asking (its starvation mode), hence strong fairness on locking.
Fairness ==
    /\ \A c \in Callers : WF_vars(Caller(c)) /\ SF_vars(dotLock(c))
    /\ \A k \in Closers : WF_vars(Closer(k)) /\ SF_vars(dotCloseLock(k))

Spec == Init /\ [][Next]_vars /\ Fairness

-----------------------------------------------------------------------------
(* Properties                                                              *)

\* DNSOverTLSResolver's comment: the struct serialises the queries on one
\* connection.  Concurrent first LookupHost calls build the inner
\* dnsOverTCPTLSResolver (and so its connection and lock) only once, and
\* no caller or closer works on another instance.
SingleInnerResolver ==
    /\ made <= 1
    /\ \A c \in Callers : pc[c] = "inner" /\ kind = "DoT" => reso = "set"

\* The error the cause of an A round names, written from RFC 1035 and
\* the transport's contract rather than from the codec: the transport's
\* own error, else the reply's rcode; a success names "no answer" (its
\* addresses would have made the lookup succeed).
CauseOf(cause) ==
    CASE cause = "Unpackable"    -> "unpack"
      [] cause = "NameError"     -> "ErrDNSNoSuchHost"
      [] cause = "ServerFailure" -> "ErrDNSServerTemporarilyMisbehaving"
      [] cause = "Success"       -> "ErrDNSNoAsnwerFromDNSServer"
      [] cause = "Refused"       -> "ErrDNSServerMisbehaving"
      [] OTHER                   -> cause

\* dns.go 173-180: a SERVFAIL (or a DoH status other than 200) and any
\* other unexpected rcode fail with two errors of the same text, so only
\* their identity tells them apart.  Through the codec, the DoH transport,
\* the A-first merge of dnsGenericResolver and DNSResolver's ErrLookupHost
\* wrapping, a failed DoH or DoT lookup returns, by identity, the error
\* that names the cause of its A round.
ErrorNamesCause ==
    \A c \in Callers :
        pc[c] = "done" /\ kind # "net" /\ ret[c][1].err # None =>
            /\ ret[c][1].wrapped
            /\ ret[c][1].err = CauseOf(roundA[c])

\* Spec section 5: callers queue on the lock and every LookupHost and every
\* CloseIdleConnections returns.
AllCallsReturn ==
    <>(/\ \A c \in Callers : pc[c] = "done"
       /\ \A k \in Closers : cpc[k] = "done")

\* DNSOverHTTPSResolver's OwnsClient comment: "If it owns the Client, then
\* calling CloseIdleConnections will cause the code to really close idle
\* connections".  Every idle close on a resolver that owns its client
\* reaches the client.
OwnedClientIdleClosed ==
    \A k \in Closers :
        cpc[k] = "done" /\ kind = "DoH" /\ OwnsClient => k \in forwarded

=============================================================================
