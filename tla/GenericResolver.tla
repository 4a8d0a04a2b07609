---------------------------- MODULE GenericResolver ----------------------------
(***************************************************************************)
(* dnsGenericResolver of src/internal/engine/internal/oonet/dns.go over an *)
(* abstract transport: LookupHost runs asyncLookupHost for A, waits for    *)
(* its result, then for AAAA, and merges the two.  Each round is           *)
(* doLookupHost: encode, round trip, decode; its outcome is either the     *)
(* transport's error or what the codec decodes.  Here the transport may    *)
(* return any error or any reply, so every pair of round outcomes occurs.  *)
(***************************************************************************)
EXTENDS Integers, Sequences

CONSTANTS
    Addrs,          \* addresses a reply can carry
    TransportErrs   \* errors a round trip can return

Codec == INSTANCE DNSCodec WITH UintModulus <- 128, QueryLens <- {},
                                MaxAnswers <- 1, encoded <- <<>>,
                                decoded <- <<>>

QTypes == Codec!QTypes
Errors == Codec!Errors \cup TransportErrs
NoAnswer == "ErrDNSNoAsnwerFromDNSServer"

-----------------------------------------------------------------------------

\* (mutant) When both rounds fail, the AAAA error is the one reported.
LookupHostMerge_lastErr(rA, rAAAA) ==
    IF rA.err # "none" /\ rAAAA.err # "none"
      THEN Codec!Decoded(<<>>, rAAAA.err)
      ELSE LET addrs == rA.addrs \o rAAAA.addrs
           IN IF Len(addrs) < 1 THEN Codec!Decoded(<<>>, NoAnswer)
                                ELSE Codec!Decoded(addrs, "none")

\* The tail of dnsGenericResolver.LookupHost once both replies are in.
LookupHostMerge(rA, rAAAA) ==
    IF rA.err # "none" /\ rAAAA.err # "none"
      THEN Codec!Decoded(<<>>, rA.err)
      ELSE LET addrs == rA.addrs \o rAAAA.addrs
           IN IF Len(addrs) < 1 THEN Codec!Decoded(<<>>, NoAnswer)
                                ELSE Codec!Decoded(addrs, "none")

\* doLookupHost after the round trip: its error, or the decoded reply.
RoundOutcome(qtype, err, reply) ==
    IF err # "none" THEN Codec!Decoded(<<>>, err)
                    ELSE Codec!DecodeLookupHostResponse(qtype, reply)

-----------------------------------------------------------------------------

VARIABLES
    step,     \* "A", "AAAA" (round in progress) or "done"
    round,    \* round[t]: outcome of doLookupHost for query type t
    ret       \* <<outcome>> once LookupHost has returned, else <<>>

vars == <<step, round, ret>>

Outcomes == [addrs : Seq(Addrs), err : Errors]

TypeOK ==
    /\ step \in QTypes \cup {"done"}
    /\ round \in [QTypes -> Outcomes]
    /\ ret \in Seq(Outcomes) /\ Len(ret) <= 1

Init ==
    /\ step = "A"
    /\ round = [t \in QTypes |-> Codec!Decoded(<<>>, "none")]
    /\ ret = <<>>

\* asyncLookupHost for the current query type, and the receive from its
\* channel: the transport returns an error or a reply.
asyncLookupHost(err, reply) ==
    /\ step \in QTypes
    /\ round' = [round EXCEPT ![step] = RoundOutcome(step, err, reply)]
    /\ step' = IF step = "A" THEN "AAAA" ELSE "done"
    /\ ret' = IF step = "A" THEN ret
              ELSE <<LookupHostMerge(round["A"],
                                     RoundOutcome(step, err, reply))>>

Next ==
    \/ \E e \in TransportErrs : asyncLookupHost(e, Codec!Decoded(<<>>, e))
    \/ \E r \in Codec!Replies : asyncLookupHost("none", r)

Spec == Init /\ [][Next]_vars

-----------------------------------------------------------------------------

\* Spec 4.4 and section 8: when both queries fail the A error is returned,
\* never the AAAA one; otherwise the result is the A addresses followed by
\* the AAAA addresses, none dropped or duplicated, and "no answer" when
\* there are none.  Addresses and an error never come together.
MergePolicy ==
    \A i \in DOMAIN ret :
        LET rA == round["A"]  rB == round["AAAA"]  out == ret[i]
        IN  /\ (out.addrs = <<>>) # (out.err = "none")
            /\ rA.err # "none" /\ rB.err # "none" => out.err = rA.err
            /\ rA.err = "none" \/ rB.err = "none" =>
                   \/ out.addrs = rA.addrs \o rB.addrs
                   \/ rA.addrs \o rB.addrs = <<>> /\ out.err = NoAnswer

=============================================================================
