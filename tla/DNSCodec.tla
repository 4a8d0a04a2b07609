------------------------------- MODULE DNSCodec -------------------------------
(***************************************************************************)
(* The DNS codec dnsMiekgCodec of src/internal/engine/internal/oonet/      *)
(* dns.go: the EDNS0 padding length EncodeLookupHostRequest adds to a      *)
(* query, and the reply dispatch of DecodeLookupHostResponse.              *)
(*                                                                         *)
(* A query is abstracted to its packed length before padding; a reply to  *)
(* its response code and its answer records, each a record type and an    *)
(* address.  The state records one encode and one decode call, with its   *)
(* input taken from the bounded sets, so every input is checked once.      *)
(***************************************************************************)
EXTENDS Integers, Sequences

CONSTANTS
    UintModulus,    \* 2^w for Go's w-bit uint
    QueryLens,      \* packed lengths query.Len() the encoder may see
    Addrs,          \* addresses carried by answer records
    MaxAnswers      \* longest answer section enumerated

\* Go's uint is 64 bits wide; a multiple of 128 below that gives the same
\* residues modulo 128, which is all the padding arithmetic keeps.
ASSUME /\ UintModulus % 128 = 0
       /\ QueryLens \subseteq 0 .. UintModulus - 5

desiredBlockSize == 128
PaddingOptionHeader == 4    \* option code and length of EDNS0_PADDING

QTypes     == {"A", "AAAA"}
RecTypes   == {"A", "AAAA", "CNAME"}
\* "Unpackable" stands for bytes on which reply.Unpack fails.
Rcodes     == {"Success", "NameError", "ServerFailure", "Refused", "Unpackable"}
Answer     == [type : RecTypes, ip : Addrs]
Replies    == [rcode : Rcodes,
               answer : UNION {[1 .. n -> Answer] : n \in 0 .. MaxAnswers}]
Errors     == {"none", "unpack", "ErrDNSNoSuchHost",
               "ErrDNSServerTemporarilyMisbehaving", "ErrDNSServerMisbehaving",
               "ErrDNSNoAsnwerFromDNSServer"}

-----------------------------------------------------------------------------
(* EncodeLookupHostRequest                                                 *)

\* Go's % on signed ints truncates toward zero.
GoRem(a, b) == IF a >= 0 THEN a % b ELSE -((-a) % b)

\* (mutant) The same expression evaluated on signed ints.
PaddingRemainder_signed(len) ==
    GoRem(desiredBlockSize - (len + PaddingOptionHeader), desiredBlockSize)

\* remainder := (desiredBlockSize - uint(query.Len()+4)) % desiredBlockSize,
\* with the subtraction wrapping around modulo 2^w.
PaddingRemainder(len) ==
    ((desiredBlockSize - (len + PaddingOptionHeader)) % UintModulus)
        % desiredBlockSize

\* The length of the packed query once the padding option is appended.
PaddedLen(len) == len + PaddingOptionHeader + PaddingRemainder(len)

-----------------------------------------------------------------------------
(* DecodeLookupHostResponse                                                *)

\* (mutant) The record's type is appended instead of its address.
RECURSIVE CollectAddrs_type(_, _)
CollectAddrs_type(qtype, answers) ==
    IF answers = <<>> THEN <<>>
    ELSE LET rr == Head(answers)
             rest == CollectAddrs_type(qtype, Tail(answers))
         IN IF rr.type = qtype THEN <<rr.type>> \o rest ELSE rest

\* The loop over reply.Answer keeping the records of the queried type.
RECURSIVE CollectAddrs(_, _)
CollectAddrs(qtype, answers) ==
    IF answers = <<>> THEN <<>>
    ELSE LET rr == Head(answers)
             rest == CollectAddrs(qtype, Tail(answers))
         IN IF rr.type = qtype THEN <<rr.ip>> \o rest ELSE rest

Decoded(addrs, err) == [addrs |-> addrs, err |-> err]

\* (mutant) The "// fallthrough" comment taken literally: a success reply
\* falls through into the default case.
DecodeLookupHostResponse_fallthrough(qtype, reply) ==
    IF reply.rcode = "Unpackable" THEN Decoded(<<>>, "unpack")
    ELSE CASE reply.rcode = "NameError"
                -> Decoded(<<>>, "ErrDNSNoSuchHost")
           [] reply.rcode = "ServerFailure"
                -> Decoded(<<>>, "ErrDNSServerTemporarilyMisbehaving")
           [] OTHER
                -> Decoded(<<>>, "ErrDNSServerMisbehaving")

DecodeLookupHostResponse(qtype, reply) ==
    IF reply.rcode = "Unpackable" THEN Decoded(<<>>, "unpack")
    ELSE CASE reply.rcode = "NameError"
                -> Decoded(<<>>, "ErrDNSNoSuchHost")
           [] reply.rcode = "ServerFailure"
                -> Decoded(<<>>, "ErrDNSServerTemporarilyMisbehaving")
           [] reply.rcode # "Success"
                -> Decoded(<<>>, "ErrDNSServerMisbehaving")
           [] OTHER
                -> LET addrs == CollectAddrs(qtype, reply.answer)
                   IN IF Len(addrs) <= 0
                        THEN Decoded(<<>>, "ErrDNSNoAsnwerFromDNSServer")
                        ELSE Decoded(addrs, "none")

-----------------------------------------------------------------------------

VARIABLES
    encoded,   \* <<[len, padded]>> of the last EncodeLookupHostRequest, or <<>>
    decoded    \* <<[qtype, reply, out]>> of the last DecodeLookupHostResponse

vars == <<encoded, decoded>>

TypeOK ==
    /\ encoded \in Seq([len : QueryLens, padded : Int])
    /\ decoded \in Seq([qtype : QTypes, reply : Replies,
                         out : [addrs : Seq(Addrs), err : Errors]])
    /\ Len(encoded) <= 1 /\ Len(decoded) <= 1

Init ==
    /\ encoded = <<>>
    /\ decoded = <<>>

EncodeLookupHostRequest(len) ==
    /\ encoded = <<>>
    /\ encoded' = <<[len |-> len, padded |-> PaddedLen(len)]>>
    /\ UNCHANGED decoded

Decode(qtype, reply) ==
    /\ decoded = <<>>
    /\ decoded' = <<[qtype |-> qtype, reply |-> reply,
                     out |-> DecodeLookupHostResponse(qtype, reply)]>>
    /\ UNCHANGED encoded

Next ==
    \/ \E len \in QueryLens : EncodeLookupHostRequest(len)
    \/ \E t \in QTypes, r \in Replies : Decode(t, r)

Spec == Init /\ [][Next]_vars

-----------------------------------------------------------------------------
(* Properties, against reference definitions taken from RFC 8467 and the   *)
(* error contract of spec section 4.2.                                     *)

\* RFC 8467 4.1: the padded query is the shortest multiple of 128 octets
\* that holds the query and the padding option header.  The code gets
\* there through uint wrap-around when the query exceeds 124 octets.
RefPaddedLen(len) ==
    CHOOSE p \in len + PaddingOptionHeader
                 .. len + PaddingOptionHeader + desiredBlockSize - 1 :
        p % desiredBlockSize = 0

PaddingFillsBlock ==
    \A i \in DOMAIN encoded :
        /\ PaddingRemainder(encoded[i].len) \in 0 .. desiredBlockSize - 1
        /\ encoded[i].padded = RefPaddedLen(encoded[i].len)

\* Spec 4.2: a name error is "no such host", a server failure is "server
\* misbehaving (temporary)", a success yields exactly the answer records
\* of the queried type, in order, or "no answer" if there are none; any
\* other code is "server misbehaving".  Addresses and an error never
\* come together.
RefDecode(qtype, reply) ==
    LET own == SelectSeq(reply.answer, LAMBDA rr : rr.type = qtype)
    IN  CASE reply.rcode = "Success" /\ own # <<>>
               -> Decoded([i \in 1 .. Len(own) |-> own[i].ip], "none")
          [] reply.rcode = "Success"
               -> Decoded(<<>>, "ErrDNSNoAsnwerFromDNSServer")
          [] reply.rcode = "NameError"
               -> Decoded(<<>>, "ErrDNSNoSuchHost")
          [] reply.rcode = "ServerFailure"
               -> Decoded(<<>>, "ErrDNSServerTemporarilyMisbehaving")
          [] OTHER
               -> Decoded(<<>>, "ErrDNSServerMisbehaving")

DecodeMatchesContract ==
    \A i \in DOMAIN decoded :
        decoded[i].reply.rcode # "Unpackable" =>
            decoded[i].out = RefDecode(decoded[i].qtype, decoded[i].reply)

=============================================================================
