------------------------------ MODULE DNSFraming ------------------------------
(***************************************************************************)
(* The stream framing of dnsOverTCPTLSResolver.trySync in                  *)
(* src/internal/engine/internal/oonet/dns.go: a query longer than         *)
(* math.MaxUint16 is refused, any other is written after a 2-byte          *)
(* big-endian length, and the reply is read back the same way: a 2-byte    *)
(* header, then as many bytes as it says.                                  *)
(*                                                                         *)
(* A query is abstracted to its length.  The query comes from the codec    *)
(* of the DNSOverTLSResolver, which a user may replace (its Codec field),  *)
(* so any length can reach trySync.  The state records one framed query.   *)
(***************************************************************************)
EXTENDS Naturals, Sequences, Bitwise

CONSTANT QueryLens   \* values of len(query) handed to trySync

MaxUint16 == 2^16 - 1

\* byte(x): the low eight bits of x.
Byte(x) == x & 255

\* (mutant) The math.MaxUint16 check is missing: every query is written.
Frame_noCheck(len) ==
    [err |-> "none", header |-> <<Byte(shiftR(len, 8)), Byte(len)>>, body |-> len]

\* trySync, before the Write: errDNSOverTCPTLSQueryTooLong for a query
\* that does not fit, else buf = byte(len>>8), byte(len), query.
Frame(len) ==
    IF len > MaxUint16
      THEN [err |-> "errDNSOverTCPTLSQueryTooLong", header |-> <<>>, body |-> 0]
      ELSE [err |-> "none", header |-> <<Byte(shiftR(len, 8)), Byte(len)>>,
            body |-> len]

\* trySync, after io.ReadFull of the header: int(header[0])<<8 | int(header[1]).
PrefixLength(header) == (header[1] * 2^8) | header[2]

VARIABLE framed   \* <<[len, out]>> once trySync framed a query, else <<>>

Init == framed = <<>>

WriteQuery(len) ==
    /\ framed = <<>>
    /\ framed' = <<[len |-> len, out |-> Frame(len)]>>

Next == \E len \in QueryLens : WriteQuery(len)

Spec == Init /\ [][Next]_framed

-----------------------------------------------------------------------------

\* RFC 1035 4.2.2, which the framing implements: the server, reading the
\* 2-byte prefix trySync wrote, reads exactly the query that follows it;
\* and trySync refuses a query only when no 2-byte prefix can express its
\* length (the largest prefix is <<255, 255>>), so every query the
\* protocol can carry is sent.
FrameRoundTrips ==
    \A i \in DOMAIN framed :
        LET f == framed[i]
        IN  /\ f.out.err = "none" =>
                  /\ PrefixLength(f.out.header) = f.len
                  /\ f.out.body = f.len
            /\ f.out.err # "none" =>
                  f.len > PrefixLength(<<255, 255>>)

=============================================================================
