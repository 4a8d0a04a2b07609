----------------------------- MODULE MCSequential -----------------------------
(***************************************************************************)
(* The components that share no state with the others, checked in one TLC  *)
(* run: the DNS codec, the generic resolver's merge, the netxlite          *)
(* decorator chain, the measurement database records, the mlablocate      *)
(* client, the Telegram summary, the stream framing of trySync, the       *)
(* resolver-backed QUIC dialer, and the single-use QUIC dialer with its    *)
(* concurrent callers.  Each behaviour runs one of them, chosen in Init    *)
(* and kept in `which`; the others keep their initial state.  The         *)
(* reachable states are the disjoint union of each component's own.        *)
(***************************************************************************)
EXTENDS Naturals

VARIABLES
    which,
    encoded, decoded,                                   \* DNSCodec
    gstep, ground, gret,                                \* GenericResolver
    call, depth, dir, arg, val, innerArgs, logged,      \* ResolverChain
    rMem, rRow, mMem, mRow, files, refused,             \* MeasurementDB
    calls,                                              \* MLabLocate
    ran, summary,                                       \* TelegramSummary
    framed,                                             \* DNSFraming
    dpc, req, callerCfg, cands, tried, dret,            \* QUICDialerResolver
    ctxDone, idleClosed,
    sess, mu, upc, seen, uret                           \* QUICSingleUse

\* Every packed length a single-question query with the EDNS0 OPT record
\* can have (12-byte header, a 1..255-byte name, type and class, 11-byte
\* OPT record), and every reply of up to two answers over two addresses.
Enc == INSTANCE DNSCodec WITH UintModulus <- 2^16,
                                QueryLens <- 12 + 4 + 11 + 1 .. 12 + 4 + 11 + 255,
                                Addrs <- {"a1", "a2"}, MaxAnswers <- 2

\* One LookupHost over a transport that may fail in encoding, time out or
\* be reset, or return any reply with at most one answer record.
Merge == INSTANCE GenericResolver WITH Addrs <- {"a1", "a2"},
                                       TransportErrs <- {"encode", "timeout", "reset"},
                                       step <- gstep, round <- ground, ret <- gret

\* One call of each operation for an ASCII name, an internationalised name
\* and its A-label form, a name idna.ToASCII rejects, and an IPv4 and an
\* IPv6 literal, over the system or the null resolver.
ChainHosts == {"example.com", "bücher.example", "xn--bcher-kva.example",
               "xn--a.example", "1.1.1.1", "::1"}
Chain == INSTANCE ResolverChain WITH
    Hosts <- ChainHosts,
    ToASCII <- [h \in ChainHosts |->
                  CASE h = "bücher.example" -> "xn--bcher-kva.example"
                    [] h = "xn--a.example"  -> "idna-error"
                    [] OTHER                -> h],
    IDNAError <- "idna-error",
    IPLiterals <- {"1.1.1.1", "::1"},
    IPv6Literals <- {"::1"},
    SystemErrs <- {"dns_nxdomain_error", "generic_timeout_error"}

\* Two measurements of a multi-input report sharing one report file; os.Stat
\* reports only exists or not-exist.
DB == INSTANCE MeasurementDB WITH Measurements <- {"m1", "m2"},
                                  Temps <- {"t1"},
                                  TempOf <- [m \in {"m1", "m2"} |-> "t1"],
                                  StatCanFail <- FALSE

\* Queries for two tools.
Locate == INSTANCE MLabLocate WITH Tools <- {"neubot", "dash"}

\* Two Telegram measurements.
Telegram == INSTANCE TelegramSummary WITH Measurements <- {"r1", "r2"}

\* Queries of every length around the edges of the 2-byte prefix: empty,
\* one and two bytes of length, the padded sizes, the largest that fits,
\* and the first two that do not.
Framing == INSTANCE DNSFraming WITH
    QueryLens <- {0, 255, 256, 384, 65535, 65536, 65536 + 384}

\* One DialContext for an IP literal, a name with two addresses and a name
\* the system resolver cannot resolve, on the web and the DoQ port, on a
\* port that does not parse, or with no port, through the system or the
\* null resolver; each dial may fail to listen or time out in the
\* handshake, and the context may be canceled between dials.
QUICHosts == {"1.1.1.1", "dns.google", "nx.invalid"}
QUIC == INSTANCE QUICDialerResolver WITH
    Hosts <- QUICHosts,
    IPs <- {"1.1.1.1", "8.8.8.8", "8.8.4.4"},
    Resolve <- [h \in QUICHosts |->
                  IF h = "nx.invalid"
                    THEN [addrs |-> <<>>, err |-> "dns_nxdomain_error"]
                    ELSE [addrs |-> <<"8.8.8.8", "8.8.4.4">>, err |-> "none"]],
    Ports <- {"443", "8853", "xyz"},
    Names <- {"sni.example"},
    BadPorts <- {"xyz"}

\* Three goroutines calling DialContext on one single-use dialer.
SingleUse == INSTANCE QUICSingleUse WITH Callers <- {"d1", "d2", "d3"},
                                         Sess <- "s1"

Components == {"codec", "merge", "chain", "db", "locate", "telegram", "framing", "quic", "singleuse"}

allVars == <<which, encoded, decoded, gstep, ground, gret, call, depth, dir, arg, val, innerArgs, logged, rMem, rRow, mMem, mRow, files, refused, calls, ran, summary, framed, dpc, req, callerCfg, cands, tried, dret, ctxDone, idleClosed, sess, mu, upc, seen, uret>>

Init ==
    /\ which \in Components
    /\ Enc!Init /\ Merge!Init /\ Chain!Init /\ DB!Init
    /\ Locate!Init /\ Telegram!Init /\ Framing!Init /\ QUIC!Init /\ SingleUse!Init

\* A step of the chosen component; the others keep their state.
Next ==
    \/ /\ which = "codec" /\ Enc!Next
       /\ UNCHANGED <<which, gstep, ground, gret, call, depth, dir, arg, val, innerArgs, logged, rMem, rRow, mMem, mRow, files, refused, calls, ran, summary, framed, dpc, req, callerCfg, cands, tried, dret, ctxDone, idleClosed, sess, mu, upc, seen, uret>>
    \/ /\ which = "merge" /\ Merge!Next
       /\ UNCHANGED <<which, encoded, decoded, call, depth, dir, arg, val, innerArgs, logged, rMem, rRow, mMem, mRow, files, refused, calls, ran, summary, framed, dpc, req, callerCfg, cands, tried, dret, ctxDone, idleClosed, sess, mu, upc, seen, uret>>
    \/ /\ which = "chain" /\ Chain!Next
       /\ UNCHANGED <<which, encoded, decoded, gstep, ground, gret, rMem, rRow, mMem, mRow, files, refused, calls, ran, summary, framed, dpc, req, callerCfg, cands, tried, dret, ctxDone, idleClosed, sess, mu, upc, seen, uret>>
    \/ /\ which = "db" /\ DB!Next
       /\ UNCHANGED <<which, encoded, decoded, gstep, ground, gret, call, depth, dir, arg, val, innerArgs, logged, calls, ran, summary, framed, dpc, req, callerCfg, cands, tried, dret, ctxDone, idleClosed, sess, mu, upc, seen, uret>>
    \/ /\ which = "locate" /\ Locate!Next
       /\ UNCHANGED <<which, encoded, decoded, gstep, ground, gret, call, depth, dir, arg, val, innerArgs, logged, rMem, rRow, mMem, mRow, files, refused, ran, summary, framed, dpc, req, callerCfg, cands, tried, dret, ctxDone, idleClosed, sess, mu, upc, seen, uret>>
    \/ /\ which = "telegram" /\ Telegram!Next
       /\ UNCHANGED <<which, encoded, decoded, gstep, ground, gret, call, depth, dir, arg, val, innerArgs, logged, rMem, rRow, mMem, mRow, files, refused, calls, framed, dpc, req, callerCfg, cands, tried, dret, ctxDone, idleClosed, sess, mu, upc, seen, uret>>
    \/ /\ which = "framing" /\ Framing!Next
       /\ UNCHANGED <<which, encoded, decoded, gstep, ground, gret, call, depth, dir, arg, val, innerArgs, logged, rMem, rRow, mMem, mRow, files, refused, calls, ran, summary, dpc, req, callerCfg, cands, tried, dret, ctxDone, idleClosed, sess, mu, upc, seen, uret>>
    \/ /\ which = "quic" /\ QUIC!Next
       /\ UNCHANGED <<which, encoded, decoded, gstep, ground, gret, call, depth, dir, arg, val, innerArgs, logged, rMem, rRow, mMem, mRow, files, refused, calls, ran, summary, framed, sess, mu, upc, seen, uret>>
    \/ /\ which = "singleuse" /\ SingleUse!Next
       /\ UNCHANGED <<which, encoded, decoded, gstep, ground, gret, call, depth, dir, arg, val, innerArgs, logged, rMem, rRow, mMem, mRow, files, refused, calls, ran, summary, framed, dpc, req, callerCfg, cands, tried, dret, ctxDone, idleClosed>>

Spec == Init /\ [][Next]_allVars

-----------------------------------------------------------------------------
(* The properties of each component, as stated in its module.              *)

\* DNSCodec: the encode and decode records have their types.
CodecTypeOK == Enc!TypeOK

\* DNSCodec: EncodeLookupHostRequest pads to the next multiple of 128.
PaddingFillsBlock == Enc!PaddingFillsBlock

\* DNSCodec: DecodeLookupHostResponse follows the error contract of 4.2.
DecodeMatchesContract == Enc!DecodeMatchesContract

\* GenericResolver: the rounds and the result have their types.
MergeTypeOK == Merge!TypeOK

\* GenericResolver: LookupHost reports the A error when both rounds fail,
\* else A then AAAA addresses, or no answer.
MergePolicy == Merge!MergePolicy

\* ResolverChain: every layer's host and result have their types.
ChainTypeOK == Chain!TypeOK

\* ResolverChain: IP literals never reach the concrete resolver.
IPLiteralNeverResolved == Chain!IPLiteralNeverResolved

\* ResolverChain: the concrete resolver only sees ASCII names.
InnerSeesASCII == Chain!InnerSeesASCII

\* ResolverChain: the concrete resolver's errors are classified once.
InnerErrorsClassifiedOnce == Chain!InnerErrorsClassifiedOnce

\* MeasurementDB: structs, rows and files have their types.
DBTypeOK == DB!TypeOK

\* MeasurementDB: the stored report path always leads to the report file.
ReportNeverLost == DB!ReportNeverLost

\* MLabLocate: Query returns a result with an FQDN or an error.
ResultOrError == Locate!ResultOrError

\* TelegramSummary: IsAnomaly is exactly the reported blocking.
AnomalyIffBlocked == Telegram!AnomalyIffBlocked

\* DNSFraming: the 2-byte prefix trySync writes gives back the query's
\* length, and only queries no prefix can express are refused.
FrameRoundTrips == Framing!FrameRoundTrips

\* QUICSingleUse: however the callers interleave, only one DialContext
\* returns the session and every other one ErrNoConnReuse.
SessionHandedOutOnce == SingleUse!SessionHandedOutOnce

=============================================================================
