# TLA+ models of the probe-cli DNS resolution layer

This directory holds TLA+ specifications of the DNS resolution and dialing
layer of probe-cli, the TLC configurations that check them, and
`PROJECT.json`, which lists the components, the runs, the mutants, the
source lines each definition models, the findings and the hazards.

## 1. Inventory

### Components and their state

| Component | Source | State kept | Operations |
|---|---|---|---|
| DNS-over-TCP/TLS transport `dnsOverTCPTLSResolver` | `src/internal/engine/internal/oonet/dns.go` 472-671 | `conn` (lazy persistent connection), `mu` (mutex), `users` (atomic waiter count) | `roundTrip`, `rtriplocked`, `do`, `maybeDial`, `forceDial`, `try`, `asyncTry`/`trySync`, `CloseIdleConnections` |
| `DNSOverTLSResolver` wrapper | dns.go 399-470 | `reso` created lazily under its own `mu` | `LookupHost`, `CloseIdleConnections` |
| Generic dual-query resolver `dnsGenericResolver` | dns.go 333-392 | none (per call: two result channels) | `LookupHost` (A round trip, then AAAA round trip, merge), `asyncLookupHost`, `doLookupHost` |
| DNS codec `dnsMiekgCodec` | dns.go 101-219 | none | `EncodeLookupHostRequest` (EDNS0 padding to 128 bytes), `DecodeLookupHostResponse` (rcode dispatch, answer filter) |
| DNS-over-HTTPS `DNSOverHTTPSResolver` | dns.go 221-325 | none | `LookupHost`, `roundTrip` (one POST), `CloseIdleConnection` |
| `DNSResolver` (monitor + `ErrLookupHost` wrapping) | dns.go 48-99 | none | `LookupHost`, `CloseIdleConnections` |
| netxlite decorator chain: `resolverIDNA`, `resolverLogger`, `resolverShortCircuitIPAddr`, `resolverErrWrapper`, `nullResolver` | `src/unnamed/part_004` 1-410, `src/unnamed/part_001` | none | `LookupHost`, `LookupHTTPS`, `LookupNS`, `CloseIdleConnections` |
| System resolver `resolverSystem` | part_004 74-147, part_001 43-108 | none (per call: detached goroutine, two 1-slot channels, timeout context) | `LookupHost` |
| QUIC dialer chain (resolver, error wrapper, concrete dialer), single-use dialer | only tests in `src/unnamed/part_000`; modelled from spec 4.6-4.8 | single-use: the session until handed out, a mutex | `DialContext`, `CloseIdleConnections`, context cancel |
| Measurement database records | `src/unnamed/part_003` | `Result`, `Measurement` rows in memory and in the database | `Finished`, `Failed`, `Done`, `UploadFailed`, `UploadSucceeded`, `AddToResult` |
| mlablocate client, Telegram summary, API cache test generator, CI | remaining files | none | one HTTP GET / pure mapping / code generation |

### How they interact

A caller invokes `LookupHost` on the outermost wrapper; each wrapper calls
the one inside it. For DNS-over-TLS the chain ends in
`DNSOverTLSResolver` → `dnsOverTCPTLSResolver.LookupHost` →
`dnsGenericResolver.LookupHost`, which calls the transport's `roundTrip`
twice (A, then AAAA, each in a goroutine that the caller waits for) with
queries built by the codec and decodes each reply. All callers of one
resolver share its single connection: `roundTrip` serialises them on a
mutex, and `CloseIdleConnections` goes through the same `roundTrip` with a
nil query as a sentinel. `try` runs the socket I/O in a background
goroutine so that the caller can return when its context expires.

### What is hard

* Interleavings of caller goroutines on the shared connection, of the
  idle close with parked callers, and of abandoned background goroutines
  with the next lock holder.
* Failures: dial errors, writes that fail (the redial hint, retried once on
  a fresh connection), reads that fail by reset or by the 10-second
  deadline, context expiry.
* Ordering: the server answers in order on one connection, and nothing
  matches a reply to the query it answers.
* Time-outs: the system resolver abandons its lookup goroutine; `try`
  abandons its I/O goroutine.

### What makes each component correct

* TCP/TLS transport: at most one goroutine does I/O on the connection, and
  only the lock holder's; each query gets its own reply; the idle close
  closes exactly when there is a connection and no parked caller; a redial
  happens at most once per round trip, and only after a first attempt
  that failed with the redial hint; every call returns; nothing
  dereferences a nil connection.
* Generic resolver: never both addresses and an error; the A error when
  both queries fail; the concatenation otherwise.
* `DNSResolver`: the returned error keeps the identity of the cause of
  the A round, since two of the codec's errors share one text.
* Codec: the padded query is a multiple of 128 bytes; rcode dispatch and
  type filtering as in the code.
* Decorator chain: IP literals never reach the inner resolver; errors are
  wrapped exactly once; IDNA failure stops the call.
* System resolver: the lookup goroutine never blocks for ever; a result
  that arrives after the timeout is never returned.
* Single-use dialer: exactly one success, then `ErrNoConnReuse` for ever.
* Database records: a finished result is never finished twice; the
  in-memory record and the stored row agree after every call.

## 2. Plan and status

1. `DNSOverTCPTLS` (done): the TCP/TLS transport with callers, the idle
   close, background I/O goroutines and a FIFO server per connection,
   running the whole `LookupHost` of each caller.
2. `DNSCodec` (done): padding arithmetic in `uint` and the decode dispatch,
   checked against reference definitions.
3. `GenericResolver` and `LookupHostSpec` (done): the A-then-AAAA merge
   and the abstract `LookupHost` promise `DNSOverTCPTLS` refines.
4. `ResolverSystem` (done): the timeout race with the detached goroutine.
5. `ResolverChain` (done): the netxlite decorator chain.
6. `OONetResolver` (done): the `DNSResolver` facade over net, DoH and DoT,
   with the DoT wrapper's lazy creation and the DoH round trip.
7. `MeasurementDB` (done): the record life cycle with failing updates,
   renames and restarts.
8. `MLabLocate`, `TelegramSummary` (done): one query; the Telegram
   nettest's `Run` and its summary mapping.
9. `DNSFraming` (done): `trySync`'s 2-byte length prefix.
10. `QUICDialerResolver`, `QUICSingleUse` (done, from the spec): the
   resolver-backed QUIC dialer and the single-use dialer. Their code is
   not in the repository, only their tests.
   `QUICDialerResolver` also covers the concrete dialer's stages
   (port, IP, UDP listen, handshake), the error-wrapping dialer's
   classification, cancellation and `CloseIdleConnections`.
11. Left: the logging QUIC dialer and the QUIC listener's UDP connection
   wrappers (code not in the repository, forwarding only), the API cache
   generator and CI. A refinement of `OONetResolver`'s DoT lookups
   by `DNSOverTCPTLS` is stated through `LookupHostSpec` rather than by
   composing the two modules, which would not fit a five-minute search.

## 3. Modules and how they correspond to the code

### `DNSOverTCPTLS`

Constants: `Queriers` (goroutines doing one `LookupHost` each, i.e. an A
and an AAAA `roundTrip`), `Zone` (the `<<host, qtype>>` records the server
holds; querier `q` resolves the host named `q`),
`Closers` (goroutines calling `CloseIdleConnections`), `Nil`.
`DNSOverTCPTLSFaults` extends it with the faults the violation runs need:
`CtxCanExpire` (the queriers' contexts may expire: `ctxExpire`, and
`tryCtxDone`, the select's `ctx.Done` branch, dns.go 623-624) and
`ReadTimeouts` (a read may hit its 10-second deadline while the reply is
still coming: `trySyncReadTimeout`, dns.go 655-662). Its `SpecFaults` is
the base specification with these actions added.

State: `pc` (control point of each caller), `users`, `mu`, `conn` (0 is
nil; connections are numbered in dial order), `dead` (closed or broken
connections), `wire[c]` (queries written on `c` whose reply has not been
read), `attempt` (tries started by `do`), `canceled`, `wk`/`wout` (state
and channel value of each background goroutine `<<q, t, k>>`: the k-th
try of q's round t), `qtype` (the round a querier is in), `result`
(what each round's `roundTrip` returned), `rounds` (what each round's
`doLookupHost` returned after decoding) and `lookup` (what `LookupHost`
returned).

`TryChanCap` is the buffer of `try`'s channel (`make(..., 1) // buffer!`,
dns.go 618), and `CanSend` is when `asyncTry`'s send on it completes: at
once while there is room, else only when `try` is at its select for the
same try.

`Panic` is `trySync` using `dl.conn` while it is nil: the receiver of the
deferred `SetDeadline` is evaluated at the `defer` statement (line 645),
and `Write` and `ReadFull` read the field again. The panic is not
recovered, so it ends the process: `Crashed` holds and `Next` allows no
further step of any goroutine.

Actions: `roundTripEnter` (users+1; a closer enters through
`CloseIdleConnections`, which calls `roundTrip` with the nil sentinel), `roundTripLock` (Lock, users-1),
`rtriplockedClose` (sentinel path and Unlock), `maybeDial`,
`forceDialClose` and `dial` (the two halves of `forceDial`, split because
the dial is a suspension point during which `conn` is nil), `try` (start
the goroutine), `tryResult` (the select's result branch and `do`'s redial
decision), `trySyncWrite` and `trySyncRead` (the background goroutine,
which reads the field `conn` afresh at each use, as the code does without
the lock). Reads from a connection return the head of its FIFO: a reply
carries only the identity `<<host, qtype>>` of the query it answers, and
`ServerReply` turns it into the message the server sends (a success with
the zone's record, or with none). `EndRound` is the rest of
`doLookupHost` and `LookupHost` once `roundTrip` has returned: it decodes
with `DNSCodec`'s `DecodeLookupHostResponse`, starts the AAAA round after
the A round, and after the AAAA round merges with `GenericResolver`'s
`LookupHostMerge`. Both are taken in by `INSTANCE`, so the composed model
runs the same operators the component runs check.

Refinement: `LookupHostContract` is `LookupHostSpec!Spec` under the
mapping `ret <- lookup`, `AddrsOf(h) <- the zone's records of h`. The
abstract spec lets each caller return once, with a non-empty list of its
own host's addresses or with an error, and requires (weak fairness) that
it does return.

### `DNSCodec`

Pure operators for `dnsMiekgCodec`. `PaddingRemainder(len)` is line 146
evaluated modulo `UintModulus` (2^16 in the run: any multiple of 128 gives
the residues Go's 64-bit `uint` gives); `PaddedLen` adds the 4-byte option
header. `CollectAddrs` (RECURSIVE) is the loop over `reply.Answer`
keeping records of the queried type; `DecodeLookupHostResponse` is the
`Unpack` failure and the rcode switch (an empty `case RcodeSuccess` does
not fall through in Go). A query is abstracted to its packed length, a
reply to its rcode (with `Unpackable` for bytes `Unpack` rejects) and its
answer records (type, address). The state is one encode and one decode
call whose inputs TLC enumerates. `RefPaddedLen` (RFC 8467: the smallest
multiple of 128 holding query and option header) and `RefDecode` (spec
4.2, with `SelectSeq`) are the reference definitions.

### `GenericResolver` and `LookupHostSpec`

`GenericResolver` holds `LookupHostMerge` (lines 357-368),
`RoundOutcome` (`doLookupHost`: the transport's error or the decoded
reply), and a one-call state machine over an abstract transport that may
return any error or any reply in each round. `LookupHostSpec` is the
abstract promise described above.

Not modelled: the query's bytes and length (the `MaxUint16` check), the
split of a read into header and body, `SetDeadline` other than its nil
dereference.

### `ResolverSystem`

`resolverSystem.LookupHost` (part_004 74-105). Per caller: `pc` (idle,
in the select, done), `ctx` (live, or why Done is closed), the detached
goroutine `g` and its OS result `out`, the two capacity-1 channels as
sequences, `ret`, and `late` (the goroutine sent after Done closed).
Actions: `LookupHost`, the three select cases `selectCtxDone`,
`selectAddrs`, `selectErr` (any ready one may fire, as Go's select picks
at random), `timerFires` (the 15-second `WithTimeout`), `parentCancel`,
`lookupReturns` (the OS call, with no fairness: getaddrinfo may hang) and
`send` (`errch <- err; return` or `addrsch <- addrs`). `ChanCap` is the
buffer size.

### `ResolverChain`

`WrapResolver` (part_004 61-72) as the sequence of layers, outermost
first: `IDNA`, `Logger`, `ShortCircuit`, `ErrWrapper`, the concrete
resolver. One call of `LookupHost`, `LookupHTTPS` or `LookupNS` descends
(`IDNADown`, `LoggerDown`, `ShortCircuitDown`, `ErrWrapperDown`) and its
result climbs back (`LoggerUp`, `ErrWrapperUp`, `PassUp`); `InnerLookup`
hands the call to `SystemLookup` (`resolverSystem`: OS lookup for hosts,
`ErrNoDNSTransport` for HTTPS and NS) or to `NullLookup` (`nullResolver`:
`ErrNoResolver`). State: the host each layer was
handed (`arg`), the result going up (`val`, with each error's base,
failure, operation and wrap count), the hosts the concrete resolver saw,
and the logger's lines. `idna.ToASCII` and `net.ParseIP` are constants
over six hosts. `ClassifyResolverError` and `newErrWrapper` live outside
`src/` and are modelled from spec section 7.

### `OONetResolver`

`DNSResolver` (dns.go 48-99) over `net.Resolver`, DoH or DoT, with
concurrent callers and closers. `lookupStart`/`lookupDone` are the
monitor calls and the `ErrLookupHost` wrapping; `innerLookup` returns, for
net, any outcome `LookupHostSpec` allows, and for DoH and DoT the
`GenericResolver` merge of two rounds over `DoHroundTrip` (dns.go 283-306:
request, `Do`, status, content type, body) or `DoTroundTrip` (a transport
error or any reply: `DNSOverTCPTLS` models that transport). Each round
also calls the caller's monitor (`RoundEvents`): `OnDNSSendQuery` from
`EncodeLookupHostRequest` and, when `reply.Unpack` succeeds,
`OnDNSRecvReply` from `DecodeLookupHostResponse`; `LookupEvents` puts the
A round's calls before the AAAA round's, as `LookupHost` waits for `resA`
before starting AAAA. No property restates this order or the
start/done bracketing of the monitor calls: each is one assignment of
`lookupStart`, `innerLookup` or `lookupDone`. `dotLock`, `dotCheck`, `dotCreate`, `dotUnlock` are the
lazy creation of `r.reso` under `r.mu` (dns.go 431-443); `closeStart`,
`dotCloseLock`, `dotCloseUnlock` are `CloseIdleConnections` through the
`dnsIdleConnectionsCloser` assertion and the DoT wrapper (463-470).

`roundA` is a history variable: `innerLookup` sets it, in the same step,
to what the caller's A round trip hinged on (`RoundCause`: the
transport's error, else the reply's rcode). Nothing else reads it.
`ErrorNamesCause` relates the returned error to that earlier step.
`ErrDNSServerTemporarilyMisbehaving` (SERVFAIL, or a DoH status other
than 200) and `ErrDNSServerMisbehaving` (any other unexpected rcode) are
two `errors.New("server misbehaving")` (`ErrorText`, dns.go 173-180).
Only their identity tells them apart. The property checks that, through
the codec, the DoH transport, the A-first merge and the `ErrLookupHost`
wrapping, a failed lookup returns the error that `CauseOf` names for its
A round. `CauseOf` is written from RFC 1035 and the transport's contract
rather than from the codec. The mutant that rebuilds the error from its
text before wrapping it is caught.

### `MeasurementDB`

`Result` and `Measurement` of part_003. Each method changes the in-memory
struct and then writes the whole struct with `Update`, which may fail
(`UpdateM`): `Finished`, `Failed`, `Done`, `UploadFailed`,
`UploadSucceeded`, `AddToResult` (the `os.Stat` outcome, the rename that
may fail, the new `ReportFilePath`). `Restart` reloads the structs from
the rows; files survive. A path is a file name with the number of
`MeasurementDir` prefixes; two measurements share one report file, the
multi-input case the code's comment names. `MCMeasurementDB` gives the
constants of the two violation runs.

### `MLabLocate` and `TelegramSummary`

`Query` (mlablocate.go 63-98) maps the outcome of each step (request,
`Do`, status, body read) and of `json.Unmarshal` on five kinds of body to
what it returns. A query runs on the client `NewClient` builds or on
`Client{}`, a literal with none of its MANDATORY fields. Its URL has no
scheme and no host, so `client.Do` refuses it before anything is sent
(`StagesOf`). `GetTestKeys` (telegram.go 27-57) maps a test-keys map
whose keys may be absent to the summary. `Run` (telegram.go 13-17) records
the error measurement-kit returns, nil or not; a measurement is summarised
only after it ran. Each module records one call per tool or measurement.

### `DNSFraming`

`Frame` is `trySync` before its `Write` (dns.go 642-651): a query longer
than `math.MaxUint16` gets `errDNSOverTCPTLSQueryTooLong`, any other the
header `byte(len>>8), byte(len)`, taken with `Bitwise`'s `shiftR` and
`&`. `PrefixLength` is the reader's `int(header[0])<<8 | int(header[1])`
(dns.go 660). A query is abstracted to its length; since the codec is
replaceable (the `Codec` field), any length can reach `trySync`.
`FrameRoundTrips` checks RFC 1035 4.2.2: the prefix a reader decodes is
the query's length, and only lengths no prefix can express are refused.

### `QUICDialerResolver` and `QUICSingleUse` (modelled from the spec)

Only the tests of the QUIC dialers are in the repository
(`src/unnamed/part_000`), so these modules follow spec.md 4.6-4.8 and
what those tests pin down, and their map entries are marked
`spec_modelled`. `DialContext` splits `host:port` ("missing port in
address"), resolves (`LookupHost`: an IP literal is its own address, the
null resolver of `NewQUICDialerWithoutResolver` always fails with
`ErrNoResolver`) and returns a lookup error with no dial; `DialAddr` is one
iteration of the loop over the addresses. Each attempt runs the concrete
dialer's stages in the order the tests pin down (`QUICGoDial`: the port
must parse, the address must be an IP, the UDP listen must succeed, the
context must not be canceled, then the handshake succeeds or times out),
and the error-wrapping dialer classifies the raw error once (`ErrWrap`,
`Classify`: `interrupted`, `generic_timeout_error`, `invalid_address`,
`unknown_failure`). `Cancel` is the caller's context being canceled while
the loop runs; `CloseIdleConnections` forwards to the dialer and to the
resolver. `TLSDefaults` fills in
`ServerName` (the host), the ALPN list (`h3` for 443, `dq` for 8853, as
the tests check) and the root CAs where the caller left them unset;
`CallerAfter` is the caller's config afterwards (a clone is defaulted, so
it is unchanged). No property is stated of `QUICDialerResolver`: with
the code absent, a property could only restate the text its definitions
are written from. The module documents that text, and its actions run in
`MCSequential`. `QUICSingleUse` has concurrent callers that take the
mutex, read the session (`suCheck`: `ErrNoConnReuse` if it is gone), clear
it and return it (`suTake`), and unlock.

### `MCSequential`

The codec, the merge, the chain, the database records, the locate client,
the Telegram summary, the framing and the resolver-backed QUIC dialer run
in one goroutine per call and share no state; the single-use QUIC
dialer's concurrent callers share only that dialer.
`MCSequential` instantiates each with its bounds and runs one of them per
behaviour (`which`, chosen in `Init`), so one TLC run checks all of their
properties. The property names are prefixed where two modules share one
(`CodecTypeOK`, `MergeTypeOK`, `ChainTypeOK`, `DBTypeOK`).

## 4. Runs

| Run | Config | Expect | What it shows |
|---|---|---|---|
| `tcptls_reliable` | `MCDNSOverTCPTLS.cfg` | pass | Two `LookupHost` calls and an idle close, no expiring contexts, connections that may reset: exclusive use, own reply, no nil use, all calls return, and the stack implements `LookupHostSpec`. |
| `sequential` | `MCSequential.cfg` | pass | Padding and decode contract of the codec; the A-error-first merge; the chain keeps IP literals and Unicode names from the concrete resolver and classifies its errors once; the stored report path survives failing renames, updates and restarts; `Query` returns an FQDN or the zero result with an error; the Telegram summary flags exactly the reported blocking; the length prefix frames exactly the queries `trySync` does not refuse; the single-use QUIC dialer hands its session to one of three concurrent callers. |
| `system_timeout` | `MCResolverSystem.cfg` | pass | Two lookups whose OS call may hang: every `LookupHost` returns, and every goroutine whose OS call returns exits. |
| `oonet_facade` | `MCOONetResolver.cfg` | pass | Two callers and a closer on each kind of underlying resolver: the DoT inner resolver is built once; a failed lookup returns, by identity, the error that names its A round's cause, although SERVFAIL and other rcodes fail with the same text (`ErrorNamesCause`); every call returns. |
| `tcptls_cancel_exclusive` | `MCDNSOverTCPTLS_Cancel.cfg` (module `MCDNSOverTCPTLSFaults`) | violation | `ExclusiveConnUse`: after `try` returns on `ctx.Done`, the lock is released while the goroutine still does I/O. |
| `tcptls_cancel_nilconn` | `MCDNSOverTCPTLS_Panic.cfg` (module `MCDNSOverTCPTLSFaults`) | violation | `NoNilConnDeref`: the abandoned goroutine meets `conn == nil` after an idle close and panics, which ends the process. |
| `tcptls_late_reply` | `MCDNSOverTCPTLS_Late.cfg` (module `MCDNSOverTCPTLSFaults`) | violation | `LookupHostContract`: after a read deadline the next query reads the late reply to the previous one, and `LookupHost("q2")` returns q1's address. |
| `system_late_result` | `MCResolverSystem_Late.cfg` | violation | `TimeoutFirstReturnsCtxErr`: a result buffered after the context is done can still be returned. |
| `doh_idle_close` | `MCOONetResolver_DoHClose.cfg` | violation | `OwnedClientIdleClosed`: the DoH method is named `CloseIdleConnection`, so the facade's idle close never reaches an owned client. |
| `db_stat_error` | `MCMeasurementDB_Stat.cfg` | violation | `ReportNeverLost`: an `os.Stat` error other than not-exist skips the rename and stores a path where no file is. |
| `db_finish_retry` | `MCMeasurementDB_Finish.cfg` | violation | `FinishRetryPersists`: after `Finished`'s update fails, a retry is refused while the row is unfinished. |

Bounds. TCP/TLS: two queriers and one closer. Two queriers are the least
that can contend for the lock and exchange replies; a closer makes a
third contender, so the waiter counter takes 0, 1 and 2. Each round trip
dials at most twice, so eight connection identities suffice. The zone
gives q2 no IPv6 address, so the empty-answer path and the merge of an
address with an error both occur. Expiring contexts and read deadlines
are enabled only in the violation runs, over the same two callers. The codec enumerates query
lengths 28 to 282, crossing the 124-byte point where the `uint`
wrap-around matters, and replies with up to two answers over all three
record types. The chain enumerates every operation, both concrete
resolvers and six hosts (ASCII, Unicode, its A-label, an IDNA-invalid
name, an IPv4 and an IPv6 literal). The database uses two measurements
sharing one file: the least that shows the multi-input case. The framing
takes lengths 0, 255, 256, 384, 65535, 65536 and 65920: both bytes of the
prefix, the byte carry, the largest length that fits and the first that
does not, and one whose low 16 bits equal an accepted length. The QUIC
dialer takes an IP literal, a name with two addresses (so a failure
followed by a success, and two failures, both occur) and an unresolvable
name, over both resolvers, both ALPN ports, an unparsable port and no
port, listens and handshakes that fail or succeed, and every
combination of set and unset TLS fields; three single-use callers let two
of them race for the session after a third has taken it or not.

Fairness: weak fairness on every goroutine step (Go's scheduler runs every
runnable goroutine) and strong fairness on taking a `sync.Mutex` (its
starvation mode hands the lock to a waiter that has waited over 1 ms).
Context expiry, the caller's own cancel and the OS lookup have no
fairness; the 15-second timer has weak fairness. Deadlock is not checked
where the program really stops once every call has returned; the
liveness properties check that it gets there.

## 5. Findings

See `PROJECT.json` `findings`:

* TCP/TLS: the cancellation path of `try` breaks exclusive use of the
  connection and can panic on a nil connection; a read deadline leaves a
  late reply on a connection that stays in use, and a `LookupHost` then
  returns another host's address.
* System resolver: a result buffered after the deadline may be returned
  (spec 4.5 says it is discarded).
* DoH: `CloseIdleConnection` (dns.go 317) is misnamed, so an owned
  client's idle connections are never closed through `DNSResolver`.
* Database: a non-not-exist `os.Stat` error loses the report path;
  `Finished` marks the struct done before its `Update`, so a failed update
  cannot be retried until a restart.

Chain order. Spec 4.6 names the chain "from outside in: error-wrapping,
short-circuit-IP, logging, IDNA" and then, in an "i.e." clause,
describes the code's order, where the error wrapper is innermost. As a
result the `idna.ToASCII` error and `ErrDNSIPAddress` from `LookupNS` of an
IP literal reach the caller unclassified. The text contradicts itself,
so the model checks only what both readings agree on: errors of the
concrete resolver are classified exactly once (`InnerErrorsClassifiedOnce`).

Spec 4.4 calls the two queries of `dnsGenericResolver` concurrent. The
code starts each in a goroutine but waits for the A result before it
starts AAAA, so the model runs them in sequence.

## 6. Not modelled

The logging QUIC dialer and the QUIC listener's UDP connection wrappers
(their code is not in the repository; they forward and log only), the
classification of errors from the resolver stage of the QUIC dialer
(spec section 8 asks for it, the chain as tested does not wrap that stage;
recorded as a hazard), the nettest inside measurement-kit (outside
the repository), the API cache test generator and the CI workflow (code generation and
configuration). Not modelled inside modelled parts: query bytes (a query
is its length in `DNSFraming` and its sender in `DNSOverTCPTLS`), the
split of a read into header and body, log text, and `SetDeadline` other
than its nil dereference. The model has no clock, so whether an abandoned
`trySync` goroutine exits is not checked: only its 10-second deadline
ends its read, and another goroutine's deferred `SetDeadline(time.Time{})`
on the same connection (dns.go 645) clears that deadline. The retry rule
of `do` (one redial, on the redial hint only) is the guard of `tryResult`
and has no property of its own; the `users` counter decides only whether
the idle close closes a connection, which costs a redial and is not a
wrong answer. The single-use QUIC dialer is checked for safety
only: `MCSequential` assumes no fairness, and it has no run of its own.
