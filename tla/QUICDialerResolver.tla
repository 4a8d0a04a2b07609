------------------------- MODULE QUICDialerResolver -------------------------
(***************************************************************************)
(* The resolver-backed QUIC dialer of netxlite (quicDialerResolver over    *)
(* quicDialerQUICGo).  Its code is not in the repository, only its tests   *)
(* (src/unnamed/part_000); the module follows spec.md 4.6 to 4.8 and the   *)
(* behaviour those tests pin down.                                         *)
(*                                                                         *)
(* DialContext splits host:port, resolves the host (an IP literal is its   *)
(* own single address; the null resolver of NewQUICDialerWithoutResolver   *)
(* always fails) and dials each address in order until one succeeds; when *)
(* all fail the last error is returned.  Each dial gets a private copy of  *)
(* the caller's TLS config in which the fields the caller left unset are   *)
(* filled in: ServerName with the host, the ALPN list with the port's, the *)
(* root CAs with the default pool.  One call per behaviour.                *)
(*                                                                         *)
(* Below the resolver dialer sit, as NewQUICDialerWithoutResolver builds   *)
(* them, a logger (which changes nothing), the error wrapper and the       *)
(* concrete quicDialerQUICGo, which parses the port and the IP, listens on *)
(* a UDP socket and performs the handshake, in that order.  The caller's   *)
(* context may be canceled while the addresses are dialed.                *)
(* CloseIdleConnections of the resolver dialer reaches both its dialer and *)
(* its resolver.                                                           *)
(*                                                                         *)
(* No property is stated of this module: with the code absent, one could  *)
(* only restate the text the definitions are written from.  The module    *)
(* documents that text and its actions run in MCSequential.               *)
(***************************************************************************)
EXTENDS Naturals, Sequences

CONSTANTS
    Hosts,        \* host parts of the addresses a caller passes
    IPs,          \* the hosts that parse as IP literals
    Resolve,      \* Resolve[h]: [addrs, err] of the system resolver for h
    Ports,        \* ports; NoPort is an address without one
    Names,        \* ServerName values a caller may set
    BadPorts      \* ports that strconv.Atoi rejects

None   == "none"
NoPort == "noport"

\* tls.Config, reduced to the fields the dialers default.
Configs == [serverName : Names \cup {""}, nextProtos : {<<>>, <<"custom">>},
            rootCAs : {"nil", "custom"}]

\* quicDialerQUICGo: the ALPN list for the destination port.
ALPN(port) == CASE port = "443"  -> <<"h3">>
                [] port = "8853" -> <<"dq">>
                [] OTHER         -> <<>>

\* The config handed to the concrete dial: ServerName set to the host by
\* quicDialerResolver, ALPN and root CAs by quicDialerQUICGo, each only
\* where the caller left it empty.
TLSDefaults(cfg, host, port) ==
    [cfg EXCEPT !.serverName = IF @ = "" THEN host ELSE @,
                !.nextProtos = IF @ = <<>> THEN ALPN(port) ELSE @,
                !.rootCAs = IF @ = "nil" THEN "default" ELSE @]

\* The caller's config once the defaults were applied: they were applied
\* to a clone, so it is unchanged.
CallerAfter(cfg, host, port) == cfg

\* quicDialerResolver.lookupHost: an IP literal resolves to itself without
\* a lookup; otherwise the resolver answers (the null resolver: always
\* ErrNoResolver).
LookupHost(resolver, host) ==
    CASE host \in IPs         -> [addrs |-> <<host>>, err |-> None]
      [] resolver = "null"    -> [addrs |-> <<>>, err |-> "ErrNoResolver"]
      [] OTHER                -> Resolve[host]

\* The errors quicDialerQUICGo returns: strconv.Atoi's, errInvalidIP, a
\* failed Listen, and the handshake's (timeout, or the context's).
RawDialErrs == {"invalid syntax", "errInvalidIP", "listen",
                "handshake timeout", "context canceled"}

\* What the handshake of one attempt does when the context is still live.
Handshakes == {"ok", "handshake timeout"}

\* quicDialerQUICGo.DialContext for addr:port, the steps in the code's
\* order: the port and IP checks come before the context is looked at.
QUICGoDial(addr, port, listenOk, hs, canceled) ==
    CASE port \in BadPorts -> "invalid syntax"
      [] addr \notin IPs   -> "errInvalidIP"
      [] ~listenOk         -> "listen"
      [] canceled          -> "context canceled"
      [] OTHER             -> IF hs = "ok" THEN None ELSE hs

\* The failure kinds of the classifier (spec 4.1, section 8).
Classify(raw) ==
    CASE raw = "context canceled"  -> "interrupted"
      [] raw = "handshake timeout" -> "generic_timeout_error"
      [] raw \in {"invalid syntax", "errInvalidIP"} -> "invalid_address"
      [] OTHER                     -> "unknown_failure"

\* An error as the caller sees it: its failure kind ("" when no layer has
\* classified it) and the raw error; NoErr is a nil error.
Err(raw) == [failure |-> "", raw |-> raw]
NoErr    == Err(None)

\* quicDialerErrWrapper.DialContext: a failure is classified and wrapped
\* (operation quic_handshake); a session passes untouched.
ErrWrap(raw) == IF raw = None THEN NoErr
                ELSE [failure |-> Classify(raw), raw |-> raw]

VARIABLES
    dpc,        \* "idle", "dial" (trying the addresses) or "done"
    req,        \* the call: [resolver, host, port, cfg]
    callerCfg,  \* the caller's TLS config as it is now
    cands,      \* the addresses being tried, in order
    tried,      \* one [addr, cfg, err] per dial attempt, in order
    dret,       \* <<[sess, err]>> once DialContext has returned
    ctxDone,    \* the context passed to DialContext is canceled
    idleClosed  \* the layers CloseIdleConnections has reached

vars == <<dpc, req, callerCfg, cands, tried, dret, ctxDone, idleClosed>>

Init ==
    /\ dpc = "idle"
    /\ req = [resolver |-> "system", host |-> None, port |-> NoPort,
              cfg |-> [serverName |-> "", nextProtos |-> <<>>, rootCAs |-> "nil"]]
    /\ callerCfg = req.cfg
    /\ cands = <<>>
    /\ tried = <<>>
    /\ dret = <<>>
    /\ ctxDone = FALSE
    /\ idleClosed = {}

Return(sess, err) == dret' = <<[sess |-> sess, err |-> err]>> /\ dpc' = "done"

\* DialContext up to the first dial: split host:port ("missing port in
\* address"), then resolve; a resolver error is returned with no dial.
DialContext(resolver, host, port, cfg) ==
    /\ dpc = "idle"
    /\ req' = [resolver |-> resolver, host |-> host, port |-> port, cfg |-> cfg]
    /\ callerCfg' = cfg
    /\ LET lh == LookupHost(resolver, host)
       IN  CASE port = NoPort ->
                    Return(None, Err("missing port in address")) /\ UNCHANGED cands
             [] lh.err # None ->
                    Return(None, Err(lh.err)) /\ UNCHANGED cands
             [] OTHER ->
                    cands' = lh.addrs /\ dpc' = "dial" /\ UNCHANGED dret
    /\ UNCHANGED <<tried, ctxDone, idleClosed>>

\* One attempt of the chain below the resolver dialer (logger, error
\* wrapper, quicDialerQUICGo) on addr with the defaulted config.
Attempt(addr, listenOk, hs) ==
    LET raw == QUICGoDial(addr, req.port, listenOk, hs, ctxDone)
    IN  [addr |-> addr, cfg |-> TLSDefaults(callerCfg, req.host, req.port),
         raw |-> raw, err |-> ErrWrap(raw)]

\* One iteration of the loop over the addresses: dial addr with the
\* defaulted copy; the first success is returned, and after the last
\* failure its error is.
DialAddr(listenOk, hs) ==
    /\ dpc = "dial"
    /\ LET i == Len(tried) + 1
           a == Attempt(cands[i], listenOk, hs)
       IN  /\ tried' = Append(tried, a)
           /\ callerCfg' = CallerAfter(callerCfg, req.host, req.port)
           /\ CASE a.err = NoErr    -> Return(a.addr, NoErr)
                [] i = Len(cands)   -> Return(None, a.err)
                [] OTHER            -> UNCHANGED <<dpc, dret>>
    /\ UNCHANGED <<req, cands, ctxDone, idleClosed>>

\* The caller cancels its context while the addresses are being dialed.
Cancel ==
    /\ dpc = "dial"
    /\ ~ctxDone
    /\ ctxDone' = TRUE
    /\ UNCHANGED <<dpc, req, callerCfg, cands, tried, dret, idleClosed>>

\* quicDialerResolver.CloseIdleConnections: the dialer's, then the
\* resolver's; the logger and the error wrapper forward theirs.
CloseIdleConnections ==
    /\ idleClosed # {"dialer", "resolver"}
    /\ idleClosed' = {"dialer", "resolver"}
    /\ UNCHANGED <<dpc, req, callerCfg, cands, tried, dret, ctxDone>>

Next ==
    \/ \E r \in {"system", "null"}, h \in Hosts, p \in Ports \cup {NoPort},
          c \in Configs : DialContext(r, h, p, c)
    \/ \E l \in BOOLEAN, hs \in Handshakes : DialAddr(l, hs)
    \/ Cancel
    \/ CloseIdleConnections

Spec == Init /\ [][Next]_vars

=============================================================================
