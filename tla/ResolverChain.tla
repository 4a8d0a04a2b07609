----------------------------- MODULE ResolverChain -----------------------------
(***************************************************************************)
(* The netxlite resolver decorator chain of src/unnamed/part_004 built by  *)
(* WrapResolver: resolverIDNA, then resolverLogger, then                   *)
(* resolverShortCircuitIPAddr, then resolverErrWrapper, then the concrete  *)
(* resolver (resolverSystem or nullResolver).                              *)
(*                                                                         *)
(* One call of LookupHost, LookupHTTPS or LookupNS descends the layers and *)
(* its result climbs back up; each layer's down and up halves are actions, *)
(* so the state shows which host each layer was handed and what it        *)
(* returned.  idna.ToASCII and net.ParseIP are given by constants over a   *)
(* small set of host names.                                                *)
(***************************************************************************)
EXTENDS Naturals, Sequences

CONSTANTS
    Hosts,          \* host names a caller may pass
    ToASCII,        \* idna.ToASCII: Hosts -> Hosts \cup {IDNAError}
    IDNAError,      \* the error idna.ToASCII returns
    IPLiterals,     \* the hosts net.ParseIP accepts
    IPv6Literals,   \* those containing ":" (isIPv6)
    SystemErrs      \* errors the OS lookup may return

ASSUME /\ IPv6Literals \subseteq IPLiterals /\ IPLiterals \subseteq Hosts
       /\ ToASCII \in [Hosts -> Hosts \cup {IDNAError}]

Ops    == {"LookupHost", "LookupHTTPS", "LookupNS"}
Inners == {"system", "null"}

\* WrapResolver (and NewResolverSystem of part_001): outermost first.
WrapResolver == <<"IDNA", "Logger", "ShortCircuit", "ErrWrapper", "Inner">>

\* An error: its root, the failure ClassifyResolverError gave it, the
\* operation it was tagged with, and how many ErrWrapper layers it passed.
Err(base) == [base |-> base, failure |-> "", op |-> "", wraps |-> 0]

\* The result of a call: what it found and its error (<<>> for nil).
NoSvc     == [addrs |-> <<>>, ipv4 |-> <<>>, ipv6 |-> <<>>, ns |-> <<>>]
Fail(e)   == [ok |-> NoSvc, err |-> <<e>>]
Found(ok) == [ok |-> ok, err |-> <<>>]

\* errorsx.ClassifyResolverError (outside src/; from spec section 7): the
\* resolver-specific kinds, else the generic classification.
ClassifyResolverError(e) ==
    CASE e.base = "ErrNoResolver" -> "NoResolverConfigured"
      [] e.base = "ErrDNSIPAddress" -> "InvalidAddress"
      [] OTHER -> e.base

\* resolverErrWrapper: newErrWrapper(classifyResolverError, ResolveOperation, err)
newErrWrapper(e) ==
    [e EXCEPT !.failure = ClassifyResolverError(e), !.op = "resolve",
              !.wraps = @ + 1]

-----------------------------------------------------------------------------

VARIABLES
    call,      \* <<[op, host, inner]>> once the caller has called, else <<>>
    depth,     \* index in WrapResolver of the layer running, 0 once returned
    dir,       \* "down" while the call descends, "up" while results return
    arg,       \* arg[i]: the host layer i was handed
    val,       \* the result being returned upward
    innerArgs, \* hosts the concrete resolver was called with
    logged     \* the resolverLogger's debug lines, as <<event, host>>

vars == <<call, depth, dir, arg, val, innerArgs, logged>>

Layer(i) == WrapResolver[i]
Host == arg[depth]
Op   == call[1].op

Results == [ok : [addrs : Seq(Hosts), ipv4 : Seq(Hosts), ipv6 : Seq(Hosts),
                  ns : Seq(Hosts)],
            err : Seq([base : SystemErrs \cup {IDNAError, "ErrNoResolver",
                                                "ErrNoDNSTransport",
                                                "ErrDNSIPAddress"},
                       failure : STRING, op : {"", "resolve"},
                       wraps : Nat])]

TypeOK ==
    /\ call \in Seq([op : Ops, host : Hosts, inner : Inners])
    /\ depth \in 0 .. Len(WrapResolver)
    /\ dir \in {"down", "up"}
    /\ arg \in [1 .. Len(WrapResolver) -> Hosts \cup {""}]
    /\ val \in Results
    /\ innerArgs \in SUBSET Hosts
    /\ logged \in Seq({"start", "done"} \X Hosts)

Init ==
    /\ call = <<>>
    /\ depth = 0
    /\ dir = "down"
    /\ arg = [i \in 1 .. Len(WrapResolver) |-> ""]
    /\ val = Found(NoSvc)
    /\ innerArgs = {}
    /\ logged = <<>>

\* The caller invokes op on the outermost resolver.
Call(op, h, inner) ==
    /\ call = <<>>
    /\ call' = <<[op |-> op, host |-> h, inner |-> inner]>>
    /\ depth' = 1
    /\ arg' = [arg EXCEPT ![1] = h]
    /\ UNCHANGED <<dir, val, innerArgs, logged>>

\* Layer depth delegates to the next one with host h.
Delegate(h) ==
    /\ depth' = depth + 1
    /\ arg' = [arg EXCEPT ![depth + 1] = h]
    /\ UNCHANGED <<dir, val>>

\* Layer depth returns r to the layer above without delegating.
Answer(r) ==
    /\ dir' = "up"
    /\ depth' = depth - 1
    /\ val' = r
    /\ UNCHANGED arg

\* Layer depth, the result of the layer below in hand, returns r upward.
Pass(r) ==
    /\ depth' = depth - 1
    /\ val' = r
    /\ UNCHANGED <<dir, arg>>

Down(name) == dir = "down" /\ depth > 0 /\ Layer(depth) = name
Up(name)   == dir = "up" /\ depth > 0 /\ Layer(depth) = name

-----------------------------------------------------------------------------
(* The layers.  For each, the three operations share one control flow;    *)
(* where they differ the action says how.                                  *)

\* (mutant) The error of idna.ToASCII is not checked: its host is used.
IDNADown_ignoreErr ==
    /\ Down("IDNA")
    /\ Delegate(ToASCII[Host])
    /\ UNCHANGED <<call, innerArgs, logged>>

\* (mutant) The original hostname is passed on instead of the converted one.
IDNADown_noConvert ==
    /\ Down("IDNA")
    /\ IF ToASCII[Host] = IDNAError
         THEN Answer(Fail(Err(IDNAError)))
         ELSE Delegate(Host)
    /\ UNCHANGED <<call, innerArgs, logged>>

\* resolverIDNA: host, err := idna.ToASCII(hostname); on error return it.
IDNADown ==
    /\ Down("IDNA")
    /\ IF ToASCII[Host] = IDNAError
         THEN Answer(Fail(Err(IDNAError)))
         ELSE Delegate(ToASCII[Host])
    /\ UNCHANGED <<call, innerArgs, logged>>

\* resolverLogger: log the start line, take the time, delegate.
LoggerDown ==
    /\ Down("Logger")
    /\ logged' = Append(logged, <<"start", Host>>)
    /\ Delegate(Host)
    /\ UNCHANGED <<call, innerArgs>>

\* resolverLogger: log the outcome; on error return nil and the error,
\* else the result.
LoggerUp ==
    /\ Up("Logger")
    /\ logged' = Append(logged, <<"done", Host>>)
    /\ Pass(IF val.err # <<>> THEN Fail(val.err[1]) ELSE val)
    /\ UNCHANGED <<call, innerArgs>>

\* (mutant) LookupHost does not check net.ParseIP (only the others do).
ShortCircuitDown_noParse ==
    /\ Down("ShortCircuit")
    /\ IF Host \in IPLiterals /\ Op # "LookupHost"
         THEN Answer(IF Op = "LookupHTTPS" /\ Host \in IPv6Literals
                       THEN Found([NoSvc EXCEPT !.ipv6 = <<Host>>])
                     ELSE IF Op = "LookupHTTPS"
                       THEN Found([NoSvc EXCEPT !.ipv4 = <<Host>>])
                     ELSE Fail(Err("ErrDNSIPAddress")))
         ELSE Delegate(Host)
    /\ UNCHANGED <<call, innerArgs, logged>>

\* resolverShortCircuitIPAddr: an IP literal is answered on the spot:
\* LookupHost with []string{hostname}, LookupHTTPS with a record holding
\* it as IPv6 or IPv4 by isIPv6, LookupNS with ErrDNSIPAddress.
ShortCircuitDown ==
    /\ Down("ShortCircuit")
    /\ IF Host \in IPLiterals
         THEN Answer(CASE Op = "LookupHost"
                            -> Found([NoSvc EXCEPT !.addrs = <<Host>>])
                       [] Op = "LookupHTTPS" /\ Host \in IPv6Literals
                            -> Found([NoSvc EXCEPT !.ipv6 = <<Host>>])
                       [] Op = "LookupHTTPS"
                            -> Found([NoSvc EXCEPT !.ipv4 = <<Host>>])
                       [] OTHER -> Fail(Err("ErrDNSIPAddress")))
         ELSE Delegate(Host)
    /\ UNCHANGED <<call, innerArgs, logged>>

\* resolverErrWrapper: delegate.
ErrWrapperDown ==
    /\ Down("ErrWrapper")
    /\ Delegate(Host)
    /\ UNCHANGED <<call, innerArgs, logged>>

\* (mutant) LookupNS returns the inner error unwrapped.
ErrWrapperUp_noWrap ==
    /\ Up("ErrWrapper")
    /\ Pass(IF val.err # <<>> /\ Op # "LookupNS"
               THEN Fail(newErrWrapper(val.err[1])) ELSE val)
    /\ UNCHANGED <<call, innerArgs, logged>>

\* resolverErrWrapper: wrap a failure, pass a success through.
ErrWrapperUp ==
    /\ Up("ErrWrapper")
    /\ Pass(IF val.err # <<>> THEN Fail(newErrWrapper(val.err[1])) ELSE val)
    /\ UNCHANGED <<call, innerArgs, logged>>

\* resolverIDNA and resolverShortCircuitIPAddr return the inner result.
PassUp ==
    /\ dir = "up" /\ depth > 0
    /\ Layer(depth) \in {"IDNA", "ShortCircuit"}
    /\ Pass(val)
    /\ UNCHANGED <<call, innerArgs, logged>>

\* resolverSystem: LookupHost yields addresses or one of the errors of the
\* OS lookup and its timeout (ResolverSystem); LookupHTTPS and LookupNS
\* return ErrNoDNSTransport.
SystemLookup ==
    \/ /\ Op = "LookupHost"
       /\ \/ \E a \in IPLiterals \ IPv6Literals :
                 Answer(Found([NoSvc EXCEPT !.addrs = <<a>>]))
          \/ \E e \in SystemErrs : Answer(Fail(Err(e)))
    \/ Op # "LookupHost" /\ Answer(Fail(Err("ErrNoDNSTransport")))

\* nullResolver returns ErrNoResolver from every operation.
NullLookup == Answer(Fail(Err("ErrNoResolver")))

\* The call reaches the concrete resolver WrapResolver was given.
InnerLookup ==
    /\ Down("Inner")
    /\ innerArgs' = innerArgs \cup {Host}
    /\ \/ call[1].inner = "system" /\ SystemLookup
       \/ call[1].inner = "null" /\ NullLookup
    /\ UNCHANGED <<call, logged>>

Next ==
    \/ \E op \in Ops, h \in Hosts, inner \in Inners : Call(op, h, inner)
    \/ IDNADown \/ LoggerDown \/ ShortCircuitDown \/ ErrWrapperDown
    \/ InnerLookup
    \/ ErrWrapperUp \/ LoggerUp \/ PassUp

Spec == Init /\ [][Next]_vars

\* The call has returned to the caller with val.
Returned == call # <<>> /\ depth = 0

-----------------------------------------------------------------------------
(* Properties                                                              *)

\* Spec section 3 and 8: a literal IP address never reaches the concrete
\* resolver, however the layers above rewrite the name, and LookupHost of
\* it returns exactly [s] with no error.
IPLiteralNeverResolved ==
    /\ \A h \in innerArgs : h \notin IPLiterals
    /\ Returned /\ Op = "LookupHost" /\ call[1].host \in IPLiterals =>
          val = Found([NoSvc EXCEPT !.addrs = <<call[1].host>>])

\* Spec section 8: the concrete resolver is only ever handed ASCII names
\* (fixed points of idna.ToASCII), and a name IDNA rejects fails the call
\* before any inner layer runs.
InnerSeesASCII ==
    /\ \A h \in innerArgs : ToASCII[h] = h
    /\ Returned /\ ToASCII[call[1].host] = IDNAError =>
          /\ innerArgs = {} /\ logged = <<>>
          /\ val = Fail(Err(IDNAError))

\* Spec section 7: an error of the concrete resolver leaves the chain
\* classified and tagged "resolve" exactly once, and a successful result
\* never carries an error (spec section 3: never both addresses and an
\* error, never neither).
InnerErrorsClassifiedOnce ==
    Returned =>
        /\ (val.err = <<>>) # (val.ok = NoSvc)
        /\ \A i \in DOMAIN val.err :
              val.err[i].base \notin {IDNAError, "ErrDNSIPAddress"} =>
                  /\ val.err[i].wraps = 1
                  /\ val.err[i].op = "resolve"
                  /\ val.err[i].failure = ClassifyResolverError(val.err[i])

=============================================================================
