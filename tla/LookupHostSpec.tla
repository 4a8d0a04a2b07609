---------------------------- MODULE LookupHostSpec ----------------------------
(***************************************************************************)
(* What a resolver's LookupHost promises its callers (spec sections 3,     *)
(* 4.4): each call returns once, with a non-empty list of addresses of the *)
(* host it was asked about and no error, or with an error and no           *)
(* addresses.  Each caller resolves its own host, named after the caller.  *)
(***************************************************************************)
EXTENDS Naturals, Sequences

CONSTANTS
    Callers,     \* goroutines, each calling LookupHost(ctx, <its host>)
    AddrsOf(_),  \* AddrsOf(h): the addresses the zone holds for host h
    Errs,        \* the errors LookupHost may return
    MaxAddrs     \* longest address list a call may return

VARIABLE ret     \* ret[c]: <<result>> once c's call has returned, else <<>>

AddrLists(h) == UNION {[1 .. n -> AddrsOf(h)] : n \in 1 .. MaxAddrs}

Outcomes(h) ==
    {[addrs |-> l, err |-> "none"] : l \in AddrLists(h)}
        \cup {[addrs |-> <<>>, err |-> e] : e \in Errs}

Init == ret = [c \in Callers |-> <<>>]

Return(c) ==
    /\ ret[c] = <<>>
    /\ \E r \in Outcomes(c) : ret' = [ret EXCEPT ![c] = <<r>>]

Next == \E c \in Callers : Return(c)

Spec == Init /\ [][Next]_ret /\ \A c \in Callers : WF_ret(Return(c))

=============================================================================
