---------------------------- MODULE QUICSingleUse ----------------------------
(***************************************************************************)
(* The single-use QUIC dialer of netxlite (NewSingleUseQUICDialer).  Its   *)
(* code is not in the repository, only its test                            *)
(* (TestNewSingleUseQUICDialerWorksAsIntended, src/unnamed/part_000); the  *)
(* module follows spec.md 4.8: the dialer wraps one established session,  *)
(* the first DialContext returns it, and every later call, concurrent ones *)
(* included, fails with ErrNoConnReuse and a nil session.  The exactly-    *)
(* once rule across concurrent callers is enforced by a mutex around the   *)
(* read of the session and its clearing, which are separate steps.         *)
(***************************************************************************)
EXTENDS Naturals, Sequences

CONSTANTS
    Callers,   \* goroutines calling DialContext on the same instance
    Sess       \* the session the dialer was built with

None == "none"

VARIABLES
    sess,      \* the wrapped session, or None once handed out
    mu,        \* holder of the dialer's mutex, or None
    upc,       \* upc[c]: "idle", "lock", "check", "take", "unlock" or "done"
    seen,      \* seen[c]: the session c read under the lock
    uret       \* uret[c]: <<[sess, err]>> once c's DialContext returned

vars == <<sess, mu, upc, seen, uret>>

Init ==
    /\ sess = Sess
    /\ mu = None
    /\ upc = [c \in Callers |-> "idle"]
    /\ seen = [c \in Callers |-> None]
    /\ uret = [c \in Callers |-> <<>>]

Result(s, e) == <<[sess |-> s, err |-> e]>>

\* DialContext is called (its arguments are ignored).
suCall(c) ==
    /\ upc[c] = "idle"
    /\ upc' = [upc EXCEPT ![c] = "lock"]
    /\ UNCHANGED <<sess, mu, seen, uret>>

\* (mutant) The mutex is not taken.
suLock_noMutex(c) ==
    /\ upc[c] = "lock"
    /\ upc' = [upc EXCEPT ![c] = "check"]
    /\ UNCHANGED <<sess, mu, seen, uret>>

\* s.Lock()
suLock(c) ==
    /\ upc[c] = "lock"
    /\ mu = None
    /\ mu' = c
    /\ upc' = [upc EXCEPT ![c] = "check"]
    /\ UNCHANGED <<sess, seen, uret>>

\* if s.sess == nil { return nil, ErrNoConnReuse }
suCheck(c) ==
    /\ upc[c] = "check"
    /\ seen' = [seen EXCEPT ![c] = sess]
    /\ IF sess = None
         THEN /\ uret' = [uret EXCEPT ![c] = Result(None, "ErrNoConnReuse")]
              /\ upc' = [upc EXCEPT ![c] = "unlock"]
         ELSE /\ upc' = [upc EXCEPT ![c] = "take"]
              /\ UNCHANGED uret
    /\ UNCHANGED <<sess, mu>>

\* sess, s.sess = s.sess, nil; return sess, nil
suTake(c) ==
    /\ upc[c] = "take"
    /\ sess' = None
    /\ uret' = [uret EXCEPT ![c] = Result(seen[c], None)]
    /\ upc' = [upc EXCEPT ![c] = "unlock"]
    /\ UNCHANGED <<mu, seen>>

\* The deferred s.Unlock().
suUnlock(c) ==
    /\ upc[c] = "unlock"
    /\ mu' = IF mu = c THEN None ELSE mu
    /\ upc' = [upc EXCEPT ![c] = "done"]
    /\ UNCHANGED <<sess, seen, uret>>

Next ==
    \E c \in Callers :
        \/ suCall(c) \/ suLock(c) \/ suCheck(c) \/ suTake(c) \/ suUnlock(c)

Spec == Init /\ [][Next]_vars

-----------------------------------------------------------------------------

\* The callers whose DialContext returned the session.
Winners == {c \in Callers : uret[c] # <<>> /\ uret[c][1].sess # None}

\* Spec 4.8 and section 8: however the callers interleave, at most one
\* DialContext returns the session, and it does so with no error; every
\* other call that returned got ErrNoConnReuse and a nil session; and once
\* the session was handed out the dialer no longer holds it.
SessionHandedOutOnce ==
    /\ Winners = {} \/ \E w \in Winners : Winners = {w}
    /\ \A w \in Winners : uret[w][1] = [sess |-> Sess, err |-> None]
    /\ \A c \in Callers \ Winners :
          uret[c] # <<>> => uret[c][1] = [sess |-> None, err |-> "ErrNoConnReuse"]
    /\ Winners # {} => sess = None

=============================================================================
