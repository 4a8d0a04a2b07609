---------------------------- MODULE TelegramSummary ----------------------------
(***************************************************************************)
(* The Telegram nettest of src/nettests/im/telegram.go: Run hands the     *)
(* nettest to measurement-kit, and GetTestKeys summarises the test keys    *)
(* measurement-kit produced.  A key may be absent (nil) or hold the value  *)
(* measurement-kit writes: a boolean for the TCP and HTTP blocking keys, a *)
(* status string for the web key.  LogSummary returns nil and changes      *)
(* nothing.  The state records each measurement's run and summary.         *)
(***************************************************************************)
EXTENDS Naturals

CONSTANT Measurements

\* An absent key (tk[key] == nil), and the JSON booleans as stored in the
\* map[string]interface{}.
Nil == "nil"
True == "true"
False == "false"

\* The test keys map as measurement-kit fills it.
TestKeys == [telegram_tcp_blocking : {Nil, True, False},
             telegram_http_blocking : {Nil, True, False},
             telegram_web_status : {Nil, "blocked", "ok"}]

\* A missing key reads as false; otherwise the value is asserted to bool.
BoolKey(v) == IF v = Nil THEN FALSE ELSE v = True

\* (mutant) IsAnomaly forgets the TCP blocking.
GetTestKeys_noTCP(tk) ==
    LET tcp == BoolKey(tk.telegram_tcp_blocking)
        http == BoolKey(tk.telegram_http_blocking)
        web == IF tk.telegram_web_status = Nil THEN FALSE
               ELSE tk.telegram_web_status = "blocked"
    IN  [TCPBlocking |-> tcp, HTTPBlocking |-> http, WebBlocking |-> web,
         IsAnomaly |-> web \/ http]

GetTestKeys(tk) ==
    LET tcp == BoolKey(tk.telegram_tcp_blocking)
        http == BoolKey(tk.telegram_http_blocking)
        web == IF tk.telegram_web_status = Nil THEN FALSE
               ELSE tk.telegram_web_status = "blocked"
    IN  [TCPBlocking |-> tcp, HTTPBlocking |-> http, WebBlocking |-> web,
         IsAnomaly |-> web \/ http \/ tcp]

VARIABLES
    ran,       \* ran[m]: <<the error mknt.Run returned>> once Run was called
    summary    \* summary[m]: <<[tk, keys]>> once m was summarised

vars == <<ran, summary>>

Init ==
    /\ ran = [m \in Measurements |-> <<>>]
    /\ summary = [m \in Measurements |-> <<>>]

\* Telegram.Run: mk.NewNettest("Telegram"), ctl.Init, and mknt.Run(),
\* whose error (nil or not) is returned.  The nettest itself runs in
\* measurement-kit.
Run(m) ==
    /\ ran[m] = <<>>
    /\ \E err \in {"nil", "mkError"} : ran' = [ran EXCEPT ![m] = <<err>>]
    /\ UNCHANGED summary

\* The controller hands the test keys measurement-kit produced while the
\* nettest ran to GetTestKeys.
Summarise(m, tk) ==
    /\ ran[m] # <<>>
    /\ summary[m] = <<>>
    /\ summary' = [summary EXCEPT ![m] = <<[tk |-> tk, keys |-> GetTestKeys(tk)]>>]
    /\ UNCHANGED ran

Next ==
    \/ \E m \in Measurements : Run(m)
    \/ \E m \in Measurements, tk \in TestKeys : Summarise(m, tk)

Spec == Init /\ [][Next]_vars

\* The Telegram test's result: a measurement is an anomaly exactly when
\* measurement-kit reported TCP blocking, HTTP blocking, or a "blocked"
\* web status, and each flag of the summary says which; an absent key
\* reports no blocking.
AnomalyIffBlocked ==
    \A m \in Measurements : \A i \in DOMAIN summary[m] :
        LET tk == summary[m][i].tk  k == summary[m][i].keys
        IN  /\ k.TCPBlocking = (tk.telegram_tcp_blocking = True)
            /\ k.HTTPBlocking = (tk.telegram_http_blocking = True)
            /\ k.WebBlocking = (tk.telegram_web_status = "blocked")
            /\ k.IsAnomaly = (k.TCPBlocking \/ k.HTTPBlocking \/ k.WebBlocking)

=============================================================================
