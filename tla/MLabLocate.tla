------------------------------- MODULE MLabLocate -------------------------------
(***************************************************************************)
(* Client.Query of src/internal/mlablocate/mlablocate.go: one GET of       *)
(* locate.measurementlab.net and the decoding of its JSON body.  Each      *)
(* step's outcome (request building, client.Do, status, body read, body    *)
(* content) is chosen from a small set; the state records one query per   *)
(* tool the client is asked about (the tool is the URL's path), on a       *)
(* client from NewClient or on a Client literal missing its MANDATORY      *)
(* fields.                                                                 *)
(***************************************************************************)
EXTENDS Naturals, Sequences

CONSTANT Tools   \* the tools queried, e.g. neubot and dash

None == "none"

\* The JSON bodies the server may send, by what json.Unmarshal makes of
\* them: an object with both fields, with only the site, with an FQDN and
\* a site of the wrong type, the literal null, and bytes that do not parse.
Bodies == {"fqdnSite", "siteOnly", "fqdnBadSite", "null", "malformed"}

\* What one GET may do before its body is decoded.
Stages == {"newRequestErr", "doErr", "non200", "readErr", "ok"}

\* NewClient(httpClient, logger, userAgent), as a Client by the fields that
\* decide where its GET goes.
NewClient == [scheme |-> "https", hostname |-> "locate.measurementlab.net"]

\* The clients Query may run on: NewClient's, and Client{}, a literal with
\* none of its MANDATORY fields filled in.
Clients == {NewClient, [scheme |-> "", hostname |-> ""]}

\* What the GET of client c may do.  http.NewRequestWithContext fails only
\* on a nil context whatever the client, since url.URL.String() of these
\* fields always parses; a URL without scheme or host (a Client literal
\* missing a MANDATORY field) is refused by client.Do, so nothing is sent.
StagesOf(c) ==
    IF c.scheme # "" /\ c.hostname # "" THEN Stages
    ELSE {"newRequestErr", "doErr"}

Result == [fqdn : {"", "f"}, site : {"", "s"}]
ZeroResult == [fqdn |-> "", site |-> ""]

\* json.Unmarshal(data, &result): the fields it fills and its error.  A
\* syntax error is found before any field is set; a type error leaves the
\* fields decoded before it.
Unmarshal(body) ==
    CASE body = "fqdnSite"    -> [res |-> [fqdn |-> "f", site |-> "s"], err |-> None]
      [] body = "siteOnly"    -> [res |-> [fqdn |-> "", site |-> "s"], err |-> None]
      [] body = "fqdnBadSite" -> [res |-> [fqdn |-> "f", site |-> ""], err |-> "UnmarshalType"]
      [] body = "null"        -> [res |-> ZeroResult, err |-> None]
      [] body = "malformed"   -> [res |-> ZeroResult, err |-> "Syntax"]

\* (mutant) The partly decoded result is returned with the decode error.
Query_partial(stage, body) ==
    LET u == Unmarshal(body) IN
    CASE stage = "newRequestErr" -> [res |-> ZeroResult, err |-> "NewRequest"]
      [] stage = "doErr"   -> [res |-> ZeroResult, err |-> "Do"]
      [] stage = "non200"  -> [res |-> ZeroResult, err |-> "non-200 status code"]
      [] stage = "readErr" -> [res |-> ZeroResult, err |-> "ReadAllContext"]
      [] u.err # None      -> u
      [] u.res.fqdn = ""   -> [res |-> ZeroResult, err |-> "returned empty FQDN"]
      [] OTHER             -> u

\* Client.Query: every failing step returns Result{} and its error; a
\* decoded result without an FQDN is an error too.
Query(stage, body) ==
    LET u == Unmarshal(body) IN
    CASE stage = "newRequestErr" -> [res |-> ZeroResult, err |-> "NewRequest"]
      [] stage = "doErr"   -> [res |-> ZeroResult, err |-> "Do"]
      [] stage = "non200"  -> [res |-> ZeroResult, err |-> "non-200 status code"]
      [] stage = "readErr" -> [res |-> ZeroResult, err |-> "ReadAllContext"]
      [] u.err # None      -> [res |-> ZeroResult, err |-> u.err]
      [] u.res.fqdn = ""   -> [res |-> ZeroResult, err |-> "returned empty FQDN"]
      [] OTHER             -> u

VARIABLE calls   \* calls[t]: <<[client, stage, body, out]>> once Query(ctx, t) ran

Init == calls = [t \in Tools |-> <<>>]

Call(t, c, stage, body) ==
    /\ calls[t] = <<>>
    /\ stage \in StagesOf(c)
    /\ calls' = [calls EXCEPT ![t] = <<[client |-> c, stage |-> stage, body |-> body,
                                        out |-> Query(stage, body)]>>]

Next ==
    \E t \in Tools, c \in Clients, s \in Stages, b \in Bodies :
        Call(t, c, s, b)

Spec == Init /\ [][Next]_calls

\* Query's comment: it "returns either valid result, on success, or an
\* error, on failure": with no error the FQDN is set, and with an error the
\* result is the zero Result, however far decoding got.
ResultOrError ==
    \A t \in Tools : \A i \in DOMAIN calls[t] :
        LET out == calls[t][i].out
        IN  /\ out.err = None => out.res.fqdn # ""
            /\ out.err # None => out.res = ZeroResult

=============================================================================
