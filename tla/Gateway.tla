------------------------------ MODULE Gateway -------------------------------
(***************************************************************************)
(* The requests of the Rust gateway, crates/daemon/src/server.rs: the      *)
(* router, proxy_handler, health_handler and verify_handler, from the      *)
(* arrival of a request to the end of its answer, with several requests,   *)
(* the expiry of the OAuth token and the refresh loop in between.          *)
(*                                                                         *)
(* A handler runs without interruption from one await to the next, so the  *)
(* stages of a request are the awaits of its handler.  The OAuth manager   *)
(* is here what OAuthManager shows of it: a token that expires and is      *)
(* replaced.  What becomes of a body is module Rewriter; here it arrives   *)
(* or breaks off.                                                          *)
(***************************************************************************)
EXTENDS ClientAuth

CONSTANTS
    Requests,       \* the requests that ever come
    Messages,       \* what they may be: [route, method, headers, joins]
    AccessTokens,   \* the access tokens the endpoint or the configuration gives
    HeaderSafe,     \* those that are legal header values
    Audit,          \* logging.audit
    Level           \* logging.level

ASSUME TokensAssumption == HeaderSafe \subseteq AccessTokens
ASSUME AuditAssumption == Audit \in BOOLEAN

VARIABLES
    token,       \* the manager's access token: [value, valid], or NoToken
    initError,   \* oauth_init_error is set: the start was degraded
    req,         \* the handler of each request
    sent,        \* what each request sent to the upstream, or NothingSent
    audited      \* the client logged for each request, or Nobody

vars == <<token, initError, req, sent, audited>>

NoToken == [value |-> "none", valid |-> FALSE]
Tokens == [value : AccessTokens, valid : BOOLEAN] \cup {NoToken}
Idle == [stage |-> "idle"]
NothingSent == [client |-> Nobody]
Awaits == {"refreshing", "stored", "body", "upstream", "streaming"}
Statuses == {200, 400, 401, 405, 502, 503}
(* An answer is a status of the gateway's own, what the upstream answered, *)
(* that answer cut short, none because the handler panicked, or none       *)
(* because the client is gone.                                             *)
Answers == [by : {"gateway"}, status : Statuses]
           \cup [by : {"upstream", "broken", "panic", "hangup"}, status : {0}]

(* build_state: either init has a token and schedules the loop, or it      *)
(* fails, the gateway serves all the same and nothing is scheduled.        *)
Init ==
    /\ \/ initError = FALSE /\ token \in [value : AccessTokens, valid : {TRUE}]
       \/ initError = TRUE /\ token = NoToken
    /\ req = [r \in Requests |-> Idle]
    /\ sent = [r \in Requests |-> NothingSent]
    /\ audited = [r \in Requests |-> Nobody]

-----------------------------------------------------------------------------
(* The manager *)

Expire ==
    /\ token.valid
    /\ token' = [token EXCEPT !.valid = FALSE]
    /\ UNCHANGED <<initError, req, sent, audited>>

Stored == \E value \in AccessTokens : token' = [value |-> value, valid |-> TRUE]

(* refresh_loop, scheduled by init alone. *)
LoopRefresh ==
    /\ ~initError
    /\ ~token.valid
    /\ Stored
    /\ UNCHANGED <<initError, req, sent, audited>>

-----------------------------------------------------------------------------
(* The handlers *)

At(r, stage) == req[r].stage = stage
Goto(r, stage) == req' = [req EXCEPT ![r].stage = stage]
Done(message, by, status) ==
    [stage |-> "done", message |-> message, answer |-> [by |-> by, status |-> status]]
Finish(r, by, status) == req' = [req EXCEPT ![r] = Done(req[r].message, by, status)]

(* router: /_health and /_verify take GET, any other path any method. *)
MethodAllowed(message) == message.route = "proxy" \/ message.method = "GET"
HealthStatus == IF token.valid THEN 200 ELSE 503
VerifyStatus(message) == IF Authenticate(message.headers) = Nobody THEN 401 ELSE 200

(* Requests answered on arrival.  build_verification_payload cannot fail:  *)
(* it parses what it has just written.                                     *)
AnswerAtOnce(r, message) ==
    /\ \/ message.route # "proxy"
       \/ Authenticate(message.headers) = Nobody
    /\ req' = [req EXCEPT ![r] = Done(message, "gateway",
            CASE ~MethodAllowed(message) -> 405
              [] MethodAllowed(message) /\ message.route = "health" -> HealthStatus
              [] MethodAllowed(message) /\ message.route = "verify" -> VerifyStatus(message)
              [] OTHER -> 401)]

(* proxy_handler up to its first await: the token is cloned if it is valid. *)
(* Mutant: the token is asked for before the client is known. *)
AcceptThenAuthenticate(r, message) ==
    /\ message.route = "proxy"
    /\ Authenticate(message.headers) # Nobody \/ ~token.valid
    /\ req' = [req EXCEPT ![r] =
            [stage |-> IF token.valid THEN "body" ELSE "refreshing", message |-> message,
             token |-> token.value]]
Accept(r, message) ==
    /\ message.route = "proxy"
    /\ Authenticate(message.headers) # Nobody
    /\ req' = [req EXCEPT ![r] =
            [stage |-> IF token.valid THEN "body" ELSE "refreshing", message |-> message,
             token |-> token.value]]

Arrive(r) ==
    /\ At(r, "idle")
    /\ \E message \in Messages : AnswerAtOnce(r, message) \/ Accept(r, message)
    /\ UNCHANGED <<token, initError, sent, audited>>

(* get_access_token_or_refresh: a refresh that succeeds, *)
RefreshOk(r) ==
    /\ At(r, "refreshing")
    /\ Stored
    /\ Goto(r, "stored")
    /\ UNCHANGED <<initError, sent, audited>>
(* the second look at the token, which may have expired at once, *)
(* Mutant: expired again, it is refreshed again. *)
RereadInsists(r) ==
    /\ At(r, "stored")
    /\ IF token.valid
       THEN req' = [req EXCEPT ![r].stage = "body", ![r].token = token.value]
       ELSE Goto(r, "refreshing")
    /\ UNCHANGED <<token, initError, sent, audited>>
Reread(r) ==
    /\ At(r, "stored")
    /\ IF token.valid
       THEN req' = [req EXCEPT ![r].stage = "body", ![r].token = token.value]
       ELSE Finish(r, "gateway", 503)
    /\ UNCHANGED <<token, initError, sent, audited>>
(* or one that fails. *)
RefreshFails(r) ==
    /\ At(r, "refreshing")
    /\ Finish(r, "gateway", 503)
    /\ UNCHANGED <<token, initError, sent, audited>>

BodyBreaks(r) ==
    /\ At(r, "body")
    /\ Finish(r, "gateway", 400)
    /\ UNCHANGED <<token, initError, sent, audited>>

(* The request for the upstream.  content-length is left to reqwest, and   *)
(* the token's value must parse as a header value.                         *)
UpstreamHeaders(r) ==
    LET kept == RewriteHeaders(req[r].message.headers)
    IN  [name \in (DOMAIN kept \ {"content-length"}) \cup {"x-api-key"} |->
            IF name = "x-api-key" THEN <<<<req[r].token>>>> ELSE kept[name]]
BodyArrives(r) ==
    /\ At(r, "body")
    /\ CASE ~req[r].message.joins -> Finish(r, "gateway", 400) /\ UNCHANGED sent
         [] req[r].message.joins /\ req[r].token \notin HeaderSafe ->
                Finish(r, "panic", 0) /\ UNCHANGED sent
         [] OTHER ->
                /\ Goto(r, "upstream")
                /\ sent' = [sent EXCEPT ![r] =
                        [client |-> Authenticate(req[r].message.headers),
                         headers |-> UpstreamHeaders(r),
                         expired |-> token # [value |-> req[r].token, valid |-> TRUE]]]
    /\ UNCHANGED <<token, initError, audited>>

(* Mutant: a failed call is logged like any other. *)
UpstreamFailsLogged(r) ==
    /\ At(r, "upstream")
    /\ Finish(r, "gateway", 502)
    /\ audited' = [audited EXCEPT ![r] = sent[r].client]
    /\ UNCHANGED <<token, initError, sent>>
UpstreamFails(r) ==
    /\ At(r, "upstream")
    /\ Finish(r, "gateway", 502)
    /\ UNCHANGED <<token, initError, sent, audited>>

(* init_logger takes the level for the audit target too. *)
Logged == Audit /\ Level \in {"trace", "debug", "info"}
(* The upstream's head is here: the audit line, then the stream. *)
UpstreamAnswers(r) ==
    /\ At(r, "upstream")
    /\ Goto(r, "streaming")
    /\ audited' = [audited EXCEPT ![r] = IF Logged THEN sent[r].client ELSE @]
    /\ UNCHANGED <<token, initError, sent>>

StreamEnds(r) ==
    /\ At(r, "streaming")
    /\ \E by \in {"upstream", "broken"} : Finish(r, by, 0)
    /\ UNCHANGED <<token, initError, sent, audited>>

(* A client that hangs up takes its handler with it, at any await. *)
Disconnect(r) ==
    /\ req[r].stage \in Awaits
    /\ Finish(r, "hangup", 0)
    /\ UNCHANGED <<token, initError, sent, audited>>

Step(r) ==
    \/ RefreshOk(r) \/ Reread(r) \/ RefreshFails(r)
    \/ BodyArrives(r) \/ BodyBreaks(r)
    \/ UpstreamAnswers(r) \/ UpstreamFails(r) \/ StreamEnds(r)

Next ==
    \/ Expire \/ LoopRefresh
    \/ \E r \in Requests : Arrive(r) \/ Step(r) \/ Disconnect(r)

Spec == Init /\ [][Next]_vars
(* Every call of a handler returns: refreshes, bodies, the upstream.  The  *)
(* loop wakes up and its refresh comes to succeed.  Clients need not come. *)
Fairness == WF_vars(LoopRefresh) /\ \A r \in Requests : WF_vars(Step(r))
FairSpec == Spec /\ Fairness

-----------------------------------------------------------------------------
(* Properties *)

TypeOK ==
    /\ token \in Tokens
    /\ initError \in BOOLEAN
    /\ \A r \in Requests :
        /\ \/ req[r] = Idle
           \/ /\ req[r].stage \in Awaits
              /\ req[r].message \in Messages
              /\ req[r].token \in AccessTokens \cup {NoToken.value}
           \/ /\ At(r, "done")
              /\ req[r].message \in Messages
              /\ req[r].answer \in Answers
        /\ audited[r] \in {Nobody, sent[r].client}

(* Only an authenticated request gets as far as an await: a stranger       *)
(* neither spends a refresh nor makes the gateway read its body or call    *)
(* the upstream, at any moment of any other request.                       *)
StrangersSpendNothing ==
    \A r \in Requests :
        req[r].stage \in Awaits \/ sent[r] # NothingSent =>
            Authenticate(req[r].message.headers) # Nobody

(* What leaves for the upstream shows one credential, a token of the       *)
(* manager; no key of any client of the gateway is in it, in whichever of  *)
(* the credential headers the client sent how many of them.                *)
ClientSecretsStay ==
    \A r \in Requests : sent[r] # NothingSent =>
        /\ \A name \in DOMAIN sent[r].headers, token_ \in DOMAIN ClientTokens :
                \A i \in DOMAIN sent[r].headers[name] :
                    \A j \in DOMAIN token_ :
                        token_[j] \notin {sent[r].headers[name][i][k] :
                                            k \in DOMAIN sent[r].headers[name][i]}
        /\ DOMAIN sent[r].headers \cap CredentialHeaders = {"x-api-key"}
        /\ \E value \in HeaderSafe : sent[r].headers["x-api-key"] = <<<<value>>>>

(* Headers that are nobody's business but the upstream's arrive there with *)
(* every value the client gave them, in its order                          *)
(* (tests/parity-checklist.md:28, repeated request headers).               *)
HeadersSurvive ==
    \A r \in Requests : sent[r] # NothingSent =>
        \A name \in DOMAIN req[r].message.headers \ (StrippedHeaders \cup {"content-length"}) :
            /\ name \in DOMAIN sent[r].headers
            /\ name # "user-agent" => sent[r].headers[name] = req[r].message.headers[name]

(* What leaves for the upstream has the gateway's credential in place of   *)
(* the client's, and the client's other headers untouched.                 *)
ForwardedHeaders == ClientSecretsStay /\ HeadersSurvive

(* The audit log names the client of each answer that was relayed, and of  *)
(* no other: an answer of the gateway's own never looks like one of the    *)
(* upstream's.                                                             *)
AuditIsTrue ==
    \A r \in Requests :
        LET relayed == At(r, "streaming") \/ (At(r, "done") /\ req[r].answer.by \in {"upstream", "broken"})
            hungUp == At(r, "done") /\ req[r].answer.by = "hangup"
        IN  /\ audited[r] # Nobody =>
                    /\ relayed \/ hungUp
                    /\ audited[r] = Authenticate(req[r].message.headers)
            /\ relayed /\ Logged => audited[r] # Nobody

(* authenticate of src/auth.ts, with Node's treatment of repeated headers: *)
(* those of x-api-key are joined, of the others the first one counts.      *)
NodeValue(headers, name) ==
    CASE name \notin DOMAIN headers -> <<>>
      [] name = "x-api-key" /\ Len(headers[name]) > 1 -> NoValue
      [] OTHER -> headers[name][1]
TsAuthenticate(headers) ==
    LET apiKey == ClientOf(NodeValue(headers, "x-api-key"))
        proxy == NodeValue(headers, "proxy-authorization")
        auth == IF proxy # <<>> THEN proxy ELSE NodeValue(headers, "authorization")
    IN  CASE apiKey # Nobody -> apiKey
          [] apiKey = Nobody /\ Len(auth) >= 2 /\ auth[1] \in Bearer -> ClientOf(Tail(auth))
          [] OTHER -> Nobody

(* Both gateways know the same clients by the same credentials, whichever  *)
(* of the three headers a request has and however wrong they are, as long  *)
(* as none is empty or repeated (auth.rs:30 and src/auth.ts:26).           *)
Regular(headers) ==
    \A name \in CredentialHeaders \cap DOMAIN headers :
        Len(headers[name]) = 1 /\ headers[name][1] # <<>>
SameClients(headers) == Authenticate(headers) = TsAuthenticate(headers)
AgreesWithTypeScript ==
    \A r \in Requests :
        req[r] # Idle /\ Regular(req[r].message.headers) => SameClients(req[r].message.headers)

(* Every request comes to an end if the calls its handler waits for do.    *)
EveryRequestEnds == \A r \in Requests : (req[r] # Idle) ~> At(r, "done")

(* What the documents say and the code does not do: TLC finds each of      *)
(* these violated (README, Disagreements).                                 *)

(* auth.rs:30: the bearer headers have the precedence of the TypeScript    *)
(* gateway.                                                                *)
TypeScriptPrecedence ==
    \A r \in Requests : req[r] # Idle => SameClients(req[r].message.headers)

(* tests/parity-checklist.md:18: an expired access token is treated as     *)
(* unavailable.                                                            *)
ExpiredIsUnavailable ==
    \A r \in Requests : sent[r] # NothingSent => ~sent[r].expired

(* server.rs:325: the token is a valid header value.                       *)
TokenIsHeader ==
    \A r \in Requests : At(r, "done") => req[r].answer.by # "panic"

(* config.example.yaml:86: audit logs which client made each request.      *)
EachRequestIsLogged ==
    \A r \in Requests :
        Audit /\ At(r, "done") /\ req[r].message.route = "proxy"
        /\ Authenticate(req[r].message.headers) # Nobody => audited[r] # Nobody

(* server.rs:197: without a valid token, health says that it is            *)
(* refreshing.                                                             *)
Refreshing == ~token.valid ~> token.valid \/ \E r \in Requests : At(r, "refreshing")
=============================================================================
