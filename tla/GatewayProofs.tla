--------------------------- MODULE GatewayProofs ---------------------------
(***************************************************************************)
(* What TLAPS proves about Gateway, for any number of requests with any    *)
(* headers, any entries of auth.tokens and any access tokens.              *)
(***************************************************************************)
EXTENDS Gateway, SequenceTheorems, TLAPS

(* What a handler at x has sent and logged: s and a. *)
ActiveOK(x) ==
    /\ x = [stage |-> x.stage, message |-> x.message, token |-> x.token]
    /\ x.message \in Messages
    /\ x.token \in AccessTokens \cup {NoToken.value}
DoneOK(x) ==
    /\ x = [stage |-> x.stage, message |-> x.message, answer |-> x.answer]
    /\ x.message \in Messages
    /\ x.answer \in Answers
Client(x) == Authenticate(x.message.headers)
ReqInv(x, s, a) ==
    /\ x.stage \in Awaits \cup {"idle", "done"}
    /\ x.stage = "idle" => x = Idle
    /\ x.stage \in Awaits => ActiveOK(x) /\ Client(x) # Nobody
    /\ x.stage \in {"idle", "refreshing", "stored", "body"} => s = NothingSent
    /\ x.stage \in {"idle", "refreshing", "stored", "body", "upstream"} => a = Nobody
    /\ x.stage \in {"upstream", "streaming"} => s.client = Client(x)
    /\ x.stage = "streaming" => a = IF Logged THEN Client(x) ELSE Nobody
    /\ x.stage = "done" =>
        /\ DoneOK(x)
        /\ s # NothingSent => Client(x) # Nobody
        /\ a # Nobody => a = Client(x) /\ x.answer.by \in {"upstream", "broken", "hangup"}
        /\ x.answer.by \in {"upstream", "broken"} /\ Logged => a # Nobody
    /\ a \in {Nobody, s.client}

IInv ==
    /\ token \in Tokens /\ initError \in BOOLEAN
    /\ req = [r \in Requests |-> req[r]]
    /\ sent = [r \in Requests |-> sent[r]]
    /\ audited = [r \in Requests |-> audited[r]]
    /\ \A r \in Requests : ReqInv(req[r], sent[r], audited[r])

LEMMA Stages ==
    /\ Awaits \cap {"idle", "done"} = {}
    /\ Idle.stage = "idle"
    /\ NothingSent.client = Nobody
BY DEF Awaits, Idle, NothingSent

(* One request changes its state; the token may change with it. *)
LEMMA Update ==
    ASSUME IInv, NEW r \in Requests, NEW x, NEW s, NEW a,
           req' = [req EXCEPT ![r] = x], sent' = [sent EXCEPT ![r] = s], audited' = [audited EXCEPT ![r] = a],
           ReqInv(x, s, a), token' \in Tokens, initError' \in BOOLEAN
    PROVE  IInv'
<1>1. /\ req' = [q \in Requests |-> req'[q]] /\ req'[r] = x
      /\ sent' = [q \in Requests |-> sent'[q]] /\ sent'[r] = s
      /\ audited' = [q \in Requests |-> audited'[q]] /\ audited'[r] = a
      /\ \A q \in Requests : q # r => req'[q] = req[q] /\ sent'[q] = sent[q] /\ audited'[q] = audited[q]
  BY DEF IInv
<1>2. ASSUME NEW q \in Requests PROVE ReqInv(req'[q], sent'[q], audited'[q])
  <2>1. CASE q = r
    BY <1>1, <2>1
  <2>2. CASE q # r
    BY <1>1, <2>2 DEF IInv
  <2> QED
    BY <2>1, <2>2
<1> QED
  BY <1>1, <1>2 DEF IInv

LEMMA Quiet ==
    ASSUME IInv, NEW r \in Requests, NEW x, req' = [req EXCEPT ![r] = x], UNCHANGED <<sent, audited>>,
           ReqInv(x, sent[r], audited[r]), token' \in Tokens, initError' \in BOOLEAN
    PROVE  IInv'
<1>1. sent' = [sent EXCEPT ![r] = sent[r]] /\ audited' = [audited EXCEPT ![r] = audited[r]]
  BY DEF IInv
<1> QED
  BY <1>1, Update

LEMMA GotoIs ==
    ASSUME NEW x, ActiveOK(x), NEW s
    PROVE  [x EXCEPT !.stage = s] = [stage |-> s, message |-> x.message, token |-> x.token]
BY DEF ActiveOK

LEMMA TokenIs ==
    ASSUME NEW y, y = [stage |-> y.stage, message |-> y.message, token |-> y.token], NEW t
    PROVE  [y EXCEPT !.token = t] = [stage |-> y.stage, message |-> y.message, token |-> t]
OBVIOUS

LEMMA GotoWithTokenIs ==
    ASSUME NEW x, ActiveOK(x), NEW s, NEW t
    PROVE  [x EXCEPT !.stage = s, !.token = t] = [stage |-> s, message |-> x.message, token |-> t]
<1> DEFINE y == [x EXCEPT !.stage = s]
<1>1. y = [stage |-> s, message |-> x.message, token |-> x.token]
  BY GotoIs
<1>2. y.stage = s /\ y.message = x.message /\ y.token = x.token
  <2> HIDE DEF y
  <2> QED
    BY <1>1
<1>3. [y EXCEPT !.token = t] = [stage |-> s, message |-> x.message, token |-> t]
  <2> HIDE DEF y
  <2> QED
    BY <1>1, <1>2, TokenIs
<1> QED
  BY <1>3

LEMMA StoredIs == ASSUME Stored PROVE token' \in Tokens
BY DEF Stored, Tokens

(* A handler ends. *)
LEMMA Ends ==
    ASSUME IInv, NEW r \in Requests, req[r].stage \in Awaits, NEW by, NEW status,
           Finish(r, by, status), [by |-> by, status |-> status] \in Answers,
           by \in {"upstream", "broken"} => req[r].stage = "streaming",
           by \notin {"upstream", "broken", "hangup"} => req[r].stage # "streaming",
           UNCHANGED <<token, initError, sent, audited>>
    PROVE  IInv'
<1> DEFINE x == Done(req[r].message, by, status)
<1>1. ReqInv(req[r], sent[r], audited[r])
  BY DEF IInv
<1>2. x.stage = "done" /\ x.message = req[r].message /\ x.answer.by = by /\ DoneOK(x)
  BY <1>1 DEF Done, DoneOK, ReqInv, ActiveOK
<1>3. Client(x) = Client(req[r]) /\ Client(x) # Nobody
  BY <1>1, <1>2 DEF Client, ReqInv
<1>4. req' = [req EXCEPT ![r] = x]
  BY DEF Finish
<1> HIDE DEF x
<1>5. "done" \notin Awaits
  BY DEF Awaits
<1>6. ReqInv(x, sent[r], audited[r])
  BY <1>1, <1>2, <1>3, <1>5 DEF ReqInv, Awaits
<1> QED
  BY <1>4, <1>6, Quiet DEF IInv

-----------------------------------------------------------------------------
LEMMA ArriveStep == ASSUME IInv, NEW r \in Requests, Arrive(r) PROVE IInv'
<1>0. sent[r] = NothingSent /\ audited[r] = Nobody
  BY DEF IInv, ReqInv, Arrive, At
<1>1. PICK message \in Messages : AnswerAtOnce(r, message) \/ Accept(r, message)
  BY DEF Arrive
<1>2. CASE AnswerAtOnce(r, message)
  <2> DEFINE status == CASE ~MethodAllowed(message) -> 405
                 [] MethodAllowed(message) /\ message.route = "health" -> HealthStatus
                 [] MethodAllowed(message) /\ message.route = "verify" -> VerifyStatus(message)
                 [] OTHER -> 401
             x == Done(message, "gateway", status)
  <2>1. status \in Statuses
    BY DEF Statuses, HealthStatus, VerifyStatus
  <2>2. req' = [req EXCEPT ![r] = x]
    BY <1>2 DEF AnswerAtOnce
  <2> HIDE DEF status
  <2>3. x.stage = "done" /\ x.answer.by = "gateway" /\ DoneOK(x)
    BY <2>1 DEF Done, DoneOK, Answers
  <2> HIDE DEF x
  <2>4. ReqInv(x, sent[r], audited[r])
    BY <1>0, <2>3 DEF ReqInv, Awaits
  <2> QED
    BY <2>2, <2>4, Quiet DEF Arrive, IInv
<1>3. CASE Accept(r, message)
  <2> DEFINE stage == IF token.valid THEN "body" ELSE "refreshing"
             x == [stage |-> stage, message |-> message, token |-> token.value]
  <2>1. req' = [req EXCEPT ![r] = x] /\ Authenticate(message.headers) # Nobody
    BY <1>3 DEF Accept
  <2>2. token.value \in AccessTokens \cup {NoToken.value}
    BY DEF IInv, Tokens, NoToken
  <2>3. stage \in {"body", "refreshing"}
    OBVIOUS
  <2> HIDE DEF stage
  <2>4. x.stage = stage /\ ActiveOK(x) /\ Client(x) # Nobody
    BY <2>1, <2>2 DEF ActiveOK, Client
  <2> HIDE DEF x
  <2>5. ReqInv(x, sent[r], audited[r])
    BY <1>0, <2>3, <2>4 DEF ReqInv, Awaits
  <2> QED
    BY <2>1, <2>5, Quiet DEF Arrive, IInv
<1> QED
  BY <1>1, <1>2, <1>3

(* A handler goes on before it has sent anything. *)
LEMMA GoesOn ==
    ASSUME IInv, NEW r \in Requests, req[r].stage \in {"refreshing", "stored"}, NEW s \in {"stored", "body"},
           NEW t \in AccessTokens \cup {NoToken.value},
           req' = [req EXCEPT ![r] = [stage |-> s, message |-> req[r].message, token |-> t]],
           UNCHANGED <<sent, audited, initError>>, token' \in Tokens
    PROVE  IInv'
<1> DEFINE x == [stage |-> s, message |-> req[r].message, token |-> t]
<1>1. ReqInv(req[r], sent[r], audited[r])
  BY DEF IInv
<1>2. x.stage = s /\ ActiveOK(x) /\ Client(x) # Nobody
  BY <1>1 DEF ReqInv, ActiveOK, Client, Awaits
<1>3. req' = [req EXCEPT ![r] = x]
  OBVIOUS
<1> HIDE DEF x
<1>4. ReqInv(x, sent[r], audited[r])
  BY <1>1, <1>2 DEF ReqInv, Awaits
<1> QED
  BY <1>3, <1>4, Quiet DEF IInv

LEMMA RefreshOkStep == ASSUME IInv, NEW r \in Requests, RefreshOk(r) PROVE IInv'
<1>1. req[r].stage = "refreshing" /\ ActiveOK(req[r])
  BY DEF RefreshOk, At, IInv, ReqInv, Awaits
<1>2. req' = [req EXCEPT ![r] = [stage |-> "stored", message |-> req[r].message, token |-> req[r].token]]
  BY <1>1, GotoIs DEF RefreshOk, Goto
<1> QED
  BY <1>1, <1>2, GoesOn, StoredIs DEF RefreshOk, ActiveOK

LEMMA RereadStep == ASSUME IInv, NEW r \in Requests, Reread(r) PROVE IInv'
<1>1. req[r].stage = "stored" /\ ActiveOK(req[r])
  BY DEF Reread, At, IInv, ReqInv, Awaits
<1>2. CASE token.valid
  <2>1. req' = [req EXCEPT ![r] = [stage |-> "body", message |-> req[r].message, token |-> token.value]]
    <3>1. req' = [req EXCEPT ![r] = [req[r] EXCEPT !.stage = "body", !.token = token.value]]
      BY <1>2 DEF Reread, IInv
    <3>2. [req[r] EXCEPT !.stage = "body", !.token = token.value]
            = [stage |-> "body", message |-> req[r].message, token |-> token.value]
      BY <1>1, GotoWithTokenIs
    <3> QED
      BY <3>1, <3>2
  <2>2. token.value \in AccessTokens \cup {NoToken.value} /\ token' \in Tokens
    BY DEF IInv, Tokens, NoToken, Reread
  <2> QED
    BY <1>1, <2>1, <2>2, GoesOn DEF Reread
<1>3. CASE ~token.valid
  BY <1>1, <1>3, Ends DEF Reread, Awaits, Answers, Statuses
<1> QED
  BY <1>2, <1>3

LEMMA BodyArrivesStep == ASSUME IInv, NEW r \in Requests, BodyArrives(r) PROVE IInv'
<1>1. req[r].stage = "body" /\ ReqInv(req[r], sent[r], audited[r]) /\ ActiveOK(req[r]) /\ Client(req[r]) # Nobody
  BY DEF BodyArrives, At, IInv, ReqInv, Awaits
<1>2. CASE (Finish(r, "gateway", 400) \/ Finish(r, "panic", 0)) /\ UNCHANGED sent
  BY <1>1, <1>2, Ends DEF BodyArrives, Awaits, Answers, Statuses
<1>3. CASE req[r].message.joins /\ req[r].token \in HeaderSafe
  <2> DEFINE x == [stage |-> "upstream", message |-> req[r].message, token |-> req[r].token]
             s == [client |-> Authenticate(req[r].message.headers), headers |-> UpstreamHeaders(r),
                   expired |-> token # [value |-> req[r].token, valid |-> TRUE]]
  <2>1. Goto(r, "upstream") /\ sent' = [sent EXCEPT ![r] = s]
    BY <1>3 DEF BodyArrives
  <2>2. req' = [req EXCEPT ![r] = x]
    BY <1>1, <2>1, GotoIs DEF Goto
  <2>3. x.stage = "upstream" /\ ActiveOK(x) /\ Client(x) = Client(req[r])
    BY <1>1 DEF ActiveOK, Client
  <2>4. s.client = Client(req[r])
    BY DEF Client
  <2> HIDE DEF x, s
  <2>5. ReqInv(x, s, audited[r])
    BY <1>1, <2>3, <2>4 DEF ReqInv, Awaits
  <2>6. audited' = [audited EXCEPT ![r] = audited[r]] /\ token' \in Tokens /\ initError' \in BOOLEAN
    BY DEF BodyArrives, IInv
  <2> QED
    BY <2>1, <2>2, <2>5, <2>6, Update
<1> QED
  BY <1>2, <1>3 DEF BodyArrives

LEMMA UpstreamAnswersStep == ASSUME IInv, NEW r \in Requests, UpstreamAnswers(r) PROVE IInv'
<1>1. req[r].stage = "upstream" /\ ReqInv(req[r], sent[r], audited[r]) /\ ActiveOK(req[r]) /\ Client(req[r]) # Nobody
  BY DEF UpstreamAnswers, At, IInv, ReqInv, Awaits
<1> DEFINE x == [stage |-> "streaming", message |-> req[r].message, token |-> req[r].token]
           a == IF Logged THEN sent[r].client ELSE audited[r]
<1>2. req' = [req EXCEPT ![r] = x]
  BY <1>1, GotoIs DEF UpstreamAnswers, Goto
<1>3. x.stage = "streaming" /\ ActiveOK(x) /\ Client(x) = Client(req[r])
  BY <1>1 DEF ActiveOK, Client
<1>4. a = IF Logged THEN Client(req[r]) ELSE Nobody
  BY <1>1 DEF ReqInv
<1>5. audited' = [audited EXCEPT ![r] = a]
  BY DEF UpstreamAnswers
<1> HIDE DEF x, a
<1>6. ReqInv(x, sent[r], a)
  BY <1>1, <1>3, <1>4 DEF ReqInv, Awaits
<1>7. sent' = [sent EXCEPT ![r] = sent[r]] /\ token' \in Tokens /\ initError' \in BOOLEAN
  BY DEF UpstreamAnswers, IInv
<1> QED
  BY <1>2, <1>5, <1>6, <1>7, Update

-----------------------------------------------------------------------------
LEMMA InitInv == Init => IInv
<1> SUFFICES ASSUME Init PROVE IInv
  OBVIOUS
<1>1. token \in Tokens /\ initError \in BOOLEAN
  BY DEF Init, Tokens
<1>2. ReqInv(Idle, NothingSent, Nobody)
  BY DEF ReqInv, Idle, NothingSent, Awaits
<1>3. \A r \in Requests : req[r] = Idle /\ sent[r] = NothingSent /\ audited[r] = Nobody
  BY DEF Init
<1>4. \A r \in Requests : ReqInv(req[r], sent[r], audited[r])
  BY <1>2, <1>3
<1> QED
  BY <1>1, <1>4 DEF Init, IInv

LEMMA StepInv == IInv /\ [Next]_vars => IInv'
<1> SUFFICES ASSUME IInv, [Next]_vars PROVE IInv'
  OBVIOUS
<1>1. CASE UNCHANGED vars
  BY <1>1 DEF vars, IInv
<1>2. CASE Expire
  <2>1. token \in [value : AccessTokens, valid : BOOLEAN]
    BY <1>2 DEF Expire, IInv, Tokens, NoToken
  <2>2. token' \in [value : AccessTokens, valid : BOOLEAN]
    BY <1>2, <2>1 DEF Expire
  <2> QED
    BY <1>2, <2>2 DEF Expire, IInv, Tokens
<1>3. CASE LoopRefresh
  BY <1>3, StoredIs DEF LoopRefresh, IInv
<1>4. ASSUME NEW r \in Requests, Arrive(r) \/ Step(r) \/ Disconnect(r) PROVE IInv'
  <2>1. CASE RefreshFails(r) \/ BodyBreaks(r) \/ UpstreamFails(r)
    BY <2>1, Ends DEF RefreshFails, BodyBreaks, UpstreamFails, At, Awaits, Answers, Statuses
  <2>2. CASE StreamEnds(r)
    BY <2>2, Ends DEF StreamEnds, At, Awaits, Answers
  <2>3. CASE Disconnect(r)
    BY <2>3, Ends DEF Disconnect, Answers
  <2> QED
    BY <1>4, <2>1, <2>2, <2>3, ArriveStep, RefreshOkStep, RereadStep, BodyArrivesStep, UpstreamAnswersStep DEF Step
<1> QED
  BY <1>1, <1>2, <1>3, <1>4 DEF Next

LEMMA SpecInv == Spec => []IInv
BY InitInv, StepInv, PTL DEF Spec

-----------------------------------------------------------------------------
(* The handlers stay in their stages and their answers among those the     *)
(* gateway gives.                                                          *)
THEOREM TypeOKHolds == Spec => []TypeOK
<1>1. IInv => TypeOK
  <2> SUFFICES ASSUME IInv, NEW r \in Requests, ReqInv(req[r], sent[r], audited[r]) PROVE
        /\ \/ req[r] = Idle
           \/ /\ req[r].stage \in Awaits
              /\ req[r].message \in Messages
              /\ req[r].token \in AccessTokens \cup {NoToken.value}
           \/ /\ At(r, "done")
              /\ req[r].message \in Messages
              /\ req[r].answer \in Answers
        /\ audited[r] \in {Nobody, sent[r].client}
    BY DEF IInv, TypeOK
  <2> QED
    BY DEF ReqInv, ActiveOK, DoneOK, At
<1> QED
  BY <1>1, SpecInv, PTL

(* No stranger gets as far as a refresh, a body or the upstream, whatever  *)
(* the other requests and the token do.                                    *)
THEOREM StrangersSpendNothingHolds == Spec => []StrangersSpendNothing
<1>1. IInv => StrangersSpendNothing
  BY Stages DEF IInv, ReqInv, StrangersSpendNothing, Client
<1> QED
  BY <1>1, SpecInv, PTL

(* The audit log names the client of each relayed answer and of no other.  *)
THEOREM AuditIsTrueHolds == Spec => []AuditIsTrue
<1>1. IInv => AuditIsTrue
  <2> SUFFICES ASSUME IInv, NEW r \in Requests, ReqInv(req[r], sent[r], audited[r]) PROVE
        LET relayed == At(r, "streaming") \/ (At(r, "done") /\ req[r].answer.by \in {"upstream", "broken"})
            hungUp == At(r, "done") /\ req[r].answer.by = "hangup"
        IN  /\ audited[r] # Nobody =>
                    /\ relayed \/ hungUp
                    /\ audited[r] = Authenticate(req[r].message.headers)
            /\ relayed /\ Logged => audited[r] # Nobody
    BY DEF IInv, AuditIsTrue
  <2> QED
    BY DEF ReqInv, At, Client, Awaits
<1> QED
  BY <1>1, SpecInv, PTL

-----------------------------------------------------------------------------
(* What is on its way to the upstream was made of the headers that came in *)
(* and of a token that may stand in a header, and stays as it is.          *)
Outgoing(headers, t) ==
    LET kept == RewriteHeaders(headers)
    IN  [name \in (DOMAIN kept \ {"content-length"}) \cup {"x-api-key"} |->
            IF name = "x-api-key" THEN <<<<t>>>> ELSE kept[name]]
MadeOf(s, headers) == \E t \in HeaderSafe : s.headers = Outgoing(headers, t)

HeaderInv ==
    /\ IInv
    /\ \A r \in Requests : sent[r] # NothingSent => MadeOf(sent[r], req[r].message.headers)

LEMMA SentStages ==
    ASSUME IInv, NEW r \in Requests, sent[r] # NothingSent
    PROVE  req[r].stage \in {"upstream", "streaming", "done"}
BY DEF IInv, ReqInv, Awaits

(* Of another request a step shows nothing. *)
LEMMA OthersKept ==
    ASSUME IInv, NEW q \in Requests, Arrive(q) \/ Step(q) \/ Disconnect(q), NEW r \in Requests, r # q
    PROVE  req'[r] = req[r] /\ sent'[r] = sent[r]
BY DEF Arrive, AnswerAtOnce, Accept, Step, RefreshOk, Reread, RefreshFails, BodyArrives, BodyBreaks,
       UpstreamAnswers, UpstreamFails, StreamEnds, Disconnect, Finish, Goto, IInv

LEMMA FinishKeeps ==
    ASSUME IInv, NEW r \in Requests, NEW by, NEW status, Finish(r, by, status)
    PROVE  req'[r].message = req[r].message
<1>1. req'[r] = Done(req[r].message, by, status)
  BY DEF Finish, IInv
<1> QED
  BY <1>1 DEF Done

LEMMA GotoKeeps ==
    ASSUME IInv, NEW r \in Requests, req[r].stage \in Awaits, NEW s, Goto(r, s)
    PROVE  req'[r].message = req[r].message
<1>1. ActiveOK(req[r])
  BY DEF IInv, ReqInv
<1>2. req'[r] = [req[r] EXCEPT !.stage = s]
  BY DEF Goto, IInv
<1> QED
  BY <1>1, <1>2, GotoIs

LEMMA SentKept ==
    ASSUME IInv, NEW r \in Requests, sent[r] # NothingSent, Arrive(r) \/ Step(r) \/ Disconnect(r)
    PROVE  sent'[r] = sent[r] /\ req'[r].message = req[r].message
<1>1. req[r].stage \in {"upstream", "streaming", "done"}
  BY SentStages
<1>2. UpstreamAnswers(r) \/ UpstreamFails(r) \/ StreamEnds(r) \/ Disconnect(r)
  BY <1>1 DEF Arrive, Step, RefreshOk, Reread, RefreshFails, BodyArrives, BodyBreaks, At
<1>3. UNCHANGED sent
  BY <1>2 DEF UpstreamAnswers, UpstreamFails, StreamEnds, Disconnect
<1>4. CASE UpstreamAnswers(r)
  BY <1>4, GotoKeeps DEF UpstreamAnswers, At, Awaits
<1>5. CASE UpstreamFails(r) \/ StreamEnds(r) \/ Disconnect(r)
  BY <1>5, FinishKeeps DEF UpstreamFails, StreamEnds, Disconnect
<1> QED
  BY <1>2, <1>3, <1>4, <1>5

LEMMA SentNew ==
    ASSUME IInv, NEW r \in Requests, sent[r] = NothingSent, sent'[r] # NothingSent,
           Arrive(r) \/ Step(r) \/ Disconnect(r)
    PROVE  MadeOf(sent'[r], req'[r].message.headers)
<1>1. BodyArrives(r) /\ ~UNCHANGED sent
  BY DEF Arrive, Step, RefreshOk, Reread, RefreshFails, BodyBreaks, UpstreamAnswers, UpstreamFails,
         StreamEnds, Disconnect
<1>2. req[r].token \in HeaderSafe /\ Goto(r, "upstream") /\ req[r].stage \in Awaits
  BY <1>1 DEF BodyArrives, At, Awaits
<1> DEFINE s == [client |-> Authenticate(req[r].message.headers), headers |-> UpstreamHeaders(r),
                 expired |-> token # [value |-> req[r].token, valid |-> TRUE]]
<1>3. sent' = [sent EXCEPT ![r] = s]
  BY <1>1 DEF BodyArrives
<1>4. s.headers = Outgoing(req[r].message.headers, req[r].token)
  BY DEF UpstreamHeaders, Outgoing
<1> HIDE DEF s
<1>5. sent'[r] = s
  BY <1>3 DEF IInv
<1>6. req'[r].message = req[r].message
  BY <1>2, GotoKeeps
<1> QED
  BY <1>2, <1>4, <1>5, <1>6 DEF MadeOf

LEMMA HeaderStep == HeaderInv /\ [Next]_vars => HeaderInv'
<1> SUFFICES ASSUME HeaderInv, [Next]_vars, NEW r \in Requests, sent'[r] # NothingSent
             PROVE  MadeOf(sent'[r], req'[r].message.headers)
  BY StepInv DEF HeaderInv, MadeOf, Outgoing
<1>0. IInv
  BY DEF HeaderInv
<1>1. CASE UNCHANGED <<req, sent>>
  BY <1>1 DEF HeaderInv
<1>2. ASSUME NEW q \in Requests, Arrive(q) \/ Step(q) \/ Disconnect(q)
      PROVE  MadeOf(sent'[r], req'[r].message.headers)
  <2>1. CASE q # r
    BY <1>0, <1>2, <2>1, OthersKept DEF HeaderInv
  <2>2. CASE q = r /\ sent[r] # NothingSent
    BY <1>0, <1>2, <2>2, SentKept DEF HeaderInv
  <2>3. CASE q = r /\ sent[r] = NothingSent
    BY <1>0, <1>2, <2>3, SentNew
  <2> QED
    BY <2>1, <2>2, <2>3
<1> QED
  BY <1>1, <1>2 DEF Next, Expire, LoopRefresh, vars

LEMMA SpecHeaders == Spec => []HeaderInv
<1>1. Init => HeaderInv
  BY InitInv DEF Init, HeaderInv
<1> QED
  BY <1>1, HeaderStep, PTL DEF Spec

(* The names that go out, and with which values. *)
Passed(headers) == DOMAIN headers \ (StrippedHeaders \cup {"content-length"})
LEMMA OutgoingIs ==
    ASSUME NEW headers, NEW t
    PROVE  /\ DOMAIN Outgoing(headers, t) = {"x-api-key"} \cup Passed(headers)
           /\ Outgoing(headers, t)["x-api-key"] = <<<<t>>>>
           /\ \A name \in Passed(headers) :
                    Outgoing(headers, t)[name] = IF name = "user-agent"
                                                 THEN <<CanonicalUserAgent>> ELSE headers[name]
BY DEF Passed, Outgoing, RewriteHeaders, StrippedHeaders, CredentialHeaders, Join

(* What concerns only the upstream arrives there with every value, for any *)
(* headers of any number of requests.                                      *)
THEOREM HeadersSurviveHolds == Spec => []HeadersSurvive
<1>1. ASSUME HeaderInv, NEW r \in Requests, sent[r] # NothingSent,
             NEW name \in DOMAIN req[r].message.headers \ (StrippedHeaders \cup {"content-length"})
      PROVE  /\ name \in DOMAIN sent[r].headers
             /\ name # "user-agent" => sent[r].headers[name] = req[r].message.headers[name]
  <2>1. PICK t \in HeaderSafe : sent[r].headers = Outgoing(req[r].message.headers, t)
    BY <1>1 DEF HeaderInv, MadeOf
  <2> DEFINE h == req[r].message.headers
             o == Outgoing(h, t)
  <2>2. name \in Passed(h)
    BY DEF Passed
  <2>3. /\ DOMAIN o = {"x-api-key"} \cup Passed(h)
        /\ \A n \in Passed(h) : o[n] = IF n = "user-agent" THEN <<CanonicalUserAgent>> ELSE h[n]
    BY OutgoingIs
  <2> HIDE DEF h, o
  <2>4. name \in DOMAIN o /\ (name # "user-agent" => o[name] = h[name])
    BY <2>2, <2>3
  <2> QED
    BY <2>1, <2>4 DEF h, o
<1>2. HeaderInv => HeadersSurvive
  BY <1>1 DEF HeadersSurvive
<1> QED
  BY <1>2, SpecHeaders, PTL

-----------------------------------------------------------------------------
(* No key of a client leaves, if clients keep their keys in the headers    *)
(* that are for them and no access token is a key.                         *)
SecretWords == UNION {{t[j] : j \in DOMAIN t} : t \in DOMAIN ClientTokens}
Discreet(values) == \A i \in DOMAIN values : \A k \in DOMAIN values[i] : values[i][k] \notin SecretWords
KeysInTheirPlace ==
    /\ HeaderSafe \cap SecretWords = {}
    /\ Discreet(<<CanonicalUserAgent>>)
    /\ \A m \in Messages : \A name \in DOMAIN m.headers \ CredentialHeaders : Discreet(m.headers[name])

LEMMA DiscreetIsSecret ==
    ASSUME NEW values, Discreet(values)
    PROVE  \A token_ \in DOMAIN ClientTokens : \A i \in DOMAIN values : \A j \in DOMAIN token_ :
                token_[j] \notin {values[i][k] : k \in DOMAIN values[i]}
BY DEF Discreet, SecretWords

(* What leaves shows the manager's token and no key of any client.         *)
THEOREM ClientSecretsStayHolds == ASSUME KeysInTheirPlace PROVE Spec => []ClientSecretsStay
<1>1. ASSUME HeaderInv, NEW r \in Requests, sent[r] # NothingSent
      PROVE  /\ \A name \in DOMAIN sent[r].headers : Discreet(sent[r].headers[name])
             /\ DOMAIN sent[r].headers \cap CredentialHeaders = {"x-api-key"}
             /\ \E value \in HeaderSafe : sent[r].headers["x-api-key"] = <<<<value>>>>
  <2> DEFINE h == req[r].message.headers
  <2>1. PICK t \in HeaderSafe : sent[r].headers = Outgoing(h, t)
    BY <1>1 DEF HeaderInv, MadeOf
  <2>2. req[r].message \in Messages
    BY <1>1, SentStages DEF HeaderInv, IInv, ReqInv, ActiveOK, DoneOK, Awaits
  <2>3. \A name \in DOMAIN h \ CredentialHeaders : Discreet(h[name])
    BY <2>2 DEF KeysInTheirPlace
  <2>4. Discreet(<<<<t>>>>)
    <3>1. t \notin SecretWords
      BY DEF KeysInTheirPlace
    <3> QED
      BY <3>1 DEF Discreet
  <2> HIDE DEF h
  <2>5. ASSUME NEW name \in DOMAIN Outgoing(h, t) PROVE Discreet(Outgoing(h, t)[name])
    <3>1. CASE name = "x-api-key"
      BY <2>4, <3>1, OutgoingIs
    <3>2. CASE name = "user-agent"
      <4>1. Outgoing(h, t)[name] = <<CanonicalUserAgent>>
        BY <2>5, <3>2, OutgoingIs
      <4> QED
        BY <4>1 DEF KeysInTheirPlace
    <3>3. CASE name \notin {"x-api-key", "user-agent"}
      <4>1. name \in Passed(h)
        BY <2>5, <3>3, OutgoingIs
      <4>2. Outgoing(h, t)[name] = h[name]
        BY <3>3, <4>1, OutgoingIs
      <4>3. name \in DOMAIN h \ CredentialHeaders
        BY <4>1 DEF Passed, StrippedHeaders
      <4> QED
        BY <2>3, <4>2, <4>3
    <3> QED
      BY <3>1, <3>2, <3>3
  <2>6. DOMAIN Outgoing(h, t) \cap CredentialHeaders = {"x-api-key"}
    BY OutgoingIs DEF Passed, StrippedHeaders, CredentialHeaders
  <2>7. Outgoing(h, t)["x-api-key"] = <<<<t>>>>
    BY OutgoingIs
  <2> QED
    BY <2>1, <2>5, <2>6, <2>7
<1>2. HeaderInv => ClientSecretsStay
  BY <1>1, DiscreetIsSecret DEF ClientSecretsStay
<1> QED
  BY <1>2, SpecHeaders, PTL

(* What leaves has the gateway's credential for the client's, and all else *)
(* that is for the upstream.                                               *)
THEOREM ForwardedHeadersHold == ASSUME KeysInTheirPlace PROVE Spec => []ForwardedHeaders
<1>1. ClientSecretsStay /\ HeadersSurvive => ForwardedHeaders
  BY DEF ForwardedHeaders
<1> QED
  BY <1>1, ClientSecretsStayHolds, HeadersSurviveHolds, PTL

-----------------------------------------------------------------------------
(* The two gateways agree on every header that is neither empty nor        *)
(* repeated, if each key of auth.tokens is one visible word; the words of  *)
(* headers are in W.                                                       *)
KeysAreWords(W) ==
    /\ \A t \in DOMAIN ClientTokens : \E w \in W \ {"opaque"} : t = <<w>>
    /\ \A m \in Messages : \A name \in CredentialHeaders \cap DOMAIN m.headers :
            m.headers[name] \in Seq(Seq(W))

LEMMA NotAKey ==
    ASSUME NEW W, KeysAreWords(W), NEW value, Len(value) # 1 \/ value = Opaque
    PROVE  ClientOf(value) = Nobody
<1>1. \A w \in W \ {"opaque"} : Len(<<w>>) = 1 /\ <<w>> # Opaque
  BY DEF Opaque
<1>2. value \notin DOMAIN ClientTokens
  BY <1>1 DEF KeysAreWords
<1> QED
  BY <1>2 DEF ClientOf

LEMMA SameKey ==
    ASSUME NEW W, KeysAreWords(W), NEW m \in Messages, Regular(m.headers)
    PROVE  AuthenticateApiKey(m.headers) = ClientOf(NodeValue(m.headers, "x-api-key"))
<1> DEFINE h == m.headers
<1>1. Len(NoValue) = 2 /\ Len(<< >>) = 0
  BY DEF NoValue
<1>2. CASE "x-api-key" \notin DOMAIN h
  BY <1>1, <1>2, NotAKey DEF AuthenticateApiKey, HeaderValue, NodeValue
<1>3. CASE "x-api-key" \in DOMAIN h
  <2>1. Len(h["x-api-key"]) = 1
    BY <1>3 DEF Regular, CredentialHeaders
  <2>3. NodeValue(h, "x-api-key") = h["x-api-key"][1]
    BY <1>3, <2>1 DEF NodeValue
  <2> QED
    BY <1>1, <1>3, <2>3, NotAKey DEF AuthenticateApiKey, HeaderValue
<1> QED
  BY <1>2, <1>3

LEMMA TailIs ==
    ASSUME NEW W, NEW v \in Seq(W), Len(v) >= 2
    PROVE  Len(Tail(v)) = Len(v) - 1 /\ Tail(v) \in Seq(W) /\ \A i \in 1 .. Len(v) - 1 : Tail(v)[i] = v[i + 1]
<1>1. v # << >>
  BY EmptySeq
<1> QED
  BY <1>1, HeadTailProperties

LEMMA LongTail == ASSUME NEW W, NEW v \in Seq(W), Len(v) > 2 PROVE Len(Tail(v)) # 1
<1> DEFINE n == Len(Tail(v))
           m == Len(v)
<1>1. n = m - 1
  BY TailIs
<1>2. m > 2 /\ m \in Nat
  BY LenProperties
<1> HIDE DEF n, m
<1>3. n # 1
  BY <1>1, <1>2
<1> QED
  BY <1>3 DEF n

LEMMA ShortTail == ASSUME NEW W, NEW v \in Seq(W), Len(v) = 2 PROVE Tail(v) = <<v[2]>>
<1> DEFINE t == Tail(v)
           x == v[2]
<1> HIDE DEF x
<1>0. Len(v) >= 2
  OBVIOUS
<1>1. t \in Seq(W) /\ Len(t) = Len(v) - 1 /\ \A i \in 1 .. Len(v) - 1 : t[i] = v[i + 1]
  <2> HIDE DEF t
  <2>1. t = Tail(v)
    BY DEF t
  <2> QED
    BY <1>0, <2>1, TailIs, Zenon
<1> HIDE DEF t
<1>2. Len(t) = 1 /\ t[1] = x
  <2>1. Len(t) = 2 - 1
    BY <1>1
  <2>2. 1 \in 1 .. Len(v) - 1
    OBVIOUS
  <2>3. t[1] = v[1 + 1] /\ x = v[2]
    BY <1>1, <2>2 DEF x
  <2> QED
    BY <2>1, <2>3
<1>3. DOMAIN t = 1 .. 1 /\ t = [i \in 1 .. 1 |-> t[i]]
  BY <1>1, <1>2, LenProperties
<1>4. t = <<x>>
  BY <1>2, <1>3
<1> QED
  BY <1>4 DEF t, x

LEMMA NoValueIsNoKey ==
    ASSUME NEW W, KeysAreWords(W)
    PROVE  ClientOf(NoValue) = Nobody /\ ClientOf(ExtractBearerToken(NoValue)) = Nobody
<1>1. NoValue[1] \notin Bearer /\ Len(NoValue) = 2
  BY DEF NoValue, Bearer
<1>2. ExtractBearerToken(NoValue) = NoValue
  BY <1>1 DEF ExtractBearerToken
<1> QED
  BY <1>1, <1>2, NotAKey

(* What each of them makes of one bearer header. *)
LEMMA SameBearer ==
    ASSUME NEW W, KeysAreWords(W), NEW value \in Seq(W)
    PROVE  ClientOf(ExtractBearerToken(value))
             = IF Len(value) >= 2 /\ value[1] \in Bearer THEN ClientOf(Tail(value)) ELSE Nobody
<1> DEFINE n == Len(value)
           t == Tail(value)
<1>0. n \in Nat /\ ClientOf(NoValue) = Nobody
  BY LenProperties, NoValueIsNoKey
<1>1. n = 2 => t = <<value[2]>>
  BY ShortTail
<1>2. n > 2 => Len(t) # 1
  BY LongTail
<1> HIDE DEF t
<1>3. n > 2 => ClientOf(t) = Nobody
  BY <1>2, NotAKey
<1>4. ExtractBearerToken(value) = IF n = 2 /\ value[1] \in Bearer THEN <<value[2]>> ELSE NoValue
  BY DEF ExtractBearerToken
<1> HIDE DEF n
<1>5. ClientOf(ExtractBearerToken(value)) = IF n >= 2 /\ value[1] \in Bearer THEN ClientOf(t) ELSE Nobody
  <2>1. CASE n = 2
    BY <1>0, <1>1, <1>4, <2>1
  <2>2. CASE n > 2
    BY <1>0, <1>3, <1>4, <2>2
  <2>3. CASE n < 2
    BY <1>0, <1>4, <2>3
  <2> QED
    BY <1>0, <2>1, <2>2, <2>3
<1> QED
  BY <1>5 DEF n, t

(* Both gateways know the same clients by the same credentials, for any    *)
(* entries and any combination of wrong or missing headers.                *)
THEOREM AgreesWithTypeScriptHolds == ASSUME NEW W, KeysAreWords(W) PROVE Spec => []AgreesWithTypeScript
<1>1. ASSUME NEW m \in Messages, Regular(m.headers) PROVE SameClients(m.headers)
  <2> DEFINE h == m.headers
             name == IF "proxy-authorization" \in DOMAIN h THEN "proxy-authorization" ELSE "authorization"
             proxy == NodeValue(h, "proxy-authorization")
             auth == IF proxy # << >> THEN proxy ELSE NodeValue(h, "authorization")
             ofAuth == IF Len(auth) >= 2 /\ auth[1] \in Bearer THEN ClientOf(Tail(auth)) ELSE Nobody
  <2>1. TsAuthenticate(h) = IF ClientOf(NodeValue(h, "x-api-key")) # Nobody
                            THEN ClientOf(NodeValue(h, "x-api-key")) ELSE ofAuth
    BY DEF TsAuthenticate
  <2>2. auth = IF name \in DOMAIN h THEN h[name][1] ELSE << >>
    BY <1>1 DEF NodeValue, Regular, CredentialHeaders
  <2>3. AuthenticateBearer(h) = ClientOf(ExtractBearerToken(HeaderValue(h, name)))
    BY DEF AuthenticateBearer
  <2>none. ClientOf(ExtractBearerToken(NoValue)) = Nobody
    BY NoValueIsNoKey
  <2> HIDE DEF auth, proxy
  <2>4. AuthenticateBearer(h) = ofAuth
    <3>1. CASE name \notin DOMAIN h
      <4>1. HeaderValue(h, name) = NoValue /\ Len(auth) = 0
        BY <2>2, <3>1 DEF HeaderValue
      <4> QED
        BY <2>3, <2>none, <4>1
    <3>2. CASE name \in DOMAIN h /\ h[name][1] = Opaque
      <4>1. HeaderValue(h, name) = NoValue /\ Len(auth) = 1
        BY <2>2, <3>2 DEF HeaderValue, Opaque
      <4> QED
        BY <2>3, <2>none, <4>1
    <3>3. CASE name \in DOMAIN h /\ h[name][1] # Opaque
      <4>1. h[name] \in Seq(Seq(W)) /\ Len(h[name]) = 1
        BY <1>1, <3>3 DEF KeysAreWords, Regular, CredentialHeaders
      <4>2. HeaderValue(h, name) = h[name][1] /\ auth = h[name][1] /\ auth \in Seq(W)
        BY <2>2, <3>3, <4>1 DEF HeaderValue
      <4> QED
        BY <2>3, <3>3, <4>2, SameBearer
    <3> QED
      BY <3>1, <3>2, <3>3
  <2> QED
    BY <1>1, <2>1, <2>4, SameKey DEF SameClients, Authenticate
<1>2. ASSUME IInv, NEW r \in Requests, req[r] # Idle PROVE req[r].message \in Messages
  BY <1>2 DEF IInv, ReqInv, ActiveOK, DoneOK
<1>3. IInv => AgreesWithTypeScript
  BY <1>1, <1>2 DEF AgreesWithTypeScript
<1> QED
  BY <1>3, SpecInv, PTL
=============================================================================
