------------------------- MODULE OAuthManagerProofs -------------------------
(***************************************************************************)
(* What TLAPS proves about OAuthManager, for every set of requests, every  *)
(* set of refresh tokens and every delay.                                  *)
(***************************************************************************)
EXTENDS OAuthManager, TLAPS

-----------------------------------------------------------------------------
(* Typing and lifetimes.  TypeOK alone is not inductive: a reply without a  *)
(* refresh token makes Apply store the token that was sent, so a call under *)
(* way must hold one, and a call is under way only at its caller's await.   *)
CallInv ==
    \A p \in Callers :
        call[p].st # "idle" => pc[p] = "post" /\ call[p].old \in Tokens

(* The loop exists only after the start-up has scheduled it, with a dated   *)
(* token in the store, and the server owns a clone until it is gone.        *)
LifeInv ==
    /\ pc["server"] \in {"init", "post", "schedule"} => pc["loop"] = "absent"
    /\ pc["server"] # "gone" => "server" \in handles
    /\ pc["server"] = "schedule" \/ pc["loop"] # "absent" => store.dated /\ store.access
    /\ ServingKeepsLoop

Inv == TypeOK /\ CallInv /\ LifeInv

AllStates == ServerStates \cup LoopStates \cup RequestStates

(* The two callers that are not requests are named by strings. *)
LEMMA CallerNames ==
    /\ "server" \in Callers /\ "loop" \in Callers
    /\ \A r \in Req : r \in Callers /\ r # "server" /\ r # "loop"
    /\ \A p \in Callers : p \in Req \/ p = "server" \/ p = "loop"
BY ReqAssumption DEF Callers

LEMMA RefreshDelayNat == \A ttl \in Nat : RefreshDelay(ttl) \in Nat
BY TimeAssumption DEF RefreshDelay

(* Where Ok and Err leave each caller. *)
LEMMA AfterStates ==
    /\ AfterOk("server") = "schedule" /\ AfterError("server") = "up"
    /\ AfterOk("loop") = "resched" /\ AfterError("loop") = "sleep"
    /\ \A r \in Req : AfterOk(r) = "reread" /\ AfterError(r) = "failed"
BY CallerNames DEF AfterOk, AfterError

(* A caller p moves to s; nobody else moves. *)
Moves(p, s) == pc' = [pc EXCEPT ![p] = s]

MovesWell(p, s) ==
    \/ p = "server" /\ s \in ServerStates
    \/ p = "loop" /\ s \in LoopStates
    \/ p \in Req /\ s \in RequestStates

PcOK ==
    /\ pc \in [Callers -> AllStates]
    /\ pc["server"] \in ServerStates
    /\ pc["loop"] \in LoopStates
    /\ \A r \in Req : pc[r] \in RequestStates

LEMMA MoveTypes ==
    ASSUME TypeOK, NEW p \in Callers, NEW s, Moves(p, s), MovesWell(p, s)
    PROVE  PcOK'
<1>1. s \in AllStates
  BY DEF MovesWell, AllStates
<1>2. pc \in [Callers -> AllStates]
  BY DEF TypeOK, AllStates
<1>3. pc' \in [Callers -> AllStates] /\ \A q \in Callers : pc'[q] = IF q = p THEN s ELSE pc[q]
  BY <1>1, <1>2 DEF Moves
<1> QED
  BY <1>3, CallerNames DEF PcOK, MovesWell, TypeOK

(* Sending a POST puts the caller at its await with the stored token. *)
LEMMA SendTypes ==
    ASSUME TypeOK, CallInv, NEW p \in Callers, Send(p)
    PROVE  PcOK' /\ call' \in [Callers -> Calls] /\ CallInv'
<1>1. Moves(p, "post") /\ MovesWell(p, "post")
  BY CallerNames DEF Send, Moves, MovesWell, ServerStates, LoopStates, RequestStates
<1>2. store.refresh \in Tokens
  BY DEF TypeOK, Stores
<1>3. [st |-> "sent", old |-> store.refresh, new |-> NoToken, life |-> 0] \in Calls
  BY <1>2 DEF Calls
<1>4. call' \in [Callers -> Calls]
  BY <1>3 DEF Send, TypeOK
<1>5. CallInv'
  BY <1>2 DEF Send, TypeOK, CallInv
<1> QED
  BY <1>1, <1>4, <1>5, MoveTypes

(* When a call ends its caller is free to move on. *)
LEMMA EndOfCall ==
    ASSUME TypeOK, CallInv, NEW p \in Callers, NEW s, Moves(p, s), MovesWell(p, s),
           call' = [call EXCEPT ![p] = NoCall]
    PROVE  PcOK' /\ call' \in [Callers -> Calls] /\ CallInv'
<1>1. NoCall \in Calls
  BY DEF NoCall, Calls
<1>2. call' \in [Callers -> Calls]
  BY <1>1 DEF TypeOK
<1>3. CallInv'
  BY DEF TypeOK, CallInv, NoCall, Moves
<1> QED
  BY <1>2, <1>3, MoveTypes

(* A caller that is not at its await moves without touching the calls. *)
LEMMA OtherMove ==
    ASSUME TypeOK, CallInv, NEW p \in Callers, NEW s, pc[p] # "post",
           Moves(p, s), MovesWell(p, s), call' = call
    PROVE  PcOK' /\ call' \in [Callers -> Calls] /\ CallInv'
<1>1. CallInv'
  BY DEF TypeOK, CallInv, NoCall, Moves
<1> QED
  BY <1>1, MoveTypes DEF TypeOK

-----------------------------------------------------------------------------
LEMMA InitInv == Init => Inv
<1> SUFFICES ASSUME Init PROVE Inv
  OBVIOUS
<1>1. /\ pc \in [Callers -> AllStates]
      /\ pc["server"] = "init" /\ pc["loop"] = "absent"
      /\ \A r \in Req : pc[r] = "idle"
  BY CallerNames DEF Init, AllStates, ServerStates, LoopStates, RequestStates
<1>2. store \in Stores /\ store.refresh \in Tokens
  BY TimeAssumption DEF Init, Stores
<1>3. call \in [Callers -> Calls] /\ \A p \in Callers : call[p] = NoCall
  BY DEF Init, Calls, NoCall
<1>4. TypeOK
  BY <1>1, <1>2, <1>3
     DEF TypeOK, Init, AllStates, ServerStates, LoopStates, RequestStates
<1>5. CallInv
  BY <1>3 DEF CallInv, NoCall
<1>6. LifeInv
  BY <1>1 DEF LifeInv, ServingKeepsLoop, Init
<1> QED
  BY <1>4, <1>5, <1>6 DEF Inv

(* What is left of TypeOK when pc and call keep their types. *)
LEMMA TypeParts ==
    ASSUME PcOK', call' \in [Callers -> Calls], store' \in Stores, wake' \in Nat,
           handles' \subseteq Req \cup {"server"}, live' \in Tokens \cup {NoToken},
           lost' \in BOOLEAN
    PROVE  TypeOK'
BY DEF TypeOK, PcOK, AllStates

(* The start-up *)
LEMMA InitManagerInv == Inv /\ InitManager => Inv'
<1> SUFFICES ASSUME Inv, InitManager PROVE Inv'
  OBVIOUS
<1> USE DEF Inv
<1>1. PcOK' /\ call' \in [Callers -> Calls] /\ CallInv'
  <2>1. CASE TokenAvailable
    <3>1. Moves("server", "schedule") /\ MovesWell("server", "schedule") /\ call' = call
      BY <2>1 DEF InitManager, Moves, MovesWell, ServerStates
    <3> QED
      BY <3>1, CallerNames, OtherMove DEF InitManager
  <2>2. CASE ~TokenAvailable
    BY <2>2, CallerNames, SendTypes DEF InitManager
  <2> QED
    BY <2>1, <2>2
<1>2. TypeOK'
  BY <1>1, TypeParts DEF InitManager, TypeOK
<1>3. pc'["loop"] = pc["loop"] /\ pc'["server"] \in {"schedule", "post"}
  BY CallerNames DEF InitManager, Send, TypeOK
<1>4. pc'["server"] = "schedule" => TokenAvailable
  BY CallerNames DEF InitManager, Send, TypeOK
<1>5. LifeInv'
  BY <1>3, <1>4 DEF LifeInv, ServingKeepsLoop, InitManager, TokenAvailable
<1> QED
  BY <1>1, <1>2, <1>5

LEMMA ScheduleRefreshInv == Inv /\ ScheduleRefresh => Inv'
<1> SUFFICES ASSUME Inv, ScheduleRefresh PROVE Inv'
  OBVIOUS
<1> USE DEF Inv
<1>1. store.dated /\ pc["loop"] = "absent"
  BY DEF ScheduleRefresh, LifeInv
<1>2. pc' = [pc EXCEPT !["server"] = "up", !["loop"] = "sleep"] /\ wake' = RefreshDelay(store.ttl)
  BY <1>1 DEF ScheduleRefresh
<1>3. PcOK' /\ pc'["server"] = "up" /\ pc'["loop"] = "sleep"
  BY <1>2, CallerNames DEF PcOK, TypeOK, AllStates, ServerStates, LoopStates
<1>4. TypeOK'
  BY <1>2, <1>3, RefreshDelayNat, TypeParts DEF ScheduleRefresh, TypeOK, Stores
<1>5. CallInv'
  BY <1>1, <1>2, CallerNames DEF ScheduleRefresh, CallInv, TypeOK
<1>6. LifeInv'
  BY <1>3 DEF ScheduleRefresh, LifeInv, ServingKeepsLoop
<1> QED
  BY <1>4, <1>5, <1>6

(* The refresh calls *)
LEMMA GrantInv == ASSUME NEW p \in Callers PROVE Inv /\ Grant(p) => Inv'
<1> SUFFICES ASSUME Inv, Grant(p) PROVE Inv'
  OBVIOUS
<1> USE DEF Inv
<1>1. PICK life \in Lifetimes, t \in Tokens \cup {NoToken} :
         /\ call' = [call EXCEPT ![p] =
                        [st |-> "granted", old |-> call[p].old, new |-> t, life |-> life]]
         /\ live' = IF t = NoToken THEN live ELSE t
  BY DEF Grant, Replies
<1>2. call[p].old \in Tokens /\ pc[p] = "post"
  BY DEF Grant, CallInv
<1>3. call' \in [Callers -> Calls]
  BY <1>1, <1>2, TimeAssumption DEF TypeOK, Calls
<1>4. TypeOK'
  BY <1>1, <1>3 DEF Grant, TypeOK
<1>5. CallInv'
  BY <1>1, <1>2 DEF Grant, TypeOK, CallInv
<1>6. LifeInv'
  BY DEF Grant, LifeInv, ServingKeepsLoop
<1> QED
  BY <1>4, <1>5, <1>6

LEMMA FailInv == ASSUME NEW p \in Callers PROVE Inv /\ (Refuse(p) \/ LoseReply(p)) => Inv'
<1> SUFFICES ASSUME Inv, Refuse(p) \/ LoseReply(p) PROVE Inv'
  OBVIOUS
<1> USE DEF Inv
<1>1. /\ pc[p] = "post"
      /\ Moves(p, AfterError(p))
      /\ call' = [call EXCEPT ![p] = NoCall]
      /\ UNCHANGED <<store, handles, live>>
  BY DEF Refuse, LoseReply, OnError, Discard, Moves, CallInv
<1>2. MovesWell(p, AfterError(p))
  BY AfterStates, CallerNames DEF MovesWell, ServerStates, LoopStates, RequestStates
<1>3. PcOK' /\ call' \in [Callers -> Calls] /\ CallInv'
  BY <1>1, <1>2, EndOfCall
<1>4. wake' \in Nat /\ lost' \in BOOLEAN
  BY TimeAssumption DEF Refuse, LoseReply, OnError, ErrorDelay, Discard, TypeOK
<1>5. TypeOK'
  BY <1>1, <1>3, <1>4, TypeParts DEF TypeOK
<1>6. LifeInv'
  BY <1>1, AfterStates, CallerNames DEF LifeInv, ServingKeepsLoop, Moves, TypeOK
<1> QED
  BY <1>3, <1>5, <1>6

LEMMA ApplyInv == ASSUME NEW p \in Callers PROVE Inv /\ Apply(p) => Inv'
<1> SUFFICES ASSUME Inv, Apply(p) PROVE Inv'
  OBVIOUS
<1> USE DEF Inv
<1>1. pc[p] = "post" /\ Moves(p, AfterOk(p)) /\ call' = [call EXCEPT ![p] = NoCall]
  BY DEF Apply, Moves, CallInv
<1>2. MovesWell(p, AfterOk(p))
  BY AfterStates, CallerNames DEF MovesWell, ServerStates, LoopStates, RequestStates
<1>3. PcOK' /\ call' \in [Callers -> Calls] /\ CallInv'
  BY <1>1, <1>2, EndOfCall
<1>4. call[p].old \in Tokens /\ call[p].new \in Tokens \cup {NoToken} /\ call[p].life \in Nat
  BY DEF Apply, TypeOK, Calls, CallInv
<1>5. store' \in Stores /\ store'.dated /\ store'.access
  BY <1>4 DEF Apply, Stores
<1>6. TypeOK'
  BY <1>3, <1>5, TypeParts DEF Apply, TypeOK
<1>7. LifeInv'
  BY <1>1, <1>5, AfterStates, CallerNames DEF Apply, LifeInv, ServingKeepsLoop, Moves, TypeOK
<1> QED
  BY <1>3, <1>6, <1>7

(* A request *)
LEMMA RequestInv == ASSUME NEW r \in Req PROVE Inv /\ Request(r) => Inv'
<1> SUFFICES ASSUME Inv, Request(r) PROVE Inv'
  OBVIOUS
<1> USE DEF Inv
<1> r \in Callers /\ r # "server" /\ r # "loop"
  BY CallerNames
<1>1. CASE Arrive(r)
  <2> DEFINE s == IF TokenAvailable THEN "served" ELSE "expired"
  <2>1. Moves(r, s) /\ MovesWell(r, s) /\ pc[r] # "post"
    BY <1>1 DEF Arrive, Moves, MovesWell, RequestStates
  <2>2. PcOK' /\ call' \in [Callers -> Calls] /\ CallInv'
    BY <1>1, <2>1, OtherMove DEF Arrive
  <2>3. TypeOK'
    BY <1>1, <2>2, TypeParts DEF Arrive, TypeOK
  <2>4. LifeInv'
    BY <1>1, CallerNames DEF Arrive, LifeInv, ServingKeepsLoop, TypeOK
  <2> QED
    BY <2>2, <2>3, <2>4
<1>2. CASE StartRefresh(r)
  <2>1. PcOK' /\ call' \in [Callers -> Calls] /\ CallInv'
    BY <1>2, SendTypes DEF StartRefresh
  <2>2. TypeOK'
    BY <1>2, <2>1, TypeParts DEF StartRefresh, TypeOK
  <2>3. LifeInv'
    BY <1>2, CallerNames DEF StartRefresh, Send, LifeInv, ServingKeepsLoop, TypeOK
  <2> QED
    BY <2>1, <2>2, <2>3
<1>3. CASE Reread(r)
  <2> DEFINE s == IF TokenAvailable THEN "served" ELSE "failed"
  <2>1. Moves(r, s) /\ MovesWell(r, s) /\ pc[r] # "post"
    BY <1>3 DEF Reread, Moves, MovesWell, RequestStates
  <2>2. PcOK' /\ call' \in [Callers -> Calls] /\ CallInv'
    BY <1>3, <2>1, OtherMove DEF Reread
  <2>3. TypeOK'
    BY <1>3, <2>2, TypeParts DEF Reread, TypeOK
  <2>4. LifeInv'
    BY <1>3, CallerNames DEF Reread, LifeInv, ServingKeepsLoop, TypeOK
  <2> QED
    BY <2>2, <2>3, <2>4
<1>4. CASE Disconnect(r)
  <2>1. Moves(r, "gone") /\ MovesWell(r, "gone")
    BY <1>4 DEF Disconnect, Moves, MovesWell, RequestStates
  <2>2. PcOK' /\ call' \in [Callers -> Calls] /\ CallInv'
    BY <1>4, <2>1, EndOfCall DEF Disconnect, Discard
  <2>3. TypeOK'
    BY <1>4, <2>2, TypeParts DEF Disconnect, Discard, TypeOK
  <2>4. LifeInv'
    BY <1>4, CallerNames DEF Disconnect, LifeInv, ServingKeepsLoop, TypeOK
  <2> QED
    BY <2>2, <2>3, <2>4
<1> QED
  BY <1>1, <1>2, <1>3, <1>4 DEF Request

(* A clone is dropped.  A request's clone is never the last one while the   *)
(* server lives, because the server owns one.                               *)
LEMMA DropInv == ASSUME NEW p \in Req \cup {"server"} PROVE Inv /\ DropClone(p) => Inv'
<1> SUFFICES ASSUME Inv, DropClone(p) PROVE Inv'
  OBVIOUS
<1> USE DEF Inv
<1> p \in Callers /\ p # "loop"
  BY CallerNames
<1>1. CASE DropBody(p)
  <2> DEFINE l == IF SoleOwner(p) /\ pc["loop"] = "sleep" THEN "ended" ELSE pc["loop"]
  <2>1. pc' = [pc EXCEPT ![p] = "dropping", !["loop"] = l]
    BY <1>1 DEF DropBody, TypeOK
  <2>2. \A q \in Callers : pc'[q] = IF q = "loop" THEN l ELSE IF q = p THEN "dropping" ELSE pc[q]
    BY <2>1 DEF TypeOK
  <2>3. l \in LoopStates
    BY DEF TypeOK, LoopStates
  <2>4. pc' \in [Callers -> AllStates]
    BY <2>1, <2>3 DEF TypeOK, AllStates, ServerStates
  <2>5. PcOK'
    BY <2>2, <2>3, <2>4, CallerNames DEF PcOK, TypeOK, ServerStates, RequestStates
  <2>6. CallInv'
    BY <1>1, <2>2 DEF DropBody, CallInv
  <2>7. TypeOK'
    BY <1>1, <2>5, TypeParts DEF DropBody, TypeOK
  <2>8. pc'["server"] = "up" => pc["server"] = "up" /\ p # "server"
    BY <2>2, CallerNames
  <2>9. pc'["server"] = "up" => pc'["loop"] # "ended"
    BY <2>2, <2>8, CallerNames DEF SoleOwner, LifeInv, ServingKeepsLoop
  <2>10. pc["loop"] = "absent" <=> pc'["loop"] = "absent"
    BY <2>2, CallerNames
  <2>11. \/ pc'["server"] = pc["server"]
         \/ pc'["server"] = "dropping" /\ "server" \in handles
    BY <1>1, <2>2, CallerNames DEF DropBody
  <2>12. LifeInv'
    BY <1>1, <2>9, <2>10, <2>11 DEF DropBody, LifeInv, ServingKeepsLoop
  <2> QED
    BY <2>6, <2>7, <2>12
<1>2. CASE Release(p)
  <2> DEFINE s == IF p = "server" THEN "gone" ELSE "idle"
  <2>1. Moves(p, s) /\ MovesWell(p, s) /\ pc[p] # "post"
    BY <1>2 DEF Release, Moves, MovesWell, ServerStates, RequestStates
  <2>2. PcOK' /\ call' \in [Callers -> Calls] /\ CallInv'
    BY <1>2, <2>1, OtherMove DEF Release
  <2>3. TypeOK'
    BY <1>2, <2>2, TypeParts DEF Release, TypeOK
  <2>4. LifeInv'
    BY <1>2, CallerNames DEF Release, LifeInv, ServingKeepsLoop, TypeOK
  <2> QED
    BY <2>2, <2>3, <2>4
<1> QED
  BY <1>1, <1>2 DEF DropClone

(* The loop and time *)
LEMMA LoopInv == Inv /\ (LoopWake \/ LoopReschedule) => Inv'
<1> SUFFICES ASSUME Inv, LoopWake \/ LoopReschedule PROVE Inv'
  OBVIOUS
<1> USE DEF Inv
<1>1. CASE LoopWake /\ handles # {}
  <2>1. Send("loop") /\ UNCHANGED <<store, wake, handles, live, lost>>
    BY <1>1 DEF LoopWake
  <2>2. PcOK' /\ call' \in [Callers -> Calls] /\ CallInv'
    BY <2>1, CallerNames, SendTypes
  <2>3. TypeOK'
    BY <2>1, <2>2, TypeParts DEF TypeOK
  <2>4. LifeInv'
    BY <1>1, <2>1, CallerNames DEF LoopWake, Send, LifeInv, ServingKeepsLoop, TypeOK
  <2> QED
    BY <2>2, <2>3, <2>4
<1>2. CASE LoopWake /\ handles = {}
  <2>1. /\ Moves("loop", "ended") /\ MovesWell("loop", "ended") /\ pc["loop"] = "sleep"
        /\ UNCHANGED <<store, call, wake, handles, live, lost>>
    BY <1>2 DEF LoopWake, Moves, MovesWell, LoopStates
  <2>2. PcOK' /\ call' \in [Callers -> Calls] /\ CallInv'
    BY <2>1, CallerNames, OtherMove
  <2>3. TypeOK'
    BY <2>1, <2>2, TypeParts DEF TypeOK
  <2>4. LifeInv'
    BY <1>2, <2>1, CallerNames DEF Moves, LifeInv, ServingKeepsLoop, TypeOK
  <2> QED
    BY <2>2, <2>3, <2>4
<1>3. CASE LoopReschedule
  <2>1. store.dated
    BY <1>3 DEF LoopReschedule, LifeInv
  <2>2. /\ Moves("loop", "sleep") /\ MovesWell("loop", "sleep") /\ pc["loop"] = "resched"
        /\ wake' = RefreshDelay(store.ttl)
        /\ UNCHANGED <<store, call, handles, live, lost>>
    BY <1>3, <2>1 DEF LoopReschedule, Moves, MovesWell, LoopStates
  <2>3. PcOK' /\ call' \in [Callers -> Calls] /\ CallInv'
    BY <2>2, CallerNames, OtherMove
  <2>4. TypeOK'
    BY <2>2, <2>3, RefreshDelayNat, TypeParts DEF TypeOK, Stores
  <2>5. LifeInv'
    BY <2>2, CallerNames DEF Moves, LifeInv, ServingKeepsLoop, TypeOK
  <2> QED
    BY <2>3, <2>4, <2>5
<1> QED
  BY <1>1, <1>2, <1>3

LEMMA TickInv == Inv /\ Tick => Inv'
<1> SUFFICES ASSUME Inv, Tick PROVE Inv'
  OBVIOUS
<1> USE DEF Inv
<1>1. \A n \in Nat : Less(n) \in Nat
  BY DEF Less
<1>2. store' \in Stores /\ store'.dated = store.dated /\ store'.access = store.access
  BY <1>1 DEF Tick, TypeOK, Stores
<1>3. TypeOK'
  BY <1>1, <1>2 DEF Tick, TypeOK
<1>4. CallInv' /\ LifeInv'
  BY <1>2 DEF Tick, CallInv, LifeInv, ServingKeepsLoop
<1> QED
  BY <1>3, <1>4

LEMMA StepInv == Inv /\ [Next]_vars => Inv'
<1> SUFFICES ASSUME Inv, [Next]_vars PROVE Inv'
  OBVIOUS
<1>1. CASE UNCHANGED vars
  BY <1>1 DEF vars, Inv, TypeOK, CallInv, LifeInv, ServingKeepsLoop
<1>2. CASE Next
  BY <1>2, InitManagerInv, ScheduleRefreshInv, LoopInv, TickInv, GrantInv, FailInv,
     ApplyInv, RequestInv, DropInv DEF Next, Answer
<1> QED
  BY <1>1, <1>2

-----------------------------------------------------------------------------
LEMMA Invariant == Spec => []Inv
BY InitInv, StepInv, PTL DEF Spec

(* Every variable keeps its type. *)
THEOREM TypeCorrect == Spec => []TypeOK
<1>1. Inv => TypeOK
  BY DEF Inv
<1> QED
  BY <1>1, Invariant, PTL

(* Dropping the clones of any number of requests, in any order, never stops *)
(* the background refresh of a gateway that is serving: drop's strong_count *)
(* test is enough, since the router owns a clone for as long as it serves.  *)
THEOREM LoopSurvivesRequests == Spec => []ServingKeepsLoop
<1>1. Inv => ServingKeepsLoop
  BY DEF Inv, LifeInv
<1> QED
  BY <1>1, Invariant, PTL

-----------------------------------------------------------------------------
(* Custody of the refresh token. *)

LEMMA InitCustody == Init => CustodyInv
<1> SUFFICES ASSUME Init PROVE CustodyInv
  OBVIOUS
<1>1. \A p \in Callers : call[p].st = "idle"
  BY DEF Init, NoCall
<1>2. Granted = {}
  BY <1>1 DEF Granted
<1>3. RefreshTokenCustody
  BY DEF Init, RefreshTokenCustody
<1> QED
  BY <1>1, <1>2, <1>3 DEF CustodyInv, ReadTokenIsStored, GrantIsAlone

(* A step that leaves the calls and both ends of the credential alone. *)
LEMMA CustodyFrame ==
    ASSUME CustodyInv, UNCHANGED <<call, live, lost>>, store'.refresh = store.refresh
    PROVE  CustodyInv'
BY DEF CustodyInv, RefreshTokenCustody, ReadTokenIsStored, GrantIsAlone, Granted

(* A new call carries the stored token. *)
LEMMA CustodySend ==
    ASSUME Inv, CustodyInv, NEW p \in Callers, pc[p] # "post", Send(p),
           UNCHANGED <<store, live, lost>>
    PROVE  CustodyInv'
<1>1. call[p].st = "idle"
  BY DEF Inv, CallInv
<1>2. /\ call'[p].st = "sent" /\ call'[p].old = store.refresh
      /\ \A q \in Callers : q # p => call'[q] = call[q]
  BY DEF Inv, TypeOK, Send
<1>3. Granted' = Granted /\ p \notin Granted
  BY <1>1, <1>2 DEF Granted
<1>4. RefreshTokenCustody'
  BY <1>2, <1>3 DEF CustodyInv, RefreshTokenCustody, Granted
<1>5. ReadTokenIsStored'
  BY <1>2 DEF CustodyInv, ReadTokenIsStored
<1>6. GrantIsAlone'
  BY <1>2, <1>3 DEF CustodyInv, GrantIsAlone, Granted
<1> QED
  BY <1>4, <1>5, <1>6 DEF CustodyInv

(* A call that ends without being stored: its new token, if any, is lost. *)
LEMMA CustodyDiscard ==
    ASSUME Inv, CustodyInv, NEW p \in Callers, Discard(p), UNCHANGED <<store, live>>
    PROVE  CustodyInv'
<1>1. call'[p].st = "idle" /\ \A q \in Callers : q # p => call'[q] = call[q]
  BY DEF Inv, TypeOK, Discard, NoCall
<1>2. Granted' = Granted \ {p}
  BY <1>1 DEF Granted
<1>3. RefreshTokenCustody'
  <2>1. CASE p \in Granted
    <3>1. call[p].new = live
      BY <2>1 DEF CustodyInv, GrantIsAlone
    <3> QED
      BY <3>1 DEF RefreshTokenCustody, Discard
  <2>2. CASE p \notin Granted
    BY <1>1, <1>2, <2>2 DEF CustodyInv, RefreshTokenCustody, Discard, Granted
  <2> QED
    BY <2>1, <2>2
<1>4. ReadTokenIsStored'
  BY <1>1 DEF CustodyInv, ReadTokenIsStored
<1>5. GrantIsAlone'
  BY <1>1, <1>2 DEF CustodyInv, GrantIsAlone, Granted
<1> QED
  BY <1>3, <1>4, <1>5 DEF CustodyInv

(* The endpoint can only grant a token that is the stored one, and only if  *)
(* no reply is under way; nobody has seen the new token before.             *)
LEMMA CustodyGrant ==
    ASSUME Rotations = {TRUE}, Inv, CustodyInv, NEW p \in Callers, Grant(p)
    PROVE  CustodyInv'
<1>1. PICK life \in Lifetimes, t \in Tokens \ Known :
         /\ call' = [call EXCEPT ![p] =
                        [st |-> "granted", old |-> call[p].old, new |-> t, life |-> life]]
         /\ live' = t
  BY TokenAssumption DEF Grant, Replies
<1>2. /\ call'[p].st = "granted" /\ call'[p].old = call[p].old /\ call'[p].new = t
      /\ \A q \in Callers : q # p => call'[q] = call[q]
  BY <1>1 DEF Inv, TypeOK
<1>3. store.refresh # t /\ \A q \in Callers : call[q].old # t
  BY DEF Known
<1>4. call[p].old = live /\ store.refresh = live
  BY DEF Grant, CustodyInv, ReadTokenIsStored
<1>5. Granted = {}
  BY <1>4 DEF CustodyInv, GrantIsAlone
<1>6. Granted' = {p}
  BY <1>2, <1>5 DEF Granted
<1>7. RefreshTokenCustody'
  BY <1>1, <1>2, <1>6 DEF RefreshTokenCustody
<1>8. ReadTokenIsStored'
  BY <1>1, <1>2, <1>3 DEF ReadTokenIsStored
<1>9. GrantIsAlone'
  BY <1>1, <1>2, <1>3, <1>4, <1>6 DEF GrantIsAlone, Grant
<1> QED
  BY <1>7, <1>8, <1>9 DEF CustodyInv

(* The one reply under way is stored: the live token is the stored one. *)
LEMMA CustodyApply ==
    ASSUME Inv, CustodyInv, NEW p \in Callers, Apply(p)
    PROVE  CustodyInv'
<1>1. p \in Granted
  BY DEF Apply, Granted
<1>2. call[p].new = live /\ Granted = {p}
  BY <1>1 DEF CustodyInv, GrantIsAlone
<1>3. call'[p].st = "idle" /\ \A q \in Callers : q # p => call'[q] = call[q]
  BY DEF Inv, TypeOK, Apply, NoCall
<1>4. Granted' = {}
  BY <1>2, <1>3 DEF Granted
<1>5. live = NoToken \/ store'.refresh = live
  BY <1>2 DEF Apply
<1>6. RefreshTokenCustody'
  BY <1>5 DEF Apply, RefreshTokenCustody
<1>7. ReadTokenIsStored'
  BY <1>3, <1>5, TokenAssumption DEF Apply, ReadTokenIsStored, Inv, CallInv
<1>8. GrantIsAlone'
  BY <1>4 DEF GrantIsAlone
<1> QED
  BY <1>6, <1>7, <1>8 DEF CustodyInv

LEMMA CustodyStep ==
    ASSUME Rotations = {TRUE}
    PROVE  Inv /\ CustodyInv /\ [Next]_vars => CustodyInv'
<1> SUFFICES ASSUME Inv, CustodyInv, [Next]_vars PROVE CustodyInv'
  OBVIOUS
<1>1. CASE InitManager
  <2>1. CASE TokenAvailable
    BY <1>1, <2>1, CustodyFrame DEF InitManager
  <2>2. CASE ~TokenAvailable
    BY <1>1, <2>2, CallerNames, CustodySend DEF InitManager
  <2> QED
    BY <2>1, <2>2
<1>2. CASE ScheduleRefresh \/ LoopReschedule
  BY <1>2, CustodyFrame DEF ScheduleRefresh, LoopReschedule
<1>3. CASE LoopWake
  <2>1. CASE handles # {}
    BY <1>3, <2>1, CallerNames, CustodySend DEF LoopWake
  <2>2. CASE handles = {}
    BY <1>3, <2>2, CustodyFrame DEF LoopWake
  <2> QED
    BY <2>1, <2>2
<1>4. CASE Tick
  <2>1. store'.refresh = store.refresh
    BY <1>4 DEF Tick, Inv, TypeOK, Stores
  <2> QED
    BY <1>4, <2>1, CustodyFrame DEF Tick
<1>5. ASSUME NEW p \in Callers, Answer(p) \/ Apply(p)
      PROVE  CustodyInv'
  BY <1>5, CustodyGrant, CustodyDiscard, CustodyApply DEF Answer, Refuse, LoseReply
<1>6. ASSUME NEW r \in Req, Request(r)
      PROVE  CustodyInv'
  <2>1. CASE Arrive(r) \/ Reread(r)
    BY <2>1, CustodyFrame DEF Arrive, Reread
  <2>2. CASE StartRefresh(r)
    BY <2>2, CallerNames, CustodySend DEF StartRefresh
  <2>3. CASE Disconnect(r)
    BY <2>3, CallerNames, CustodyDiscard DEF Disconnect
  <2> QED
    BY <1>6, <2>1, <2>2, <2>3 DEF Request
<1>7. ASSUME NEW p \in Req \cup {"server"}, DropClone(p)
      PROVE  CustodyInv'
  BY <1>7, CustodyFrame DEF DropClone, DropBody, Release
<1>8. CASE UNCHANGED vars
  BY <1>8, CustodyFrame DEF vars
<1> QED
  BY <1>1, <1>2, <1>3, <1>4, <1>5, <1>6, <1>7, <1>8 DEF Next

(* Against an endpoint that rotates at every refresh, whatever the overlap  *)
(* of refreshes by requests, start-up and loop, at most one reply carries a *)
(* new token, and it is about to replace the token it was granted for.      *)
THEOREM CustodyHolds ==
    ASSUME Rotations = {TRUE}
    PROVE  Spec => []CustodyInv
<1>1. Inv /\ CustodyInv /\ [Next]_vars => CustodyInv'
  BY CustodyStep
<1> QED
  BY <1>1, InitCustody, Invariant, PTL DEF Spec

(* So the gateway keeps its credential: the accepted refresh token is       *)
(* stored or arriving, unless a reply that carried it was thrown away.      *)
THEOREM RefreshTokenIsKept ==
    ASSUME Rotations = {TRUE}
    PROVE  Spec => []RefreshTokenCustody
<1>1. CustodyInv => RefreshTokenCustody
  BY DEF CustodyInv
<1> QED
  BY <1>1, CustodyHolds, PTL

-----------------------------------------------------------------------------
(* The loop's timer, when every reply has the lifetime L. *)

Retrying == wake <= RetryDelay \/ wake <= MinDelay

Refreshing(r) == pc[r] \in {"expired", "post"}

(* The loop's sleep ends by the expiry or within a retry.  It may outlast a *)
(* whole lifetime only before the first refresh, while the configured token *)
(* is still valid and no request has a reason to refresh.                   *)
TimerInv(L) ==
    /\ \A p \in Callers : call[p].st = "granted" => call[p].life = L
    /\ pc["loop"] = "sleep" => Retrying \/ wake <= store.ttl
    /\ pc["loop"] = "sleep" => Retrying \/ wake <= L \/ \A r \in Req : ~Refreshing(r)
    /\ pc["loop"] = "resched" => store.ttl <= L
    /\ pc["server"] \in {"init", "post", "schedule"} => \A r \in Req : pc[r] = "idle"

LEMMA InitTimer == ASSUME NEW L \in Nat PROVE Init => TimerInv(L)
<1> SUFFICES ASSUME Init PROVE TimerInv(L)
  OBVIOUS
<1>1. /\ pc["loop"] = "absent" /\ \A r \in Req : pc[r] = "idle"
      /\ \A p \in Callers : call[p].st = "idle"
  BY CallerNames DEF Init, NoCall
<1> QED
  BY <1>1 DEF TimerInv

(* A step of the caller p that neither grants nor stores a reply, and after *)
(* which the loop does not begin a sleep.                                   *)
LEMMA TimerFrame ==
    ASSUME NEW L \in Nat, Inv, TimerInv(L), UNCHANGED <<wake, store>>,
           \A p \in Callers : call'[p].st = "granted" => call'[p] = call[p],
           pc'["loop"] \in {"sleep", "resched"} => pc'["loop"] = pc["loop"],
           pc'["server"] \in {"init", "post", "schedule"} =>
               /\ pc["server"] \in {"init", "post", "schedule"}
               /\ \A r \in Req : pc'[r] = pc[r],
           \A r \in Req : Refreshing(r)' => Refreshing(r) \/ store.ttl = 0 \/ pc["loop"] = "absent"
    PROVE  TimerInv(L)'
<1>1. \A p \in Callers : call'[p].st = "granted" => call'[p].life = L
  BY DEF TimerInv
<1>2. pc'["loop"] = "sleep" => Retrying' \/ wake' <= store'.ttl
  BY DEF TimerInv, Retrying
<1>3. pc'["loop"] = "sleep" => Retrying' \/ wake' <= L \/ \A r \in Req : ~Refreshing(r)'
  <2> SUFFICES ASSUME pc'["loop"] = "sleep", ~(wake <= L), NEW r \in Req, Refreshing(r)'
               PROVE  Retrying'
    BY DEF Retrying
  <2>1. CASE Refreshing(r)
    BY <2>1 DEF TimerInv, Retrying
  <2>2. CASE store.ttl = 0
    <3>1. Retrying \/ wake <= 0
      BY <2>2 DEF TimerInv
    <3> QED
      BY <3>1, TimeAssumption DEF Retrying, Inv, TypeOK
  <2> QED
    BY <2>1, <2>2
<1>4. pc'["loop"] = "resched" => store'.ttl <= L
  BY DEF TimerInv
<1>5. pc'["server"] \in {"init", "post", "schedule"} => \A r \in Req : pc'[r] = "idle"
  BY DEF TimerInv
<1> QED
  BY <1>1, <1>2, <1>3, <1>4, <1>5 DEF TimerInv

LEMMA TimerFail ==
    ASSUME NEW L \in Nat, Inv, TimerInv(L), NEW p \in Callers, Refuse(p) \/ LoseReply(p)
    PROVE  TimerInv(L)'
<1>1. /\ pc[p] = "post" /\ pc' = [pc EXCEPT ![p] = AfterError(p)]
      /\ call' = [call EXCEPT ![p] = NoCall] /\ UNCHANGED store
      /\ wake' = ErrorDelay(p)
  BY DEF Refuse, LoseReply, OnError, Discard, Inv, CallInv
<1>2. /\ pc'[p] = AfterError(p) /\ call'[p].st = "idle"
      /\ \A q \in Callers : q # p => pc'[q] = pc[q] /\ call'[q] = call[q]
  BY <1>1 DEF Inv, TypeOK, NoCall
<1>3. CASE p = "loop"
  <2>1. pc'["loop"] = "sleep" /\ Retrying'
    BY <1>1, <1>2, <1>3, AfterStates, TimeAssumption DEF ErrorDelay, Retrying
  <2>2. pc["server"] \notin {"init", "post", "schedule"} /\ pc'["server"] = pc["server"]
    BY <1>1, <1>2, <1>3, CallerNames DEF Inv, LifeInv
  <2> QED
    BY <1>2, <2>1, <2>2 DEF TimerInv
<1>4. CASE p # "loop"
  <2>1. UNCHANGED <<wake, store>>
    BY <1>1, <1>4 DEF ErrorDelay
  <2>2. pc'["loop"] = pc["loop"]
    BY <1>2, <1>4, CallerNames
  <2>3. pc'["server"] \in {"init", "post", "schedule"} =>
            /\ pc["server"] \in {"init", "post", "schedule"}
            /\ \A r \in Req : pc'[r] = pc[r]
    <3>1. CASE p = "server"
      BY <1>2, <3>1, AfterStates
    <3>2. CASE p \in Req
      BY <1>1, <1>2, <3>2, CallerNames DEF TimerInv
    <3> QED
      BY <1>4, <3>1, <3>2, CallerNames
  <2>4. \A r \in Req : Refreshing(r)' => Refreshing(r)
    BY <1>1, <1>2, CallerNames DEF Refreshing
  <2>5. \A q \in Callers : call'[q].st = "granted" => call'[q] = call[q]
    BY <1>2
  <2> QED
    BY <2>1, <2>2, <2>3, <2>4, <2>5, TimerFrame
<1> QED
  BY <1>3, <1>4

LEMMA TimerApply ==
    ASSUME NEW L \in Nat, Inv, TimerInv(L), NEW p \in Callers, Apply(p)
    PROVE  TimerInv(L)'
<1>1. /\ pc[p] = "post" /\ pc' = [pc EXCEPT ![p] = AfterOk(p)]
      /\ call' = [call EXCEPT ![p] = NoCall] /\ UNCHANGED wake
      /\ store'.ttl = call[p].life
  BY DEF Apply, Inv, CallInv
<1>2. /\ pc'[p] = AfterOk(p) /\ call'[p].st = "idle"
      /\ \A q \in Callers : q # p => pc'[q] = pc[q] /\ call'[q] = call[q]
  BY <1>1 DEF Inv, TypeOK, NoCall
<1>3. store'.ttl = L
  BY <1>1 DEF Apply, TimerInv
<1>4. \A q \in Callers : call'[q].st = "granted" => call'[q].life = L
  BY <1>2 DEF TimerInv
<1>5. pc'["loop"] = "sleep" => pc["loop"] = "sleep" /\ p \in Req
  BY <1>1, <1>2, AfterStates, CallerNames DEF Inv, LifeInv
<1>6. pc'["loop"] = "sleep" => Retrying' \/ wake' <= L
  BY <1>1, <1>5 DEF TimerInv, Refreshing, Retrying
<1>7. pc'["server"] \in {"init", "post", "schedule"} => \A r \in Req : pc'[r] = "idle"
  <2>1. CASE p = "server"
    BY <1>1, <1>2, <2>1, CallerNames DEF TimerInv
  <2>2. CASE p = "loop"
    BY <1>1, <1>2, <2>2, CallerNames DEF TimerInv
  <2>3. CASE p \in Req
    BY <1>1, <1>2, <2>3, CallerNames DEF TimerInv
  <2> QED
    BY <2>1, <2>2, <2>3, CallerNames
<1> QED
  BY <1>3, <1>4, <1>6, <1>7 DEF TimerInv

LEMMA TimerStep ==
    ASSUME NEW L \in Nat, Lifetimes = {L}
    PROVE  Inv /\ TimerInv(L) /\ [Next]_vars => TimerInv(L)'
<1> SUFFICES ASSUME Inv, TimerInv(L), [Next]_vars PROVE TimerInv(L)'
  OBVIOUS
<1>1. CASE InitManager
  <2>1. \A p \in Callers : call'[p].st = "granted" => call'[p] = call[p]
    BY <1>1 DEF InitManager, Send, Inv, TypeOK
  <2>2. pc["server"] = "init" /\ \A q \in Callers : q # "server" => pc'[q] = pc[q]
    BY <1>1 DEF InitManager, Send, Inv, TypeOK
  <2> QED
    BY <1>1, <2>1, <2>2, CallerNames, TimerFrame DEF InitManager, Refreshing
<1>2. CASE ScheduleRefresh
  <2>1. /\ store.dated /\ pc'["loop"] = "sleep" /\ pc'["server"] = "up"
        /\ \A r \in Req : pc'[r] = "idle"
    BY <1>2, CallerNames DEF ScheduleRefresh, Inv, LifeInv, TypeOK, TimerInv
  <2>2. wake' <= MinDelay \/ wake' = store.ttl
    BY <1>2, <2>1, TimeAssumption DEF ScheduleRefresh, RefreshDelay
  <2>3. UNCHANGED <<store, call>> /\ store.ttl \in Nat
    BY <1>2 DEF ScheduleRefresh, Inv, TypeOK, Stores
  <2> QED
    BY <2>1, <2>2, <2>3 DEF TimerInv, Retrying, Refreshing
<1>3. CASE LoopWake
  <2>1. \A p \in Callers : call'[p].st = "granted" => call'[p] = call[p]
    BY <1>3 DEF LoopWake, Send, Inv, TypeOK
  <2>2. pc'["loop"] \in {"post", "ended"} /\ \A q \in Callers : q # "loop" => pc'[q] = pc[q]
    BY <1>3, CallerNames DEF LoopWake, Send, Inv, TypeOK
  <2> QED
    BY <1>3, <2>1, <2>2, CallerNames, TimerFrame DEF LoopWake, Refreshing
<1>4. CASE LoopReschedule
  <2>1. /\ store.dated /\ pc'["loop"] = "sleep" /\ store.ttl <= L
        /\ \A q \in Callers : q # "loop" => pc'[q] = pc[q]
    BY <1>4, CallerNames DEF LoopReschedule, Inv, LifeInv, TypeOK, TimerInv
  <2>2. wake' <= MinDelay \/ wake' = store.ttl
    BY <1>4, <2>1, TimeAssumption DEF LoopReschedule, RefreshDelay
  <2>3. UNCHANGED <<store, call>> /\ store.ttl \in Nat
    BY <1>4 DEF LoopReschedule, Inv, TypeOK, Stores
  <2> QED
    BY <2>1, <2>2, <2>3, CallerNames DEF TimerInv, Retrying
<1>5. CASE Tick
  <2>1. store'.ttl = Less(store.ttl) /\ wake' = Less(wake) /\ store.ttl \in Nat /\ wake \in Nat
    BY <1>5 DEF Tick, Inv, TypeOK, Stores
  <2>2. wake' <= wake /\ store'.ttl <= store.ttl /\ (wake <= store.ttl => wake' <= store'.ttl)
    BY <2>1 DEF Less
  <2>3. wake' \in Nat /\ store'.ttl \in Nat
    BY <2>1 DEF Less
  <2>4. Retrying => Retrying'
    BY <2>1, <2>2, <2>3, TimeAssumption DEF Retrying
  <2>5. wake <= L => wake' <= L
    BY <2>1, <2>2, <2>3
  <2>6. store.ttl <= L => store'.ttl <= L
    BY <2>1, <2>2, <2>3
  <2>7. UNCHANGED <<pc, call>>
    BY <1>5 DEF Tick
  <2> QED
    BY <2>2, <2>4, <2>5, <2>6, <2>7 DEF TimerInv, Refreshing
<1>6. ASSUME NEW p \in Callers, Grant(p)
      PROVE  TimerInv(L)'
  <2>1. \A q \in Callers : call'[q].st = "granted" => call'[q].life = L
    BY <1>6 DEF Grant, Inv, TypeOK, TimerInv
  <2> QED
    BY <1>6, <2>1 DEF Grant, TimerInv, Retrying, Refreshing
<1>7. ASSUME NEW p \in Callers, Refuse(p) \/ LoseReply(p) \/ Apply(p)
      PROVE  TimerInv(L)'
  BY <1>7, TimerFail, TimerApply
<1>8. ASSUME NEW r \in Req, Request(r)
      PROVE  TimerInv(L)'
  <2>1. \A p \in Callers : call'[p].st = "granted" => call'[p] = call[p]
    BY <1>8 DEF Request, Arrive, StartRefresh, Reread, Disconnect, Send, Discard, NoCall, Inv, TypeOK
  <2>2. /\ pc["server"] = "up" \/ pc[r] # "idle"
        /\ UNCHANGED <<wake, store>>
    BY <1>8 DEF Request, Arrive, StartRefresh, Reread, Disconnect
  <2>3. \A q \in Callers : q # r => pc'[q] = pc[q]
    BY <1>8 DEF Request, Arrive, StartRefresh, Reread, Disconnect, Send, Inv, TypeOK
  <2>4. pc'["server"] = pc["server"] /\ pc'["loop"] = pc["loop"]
    BY <2>3, CallerNames
  <2>5. Refreshing(r)' => Refreshing(r) \/ store.ttl = 0 \/ pc["loop"] = "absent"
    <3>1. CASE Arrive(r)
      BY <3>1, CallerNames DEF Arrive, Refreshing, TokenAvailable, Inv, LifeInv, TypeOK, Stores
    <3>2. CASE StartRefresh(r) \/ Reread(r) \/ Disconnect(r)
      BY <3>2, CallerNames DEF StartRefresh, Reread, Disconnect, Refreshing, Inv, TypeOK
    <3> QED
      BY <1>8, <3>1, <3>2 DEF Request
  <2>6. \A q \in Req : Refreshing(q)' => Refreshing(q) \/ store.ttl = 0 \/ pc["loop"] = "absent"
    BY <2>3, <2>5, CallerNames DEF Refreshing
  <2>7. pc["server"] \notin {"init", "post", "schedule"}
    BY <2>2 DEF TimerInv
  <2> QED
    BY <2>1, <2>2, <2>4, <2>6, <2>7, TimerFrame
<1>9. ASSUME NEW p \in Req \cup {"server"}, DropClone(p)
      PROVE  TimerInv(L)'
  <2>1. UNCHANGED <<store, call, wake>> /\ p \in Callers /\ p # "loop"
    BY <1>9, CallerNames DEF DropClone, DropBody, Release
  <2>2. /\ pc'[p] \in {"dropping", "gone", "idle"} /\ pc[p] \notin {"idle", "init", "schedule"}
        /\ pc'["loop"] \in {pc["loop"], "ended"}
        /\ \A q \in Callers : q # p /\ q # "loop" => pc'[q] = pc[q]
    BY <1>9, <2>1, CallerNames DEF DropClone, DropBody, Release, Inv, TypeOK
  <2>3. \A r \in Req : Refreshing(r)' => Refreshing(r)
    BY <2>1, <2>2, CallerNames DEF Refreshing
  <2>4. pc'["server"] \in {"init", "post", "schedule"} =>
            /\ pc["server"] \in {"init", "post", "schedule"}
            /\ \A r \in Req : pc'[r] = pc[r]
    BY <2>1, <2>2, CallerNames DEF TimerInv
  <2> QED
    BY <2>1, <2>2, <2>3, <2>4, TimerFrame
<1>10. CASE UNCHANGED vars
  BY <1>10 DEF vars, TimerInv, Retrying, Refreshing
<1> QED
  BY <1>1, <1>2, <1>3, <1>4, <1>5, <1>6, <1>7, <1>8, <1>9, <1>10 DEF Next, Answer

(* With one lifetime for all replies, an expired token waits at most a      *)
(* retry for the loop's next refresh, although requests move the expiry.    *)
THEOREM OutageIsBounded ==
    ASSUME NEW L \in Nat, Lifetimes = {L}
    PROVE  Spec => []OutageBounded
<1>1. Inv /\ TimerInv(L) /\ [Next]_vars => TimerInv(L)'
  BY TimerStep
<1>2. Inv /\ TimerInv(L) => OutageBounded
  <2> SUFFICES ASSUME Inv, TimerInv(L), pc["loop"] = "sleep", store.ttl = 0
               PROVE  Retrying
    BY DEF OutageBounded, Retrying
  <2>1. Retrying \/ wake <= 0
    BY DEF TimerInv
  <2> QED
    BY <2>1, TimeAssumption DEF Retrying, Inv, TypeOK
<1>3. Init => TimerInv(L)
  BY InitTimer
<1> QED
  BY <1>1, <1>2, <1>3, Invariant, PTL DEF Spec
=============================================================================
