--------------------------- MODULE TsOAuthProofs ---------------------------
(***************************************************************************)
(* What TLAPS proves about TsOAuth, for any number of chains and requests. *)
(***************************************************************************)
EXTENDS TsOAuth, FiniteSetTheorems, TLAPS

(* Who may have a refresh under way, and a chain, in each state of the     *)
(* process.                                                                *)
OwnerInv ==
    /\ gateway = "down" => post = [o \in Owners |-> None]
    /\ gateway = "starting" => post[Start] # None /\ \A o \in Owners : o # Start => post[o] = None
    /\ gateway = "up" => post[Start] = None
    /\ gateway # "up" => chain = [c \in Chains |-> Free]
    /\ \A c \in Chains : post[c] # None => Stage(c) = "posting"

IInv == TypeOK /\ OwnerInv

(* What post and chain hold, of TypeOK. *)
Posts == {None} \cup [refresh : RefreshTokens, state : {"waiting", "refused", "hung"}]
                \cup [refresh : RefreshTokens, state : {"granted"}, token : RefreshTokens]
ChainStates == [stage : {"free", "posting"}] \cup [stage : {"timer", "retry"}, left : Nat]

LEMMA Constants ==
    /\ 1 \in RefreshTokens /\ RefreshTokens \subseteq Nat
    /\ Chains \subseteq Owners /\ Requests \subseteq Owners /\ Start \in Owners
    /\ \A c \in Chains : c # Start /\ c \notin Requests
    /\ \A q \in Requests : q # Start /\ q \notin Chains
<1>1. IsFiniteSet(Owners)
  BY OwnersAssumption, FS_Union, FS_Singleton, FS_EmptySet DEF Owners
<1>2. Cardinality(Owners) \in Nat
  BY <1>1, FS_CardinalityType
<1>3. 1 \in RefreshTokens /\ RefreshTokens \subseteq Nat
  BY <1>2, SMT DEF RefreshTokens
<1> QED
  BY <1>3, OwnersAssumption DEF Owners

LEMMA TimerType == ASSUME NEW left \in Nat PROVE Timer(left) \in [stage : {"timer"}, left : Nat]
BY LifeAssumption DEF Timer, Delay

(* What an answered refresh holds. *)
LEMMA PostShape ==
    ASSUME TypeOK, NEW o \in Owners
    PROVE  /\ post[o] # None => post[o].refresh \in RefreshTokens
           /\ Granted(o) => post[o].token \in RefreshTokens
           /\ Waiting(o) \/ Refused(o) => post[o] \in [refresh : RefreshTokens, state : {"waiting", "refused", "hung"}]
BY DEF TypeOK, Posts, ChainStates, Granted, Waiting, Refused, None

LEMMA ReceivedType ==
    ASSUME TypeOK, NEW o \in Owners, Granted(o), NEW life \in 1 .. Life
    PROVE  Received(o, life) \in [refresh : RefreshTokens, left : 0 .. Life] /\ Received(o, life) # None
<1>1. post[o].token \in RefreshTokens
  BY PostShape
<1> QED
  BY <1>1, LifeAssumption DEF Received, None

LEMMA SendType ==
    ASSUME TypeOK, NEW o \in Owners, NEW token \in RefreshTokens, Send(o, token)
    PROVE  /\ post' \in [Owners -> Posts]
           /\ post'[o] # None /\ \A p \in Owners : p # o => post'[p] = post[p]
BY DEF TypeOK, Posts, ChainStates, Send, None

LEMMA InitInv == Init => IInv
<1> SUFFICES ASSUME Init PROVE IInv
  OBVIOUS
<1>1. TypeOK
  <2>1. chain \in [Chains -> ChainStates] /\ post \in [Owners -> Posts]
    BY DEF Init, Posts, ChainStates, Free
  <2>2. /\ gateway = "down" /\ cached = None /\ configured \in 0 .. Life /\ live \in RefreshTokens
        /\ faults \in 0 .. MaxFaults /\ endpoint \in Endpoints
    BY Constants, LifeAssumption DEF Init
  <2>3. lost \in BOOLEAN
    BY Zenon DEF Init
  <2> QED
    BY <2>1, <2>2, <2>3 DEF TypeOK, Posts, ChainStates
<1>2. OwnerInv
  BY Constants DEF Init, OwnerInv, None
<1> QED
  BY <1>1, <1>2 DEF IInv

-----------------------------------------------------------------------------
(* The end of a process leaves nothing behind. *)
LEMMA DiesInv ==
    ASSUME TypeOK, Dies, UNCHANGED <<configured, live, lost, endpoint>>, faults' \in 0 .. MaxFaults
    PROVE  IInv'
BY Constants DEF TypeOK, Posts, ChainStates, Dies, OwnerInv, IInv, None, Free, Stage

LEMMA ChainUpdate ==
    ASSUME TypeOK, NEW c \in Chains,
           NEW new \in ChainStates,
           chain' = [chain EXCEPT ![c] = new]
    PROVE  /\ chain' \in [Chains -> ChainStates]
           /\ chain'[c] = new /\ \A d \in Chains : d # c => chain'[d] = chain[d]
BY DEF TypeOK, Posts, ChainStates

LEMMA PostUpdate ==
    ASSUME TypeOK, NEW o \in Owners,
           NEW new \in Posts,
           post' = [post EXCEPT ![o] = new]
    PROVE  /\ post' \in [Owners -> Posts]
           /\ post'[o] = new /\ \A p \in Owners : p # o => post'[p] = post[p]
BY DEF TypeOK, Posts, ChainStates

LEMMA BeginInv == ASSUME IInv, Begin PROVE IInv'
<1>1. CASE configured > 0
  <2>1. PICK c \in Chains : /\ gateway' = "up" /\ cached' = [refresh |-> 1, left |-> configured]
                            /\ chain' = [chain EXCEPT ![c] = Timer(configured)] /\ post' = post
    BY <1>1 DEF Begin
  <2>2. Timer(configured) \in [stage : {"timer"}, left : Nat]
    BY TimerType, LifeAssumption DEF IInv, TypeOK, Posts, ChainStates
  <2>3. chain' \in [Chains -> ChainStates]
    BY <2>1, <2>2, ChainUpdate DEF IInv, ChainStates
  <2>4. TypeOK'
    BY <2>1, <2>3, Constants DEF IInv, TypeOK, Posts, ChainStates, Begin, None
  <2>5. OwnerInv'
    BY <2>1, Constants DEF IInv, OwnerInv, Begin
  <2> QED
    BY <2>4, <2>5 DEF IInv
<1>2. CASE ~(configured > 0)
  <2>1. gateway = "down" /\ gateway' = "starting" /\ Send(Start, 1) /\ UNCHANGED <<cached, chain, configured, live, lost, faults, endpoint>>
    BY <1>2 DEF Begin
  <2>2. TypeOK'
    BY <2>1, SendType, Constants DEF IInv, TypeOK, Posts, ChainStates
  <2>3. OwnerInv'
    BY <2>1, SendType, Constants DEF IInv, OwnerInv, Stage
  <2> QED
    BY <2>2, <2>3 DEF IInv
<1> QED
  BY <1>1, <1>2

(* A refresh that succeeds: o may be the start-up, a chain or a request.   *)
LEMMA GrantInv ==
    ASSUME IInv, NEW o \in Owners, Granted(o), NEW life \in 1 .. Life, NEW c \in Chains,
           cached' = Received(o, life), chain' = [chain EXCEPT ![c] = Timer(life)],
           post' = [post EXCEPT ![o] = None], gateway' = "up",
           gateway = "up" \/ o = Start, c = o \/ Stage(c) = "free",
           UNCHANGED <<configured, live, lost, faults, endpoint>>
    PROVE  IInv'
<1>1. TypeOK /\ OwnerInv
  BY DEF IInv
<1>2. Timer(life) \in [stage : {"timer"}, left : Nat]
  BY TimerType, LifeAssumption
<1>3. chain' \in [Chains -> ChainStates]
      /\ \A d \in Chains : d # c => chain'[d] = chain[d]
  BY <1>1, <1>2, ChainUpdate DEF ChainStates
<1>4. /\ post' \in [Owners -> Posts]
      /\ post'[o] = None /\ \A p \in Owners : p # o => post'[p] = post[p]
  BY <1>1, PostUpdate DEF Posts
<1>5. cached' \in [refresh : RefreshTokens, left : 0 .. Life] /\ cached' # None
  BY <1>1, ReceivedType
<1>6. TypeOK'
  BY <1>1, <1>3, <1>4, <1>5 DEF TypeOK, Posts, ChainStates
<1>7. OwnerInv'
  <2>1. post'[Start] = None
    BY <1>1, <1>4, Constants DEF OwnerInv
  <2>2. ASSUME NEW d \in Chains, post'[d] # None PROVE chain'[d].stage = "posting"
    <3>1. d # o /\ post[d] # None
      BY <1>4, <2>2, Constants
    <3>2. Stage(d) = "posting"
      BY <1>1, <3>1 DEF OwnerInv
    <3>3. d # c
      BY <3>1, <3>2 DEF Stage
    <3> QED
      BY <1>3, <3>2, <3>3 DEF Stage
  <2> QED
    BY <2>1, <2>2 DEF OwnerInv, Stage
<1> QED
  BY <1>6, <1>7 DEF IInv

(* A chain that moves on without the cache, with or without its refresh.   *)
LEMMA ChainInv ==
    ASSUME IInv, gateway = "up", NEW c \in Chains,
           NEW new \in [stage : {"posting"}] \cup [stage : {"timer", "retry"}, left : Nat],
           chain' = [chain EXCEPT ![c] = new],
           \/ new.stage = "posting" /\ \E token \in RefreshTokens : Send(c, token)
           \/ new.stage # "posting" /\ post[c] = None /\ post' = post
           \/ new.stage # "posting" /\ post' = [post EXCEPT ![c] = None],
           UNCHANGED <<gateway, cached, configured, live, lost, faults, endpoint>>
    PROVE  IInv'
<1>1. TypeOK /\ OwnerInv /\ c \in Owners
  BY Constants DEF IInv
<1>3. chain' \in [Chains -> ChainStates]
      /\ chain'[c] = new /\ \A d \in Chains : d # c => chain'[d] = chain[d]
  BY <1>1, ChainUpdate DEF ChainStates
<1>4. /\ post' \in [Owners -> Posts]
      /\ \A p \in Owners : p # c => post'[p] = post[p]
      /\ post'[c] = None \/ new.stage = "posting"
  <2>1. CASE \E token \in RefreshTokens : Send(c, token) /\ new.stage = "posting"
    BY <1>1, <2>1, SendType
  <2>2. CASE post[c] = None /\ post' = post
    BY <1>1, <2>2 DEF TypeOK, Posts, ChainStates
  <2>3. CASE post' = [post EXCEPT ![c] = None]
    BY <1>1, <2>3, PostUpdate DEF Posts
  <2> QED
    BY <2>1, <2>2, <2>3
<1>5. TypeOK'
  BY <1>1, <1>3, <1>4 DEF TypeOK, Posts, ChainStates
<1>6. OwnerInv'
  BY <1>1, <1>3, <1>4, Constants DEF OwnerInv, Stage
<1> QED
  BY <1>5, <1>6 DEF IInv

(* The endpoint or a request changes one refresh, and nobody's chain.      *)
LEMMA AnswerInv ==
    ASSUME IInv, NEW o \in Owners,
           post' \in [Owners -> Posts], \A p \in Owners : p # o => post'[p] = post[p],
           (o \in Requests /\ gateway = "up") \/ (post[o] # None /\ post'[o] # None),
           live' \in RefreshTokens, lost' \in BOOLEAN, faults' \in 0 .. MaxFaults,
           UNCHANGED <<gateway, cached, configured, chain, endpoint>>
    PROVE  IInv'
<1>1. TypeOK /\ OwnerInv
  BY DEF IInv
<1>2. TypeOK'
  BY <1>1 DEF TypeOK, Posts
<1>3. OwnerInv'
  <2>1. gateway # "down"
    BY <1>1 DEF OwnerInv
  <2>2. gateway = "starting" => post'[Start] # None /\ \A p \in Owners : p # Start => post'[p] = None
    BY <1>1, Constants DEF OwnerInv
  <2>3. gateway = "up" => post'[Start] = None
    BY <1>1, Constants DEF OwnerInv
  <2>4. \A c \in Chains : post'[c] # None => Stage(c) = "posting"
    BY <1>1, Constants DEF OwnerInv
  <2> QED
    BY <1>1, <2>1, <2>2, <2>3, <2>4 DEF OwnerInv, Stage
<1> QED
  BY <1>2, <1>3 DEF IInv

-----------------------------------------------------------------------------
LEMMA UnusedType ==
    ASSUME Unused # {} PROVE (CHOOSE t \in Unused : TRUE) \in Unused
OBVIOUS

LEMMA NextTokenType ==
    ASSUME TypeOK, Unused # {} PROVE NextToken \in RefreshTokens
BY UnusedType DEF NextToken, Unused, TypeOK

LEMMA AnswerShape ==
    ASSUME TypeOK, NEW o \in Owners, Answer(o)
    PROVE  /\ live' \in RefreshTokens /\ post[o] # None
           /\ \/ /\ post[o].refresh = live /\ live' = NextToken
                 /\ post' = [post EXCEPT ![o] = [refresh |-> post[o].refresh, state |-> "granted", token |-> live']]
              \/ /\ post[o].refresh # live /\ live' = live
                 /\ post' = [post EXCEPT ![o] = [refresh |-> post[o].refresh, state |-> "refused"]]
<1>1. post[o] # None /\ Unused # {} /\ post[o] \in [refresh : RefreshTokens, state : {"waiting", "refused", "hung"}]
  BY PostShape DEF Answer, Waiting
<1>3. live' \in RefreshTokens
  BY <1>1, NextTokenType DEF Answer, TypeOK, Posts, ChainStates
<1>4. [post[o] EXCEPT !.state = "refused"] = [refresh |-> post[o].refresh, state |-> "refused"]
  BY <1>1
<1> QED
  BY <1>1, <1>3, <1>4 DEF Answer, TypeOK, Posts, ChainStates

(* IInv is inductive. *)
LEMMA StepInv == IInv /\ [Next]_vars => IInv'
<1> SUFFICES ASSUME IInv, [Next]_vars PROVE IInv'
  OBVIOUS
<1>0. TypeOK /\ OwnerInv
  BY DEF IInv
<1>1. CASE Begin
  BY <1>1, BeginInv
<1>2. CASE Began
  <2>1. PICK life \in 1 .. Life, c \in Chains :
            cached' = Received(Start, life) /\ chain' = [chain EXCEPT ![c] = Timer(life)]
    BY <1>2 DEF Began
  <2>2. Stage(c) = "free"
    BY <1>0, <1>2, Constants DEF Began, OwnerInv, Granted, Stage, Free
  <2> QED
    BY <1>2, <2>1, <2>2, GrantInv, Constants DEF Began
<1>3. CASE Fatal
  BY <1>0, <1>3, DiesInv DEF Fatal, TypeOK, Posts, ChainStates
<1>4. CASE Tick
  <2>1. /\ configured' \in 0 .. Life
        /\ cached # None => cached' = [cached EXCEPT !.left = Less(@)] /\ Less(cached.left) \in 0 .. Life
    <3>1. \A n \in 0 .. Life : Less(n) \in 0 .. Life
      BY LifeAssumption DEF Less
    <3>2. cached # None => cached.left \in 0 .. Life
      BY <1>0 DEF TypeOK, Posts, ChainStates
    <3>3. configured' = Less(configured) /\ (cached # None => cached' = [cached EXCEPT !.left = Less(@)])
      BY <1>4 DEF Tick
    <3> QED
      BY <1>0, <3>1, <3>2, <3>3 DEF TypeOK, Posts, ChainStates
  <2>2. /\ cached' \in {None} \cup [refresh : RefreshTokens, left : 0 .. Life]
        /\ cached' = None <=> cached = None
    BY <1>0, <1>4, <2>1 DEF TypeOK, Posts, ChainStates, Tick, None
  <2>3. \A c \in Chains :
           /\ chain'[c] \in ChainStates
           /\ chain'[c].stage = chain[c].stage
           /\ Stage(c) = "free" => chain'[c] = chain[c]
    <3> SUFFICES ASSUME NEW c \in Chains
                 PROVE  /\ chain'[c] \in ChainStates
                        /\ chain'[c].stage = chain[c].stage
                        /\ Stage(c) = "free" => chain'[c] = chain[c]
      OBVIOUS
    <3>1. CASE Stage(c) \in {"timer", "retry"}
      <4>1. chain[c] \in [stage : {"timer", "retry"}, left : Nat]
        BY <1>0, <3>1 DEF TypeOK, Posts, ChainStates, Stage
      <4>2. Less(chain[c].left) \in Nat /\ chain'[c] = [chain[c] EXCEPT !.left = Less(@)]
        BY <1>4, <3>1, <4>1 DEF Tick, Less
      <4> QED
        BY <3>1, <4>1, <4>2 DEF Stage, ChainStates
    <3>2. CASE Stage(c) \notin {"timer", "retry"}
      BY <1>0, <1>4, <3>2 DEF Tick, TypeOK, Posts, ChainStates
    <3> QED
      BY <3>1, <3>2
  <2>4. chain' \in [Chains -> ChainStates]
    BY <1>4, <2>3 DEF Tick
  <2>5. TypeOK'
    BY <1>0, <1>4, <2>1, <2>2, <2>4 DEF TypeOK, Posts, ChainStates, Tick
  <2>6. gateway # "up" => chain' = chain
    <3>1. gateway # "up" => \A c \in Chains : chain'[c] = chain[c]
      BY <1>0, <2>3 DEF OwnerInv, Stage, Free
    <3> QED
      BY <1>0, <2>4, <3>1 DEF TypeOK, Posts, ChainStates
  <2>7. OwnerInv'
    BY <1>0, <1>4, <2>3, <2>6 DEF OwnerInv, Tick, Stage
  <2> QED
    BY <2>5, <2>7 DEF IInv
<1>5. ASSUME NEW c \in Chains, ChainStep(c) PROVE IInv'
  <2>0. c \in Owners /\ gateway = "up" /\ cached # None
    <3>1. chain[c] # Free \/ post[c] # None
      BY <1>5 DEF ChainStep, Fire, Refreshed, Failed, Retry, Granted, Refused, Stage, Free
    <3>2. gateway = "up"
      BY <1>0, <3>1, Constants DEF OwnerInv, TypeOK, Posts, ChainStates
    <3> QED
      BY <1>0, <3>2, Constants DEF TypeOK, Posts, ChainStates
  <2>1. CASE Fire(c)
    <3>1. cached.refresh \in RefreshTokens
      BY <1>0, <2>0 DEF TypeOK, Posts, ChainStates
    <3> QED
      BY <2>0, <2>1, <3>1, ChainInv DEF Fire
  <2>2. CASE Refreshed(c)
    BY <1>0, <2>0, <2>2, GrantInv DEF Refreshed
  <2>3. CASE Failed(c)
    BY <2>0, <2>3, ChainInv, LifeAssumption DEF Failed
  <2>4. CASE Retry(c)
    <3>1. Timer(cached.left) \in [stage : {"timer"}, left : Nat]
      BY <1>0, <2>0, TimerType, LifeAssumption DEF TypeOK, Posts, ChainStates
    <3>2. post[c] = None
      BY <1>0, <2>4 DEF Retry, OwnerInv
    <3> QED
      BY <2>0, <2>4, <3>1, <3>2, ChainInv DEF Retry
  <2> QED
    BY <1>5, <2>1, <2>2, <2>3, <2>4 DEF ChainStep
<1>6. ASSUME NEW q \in Requests, Ask(q) PROVE IInv'
  <2>1. cached.refresh \in RefreshTokens
    BY <1>0, <1>6 DEF TypeOK, Posts, ChainStates, Ask
  <2> QED
    <3> DEFINE new == [refresh |-> cached.refresh, state |-> "waiting"]
    <3>1. new \in Posts /\ q \in Owners
      BY <2>1, Constants DEF Posts
    <3>2. live' \in RefreshTokens /\ lost' \in BOOLEAN /\ faults' \in 0 .. MaxFaults /\ gateway = "up"
      BY <1>0, <1>6 DEF Ask, TypeOK, Posts, ChainStates
    <3>3. post' = [post EXCEPT ![q] = new] /\ UNCHANGED <<gateway, cached, configured, chain, endpoint>>
      BY <1>6 DEF Ask, Send
    <3>4. post' \in [Owners -> Posts] /\ \A p \in Owners : p # q => post'[p] = post[p]
      BY <1>0, <3>1, <3>3, PostUpdate
    <3> QED
      BY <3>1, <3>2, <3>3, <3>4, AnswerInv
<1>7. ASSUME NEW q \in Requests, Answered(q) PROVE IInv'
  <2>1. gateway = "up"
    BY <1>0, <1>7, Constants DEF Answered, Granted, OwnerInv, TypeOK, Posts, ChainStates
  <2>2. PICK life \in 1 .. Life, c \in FreeChains :
            cached' = Received(q, life) /\ chain' = [chain EXCEPT ![c] = Timer(life)]
    BY <1>7 DEF Answered
  <2> QED
    BY <1>7, <2>1, <2>2, GrantInv, Constants DEF Answered, FreeChains
<1>8. ASSUME NEW q \in Requests, Unanswered(q) PROVE IInv'
  <2>1. gateway = "up"
    BY <1>0, <1>8, Constants DEF Unanswered, Refused, OwnerInv, TypeOK, Posts, ChainStates
  <2> QED
    <3>1. live' \in RefreshTokens /\ lost' \in BOOLEAN /\ faults' \in 0 .. MaxFaults /\ q \in Owners /\ None \in Posts
      BY <1>0, <1>8, Constants DEF Unanswered, TypeOK, Posts, ChainStates
    <3>2. post' \in [Owners -> Posts] /\ \A p \in Owners : p # q => post'[p] = post[p]
      BY <1>0, <1>8, <3>1, PostUpdate DEF Unanswered
    <3> QED
      BY <1>8, <2>1, <3>1, <3>2, AnswerInv DEF Unanswered
<1>9. ASSUME NEW o \in Owners, Answer(o) PROVE IInv'
  <2>1. post[o].refresh \in RefreshTokens /\ post[o] # None /\ live' \in RefreshTokens
    BY <1>0, <1>9, AnswerShape, PostShape
  <2>2. PICK new \in Posts : new # None /\ post' = [post EXCEPT ![o] = new]
    BY <1>0, <1>9, <2>1, AnswerShape DEF Posts, None
  <2>3. post' \in [Owners -> Posts] /\ post'[o] = new /\ \A p \in Owners : p # o => post'[p] = post[p]
    BY <1>0, <2>2, PostUpdate
  <2>4. lost' \in BOOLEAN /\ faults' \in 0 .. MaxFaults /\ UNCHANGED <<gateway, cached, configured, chain, endpoint>>
    BY <1>0, <1>9 DEF Answer, TypeOK
  <2> QED
    BY <2>1, <2>2, <2>3, <2>4, AnswerInv
<1>10. ASSUME NEW o \in Owners, Fault(o) PROVE IInv'
  <2>1. post[o] # None /\ post[o] \in [refresh : RefreshTokens, state : {"waiting", "refused", "hung"}]
    BY <1>0, <1>10, PostShape DEF Fault, Waiting
  <2>2. PICK outcome \in {"refused", "hung"} : post' = [post EXCEPT ![o] = [post[o] EXCEPT !.state = outcome]]
    BY <1>0, <1>10 DEF Fault, TypeOK, Posts
  <2> DEFINE new == [post[o] EXCEPT !.state = outcome]
  <2>3. new \in Posts /\ new # None
    BY <2>1 DEF None, Posts
  <2>4. live' \in RefreshTokens /\ lost' \in BOOLEAN
    BY <1>0, <1>10, NextTokenType DEF Fault, TypeOK
  <2>5. faults' \in 0 .. MaxFaults /\ UNCHANGED <<gateway, cached, configured, chain, endpoint>>
    BY <1>0, <1>10, LifeAssumption DEF Fault, TypeOK
  <2>6. post' \in [Owners -> Posts] /\ post'[o] = new /\ \A p \in Owners : p # o => post'[p] = post[p]
    BY <1>0, <2>2, <2>3, PostUpdate
  <2> QED
    BY <2>1, <2>3, <2>4, <2>5, <2>6, AnswerInv
<1>11. ASSUME NEW o \in Owners, Garbled(o) PROVE IInv'
  BY <1>0, <1>11, DiesInv, LifeAssumption DEF Garbled, TypeOK, Posts, ChainStates
<1>12. CASE UNCHANGED vars
  BY <1>0, <1>12 DEF IInv, TypeOK, Posts, ChainStates, OwnerInv, Stage, vars
<1> QED
  BY <1>1, <1>2, <1>3, <1>4, <1>5, <1>6, <1>7, <1>8, <1>9, <1>10, <1>11, <1>12 DEF Next

(* The state stays typed (TypeOK). *)
THEOREM TypeOKHolds == Spec => []TypeOK
<1>1. IInv => TypeOK
  BY DEF IInv
<1> QED
  BY <1>1, InitInv, StepInv, PTL DEF Spec

-----------------------------------------------------------------------------
(* The refresh token that works.  With a rotating endpoint at most one     *)
(* answer with a new token is on its way, and nobody else can then ask     *)
(* with the token in the cache: it is retired.                             *)
RotationInv ==
    /\ \A o, p \in Owners : Granted(o) /\ Granted(p) => o = p
    /\ \A o, p \in Owners : Granted(o) /\ Waiting(p) => post[p].refresh # live
    /\ \A o \in Owners : Granted(o) /\ gateway = "up" => cached.refresh # live

TokenInv ==
    /\ gateway = "down" => live = 1 \/ lost
    /\ gateway = "starting" => live = 1 \/ Granted(Start) \/ lost
    /\ \A o \in Owners : Granted(o) => post[o].token = live
    /\ endpoint.rotates => RotationInv
    /\ ~endpoint.rotates => live = 1 /\ (gateway = "up" => cached.refresh = 1)
    /\ LiveTokenHeld

(* The steps as the token sees them.  o begins a refresh with t. *)
LEMMA TokenSend ==
    ASSUME IInv, TokenInv, NEW o \in Owners, post[o] = None, NEW t \in RefreshTokens, Send(o, t),
           \/ gateway = "up" /\ t = cached.refresh /\ gateway' = "up"
           \/ gateway = "down" /\ gateway' = "starting",
           UNCHANGED <<live, lost, cached, endpoint>>
    PROVE  TokenInv'
<1>1. TypeOK /\ OwnerInv
  BY DEF IInv
<1>2. post'[o] = [refresh |-> t, state |-> "waiting"] /\ \A p \in Owners : p # o => post'[p] = post[p]
  BY <1>1 DEF Send, TypeOK
<1>3. /\ ~Granted(o) /\ ~Granted(o)' /\ Waiting(o)' /\ post'[o].refresh = t
      /\ \A p \in Owners : p # o => (Granted(p)' <=> Granted(p)) /\ (Waiting(p)' <=> Waiting(p))
  BY <1>2 DEF Granted, Waiting, None
<1>4. (endpoint.rotates => RotationInv)'
  <2>1. endpoint.rotates /\ gateway = "down" => \A p \in Owners : ~Granted(p)
    BY <1>1 DEF OwnerInv, Granted
  <2> QED
    BY <1>2, <1>3, <2>1 DEF TokenInv, RotationInv
<1>5. LiveTokenHeld'
  BY <1>2, <1>3 DEF TokenInv, LiveTokenHeld
<1> QED
  BY <1>2, <1>3, <1>4, <1>5 DEF TokenInv

(* o's refresh fails, or its failure is taken note of. *)
LEMMA TokenRefused ==
    ASSUME IInv, TokenInv, NEW o \in Owners, ~Granted(o), ~Granted(o)', ~Waiting(o)',
           \A p \in Owners : p # o => post'[p] = post[p],
           UNCHANGED <<live, lost, cached, gateway, endpoint>>
    PROVE  TokenInv'
<1>1. \A p \in Owners : /\ p # o => (Granted(p)' <=> Granted(p)) /\ (Waiting(p)' <=> Waiting(p))
                        /\ Granted(p)' => Granted(p) /\ p # o /\ post'[p] = post[p]
                        /\ Granted(p) => Granted(p)' /\ p # o /\ post'[p] = post[p]
                        /\ Waiting(p)' => Waiting(p) /\ p # o /\ post'[p] = post[p]
  BY DEF Granted, Waiting
<1>2. (endpoint.rotates => RotationInv)'
  BY <1>1 DEF TokenInv, RotationInv
<1>3. LiveTokenHeld'
  BY <1>1 DEF TokenInv, LiveTokenHeld
<1> QED
  BY <1>1, <1>2, <1>3, Constants DEF TokenInv

(* The endpoint grants o's refresh: the new token is in nobody's hands but *)
(* o's.                                                                    *)
LEMMA TokenGrant ==
    ASSUME IInv, TokenInv, NEW o \in Owners, Waiting(o), Unused # {}, post[o].refresh = live,
           live' = NextToken,
           post' = [post EXCEPT ![o] = [refresh |-> post[o].refresh, state |-> "granted", token |-> live']],
           UNCHANGED <<gateway, cached, lost, endpoint>>
    PROVE  TokenInv'
<1>1. TypeOK /\ OwnerInv
  BY DEF IInv
<1>2. /\ post'[o] = [refresh |-> post[o].refresh, state |-> "granted", token |-> live']
      /\ \A p \in Owners : p # o => post'[p] = post[p]
  BY <1>1 DEF TypeOK
<1>3. /\ Granted(o)' /\ ~Waiting(o)' /\ post'[o].token = live'
      /\ \A p \in Owners : p # o => (Granted(p)' <=> Granted(p)) /\ (Waiting(p)' <=> Waiting(p))
  BY <1>2 DEF Granted, Waiting, None
<1>4. gateway # "down"
  BY <1>1 DEF OwnerInv, Waiting
<1>5. gateway = "starting" => o = Start
  BY <1>1 DEF OwnerInv, Waiting
<1>6. LiveTokenHeld'
  BY <1>3 DEF LiveTokenHeld
<1>7. CASE endpoint.rotates
  <2>1. live' \in Unused
    BY <1>7 DEF NextToken
  <2>2. \A p \in Owners : ~Granted(p)
    BY <1>7 DEF TokenInv, RotationInv
  <2>3. RotationInv'
    <3>1. \A p \in Owners : Waiting(p) => post[p].refresh # live'
      BY <2>1 DEF Unused, Waiting
    <3>2. gateway = "up" => cached.refresh # live'
      BY <1>1, <2>1 DEF Unused, TypeOK
    <3> QED
      BY <1>2, <1>3, <2>2, <3>1, <3>2 DEF RotationInv
  <2> QED
    BY <1>2, <1>3, <1>4, <1>5, <1>6, <1>7, <2>2, <2>3 DEF TokenInv
<1>8. CASE ~endpoint.rotates
  BY <1>2, <1>3, <1>4, <1>5, <1>6, <1>8 DEF TokenInv, NextToken
<1> QED
  BY <1>7, <1>8

(* o takes its new token. *)
LEMMA TokenReceived ==
    ASSUME IInv, TokenInv, NEW o \in Owners, Granted(o), NEW life, cached' = Received(o, life),
           post' = [post EXCEPT ![o] = None], gateway' = "up", UNCHANGED <<live, lost, endpoint>>
    PROVE  TokenInv'
<1>1. TypeOK /\ OwnerInv
  BY DEF IInv
<1>2. post'[o] = None /\ \A p \in Owners : p # o => post'[p] = post[p]
  BY <1>1 DEF TypeOK
<1>3. cached'.refresh = live
  BY DEF TokenInv, Received
<1>4. \A p \in Owners : /\ Granted(p)' => Granted(p) /\ p # o /\ post'[p] = post[p]
                        /\ Waiting(p)' => Waiting(p) /\ p # o /\ post'[p] = post[p]
  BY <1>2 DEF Granted, Waiting
<1>5. (endpoint.rotates => RotationInv)'
  BY <1>4 DEF TokenInv, RotationInv
<1>6. LiveTokenHeld'
  BY <1>3 DEF LiveTokenHeld
<1> QED
  BY <1>3, <1>4, <1>5, <1>6 DEF TokenInv

(* Nothing happens to refreshes and tokens. *)
LEMMA TokenQuiet ==
    ASSUME TokenInv, UNCHANGED <<post, live, lost, gateway, endpoint>>, gateway = "up" => cached'.refresh = cached.refresh
    PROVE  TokenInv'
<1>1. \A p \in Owners : (Granted(p)' <=> Granted(p)) /\ (Waiting(p)' <=> Waiting(p))
  BY DEF Granted, Waiting
<1>2. (endpoint.rotates => RotationInv)'
  BY <1>1 DEF TokenInv, RotationInv
<1>3. LiveTokenHeld'
  BY <1>1 DEF TokenInv, LiveTokenHeld
<1> QED
  BY <1>1, <1>2, <1>3, Constants DEF TokenInv

(* The endpoint grants o's refresh, and the answer is lost. *)
LEMMA TokenLost ==
    ASSUME IInv, TokenInv, NEW o \in Owners, Waiting(o), post[o].refresh = live,
           live' = NextToken, lost' = (lost \/ endpoint.rotates),
           ~Granted(o)', ~Waiting(o)', \A p \in Owners : p # o => post'[p] = post[p],
           UNCHANGED <<gateway, cached, endpoint>>
    PROVE  TokenInv'
<1>1. lost \in BOOLEAN /\ ~Granted(o)
  BY DEF IInv, TypeOK, Waiting, Granted
<1>2. CASE endpoint.rotates
  <2>1. \A p \in Owners : ~Granted(p) /\ (p # o => (Granted(p)' <=> Granted(p)))
    BY <1>2 DEF TokenInv, RotationInv, Granted
  <2>2. \A p \in Owners : ~Granted(p)'
    BY <2>1
  <2>3. RotationInv'
    BY <2>2 DEF RotationInv
  <2> QED
    BY <1>2, <2>2, <2>3 DEF TokenInv, LiveTokenHeld
<1>3. CASE ~endpoint.rotates
  BY <1>1, <1>3, TokenRefused DEF NextToken
<1> QED
  BY <1>2, <1>3

LEMMA TokenDies ==
    ASSUME TokenInv, Dies, live = 1 \/ lost, UNCHANGED <<live, lost, endpoint>>
    PROVE  TokenInv'
<1>1. \A p \in Owners : ~Granted(p)' /\ ~Waiting(p)'
  BY DEF Dies, Granted, Waiting
<1> QED
  BY <1>1 DEF Dies, TokenInv, RotationInv, LiveTokenHeld

LEMMA InitTokens == Init => TokenInv
<1> SUFFICES ASSUME Init PROVE TokenInv
  OBVIOUS
<1>1. \A o \in Owners : ~Granted(o) /\ ~Waiting(o)
  BY DEF Init, Granted, Waiting
<1> QED
  BY <1>1 DEF Init, TokenInv, RotationInv, LiveTokenHeld

LEMMA TokenStep ==
    ASSUME \A e \in Endpoints : e.garbles => ~e.rotates, IInv, TokenInv, [Next]_vars
    PROVE  TokenInv'
<1>0. TypeOK /\ OwnerInv
  BY DEF IInv
<1>1. CASE Begin
  <2>1. CASE configured > 0
    <3>1. \A p \in Owners : ~Granted(p) /\ ~Granted(p)' /\ ~Waiting(p)'
      BY <1>0, <1>1, <2>1 DEF Begin, OwnerInv, Granted, Waiting
    <3>2. cached'.refresh = 1 /\ gateway' = "up" /\ (live = 1 \/ lost) /\ UNCHANGED <<live, lost, endpoint>>
      BY <1>1, <2>1 DEF Begin, TokenInv
    <3>3. ~endpoint.rotates => live = 1
      BY DEF TokenInv
    <3> QED
      BY <3>1, <3>2, <3>3 DEF TokenInv, RotationInv, LiveTokenHeld
  <2>2. CASE ~(configured > 0)
    <3>1. post[Start] = None
      BY <1>0, <1>1, Constants DEF Begin, OwnerInv
    <3> QED
      BY <1>0, <1>1, <2>2, <3>1, TokenSend, Constants DEF Begin
  <2> QED
    BY <2>1, <2>2
<1>2. CASE Began
  BY <1>2, TokenReceived, Constants DEF Began
<1>3. CASE Fatal
  <2>1. gateway = "starting" /\ ~Granted(Start)
    BY <1>0, <1>3, Constants DEF Fatal, Refused, Granted, OwnerInv, TypeOK
  <2> QED
    BY <1>3, <2>1, TokenDies DEF Fatal, TokenInv
<1>4. CASE Tick
  <2>1. gateway = "up" => cached'.refresh = cached.refresh
    BY <1>0, <1>4 DEF TypeOK, Tick, None
  <2> QED
    BY <1>4, <2>1, TokenQuiet DEF Tick
<1>5. ASSUME NEW c \in Chains, ChainStep(c) PROVE TokenInv'
  <2>0. c \in Owners /\ gateway = "up" /\ cached # None
    <3>1. chain[c] # Free \/ post[c] # None
      BY <1>5 DEF ChainStep, Fire, Refreshed, Failed, Retry, Granted, Refused, Stage, Free
    <3>2. gateway = "up"
      BY <1>0, <3>1, Constants DEF OwnerInv, TypeOK
    <3> QED
      BY <1>0, <3>2, Constants DEF TypeOK
  <2>1. CASE Fire(c)
    <3>1. cached.refresh \in RefreshTokens
      BY <1>0, <2>0 DEF TypeOK
    <3>2. post[c] = None
      BY <1>0, <2>1 DEF Fire, OwnerInv
    <3> QED
      BY <2>0, <2>1, <3>1, <3>2, TokenSend DEF Fire
  <2>2. CASE Refreshed(c)
    BY <2>0, <2>2, TokenReceived DEF Refreshed
  <2>3. CASE Failed(c)
    <3>1. post'[c] = None /\ \A p \in Owners : p # c => post'[p] = post[p]
      BY <1>0, <2>0, <2>3 DEF Failed, TypeOK
    <3> QED
      BY <2>0, <2>3, <3>1, TokenRefused DEF Failed, Refused, Granted, Waiting
  <2>4. CASE Retry(c)
    BY <2>4, TokenQuiet DEF Retry
  <2> QED
    BY <1>5, <2>1, <2>2, <2>3, <2>4 DEF ChainStep
<1>6. ASSUME NEW q \in Requests, Ask(q) PROVE TokenInv'
  <2>1. cached.refresh \in RefreshTokens
    BY <1>0, <1>6 DEF TypeOK, Ask
  <2> QED
    BY <1>6, <2>1, TokenSend, Constants DEF Ask
<1>7. ASSUME NEW q \in Requests, Answered(q) PROVE TokenInv'
  <2>1. gateway = "up"
    BY <1>0, <1>7, Constants DEF Answered, Granted, OwnerInv, TypeOK
  <2> QED
    BY <1>7, <2>1, TokenReceived, Constants DEF Answered
<1>8. ASSUME NEW q \in Requests, Unanswered(q) PROVE TokenInv'
  <2>1. q \in Owners /\ post'[q] = None /\ \A p \in Owners : p # q => post'[p] = post[p]
    BY <1>0, <1>8, Constants DEF Unanswered, TypeOK
  <2> QED
    BY <1>8, <2>1, TokenRefused DEF Unanswered, Refused, Granted, Waiting
<1>9. ASSUME NEW o \in Owners, Answer(o) PROVE TokenInv'
  <2>1. CASE post[o].refresh = live
    BY <1>0, <1>9, <2>1, AnswerShape, TokenGrant DEF Answer
  <2>2. CASE post[o].refresh # live
    <3>1. /\ post'[o] = [refresh |-> post[o].refresh, state |-> "refused"]
          /\ \A p \in Owners : p # o => post'[p] = post[p]
      BY <1>0, <1>9, <2>2, AnswerShape DEF TypeOK
    <3> QED
      BY <1>9, <2>2, <3>1, TokenRefused DEF Answer, Granted, Waiting
  <2> QED
    BY <2>1, <2>2
<1>10. ASSUME NEW o \in Owners, Fault(o) PROVE TokenInv'
  <2>1. post[o] \in [refresh : RefreshTokens, state : {"waiting", "refused", "hung"}]
    BY <1>0, <1>10, PostShape DEF Fault
  <2>2. PICK outcome \in {"refused", "hung"} : /\ post'[o] = [post[o] EXCEPT !.state = outcome]
                                             /\ \A p \in Owners : p # o => post'[p] = post[p]
    BY <1>0, <1>10 DEF Fault, TypeOK
  <2>3. post'[o].state = outcome
    BY <2>1, <2>2
  <2>4. Waiting(o) /\ ~Granted(o) /\ ~Granted(o)' /\ ~Waiting(o)' /\ UNCHANGED <<gateway, cached, endpoint>>
    BY <1>10, <2>3 DEF Fault, Granted, Waiting
  <2>5. CASE UNCHANGED <<live, lost>>
    BY <2>2, <2>4, <2>5, TokenRefused
  <2>6. CASE post[o].refresh = live /\ live' = NextToken /\ lost' = (lost \/ endpoint.rotates)
    BY <2>2, <2>4, <2>6, TokenLost
  <2> QED
    BY <1>10, <2>5, <2>6 DEF Fault
<1>11. ASSUME NEW o \in Owners, Garbled(o) PROVE TokenInv'
  <2>1. endpoint \in Endpoints /\ endpoint.garbles
    BY <1>0, <1>11 DEF TypeOK, Garbled
  <2>2. live = 1
    BY <2>1 DEF TokenInv
  <2>3. Dies /\ UNCHANGED <<live, lost, endpoint>>
    BY <1>11 DEF Garbled
  <2> QED
    BY <2>2, <2>3, TokenDies
<1>12. CASE UNCHANGED vars
  BY <1>12, TokenQuiet DEF vars
<1> QED
  BY <1>1, <1>2, <1>3, <1>4, <1>5, <1>6, <1>7, <1>8, <1>9, <1>10, <1>11, <1>12 DEF Next

(* The gateway loses the refresh token that works only with the answer     *)
(* that brought it (LiveTokenHeld), for any number of chains and requests  *)
(* that refresh at once and any number of failures, unless a rotating      *)
(* endpoint also ends the gateway.                                         *)
THEOREM LiveTokenHeldHolds == ASSUME \A e \in Endpoints : e.garbles => ~e.rotates PROVE Spec => []LiveTokenHeld
<1>1. IInv /\ TokenInv /\ [Next]_vars => TokenInv'
  BY TokenStep
<1>2. TokenInv => LiveTokenHeld
  BY DEF TokenInv
<1> QED
  BY <1>1, <1>2, InitInv, InitTokens, StepInv, PTL DEF Spec

-----------------------------------------------------------------------------
(* Chains.  What is running goes on, and a chain that has always been      *)
(* alone has a timer that is not due before the token expires: it was set  *)
(* for that token, and no other refresh has renewed it since.              *)
PunctualInv ==
    Life <= MaxDelay =>
      \A c \in Chains : FreeChains = Chains \ {c} /\ Stage(c) = "timer" => chain[c].left >= cached.left

ScheduleInv == IInv /\ ChainSurvives /\ PunctualInv

LEMMA DelayReaches ==
    ASSUME Life <= MaxDelay, NEW left \in 0 .. Life
    PROVE  Delay(left) \in Nat /\ Delay(left) >= left
BY LifeAssumption DEF Delay

(* c is scheduled for what is in the cache. *)
LEMMA Scheduled ==
    ASSUME ScheduleInv, NEW c \in Chains, NEW left \in 0 .. Life,
           chain' = [chain EXCEPT ![c] = Timer(left)], cached'.left = left, gateway' = "up"
    PROVE  ChainSurvives' /\ PunctualInv'
<1>1. chain'[c] = Timer(left) /\ \A d \in Chains : d # c => chain'[d] = chain[d]
  BY DEF ScheduleInv, IInv, TypeOK
<1>2. Stage(c)' = "timer" /\ (Life <= MaxDelay => chain'[c].left >= cached'.left)
  BY <1>1, DelayReaches DEF Timer, Stage
<1>3. \A d \in Chains : FreeChains' = Chains \ {d} => d = c
  BY <1>2 DEF FreeChains, Stage
<1> QED
  BY <1>2, <1>3 DEF ChainSurvives, FreeChains, PunctualInv, Stage

(* c goes on without a timer. *)
LEMMA Unscheduled ==
    ASSUME ScheduleInv, NEW c \in Chains, NEW new, new.stage \notin {"free", "timer"},
           chain' = [chain EXCEPT ![c] = new]
    PROVE  ChainSurvives' /\ PunctualInv'
<1>1. chain'[c] = new /\ \A d \in Chains : d # c => chain'[d] = chain[d]
  BY DEF ScheduleInv, IInv, TypeOK
<1>2. \A d \in Chains : FreeChains' = Chains \ {d} => d = c
  BY <1>1 DEF FreeChains, Stage
<1> QED
  BY <1>1, <1>2 DEF ChainSurvives, FreeChains, PunctualInv, Stage

LEMMA ScheduleUnchanged ==
    ASSUME ScheduleInv, UNCHANGED <<chain, cached, gateway, endpoint>>
    PROVE  ChainSurvives' /\ PunctualInv'
BY DEF ScheduleInv, ChainSurvives, FreeChains, PunctualInv, Stage

LEMMA NotUp ==
    ASSUME gateway' # "up", chain' = [c \in Chains |-> Free]
    PROVE  ChainSurvives' /\ PunctualInv'
BY DEF ChainSurvives, PunctualInv, Stage, Free

LEMMA ScheduleStep ==
    ASSUME ScheduleInv, [Next]_vars
    PROVE  ScheduleInv'
<1> SUFFICES ChainSurvives' /\ PunctualInv'
  BY StepInv DEF ScheduleInv
<1>0. TypeOK /\ OwnerInv /\ IInv
  BY DEF ScheduleInv, IInv
<1>1. CASE Begin
  <2>1. CASE configured > 0
    BY <1>0, <1>1, <2>1, Scheduled DEF Begin, TypeOK
  <2>2. CASE ~(configured > 0)
    BY <1>0, <1>1, <2>2, NotUp DEF Begin, OwnerInv
  <2> QED
    BY <2>1, <2>2
<1>2. ASSUME NEW o \in Owners, NEW life \in 1 .. Life, NEW c \in Chains, gateway' = "up",
             cached' = Received(o, life), chain' = [chain EXCEPT ![c] = Timer(life)]
      PROVE  ChainSurvives' /\ PunctualInv'
  <2>1. life \in 0 .. Life /\ cached'.left = life
    BY <1>2, LifeAssumption DEF Received
  <2> QED
    BY <1>2, <2>1, Scheduled
<1>3. CASE Began
  BY <1>2, <1>3, Constants DEF Began
<1>4. CASE Fatal
  BY <1>4, NotUp DEF Fatal, Dies
<1>5. CASE Tick
  <2>1. \A c \in Chains : Stage(c)' = Stage(c)
    BY <1>0, <1>5 DEF Tick, TypeOK, Stage
  <2>2. FreeChains' = FreeChains
    BY <2>1 DEF FreeChains
  <2>3. ASSUME Life <= MaxDelay, NEW c \in Chains, FreeChains = Chains \ {c}, Stage(c) = "timer"
        PROVE  chain'[c].left >= cached'.left
    <3>1. gateway = "up" /\ cached # None
      BY <1>0, <2>3 DEF OwnerInv, TypeOK, Stage, Free
    <3>2. cached.left \in Nat /\ chain[c].left \in Nat /\ chain[c].left >= cached.left
      BY <1>0, <2>3, <3>1, LifeAssumption DEF ScheduleInv, PunctualInv, TypeOK, Stage
    <3>3. cached'.left = Less(cached.left) /\ chain'[c].left = Less(chain[c].left)
      BY <1>0, <1>5, <2>3, <3>1 DEF Tick, TypeOK, Stage
    <3> QED
      BY <3>2, <3>3 DEF Less
  <2> QED
    BY <1>5, <2>1, <2>2, <2>3 DEF Tick, ScheduleInv, ChainSurvives, PunctualInv
<1>6. ASSUME NEW c \in Chains, ChainStep(c) PROVE ChainSurvives' /\ PunctualInv'
  <2>1. gateway = "up" /\ cached # None
    <3>1. chain[c] # Free \/ post[c] # None
      BY <1>6 DEF ChainStep, Fire, Refreshed, Failed, Retry, Granted, Refused, Stage, Free
    <3> QED
      BY <1>0, <3>1, Constants DEF OwnerInv, TypeOK
  <2>2. CASE Fire(c)
    BY <2>2, Unscheduled DEF Fire
  <2>3. CASE Refreshed(c)
    BY <1>2, <2>1, <2>3, Constants DEF Refreshed
  <2>4. CASE Failed(c)
    BY <2>4, Unscheduled DEF Failed
  <2>5. CASE Retry(c)
    BY <1>0, <2>1, <2>5, Scheduled DEF Retry, TypeOK
  <2> QED
    BY <1>6, <2>2, <2>3, <2>4, <2>5 DEF ChainStep
<1>7. ASSUME NEW q \in Requests, Ask(q) \/ Unanswered(q) PROVE ChainSurvives' /\ PunctualInv'
  BY <1>7, ScheduleUnchanged DEF Ask, Unanswered
<1>8. ASSUME NEW q \in Requests, Answered(q) PROVE ChainSurvives' /\ PunctualInv'
  <2>1. gateway = "up"
    BY <1>0, <1>8, Constants DEF Answered, Granted, OwnerInv, TypeOK
  <2> QED
    BY <1>2, <1>8, <2>1, Constants DEF Answered, FreeChains
<1>9. ASSUME NEW o \in Owners, Answer(o) \/ Fault(o) PROVE ChainSurvives' /\ PunctualInv'
  BY <1>9, ScheduleUnchanged DEF Answer, Fault
<1>10. ASSUME NEW o \in Owners, Garbled(o) PROVE ChainSurvives' /\ PunctualInv'
  BY <1>10, NotUp DEF Garbled, Dies
<1>11. CASE UNCHANGED vars
  BY <1>11, ScheduleUnchanged DEF vars
<1> QED
  BY <1>1, <1>3, <1>4, <1>5, <1>6, <1>7, <1>8, <1>9, <1>10, <1>11 DEF Next

LEMMA ScheduleInit == Init => ScheduleInv
<1> SUFFICES ASSUME Init PROVE ScheduleInv
  OBVIOUS
<1>1. ChainSurvives /\ PunctualInv
  BY DEF Init, ChainSurvives, PunctualInv, Stage, Free
<1> QED
  BY <1>1, InitInv DEF ScheduleInv

(* Fire is the only step that takes a chain from its timer to a POST. *)
LEMMA FiresWhenDue ==
    ASSUME TypeOK, [Next]_vars, NEW c \in Chains, Fires(c)
    PROVE  chain[c].left = 0
<1>0. Stage(c) = "timer" /\ chain'[c].stage = "posting"
  BY DEF Fires
<1>1. ASSUME NEW d \in Chains, NEW new, new.stage # "posting", chain' = [chain EXCEPT ![d] = new] PROVE FALSE
  BY <1>0, <1>1 DEF TypeOK, Stage
<1>2. ASSUME chain' = [d \in Chains |-> Free] PROVE FALSE
  BY <1>0, <1>2 DEF Free
<1>3. ASSUME NEW d \in Chains, NEW left, chain' = [chain EXCEPT ![d] = Timer(left)] PROVE FALSE
  <2>1. Timer(left).stage # "posting"
    BY DEF Timer
  <2> QED
    BY <1>1, <1>3, <2>1
<1>4. chain' # chain
  BY <1>0 DEF Stage
<1>5. ~Begin /\ ~Began /\ ~Fatal
  BY <1>2, <1>3, <1>4 DEF Begin, Began, Fatal, Dies
<1>6. ~Tick
  BY <1>0 DEF Tick, TypeOK, Stage
<1>7. \A q \in Requests : ~Ask(q) /\ ~Answered(q) /\ ~Unanswered(q)
  BY <1>3, <1>4 DEF Ask, Answered, Unanswered, FreeChains
<1>8. \A o \in Owners : ~Answer(o) /\ ~Fault(o) /\ ~Garbled(o)
  BY <1>2, <1>4 DEF Answer, Fault, Garbled, Dies
<1>9. ASSUME NEW d \in Chains, ChainStep(d) PROVE Fire(d)
  <2>1. ~Refreshed(d) /\ ~Retry(d)
    BY <1>3 DEF Refreshed, Retry
  <2>2. ~Failed(d)
    BY <1>1 DEF Failed
  <2> QED
    BY <1>9, <2>1, <2>2 DEF ChainStep
<1>10. PICK d \in Chains : Fire(d)
  BY <1>4, <1>5, <1>6, <1>7, <1>8, <1>9 DEF Next, vars
<1>11. d = c
  BY <1>0, <1>10 DEF Fire, TypeOK, Stage
<1> QED
  BY <1>10, <1>11 DEF Fire

(* A gateway that is up always has a refresh scheduled or under way        *)
(* (ChainSurvives).                                                        *)
THEOREM ChainSurvivesHolds == Spec => []ChainSurvives
<1>1. ScheduleInv /\ [Next]_vars => ScheduleInv'
  BY ScheduleStep
<1>2. ScheduleInv => ChainSurvives
  BY DEF ScheduleInv
<1> QED
  BY <1>1, <1>2, ScheduleInit, PTL DEF Spec

(* A chain that is alone does not refresh a token that is still valid      *)
(* (OneChainIsPunctual), if no token outlives the longest timer.           *)
THEOREM OneChainIsPunctualHolds == ASSUME Life <= MaxDelay PROVE Spec => OneChainIsPunctual
<1>1. ScheduleInv /\ [Next]_vars => ScheduleInv'
  BY ScheduleStep
<1>2. Life <= MaxDelay /\ ScheduleInv /\ [Next]_vars => [\A c \in Chains : Fires(c) /\ FreeChains = Chains \ {c} => ~Valid]_vars
  <2> SUFFICES ASSUME Life <= MaxDelay, ScheduleInv, [Next]_vars, NEW c \in Chains, Fires(c), FreeChains = Chains \ {c}, Valid
               PROVE  FALSE
    OBVIOUS
  <2>1. chain[c].left >= cached.left /\ cached.left > 0 /\ cached.left \in Nat /\ chain[c].left \in Nat
    BY LifeAssumption DEF ScheduleInv, PunctualInv, IInv, TypeOK, Fires, Valid, Stage
  <2>2. chain[c].left = 0
    BY FiresWhenDue DEF ScheduleInv, IInv
  <2> QED
    BY <2>1, <2>2
<1> QED
  BY <1>1, <1>2, ScheduleInit, PTL DEF Spec, OneChainIsPunctual
=============================================================================
