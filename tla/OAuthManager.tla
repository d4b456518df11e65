---------------------------- MODULE OAuthManager ----------------------------
(***************************************************************************)
(* The OAuth manager of the Rust gateway (crates/core/src/oauth.rs) under  *)
(* the three users the daemon gives it (crates/daemon/src/server.rs): the  *)
(* start-up of the server (build_state), the request handlers, each with   *)
(* its own clone of the manager, and the background refresh_loop.          *)
(*                                                                         *)
(* One action is one stretch of code between two awaits or two             *)
(* acquisitions of the state's mutex.  A POST to the token endpoint is     *)
(* three steps: the caller reads the refresh token and releases the mutex  *)
(* (StartRefresh and the like), the endpoint decides (Grant, Refuse), the  *)
(* caller takes the mutex again and stores the reply (Apply).              *)
(*                                                                         *)
(* Time is kept as what remains: store.ttl until expires_at, wake until    *)
(* the loop's sleep ends.  Tick takes one unit from both, so the state     *)
(* space is finite without a bound on time.                                *)
(***************************************************************************)
EXTENDS Integers

CONSTANTS
    Req,           \* request handlers that may run at the same time
    Tokens,        \* refresh tokens (access tokens are only present or not)
    NoToken,       \* "no refresh token", in a reply or at the endpoint
    Lifetimes,     \* values of expires_in in the replies
    InitialTtls,   \* time until the expires_at of the configuration
    MinDelay,      \* MIN_REFRESH_DELAY
    RetryDelay,    \* RETRY_DELAY
    Rotations,     \* may a reply carry a new refresh token (TRUE), or not
    LossyReplies,  \* may a reply be lost or unreadable after the grant
    Disconnects    \* may a client hang up while its request is refreshing

ASSUME ReqAssumption == Req \cap {"server", "loop"} = {}
ASSUME TokenAssumption == NoToken \notin Tokens
ASSUME TimeAssumption ==
    /\ Lifetimes \subseteq Nat
    /\ InitialTtls \subseteq Nat
    /\ MinDelay \in Nat
    /\ RetryDelay \in Nat
ASSUME PolicyAssumption ==
    /\ Rotations \subseteq BOOLEAN
    /\ LossyReplies \in BOOLEAN
    /\ Disconnects \in BOOLEAN

VARIABLES
    pc,       \* where the server's start-up, the loop and each request are
    store,    \* OAuthState, behind its mutex
    call,     \* each caller's refresh_tokens call
    wake,     \* time until the loop's sleep ends
    handles,  \* live clones of OAuthManager, named by their owners
    live,     \* the refresh token the endpoint accepts now
    lost      \* history: a reply with a new refresh token was thrown away

vars == <<pc, store, call, wake, handles, live, lost>>

Callers == Req \cup {"server", "loop"}

ServerStates == {"init", "post", "schedule", "up", "dropping", "gone"}
LoopStates == {"absent", "sleep", "post", "resched", "ended"}
RequestStates == {"idle", "expired", "post", "reread", "served", "failed", "gone", "dropping"}

Stores == [access: BOOLEAN, refresh: Tokens, dated: BOOLEAN, ttl: Nat]

Calls == [st: {"idle", "sent", "granted"},
          old: Tokens \cup {NoToken},   \* the token the caller read and sent
          new: Tokens \cup {NoToken},   \* the token in the reply, if any
          life: Nat]                    \* expires_in

NoCall == [st |-> "idle", old |-> NoToken, new |-> NoToken, life |-> 0]

TypeOK ==
    /\ pc \in [Callers -> ServerStates \cup LoopStates \cup RequestStates]
    /\ pc["server"] \in ServerStates
    /\ pc["loop"] \in LoopStates
    /\ \A r \in Req : pc[r] \in RequestStates
    /\ store \in Stores
    /\ call \in [Callers -> Calls]
    /\ wake \in Nat
    /\ handles \subseteq Req \cup {"server"}
    /\ live \in Tokens \cup {NoToken}
    /\ lost \in BOOLEAN

-----------------------------------------------------------------------------
(* get_access_token: None without an expiry, from the expiry on, or without *)
(* an access token.                                                         *)
TokenAvailable == store.dated /\ store.ttl > 0 /\ store.access

(* refresh_delay *)
RefreshDelay(ttl) == IF ttl < MinDelay THEN MinDelay ELSE ttl

(* refresh_loop upgrades its Weak for the length of one iteration. *)
LoopUpgraded == pc["loop"] \in {"post", "resched"}

\* Mutant of SoleOwner: the count of the other clones is not looked at.
SoleOwnerIgnoresClones(p) == p \in handles /\ ~LoopUpgraded

(* Arc::strong_count(&self.state) = 1, read by the owner p of a clone. *)
SoleOwner(p) == handles = {p} /\ ~LoopUpgraded

(* A token nobody in the system knows stands for one never issued before. *)
Known == {store.refresh, live} \cup UNION {{call[p].old, call[p].new} : p \in Callers}

(* A call that ends without its reply being stored: if the endpoint had     *)
(* rotated the refresh token, nobody holds the new one.                     *)
Discard(p) ==
    /\ call' = [call EXCEPT ![p] = NoCall]
    /\ lost' = (lost \/ call[p].new # NoToken)

(* The configuration gives an access token, an expiry, both or neither; its *)
(* refresh token may be one the endpoint no longer accepts.                 *)
Init ==
    /\ pc = [p \in Callers |-> CASE p = "server" -> "init"
                                 [] p = "loop"   -> "absent"
                                 [] OTHER        -> "idle"]
    /\ store \in {s \in [access: BOOLEAN, refresh: Tokens, dated: BOOLEAN, ttl: InitialTtls] :
                    s.dated \/ s.ttl = 0}
    /\ call = [p \in Callers |-> NoCall]
    /\ wake = 0
    /\ handles = {"server"}
    /\ live \in {store.refresh, NoToken}
    /\ lost = FALSE

-----------------------------------------------------------------------------
(* refresh_tokens *)

(* The caller clones the refresh token under the mutex and sends its POST. *)
Send(p) ==
    /\ pc' = [pc EXCEPT ![p] = "post"]
    /\ call' = [call EXCEPT ![p] =
                 [st |-> "sent", old |-> store.refresh, new |-> NoToken, life |-> 0]]

(* The endpoint accepts its live refresh token.  When it rotates it, the    *)
(* old one is dead from here on.                                            *)
Replies == {t \in (Tokens \ Known) \cup {NoToken} : (t # NoToken) \in Rotations}

Grant(p) ==
    /\ call[p].st = "sent"
    /\ call[p].old = live
    /\ \E life \in Lifetimes, t \in Replies :
          /\ call' = [call EXCEPT ![p] =
                         [st |-> "granted", old |-> call[p].old, new |-> t, life |-> life]]
          /\ live' = IF t = NoToken THEN live ELSE t
    /\ UNCHANGED <<pc, store, wake, handles, lost>>

(* What the caller does next.  With Err the start-up goes on degraded and   *)
(* never schedules the loop, the loop sleeps RETRY_DELAY, a request answers *)
(* 503; with Ok each of them reads the store again.                         *)
AfterOk(p) == CASE p = "server" -> "schedule" [] p = "loop" -> "resched" [] OTHER -> "reread"

\* Mutant of AfterError: the loop breaks on an error.
AfterErrorBreaks(p) == CASE p = "server" -> "up" [] p = "loop" -> "ended" [] OTHER -> "failed"

AfterError(p) == CASE p = "server" -> "up" [] p = "loop" -> "sleep" [] OTHER -> "failed"

\* Mutant of ErrorDelay: the retry is added to the time until the expiry.
ErrorDelayAdds(p) == IF p = "loop" THEN RetryDelay + RefreshDelay(store.ttl) ELSE wake

ErrorDelay(p) == IF p = "loop" THEN RetryDelay ELSE wake

OnError(p) ==
    /\ pc' = [pc EXCEPT ![p] = AfterError(p)]
    /\ wake' = ErrorDelay(p)

\* Mutant of Refuse: the caller puts the token it sent back into the store.
RefuseRollsBack(p) ==
    /\ call[p].st = "sent"
    /\ OnError(p)
    /\ Discard(p)
    /\ store' = [store EXCEPT !.refresh = call[p].old]
    /\ UNCHANGED <<handles, live>>

(* The POST fails: no connection, or a status that is not a success. *)
Refuse(p) ==
    /\ call[p].st = "sent"
    /\ OnError(p)
    /\ Discard(p)
    /\ UNCHANGED <<store, handles, live>>

(* The endpoint granted, but the reply breaks off, is not JSON or has no    *)
(* access_token.                                                            *)
LoseReply(p) ==
    /\ LossyReplies
    /\ call[p].st = "granted"
    /\ OnError(p)
    /\ Discard(p)
    /\ UNCHANGED <<store, handles, live>>

\* Mutant of Apply: the new refresh token of the reply is not kept.
ApplyKeepsSentToken(p) ==
    /\ call[p].st = "granted"
    /\ store' = [access |-> TRUE, refresh |-> call[p].old, dated |-> TRUE, ttl |-> call[p].life]
    /\ call' = [call EXCEPT ![p] = NoCall]
    /\ pc' = [pc EXCEPT ![p] = AfterOk(p)]
    /\ UNCHANGED <<wake, handles, live, lost>>

(* The reply is stored.  Without a new refresh token the one that was SENT  *)
(* is written back, whatever the store holds by now.                        *)
Apply(p) ==
    /\ call[p].st = "granted"
    /\ store' = [access  |-> TRUE,
                 refresh |-> IF call[p].new = NoToken THEN call[p].old ELSE call[p].new,
                 dated   |-> TRUE,
                 ttl     |-> call[p].life]
    /\ call' = [call EXCEPT ![p] = NoCall]
    /\ pc' = [pc EXCEPT ![p] = AfterOk(p)]
    /\ UNCHANGED <<wake, handles, live, lost>>

-----------------------------------------------------------------------------
(* The start-up: OAuthManager::init, then the router serves. *)

InitManager ==
    /\ pc["server"] = "init"
    /\ \/ /\ TokenAvailable
          /\ pc' = [pc EXCEPT !["server"] = "schedule"]
          /\ UNCHANGED call
       \/ /\ ~TokenAvailable
          /\ Send("server")
    /\ UNCHANGED <<store, wake, handles, live, lost>>

(* schedule_refresh *)
ScheduleRefresh ==
    /\ pc["server"] = "schedule"
    /\ IF store.dated
       THEN /\ pc' = [pc EXCEPT !["server"] = "up", !["loop"] = "sleep"]
            /\ wake' = RefreshDelay(store.ttl)
       ELSE /\ pc' = [pc EXCEPT !["server"] = "up"]
            /\ UNCHANGED wake
    /\ UNCHANGED <<store, call, handles, live, lost>>

-----------------------------------------------------------------------------
(* A request: proxy_handler's get_access_token_or_refresh *)

(* The handler gets its clone of the state and reads the access token. *)
Arrive(r) ==
    /\ pc[r] = "idle"
    /\ pc["server"] = "up"
    /\ handles' = handles \cup {r}
    /\ pc' = [pc EXCEPT ![r] = IF TokenAvailable THEN "served" ELSE "expired"]
    /\ UNCHANGED <<store, call, wake, live, lost>>

(* It found none and calls refresh_token: a second acquisition of the mutex. *)
StartRefresh(r) ==
    /\ pc[r] = "expired"
    /\ Send(r)
    /\ UNCHANGED <<store, wake, handles, live, lost>>

(* Its refresh succeeded and it reads the access token again. *)
Reread(r) ==
    /\ pc[r] = "reread"
    /\ pc' = [pc EXCEPT ![r] = IF TokenAvailable THEN "served" ELSE "failed"]
    /\ UNCHANGED <<store, call, wake, handles, live, lost>>

(* The client hangs up: the handler's future is dropped at its await, and   *)
(* with it the POST and any reply to it.                                    *)
Disconnect(r) ==
    /\ Disconnects
    /\ pc[r] = "post"
    /\ pc' = [pc EXCEPT ![r] = "gone"]
    /\ Discard(r)
    /\ UNCHANGED <<store, wake, handles, live>>

-----------------------------------------------------------------------------
(* Drop for OAuthManager, in two steps: drop's own body, which the last     *)
(* owner uses to abort the loop, and the release of the Arc after it.       *)

DropBody(p) ==
    /\ pc[p] \in {"served", "failed", "gone", "up"}
    /\ p \in handles
    /\ pc' = [pc EXCEPT ![p] = "dropping",
                        !["loop"] = IF SoleOwner(p) /\ @ = "sleep" THEN "ended" ELSE @]
    /\ UNCHANGED <<store, call, wake, handles, live, lost>>

Release(p) ==
    /\ pc[p] = "dropping"
    /\ handles' = handles \ {p}
    /\ pc' = [pc EXCEPT ![p] = IF p = "server" THEN "gone" ELSE "idle"]
    /\ UNCHANGED <<store, call, wake, live, lost>>

-----------------------------------------------------------------------------
(* refresh_loop *)

\* Mutant of LoopWake: the loop owns the state instead of a Weak to it.
LoopWakeOwnsState ==
    /\ pc["loop"] = "sleep"
    /\ wake = 0
    /\ Send("loop")
    /\ UNCHANGED <<store, wake, handles, live, lost>>

(* The sleep is over: upgrade the Weak and refresh, or end with the state. *)
LoopWake ==
    /\ pc["loop"] = "sleep"
    /\ wake = 0
    /\ \/ /\ handles # {}
          /\ Send("loop")
       \/ /\ handles = {}
          /\ pc' = [pc EXCEPT !["loop"] = "ended"]
          /\ UNCHANGED call
    /\ UNCHANGED <<store, wake, handles, live, lost>>

(* After a refresh of its own the loop reads expires_at again and sleeps. *)
LoopReschedule ==
    /\ pc["loop"] = "resched"
    /\ IF store.dated
       THEN /\ pc' = [pc EXCEPT !["loop"] = "sleep"]
            /\ wake' = RefreshDelay(store.ttl)
       ELSE /\ pc' = [pc EXCEPT !["loop"] = "ended"]
            /\ UNCHANGED wake
    /\ UNCHANGED <<store, call, handles, live, lost>>

\* Mutant of Less: a duration is not cut off at zero.
LessUnclamped(n) == n - 1

(* One unit of time passes for the expiry and for the loop's sleep. *)
Less(n) == IF n > 0 THEN n - 1 ELSE 0

Tick ==
    /\ store.ttl > 0 \/ wake > 0
    /\ store' = [store EXCEPT !.ttl = Less(@)]
    /\ wake' = Less(wake)
    /\ UNCHANGED <<pc, call, handles, live, lost>>

-----------------------------------------------------------------------------
Answer(p) == Grant(p) \/ Refuse(p) \/ LoseReply(p)

Request(r) == Arrive(r) \/ StartRefresh(r) \/ Reread(r) \/ Disconnect(r)

DropClone(p) == DropBody(p) \/ Release(p)

Next ==
    \/ InitManager
    \/ ScheduleRefresh
    \/ LoopWake
    \/ LoopReschedule
    \/ Tick
    \/ \E p \in Callers : Answer(p) \/ Apply(p)
    \/ \E r \in Req : Request(r)
    \/ \E p \in Req \cup {"server"} : DropClone(p)

Spec == Init /\ [][Next]_vars

(* Tasks and timers run, handlers and their drops finish, and every POST    *)
(* ends one way or another.  The endpoint does not refuse the loop's live   *)
(* token for ever.  Nothing makes a request arrive or the server stop.      *)
Fairness ==
    /\ WF_vars(Tick)
    /\ WF_vars(InitManager)
    /\ WF_vars(ScheduleRefresh)
    /\ WF_vars(LoopWake)
    /\ WF_vars(LoopReschedule)
    /\ \A p \in Callers : WF_vars(Answer(p)) /\ WF_vars(Apply(p))
    /\ \A r \in Req : WF_vars(StartRefresh(r)) /\ WF_vars(Reread(r)) /\ WF_vars(DropClone(r))
    /\ WF_vars(Release("server"))
    /\ SF_vars(Grant("loop"))

FairSpec == Spec /\ Fairness

-----------------------------------------------------------------------------
(* Properties *)

Granted == {p \in Callers : call[p].st = "granted"}

(* With an endpoint that rotates at every refresh, refreshes that overlap   *)
(* (the manager does not serialise refresh_tokens) never cost the gateway   *)
(* its credential: the refresh token the endpoint accepts is stored or is   *)
(* in a reply about to be stored, unless a reply was thrown away.           *)
RefreshTokenCustody ==
    \/ live = NoToken
    \/ lost
    \/ store.refresh = live
    \/ \E p \in Granted : call[p].new = live

(* What makes it so.  A token that was read from the store and is still     *)
(* accepted is still the stored one, so nobody holds the token of a reply   *)
(* under way and no second refresh can be granted before it arrives; and    *)
(* nothing was stored since the caller of that reply read its token.        *)
ReadTokenIsStored ==
    \A p \in Callers : call[p].st # "idle" /\ call[p].old = live => store.refresh = live

GrantIsAlone ==
    \A p \in Granted :
        /\ call[p].new = live
        /\ call[p].old = store.refresh
        /\ call[p].new # call[p].old
        /\ Granted = {p}

CustodyInv == RefreshTokenCustody /\ ReadTokenIsStored /\ GrantIsAlone

(* When every reply has the same lifetime, an expired token is never left   *)
(* alone for longer than the retry: if the loop sleeps past the expiry, it  *)
(* wakes within RETRY_DELAY (or the 1 s floor), although refreshes by       *)
(* requests move expires_at without telling the loop.                       *)
OutageBounded ==
    pc["loop"] = "sleep" /\ store.ttl = 0 => wake <= RetryDelay \/ wake <= MinDelay

(* The drops of the requests' clones never stop the background refresh of a *)
(* gateway that is serving.                                                 *)
ServingKeepsLoop == pc["server"] = "up" => pc["loop"] # "ended"

(* Once every clone is gone the loop ends, also when the last two clones    *)
(* were dropped at the same time and neither saw itself as the last one, or *)
(* when the last drop found the loop in the middle of a refresh.            *)
AbandonedLoopEnds == handles = {} ~> pc["loop"] \in {"absent", "ended"}

(* As long as the gateway lives, a running loop brings back a valid access  *)
(* token after every expiry and every failed refresh, whatever requests do  *)
(* in between, unless the configured refresh token was dead or a reply with *)
(* a new one was thrown away.                                               *)
BackgroundRecovers ==
    pc["loop"] = "sleep" ~> TokenAvailable \/ lost \/ live = NoToken \/ pc["server"] # "up"

(* The unit test of that name: a refresh whose reply has no refresh_token   *)
(* "preserves existing refresh token".                                      *)
PreservesExistingRefreshToken ==
    [][\A p \in Callers :
          Apply(p) /\ call[p].new = NoToken => store'.refresh = store.refresh]_vars

(* The log line of proxy_handler's 503: "No valid OAuth token available     *)
(* after refresh attempt".                                                  *)
NoTokenWhenUnavailable ==
    [][\A r \in Req :
          pc[r] # "failed" /\ pc'[r] = "failed" => ~TokenAvailable]_vars

=============================================================================
