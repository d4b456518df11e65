------------------------------ MODULE TsOAuth ------------------------------
(***************************************************************************)
(* The tokens of the TypeScript gateway (src/oauth.ts).  There is no lock: *)
(* every schedule of refreshes is a chain of timers and POSTs that never   *)
(* ends, a lazy refresh by a request begins another, and all of them write *)
(* the one cache.  The gateway is restarted when it has died               *)
(* (docker-compose.yml).                                                   *)
(*                                                                         *)
(* Time is relative: `left` is what is left of a token's life or until a   *)
(* timer is due, in units of a second at least.                            *)
(***************************************************************************)
EXTENDS Naturals, FiniteSets

CONSTANTS
    Chains,         \* bound of the chains of one process
    Requests,       \* requests that may refresh at the same time
    Life,           \* longest life of a token
    MaxDelay,       \* longest delay of setTimeout, 2^31 - 1 ms
    RetryDelay,     \* the 30 seconds
    Endpoints,      \* the kinds of token endpoint: [rotates, garbles]
    MaxFaults       \* bound of its faults

ASSUME LifeAssumption == Life \in Nat /\ MaxDelay \in Nat /\ RetryDelay \in Nat /\ MaxFaults \in Nat
ASSUME EndpointsAssumption == Endpoints \subseteq [rotates : BOOLEAN, garbles : BOOLEAN]

VARIABLES
    gateway,        \* "down", "starting" or "up"
    cached,         \* cachedTokens
    configured,     \* what is left of the configured access token
    chain,          \* the chains
    post,           \* the refreshes under way, by who waits for them
    live,           \* the refresh token the endpoint takes
    lost,           \* history: the answer that brought it never arrived
    faults,         \* the faults so far
    endpoint        \* whether it hands out new refresh tokens, and answers what is no JSON

vars == <<gateway, cached, configured, chain, post, live, lost, faults, endpoint>>

None == [none |-> TRUE]
Start == "start-up"
ASSUME OwnersAssumption ==
    /\ IsFiniteSet(Chains) /\ IsFiniteSet(Requests)
    /\ Chains \cap Requests = {} /\ Start \notin Chains \cup Requests
Owners == Chains \cup Requests \cup {Start}
(* Refresh tokens.  The first is the configured one; more than can be in   *)
(* use at once are not needed.                                             *)
RefreshTokens == 1 .. Cardinality(Owners) + 3
Free == [stage |-> "free"]

Init ==
    /\ gateway = "down"
    /\ cached = None
    /\ configured \in 0 .. Life
    /\ chain = [c \in Chains |-> Free]
    /\ post = [o \in Owners |-> None]
    /\ live = 1
    /\ lost = FALSE
    /\ faults = 0
    /\ endpoint \in Endpoints

Stage(c) == chain[c].stage
FreeChains == {c \in Chains : Stage(c) = "free"}
Valid == cached # None /\ cached.left > 0

-----------------------------------------------------------------------------
(* scheduleRefresh: at the expiry of the cached token, not within a        *)
(* second.  setTimeout takes 1 ms for a delay that is too long.  Mutant: a *)
(* margin before the expiry.                                               *)
DelayWithMargin(left) == IF left > MaxDelay THEN 0 ELSE IF left < 2 THEN 1 ELSE left - 1
Delay(left) == IF left > MaxDelay THEN 0 ELSE IF left = 0 THEN 1 ELSE left
Timer(left) == [stage |-> "timer", left |-> Delay(left)]

(* refreshOAuthToken by o. *)
Send(o, token) == post' = [post EXCEPT ![o] = [refresh |-> token, state |-> "waiting"]]
Waiting(o) == post[o] # None /\ post[o].state = "waiting"
Granted(o) == post[o] # None /\ post[o].state = "granted"
Refused(o) == post[o] # None /\ post[o].state = "refused"
Hung(o) == post[o] # None /\ post[o].state = "hung"

(* data.refresh_token || refreshToken.  Mutant: the old one is kept. *)
ReceivedOld(o, life) == [refresh |-> post[o].refresh, left |-> life]
Received(o, life) == [refresh |-> post[o].token, left |-> life]

(* The process ends, and everything in it. *)
Dies ==
    /\ gateway' = "down" /\ cached' = None
    /\ chain' = [c \in Chains |-> Free]
    /\ post' = [o \in Owners |-> None]

-----------------------------------------------------------------------------
(* initOAuth: a configured token that is still valid, or a refresh. *)
Begin ==
    /\ gateway = "down"
    /\ IF configured > 0
       THEN \E c \in Chains :
                /\ gateway' = "up"
                /\ cached' = [refresh |-> 1, left |-> configured]
                /\ chain' = [chain EXCEPT ![c] = Timer(configured)]
                /\ UNCHANGED post
       ELSE gateway' = "starting" /\ Send(Start, 1) /\ UNCHANGED <<cached, chain>>
    /\ UNCHANGED <<configured, live, lost, faults, endpoint>>
(* Mutant: no schedule after the first refresh. *)
BeganUnscheduled ==
    /\ Granted(Start)
    /\ \E life \in 1 .. Life : cached' = Received(Start, life)
    /\ gateway' = "up"
    /\ post' = [post EXCEPT ![Start] = None]
    /\ UNCHANGED <<configured, chain, live, lost, faults, endpoint>>
Began ==
    /\ Granted(Start)
    /\ \E life \in 1 .. Life, c \in Chains :
        /\ cached' = Received(Start, life)
        /\ chain' = [chain EXCEPT ![c] = Timer(life)]
    /\ gateway' = "up"
    /\ post' = [post EXCEPT ![Start] = None]
    /\ UNCHANGED <<configured, live, lost, faults, endpoint>>
(* Without a token: process.exit. *)
Fatal == Refused(Start) /\ Dies /\ UNCHANGED <<configured, live, lost, faults, endpoint>>

(* The chain of a scheduleRefresh. *)
Fire(c) ==
    /\ Stage(c) = "timer" /\ chain[c].left = 0
    /\ chain' = [chain EXCEPT ![c] = [stage |-> "posting"]]
    /\ Send(c, cached.refresh)
    /\ UNCHANGED <<gateway, cached, configured, live, lost, faults, endpoint>>
Refreshed(c) ==
    /\ Granted(c)
    /\ \E life \in 1 .. Life :
        /\ cached' = Received(c, life)
        /\ chain' = [chain EXCEPT ![c] = Timer(life)]
    /\ post' = [post EXCEPT ![c] = None]
    /\ UNCHANGED <<gateway, configured, live, lost, faults, endpoint>>
(* Mutant: a failure is only logged. *)
FailedForGood(c) ==
    /\ Refused(c)
    /\ chain' = [chain EXCEPT ![c] = Free]
    /\ post' = [post EXCEPT ![c] = None]
    /\ UNCHANGED <<gateway, cached, configured, live, lost, faults, endpoint>>
Failed(c) ==
    /\ Refused(c)
    /\ chain' = [chain EXCEPT ![c] = [stage |-> "retry", left |-> RetryDelay]]
    /\ post' = [post EXCEPT ![c] = None]
    /\ UNCHANGED <<gateway, cached, configured, live, lost, faults, endpoint>>
Retry(c) ==
    /\ Stage(c) = "retry" /\ chain[c].left = 0
    /\ chain' = [chain EXCEPT ![c] = Timer(cached.left)]
    /\ UNCHANGED <<gateway, cached, configured, post, live, lost, faults, endpoint>>

(* getAccessTokenOrRefresh, of a request that finds an expired token: the  *)
(* cache is never empty once the gateway is up.  The guard on the chains   *)
(* is a bound.                                                             *)
Ask(q) ==
    /\ gateway = "up" /\ post[q] = None
    /\ cached.left = 0
    /\ Cardinality(FreeChains) > Cardinality({p \in Requests : post[p] # None})
    /\ Send(q, cached.refresh)
    /\ UNCHANGED <<gateway, cached, configured, chain, live, lost, faults, endpoint>>
Answered(q) ==
    /\ Granted(q)
    /\ \E life \in 1 .. Life, c \in FreeChains :
        /\ cached' = Received(q, life)
        /\ chain' = [chain EXCEPT ![c] = Timer(life)]
    /\ post' = [post EXCEPT ![q] = None]
    /\ UNCHANGED <<gateway, configured, live, lost, faults, endpoint>>
Unanswered(q) ==
    /\ Refused(q)
    /\ post' = [post EXCEPT ![q] = None]
    /\ UNCHANGED <<gateway, cached, configured, chain, live, lost, faults, endpoint>>

-----------------------------------------------------------------------------
(* The endpoint: a refresh token it hands out retires the one before. *)
Unused == {t \in RefreshTokens \ {1, live} :
    /\ cached # None => t # cached.refresh
    /\ \A o \in Owners : post[o] # None => t # post[o].refresh /\ (Granted(o) => t # post[o].token)}
NextToken == IF endpoint.rotates THEN CHOOSE t \in Unused : TRUE ELSE live
Answer(o) ==
    /\ Waiting(o) /\ Unused # {}
    /\ IF post[o].refresh = live
       THEN /\ live' = NextToken
            /\ post' = [post EXCEPT ![o] = [refresh |-> @.refresh, state |-> "granted", token |-> live']]
       ELSE /\ post' = [post EXCEPT ![o].state = "refused"]
            /\ UNCHANGED live
    /\ UNCHANGED <<gateway, cached, configured, chain, lost, faults, endpoint>>
(* It fails or cannot be reached, or the connection fails, which may be    *)
(* after the endpoint has granted the refresh.  An error of the request    *)
(* rejects the promise; when the endpoint is silent or its response breaks *)
(* off there is no 'end', and nothing ever settles it.                     *)
Fault(o) ==
    /\ Waiting(o) /\ faults < MaxFaults
    /\ faults' = faults + 1
    /\ \E outcome \in {"refused", "hung"} : post' = [post EXCEPT ![o].state = outcome]
    /\ \/ UNCHANGED <<live, lost>>
       \/ /\ post[o].refresh = live /\ Unused # {}
          /\ live' = NextToken
          /\ lost' = (lost \/ endpoint.rotates)
    /\ UNCHANGED <<gateway, cached, configured, chain, endpoint>>
(* An answer that is no JSON (a proxy's error page) throws in the handler  *)
(* of 'end', which nobody catches.                                         *)
Garbled(o) ==
    /\ endpoint.garbles /\ Waiting(o) /\ faults < MaxFaults
    /\ faults' = faults + 1
    /\ Dies
    /\ UNCHANGED <<configured, live, lost, endpoint>>

Less(n) == IF n = 0 THEN 0 ELSE n - 1
Tick ==
    /\ configured' = Less(configured)
    /\ cached' = IF cached = None THEN None ELSE [cached EXCEPT !.left = Less(@)]
    /\ chain' = [c \in Chains |-> IF Stage(c) \in {"timer", "retry"}
                                  THEN [chain[c] EXCEPT !.left = Less(@)] ELSE chain[c]]
    /\ UNCHANGED <<gateway, post, live, lost, faults, endpoint>>

ChainStep(c) == Fire(c) \/ Refreshed(c) \/ Failed(c) \/ Retry(c)
Next ==
    \/ Begin \/ Began \/ Fatal \/ Tick
    \/ \E c \in Chains : ChainStep(c)
    \/ \E q \in Requests : Ask(q) \/ Answered(q) \/ Unanswered(q)
    \/ \E o \in Owners : Answer(o) \/ Fault(o) \/ Garbled(o)

(* Timers fire, the endpoint answers, docker restarts what has died.       *)
Fairness ==
    /\ WF_vars(Begin) /\ WF_vars(Began) /\ WF_vars(Fatal) /\ WF_vars(Tick)
    /\ \A c \in Chains : WF_vars(ChainStep(c))
    /\ \A o \in Owners : WF_vars(Answer(o))
    /\ \A q \in Requests : WF_vars(Answered(q) \/ Unanswered(q))
Spec == Init /\ [][Next]_vars /\ Fairness

-----------------------------------------------------------------------------
TypeOK ==
    /\ gateway \in {"down", "starting", "up"}
    /\ cached \in {None} \cup [refresh : RefreshTokens, left : 0 .. Life]
    /\ cached = None <=> gateway # "up"
    /\ configured \in 0 .. Life
    /\ chain \in [Chains -> [stage : {"free", "posting"}] \cup [stage : {"timer", "retry"}, left : Nat]]
    /\ post \in [Owners -> {None} \cup [refresh : RefreshTokens, state : {"waiting", "refused", "hung"}]
                           \cup [refresh : RefreshTokens, state : {"granted"}, token : RefreshTokens]]
    /\ live \in RefreshTokens
    /\ lost \in BOOLEAN
    /\ faults \in 0 .. MaxFaults
    /\ endpoint \in Endpoints

(* With a rotating endpoint the gateway itself never loses the refresh     *)
(* token that works, however many refreshes overlap, fail or hang (the     *)
(* assignments to cachedTokens after each await): it has it, or is about   *)
(* to, unless the network lost the one answer that brought it.             *)
LiveTokenHeld ==
    gateway = "up" =>
        \/ live = cached.refresh
        \/ \E o \in Owners : Granted(o) /\ post[o].token = live
        \/ lost

(* The schedule never ends: scheduleRefresh after a success, setTimeout    *)
(* after a failure.                                                        *)
ChainSurvives == gateway = "up" => FreeChains # Chains

(* Beyond help: the token that works is lost for good, or some POST was    *)
(* never settled and everything else that would refresh hangs as well.     *)
Stranded ==
    \/ lost
    \/ /\ \E o \in Owners : Hung(o)
       /\ \A c \in Chains : Stage(c) # "free" => Hung(c)
(* Whatever else fails, as long as it does not fail for ever, the gateway  *)
(* comes to a valid token again and again, even if no request asks for one *)
(* (the retry after 30 seconds).                                           *)
EventuallyServes == []<>((gateway = "up" /\ Valid) \/ Stranded)
(* "For as long as it does not fail for ever" is not enough: one POST that *)
(* is never settled, or one lost answer of a rotating endpoint, ends it.   *)
ServesWhateverFails == []<>(gateway = "up" /\ Valid)

Fires(c) == Stage(c) = "timer" /\ chain'[c].stage = "posting"
(* "Refreshes only after actual expiry": no timer refreshes a token that   *)
(* is still valid.                                                         *)
RefreshedAtExpiry == [][\A c \in Chains : Fires(c) => ~Valid]_vars
(* That much holds as long as no request has begun a second chain.         *)
OneChainIsPunctual ==
    [][\A c \in Chains : Fires(c) /\ FreeChains = Chains \ {c} => ~Valid]_vars

(* "No valid OAuth token available" (proxy.ts): a request is refused only  *)
(* while there is none.                                                    *)
RefusedOnlyWithoutToken == [][\A q \in Requests : Refused(q) /\ gateway' = "up" => post'[q] # None \/ ~Valid]_vars

(* "OAuth refresh failed ... Retrying in 30s": a failed refresh does not   *)
(* end the gateway.                                                        *)
StaysUp == [][gateway = "up" => gateway' = "up"]_vars
=============================================================================
