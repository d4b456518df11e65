----------------------------- MODULE Dashboard -----------------------------
(***************************************************************************)
(* The window of the desktop app (crates/desktop/src/App.tsx): it polls    *)
(* the daemon, loads the configuration, and, while its status tab is open, *)
(* notifies the user of a danger (status/useHealthDashboard.ts).  Answers  *)
(* of the back end are read at one moment and arrive at a later one.       *)
(*                                                                         *)
(* A state update is one step with the render and the effects after it.    *)
(***************************************************************************)
EXTENDS FiniteSets, Sequences

CONSTANTS
    Polls,      \* fetchStatus calls that are under way at once
    Loads,      \* loadConfig calls that are
    Saves,      \* handleSaveConfig calls that are
    Statuses,   \* statuses the daemon goes through
    Files,      \* what the file may be: subset of {"valid", "invalid", "few keys", "no token", "unreadable"}
    Tabs        \* the tabs the user opens: subset of {"status", "config"}

ASSUME StatusesAssumption ==
    Statuses \subseteq {"stopped", "starting", "running", "stopping", "failed"}
ASSUME FilesAssumption ==
    Files # {} /\ Files \subseteq {"valid", "invalid", "few keys", "no token", "unreadable"}
ASSUME TabsAssumption == "status" \in Tabs /\ Tabs \subseteq {"status", "config"}

VARIABLES
    daemon, file,       \* the daemon and its configuration
    poll, load,         \* the calls under way
    tab, status, health, config, busy,  \* the state of App
    seen, notified,     \* hasObservedRunning and notifiedDanger of the status tab
    told,               \* the last notification, until there is no danger any more
    left                \* the status tab was left since

window == <<tab, status, health, config, busy>>
hook == <<seen, notified, told, left>>
vars == <<daemon, file, poll, load, tab, status, health, config, busy, seen, notified, told, left>>

Free == "free"
Calls == Loads \cup Saves
Init ==
    /\ daemon \in Statuses /\ file \in Files
    /\ poll = [p \in Polls |-> Free] /\ load = [l \in Calls |-> Free]
    /\ tab = "status" /\ status = "stopped" /\ health = "none" /\ config = "none" /\ busy = FALSE
    /\ seen = FALSE /\ notified = {} /\ told = {} /\ left = FALSE

-----------------------------------------------------------------------------
(* useHealthDashboard: the categories that are in danger.  What the daemon *)
(* answers to /_health ("valid", "expired/refreshing") is none.            *)
Danger(s, c) ==
    {category \in {"identityRewrite", "envRewrite", "instantStartup", "centralizedOAuth"} :
        \/ category = "identityRewrite" /\ c = "invalid"
        \/ category = "envRewrite" /\ c = "few keys"
        \/ category = "instantStartup" /\ c = "no token"
        \/ category = "centralizedOAuth" /\ s = "failed"}

(* Its effect.  A hook that is not mounted has neither seen nor notified.  *)
(* Mutants: only the first danger counts; a daemon that runs clears what   *)
(* was notified.                                                           *)
NotifiesFirst(s, danger) == danger # {} /\ notified = {} /\ (s \/ status' = "failed")
Notifies(s, danger) == danger # {} /\ notified # danger /\ (s \/ status' = "failed")
RenderClears ==
    LET danger == Danger(status', config')
        s == seen \/ status' = "running"
    IN  /\ told' = IF danger = {} THEN {} ELSE IF Notifies(s, danger) THEN danger ELSE told
        /\ seen' = s
        /\ notified' = IF danger # {} /\ Notifies(s, danger) THEN danger
                       ELSE IF status' = "running" THEN {} ELSE notified
        /\ UNCHANGED left
Render ==
    LET danger == Danger(status', config')
        s == seen \/ status' = "running"
    IN  /\ told' = IF danger = {} THEN {}
                   ELSE IF tab' = "status" /\ Notifies(s, danger) THEN danger ELSE told
        /\ IF tab' # "status" THEN seen' = FALSE /\ notified' = {} /\ left' = TRUE
           ELSE /\ seen' = s
                /\ notified' = IF danger = {} THEN {}
                               ELSE IF Notifies(s, danger) THEN danger ELSE notified
                /\ left' = (left /\ ~Notifies(s, danger))

OpenTab(t) ==
    /\ t # tab
    /\ tab' = t
    /\ UNCHANGED <<daemon, file, poll, load, status, health, config, busy>>
    /\ Render

-----------------------------------------------------------------------------
(* fetchStatus, every 3 s.  A call to /_health has no timeout: the answer  *)
(* may never come, and nobody waits for it.                                *)
FetchStatus(p) ==
    /\ poll[p] = Free
    /\ poll' = [poll EXCEPT ![p] = "asked"]
    /\ UNCHANGED <<daemon, file, load, window, hook>>
GetDaemonStatus(p) ==
    /\ poll[p] = "asked"
    /\ poll' = [poll EXCEPT ![p] = daemon]
    /\ UNCHANGED <<daemon, file, load, window, hook>>
(* Mutant: the health stays when the daemon does not run. *)
SetStatusOnly(p) ==
    /\ poll[p] \in Statuses
    /\ status' = poll[p]
    /\ poll' = [poll EXCEPT ![p] = IF @ = "running" THEN "asked health" ELSE Free]
    /\ UNCHANGED <<daemon, file, load, tab, health, config, busy>>
    /\ Render
SetStatus(p) ==
    /\ poll[p] \in Statuses
    /\ status' = poll[p]
    /\ poll' = [poll EXCEPT ![p] = IF @ = "running" THEN "asked health" ELSE Free]
    /\ health' = IF poll[p] = "running" THEN health ELSE "none"
    /\ UNCHANGED <<daemon, file, load, tab, config, busy>>
    /\ Render
GetDaemonHealth(p) ==
    /\ poll[p] = "asked health"
    /\ \E answer \in (IF daemon = "running" THEN {"health ok"} ELSE {}) \cup {"health none", Free} :
            poll' = [poll EXCEPT ![p] = answer]
    /\ UNCHANGED <<daemon, file, load, window, hook>>
SetHealth(p) ==
    /\ poll[p] \in {"health ok", "health none"}
    /\ health' = IF poll[p] = "health ok" THEN "ok" ELSE "none"
    /\ poll' = [poll EXCEPT ![p] = Free]
    /\ UNCHANGED <<daemon, file, load, tab, status, config, busy>>
    /\ Render

-----------------------------------------------------------------------------
(* loadConfig: by the effects, as long as there is no configuration, and   *)
(* on Refresh and Reload, which do not look at configBusy.  On the         *)
(* configuration tab two effects ask, before either sees the other's busy. *)
FreeLoads == {l \in Loads : load[l] = Free}
Begin(calls, step) ==
    /\ load' = [l \in Calls |-> IF l \in calls THEN step ELSE load[l]]
    /\ busy' = TRUE
    /\ UNCHANGED <<daemon, file, poll, tab, status, health, config, hook>>
LoadByItself ==
    /\ config = "none" /\ ~busy
    /\ \E calls \in SUBSET FreeLoads :
        /\ calls # {} /\ (tab = "status" => Cardinality(calls) = 1)
        /\ tab = "config" => Cardinality(calls) = 2 \/ calls = FreeLoads
        /\ Begin(calls, "asked")
Reload(l) == load[l] = Free /\ Begin({l}, "asked")
GetConfigSnapshot(l) ==
    /\ load[l] = "asked"
    /\ load' = [load EXCEPT ![l] = file]
    /\ UNCHANGED <<daemon, file, poll, window, hook>>
(* Mutant: an error leaves configBusy as it is. *)
SetConfigTo(l, new, stillBusy) ==
    /\ load[l] \in Files
    /\ load' = [load EXCEPT ![l] = Free]
    /\ config' = new /\ busy' = stillBusy
    /\ UNCHANGED <<daemon, file, poll, tab, status, health>>
    /\ Render
SetConfigStaysBusy(l) ==
    SetConfigTo(l, IF load[l] = "unreadable" THEN config ELSE load[l], load[l] = "unreadable")
SetConfig(l) == SetConfigTo(l, IF load[l] = "unreadable" THEN config ELSE load[l], FALSE)

(* handleSaveConfig: what is saved has been validated, what is refused     *)
(* leaves the file and the window.  Then it waits for a fetchStatus of its *)
(* own (one of Polls), which may never end.                                *)
Save(l) == tab = "config" /\ ~busy /\ load[l] = Free /\ Begin({l}, "saving")
Savable == Files \ {"invalid", "unreadable"}
SaveConfigSnapshot(l) ==
    /\ load[l] = "saving"
    /\ \E f \in Savable :
        file' = f /\ load' = [load EXCEPT ![l] = "saved " \o f]
    /\ UNCHANGED <<daemon, poll, window, hook>>
SetSaved(l) ==
    /\ \E f \in Savable : load[l] = "saved " \o f /\ config' = f
    /\ load' = [load EXCEPT ![l] = "fetching"]
    /\ UNCHANGED <<daemon, file, poll, tab, status, health, busy>>
    /\ Render
SaveEnds(l) ==
    /\ load[l] \in {"saving", "fetching"}
    /\ load' = [load EXCEPT ![l] = Free] /\ busy' = FALSE
    /\ UNCHANGED <<daemon, file, poll, tab, status, health, config, hook>>

-----------------------------------------------------------------------------
Daemon ==
    /\ \E s \in Statuses : s # daemon /\ daemon' = s
    /\ UNCHANGED <<file, poll, load, window, hook>>
File ==
    /\ \E f \in Files : f # file /\ file' = f
    /\ UNCHANGED <<daemon, poll, load, window, hook>>

Answer(p) == GetDaemonStatus(p) \/ SetStatus(p) \/ GetDaemonHealth(p) \/ SetHealth(p)
Snapshot(l) == GetConfigSnapshot(l) \/ SetConfig(l) \/ SaveConfigSnapshot(l) \/ SetSaved(l)

Next ==
    \/ Daemon \/ File
    \/ \E t \in Tabs : OpenTab(t)
    \/ \E p \in Polls : FetchStatus(p) \/ Answer(p)
    \/ LoadByItself
    \/ \E l \in Loads : Reload(l)
    \/ \E l \in Saves : Save(l) \/ SaveEnds(l)
    \/ \E l \in Calls : Snapshot(l)

(* The interval goes off, the commands return, the effects run (after a    *)
(* render and before the user can act again: SF).                          *)
Fairness ==
    /\ \A p \in Polls : WF_vars(FetchStatus(p) \/ Answer(p))
    /\ SF_vars(LoadByItself)
    /\ \A l \in Calls : WF_vars(Snapshot(l))

Spec == Init /\ [][Next]_vars /\ Fairness

-----------------------------------------------------------------------------
TypeOK ==
    /\ daemon \in Statuses /\ file \in Files /\ tab \in Tabs
    /\ poll \in [Polls -> {Free, "asked", "asked health", "health ok", "health none"} \cup Statuses]
    /\ load \in [Calls -> {Free, "asked", "saving", "fetching"} \cup Files \cup {"saved " \o f : f \in Savable}]
    /\ status \in Statuses \cup {"stopped"} /\ health \in {"none", "ok"}
    /\ config \in {"none"} \cup (Files \ {"unreadable"}) /\ busy \in BOOLEAN
    /\ seen \in BOOLEAN /\ left \in BOOLEAN
    /\ \A d \in {notified, told} : d \subseteq Danger("failed", "invalid") \cup
            Danger("failed", "few keys") \cup Danger("failed", "no token")

(* On the status tab of a gateway that has run or failed, the user has     *)
(* been told of exactly the dangers that are shown, whatever came before   *)
(* and in whatever order the answers arrive.                               *)
DangerIsTold ==
    tab = "status" /\ Danger(status, config) # {} /\ (seen \/ status = "failed") =>
        told = Danger(status, config)

(* "danger transition notifies once, repeated does not"                    *)
(* (status/dashboard.test.tsx): one danger is told once until it has gone, *)
(* or until the user comes back to the status tab, whose hook is new.      *)
ToldOnce == [][notified' # {} /\ notified' # notified => notified' # told \/ left]_vars

(* A daemon that stays as it is is shown as it is in the end, and without  *)
(* the health of an earlier run, however late the answers of old polls.    *)
StatusCatchesUp ==
    <>[][daemon' = daemon]_vars =>
        <>[](status = daemon /\ (status # "running" => health = "none"))

(* Once the configuration can be read for good some configuration is       *)
(* shown in the end, though every load before has failed: the effects ask  *)
(* again.                                                                  *)
ConfigArrives == <>[](file # "unreadable") => <>[](config # "none")

(* No effect asks again once a configuration is shown, and the answer of   *)
(* an older load may overtake that of a newer one: that the file shown is  *)
(* the file as it is in the end takes a user who goes on reloading.        *)
ReloadShows ==
    /\ <>[](file # "unreadable") /\ <>[][file' = file]_vars
    /\ []<>(\E l \in Loads : load[l] = "asked")
    => <>[](config = file)

(* What the window shows catches up with what there is, though answers of  *)
(* the back end come late, out of order, with errors or not at all.        *)
WindowCatchesUp == StatusCatchesUp /\ ConfigArrives /\ ReloadShows
=============================================================================
