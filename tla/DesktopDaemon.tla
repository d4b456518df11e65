--------------------------- MODULE DesktopDaemon ---------------------------
(***************************************************************************)
(* The desktop app's supervisor of the daemon process: DaemonProcess       *)
(* (crates/desktop/src-tauri/src/daemon.rs) under the commands of the      *)
(* window (commands.rs) and the tray's Quit (main.rs).                     *)
(*                                                                         *)
(* status, child and port are behind a mutex each, and one action is the   *)
(* code between two acquisitions.  DaemonProcess::start and ::stop run     *)
(* under the outer mutex of DaemonState; the polling that follows a start  *)
(* does not, and it is what their steps interleave with.                   *)
(***************************************************************************)
EXTENDS Naturals

CONSTANTS
    Commands,      \* commands of the window that may be under way together
    Procs,         \* daemon processes
    NoProc,        \* no process
    Ports,         \* ports a configuration may name
    NoPort,        \* no port
    Foreign,       \* ports where a server that is not the app's answers /_health
    Polls,         \* health checks of one start (20 in the code)
    LateStarts,    \* may a start still begin when Quit has stopped the daemon
    CallsFail,     \* may Child::kill, ::wait or ::try_wait fail
    Crashes        \* may the app die without Quit

ASSUME CommandAssumption == "quit" \notin Commands
ASSUME ProcAssumption == NoProc \notin Procs
ASSUME PortAssumption == NoPort \notin Ports /\ Foreign \subseteq Ports
ASSUME PollAssumption == Polls \in Nat \ {0}
ASSUME FaultAssumption == {LateStarts, CallsFail, Crashes} \subseteq BOOLEAN

VARIABLES
    status,   \* DaemonStatus, as shown in the window
    child,    \* the process the app has a handle of
    port,     \* the port the health checks go to
    pc,       \* where each command is
    own,      \* the process that a start command has spawned
    url,      \* the port it has read: of the configuration, then of a check
    tries,    \* health checks it has left
    proc,     \* what each process is doing
    at,       \* the port of the configuration each process has loaded
    config,   \* the port in the configuration file
    app,      \* is the desktop app running
    stale     \* history: poll_exit wrote about another start's daemon

vars == <<status, child, port, pc, own, url, tries, proc, at, config, app, stale>>

shown == <<status, child, port>>   \* the fields of DaemonProcess
jobs == <<pc, own, url, tries>>
system == <<proc, at, config>>

Users == Commands \cup {"quit"}

Statuses == {"stopped", "starting", "running", "stopping", "failed"}

StartPcs == {"spawn", "setchild", "setport", "setrunning"}
StopPcs == {"kill", "setstopped", "noport"}
PollPcs == {"probe", "sent", "poll", "reaped0", "reaped1", "clear"}

ProcStates == {"none", "boot", "up", "ended0", "ended1"}

TypeOK ==
    /\ status \in Statuses
    /\ child \in Procs \cup {NoProc}
    /\ port \in Ports \cup {NoPort}
    /\ pc \in [Users -> {"idle", "exit"} \cup StartPcs \cup StopPcs \cup PollPcs]
    /\ own \in [Commands -> Procs \cup {NoProc}]
    /\ url \in [Commands -> Ports \cup {NoPort}]
    /\ tries \in [Commands -> 0 .. Polls]
    /\ proc \in [Procs -> ProcStates]
    /\ at \in [Procs -> Ports \cup {NoPort}]
    /\ config \in Ports
    /\ app \in {"on", "off"}
    /\ stale \in BOOLEAN

-----------------------------------------------------------------------------
Alive(q) == proc[q] \in {"boot", "up"}

(* Who is inside DaemonProcess::start, who is inside ::stop. *)
Starting == {c \in Commands : pc[c] \in StartPcs}
Stopping == {c \in Users : pc[c] \in StopPcs}

\* Mutant of OuterFree: a start does not keep the outer mutex.
OuterFreeInStarts == app = "on" /\ Stopping = {}

(* The mutex of DaemonState: start_daemon keeps it during start, the other  *)
(* commands during the whole of what they do.                               *)
OuterFree == app = "on" /\ Starting = {} /\ Stopping = {}

(* stop holds the child's mutex from the kill to its end. *)
ChildFree == \A c \in Users : pc[c] \notin {"setstopped", "noport"}

(* A dropped Child neither kills nor reaps its process. *)
Dropped(q) == IF Alive(q) THEN proc[q] ELSE "none"

Serving(p) == p \in Foreign \/ \E q \in Procs : proc[q] = "up" /\ at[q] = p

(* The command returns. *)
Return(c) ==
    IF c = "quit"
    THEN pc' = [pc EXCEPT ![c] = "exit"] /\ UNCHANGED <<own, url, tries>>
    ELSE /\ pc' = [pc EXCEPT ![c] = "idle"]
         /\ own' = [own EXCEPT ![c] = NoProc]
         /\ url' = [url EXCEPT ![c] = NoPort]
         /\ tries' = [tries EXCEPT ![c] = 0]

Goto(c, l) == pc' = [pc EXCEPT ![c] = l]

Init ==
    /\ status = "stopped"
    /\ child = NoProc
    /\ port = NoPort
    /\ pc = [c \in Users |-> "idle"]
    /\ own = [c \in Commands |-> NoProc]
    /\ url = [c \in Commands |-> NoPort]
    /\ tries = [c \in Commands |-> 0]
    /\ proc = [q \in Procs |-> "none"]
    /\ at = [q \in Procs |-> NoPort]
    /\ config \in Ports
    /\ app = "on"
    /\ stale = FALSE

-----------------------------------------------------------------------------
(* DaemonProcess::start.  Called with another status, it returns an error   *)
(* and changes nothing.  Quit lets the outer mutex go when it has asked for *)
(* the end of the event loop, not when the app ends.                        *)

BeginStart(c) ==
    /\ OuterFree
    /\ pc["quit"] = "exit" => LateStarts
    /\ pc[c] = "idle"
    /\ status \in {"stopped", "failed"}
    /\ status' = "starting"
    /\ Goto(c, "spawn")
    /\ UNCHANGED <<child, port, own, url, tries, system, app, stale>>

(* No configuration, port, binary or log file, or no process. *)
FailStart(c) ==
    /\ pc[c] = "spawn"
    /\ status' = "failed"
    /\ Return(c)
    /\ UNCHANGED <<child, port, system, app, stale>>

(* The port is read from the configuration, which the daemon loads again    *)
(* for itself once it is spawned.                                           *)
Spawn(c) ==
    /\ pc[c] = "spawn"
    /\ \E q \in Procs :
          /\ proc[q] = "none"
          /\ \A d \in Commands : own[d] # q
          /\ proc' = [proc EXCEPT ![q] = "boot"]
          /\ own' = [own EXCEPT ![c] = q]
    /\ url' = [url EXCEPT ![c] = config]
    /\ Goto(c, "setchild")
    /\ UNCHANGED <<shown, tries, at, config, app, stale>>

(* A handle that is still there is dropped. *)
SetChild(c) ==
    /\ pc[c] = "setchild"
    /\ ChildFree
    /\ child' = own[c]
    /\ proc' = IF child = NoProc THEN proc ELSE [proc EXCEPT ![child] = Dropped(child)]
    /\ Goto(c, "setport")
    /\ UNCHANGED <<status, port, own, url, tries, at, config, app, stale>>

SetPort(c) ==
    /\ pc[c] = "setport"
    /\ port' = url[c]
    /\ Goto(c, "setrunning")
    /\ UNCHANGED <<status, child, own, url, tries, system, app, stale>>

SetRunning(c) ==
    /\ pc[c] = "setrunning"
    /\ status' = "running"
    /\ Goto(c, "probe")
    /\ tries' = [tries EXCEPT ![c] = Polls]
    /\ UNCHANGED <<child, port, own, url, system, app, stale>>

-----------------------------------------------------------------------------
(* The rest of start_daemon: up to Polls rounds of a health check, a        *)
(* poll_exit and a sleep.  No mutex is held from one to the next.           *)

Probe(c) ==
    /\ pc[c] = "probe"
    /\ IF port = NoPort
       THEN Goto(c, "poll") /\ UNCHANGED url
       ELSE Goto(c, "sent") /\ url' = [url EXCEPT ![c] = port]
    /\ UNCHANGED <<shown, own, tries, system, app, stale>>

(* 2xx or 503, whoever sent it: the start succeeded. *)
Healthy(c) ==
    /\ pc[c] = "sent"
    /\ Serving(url[c])
    /\ Return(c)
    /\ UNCHANGED <<shown, system, app, stale>>

(* Refused, broken off, another status, or not HTTP at all (TLS). *)
Unhealthy(c) ==
    /\ pc[c] = "sent"
    /\ Goto(c, "poll")
    /\ UNCHANGED <<shown, own, url, tries, system, app, stale>>

\* Mutant of NextRound: the rounds are not counted.
NextRoundUncounted(c) == Goto(c, "probe") /\ UNCHANGED <<own, url, tries>>

(* Sleep, and give up after the last round: the status stays "running". *)
NextRound(c) ==
    IF tries[c] > 1
    THEN /\ Goto(c, "probe")
         /\ tries' = [tries EXCEPT ![c] = @ - 1]
         /\ UNCHANGED <<own, url>>
    ELSE Return(c)

\* Mutant of PollExit: the handle of the reaped child is kept.
PollExitKeepsHandle(c) ==
    /\ pc[c] = "poll"
    /\ ChildFree
    /\ IF child = NoProc \/ Alive(child)
       THEN NextRound(c) /\ UNCHANGED proc
       ELSE /\ proc' = [proc EXCEPT ![child] = "none"]
            /\ Goto(c, IF proc[child] = "ended0" THEN "reaped0" ELSE "reaped1")
            /\ UNCHANGED <<own, url, tries>>
    /\ UNCHANGED <<shown, at, config, app, stale>>

(* poll_exit, first part: reap the child, if there is one and it has exited. *)
PollExit(c) ==
    /\ pc[c] = "poll"
    /\ ChildFree
    /\ IF child = NoProc \/ Alive(child)
       THEN NextRound(c) /\ UNCHANGED <<child, proc>>
       ELSE /\ child' = NoProc
            /\ proc' = [proc EXCEPT ![child] = "none"]
            /\ Goto(c, IF proc[child] = "ended0" THEN "reaped0" ELSE "reaped1")
            /\ UNCHANGED <<own, url, tries>>
    /\ UNCHANGED <<status, port, at, config, app, stale>>

(* try_wait fails: the command returns its error, the child stays. *)
FailPoll(c) ==
    /\ CallsFail
    /\ pc[c] = "poll"
    /\ ChildFree
    /\ child # NoProc
    /\ Return(c)
    /\ UNCHANGED <<shown, system, app, stale>>

(* Second and third part: the status, then the port, of whichever daemon    *)
(* they are about by now.                                                   *)
Overtaken == child # NoProc \/ Starting # {}

\* Mutant of ReportExit: only a failure is reported.
ReportFailureOnly(c) ==
    /\ pc[c] \in {"reaped0", "reaped1"}
    /\ status' = IF pc[c] = "reaped0" THEN status ELSE "failed"
    /\ stale' = (stale \/ Overtaken)
    /\ Goto(c, "clear")
    /\ UNCHANGED <<child, port, own, url, tries, system, app>>

ReportExit(c) ==
    /\ pc[c] \in {"reaped0", "reaped1"}
    /\ status' = IF pc[c] = "reaped0" THEN "stopped" ELSE "failed"
    /\ stale' = (stale \/ Overtaken)
    /\ Goto(c, "clear")
    /\ UNCHANGED <<child, port, own, url, tries, system, app>>

ClearPort(c) ==
    /\ pc[c] = "clear"
    /\ port' = NoPort
    /\ stale' = (stale \/ Overtaken)
    /\ Return(c)
    /\ UNCHANGED <<status, child, system, app>>

-----------------------------------------------------------------------------
(* DaemonProcess::stop, for stop_daemon and for Quit, which ignores an      *)
(* error and exits the app either way.                                      *)

\* Mutant of BeginStop: the status is "stopped" before the kill.
BeginStopAtOnce(c) ==
    /\ OuterFree
    /\ pc[c] = "idle"
    /\ IF status = "running"
       THEN status' = "stopped" /\ Goto(c, "kill") /\ UNCHANGED <<own, url, tries>>
       ELSE UNCHANGED status /\ Return(c)
    /\ UNCHANGED <<child, port, system, app, stale>>

BeginStop(c) ==
    /\ OuterFree
    /\ pc[c] = "idle"
    /\ IF status = "running"
       THEN status' = "stopping" /\ Goto(c, "kill") /\ UNCHANGED <<own, url, tries>>
       ELSE UNCHANGED status /\ Return(c)
    /\ UNCHANGED <<child, port, system, app, stale>>

\* Mutant of Kill: the handle is dropped without a kill.
KillNothing(c) ==
    /\ pc[c] = "kill"
    /\ ChildFree
    /\ child' = NoProc
    /\ proc' = IF child = NoProc THEN proc ELSE [proc EXCEPT ![child] = Dropped(child)]
    /\ Goto(c, "setstopped")
    /\ UNCHANGED <<status, port, own, url, tries, at, config, app, stale>>

\* Mutant of Kill: killing a child that has exited is an error.
KillOnlyAlive(c) ==
    /\ pc[c] = "kill"
    /\ ChildFree
    /\ child' = NoProc
    /\ proc' = IF child = NoProc THEN proc ELSE [proc EXCEPT ![child] = "none"]
    /\ IF child = NoProc \/ Alive(child)
       THEN Goto(c, "setstopped") /\ UNCHANGED <<own, url, tries>>
       ELSE Return(c)
    /\ UNCHANGED <<status, port, at, config, app, stale>>

(* kill and wait *)
Kill(c) ==
    /\ pc[c] = "kill"
    /\ ChildFree
    /\ child' = NoProc
    /\ proc' = IF child = NoProc THEN proc ELSE [proc EXCEPT ![child] = "none"]
    /\ Goto(c, "setstopped")
    /\ UNCHANGED <<status, port, own, url, tries, at, config, app, stale>>

(* One of them fails: stop returns at once, the handle is gone. *)
FailKill(c) ==
    /\ CallsFail
    /\ pc[c] = "kill"
    /\ ChildFree
    /\ child # NoProc
    /\ child' = NoProc
    /\ proc' = [proc EXCEPT ![child] = Dropped(child)]
    /\ Return(c)
    /\ UNCHANGED <<status, port, at, config, app, stale>>

SetStopped(c) ==
    /\ pc[c] = "setstopped"
    /\ status' = "stopped"
    /\ Goto(c, "noport")
    /\ UNCHANGED <<child, port, own, url, tries, system, app, stale>>

EndStop(c) ==
    /\ pc[c] = "noport"
    /\ port' = NoPort
    /\ Return(c)
    /\ UNCHANGED <<status, child, system, app, stale>>

-----------------------------------------------------------------------------
(* The app ends and starts again, with a new DaemonProcess; a daemon that   *)
(* is left goes on without it.                                              *)

Exit ==
    /\ app = "on"
    /\ pc["quit"] = "exit" \/ Crashes
    /\ app' = "off"
    /\ status' = "stopped"
    /\ child' = NoProc
    /\ port' = NoPort
    /\ pc' = [c \in Users |-> "idle"]
    /\ own' = [c \in Commands |-> NoProc]
    /\ url' = [c \in Commands |-> NoPort]
    /\ tries' = [c \in Commands |-> 0]
    /\ proc' = [q \in Procs |-> Dropped(q)]
    /\ UNCHANGED <<at, config, stale>>

Launch ==
    /\ app = "off"
    /\ app' = "on"
    /\ UNCHANGED <<shown, jobs, system, stale>>

-----------------------------------------------------------------------------
(* The daemon processes and the configuration file *)

(* A process that exits stays to be reaped while somebody has its handle. *)
Held(q) == child = q \/ \E c \in Commands : pc[c] = "setchild" /\ own[c] = q

Ended(q, code) == [proc EXCEPT ![q] = IF Held(q) THEN code ELSE "none"]

(* The daemon loads its configuration and binds its port, or exits when the *)
(* port is taken.                                                           *)
Bind(q) ==
    /\ proc[q] = "boot"
    /\ IF Serving(config)
       THEN proc' = Ended(q, "ended1") /\ UNCHANGED at
       ELSE proc' = [proc EXCEPT ![q] = "up"] /\ at' = [at EXCEPT ![q] = config]
    /\ UNCHANGED <<shown, jobs, config, app, stale>>

(* It exits by itself at any time. *)
Die(q) ==
    /\ Alive(q)
    /\ \E code \in {"ended0", "ended1"} : proc' = Ended(q, code)
    /\ UNCHANGED <<shown, jobs, at, config, app, stale>>

(* save_config_snapshot, or the user's editor *)
SaveConfig ==
    /\ \E p \in Ports \ {config} : config' = p
    /\ UNCHANGED <<shown, jobs, proc, at, app, stale>>

-----------------------------------------------------------------------------
StartStep(c) == FailStart(c) \/ Spawn(c) \/ SetChild(c) \/ SetPort(c) \/ SetRunning(c)
PollStep(c) ==
    \/ Probe(c) \/ Healthy(c) \/ Unhealthy(c)
    \/ PollExit(c) \/ FailPoll(c) \/ ReportExit(c) \/ ClearPort(c)
StopStep(c) == Kill(c) \/ FailKill(c) \/ SetStopped(c) \/ EndStop(c)

Next ==
    \/ \E c \in Commands : BeginStart(c) \/ StartStep(c) \/ PollStep(c)
    \/ \E c \in Users : BeginStop(c) \/ StopStep(c)
    \/ \E q \in Procs : Bind(q) \/ Die(q)
    \/ SaveConfig
    \/ Exit
    \/ Launch

Spec == Init /\ [][Next]_vars

(* Threads that can run do, and a health check ends one way or another.     *)
(* Nobody has to give a command, no daemon has to exit.  The child's mutex  *)
(* is also free again and again for a poll_exit that waits for it.          *)
Fairness ==
    /\ \A c \in Commands : WF_vars(StartStep(c)) /\ WF_vars(PollStep(c)) /\ SF_vars(PollExit(c))
    /\ \A c \in Users : WF_vars(StopStep(c))

FairSpec == Spec /\ Fairness

-----------------------------------------------------------------------------
(* Properties *)

(* No daemon of the app runs without the app having its handle, so Stop and *)
(* Quit reach every one of them: however commands, Quit, exits and polling  *)
(* interleave, unless a poll_exit was overtaken by another start.  (Neither *)
(* does a killed app or a failed kill leave this true; see the constants.)  *)
Supervised ==
    stale \/ \A q \in Procs : Alive(q) => Held(q)

(* The window says "stopped" or "failed", and lets the user start again,    *)
(* only when there is no daemon left to lose.                               *)
RestOnlyWithoutChild ==
    stale \/ (status \in {"stopped", "failed"} => child = NoProc)

(* "running" without a process behind it lasts only until the poll_exit     *)
(* that reaped it has written so.                                           *)
RunningIsWatched ==
    stale \/ (status = "running" /\ child = NoProc =>
                \E c \in Commands : pc[c] \in {"reaped0", "reaped1"})

(* With one command at a time no poll_exit is ever overtaken. *)
NeverStale == ~stale

(* With one command at a time the app keeps the promise of DaemonLifecycle. *)
Lifecycle == INSTANCE DaemonLifecycle WITH alive <- {q \in Procs : Alive(q)}
ImplementsLifecycle == Lifecycle!Spec

(* A start_daemon that began polling returns, whatever its daemon does and  *)
(* whatever a Stop or Quit does to it meanwhile.                            *)
StartReturns == \A c \in Commands : pc[c] = "probe" ~> pc[c] = "idle"

(* A stop never leaves the app in "stopping", where neither Start nor Stop  *)
(* is accepted.                                                             *)
StoppingEnds == status = "stopping" ~> status # "stopping"

(* No start and no stop of the window goes on for ever, whatever the       *)
(* daemon does and in whatever order the mutexes are taken.                *)
CommandsEnd == StartReturns /\ StoppingEnds

(* commands.rs tells the user "Daemon exited before becoming healthy": a    *)
(* start succeeds only if the daemon it started came up.                    *)
StartedIsUp ==
    [][\A c \in Commands : Healthy(c) => proc[own[c]] = "up"]_vars
=============================================================================
