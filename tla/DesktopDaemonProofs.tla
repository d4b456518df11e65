------------------------ MODULE DesktopDaemonProofs ------------------------
(***************************************************************************)
(* What TLAPS proves about DesktopDaemon, for any number of commands of    *)
(* the window, processes, ports and polling rounds.                        *)
(***************************************************************************)
EXTENDS DesktopDaemon, TLAPS

Labels == {"idle", "exit"} \cup StartPcs \cup StopPcs \cup PollPcs

(* The command c goes to l, the others stay. *)
Moves(c, l) == pc' = [pc EXCEPT ![c] = l]

End(c) == IF c = "quit" THEN "exit" ELSE "idle"

LEMMA UserNames ==
    /\ "quit" \in Users
    /\ \A c \in Commands : c \in Users /\ c # "quit"
    /\ \A c \in Users : c \in Commands \/ c = "quit"
BY CommandAssumption DEF Users

LEMMA LabelNames ==
    /\ {"idle", "exit", "spawn", "setchild", "setport", "setrunning", "kill", "setstopped",
        "noport", "probe", "sent", "poll", "reaped0", "reaped1", "clear"} \subseteq Labels
    /\ "spawn" \in StartPcs /\ "setchild" \in StartPcs
    /\ "setport" \in StartPcs /\ "setrunning" \in StartPcs
BY DEF Labels, StartPcs, StopPcs, PollPcs

LEMMA MoveTypes ==
    ASSUME TypeOK, NEW c \in Users, NEW l \in Labels, Moves(c, l)
    PROVE  /\ pc' \in [Users -> Labels]
           /\ \A d \in Users : pc'[d] = IF d = c THEN l ELSE pc[d]
BY DEF TypeOK, Moves, Labels

JobsOK ==
    /\ pc \in [Users -> Labels]
    /\ own \in [Commands -> Procs \cup {NoProc}]
    /\ url \in [Commands -> Ports \cup {NoPort}]
    /\ tries \in [Commands -> 0 .. Polls]

LEMMA MoveJobs ==
    ASSUME TypeOK, NEW c \in Users, NEW l \in Labels, Moves(c, l), UNCHANGED <<own, url, tries>>
    PROVE  JobsOK'
BY MoveTypes DEF TypeOK, JobsOK

(* What the end of a command changes. *)
LEMMA ReturnJobs ==
    ASSUME TypeOK, NEW c \in Users, Return(c)
    PROVE  /\ JobsOK'
           /\ Moves(c, End(c))
           /\ \A d \in Commands \ {c} : own'[d] = own[d]
<1>1. End(c) \in Labels
  BY LabelNames DEF End
<1>2. Moves(c, End(c))
  BY DEF Return, End, Goto, Moves
<1>3. pc' \in [Users -> Labels]
  BY <1>1, <1>2, MoveTypes
<1>4. CASE c = "quit"
  BY <1>2, <1>3, <1>4 DEF Return, TypeOK, JobsOK
<1>5. CASE c # "quit"
  <2>1. 0 \in 0 .. Polls
    BY PollAssumption
  <2>2. /\ own' = [own EXCEPT ![c] = NoProc]
        /\ url' = [url EXCEPT ![c] = NoPort]
        /\ tries' = [tries EXCEPT ![c] = 0]
    BY <1>5 DEF Return
  <2> QED
    BY <1>2, <1>3, <2>1, <2>2 DEF TypeOK, JobsOK
<1> QED
  BY <1>4, <1>5

LEMMA NextRoundJobs ==
    ASSUME TypeOK, NEW c \in Commands, NextRound(c)
    PROVE  /\ JobsOK'
           /\ \E l \in {"probe", "idle"} : Moves(c, l)
           /\ \A d \in Commands \ {c} : own'[d] = own[d]
<1>1. CASE tries[c] > 1
  <2>1. Moves(c, "probe") /\ UNCHANGED <<own, url>> /\ tries' = [tries EXCEPT ![c] = @ - 1]
    BY <1>1 DEF NextRound, Goto, Moves
  <2>2. tries[c] - 1 \in 0 .. Polls
    BY <1>1, PollAssumption DEF TypeOK
  <2>3. pc' \in [Users -> Labels]
    BY <2>1, MoveTypes, LabelNames, UserNames
  <2> QED
    BY <2>1, <2>2, <2>3 DEF TypeOK, JobsOK
<1>2. CASE ~(tries[c] > 1)
  <2>1. Return(c)
    BY <1>2 DEF NextRound
  <2> QED
    BY <2>1, ReturnJobs, UserNames DEF End
<1> QED
  BY <1>1, <1>2

LEMMA DroppedState == ASSUME TypeOK, NEW q \in Procs PROVE Dropped(q) \in ProcStates
BY DEF TypeOK, Dropped, ProcStates

LEMMA EndedProcs ==
    ASSUME TypeOK, NEW q \in Procs, NEW code \in {"ended0", "ended1"}
    PROVE  Ended(q, code) \in [Procs -> ProcStates]
<1>1. (IF Held(q) THEN code ELSE "none") \in ProcStates
  BY DEF ProcStates
<1> QED
  BY <1>1 DEF Ended, TypeOK

-----------------------------------------------------------------------------
LEMMA InitTypes == Init => TypeOK
<1> SUFFICES ASSUME Init PROVE TypeOK
  OBVIOUS
<1>1. 0 \in 0 .. Polls
  BY PollAssumption
<1> QED
  BY <1>1 DEF Init, TypeOK, Statuses, ProcStates

LEMMA TypeStep == TypeOK /\ [Next]_vars => TypeOK'
<1> SUFFICES ASSUME TypeOK, [Next]_vars PROVE TypeOK'
  OBVIOUS
<1> USE UserNames, LabelNames
<1>0. TypeOK' <=>
        /\ JobsOK'
        /\ status' \in Statuses
        /\ child' \in Procs \cup {NoProc}
        /\ port' \in Ports \cup {NoPort}
        /\ proc' \in [Procs -> ProcStates]
        /\ at' \in [Procs -> Ports \cup {NoPort}]
        /\ config' \in Ports
        /\ app' \in {"on", "off"}
        /\ stale' \in BOOLEAN
  BY DEF TypeOK, JobsOK, Labels
<1>00. JobsOK
  BY DEF TypeOK, JobsOK, Labels
<1>1. ASSUME NEW c \in Commands, BeginStart(c) PROVE TypeOK'
  <2>1. JobsOK'
    BY <1>1, MoveJobs DEF BeginStart, Goto, Moves
  <2> QED
    BY <1>0, <1>1, <2>1 DEF BeginStart, system, TypeOK, Statuses
<1>2. ASSUME NEW c \in Commands, FailStart(c) PROVE TypeOK'
  BY <1>0, <1>2, ReturnJobs DEF FailStart, system, TypeOK, Statuses
<1>3. ASSUME NEW c \in Commands, Spawn(c) PROVE TypeOK'
  <2>1. PICK q \in Procs : /\ proc' = [proc EXCEPT ![q] = "boot"]
                           /\ own' = [own EXCEPT ![c] = q]
    BY <1>3 DEF Spawn
  <2>2. pc' \in [Users -> Labels]
    BY <1>3, MoveTypes DEF Spawn, Goto, Moves
  <2>3. /\ own' \in [Commands -> Procs \cup {NoProc}]
        /\ url' \in [Commands -> Ports \cup {NoPort}]
        /\ proc' \in [Procs -> ProcStates]
    BY <1>3, <2>1 DEF Spawn, TypeOK, ProcStates
  <2> QED
    BY <1>0, <1>3, <2>2, <2>3 DEF Spawn, TypeOK, JobsOK, shown
<1>4. ASSUME NEW c \in Commands, SetChild(c) PROVE TypeOK'
  <2>1. JobsOK'
    BY <1>4, MoveJobs DEF SetChild, Goto, Moves
  <2>2. proc' \in [Procs -> ProcStates]
    BY <1>4, DroppedState DEF SetChild, TypeOK
  <2> QED
    BY <1>0, <1>4, <2>1, <2>2 DEF SetChild, TypeOK
<1>5. ASSUME NEW c \in Commands, SetPort(c) PROVE TypeOK'
  <2>1. JobsOK'
    BY <1>5, MoveJobs DEF SetPort, Goto, Moves
  <2> QED
    BY <1>0, <1>5, <2>1 DEF SetPort, system, TypeOK
<1>6. ASSUME NEW c \in Commands, SetRunning(c) PROVE TypeOK'
  <2>1. pc' \in [Users -> Labels]
    BY <1>6, MoveTypes DEF SetRunning, Goto, Moves
  <2>2. tries' \in [Commands -> 0 .. Polls]
    BY <1>6, PollAssumption DEF SetRunning, TypeOK
  <2> QED
    BY <1>0, <1>6, <2>1, <2>2 DEF SetRunning, system, TypeOK, JobsOK, Statuses
<1>7. ASSUME NEW c \in Commands, Probe(c) PROVE TypeOK'
  <2>1. \E l \in Labels : Moves(c, l)
    BY <1>7 DEF Probe, Goto, Moves
  <2>2. pc' \in [Users -> Labels]
    BY <2>1, MoveTypes
  <2>3. url' \in [Commands -> Ports \cup {NoPort}]
    BY <1>7 DEF Probe, TypeOK
  <2> QED
    BY <1>0, <1>7, <2>2, <2>3 DEF Probe, system, shown, TypeOK, JobsOK
<1>8. ASSUME NEW c \in Commands, Healthy(c) PROVE TypeOK'
  BY <1>0, <1>8, ReturnJobs DEF Healthy, system, shown, TypeOK
<1>9. ASSUME NEW c \in Commands, Unhealthy(c) PROVE TypeOK'
  <2>1. JobsOK'
    BY <1>9, MoveJobs DEF Unhealthy, Goto, Moves
  <2> QED
    BY <1>0, <1>9, <2>1 DEF Unhealthy, system, shown, TypeOK
<1>10. ASSUME NEW c \in Commands, PollExit(c) PROVE TypeOK'
  <2>1. CASE child = NoProc \/ Alive(child)
    <3>1. NextRound(c) /\ UNCHANGED <<child, proc>>
      BY <1>10, <2>1 DEF PollExit
    <3> QED
      BY <1>0, <1>10, <3>1, NextRoundJobs DEF PollExit, TypeOK
  <2>2. CASE ~(child = NoProc \/ Alive(child))
    <3>1. /\ child' = NoProc
          /\ proc' = [proc EXCEPT ![child] = "none"]
          /\ UNCHANGED <<own, url, tries>>
          /\ \E l \in Labels : Moves(c, l)
      BY <1>10, <2>2 DEF PollExit, Goto, Moves
    <3>2. JobsOK'
      BY <3>1, MoveJobs
    <3> QED
      BY <1>0, <1>10, <3>1, <3>2 DEF PollExit, TypeOK, ProcStates
  <2> QED
    BY <2>1, <2>2
<1>11. ASSUME NEW c \in Commands, FailPoll(c) PROVE TypeOK'
  BY <1>0, <1>11, ReturnJobs DEF FailPoll, system, shown, TypeOK
<1>12. ASSUME NEW c \in Commands, ReportExit(c) PROVE TypeOK'
  <2>1. JobsOK'
    BY <1>12, MoveJobs DEF ReportExit, Goto, Moves
  <2> QED
    BY <1>0, <1>12, <2>1 DEF ReportExit, system, TypeOK, Statuses
<1>13. ASSUME NEW c \in Commands, ClearPort(c) PROVE TypeOK'
  BY <1>0, <1>13, ReturnJobs DEF ClearPort, system, TypeOK
<1>14. ASSUME NEW c \in Users, BeginStop(c) PROVE TypeOK'
  <2>1. CASE status = "running"
    <3>1. status' = "stopping" /\ Moves(c, "kill") /\ UNCHANGED <<own, url, tries>>
      BY <1>14, <2>1 DEF BeginStop, Goto, Moves
    <3>2. JobsOK'
      BY <3>1, MoveJobs
    <3> QED
      BY <1>0, <1>14, <3>1, <3>2 DEF BeginStop, system, TypeOK, Statuses
  <2>2. CASE status # "running"
    BY <1>0, <1>14, <2>2, ReturnJobs DEF BeginStop, system, TypeOK
  <2> QED
    BY <2>1, <2>2
<1>15. ASSUME NEW c \in Users, Kill(c) PROVE TypeOK'
  <2>1. JobsOK'
    BY <1>15, MoveJobs DEF Kill, Goto, Moves
  <2>2. proc' \in [Procs -> ProcStates]
    BY <1>15 DEF Kill, TypeOK, ProcStates
  <2> QED
    BY <1>0, <1>15, <2>1, <2>2 DEF Kill, TypeOK
<1>16. ASSUME NEW c \in Users, FailKill(c) PROVE TypeOK'
  <2>1. proc' \in [Procs -> ProcStates]
    BY <1>16, DroppedState DEF FailKill, TypeOK
  <2> QED
    BY <1>0, <1>16, <2>1, ReturnJobs DEF FailKill, TypeOK
<1>17. ASSUME NEW c \in Users, SetStopped(c) PROVE TypeOK'
  <2>1. JobsOK'
    BY <1>17, MoveJobs DEF SetStopped, Goto, Moves
  <2> QED
    BY <1>0, <1>17, <2>1 DEF SetStopped, system, TypeOK, Statuses
<1>18. ASSUME NEW c \in Users, EndStop(c) PROVE TypeOK'
  BY <1>0, <1>18, ReturnJobs DEF EndStop, system, TypeOK
<1>19. ASSUME NEW q \in Procs, Bind(q) PROVE TypeOK'
  <2>1. proc' \in [Procs -> ProcStates] /\ at' \in [Procs -> Ports \cup {NoPort}]
    BY <1>19, EndedProcs DEF Bind, TypeOK, ProcStates
  <2> QED
    BY <1>0, <1>00, <1>19, <2>1 DEF Bind, shown, jobs, TypeOK, JobsOK
<1>20. ASSUME NEW q \in Procs, Die(q) PROVE TypeOK'
  <2>1. proc' \in [Procs -> ProcStates]
    BY <1>20, EndedProcs DEF Die
  <2> QED
    BY <1>0, <1>00, <1>20, <2>1 DEF Die, shown, jobs, TypeOK, JobsOK
<1>21. ASSUME SaveConfig PROVE TypeOK'
  BY <1>0, <1>00, <1>21 DEF SaveConfig, shown, jobs, TypeOK, JobsOK
<1>22. ASSUME Exit PROVE TypeOK'
  <2>1. 0 \in 0 .. Polls
    BY PollAssumption
  <2>2. JobsOK'
    BY <1>22, <2>1 DEF Exit, JobsOK
  <2>3. proc' \in [Procs -> ProcStates]
    BY <1>22, DroppedState DEF Exit
  <2> QED
    BY <1>0, <1>22, <2>2, <2>3 DEF Exit, TypeOK, Statuses
<1>23. ASSUME Launch PROVE TypeOK'
  BY <1>0, <1>00, <1>23 DEF Launch, shown, jobs, system, TypeOK, JobsOK
<1>24. ASSUME UNCHANGED vars PROVE TypeOK'
  BY <1>0, <1>00, <1>24 DEF vars, TypeOK, JobsOK
<1> QED
  BY <1>1, <1>2, <1>3, <1>4, <1>5, <1>6, <1>7, <1>8, <1>9, <1>10, <1>11, <1>12, <1>13,
     <1>14, <1>15, <1>16, <1>17, <1>18, <1>19, <1>20, <1>21, <1>22, <1>23, <1>24
  DEF Next, StartStep, PollStep, StopStep

(* The model of the supervisor keeps to its types: every status, handle,    *)
(* port and polling counter the code can hold is one of those TypeOK names. *)
THEOREM DesktopTypes == Spec => []TypeOK
BY InitTypes, TypeStep, PTL DEF Spec
-----------------------------------------------------------------------------
(* Who has the outer mutex, and what a start or a stop may rely on while it *)
(* has it.  None of this survives a poll_exit that was overtaken.           *)
OwnerPcs == StartPcs \cup StopPcs

Mutex ==
    /\ \A c, d \in Users : pc[c] \in OwnerPcs /\ pc[d] \in OwnerPcs => c = d
    /\ pc["quit"] \in {"idle", "exit"} \cup StopPcs

Undisturbed ==
    /\ status \in {"stopped", "failed"} => child = NoProc
    /\ \A c \in Commands : pc[c] \in StartPcs => status = "starting"
    /\ \A c \in Commands : pc[c] \in {"spawn", "setchild"} => child = NoProc
    /\ \A c \in Users : pc[c] \in {"setstopped", "noport"} => child = NoProc

RestInv == TypeOK /\ Mutex /\ (stale \/ Undisturbed)

(* A step inside, out of or outside the mutex takes it from nobody. *)
LEMMA MutexMove ==
    ASSUME TypeOK, Mutex, NEW c \in Users, NEW l \in Labels, Moves(c, l),
           l \in OwnerPcs => pc[c] \in OwnerPcs \/ OuterFree,
           c = "quit" => l \in {"idle", "exit"} \cup StopPcs
    PROVE  Mutex'
<1>1. \A d \in Users : pc'[d] = IF d = c THEN l ELSE pc[d]
  BY MoveTypes
<1>2. OuterFree => \A d \in Users : pc[d] \notin OwnerPcs
  BY UserNames DEF OuterFree, Starting, Stopping, OwnerPcs, Mutex, StartPcs, StopPcs
<1> QED
  BY <1>1, <1>2, UserNames DEF Mutex

(* A command that goes where nothing is relied on disturbs nobody. *)
LEMMA QuietMove ==
    ASSUME TypeOK, Undisturbed, NEW c \in Users, NEW l \in Labels, Moves(c, l),
           l \notin StartPcs, l \notin {"setstopped", "noport"}, UNCHANGED <<status, child>>
    PROVE  Undisturbed'
<1>1. \A d \in Users : pc'[d] = IF d = c THEN l ELSE pc[d]
  BY MoveTypes
<1> QED
  BY <1>1, UserNames, LabelNames DEF Undisturbed

LEMMA QuietReturn ==
    ASSUME RestInv, NEW c \in Users, Return(c), UNCHANGED <<status, child, stale>>
    PROVE  Mutex' /\ (stale' \/ Undisturbed')
<1>1. Moves(c, End(c)) /\ End(c) \in Labels /\ End(c) \notin OwnerPcs
  BY ReturnJobs, LabelNames DEF RestInv, End, OwnerPcs, StartPcs, StopPcs
<1>2. Mutex'
  BY <1>1, MutexMove DEF RestInv, End
<1>3. ASSUME Undisturbed PROVE Undisturbed'
  BY <1>1, <1>3, QuietMove DEF RestInv, OwnerPcs, End
<1> QED
  BY <1>2, <1>3 DEF RestInv

LEMMA InitRest == Init => RestInv
<1> SUFFICES ASSUME Init PROVE RestInv
  OBVIOUS
<1>1. \A c \in Users : pc[c] = "idle"
  BY DEF Init
<1>2. Mutex
  BY <1>1, UserNames DEF Mutex, OwnerPcs, StartPcs, StopPcs
<1>3. Undisturbed
  BY <1>1, UserNames DEF Init, Undisturbed, StartPcs
<1> QED
  BY <1>2, <1>3, InitTypes DEF RestInv

LEMMA RestStep == RestInv /\ [Next]_vars => RestInv'
<1> SUFFICES ASSUME RestInv, [Next]_vars PROVE Mutex' /\ (stale' \/ Undisturbed')
  BY TypeStep DEF RestInv
<1> USE UserNames, LabelNames
<1> DEFINE Goal == Mutex' /\ (stale' \/ Undisturbed')
<1>t. TypeOK /\ Mutex /\ (stale \/ Undisturbed)
  BY DEF RestInv
<1>free. OuterFree => \A d \in Users : pc[d] \notin OwnerPcs
  BY <1>t DEF OuterFree, Starting, Stopping, OwnerPcs, Mutex, StartPcs, StopPcs
<1>1. ASSUME NEW c \in Commands, BeginStart(c) PROVE Goal
  <2>1. Moves(c, "spawn") /\ OuterFree /\ status' = "starting" /\ UNCHANGED <<child, stale>>
        /\ status \in {"stopped", "failed"}
    BY <1>1 DEF BeginStart, Goto, Moves
  <2>2. Mutex'
    BY <1>t, <2>1, MutexMove
  <2>3. \A d \in Users : pc'[d] = IF d = c THEN "spawn" ELSE pc[d]
    BY <1>t, <2>1, MoveTypes
  <2>4. ASSUME Undisturbed PROVE Undisturbed'
    BY <1>free, <2>1, <2>3, <2>4 DEF Undisturbed, OwnerPcs, StartPcs, StopPcs
  <2> QED
    BY <1>t, <2>1, <2>2, <2>4
<1>2. ASSUME NEW c \in Commands, FailStart(c) PROVE Goal
  <2>1. Moves(c, "idle") /\ status' = "failed" /\ UNCHANGED <<child, stale>> /\ pc[c] = "spawn"
    BY <1>t, <1>2, ReturnJobs DEF FailStart, End
  <2>2. Mutex'
    BY <1>t, <2>1, MutexMove DEF OwnerPcs, StartPcs, StopPcs
  <2>3. \A d \in Users : pc'[d] = IF d = c THEN "idle" ELSE pc[d]
    BY <1>t, <2>1, MoveTypes
  <2>4. \A d \in Users : pc'[d] \notin OwnerPcs
    BY <1>t, <2>1, <2>3 DEF Mutex, OwnerPcs, StartPcs, StopPcs
  <2>5. ASSUME Undisturbed PROVE Undisturbed'
    BY <2>1, <2>4, <2>5 DEF Undisturbed, OwnerPcs, StartPcs, StopPcs
  <2> QED
    BY <1>t, <2>1, <2>2, <2>5
<1>3. ASSUME NEW c \in Commands, Spawn(c) PROVE Goal
  <2>1. Moves(c, "setchild") /\ UNCHANGED <<status, child, stale>> /\ pc[c] = "spawn"
    BY <1>3 DEF Spawn, shown, Goto, Moves
  <2>2. Mutex'
    BY <1>t, <2>1, MutexMove DEF OwnerPcs
  <2>3. \A d \in Users : pc'[d] = IF d = c THEN "setchild" ELSE pc[d]
    BY <1>t, <2>1, MoveTypes
  <2>4. ASSUME Undisturbed PROVE Undisturbed'
    BY <2>1, <2>3, <2>4 DEF Undisturbed, StartPcs
  <2> QED
    BY <1>t, <2>1, <2>2, <2>4
<1>4. ASSUME NEW c \in Commands, SetChild(c) PROVE Goal
  <2>1. Moves(c, "setport") /\ UNCHANGED <<status, stale>> /\ pc[c] = "setchild"
    BY <1>4 DEF SetChild, Goto, Moves
  <2>2. Mutex'
    BY <1>t, <2>1, MutexMove DEF OwnerPcs
  <2>3. \A d \in Users : pc'[d] = IF d = c THEN "setport" ELSE pc[d]
    BY <1>t, <2>1, MoveTypes
  <2>4. \A d \in Users : d # c => pc[d] \notin OwnerPcs
    BY <1>t, <2>1 DEF Mutex, OwnerPcs
  <2>5. ASSUME Undisturbed PROVE Undisturbed'
    BY <2>1, <2>3, <2>4, <2>5 DEF Undisturbed, OwnerPcs, StartPcs, StopPcs
  <2> QED
    BY <1>t, <2>1, <2>2, <2>5
<1>5. ASSUME NEW c \in Commands, SetPort(c) PROVE Goal
  <2>1. Moves(c, "setrunning") /\ UNCHANGED <<status, child, stale>> /\ pc[c] = "setport"
    BY <1>5 DEF SetPort, Goto, Moves
  <2>2. Mutex'
    BY <1>t, <2>1, MutexMove DEF OwnerPcs
  <2>3. \A d \in Users : pc'[d] = IF d = c THEN "setrunning" ELSE pc[d]
    BY <1>t, <2>1, MoveTypes
  <2>4. ASSUME Undisturbed PROVE Undisturbed'
    BY <2>1, <2>3, <2>4 DEF Undisturbed, StartPcs
  <2> QED
    BY <1>t, <2>1, <2>2, <2>4
<1>6. ASSUME NEW c \in Commands, SetRunning(c) PROVE Goal
  <2>1. Moves(c, "probe") /\ status' = "running" /\ UNCHANGED <<child, stale>> /\ pc[c] = "setrunning"
    BY <1>6 DEF SetRunning, Goto, Moves
  <2>2. Mutex'
    BY <1>t, <2>1, MutexMove DEF OwnerPcs, StartPcs, StopPcs
  <2>3. \A d \in Users : pc'[d] = IF d = c THEN "probe" ELSE pc[d]
    BY <1>t, <2>1, MoveTypes
  <2>4. \A d \in Users : pc'[d] \notin OwnerPcs
    BY <1>t, <2>1, <2>3 DEF Mutex, OwnerPcs, StartPcs, StopPcs
  <2>5. ASSUME Undisturbed PROVE Undisturbed'
    BY <2>1, <2>4, <2>5 DEF Undisturbed, OwnerPcs, StartPcs, StopPcs
  <2> QED
    BY <1>t, <2>1, <2>2, <2>5
<1>quiet. ASSUME NEW c \in Commands, NEW l \in {"idle", "probe", "sent", "poll"}, Moves(c, l),
                 UNCHANGED <<status, child, stale>>
          PROVE  Goal
  <2>1. l \in Labels /\ l \notin OwnerPcs
    BY DEF OwnerPcs, StartPcs, StopPcs
  <2>2. Mutex'
    BY <1>t, <1>quiet, <2>1, MutexMove
  <2>3. ASSUME Undisturbed PROVE Undisturbed'
    BY <1>t, <1>quiet, <2>1, <2>3, QuietMove DEF OwnerPcs
  <2> QED
    BY <1>t, <1>quiet, <2>2, <2>3
<1>7. ASSUME NEW c \in Commands, Probe(c) PROVE Goal
  <2>1. UNCHANGED <<status, child, stale>> /\ (Moves(c, "poll") \/ Moves(c, "sent"))
    BY <1>7 DEF Probe, Goto, Moves, shown
  <2> QED
    BY <1>quiet, <2>1
<1>8. ASSUME NEW c \in Commands, Healthy(c) PROVE Goal
  BY <1>8, QuietReturn DEF Healthy, shown
<1>9. ASSUME NEW c \in Commands, Unhealthy(c) PROVE Goal
  <2>1. UNCHANGED <<status, child, stale>> /\ Moves(c, "poll")
    BY <1>9 DEF Unhealthy, Goto, Moves, shown
  <2> QED
    BY <1>quiet, <2>1
<1>10. ASSUME NEW c \in Commands, PollExit(c) PROVE Goal
  <2>1. CASE child = NoProc \/ Alive(child)
    <3>1. NextRound(c) /\ UNCHANGED <<status, child, stale>>
      BY <1>10, <2>1 DEF PollExit
    <3>2. Moves(c, "probe") \/ Moves(c, "idle")
      BY <1>t, <3>1, NextRoundJobs
    <3> QED
      BY <1>quiet, <3>1, <3>2
  <2>2. CASE ~(child = NoProc \/ Alive(child))
    <3>1. PICK l \in {"reaped0", "reaped1"} :
             Moves(c, l) /\ child' = NoProc /\ UNCHANGED <<status, stale>>
      BY <1>10, <2>2 DEF PollExit, Goto, Moves
    <3>2. l \in Labels /\ l \notin OwnerPcs
      BY DEF OwnerPcs, StartPcs, StopPcs
    <3>3. Mutex'
      BY <1>t, <3>1, <3>2, MutexMove
    <3>4. \A d \in Users : pc'[d] = IF d = c THEN l ELSE pc[d]
      BY <1>t, <3>1, <3>2, MoveTypes
    <3>5. ASSUME Undisturbed PROVE Undisturbed'
      BY <3>1, <3>2, <3>4, <3>5 DEF Undisturbed, OwnerPcs
    <3> QED
      BY <1>t, <3>1, <3>3, <3>5
  <2> QED
    BY <2>1, <2>2
<1>11. ASSUME NEW c \in Commands, FailPoll(c) PROVE Goal
  BY <1>11, QuietReturn DEF FailPoll, shown
<1>12. ASSUME NEW c \in Commands, ReportExit(c) PROVE Goal
  <2>1. Moves(c, "clear") /\ UNCHANGED child /\ stale' = (stale \/ Overtaken)
    BY <1>12 DEF ReportExit, Goto, Moves
  <2>2. "clear" \notin OwnerPcs
    BY DEF OwnerPcs, StartPcs, StopPcs
  <2>3. Mutex'
    BY <1>t, <2>1, <2>2, MutexMove
  <2>4. \A d \in Users : pc'[d] = IF d = c THEN "clear" ELSE pc[d]
    BY <1>t, <2>1, MoveTypes
  <2>5. ASSUME ~stale' PROVE Undisturbed'
    <3>1. child = NoProc /\ Starting = {}
      BY <2>1, <2>5 DEF Overtaken
    <3>2. \A d \in Commands : pc'[d] \notin StartPcs
      BY <2>2, <2>4, <3>1 DEF Starting, OwnerPcs
    <3> QED
      BY <2>1, <3>1, <3>2 DEF Undisturbed
  <2> QED
    BY <2>3, <2>5
<1>13. ASSUME NEW c \in Commands, ClearPort(c) PROVE Goal
  <2>1. Moves(c, "idle") /\ UNCHANGED <<status, child>> /\ stale' = (stale \/ Overtaken)
    BY <1>t, <1>13, ReturnJobs DEF ClearPort, End
  <2>2. "idle" \notin OwnerPcs
    BY DEF OwnerPcs, StartPcs, StopPcs
  <2>3. Mutex'
    BY <1>t, <2>1, <2>2, MutexMove
  <2>4. ASSUME Undisturbed PROVE Undisturbed'
    BY <1>t, <2>1, <2>2, <2>4, QuietMove DEF OwnerPcs
  <2>5. ASSUME ~stale' PROVE ~stale
    BY <2>1, <2>5
  <2> QED
    BY <1>t, <2>3, <2>4, <2>5
<1>14. ASSUME NEW c \in Users, BeginStop(c) PROVE Goal
  <2>1. CASE status = "running"
    <3>1. Moves(c, "kill") /\ OuterFree /\ status' = "stopping" /\ UNCHANGED <<child, stale>>
      BY <1>14, <2>1 DEF BeginStop, Goto, Moves
    <3>2. Mutex'
      BY <1>t, <3>1, MutexMove DEF StopPcs
    <3>3. \A d \in Users : pc'[d] = IF d = c THEN "kill" ELSE pc[d]
      BY <1>t, <3>1, MoveTypes
    <3>4. ASSUME Undisturbed PROVE Undisturbed'
      BY <1>free, <3>1, <3>3, <3>4 DEF Undisturbed, OwnerPcs, StartPcs, StopPcs
    <3> QED
      BY <1>t, <3>1, <3>2, <3>4
  <2>2. CASE status # "running"
    BY <1>14, <2>2, QuietReturn DEF BeginStop
  <2> QED
    BY <2>1, <2>2
<1>15. ASSUME NEW c \in Users, Kill(c) PROVE Goal
  <2>1. Moves(c, "setstopped") /\ child' = NoProc /\ UNCHANGED <<status, stale>> /\ pc[c] = "kill"
    BY <1>15 DEF Kill, Goto, Moves
  <2>2. Mutex'
    BY <1>t, <2>1, MutexMove DEF OwnerPcs, StopPcs
  <2>3. \A d \in Users : pc'[d] = IF d = c THEN "setstopped" ELSE pc[d]
    BY <1>t, <2>1, MoveTypes
  <2>4. ASSUME Undisturbed PROVE Undisturbed'
    BY <2>1, <2>3, <2>4 DEF Undisturbed, StartPcs
  <2> QED
    BY <1>t, <2>1, <2>2, <2>4
<1>16. ASSUME NEW c \in Users, FailKill(c) PROVE Goal
  <2>1. Moves(c, End(c)) /\ child' = NoProc /\ UNCHANGED <<status, stale>>
    BY <1>t, <1>16, ReturnJobs DEF FailKill
  <2>2. End(c) \in {"idle", "exit"} /\ End(c) \notin OwnerPcs
    BY DEF End, OwnerPcs, StartPcs, StopPcs
  <2>3. Mutex'
    BY <1>t, <2>1, <2>2, MutexMove
  <2>4. \A d \in Users : pc'[d] = IF d = c THEN End(c) ELSE pc[d]
    BY <1>t, <2>1, <2>2, MoveTypes
  <2>5. ASSUME Undisturbed PROVE Undisturbed'
    BY <2>1, <2>2, <2>4, <2>5 DEF Undisturbed, OwnerPcs
  <2> QED
    BY <1>t, <2>1, <2>3, <2>5
<1>17. ASSUME NEW c \in Users, SetStopped(c) PROVE Goal
  <2>1. Moves(c, "noport") /\ status' = "stopped" /\ UNCHANGED <<child, stale>> /\ pc[c] = "setstopped"
    BY <1>17 DEF SetStopped, Goto, Moves
  <2>2. Mutex'
    BY <1>t, <2>1, MutexMove DEF OwnerPcs, StopPcs
  <2>3. \A d \in Users : pc'[d] = IF d = c THEN "noport" ELSE pc[d]
    BY <1>t, <2>1, MoveTypes
  <2>4. \A d \in Users : d # c => pc[d] \notin OwnerPcs
    BY <1>t, <2>1 DEF Mutex, OwnerPcs, StopPcs
  <2>5. ASSUME Undisturbed PROVE Undisturbed'
    BY <2>1, <2>3, <2>4, <2>5 DEF Undisturbed, OwnerPcs, StartPcs
  <2> QED
    BY <1>t, <2>1, <2>2, <2>5
<1>18. ASSUME NEW c \in Users, EndStop(c) PROVE Goal
  BY <1>18, QuietReturn DEF EndStop
<1>same. ASSUME UNCHANGED <<status, child, pc, stale>> PROVE Goal
  BY <1>t, <1>same DEF Mutex, Undisturbed
<1>19. ASSUME NEW q \in Procs, Bind(q) PROVE Goal
  BY <1>19, <1>same DEF Bind, shown, jobs
<1>20. ASSUME NEW q \in Procs, Die(q) PROVE Goal
  BY <1>20, <1>same DEF Die, shown, jobs
<1>21. ASSUME SaveConfig PROVE Goal
  BY <1>21, <1>same DEF SaveConfig, shown, jobs
<1>22. ASSUME Exit PROVE Goal
  <2>1. child' = NoProc /\ \A d \in Users : pc'[d] = "idle"
    BY <1>22 DEF Exit
  <2> QED
    BY <2>1 DEF Mutex, Undisturbed, OwnerPcs, StartPcs, StopPcs
<1>23. ASSUME Launch PROVE Goal
  BY <1>23, <1>same DEF Launch, shown, jobs
<1>24. ASSUME UNCHANGED vars PROVE Goal
  BY <1>24, <1>same DEF vars
<1> QED
  BY <1>1, <1>2, <1>3, <1>4, <1>5, <1>6, <1>7, <1>8, <1>9, <1>10, <1>11, <1>12, <1>13,
     <1>14, <1>15, <1>16, <1>17, <1>18, <1>19, <1>20, <1>21, <1>22, <1>23, <1>24
  DEF Next, StartStep, PollStep, StopStep

(* The window offers a start only when there is no daemon left to lose, for *)
(* any number of commands, with failing calls, crashes and late starts,     *)
(* unless a poll_exit was overtaken by a later start.                       *)
THEOREM RestIsEmpty == Spec => []RestOnlyWithoutChild
<1>1. RestInv => RestOnlyWithoutChild
  BY DEF RestInv, Undisturbed, RestOnlyWithoutChild
<1> QED
  BY <1>1, InitRest, RestStep, PTL DEF Spec
-----------------------------------------------------------------------------
(* With system calls that work, an app that is not killed and no start      *)
(* after Quit: who looks after what.  A status that refuses Start and Stop  *)
(* belongs to a command that will end it, and a Quit that is done leaves    *)
(* nothing behind.                                                          *)
Reliable == ~LateStarts /\ ~CallsFail /\ ~Crashes

Ending == {c \in Users : pc[c] \in {"kill", "setstopped"}}

Attended ==
    /\ \A q \in Procs : Alive(q) => Held(q)
    /\ status = "starting" => Starting # {}
    /\ status = "stopping" => Ending # {}
    /\ pc["quit"] = "exit" => child = NoProc /\ Starting = {}

SupervisionInv == RestInv /\ (stale \/ Attended)

(* A command that is in no start and gets into none, and that ends no stop, *)
(* changes nobody's duties.                                                 *)
LEMMA CalmMove ==
    ASSUME TypeOK, Attended, NEW c \in Users, NEW l \in Labels, Moves(c, l),
           pc[c] \notin StartPcs \cup {"kill", "setstopped"}, l \notin StartPcs,
           c = "quit" /\ l = "exit" => child = NoProc /\ Starting = {},
           \A d \in Commands \ {c} : own'[d] = own[d],
           UNCHANGED <<status, child, proc>>
    PROVE  Attended'
<1> USE UserNames, LabelNames
<1>1. \A d \in Users : pc'[d] = IF d = c THEN l ELSE pc[d]
  BY MoveTypes
<1>2. \A q \in Procs : Held(q) => Held(q)'
  BY <1>1 DEF Held
<1>3. Starting' = Starting
  BY <1>1 DEF Starting
<1>4. Ending \subseteq Ending'
  BY <1>1 DEF Ending
<1>5. \A q \in Procs : Alive(q)' => Alive(q)
  BY DEF Alive
<1> QED
  BY <1>1, <1>2, <1>3, <1>4, <1>5 DEF Attended

LEMMA StaleStays == TypeOK /\ [Next]_vars /\ stale => stale'
BY DEF Next, vars, BeginStart, StartStep, PollStep, StopStep, FailStart, Spawn, SetChild,
       SetPort, SetRunning, Probe, Healthy, Unhealthy, PollExit, FailPoll, ReportExit, ClearPort,
       BeginStop, Kill, FailKill, SetStopped, EndStop, Bind, Die, SaveConfig, Exit, Launch

LEMMA InitAttended == Init => SupervisionInv
<1> SUFFICES ASSUME Init PROVE Attended
  BY InitRest DEF SupervisionInv
<1> QED
  BY UserNames DEF Init, Attended, Alive

LEMMA AttendedStep == Reliable /\ SupervisionInv /\ [Next]_vars => SupervisionInv'
<1> SUFFICES ASSUME Reliable, SupervisionInv, ~stale', [Next]_vars PROVE Attended'
  BY RestStep DEF SupervisionInv
<1> USE UserNames, LabelNames
<1>t. /\ TypeOK /\ Mutex
      /\ TypeOK'
  BY TypeStep DEF SupervisionInv, RestInv
<1>free. OuterFree => Starting = {} /\ Ending = {}
  BY DEF OuterFree, Stopping, Ending, StopPcs
<1>1. ASSUME ~stale PROVE Undisturbed /\ Attended
  BY <1>1 DEF SupervisionInv, RestInv
<1>2. ~stale
  BY <1>t, StaleStays
<1>u. Undisturbed /\ Attended
  BY <1>1, <1>2
<1>3. ASSUME NEW c \in Commands, BeginStart(c) PROVE Attended'
  <2>1. /\ Moves(c, "spawn") /\ pc[c] = "idle" /\ pc["quit"] # "exit"
        /\ status' = "starting" /\ UNCHANGED <<child, own, proc>>
    BY <1>3 DEF BeginStart, Goto, Moves, system, Reliable
  <2>2. \A d \in Users : pc'[d] = IF d = c THEN "spawn" ELSE pc[d]
    BY <1>t, <2>1, MoveTypes
  <2>3. Starting' # {}
    BY <2>2 DEF Starting
  <2>4. \A q \in Procs : Held(q) => Held(q)'
    BY <2>1, <2>2 DEF Held
  <2> QED
    BY <1>u, <2>1, <2>2, <2>3, <2>4 DEF Attended, Alive
<1>4. ASSUME NEW c \in Commands, FailStart(c) PROVE Attended'
  <2>1. /\ Moves(c, "idle") /\ pc[c] = "spawn" /\ status' = "failed" /\ UNCHANGED <<child, proc>>
        /\ \A d \in Commands \ {c} : own'[d] = own[d]
    BY <1>4, <1>t, ReturnJobs DEF FailStart, End, system
  <2>2. \A d \in Users : pc'[d] = IF d = c THEN "idle" ELSE pc[d]
    BY <1>t, <2>1, MoveTypes
  <2>3. \A q \in Procs : Held(q) => Held(q)'
    BY <2>1, <2>2 DEF Held
  <2>4. pc'["quit"] = "exit" => child' = NoProc /\ Starting' = {}
    BY <1>u, <2>1, <2>2 DEF Attended, Starting
  <2> QED
    BY <1>u, <2>1, <2>3, <2>4 DEF Attended, Alive
<1>5. ASSUME NEW c \in Commands, Spawn(c) PROVE Attended'
  <2>1. PICK q \in Procs : /\ proc' = [proc EXCEPT ![q] = "boot"]
                           /\ own' = [own EXCEPT ![c] = q]
    BY <1>5 DEF Spawn
  <2>2. Moves(c, "setchild") /\ pc[c] = "spawn" /\ UNCHANGED <<status, child>>
    BY <1>5 DEF Spawn, Goto, Moves, shown
  <2>3. \A d \in Users : pc'[d] = IF d = c THEN "setchild" ELSE pc[d]
    BY <1>t, <2>2, MoveTypes
  <2>4. own'[c] = q /\ \A d \in Commands \ {c} : own'[d] = own[d]
    BY <1>t, <2>1 DEF TypeOK
  <2>5. \A r \in Procs : Held(r) \/ r = q => Held(r)'
    BY <2>2, <2>3, <2>4 DEF Held
  <2>6. \A r \in Procs : Alive(r)' => Alive(r) \/ r = q
    BY <1>t, <2>1 DEF TypeOK, Alive
  <2>7. Starting' = Starting /\ Ending' = Ending
    BY <2>2, <2>3 DEF Starting, Ending
  <2> QED
    BY <1>u, <2>2, <2>3, <2>5, <2>6, <2>7 DEF Attended
<1>6. ASSUME NEW c \in Commands, SetChild(c) PROVE Attended'
  <2>1. Moves(c, "setport") /\ pc[c] = "setchild" /\ child' = own[c] /\ UNCHANGED <<status, own>>
    BY <1>6 DEF SetChild, Goto, Moves
  <2>2. child = NoProc /\ UNCHANGED proc
    BY <1>u, <1>6, <2>1 DEF SetChild, Undisturbed
  <2>3. \A d \in Users : pc'[d] = IF d = c THEN "setport" ELSE pc[d]
    BY <1>t, <2>1, MoveTypes
  <2>4. \A d \in Commands : pc[d] = "setchild" => d = c
    BY <1>t, <2>1 DEF Mutex, OwnerPcs
  <2>5. \A r \in Procs : Held(r) => Held(r)'
    BY <2>1, <2>2, <2>4, ProcAssumption DEF Held
  <2>6. Starting' = Starting /\ Ending' = Ending
    BY <2>1, <2>3 DEF Starting, Ending
  <2>7. pc["quit"] # "exit"
    BY <1>u, <2>1 DEF Attended, Starting
  <2> QED
    BY <1>u, <2>1, <2>2, <2>3, <2>5, <2>6, <2>7 DEF Attended, Alive
<1>7. ASSUME NEW c \in Commands, SetPort(c) PROVE Attended'
  <2>1. Moves(c, "setrunning") /\ pc[c] = "setport" /\ UNCHANGED <<status, child, own, proc>>
    BY <1>7 DEF SetPort, Goto, Moves, system
  <2>2. \A d \in Users : pc'[d] = IF d = c THEN "setrunning" ELSE pc[d]
    BY <1>t, <2>1, MoveTypes
  <2>3. \A r \in Procs : Held(r) => Held(r)'
    BY <2>1, <2>2 DEF Held
  <2>4. Starting' = Starting /\ Ending' = Ending
    BY <2>1, <2>2 DEF Starting, Ending
  <2> QED
    BY <1>u, <2>1, <2>2, <2>3, <2>4 DEF Attended, Alive
<1>8. ASSUME NEW c \in Commands, SetRunning(c) PROVE Attended'
  <2>1. /\ Moves(c, "probe") /\ pc[c] = "setrunning" /\ status' = "running"
        /\ UNCHANGED <<child, own, proc>>
    BY <1>8 DEF SetRunning, Goto, Moves, system
  <2>2. \A d \in Users : pc'[d] = IF d = c THEN "probe" ELSE pc[d]
    BY <1>t, <2>1, MoveTypes
  <2>3. \A r \in Procs : Held(r) => Held(r)'
    BY <2>1, <2>2 DEF Held
  <2>4. pc["quit"] # "exit"
    BY <1>u, <2>1 DEF Attended, Starting
  <2> QED
    BY <1>u, <2>1, <2>2, <2>3, <2>4 DEF Attended, Alive
<1>calm. ASSUME NEW c \in Commands, NEW l \in {"idle", "probe", "sent", "poll"}, Moves(c, l),
                pc[c] \in PollPcs, \A d \in Commands \ {c} : own'[d] = own[d],
                UNCHANGED <<status, child, proc>>
         PROVE  Attended'
  <2>1. l \in Labels /\ l \notin StartPcs /\ pc[c] \notin StartPcs \cup {"kill", "setstopped"}
    BY <1>calm DEF StartPcs, PollPcs
  <2> QED
    BY <1>t, <1>u, <1>calm, <2>1, CalmMove
<1>9. ASSUME NEW c \in Commands, Probe(c) PROVE Attended'
  <2>1. /\ UNCHANGED <<status, child, proc, own>> /\ pc[c] \in PollPcs
        /\ Moves(c, "poll") \/ Moves(c, "sent")
    BY <1>9 DEF Probe, Goto, Moves, shown, system, PollPcs
  <2> QED
    BY <1>calm, <2>1
<1>10. ASSUME NEW c \in Commands, Healthy(c) PROVE Attended'
  <2>1. /\ UNCHANGED <<status, child, proc>> /\ pc[c] \in PollPcs
        /\ Moves(c, "idle") /\ \A d \in Commands \ {c} : own'[d] = own[d]
    BY <1>t, <1>10, ReturnJobs DEF Healthy, shown, system, PollPcs, End
  <2> QED
    BY <1>calm, <2>1
<1>11. ASSUME NEW c \in Commands, Unhealthy(c) PROVE Attended'
  <2>1. UNCHANGED <<status, child, proc, own>> /\ pc[c] \in PollPcs /\ Moves(c, "poll")
    BY <1>11 DEF Unhealthy, Goto, Moves, shown, system, PollPcs
  <2> QED
    BY <1>calm, <2>1
<1>12. ASSUME NEW c \in Commands, PollExit(c) PROVE Attended'
  <2>1. CASE child = NoProc \/ Alive(child)
    <3>1. NextRound(c) /\ UNCHANGED <<status, child, proc>> /\ pc[c] \in PollPcs
      BY <1>12, <2>1 DEF PollExit, PollPcs
    <3>2. /\ \E l \in {"probe", "idle"} : Moves(c, l)
          /\ \A d \in Commands \ {c} : own'[d] = own[d]
      BY <1>t, <3>1, NextRoundJobs
    <3> QED
      BY <1>calm, <3>1, <3>2
  <2>2. CASE ~(child = NoProc \/ Alive(child))
    <3>1. PICK l \in {"reaped0", "reaped1"} :
             Moves(c, l) /\ child' = NoProc /\ proc' = [proc EXCEPT ![child] = "none"]
             /\ pc[c] = "poll" /\ UNCHANGED <<status, own>>
      BY <1>12, <2>2 DEF PollExit, Goto, Moves
    <3>2. l \in Labels /\ l \notin StartPcs
      BY DEF StartPcs
    <3>3. \A d \in Users : pc'[d] = IF d = c THEN l ELSE pc[d]
      BY <1>t, <3>1, <3>2, MoveTypes
    <3>4. \A r \in Procs : Alive(r)' => Alive(r) /\ r # child
      BY <1>t, <3>1 DEF TypeOK, Alive
    <3>5. \A r \in Procs : Held(r) /\ r # child => Held(r)'
      BY <3>1, <3>3 DEF Held
    <3>6. Starting' = Starting /\ Ending' = Ending
      BY <3>1, <3>2, <3>3 DEF Starting, Ending, StartPcs
    <3> QED
      BY <1>u, <3>1, <3>3, <3>4, <3>5, <3>6 DEF Attended
  <2> QED
    BY <2>1, <2>2
<1>13. ASSUME NEW c \in Commands, FailPoll(c) PROVE Attended'
  BY <1>13 DEF FailPoll, Reliable
<1>14. ASSUME NEW c \in Commands, ReportExit(c) PROVE Attended'
  <2>1. /\ Moves(c, "clear") /\ pc[c] \in {"reaped0", "reaped1"} /\ status' \in {"stopped", "failed"}
        /\ UNCHANGED <<child, own, proc>>
    BY <1>14 DEF ReportExit, Goto, Moves, system
  <2>2. \A d \in Users : pc'[d] = IF d = c THEN "clear" ELSE pc[d]
    BY <1>t, <2>1, MoveTypes
  <2>3. \A r \in Procs : Held(r) => Held(r)'
    BY <2>1, <2>2 DEF Held
  <2>4. Starting' = Starting
    BY <2>1, <2>2 DEF Starting, StartPcs
  <2> QED
    BY <1>u, <2>1, <2>2, <2>3, <2>4 DEF Attended, Alive
<1>15. ASSUME NEW c \in Commands, ClearPort(c) PROVE Attended'
  <2>1. /\ UNCHANGED <<status, child, proc>> /\ pc[c] \in PollPcs
        /\ Moves(c, "idle") /\ \A d \in Commands \ {c} : own'[d] = own[d]
    BY <1>t, <1>15, ReturnJobs DEF ClearPort, system, PollPcs, End
  <2> QED
    BY <1>calm, <2>1
<1>16. ASSUME NEW c \in Users, BeginStop(c) PROVE Attended'
  <2>0. Starting = {} /\ Ending = {} /\ pc[c] = "idle"
    BY <1>16, <1>free DEF BeginStop
  <2>1. CASE status = "running"
    <3>1. Moves(c, "kill") /\ status' = "stopping" /\ UNCHANGED <<child, own, proc>>
      BY <1>16, <2>1 DEF BeginStop, Goto, Moves, system
    <3>2. \A d \in Users : pc'[d] = IF d = c THEN "kill" ELSE pc[d]
      BY <1>t, <3>1, MoveTypes
    <3>3. \A r \in Procs : Held(r) => Held(r)'
      BY <2>0, <3>1, <3>2 DEF Held
    <3>4. c \in Ending'
      BY <3>2 DEF Ending
    <3>5. Starting' = {}
      BY <2>0, <3>2 DEF Starting, StartPcs
    <3> QED
      BY <1>u, <3>1, <3>2, <3>3, <3>4, <3>5 DEF Attended, Alive
  <2>2. CASE status # "running"
    <3>1. /\ Moves(c, End(c)) /\ \A d \in Commands \ {c} : own'[d] = own[d]
          /\ UNCHANGED <<status, child, proc>>
      BY <1>t, <1>16, <2>2, ReturnJobs DEF BeginStop, system
    <3>2. status \in {"stopped", "failed"}
      BY <1>t, <1>u, <2>0, <2>2 DEF Attended, TypeOK, Statuses
    <3>3. child = NoProc
      BY <1>u, <3>2 DEF Undisturbed
    <3>4. End(c) \in Labels /\ End(c) \notin StartPcs /\ pc[c] \notin StartPcs \cup {"kill", "setstopped"}
      BY <2>0 DEF End, StartPcs
    <3> QED
      BY <1>t, <1>u, <2>0, <3>1, <3>3, <3>4, CalmMove
  <2> QED
    BY <2>1, <2>2
<1>17. ASSUME NEW c \in Users, Kill(c) PROVE Attended'
  <2>1. /\ Moves(c, "setstopped") /\ pc[c] = "kill" /\ child' = NoProc /\ UNCHANGED <<status, own>>
        /\ proc' = IF child = NoProc THEN proc ELSE [proc EXCEPT ![child] = "none"]
    BY <1>17 DEF Kill, Goto, Moves
  <2>2. \A d \in Users : pc'[d] = IF d = c THEN "setstopped" ELSE pc[d]
    BY <1>t, <2>1, MoveTypes
  <2>3. \A r \in Procs : Alive(r)' => Alive(r) /\ r # child
    BY <1>t, <2>1, ProcAssumption DEF TypeOK, Alive
  <2>4. \A r \in Procs : Held(r) => r = child
    BY <1>t, <2>1 DEF Held, Mutex, OwnerPcs, StopPcs
  <2>5. Starting' = Starting /\ c \in Ending'
    BY <2>1, <2>2 DEF Starting, Ending, StartPcs
  <2> QED
    BY <1>u, <2>1, <2>2, <2>3, <2>4, <2>5 DEF Attended
<1>18. ASSUME NEW c \in Users, FailKill(c) PROVE Attended'
  BY <1>18 DEF FailKill, Reliable
<1>19. ASSUME NEW c \in Users, SetStopped(c) PROVE Attended'
  <2>1. /\ Moves(c, "noport") /\ pc[c] = "setstopped" /\ status' = "stopped"
        /\ UNCHANGED <<child, own, proc>>
    BY <1>19 DEF SetStopped, Goto, Moves, system
  <2>2. \A d \in Users : pc'[d] = IF d = c THEN "noport" ELSE pc[d]
    BY <1>t, <2>1, MoveTypes
  <2>3. \A r \in Procs : Held(r) => Held(r)'
    BY <2>1, <2>2 DEF Held
  <2>4. Starting' = Starting
    BY <2>1, <2>2 DEF Starting, StartPcs
  <2> QED
    BY <1>u, <2>1, <2>2, <2>3, <2>4 DEF Attended, Alive
<1>20. ASSUME NEW c \in Users, EndStop(c) PROVE Attended'
  <2>1. /\ Moves(c, End(c)) /\ pc[c] = "noport" /\ \A d \in Commands \ {c} : own'[d] = own[d]
        /\ UNCHANGED <<status, child, proc>>
    BY <1>t, <1>20, ReturnJobs DEF EndStop, system
  <2>2. child = NoProc /\ Starting = {}
    BY <1>t, <1>u, <2>1 DEF Undisturbed, Mutex, Starting, OwnerPcs, StartPcs, StopPcs
  <2>3. End(c) \in Labels /\ End(c) \notin StartPcs /\ pc[c] \notin StartPcs \cup {"kill", "setstopped"}
    BY <2>1 DEF End, StartPcs
  <2> QED
    BY <1>t, <1>u, <2>1, <2>2, <2>3, CalmMove
<1>same. ASSUME UNCHANGED <<status, child, pc, own>>, \A q \in Procs : Alive(q)' => Alive(q)
         PROVE  Attended'
  BY <1>u, <1>same DEF Attended, Held, Starting, Ending
<1>21. ASSUME NEW q \in Procs, Bind(q) PROVE Attended'
  BY <1>t, <1>21, <1>same DEF Bind, shown, jobs, Ended, Alive, TypeOK
<1>22. ASSUME NEW q \in Procs, Die(q) PROVE Attended'
  BY <1>t, <1>22, <1>same DEF Die, shown, jobs, Ended, Alive, TypeOK
<1>23. ASSUME SaveConfig PROVE Attended'
  BY <1>23, <1>same DEF SaveConfig, shown, jobs, Alive
<1>24. ASSUME Exit PROVE Attended'
  <2>1. child = NoProc /\ Starting = {}
    BY <1>u, <1>24 DEF Exit, Reliable, Attended
  <2>2. \A q \in Procs : ~Held(q)
    BY <2>1, ProcAssumption DEF Held, Starting
  <2>3. \A q \in Procs : ~Alive(q)
    BY <1>u, <2>2 DEF Attended
  <2>4. \A q \in Procs : ~Alive(q)'
    BY <1>24, <2>3 DEF Exit, Alive, Dropped
  <2>5. status' = "stopped" /\ pc'["quit"] = "idle"
    BY <1>24 DEF Exit
  <2> QED
    BY <2>4, <2>5 DEF Attended
<1>25. ASSUME Launch PROVE Attended'
  BY <1>25, <1>same DEF Launch, shown, jobs, system, Alive
<1>26. ASSUME UNCHANGED vars PROVE Attended'
  BY <1>26, <1>same DEF vars, Alive
<1> QED
  BY <1>3, <1>4, <1>5, <1>6, <1>7, <1>8, <1>9, <1>10, <1>11, <1>12, <1>13, <1>14, <1>15,
     <1>16, <1>17, <1>18, <1>19, <1>20, <1>21, <1>22, <1>23, <1>24, <1>25, <1>26
  DEF Next, StartStep, PollStep, StopStep

(* As long as system calls work and the app is not killed, no daemon is ever *)
(* left running without a handle that Stop and Quit can reach, for any       *)
(* number of commands, unless a poll_exit was overtaken by a later start.    *)
THEOREM NothingIsAbandoned == ASSUME Reliable PROVE Spec => []Supervised
<1>1. SupervisionInv => Supervised
  BY DEF SupervisionInv, Attended, Supervised
<1>2. SupervisionInv /\ [Next]_vars => SupervisionInv'
  BY AttendedStep
<1> QED
  BY <1>1, <1>2, InitAttended, PTL DEF Spec
-----------------------------------------------------------------------------
(* What stands between a reaped daemon and a window that shows "running":   *)
(* a start that installed a handle keeps it until somebody reaps it, and    *)
(* nobody stops a daemon that is shown as running.                          *)
Reaping == {c \in Commands : pc[c] \in {"reaped0", "reaped1"}}

Watched ==
    /\ \A c \in Commands : pc[c] = "setchild" => own[c] \in Procs
    /\ \A c \in Commands : pc[c] \in {"setport", "setrunning"} => child # NoProc \/ Reaping # {}
    /\ \A c \in Users : pc[c] \in StopPcs => status # "running"
    /\ status = "running" => child # NoProc \/ Reaping # {}

WatchInv == RestInv /\ (stale \/ Watched)

(* A command that starts and stops nothing and reports no exit. *)
LEMMA IdleMove ==
    ASSUME TypeOK, Watched, NEW c \in Users, NEW l \in Labels, Moves(c, l),
           l \notin StartPcs \cup StopPcs, pc[c] \notin {"reaped0", "reaped1"},
           \A d \in Commands \ {c} : own'[d] = own[d],
           status' = "running" => status = "running",
           child' = child \/ c \in Reaping'
    PROVE  Watched'
<1> USE UserNames, LabelNames
<1>1. \A d \in Users : pc'[d] = IF d = c THEN l ELSE pc[d]
  BY MoveTypes
<1>2. Reaping \subseteq Reaping'
  BY <1>1 DEF Reaping
<1>3. child # NoProc \/ Reaping # {} => child' # NoProc \/ Reaping' # {}
  BY <1>1, <1>2 DEF Reaping
<1> QED
  BY <1>1, <1>3 DEF Watched, StartPcs, StopPcs

LEMMA InitWatched == Init => WatchInv
<1> SUFFICES ASSUME Init PROVE Watched
  BY InitRest DEF WatchInv
<1> QED
  BY UserNames DEF Init, Watched, StopPcs

LEMMA WatchedStep == WatchInv /\ [Next]_vars => WatchInv'
<1> SUFFICES ASSUME WatchInv, ~stale', [Next]_vars PROVE Watched'
  BY RestStep DEF WatchInv
<1> USE UserNames, LabelNames
<1>t. TypeOK /\ Mutex /\ RestInv
  BY DEF WatchInv, RestInv
<1>u. Undisturbed /\ Watched
  BY <1>t, StaleStays DEF WatchInv, RestInv
<1>free. OuterFree => \A d \in Users : pc[d] \notin OwnerPcs
  BY <1>t DEF OuterFree, Starting, Stopping, OwnerPcs, Mutex, StartPcs, StopPcs
<1>alone. ASSUME NEW c \in Users, pc[c] \in OwnerPcs, NEW d \in Users, d # c
          PROVE  pc[d] \notin OwnerPcs
  BY <1>t, <1>alone DEF Mutex
<1>names. /\ \A l \in StopPcs : l \in OwnerPcs /\ l \notin StartPcs
          /\ \A l \in StartPcs : l \in OwnerPcs /\ l \notin StopPcs
          /\ {"idle", "exit", "clear", "reaped0", "reaped1"} \cap OwnerPcs = {}
          /\ {"probe", "sent", "poll"} \cap OwnerPcs = {}
          /\ {"kill", "setstopped", "noport"} \subseteq StopPcs
  BY DEF StartPcs, StopPcs, OwnerPcs
<1>1. ASSUME NEW c \in Commands, BeginStart(c) PROVE Watched'
  <2>1. /\ Moves(c, "spawn") /\ OuterFree /\ status' = "starting" /\ UNCHANGED <<child, own>>
    BY <1>1 DEF BeginStart, Goto, Moves
  <2>2. \A d \in Users : pc'[d] = IF d = c THEN "spawn" ELSE pc[d]
    BY <1>t, <2>1, MoveTypes
  <2>3. \A d \in Users : pc'[d] = "spawn" \/ pc'[d] \notin OwnerPcs
    BY <1>free, <2>1, <2>2
  <2> QED
    BY <1>names, <2>1, <2>3 DEF Watched, StartPcs, StopPcs
<1>2. ASSUME NEW c \in Commands, FailStart(c) PROVE Watched'
  <2>1. /\ Moves(c, "idle") /\ status' = "failed" /\ UNCHANGED child /\ pc[c] = "spawn"
        /\ \A d \in Commands \ {c} : own'[d] = own[d]
    BY <1>t, <1>2, ReturnJobs DEF FailStart, End
  <2> QED
    BY <1>t, <1>u, <1>names, <2>1, IdleMove DEF OwnerPcs
<1>3. ASSUME NEW c \in Commands, Spawn(c) PROVE Watched'
  <2>1. PICK q \in Procs : own' = [own EXCEPT ![c] = q]
    BY <1>3 DEF Spawn
  <2>2. Moves(c, "setchild") /\ UNCHANGED <<status, child>> /\ pc[c] = "spawn"
    BY <1>3 DEF Spawn, shown, Goto, Moves
  <2>3. \A d \in Users : pc'[d] = IF d = c THEN "setchild" ELSE pc[d]
    BY <1>t, <2>2, MoveTypes
  <2>4. own'[c] = q
    BY <1>t, <2>1 DEF TypeOK
  <2>5. status = "starting"
    BY <1>u, <2>2 DEF Undisturbed
  <2>6. \A d \in Users : d # c => pc'[d] \notin OwnerPcs
    BY <1>alone, <1>names, <2>2, <2>3
  <2> QED
    BY <1>names, <2>2, <2>3, <2>4, <2>5, <2>6 DEF Watched, StartPcs
<1>4. ASSUME NEW c \in Commands, SetChild(c) PROVE Watched'
  <2>1. Moves(c, "setport") /\ UNCHANGED <<status, own>> /\ pc[c] = "setchild" /\ child' = own[c]
    BY <1>4 DEF SetChild, Goto, Moves
  <2>2. child' # NoProc
    BY <1>u, <2>1, ProcAssumption DEF Watched
  <2>3. \A d \in Users : pc'[d] = IF d = c THEN "setport" ELSE pc[d]
    BY <1>t, <2>1, MoveTypes
  <2> QED
    BY <1>u, <2>1, <2>2, <2>3 DEF Watched, StopPcs
<1>5. ASSUME NEW c \in Commands, SetPort(c) PROVE Watched'
  <2>1. Moves(c, "setrunning") /\ UNCHANGED <<status, child, own>> /\ pc[c] = "setport"
    BY <1>5 DEF SetPort, Goto, Moves
  <2>2. \A d \in Users : pc'[d] = IF d = c THEN "setrunning" ELSE pc[d]
    BY <1>t, <2>1, MoveTypes
  <2>3. Reaping' = Reaping
    BY <2>1, <2>2 DEF Reaping
  <2> QED
    BY <1>u, <2>1, <2>2, <2>3 DEF Watched, StopPcs
<1>6. ASSUME NEW c \in Commands, SetRunning(c) PROVE Watched'
  <2>1. /\ Moves(c, "probe") /\ status' = "running" /\ UNCHANGED <<child, own>>
        /\ pc[c] = "setrunning"
    BY <1>6 DEF SetRunning, Goto, Moves
  <2>2. \A d \in Users : pc'[d] = IF d = c THEN "probe" ELSE pc[d]
    BY <1>t, <2>1, MoveTypes
  <2>3. Reaping' = Reaping
    BY <2>1, <2>2 DEF Reaping
  <2>4. \A d \in Users : pc'[d] \notin OwnerPcs
    BY <1>alone, <1>names, <2>1, <2>2
  <2>5. child # NoProc \/ Reaping # {}
    BY <1>u, <2>1 DEF Watched
  <2> QED
    BY <1>names, <2>1, <2>3, <2>4, <2>5 DEF Watched, StartPcs
<1>7. ASSUME NEW c \in Commands, Probe(c) PROVE Watched'
  <2>1. /\ UNCHANGED <<status, child, own>> /\ (Moves(c, "poll") \/ Moves(c, "sent"))
        /\ pc[c] = "probe"
    BY <1>7 DEF Probe, Goto, Moves, shown
  <2> QED
    BY <1>t, <1>u, <1>names, <2>1, IdleMove DEF OwnerPcs
<1>8. ASSUME NEW c \in Commands, Healthy(c) PROVE Watched'
  <2>1. /\ UNCHANGED <<status, child>> /\ Moves(c, "idle") /\ pc[c] = "sent"
        /\ \A d \in Commands \ {c} : own'[d] = own[d]
    BY <1>t, <1>8, ReturnJobs DEF Healthy, shown, End
  <2> QED
    BY <1>t, <1>u, <1>names, <2>1, IdleMove DEF OwnerPcs
<1>9. ASSUME NEW c \in Commands, Unhealthy(c) PROVE Watched'
  <2>1. UNCHANGED <<status, child, own>> /\ Moves(c, "poll") /\ pc[c] = "sent"
    BY <1>9 DEF Unhealthy, Goto, Moves, shown
  <2> QED
    BY <1>t, <1>u, <1>names, <2>1, IdleMove DEF OwnerPcs
<1>10. ASSUME NEW c \in Commands, PollExit(c) PROVE Watched'
  <2>1. CASE child = NoProc \/ Alive(child)
    <3>1. NextRound(c) /\ UNCHANGED <<status, child>> /\ pc[c] = "poll"
      BY <1>10, <2>1 DEF PollExit
    <3>2. /\ \E l \in {"probe", "idle"} : Moves(c, l)
          /\ \A d \in Commands \ {c} : own'[d] = own[d]
      BY <1>t, <3>1, NextRoundJobs
    <3> QED
      BY <1>t, <1>u, <1>names, <3>1, <3>2, IdleMove DEF OwnerPcs
  <2>2. CASE ~(child = NoProc \/ Alive(child))
    <3>1. PICK l \in {"reaped0", "reaped1"} :
             Moves(c, l) /\ UNCHANGED <<status, own>> /\ pc[c] = "poll"
      BY <1>10, <2>2 DEF PollExit, Goto, Moves
    <3>2. c \in Reaping'
      BY <1>t, <3>1, MoveTypes DEF Reaping
    <3> QED
      BY <1>t, <1>u, <1>names, <3>1, <3>2, IdleMove DEF OwnerPcs
  <2> QED
    BY <2>1, <2>2
<1>11. ASSUME NEW c \in Commands, FailPoll(c) PROVE Watched'
  <2>1. /\ UNCHANGED <<status, child>> /\ Moves(c, "idle") /\ pc[c] = "poll"
        /\ \A d \in Commands \ {c} : own'[d] = own[d]
    BY <1>t, <1>11, ReturnJobs DEF FailPoll, shown, End
  <2> QED
    BY <1>t, <1>u, <1>names, <2>1, IdleMove DEF OwnerPcs
<1>12. ASSUME NEW c \in Commands, ReportExit(c) PROVE Watched'
  <2>1. /\ Moves(c, "clear") /\ status' \in {"stopped", "failed"} /\ Starting = {}
    BY <1>12 DEF ReportExit, Goto, Moves, Overtaken
  <2>2. \A d \in Users : pc'[d] = IF d = c THEN "clear" ELSE pc[d]
    BY <1>t, <2>1, MoveTypes
  <2>3. \A d \in Commands : pc'[d] \notin StartPcs
    BY <1>names, <2>1, <2>2 DEF Starting
  <2> QED
    BY <2>1, <2>3 DEF Watched
<1>13. ASSUME NEW c \in Commands, ClearPort(c) PROVE Watched'
  <2>1. /\ UNCHANGED <<status, child>> /\ Moves(c, "idle") /\ pc[c] = "clear"
        /\ \A d \in Commands \ {c} : own'[d] = own[d]
    BY <1>t, <1>13, ReturnJobs DEF ClearPort, End
  <2> QED
    BY <1>t, <1>u, <1>names, <2>1, IdleMove DEF OwnerPcs
<1>14. ASSUME NEW c \in Users, BeginStop(c) PROVE Watched'
  <2>0. pc[c] = "idle" /\ UNCHANGED child /\ OuterFree
    BY <1>14 DEF BeginStop
  <2>1. CASE status = "running"
    <3>1. Moves(c, "kill") /\ status' = "stopping" /\ UNCHANGED own
      BY <1>14, <2>1 DEF BeginStop, Goto, Moves
    <3>2. \A d \in Users : pc'[d] = IF d = c THEN "kill" ELSE pc[d]
      BY <1>t, <3>1, MoveTypes
    <3>3. \A d \in Users : pc'[d] \notin StartPcs
      BY <1>free, <1>names, <2>0, <3>2
    <3> QED
      BY <3>1, <3>3 DEF Watched
  <2>2. CASE status # "running"
    <3>1. UNCHANGED status /\ Moves(c, End(c)) /\ \A d \in Commands \ {c} : own'[d] = own[d]
      BY <1>t, <1>14, <2>2, ReturnJobs DEF BeginStop
    <3>2. PICK l \in {"idle", "exit"} : Moves(c, l)
      BY <3>1 DEF End
    <3> QED
      BY <1>t, <1>u, <1>names, <2>0, <3>1, <3>2, IdleMove
  <2> QED
    BY <2>1, <2>2
<1>15. ASSUME NEW c \in Users, Kill(c) PROVE Watched'
  <2>1. Moves(c, "setstopped") /\ UNCHANGED status /\ pc[c] = "kill"
    BY <1>15 DEF Kill, Goto, Moves
  <2>2. \A d \in Users : pc'[d] = IF d = c THEN "setstopped" ELSE pc[d]
    BY <1>t, <2>1, MoveTypes
  <2>3. status # "running"
    BY <1>u, <1>names, <2>1 DEF Watched
  <2>4. \A d \in Users : pc'[d] \notin StartPcs
    BY <1>alone, <1>names, <2>1, <2>2
  <2> QED
    BY <2>1, <2>3, <2>4 DEF Watched
<1>16. ASSUME NEW c \in Users, FailKill(c) PROVE Watched'
  <2>1. Moves(c, End(c)) /\ UNCHANGED status /\ pc[c] = "kill" /\ End(c) \in Labels
    BY <1>t, <1>16, ReturnJobs DEF FailKill, End
  <2>2. \A d \in Users : pc'[d] = IF d = c THEN End(c) ELSE pc[d]
    BY <1>t, <2>1, MoveTypes
  <2>3. status # "running"
    BY <1>u, <1>names, <2>1 DEF Watched
  <2>4. \A d \in Users : pc'[d] \notin StartPcs
    BY <1>alone, <1>names, <2>1, <2>2 DEF End
  <2> QED
    BY <2>1, <2>3, <2>4 DEF Watched
<1>17. ASSUME NEW c \in Users, SetStopped(c) PROVE Watched'
  <2>1. Moves(c, "noport") /\ status' = "stopped" /\ pc[c] = "setstopped"
    BY <1>17 DEF SetStopped, Goto, Moves
  <2>2. \A d \in Users : pc'[d] = IF d = c THEN "noport" ELSE pc[d]
    BY <1>t, <2>1, MoveTypes
  <2>3. \A d \in Users : pc'[d] \notin StartPcs
    BY <1>alone, <1>names, <2>1, <2>2
  <2> QED
    BY <2>1, <2>3 DEF Watched
<1>18. ASSUME NEW c \in Users, EndStop(c) PROVE Watched'
  <2>1. /\ UNCHANGED <<status, child>> /\ Moves(c, End(c)) /\ pc[c] = "noport"
        /\ \A d \in Commands \ {c} : own'[d] = own[d]
    BY <1>t, <1>18, ReturnJobs DEF EndStop
  <2>2. PICK l \in {"idle", "exit"} : Moves(c, l)
    BY <2>1 DEF End
  <2> QED
    BY <1>t, <1>u, <1>names, <2>1, <2>2, IdleMove
<1>same. ASSUME UNCHANGED <<status, child, pc, own>> PROVE Watched'
  BY <1>u, <1>same DEF Watched, Reaping
<1>19. ASSUME NEW q \in Procs, Bind(q) PROVE Watched'
  BY <1>19, <1>same DEF Bind, shown, jobs
<1>20. ASSUME NEW q \in Procs, Die(q) PROVE Watched'
  BY <1>20, <1>same DEF Die, shown, jobs
<1>21. ASSUME SaveConfig PROVE Watched'
  BY <1>21, <1>same DEF SaveConfig, shown, jobs
<1>22. ASSUME Exit PROVE Watched'
  <2>1. status' = "stopped" /\ \A d \in Users : pc'[d] = "idle"
    BY <1>22 DEF Exit
  <2> QED
    BY <2>1 DEF Watched, StopPcs
<1>23. ASSUME Launch PROVE Watched'
  BY <1>23, <1>same DEF Launch, shown, jobs
<1>24. ASSUME UNCHANGED vars PROVE Watched'
  BY <1>24, <1>same DEF vars
<1> QED
  BY <1>1, <1>2, <1>3, <1>4, <1>5, <1>6, <1>7, <1>8, <1>9, <1>10, <1>11, <1>12, <1>13,
     <1>14, <1>15, <1>16, <1>17, <1>18, <1>19, <1>20, <1>21, <1>22, <1>23, <1>24
  DEF Next, StartStep, PollStep, StopStep

(* The window shows "running" without a daemon only while the poll_exit that *)
(* reaped it has still to say so, whatever calls fail and whoever crashes,   *)
(* unless a poll_exit was overtaken by a later start.                        *)
THEOREM ReapedIsReported == Spec => []RunningIsWatched
<1>1. WatchInv => RunningIsWatched
  BY DEF WatchInv, Watched, Reaping, RunningIsWatched
<1> QED
  BY <1>1, InitWatched, WatchedStep, PTL DEF Spec

-----------------------------------------------------------------------------
(* One command at a time: whoever has still to report an exit finds neither *)
(* a child nor a start, since nobody else is there to begin one.            *)

OneCommand == \A c, d \in Commands : c = d

Late == {"reaped0", "reaped1", "clear"}

NotOvertaken ==
    /\ ~stale
    /\ \A c \in Commands : pc[c] \in Late => child = NoProc

LateInv == TypeOK /\ NotOvertaken

(* A command that goes on without a report, and without a new child. *)
LEMMA PromptMove ==
    ASSUME LateInv, NEW c \in Users, NEW l \in Labels \ Late, Moves(c, l),
           child' = child \/ child' = NoProc, UNCHANGED stale
    PROVE  NotOvertaken'
<1>1. \A d \in Users : pc'[d] = IF d = c THEN l ELSE pc[d]
  BY MoveTypes DEF LateInv
<1> QED
  BY <1>1, UserNames DEF LateInv, NotOvertaken

LEMMA PromptReturn ==
    ASSUME LateInv, NEW c \in Users, Return(c),
           child' = child \/ child' = NoProc, UNCHANGED stale
    PROVE  NotOvertaken'
<1>1. Moves(c, End(c)) /\ End(c) \in Labels \ Late
  BY ReturnJobs, LabelNames DEF LateInv, End, Late
<1> QED
  BY <1>1, PromptMove

LEMMA AloneInReport ==
    ASSUME OneCommand, LateInv, NEW c \in Commands, pc[c] \in Late
    PROVE  ~Overtaken
BY DEF OneCommand, LateInv, NotOvertaken, Overtaken, Starting, StartPcs, Late

LEMMA LateStep == OneCommand /\ LateInv /\ [Next]_vars => LateInv'
<1> SUFFICES ASSUME OneCommand, LateInv, [Next]_vars PROVE NotOvertaken'
  BY TypeStep DEF LateInv
<1>t. TypeOK
  BY DEF LateInv
<1>names. /\ \A c \in Commands : c \in Users
          /\ {"idle", "spawn", "setchild", "setport", "setrunning", "kill", "setstopped",
              "noport", "probe", "sent", "poll"} \subseteq Labels \ Late
  BY UserNames, LabelNames DEF Late
<1>1. ASSUME NEW c \in Commands, BeginStart(c) PROVE NotOvertaken'
  BY <1>1, <1>names, PromptMove DEF BeginStart, Goto, Moves
<1>2. ASSUME NEW c \in Commands, FailStart(c) PROVE NotOvertaken'
  BY <1>2, <1>names, PromptReturn DEF FailStart
<1>3. ASSUME NEW c \in Commands, Spawn(c) PROVE NotOvertaken'
  BY <1>3, <1>names, PromptMove DEF Spawn, shown, Goto, Moves
<1>4. ASSUME NEW c \in Commands, SetChild(c) PROVE NotOvertaken'
  <2>1. Moves(c, "setport") /\ UNCHANGED stale
    BY <1>4 DEF SetChild, Goto, Moves
  <2>2. \A d \in Commands : pc'[d] = "setport"
    BY <1>t, <1>names, <2>1, MoveTypes DEF OneCommand
  <2> QED
    BY <2>1, <2>2 DEF NotOvertaken, LateInv, Late
<1>5. ASSUME NEW c \in Commands, SetPort(c) PROVE NotOvertaken'
  BY <1>5, <1>names, PromptMove DEF SetPort, Goto, Moves
<1>6. ASSUME NEW c \in Commands, SetRunning(c) PROVE NotOvertaken'
  BY <1>6, <1>names, PromptMove DEF SetRunning, Goto, Moves
<1>7. ASSUME NEW c \in Commands, Probe(c) PROVE NotOvertaken'
  BY <1>7, <1>names, PromptMove DEF Probe, shown, Goto, Moves
<1>8. ASSUME NEW c \in Commands, Healthy(c) PROVE NotOvertaken'
  BY <1>8, <1>names, PromptReturn DEF Healthy, shown
<1>9. ASSUME NEW c \in Commands, Unhealthy(c) PROVE NotOvertaken'
  BY <1>9, <1>names, PromptMove DEF Unhealthy, shown, Goto, Moves
<1>10. ASSUME NEW c \in Commands, PollExit(c) PROVE NotOvertaken'
  <2>1. CASE child = NoProc \/ Alive(child)
    <3>1. NextRound(c) /\ UNCHANGED <<child, stale>>
      BY <1>10, <2>1 DEF PollExit
    <3>2. PICK l \in {"probe", "idle"} : Moves(c, l)
      BY <1>t, <3>1, NextRoundJobs
    <3> QED
      BY <1>names, <3>1, <3>2, PromptMove
  <2>2. CASE ~(child = NoProc \/ Alive(child))
    BY <1>10, <2>2 DEF PollExit, NotOvertaken, LateInv
  <2> QED
    BY <2>1, <2>2
<1>11. ASSUME NEW c \in Commands, FailPoll(c) PROVE NotOvertaken'
  BY <1>11, <1>names, PromptReturn DEF FailPoll, shown
<1>12. ASSUME NEW c \in Commands, ReportExit(c) PROVE NotOvertaken'
  <2>1. pc[c] \in Late /\ UNCHANGED child /\ stale' = (stale \/ Overtaken)
    BY <1>12 DEF ReportExit, Late
  <2>2. child' = NoProc /\ ~Overtaken
    BY <2>1, AloneInReport DEF LateInv, NotOvertaken
  <2> QED
    BY <2>1, <2>2 DEF LateInv, NotOvertaken
<1>13. ASSUME NEW c \in Commands, ClearPort(c) PROVE NotOvertaken'
  <2>1. pc[c] \in Late /\ UNCHANGED child /\ stale' = (stale \/ Overtaken)
    BY <1>13 DEF ClearPort, Late
  <2>2. child' = NoProc /\ ~Overtaken
    BY <2>1, AloneInReport DEF LateInv, NotOvertaken
  <2> QED
    BY <2>1, <2>2 DEF LateInv, NotOvertaken
<1>14. ASSUME NEW c \in Users, BeginStop(c) PROVE NotOvertaken'
  <2>1. CASE status = "running"
    BY <1>14, <1>names, <2>1, PromptMove DEF BeginStop, Goto, Moves
  <2>2. CASE status # "running"
    BY <1>14, <2>2, PromptReturn DEF BeginStop
  <2> QED
    BY <2>1, <2>2
<1>15. ASSUME NEW c \in Users, Kill(c) PROVE NotOvertaken'
  BY <1>15, <1>names, PromptMove DEF Kill, Goto, Moves
<1>16. ASSUME NEW c \in Users, FailKill(c) PROVE NotOvertaken'
  BY <1>16, PromptReturn DEF FailKill
<1>17. ASSUME NEW c \in Users, SetStopped(c) PROVE NotOvertaken'
  BY <1>17, <1>names, PromptMove DEF SetStopped, Goto, Moves
<1>18. ASSUME NEW c \in Users, EndStop(c) PROVE NotOvertaken'
  BY <1>18, PromptReturn DEF EndStop
<1>same. ASSUME UNCHANGED <<child, pc, stale>> PROVE NotOvertaken'
  BY <1>same DEF LateInv, NotOvertaken
<1>19. ASSUME NEW q \in Procs, Bind(q) PROVE NotOvertaken'
  BY <1>19, <1>same DEF Bind, shown, jobs
<1>20. ASSUME NEW q \in Procs, Die(q) PROVE NotOvertaken'
  BY <1>20, <1>same DEF Die, shown, jobs
<1>21. ASSUME SaveConfig PROVE NotOvertaken'
  BY <1>21, <1>same DEF SaveConfig, shown, jobs
<1>22. ASSUME Exit PROVE NotOvertaken'
  BY <1>22 DEF Exit, LateInv, NotOvertaken
<1>23. ASSUME Launch PROVE NotOvertaken'
  BY <1>23, <1>same DEF Launch, shown, jobs
<1>24. ASSUME UNCHANGED vars PROVE NotOvertaken'
  BY <1>24, <1>same DEF vars
<1> QED
  BY <1>1, <1>2, <1>3, <1>4, <1>5, <1>6, <1>7, <1>8, <1>9, <1>10, <1>11, <1>12, <1>13,
     <1>14, <1>15, <1>16, <1>17, <1>18, <1>19, <1>20, <1>21, <1>22, <1>23, <1>24
  DEF Next, StartStep, PollStep, StopStep

(* With one command of the window at a time, no poll_exit writes about a     *)
(* daemon that a later start has installed: whatever calls fail, whoever     *)
(* crashes, and with Quit and late starts beside it.                         *)
THEOREM NoReportIsOvertaken == ASSUME OneCommand PROVE Spec => []NeverStale
<1>1. Init => LateInv
  BY InitTypes, UserNames DEF Init, LateInv, NotOvertaken, Late
<1>2. LateInv /\ [Next]_vars => LateInv'
  BY LateStep
<1>3. LateInv => NeverStale
  BY DEF LateInv, NotOvertaken, NeverStale
<1> QED
  BY <1>1, <1>2, <1>3, PTL DEF Spec

-----------------------------------------------------------------------------
(* One command at a time, with calls that work and an app that is not       *)
(* killed: every step of the supervisor is one that DaemonLifecycle allows. *)

Daemons == {q \in Procs : Alive(q)}

(* What the mapped steps are judged by. *)
Orderly ==
    /\ \A q, r \in Daemons : q = r
    /\ child = NoProc /\ (\A c \in Commands : pc[c] # "setchild") => Daemons = {}
    /\ \A c \in Commands : pc[c] = "spawn" => Daemons = {}

PromiseInv == SupervisionInv /\ LateInv

LEMMA PromiseIsOrderly ==
    ASSUME OneCommand, PromiseInv
    PROVE  TypeOK /\ Mutex /\ Undisturbed /\ Attended /\ Orderly
<1>1. TypeOK /\ Mutex /\ Undisturbed /\ Attended
  BY DEF PromiseInv, SupervisionInv, RestInv, LateInv, NotOvertaken
<1>2. \A q \in Daemons : child = q \/ \E c \in Commands : pc[c] = "setchild" /\ own[c] = q
  BY <1>1 DEF Daemons, Attended, Held
<1>3. \A q \in Daemons : q # NoProc
  BY ProcAssumption DEF Daemons
<1>4. \A q, r \in Daemons : q = r
  BY <1>1, <1>2, <1>3 DEF Undisturbed, OneCommand
<1>5. child = NoProc /\ (\A c \in Commands : pc[c] # "setchild") => Daemons = {}
  BY <1>2, <1>3
<1>6. \A c \in Commands : pc[c] = "spawn" => Daemons = {}
  BY <1>1, <1>5 DEF Undisturbed, OneCommand
<1> QED
  BY <1>1, <1>4, <1>5, <1>6 DEF Orderly

(* Nothing that the window shows and no daemon changes. *)
LEMMA UnseenStep ==
    ASSUME UNCHANGED status, \A q \in Procs : Alive(q)' <=> Alive(q)
    PROVE  UNCHANGED Lifecycle!vars
BY DEF Lifecycle!vars

(* A daemon that ends is the only one. *)
LEMMA LastStep ==
    ASSUME Orderly, NEW q \in Procs, UNCHANGED status,
           \A r \in Procs \ {q} : Alive(r)' <=> Alive(r), ~Alive(q)'
    PROVE  Lifecycle!Exit \/ UNCHANGED Lifecycle!vars
<1>1. CASE Alive(q)
  <2>1. \A r \in Procs : ~Alive(r)'
    BY <1>1 DEF Orderly, Daemons
  <2> QED
    BY <1>1, <2>1 DEF Lifecycle!Exit
<1>2. CASE ~Alive(q)
  BY <1>2, UnseenStep
<1> QED
  BY <1>1, <1>2

LEMMA PromiseStep ==
    Reliable /\ OneCommand /\ PromiseInv /\ [Next]_vars => [Lifecycle!Next]_(Lifecycle!vars)
<1> SUFFICES ASSUME Reliable, OneCommand, PromiseInv, [Next]_vars
             PROVE  Lifecycle!Next \/ UNCHANGED Lifecycle!vars
  OBVIOUS
<1> USE UserNames DEF Daemons
<1> DEFINE Goal == Lifecycle!Next \/ UNCHANGED Lifecycle!vars
<1>o. TypeOK /\ Mutex /\ Undisturbed /\ Attended /\ Orderly
  BY PromiseIsOrderly
<1>free. ASSUME OuterFree PROVE \A c \in Commands : pc[c] \notin StartPcs
  BY <1>free DEF OuterFree, Starting
<1>unseen. ASSUME UNCHANGED <<status, proc>> PROVE Goal
  BY <1>unseen, UnseenStep DEF Alive
<1>1. ASSUME NEW c \in Commands, BeginStart(c) PROVE Goal
  <2>1. Daemons = {}
    BY <1>o, <1>1, <1>free DEF BeginStart, Undisturbed, Orderly, StartPcs
  <2> QED
    BY <1>1, <2>1 DEF BeginStart, system, Alive, Lifecycle!Begin, Lifecycle!Next
<1>2. ASSUME NEW c \in Commands, FailStart(c) PROVE Goal
  <2>1. status = "starting" /\ Daemons = {}
    BY <1>o, <1>2 DEF FailStart, Undisturbed, Orderly, StartPcs
  <2> QED
    BY <1>2, <2>1 DEF FailStart, system, Alive, Lifecycle!EndStart, Lifecycle!Next
<1>3. ASSUME NEW c \in Commands, Spawn(c) PROVE Goal
  <2>1. status = "starting" /\ UNCHANGED status /\ Daemons = {}
    BY <1>o, <1>3 DEF Spawn, shown, Undisturbed, Orderly, StartPcs
  <2>2. PICK q \in Procs : proc' = [proc EXCEPT ![q] = "boot"]
    BY <1>3 DEF Spawn
  <2>3. \A r \in Procs : Alive(r)' <=> r = q
    BY <1>o, <2>1, <2>2 DEF Alive, TypeOK
  <2>4. {r \in Procs : Alive(r)}' = {q}
    BY <2>3
  <2> QED
    BY <2>1, <2>4 DEF Lifecycle!Spawn, Lifecycle!Next
<1>4. ASSUME NEW c \in Commands, SetChild(c) PROVE Goal
  BY <1>o, <1>4, <1>unseen DEF SetChild, Undisturbed
<1>5. ASSUME NEW c \in Commands, SetPort(c) PROVE Goal
  BY <1>5, <1>unseen DEF SetPort, system
<1>6. ASSUME NEW c \in Commands, SetRunning(c) PROVE Goal
  <2>1. status = "starting" /\ status' = "running" /\ UNCHANGED proc
    BY <1>o, <1>6 DEF SetRunning, system, Undisturbed, StartPcs
  <2> QED
    BY <2>1 DEF Alive, Lifecycle!EndStart, Lifecycle!Next
<1>7. ASSUME NEW c \in Commands, Probe(c) PROVE Goal
  BY <1>7, <1>unseen DEF Probe, shown, system
<1>8. ASSUME NEW c \in Commands, Healthy(c) PROVE Goal
  BY <1>8, <1>unseen DEF Healthy, shown, system
<1>9. ASSUME NEW c \in Commands, Unhealthy(c) PROVE Goal
  BY <1>9, <1>unseen DEF Unhealthy, shown, system
<1>10. ASSUME NEW c \in Commands, PollExit(c) PROVE Goal
  <2>1. CASE child = NoProc \/ Alive(child)
    BY <1>10, <2>1, <1>unseen DEF PollExit
  <2>2. CASE ~(child = NoProc \/ Alive(child))
    <3>1. UNCHANGED status /\ proc' = [proc EXCEPT ![child] = "none"] /\ child \in Procs
      BY <1>o, <1>10, <2>2 DEF PollExit, TypeOK
    <3>2. \A q \in Procs : Alive(q)' <=> Alive(q)
      BY <1>o, <2>2, <3>1 DEF Alive, TypeOK
    <3> QED
      BY <3>1, <3>2, UnseenStep
  <2> QED
    BY <2>1, <2>2
<1>11. ASSUME NEW c \in Commands, FailPoll(c) PROVE Goal
  BY <1>11 DEF FailPoll, Reliable
<1>12. ASSUME NEW c \in Commands, ReportExit(c) PROVE Goal
  <2>1. pc[c] \in Late /\ status' \in {"stopped", "failed"} /\ UNCHANGED proc
    BY <1>12 DEF ReportExit, Late, system
  <2>2. child = NoProc /\ Starting = {}
    BY <2>1, AloneInReport DEF PromiseInv, Overtaken
  <2>3. Daemons = {} /\ status \in {"running", "stopping", "stopped", "failed"}
    BY <1>o, <2>2 DEF Orderly, Attended, Starting, StartPcs, TypeOK, Statuses
  <2> QED
    BY <2>1, <2>3 DEF Alive, Lifecycle!Settle, Lifecycle!Next
<1>13. ASSUME NEW c \in Commands, ClearPort(c) PROVE Goal
  BY <1>13, <1>unseen DEF ClearPort, system
<1>14. ASSUME NEW c \in Users, BeginStop(c) PROVE Goal
  <2>1. CASE status = "running"
    BY <1>14, <2>1 DEF BeginStop, system, Alive, Lifecycle!BeginStop, Lifecycle!Next
  <2>2. CASE status # "running"
    BY <1>14, <2>2, <1>unseen DEF BeginStop, system
  <2> QED
    BY <2>1, <2>2
<1>15. ASSUME NEW c \in Users, Kill(c) PROVE Goal
  <2>1. CASE child = NoProc
    BY <1>15, <2>1, <1>unseen DEF Kill
  <2>2. CASE child # NoProc
    <3>1. PICK q \in Procs : UNCHANGED status /\ proc' = [proc EXCEPT ![q] = "none"]
      BY <1>o, <1>15, <2>2 DEF Kill, TypeOK
    <3>2. proc'[q] = "none" /\ \A r \in Procs \ {q} : proc'[r] = proc[r]
      BY <1>o, <3>1 DEF TypeOK
    <3>3. ~Alive(q)' /\ \A r \in Procs \ {q} : Alive(r)' <=> Alive(r)
      BY <3>2 DEF Alive
    <3> QED
      BY <1>o, <3>1, <3>3, LastStep DEF Lifecycle!Next
  <2> QED
    BY <2>1, <2>2
<1>16. ASSUME NEW c \in Users, FailKill(c) PROVE Goal
  BY <1>16 DEF FailKill, Reliable
<1>17. ASSUME NEW c \in Users, SetStopped(c) PROVE Goal
  <2>1. pc[c] = "setstopped" /\ status' = "stopped" /\ UNCHANGED proc
    BY <1>17 DEF SetStopped, system
  <2>2. \A d \in Commands : pc[d] \notin StartPcs
    BY <1>o, <2>1 DEF Mutex, OwnerPcs, StartPcs, StopPcs
  <2>3. child = NoProc /\ status # "starting"
    BY <1>o, <2>1, <2>2 DEF Undisturbed, Attended, Starting
  <2>4. Daemons = {}
    BY <1>o, <2>2, <2>3 DEF Orderly, StartPcs
  <2>5. status \in {"running", "stopping", "stopped", "failed"}
    BY <1>o, <2>3 DEF TypeOK, Statuses
  <2> QED
    BY <2>1, <2>4, <2>5 DEF Alive, Lifecycle!Settle, Lifecycle!Next
<1>18. ASSUME NEW c \in Users, EndStop(c) PROVE Goal
  BY <1>18, <1>unseen DEF EndStop, system
<1>ends. ASSUME NEW q \in Procs, NEW code \in {"ended0", "ended1"},
                UNCHANGED status, proc' = Ended(q, code)
         PROVE  Goal
  <2>1. proc'[q] \in {"ended0", "ended1", "none"} /\ \A r \in Procs \ {q} : proc'[r] = proc[r]
    BY <1>o, <1>ends DEF Ended, TypeOK
  <2>2. ~Alive(q)' /\ \A r \in Procs \ {q} : Alive(r)' <=> Alive(r)
    BY <2>1 DEF Alive
  <2> QED
    BY <1>o, <1>ends, <2>2, LastStep DEF Lifecycle!Next
<1>19. ASSUME NEW q \in Procs, Bind(q) PROVE Goal
  <2>1. CASE Serving(config)
    BY <1>19, <2>1, <1>ends DEF Bind, shown
  <2>2. CASE ~Serving(config)
    <3>1. UNCHANGED status /\ proc[q] = "boot" /\ proc' = [proc EXCEPT ![q] = "up"]
      BY <1>19, <2>2 DEF Bind, shown
    <3>2. \A r \in Procs : Alive(r)' <=> Alive(r)
      BY <1>o, <3>1 DEF Alive, TypeOK
    <3> QED
      BY <3>1, <3>2, UnseenStep
  <2> QED
    BY <2>1, <2>2
<1>20. ASSUME NEW q \in Procs, Die(q) PROVE Goal
  BY <1>20, <1>ends DEF Die, shown
<1>21. ASSUME SaveConfig PROVE Goal
  BY <1>21, <1>unseen DEF SaveConfig, shown
<1>22. ASSUME Exit PROVE Goal
  <2>1. pc["quit"] = "exit" /\ status' = "stopped" /\ proc' = [q \in Procs |-> Dropped(q)]
    BY <1>22 DEF Exit, Reliable
  <2>2. child = NoProc /\ Starting = {}
    BY <1>o, <2>1 DEF Attended
  <2>3. Daemons = {} /\ status \in {"running", "stopping", "stopped", "failed"}
    BY <1>o, <2>2 DEF Orderly, Attended, Starting, StartPcs, TypeOK, Statuses
  <2>4. \A q \in Procs : ~Alive(q)'
    BY <2>1, <2>3 DEF Alive, Dropped
  <2> QED
    BY <2>1, <2>3, <2>4 DEF Lifecycle!Settle, Lifecycle!Next
<1>23. ASSUME Launch PROVE Goal
  BY <1>23, <1>unseen DEF Launch, shown, system
<1>24. ASSUME UNCHANGED vars PROVE Goal
  BY <1>24, <1>unseen DEF vars
<1> QED
  BY <1>1, <1>2, <1>3, <1>4, <1>5, <1>6, <1>7, <1>8, <1>9, <1>10, <1>11, <1>12, <1>13,
     <1>14, <1>15, <1>16, <1>17, <1>18, <1>19, <1>20, <1>21, <1>22, <1>23, <1>24
  DEF Next, StartStep, PollStep, StopStep

(* With one command of the window at a time, calls that work and an app that *)
(* is not killed, the supervisor implements DaemonLifecycle: it begins a     *)
(* start only when none of its daemons is left, has one at most, and shows   *)
(* "stopped" or "failed" only without one.                                   *)
THEOREM LifecycleIsKept == ASSUME Reliable, OneCommand PROVE Spec => ImplementsLifecycle
<1>1. Init => Lifecycle!Init
  BY DEF Init, Alive, Lifecycle!Init
<1>2. Init => PromiseInv
  <2>1. Init => LateInv
    BY InitTypes, UserNames DEF Init, LateInv, NotOvertaken, Late
  <2> QED
    BY <2>1, InitAttended DEF PromiseInv
<1>3. PromiseInv /\ [Next]_vars => PromiseInv'
  BY AttendedStep, LateStep DEF PromiseInv
<1>4. PromiseInv /\ [Next]_vars => [Lifecycle!Next]_(Lifecycle!vars)
  BY PromiseStep
<1> QED
  BY <1>1, <1>2, <1>3, <1>4, PTL DEF Spec, ImplementsLifecycle, Lifecycle!Spec
=============================================================================
