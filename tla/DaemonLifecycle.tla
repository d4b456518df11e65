-------------------------- MODULE DaemonLifecycle --------------------------
(***************************************************************************)
(* What the desktop app promises about the daemon it starts: which status  *)
(* it shows and which daemon processes of its own exist under that status. *)
(* DesktopDaemon implements it as long as the window gives one command at  *)
(* a time.                                                                 *)
(***************************************************************************)
CONSTANT Procs   \* processes the app may start

VARIABLES
    status,   \* DaemonStatus
    alive     \* the app's daemon processes that have not exited

vars == <<status, alive>>

Init ==
    /\ status = "stopped"
    /\ alive = {}

(* A start is only begun when no daemon of the app is left. *)
Begin ==
    /\ status \in {"stopped", "failed"}
    /\ alive = {}
    /\ status' = "starting"
    /\ UNCHANGED alive

Spawn ==
    /\ status = "starting"
    /\ alive = {}
    /\ \E q \in Procs : alive' = {q}
    /\ UNCHANGED status

(* Only the start itself ends "starting". *)
EndStart ==
    /\ status = "starting"
    /\ \/ status' = "running"
       \/ alive = {} /\ status' = "failed"
    /\ UNCHANGED alive

BeginStop ==
    /\ status = "running"
    /\ status' = "stopping"
    /\ UNCHANGED alive

(* The daemon exits by itself or is killed. *)
Exit ==
    /\ alive # {}
    /\ alive' = {}
    /\ UNCHANGED status

(* "stopped" and "failed" are only shown when no daemon is left. *)
Settle ==
    /\ status \in {"running", "stopping", "stopped", "failed"}
    /\ alive = {}
    /\ status' \in {"stopped", "failed"}
    /\ UNCHANGED alive

Next == Begin \/ Spawn \/ EndStart \/ BeginStop \/ Exit \/ Settle

Spec == Init /\ [][Next]_vars
=============================================================================
