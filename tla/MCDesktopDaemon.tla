-------------------------- MODULE MCDesktopDaemon --------------------------
(* Instances of DesktopDaemon for TLC. *)
EXTENDS DesktopDaemon, TLC

(* Commands are alike, and so are processes. *)
Symmetry == Permutations(Commands) \cup Permutations(Procs)
=============================================================================
