----------------------------- MODULE MCTsOAuth ------------------------------
(* Instances of TsOAuth for TLC. *)
EXTENDS TsOAuth

(* An endpoint that retires each refresh token it replaces, and one that   *)
(* keeps them but answers what is no JSON.                                 *)
RotatingOrGarbled == {[rotates |-> TRUE, garbles |-> FALSE], [rotates |-> FALSE, garbles |-> TRUE]}
=============================================================================
