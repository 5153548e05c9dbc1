---------------------------- MODULE MCScheduling ----------------------------
(* Instance of Scheduling for TLC. *)
EXTENDS Scheduling, TLC

CONSTANTS p1, p2, p3

MCProc == {p1, p2, p3}

=============================================================================
