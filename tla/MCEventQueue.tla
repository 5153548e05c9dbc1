---------------------------- MODULE MCEventQueue ----------------------------
(* Instance of EventQueue for TLC. *)
EXTENDS EventQueue, TLC

CONSTANTS p1, p2, p3

MCProc == {p1, p2, p3}

=============================================================================
