----------------------------- MODULE MCRunQueue -----------------------------
(* Instance of RunQueue for TLC. *)
EXTENDS RunQueue, TLC

CONSTANTS p1, p2, p3, p4

MCProc == {p1, p2, p3, p4}

=============================================================================
