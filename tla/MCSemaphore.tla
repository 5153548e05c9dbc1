----------------------------- MODULE MCSemaphore -----------------------------
(* Instance of Semaphore for TLC. *)
EXTENDS Semaphore, TLC

CONSTANTS p1, p2, p3

MCProc == {p1, p2, p3}

=============================================================================
