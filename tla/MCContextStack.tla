--------------------------- MODULE MCContextStack ---------------------------
(* Instance of ContextStack for TLC. *)
EXTENDS ContextStack, TLC

MCSizes == {3, 4}

=============================================================================
