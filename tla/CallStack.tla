----------------------------- MODULE CallStack -----------------------------
(***************************************************************************)
(* The activations of a Smalltalk process, as a programmer thinks of them: *)
(* methods call methods and blocks, an activation returns to the one below *)
(* it, and a ^ in a block ends the method in which the block was written,  *)
(* together with everything above that.  ContextStack implements this in a *)
(* stretch of memory.                                                      *)
(***************************************************************************)
EXTENDS Naturals, Sequences

VARIABLE
    calls   \* for each activation, oldest first, the index of the one that
            \* a ^ in it would end: 0 if it is a method, or a block whose
            \* method has returned already

Top == calls[Len(calls)]
Below(k) == SubSeq(calls, 1, k - 1)

Init == calls = <<0>>

Call == calls # <<>> /\ calls' = Append(calls, 0)

(* The method that runs the block (value, value: ...) gives way to it.     *)
RunBlock ==
    /\ calls # <<>> /\ Top = 0
    /\ \E home \in 0 .. Len(calls) - 1 :
         calls' = Append(Below(Len(calls)), home)

Return == calls # <<>> /\ calls' = Below(Len(calls))

NonLocalReturn == calls # <<>> /\ Top # 0 /\ calls' = Below(Top)

Next == Call \/ RunBlock \/ Return \/ NonLocalReturn

Spec == Init /\ [][Next]_calls

=============================================================================
