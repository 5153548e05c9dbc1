----------------------------- MODULE FifoQueue -----------------------------
(***************************************************************************)
(* What the run queue of cmd/vm/Scheduling.cc promises to its callers: the *)
(* runnable processes in the order in which they became runnable, each of  *)
(* them once.  Entering a process that is already queued stops the virtual *)
(* machine.                                                                *)
(* RunQueue implements this module with the intrusive list of the source;  *)
(* Scheduling uses the queue in this abstract form.                        *)
(***************************************************************************)
EXTENDS SequencesExt

CONSTANTS
    Proc,       \* the Smalltalk processes
    NoProc      \* nil, not in Proc

VARIABLES
    queue,      \* the runnable processes, next to run first
    curProc,    \* the process last taken from the queue, or NoProc
    aborted     \* an assertion has stopped the machine

fifoVars == <<queue, curProc, aborted>>

Queued == {queue[i] : i \in DOMAIN queue}

Init ==
    /\ queue = <<>>
    /\ curProc = NoProc
    /\ aborted = FALSE

EnterTwice(p) ==
    /\ ~aborted
    /\ p \in Queued
    /\ aborted' = TRUE
    /\ UNCHANGED <<queue, curProc>>

Enter(p) ==
    /\ ~aborted
    /\ p \notin Queued
    /\ queue' = Append(queue, p)
    /\ UNCHANGED <<curProc, aborted>>

Take ==
    /\ ~aborted
    /\ queue # <<>>
    /\ curProc' = Head(queue)
    /\ queue' = Tail(queue)
    /\ UNCHANGED aborted

TakeNone ==
    /\ ~aborted
    /\ queue = <<>>
    /\ curProc' = NoProc
    /\ UNCHANGED <<queue, aborted>>

Leave(p) ==
    /\ ~aborted
    /\ \E i \in DOMAIN queue : queue[i] = p /\ queue' = RemoveAt(queue, i)
    /\ UNCHANGED <<curProc, aborted>>

Next ==
    \/ \E p \in Proc : Enter(p) \/ EnterTwice(p) \/ Leave(p)
    \/ Take
    \/ TakeNone

Spec == Init /\ [][Next]_fifoVars

=============================================================================
