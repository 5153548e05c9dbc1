------------------------------ MODULE RunQueue ------------------------------
(***************************************************************************)
(* The run queue of a CPU thread: the intrusive, singly linked list headed *)
(* by SchedulerOopDesc::runnable and chained through ProcessOopDesc::link, *)
(* with the operations of cmd/vm/Scheduling.cc and their assertions.       *)
(***************************************************************************)
EXTENDS Naturals, Sequences, FiniteSets

CONSTANTS
    Proc,       \* the Smalltalk processes
    NoProc      \* nil

ASSUME NoProcAssumption == NoProc \notin Proc /\ IsFiniteSet(Proc)

VARIABLES
    runnable,   \* the head of the list
    link,       \* ProcessOopDesc::link of every process
    curProc,    \* SchedulerOopDesc::curProc: what getNextForRunning returned
    aborted     \* an assertion failed, or nil was dereferenced

vars == <<runnable, link, curProc, aborted>>

-----------------------------------------------------------------------------
(* The k-th object met by a walk along the links.  A list without a cycle  *)
(* has reached nil after Cardinality(Proc) processes; the walk stays there *)
(* (so that Chain is a sequence).                                          *)
nth[k \in 1 .. Cardinality(Proc) + 1] ==
    IF k = 1 THEN runnable
    ELSE IF nth[k - 1] = NoProc THEN NoProc ELSE link[nth[k - 1]]

Chain == [k \in {j \in DOMAIN nth : nth[j] # NoProc} |-> nth[k]]

containedInList(p) == p \in {Chain[i] : i \in DOMAIN Chain}

-----------------------------------------------------------------------------
Init ==
    /\ runnable = NoProc
    /\ link = [p \in Proc |-> NoProc]
    /\ curProc = NoProc
    /\ aborted = FALSE

Abort ==
    /\ aborted' = TRUE
    /\ UNCHANGED <<runnable, link, curProc>>

\* Mutation: the new process is put in front of the list.
addToListFirst(p) ==
    /\ runnable' = p
    /\ link' = [link EXCEPT ![p] = runnable]

addToListLast(p) ==
    IF runnable = NoProc
      THEN /\ runnable' = p
           /\ UNCHANGED link
      ELSE /\ link' = [link EXCEPT ![Chain[Len(Chain)]] = p]
           /\ UNCHANGED runnable

\* Mutation: the removed process keeps its link.
removeKeepingLink(p) ==
    IF runnable = p
      THEN /\ runnable' = link[p]
           /\ UNCHANGED link
      ELSE \E node \in Proc :
             /\ containedInList(node) /\ link[node] = p
             /\ link' = [link EXCEPT ![node] = link[p]]
             /\ UNCHANGED runnable

removeFromList(p) ==
    IF runnable = p
      THEN /\ runnable' = link[p]
           /\ link' = [link EXCEPT ![p] = NoProc]
      ELSE \E node \in Proc :
             /\ containedInList(node) /\ link[node] = p
             /\ link' = [link EXCEPT ![node] = link[p], ![p] = NoProc]
             /\ UNCHANGED runnable

\* Mutation: only the link of the process is looked at, and the last process
\* of the list has none.
addTrustingLink(p) ==
    /\ ~aborted
    /\ IF link[p] # NoProc
         THEN Abort
         ELSE addToListLast(p) /\ UNCHANGED <<curProc, aborted>>

addProcToRunnables(p) ==
    /\ ~aborted
    /\ IF link[p] # NoProc \/ containedInList(p)
         THEN Abort
         ELSE addToListLast(p) /\ UNCHANGED <<curProc, aborted>>

\* Its documented precondition is that the process is in the list.
suspendProcess(p) ==
    /\ ~aborted
    /\ containedInList(p)
    /\ removeFromList(p)
    /\ UNCHANGED <<curProc, aborted>>

getNextForRunning ==
    /\ ~aborted
    /\ curProc' = runnable
    /\ IF runnable # NoProc
         THEN removeFromList(runnable)
         ELSE UNCHANGED <<runnable, link>>
    /\ UNCHANGED aborted

Next ==
    \/ \E p \in Proc : addProcToRunnables(p) \/ suspendProcess(p)
    \/ getNextForRunning

Spec == Init /\ [][Next]_vars

-----------------------------------------------------------------------------
(* The loops of addToListLast, removeFromList and containedInList end: no  *)
(* sequence of calls makes the list run into itself.                       *)
WalkTerminates == nth[Cardinality(Proc) + 1] = NoProc

(* A process outside the list has no link, so entering it again never runs *)
(* into addProcToRunnables' first assertion, nor drags a stale tail of the *)
(* old list into the new one; nobody links to it either.                   *)
OutsideUnlinked ==
    \A p \in Proc : ~containedInList(p) =>
        /\ link[p] = NoProc
        /\ p # runnable
        /\ \A q \in Proc : link[q] # p

(* The linked list is a FIFO queue of distinct processes: every operation  *)
(* has the effect its caller expects on the order of the processes, and    *)
(* the machine stops only when a process is entered that is already in it, *)
(* never because of a link left over by an earlier operation.              *)
Fifo == INSTANCE FifoQueue WITH queue <- Chain
ImplementsFifo == Fifo!Spec

=============================================================================
