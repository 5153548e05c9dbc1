----------------------------- MODULE Semaphore -----------------------------
(***************************************************************************)
(* Smalltalk processes that share a Semaphore                              *)
(* (lib/system/Kernel-Processes/Semaphore.st, Scheduler.st, Process.st) on *)
(* the scheduler of Scheduling.  Every process repeats                     *)
(*     sem critical: [ ... ]                                               *)
(* and may fork others, yield, or come to its end outside the section.     *)
(*                                                                         *)
(* A label of pc stands for the next point at which the interpreter looks  *)
(* at the interrupt flag.  `count <- count - 1' is two steps: the          *)
(* receiver is loaded into a register before the binary operation's        *)
(* TESTCOUNTER, and the sum is stored after it.                            *)
(*                                                                         *)
(* The timer does not look at m_interruptsDisabled: a time slice may end   *)
(* in the middle of a critical section, and what the semaphore promises is *)
(* then lost.  The variables ticked and cut are not in the code; cut       *)
(* remembers that this has happened, and ticked keeps it to the time       *)
(* slices that end because of a tick with interrupts disabled.             *)
(***************************************************************************)
EXTENDS Scheduling, Integers, FiniteSets

CONSTANT Permits        \* the initial count; 1 in forMutualExclusion

ASSUME PermitsAssumption == Permits \in Nat \ {0}

VARIABLES
    count,      \* Semaphore's count
    waiters,    \* Semaphore's waiters, a List
    pc,         \* the next step of each process
    reg,        \* the register that holds the count read by each process
    who,        \* the firstWaiter of each process' signal
                \* (both cleared once they are dead)
    ticked,     \* history: the flag was raised by a tick that came with
                \* interrupts disabled
    cut         \* history: such a tick has ended a time slice

semaphore == <<count, waiters>>
locals == <<reg, who>>
vars == <<schedVars, semaphore, pc, locals, ticked, cut>>

WaitKernel == {"w_load", "w_store", "w_add", "w_state", "w_enable", "w_leave"}
SignalKernel == {"s_load", "s_store", "s_first", "s_remove", "s_activate",
                 "s_resume", "s_enable"}
Labels == {"idle", "w_disable", "w_yield", "w_return", "section", "s_disable"}
              \cup WaitKernel \cup SignalKernel

InKernel(p) == pc[p] \in WaitKernel \cup SignalKernel

TypeOK ==
    /\ SchedTypeOK
    /\ count \in Int
    /\ waiters \in Seq(Proc)
    /\ pc \in [Proc -> Labels]
    /\ reg \in [Proc -> Int]
    /\ who \in [Proc -> Proc \cup {NoProc}]

Init ==
    /\ SchedInit
    /\ count = Permits
    /\ waiters = <<>>
    /\ pc = [p \in Proc |-> "idle"]
    /\ reg = [p \in Proc |-> 0]
    /\ who = [p \in Proc |-> NoProc]
    /\ ticked = FALSE
    /\ cut = FALSE

-----------------------------------------------------------------------------
At(p, label) == CanStep(p) /\ pc[p] = label
Goto(p, label) == pc' = [pc EXCEPT ![p] = label]

(* The steps of the rest of the program that matter here.                  *)
Idle(p) ==
    /\ At(p, "idle")
    /\ \/ Goto(p, "w_disable") /\ UNCHANGED schedVars
       \/ UNCHANGED pc /\ yield
       \/ UNCHANGED pc /\ finish(p)
       \/ UNCHANGED pc /\ \E q \in Proc : procNewFork(p, q)
       \/ UNCHANGED pc /\ \E q \in Proc : life[q] = "created" /\ procResume(q)
    /\ UNCHANGED <<semaphore, locals>>

(* A call of disableInterrupts: TESTCOUNTER, then the primitive.           *)
StartDisable(p) ==
    /\ CanStep(p)
    /\ pc[p] \in {"w_disable", "s_disable"}
    /\ enterDisable
    /\ UNCHANGED <<semaphore, pc, locals>>

FinishDisable(p) ==
    /\ ~aborted /\ curProc = p
    /\ disableInterrupts
    /\ \/ pc[p] = "w_disable" /\ Goto(p, "w_load")
       \/ pc[p] = "s_disable" /\ Goto(p, "s_load")
    /\ UNCHANGED <<semaphore, locals>>

-----------------------------------------------------------------------------
(* Semaphore>>wait                                                         *)
LoadCount(p) ==
    /\ \/ At(p, "w_load") /\ Goto(p, "w_store")
       \/ At(p, "s_load") /\ Goto(p, "s_store")
    /\ reg' = [reg EXCEPT ![p] = count]
    /\ UNCHANGED <<schedVars, semaphore, who>>

\* Mutation: a process waits only when another one waits already.
storeLenient(p) ==
    /\ At(p, "w_store")
    /\ count' = reg[p] - 1
    /\ Goto(p, IF reg[p] - 1 < -1 THEN "w_add" ELSE "w_leave")
    /\ reg' = [reg EXCEPT ![p] = 0]
    /\ UNCHANGED <<schedVars, waiters, who>>

WaitStore(p) ==
    /\ At(p, "w_store")
    /\ count' = reg[p] - 1
    /\ Goto(p, IF reg[p] - 1 < 0 THEN "w_add" ELSE "w_leave")
    /\ reg' = [reg EXCEPT ![p] = 0]
    /\ UNCHANGED <<schedVars, waiters, who>>

\* Mutation: the new waiter replaces the list.
addOnly(p) ==
    /\ At(p, "w_add")
    /\ waiters' = <<p>>
    /\ Goto(p, "w_state")
    /\ UNCHANGED <<schedVars, count, locals>>

\* Mutation: the new waiter comes first.
addFirst(p) ==
    /\ At(p, "w_add")
    /\ waiters' = <<p>> \o waiters
    /\ Goto(p, "w_state")
    /\ UNCHANGED <<schedVars, count, locals>>

WaitAdd(p) ==
    /\ At(p, "w_add")
    /\ waiters' = Append(waiters, p)
    /\ Goto(p, "w_state")
    /\ UNCHANGED <<schedVars, count, locals>>

WaitState(p) ==
    /\ At(p, "w_state")
    /\ setState(p, Waiting)
    /\ Goto(p, "w_enable")
    /\ UNCHANGED <<semaphore, locals>>

WaitYield(p) ==
    /\ At(p, "w_yield")
    /\ yield
    /\ Goto(p, "w_return")
    /\ UNCHANGED <<semaphore, locals>>

WaitReturn(p) ==
    /\ At(p, "w_return")
    /\ Goto(p, "section")
    /\ UNCHANGED <<schedVars, semaphore, locals>>

Enable(p) ==
    /\ \/ At(p, "w_enable") /\ Goto(p, "w_yield")
       \/ At(p, "w_leave") /\ Goto(p, "w_return")
       \/ At(p, "s_enable") /\ Goto(p, "idle")
    /\ enableInterrupts
    /\ UNCHANGED <<semaphore, locals>>

-----------------------------------------------------------------------------
(* The end of the critical block, and Semaphore>>signal                    *)
LeaveSection(p) ==
    /\ At(p, "section")
    /\ Goto(p, "s_disable")
    /\ UNCHANGED <<schedVars, semaphore, locals>>

\* Mutation: the last waiter of all is not woken.
storeStrict(p) ==
    /\ At(p, "s_store")
    /\ count' = reg[p] + 1
    /\ Goto(p, IF reg[p] + 1 < 0 THEN "s_first" ELSE "s_enable")
    /\ reg' = [reg EXCEPT ![p] = 0]
    /\ UNCHANGED <<schedVars, waiters, who>>

SignalStore(p) ==
    /\ At(p, "s_store")
    /\ count' = reg[p] + 1
    /\ Goto(p, IF reg[p] + 1 <= 0 THEN "s_first" ELSE "s_enable")
    /\ reg' = [reg EXCEPT ![p] = 0]
    /\ UNCHANGED <<schedVars, waiters, who>>

(* `first' of an empty List is an error that ends in an unknown selector,  *)
(* for which lookupMethod aborts.                                          *)
SignalFirst(p) ==
    /\ At(p, "s_first")
    /\ IF waiters = <<>>
         THEN Abort /\ UNCHANGED <<pc, who>>
         ELSE /\ who' = [who EXCEPT ![p] = Head(waiters)]
              /\ Goto(p, "s_remove")
              /\ UNCHANGED schedVars
    /\ UNCHANGED <<semaphore, reg>>

SignalRemove(p) ==
    /\ At(p, "s_remove")
    /\ IF waiters = <<>>
         THEN Abort /\ UNCHANGED <<pc, waiters>>
         ELSE /\ waiters' = Tail(waiters)
              /\ Goto(p, "s_activate")
              /\ UNCHANGED schedVars
    /\ UNCHANGED <<count, locals>>

(* Process>>receiveEvent:; EventQueue has another class of waiters.        *)
SignalActivate(p) ==
    /\ At(p, "s_activate")
    /\ who[p] \in Proc
    /\ setState(who[p], Active)
    /\ Goto(p, "s_resume")
    /\ UNCHANGED <<semaphore, locals>>

SignalResume(p) ==
    /\ At(p, "s_resume")
    /\ procResume(who[p])
    /\ Goto(p, "s_enable")
    /\ who' = [who EXCEPT ![p] = NoProc]
    /\ UNCHANGED <<semaphore, reg>>

-----------------------------------------------------------------------------
SemStep(p) ==
    /\ \/ Idle(p)
       \/ StartDisable(p) \/ FinishDisable(p)
       \/ LoadCount(p) \/ WaitStore(p) \/ WaitAdd(p) \/ WaitState(p)
       \/ WaitYield(p) \/ WaitReturn(p)
       \/ Enable(p)
       \/ LeaveSection(p)
       \/ SignalStore(p) \/ SignalFirst(p) \/ SignalRemove(p)
       \/ SignalActivate(p) \/ SignalResume(p)
    /\ ticked' = (ticked /\ interruptFlag')
    /\ UNCHANGED cut

TickInside == interruptsDisabled /\ ~interruptFlag /\ interruptFlag'
CutShort == ticked /\ phase = "execute" /\ phase' = "schedule"
TickSeen == interruptsDisabled /\ interruptFlag => ticked

System ==
    /\ timeSliceCb \/ getNextForRunning \/ timesliceDone
    /\ ticked' = (interruptFlag' /\ (ticked \/ TickInside))
    /\ cut' = (cut \/ CutShort)
    /\ UNCHANGED <<semaphore, pc, locals>>

Next == System \/ \E p \in Proc : SemStep(p)

Spec == Init /\ [][Next]_vars

(* The same up to the first time that a section is cut short.  The time    *)
(* slices keep coming, and the scheduling loop runs.  A slice is long      *)
(* enough for an instruction: the timer does not expire every time between *)
(* the end of one slice and the start of the next (the second conjunct),   *)
(* nor every time before the process takes a step (the last).  The last    *)
(* one also says that critical blocks come to an end.                      *)
Fairness ==
    /\ SF_vars(~cut /\ phase = "execute" /\ System /\ phase' = "execute")
    /\ \A p \in Proc : SF_vars(/\ ~cut /\ System
                               /\ phase = "schedule" /\ phase' = "execute"
                               /\ curProc' = p /\ ~interruptFlag)
    /\ WF_vars(~cut /\ System /\ phase' # phase)
    /\ \A p \in Proc : SF_vars(~cut /\ SemStep(p))

FairSpec == Init /\ [][~cut /\ Next]_vars /\ Fairness

-----------------------------------------------------------------------------
(* With the timer as it is, the following holds until a tick that came     *)
(* with interrupts disabled ends a time slice: nothing else that the       *)
(* processes, the timer and the scheduling loop do breaks it.              *)

(* The code between disableInterrupts and enableInterrupts excludes every  *)
(* other process from such code: m_interruptsDisabled and the exchange in  *)
(* disableInterrupts suffice, although nobody takes a lock.                *)
OneInKernel == \A p, q \in Proc : InKernel(p) /\ InKernel(q) => p = q
KernelExclusive == cut \/ OneInKernel

(* Semaphore critical: at most Permits processes are inside the block.     *)
InSection(p) == pc[p] \in {"section", "s_disable"}
Inside == {p \in Proc : InSection(p)}
MutualExclusion == cut \/ Cardinality(Inside) <= Permits

(* No assertion fails: a process is never entered twice in the run queue,  *)
(* interrupts are enabled at each yield, and a signal that finds the count *)
(* at or below zero finds a waiter.                                        *)
NoAbort == cut \/ ~aborted

(* No lost wakeup: a process that is neither running nor queued is in the  *)
(* list of waiters, or is being taken from it by a signal in progress.     *)
Asleep(p) == life[p] = "live" /\ ~Running(p) /\ p \notin Queued
SleepersListed ==
    \A p \in Proc : Asleep(p) =>
        \/ p \in {waiters[i] : i \in DOMAIN waiters}
        \/ \E q \in Proc : /\ pc[q] \in {"s_activate", "s_resume"}
                           /\ who[q] = p
NoLostWakeup == cut \/ SleepersListed

(* Nobody waits for ever to enter the critical block.                      *)
StarvationFree == \A p \in Proc : pc[p] = "w_load" ~> InSection(p) \/ cut

(* The semaphore as its users see it.  A waiting process joins the line as *)
(* it stores the count; a signal hands its permit over as it does.         *)
blockedBar ==
    LET removing == \E q \in Proc : pc[q] \in {"s_first", "s_remove"}
        joining == {q \in Proc : pc[q] = "w_add"}
        line == IF removing /\ waiters # <<>> THEN Tail(waiters) ELSE waiters
    IN IF joining = {} THEN line
       ELSE Append(line, CHOOSE q \in Proc : q \in joining)
holdersBar ==
    {p \in Proc :
        /\ pc[p] \in {"w_add", "w_state", "w_enable", "w_yield", "w_leave",
                      "w_return", "section", "s_disable", "s_load", "s_store"}
        /\ p \notin {blockedBar[i] : i \in DOMAIN blockedBar}}
freeBar == IF count > 0 THEN count ELSE 0

Abstract == INSTANCE FifoSemaphore
                WITH free <- freeBar, holders <- holdersBar, blocked <- blockedBar
ImplementsSemaphore ==
    Abstract!Init /\ [][Abstract!Next \/ cut']_(Abstract!semVars)

=============================================================================
