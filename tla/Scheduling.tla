----------------------------- MODULE Scheduling -----------------------------
(***************************************************************************)
(* A CPU thread of the virtual machine: the scheduling loop, the virtual   *)
(* interrupt and the process primitives (cmd/vm/Scheduling.cc,             *)
(* Primitive.cc, and TESTCOUNTER of Interpreter.cc), under any program     *)
(* that the Smalltalk processes may run.                                   *)
(*                                                                         *)
(* The interpreter looks at the interrupt flag only when it begins a send, *)
(* primitive, binary operation, branch or return.  A step of a process is  *)
(* therefore the work from one such point to the next, and a pending       *)
(* interrupt is taken between two steps, never inside one.  The timer, on  *)
(* the event loop's thread, raises the flag at any time.                   *)
(*                                                                         *)
(* The queue is the abstract one of FifoQueue, which RunQueue implements.  *)
(***************************************************************************)
EXTENDS Naturals, Sequences

CONSTANTS
    Proc,               \* the Smalltalk processes
    NoProc,             \* nil
    FirstProc,          \* the process scheduleLoop makes for doStuff1
    TickWhileDisabled   \* may the time slice end while interrupts are disabled?

ASSUME ProcAssumption == NoProc \notin Proc /\ FirstProc \in Proc
ASSUME TickAssumption == TickWhileDisabled \in BOOLEAN

VARIABLES
    interruptFlag,          \* m_interruptFlag
    otherInterruptFlag,     \* m_otherInterruptFlag
    interruptsDisabled,     \* m_interruptsDisabled
    runnable,               \* the run queue, as a sequence
    curProc,                \* SchedulerOopDesc::curProc
    phase,                  \* where the interpreter thread is
    state,                  \* ProcessOopDesc::state
    life,                   \* how far each process has come
    aborted                 \* an assertion has failed

interruptVars == <<interruptFlag, otherInterruptFlag, interruptsDisabled>>
queueVars == <<runnable, curProc, phase>>
procVars == <<state, life>>
schedVars == <<interruptVars, queueVars, procVars, aborted>>

(* The values of ProcessOopDesc::state that the code tells apart.          *)
Suspended == 0
Active == 1
Waiting == 3

(* A process is "linked" if it was copied from one that stood in the queue *)
(* before another: the link was copied too.                                *)
Phases == {"schedule", "execute", "disabling", "exited", "wild"}
Lives == {"unborn", "created", "linked", "live", "done"}

Queued == {runnable[i] : i \in DOMAIN runnable}
Running(p) == phase \in {"execute", "disabling"} /\ curProc = p

(* Besides the types: nil is never executed, and the loop ends only when   *)
(* the queue is empty.                                                     *)
SchedTypeOK ==
    /\ interruptFlag \in BOOLEAN
    /\ otherInterruptFlag \in BOOLEAN
    /\ interruptsDisabled \in BOOLEAN
    /\ runnable \in Seq(Proc)
    /\ curProc \in Proc \cup {NoProc}
    /\ phase \in Phases
    /\ state \in [Proc -> {Suspended, Active, Waiting}]
    /\ life \in [Proc -> Lives]
    /\ aborted \in BOOLEAN
    /\ phase \in {"execute", "disabling"} => curProc \in Proc
    /\ phase = "exited" => runnable = <<>> /\ curProc = NoProc

-----------------------------------------------------------------------------
(* scheduleLoop has made the first process, queued it and started the      *)
(* timer.                                                                  *)
SchedInit ==
    /\ interruptFlag = FALSE
    /\ otherInterruptFlag = FALSE
    /\ interruptsDisabled = FALSE
    /\ runnable = <<FirstProc>>
    /\ curProc = NoProc
    /\ phase = "schedule"
    /\ state = [p \in Proc |-> Suspended]
    /\ life = [p \in Proc |-> IF p = FirstProc THEN "live" ELSE "unborn"]
    /\ aborted = FALSE

Abort ==
    /\ aborted' = TRUE
    /\ UNCHANGED <<interruptVars, queueVars, procVars>>

-----------------------------------------------------------------------------
(* The event loop's thread.  The timer repeats until scheduleLoop stops it *)
(* on its way out.                                                         *)
timeSliceCb ==
    /\ ~aborted /\ phase \notin {"exited", "wild"}
    /\ interruptsDisabled => TickWhileDisabled
    /\ interruptFlag' = TRUE
    /\ UNCHANGED <<otherInterruptFlag, interruptsDisabled, queueVars, procVars,
                   aborted>>

-----------------------------------------------------------------------------
(* The scheduling loop.                                                    *)
\* Mutation: nil is run like a process.
runNil ==
    /\ ~aborted /\ phase = "schedule"
    /\ phase' = "execute"
    /\ IF runnable = <<>>
         THEN curProc' = NoProc /\ UNCHANGED runnable
         ELSE curProc' = Head(runnable) /\ runnable' = Tail(runnable)
    /\ UNCHANGED <<interruptVars, procVars, aborted>>

(* A process that has finished has no context any more (its bp is nil): to *)
(* execute it reads what lies outside its stack.  Nothing is modelled of   *)
(* what follows, the phase "wild".                                         *)
getNextForRunning ==
    /\ ~aborted /\ phase = "schedule"
    /\ IF runnable = <<>>
         THEN /\ curProc' = NoProc
              /\ phase' = "exited"
              /\ UNCHANGED runnable
         ELSE /\ curProc' = Head(runnable)
              /\ runnable' = Tail(runnable)
              /\ phase' = IF life[Head(runnable)] = "done" THEN "wild" ELSE "execute"
    /\ UNCHANGED <<interruptVars, procVars, aborted>>

\* Mutation: the process is entered in front of the others.
addToListFirst(p) == <<p>> \o runnable
addToListLast(p) == Append(runnable, p)

\* Mutation: a process that waits goes back to the queue as well.
requeueAny(p) ==
    IF p \in Queued
      THEN Abort
      ELSE /\ runnable' = addToListLast(p)
           /\ phase' = "schedule"
           /\ interruptFlag' = FALSE
           /\ UNCHANGED <<otherInterruptFlag, interruptsDisabled, curProc,
                          procVars, aborted>>

(* execute returned 1: the process goes to the end of the queue unless it  *)
(* waits for something, and the interrupt is over.                         *)
requeue(p) ==
    IF state[p] # Waiting /\ p \in Queued
      THEN Abort
      ELSE /\ runnable' = IF state[p] = Waiting THEN runnable
                                                ELSE addToListLast(p)
           /\ phase' = "schedule"
           /\ interruptFlag' = FALSE
           /\ UNCHANGED <<otherInterruptFlag, interruptsDisabled, curProc,
                          procVars, aborted>>

timesliceDone ==
    /\ ~aborted /\ phase = "execute"
    /\ interruptFlag
    /\ requeue(curProc)

(* execute returned 0.                                                     *)
finish(p) ==
    /\ life' = [life EXCEPT ![p] = "done"]
    /\ phase' = "schedule"
    /\ interruptFlag' = FALSE
    /\ UNCHANGED <<otherInterruptFlag, interruptsDisabled, runnable, curProc,
                   state, aborted>>

-----------------------------------------------------------------------------
(* Interrupts, as the running process sees them.  Between TESTCOUNTER and  *)
(* the exchange in disableInterrupts the timer may still raise the flag:   *)
(* the phase "disabling" is that window.                                   *)
enterDisable ==
    /\ phase' = "disabling"
    /\ UNCHANGED <<interruptVars, runnable, curProc, procVars, aborted>>

\* Mutation: the flag is cleared, not kept for later.
disableForgetting ==
    /\ phase = "disabling"
    /\ interruptsDisabled' = TRUE
    /\ interruptFlag' = FALSE
    /\ phase' = "execute"
    /\ UNCHANGED <<otherInterruptFlag, runnable, curProc, procVars, aborted>>

\* Mutation: an interrupt raised in the window stays raised.
disableLate ==
    /\ phase = "disabling"
    /\ interruptsDisabled' = TRUE
    /\ phase' = "execute"
    /\ UNCHANGED <<interruptFlag, otherInterruptFlag, runnable, curProc,
                   procVars, aborted>>

disableInterrupts ==
    /\ phase = "disabling"
    /\ interruptsDisabled' = TRUE
    /\ interruptFlag' = FALSE
    /\ otherInterruptFlag' = (otherInterruptFlag \/ interruptFlag)
    /\ phase' = "execute"
    /\ UNCHANGED <<runnable, curProc, procVars, aborted>>

\* Mutation: the stored interrupt is delivered but also kept.
enableKeeping ==
    /\ interruptsDisabled' = FALSE
    /\ interruptFlag' = (interruptFlag \/ otherInterruptFlag)
    /\ UNCHANGED <<otherInterruptFlag, queueVars, procVars, aborted>>

enableInterrupts ==
    /\ interruptsDisabled' = FALSE
    /\ interruptFlag' = (interruptFlag \/ otherInterruptFlag)
    /\ otherInterruptFlag' = FALSE
    /\ UNCHANGED <<queueVars, procVars, aborted>>

(* yield asserts that interrupts are enabled; interrupt() then raises the  *)
(* flag that the next instruction of the process finds.                    *)
yield ==
    IF interruptsDisabled
      THEN Abort
      ELSE /\ interruptFlag' = TRUE
           /\ UNCHANGED <<otherInterruptFlag, interruptsDisabled, queueVars,
                          procVars, aborted>>

-----------------------------------------------------------------------------
(* The process primitives.  primProcResume activates the process, whatever *)
(* it does at the time, and enters it in the queue; addProcToRunnables     *)
(* asserts that it has no link and is not there.                           *)
\* Mutation: the queue is not searched for the process.
addUnchecked(q) ==
    /\ runnable' = addToListLast(q)
    /\ state' = [state EXCEPT ![q] = Active]
    /\ life' = [life EXCEPT ![q] = IF @ = "done" THEN "done" ELSE "live"]
    /\ UNCHANGED <<interruptVars, curProc, phase, aborted>>

procResume(q) ==
    IF q \in Queued \/ life[q] = "linked"
      THEN Abort
      ELSE /\ runnable' = addToListLast(q)
           /\ state' = [state EXCEPT ![q] = Active]
           /\ life' = [life EXCEPT ![q] = IF @ = "done" THEN "done" ELSE "live"]
           /\ UNCHANGED <<interruptVars, curProc, phase, aborted>>

(* primProcNewFork copies the running process, its state and link          *)
(* included.                                                               *)
HasLink(p) == p \in Queued /\ runnable[Len(runnable)] # p

procNewFork(p, q) ==
    /\ life[q] = "unborn"
    /\ life' = [life EXCEPT ![q] = IF HasLink(p) THEN "linked" ELSE "created"]
    /\ state' = [state EXCEPT ![q] = state[p]]
    /\ UNCHANGED <<interruptVars, queueVars, aborted>>

(* primNewProcessMessage allocates a fresh process.                        *)
newProcessMessage(q) ==
    /\ life[q] = "unborn"
    /\ life' = [life EXCEPT ![q] = "created"]
    /\ UNCHANGED <<interruptVars, queueVars, state, aborted>>

(* Process>>state:, which any program may send to any process it knows.    *)
setState(q, s) ==
    /\ life[q] # "unborn"
    /\ state' = [state EXCEPT ![q] = s]
    /\ UNCHANGED <<interruptVars, queueVars, life, aborted>>

-----------------------------------------------------------------------------
(* TESTCOUNTER has let the process p begin its next step.                  *)
CanStep(p) ==
    /\ ~aborted
    /\ phase = "execute" /\ curProc = p
    /\ ~interruptFlag

Disabling == ~aborted /\ disableInterrupts

(* One step of a process, whatever its program is.                         *)
Step(p) ==
    /\ CanStep(p)
    /\ \/ enterDisable
       \/ enableInterrupts
       \/ yield
       \/ finish(p)
       \/ \E q \in Proc :
            \/ life[q] # "unborn" /\ procResume(q)
            \/ procNewFork(p, q)
            \/ newProcessMessage(q)
            \/ \E s \in {Active, Waiting} : setState(q, s)

SchedNext ==
    \/ timeSliceCb
    \/ getNextForRunning
    \/ timesliceDone
    \/ Disabling
    \/ \E p \in Proc : Step(p)

(* The event loop's thread keeps running, and a timer of 0.1 s does not    *)
(* for ever expire within the few instructions of the "disabling" window;  *)
(* the scheduling loop itself never stops.  Nothing is assumed of the      *)
(* programs.                                                               *)
SchedFairness ==
    /\ SF_schedVars(phase = "execute" /\ timeSliceCb)
    /\ WF_schedVars(getNextForRunning)
    /\ WF_schedVars(timesliceDone)
    /\ WF_schedVars(Disabling)

SchedSpec == SchedInit /\ [][SchedNext]_schedVars
FairSchedSpec == SchedSpec /\ SchedFairness

-----------------------------------------------------------------------------
(* Each process is in one place only: the run queue never holds a process  *)
(* twice, nor the process that is running, nor one that has finished or    *)
(* was never started.                                                      *)
QueuedOnce == \A i, j \in DOMAIN runnable : runnable[i] = runnable[j] => i = j
OnePlace ==
    /\ QueuedOnce
    /\ \A p \in Queued : life[p] = "live" /\ ~Running(p)
    /\ \A p \in Proc : Running(p) => life[p] = "live"

(* primProcResume looks neither at who runs nor at who has finished, so a  *)
(* program can put such a process into the queue.  Nothing else that       *)
(* programs do with fork, resume, state:, yield and interrupts, and no     *)
(* step of the scheduling loop, takes a process out of its one place; and  *)
(* even then no process is queued twice.                                   *)
ResumedOutOfPlace ==
    \E q \in Proc :
        /\ Running(q) \/ life[q] = "done"
        /\ q \notin Queued /\ runnable' = Append(runnable, q)
        /\ UNCHANGED <<curProc, phase>>
OnePlaceKept ==
    [][(QueuedOnce => QueuedOnce') /\ (OnePlace => OnePlace' \/ ResumedOutOfPlace)]_schedVars

(* An interrupt is stored only while interrupts are disabled, so enabling  *)
(* them never leaves one behind that nobody will deliver.                  *)
StoredOnlyWhileDisabled == otherInterruptFlag => interruptsDisabled

(* Once raised, an interrupt stays pending, in one flag or the other,      *)
(* until the running process gives the processor up: no window between     *)
(* TESTCOUNTER, disableInterrupts and enableInterrupts loses a time slice. *)
InterruptPending == interruptFlag \/ otherInterruptFlag
PendingUntilSwitch ==
    [][InterruptPending => InterruptPending' \/ phase' \in {"schedule", "exited"}]_schedVars

(* Round robin: a queued process runs again whatever the others do,        *)
(* disabling interrupts for ever included, unless the machine stops or     *)
(* executes a process that has finished.                                   *)
RoundRobin == \A p \in Proc : p \in Queued ~> (Running(p) \/ aborted \/ phase = "wild")

(* First come, first served: the queue changes only by entering a process  *)
(* at its end or by taking the first one, which is the one to run next, so *)
(* no process is ever overtaken by one that became runnable after it, nor  *)
(* dropped.  (FifoQueue also lets a process leave, for suspendProcess,     *)
(* which nobody calls.)                                                    *)
Fifo == INSTANCE FifoQueue WITH queue <- runnable, aborted <- FALSE
FirstComeFirstServed ==
    [][(\E p \in Proc : Fifo!Enter(p)) \/ Fifo!Take \/ Fifo!TakeNone]_(Fifo!fifoVars)

=============================================================================
