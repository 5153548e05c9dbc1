-------------------------- MODULE Semaphore_proofs --------------------------
(***************************************************************************)
(* Proofs about Semaphore, for every set of processes and every number of  *)
(* permits, of what holds until a tick that came with interrupts disabled  *)
(* ends a time slice (the variable cut).  The timer raises the flag when   *)
(* it likes; nothing is assumed of it.                                     *)
(***************************************************************************)
EXTENDS Semaphore, Scheduling_proofs, FiniteSetTheorems

(* The processes in the list of waiters.                                   *)
Waiters == {waiters[i] : i \in DOMAIN waiters}
WaitersDistinct == \A i, j \in DOMAIN waiters : waiters[i] = waiters[j] => i = j

(* Interrupts are disabled exactly while the running process is between    *)
(* disableInterrupts and enableInterrupts.                                 *)
KernelHeld ==
    /\ \A p \in Proc : InKernel(p) => /\ phase = "execute" /\ curProc = p
                                      /\ interruptsDisabled
    /\ interruptsDisabled => curProc \in Proc /\ InKernel(curProc)

(* A process in the list is on its way to sleep or asleep; it does not get *)
(* past its yield while it is in the list.                                 *)
WaitersParked ==
    \A q \in Waiters :
        /\ q \in Proc /\ life[q] = "live" /\ q \notin Queued
        /\ pc[q] \in {"w_state", "w_enable", "w_yield", "w_return"}
        /\ pc[q] # "w_state" => state[q] = Waiting
        /\ pc[q] = "w_return" /\ Running(q) => interruptFlag

WaitingListed ==
    /\ \A p \in Proc : pc[p] \in {"w_state", "w_enable"} => p \in Waiters
    /\ \A q \in Proc : state[q] = Waiting =>
         \/ q \in Waiters
         \/ \E p \in Proc : pc[p] = "s_activate" /\ who[p] = q

(* What a signal in progress knows of the process that it wakes.           *)
SignalKnows ==
    \A p \in Proc :
        /\ pc[p] = "s_remove" => waiters # <<>> /\ who[p] = Head(waiters)
        /\ pc[p] \in {"s_activate", "s_resume"} =>
             /\ who[p] \in Proc /\ life[who[p]] = "live"
             /\ ~Running(who[p]) /\ who[p] \notin Queued \cup Waiters

(* The count against the number of waiters, at each step of the code that  *)
(* changes them.                                                           *)
Adding == \E p \in Proc : pc[p] = "w_add"
Removing == \E p \in Proc : pc[p] \in {"s_first", "s_remove"}
CountMatches ==
    /\ \A p \in Proc : pc[p] \in {"w_store", "s_store"} => reg[p] = count
    /\ Adding => count < 0 /\ Len(waiters) = -count - 1
    /\ Removing => count <= 0 /\ Len(waiters) = -count + 1
    /\ ~Adding /\ ~Removing => Len(waiters) = IF count < 0 THEN -count ELSE 0

(* Each permit is free, held, or on its way from one holder to the next.   *)
Holders ==
    {p \in Proc : /\ pc[p] \in {"w_yield", "w_leave", "w_return", "section",
                                "s_disable", "s_load", "s_store"}
                  /\ p \notin Waiters}
Spare == (IF count > 0 THEN count ELSE 0) + (IF Removing THEN 1 ELSE 0)
PermitsKept == IsFiniteSet(Holders) /\ Cardinality(Holders) + Spare = Permits

Unaborted == ~aborted
SemInv ==
    /\ TypeOK /\ SchedInv /\ Unaborted
    /\ KernelHeld
    /\ WaitersDistinct /\ WaitersParked /\ WaitingListed /\ SignalKnows
    /\ CountMatches /\ PermitsKept
    /\ SleepersListed

-----------------------------------------------------------------------------
(* The running process is alone in the code that disables interrupts.      *)
LEMMA OnlyRunningInKernel ==
    ASSUME KernelHeld, NEW p \in Proc, curProc = p
    PROVE  \A q \in Proc : InKernel(q) => q = p
BY DEF KernelHeld

LEMMA NobodyInKernel ==
    ASSUME KernelHeld, phase # "execute" \/ ~interruptsDisabled
    PROVE  /\ \A p \in Proc : ~InKernel(p)
           /\ ~interruptsDisabled
BY DEF KernelHeld

(* What holds of the semaphore is not disturbed by a step that leaves it   *)
(* and the processes' labels alone.                                        *)
LEMMA SemaphoreUntouched ==
    ASSUME SemInv, UNCHANGED <<semaphore, pc, locals>>
    PROVE  WaitersDistinct' /\ CountMatches' /\ PermitsKept' /\ Waiters' = Waiters
<1>1. WaitersDistinct' /\ Waiters' = Waiters
  BY DEF SemInv, semaphore, WaitersDistinct, Waiters
<1>2. CountMatches'
  BY DEF SemInv, semaphore, locals, CountMatches, Adding, Removing
<1>3. Holders' = Holders /\ Removing' = Removing /\ count' = count
  BY <1>1 DEF semaphore, Holders, Removing
<1>4. PermitsKept'
  BY <1>3 DEF SemInv, PermitsKept, Spare
<1> QED BY <1>1, <1>2, <1>4

LEMMA SemTick ==
    ASSUME SemInv, timeSliceCb,
           UNCHANGED <<semaphore, pc, locals>>
    PROVE  SemInv'
<1> USE DEF timeSliceCb, queueVars, procVars
<1>1. SchedInv'
  BY InvTick DEF SemInv
<1>2. TypeOK'
  BY <1>1 DEF SemInv, TypeOK, SchedInv, semaphore, locals
<1>4. KernelHeld'
  BY DEF SemInv, KernelHeld, InKernel
<1>5. WaitersDistinct' /\ CountMatches' /\ PermitsKept' /\ Waiters' = Waiters
  BY SemaphoreUntouched
<1>6. Queued' = Queued /\ \A p \in Proc : Running(p)' = Running(p)
  BY DEF Queued, Running
<1>7. WaitersParked'
  BY <1>5, <1>6 DEF SemInv, WaitersParked
<1>8. WaitingListed'
  BY <1>5 DEF SemInv, WaitingListed, locals
<1>9. SignalKnows'
  BY <1>5, <1>6 DEF SemInv, SignalKnows, locals, semaphore
<1>10. SleepersListed'
  BY <1>5, <1>6 DEF SemInv, SleepersListed, Asleep, locals, Waiters
<1>11. Unaborted'
  BY DEF SemInv, Unaborted
<1> QED BY <1>1, <1>2, <1>4, <1>5, <1>7, <1>8, <1>9, <1>10, <1>11 DEF SemInv

LEMMA SemGetNext ==
    ASSUME SemInv, getNextForRunning, UNCHANGED <<semaphore, pc, locals>>
    PROVE  SemInv'
<1> USE DEF getNextForRunning, interruptVars, procVars
<1>1. SchedInv'
  BY InvGetNext DEF SemInv
<1>2. TypeOK'
  BY <1>1 DEF SemInv, TypeOK, SchedInv, semaphore, locals
<1>3. (\A p \in Proc : ~InKernel(p)) /\ ~interruptsDisabled
  BY NobodyInKernel DEF SemInv
<1>4. KernelHeld'
  BY <1>3 DEF KernelHeld, InKernel
<1>5. WaitersDistinct' /\ CountMatches' /\ PermitsKept' /\ Waiters' = Waiters
  BY SemaphoreUntouched
<1>6. \A p \in Proc : Running(p)' => p \in Queued
  <2>1. CASE runnable = <<>>
    BY <2>1 DEF Running
  <2>2. CASE runnable # <<>>
    BY <2>2, TakeFromQueue DEF SemInv, Running
  <2> QED BY <2>1, <2>2
<1>7. /\ Queued' \subseteq Queued
      /\ \A p \in Proc : p \in Queued \ Queued' => Running(p)'
  <2>1. CASE runnable = <<>>
    BY <2>1 DEF Queued
  <2>2. CASE runnable # <<>>
    BY <2>2, TakeFromQueue DEF SemInv, Running
  <2> QED BY <2>1, <2>2
<1>8. WaitersParked'
  BY <1>5, <1>6, <1>7 DEF SemInv, WaitersParked
<1>9. WaitingListed'
  BY <1>5 DEF SemInv, WaitingListed, locals
<1>10. SignalKnows'
  BY <1>3 DEF SignalKnows, InKernel, SignalKernel
<1>11. \A p \in Proc : ~Running(p)
  BY DEF Running
<1>12. SleepersListed'
  BY <1>5, <1>7, <1>11 DEF SemInv, SleepersListed, Asleep, locals, Waiters
<1>13. Unaborted'
  BY DEF SemInv, Unaborted
<1> QED BY <1>1, <1>2, <1>4, <1>5, <1>8, <1>9, <1>10, <1>12, <1>13 DEF SemInv

LEMMA SemTimeslice ==
    ASSUME SemInv, timesliceDone, ~interruptsDisabled, UNCHANGED <<semaphore, pc, locals>>
    PROVE  SemInv'
<1> DEFINE p == curProc
<1>1. SchedInv'
  BY InvTimeslice DEF SemInv
<1>2. TypeOK'
  BY <1>1 DEF SemInv, TypeOK, SchedInv, semaphore, locals
<1>4. p \in Proc /\ Running(p) /\ p \notin Queued /\ life[p] = "live"
  BY DEF timesliceDone, SemInv, SchedInv, SchedTypeOK, OnePlace, Running
<1>5. /\ phase' = "schedule" /\ interruptFlag' = FALSE
      /\ UNCHANGED <<otherInterruptFlag, interruptsDisabled, curProc, state, life, aborted>>
      /\ runnable' = IF state[p] = Waiting THEN runnable ELSE addToListLast(p)
  BY <1>4 DEF timesliceDone, requeue, procVars
<1>3. (\A q \in Proc : ~InKernel(q)) /\ ~interruptsDisabled
  BY <1>5, NobodyInKernel DEF SemInv
<1>6. KernelHeld'
  BY <1>3, <1>5 DEF KernelHeld, InKernel
<1>7. WaitersDistinct' /\ CountMatches' /\ PermitsKept' /\ Waiters' = Waiters
  BY SemaphoreUntouched
<1>8. Queued' = IF state[p] = Waiting THEN Queued ELSE Queued \cup {p}
  <2>1. CASE state[p] = Waiting
    BY <2>1, <1>5 DEF Queued
  <2>2. CASE state[p] # Waiting
    BY <2>2, <1>4, <1>5, EnterQueue DEF SemInv
  <2> QED BY <2>1, <2>2
<1>9. \A q \in Proc : ~Running(q)'
  BY <1>5 DEF Running
<1>10. p \in Waiters => state[p] = Waiting
  BY <1>3, <1>4 DEF SemInv, WaitersParked, InKernel, WaitKernel
<1>11. WaitersParked'
  BY <1>5, <1>7, <1>8, <1>9, <1>10 DEF SemInv, WaitersParked
<1>12. WaitingListed'
  BY <1>5, <1>7 DEF SemInv, WaitingListed, locals
<1>13. SignalKnows'
  BY <1>3 DEF SignalKnows, InKernel, SignalKernel
<1>14. state[p] = Waiting => p \in Waiters
  BY <1>3, <1>4 DEF SemInv, WaitingListed, InKernel, SignalKernel
<1>15. SleepersListed'
  <2> SUFFICES ASSUME NEW q \in Proc, Asleep(q)'
               PROVE  \/ q \in Waiters
                      \/ \E r \in Proc : pc[r] \in {"s_activate", "s_resume"} /\ who[r] = q
    BY <1>7 DEF SleepersListed, locals, Waiters
  <2>1. CASE q = p
    BY <2>1, <1>5, <1>8, <1>14 DEF Asleep
  <2>2. CASE q # p
    <3>1. Asleep(q)
      BY <2>2, <1>4, <1>5, <1>8 DEF Asleep, Running
    <3> QED BY <3>1 DEF SemInv, SleepersListed, Waiters
  <2> QED BY <2>1, <2>2
<1>16. Unaborted'
  BY <1>5 DEF SemInv, Unaborted
<1> QED BY <1>1, <1>2, <1>6, <1>7, <1>11, <1>12, <1>13, <1>15, <1>16 DEF SemInv

-----------------------------------------------------------------------------
(* What a process that can take a step knows of itself.                    *)
LEMMA RunningNow ==
    ASSUME SemInv, NEW p \in Proc, CanStep(p)
    PROVE  /\ phase = "execute" /\ curProc = p /\ ~aborted /\ ~interruptFlag
           /\ Running(p) /\ p \notin Queued /\ life[p] = "live"
           /\ \A q \in Proc : Running(q) => q = p
BY DEF CanStep, Running, SemInv, SchedInv, OnePlace

(* A step that leaves the sleeping processes asleep, and the others awake. *)
SleepersKept ==
    /\ \A q \in Waiters : /\ life'[q] = life[q] /\ q \notin Queued'
                          /\ Running(q)' => Running(q)
                          /\ state[q] = Waiting => state'[q] = Waiting
    /\ \A q \in Proc : /\ state'[q] = Waiting => state[q] = Waiting
                       /\ Asleep(q)' => Asleep(q)

(* The steps of the scheduler that a process outside the kernel may take.  *)
LEMMA IdleKeepsSleepers ==
    ASSUME SemInv, NEW p \in Proc, CanStep(p), ~InKernel(p), p \notin Waiters,
           state[p] # Waiting,
           \/ UNCHANGED schedVars
           \/ yield
           \/ finish(p)
           \/ \E q \in Proc : procNewFork(p, q)
           \/ \E q \in Proc : life[q] = "created" /\ procResume(q)
    PROVE  SchedInv' /\ ~aborted' /\ UNCHANGED interruptsDisabled /\ SleepersKept
<1> USE DEF SemInv
<1>1. /\ phase = "execute" /\ curProc = p /\ ~aborted /\ ~interruptFlag
      /\ Running(p) /\ p \notin Queued /\ life[p] = "live"
      /\ \A q \in Proc : Running(q) => q = p
  BY RunningNow
<1>2. ~interruptsDisabled
  BY <1>1 DEF KernelHeld
<1>3. \A q \in Waiters : q \in Proc /\ q # p /\ life[q] = "live" /\ q \notin Queued
  BY DEF WaitersParked
<1>4. life \in [Proc -> Lives] /\ state \in [Proc -> {Suspended, Active, Waiting}]
  BY DEF SchedInv, SchedTypeOK
<1>5. CASE UNCHANGED schedVars
  <2>1. SchedInv'
    BY <1>5, InvStutter
  <2> QED BY <2>1, <1>1, <1>3, <1>5
          DEF SleepersKept, schedVars, interruptVars, queueVars, procVars,
              Queued, Running, Asleep
<1>6. CASE yield
  <2>1. SchedInv'
    BY <1>6, InvInterruptCalls
  <2> QED BY <2>1, <1>1, <1>2, <1>3, <1>6
          DEF SleepersKept, yield, queueVars, procVars, Queued, Running, Asleep
<1>7. CASE finish(p)
  <2>1. SchedInv'
    BY <1>7, InvFinish
  <2>2. /\ phase' = "schedule"
        /\ UNCHANGED <<interruptsDisabled, runnable, curProc, state, aborted>>
        /\ life' = [life EXCEPT ![p] = "done"]
    BY <1>7 DEF finish
  <2>3. Queued' = Queued /\ \A q \in Proc : ~Running(q)'
    BY <2>2 DEF Queued, Running
  <2>4. \A q \in Proc : Asleep(q)' => Asleep(q)
    BY <2>2, <2>3, <1>1, <1>4 DEF Asleep
  <2> QED BY <2>1, <2>2, <2>3, <2>4, <1>1, <1>3, <1>4 DEF SleepersKept
<1>8. ASSUME NEW q \in Proc, procNewFork(p, q)
      PROVE  SchedInv' /\ ~aborted' /\ UNCHANGED interruptsDisabled /\ SleepersKept
  <2>1. SchedInv'
    BY <1>8, InvNewProcess
  <2>2. /\ UNCHANGED <<interruptsDisabled, aborted>>
        /\ life[q] = "unborn" /\ life' = [life EXCEPT ![q] = "created"]
        /\ state' = [state EXCEPT ![q] = state[p]]
        /\ Queued' = Queued /\ \A r \in Proc : Running(r)' = Running(r)
    BY <1>1, <1>8 DEF procNewFork, HasLink, interruptVars, queueVars, Queued, Running
  <2>3. \A r \in Proc : Asleep(r)' => Asleep(r)
    BY <2>2, <1>4 DEF Asleep
  <2> QED BY <2>1, <2>2, <2>3, <1>1, <1>3, <1>4 DEF SleepersKept
<1>9. ASSUME NEW q \in Proc, life[q] = "created", procResume(q)
      PROVE  SchedInv' /\ ~aborted' /\ UNCHANGED interruptsDisabled /\ SleepersKept
  <2>2. q \notin Queued /\ q # p
    BY <1>1, <1>9 DEF SchedInv, OnePlace
  <2>1. SchedInv'
    BY <1>1, <1>9, <2>2, InvResume
  <2>3. /\ runnable' = addToListLast(q)
        /\ UNCHANGED <<interruptsDisabled, curProc, phase, aborted>>
        /\ life' = [life EXCEPT ![q] = "live"]
        /\ state' = [state EXCEPT ![q] = Active]
        /\ \A r \in Proc : Running(r)' = Running(r)
    BY <1>9, <2>2 DEF procResume, interruptVars, Running
  <2>4. Queued' = Queued \cup {q}
    BY <2>2, <2>3, EnterQueue
  <2>5. \A r \in Proc : Asleep(r)' => Asleep(r)
    BY <2>3, <2>4, <1>4 DEF Asleep
  <2>6. Active # Waiting
    BY DEF Active, Waiting
  <2> QED BY <2>1, <2>3, <2>4, <2>5, <2>6, <1>1, <1>3, <1>4, <1>9 DEF SleepersKept
<1> QED BY <1>5, <1>6, <1>7, <1>8, <1>9

(* A step of p between two labels outside the kernel keeps the invariant.  *)
LEMMA OutsideStep ==
    ASSUME SemInv, NEW p \in Proc, CanStep(p), ~InKernel(p),
           NEW l \in Labels \ (WaitKernel \cup SignalKernel),
           p \in Waiters => l = "w_return" /\ interruptFlag',
           pc' = [pc EXCEPT ![p] = l], UNCHANGED <<semaphore, locals>>,
           UNCHANGED interruptsDisabled, SchedInv', ~aborted', SleepersKept,
           (p \in Holders)' <=> p \in Holders
    PROVE  SemInv'
<1>1. /\ phase = "execute" /\ curProc = p
      /\ \A q \in Proc : Running(q) => q = p
  BY RunningNow
<1>2. (\A q \in Proc : ~InKernel(q)) /\ ~interruptsDisabled
  BY <1>1 DEF SemInv, KernelHeld
<1>3. pc \in [Proc -> Labels] /\ pc' \in [Proc -> Labels]
  BY DEF SemInv, TypeOK
<1>4. TypeOK'
  BY <1>3 DEF SemInv, TypeOK, SchedInv, semaphore, locals
<1>5. \A q \in Proc : ~InKernel(q)'
  BY <1>2, <1>3 DEF InKernel
<1>6. KernelHeld'
  BY <1>2, <1>5 DEF KernelHeld
<1>7. WaitersDistinct' /\ Waiters' = Waiters
  BY DEF SemInv, semaphore, WaitersDistinct, Waiters
<1>8. SignalKnows'
  BY <1>5 DEF SignalKnows, InKernel, SignalKernel
<1>9. ~Adding /\ ~Removing /\ ~Adding' /\ ~Removing'
  BY <1>2, <1>5 DEF Adding, Removing, InKernel, WaitKernel, SignalKernel
<1>10. CountMatches'
  BY <1>5, <1>9 DEF SemInv, CountMatches, semaphore, InKernel, WaitKernel, SignalKernel
<1>11. WaitersParked'
  <2> SUFFICES ASSUME NEW q \in Waiters
               PROVE  /\ q \in Proc /\ life'[q] = "live" /\ q \notin Queued'
                      /\ pc'[q] \in {"w_state", "w_enable", "w_yield", "w_return"}
                      /\ pc'[q] # "w_state" => state'[q] = Waiting
                      /\ pc'[q] = "w_return" /\ Running(q)' => interruptFlag'
    BY <1>7 DEF WaitersParked
  <2>1. /\ q \in Proc /\ life[q] = "live" /\ q \notin Queued'
        /\ pc[q] \in {"w_state", "w_enable", "w_yield", "w_return"}
        /\ pc[q] # "w_state" => state[q] = Waiting
        /\ life'[q] = life[q]
        /\ Running(q)' => q = p
        /\ state[q] = Waiting => state'[q] = Waiting
    BY <1>1 DEF SemInv, WaitersParked, SleepersKept
  <2>2. pc[q] # "w_state"
    BY <1>2, <2>1 DEF InKernel, WaitKernel
  <2> QED BY <1>3, <2>1, <2>2
<1>12. WaitingListed'
  BY <1>2, <1>5, <1>7
     DEF SemInv, WaitingListed, SleepersKept, InKernel, WaitKernel, SignalKernel
<1>13. Holders' = Holders
  BY <1>3, <1>7 DEF Holders
<1>14. PermitsKept'
  BY <1>9, <1>13 DEF SemInv, PermitsKept, Spare, semaphore
<1>15. SleepersListed'
  BY <1>2, <1>7
     DEF SemInv, SleepersListed, SleepersKept, InKernel, SignalKernel, Waiters
<1> QED BY <1>4, <1>6, <1>7, <1>8, <1>10, <1>11, <1>12, <1>14, <1>15 DEF SemInv, Unaborted

LEMMA SemIdle ==
    ASSUME SemInv, NEW p \in Proc, Idle(p)
    PROVE  SemInv'
<1>1. CanStep(p) /\ pc[p] = "idle"
  BY DEF Idle, At
<1>2. pc \in [Proc -> Labels] /\ ~InKernel(p)
  BY <1>1 DEF SemInv, TypeOK, InKernel, WaitKernel, SignalKernel
<1>3. \A q \in Proc : ~InKernel(q)
  BY <1>1, <1>2, RunningNow DEF SemInv, KernelHeld
<1>4. p \notin Waiters /\ state[p] # Waiting
  BY <1>1, <1>3 DEF SemInv, WaitersParked, WaitingListed, InKernel, SignalKernel
<1>5. pc' = [pc EXCEPT ![p] = pc'[p]] /\ pc'[p] \in {"idle", "w_disable"}
  BY <1>1, <1>2 DEF Idle, Goto
<1>6. SchedInv' /\ ~aborted' /\ UNCHANGED interruptsDisabled /\ SleepersKept
  BY <1>1, <1>2, <1>4, IdleKeepsSleepers DEF Idle
<1>7. pc'[p] \in Labels \ (WaitKernel \cup SignalKernel)
  BY <1>5 DEF Labels, WaitKernel, SignalKernel
<1>8. (p \in Holders)' <=> p \in Holders
  BY <1>1, <1>5 DEF Holders
<1> QED BY <1>1, <1>2, <1>4, <1>5, <1>6, <1>7, <1>8, OutsideStep DEF Idle

LEMMA SemStartDisable ==
    ASSUME SemInv, NEW p \in Proc, StartDisable(p)
    PROVE  SemInv'
<1> USE DEF StartDisable
<1>1. pc \in [Proc -> Labels] /\ ~InKernel(p) /\ p \notin Waiters
  BY DEF SemInv, TypeOK, InKernel, WaitKernel, SignalKernel, WaitersParked
<1>2. SchedInv'
  BY InvInterruptCalls DEF SemInv
<1>3. ~aborted' /\ UNCHANGED interruptsDisabled
  BY RunningNow DEF enterDisable, interruptVars
<1>4. SleepersKept
  BY RunningNow DEF SemInv, SleepersKept, WaitersParked, enterDisable, procVars, Queued, Running, Asleep
<1>5. pc' = [pc EXCEPT ![p] = pc[p]] /\ pc[p] \in Labels \ (WaitKernel \cup SignalKernel)
  BY <1>1 DEF InKernel
<1>6. (p \in Holders)' <=> p \in Holders
  BY DEF Holders, semaphore, Waiters
<1> QED BY <1>1, <1>2, <1>3, <1>4, <1>5, <1>6, OutsideStep

LEMMA SemYield ==
    ASSUME SemInv, NEW p \in Proc, WaitYield(p)
    PROVE  SemInv'
<1> USE DEF WaitYield, At, Goto
<1>1. ~InKernel(p)
  BY DEF InKernel, WaitKernel, SignalKernel
<1>2. ~interruptsDisabled
  BY <1>1, RunningNow DEF SemInv, KernelHeld
<1>3. SchedInv'
  BY InvInterruptCalls DEF SemInv
<1>4. ~aborted' /\ UNCHANGED interruptsDisabled /\ interruptFlag'
  BY <1>2, RunningNow DEF yield
<1>5. SleepersKept
  BY <1>2 DEF SemInv, SleepersKept, WaitersParked, yield, queueVars, procVars, Queued, Running, Asleep
<1>6. "w_return" \in Labels \ (WaitKernel \cup SignalKernel)
  BY DEF Labels, WaitKernel, SignalKernel
<1>7. (p \in Holders)' <=> p \in Holders
  BY DEF SemInv, TypeOK, Holders, semaphore, Waiters
<1> QED BY <1>1, <1>3, <1>4, <1>5, <1>6, <1>7, OutsideStep

LEMMA SemReturn ==
    ASSUME SemInv, NEW p \in Proc, WaitReturn(p) \/ LeaveSection(p)
    PROVE  SemInv'
<1> USE DEF WaitReturn, LeaveSection, At, Goto
<1>1. ~InKernel(p)
  BY DEF InKernel, WaitKernel, SignalKernel
<1>2. p \notin Waiters
  BY RunningNow DEF SemInv, WaitersParked
<1>3. SchedInv' /\ ~aborted' /\ UNCHANGED interruptsDisabled /\ SleepersKept
  BY <1>1, <1>2, InvStutter, RunningNow
     DEF SemInv, SleepersKept, WaitersParked, schedVars, interruptVars, queueVars,
         procVars, Queued, Running, Asleep
<1>4. {"section", "s_disable"} \subseteq Labels \ (WaitKernel \cup SignalKernel)
  BY DEF Labels, WaitKernel, SignalKernel
<1>5. (p \in Holders)' <=> p \in Holders
  BY DEF SemInv, TypeOK, Holders, semaphore, Waiters
<1> QED BY <1>1, <1>2, <1>3, <1>4, <1>5, OutsideStep

-----------------------------------------------------------------------------
(* Into the kernel and out of it.                                          *)
LEMMA SemFinishDisable ==
    ASSUME SemInv, NEW p \in Proc, FinishDisable(p)
    PROVE  SemInv'
<1> USE DEF FinishDisable, disableInterrupts, procVars, Goto
<1>1. \A q \in Proc : ~InKernel(q)
  BY NobodyInKernel DEF SemInv
<1>2. pc \in [Proc -> Labels] /\ pc' \in [Proc -> Labels]
  BY DEF SemInv, TypeOK, Labels, WaitKernel, SignalKernel
<1>3. \A q \in Proc : q # p => pc'[q] = pc[q] /\ ~InKernel(q)'
  BY <1>1, <1>2 DEF InKernel
<1>4. SchedInv'
  BY InvDisabling DEF SemInv, Disabling
<1>5. TypeOK'
  BY <1>2, <1>4 DEF SemInv, TypeOK, SchedInv, semaphore, locals
<1>6. pc'[p] \in {"w_load", "s_load"} /\ InKernel(p)'
  BY <1>2 DEF InKernel, WaitKernel, SignalKernel
<1>7. KernelHeld'
  BY <1>3, <1>6 DEF KernelHeld
<1>8. WaitersDistinct' /\ Waiters' = Waiters
  BY DEF SemInv, semaphore, WaitersDistinct, Waiters
<1>9. p \notin Waiters
  BY DEF SemInv, WaitersParked
<1>10. Queued' = Queued /\ \A q \in Proc : Running(q)' = Running(q) /\ (Running(q) => q = p)
  BY DEF Queued, Running
<1>11. WaitersParked'
  BY <1>2, <1>3, <1>8, <1>9, <1>10 DEF SemInv, WaitersParked
<1>12. WaitingListed'
  BY <1>1, <1>3, <1>6, <1>8 DEF SemInv, WaitingListed, locals, InKernel, WaitKernel, SignalKernel
<1>13. SignalKnows'
  BY <1>3, <1>6 DEF SignalKnows, InKernel, SignalKernel
<1>14. ~Adding /\ ~Removing /\ ~Adding' /\ ~Removing'
  BY <1>1, <1>3, <1>6 DEF Adding, Removing, InKernel, WaitKernel, SignalKernel
<1>15. CountMatches'
  BY <1>3, <1>6, <1>14 DEF SemInv, CountMatches, semaphore, InKernel, WaitKernel, SignalKernel
<1>16. Holders' = Holders
  BY <1>2, <1>8, <1>9 DEF Holders
<1>17. PermitsKept'
  BY <1>14, <1>16 DEF SemInv, PermitsKept, Spare, semaphore
<1>18. \A q \in Proc : Asleep(q)' => Asleep(q)
  BY <1>10 DEF Asleep
<1>19. SleepersListed'
  BY <1>1, <1>8, <1>18 DEF SemInv, SleepersListed, InKernel, SignalKernel, Waiters
<1> QED BY <1>4, <1>5, <1>7, <1>8, <1>11, <1>12, <1>13, <1>15, <1>17, <1>19 DEF SemInv, Unaborted

LEMMA SemEnable ==
    ASSUME SemInv, NEW p \in Proc, Enable(p)
    PROVE  SemInv'
<1>1. /\ CanStep(p) /\ enableInterrupts /\ UNCHANGED <<semaphore, locals>>
      /\ \/ pc[p] = "w_enable" /\ pc' = [pc EXCEPT ![p] = "w_yield"]
         \/ pc[p] = "w_leave" /\ pc' = [pc EXCEPT ![p] = "w_return"]
         \/ pc[p] = "s_enable" /\ pc' = [pc EXCEPT ![p] = "idle"]
  BY DEF Enable, At, Goto
<1>2. /\ phase = "execute" /\ curProc = p /\ ~aborted
      /\ \A q \in Proc : Running(q) => q = p
  BY <1>1, RunningNow
<1>3. /\ ~interruptsDisabled' /\ UNCHANGED <<runnable, curProc, phase, state, life, aborted>>
  BY <1>1 DEF enableInterrupts, queueVars, procVars
<1>4. pc \in [Proc -> Labels] /\ pc' \in [Proc -> Labels]
  BY <1>1 DEF SemInv, TypeOK, Labels
<1>5. \A q \in Proc : q # p => pc'[q] = pc[q] /\ ~InKernel(q)
  BY <1>1, <1>2, <1>4, OnlyRunningInKernel DEF SemInv
<1>6. \A q \in Proc : ~InKernel(q)'
  BY <1>1, <1>4, <1>5 DEF InKernel, WaitKernel, SignalKernel
<1>7. SchedInv'
  BY <1>1, InvInterruptCalls DEF SemInv
<1>8. TypeOK'
  BY <1>1, <1>4, <1>7 DEF SemInv, TypeOK, SchedInv, semaphore, locals
<1>9. KernelHeld'
  BY <1>3, <1>6 DEF KernelHeld
<1>10. WaitersDistinct' /\ Waiters' = Waiters
  BY <1>1 DEF SemInv, semaphore, WaitersDistinct, Waiters
<1>11. Queued' = Queued /\ \A q \in Proc : Running(q)' = Running(q)
  BY <1>3 DEF Queued, Running
<1>12. p \in Waiters => pc[p] = "w_enable" /\ state[p] = Waiting
  BY <1>1 DEF SemInv, WaitersParked
<1>13. WaitersParked'
  BY <1>1, <1>2, <1>3, <1>4, <1>5, <1>10, <1>11, <1>12 DEF SemInv, WaitersParked
<1>14. WaitingListed'
  BY <1>1, <1>3, <1>5, <1>6, <1>10
     DEF SemInv, WaitingListed, locals, InKernel, WaitKernel, SignalKernel
<1>15. SignalKnows'
  BY <1>6 DEF SignalKnows, InKernel, SignalKernel
<1>16. ~Adding /\ ~Removing /\ ~Adding' /\ ~Removing'
  BY <1>1, <1>5, <1>6 DEF Adding, Removing, InKernel, WaitKernel, SignalKernel
<1>17. CountMatches'
  BY <1>1, <1>6, <1>16 DEF SemInv, CountMatches, semaphore, InKernel, WaitKernel, SignalKernel
<1>18. p \in Holders' <=> p \in Holders
  BY <1>1, <1>4, <1>10 DEF SemInv, WaitingListed, Holders
<1>19. Holders' = Holders
  BY <1>5, <1>10, <1>18 DEF Holders
<1>20. PermitsKept'
  BY <1>1, <1>16, <1>19 DEF SemInv, PermitsKept, Spare, semaphore
<1>21. \A q \in Proc : Asleep(q)' => Asleep(q)
  BY <1>3, <1>11 DEF Asleep
<1>22. SleepersListed'
  BY <1>1, <1>5, <1>10, <1>21 DEF SemInv, SleepersListed, InKernel, SignalKernel, Waiters
<1> QED BY <1>2, <1>3, <1>7, <1>8, <1>9, <1>10, <1>13, <1>14, <1>15, <1>17, <1>20, <1>22
        DEF SemInv, Unaborted

-----------------------------------------------------------------------------
(* Steps inside the kernel.                                                *)
Kernel == WaitKernel \cup SignalKernel

LEMMA KernelStep ==
    ASSUME SemInv, NEW p \in Proc, CanStep(p), pc[p] \in Kernel,
           NEW l \in Kernel, pc' = [pc EXCEPT ![p] = l],
           UNCHANGED <<interruptVars, curProc, phase, aborted>>
    PROVE  /\ KernelHeld' /\ Unaborted'
           /\ pc \in [Proc -> Labels] /\ pc' \in [Proc -> Labels] /\ pc'[p] = l
           /\ \A q \in Proc : q # p => /\ pc'[q] = pc[q]
                                       /\ pc[q] \notin Kernel
           /\ \A q \in Proc : Running(q)' = Running(q) /\ (Running(q) => q = p)
<1> USE DEF Kernel
<1>1. curProc = p /\ phase = "execute"
  BY RunningNow
<1>2. pc \in [Proc -> Labels] /\ pc' \in [Proc -> Labels] /\ pc'[p] = l
  BY DEF SemInv, TypeOK, Labels
<1>3. \A q \in Proc : q # p => pc'[q] = pc[q] /\ pc[q] \notin Kernel
  BY <1>1, <1>2, OnlyRunningInKernel DEF SemInv, InKernel
<1>4. interruptsDisabled /\ ~interruptFlag
  BY RunningNow DEF SemInv, KernelHeld, InKernel
<1>5. KernelHeld'
  BY <1>1, <1>2, <1>3, <1>4 DEF KernelHeld, InKernel, interruptVars
<1>6. \A q \in Proc : Running(q)' = Running(q) /\ (Running(q) => q = p)
  BY <1>1 DEF Running
<1> QED BY <1>2, <1>3, <1>5, <1>6 DEF SemInv, Unaborted

(* The account of the permits when a process joins or leaves the holders.  *)
LEMMA PermitJoins ==
    ASSUME PermitsKept, NEW p, p \notin Holders, Holders' = Holders \cup {p},
           Spare \in Int, Spare' = Spare - 1
    PROVE  PermitsKept'
<1>1. /\ IsFiniteSet(Holders \cup {p})
      /\ Cardinality(Holders \cup {p}) = Cardinality(Holders) + 1
      /\ Cardinality(Holders) \in Nat
  BY FS_AddElement, FS_CardinalityType DEF PermitsKept
<1> QED BY <1>1, PermitsAssumption DEF PermitsKept

LEMMA PermitLeaves ==
    ASSUME PermitsKept, NEW p, p \in Holders, Holders' = Holders \ {p},
           Spare \in Int, Spare' = Spare + 1
    PROVE  PermitsKept'
<1>1. /\ IsFiniteSet(Holders \ {p})
      /\ Cardinality(Holders \ {p}) = Cardinality(Holders) - 1
      /\ Cardinality(Holders) \in Nat
  BY FS_RemoveElement, FS_CardinalityType DEF PermitsKept
<1> QED BY <1>1, PermitsAssumption DEF PermitsKept

LEMMA SemLoadCount ==
    ASSUME SemInv, NEW p \in Proc, LoadCount(p)
    PROVE  SemInv'
<1>1. /\ CanStep(p) /\ UNCHANGED <<schedVars, semaphore, who>>
      /\ reg' = [reg EXCEPT ![p] = count]
      /\ pc' = [pc EXCEPT ![p] = pc'[p]]
      /\ \/ pc[p] = "w_load" /\ pc'[p] = "w_store"
         \/ pc[p] = "s_load" /\ pc'[p] = "s_store"
  BY DEF LoadCount, At, Goto, SemInv, TypeOK
<1>2. pc[p] \in Kernel /\ pc'[p] \in Kernel
  BY <1>1 DEF Kernel, WaitKernel, SignalKernel
<1>3. UNCHANGED <<interruptVars, runnable, curProc, phase, state, life, aborted>>
  BY <1>1 DEF schedVars, queueVars, procVars
<1>4. /\ KernelHeld' /\ Unaborted'
      /\ pc \in [Proc -> Labels] /\ pc' \in [Proc -> Labels]
      /\ \A q \in Proc : q # p => pc'[q] = pc[q] /\ pc[q] \notin Kernel
      /\ \A q \in Proc : Running(q)' = Running(q) /\ (Running(q) => q = p)
  BY <1>1, <1>2, <1>3, KernelStep
<1>5. SchedInv'
  BY <1>1, InvStutter DEF SemInv
<1>6. reg \in [Proc -> Int] /\ count \in Int
  BY DEF SemInv, TypeOK
<1>7. TypeOK'
  BY <1>1, <1>4, <1>5, <1>6 DEF SemInv, TypeOK, SchedInv, semaphore
<1>8. WaitersDistinct' /\ Waiters' = Waiters /\ Queued' = Queued
  BY <1>1, <1>3 DEF SemInv, semaphore, WaitersDistinct, Waiters, Queued
<1>9. p \notin Waiters
  BY <1>1 DEF SemInv, WaitersParked
<1>10. WaitersParked'
  BY <1>3, <1>4, <1>8, <1>9 DEF SemInv, WaitersParked
<1>11. WaitingListed'
  BY <1>1, <1>3, <1>4, <1>8 DEF SemInv, WaitingListed, Kernel, WaitKernel, SignalKernel
<1>12. SignalKnows'
  BY <1>1, <1>4 DEF SignalKnows, Kernel, SignalKernel
<1>13. ~Adding /\ ~Removing /\ ~Adding' /\ ~Removing'
  BY <1>1, <1>4 DEF Adding, Removing, Kernel, WaitKernel, SignalKernel
<1>14. CountMatches'
  BY <1>1, <1>4, <1>6, <1>13
     DEF SemInv, CountMatches, semaphore, Kernel, WaitKernel, SignalKernel
<1>15. Holders' = Holders
  BY <1>1, <1>4, <1>8 DEF Holders
<1>16. PermitsKept'
  BY <1>1, <1>13, <1>15 DEF SemInv, PermitsKept, Spare, semaphore
<1>17. \A q \in Proc : Asleep(q)' => Asleep(q)
  BY <1>3, <1>4, <1>8 DEF Asleep
<1>18. SleepersListed'
  BY <1>1, <1>4, <1>8, <1>17 DEF SemInv, SleepersListed, Kernel, SignalKernel, Waiters
<1> QED BY <1>4, <1>5, <1>7, <1>8, <1>10, <1>11, <1>12, <1>14, <1>16, <1>18 DEF SemInv

LEMMA SemWaitStore ==
    ASSUME SemInv, NEW p \in Proc, WaitStore(p)
    PROVE  SemInv'
<1>1. count \in Int /\ waiters \in Seq(Proc) /\ reg \in [Proc -> Int] /\ reg[p] = count
  BY DEF WaitStore, At, SemInv, TypeOK, CountMatches
<1>2. /\ CanStep(p) /\ UNCHANGED <<schedVars, waiters, who>>
      /\ reg' = [reg EXCEPT ![p] = 0]
      /\ pc' = [pc EXCEPT ![p] = pc'[p]]
      /\ pc[p] = "w_store" /\ count' = count - 1
      /\ pc'[p] = IF count - 1 < 0 THEN "w_add" ELSE "w_leave"
  BY <1>1 DEF WaitStore, At, Goto, SemInv, TypeOK
<1>3. pc[p] \in Kernel /\ pc'[p] \in Kernel
  BY <1>2 DEF Kernel, WaitKernel, SignalKernel
<1>4. UNCHANGED <<interruptVars, runnable, curProc, phase, state, life, aborted>>
  BY <1>2 DEF schedVars, queueVars, procVars
<1>5. /\ KernelHeld' /\ Unaborted'
      /\ pc \in [Proc -> Labels] /\ pc' \in [Proc -> Labels]
      /\ \A q \in Proc : q # p => pc'[q] = pc[q] /\ pc[q] \notin Kernel
      /\ \A q \in Proc : Running(q)' = Running(q) /\ (Running(q) => q = p)
  BY <1>2, <1>3, <1>4, KernelStep
<1>6. SchedInv'
  BY <1>2, InvStutter DEF SemInv
<1>7. TypeOK'
  BY <1>1, <1>2, <1>5, <1>6 DEF SemInv, TypeOK, SchedInv
<1>8. WaitersDistinct' /\ Waiters' = Waiters /\ Queued' = Queued
  BY <1>2, <1>4 DEF SemInv, WaitersDistinct, Waiters, Queued
<1>9. p \notin Waiters
  BY <1>2 DEF SemInv, WaitersParked
<1>10. WaitersParked'
  BY <1>4, <1>5, <1>8, <1>9 DEF SemInv, WaitersParked
<1>11. WaitingListed'
  BY <1>2, <1>4, <1>5, <1>8 DEF SemInv, WaitingListed, Kernel, WaitKernel, SignalKernel
<1>12. SignalKnows'
  BY <1>2, <1>5 DEF SignalKnows, Kernel, SignalKernel
<1>13. ~Adding /\ ~Removing /\ ~Removing' /\ (Adding' <=> count - 1 < 0)
  BY <1>2, <1>5 DEF Adding, Removing, Kernel, WaitKernel, SignalKernel
<1>14. Len(waiters) = IF count < 0 THEN -count ELSE 0
  BY <1>13 DEF SemInv, CountMatches
<1>15. CountMatches'
  BY <1>1, <1>2, <1>5, <1>13, <1>14 DEF CountMatches, Kernel, WaitKernel, SignalKernel
<1>16. PermitsKept'
  <2>1. CASE count - 1 < 0
    <3>1. Holders' = Holders
      BY <2>1, <1>2, <1>5, <1>8 DEF Holders
    <3> QED BY <2>1, <3>1, <1>1, <1>2, <1>13 DEF SemInv, PermitsKept, Spare
  <2>2. CASE ~(count - 1 < 0)
    <3>1. p \notin Holders /\ Holders' = Holders \cup {p}
      BY <2>2, <1>2, <1>5, <1>8, <1>9 DEF Holders
    <3>2. Spare \in Int /\ Spare' = Spare - 1
      BY <2>2, <1>1, <1>2, <1>13 DEF Spare
    <3> QED BY <3>1, <3>2, PermitJoins DEF SemInv
  <2> QED BY <2>1, <2>2
<1>17. \A q \in Proc : Asleep(q)' => Asleep(q)
  BY <1>4, <1>5, <1>8 DEF Asleep
<1>18. SleepersListed'
  BY <1>2, <1>5, <1>8, <1>17 DEF SemInv, SleepersListed, Kernel, SignalKernel, Waiters
<1> QED BY <1>5, <1>6, <1>7, <1>8, <1>10, <1>11, <1>12, <1>15, <1>16, <1>18 DEF SemInv

LEMMA SemSignalStore ==
    ASSUME SemInv, NEW p \in Proc, SignalStore(p)
    PROVE  SemInv'
<1>1. count \in Int /\ waiters \in Seq(Proc) /\ reg \in [Proc -> Int] /\ reg[p] = count
  BY DEF SignalStore, At, SemInv, TypeOK, CountMatches
<1>2. /\ CanStep(p) /\ UNCHANGED <<schedVars, waiters, who>>
      /\ reg' = [reg EXCEPT ![p] = 0]
      /\ pc' = [pc EXCEPT ![p] = pc'[p]]
      /\ pc[p] = "s_store" /\ count' = count + 1
      /\ pc'[p] = IF count + 1 <= 0 THEN "s_first" ELSE "s_enable"
  BY <1>1 DEF SignalStore, At, Goto, SemInv, TypeOK
<1>3. pc[p] \in Kernel /\ pc'[p] \in Kernel
  BY <1>2 DEF Kernel, WaitKernel, SignalKernel
<1>4. UNCHANGED <<interruptVars, runnable, curProc, phase, state, life, aborted>>
  BY <1>2 DEF schedVars, queueVars, procVars
<1>5. /\ KernelHeld' /\ Unaborted'
      /\ pc \in [Proc -> Labels] /\ pc' \in [Proc -> Labels]
      /\ \A q \in Proc : q # p => pc'[q] = pc[q] /\ pc[q] \notin Kernel
      /\ \A q \in Proc : Running(q)' = Running(q) /\ (Running(q) => q = p)
  BY <1>2, <1>3, <1>4, KernelStep
<1>6. SchedInv'
  BY <1>2, InvStutter DEF SemInv
<1>7. TypeOK'
  BY <1>1, <1>2, <1>5, <1>6 DEF SemInv, TypeOK, SchedInv
<1>8. WaitersDistinct' /\ Waiters' = Waiters /\ Queued' = Queued
  BY <1>2, <1>4 DEF SemInv, WaitersDistinct, Waiters, Queued
<1>9. p \notin Waiters
  BY <1>2 DEF SemInv, WaitersParked
<1>10. WaitersParked'
  BY <1>4, <1>5, <1>8, <1>9 DEF SemInv, WaitersParked
<1>11. WaitingListed'
  BY <1>2, <1>4, <1>5, <1>8 DEF SemInv, WaitingListed, Kernel, WaitKernel, SignalKernel
<1>12. SignalKnows'
  BY <1>2, <1>5 DEF SignalKnows, Kernel, SignalKernel
<1>13. ~Adding /\ ~Removing /\ ~Adding' /\ (Removing' <=> count + 1 <= 0)
  BY <1>2, <1>5 DEF Adding, Removing, Kernel, WaitKernel, SignalKernel
<1>14. Len(waiters) = IF count < 0 THEN -count ELSE 0
  BY <1>13 DEF SemInv, CountMatches
<1>15. CountMatches'
  BY <1>1, <1>2, <1>5, <1>13, <1>14 DEF CountMatches, Kernel, WaitKernel, SignalKernel
<1>16. PermitsKept'
  <2>1. p \in Holders /\ Holders' = Holders \ {p}
    BY <1>2, <1>5, <1>8, <1>9 DEF Holders
  <2>2. Spare \in Int /\ Spare' = Spare + 1
    BY <1>1, <1>2, <1>13 DEF Spare
  <2> QED BY <2>1, <2>2, PermitLeaves DEF SemInv
<1>17. \A q \in Proc : Asleep(q)' => Asleep(q)
  BY <1>4, <1>5, <1>8 DEF Asleep
<1>18. SleepersListed'
  BY <1>2, <1>5, <1>8, <1>17 DEF SemInv, SleepersListed, Kernel, SignalKernel, Waiters
<1> QED BY <1>5, <1>6, <1>7, <1>8, <1>10, <1>11, <1>12, <1>15, <1>16, <1>18 DEF SemInv

LEMMA SemWaitAdd ==
    ASSUME SemInv, NEW p \in Proc, WaitAdd(p)
    PROVE  SemInv'
<1>1. count \in Int /\ waiters \in Seq(Proc)
  BY DEF SemInv, TypeOK
<1>2. /\ CanStep(p) /\ UNCHANGED <<schedVars, count, locals>>
      /\ waiters' = Append(waiters, p)
      /\ pc' = [pc EXCEPT ![p] = "w_state"]
      /\ pc[p] = "w_add"
  BY DEF WaitAdd, At, Goto
<1>3. pc[p] \in Kernel /\ "w_state" \in Kernel
  BY <1>2 DEF Kernel, WaitKernel, SignalKernel
<1>4. UNCHANGED <<interruptVars, runnable, curProc, phase, state, life, aborted>>
  BY <1>2 DEF schedVars, queueVars, procVars
<1>5. /\ KernelHeld' /\ Unaborted'
      /\ pc \in [Proc -> Labels] /\ pc' \in [Proc -> Labels] /\ pc'[p] = "w_state"
      /\ \A q \in Proc : q # p => pc'[q] = pc[q] /\ pc[q] \notin Kernel
      /\ \A q \in Proc : Running(q)' = Running(q) /\ (Running(q) => q = p)
  BY <1>2, <1>3, <1>4, KernelStep
<1>6. SchedInv'
  BY <1>2, InvStutter DEF SemInv
<1>7. p \notin Waiters
  BY <1>2 DEF SemInv, WaitersParked
<1>8. /\ waiters' \in Seq(Proc) /\ Len(waiters') = Len(waiters) + 1
      /\ WaitersDistinct' /\ Waiters' = Waiters \cup {p}
  BY <1>1, <1>2, <1>7, AppendDistinct, AppendProperties DEF SemInv, WaitersDistinct, Waiters
<1>9. TypeOK'
  BY <1>2, <1>5, <1>6, <1>8 DEF SemInv, TypeOK, SchedInv, locals
<1>10. Queued' = Queued /\ p \notin Queued /\ life[p] = "live"
  BY <1>2, <1>4, RunningNow DEF Queued
<1>11. WaitersParked'
  BY <1>4, <1>5, <1>8, <1>10 DEF SemInv, WaitersParked
<1>12. WaitingListed'
  BY <1>2, <1>4, <1>5, <1>8
     DEF SemInv, WaitingListed, locals, Kernel, WaitKernel, SignalKernel
<1>13. SignalKnows'
  BY <1>5 DEF SignalKnows, Kernel, SignalKernel
<1>14. Adding /\ ~Removing /\ ~Adding' /\ ~Removing'
  BY <1>2, <1>5 DEF Adding, Removing, Kernel, WaitKernel, SignalKernel
<1>15. Len(waiters) = -count - 1 /\ count < 0
  BY <1>14 DEF SemInv, CountMatches
<1>16. CountMatches'
  BY <1>1, <1>2, <1>5, <1>8, <1>14, <1>15 DEF CountMatches, Kernel, WaitKernel, SignalKernel
<1>17. Holders' = Holders
  BY <1>2, <1>5, <1>8 DEF Holders
<1>18. PermitsKept'
  BY <1>2, <1>14, <1>17 DEF SemInv, PermitsKept, Spare
<1>19. \A q \in Proc : Asleep(q)' => Asleep(q)
  BY <1>4, <1>5, <1>10 DEF Asleep
<1>20. SleepersListed'
  BY <1>2, <1>5, <1>8, <1>19 DEF SemInv, SleepersListed, Kernel, SignalKernel, Waiters, locals
<1> QED BY <1>5, <1>6, <1>8, <1>9, <1>11, <1>12, <1>13, <1>16, <1>18, <1>20 DEF SemInv

LEMMA SemWaitState ==
    ASSUME SemInv, NEW p \in Proc, WaitState(p)
    PROVE  SemInv'
<1>1. /\ CanStep(p) /\ UNCHANGED <<semaphore, locals>> /\ setState(p, Waiting)
      /\ pc' = [pc EXCEPT ![p] = "w_enable"]
      /\ pc[p] = "w_state"
  BY DEF WaitState, At, Goto
<1>2. pc[p] \in Kernel /\ "w_enable" \in Kernel
  BY <1>1 DEF Kernel, WaitKernel, SignalKernel
<1>3. /\ UNCHANGED <<interruptVars, runnable, curProc, phase, life, aborted>>
      /\ state' = [state EXCEPT ![p] = Waiting]
      /\ state \in [Proc -> {Suspended, Active, Waiting}]
  BY <1>1, RunningNow DEF setState, queueVars, SemInv, SchedInv, SchedTypeOK
<1>4. /\ KernelHeld' /\ Unaborted'
      /\ pc \in [Proc -> Labels] /\ pc' \in [Proc -> Labels] /\ pc'[p] = "w_enable"
      /\ \A q \in Proc : q # p => pc'[q] = pc[q] /\ pc[q] \notin Kernel
      /\ \A q \in Proc : Running(q)' = Running(q) /\ (Running(q) => q = p)
  BY <1>1, <1>2, <1>3, KernelStep
<1>5. SchedInv'
  BY <1>1, InvSetState DEF SemInv
<1>6. TypeOK'
  BY <1>1, <1>4, <1>5 DEF SemInv, TypeOK, SchedInv, semaphore, locals
<1>7. WaitersDistinct' /\ Waiters' = Waiters /\ Queued' = Queued
  BY <1>1, <1>3 DEF SemInv, semaphore, WaitersDistinct, Waiters, Queued
<1>8. p \in Waiters
  BY <1>1 DEF SemInv, WaitingListed
<1>9. WaitersParked'
  BY <1>3, <1>4, <1>7 DEF SemInv, WaitersParked
<1>10. WaitingListed'
  BY <1>1, <1>3, <1>4, <1>7, <1>8
     DEF SemInv, WaitingListed, locals, Kernel, WaitKernel, SignalKernel
<1>11. SignalKnows'
  BY <1>4 DEF SignalKnows, Kernel, SignalKernel
<1>12. ~Adding /\ ~Removing /\ ~Adding' /\ ~Removing'
  BY <1>1, <1>4 DEF Adding, Removing, Kernel, WaitKernel, SignalKernel
<1>13. CountMatches'
  BY <1>1, <1>4, <1>12 DEF SemInv, CountMatches, semaphore, Kernel, WaitKernel, SignalKernel
<1>14. Holders' = Holders
  BY <1>1, <1>4, <1>7 DEF Holders
<1>15. PermitsKept'
  BY <1>1, <1>12, <1>14 DEF SemInv, PermitsKept, Spare, semaphore
<1>16. \A q \in Proc : Asleep(q)' => Asleep(q)
  BY <1>3, <1>4, <1>7 DEF Asleep
<1>17. SleepersListed'
  BY <1>1, <1>4, <1>7, <1>16
     DEF SemInv, SleepersListed, Kernel, SignalKernel, Waiters, locals
<1> QED BY <1>4, <1>5, <1>6, <1>7, <1>9, <1>10, <1>11, <1>13, <1>15, <1>17 DEF SemInv

LEMMA SemSignalFirst ==
    ASSUME SemInv, NEW p \in Proc, SignalFirst(p)
    PROVE  SemInv'
<1>1. count \in Int /\ waiters \in Seq(Proc) /\ who \in [Proc -> Proc \cup {NoProc}]
  BY DEF SemInv, TypeOK
<1>2. CanStep(p) /\ pc[p] = "s_first"
  BY DEF SignalFirst, At
<1>3. Removing /\ Len(waiters) = -count + 1 /\ count <= 0
  BY <1>2 DEF SemInv, CountMatches, Removing
<1>4. waiters # <<>> /\ Head(waiters) \in Proc
  BY <1>1, <1>3, HeadTailProperties
<1>5. /\ UNCHANGED <<schedVars, semaphore, reg>>
      /\ who' = [who EXCEPT ![p] = Head(waiters)]
      /\ pc' = [pc EXCEPT ![p] = "s_remove"]
  BY <1>4 DEF SignalFirst, Goto
<1>6. pc[p] \in Kernel /\ "s_remove" \in Kernel
  BY <1>2 DEF Kernel, WaitKernel, SignalKernel
<1>7. UNCHANGED <<interruptVars, runnable, curProc, phase, state, life, aborted>>
  BY <1>5 DEF schedVars, queueVars, procVars
<1>8. /\ KernelHeld' /\ Unaborted'
      /\ pc \in [Proc -> Labels] /\ pc' \in [Proc -> Labels] /\ pc'[p] = "s_remove"
      /\ \A q \in Proc : q # p => pc'[q] = pc[q] /\ pc[q] \notin Kernel
      /\ \A q \in Proc : Running(q)' = Running(q) /\ (Running(q) => q = p)
  BY <1>2, <1>5, <1>6, <1>7, KernelStep
<1>9. SchedInv'
  BY <1>5, InvStutter DEF SemInv
<1>10. TypeOK'
  BY <1>1, <1>4, <1>5, <1>8, <1>9 DEF SemInv, TypeOK, SchedInv, semaphore
<1>11. WaitersDistinct' /\ Waiters' = Waiters /\ Queued' = Queued /\ waiters' = waiters
  BY <1>5, <1>7 DEF SemInv, semaphore, WaitersDistinct, Waiters, Queued
<1>12. p \notin Waiters
  BY <1>2 DEF SemInv, WaitersParked
<1>13. WaitersParked'
  BY <1>7, <1>8, <1>11, <1>12 DEF SemInv, WaitersParked
<1>14. \A q \in Proc : pc[q] # "s_activate" /\ pc[q] # "s_resume"
  BY <1>2, <1>8 DEF Kernel, SignalKernel
<1>15. WaitingListed'
  BY <1>2, <1>7, <1>8, <1>11, <1>14 DEF SemInv, WaitingListed, Kernel, WaitKernel
<1>16. SignalKnows'
  BY <1>1, <1>4, <1>5, <1>8, <1>11 DEF SignalKnows, Kernel, SignalKernel
<1>17. ~Adding /\ ~Adding' /\ Removing'
  BY <1>2, <1>8 DEF Adding, Removing, Kernel, WaitKernel, SignalKernel
<1>18. CountMatches'
  BY <1>3, <1>5, <1>8, <1>17
     DEF CountMatches, semaphore, Kernel, WaitKernel, SignalKernel
<1>19. Holders' = Holders
  BY <1>2, <1>8, <1>11 DEF Holders
<1>20. PermitsKept'
  BY <1>3, <1>5, <1>17, <1>19 DEF SemInv, PermitsKept, Spare, semaphore
<1>21. \A q \in Proc : Asleep(q)' => Asleep(q)
  BY <1>7, <1>8, <1>11 DEF Asleep
<1>22. SleepersListed'
  BY <1>11, <1>14, <1>21 DEF SemInv, SleepersListed, Waiters
<1> QED BY <1>8, <1>9, <1>10, <1>11, <1>13, <1>15, <1>16, <1>18, <1>20, <1>22 DEF SemInv

LEMMA SemSignalRemove ==
    ASSUME SemInv, NEW p \in Proc, SignalRemove(p)
    PROVE  SemInv'
<1> DEFINE h == Head(waiters)
<1>1. count \in Int /\ waiters \in Seq(Proc)
  BY DEF SemInv, TypeOK
<1>2. CanStep(p) /\ pc[p] = "s_remove" /\ waiters # <<>> /\ who[p] = h
  BY DEF SignalRemove, At, SemInv, SignalKnows
<1>3. /\ UNCHANGED <<schedVars, count, locals>>
      /\ waiters' = Tail(waiters)
      /\ pc' = [pc EXCEPT ![p] = "s_activate"]
  BY <1>2 DEF SignalRemove, Goto
<1>4. pc[p] \in Kernel /\ "s_activate" \in Kernel
  BY <1>2 DEF Kernel, WaitKernel, SignalKernel
<1>5. UNCHANGED <<interruptVars, runnable, curProc, phase, state, life, aborted>>
  BY <1>3 DEF schedVars, queueVars, procVars
<1>6. /\ KernelHeld' /\ Unaborted'
      /\ pc \in [Proc -> Labels] /\ pc' \in [Proc -> Labels] /\ pc'[p] = "s_activate"
      /\ \A q \in Proc : q # p => pc'[q] = pc[q] /\ pc[q] \notin Kernel
      /\ \A q \in Proc : Running(q)' = Running(q) /\ (Running(q) => q = p)
  BY <1>2, <1>3, <1>4, <1>5, KernelStep
<1>7. SchedInv'
  BY <1>3, InvStutter DEF SemInv
<1>8. /\ waiters' \in Seq(Proc) /\ Len(waiters') = Len(waiters) - 1
      /\ h \in Waiters
      /\ WaitersDistinct' /\ Waiters' = Waiters \ {h}
  <2>1. Tail(waiters) \in Seq(Proc) /\ Len(Tail(waiters)) = Len(waiters) - 1
    BY <1>1, <1>2, HeadTailProperties
  <2>2. \A i, j \in DOMAIN waiters : waiters[i] = waiters[j] => i = j
    BY DEF SemInv, WaitersDistinct
  <2>3. /\ h \in {waiters[i] : i \in DOMAIN waiters}
        /\ \A i, j \in DOMAIN Tail(waiters) :
             Tail(waiters)[i] = Tail(waiters)[j] => i = j
        /\ {Tail(waiters)[i] : i \in DOMAIN Tail(waiters)}
             = {waiters[i] : i \in DOMAIN waiters} \ {h}
    BY <1>1, <1>2, <2>2, TailDistinct
  <2> QED BY <1>3, <2>1, <2>3 DEF WaitersDistinct, Waiters
<1>9. TypeOK'
  BY <1>3, <1>6, <1>7, <1>8 DEF SemInv, TypeOK, SchedInv, locals
<1>10. Queued' = Queued
  BY <1>5 DEF Queued
<1>11. /\ h \in Proc /\ life[h] = "live" /\ h \notin Queued /\ h # p
       /\ pc[h] \in {"w_yield", "w_return"}
  BY <1>2, <1>6, <1>8 DEF SemInv, WaitersParked, Kernel, WaitKernel
<1>12. WaitersParked'
  BY <1>2, <1>5, <1>6, <1>8, <1>10 DEF SemInv, WaitersParked
<1>13. WaitingListed'
  BY <1>2, <1>3, <1>5, <1>6, <1>8, <1>11
     DEF SemInv, WaitingListed, locals, Kernel, WaitKernel, SignalKernel
<1>14. SignalKnows'
  BY <1>2, <1>3, <1>5, <1>6, <1>8, <1>10, <1>11 DEF SignalKnows, locals, Kernel, SignalKernel
<1>15. ~Adding /\ Removing /\ ~Adding' /\ ~Removing'
  BY <1>2, <1>6 DEF Adding, Removing, Kernel, WaitKernel, SignalKernel
<1>16. Len(waiters) = -count + 1 /\ count <= 0
  BY <1>15 DEF SemInv, CountMatches
<1>17. CountMatches'
  BY <1>1, <1>3, <1>6, <1>8, <1>15, <1>16
     DEF CountMatches, Kernel, WaitKernel, SignalKernel
<1>18. h \notin Holders /\ Holders' = Holders \cup {h}
  BY <1>2, <1>6, <1>8, <1>11 DEF Holders
<1>19. Spare \in Int /\ Spare' = Spare - 1
  BY <1>1, <1>3, <1>15, <1>16 DEF Spare
<1>20. PermitsKept'
  BY <1>18, <1>19, PermitJoins DEF SemInv
<1>21. \A q \in Proc : Asleep(q)' => Asleep(q)
  BY <1>5, <1>6, <1>10 DEF Asleep
<1>22. \A q \in Proc : pc[q] # "s_activate" /\ pc[q] # "s_resume"
  BY <1>2, <1>6 DEF Kernel, SignalKernel
<1>23. \A q \in Proc : Asleep(q) => q \in Waiters
  BY <1>22 DEF SemInv, SleepersListed, Waiters
<1>24. SleepersListed'
  BY <1>2, <1>3, <1>6, <1>8, <1>21, <1>23 DEF SleepersListed, Waiters, locals
<1> QED BY <1>6, <1>7, <1>8, <1>9, <1>12, <1>13, <1>14, <1>17, <1>20, <1>24 DEF SemInv

LEMMA SemSignalActivate ==
    ASSUME SemInv, NEW p \in Proc, SignalActivate(p)
    PROVE  SemInv'
<1> DEFINE w == who[p]
<1>1. /\ CanStep(p) /\ pc[p] = "s_activate" /\ setState(w, Active)
      /\ UNCHANGED <<semaphore, locals>>
      /\ pc' = [pc EXCEPT ![p] = "s_resume"]
  BY DEF SignalActivate, At, Goto
<1>2. w \in Proc /\ w \notin Waiters
  BY <1>1 DEF SemInv, SignalKnows
<1>3. pc[p] \in Kernel /\ "s_resume" \in Kernel
  BY <1>1 DEF Kernel, WaitKernel, SignalKernel
<1>4. /\ UNCHANGED <<interruptVars, runnable, curProc, phase, life, aborted>>
      /\ state' = [state EXCEPT ![w] = Active] /\ Active # Waiting
      /\ state \in [Proc -> {Suspended, Active, Waiting}]
  BY <1>1, RunningNow DEF setState, queueVars, SemInv, SchedInv, SchedTypeOK, Active, Waiting
<1>5. /\ KernelHeld' /\ Unaborted'
      /\ pc \in [Proc -> Labels] /\ pc' \in [Proc -> Labels] /\ pc'[p] = "s_resume"
      /\ \A q \in Proc : q # p => pc'[q] = pc[q] /\ pc[q] \notin Kernel
      /\ \A q \in Proc : Running(q)' = Running(q) /\ (Running(q) => q = p)
  BY <1>1, <1>3, <1>4, KernelStep
<1>6. SchedInv'
  BY <1>1, <1>2, InvSetState DEF SemInv
<1>7. TypeOK'
  BY <1>1, <1>5, <1>6 DEF SemInv, TypeOK, SchedInv, semaphore, locals
<1>8. WaitersDistinct' /\ Waiters' = Waiters /\ Queued' = Queued
  BY <1>1, <1>4 DEF SemInv, semaphore, WaitersDistinct, Waiters, Queued
<1>9. p \notin Waiters
  BY <1>1 DEF SemInv, WaitersParked
<1>10. WaitersParked'
  BY <1>2, <1>4, <1>5, <1>8, <1>9 DEF SemInv, WaitersParked
<1>11. \A q \in Proc : state'[q] = Waiting => q \in Waiters
  BY <1>1, <1>2, <1>4, <1>5 DEF SemInv, WaitingListed, Kernel, SignalKernel
<1>12. WaitingListed'
  BY <1>1, <1>5, <1>8, <1>11 DEF SemInv, WaitingListed, Kernel, WaitKernel
<1>13. SignalKnows'
  BY <1>1, <1>4, <1>5, <1>8 DEF SemInv, SignalKnows, locals, Kernel, SignalKernel
<1>14. ~Adding /\ ~Removing /\ ~Adding' /\ ~Removing'
  BY <1>1, <1>5 DEF Adding, Removing, Kernel, WaitKernel, SignalKernel
<1>15. CountMatches'
  BY <1>1, <1>5, <1>14 DEF SemInv, CountMatches, semaphore, Kernel, WaitKernel, SignalKernel
<1>16. Holders' = Holders
  BY <1>1, <1>5, <1>8 DEF Holders
<1>17. PermitsKept'
  BY <1>1, <1>14, <1>16 DEF SemInv, PermitsKept, Spare, semaphore
<1>18. \A q \in Proc : Asleep(q)' => Asleep(q)
  BY <1>4, <1>5, <1>8 DEF Asleep
<1>19. SleepersListed'
  <2> SUFFICES ASSUME NEW q \in Proc, Asleep(q), q \notin Waiters
               PROVE  \E r \in Proc : pc'[r] \in {"s_activate", "s_resume"} /\ who'[r] = q
    BY <1>8, <1>18 DEF SleepersListed, Waiters
  <2>1. PICK r \in Proc : pc[r] \in {"s_activate", "s_resume"} /\ who[r] = q
    BY DEF SemInv, SleepersListed, Waiters
  <2> QED BY <2>1, <1>1, <1>5 DEF Kernel, SignalKernel, locals
<1> QED BY <1>5, <1>6, <1>7, <1>8, <1>10, <1>12, <1>13, <1>15, <1>17, <1>19 DEF SemInv

LEMMA SemSignalResume ==
    ASSUME SemInv, NEW p \in Proc, SignalResume(p)
    PROVE  SemInv'
<1> DEFINE w == who[p]
<1>1. /\ CanStep(p) /\ pc[p] = "s_resume" /\ procResume(w)
      /\ UNCHANGED <<semaphore, reg>>
      /\ who' = [who EXCEPT ![p] = NoProc]
      /\ pc' = [pc EXCEPT ![p] = "s_enable"]
  BY DEF SignalResume, At, Goto
<1>2. w \in Proc /\ w \notin Waiters /\ w \notin Queued /\ life[w] = "live" /\ w # p
  BY <1>1, RunningNow DEF SemInv, SignalKnows
<1>3. pc[p] \in Kernel /\ "s_enable" \in Kernel
  BY <1>1 DEF Kernel, WaitKernel, SignalKernel
<1>4. /\ UNCHANGED <<interruptVars, curProc, phase, aborted>>
      /\ runnable' = addToListLast(w)
      /\ life' = [life EXCEPT ![w] = "live"]
      /\ state' = [state EXCEPT ![w] = Active] /\ Active # Waiting
      /\ state \in [Proc -> {Suspended, Active, Waiting}] /\ life \in [Proc -> Lives]
  BY <1>1, <1>2 DEF procResume, SemInv, SchedInv, SchedTypeOK, Active, Waiting
<1>5. /\ KernelHeld' /\ Unaborted'
      /\ pc \in [Proc -> Labels] /\ pc' \in [Proc -> Labels] /\ pc'[p] = "s_enable"
      /\ \A q \in Proc : q # p => pc'[q] = pc[q] /\ pc[q] \notin Kernel
      /\ \A q \in Proc : Running(q)' = Running(q) /\ (Running(q) => q = p)
  BY <1>1, <1>3, <1>4, KernelStep
<1>6. SchedInv'
  BY <1>1, <1>2, InvResume DEF SemInv
<1>7. TypeOK'
  BY <1>1, <1>5, <1>6 DEF SemInv, TypeOK, SchedInv, semaphore
<1>8. WaitersDistinct' /\ Waiters' = Waiters
  BY <1>1 DEF SemInv, semaphore, WaitersDistinct, Waiters
<1>9. Queued' = Queued \cup {w}
  BY <1>2, <1>4, EnterQueue DEF SemInv
<1>10. p \notin Waiters
  BY <1>1 DEF SemInv, WaitersParked
<1>11. WaitersParked'
  BY <1>2, <1>4, <1>5, <1>8, <1>9, <1>10 DEF SemInv, WaitersParked
<1>12. \A q \in Proc : state'[q] = Waiting => q \in Waiters
  BY <1>1, <1>2, <1>4, <1>5 DEF SemInv, WaitingListed, Kernel, SignalKernel
<1>13. WaitingListed'
  BY <1>1, <1>5, <1>8, <1>12 DEF SemInv, WaitingListed, Kernel, WaitKernel
<1>14. SignalKnows'
  BY <1>5 DEF SignalKnows, Kernel, SignalKernel
<1>15. ~Adding /\ ~Removing /\ ~Adding' /\ ~Removing'
  BY <1>1, <1>5 DEF Adding, Removing, Kernel, WaitKernel, SignalKernel
<1>16. CountMatches'
  BY <1>1, <1>5, <1>15 DEF SemInv, CountMatches, semaphore, Kernel, WaitKernel, SignalKernel
<1>17. Holders' = Holders
  BY <1>1, <1>5, <1>8 DEF Holders
<1>18. PermitsKept'
  BY <1>1, <1>15, <1>17 DEF SemInv, PermitsKept, Spare, semaphore
<1>19. \A q \in Proc : Asleep(q)' => Asleep(q) /\ q # w
  BY <1>2, <1>4, <1>5, <1>9 DEF Asleep
<1>20. SleepersListed'
  <2> SUFFICES ASSUME NEW q \in Proc, Asleep(q), q # w
               PROVE  q \in Waiters
    BY <1>8, <1>19 DEF SleepersListed, Waiters
  <2>1. CASE q \notin Waiters
    <3>1. PICK r \in Proc : pc[r] \in {"s_activate", "s_resume"} /\ who[r] = q
      BY <2>1 DEF SemInv, SleepersListed, Waiters
    <3>2. r = p
      BY <3>1, <1>5 DEF Kernel, SignalKernel
    <3> QED BY <3>1, <3>2
  <2> QED BY <2>1
<1> QED BY <1>5, <1>6, <1>7, <1>8, <1>11, <1>13, <1>14, <1>16, <1>18, <1>20 DEF SemInv

-----------------------------------------------------------------------------
LEMMA SemInvInit == Init => SemInv
<1> SUFFICES ASSUME Init PROVE SemInv
  OBVIOUS
<1> USE PermitsAssumption DEF Init
<1>1. SchedInv
  BY SchedInvInit
<1>2. /\ interruptsDisabled = FALSE /\ aborted = FALSE /\ phase = "schedule"
      /\ \A q \in Proc : life[q] = "live" => q \in Queued
      /\ \A q \in Proc : state[q] # Waiting
  BY ProcAssumption DEF SchedInit, Queued, Suspended, Waiting
<1>3. \A q \in Proc : pc[q] = "idle"
  OBVIOUS
<1>4. waiters \in Seq(Proc) /\ Waiters = {} /\ Len(waiters) = 0 /\ WaitersDistinct
  BY EmptySeq DEF Waiters, WaitersDistinct
<1>5. TypeOK
  BY <1>1, <1>4 DEF TypeOK, SchedInv, Labels
<1>6. KernelHeld
  BY <1>2, <1>3 DEF KernelHeld, InKernel, WaitKernel, SignalKernel
<1>7. WaitersParked /\ WaitingListed /\ SignalKnows
  BY <1>2, <1>3, <1>4 DEF WaitersParked, WaitingListed, SignalKnows
<1>8. ~Adding /\ ~Removing
  BY <1>3 DEF Adding, Removing
<1>9. CountMatches
  BY <1>3, <1>4, <1>8 DEF CountMatches
<1>10. Holders = {} /\ Spare = Permits
  BY <1>3, <1>8 DEF Holders, Spare
<1>11. PermitsKept
  BY <1>10, FS_EmptySet DEF PermitsKept
<1>12. SleepersListed
  BY <1>2 DEF SleepersListed, Asleep
<1> QED BY <1>1, <1>2, <1>4, <1>5, <1>6, <1>7, <1>9, <1>11, <1>12 DEF SemInv, Unaborted

LEMMA SemInvNext ==
    ASSUME SemInv, TickSeen, [Next]_vars, ~cut'
    PROVE  SemInv'
<1>1. CASE UNCHANGED vars
  <2>1. UNCHANGED schedVars /\ UNCHANGED <<semaphore, pc, locals>>
    BY <1>1 DEF vars
  <2>2. UNCHANGED <<interruptVars, runnable, curProc, phase, state, life, aborted>>
    BY <2>1 DEF schedVars, queueVars, procVars
  <2>3. SchedInv'
    BY <2>1, InvStutter DEF SemInv
  <2>4. TypeOK'
    BY <2>1, <2>3 DEF SemInv, TypeOK, SchedInv, semaphore, locals
  <2>5. WaitersDistinct' /\ CountMatches' /\ PermitsKept' /\ Waiters' = Waiters
    BY <2>1, SemaphoreUntouched
  <2>6. Queued' = Queued /\ \A q \in Proc : Running(q)' = Running(q)
    BY <2>2 DEF Queued, Running
  <2>7. KernelHeld' /\ Unaborted'
    BY <2>1, <2>2 DEF SemInv, KernelHeld, InKernel, Unaborted, interruptVars
  <2>8. WaitersParked'
    BY <2>1, <2>2, <2>5, <2>6 DEF SemInv, WaitersParked, interruptVars
  <2>9. WaitingListed'
    BY <2>1, <2>2, <2>5 DEF SemInv, WaitingListed, locals
  <2>10. SignalKnows'
    BY <2>1, <2>2, <2>5, <2>6 DEF SemInv, SignalKnows, locals, semaphore
  <2>11. SleepersListed'
    BY <2>1, <2>2, <2>5, <2>6 DEF SemInv, SleepersListed, Asleep, locals, Waiters
  <2> QED BY <2>3, <2>4, <2>5, <2>7, <2>8, <2>9, <2>10, <2>11 DEF SemInv
<1>2. CASE System
  <2>1. UNCHANGED <<semaphore, pc, locals>>
    BY <1>2 DEF System
  <2>2. CASE timesliceDone
    <3>1. phase' = "schedule"
      BY <2>2, SliceSwitches DEF SemInv
    <3>2. ~interruptsDisabled
      BY <1>2, <2>2, <3>1 DEF System, CutShort, TickSeen, timesliceDone
    <3> QED BY <2>1, <2>2, <3>2, SemTimeslice
  <2> QED BY <1>2, <2>1, <2>2, SemTick, SemGetNext DEF System
<1>3. ASSUME NEW p \in Proc, SemStep(p)
      PROVE  SemInv'
  BY <1>3, SemIdle, SemStartDisable, SemFinishDisable, SemLoadCount, SemWaitStore,
     SemWaitAdd, SemWaitState, SemYield, SemReturn, SemEnable, SemSignalStore,
     SemSignalFirst, SemSignalRemove, SemSignalActivate, SemSignalResume
     DEF SemStep
<1> QED BY <1>1, <1>2, <1>3 DEF Next

-----------------------------------------------------------------------------
LEMMA CutStays == [Next]_vars => (cut => cut')
BY DEF Next, System, SemStep, vars

(* A flag that is up with interrupts disabled was raised by a tick there.  *)
LEMMA TickSeenNext ==
    ASSUME TickSeen, [Next]_vars
    PROVE  TickSeen'
<1>1. CASE UNCHANGED vars
  BY <1>1 DEF TickSeen, vars, schedVars, interruptVars
<1>2. CASE System
  BY <1>2 DEF TickSeen, TickInside, System, timeSliceCb, getNextForRunning,
              timesliceDone, requeue, Abort, interruptVars
<1>3. ASSUME NEW p \in Proc, SemStep(p)
      PROVE  TickSeen'
  <2> DEFINE Kept == interruptsDisabled' /\ interruptFlag'
                       => interruptsDisabled /\ interruptFlag
  <2>1. Idle(p) => Kept
    BY FlagRaisedOutside DEF Idle
  <2>2. StartDisable(p) \/ FinishDisable(p) \/ Enable(p) \/ WaitYield(p) => Kept
    BY FlagRaisedOutside DEF StartDisable, FinishDisable, Enable, WaitYield
  <2>3. LoadCount(p) \/ WaitStore(p) \/ WaitAdd(p) \/ WaitReturn(p) \/ LeaveSection(p)
          \/ SignalStore(p) => Kept
    BY FlagRaisedOutside
       DEF LoadCount, WaitStore, WaitAdd, WaitReturn, LeaveSection, SignalStore
  <2>4. SignalFirst(p) \/ SignalRemove(p) => Kept
    BY FlagRaisedOutside DEF SignalFirst, SignalRemove
  <2>5. WaitState(p) \/ SignalActivate(p) \/ SignalResume(p) => Kept
    BY DEF WaitState, SignalActivate, SignalResume, setState, procResume, Abort,
           interruptVars
  <2>6. Kept
    BY <1>3, <2>1, <2>2, <2>3, <2>4, <2>5 DEF SemStep
  <2> QED BY <1>3, <2>6 DEF TickSeen, SemStep
<1> QED BY <1>1, <1>2, <1>3 DEF Next

(* The whole invariant, as long as no section is cut short.                *)
THEOREM SemaphoreInvariant == Spec => [](cut \/ SemInv)
<1>1. Init => (cut \/ SemInv) /\ TickSeen
  BY SemInvInit DEF Init, SchedInit, TickSeen
<1>2. (cut \/ SemInv) /\ TickSeen /\ [Next]_vars => (cut' \/ SemInv') /\ TickSeen'
  BY SemInvNext, TickSeenNext, CutStays
<1> QED BY <1>1, <1>2, PTL DEF Spec

(* disableInterrupts and enableInterrupts delimit a critical section: no   *)
(* two processes are between them until a time slice first ends there.     *)
THEOREM KernelSection == Spec => []KernelExclusive
<1>1. cut \/ SemInv => KernelExclusive
  BY DEF SemInv, KernelHeld, KernelExclusive, OneInKernel
<1> QED BY <1>1, SemaphoreInvariant, PTL

(* At most Permits processes are inside the critical blocks of a Semaphore *)
(* that was made with that many permits, until a time slice cuts short a   *)
(* section that updates its count or its list.                             *)
THEOREM SectionsExclude == Spec => []MutualExclusion
<1>1. cut \/ SemInv => MutualExclusion
  <2> SUFFICES ASSUME SemInv PROVE Cardinality(Inside) <= Permits
    BY DEF MutualExclusion
  <2>1. Inside \subseteq Holders
    BY DEF SemInv, WaitersParked, Inside, InSection, Holders
  <2>2. /\ IsFiniteSet(Holders) /\ Cardinality(Holders) + Spare = Permits
        /\ Cardinality(Holders) \in Nat /\ Spare \in Nat
    BY FS_CardinalityType DEF SemInv, TypeOK, PermitsKept, Spare
  <2>3. Cardinality(Inside) \in Nat /\ Cardinality(Inside) <= Cardinality(Holders)
    BY <2>1, <2>2, FS_Subset, FS_CardinalityType
  <2> QED BY <2>2, <2>3, PermitsAssumption
<1> QED BY <1>1, SemaphoreInvariant, PTL

(* No assertion of the machine fails, whatever the interleaving: nobody is *)
(* queued twice, yields with interrupts disabled, or asks an empty list    *)
(* for its first waiter, until a time slice cuts such a section short.     *)
THEOREM NothingAborts == Spec => []NoAbort
<1>1. cut \/ SemInv => NoAbort
  BY DEF SemInv, Unaborted, NoAbort
<1> QED BY <1>1, SemaphoreInvariant, PTL

(* A process that sleeps is in the list of waiters or being woken, until a *)
(* time slice cuts a section of the semaphore short.                       *)
THEOREM NoWakeupLost == Spec => []NoLostWakeup
<1>1. cut \/ SemInv => NoLostWakeup
  BY DEF SemInv, NoLostWakeup
<1> QED BY <1>1, SemaphoreInvariant, PTL

-----------------------------------------------------------------------------
(***************************************************************************)
(* Semaphore.st on the scheduler implements the semaphore of FifoSemaphore *)
(* under the mapping freeBar, holdersBar, blockedBar of Semaphore, for     *)
(* every set of processes and every number of permits, until the time      *)
(* slice first ends with interrupts disabled.                              *)
(*                                                                         *)
(* The invariant proved above gives the mapped variables at each           *)
(* point of the code.  The store of the count is then the step that        *)
(* acquires, blocks, releases or hands over, and no other step shows.      *)
(***************************************************************************)
(* The mapped variables, where the code stands: a process between its      *)
(* store and its add has joined the line already, and the first waiter has *)
(* left it from the store of a signal on, before it leaves the list.       *)
BarsMatch ==
    /\ \A p \in Proc : pc[p] = "w_add" => blockedBar = Append(waiters, p)
    /\ Removing => /\ waiters # <<>>
                   /\ blockedBar = Tail(waiters)
                   /\ holdersBar = Holders \cup {Head(waiters)}
    /\ ~Adding /\ ~Removing => blockedBar = waiters
    /\ ~Removing => holdersBar = Holders

Elements(s) == {s[i] : i \in DOMAIN s}

LEMMA RangeOfAppended ==
    ASSUME NEW S, NEW s \in Seq(S), NEW x \in S
    PROVE  Elements(Append(s, x)) = Elements(s) \cup {x}
<1>1. /\ Append(s, x) \in Seq(S) /\ Len(Append(s, x)) = Len(s) + 1
      /\ \A i \in 1 .. Len(s) : Append(s, x)[i] = s[i]
      /\ Append(s, x)[Len(s) + 1] = x
  BY AppendProperties
<1>2. /\ DOMAIN s = 1 .. Len(s) /\ DOMAIN Append(s, x) = 1 .. (Len(s) + 1)
      /\ Len(s) \in Nat
  BY <1>1, LenProperties
<1>3. \A i \in 1 .. (Len(s) + 1) : i \in 1 .. Len(s) \/ i = Len(s) + 1
  BY <1>2
<1>4. \A i \in 1 .. Len(s) : i \in 1 .. (Len(s) + 1)
  BY <1>2
<1>5. Len(s) + 1 \in 1 .. (Len(s) + 1)
  BY <1>2
<1> QED BY <1>1, <1>2, <1>3, <1>4, <1>5 DEF Elements

(* At most one process is between disableInterrupts and enableInterrupts.  *)
LEMMA AloneInKernel ==
    ASSUME SemInv, NEW p \in Proc, NEW q \in Proc,
           pc[p] \in Kernel, pc[q] \in Kernel
    PROVE  p = q
BY DEF SemInv, KernelHeld, InKernel, Kernel

LEMMA BarsAt == SemInv => BarsMatch
<1> SUFFICES ASSUME SemInv PROVE BarsMatch
  OBVIOUS
<1>1. count \in Int /\ waiters \in Seq(Proc) /\ Waiters = Elements(waiters)
  BY DEF SemInv, TypeOK, Waiters, Elements
<1>2. \A q \in Waiters : pc[q] \in {"w_state", "w_enable", "w_yield", "w_return"}
  BY DEF SemInv, WaitersParked
<1>3. \A q \in Proc : pc[q] \in {"w_state", "w_enable"} => q \in Waiters
  BY DEF SemInv, WaitingListed
<1>4. CASE Adding
  <2>1. PICK p \in Proc : pc[p] = "w_add"
    BY <1>4 DEF Adding
  <2>2. \A q \in Proc : pc[q] \in Kernel => q = p
    BY <2>1, AloneInKernel DEF Kernel, WaitKernel
  <2>3. ~Removing /\ {q \in Proc : pc[q] = "w_add"} = {p}
    BY <2>1, <2>2 DEF Removing, Kernel, WaitKernel, SignalKernel
  <2>4. (CHOOSE q \in Proc : q \in {p}) = p
    OBVIOUS
  <2>5. blockedBar = Append(waiters, p)
    BY <2>1, <2>3, <2>4 DEF blockedBar, Removing
  <2>6. {blockedBar[i] : i \in DOMAIN blockedBar} = Waiters \cup {p}
    <3>1. Elements(blockedBar) = Waiters \cup {p}
      BY <1>1, <2>5, RangeOfAppended
    <3> QED BY <3>1 DEF Elements
  <2>7. holdersBar = Holders
    BY <1>2, <1>3, <2>1, <2>2, <2>6 DEF holdersBar, Holders, Kernel, WaitKernel
  <2>8. \A q \in Proc : pc[q] = "w_add" => q = p
    BY <2>2 DEF Kernel, WaitKernel
  <2> QED BY <1>4, <2>3, <2>5, <2>7, <2>8 DEF BarsMatch
<1>5. CASE Removing
  <2>1. PICK p \in Proc : pc[p] \in {"s_first", "s_remove"}
    BY <1>5 DEF Removing
  <2>2. \A q \in Proc : pc[q] \in Kernel => q = p
    BY <2>1, AloneInKernel DEF Kernel, SignalKernel
  <2>3. ~Adding /\ {q \in Proc : pc[q] = "w_add"} = {}
    BY <2>1, <2>2 DEF Adding, Kernel, WaitKernel, SignalKernel
  <2>4. waiters # <<>>
    BY <1>1, <1>5, LenProperties, EmptySeq DEF SemInv, CountMatches
  <2>5. blockedBar = Tail(waiters)
    BY <1>5, <2>3, <2>4 DEF blockedBar, Removing
  <2>6. /\ Head(waiters) \in Waiters
        /\ {Tail(waiters)[i] : i \in DOMAIN Tail(waiters)} = Waiters \ {Head(waiters)}
    BY <1>1, <2>4, TailDistinct DEF SemInv, WaitersDistinct, Waiters
  <2>7. \A q \in Proc : pc[q] \notin {"w_add", "w_state", "w_enable"}
    BY <2>1, <2>2 DEF Kernel, WaitKernel, SignalKernel
  <2>8. \A q \in Waiters : q \in Proc /\ pc[q] \in {"w_yield", "w_return"}
    BY <1>2, <2>7 DEF SemInv, WaitersParked
  <2>9. holdersBar = Holders \cup {Head(waiters)}
    BY <2>5, <2>6, <2>7, <2>8 DEF holdersBar, Holders
  <2> QED BY <1>5, <2>3, <2>4, <2>5, <2>9 DEF BarsMatch, Adding
<1>6. CASE ~Adding /\ ~Removing
  <2>1. {q \in Proc : pc[q] = "w_add"} = {}
    BY <1>6 DEF Adding
  <2>2. blockedBar = waiters
    BY <1>6, <2>1 DEF blockedBar, Removing
  <2>3. holdersBar = Holders
    BY <1>3, <1>6, <2>2 DEF holdersBar, Holders, Waiters, Adding
  <2> QED BY <1>6, <2>2, <2>3 DEF BarsMatch, Adding
<1> QED BY <1>4, <1>5, <1>6

LEMMA BarsAtNext == SemInv' => BarsMatch'
BY BarsAt, PTL

-----------------------------------------------------------------------------
(* The mapped variables as they are on both sides of a step.               *)
LEMMA BarsBoth ==
    ASSUME SemInv, SemInv'
    PROVE  /\ BarsMatch /\ BarsMatch'
           /\ count \in Int /\ waiters \in Seq(Proc)
           /\ pc \in [Proc -> Labels] /\ pc' \in [Proc -> Labels]
BY BarsAt, BarsAtNext DEF SemInv, TypeOK

(* A step that leaves the count, the line and the holders as they are is   *)
(* not one of the semaphore.                                               *)
LEMMA QuietStep ==
    ASSUME UNCHANGED <<freeBar, holdersBar, blockedBar>>
    PROVE  [Abstract!Next]_(Abstract!semVars)
BY DEF Abstract!semVars

LEMMA LabelsKept ==
    ASSUME UNCHANGED <<semaphore, pc>>
    PROVE  [Abstract!Next]_(Abstract!semVars)
<1>1. blockedBar' = blockedBar
  BY DEF blockedBar, semaphore
<1>2. holdersBar' = holdersBar /\ freeBar' = freeBar
  BY <1>1 DEF holdersBar, freeBar, semaphore
<1> QED BY <1>1, <1>2, QuietStep

(* A move from one label to another that says the same of the permits,     *)
(* with the list and the count as they were.                               *)
HeldLabels == {"w_yield", "w_leave", "w_return", "section", "s_disable",
               "s_load", "s_store"}

LEMMA QuietMove ==
    ASSUME SemInv, SemInv', NEW p \in Proc, NEW l \in Labels,
           pc' = [pc EXCEPT ![p] = l], UNCHANGED semaphore,
           pc[p] # "w_add", l # "w_add",
           pc[p] \in {"s_first", "s_remove"} <=> l \in {"s_first", "s_remove"},
           p \notin Waiters => (pc[p] \in HeldLabels <=> l \in HeldLabels)
    PROVE  [Abstract!Next]_(Abstract!semVars)
<1>1. pc \in [Proc -> Labels] /\ pc'[p] = l /\ \A q \in Proc : q # p => pc'[q] = pc[q]
  BY DEF SemInv, TypeOK
<1>2. Waiters' = Waiters /\ waiters' = waiters /\ count' = count
  BY DEF semaphore, Waiters
<1>3. Adding' = Adding /\ Removing' = Removing
  BY <1>1 DEF Adding, Removing
<1>4. BarsMatch /\ BarsMatch'
  BY BarsBoth
<1>5. blockedBar' = blockedBar
  <2>1. CASE Adding
    BY <2>1, <1>1, <1>2, <1>4 DEF BarsMatch, Adding
  <2>2. CASE ~Adding
    BY <2>2, <1>2, <1>3, <1>4 DEF BarsMatch
  <2> QED BY <2>1, <2>2
<1>6. Holders' = Holders
  BY <1>1, <1>2 DEF Holders, HeldLabels
<1>7. holdersBar' = holdersBar
  BY <1>2, <1>3, <1>4, <1>6 DEF BarsMatch
<1>8. freeBar' = freeBar
  BY <1>2 DEF freeBar
<1> QED BY <1>5, <1>7, <1>8, QuietStep

-----------------------------------------------------------------------------
(* The actions that do not show.                                           *)
LEMMA QuietLabels ==
    ASSUME SemInv, SemInv', NEW p \in Proc,
           \/ Idle(p) \/ StartDisable(p) \/ FinishDisable(p) \/ LoadCount(p)
           \/ WaitState(p) \/ WaitYield(p) \/ WaitReturn(p) \/ Enable(p)
           \/ LeaveSection(p) \/ SignalFirst(p) \/ SignalActivate(p)
           \/ SignalResume(p)
    PROVE  [Abstract!Next]_(Abstract!semVars)
<1> USE DEF At, Goto, HeldLabels
<1>1. CASE Idle(p)
  <2>1. UNCHANGED semaphore /\ (UNCHANGED pc \/ pc' = [pc EXCEPT ![p] = "w_disable"])
    BY <1>1 DEF Idle
  <2>2. pc[p] = "idle" /\ "w_disable" \in Labels
    BY <1>1 DEF Idle, Labels
  <2> QED BY <2>1, <2>2, LabelsKept, QuietMove
<1>2. CASE StartDisable(p)
  BY <1>2, LabelsKept DEF StartDisable
<1>3. CASE FinishDisable(p)
  <2>1. /\ UNCHANGED semaphore /\ {"w_load", "s_load"} \subseteq Labels
        /\ \/ pc[p] = "w_disable" /\ pc' = [pc EXCEPT ![p] = "w_load"]
           \/ pc[p] = "s_disable" /\ pc' = [pc EXCEPT ![p] = "s_load"]
    BY <1>3 DEF FinishDisable, Labels, WaitKernel, SignalKernel
  <2> QED BY <2>1, QuietMove
<1>4. CASE LoadCount(p)
  <2>1. /\ UNCHANGED semaphore /\ {"w_store", "s_store"} \subseteq Labels
        /\ \/ pc[p] = "w_load" /\ pc' = [pc EXCEPT ![p] = "w_store"]
           \/ pc[p] = "s_load" /\ pc' = [pc EXCEPT ![p] = "s_store"]
    BY <1>4 DEF LoadCount, Labels, WaitKernel, SignalKernel
  <2> QED BY <2>1, QuietMove
<1>5. CASE WaitState(p)
  <2>1. /\ UNCHANGED semaphore /\ "w_enable" \in Labels
        /\ pc[p] = "w_state" /\ pc' = [pc EXCEPT ![p] = "w_enable"]
    BY <1>5 DEF WaitState, Labels, WaitKernel
  <2> QED BY <2>1, QuietMove
<1>6. CASE WaitYield(p) \/ WaitReturn(p) \/ LeaveSection(p)
  <2>1. /\ UNCHANGED semaphore /\ {"w_return", "section", "s_disable"} \subseteq Labels
        /\ \/ pc[p] = "w_yield" /\ pc' = [pc EXCEPT ![p] = "w_return"]
           \/ pc[p] = "w_return" /\ pc' = [pc EXCEPT ![p] = "section"]
           \/ pc[p] = "section" /\ pc' = [pc EXCEPT ![p] = "s_disable"]
    BY <1>6 DEF WaitYield, WaitReturn, LeaveSection, Labels
  <2> QED BY <2>1, QuietMove
<1>7. CASE Enable(p)
  <2>1. /\ UNCHANGED semaphore /\ {"w_yield", "w_return", "idle"} \subseteq Labels
        /\ \/ pc[p] = "w_enable" /\ pc' = [pc EXCEPT ![p] = "w_yield"]
           \/ pc[p] = "w_leave" /\ pc' = [pc EXCEPT ![p] = "w_return"]
           \/ pc[p] = "s_enable" /\ pc' = [pc EXCEPT ![p] = "idle"]
    BY <1>7 DEF Enable, Labels
  <2>2. pc[p] = "w_enable" => p \in Waiters
    BY DEF SemInv, WaitingListed
  <2> QED BY <2>1, <2>2, QuietMove
<1>8. CASE SignalFirst(p)
  <2>1. /\ UNCHANGED semaphore /\ "s_remove" \in Labels /\ pc[p] = "s_first"
        /\ UNCHANGED pc \/ pc' = [pc EXCEPT ![p] = "s_remove"]
    BY <1>8 DEF SignalFirst, Labels, SignalKernel
  <2> QED BY <2>1, LabelsKept, QuietMove
<1>9. CASE SignalActivate(p) \/ SignalResume(p)
  <2>1. /\ UNCHANGED semaphore /\ {"s_resume", "s_enable"} \subseteq Labels
        /\ \/ pc[p] = "s_activate" /\ pc' = [pc EXCEPT ![p] = "s_resume"]
           \/ pc[p] = "s_resume" /\ pc' = [pc EXCEPT ![p] = "s_enable"]
    BY <1>9 DEF SignalActivate, SignalResume, Labels, SignalKernel
  <2> QED BY <2>1, QuietMove
<1> QED BY <1>1, <1>2, <1>3, <1>4, <1>5, <1>6, <1>7, <1>8, <1>9

(* A waiter joins the list where the line has it already.                  *)
LEMMA QuietAdd ==
    ASSUME SemInv, SemInv', NEW p \in Proc, WaitAdd(p)
    PROVE  [Abstract!Next]_(Abstract!semVars)
<1>1. /\ pc[p] = "w_add" /\ pc' = [pc EXCEPT ![p] = "w_state"]
      /\ waiters' = Append(waiters, p) /\ count' = count
  BY DEF WaitAdd, At, Goto
<1>2. /\ pc \in [Proc -> Labels] /\ pc'[p] = "w_state"
      /\ \A q \in Proc : q # p => pc'[q] = pc[q] /\ pc[q] \notin Kernel
  <2>1. pc[p] \in Kernel
    BY <1>1 DEF Kernel, WaitKernel
  <2> QED BY <1>1, <2>1, AloneInKernel DEF SemInv, TypeOK
<1>3. ~Removing /\ ~Adding' /\ ~Removing'
  BY <1>1, <1>2 DEF Adding, Removing, Kernel, WaitKernel, SignalKernel
<1>4. BarsMatch /\ BarsMatch' /\ waiters \in Seq(Proc)
  BY BarsBoth
<1>5. blockedBar' = blockedBar
  BY <1>1, <1>3, <1>4 DEF BarsMatch
<1>6. Waiters' = Waiters \cup {p}
  <2>1. Waiters' = Elements(waiters') /\ Waiters = Elements(waiters)
    BY DEF Waiters, Elements
  <2> QED BY <1>1, <1>4, <2>1, RangeOfAppended
<1>7. Holders' = Holders
  BY <1>1, <1>2, <1>6 DEF Holders
<1>8. holdersBar' = holdersBar /\ freeBar' = freeBar
  BY <1>1, <1>3, <1>4, <1>7 DEF BarsMatch, freeBar
<1> QED BY <1>5, <1>8, QuietStep

(* The first waiter leaves the list when its permit is its own already.    *)
LEMMA QuietRemove ==
    ASSUME SemInv, SemInv', NEW p \in Proc, SignalRemove(p)
    PROVE  [Abstract!Next]_(Abstract!semVars)
<1> DEFINE h == Head(waiters)
<1>1. waiters # <<>> /\ pc[p] = "s_remove"
  BY DEF SemInv, SignalKnows, SignalRemove, At
<1>2. /\ pc' = [pc EXCEPT ![p] = "s_activate"]
      /\ waiters' = Tail(waiters) /\ count' = count
  BY <1>1 DEF SignalRemove, Goto
<1>3. /\ pc \in [Proc -> Labels] /\ pc'[p] = "s_activate"
      /\ \A q \in Proc : q # p => pc'[q] = pc[q] /\ pc[q] \notin Kernel
  <2>1. pc[p] \in Kernel
    BY <1>1 DEF Kernel, SignalKernel
  <2> QED BY <1>2, <2>1, AloneInKernel DEF SemInv, TypeOK
<1>4. Removing /\ ~Adding' /\ ~Removing'
  BY <1>1, <1>3 DEF Adding, Removing, Kernel, WaitKernel, SignalKernel
<1>5. BarsMatch /\ BarsMatch' /\ waiters \in Seq(Proc)
  BY BarsBoth
<1>6. blockedBar' = blockedBar
  BY <1>2, <1>4, <1>5 DEF BarsMatch
<1>7. h \in Waiters /\ Waiters' = Waiters \ {h}
  <2>1. \A i, j \in DOMAIN waiters : waiters[i] = waiters[j] => i = j
    BY DEF SemInv, WaitersDistinct
  <2>2. /\ h \in {waiters[i] : i \in DOMAIN waiters}
        /\ {Tail(waiters)[i] : i \in DOMAIN Tail(waiters)}
             = {waiters[i] : i \in DOMAIN waiters} \ {h}
    BY <1>1, <1>5, <2>1, TailDistinct
  <2> QED BY <1>2, <2>2 DEF Waiters
<1>8. h \in Proc /\ h # p /\ pc[h] \in {"w_yield", "w_return"}
  BY <1>1, <1>3, <1>7 DEF SemInv, WaitersParked, Kernel, WaitKernel
<1>9. Holders' = Holders \cup {h}
  BY <1>1, <1>3, <1>7, <1>8 DEF Holders
<1>10. holdersBar' = holdersBar /\ freeBar' = freeBar
  BY <1>2, <1>4, <1>5, <1>9 DEF BarsMatch, freeBar
<1> QED BY <1>6, <1>10, QuietStep

-----------------------------------------------------------------------------
(* The store of `count <- count - 1': the process acquires a free permit,  *)
(* or joins the line when there is none.                                   *)
LEMMA StoreAcquiresOrBlocks ==
    ASSUME SemInv, SemInv', NEW p \in Proc, WaitStore(p)
    PROVE  [Abstract!Next]_(Abstract!semVars)
<1>1. count \in Int /\ reg[p] = count /\ pc[p] = "w_store"
  BY DEF WaitStore, At, SemInv, TypeOK, CountMatches
<1>2. /\ pc' = [pc EXCEPT ![p] = IF count - 1 < 0 THEN "w_add" ELSE "w_leave"]
      /\ waiters' = waiters /\ count' = count - 1
  BY <1>1 DEF WaitStore, Goto
<1>3. /\ pc \in [Proc -> Labels]
      /\ pc'[p] = IF count - 1 < 0 THEN "w_add" ELSE "w_leave"
      /\ \A q \in Proc : q # p => pc'[q] = pc[q] /\ pc[q] \notin Kernel
  <2>1. pc[p] \in Kernel
    BY <1>1 DEF Kernel, WaitKernel
  <2> QED BY <1>2, <2>1, AloneInKernel DEF SemInv, TypeOK
<1>4. ~Adding /\ ~Removing /\ ~Removing'
  BY <1>1, <1>3 DEF Adding, Removing, Kernel, WaitKernel, SignalKernel
<1>5. BarsMatch /\ BarsMatch'
  BY BarsBoth
<1>6. blockedBar = waiters /\ holdersBar = Holders /\ holdersBar' = Holders'
  BY <1>4, <1>5 DEF BarsMatch
<1>7. p \notin Waiters /\ Waiters' = Waiters
  BY <1>1, <1>2 DEF SemInv, WaitersParked, Waiters
<1>8. p \notin holdersBar \cup Abstract!Blocked
  <2>1. p \notin Holders
    BY <1>1 DEF Holders
  <2> QED BY <1>6, <1>7, <2>1 DEF Abstract!Blocked, Waiters
<1>9. CASE count > 0
  <2>1. pc'[p] = "w_leave"
    BY <1>1, <1>3, <1>9
  <2>2. ~Adding'
    BY <1>3, <2>1 DEF Adding, Kernel, WaitKernel
  <2>3. blockedBar' = blockedBar
    BY <1>2, <1>4, <1>5, <1>6, <2>2 DEF BarsMatch
  <2>4. Holders' = Holders \cup {p}
    BY <1>3, <1>7, <2>1 DEF Holders
  <2>5. freeBar > 0 /\ freeBar' = freeBar - 1
    BY <1>1, <1>2, <1>9 DEF freeBar
  <2>6. Abstract!Acquire(p)
    BY <1>6, <1>8, <2>3, <2>4, <2>5 DEF Abstract!Acquire
  <2> QED BY <2>6 DEF Abstract!Next
<1>10. CASE ~(count > 0)
  <2>1. pc'[p] = "w_add"
    BY <1>1, <1>3, <1>10
  <2>2. blockedBar' = Append(blockedBar, p)
    BY <1>2, <1>5, <1>6, <2>1 DEF BarsMatch
  <2>3. Holders' = Holders
    BY <1>1, <1>3, <1>7, <2>1 DEF Holders
  <2>4. freeBar = 0 /\ freeBar' = freeBar
    BY <1>1, <1>2, <1>10 DEF freeBar
  <2>5. Abstract!Block(p)
    BY <1>6, <1>8, <2>2, <2>3, <2>4 DEF Abstract!Block
  <2> QED BY <2>5 DEF Abstract!Next
<1> QED BY <1>9, <1>10

(* The store of `count <- count + 1': the permit goes to the first of the  *)
(* line, or is free when nobody waits.                                     *)
LEMMA StoreReleasesOrHandsOver ==
    ASSUME SemInv, SemInv', NEW p \in Proc, SignalStore(p)
    PROVE  [Abstract!Next]_(Abstract!semVars)
<1>1. count \in Int /\ reg[p] = count /\ pc[p] = "s_store"
  BY DEF SignalStore, At, SemInv, TypeOK, CountMatches
<1>2. /\ pc' = [pc EXCEPT ![p] = IF count + 1 <= 0 THEN "s_first" ELSE "s_enable"]
      /\ waiters' = waiters /\ count' = count + 1
  BY <1>1 DEF SignalStore, Goto
<1>3. /\ pc \in [Proc -> Labels]
      /\ pc'[p] = IF count + 1 <= 0 THEN "s_first" ELSE "s_enable"
      /\ \A q \in Proc : q # p => pc'[q] = pc[q] /\ pc[q] \notin Kernel
  <2>1. pc[p] \in Kernel
    BY <1>1 DEF Kernel, SignalKernel
  <2> QED BY <1>2, <2>1, AloneInKernel DEF SemInv, TypeOK
<1>4. ~Adding /\ ~Removing /\ ~Adding'
  BY <1>1, <1>3 DEF Adding, Removing, Kernel, WaitKernel, SignalKernel
<1>5. BarsMatch /\ BarsMatch' /\ waiters \in Seq(Proc)
  BY BarsBoth
<1>6. blockedBar = waiters /\ holdersBar = Holders
  BY <1>4, <1>5 DEF BarsMatch
<1>7. p \notin Waiters /\ Waiters' = Waiters
  BY <1>1, <1>2 DEF SemInv, WaitersParked, Waiters
<1>8. p \in Holders /\ Holders' = Holders \ {p}
  BY <1>1, <1>3, <1>7 DEF Holders
<1>9. Len(waiters) = IF count < 0 THEN -count ELSE 0
  BY <1>4 DEF SemInv, CountMatches
<1>10. CASE count < 0
  <2>1. pc'[p] = "s_first"
    BY <1>1, <1>3, <1>10
  <2>2. Removing'
    BY <2>1 DEF Removing
  <2>3. /\ waiters # <<>>
        /\ blockedBar' = Tail(blockedBar)
        /\ holdersBar' = (holdersBar \ {p}) \cup {Head(blockedBar)}
    BY <1>2, <1>5, <1>6, <1>8, <2>2 DEF BarsMatch
  <2>4. freeBar' = freeBar
    BY <1>1, <1>2, <1>10 DEF freeBar
  <2>5. Abstract!HandOver(p)
    BY <1>6, <1>8, <2>3, <2>4 DEF Abstract!HandOver
  <2> QED BY <2>5 DEF Abstract!Next
<1>11. CASE ~(count < 0)
  <2>1. pc'[p] = "s_enable"
    BY <1>1, <1>3, <1>11
  <2>2. ~Removing'
    BY <1>3, <2>1 DEF Removing, Kernel, SignalKernel
  <2>3. blockedBar' = blockedBar /\ holdersBar' = holdersBar \ {p}
    BY <1>2, <1>4, <1>5, <1>6, <1>8, <2>2 DEF BarsMatch
  <2>4. waiters = <<>>
    BY <1>5, <1>9, <1>11, EmptySeq
  <2>5. freeBar' = freeBar + 1
    BY <1>1, <1>2, <1>11 DEF freeBar
  <2>6. Abstract!Release(p)
    BY <1>6, <1>8, <2>3, <2>4, <2>5 DEF Abstract!Release
  <2> QED BY <2>6 DEF Abstract!Next
<1> QED BY <1>1, <1>10, <1>11

-----------------------------------------------------------------------------
LEMMA StepRefines ==
    ASSUME SemInv, SemInv', [Next]_vars
    PROVE  [Abstract!Next]_(Abstract!semVars)
<1>1. CASE UNCHANGED vars \/ System
  <2>1. UNCHANGED <<semaphore, pc>>
    BY <1>1 DEF System, vars
  <2> QED BY <2>1, LabelsKept
<1>2. ASSUME NEW p \in Proc, SemStep(p)
      PROVE  [Abstract!Next]_(Abstract!semVars)
  BY <1>2, QuietLabels, QuietAdd, QuietRemove, StoreAcquiresOrBlocks,
     StoreReleasesOrHandsOver DEF SemStep
<1> QED BY <1>1, <1>2 DEF Next

LEMMA InitRefines == Init => Abstract!Init
<1> SUFFICES ASSUME Init PROVE Abstract!Init
  OBVIOUS
<1>1. /\ count = Permits /\ waiters = <<>> /\ \A p \in Proc : pc[p] = "idle"
  BY DEF Init
<1>2. blockedBar = <<>>
  <2>1. {q \in Proc : pc[q] = "w_add"} = {}
    BY <1>1
  <2> QED BY <1>1, <2>1 DEF blockedBar
<1>3. holdersBar = {}
  BY <1>1 DEF holdersBar
<1>4. freeBar = Permits
  BY <1>1, PermitsAssumption DEF freeBar
<1> QED BY <1>2, <1>3, <1>4 DEF Abstract!Init

(* The Smalltalk code of Semaphore, with its two-step updates of the count *)
(* and its list of waiters, is a semaphore that hands each permit directly *)
(* to the process that has waited longest: nobody overtakes a waiter until *)
(* a time slice cuts a section of the semaphore short.                     *)
THEOREM SemaphoreIsFifo == Spec => ImplementsSemaphore
<1>1. /\ cut \/ SemInv
      /\ (cut \/ SemInv)'
      /\ [Next]_vars
      => [Abstract!Next \/ cut']_(Abstract!semVars)
  BY StepRefines, CutStays
<1> QED BY <1>1, InitRefines, SemaphoreInvariant, PTL DEF Spec, ImplementsSemaphore

=============================================================================
