-------------------------- MODULE EventQueue_proofs --------------------------
(***************************************************************************)
(* Proofs about EventQueue, for every set of processes and every number of *)
(* permits, of what holds until a tick that came with interrupts disabled  *)
(* ends a time slice (the variable cut).  Nothing is assumed of the timer. *)
(***************************************************************************)
EXTENDS EventQueue, Scheduling_proofs

(* The labels of the processes of Semaphore that EvProc never has, and     *)
(* those that only it has.                                                 *)
CriticalLabels == {"w_disable", "w_yield", "w_return", "section"} \cup WaitKernel
EvWaitLabels ==
    {"t_disable", "t_load", "t_store", "t_add", "t_leave", "t_enable",
     "v_check", "v_body", "v_already", "c_disable", "c_state", "c_waiter",
     "c_enable", "c_yield", "d_disable", "d_swap", "d_enable"}
ReceiveLabels ==
    {"e_add", "e_test", "e_disable", "e_state", "e_resume", "e_clear", "e_enable"}
EvLabels == Labels \cup EvWaitLabels \cup ReceiveLabels

EvTypeOK ==
    /\ count \in Int
    /\ waiters \in Seq(Proc \cup {EvQ})
    /\ pc \in [Proc -> EvLabels]
    /\ pc[EvProc] \notin CriticalLabels
    /\ \A p \in Proc : pc[p] \in EvWaitLabels => p = EvProc
    /\ reg \in [Proc -> Int]
    /\ who \in [Proc -> Proc \cup {NoProc, EvQ}]
    /\ waiter \in {NoProc, EvProc}
    /\ back \in [Proc -> {"idle", "s_enable", "t_enable"}]
    /\ \A p \in Proc : /\ back[p] = "t_enable" => p = EvProc
                       /\ pc[p] \in ReceiveLabels => back[p] # "idle"

(* Interrupts are disabled in the steps that touch what is shared, and     *)
(* until the nested critical: of receiveEvent: has begun; where else they  *)
(* are, they are about to be enabled.                                      *)
AboutToEnable == {"s_enable", "t_enable", "e_disable", "e_enable"}
EvHeld ==
    /\ interruptsDisabled =>
         /\ phase \in {"execute", "disabling"}
         /\ pc[curProc] \in EvKernel \cup AboutToEnable
    /\ \A p \in Proc : pc[p] \in EvKernel \cup {"e_disable"} =>
         interruptsDisabled /\ curProc = p
    /\ \A p \in Proc : pc[p] \in EvKernel => phase = "execute"

(* The count against the number of waiters, at each step of the code that  *)
(* changes them.                                                           *)
Adding == \E p \in Proc : pc[p] \in {"w_add", "t_add"}
Removing == \E p \in Proc : pc[p] \in {"s_first", "s_remove"}
CountMatches ==
    /\ \A p \in Proc : pc[p] \in {"w_store", "s_store", "t_store"} => reg[p] = count
    /\ Adding => count < 0 /\ Len(waiters) = -count - 1
    /\ Removing => count <= 0 /\ Len(waiters) = -count + 1
    /\ ~Adding /\ ~Removing => Len(waiters) = IF count < 0 THEN -count ELSE 0

(* The processes in the list of waiters, each in it once, are on their way *)
(* to sleep or asleep, and none gets past its yield while it is there.     *)
Waiters == {waiters[i] : i \in DOMAIN waiters}
ListedOnce ==
    \A i, j \in DOMAIN waiters : waiters[i] \in Proc /\ waiters[i] = waiters[j] => i = j
Parked(q) ==
    /\ life[q] = "live" /\ q \notin Queued
    /\ pc[q] \in {"w_state", "w_enable", "w_yield", "w_return"}
    /\ pc[q] # "w_state" => state[q] = Waiting
    /\ pc[q] = "w_return" /\ Running(q) => interruptFlag
WaitersParked == \A q \in Proc : q \in Waiters => Parked(q)

(* The same of the process that the event queue will wake, until it is     *)
(* being woken; and a process that wakes it finds it there.                *)
Waking == \E p \in Proc : pc[p] \in {"e_resume", "e_clear"}
SleeperParked ==
    /\ waiter # NoProc =>
         /\ life[waiter] = "live" /\ pc[waiter] \in {"c_enable", "c_yield", "d_disable"}
         /\ ~Waking =>
              /\ waiter \notin Queued /\ state[waiter] = Waiting
              /\ pc[waiter] = "d_disable" /\ Running(waiter) =>
                   phase = "execute" /\ interruptFlag
    /\ \A p \in Proc : pc[p] \in {"e_disable", "e_state", "e_resume", "e_clear"} =>
         waiter # NoProc
    /\ \A p \in Proc : pc[p] \in {"e_resume", "e_clear"} => state[waiter] = Active
    /\ \A p \in Proc : pc[p] = "e_resume" => waiter \notin Queued
    /\ \A p \in Proc : pc[p] = "e_clear" => waiter \in Queued

(* Who waits can be found.                                                 *)
WaitingListed ==
    /\ \A p \in Proc : pc[p] \in {"w_state", "w_enable"} => p \in Waiters
    /\ \A p \in Proc : pc[p] = "c_waiter" => state[p] = Waiting
    /\ \A q \in Proc : state[q] = Waiting =>
         \/ q \in Waiters \/ waiter = q \/ pc[q] = "c_waiter"
         \/ \E p \in Proc : pc[p] = "s_activate" /\ who[p] = q

(* What a signal in progress knows of the process that it wakes.           *)
SignalKnows ==
    \A p \in Proc :
        /\ pc[p] = "s_remove" => waiters # <<>> /\ who[p] = Head(waiters)
        /\ pc[p] = "s_resume" => who[p] \in Proc
        /\ pc[p] \in {"s_activate", "s_resume"} /\ who[p] \in Proc =>
             /\ life[who[p]] = "live" /\ who[p] # EvProc
             /\ ~Running(who[p]) /\ who[p] \notin Queued \cup Waiters

SleepInv ==
    /\ ListedOnce /\ WaitersParked /\ SleeperParked /\ WaitingListed /\ SignalKnows
    /\ InReach

EvInv == EvTypeOK /\ SchedInv /\ EvHeld /\ CountMatches /\ SleepInv

-----------------------------------------------------------------------------
(* What a process that can take a step knows: nobody else is in the code   *)
(* that interrupts are disabled for, and it is not itself asleep.          *)
LEMMA EvRunning ==
    ASSUME EvInv, NEW p \in Proc, CanStep(p)
    PROVE  /\ phase = "execute" /\ curProc = p /\ ~aborted /\ ~interruptFlag
           /\ Running(p) /\ p \notin Queued /\ life[p] = "live"
           /\ \A q \in Proc : Running(q) => q = p
           /\ \A q \in Proc : q # p => pc[q] \notin EvKernel \cup {"e_disable"}
           /\ interruptsDisabled => pc[p] \in EvKernel \cup AboutToEnable
           /\ pc[p] \in EvKernel \cup {"e_disable"} => interruptsDisabled
           /\ p \in Waiters => pc[p] \in {"w_state", "w_enable", "w_yield"}
           /\ waiter = p => pc[p] \in {"c_enable", "c_yield"}
<1> USE DEF EvInv
<1>1. /\ phase = "execute" /\ curProc = p /\ ~aborted /\ ~interruptFlag
      /\ Running(p) /\ \A q \in Proc : Running(q) => q = p
  BY DEF CanStep, Running
<1>2. p \notin Queued /\ life[p] = "live"
  BY <1>1 DEF SchedInv, OnePlace
<1>3. /\ \A q \in Proc : q # p => pc[q] \notin EvKernel \cup {"e_disable"}
      /\ interruptsDisabled => pc[p] \in EvKernel \cup AboutToEnable
      /\ pc[p] \in EvKernel \cup {"e_disable"} => interruptsDisabled
  BY <1>1 DEF EvHeld
<1>4. p \in Waiters => pc[p] \in {"w_state", "w_enable", "w_yield"}
  BY <1>1 DEF SleepInv, WaitersParked, Parked
<1>5. waiter = p => pc[p] \in {"c_enable", "c_yield"}
  <2> SUFFICES ASSUME waiter = p, pc[p] = "d_disable" PROVE FALSE
    BY ProcAssumption DEF SleepInv, SleeperParked
  <2>1. ~Waking
    BY <1>1 DEF Waking, EvHeld, EvKernel
  <2> QED BY <1>1, <2>1, ProcAssumption DEF SleepInv, SleeperParked
<1> QED BY <1>1, <1>2, <1>3, <1>4, <1>5

(* The types, after a step of p to the label m.                            *)
LEMMA TypedStep ==
    ASSUME EvInv, NEW p \in Proc, NEW m \in EvLabels,
           pc' = [pc EXCEPT ![p] = m],
           p = EvProc => m \notin CriticalLabels,
           m \in EvWaitLabels => p = EvProc,
           m \in ReceiveLabels => back'[p] # "idle",
           count' \in Int, waiters' \in Seq(Proc \cup {EvQ}),
           reg' \in [Proc -> Int], who' \in [Proc -> Proc \cup {NoProc, EvQ}],
           waiter' \in {NoProc, EvProc},
           back' \in [Proc -> {"idle", "s_enable", "t_enable"}],
           \A q \in Proc : q # p => back'[q] = back[q],
           back'[p] = "t_enable" => p = EvProc
    PROVE  EvTypeOK'
<1>1. pc \in [Proc -> EvLabels] /\ EvProc \in Proc
  BY EvAssumption DEF EvInv, EvTypeOK
<1>2. /\ pc' \in [Proc -> EvLabels] /\ pc'[p] = m
      /\ \A q \in Proc : q # p => pc'[q] = pc[q]
  BY <1>1
<1>3. pc'[EvProc] \notin CriticalLabels
  BY <1>1, <1>2 DEF EvInv, EvTypeOK
<1>4. \A q \in Proc : pc'[q] \in EvWaitLabels => q = EvProc
  BY <1>2 DEF EvInv, EvTypeOK
<1>5. \A q \in Proc : /\ back'[q] = "t_enable" => q = EvProc
                      /\ pc'[q] \in ReceiveLabels => back'[q] # "idle"
  BY <1>2 DEF EvInv, EvTypeOK
<1> QED BY <1>2, <1>3, <1>4, <1>5 DEF EvTypeOK

(* A step between two labels for which interrupts are disabled, and one to *)
(* a label for which they are not.                                         *)
LEMMA HeldInside ==
    ASSUME EvInv, NEW p \in Proc, CanStep(p),
           NEW m \in EvKernel \cup AboutToEnable,
           pc' = [pc EXCEPT ![p] = m], interruptsDisabled,
           UNCHANGED <<interruptsDisabled, interruptFlag, phase, curProc>>
    PROVE  EvHeld'
<1>1. pc \in [Proc -> EvLabels]
  BY DEF EvInv, EvTypeOK
<1>2. pc'[p] = m /\ \A q \in Proc : q # p => pc'[q] = pc[q]
  BY <1>1
<1> QED BY <1>2, EvRunning DEF EvHeld

LEMMA HeldOutside ==
    ASSUME EvInv, NEW p \in Proc, CanStep(p),
           NEW m, m \notin EvKernel \cup {"e_disable"},
           pc' = [pc EXCEPT ![p] = m], ~interruptsDisabled'
    PROVE  EvHeld'
<1>1. pc \in [Proc -> EvLabels]
  BY DEF EvInv, EvTypeOK
<1>2. pc'[p] = m /\ \A q \in Proc : q # p => pc'[q] = pc[q]
  BY <1>1
<1> QED BY <1>2, EvRunning DEF EvHeld

(* The count and the list of waiters are not touched.                      *)
CountLabels == {"w_store", "s_store", "t_store", "w_add", "t_add", "s_first", "s_remove"}
LEMMA CalmCount ==
    ASSUME EvInv, NEW p \in Proc, NEW m, pc' = [pc EXCEPT ![p] = m],
           pc[p] \notin CountLabels, m \notin CountLabels,
           UNCHANGED <<count, waiters, reg>>
    PROVE  CountMatches'
<1>1. pc \in [Proc -> EvLabels]
  BY DEF EvInv, EvTypeOK
<1>2. pc'[p] = m /\ \A q \in Proc : q # p => pc'[q] = pc[q]
  BY <1>1
<1>3. Adding' = Adding /\ Removing' = Removing
  BY <1>2 DEF Adding, Removing, CountLabels
<1>4. \A q \in Proc : pc'[q] \in {"w_store", "s_store", "t_store"} => reg'[q] = count'
  BY <1>2 DEF EvInv, CountMatches, CountLabels
<1> QED BY <1>3, <1>4 DEF EvInv, CountMatches

(* A step of p that neither puts a process to sleep nor wakes one.         *)
SleepLabels == {"w_state", "w_enable", "c_waiter"}
WakeLabels ==
    {"s_remove", "s_activate", "s_resume", "e_disable", "e_state", "e_resume", "e_clear"}
LEMMA CalmSleep ==
    ASSUME EvInv, NEW p \in Proc, NEW m, m \notin SleepLabels \cup WakeLabels,
           pc' = [pc EXCEPT ![p] = m],
           pc[p] \notin {"w_state", "c_waiter", "s_activate", "s_resume",
                        "e_resume", "e_clear"},
           UNCHANGED <<runnable, curProc, state, life, waiters, who, waiter>>,
           curProc = p,
           phase \in {"execute", "disabling"}, phase' \in {"execute", "disabling"},
           p \in Waiters => m = "w_yield" \/ (m = "w_return" /\ interruptFlag'),
           waiter = p =>
             m = "c_yield" \/ (m = "d_disable" /\ phase' = "execute" /\ interruptFlag')
    PROVE  SleepInv'
<1> USE DEF EvInv, SleepInv
<1>1. pc \in [Proc -> EvLabels]
  BY DEF EvTypeOK
<1>2. pc'[p] = m /\ \A q \in Proc : q # p => pc'[q] = pc[q]
  BY <1>1
<1>3. /\ Waiters' = Waiters /\ Queued' = Queued
      /\ \A q \in Proc : Running(q)' = Running(q) /\ (Running(q) => q = p)
  BY DEF Waiters, Queued, Running
<1>4. ListedOnce'
  BY DEF ListedOnce
<1>5. WaitersParked'
  BY <1>2, <1>3 DEF WaitersParked, Parked
<1>6. Waking' = Waking
  BY <1>2 DEF Waking, WakeLabels
<1>7. SleeperParked'
  <2>1. waiter # NoProc =>
          /\ life[waiter] = "live" /\ pc'[waiter] \in {"c_enable", "c_yield", "d_disable"}
          /\ ~Waking =>
               /\ waiter \notin Queued /\ state[waiter] = Waiting
               /\ pc'[waiter] = "d_disable" /\ Running(waiter) =>
                    phase' = "execute" /\ interruptFlag'
    BY <1>2, <1>3, EvAssumption DEF SleeperParked, EvTypeOK
  <2>2. \A q \in Proc : pc'[q] \in WakeLabels => pc'[q] = pc[q]
    BY <1>2
  <2> QED BY <1>3, <1>6, <2>1, <2>2, EvAssumption DEF SleeperParked, WakeLabels, EvTypeOK
<1>8. WaitingListed'
  <2>1. \A q \in Proc : state[q] = Waiting =>
          \/ q \in Waiters \/ waiter = q \/ pc'[q] = "c_waiter"
          \/ \E r \in Proc : pc'[r] = "s_activate" /\ who[r] = q
    BY <1>2 DEF WaitingListed
  <2> QED BY <1>2, <1>3, <2>1 DEF WaitingListed, SleepLabels
<1>9. SignalKnows'
  BY <1>2, <1>3 DEF SignalKnows, WakeLabels
<1>10. InReach'
  <2>1. \A q \in Proc : Asleep(q)' = Asleep(q)
    BY <1>3 DEF Asleep
  <2>2. \A q \in Proc : (\E r \in Proc : pc[r] \in {"s_activate", "s_resume"} /\ who[r] = q)
          => (\E r \in Proc : pc'[r] \in {"s_activate", "s_resume"} /\ who[r] = q)
    BY <1>2
  <2> QED BY <2>1, <2>2 DEF InReach
<1> QED BY <1>4, <1>5, <1>7, <1>8, <1>9, <1>10

(* Such a step keeps the whole invariant.                                  *)
LEMMA CalmStep ==
    ASSUME EvInv, NEW p \in Proc, CanStep(p), NEW m \in EvLabels,
           m \notin SleepLabels \cup WakeLabels \cup CountLabels,
           pc[p] \notin {"w_state", "c_waiter", "s_activate", "s_resume",
                        "e_resume", "e_clear"} \cup CountLabels,
           p = EvProc => m \notin CriticalLabels,
           m \in EvWaitLabels => p = EvProc,
           m \in ReceiveLabels => pc[p] \in ReceiveLabels /\ UNCHANGED back,
           UNCHANGED back \/ back' = [back EXCEPT ![p] = "idle"],
           pc' = [pc EXCEPT ![p] = m],
           UNCHANGED <<queueVars, procVars, semaphore, locals, waiter>>, SchedInv',
           \/ ~interruptsDisabled' /\ m \notin EvKernel
           \/ /\ interruptsDisabled /\ UNCHANGED interruptVars
              /\ m \in EvKernel \cup AboutToEnable,
           p \in Waiters => m = "w_yield" \/ (m = "w_return" /\ interruptFlag'),
           waiter = p => m = "c_yield" \/ (m = "d_disable" /\ interruptFlag')
    PROVE  EvInv'
<1>1. phase = "execute" /\ curProc = p
  BY EvRunning
<1>2. UNCHANGED <<runnable, curProc, phase, state, life, count, waiters, reg, who, waiter>>
  BY DEF queueVars, procVars, semaphore, locals
<1>3. EvTypeOK'
  <2>1. /\ back \in [Proc -> {"idle", "s_enable", "t_enable"}]
        /\ pc[p] \in ReceiveLabels => back[p] # "idle"
        /\ back[p] = "t_enable" => p = EvProc
    BY DEF EvInv, EvTypeOK
  <2>2. /\ back' \in [Proc -> {"idle", "s_enable", "t_enable"}]
        /\ m \in ReceiveLabels => back'[p] # "idle"
        /\ back'[p] = "t_enable" => p = EvProc
        /\ \A q \in Proc : q # p => back'[q] = back[q]
    BY <2>1
  <2> QED BY <1>2, <2>2, TypedStep DEF EvInv, EvTypeOK
<1>4. EvHeld'
  <2>1. CASE ~interruptsDisabled' /\ m \notin EvKernel
    BY <2>1, HeldOutside DEF WakeLabels
  <2>2. CASE /\ interruptsDisabled /\ UNCHANGED interruptVars
             /\ m \in EvKernel \cup AboutToEnable
    BY <2>2, <1>2, HeldInside DEF interruptVars
  <2> QED BY <2>1, <2>2
<1>5. CountMatches'
  BY <1>2, CalmCount
<1>6. SleepInv'
  BY <1>1, <1>2, CalmSleep
<1> QED BY <1>3, <1>4, <1>5, <1>6 DEF EvInv

-----------------------------------------------------------------------------
(* The steps that only move on in the program.                             *)
LEMMA EvMoveOn ==
    ASSUME EvInv, NEW p \in Proc,
           \/ p # EvProc /\ (WaitReturn(p) \/ LeaveSection(p)) /\ UNCHANGED <<eventQueue, back>>
           \/ p = EvProc /\ (EvIdle(p) \/ CheckEvents(p) \/ EvBody(p) \/ SwapEvents(p))
           \/ AddEvent(p)
    PROVE  EvInv'
<1>1. /\ CanStep(p) /\ UNCHANGED <<schedVars, semaphore, locals, waiter, back>>
      /\ UNCHANGED <<interruptVars, queueVars, procVars>>
  BY DEF WaitReturn, LeaveSection, EvIdle, CheckEvents, EvBody, SwapEvents, AddEvent,
         At, eventQueue, schedVars
<1>2. SchedInv'
  BY <1>1, InvStutter DEF EvInv
<1>3. PICK m \in EvLabels :
        /\ pc' = [pc EXCEPT ![p] = m]
        /\ \/ p # EvProc /\ pc[p] = "w_return" /\ m = "section"
           \/ p # EvProc /\ pc[p] = "section" /\ m = "s_disable"
           \/ p = EvProc /\ pc[p] = "idle" /\ m \in {"t_disable", "v_body"}
           \/ p = EvProc /\ pc[p] = "v_check" /\ m \in {"c_disable", "v_body"}
           \/ p = EvProc /\ pc[p] = "v_body" /\ m = "s_disable"
           \/ p = EvProc /\ pc[p] = "d_swap" /\ m = "d_enable"
           \/ pc[p] = "e_add" /\ m = "e_test"
  BY DEF WaitReturn, LeaveSection, EvIdle, CheckEvents, EvBody, SwapEvents, AddEvent,
         At, Goto, EvLabels, Labels, EvWaitLabels, ReceiveLabels
<1> QED
  BY <1>1, <1>2, <1>3, EvRunning, CalmStep
     DEF SleepLabels, WakeLabels, CountLabels, CriticalLabels, EvWaitLabels, ReceiveLabels,
         EvKernel, WaitKernel, SignalKernel, AboutToEnable, interruptVars

(* A failed assertion, or an unknown selector, stops the machine.          *)
LEMMA EvAbort ==
    ASSUME EvInv, Abort, UNCHANGED <<semaphore, pc, locals, eventQueue, back>>
    PROVE  EvInv'
<1>1. UNCHANGED <<interruptsDisabled, interruptFlag, runnable, curProc, phase, state, life,
                  count, waiters, reg, who, waiter>>
  BY DEF Abort, interruptVars, queueVars, procVars, semaphore, locals, eventQueue
<1>2. SchedInv'
  BY InvAbort DEF EvInv
<1>3. EvTypeOK' /\ EvHeld' /\ CountMatches'
  BY <1>1 DEF EvInv, EvTypeOK, EvHeld, CountMatches, Adding, Removing
<1>4. Waiters' = Waiters /\ Queued' = Queued /\ Waking' = Waking
      /\ \A q \in Proc : Running(q)' = Running(q) /\ Asleep(q)' = Asleep(q)
  BY <1>1 DEF Waiters, Queued, Running, Waking, Asleep
<1>5. ListedOnce' /\ WaitersParked' /\ SleeperParked' /\ WaitingListed' /\ SignalKnows'
  BY <1>1, <1>4, EvAssumption DEF EvInv, EvTypeOK, SleepInv, ListedOnce, WaitersParked, Parked,
     SleeperParked, WaitingListed, SignalKnows
<1>6. InReach'
  BY <1>1, <1>4 DEF EvInv, SleepInv, InReach
<1> QED BY <1>2, <1>3, <1>5, <1>6 DEF EvInv, SleepInv

(* The calls of yield: interrupts are enabled, and stay so.                *)
LEMMA EvYields ==
    ASSUME EvInv, NEW p \in Proc,
           \/ p # EvProc /\ WaitYield(p) /\ UNCHANGED <<eventQueue, back>>
           \/ p = EvProc /\ SleepYield(p)
    PROVE  EvInv'
<1>1. /\ CanStep(p) /\ yield /\ UNCHANGED <<semaphore, locals, waiter, back>>
      /\ pc[p] \in {"w_yield", "c_yield"}
  BY DEF WaitYield, SleepYield, At, eventQueue
<1>2. ~interruptsDisabled
  BY <1>1, EvRunning DEF EvKernel, WaitKernel, SignalKernel, AboutToEnable
<1>3. ~interruptsDisabled' /\ interruptFlag' /\ UNCHANGED <<queueVars, procVars>>
  BY <1>1, <1>2 DEF yield
<1>4. SchedInv'
  BY <1>1, InvInterruptCalls DEF EvInv
<1>5. PICK m \in EvLabels :
        /\ pc' = [pc EXCEPT ![p] = m]
        /\ \/ p # EvProc /\ pc[p] = "w_yield" /\ m = "w_return"
           \/ p = EvProc /\ pc[p] = "c_yield" /\ m = "d_disable"
  BY DEF WaitYield, SleepYield, At, Goto, EvLabels, Labels, EvWaitLabels
<1> QED
  BY <1>1, <1>3, <1>4, <1>5, EvRunning, CalmStep
     DEF SleepLabels, WakeLabels, CountLabels, CriticalLabels, EvWaitLabels, ReceiveLabels,
         EvKernel, WaitKernel, SignalKernel

(* The calls of enableInterrupts.                                          *)
LEMMA EvEnables ==
    ASSUME EvInv, NEW p \in Proc,
           \/ Enable(p) /\ UNCHANGED <<eventQueue, back>>
           \/ p = EvProc /\ EvEnable(p)
           \/ WakeEnable(p)
    PROVE  EvInv'
<1>1. /\ CanStep(p) /\ enableInterrupts /\ UNCHANGED <<semaphore, locals, waiter>>
  BY DEF Enable, EvEnable, WakeEnable, At, eventQueue
<1>2. ~interruptsDisabled' /\ UNCHANGED <<queueVars, procVars>>
  BY <1>1 DEF enableInterrupts
<1>3. SchedInv'
  BY <1>1, InvInterruptCalls DEF EvInv
<1>4. /\ back \in [Proc -> {"idle", "s_enable", "t_enable"}]
      /\ pc[p] \in ReceiveLabels => back[p] # "idle"
      /\ back[p] = "t_enable" => p = EvProc
      /\ p = EvProc => pc[p] \notin CriticalLabels
      /\ pc \in [Proc -> EvLabels]
  BY DEF EvInv, EvTypeOK
<1>5. PICK m \in EvLabels :
        /\ pc' = [pc EXCEPT ![p] = m]
        /\ \/ pc[p] = "w_enable" /\ m = "w_yield" /\ UNCHANGED back
           \/ pc[p] = "w_leave" /\ m = "w_return" /\ UNCHANGED back
           \/ pc[p] = "s_enable" /\ m = "idle" /\ UNCHANGED back
           \/ p = EvProc /\ pc[p] = "t_leave" /\ m = "v_check" /\ UNCHANGED back
           \/ p = EvProc /\ pc[p] = "t_enable" /\ m = "v_already" /\ UNCHANGED back
           \/ p = EvProc /\ pc[p] = "c_enable" /\ m = "c_yield" /\ UNCHANGED back
           \/ p = EvProc /\ pc[p] = "d_enable" /\ m = "v_body" /\ UNCHANGED back
           \/ /\ pc[p] = "e_enable" /\ m = back[p] /\ m \in {"s_enable", "t_enable"}
              /\ back' = [back EXCEPT ![p] = "idle"]
  <2>1. CASE Enable(p) /\ UNCHANGED <<eventQueue, back>>
    BY <2>1 DEF Enable, At, Goto, EvLabels, Labels, WaitKernel, SignalKernel
  <2>2. CASE p = EvProc /\ EvEnable(p)
    BY <2>2 DEF EvEnable, At, Goto, EvLabels, EvWaitLabels
  <2>3. CASE WakeEnable(p)
    BY <2>3, <1>4 DEF WakeEnable, At, Goto, EvLabels, Labels, EvWaitLabels, ReceiveLabels,
                      WaitKernel, SignalKernel
  <2> QED BY <2>1, <2>2, <2>3
<1>6. /\ m \notin SleepLabels \cup WakeLabels \cup CountLabels
      /\ pc[p] \notin {"w_state", "c_waiter", "s_activate", "s_resume",
                      "e_resume", "e_clear"} \cup CountLabels
      /\ p = EvProc => m \notin CriticalLabels
      /\ m \in EvWaitLabels => p = EvProc
      /\ m \notin ReceiveLabels /\ m \notin EvKernel
  BY <1>4, <1>5 DEF SleepLabels, WakeLabels, CountLabels, CriticalLabels, EvWaitLabels,
                    ReceiveLabels, EvKernel, WaitKernel, SignalKernel
<1>7. /\ pc' = [pc EXCEPT ![p] = m]
      /\ UNCHANGED back \/ back' = [back EXCEPT ![p] = "idle"]
      /\ p \in Waiters => m = "w_yield"
      /\ waiter = p => m = "c_yield"
  BY <1>1, <1>5, EvRunning
<1> QED
  BY <1>1, <1>2, <1>3, <1>6, <1>7, CalmStep

-----------------------------------------------------------------------------
(* The calls of disableInterrupts: first TESTCOUNTER ...                   *)
LEMMA EvStartsDisable ==
    ASSUME EvInv, NEW p \in Proc,
           \/ StartDisable(p) /\ UNCHANGED <<eventQueue, back>>
           \/ EvStartDisable(p)
    PROVE  EvInv'
<1>1. /\ CanStep(p) /\ enterDisable
      /\ UNCHANGED <<semaphore, pc, locals, eventQueue, back>>
      /\ pc[p] \in {"w_disable", "s_disable", "t_disable", "c_disable", "d_disable",
                    "e_disable"}
  BY DEF StartDisable, EvStartDisable
<1>2. /\ UNCHANGED <<interruptsDisabled, interruptFlag, runnable, curProc, state, life,
                     count, waiters, pc, reg, who, waiter, back>>
      /\ phase = "execute" /\ phase' = "disabling" /\ curProc = p
  BY <1>1, EvRunning DEF enterDisable, interruptVars, procVars, semaphore, locals, eventQueue
<1>3. SchedInv'
  BY <1>1, InvInterruptCalls DEF EvInv
<1>4. EvTypeOK' /\ CountMatches'
  BY <1>2 DEF EvInv, EvTypeOK, CountMatches, Adding, Removing
<1>5. \A q \in Proc : pc[q] \notin EvKernel
  BY <1>1, EvRunning DEF EvKernel, WaitKernel, SignalKernel
<1>6. EvHeld'
  BY <1>2, <1>5 DEF EvInv, EvHeld
<1>7. /\ Waiters' = Waiters /\ Queued' = Queued /\ Waking' = Waking
      /\ \A q \in Proc : Running(q)' = Running(q) /\ Asleep(q)' = Asleep(q)
  BY <1>2 DEF Waiters, Queued, Running, Waking, Asleep
<1>8. waiter # p
  BY <1>1, EvRunning
<1>9. ListedOnce' /\ WaitersParked' /\ WaitingListed' /\ SignalKnows'
  BY <1>2, <1>7 DEF EvInv, SleepInv, ListedOnce, WaitersParked, Parked, WaitingListed,
                    SignalKnows
<1>10. SleeperParked'
  BY <1>2, <1>7, <1>8, EvAssumption, EvRunning, <1>1
     DEF EvInv, EvTypeOK, SleepInv, SleeperParked
<1>11. InReach'
  BY <1>2, <1>7 DEF EvInv, SleepInv, InReach
<1> QED BY <1>3, <1>4, <1>6, <1>9, <1>10, <1>11 DEF EvInv, SleepInv

(* ... and then the exchange, which takes back an interrupt that the timer *)
(* raised in between.                                                      *)
LEMMA EvFinishesDisable ==
    ASSUME EvInv, NEW p \in Proc,
           \/ FinishDisable(p) /\ (p = EvProc => pc[p] = "s_disable")
                /\ UNCHANGED <<eventQueue, back>>
           \/ EvFinishDisable(p)
    PROVE  EvInv'
<1>1. /\ ~aborted /\ curProc = p /\ disableInterrupts
      /\ UNCHANGED <<semaphore, locals, eventQueue, back>>
  BY DEF FinishDisable, EvFinishDisable
<1>2. /\ UNCHANGED <<runnable, curProc, state, life, count, waiters, reg, who, waiter, back>>
      /\ phase = "disabling" /\ phase' = "execute"
      /\ interruptsDisabled' = TRUE /\ interruptFlag' = FALSE
  BY <1>1 DEF disableInterrupts, procVars, semaphore, locals, eventQueue
<1>3. SchedInv'
  BY <1>1, InvDisabling DEF EvInv, Disabling
<1>4. PICK m \in EvLabels :
        /\ pc' = [pc EXCEPT ![p] = m]
        /\ \/ pc[p] = "w_disable" /\ m = "w_load" /\ p # EvProc
           \/ pc[p] = "s_disable" /\ m = "s_load"
           \/ pc[p] = "t_disable" /\ m = "t_load"
           \/ pc[p] = "c_disable" /\ m = "c_state"
           \/ pc[p] = "d_disable" /\ m = "d_swap"
           \/ pc[p] = "e_disable" /\ m = "e_state"
  BY DEF FinishDisable, EvFinishDisable, Goto, EvLabels, Labels, EvWaitLabels,
         ReceiveLabels, WaitKernel, SignalKernel
<1>5. /\ pc \in [Proc -> EvLabels]
      /\ pc'[p] = m /\ \A q \in Proc : q # p => pc'[q] = pc[q]
      /\ m \in EvKernel /\ m \notin CountLabels /\ pc[p] \notin CountLabels
  BY <1>4 DEF EvInv, EvTypeOK, EvKernel, WaitKernel, SignalKernel, CountLabels
<1>6. \A q \in Proc : pc[q] \notin EvKernel /\ (q # p => pc[q] # "e_disable")
  BY <1>1, <1>2 DEF EvInv, EvHeld
<1>7. EvHeld'
  BY <1>1, <1>2, <1>5, <1>6 DEF EvHeld
<1>8. EvTypeOK'
  <2>1. /\ p = EvProc => m \notin CriticalLabels
        /\ m \in EvWaitLabels => p = EvProc
        /\ m \in ReceiveLabels => back[p] # "idle"
    BY <1>4 DEF EvInv, EvTypeOK, CriticalLabels, EvWaitLabels, ReceiveLabels, WaitKernel
  <2> QED BY <1>2, <1>4, <2>1, TypedStep DEF EvInv, EvTypeOK
<1>9. CountMatches'
  BY <1>2, <1>4, <1>5, CalmCount
<1>10. p \notin Waiters /\ waiter # p
  <2>1. p \notin Waiters
    BY <1>4 DEF EvInv, SleepInv, WaitersParked, Parked
  <2>2. ~Waking
    BY <1>6 DEF Waking, EvKernel
  <2>3. waiter # p
    BY <1>1, <1>2, <1>4, <2>2, ProcAssumption DEF EvInv, SleepInv, SleeperParked, Running
  <2> QED BY <2>1, <2>3
<1>11. CASE m # "e_state"
  <2>1. SleepInv'
    BY <1>1, <1>2, <1>4, <1>10, <1>11, CalmSleep DEF SleepLabels, WakeLabels
  <2> QED BY <1>3, <1>7, <1>8, <1>9, <2>1 DEF EvInv
<1>12. CASE m = "e_state"
  <2>1. /\ Waiters' = Waiters /\ Queued' = Queued
        /\ \A q \in Proc : Running(q)' = Running(q) /\ Asleep(q)' = Asleep(q)
        /\ \A q \in Proc : Running(q) => q = p
        /\ ~Waking /\ ~Waking' /\ pc[p] = "e_disable"
    BY <1>1, <1>2, <1>4, <1>5, <1>6, <1>12
       DEF Waiters, Queued, Running, Asleep, Waking, EvKernel
  <2> USE DEF EvInv, SleepInv
  <2>2. ListedOnce'
    BY <1>2 DEF ListedOnce
  <2>3. WaitersParked'
    BY <1>2, <1>5, <1>10, <2>1 DEF WaitersParked, Parked
  <2>4. SleeperParked'
    BY <1>2, <1>5, <1>10, <1>12, <2>1, ProcAssumption, EvAssumption
       DEF SleeperParked, EvTypeOK, Waking
  <2>5. WaitingListed'
    BY <1>2, <1>5, <1>12, <2>1 DEF WaitingListed
  <2>6. SignalKnows'
    BY <1>2, <1>5, <1>12, <2>1 DEF SignalKnows
  <2>7. InReach'
    BY <1>2, <1>5, <2>1 DEF InReach
  <2> QED BY <1>3, <1>7, <1>8, <1>9, <2>2, <2>3, <2>4, <2>5, <2>6, <2>7
<1> QED BY <1>11, <1>12

-----------------------------------------------------------------------------
(* receiveEvent:, from the signal that met the queue to the waiter's       *)
(* return to the run queue.  What every step of it inside the kernel needs:*)
LEMMA EvInside ==
    ASSUME EvInv, NEW p \in Proc, CanStep(p), NEW m \in EvKernel \cup AboutToEnable,
           pc[p] \in EvKernel, pc' = [pc EXCEPT ![p] = m],
           UNCHANGED <<interruptsDisabled, interruptFlag, phase, curProc>>
    PROVE  /\ EvHeld'
           /\ pc' \in [Proc -> EvLabels \cup {m}] /\ pc'[p] = m
           /\ \A q \in Proc : q # p => pc'[q] = pc[q] /\ pc[q] \notin EvKernel \cup {"e_disable"}
           /\ \A q \in Proc : Running(q)' = Running(q) /\ (Running(q) <=> q = p)
<1>1. pc \in [Proc -> EvLabels]
  BY DEF EvInv, EvTypeOK
<1>2. EvHeld'
  BY HeldInside, EvRunning
<1>3. pc' \in [Proc -> EvLabels \cup {m}] /\ pc'[p] = m
      /\ \A q \in Proc : q # p => pc'[q] = pc[q]
  BY <1>1
<1>4. \A q \in Proc : Running(q)' = Running(q)
  BY DEF Running
<1> QED BY <1>2, <1>3, <1>4, EvRunning

LEMMA EvReceiveEvent ==
    ASSUME EvInv, NEW p \in Proc, ReceiveEvent(p)
    PROVE  EvInv'
<1>1. /\ CanStep(p) /\ pc[p] = "s_activate" /\ who[p] = EvQ
      /\ pc' = [pc EXCEPT ![p] = "e_add"]
      /\ back' = [back EXCEPT ![p] = "s_enable"]
      /\ who' = [who EXCEPT ![p] = NoProc]
      /\ UNCHANGED <<schedVars, count, waiters, reg, waiter>>
  BY DEF ReceiveEvent, At, Goto, semaphore, eventQueue
<1>2. UNCHANGED <<interruptsDisabled, interruptFlag, phase, curProc, runnable, state, life>>
  BY <1>1 DEF schedVars, interruptVars, queueVars, procVars
<1>3. SchedInv'
  BY <1>1, InvStutter DEF EvInv
<1>4. /\ EvHeld' /\ pc'[p] = "e_add"
      /\ \A q \in Proc : q # p => pc'[q] = pc[q] /\ pc[q] \notin EvKernel \cup {"e_disable"}
      /\ \A q \in Proc : Running(q)' = Running(q) /\ (Running(q) <=> q = p)
  BY <1>1, <1>2, EvInside DEF EvKernel, SignalKernel
<1>5. EvTypeOK'
  BY <1>1, TypedStep, EvAssumption
     DEF EvInv, EvTypeOK, EvLabels, ReceiveLabels, EvWaitLabels, CriticalLabels, WaitKernel
<1>6. CountMatches'
  BY <1>1, CalmCount DEF CountLabels
<1>7. /\ Waiters' = Waiters /\ Queued' = Queued
      /\ \A q \in Proc : Asleep(q)' = Asleep(q)
      /\ who[p] \notin Proc /\ p \notin Waiters /\ waiter # p
      /\ \A q \in Proc : q # p => who'[q] = who[q]
  <2>1. Waiters' = Waiters /\ Queued' = Queued
    BY <1>1, <1>2 DEF Waiters, Queued
  <2>2. \A q \in Proc : Asleep(q)' = Asleep(q)
    BY <1>2, <1>4, <2>1 DEF Asleep
  <2>3. p \notin Waiters /\ waiter # p
    BY <1>1, EvRunning
  <2> QED BY <1>1, <2>1, <2>2, <2>3, EvAssumption DEF EvInv, EvTypeOK
<1> USE DEF EvInv, SleepInv
<1>8. ListedOnce'
  BY <1>1 DEF ListedOnce
<1>9. WaitersParked'
  BY <1>2, <1>4, <1>7 DEF WaitersParked, Parked
<1>10. SleeperParked'
  <2>1. ~Waking /\ ~Waking'
    BY <1>1, <1>4 DEF Waking, EvKernel
  <2> QED BY <1>1, <1>2, <1>4, <1>7, <2>1, EvAssumption
          DEF SleeperParked, EvKernel, EvTypeOK
<1>11. WaitingListed'
  BY <1>1, <1>2, <1>4, <1>7 DEF WaitingListed
<1>12. SignalKnows'
  BY <1>1, <1>4, <1>7 DEF SignalKnows, EvKernel, SignalKernel
<1>13. InReach'
  BY <1>1, <1>4, <1>7 DEF InReach
<1> QED BY <1>3, <1>4, <1>5, <1>6, <1>8, <1>9, <1>10, <1>11, <1>12, <1>13

LEMMA EvTestWaiter ==
    ASSUME EvInv, NEW p \in Proc, TestWaiter(p)
    PROVE  EvInv'
<1>1. /\ CanStep(p) /\ pc[p] = "e_test"
      /\ UNCHANGED <<schedVars, semaphore, locals, waiter>>
      /\ UNCHANGED <<interruptVars, queueVars, procVars, count, waiters, reg, who>>
  BY DEF TestWaiter, At, eventQueue, schedVars, semaphore, locals
<1>2. SchedInv'
  BY <1>1, InvStutter DEF EvInv
<1>3. interruptsDisabled /\ p \notin Waiters /\ waiter # p
  BY <1>1, EvRunning DEF EvKernel
<1>4. CASE /\ waiter # NoProc /\ pc' = [pc EXCEPT ![p] = "e_disable"]
           /\ UNCHANGED back
  <2>1. UNCHANGED <<interruptsDisabled, interruptFlag, phase, curProc, runnable, state, life>>
    BY <1>1 DEF interruptVars, queueVars, procVars
  <2>2. /\ EvHeld' /\ pc'[p] = "e_disable"
        /\ \A q \in Proc : q # p => pc'[q] = pc[q] /\ pc[q] \notin EvKernel \cup {"e_disable"}
        /\ \A q \in Proc : Running(q)' = Running(q) /\ (Running(q) <=> q = p)
    BY <1>1, <1>4, <2>1, EvInside DEF EvKernel, AboutToEnable
  <2>3. EvTypeOK'
    BY <1>1, <1>4, TypedStep
       DEF EvInv, EvTypeOK, EvLabels, ReceiveLabels, EvWaitLabels, CriticalLabels, WaitKernel
  <2>4. CountMatches'
    BY <1>1, <1>4, CalmCount DEF CountLabels
  <2>5. /\ Waiters' = Waiters /\ Queued' = Queued /\ ~Waking /\ ~Waking'
        /\ \A q \in Proc : Asleep(q)' = Asleep(q)
    BY <1>1, <2>1, <2>2 DEF Waiters, Queued, Asleep, Waking, EvKernel
  <2> USE DEF EvInv, SleepInv
  <2>6. ListedOnce'
    BY <1>1 DEF ListedOnce
  <2>7. WaitersParked'
    BY <1>3, <2>1, <2>2, <2>5 DEF WaitersParked, Parked
  <2>8. SleeperParked'
    BY <1>1, <1>3, <1>4, <2>1, <2>2, <2>5, EvAssumption
       DEF SleeperParked, EvKernel, EvTypeOK
  <2>9. WaitingListed'
    BY <1>1, <2>1, <2>2, <2>5 DEF WaitingListed
  <2>10. SignalKnows'
    BY <1>1, <2>1, <2>2, <2>5 DEF SignalKnows
  <2>11. InReach'
    BY <1>1, <2>2, <2>5 DEF InReach
  <2> QED BY <1>2, <2>2, <2>3, <2>4, <2>6, <2>7, <2>8, <2>9, <2>10, <2>11
<1>5. CASE /\ pc' = [pc EXCEPT ![p] = back[p]]
           /\ back' = [back EXCEPT ![p] = "idle"]
  <2> DEFINE m == back[p]
  <2>1. m \in {"s_enable", "t_enable"} /\ (m = "t_enable" => p = EvProc)
    BY <1>1 DEF EvInv, EvTypeOK, ReceiveLabels
  <2>2. /\ m \in EvLabels /\ m \notin SleepLabels \cup WakeLabels \cup CountLabels
        /\ p = EvProc => m \notin CriticalLabels
        /\ m \in EvWaitLabels => p = EvProc
        /\ m \notin ReceiveLabels /\ m \in EvKernel \cup AboutToEnable
    BY <2>1 DEF SleepLabels, WakeLabels, CountLabels, CriticalLabels, EvWaitLabels, EvLabels,
                Labels, ReceiveLabels, AboutToEnable, WaitKernel, SignalKernel
  <2> QED BY <1>1, <1>2, <1>3, <1>5, <2>2, CalmStep DEF CountLabels
<1> QED BY <1>1, <1>4, <1>5 DEF TestWaiter, Goto

LEMMA EvWakeState ==
    ASSUME EvInv, NEW p \in Proc, WakeState(p)
    PROVE  EvInv'
<1>1. /\ CanStep(p) /\ pc[p] = "e_state" /\ setState(waiter, Active)
      /\ pc' = [pc EXCEPT ![p] = "e_resume"]
      /\ UNCHANGED <<count, waiters, reg, who, waiter, back>>
  BY DEF WakeState, At, Goto, semaphore, locals, eventQueue
<1>2. waiter = EvProc /\ EvProc \in Proc /\ waiter # p /\ p \notin Waiters
  BY <1>1, EvRunning, EvAssumption DEF EvInv, EvTypeOK, SleepInv, SleeperParked
<1>3. /\ UNCHANGED <<interruptsDisabled, interruptFlag, phase, curProc, runnable, life>>
      /\ state' = [state EXCEPT ![EvProc] = Active] /\ Active # Waiting
      /\ state \in [Proc -> {Suspended, Active, Waiting}]
  BY <1>1, <1>2 DEF setState, interruptVars, queueVars, EvInv, SchedInv, SchedTypeOK,
                    Active, Waiting
<1>4. SchedInv'
  BY <1>1, <1>2, InvSetState DEF EvInv
<1>5. /\ EvHeld' /\ pc'[p] = "e_resume"
      /\ \A q \in Proc : q # p => pc'[q] = pc[q] /\ pc[q] \notin EvKernel \cup {"e_disable"}
      /\ \A q \in Proc : Running(q)' = Running(q) /\ (Running(q) <=> q = p)
  BY <1>1, <1>3, EvInside DEF EvKernel
<1>6. EvTypeOK'
  BY <1>1, TypedStep
     DEF EvInv, EvTypeOK, EvLabels, ReceiveLabels, EvWaitLabels, CriticalLabels, WaitKernel
<1>7. CountMatches'
  BY <1>1, CalmCount DEF CountLabels
<1>8. /\ Waiters' = Waiters /\ Queued' = Queued /\ ~Waking /\ Waking'
      /\ \A q \in Proc : Asleep(q)' = Asleep(q)
  BY <1>1, <1>3, <1>5 DEF Waiters, Queued, Asleep, Waking, EvKernel
<1> USE DEF EvInv, SleepInv
<1>9. ListedOnce'
  BY <1>1 DEF ListedOnce
<1>10. EvProc \notin Waiters
  BY <1>2 DEF EvTypeOK, WaitersParked, Parked, CriticalLabels, WaitKernel
<1>11. WaitersParked'
  BY <1>2, <1>3, <1>5, <1>8, <1>10 DEF WaitersParked, Parked
<1>12. SleeperParked'
  BY <1>1, <1>2, <1>3, <1>5, <1>8, ProcAssumption DEF SleeperParked, EvKernel
<1>13. WaitingListed'
  <2>1. \A q \in Proc : pc'[q] = "c_waiter" => state'[q] = Waiting
    BY <1>2, <1>3, <1>5 DEF EvKernel
  <2>2. \A q \in Proc : state'[q] = Waiting => q # EvProc /\ state[q] = Waiting
    BY <1>2, <1>3
  <2> QED BY <1>1, <1>2, <1>5, <1>8, <2>1, <2>2 DEF WaitingListed
<1>14. SignalKnows'
  BY <1>5 DEF SignalKnows, EvKernel, SignalKernel
<1>15. InReach'
  BY <1>1, <1>5, <1>8 DEF InReach
<1> QED BY <1>4, <1>5, <1>6, <1>7, <1>9, <1>11, <1>12, <1>13, <1>14, <1>15

LEMMA EvWakeResume ==
    ASSUME EvInv, NEW p \in Proc, WakeResume(p)
    PROVE  EvInv'
<1>1. /\ CanStep(p) /\ pc[p] = "e_resume" /\ procResume(waiter)
      /\ pc' = [pc EXCEPT ![p] = "e_clear"]
      /\ UNCHANGED <<count, waiters, reg, who, waiter, back>>
  BY DEF WakeResume, At, Goto, semaphore, locals, eventQueue
<1>2. /\ waiter = EvProc /\ EvProc \in Proc /\ EvProc # p /\ p \notin Waiters
      /\ life[EvProc] = "live" /\ EvProc \notin Queued
  BY <1>1, EvRunning, EvAssumption DEF EvInv, EvTypeOK, SleepInv, SleeperParked
<1>3. /\ UNCHANGED <<interruptVars, interruptsDisabled, interruptFlag, phase, curProc>>
      /\ runnable' = addToListLast(EvProc)
      /\ life' = [life EXCEPT ![EvProc] = "live"]
      /\ state' = [state EXCEPT ![EvProc] = Active] /\ Active # Waiting
      /\ state \in [Proc -> {Suspended, Active, Waiting}] /\ life \in [Proc -> Lives]
  BY <1>1, <1>2 DEF procResume, interruptVars, EvInv, SchedInv, SchedTypeOK, Active, Waiting
<1>4. SchedInv'
  BY <1>1, <1>2, InvResume DEF EvInv
<1>5. /\ EvHeld' /\ pc'[p] = "e_clear"
      /\ \A q \in Proc : q # p => pc'[q] = pc[q] /\ pc[q] \notin EvKernel \cup {"e_disable"}
      /\ \A q \in Proc : Running(q)' = Running(q) /\ (Running(q) <=> q = p)
  BY <1>1, <1>3, EvInside DEF EvKernel
<1>6. EvTypeOK'
  BY <1>1, TypedStep
     DEF EvInv, EvTypeOK, EvLabels, ReceiveLabels, EvWaitLabels, CriticalLabels, WaitKernel
<1>7. CountMatches'
  BY <1>1, CalmCount DEF CountLabels
<1>8. /\ Waiters' = Waiters /\ Queued' = Queued \cup {EvProc}
      /\ \A q \in Proc : Asleep(q)' => Asleep(q)
  <2>1. Waiters' = Waiters /\ Queued' = Queued \cup {EvProc}
    BY <1>1, <1>2, <1>3, EnterQueue DEF Waiters, EvInv
  <2> QED BY <1>2, <1>3, <1>5, <2>1 DEF Asleep
<1> USE DEF EvInv, SleepInv
<1>9. ListedOnce'
  BY <1>1 DEF ListedOnce
<1>10. EvProc \notin Waiters
  BY <1>2 DEF EvTypeOK, WaitersParked, Parked, CriticalLabels, WaitKernel
<1>11. WaitersParked'
  BY <1>2, <1>3, <1>5, <1>8, <1>10 DEF WaitersParked, Parked
<1>12. Waking'
  BY <1>5 DEF Waking
<1>13. SleeperParked'
  BY <1>1, <1>2, <1>3, <1>5, <1>8, <1>12, ProcAssumption DEF SleeperParked, EvKernel
<1>14. WaitingListed'
  <2>1. \A q \in Proc : pc'[q] = "c_waiter" => state'[q] = Waiting
    BY <1>2, <1>3, <1>5 DEF EvKernel
  <2>2. \A q \in Proc : state'[q] = Waiting => q # EvProc /\ state[q] = Waiting
    BY <1>2, <1>3
  <2> QED BY <1>1, <1>2, <1>5, <1>8, <2>1, <2>2 DEF WaitingListed
<1>15. SignalKnows'
  BY <1>5 DEF SignalKnows, EvKernel, SignalKernel
<1>16. InReach'
  BY <1>1, <1>5, <1>8 DEF InReach
<1> QED BY <1>4, <1>5, <1>6, <1>7, <1>9, <1>11, <1>13, <1>14, <1>15, <1>16

LEMMA EvWakeClear ==
    ASSUME EvInv, NEW p \in Proc, WakeClear(p)
    PROVE  EvInv'
<1>1. /\ CanStep(p) /\ pc[p] = "e_clear" /\ waiter' = NoProc
      /\ pc' = [pc EXCEPT ![p] = "e_enable"]
      /\ UNCHANGED <<schedVars, count, waiters, reg, who, back>>
  BY DEF WakeClear, At, Goto, semaphore, locals
<1>2. UNCHANGED <<interruptsDisabled, interruptFlag, phase, curProc, runnable, state, life>>
  BY <1>1 DEF schedVars, interruptVars, queueVars, procVars
<1>3. /\ waiter = EvProc /\ EvProc \in Proc /\ EvProc # p /\ p \notin Waiters
      /\ state[EvProc] = Active /\ Active # Waiting /\ EvProc \in Queued
  BY <1>1, EvRunning, EvAssumption
     DEF EvInv, EvTypeOK, SleepInv, SleeperParked, Active, Waiting
<1>4. SchedInv'
  BY <1>1, InvStutter DEF EvInv
<1>5. /\ EvHeld' /\ pc'[p] = "e_enable"
      /\ \A q \in Proc : q # p => pc'[q] = pc[q] /\ pc[q] \notin EvKernel \cup {"e_disable"}
      /\ \A q \in Proc : Running(q)' = Running(q) /\ (Running(q) <=> q = p)
  BY <1>1, <1>2, EvInside DEF EvKernel, AboutToEnable
<1>6. EvTypeOK'
  BY <1>1, TypedStep
     DEF EvInv, EvTypeOK, EvLabels, ReceiveLabels, EvWaitLabels, CriticalLabels, WaitKernel
<1>7. CountMatches'
  BY <1>1, CalmCount DEF CountLabels
<1>8. /\ Waiters' = Waiters /\ Queued' = Queued
      /\ \A q \in Proc : Asleep(q)' => Asleep(q) /\ q # waiter
  BY <1>1, <1>2, <1>3, <1>5 DEF Waiters, Queued, Asleep
<1> USE DEF EvInv, SleepInv
<1>9. ListedOnce'
  BY <1>1 DEF ListedOnce
<1>10. WaitersParked'
  BY <1>2, <1>3, <1>5, <1>8 DEF WaitersParked, Parked
<1>11. SleeperParked'
  BY <1>1, <1>5, ProcAssumption DEF SleeperParked, EvKernel
<1>12. WaitingListed'
  BY <1>1, <1>2, <1>3, <1>5, <1>8 DEF WaitingListed
<1>13. SignalKnows'
  BY <1>5 DEF SignalKnows, EvKernel, SignalKernel
<1>14. InReach'
  BY <1>1, <1>5, <1>8 DEF InReach
<1> QED BY <1>4, <1>5, <1>6, <1>7, <1>9, <1>10, <1>11, <1>12, <1>13, <1>14

-----------------------------------------------------------------------------
(* The steps that read and write the count.                                *)
LEMMA EvLoads ==
    ASSUME EvInv, NEW p \in Proc,
           \/ LoadCount(p) /\ (p = EvProc => pc[p] = "s_load") /\ UNCHANGED <<eventQueue, back>>
           \/ p = EvProc /\ TryLoad(p)
    PROVE  EvInv'
<1>1. /\ CanStep(p) /\ reg' = [reg EXCEPT ![p] = count]
      /\ UNCHANGED <<schedVars, count, waiters, who, waiter, back>>
  BY DEF LoadCount, TryLoad, At, semaphore, eventQueue
<1>2. UNCHANGED <<interruptsDisabled, interruptFlag, phase, curProc, runnable, state, life>>
  BY <1>1 DEF schedVars, interruptVars, queueVars, procVars
<1>3. PICK m \in EvLabels :
        /\ pc' = [pc EXCEPT ![p] = m]
        /\ \/ p # EvProc /\ pc[p] = "w_load" /\ m = "w_store"
           \/ pc[p] = "s_load" /\ m = "s_store"
           \/ p = EvProc /\ pc[p] = "t_load" /\ m = "t_store"
  BY DEF LoadCount, TryLoad, At, Goto, EvLabels, Labels, EvWaitLabels, WaitKernel, SignalKernel
<1>4. SchedInv'
  BY <1>1, InvStutter DEF EvInv
<1>5. /\ EvHeld' /\ pc'[p] = m
      /\ \A q \in Proc : q # p => pc'[q] = pc[q] /\ pc[q] \notin EvKernel \cup {"e_disable"}
  BY <1>1, <1>2, <1>3, EvInside DEF EvKernel, WaitKernel, SignalKernel
<1>6. EvTypeOK'
  BY <1>1, <1>3, TypedStep
     DEF EvInv, EvTypeOK, ReceiveLabels, EvWaitLabels, CriticalLabels, WaitKernel
<1>7. SleepInv'
  BY <1>1, <1>2, <1>3, EvRunning, CalmSleep DEF SleepLabels, WakeLabels
<1>8. /\ ~Adding /\ ~Removing /\ ~Adding' /\ ~Removing'
      /\ \A q \in Proc : q # p => pc'[q] \notin {"w_store", "s_store", "t_store"}
  BY <1>3, <1>5 DEF Adding, Removing, EvKernel, WaitKernel, SignalKernel
<1>9. CountMatches'
  BY <1>1, <1>8 DEF EvInv, EvTypeOK, CountMatches
<1> QED BY <1>4, <1>5, <1>6, <1>7, <1>9 DEF EvInv

LEMMA EvStores ==
    ASSUME EvInv, NEW p \in Proc,
           \/ p # EvProc /\ WaitStore(p) /\ UNCHANGED <<eventQueue, back>>
           \/ SignalStore(p) /\ UNCHANGED <<eventQueue, back>>
           \/ p = EvProc /\ TryStore(p)
    PROVE  EvInv'
<1>1. /\ CanStep(p) /\ reg' = [reg EXCEPT ![p] = 0]
      /\ UNCHANGED <<schedVars, waiters, who, waiter>>
  BY DEF WaitStore, SignalStore, TryStore, At, eventQueue
<1>2. UNCHANGED <<interruptsDisabled, interruptFlag, phase, curProc, runnable, state, life>>
  BY <1>1 DEF schedVars, interruptVars, queueVars, procVars
<1>3. /\ pc[p] \in {"w_store", "s_store", "t_store"} /\ reg[p] = count /\ count \in Int
      /\ waiters \in Seq(Proc \cup {EvQ}) /\ Len(waiters) \in Nat
  BY LenProperties DEF EvInv, EvTypeOK, CountMatches, WaitStore, SignalStore, TryStore, At
<1>4. PICK m \in EvLabels :
        /\ pc' = [pc EXCEPT ![p] = m]
        /\ \/ /\ p # EvProc /\ pc[p] = "w_store" /\ UNCHANGED back
              /\ count' = count - 1 /\ m = IF count' < 0 THEN "w_add" ELSE "w_leave"
           \/ /\ pc[p] = "s_store" /\ UNCHANGED back
              /\ count' = count + 1 /\ m = IF count' <= 0 THEN "s_first" ELSE "s_enable"
           \/ /\ p = EvProc /\ pc[p] = "t_store" /\ count' = count - 1
              /\ IF count' < 0 THEN m = "t_add" /\ UNCHANGED back
                               ELSE m = "e_add" /\ back' = [back EXCEPT ![p] = "t_enable"]
  <2>1. CASE p # EvProc /\ WaitStore(p) /\ UNCHANGED <<eventQueue, back>>
    BY <1>3, <2>1 DEF WaitStore, At, Goto, EvLabels, Labels, WaitKernel
  <2>2. CASE SignalStore(p) /\ UNCHANGED <<eventQueue, back>>
    BY <1>3, <2>2 DEF SignalStore, At, Goto, EvLabels, Labels, SignalKernel
  <2>3. CASE p = EvProc /\ TryStore(p)
    BY <1>3, <2>3 DEF TryStore, At, Goto, EvLabels, EvWaitLabels, ReceiveLabels
  <2> QED BY <2>1, <2>2, <2>3
<1>5. SchedInv'
  BY <1>1, InvStutter DEF EvInv
<1>6. /\ m \in EvKernel \cup AboutToEnable /\ pc[p] \in EvKernel
      /\ m \notin SleepLabels \cup WakeLabels
  BY <1>4 DEF EvKernel, AboutToEnable, WaitKernel, SignalKernel, SleepLabels, WakeLabels
<1>7. /\ EvHeld' /\ pc'[p] = m
      /\ \A q \in Proc : q # p => pc'[q] = pc[q] /\ pc[q] \notin EvKernel \cup {"e_disable"}
  BY <1>1, <1>2, <1>4, <1>6, EvInside
<1>8. EvTypeOK'
  <2>1. /\ p = EvProc => m \notin CriticalLabels
        /\ m \in EvWaitLabels => p = EvProc
        /\ m \in ReceiveLabels => p = EvProc /\ back' = [back EXCEPT ![p] = "t_enable"]
        /\ count' \in Int
        /\ UNCHANGED back \/ (p = EvProc /\ back' = [back EXCEPT ![p] = "t_enable"])
    BY <1>3, <1>4 DEF EvInv, EvTypeOK, CriticalLabels, EvWaitLabels, ReceiveLabels, WaitKernel
  <2> QED BY <1>1, <1>4, <2>1, TypedStep DEF EvInv, EvTypeOK
<1>9. SleepInv'
  BY <1>1, <1>2, <1>3, <1>4, <1>6, EvRunning, CalmSleep
<1>10. ~Adding /\ ~Removing /\ (Adding' <=> m \in {"w_add", "t_add"}) /\ (Removing' <=> m = "s_first")
       /\ \A q \in Proc : pc'[q] \notin {"w_store", "s_store", "t_store"}
  BY <1>3, <1>4, <1>7 DEF Adding, Removing, EvKernel, WaitKernel, SignalKernel
<1>11. Len(waiters) = IF count < 0 THEN -count ELSE 0
  BY <1>10 DEF EvInv, CountMatches
<1>12. CountMatches'
  BY <1>1, <1>3, <1>4, <1>10, <1>11 DEF CountMatches
<1> QED BY <1>5, <1>7, <1>8, <1>9, <1>12 DEF EvInv

-----------------------------------------------------------------------------
(* The steps by which a process, or the event queue, joins the waiters.    *)
LEMMA EvWaitAdd ==
    ASSUME EvInv, NEW p \in Proc, p # EvProc, WaitAdd(p), UNCHANGED <<eventQueue, back>>
    PROVE  EvInv'
<1>1. /\ CanStep(p) /\ pc[p] = "w_add" /\ pc' = [pc EXCEPT ![p] = "w_state"]
      /\ waiters' = Append(waiters, p)
      /\ UNCHANGED <<schedVars, count, reg, who, waiter, back>>
  BY DEF WaitAdd, At, Goto, locals, eventQueue
<1>2. UNCHANGED <<interruptsDisabled, interruptFlag, phase, curProc, runnable, state, life>>
  BY <1>1 DEF schedVars, interruptVars, queueVars, procVars
<1>3. SchedInv'
  BY <1>1, InvStutter DEF EvInv
<1>4. /\ EvHeld' /\ pc'[p] = "w_state"
      /\ \A q \in Proc : q # p => pc'[q] = pc[q] /\ pc[q] \notin EvKernel \cup {"e_disable"}
      /\ \A q \in Proc : Running(q)' = Running(q) /\ (Running(q) <=> q = p)
  BY <1>1, <1>2, EvInside DEF EvKernel, WaitKernel
<1>5. /\ waiters \in Seq(Proc \cup {EvQ}) /\ Len(waiters) \in Nat
      /\ DOMAIN waiters = 1 .. Len(waiters)
      /\ waiters' \in Seq(Proc \cup {EvQ}) /\ Len(waiters') = Len(waiters) + 1
      /\ DOMAIN waiters' = 1 .. Len(waiters) + 1
      /\ \A i \in 1 .. Len(waiters) : waiters'[i] = waiters[i]
      /\ waiters'[Len(waiters) + 1] = p
  BY <1>1, LenProperties DEF EvInv, EvTypeOK
<1>6. Waiters' = Waiters \cup {p} /\ p \notin Waiters
  BY <1>1, <1>5, EvRunning DEF Waiters
<1>7. EvTypeOK'
  BY <1>1, <1>5, TypedStep
     DEF EvInv, EvTypeOK, EvLabels, Labels, ReceiveLabels, EvWaitLabels, WaitKernel
<1>8. CountMatches'
  <2>1. Adding /\ ~Removing' /\ ~Adding'
        /\ \A q \in Proc : pc'[q] \notin {"w_store", "s_store", "t_store"}
    BY <1>1, <1>4 DEF Adding, Removing, EvKernel, WaitKernel, SignalKernel
  <2>2. count \in Int /\ count < 0 /\ Len(waiters) = -count - 1
    BY <2>1 DEF EvInv, EvTypeOK, CountMatches
  <2>3. Len(waiters') = -count' /\ count' < 0
    BY <1>1, <1>5, <2>2
  <2> QED BY <2>1, <2>3 DEF CountMatches
<1> USE DEF EvInv, SleepInv
<1>9. ListedOnce'
  <2>1. \A i \in DOMAIN waiters : waiters[i] # p
    BY <1>6 DEF Waiters
  <2> QED BY <1>5, <2>1 DEF ListedOnce
<1>10. /\ Queued' = Queued /\ ~Waking /\ ~Waking' /\ p \notin Queued /\ waiter # p
       /\ life[p] = "live" /\ \A q \in Proc : Asleep(q)' = Asleep(q)
  BY <1>1, <1>2, <1>4, EvRunning DEF Queued, Waking, EvKernel, Asleep
<1>11. WaitersParked'
  BY <1>2, <1>4, <1>6, <1>10 DEF WaitersParked, Parked
<1>12. SleeperParked'
  BY <1>1, <1>2, <1>4, <1>10, EvAssumption DEF SleeperParked, EvKernel, EvTypeOK
<1>13. WaitingListed'
  BY <1>1, <1>2, <1>4, <1>6 DEF WaitingListed
<1>14. SignalKnows'
  BY <1>4 DEF SignalKnows, EvKernel, SignalKernel
<1>15. InReach'
  <2>1. \A q \in Proc : q \in {waiters[i] : i \in DOMAIN waiters} =>
                          q \in {waiters'[i] : i \in DOMAIN waiters'}
    BY <1>6 DEF Waiters
  <2> QED BY <1>1, <1>4, <1>10, <2>1 DEF InReach
<1> QED BY <1>3, <1>4, <1>7, <1>8, <1>9, <1>11, <1>12, <1>13, <1>14, <1>15

LEMMA EvTryAdd ==
    ASSUME EvInv, NEW p \in Proc, p = EvProc, TryAdd(p)
    PROVE  EvInv'
<1>1. /\ CanStep(p) /\ pc[p] = "t_add" /\ pc' = [pc EXCEPT ![p] = "t_leave"]
      /\ waiters' = Append(waiters, EvQ)
      /\ UNCHANGED <<schedVars, count, reg, who, waiter, back>>
  BY DEF TryAdd, At, Goto, locals, eventQueue
<1>2. UNCHANGED <<interruptsDisabled, interruptFlag, phase, curProc, runnable, state, life>>
  BY <1>1 DEF schedVars, interruptVars, queueVars, procVars
<1>3. SchedInv'
  BY <1>1, InvStutter DEF EvInv
<1>4. /\ EvHeld' /\ pc'[p] = "t_leave"
      /\ \A q \in Proc : q # p => pc'[q] = pc[q] /\ pc[q] \notin EvKernel \cup {"e_disable"}
      /\ \A q \in Proc : Running(q)' = Running(q) /\ (Running(q) <=> q = p)
  BY <1>1, <1>2, EvInside DEF EvKernel
<1>5. /\ waiters \in Seq(Proc \cup {EvQ}) /\ Len(waiters) \in Nat
      /\ DOMAIN waiters = 1 .. Len(waiters)
      /\ waiters' \in Seq(Proc \cup {EvQ}) /\ Len(waiters') = Len(waiters) + 1
      /\ DOMAIN waiters' = 1 .. Len(waiters) + 1
      /\ \A i \in 1 .. Len(waiters) : waiters'[i] = waiters[i]
      /\ waiters'[Len(waiters) + 1] = EvQ
  BY <1>1, LenProperties DEF EvInv, EvTypeOK
<1>6. \A q \in Proc : q \in Waiters' <=> q \in Waiters
  BY <1>5, EvAssumption DEF Waiters
<1>7. EvTypeOK'
  BY <1>1, <1>5, TypedStep
     DEF EvInv, EvTypeOK, EvLabels, CriticalLabels, ReceiveLabels, EvWaitLabels, WaitKernel
<1>8. CountMatches'
  <2>1. Adding /\ ~Removing' /\ ~Adding'
        /\ \A q \in Proc : pc'[q] \notin {"w_store", "s_store", "t_store"}
    BY <1>1, <1>4 DEF Adding, Removing, EvKernel, WaitKernel, SignalKernel
  <2>2. count \in Int /\ count < 0 /\ Len(waiters) = -count - 1
    BY <2>1 DEF EvInv, EvTypeOK, CountMatches
  <2>3. Len(waiters') = -count' /\ count' < 0
    BY <1>1, <1>5, <2>2
  <2> QED BY <2>1, <2>3 DEF CountMatches
<1> USE DEF EvInv, SleepInv
<1>9. ListedOnce'
  BY <1>5, EvAssumption DEF ListedOnce
<1>10. /\ Queued' = Queued /\ ~Waking /\ ~Waking' /\ p \notin Waiters /\ waiter # p
       /\ \A q \in Proc : Asleep(q)' = Asleep(q)
  BY <1>1, <1>2, <1>4, EvRunning DEF Queued, Waking, EvKernel, Asleep
<1>11. WaitersParked'
  BY <1>2, <1>4, <1>6, <1>10 DEF WaitersParked, Parked
<1>12. SleeperParked'
  BY <1>1, <1>2, <1>4, <1>10, EvAssumption DEF SleeperParked, EvKernel, EvTypeOK
<1>13. WaitingListed'
  BY <1>1, <1>2, <1>4, <1>6 DEF WaitingListed
<1>14. SignalKnows'
  BY <1>4 DEF SignalKnows, EvKernel, SignalKernel
<1>15. InReach'
  BY <1>1, <1>4, <1>6, <1>10 DEF InReach, Waiters
<1> QED BY <1>3, <1>4, <1>7, <1>8, <1>9, <1>11, <1>12, <1>13, <1>14, <1>15

-----------------------------------------------------------------------------
(* The steps by which a process goes to sleep.                             *)
LEMMA EvSleepStates ==
    ASSUME EvInv, NEW p \in Proc,
           \/ p # EvProc /\ WaitState(p) /\ UNCHANGED <<eventQueue, back>>
           \/ p = EvProc /\ SleepState(p)
    PROVE  EvInv'
<1>1. PICK m \in {"w_enable", "c_waiter"} :
        /\ CanStep(p) /\ setState(p, Waiting) /\ pc' = [pc EXCEPT ![p] = m]
        /\ UNCHANGED <<count, waiters, reg, who, waiter, back>>
        /\ \/ p # EvProc /\ pc[p] = "w_state" /\ m = "w_enable"
           \/ p = EvProc /\ pc[p] = "c_state" /\ m = "c_waiter"
  BY DEF WaitState, SleepState, At, Goto, semaphore, locals, eventQueue
<1>2. /\ UNCHANGED <<interruptsDisabled, interruptFlag, phase, curProc, runnable, life>>
      /\ state' = [state EXCEPT ![p] = Waiting] /\ Active # Waiting
      /\ state \in [Proc -> {Suspended, Active, Waiting}]
  BY <1>1 DEF setState, interruptVars, queueVars, EvInv, SchedInv, SchedTypeOK,
              Active, Waiting
<1>3. SchedInv'
  BY <1>1, InvSetState DEF EvInv
<1>4. /\ EvHeld' /\ pc'[p] = m
      /\ \A q \in Proc : q # p => pc'[q] = pc[q] /\ pc[q] \notin EvKernel \cup {"e_disable"}
      /\ \A q \in Proc : Running(q)' = Running(q) /\ (Running(q) <=> q = p)
  BY <1>1, <1>2, EvInside DEF EvKernel, WaitKernel
<1>5. EvTypeOK'
  BY <1>1, TypedStep
     DEF EvInv, EvTypeOK, EvLabels, Labels, ReceiveLabels, EvWaitLabels, CriticalLabels,
         WaitKernel
<1>6. CountMatches'
  BY <1>1, CalmCount DEF CountLabels
<1>7. /\ Waiters' = Waiters /\ Queued' = Queued /\ ~Waking /\ ~Waking' /\ waiter # p
      /\ \A q \in Proc : Asleep(q)' = Asleep(q)
  BY <1>1, <1>2, <1>4, EvRunning DEF Waiters, Queued, Asleep, Waking, EvKernel
<1> USE DEF EvInv, SleepInv
<1>8. ListedOnce'
  BY <1>1 DEF ListedOnce
<1>9. WaitersParked'
  BY <1>1, <1>2, <1>4, <1>7 DEF WaitersParked, Parked
<1>10. SleeperParked'
  BY <1>1, <1>2, <1>4, <1>7, EvAssumption DEF SleeperParked, EvKernel, EvTypeOK
<1>11. WaitingListed'
  <2>1. \A q \in Proc : pc'[q] \in {"w_state", "w_enable"} => q \in Waiters
    BY <1>1, <1>4 DEF WaitingListed, EvKernel, WaitKernel
  <2>2. \A q \in Proc : pc'[q] = "c_waiter" => state'[q] = Waiting
    BY <1>1, <1>2, <1>4 DEF EvKernel
  <2>3. \A q \in Proc : state'[q] = Waiting =>
          q \in Waiters \/ waiter = q \/ pc'[q] = "c_waiter"
    BY <1>1, <1>2, <1>4, <2>1 DEF WaitingListed, EvKernel, SignalKernel
  <2> QED BY <1>1, <1>7, <2>1, <2>2, <2>3 DEF WaitingListed
<1>12. SignalKnows'
  BY <1>1, <1>4 DEF SignalKnows, EvKernel, SignalKernel
<1>13. InReach'
  BY <1>1, <1>4, <1>7 DEF InReach
<1> QED BY <1>3, <1>4, <1>5, <1>6, <1>8, <1>9, <1>10, <1>11, <1>12, <1>13

LEMMA EvSleepWaiter ==
    ASSUME EvInv, NEW p \in Proc, p = EvProc, SleepWaiter(p)
    PROVE  EvInv'
<1>1. /\ CanStep(p) /\ pc[p] = "c_waiter" /\ pc' = [pc EXCEPT ![p] = "c_enable"]
      /\ waiter' = p
      /\ UNCHANGED <<schedVars, count, waiters, reg, who, back>>
  BY DEF SleepWaiter, At, Goto, semaphore, locals
<1>2. UNCHANGED <<interruptsDisabled, interruptFlag, phase, curProc, runnable, state, life>>
  BY <1>1 DEF schedVars, interruptVars, queueVars, procVars
<1>3. SchedInv'
  BY <1>1, InvStutter DEF EvInv
<1>4. /\ EvHeld' /\ pc'[p] = "c_enable"
      /\ \A q \in Proc : q # p => pc'[q] = pc[q] /\ pc[q] \notin EvKernel \cup {"e_disable"}
      /\ \A q \in Proc : Running(q)' = Running(q) /\ (Running(q) <=> q = p)
  BY <1>1, <1>2, EvInside DEF EvKernel
<1>5. EvTypeOK'
  BY <1>1, TypedStep
     DEF EvInv, EvTypeOK, EvLabels, ReceiveLabels, EvWaitLabels, CriticalLabels, WaitKernel
<1>6. CountMatches'
  BY <1>1, CalmCount DEF CountLabels
<1>7. /\ Waiters' = Waiters /\ Queued' = Queued /\ waiter = NoProc
      /\ life[p] = "live" /\ p \notin Queued /\ p \notin Waiters
      /\ \A q \in Proc : Asleep(q)' = Asleep(q)
  <2>1. Waiters' = Waiters /\ Queued' = Queued
    BY <1>1, <1>2 DEF Waiters, Queued
  <2> QED BY <1>1, <1>2, <1>4, <2>1, EvRunning DEF Asleep, EvInv, EvTypeOK
<1> USE DEF EvInv, SleepInv
<1>8. ListedOnce'
  BY <1>1 DEF ListedOnce
<1>9. WaitersParked'
  BY <1>2, <1>4, <1>7 DEF WaitersParked, Parked
<1>10. SleeperParked'
  <2>1. state[p] = Waiting
    BY <1>1 DEF WaitingListed
  <2>2. p # NoProc
    BY ProcAssumption
  <2> QED BY <1>1, <1>2, <1>4, <1>7, <2>1, <2>2 DEF SleeperParked, EvKernel
<1>11. WaitingListed'
  <2>1. \A q \in Proc : q # NoProc
    BY ProcAssumption
  <2> QED BY <1>1, <1>2, <1>4, <1>7, <2>1 DEF WaitingListed
<1>12. SignalKnows'
  BY <1>4 DEF SignalKnows, EvKernel, SignalKernel
<1>13. InReach'
  <2>1. \A q \in Proc : q # NoProc
    BY ProcAssumption
  <2> QED BY <1>1, <1>4, <1>7, <2>1 DEF InReach
<1> QED BY <1>3, <1>4, <1>5, <1>6, <1>8, <1>9, <1>10, <1>11, <1>12, <1>13

-----------------------------------------------------------------------------
(* The signal that takes the first of the waiters and wakes it.            *)
LEMMA EvSignalFirst ==
    ASSUME EvInv, NEW p \in Proc, SignalFirst(p), UNCHANGED <<eventQueue, back>>
    PROVE  EvInv'
<1>1. CASE waiters = <<>>
  BY <1>1, EvAbort DEF SignalFirst, semaphore, locals
<1>2. CASE waiters # <<>>
  <2>1. /\ CanStep(p) /\ pc[p] = "s_first" /\ pc' = [pc EXCEPT ![p] = "s_remove"]
        /\ who' = [who EXCEPT ![p] = Head(waiters)]
        /\ UNCHANGED <<schedVars, count, waiters, reg, waiter, back>>
    BY <1>2 DEF SignalFirst, At, Goto, semaphore, eventQueue
  <2>2. UNCHANGED <<interruptsDisabled, interruptFlag, phase, curProc, runnable, state, life>>
    BY <2>1 DEF schedVars, interruptVars, queueVars, procVars
  <2>3. SchedInv'
    BY <2>1, InvStutter DEF EvInv
  <2>4. /\ EvHeld' /\ pc'[p] = "s_remove"
        /\ \A q \in Proc : q # p => pc'[q] = pc[q] /\ pc[q] \notin EvKernel \cup {"e_disable"}
        /\ \A q \in Proc : Running(q)' = Running(q) /\ (Running(q) <=> q = p)
    BY <2>1, <2>2, EvInside DEF EvKernel, SignalKernel
  <2>5. /\ waiters \in Seq(Proc \cup {EvQ}) /\ Head(waiters) \in Proc \cup {EvQ}
        /\ who' \in [Proc -> Proc \cup {NoProc, EvQ}] /\ who'[p] = Head(waiters)
    BY <1>2, <2>1, HeadTailProperties DEF EvInv, EvTypeOK
  <2>6. EvTypeOK'
    BY <2>1, <2>5, TypedStep
       DEF EvInv, EvTypeOK, EvLabels, Labels, ReceiveLabels, EvWaitLabels, CriticalLabels,
           WaitKernel, SignalKernel
  <2>7. CountMatches'
    <3>1. Removing /\ ~Adding /\ Removing' /\ ~Adding'
      BY <2>1, <2>4 DEF Removing, Adding, EvKernel, WaitKernel, SignalKernel
    <3>2. \A q \in Proc : pc'[q] \notin {"w_store", "s_store", "t_store"}
      BY <2>1, <2>4 DEF EvKernel, WaitKernel, SignalKernel
    <3> QED BY <2>1, <3>1, <3>2 DEF EvInv, CountMatches
  <2>8. /\ Waiters' = Waiters /\ Queued' = Queued /\ ~Waking /\ ~Waking'
        /\ waiter # p /\ p \notin Waiters
        /\ \A q \in Proc : Asleep(q)' = Asleep(q)
    BY <2>1, <2>2, <2>4, EvRunning DEF Waiters, Queued, Asleep, Waking, EvKernel
  <2> USE DEF EvInv, SleepInv
  <2>9. ListedOnce'
    BY <2>1 DEF ListedOnce
  <2>10. WaitersParked'
    BY <2>2, <2>4, <2>8 DEF WaitersParked, Parked
  <2>11. SleeperParked'
    BY <2>1, <2>2, <2>4, <2>8, EvAssumption DEF SleeperParked, EvKernel, EvTypeOK
  <2>12. WaitingListed'
    BY <2>1, <2>2, <2>4, <2>8 DEF WaitingListed, EvKernel, SignalKernel
  <2>13. SignalKnows'
    BY <1>2, <2>1, <2>4, <2>5 DEF SignalKnows, EvKernel, SignalKernel
  <2>14. InReach'
    BY <2>1, <2>4, <2>8 DEF InReach, EvKernel, SignalKernel
  <2> QED BY <2>3, <2>4, <2>6, <2>7, <2>9, <2>10, <2>11, <2>12, <2>13, <2>14
<1> QED BY <1>1, <1>2

LEMMA EvSignalRemove ==
    ASSUME EvInv, NEW p \in Proc, SignalRemove(p), UNCHANGED <<eventQueue, back>>
    PROVE  EvInv'
<1> DEFINE h == Head(waiters)
<1>1. CanStep(p) /\ pc[p] = "s_remove" /\ waiters # <<>> /\ who[p] = h
  BY DEF SignalRemove, At, EvInv, SleepInv, SignalKnows
<1>2. /\ pc' = [pc EXCEPT ![p] = "s_activate"] /\ waiters' = Tail(waiters)
      /\ UNCHANGED <<schedVars, count, reg, who, waiter, back>>
  BY <1>1 DEF SignalRemove, Goto, locals, eventQueue
<1>3. UNCHANGED <<interruptsDisabled, interruptFlag, phase, curProc, runnable, state, life>>
  BY <1>2 DEF schedVars, interruptVars, queueVars, procVars
<1>4. SchedInv'
  BY <1>2, InvStutter DEF EvInv
<1>5. /\ EvHeld' /\ pc'[p] = "s_activate"
      /\ \A q \in Proc : q # p => pc'[q] = pc[q] /\ pc[q] \notin EvKernel \cup {"e_disable"}
      /\ \A q \in Proc : Running(q)' = Running(q) /\ (Running(q) <=> q = p)
  BY <1>1, <1>2, <1>3, EvInside DEF EvKernel, SignalKernel
<1>6. /\ waiters \in Seq(Proc \cup {EvQ}) /\ Len(waiters) \in Nat \ {0}
      /\ waiters' \in Seq(Proc \cup {EvQ}) /\ Len(waiters') = Len(waiters) - 1
      /\ DOMAIN waiters = 1 .. Len(waiters)
      /\ DOMAIN waiters' = 1 .. Len(waiters) - 1
      /\ \A i \in 1 .. Len(waiters) - 1 : waiters'[i] = waiters[i + 1]
      /\ h = waiters[1]
  BY <1>1, <1>2, HeadTailProperties, LenProperties, EmptySeq DEF EvInv, EvTypeOK
<1>7. EvTypeOK'
  BY <1>1, <1>2, <1>6, TypedStep
     DEF EvInv, EvTypeOK, EvLabels, Labels, ReceiveLabels, EvWaitLabels, CriticalLabels,
         WaitKernel, SignalKernel
<1>8. CountMatches'
  <2>1. Removing /\ ~Adding /\ ~Removing' /\ ~Adding'
    BY <1>1, <1>5 DEF Removing, Adding, EvKernel, WaitKernel, SignalKernel
  <2>2. \A q \in Proc : pc'[q] \notin {"w_store", "s_store", "t_store"}
    BY <1>1, <1>5 DEF EvKernel, WaitKernel, SignalKernel
  <2>3. count \in Int /\ count <= 0 /\ Len(waiters) = -count + 1
    BY <2>1 DEF EvInv, EvTypeOK, CountMatches
  <2>4. Len(waiters') = (IF count' < 0 THEN -count' ELSE 0)
    BY <1>2, <1>6, <2>3
  <2> QED BY <2>1, <2>2, <2>4 DEF CountMatches
<1> USE DEF EvInv, SleepInv
<1>9. /\ ListedOnce'
      /\ Waiters = Waiters' \cup {h} /\ (h \in Proc => h \notin Waiters')
  <2>1. \A i \in DOMAIN waiters' : i + 1 \in DOMAIN waiters /\ waiters'[i] = waiters[i + 1]
    BY <1>6
  <2>2. \A i \in DOMAIN waiters : i = 1 \/ (i - 1 \in DOMAIN waiters' /\ waiters'[i - 1] = waiters[i])
    BY <1>6
  <2>3. ListedOnce'
    <3> SUFFICES ASSUME NEW i \in DOMAIN waiters', NEW j \in DOMAIN waiters',
                        waiters'[i] \in Proc, waiters'[i] = waiters'[j]
                 PROVE  i = j
      BY DEF ListedOnce
    <3>1. i + 1 = j + 1
      BY <2>1 DEF ListedOnce
    <3> QED BY <3>1, <1>6
  <2>4. 1 \in DOMAIN waiters /\ \A i \in DOMAIN waiters' : i \in Nat /\ i + 1 # 1
    BY <1>6
  <2>5. h \in Proc => \A i \in DOMAIN waiters' : waiters'[i] # h
    BY <1>6, <2>1, <2>4 DEF ListedOnce
  <2>6. Waiters = Waiters' \cup {h}
    <3>1. \A i \in DOMAIN waiters : waiters[i] = h \/ waiters[i] \in Waiters'
      BY <1>6, <2>2 DEF Waiters
    <3>2. h \in Waiters /\ \A i \in DOMAIN waiters' : waiters'[i] \in Waiters
      BY <1>6, <2>1, <2>4 DEF Waiters
    <3> QED BY <3>1, <3>2 DEF Waiters
  <2> QED BY <2>3, <2>5, <2>6 DEF Waiters
<1>10. /\ Queued' = Queued /\ ~Waking /\ ~Waking' /\ waiter # p /\ p \notin Waiters
       /\ \A q \in Proc : Asleep(q)' = Asleep(q)
  BY <1>1, <1>3, <1>5, EvRunning DEF Queued, Asleep, Waking, EvKernel
<1>11. h \in Proc => /\ life[h] = "live" /\ h \notin Queued /\ h # p /\ h # EvProc
                     /\ pc[h] \notin {"w_state", "w_enable"}
  BY <1>1, <1>5, <1>9, <1>10
     DEF WaitersParked, Parked, EvTypeOK, CriticalLabels, EvKernel, WaitKernel
<1>12. WaitersParked'
  BY <1>3, <1>5, <1>9, <1>10 DEF WaitersParked, Parked
<1>13. SleeperParked'
  BY <1>1, <1>2, <1>3, <1>5, <1>10, EvAssumption DEF SleeperParked, EvKernel, EvTypeOK
<1>14. WaitingListed'
  <2>1. \A q \in Proc : pc'[q] \in {"w_state", "w_enable"} => q \in Waiters'
    BY <1>1, <1>5 DEF EvKernel, WaitKernel
  <2>2. \A q \in Proc : pc'[q] = "c_waiter" => state'[q] = Waiting
    BY <1>1, <1>5 DEF EvKernel
  <2>3. \A q \in Proc : state[q] = Waiting => q \in Waiters \/ waiter = q
    BY <1>1, <1>5 DEF WaitingListed, EvKernel, SignalKernel
  <2> QED BY <1>1, <1>2, <1>3, <1>5, <1>9, <2>1, <2>2, <2>3 DEF WaitingListed
<1>15. SignalKnows'
  BY <1>1, <1>2, <1>3, <1>5, <1>9, <1>10, <1>11 DEF SignalKnows, EvKernel, SignalKernel
<1>16. InReach'
  <2>1. \A q \in Proc : Asleep(q) => waiter = q \/ q \in Waiters
    BY <1>1, <1>5 DEF InReach, Waiters, EvKernel, SignalKernel
  <2> QED BY <1>1, <1>2, <1>5, <1>9, <1>10, <2>1 DEF InReach, Waiters
<1> QED BY <1>4, <1>5, <1>7, <1>8, <1>9, <1>12, <1>13, <1>14, <1>15, <1>16

LEMMA EvSignalActivate ==
    ASSUME EvInv, NEW p \in Proc, SignalActivate(p), UNCHANGED <<eventQueue, back>>
    PROVE  EvInv'
<1> DEFINE w == who[p]
<1>1. /\ CanStep(p) /\ pc[p] = "s_activate" /\ w \in Proc /\ setState(w, Active)
      /\ pc' = [pc EXCEPT ![p] = "s_resume"]
      /\ UNCHANGED <<count, waiters, reg, who, waiter, back>>
  BY DEF SignalActivate, At, Goto, semaphore, locals, eventQueue
<1>2. /\ w # EvProc /\ w \notin Waiters /\ w \notin Queued /\ life[w] = "live"
      /\ waiter # w /\ waiter # p /\ p \notin Waiters
  BY <1>1, ProcAssumption, EvRunning DEF EvInv, EvTypeOK, SleepInv, SignalKnows
<1>3. /\ UNCHANGED <<interruptsDisabled, interruptFlag, phase, curProc, runnable, life>>
      /\ state' = [state EXCEPT ![w] = Active] /\ Active # Waiting
      /\ state \in [Proc -> {Suspended, Active, Waiting}]
  BY <1>1 DEF setState, interruptVars, queueVars, EvInv, SchedInv, SchedTypeOK,
              Active, Waiting
<1>4. SchedInv'
  BY <1>1, InvSetState DEF EvInv
<1>5. /\ EvHeld' /\ pc'[p] = "s_resume"
      /\ \A q \in Proc : q # p => pc'[q] = pc[q] /\ pc[q] \notin EvKernel \cup {"e_disable"}
      /\ \A q \in Proc : Running(q)' = Running(q) /\ (Running(q) <=> q = p)
  BY <1>1, <1>3, EvInside DEF EvKernel, SignalKernel
<1>6. EvTypeOK'
  BY <1>1, TypedStep
     DEF EvInv, EvTypeOK, EvLabels, Labels, ReceiveLabels, EvWaitLabels, CriticalLabels,
         WaitKernel, SignalKernel
<1>7. CountMatches'
  BY <1>1, CalmCount DEF CountLabels
<1>8. /\ Waiters' = Waiters /\ Queued' = Queued /\ ~Waking /\ ~Waking'
      /\ \A q \in Proc : Asleep(q)' = Asleep(q)
  BY <1>1, <1>3, <1>5 DEF Waiters, Queued, Asleep, Waking, EvKernel
<1> USE DEF EvInv, SleepInv
<1>9. ListedOnce'
  BY <1>1 DEF ListedOnce
<1>10. WaitersParked'
  BY <1>2, <1>3, <1>5, <1>8 DEF WaitersParked, Parked
<1>11. SleeperParked'
  BY <1>1, <1>2, <1>3, <1>5, <1>8, EvAssumption DEF SleeperParked, EvKernel, EvTypeOK
<1>12. WaitingListed'
  <2>1. \A q \in Proc : state'[q] = Waiting => q # w /\ state[q] = Waiting
    BY <1>1, <1>3
  <2>2. \A q \in Proc : state'[q] = Waiting => q \in Waiters \/ waiter = q \/ pc'[q] = "c_waiter"
    BY <1>1, <1>5, <2>1 DEF WaitingListed, EvKernel, SignalKernel
  <2>3. \A q \in Proc : pc'[q] = "c_waiter" => state'[q] = Waiting
    BY <1>1, <1>3, <1>5 DEF EvKernel
  <2> QED BY <1>1, <1>5, <1>8, <2>2, <2>3 DEF WaitingListed
<1>13. SignalKnows'
  BY <1>1, <1>3, <1>5, <1>8 DEF SignalKnows, EvKernel, SignalKernel
<1>14. InReach'
  BY <1>1, <1>5, <1>8 DEF InReach
<1> QED BY <1>4, <1>5, <1>6, <1>7, <1>9, <1>10, <1>11, <1>12, <1>13, <1>14

LEMMA EvSignalResume ==
    ASSUME EvInv, NEW p \in Proc, SignalResume(p), UNCHANGED <<eventQueue, back>>
    PROVE  EvInv'
<1> DEFINE w == who[p]
<1>1. /\ CanStep(p) /\ pc[p] = "s_resume" /\ procResume(w)
      /\ pc' = [pc EXCEPT ![p] = "s_enable"]
      /\ who' = [who EXCEPT ![p] = NoProc]
      /\ UNCHANGED <<count, waiters, reg, waiter, back>>
  BY DEF SignalResume, At, Goto, semaphore, eventQueue
<1>2. /\ w \in Proc /\ w # EvProc /\ w # p
      /\ w \notin Waiters /\ w \notin Queued /\ life[w] = "live"
      /\ waiter # w /\ waiter # p /\ p \notin Waiters
  BY <1>1, ProcAssumption, EvRunning DEF EvInv, EvTypeOK, SleepInv, SignalKnows
<1>3. /\ UNCHANGED <<interruptVars, interruptsDisabled, interruptFlag, phase, curProc>>
      /\ runnable' = addToListLast(w)
      /\ life' = [life EXCEPT ![w] = "live"]
      /\ state' = [state EXCEPT ![w] = Active] /\ Active # Waiting
      /\ state \in [Proc -> {Suspended, Active, Waiting}] /\ life \in [Proc -> Lives]
  BY <1>1, <1>2 DEF procResume, interruptVars, EvInv, SchedInv, SchedTypeOK, Active, Waiting
<1>4. SchedInv'
  BY <1>1, <1>2, InvResume DEF EvInv
<1>5. /\ EvHeld' /\ pc'[p] = "s_enable"
      /\ \A q \in Proc : q # p => pc'[q] = pc[q] /\ pc[q] \notin EvKernel \cup {"e_disable"}
      /\ \A q \in Proc : Running(q)' = Running(q) /\ (Running(q) <=> q = p)
  BY <1>1, <1>3, EvInside DEF EvKernel, SignalKernel, AboutToEnable
<1>6. EvTypeOK'
  BY <1>1, TypedStep
     DEF EvInv, EvTypeOK, EvLabels, Labels, ReceiveLabels, EvWaitLabels, CriticalLabels,
         WaitKernel, SignalKernel
<1>7. CountMatches'
  BY <1>1, CalmCount DEF CountLabels
<1>8. /\ Waiters' = Waiters /\ Queued' = Queued \cup {w} /\ ~Waking /\ ~Waking'
      /\ \A q \in Proc : Asleep(q)' => Asleep(q) /\ q # w
  <2>1. Waiters' = Waiters /\ Queued' = Queued \cup {w}
    BY <1>1, <1>2, <1>3, EnterQueue DEF Waiters, EvInv
  <2>2. ~Waking /\ ~Waking'
    BY <1>1, <1>5 DEF Waking, EvKernel
  <2> QED BY <1>2, <1>3, <1>5, <2>1, <2>2 DEF Asleep
<1> USE DEF EvInv, SleepInv
<1>9. ListedOnce'
  BY <1>1 DEF ListedOnce
<1>10. WaitersParked'
  BY <1>2, <1>3, <1>5, <1>8 DEF WaitersParked, Parked
<1>11. SleeperParked'
  BY <1>1, <1>2, <1>3, <1>5, <1>8, EvAssumption DEF SleeperParked, EvKernel, EvTypeOK
<1>12. WaitingListed'
  <2>1. \A q \in Proc : state'[q] = Waiting => q # w /\ state[q] = Waiting
    BY <1>2, <1>3
  <2>2. \A q \in Proc : state'[q] = Waiting => q \in Waiters \/ waiter = q \/ pc'[q] = "c_waiter"
    BY <1>1, <1>5, <2>1 DEF WaitingListed, EvKernel, SignalKernel
  <2>3. \A q \in Proc : pc'[q] = "c_waiter" => state'[q] = Waiting
    BY <1>1, <1>3, <1>5 DEF EvKernel
  <2> QED BY <1>1, <1>5, <1>8, <2>2, <2>3 DEF WaitingListed
<1>13. SignalKnows'
  BY <1>5 DEF SignalKnows, EvKernel, SignalKernel
<1>14. InReach'
  <2>1. \A q \in Proc : Asleep(q) /\ q # w => waiter = q \/ q \in Waiters
    BY <1>1, <1>5 DEF InReach, Waiters, EvKernel, SignalKernel
  <2> QED BY <1>1, <1>8, <2>1 DEF InReach, Waiters
<1> QED BY <1>4, <1>5, <1>6, <1>7, <1>9, <1>10, <1>11, <1>12, <1>13, <1>14

-----------------------------------------------------------------------------
(* The rest of the program: a step of a process outside critical:.         *)
LEMMA EvIdleStep ==
    ASSUME EvInv, NEW p \in Proc, p # EvProc, Idle(p), UNCHANGED <<eventQueue, back>>
    PROVE  EvInv'
<1>1. /\ CanStep(p) /\ pc[p] = "idle"
      /\ UNCHANGED <<count, waiters, reg, who, waiter, back, semaphore, locals>>
  BY DEF Idle, At, semaphore, locals, eventQueue
<1>2. /\ phase = "execute" /\ curProc = p /\ ~aborted /\ ~interruptFlag
      /\ Running(p) /\ p \notin Queued /\ life[p] = "live"
      /\ p \notin Waiters /\ waiter # p /\ ~interruptsDisabled
      /\ \A q \in Proc : Running(q) => q = p
      /\ \A q \in Proc : pc[q] \notin EvKernel \cup {"e_disable"}
  BY <1>1, EvRunning DEF EvKernel, WaitKernel, SignalKernel, AboutToEnable
<1>3. /\ ~Waking /\ state[p] # Waiting
      /\ \A q \in Proc : pc[q] \notin {"s_activate", "s_resume"}
  <2>1. ~Waking
    BY <1>2 DEF Waking, EvKernel
  <2>2. \A q \in Proc : pc[q] \notin {"s_activate", "s_resume"}
    BY <1>2 DEF EvKernel, SignalKernel
  <2>3. state[p] # Waiting
    BY <1>1, <1>2, <2>2 DEF EvInv, SleepInv, WaitingListed
  <2> QED BY <2>1, <2>2, <2>3
<1>4. CASE pc' = [pc EXCEPT ![p] = "w_disable"] /\ UNCHANGED schedVars
  <2>1. UNCHANGED <<interruptVars, queueVars, procVars, interruptsDisabled>>
    BY <1>4 DEF schedVars, interruptVars
  <2>2. SchedInv'
    BY <1>4, InvStutter DEF EvInv
  <2> QED BY <1>1, <1>2, <1>4, <2>1, <2>2, CalmStep
          DEF SleepLabels, WakeLabels, CountLabels, CriticalLabels, EvWaitLabels, ReceiveLabels,
              EvLabels, Labels, EvKernel, WaitKernel, SignalKernel
<1>5. ASSUME UNCHANGED pc, SchedInv', ~interruptsDisabled',
             \A q \in Proc : /\ q \in Waiters \cup {waiter} =>
                                  /\ life'[q] = life[q] /\ state'[q] = state[q]
                                  /\ q \notin Queued => q \notin Queued' /\ ~Running(q)'
                             /\ state'[q] = Waiting => state[q] = Waiting
                             /\ Asleep(q)' => Asleep(q)
      PROVE  EvInv'
  <2>1. EvTypeOK' /\ CountMatches'
    BY <1>1, <1>5 DEF EvInv, EvTypeOK, CountMatches, Adding, Removing
  <2>2. EvHeld'
    BY <1>2, <1>5 DEF EvHeld
  <2>3. Waiters' = Waiters /\ Waking' = Waking
    BY <1>1, <1>5 DEF Waiters, Waking
  <2> USE DEF EvInv, SleepInv
  <2>4. ListedOnce'
    BY <1>1 DEF ListedOnce
  <2>5. WaitersParked'
    BY <1>5, <2>3 DEF WaitersParked, Parked
  <2>6. SleeperParked'
    <3>1. waiter # NoProc => waiter \in Proc
      BY EvAssumption DEF EvTypeOK
    <3>2. \A q \in Proc : pc[q] \notin {"e_disable", "e_state", "e_resume", "e_clear"}
      BY <1>2 DEF EvKernel
    <3> QED BY <1>1, <1>3, <1>5, <2>3, <3>1, <3>2 DEF SleeperParked
  <2>7. WaitingListed'
    BY <1>1, <1>2, <1>3, <1>5, <2>3 DEF WaitingListed, EvKernel
  <2>8. SignalKnows'
    BY <1>2, <1>5 DEF SignalKnows, EvKernel, SignalKernel
  <2>9. InReach'
    BY <1>1, <1>5 DEF InReach
  <2> QED BY <1>5, <2>1, <2>2, <2>4, <2>5, <2>6, <2>7, <2>8, <2>9
<1>6. /\ life \in [Proc -> Lives] /\ state \in [Proc -> {Suspended, Active, Waiting}]
      /\ \A q \in Proc : q \in Waiters \cup {waiter} =>
           q # p /\ life[q] = "live" /\ q \notin Queued
  <2>1. life \in [Proc -> Lives] /\ state \in [Proc -> {Suspended, Active, Waiting}]
    BY DEF EvInv, SchedInv, SchedTypeOK
  <2>2. \A q \in Proc : q \in Waiters => q # p /\ life[q] = "live" /\ q \notin Queued
    BY <1>2 DEF EvInv, SleepInv, WaitersParked, Parked
  <2>3. ASSUME waiter \in Proc
        PROVE  waiter # p /\ life[waiter] = "live" /\ waiter \notin Queued
    BY <1>2, <1>3, <2>3, ProcAssumption DEF EvInv, SleepInv, SleeperParked
  <2> QED BY <2>1, <2>2, <2>3
<1>7. CASE UNCHANGED pc /\ yield
  <2>1. SchedInv'
    BY <1>1, <1>7, InvInterruptCalls DEF EvInv
  <2>2. UNCHANGED <<interruptsDisabled, runnable, curProc, phase, state, life>>
    BY <1>2, <1>7 DEF yield, queueVars, procVars
  <2>3. Queued' = Queued /\ \A q \in Proc : Running(q)' = Running(q) /\ Asleep(q)' = Asleep(q)
    BY <2>2 DEF Queued, Running, Asleep
  <2>4. \A q \in Proc : q \in Waiters \cup {waiter} => ~Running(q)
    BY <1>2, <1>6
  <2> QED BY <1>2, <1>5, <1>7, <2>1, <2>2, <2>3, <2>4
<1>8. CASE UNCHANGED pc /\ finish(p)
  <2>1. SchedInv'
    BY <1>1, <1>8, InvFinish DEF EvInv
  <2>2. /\ UNCHANGED <<interruptsDisabled, runnable, curProc, state>>
        /\ phase' = "schedule" /\ life' = [life EXCEPT ![p] = "done"]
    BY <1>8 DEF finish
  <2>3. /\ Queued' = Queued
        /\ \A q \in Proc : ~Running(q)' /\ (Asleep(q)' => Asleep(q))
    BY <1>2, <1>6, <2>2 DEF Queued, Running, Asleep
  <2> QED BY <1>2, <1>5, <1>6, <1>8, <2>1, <2>2, <2>3
<1>9. ASSUME NEW r \in Proc, UNCHANGED pc, procNewFork(p, r)
      PROVE  EvInv'
  <2>1. SchedInv'
    BY <1>1, <1>9, InvNewProcess DEF EvInv
  <2>2. /\ UNCHANGED <<interruptsDisabled, runnable, curProc, phase>>
        /\ life[r] = "unborn" /\ life' = [life EXCEPT ![r] = "created"]
        /\ state' = [state EXCEPT ![r] = state[p]]
    BY <1>2, <1>9 DEF procNewFork, HasLink, interruptVars, queueVars
  <2>3. /\ Queued' = Queued
        /\ \A q \in Proc : Running(q)' = Running(q) /\ (Asleep(q)' => Asleep(q))
    BY <1>6, <2>2 DEF Queued, Running, Asleep
  <2>4. /\ \A q \in Proc : q \in Waiters \cup {waiter} => ~Running(q) /\ q # r
        /\ \A q \in Proc : state'[q] = Waiting => state[q] = Waiting
    BY <1>2, <1>3, <1>6, <2>2
  <2> QED BY <1>2, <1>5, <1>6, <1>9, <2>1, <2>2, <2>3, <2>4
<1>10. ASSUME NEW r \in Proc, UNCHANGED pc, life[r] = "created", procResume(r)
       PROVE  EvInv'
  <2>1. SchedInv' /\ r \notin Queued
    BY <1>1, <1>2, <1>10, InvResume DEF EvInv, SchedInv, OnePlace
  <2>2. /\ UNCHANGED <<interruptsDisabled, curProc, phase>>
        /\ runnable' = addToListLast(r)
        /\ life' = [life EXCEPT ![r] = "live"]
        /\ state' = [state EXCEPT ![r] = Active] /\ Active # Waiting
    BY <1>10, <2>1 DEF procResume, interruptVars, Active, Waiting
  <2>3. Queued' = Queued \cup {r}
    BY <2>1, <2>2, EnterQueue DEF EvInv
  <2>4. \A q \in Proc : Running(q)' = Running(q) /\ (Asleep(q)' => Asleep(q))
    BY <1>6, <2>2, <2>3 DEF Running, Asleep
  <2>5. /\ \A q \in Proc : q \in Waiters \cup {waiter} => ~Running(q) /\ q # r
        /\ \A q \in Proc : state'[q] = Waiting => state[q] = Waiting
    BY <1>2, <1>6, <1>10, <2>2
  <2> QED BY <1>2, <1>5, <1>6, <1>10, <2>1, <2>2, <2>3, <2>4, <2>5
<1> QED BY <1>4, <1>7, <1>8, <1>9, <1>10 DEF Idle, Goto

-----------------------------------------------------------------------------
(* The steps of the scheduling loop.  Interrupts are enabled, so that      *)
(* nobody is between the steps of a semaphore or of the event queue.       *)
LEMMA EvSystemStep ==
    ASSUME EvInv, ~interruptsDisabled,
           UNCHANGED <<semaphore, pc, locals, eventQueue, back>>,
           UNCHANGED <<interruptsDisabled, state, life>>, SchedInv',
           \A q \in Proc :
             /\ q \notin Queued /\ state[q] = Waiting => q \notin Queued'
             /\ Running(q)' => \/ Running(q) /\ phase' = phase /\ interruptFlag'
                               \/ q \in Queued
             /\ Asleep(q)' => Asleep(q) \/ state[q] = Waiting
    PROVE  EvInv'
<1>1. UNCHANGED <<count, waiters, reg, who, events, waiter>>
  BY DEF semaphore, locals, eventQueue
<1>2. \A q \in Proc : pc[q] \notin EvKernel \cup {"e_disable"}
  BY DEF EvInv, EvHeld
<1>3. EvTypeOK' /\ EvHeld' /\ CountMatches'
  BY <1>1, <1>2 DEF EvInv, EvTypeOK, EvHeld, CountMatches, Adding, Removing
<1>4. Waiters' = Waiters /\ ~Waking /\ ~Waking'
  BY <1>1, <1>2 DEF Waiters, Waking, EvKernel
<1> USE DEF EvInv, SleepInv
<1>5. ListedOnce'
  BY <1>1 DEF ListedOnce
<1>6. WaitersParked'
  BY <1>1, <1>2, <1>4 DEF WaitersParked, Parked, EvKernel, WaitKernel
<1>7. SleeperParked'
  <2>1. waiter # NoProc => waiter \in Proc
    BY EvAssumption DEF EvTypeOK
  <2>2. \A q \in Proc : pc[q] \notin {"e_disable", "e_state", "e_resume", "e_clear"}
    BY <1>2 DEF EvKernel
  <2> QED BY <1>1, <1>4, <2>1, <2>2 DEF SleeperParked
<1>8. WaitingListed'
  BY <1>1, <1>4 DEF WaitingListed
<1>9. SignalKnows'
  BY <1>2 DEF SignalKnows, EvKernel, SignalKernel
<1>10. InReach'
  <2>1. \A q \in Proc : state[q] = Waiting => q \in Waiters \/ waiter = q
    BY <1>2 DEF WaitingListed, EvKernel, SignalKernel
  <2> QED BY <1>1, <2>1 DEF InReach, Waiters
<1> QED BY <1>3, <1>5, <1>6, <1>7, <1>8, <1>9, <1>10

(* The timer raises the flag, which only makes those that are about to     *)
(* lose the processor surer of it.                                         *)
LEMMA EvTick ==
    ASSUME EvInv, timeSliceCb,
           UNCHANGED <<semaphore, pc, locals, eventQueue, back>>
    PROVE  EvInv'
<1>1. /\ interruptFlag'
      /\ UNCHANGED <<interruptsDisabled, runnable, curProc, phase, state, life,
                     count, waiters, reg, who, waiter>>
  BY DEF timeSliceCb, queueVars, procVars, semaphore, locals, eventQueue
<1>2. SchedInv'
  BY InvTick DEF EvInv
<1>3. EvTypeOK' /\ EvHeld' /\ CountMatches'
  BY <1>1 DEF EvInv, EvTypeOK, EvHeld, CountMatches, Adding, Removing
<1>4. /\ Waiters' = Waiters /\ Queued' = Queued /\ Waking' = Waking
      /\ \A q \in Proc : Running(q)' = Running(q) /\ Asleep(q)' = Asleep(q)
  BY <1>1 DEF Waiters, Queued, Running, Waking, Asleep
<1>5. ListedOnce' /\ WaitersParked' /\ SleeperParked' /\ WaitingListed' /\ SignalKnows'
  BY <1>1, <1>4, EvAssumption DEF EvInv, EvTypeOK, SleepInv, ListedOnce,
     WaitersParked, Parked, SleeperParked, WaitingListed, SignalKnows
<1>6. InReach'
  BY <1>1, <1>4 DEF EvInv, SleepInv, InReach
<1> QED BY <1>2, <1>3, <1>5, <1>6 DEF EvInv, SleepInv

(* The next process of the queue runs.                                     *)
LEMMA EvGetNext ==
    ASSUME EvInv, getNextForRunning,
           UNCHANGED <<semaphore, pc, locals, eventQueue, back>>
    PROVE  EvInv'
<1>1. /\ phase = "schedule" /\ ~interruptsDisabled
      /\ UNCHANGED <<interruptsDisabled, state, life>>
  BY DEF getNextForRunning, interruptVars, procVars, EvInv, EvHeld
<1>2. SchedInv'
  BY InvGetNext DEF EvInv
<1>3. /\ Queued' \subseteq Queued
      /\ \A q \in Proc : Running(q)' => q \in Queued
      /\ \A q \in Proc : q \in Queued \ Queued' => Running(q)'
  <2>1. CASE runnable = <<>>
    BY <2>1 DEF getNextForRunning, Queued, Running
  <2>2. CASE runnable # <<>>
    BY <2>2, TakeFromQueue DEF EvInv, Running
  <2> QED BY <2>1, <2>2
<1>4. \A q \in Proc : ~Running(q)
  BY <1>1 DEF Running
<1>5. \A q \in Proc : Asleep(q)' => Asleep(q)
  BY <1>1, <1>3, <1>4 DEF Asleep
<1> QED BY <1>1, <1>2, <1>3, <1>5, EvSystemStep

(* A process that gives the processor up goes to the end of the queue      *)
(* unless it waits, in which case somebody knows of it.                    *)
LEMMA EvTimeslice ==
    ASSUME EvInv, timesliceDone, ~interruptsDisabled,
           UNCHANGED <<semaphore, pc, locals, eventQueue, back>>
    PROVE  EvInv'
<1> DEFINE p == curProc
<1>1. p \in Proc /\ Running(p) /\ p \notin Queued /\ life[p] = "live"
  BY DEF timesliceDone, EvInv, SchedInv, SchedTypeOK, OnePlace, Running
<1>2. SchedInv'
  BY InvTimeslice DEF EvInv
<1>3. /\ phase' = "schedule" /\ ~interruptsDisabled
      /\ UNCHANGED <<interruptsDisabled, curProc, state, life>>
      /\ runnable' = IF state[p] = Waiting THEN runnable ELSE addToListLast(p)
  BY <1>1 DEF timesliceDone, requeue, procVars
<1>4. Queued' = IF state[p] = Waiting THEN Queued ELSE Queued \cup {p}
  <2>1. CASE state[p] = Waiting
    BY <2>1, <1>3 DEF Queued
  <2>2. CASE state[p] # Waiting
    BY <2>2, <1>1, <1>3, EnterQueue DEF EvInv
  <2> QED BY <2>1, <2>2
<1>5. \A q \in Proc : ~Running(q)' /\ (Running(q) => q = p)
  BY <1>3 DEF Running
<1>6. \A q \in Proc : Asleep(q)' => Asleep(q) \/ state[q] = Waiting
  BY <1>1, <1>3, <1>4, <1>5 DEF Asleep
<1> QED BY <1>1, <1>2, <1>3, <1>4, <1>5, <1>6, EvSystemStep

LEMMA EvAlreadyGot ==
    ASSUME EvInv, NEW p \in Proc, AlreadyGot(p)
    PROVE  EvInv'
BY EvAbort DEF AlreadyGot, semaphore, locals, eventQueue

-----------------------------------------------------------------------------
(* The invariant holds at first.                                           *)
LEMMA EvInvInit == EvInit => EvInv
<1> SUFFICES ASSUME EvInit PROVE EvInv
  OBVIOUS
<1> USE EvAssumption, PermitsAssumption, ProcAssumption DEF EvInit, Init
<1>1. SchedInv
  BY SchedInvInit
<1>2. /\ waiters = <<>> /\ Waiters = {} /\ DOMAIN waiters = {} /\ Len(waiters) = 0
      /\ count \in Nat \ {0}
      /\ \A p \in Proc : pc[p] = "idle"
      /\ ~interruptsDisabled
      /\ \A p \in Proc : state[p] = Suspended /\ Suspended # Waiting
  BY DEF Waiters, SchedInit, Suspended, Waiting
<1>3. EvTypeOK
  <2>1. waiters \in Seq(Proc \cup {EvQ})
    BY <1>2
  <2>2. pc \in [Proc -> EvLabels]
    BY DEF EvLabels, Labels
  <2> QED BY <1>2, <2>1, <2>2
          DEF EvTypeOK, CriticalLabels, WaitKernel, EvWaitLabels, ReceiveLabels
<1>4. EvHeld
  BY <1>2 DEF EvHeld, EvKernel, WaitKernel, SignalKernel
<1>5. CountMatches
  BY <1>2 DEF CountMatches, Adding, Removing
<1>6. ListedOnce /\ WaitersParked /\ SignalKnows
  BY <1>2 DEF ListedOnce, WaitersParked, SignalKnows
<1>7. SleeperParked /\ WaitingListed
  BY <1>2 DEF SleeperParked, WaitingListed
<1>8. InReach
  BY DEF InReach, Asleep, SchedInit, Running, Queued
<1> QED BY <1>1, <1>3, <1>4, <1>5, <1>6, <1>7, <1>8 DEF EvInv, SleepInv

(* Every step of the system keeps it.                                      *)
LEMMA EvInvSystem ==
    ASSUME EvInv, TickSeen, System, ~cut', UNCHANGED <<eventQueue, back>>
    PROVE  EvInv'
<1>1. UNCHANGED <<semaphore, pc, locals, eventQueue, back>>
  BY DEF System
<1>2. CASE timeSliceCb
  BY <1>1, <1>2, EvTick
<1>3. CASE getNextForRunning
  BY <1>1, <1>3, EvGetNext
<1>4. CASE timesliceDone
  <2>1. phase' = "schedule"
    BY <1>4, SliceSwitches DEF EvInv
  <2>2. ~interruptsDisabled
    BY <1>4, <2>1 DEF System, CutShort, TickSeen, timesliceDone
  <2> QED BY <1>1, <1>4, <2>2, EvTimeslice
<1> QED BY <1>2, <1>3, <1>4 DEF System

(* A step of the other processes, and of EvProc where its code is theirs.  *)
LEMMA EvInvShared ==
    ASSUME EvInv, NEW p \in Proc, SharedStep(p)
    PROVE  EvInv'
<1>1. UNCHANGED <<eventQueue, back>>
  BY DEF SharedStep
<1>2. CASE p # EvProc
  <2>1. SemStep(p)
    BY <1>2 DEF SharedStep
  <2> QED BY <1>1, <1>2, <2>1, EvIdleStep, EvStartsDisable, EvFinishesDisable, EvLoads,
     EvStores, EvWaitAdd, EvSleepStates, EvYields, EvMoveOn, EvEnables, EvSignalFirst,
     EvSignalRemove, EvSignalActivate, EvSignalResume DEF SemStep
<1>3. CASE p = EvProc
  <2>1. pc[p] \notin CriticalLabels
    BY <1>3 DEF EvInv, EvTypeOK
  <2>2. CASE StartDisable(p) \/ FinishDisable(p)
    <3>1. pc[p] = "s_disable"
      BY <2>1, <2>2 DEF StartDisable, FinishDisable, CriticalLabels
    <3> QED BY <1>1, <1>3, <2>2, <3>1, EvStartsDisable, EvFinishesDisable
  <2>3. CASE LoadCount(p)
    <3>1. pc[p] = "s_load"
      BY <2>1, <2>3 DEF LoadCount, At, CriticalLabels, WaitKernel
    <3> QED BY <1>1, <1>3, <2>3, <3>1, EvLoads
  <2>4. CASE \/ SignalStore(p) \/ SignalFirst(p) \/ SignalRemove(p)
             \/ SignalActivate(p) \/ SignalResume(p) \/ Enable(p)
    BY <1>1, <2>4, EvStores, EvSignalFirst, EvSignalRemove, EvSignalActivate,
       EvSignalResume, EvEnables
  <2> QED BY <1>3, <2>2, <2>3, <2>4 DEF SharedStep
<1> QED BY <1>2, <1>3

(* A step of the code of EventQueue.                                       *)
LEMMA EvInvEvent ==
    ASSUME EvInv, NEW p \in Proc,
           \/ p = EvProc /\ WaitStep(p)
           \/ ReceiveStep(p)
           \/ EvStartDisable(p) \/ EvFinishDisable(p)
    PROVE  EvInv'
<1>1. CASE p = EvProc /\ WaitStep(p)
  BY <1>1, EvMoveOn, EvEnables, EvLoads, EvStores, EvTryAdd, EvAlreadyGot, EvSleepStates,
     EvSleepWaiter, EvYields DEF WaitStep
<1>2. ASSUME SwapEvents(p) /\ p = EvProc PROVE EvInv'
  BY <1>2, EvMoveOn
<1>3. CASE ReceiveStep(p)
  BY <1>3, EvReceiveEvent, EvMoveOn, EvTestWaiter, EvWakeState, EvWakeResume, EvWakeClear,
     EvEnables DEF ReceiveStep
<1>4. CASE EvStartDisable(p) \/ EvFinishDisable(p)
  BY <1>4, EvStartsDisable, EvFinishesDisable
<1> QED BY <1>1, <1>3, <1>4

(* Nothing happens.                                                        *)
LEMMA EvInvStutter ==
    ASSUME EvInv, UNCHANGED evVars
    PROVE  EvInv'
<1>1. UNCHANGED <<schedVars, semaphore, pc, locals, eventQueue, back>>
  BY DEF evVars, vars
<1>2. UNCHANGED <<interruptsDisabled, interruptFlag, runnable, curProc, phase, state, life,
                  count, waiters, reg, who, waiter>>
  BY <1>1 DEF schedVars, interruptVars, queueVars, procVars, semaphore, locals, eventQueue
<1>3. SchedInv'
  BY <1>1, InvStutter DEF EvInv
<1>4. EvTypeOK' /\ EvHeld' /\ CountMatches'
  BY <1>1, <1>2 DEF EvInv, EvTypeOK, EvHeld, CountMatches, Adding, Removing
<1>5. Waiters' = Waiters /\ Queued' = Queued /\ Waking' = Waking
      /\ \A q \in Proc : Running(q)' = Running(q) /\ Asleep(q)' = Asleep(q)
  BY <1>1, <1>2 DEF Waiters, Queued, Running, Waking, Asleep
<1>6. ListedOnce' /\ WaitersParked' /\ SleeperParked' /\ WaitingListed' /\ SignalKnows'
  BY <1>1, <1>2, <1>5, EvAssumption DEF EvInv, EvTypeOK, SleepInv, ListedOnce,
     WaitersParked, Parked, SleeperParked, WaitingListed, SignalKnows
<1>7. InReach'
  BY <1>1, <1>2, <1>5 DEF EvInv, SleepInv, InReach
<1> QED BY <1>3, <1>4, <1>6, <1>7 DEF EvInv, SleepInv

(* Every step keeps the invariant, as long as no section is cut short.     *)
LEMMA EvInvNext ==
    ASSUME EvInv, TickSeen, [EvNext]_evVars, ~cut'
    PROVE  EvInv'
<1>1. CASE UNCHANGED evVars
  BY <1>1, EvInvStutter
<1>2. CASE System /\ UNCHANGED <<eventQueue, back>>
  BY <1>2, EvInvSystem
<1>3. ASSUME NEW p \in Proc, EvStep(p) PROVE EvInv'
  BY <1>3, EvInvShared, EvInvEvent DEF EvStep
<1> QED BY <1>1, <1>2, <1>3 DEF EvNext

-----------------------------------------------------------------------------
(* A flag that is up with interrupts disabled was raised by a tick there.  *)
LEMMA EvTickSeen ==
    ASSUME TickSeen, [EvNext]_evVars
    PROVE  TickSeen'
<1>1. CASE UNCHANGED evVars
  BY <1>1 DEF TickSeen, evVars, vars, schedVars, interruptVars
<1>2. CASE System
  BY <1>2 DEF TickSeen, TickInside, System, timeSliceCb, getNextForRunning,
              timesliceDone, requeue, Abort, interruptVars
<1>3. ASSUME NEW p \in Proc, EvStep(p)
      PROVE  TickSeen'
  <2> DEFINE Kept == interruptsDisabled' /\ interruptFlag'
                       => interruptsDisabled /\ interruptFlag
  <2>1. Idle(p) => Kept
    BY FlagRaisedOutside DEF Idle
  <2>2. StartDisable(p) \/ FinishDisable(p) \/ Enable(p) \/ WaitYield(p) => Kept
    BY FlagRaisedOutside DEF StartDisable, FinishDisable, Enable, WaitYield
  <2>3. LoadCount(p) \/ WaitStore(p) \/ WaitAdd(p) \/ WaitReturn(p) \/ LeaveSection(p)
          \/ SignalStore(p) => Kept
    BY FlagRaisedOutside
       DEF LoadCount, WaitStore, WaitAdd, WaitReturn, LeaveSection, SignalStore
  <2>4. SignalFirst(p) \/ SignalRemove(p) => Kept
    BY FlagRaisedOutside DEF SignalFirst, SignalRemove
  <2>5. WaitState(p) \/ SignalActivate(p) \/ SignalResume(p) => Kept
    BY DEF WaitState, SignalActivate, SignalResume, setState, procResume, Abort,
           interruptVars
  <2>6. SharedStep(p) => Kept
    BY <2>1, <2>2, <2>3, <2>4, <2>5 DEF SharedStep, SemStep
  <2>7. EvEnable(p) \/ AlreadyGot(p) \/ SleepYield(p) => Kept
    BY FlagRaisedOutside DEF EvEnable, AlreadyGot, SleepYield
  <2>8. EvIdle(p) \/ TryLoad(p) \/ TryStore(p) \/ TryAdd(p) \/ CheckEvents(p)
          \/ SleepWaiter(p) \/ SwapEvents(p) \/ EvBody(p) => Kept
    BY FlagRaisedOutside
       DEF EvIdle, TryLoad, TryStore, TryAdd, CheckEvents, SleepWaiter, SwapEvents, EvBody
  <2>9. ReceiveEvent(p) \/ AddEvent(p) \/ TestWaiter(p) \/ WakeClear(p) => Kept
    BY FlagRaisedOutside DEF ReceiveEvent, AddEvent, TestWaiter, WakeClear
  <2>10. SleepState(p) \/ WakeState(p) \/ WakeResume(p) => Kept
    BY DEF SleepState, WakeState, WakeResume, setState, procResume, Abort, interruptVars
  <2>11. WakeEnable(p) \/ EvStartDisable(p) \/ EvFinishDisable(p) => Kept
    BY FlagRaisedOutside DEF WakeEnable, EvStartDisable, EvFinishDisable
  <2>12. WaitStep(p) \/ ReceiveStep(p) => Kept
    BY <2>7, <2>8, <2>9, <2>10, <2>11 DEF WaitStep, ReceiveStep
  <2>13. Kept
    BY <1>3, <2>6, <2>11, <2>12 DEF EvStep
  <2> QED BY <1>3, <2>13 DEF TickSeen, EvStep
<1> QED BY <1>1, <1>2, <1>3 DEF EvNext

LEMMA EvCutStays == [EvNext]_evVars => (cut => cut')
BY DEF EvNext, EvStep, System, evVars, vars

(* The invariant holds whatever the interleaving of the processes, the     *)
(* timer and the signals, until a tick ends a slice inside a section.      *)
THEOREM EventQueueInvariant == EvSpec => [](cut \/ EvInv)
<1>1. EvInit => (cut \/ EvInv) /\ TickSeen
  BY EvInvInit DEF EvInit, Init, SchedInit, TickSeen
<1>2. (cut \/ EvInv) /\ TickSeen /\ [EvNext]_evVars => (cut' \/ EvInv') /\ TickSeen'
  BY EvInvNext, EvTickSeen, EvCutStays
<1> QED BY <1>1, <1>2, PTL DEF EvSpec

(* No two processes are at once in the steps that touch the semaphore, the *)
(* event queue or the run queue with interrupts disabled, although the     *)
(* nested critical: of receiveEvent: enables interrupts on its way out, as *)
(* long as no time slice ends inside.                                      *)
THEOREM EventKernelSection == EvSpec => []EvKernelExclusive
<1>1. cut \/ EvInv => EvKernelExclusive
  BY DEF EvInv, EvHeld, EvKernelExclusive, OneInEvKernel, InEvKernel
<1> QED BY <1>1, EventQueueInvariant, PTL

(* Between calls the count of the semaphore tells how many wait, the event *)
(* queue among them, as long as no section is cut short.                   *)
THEOREM CountTellsWaiters == EvSpec => []WaitersMatchCount
<1>1. cut \/ EvInv => WaitersMatchCount
  <2> SUFFICES ASSUME EvInv, Quiet
               PROVE  IF count < 0 THEN Len(waiters) = -count ELSE waiters = <<>>
    BY DEF WaitersMatchCount
  <2>1. ~Adding /\ ~Removing
    BY DEF Quiet, InEvKernel, Adding, Removing, EvKernel, WaitKernel, SignalKernel
  <2>2. Len(waiters) = IF count < 0 THEN -count ELSE 0
    BY <2>1 DEF EvInv, CountMatches
  <2>3. waiters \in Seq(Proc \cup {EvQ})
    BY DEF EvInv, EvTypeOK
  <2>4. CASE count < 0
    BY <2>2, <2>4
  <2>5. CASE ~(count < 0)
    BY <2>2, <2>3, <2>5
  <2> QED BY <2>4, <2>5
<1> QED BY <1>1, EventQueueInvariant, PTL

(* Every process that sleeps is one that a signal or an event will find,   *)
(* as long as no section is cut short.                                     *)
THEOREM SleepersCanBeReached == EvSpec => []SleepersInReach
<1>1. cut \/ EvInv => SleepersInReach
  BY DEF EvInv, SleepInv, SleepersInReach
<1> QED BY <1>1, EventQueueInvariant, PTL

=============================================================================
