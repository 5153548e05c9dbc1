----------------------------- MODULE EventQueue -----------------------------
(***************************************************************************)
(* An EventQueue (lib/system/Kernel-Processes/EventQueue.st) that waits    *)
(* for a Semaphore, together with the processes of Semaphore, as doStuff1  *)
(* of lib/system/dir.st sets them up.  The process EvProc repeats          *)
(*     evq wait.  ...  sem signal                                          *)
(* and the others repeat  sem critical: [ ... ].                           *)
(*                                                                         *)
(* The queue stands in the semaphore's list of waiters like a process; a   *)
(* signal that meets it there sends it receiveEvent:.                      *)
(***************************************************************************)
EXTENDS Semaphore

CONSTANTS
    EvProc,     \* the process that waits for events
    EvQ,        \* the event queue, as a waiter of the semaphore
    MaxCount    \* bound: EvProc goes round its loop while count is below it

ASSUME EvAssumption ==
    EvProc \in Proc /\ EvQ \notin Proc \cup {NoProc} /\ MaxCount \in Nat

VARIABLES
    events,     \* the number of events in the queue's list
    waiter,     \* the process asleep in EventQueue>>wait, or NoProc
    back        \* where each process goes on after receiveEvent:

eventQueue == <<events, waiter>>
evVars == <<vars, eventQueue, back>>

EvInit ==
    /\ Init
    /\ events = 0
    /\ waiter = NoProc
    /\ back = [p \in Proc |-> "idle"]

-----------------------------------------------------------------------------
(* EventQueue>>receiveEvent:, sent by a signal that met the queue or by    *)
(* tryAcquire:.  Both callers have disabled interrupts.                    *)
ReceiveEvent(p) ==
    /\ At(p, "s_activate")
    /\ who[p] = EvQ
    /\ Goto(p, "e_add")
    /\ back' = [back EXCEPT ![p] = "s_enable"]
    /\ who' = [who EXCEPT ![p] = NoProc]
    /\ UNCHANGED <<schedVars, semaphore, reg, eventQueue>>

AddEvent(p) ==
    /\ At(p, "e_add")
    /\ events' = events + 1
    /\ Goto(p, "e_test")
    /\ UNCHANGED <<schedVars, semaphore, locals, waiter, back>>

\* Mutation: the event is stored, and the waiter is left alone.
testNothing(p) ==
    /\ At(p, "e_test")
    /\ Goto(p, back[p])
    /\ back' = [back EXCEPT ![p] = "idle"]
    /\ UNCHANGED <<schedVars, semaphore, locals, eventQueue>>

TestWaiter(p) ==
    /\ At(p, "e_test")
    /\ IF waiter # NoProc /\ state[waiter] = Waiting
         THEN Goto(p, "e_disable") /\ UNCHANGED back
         ELSE /\ Goto(p, back[p])
              /\ back' = [back EXCEPT ![p] = "idle"]
    /\ UNCHANGED <<schedVars, semaphore, locals, eventQueue>>

WakeState(p) ==
    /\ At(p, "e_state")
    /\ setState(waiter, Active)
    /\ Goto(p, "e_resume")
    /\ UNCHANGED <<semaphore, locals, eventQueue, back>>

WakeResume(p) ==
    /\ At(p, "e_resume")
    /\ procResume(waiter)
    /\ Goto(p, "e_clear")
    /\ UNCHANGED <<semaphore, locals, eventQueue, back>>

WakeClear(p) ==
    /\ At(p, "e_clear")
    /\ waiter' = NoProc
    /\ Goto(p, "e_enable")
    /\ UNCHANGED <<schedVars, semaphore, locals, events, back>>

(* The inner critical: ends; the caller's has yet to end.                  *)
WakeEnable(p) ==
    /\ At(p, "e_enable")
    /\ enableInterrupts
    /\ Goto(p, back[p])
    /\ back' = [back EXCEPT ![p] = "idle"]
    /\ UNCHANGED <<semaphore, locals, eventQueue>>

-----------------------------------------------------------------------------
(* EventQueue>>wait, with Semaphore>>tryAcquire: sent to its only source.  *)
EvIdle(p) ==
    /\ At(p, "idle")
    /\ count < MaxCount
    /\ Goto(p, IF events = 0 THEN "t_disable" ELSE "v_body")
    /\ UNCHANGED <<schedVars, semaphore, locals, eventQueue, back>>

TryLoad(p) ==
    /\ At(p, "t_load")
    /\ reg' = [reg EXCEPT ![p] = count]
    /\ Goto(p, "t_store")
    /\ UNCHANGED <<schedVars, semaphore, who, eventQueue, back>>

TryStore(p) ==
    /\ At(p, "t_store")
    /\ count' = reg[p] - 1
    /\ reg' = [reg EXCEPT ![p] = 0]
    /\ IF reg[p] - 1 < 0
         THEN Goto(p, "t_add") /\ UNCHANGED back
         ELSE /\ Goto(p, "e_add")
              /\ back' = [back EXCEPT ![p] = "t_enable"]
    /\ UNCHANGED <<schedVars, waiters, who, eventQueue>>

\* Mutation: the queue joins the waiters only if it is the first.
tryAddOnce(p) ==
    /\ At(p, "t_add")
    /\ waiters' = IF waiters = <<>> THEN <<EvQ>> ELSE waiters
    /\ Goto(p, "t_leave")
    /\ UNCHANGED <<schedVars, count, locals, eventQueue, back>>

TryAdd(p) ==
    /\ At(p, "t_add")
    /\ waiters' = Append(waiters, EvQ)
    /\ Goto(p, "t_leave")
    /\ UNCHANGED <<schedVars, count, locals, eventQueue, back>>

(* tryAcquire: answered nil, to which wait sends alreadyGot, a selector    *)
(* that no class defines: lookupMethod aborts.                             *)
AlreadyGot(p) ==
    /\ At(p, "v_already")
    /\ Abort
    /\ UNCHANGED <<semaphore, pc, locals, eventQueue, back>>

CheckEvents(p) ==
    /\ At(p, "v_check")
    /\ Goto(p, IF events = 0 THEN "c_disable" ELSE "v_body")
    /\ UNCHANGED <<schedVars, semaphore, locals, eventQueue, back>>

SleepState(p) ==
    /\ At(p, "c_state")
    /\ setState(p, Waiting)
    /\ Goto(p, "c_waiter")
    /\ UNCHANGED <<semaphore, locals, eventQueue, back>>

\* Mutation: the process does not tell the queue that it sleeps.
sleepUnknown(p) ==
    /\ At(p, "c_waiter")
    /\ Goto(p, "c_enable")
    /\ UNCHANGED <<schedVars, semaphore, locals, eventQueue, back>>

SleepWaiter(p) ==
    /\ At(p, "c_waiter")
    /\ waiter' = p
    /\ Goto(p, "c_enable")
    /\ UNCHANGED <<schedVars, semaphore, locals, events, back>>

SleepYield(p) ==
    /\ At(p, "c_yield")
    /\ yield
    /\ Goto(p, "d_disable")
    /\ UNCHANGED <<semaphore, locals, eventQueue, back>>

SwapEvents(p) ==
    /\ At(p, "d_swap")
    /\ events' = 0
    /\ Goto(p, "d_enable")
    /\ UNCHANGED <<schedVars, semaphore, locals, waiter, back>>

(* What EvProc does with the events, and the start of sem signal.          *)
EvBody(p) ==
    /\ At(p, "v_body")
    /\ Goto(p, "s_disable")
    /\ UNCHANGED <<schedVars, semaphore, locals, eventQueue, back>>

-----------------------------------------------------------------------------
EvStartDisable(p) ==
    /\ CanStep(p)
    /\ pc[p] \in {"t_disable", "c_disable", "d_disable", "e_disable"}
    /\ enterDisable
    /\ UNCHANGED <<semaphore, pc, locals, eventQueue, back>>

EvFinishDisable(p) ==
    /\ ~aborted /\ curProc = p
    /\ disableInterrupts
    /\ \/ pc[p] = "t_disable" /\ Goto(p, "t_load")
       \/ pc[p] = "c_disable" /\ Goto(p, "c_state")
       \/ pc[p] = "d_disable" /\ Goto(p, "d_swap")
       \/ pc[p] = "e_disable" /\ Goto(p, "e_state")
    /\ UNCHANGED <<semaphore, locals, eventQueue, back>>

EvEnable(p) ==
    /\ \/ At(p, "t_leave") /\ Goto(p, "v_check")
       \/ At(p, "t_enable") /\ Goto(p, "v_already")
       \/ At(p, "c_enable") /\ Goto(p, "c_yield")
       \/ At(p, "d_enable") /\ Goto(p, "v_body")
    /\ enableInterrupts
    /\ UNCHANGED <<semaphore, locals, eventQueue, back>>

-----------------------------------------------------------------------------
WaitStep(p) ==
    \/ EvIdle(p) \/ EvEnable(p)
    \/ TryLoad(p) \/ TryStore(p) \/ TryAdd(p) \/ AlreadyGot(p)
    \/ CheckEvents(p) \/ SleepState(p) \/ SleepWaiter(p) \/ SleepYield(p)
    \/ SwapEvents(p) \/ EvBody(p)

ReceiveStep(p) ==
    \/ ReceiveEvent(p) \/ AddEvent(p) \/ TestWaiter(p)
    \/ WakeState(p) \/ WakeResume(p) \/ WakeClear(p) \/ WakeEnable(p)

(* EvProc uses wait: where the other processes use critical:; signal is    *)
(* the same.                                                               *)
SharedStep(p) ==
    /\ \/ p # EvProc /\ SemStep(p)
       \/ p = EvProc /\ \/ StartDisable(p) \/ FinishDisable(p)
                        \/ LoadCount(p) \/ SignalStore(p) \/ SignalFirst(p)
                        \/ SignalRemove(p) \/ SignalActivate(p)
                        \/ SignalResume(p) \/ Enable(p)
    /\ UNCHANGED <<eventQueue, back>>

EvStep(p) ==
    /\ \/ SharedStep(p)
       \/ p = EvProc /\ WaitStep(p)
       \/ ReceiveStep(p)
       \/ EvStartDisable(p) \/ EvFinishDisable(p)
    /\ ticked' = (ticked /\ interruptFlag')
    /\ UNCHANGED cut

EvNext ==
    \/ System /\ UNCHANGED <<eventQueue, back>>
    \/ \E p \in Proc : EvStep(p)

EvSpec == EvInit /\ [][EvNext]_evVars

(* As in Semaphore, up to the first section that is cut short.             *)
EvSystem == ~cut /\ System /\ UNCHANGED <<eventQueue, back>>
EvFairness ==
    /\ SF_evVars(phase = "execute" /\ EvSystem /\ phase' = "execute")
    /\ \A p \in Proc : SF_evVars(/\ EvSystem /\ phase = "schedule" /\ phase' = "execute"
                                 /\ curProc' = p /\ ~interruptFlag)
    /\ WF_evVars(EvSystem /\ phase' # phase)
    /\ \A p \in Proc : SF_evVars(~cut /\ EvStep(p))

FairEvSpec == EvInit /\ [][~cut /\ EvNext]_evVars /\ EvFairness

-----------------------------------------------------------------------------
(* The steps that touch the semaphore, the event queue or the run queue    *)
(* with interrupts disabled.  The last enableInterrupts of a signal is not *)
(* among them: WakeEnable may have enabled interrupts before.              *)
EvKernel ==
    (WaitKernel \cup SignalKernel \cup
       {"t_load", "t_store", "t_add", "t_leave", "c_state", "c_waiter", "c_enable",
        "d_swap", "d_enable", "e_add", "e_test", "e_state", "e_resume", "e_clear"})
    \ {"s_enable"}
InEvKernel(p) == pc[p] \in EvKernel
Quiet == \A p \in Proc : ~InEvKernel(p)

(* The nested critical: of receiveEvent: enables interrupts inside the     *)
(* critical section of the signal that sent it; nevertheless no two        *)
(* processes are in the steps above at once, until a tick ends a slice in  *)
(* such a section (this and the next two properties hold so far only).     *)
OneInEvKernel == \A p, q \in Proc : InEvKernel(p) /\ InEvKernel(q) => p = q
EvKernelExclusive == cut \/ OneInEvKernel

(* Between calls, a negative count is the number of waiters, the event     *)
(* queue counted once for each of its requests, and with a count of zero   *)
(* or more there is no waiter that nobody would signal.                    *)
WaitersMatchCount ==
    cut \/ (Quiet => IF count < 0 THEN Len(waiters) = -count ELSE waiters = <<>>)

(* No sleeper is out of reach: a process that is neither running nor       *)
(* queued is in the semaphore's list or about to be resumed, or is the one *)
(* that the event queue will wake.                                         *)
InReach ==
    \A p \in Proc : Asleep(p) =>
        \/ waiter = p
        \/ p \in {waiters[i] : i \in DOMAIN waiters}
        \/ \E q \in Proc : pc[q] \in {"s_activate", "s_resume"} /\ who[q] = p
SleepersInReach == cut \/ InReach

(* An event that finds the process asleep wakes it, unless a time slice    *)
(* cuts a section short first.                                             *)
EventWakes ==
    ((\E p \in Proc : pc[p] = "e_test") /\ Asleep(EvProc))
        ~> (Running(EvProc) \/ aborted \/ cut)

(* EventQueue.st:3-5: "allows multiple event sources to be multiplexed, so *)
(* that a process can wait till one is ready".  The process does not stay  *)
(* asleep with an event in its queue, once receiveEvent: has returned.     *)
Receiving(p) == pc[p] \in {"e_add", "e_test", "e_disable", "e_state", "e_resume"}
AwakeWhenReady ==
    Asleep(EvProc) /\ events > 0 => \E p \in Proc : Receiving(p)

=============================================================================
