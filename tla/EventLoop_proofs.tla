-------------------------- MODULE EventLoop_proofs --------------------------
(***************************************************************************)
(* Proofs about EventLoop: the two threads touch the libev loop one at a   *)
(* time, and no callback interrupts the interpreter once the timer is      *)
(* stopped.                                                                *)
(***************************************************************************)
EXTENDS EventLoop, TLAPS

(* The timer is stopped from StopTimer on: nobody starts it again.         *)
StoppedForGood == AfterStop => ~timerActive

(* The event loop thread exists once the interpreter has created it.       *)
CreatedFirst == interp = "create" => ev = "unborn"

LoopInv == TypeOK /\ LoopLocked /\ CreatedFirst /\ StoppedForGood

LEMMA LoopInvInit == Init => LoopInv
BY DEF Init, LoopInv, TypeOK, LoopLocked, CreatedFirst, StoppedForGood, AfterStop,
       InterpLocked, InterpFree, EvLocked, EvFree

-----------------------------------------------------------------------------
(* The types, step by step.                                                *)
LEMMA TypeNext == TypeOK /\ [Next]_vars => TypeOK'
<1> SUFFICES ASSUME TypeOK, [Next]_vars PROVE TypeOK'
  OBVIOUS
<1> USE DEF TypeOK, InterpLocked, InterpFree, EvLocked, EvFree, shared, polling
<1>1. CASE CreateThread
  BY <1>1 DEF CreateThread
<1>2. CASE Lock
  BY <1>2 DEF Lock
<1>3. CASE StartTimer
  BY <1>3 DEF StartTimer
<1>4. CASE Send
  BY <1>4 DEF Send
<1>5. CASE Unlock
  BY <1>5 DEF Unlock
<1>6. CASE EndSlice
  BY <1>6 DEF EndSlice
<1>7. CASE EndLoop
  BY <1>7 DEF EndLoop
<1>8. CASE StopTimer
  BY <1>8 DEF StopTimer
<1>9. CASE SetWantExit
  BY <1>9 DEF SetWantExit
<1>10. CASE Join
  BY <1>10 DEF Join
<1>11. CASE EvStart
  BY <1>11 DEF EvStart
<1>12. CASE loopRelease
  BY <1>12 DEF loopRelease
<1>13. CASE PollEnds
  BY <1>13 DEF PollEnds
<1>14. CASE loopAcquire
  BY <1>14 DEF loopAcquire
<1>15. CASE timeSliceCb
  BY <1>15 DEF timeSliceCb
<1>16. CASE loopAwakeCb
  BY <1>16 DEF loopAwakeCb
<1>17. CASE EvLeave
  BY <1>17 DEF EvLeave
<1>18. CASE UNCHANGED vars
  BY <1>18 DEF vars
<1> QED BY <1>1, <1>2, <1>3, <1>4, <1>5, <1>6, <1>7, <1>8, <1>9, <1>10, <1>11,
           <1>12, <1>13, <1>14, <1>15, <1>16, <1>17, <1>18
        DEF Next, Interpreter, Loop

(* A step of the interpreter moves it between positions with and without   *)
(* the lock only as it takes or releases it, and so does the loop's.       *)
LEMMA LockedNext ==
    TypeOK /\ LoopLocked /\ CreatedFirst /\ [Next]_vars
        => LoopLocked' /\ CreatedFirst'
<1> SUFFICES ASSUME TypeOK, LoopLocked, CreatedFirst, [Next]_vars
             PROVE  LoopLocked' /\ CreatedFirst'
  OBVIOUS
<1> USE DEF TypeOK, LoopLocked, CreatedFirst, InterpLocked, InterpFree,
            EvLocked, EvFree, shared, polling
<1>1. CASE Interpreter
  BY <1>1 DEF Interpreter, CreateThread, StartTimer, Send, Unlock, EndSlice,
              StopTimer, SetWantExit, Join
<1>2. CASE Lock \/ EndLoop
  BY <1>2 DEF Lock, EndLoop
<1>3. CASE Loop
  BY <1>3 DEF Loop, loopRelease, PollEnds, timeSliceCb, loopAwakeCb, EvLeave
<1>4. CASE EvStart \/ loopAcquire
  BY <1>4 DEF EvStart, loopAcquire
<1>5. CASE UNCHANGED vars
  BY <1>5 DEF vars
<1> QED BY <1>1, <1>2, <1>3, <1>4, <1>5 DEF Next

LEMMA StoppedNext ==
    TypeOK /\ StoppedForGood /\ [Next]_vars => StoppedForGood'
<1> SUFFICES ASSUME TypeOK, StoppedForGood, [Next]_vars PROVE StoppedForGood'
  OBVIOUS
<1> USE DEF TypeOK, StoppedForGood, AfterStop, shared, polling
<1>1. CASE Interpreter
  BY <1>1 DEF Interpreter, CreateThread, StartTimer, Send, Unlock, EndSlice,
              StopTimer, SetWantExit, Join
<1>2. CASE Lock \/ EndLoop
  BY <1>2 DEF Lock, EndLoop
<1>3. CASE Loop \/ EvStart \/ loopAcquire
  BY <1>3 DEF Loop, loopRelease, PollEnds, timeSliceCb, loopAwakeCb, EvLeave,
              EvStart, loopAcquire
<1>4. CASE UNCHANGED vars
  BY <1>4 DEF vars
<1> QED BY <1>1, <1>2, <1>3, <1>4 DEF Next

(* The inductive invariant of the two threads.                             *)
THEOREM LoopInvariant == Spec => []LoopInv
<1>1. LoopInv /\ [Next]_vars => LoopInv'
  BY TypeNext, LockedNext, StoppedNext DEF LoopInv
<1> QED BY <1>1, LoopInvInit, PTL DEF Spec

(* The loop, its timer and its waker are used by one thread at a time: the *)
(* interpreter between lock and unlock, the loop except while it polls.    *)
THEOREM LockedAlways == Spec => []LoopLocked
<1>1. LoopInv => LoopLocked
  BY DEF LoopInv
<1> QED BY <1>1, LoopInvariant, PTL

(* A time-out that elapsed while the timer was being stopped raises no     *)
(* interrupt afterwards.                                                   *)
THEOREM NoLateTick == Spec => NoTickAfterStop
<1>1. LoopInv /\ [Next]_vars =>
        [AfterStop => ~(~interruptFlag /\ interruptFlag')]_vars
  <2> SUFFICES ASSUME LoopInv, Next, AfterStop, ~interruptFlag
               PROVE  ~interruptFlag'
    OBVIOUS
  <2> USE DEF LoopInv, StoppedForGood, TypeOK, AfterStop, shared
  <2>1. CASE Interpreter
    BY <2>1 DEF Interpreter, CreateThread, StartTimer, Send, Unlock, EndSlice,
                StopTimer, SetWantExit, Join
  <2>2. CASE Lock \/ EndLoop
    BY <2>2 DEF Lock, EndLoop
  <2>3. CASE Loop \/ EvStart \/ loopAcquire
    BY <2>3 DEF Loop, loopRelease, PollEnds, timeSliceCb, loopAwakeCb, EvLeave,
                EvStart, loopAcquire
  <2> QED BY <2>1, <2>2, <2>3 DEF Next
<1> QED BY <1>1, LoopInvariant, PTL DEF Spec, NoTickAfterStop

=============================================================================
