----------------------------- MODULE EventLoop -----------------------------
(***************************************************************************)
(* The two threads of a CPUThreadPair (cmd/vm/CPUThread.hh, Scheduling.cc):*)
(* the interpreter, which starts the time slice timer, executes processes, *)
(* stops the timer and asks the other thread to end; and the libev event   *)
(* loop, whose callbacks raise the interrupt flag and break the loop.      *)
(* They share m_evLock: libev releases it while it polls.                  *)
(*                                                                         *)
(* The executing interpreter is the machine of Scheduling, of which only   *)
(* the interrupt flag is kept here.                                        *)
(***************************************************************************)
EXTENDS Naturals

VARIABLES
    evLock,         \* m_evLock: who holds it
    timerActive,    \* m_timeSliceTimer is started
    wakeSent,       \* m_loopWake has been sent, and is not yet dispatched
    wantExit,       \* m_wantExit
    interruptFlag,  \* m_interruptFlag
    interp,         \* where the interpreter thread is
    ev,             \* where the event loop thread is
    timeout,        \* the current poll ends by itself
    elapsed         \* a time slice has passed when the poll ended

shared == <<timerActive, wakeSent, wantExit, interruptFlag>>
polling == <<timeout, elapsed>>
vars == <<evLock, shared, interp, ev, polling>>

InterpLocked == {"again", "send", "unlock", "stop", "stop_send", "stop_unlock",
                 "exit", "exit_send", "exit_unlock"}
InterpFree == {"create", "lock", "execute", "stop_lock", "exit_lock", "join", "done"}
EvLocked == {"compute", "timers", "wake", "loop", "leave"}
EvFree == {"unborn", "start", "poll", "acquire", "done"}

TypeOK ==
    /\ evLock \in {"free", "interp", "ev"}
    /\ timerActive \in BOOLEAN /\ wakeSent \in BOOLEAN
    /\ wantExit \in BOOLEAN /\ interruptFlag \in BOOLEAN
    /\ interp \in InterpLocked \cup InterpFree
    /\ ev \in EvLocked \cup EvFree
    /\ timeout \in BOOLEAN /\ elapsed \in BOOLEAN

Init ==
    /\ evLock = "free"
    /\ timerActive = FALSE /\ wakeSent = FALSE
    /\ wantExit = FALSE /\ interruptFlag = FALSE
    /\ interp = "create" /\ ev = "unborn"
    /\ timeout = FALSE /\ elapsed = FALSE

-----------------------------------------------------------------------------
(* The interpreter thread: the constructor and scheduleLoop.               *)
CreateThread ==
    /\ interp = "create"
    /\ interp' = "lock" /\ ev' = "start"
    /\ UNCHANGED <<evLock, shared, polling>>

Lock ==
    /\ evLock = "free"
    /\ \/ interp = "lock" /\ interp' = "again"
       \/ interp = "stop_lock" /\ interp' = "stop"
       \/ interp = "exit_lock" /\ interp' = "exit"
    /\ evLock' = "interp"
    /\ UNCHANGED <<shared, ev, polling>>

StartTimer ==
    /\ interp = "again"
    /\ timerActive' = TRUE
    /\ interp' = "send"
    /\ UNCHANGED <<evLock, wakeSent, wantExit, interruptFlag, ev, polling>>

\* Mutation: the loop is not told that the timers have changed.
sendNothing ==
    /\ \/ interp = "send" /\ interp' = "unlock" /\ UNCHANGED wakeSent
       \/ interp = "stop_send" /\ interp' = "stop_unlock" /\ UNCHANGED wakeSent
       \/ interp = "exit_send" /\ interp' = "exit_unlock" /\ wakeSent' = TRUE
    /\ UNCHANGED <<evLock, timerActive, wantExit, interruptFlag, ev, polling>>

Send ==
    /\ \/ interp = "send" /\ interp' = "unlock"
       \/ interp = "stop_send" /\ interp' = "stop_unlock"
       \/ interp = "exit_send" /\ interp' = "exit_unlock"
    /\ wakeSent' = TRUE
    /\ UNCHANGED <<evLock, timerActive, wantExit, interruptFlag, ev, polling>>

Unlock ==
    /\ \/ interp = "unlock" /\ interp' = "execute"
       \/ interp = "stop_unlock" /\ interp' = "exit_lock"
       \/ interp = "exit_unlock" /\ interp' = "join"
    /\ evLock' = "free"
    /\ UNCHANGED <<shared, ev, polling>>

(* A time slice ends, and the next process runs.                           *)
EndSlice ==
    /\ interp = "execute"
    /\ interruptFlag
    /\ interruptFlag' = FALSE
    /\ UNCHANGED <<evLock, timerActive, wakeSent, wantExit, interp, ev, polling>>

(* No process is runnable any more; the last one's end clears the flag.    *)
EndLoop ==
    /\ interp = "execute"
    /\ interruptFlag' = FALSE
    /\ interp' = "stop_lock"
    /\ UNCHANGED <<evLock, timerActive, wakeSent, wantExit, ev, polling>>

\* Mutation: the timer is left running.
leaveTimer ==
    /\ interp = "stop"
    /\ interp' = "stop_send"
    /\ UNCHANGED <<evLock, shared, ev, polling>>

StopTimer ==
    /\ interp = "stop"
    /\ timerActive' = FALSE
    /\ interp' = "stop_send"
    /\ UNCHANGED <<evLock, wakeSent, wantExit, interruptFlag, ev, polling>>

\* Mutation: the loop is woken first and told why after that.
exitUnset ==
    /\ interp = "exit"
    /\ interp' = "exit_send"
    /\ UNCHANGED <<evLock, shared, ev, polling>>

SetWantExit ==
    /\ interp = "exit"
    /\ wantExit' = TRUE
    /\ interp' = "exit_send"
    /\ UNCHANGED <<evLock, timerActive, wakeSent, interruptFlag, ev, polling>>

Join ==
    /\ interp = "join"
    /\ ev = "done"
    /\ interp' = "done"
    /\ UNCHANGED <<evLock, shared, ev, polling>>

-----------------------------------------------------------------------------
(* The event loop thread: evLoop, and libev's loop around its callbacks.   *)
EvStart ==
    /\ ev = "start"
    /\ evLock = "free"
    /\ evLock' = "ev" /\ ev' = "compute"
    /\ UNCHANGED <<shared, interp, polling>>

(* libev computes how long it may sleep; loopRelease unlocks.              *)
loopRelease ==
    /\ ev = "compute"
    /\ timeout' = timerActive
    /\ elapsed' = FALSE
    /\ evLock' = "free" /\ ev' = "poll"
    /\ UNCHANGED <<shared, interp>>

(* The poll ends when the asynchronous event is pending, or at its timeout.*)
PollEnds ==
    /\ ev = "poll"
    /\ \/ wakeSent /\ elapsed' \in BOOLEAN
       \/ timeout /\ elapsed' = TRUE
    /\ ev' = "acquire"
    /\ UNCHANGED <<evLock, shared, interp, timeout>>

\* Mutation: the callbacks run without the lock.
acquireNothing ==
    /\ ev = "acquire"
    /\ ev' = "timers"
    /\ UNCHANGED <<evLock, shared, interp, polling>>

loopAcquire ==
    /\ ev = "acquire"
    /\ evLock = "free"
    /\ evLock' = "ev" /\ ev' = "timers"
    /\ UNCHANGED <<shared, interp, polling>>

timeSliceCb ==
    /\ ev = "timers"
    /\ interruptFlag' = (interruptFlag \/ (timerActive /\ elapsed))
    /\ ev' = "wake"
    /\ UNCHANGED <<evLock, timerActive, wakeSent, wantExit, interp, polling>>

loopAwakeCb ==
    /\ ev = "wake"
    /\ wakeSent' = FALSE
    /\ ev' = IF wakeSent /\ wantExit THEN "leave" ELSE "compute"
    /\ UNCHANGED <<evLock, timerActive, wantExit, interruptFlag, interp, polling>>

EvLeave ==
    /\ ev = "leave"
    /\ evLock' = "free" /\ ev' = "done"
    /\ UNCHANGED <<shared, interp, polling>>

-----------------------------------------------------------------------------
Interpreter ==
    \/ CreateThread \/ StartTimer \/ Send \/ Unlock \/ EndSlice
    \/ StopTimer \/ SetWantExit \/ Join

Loop ==
    \/ loopRelease \/ PollEnds \/ timeSliceCb \/ loopAwakeCb \/ EvLeave

Next == Interpreter \/ Lock \/ EndLoop \/ Loop \/ EvStart \/ loopAcquire

Spec == Init /\ [][Next]_vars

(* Both threads run.  A thread that waits for the mutex gets it if it is   *)
(* free again and again: the loop holds it for an instant of each 0.1 s.   *)
(* Nothing makes the processes come to an end.                             *)
FairSpec ==
    /\ Spec
    /\ WF_vars(Interpreter) /\ WF_vars(Loop)
    /\ SF_vars(Lock) /\ SF_vars(EvStart) /\ SF_vars(loopAcquire)

-----------------------------------------------------------------------------
(* The timer, the waker and m_wantExit are used under m_evLock only: libev *)
(* is not thread-safe, apart from ev_async_send.                           *)
LoopLocked ==
    /\ interp \in InterpLocked <=> evLock = "interp"
    /\ ev \in EvLocked <=> evLock = "ev"

(* Once the timer is stopped no callback interrupts the interpreter again: *)
(* a slice that ended while scheduleLoop was stopping the timer is void.   *)
AfterStop == interp \in {"stop_send", "stop_unlock", "exit_lock", "exit",
                         "exit_send", "exit_unlock", "join", "done"}
NoTickAfterStop == [][AfterStop => ~(~interruptFlag /\ interruptFlag')]_vars

(* Time slices come for as long as processes execute, though the loop may  *)
(* have been asleep without a timeout when the timer was started.          *)
Timeslicing == interp = "execute" ~> (interruptFlag \/ interp # "execute")

(* Both threads end: the interpreter's request to exit is never lost, even *)
(* if it coincides with the wake-up that announces the stopped timer.      *)
Ends == interp = "stop_lock" ~> (interp = "done" /\ ev = "done" /\ evLock = "free")

=============================================================================
