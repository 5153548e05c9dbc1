------------------------- MODULE Scheduling_proofs -------------------------
(***************************************************************************)
(* Proofs about Scheduling, for every set of processes, every program and  *)
(* either value of TickWhileDisabled.                                      *)
(***************************************************************************)
EXTENDS Scheduling, SequenceTheorems, TLAPS

(* What holds whatever the programs do.  The queue has no duplicates since *)
(* addProcToRunnables asserts that a process is not in it, and the types   *)
(* of what is taken from it follow.                                        *)
AnyInv ==
    /\ SchedTypeOK
    /\ QueuedOnce
    /\ StoredOnlyWhileDisabled

(* What holds in addition while no program resumes the process that runs,  *)
(* or one that has finished.  The assertion of addProcToRunnables at the   *)
(* end of a time slice then holds because the running process is not       *)
(* queued, and it is not queued because the process taken from a queue     *)
(* without duplicates is not left behind in it.                            *)
SchedInv ==
    /\ SchedTypeOK
    /\ OnePlace
    /\ StoredOnlyWhileDisabled

-----------------------------------------------------------------------------
(* Entering one more element at the end of a sequence without duplicates.  *)
LEMMA AppendDistinct ==
    ASSUME NEW S, NEW s \in Seq(S), NEW e \in S,
           \A i, j \in DOMAIN s : s[i] = s[j] => i = j,
           e \notin {s[i] : i \in DOMAIN s}
    PROVE  /\ Append(s, e) \in Seq(S)
           /\ \A i, j \in DOMAIN Append(s, e) :
                Append(s, e)[i] = Append(s, e)[j] => i = j
           /\ {Append(s, e)[i] : i \in DOMAIN Append(s, e)}
                = {s[i] : i \in DOMAIN s} \cup {e}
<1> DEFINE t == Append(s, e)
<1>1. /\ t \in Seq(S)
      /\ Len(t) = Len(s) + 1
      /\ Len(s) \in Nat
      /\ DOMAIN s = 1 .. Len(s)
      /\ DOMAIN t = 1 .. Len(s) + 1
      /\ \A i \in 1 .. Len(s) : t[i] = s[i]
      /\ t[Len(s) + 1] = e
  BY LenProperties
<1> HIDE DEF t
<1>2. ASSUME NEW i \in DOMAIN t, NEW j \in DOMAIN t, t[i] = t[j]
      PROVE  i = j
  BY <1>1, <1>2
<1>3. {t[i] : i \in DOMAIN t} = {s[i] : i \in DOMAIN s} \cup {e}
  BY <1>1
<1> QED BY <1>1, <1>2, <1>3 DEF t

(* Taking the first element of a sequence without duplicates removes it.   *)
LEMMA TailDistinct ==
    ASSUME NEW S, NEW s \in Seq(S), s # <<>>,
           \A i, j \in DOMAIN s : s[i] = s[j] => i = j
    PROVE  /\ Tail(s) \in Seq(S)
           /\ Head(s) \in S
           /\ Head(s) \in {s[i] : i \in DOMAIN s}
           /\ \A i, j \in DOMAIN Tail(s) : Tail(s)[i] = Tail(s)[j] => i = j
           /\ {Tail(s)[i] : i \in DOMAIN Tail(s)}
                = {s[i] : i \in DOMAIN s} \ {Head(s)}
<1> DEFINE t == Tail(s)
<1>1. /\ t \in Seq(S)
      /\ Head(s) = s[1]
      /\ Len(s) \in Nat \ {0}
      /\ Len(t) = Len(s) - 1
      /\ DOMAIN s = 1 .. Len(s)
      /\ DOMAIN t = 1 .. Len(s) - 1
      /\ \A i \in 1 .. Len(s) - 1 : t[i] = s[i + 1]
      /\ Head(s) \in S
  BY HeadTailProperties, LenProperties, EmptySeq
<1> HIDE DEF t
<1>2. ASSUME NEW i \in DOMAIN t, NEW j \in DOMAIN t, t[i] = t[j]
      PROVE  i = j
  <2>1. s[i + 1] = s[j + 1] /\ i + 1 \in DOMAIN s /\ j + 1 \in DOMAIN s
    BY <1>1, <1>2
  <2>2. i + 1 = j + 1
    BY <2>1
  <2> QED BY <2>2, <1>1
<1>3. {t[i] : i \in DOMAIN t} \subseteq {s[i] : i \in DOMAIN s} \ {Head(s)}
  <2> SUFFICES ASSUME NEW i \in DOMAIN t
               PROVE  t[i] \in {s[k] : k \in DOMAIN s} \ {Head(s)}
    OBVIOUS
  <2>1. t[i] = s[i + 1] /\ i + 1 \in DOMAIN s /\ 1 \in DOMAIN s /\ i + 1 # 1
    BY <1>1
  <2>2. s[i + 1] # s[1]
    BY <2>1
  <2> QED BY <1>1, <2>1, <2>2
<1>4. {s[i] : i \in DOMAIN s} \ {Head(s)} \subseteq {t[i] : i \in DOMAIN t}
  <2> SUFFICES ASSUME NEW i \in DOMAIN s, s[i] # s[1]
               PROVE  s[i] \in {t[k] : k \in DOMAIN t}
    BY <1>1
  <2>1. i - 1 \in DOMAIN t /\ t[i - 1] = s[i]
    BY <1>1
  <2> QED BY <2>1
<1>5. Head(s) \in {s[i] : i \in DOMAIN s}
  BY <1>1
<1> QED BY <1>1, <1>2, <1>3, <1>4, <1>5 DEF t

-----------------------------------------------------------------------------
LEMMA SchedInvInit == SchedInit => SchedInv
<1> SUFFICES ASSUME SchedInit PROVE SchedInv
  OBVIOUS
<1> USE ProcAssumption DEF SchedInit
<1>1. runnable \in Seq(Proc) /\ DOMAIN runnable = {1} /\ runnable[1] = FirstProc
  OBVIOUS
<1>2. SchedTypeOK
  BY <1>1 DEF SchedTypeOK, Suspended, Active, Waiting, Phases, Lives
<1>3. OnePlace
  BY <1>1 DEF OnePlace, QueuedOnce, Queued, Running
<1>4. StoredOnlyWhileDisabled
  BY DEF StoredOnlyWhileDisabled
<1> QED BY <1>2, <1>3, <1>4 DEF SchedInv

LEMMA SchedInvParts == SchedInv <=> AnyInv /\ OnePlace
BY DEF SchedInv, AnyInv, OnePlace

-----------------------------------------------------------------------------
(* One lemma for each action.  All but the resume of a process keep what   *)
(* holds of any program, and each process in its one place.                *)
Keeps == AnyInv' /\ (OnePlace => OnePlace')

LEMMA KeepsTick == AnyInv /\ timeSliceCb => Keeps
<1> SUFFICES ASSUME AnyInv, timeSliceCb PROVE Keeps
  OBVIOUS
<1> USE DEF AnyInv, timeSliceCb, queueVars, procVars
<1>1. SchedTypeOK'
  BY DEF SchedTypeOK
<1>2. QueuedOnce' /\ (OnePlace => OnePlace')
  BY DEF OnePlace, QueuedOnce, Queued, Running
<1>3. StoredOnlyWhileDisabled'
  BY DEF StoredOnlyWhileDisabled
<1> QED BY <1>1, <1>2, <1>3 DEF Keeps

(* The first process of the queue is taken from it.                        *)
LEMMA TakesFirst ==
    ASSUME AnyInv, getNextForRunning, runnable # <<>>
    PROVE  /\ Head(runnable) \in Proc
           /\ Head(runnable) \in Queued
           /\ runnable' \in Seq(Proc)
           /\ QueuedOnce'
           /\ Queued' = Queued \ {Head(runnable)}
<1>1. runnable \in Seq(Proc) /\ QueuedOnce /\ runnable' = Tail(runnable)
  BY DEF AnyInv, SchedTypeOK, getNextForRunning
<1> QED BY <1>1, TailDistinct DEF Queued, QueuedOnce

LEMMA KeepsGetNext == AnyInv /\ getNextForRunning => Keeps
<1> SUFFICES ASSUME AnyInv, getNextForRunning PROVE Keeps
  OBVIOUS
<1> USE DEF AnyInv, getNextForRunning, interruptVars, procVars
<1>1. StoredOnlyWhileDisabled'
  BY DEF StoredOnlyWhileDisabled
<1>2. CASE runnable = <<>>
  <2>1. SchedTypeOK'
    BY <1>2 DEF SchedTypeOK, Phases
  <2>2. QueuedOnce' /\ (OnePlace => OnePlace')
    BY <1>2 DEF OnePlace, QueuedOnce, Queued, Running
  <2> QED BY <1>1, <2>1, <2>2 DEF Keeps
<1>3. CASE runnable # <<>>
  <2>1. SchedTypeOK'
    BY <1>3, TakesFirst DEF SchedTypeOK, Phases
  <2>2. OnePlace => OnePlace'
    BY <1>3, TakesFirst DEF OnePlace, Running
  <2> QED BY <1>1, <1>3, <2>1, <2>2, TakesFirst DEF Keeps
<1> QED BY <1>2, <1>3

(* Entering a process that is not queued at the end of the queue.          *)
LEMMA EnterAny ==
    ASSUME AnyInv, NEW p \in Proc, p \notin Queued,
           runnable' = addToListLast(p)
    PROVE  /\ runnable' \in Seq(Proc)
           /\ QueuedOnce'
           /\ Queued' = Queued \cup {p}
<1>1. /\ runnable \in Seq(Proc)
      /\ \A i, j \in DOMAIN runnable : runnable[i] = runnable[j] => i = j
      /\ p \notin {runnable[i] : i \in DOMAIN runnable}
  BY DEF AnyInv, SchedTypeOK, QueuedOnce, Queued
<1> QED BY <1>1, AppendDistinct DEF Queued, QueuedOnce, addToListLast

LEMMA KeepsAbort == AnyInv /\ Abort => Keeps
BY DEF AnyInv, Abort, SchedTypeOK, OnePlace, QueuedOnce, StoredOnlyWhileDisabled,
       Queued, Running, interruptVars, queueVars, procVars, Keeps

LEMMA KeepsTimeslice == AnyInv /\ timesliceDone => Keeps
<1> SUFFICES ASSUME AnyInv, timesliceDone PROVE Keeps
  OBVIOUS
<1> DEFINE p == curProc
<1>1. p \in Proc /\ Running(p)
  BY DEF timesliceDone, AnyInv, SchedTypeOK, Running
<1>2. CASE state[p] = Waiting
  <2> USE <1>1, <1>2 DEF AnyInv, timesliceDone, requeue, procVars
  <2>1. SchedTypeOK'
    BY DEF SchedTypeOK, Phases
  <2>2. QueuedOnce' /\ (OnePlace => OnePlace')
    BY DEF OnePlace, QueuedOnce, Queued, Running
  <2>3. StoredOnlyWhileDisabled'
    BY DEF StoredOnlyWhileDisabled
  <2> QED BY <2>1, <2>2, <2>3 DEF Keeps
<1>3. CASE state[p] # Waiting /\ p \in Queued
  BY <1>3, KeepsAbort DEF timesliceDone, requeue
<1>4. CASE state[p] # Waiting /\ p \notin Queued
  <2>1. /\ runnable' = addToListLast(p)
        /\ phase' = "schedule"
        /\ interruptFlag' = FALSE
        /\ UNCHANGED <<otherInterruptFlag, interruptsDisabled, curProc,
                       procVars, aborted>>
    BY <1>4 DEF timesliceDone, requeue
  <2>2. /\ runnable' \in Seq(Proc)
        /\ QueuedOnce'
        /\ Queued' = Queued \cup {p}
    BY <1>1, <1>4, <2>1, EnterAny
  <2> USE DEF AnyInv, procVars
  <2>3. SchedTypeOK'
    BY <2>1, <2>2 DEF SchedTypeOK, Phases
  <2>4. OnePlace => OnePlace'
    BY <1>1, <2>1, <2>2 DEF OnePlace, Running
  <2>5. StoredOnlyWhileDisabled'
    BY <2>1 DEF StoredOnlyWhileDisabled
  <2> QED BY <2>2, <2>3, <2>4, <2>5 DEF Keeps
<1> QED BY <1>2, <1>3, <1>4

LEMMA KeepsDisabling == AnyInv /\ Disabling => Keeps
<1> SUFFICES ASSUME AnyInv, Disabling PROVE Keeps
  OBVIOUS
<1> USE DEF AnyInv, Disabling, disableInterrupts, procVars
<1>1. SchedTypeOK'
  BY DEF SchedTypeOK, Phases
<1>2. QueuedOnce' /\ (OnePlace => OnePlace')
  BY DEF OnePlace, QueuedOnce, Queued, Running
<1>3. StoredOnlyWhileDisabled'
  BY DEF StoredOnlyWhileDisabled
<1> QED BY <1>1, <1>2, <1>3 DEF Keeps

(* The steps of a running process.                                         *)
LEMMA KeepsInterruptCalls ==
    ASSUME AnyInv, NEW p \in Proc, CanStep(p),
           enterDisable \/ enableInterrupts \/ yield
    PROVE  Keeps
<1>1. CASE enterDisable
  <2> USE <1>1 DEF AnyInv, enterDisable, CanStep, interruptVars, procVars
  <2>1. SchedTypeOK'
    BY DEF SchedTypeOK, Phases
  <2>2. QueuedOnce' /\ (OnePlace => OnePlace')
    BY DEF OnePlace, QueuedOnce, Queued, Running
  <2>3. StoredOnlyWhileDisabled'
    BY DEF StoredOnlyWhileDisabled
  <2> QED BY <2>1, <2>2, <2>3 DEF Keeps
<1>2. CASE enableInterrupts
  <2> USE <1>2 DEF AnyInv, enableInterrupts, queueVars, procVars
  <2>1. SchedTypeOK'
    BY DEF SchedTypeOK
  <2>2. QueuedOnce' /\ (OnePlace => OnePlace')
    BY DEF OnePlace, QueuedOnce, Queued, Running
  <2>3. StoredOnlyWhileDisabled'
    BY DEF StoredOnlyWhileDisabled
  <2> QED BY <2>1, <2>2, <2>3 DEF Keeps
<1>3. CASE yield /\ interruptsDisabled
  BY <1>3, KeepsAbort DEF yield
<1>4. CASE yield /\ ~interruptsDisabled
  <2> USE <1>4 DEF AnyInv, yield, queueVars, procVars
  <2>1. SchedTypeOK'
    BY DEF SchedTypeOK
  <2>2. QueuedOnce' /\ (OnePlace => OnePlace')
    BY DEF OnePlace, QueuedOnce, Queued, Running
  <2>3. StoredOnlyWhileDisabled'
    BY DEF StoredOnlyWhileDisabled
  <2> QED BY <2>1, <2>2, <2>3 DEF Keeps
<1> QED BY <1>1, <1>2, <1>3, <1>4

LEMMA KeepsFinish ==
    ASSUME AnyInv, NEW p \in Proc, CanStep(p), finish(p)
    PROVE  Keeps
<1> USE DEF AnyInv, finish
<1>1. SchedTypeOK'
  BY DEF SchedTypeOK, Phases, Lives
<1>2. Queued' = Queued /\ Queued \subseteq Proc /\ QueuedOnce'
  BY DEF Queued, QueuedOnce, SchedTypeOK
<1>3. ASSUME OnePlace PROVE OnePlace'
  <2>1. p \notin Queued
    BY <1>3 DEF CanStep, OnePlace, Running
  <2> QED BY <1>2, <1>3, <2>1 DEF OnePlace, Running, SchedTypeOK
<1>4. StoredOnlyWhileDisabled'
  BY DEF StoredOnlyWhileDisabled
<1> QED BY <1>1, <1>2, <1>3, <1>4 DEF Keeps

(* A process that is resumed out of place enters the queue once; any other *)
(* is then in one place.                                                   *)
LEMMA KeepsResume ==
    ASSUME AnyInv, NEW p \in Proc, CanStep(p), NEW q \in Proc, procResume(q)
    PROVE  /\ AnyInv'
           /\ OnePlace /\ life[q] # "unborn" => OnePlace' \/ ResumedOutOfPlace
           /\ OnePlace /\ life[q] \in {"created", "live"} /\ ~Running(q) => OnePlace'
<1>1. CASE q \in Queued \/ life[q] = "linked"
  BY <1>1, KeepsAbort DEF procResume, Keeps
<1>2. CASE q \notin Queued /\ life[q] # "linked"
  <2>1. /\ runnable' = addToListLast(q)
        /\ state' = [state EXCEPT ![q] = Active]
        /\ life' = [life EXCEPT ![q] = IF life[q] = "done" THEN "done" ELSE "live"]
        /\ UNCHANGED <<interruptVars, curProc, phase, aborted>>
    BY <1>2 DEF procResume
  <2>2. /\ runnable' \in Seq(Proc)
        /\ QueuedOnce'
        /\ Queued' = Queued \cup {q}
    BY <1>2, <2>1, EnterAny
  <2> USE DEF AnyInv, interruptVars
  <2>3. SchedTypeOK'
    BY <2>1, <2>2 DEF SchedTypeOK, Active, Lives, CanStep
  <2>4. StoredOnlyWhileDisabled'
    BY <2>1 DEF StoredOnlyWhileDisabled
  <2>5. Queued \subseteq Proc
    BY DEF Queued, SchedTypeOK
  <2>6. ASSUME OnePlace, life[q] \in {"created", "live"}, ~Running(q) PROVE OnePlace'
    BY <2>1, <2>2, <2>5, <2>6 DEF OnePlace, Running, SchedTypeOK
  <2>7. ASSUME Running(q) \/ life[q] = "done" PROVE ResumedOutOfPlace
    BY <1>2, <2>1, <2>7 DEF ResumedOutOfPlace, addToListLast
  <2>8. life[q] \in {"unborn", "created", "live", "done"}
    BY <1>2 DEF SchedTypeOK, Lives
  <2> QED BY <2>2, <2>3, <2>4, <2>6, <2>7, <2>8
<1> QED BY <1>1, <1>2

LEMMA KeepsNewProcess ==
    ASSUME AnyInv, NEW p \in Proc, CanStep(p), NEW q \in Proc,
           procNewFork(p, q) \/ newProcessMessage(q)
    PROVE  Keeps
<1> USE DEF AnyInv, procNewFork, newProcessMessage, interruptVars, queueVars
<1>1. SchedTypeOK'
  BY DEF SchedTypeOK, Lives
<1>2. Queued' = Queued /\ Queued \subseteq Proc /\ QueuedOnce'
  BY DEF Queued, QueuedOnce, SchedTypeOK
<1>3. ASSUME OnePlace PROVE OnePlace'
  <2>1. q \notin Queued /\ ~Running(q)
    BY <1>3 DEF OnePlace
  <2>2. \A r \in Proc : r # q => life'[r] = life[r]
    BY DEF SchedTypeOK
  <2>3. \A r \in Proc : Running(r)' = Running(r)
    BY DEF Running
  <2> QED BY <1>2, <1>3, <2>1, <2>2, <2>3 DEF OnePlace
<1>4. StoredOnlyWhileDisabled'
  BY DEF StoredOnlyWhileDisabled
<1> QED BY <1>1, <1>2, <1>3, <1>4 DEF Keeps

LEMMA KeepsSetState ==
    ASSUME AnyInv, NEW q \in Proc, NEW s \in {Active, Waiting}, setState(q, s)
    PROVE  Keeps
<1> USE DEF AnyInv, setState, interruptVars, queueVars
<1>1. SchedTypeOK'
  BY DEF SchedTypeOK
<1>2. QueuedOnce' /\ (OnePlace => OnePlace')
  BY DEF OnePlace, QueuedOnce, Queued, Running
<1>3. StoredOnlyWhileDisabled'
  BY DEF StoredOnlyWhileDisabled
<1> QED BY <1>1, <1>2, <1>3 DEF Keeps

(* A step of a process: what it does, or the resume of another.            *)
LEMMA KeepsStep ==
    ASSUME AnyInv, NEW p \in Proc, Step(p)
    PROVE  AnyInv' /\ (OnePlace => OnePlace' \/ ResumedOutOfPlace)
<1>1. CanStep(p)
  BY DEF Step
<1>2. ASSUME NEW q \in Proc, life[q] # "unborn", procResume(q)
      PROVE  AnyInv' /\ (OnePlace => OnePlace' \/ ResumedOutOfPlace)
  BY <1>1, <1>2, KeepsResume
<1>3. CASE Keeps
  BY <1>3 DEF Keeps
<1> QED BY <1>1, <1>2, <1>3, KeepsInterruptCalls, KeepsFinish, KeepsNewProcess,
           KeepsSetState DEF Step

LEMMA KeepsNext ==
    ASSUME AnyInv, [SchedNext]_schedVars
    PROVE  AnyInv' /\ (OnePlace => OnePlace' \/ ResumedOutOfPlace)
<1>1. CASE UNCHANGED schedVars
  BY <1>1 DEF AnyInv, SchedTypeOK, OnePlace, QueuedOnce, StoredOnlyWhileDisabled,
              Queued, Running, schedVars, interruptVars, queueVars, procVars
<1>2. CASE SchedNext
  BY <1>2, KeepsTick, KeepsGetNext, KeepsTimeslice, KeepsDisabling, KeepsStep
     DEF SchedNext, Keeps
<1> QED BY <1>1, <1>2

-----------------------------------------------------------------------------
(* The same for programs that resume nothing out of place, as Semaphore    *)
(* and EventQueue use it.                                                  *)
LEMMA EnterQueue ==
    ASSUME SchedInv, NEW p \in Proc, p \notin Queued,
           runnable' = addToListLast(p)
    PROVE  /\ runnable' \in Seq(Proc)
           /\ \A i, j \in DOMAIN runnable' : runnable'[i] = runnable'[j] => i = j
           /\ Queued' = Queued \cup {p}
BY EnterAny, SchedInvParts DEF QueuedOnce

LEMMA TakeFromQueue ==
    ASSUME SchedInv, getNextForRunning, runnable # <<>>
    PROVE  /\ Head(runnable) \in Queued
           /\ Queued' = Queued \ {Head(runnable)}
           /\ runnable' = Tail(runnable)
           /\ curProc' = Head(runnable)
           /\ phase' = "execute"
<1>1. Head(runnable) \in Queued /\ Queued' = Queued \ {Head(runnable)}
  BY TakesFirst, SchedInvParts
<1>2. life[Head(runnable)] # "done"
  BY <1>1 DEF SchedInv, OnePlace
<1> QED BY <1>1, <1>2 DEF getNextForRunning

LEMMA InvKept ==
    ASSUME SchedInv, AnyInv /\ OnePlace => Keeps
    PROVE  SchedInv'
<1>1. AnyInv' /\ OnePlace'
  BY SchedInvParts DEF Keeps
<1> QED BY <1>1 DEF SchedInv, AnyInv

LEMMA InvTick == SchedInv /\ timeSliceCb => SchedInv'
BY KeepsTick, InvKept

LEMMA InvGetNext == SchedInv /\ getNextForRunning => SchedInv'
BY KeepsGetNext, InvKept

LEMMA InvAbort == SchedInv /\ Abort => SchedInv'
BY KeepsAbort, InvKept

LEMMA InvTimeslice == SchedInv /\ timesliceDone => SchedInv'
BY KeepsTimeslice, InvKept

LEMMA InvDisabling == SchedInv /\ Disabling => SchedInv'
BY KeepsDisabling, InvKept

LEMMA InvInterruptCalls ==
    ASSUME SchedInv, NEW p \in Proc, CanStep(p),
           enterDisable \/ enableInterrupts \/ yield
    PROVE  SchedInv'
BY KeepsInterruptCalls, InvKept

LEMMA InvFinish ==
    ASSUME SchedInv, NEW p \in Proc, CanStep(p), finish(p)
    PROVE  SchedInv'
BY KeepsFinish, InvKept

LEMMA InvResume ==
    ASSUME SchedInv, NEW p \in Proc, CanStep(p), NEW q \in Proc,
           q # p, life[q] \in {"created", "live"}, procResume(q)
    PROVE  SchedInv'
<1>1. ~Running(q)
  BY DEF CanStep, Running
<1>2. AnyInv' /\ OnePlace'
  BY <1>1, KeepsResume, SchedInvParts
<1> QED BY <1>2 DEF SchedInv, AnyInv

LEMMA InvNewProcess ==
    ASSUME SchedInv, NEW p \in Proc, CanStep(p), NEW q \in Proc,
           procNewFork(p, q) \/ newProcessMessage(q)
    PROVE  SchedInv'
BY KeepsNewProcess, InvKept

LEMMA InvSetState ==
    ASSUME SchedInv, NEW q \in Proc, NEW s \in {Active, Waiting}, setState(q, s)
    PROVE  SchedInv'
BY KeepsSetState, InvKept

LEMMA InvStutter == SchedInv /\ UNCHANGED schedVars => SchedInv'
BY DEF SchedInv, SchedTypeOK, OnePlace, QueuedOnce, StoredOnlyWhileDisabled, Queued,
       Running, schedVars, interruptVars, queueVars, procVars

(* A slice that is over gives the processor up: the process is in one      *)
(* place only, so no assertion stands in the way.                          *)
LEMMA SliceSwitches ==
    ASSUME SchedInv, timesliceDone
    PROVE  phase' = "schedule"
BY DEF SchedInv, SchedTypeOK, OnePlace, Running, timesliceDone, requeue

(* No step of a process raises the flag while interrupts are disabled.     *)
LEMMA FlagRaisedOutside ==
    ASSUME \/ UNCHANGED schedVars \/ Abort \/ yield
           \/ enterDisable \/ disableInterrupts \/ enableInterrupts
           \/ \E p \in Proc :
                \/ finish(p) \/ procResume(p)
                \/ \E q \in Proc : procNewFork(p, q)
    PROVE  interruptsDisabled' /\ interruptFlag' => interruptsDisabled /\ interruptFlag
BY DEF schedVars, interruptVars, Abort, yield, enterDisable, disableInterrupts,
       enableInterrupts, finish, procResume, procNewFork

-----------------------------------------------------------------------------
(* What holds of any program, the resumes of any process included.         *)
THEOREM AnyProgram == SchedSpec => []AnyInv
<1>1. SchedInit => AnyInv
  BY SchedInvInit, SchedInvParts
<1>2. AnyInv /\ [SchedNext]_schedVars => AnyInv'
  BY KeepsNext
<1> QED BY <1>1, <1>2, PTL DEF SchedSpec

(* The variables keep their types, nil is never executed, and the loop of  *)
(* scheduleLoop ends only with an empty queue.                             *)
THEOREM TypeCorrect == SchedSpec => []SchedTypeOK
<1>1. AnyInv => SchedTypeOK
  BY DEF AnyInv
<1> QED BY <1>1, AnyProgram, PTL

(* No process is ever queued twice, and a process that is in one place is  *)
(* there until a program resumes the process that runs, or one that has    *)
(* finished: primProcResume checks neither, and nothing else does it.      *)
THEOREM OnePlaceAlways == SchedSpec => OnePlaceKept
<1>1. AnyInv /\ [SchedNext]_schedVars =>
        [(QueuedOnce => QueuedOnce') /\ (OnePlace => OnePlace' \/ ResumedOutOfPlace)]_schedVars
  BY KeepsNext DEF AnyInv
<1> QED BY <1>1, AnyProgram, PTL DEF SchedSpec, OnePlaceKept

(* m_otherInterruptFlag is set only while interrupts are disabled.         *)
THEOREM StoredInterrupt == SchedSpec => []StoredOnlyWhileDisabled
<1>1. AnyInv => StoredOnlyWhileDisabled
  BY DEF AnyInv
<1> QED BY <1>1, AnyProgram, PTL

-----------------------------------------------------------------------------
(* No step forgets an interrupt that was raised or stored, except the one  *)
(* that takes the processor from the running process.                      *)
LEMMA StepKeepsInterrupt ==
    ASSUME [SchedNext]_schedVars, InterruptPending
    PROVE  InterruptPending' \/ phase' \in {"schedule", "exited"}
<1> USE DEF InterruptPending
<1>1. CASE UNCHANGED schedVars
  BY <1>1 DEF schedVars, interruptVars
<1>2. CASE timeSliceCb
  BY <1>2 DEF timeSliceCb
<1>3. CASE getNextForRunning
  BY <1>3 DEF getNextForRunning, interruptVars
<1>4. CASE timesliceDone
  BY <1>4 DEF timesliceDone, requeue, Abort, interruptVars
<1>5. CASE Disabling
  BY <1>5 DEF Disabling, disableInterrupts
<1>6. ASSUME NEW p \in Proc, Step(p)
      PROVE  InterruptPending' \/ phase' \in {"schedule", "exited"}
  <2>1. CASE enterDisable
    BY <2>1 DEF enterDisable, interruptVars
  <2>2. CASE enableInterrupts
    BY <2>2 DEF enableInterrupts
  <2>3. CASE yield
    BY <2>3 DEF yield, Abort, interruptVars
  <2>4. CASE finish(p)
    BY <2>4 DEF finish
  <2>5. ASSUME NEW q \in Proc,
               \/ procResume(q) \/ procNewFork(p, q) \/ newProcessMessage(q)
               \/ \E s \in {Active, Waiting} : setState(q, s)
        PROVE  InterruptPending'
    BY <2>5 DEF procResume, procNewFork, newProcessMessage, setState, Abort,
                interruptVars
  <2> QED BY <1>6, <2>1, <2>2, <2>3, <2>4, <2>5 DEF Step
<1> QED BY <1>1, <1>2, <1>3, <1>4, <1>5, <1>6 DEF SchedNext

THEOREM InterruptKept == SchedSpec => PendingUntilSwitch
<1>1. [SchedNext]_schedVars =>
        [InterruptPending => InterruptPending' \/ phase' \in {"schedule", "exited"}]_schedVars
  BY StepKeepsInterrupt
<1> QED BY <1>1, PTL DEF SchedSpec, PendingUntilSwitch

(* Every step uses the queue as FifoQueue allows: it enters a process that *)
(* is not queued at the end, takes the first, or leaves the queue alone;   *)
(* none leaves it otherwise.                                               *)
FifoStep == (\E p \in Proc : Fifo!Enter(p)) \/ Fifo!Take \/ Fifo!TakeNone
LEMMA StepIsFifo ==
    ASSUME AnyInv, [SchedNext]_schedVars
    PROVE  [FifoStep]_(Fifo!fifoVars)
<1> USE DEF FifoStep, Fifo!fifoVars
<1>1. CASE UNCHANGED schedVars
  BY <1>1 DEF schedVars, queueVars
<1>2. CASE timeSliceCb
  BY <1>2 DEF timeSliceCb, queueVars
<1>3. CASE getNextForRunning
  BY <1>3 DEF getNextForRunning, Fifo!Take, Fifo!TakeNone
<1>4. CASE timesliceDone
  <2>1. curProc \in Proc
    BY <1>4 DEF timesliceDone, AnyInv, SchedTypeOK
  <2>2. CASE runnable' = runnable /\ curProc' = curProc
    BY <2>2
  <2>3. CASE ~(runnable' = runnable /\ curProc' = curProc)
    BY <1>4, <2>1, <2>3
       DEF timesliceDone, requeue, Abort, queueVars, addToListLast, Queued,
           Fifo!Enter, Fifo!Queued
  <2> QED BY <2>2, <2>3
<1>5. CASE Disabling
  BY <1>5 DEF Disabling, disableInterrupts
<1>6. ASSUME NEW p \in Proc, Step(p)
      PROVE  [FifoStep]_(Fifo!fifoVars)
  <2>1. CASE enterDisable \/ enableInterrupts \/ yield \/ finish(p)
    BY <2>1 DEF enterDisable, enableInterrupts, yield, finish, Abort, queueVars
  <2>2. ASSUME NEW q \in Proc, procResume(q)
        PROVE  [FifoStep]_(Fifo!fifoVars)
    <3>1. CASE q \in Queued \/ life[q] = "linked"
      BY <2>2, <3>1 DEF procResume, Abort, queueVars
    <3>2. CASE q \notin Queued /\ life[q] # "linked"
      BY <2>2, <3>2 DEF procResume, addToListLast, Queued, Fifo!Enter, Fifo!Queued
    <3> QED BY <3>1, <3>2
  <2>3. ASSUME NEW q \in Proc,
               \/ procNewFork(p, q) \/ newProcessMessage(q)
               \/ \E s \in {Active, Waiting} : setState(q, s)
        PROVE  [FifoStep]_(Fifo!fifoVars)
    BY <2>3 DEF procNewFork, newProcessMessage, setState, queueVars
  <2> QED BY <1>6, <2>1, <2>2, <2>3 DEF Step
<1> QED BY <1>1, <1>2, <1>3, <1>4, <1>5, <1>6 DEF SchedNext

THEOREM FifoOrder == SchedSpec => FirstComeFirstServed
<1>1. AnyInv /\ [SchedNext]_schedVars => [FifoStep]_(Fifo!fifoVars)
  BY StepIsFifo
<1> QED BY <1>1, AnyProgram, PTL DEF SchedSpec, FirstComeFirstServed, FifoStep

=============================================================================
