# A TLA+ model of Valutron

Valutron is a Smalltalk system: a virtual machine in C++ (`cmd/vm`: compiler,
register-machine interpreter, scheduler, object memory) and a class library in Smalltalk
(`lib/system`). This directory holds TLA+ modules that model parts of it, TLC
configurations that check them on small instances, and proofs that TLAPS checks for
instances of any size. Paths and line numbers below are those of the repository;
`PROJECT.json` maps every definition to its lines.

Contents: [inventory](#1-inventory) · [modules](#2-modules-and-the-code) ·
[runs](#3-runs-and-bounds) · [findings](#4-where-code-and-documents-disagree) ·
[fairness](#5-fairness) · [proofs](#6-proofs) ·
[limits](#7-what-is-not-modelled-and-why) · [plan](#8-plan)

## 1. Inventory

### Threads of control

A `CPUThreadPair` (`CPUThread.hh`, `Scheduling.cc`) is two native threads. The
*interpreter thread* runs `scheduleLoop`: it takes Smalltalk processes from a run queue
and calls `execute` for each. The *event loop thread* runs libev; a timer raises
`m_interruptFlag` every 0.1 s. Smalltalk processes are green threads: they switch only
when the interpreter looks at the flag (`TESTCOUNTER`, `Interpreter.cc`), at the start
of sends, primitives, binary operations, branches and returns, or when their last frame
returns. Smalltalk code excludes the other processes by `disableInterrupts` /
`enableInterrupts`, and everything in `Kernel-Processes` is built on that.

### Components

| Component | State | Operations | What makes it correct |
|---|---|---|---|
| Run queue (`Scheduling.cc` 11-90, `Objects.hh` `SchedulerOopDesc`, `ProcessOopDesc`) | `runnable`, `link` of each process, `curProc` | `addProcToRunnables`, `suspendProcess`, `getNextForRunning` | The intrusive list stays acyclic, holds no stale link, and is a FIFO queue of distinct processes |
| Scheduling loop and virtual interrupts (`Scheduling.cc` 93-288, process primitives of `Primitive.cc`, `TESTCOUNTER`) | three interrupt flags, current process, each process' `state` | `scheduleLoop`, `timeSliceCb`, `interrupt`, `yield`, `disableInterrupts`, `enableInterrupts`, fork, resume, `Process>>state:` | A process is in one place, unless a program resumes one that runs or has ended; a raised interrupt is delivered; everyone gets a turn |
| The two threads (`Scheduling.cc` 93-210, 240-288) | `m_evLock`, timer, waker, `m_wantExit` | start and stop of the timer, exit and join, libev's release and acquire callbacks | The loop is touched under the lock only; time slices come while processes execute; both threads end |
| Semaphore (`Semaphore.st`, `Scheduler.st`, `Process.st`) | `count`, `waiters` | `wait`, `signal`, `critical:`, `tryAcquire:` | Mutual exclusion, FIFO hand-over, no lost wake-up, no starvation |
| EventQueue (`EventQueue.st`) | events, `waiter` | `wait`, `receiveEvent:`, `getEvent` | A process that waits sleeps only while nothing is ready, and an event wakes it |
| Process creation (`Primitive.cc` fork and newProcessMessage, `Objects.cc`) | the new process' stack and state | fork, new message process, resume | The child runs its block once and ends |
| Interpreter (`Interpreter.cc`) | the stack of contexts of a process, `bp`, `sp`, `pc`, the accumulator | `newContext`, `initWithMethod`, `initWithBlock`, returns, every instruction, the end of a time slice | Frames nest; a return finds a live frame; a process goes on where its slice ended; compiled code computes what its source means |
| Method lookup and inline caches (`Interpreter.cc` 190-220) | method dictionaries, caches at send sites | `lookupMethod`, `lookupCached` | A cached answer is the one a full lookup gives |
| Dictionaries and symbols (`Objects.cc`) | hashed arrays of pairs | `insert`, `findPairByFun`, `symbolLookup`, `fromString` | What was inserted is found, once; symbols are unique |
| Object memory (`ObjectMemory*`) | allocation points, roots | allocation, stack scan | No half-initialised object is reachable; every live reference is scanned |
| Class set-up (`Objects.cc`, `ObjectMemory.cc`, `Synth.cc`) | namespaces, superclass and metaclass links, layouts | `findOrCreateClass`, `setupClass`, `setSuperClass`, ... | Every class and method is found where the program declares it, on both sides |
| Integer and other primitives (`Primitive.cc`, `Oops.hh`) | none | arithmetic, comparison, bit, array, string and file primitives | The result is the mathematical one or the primitive fails |
| Compiler (`Parser.y`, `Scanner.l`, `AST.*`, `Synth.cc`, `Generation.*`, `Bytecode.cc`) | scopes, code buffer, literal table | parsing, variable placement, code generation, jump patching | Each variable access reaches the variable's home; jumps land where they should |
| Type checker (`Typecheck.*`, `TypeFlow.cc`) | types that are shared objects, environments, reports | registration, subtyping, invocation, inference, narrowing | It accepts and rejects what the declarations mean; what it accepts does not go wrong, unless it said that it allowed something falsely |
| Smalltalk class library (`lib/system`) | lists, dictionaries, numbers, text | collection and arithmetic classes | Sequential data-structure laws |
| Old scheduler and VM classes (`OldScheduler.st`, `Waitable.st`, `VM.st`) | - | - | The first two are included by no `dir.st`; the methods of the third print or answer `fixMe` |
| Front end and tools (`Main.cc`, `tools/`) | - | option handling; vendored lemon and win_flex | - |

### How they interact

* Smalltalk reaches the scheduler by primitives (`Processor`, `Process>>resume`,
  `disableInterrupts` ...). A primitive that changes the run queue works on the queue of
  the thread's `SchedulerOopDesc`.
* `wait` sets the process' state to 3 and yields; `scheduleLoop` then finds the state
  when `execute` has returned and leaves the process out of the queue. The agreement
  between the two is by this number alone. The documents are not of one mind about it:
  `Process.st:8` describes 2 as done and 3 and more as waiting, the enumeration in
  `Objects.hh` has `kWaiting` = 2 and `kDone` = 3, and `scheduleLoop` tests for 3 (the
  models follow the test).
* `signal` sends `receiveEvent:` to the first waiter. A waiter is a process, which is
  activated and resumed, or an `EventQueue`, which stores the event and may wake the
  process that waits for it.
* The event loop's thread reaches the interpreter through `m_interruptFlag` only; the
  interpreter reaches the loop through the timer, the waker and `m_wantExit`, under
  `m_evLock`.

### What is hard here

Preemption at any interrupt point of Smalltalk code that takes no locks; the window
between `TESTCOUNTER` and the atomic exchange in `disableInterrupts`; an interrupt
stored for later; a process that is signalled before it has gone to sleep; nested
`critical:` sections over one global flag; wake-ups that libev merges; and, outside
concurrency, the copied stack of fork, returns to frames that are gone, caches that
outlive the method they hold, and the width of small integers. `PROJECT.json` lists
these at their lines, each with the properties that would break.

Compilation is a sequence of passes over one tree (`Main.cc:31-35`): register the names
of classes, synthesise (link classes, resolve identifiers), check the types, generate
code, start the first process. Nothing here is concurrent, but each pass leaves
annotations or objects on which a later one relies. In particular three representations
of a variable (its scope, the heap variables of that scope, the copies in blocks
between) have to be one variable when the code runs.

## 2. Modules and the code

```
FifoQueue  <---implements---  RunQueue
    ^
    | FirstComeFirstServed
Scheduling  <--EXTENDS--  Semaphore  <--EXTENDS--  EventQueue
                              |
FifoSemaphore <--implements---+               EventLoop

CallStack  <---implements---  ContextStack

Primitives <- Ast <- Synth ----+-> CodeGen -+
      ^                        |            +-> Program <- ProgramRight <- MCProgram
      +---- ObjectMemory ------+-> Machine -+      |         |   |
                                      ^            |         |  Semantics (reference)
                                      +------ Lookup <-------+
                                                   |
              Ast <- Types <--- INSTANCE ----------+             |
                       ^                                         |
                  TypeChecker <-------------------------------- MCTypes
                                    Subtyping (reference) --------+
```

In the lower half an arrow `A <- B` says that B extends or instantiates A. Primitives,
ObjectMemory, Machine and Lookup contain no RECURSIVE operator, so that they can be
reasoned about.

**RunQueue.** State: `runnable` (the head), `link` and `curProc`, as in the C++ objects.
The walk of a list is the function `nth`; `Chain` is the list it finds. Each operation
is an action; its assertions set `aborted`, after which nothing happens.
`suspendProcess` is called with a process of the list only, as its declaration demands;
it would dereference nil otherwise.

**FifoQueue.** The abstract queue: enter at the end, take the first, remove one;
entering a process twice stops the machine. `RunQueue` is checked and proved to implement
it with `queue <- Chain`, so `Scheduling` may use a sequence.

**Scheduling.** The interpreter thread under *any* Smalltalk program: a running process
may, at each step, disable or enable interrupts, yield, end, fork, create, resume any
process that exists, itself and those that have ended included, or write any process'
state. A step is what happens from one
`TESTCOUNTER` to the next. `phase` says where the interpreter is: in `schedule` it is
about to take a process, in `execute` it interprets, `disabling` is the window inside
the `disableInterrupts` primitive before its atomic exchange, `exited` is the end of
`scheduleLoop`, and `wild` is what follows when a process that has ended is executed: it
has no context, and nothing is claimed of it. `interruptFlag`, `otherInterruptFlag` and `interruptsDisabled` are the
three `m_` fields. `life` is bookkeeping of the model: which processes exist, which
have returned from their last frame, and which were copied with a link in them (fork
copies the running process, and one that is queued as well may have one: to resume the
copy fails the assertion that it is not in the queue). The timer may raise the flag at any moment; the
constant `TickWhileDisabled` says whether it may also do so while interrupts are
disabled. It is TRUE, as in the code, in every run but `EventQueueLost`, whose fault needs
no such tick, and the proofs hold for both values.

**Semaphore.** Processes that repeat `sem critical: [...]`, fork, yield and end, one
action per interrupt point of `Semaphore.st`. `count <- count - 1` is two steps, with
the value read kept in `reg`. It extends Scheduling, so preemption, stored interrupts
and the run queue are those of the machine and not an abstraction of it. `waiters`, a
`List`, is a sequence. Each label of `pc` names the next interrupt point; prefix `w_` is
`wait`, `s_` is `signal`. The code allows a tick to end a time slice with interrupts
disabled (finding 1), and what the semaphore promises is lost then: the history variable
`cut` records that this has happened, and the properties of Semaphore and EventQueue are
claimed until then. Only a tick that came with interrupts disabled counts, which `ticked`
records: one that came before, in the window that the exchange in `disableInterrupts`
closes, is no excuse.

**FifoSemaphore.** What a user of a semaphore expects: permits, holders and a line; a
release with a line is a hand-over to its head. Semaphore implements it with `freeBar`,
`holdersBar`, `blockedBar`: a waiter joins the line when it stores the count, and a
signal hands over when it stores the count.

**EventQueue.** One event queue with one semaphore as its source, as `doStuff1` in
`dir.st` sets them up, added to the processes of Semaphore. `e_` labels are
`receiveEvent:` with its nested `critical:`, `t_` are `tryAcquire:`, `v_` and `c_`, `d_`
the rest of `wait`. `back` is the return address of `receiveEvent:`. Events are counted,
not distinguished.

**EventLoop.** The interpreter thread and the event loop thread over the mutex, the
timer, the waker and the exit flag. The libev side (`loopRelease`, `PollEnds`,
`loopAcquire`, the order of timer and wake callbacks) is modelled from how the code
configures libev; what the interpreter executes is reduced to clearing the flag at the
end of a slice.

**ContextStack.** The stack of one process, word by word, with every operation that
makes or ends a context: sends (`newContext`, `lay`, `Fill`), `execBlock`, `opReturn`,
`opReturnSelf`, `blockReturn`, and the collector's walk `mpsScan`. A word is nil, data,
or the header of a context, which stands for the fields set before `initWithMethod` or
`initWithBlock` may allocate the heap variables; the fields set after that, a block's
`homeMethodBP` among them, are one more word, so that a collection can come between the
two. A non-local return reads the home in the block, as the code does; `ldaBlockCopy`
reads it in that word. Contexts that have returned stay in the words until
others are laid over them, at other offsets: that is what makes the walk interesting.
`stale` are the words that a collection has passed over. The annotation `live` of a
block says that its home method has not returned. Two things that the code does not
guard against lead to phases in which nothing is claimed: `overrun` (a context that
begins inside the stack and ends outside) and `wild` (a non-local return to a home that
is gone).

**CallStack.** The same seen by a programmer: a sequence of activations, each with the
index of the one that a `^` in it would end. ContextStack implements it.

**Primitives, Ast, ObjectMemory.** The data of the compiler and the machine. Primitives
has the table of primitives and the arithmetic at the width of a small integer, bitwise
operations included, bit by bit. Ast has the nodes, each with a tag, its attributes, its
children and a note that a pass may leave. ObjectMemory has objects as slots, hashed dictionaries as the code lays them out
(a table of buckets with chains), namespaces, `findOrCreateClass`, `setSuperClass`,
`lookupMethod`. A lookup of a method walks the function `Lineage`, a class and its
superclasses, to the first that has a method of its own (`Own`) or is a top.

**Synth.** `Synth.cc` for code: each identifier becomes a variable; one that a block
uses from outside is promoted to the heap variables of its scope, and of every block
between.

**CodeGen.** `generateOn` of every node and `Generation.cc`: registers, literals, labels
and the patching of jumps, the inlined conditionals and loops. The bytecode is laid out
as in the machine, operands are bytes and truncate like them.

**Machine.** One action for each instruction that the compiler can generate, with
effects in the order of `execute`; `TimesliceDone` at every polling instruction,
`Execute` at the start of the next slice. The instructions `And`, `Move` and their like
that no generator emits are left out.

A primitive is two operators, `PrimMemory` for what it stores or makes and `PrimValue`
for what it answers.

**Lookup.** What the machine's inline caches should hold (`CachesCoherent`), how classes
and their dictionaries of methods lie in the memory (`ClassesLaid`, and `Placed` while
the machine runs), and the `Disciplined` programs, which store into no class, no
dictionary of methods and no cache. `basicAt:put:` and `class:` could, and then a cache
would go on answering what was true when it was filled: nothing empties one.

**Program.** `main`: the passes, one action each, then the machine. The types are
checked by `Types`, as in the code, and an exception there ends the program.

**Semantics** is not a translation. It is an evaluator of trees that knows of no
registers, heap variables, dictionaries or caches, and says what a program should
answer. **ProgramRight** states what must hold of code and machine whatever is computed.

**Types, TypeChecker.** `Typecheck.cc` with the sharing of its objects: a type is a
number into a sequence, so inference that overwrites one is seen by all who share it.
Memory that the checker reads after it was freed, or before it was written, is a choice:
the checker goes on as if it held what it did, or the outcome is `wild`. **Subtyping**
is the reference: what the declarations of types mean, without state.

Definitions marked `\* Mutation:` next to an action are plausible bugs in it. They are
used only to see that each property notices one; no specification refers to them.

## 3. Runs and bounds

| Run | Question | Bounds | States |
|---|---|---|---|
| `RunQueue` | Is the intrusive list a FIFO queue, and never cyclic or stale? | 4 processes: head, last and two inner elements are distinct | 645 |
| `Scheduling` | One place per process as long as the program lets it, no interrupt lost, FIFO order and turns, under any program | 3 processes, ticks at any time | 85 468 |
| `Semaphore` | Mutual exclusion, no lost wake-up, no starvation, refinement of FifoSemaphore | 3 processes, 1 permit: a holder and a line of two; ticks at any time, up to the first cut | 35 978 |
| `SemaphoreTicks` | The same critical section with the timer as it is | same, beyond the first cut | violated |
| `EventQueue` | Do nesting, count, waiters and sleepers stay consistent, and do events wake? | 3 processes, `MaxCount` = 2; ticks at any time, up to the first cut | 136 444 |
| `EventQueueLost` | Can a process sleep with an event in its queue? | same, no ticks while disabled | violated |
| `EventLoop` | Locking, no tick after stop, time slices, termination | none needed: finite | 230 |
| `ContextStack` | Do contexts laid over each other's remains behave as a call stack, and does the collector find them? | 14 words, contexts of 3 and 4 | 2 613 760 |
| `ContextStackStale` | Is a context clean before it can be scanned? | same | violated |
| `Program` | Do compiled programs, preempted anywhere, do what they mean? Is code well formed, lookup right, are caches coherent? | 679 programs; words of 8 bits with 3 tag bits; 3, 2 and 2 buckets | 55 638 |
| `ProgramRestore` | Is an assignment made two blocks in seen by the method? | 3 programs | violated |
| `Types` | Does the checker answer what the repository's tests, the declarations and the programs themselves say? | 1580 programs | 14 195 |

Deadlock is not an error in these models: the machine really stops, when no process is
runnable or the last context has returned, after a failed assertion, when both threads
have ended, or when a program is done. No symmetry is used, as the runs check liveness.

Why the bounds are enough. In RunQueue an operation touches the head, the last element
and the two neighbours of the removed one, so four processes show every case. In
Scheduling three processes are one that runs, one that is queued and one that is acted
upon (forked, resumed, activated), while any of them may have ended; the same holds for the safety properties of
`Semaphore`, whose invariants moreover are proved for any number. A line of two tells
FIFO from LIFO. `MaxCount` limits EventQueue only because the event process signals a
semaphore that it may not hold, so the count would grow; two is one more than the
semaphore is made with. In ContextStack fourteen words are four contexts, which is a
caller, a home method, the context of `value` and a block or a nested block above it;
two sizes make the remains of older contexts lie at all offsets against the new ones.

In Program a small integer has 5 bits, so that the programs reach both ends of its range
(-16 and 15), the shift amounts and the middle. Two or three buckets make every
dictionary collide, so that chains of three are read and extended; 53, 20 and 5 in the
code would not. The programs are products of parts: every operator on operands around
the limits; two statements out of nine that share variables with blocks in every way,
between a declaration and a use; every inlined control message with arms that answer,
assign, return or declare; loops nested and left by a return; methods of three classes
inherited, overridden, sent to `super` from methods and from blocks, and to classes,
through one send site; instance variables of a chain of three classes,
declared in each of the six orders; namespaces. A slice may end
at every polling instruction, any number of times. In Types the products are all
assignments between 20 types (generic chains of three with parameters fixed, passed on
and swapped, unions), an inherited message to each collection at each of six types, 1100
small programs which are also run by Semantics, and some that end in an exception. Among
the 1100 are methods that promise `self` and answer it, or answer another instance. They
have no blocks, and nothing in them is declared to be of type `id`.

## 4. Where code and documents disagree

1. **Interrupts while disabled.** `CPUThread.hh:76-80` says that an interrupt raised
   while interrupts are disabled is stored. `interrupt()` does so; `timeSliceCb` writes
   the flag directly, so a time slice that ends inside a `critical:` section preempts
   it. Run `SemaphoreTicks` shows two processes between `disableInterrupts` and
   `enableInterrupts` of one semaphore. All other properties of Semaphore and EventQueue
   therefore hold until such a tick first ends a time slice (`cut`), and say
   that nothing else breaks them. Sections are some dozen instructions of a slice of
   0.1 s, so this is rare; nothing in the code prevents it.
2. **`EventQueue>>wait` tests, then sleeps.** The list of events is tested with
   interrupts enabled; an event that arrives between the test and the sleep does not
   wake the process. Run `EventQueueLost`.
3. **A context is scanned before it is clean.** `Interpreter.cc:25-29` says that the
   words are zeroed before `isa` makes them eligible for scanning. Four of a method's and
   five of a block's are not, and the heap variables are allocated next; run `ContextStackStale` shows a collection
   there that meets a reference an earlier one passed over.
4. **Parents' data.** `AST.cc:261-264` says that restoring implements the mutation of
   parents' data. A block between the variable's method and the block that assigns it
   works on a copy, written back when it ends: run `ProgramRestore` has a block that
   outlives the one between, whose assignment the method never sees.

More observations have no run of their own.

*Processes.* `newContext` compares with the size of the stack where a context begins and
not where it ends, and `primExecBlock` does not compare at all. A `^` in a block whose
method has returned takes what it finds at the method's old place for a context. A
forked child returns from its block into a copy of the context of `fork`, and goes on
with its parent's code. Events left over by 2 make a later `wait` return without
acquiring its source, and the `signal` that follows raises the count above its initial
value. When a source is ready at once, `wait` sends `alreadyGot` to nil, which no class
defines. `scheduleLoop` announces that all processes have finished when none is
runnable, including when some still wait. And `Objects.hh:402-404` has
`getNextForRunning` move the process to the end of the queue; it removes it, and
`scheduleLoop` enters it again. `primProcResume` does not ask who is resumed: a process
that resumes itself is queued while it runs, so that the assertion fails when its slice
ends, and one that has ended is queued and executed with nil for a context.
`OnePlaceKept` states this exception and that there is no other.

*Compiled code.* The following programs have no defined meaning in Semantics, because
the code and the language differ and no document of the repository decides: an operand
that is a variable is read after later operands are evaluated (`x + (x := 5)`); an empty
inlined block yields its receiver; assigning to an argument aborts; in a cascade a unary
message after the first goes to the result of the previous one, an inlined selector
fails an assertion, and a cascade of one message evaluates its receiver twice; an
argument of an inlined selector that is not a block is taken for its value; locals of an
inlined block are not reset per iteration, and two that declare the same local abort;
operands beyond a byte and offsets beyond two truncate. A class declared before its
superclass is laid out without the variables that the latter inherits, since it takes the
chain of superclasses as it is linked so far (`Synth.cc:376`); no such program gets past
the type checker, which does not find the superclass, so code is generated for complete
classes only (`LookupRight`, over all orders of three declarations). `A:B` found through
`Super` is resolved wrongly, and a class in a namespace cannot be named in code at all. Results beyond a
small integer wrap without a report: the primitives compare with a limit of the word
(`Primitive.cc:510`, marked FIXME), where `Integer.st:10` says that they return nil.
`quo:` and `rem:` by zero answer nil and then fail to find a method. Dictionaries
compare keys by identity when they insert and by hash code when they find, and a hash
code is 24 bits made of a counter of objects, the first of which to coincide are those of
the 1275th and the 4035th object; of two symbols with one code in one bucket only the
first entered would be found. In the model codes are distinct.

*Types.* An instance is accepted where `self` or `instancetype` is wanted, and with a
type variable, whatever it is; the checker prints "Falsely allowing" (`Typecheck.cc:280`,
296-312) and reports nothing. With `(self) me [ ^A new ]`, `B new me k` is accepted and
not understood. `TypesSound` therefore claims nothing of a program of which that was
said, unless its methods do answer themselves. Block types vary in the wrong direction (`Typecheck.cc:256`). The argument of a
block holds a reference into a vector that grows (1206-1216). A nested block that is
typed twice reads a return type that was never written (1212); both are choices of the
model. Locals of a block are never declared, so using one throws. Narrowing a variable
that has no type yet lasts beyond the branch; narrowing a union or an unrelated type
throws. Instance variables declared two classes up are not substituted. A superclass
that is declared later, or named by a path, ends the checker. The tests under `src/test`
lack two classes that the checker demands, so they throw as they stand; the models of
them have the classes.

## 5. Fairness

* *Scheduling.* Weak fairness of the scheduling loop and of the instruction inside the
  window `disabling`: the interpreter thread does not stop. Strong fairness of the timer
  while a process executes: it repeats every 0.1 s until it is stopped, and the window
  is a few machine instructions. No process is assumed to do anything, so `RoundRobin`
  holds for a process that loops with interrupts disabled, which is possible because the
  timer ignores the disabled state.
* *Semaphore, EventQueue.* In addition each process takes a step again if it may again
  and again, and is sometimes given a fresh slice that has not already ended:
  `interruptFlag` is cleared after each `execute`, and a tick in the few instructions
  between that and the next process cannot fall there every time. Critical blocks are
  taken to end.
* *EventLoop.* Both threads run (weak), and a thread that waits for the mutex gets it if
  it is free again and again (strong): the loop holds it for an instant of each 0.1 s.
  That processes ever finish is not assumed.

* *Program.* The passes end. The process gets another slice whenever one has ended
  (weak), and of infinitely many slices some last beyond one polling instruction: 0.1 s
  is many instructions, and without this a program could be preempted at one instruction
  for ever.
* *ContextStack, RunQueue, Types* make safety claims only.

## 6. Proofs

Eight modules named `..._proofs` are checked by TLAPS without exception. Together they
prove every safety property and every refinement that the runs check of the run queue,
the scheduler, the semaphore, the event queue, the two threads and the stack of
contexts; and, of the machine, what its arithmetic, its dictionaries, its lookup of
methods and its inline caches promise. They hold for every value of the constants that
the `ASSUME`s of the modules allow: any finite set of processes (Scheduling does not need
it finite), any positive number of permits, any size of the stack and any set of sizes of
contexts, any width of the word, any number of classes, methods and buckets. The
invariants below were checked by TLC on the instances of the runs before they were
proved.

| Module | Theorems (and the property each states) | Assumes besides |
|---|---|---|
| `Scheduling_proofs` | `TypeCorrect`, `OnePlaceAlways`, `StoredInterrupt`, `InterruptKept` (`PendingUntilSwitch`), `FifoOrder` (`FirstComeFirstServed`) | - |
| `RunQueue_proofs` | `QueueInvariant`, `WalksTerminate` (`WalkTerminates`), `NoLinkLeftBehind` (`OutsideUnlinked`), `ListIsFifo` (`ImplementsFifo`) | - |
| `Semaphore_proofs` | `KernelSection` (`KernelExclusive`), `SectionsExclude` (`MutualExclusion`), `NothingAborts` (`NoAbort`), `NoWakeupLost` (`NoLostWakeup`), `SemaphoreIsFifo` (`ImplementsSemaphore`) | - |
| `EventQueue_proofs` | `EventQueueInvariant`, `EventKernelSection` (`EvKernelExclusive`), `CountTellsWaiters` (`WaitersMatchCount`), `SleepersCanBeReached` (`SleepersInReach`) | - |
| `EventLoop_proofs` | `LockedAlways` (`LoopLocked`), `NoLateTick` (`NoTickAfterStop`) | - |
| `ContextStack_proofs` | `StackInvariant`, `RunningContextsApart` (`ContextsApart`), `ScanVisitsRunning` (`ScanReachesRunning`), `WalkStopsAtNil` (`WalkEndsAtNil`), `StackIsCalls` (`ImplementsCallStack`) | - |
| `Primitives_proofs` | `ArithmeticExact`, `SumsNeverFail`, `ComparisonsRight`, `DivisionRight` | two tag bits or more for the first, three for the second |
| `Lookup_proofs` | `TableRemembers`, `MethodsAddedAreFound`, `CachesStayCoherent` (`CachesCoherent`), `SendsRunWhatIsFound` | distinct hash codes for the first two, the discipline for the others |

Nothing is assumed of the timer: it may raise the flag at any moment. The theorems about
Semaphore and EventQueue are of the form that a property holds unless `cut` is TRUE, and
`cut` becomes TRUE only in the step that ends a time slice because of a tick that came
with interrupts disabled (finding 1 is what may follow it). That a slice ends with
interrupts disabled for no other reason is part of the proofs: a flag that is up then was
raised by such a tick (`TickSeen`), because `disableInterrupts` takes an earlier one away
and no step of a process raises it (`FlagRaisedOutside`).

**Scheduling.** What holds under every program is `AnyInv`: `SchedTypeOK`,
`StoredOnlyWhileDisabled` and the absence of duplicates in the queue. `OnePlace` says in
addition that only live processes are queued or run, and that the running one is not
queued. A program breaks it by resuming the process that runs, or one that has ended, and
`OnePlaceAlways` proves that there is no other way: from a state with `OnePlace` every
step keeps it or is such a resume. `SchedInv` is `OnePlace` with the other parts;
Semaphore and EventQueue, whose programs never resume so, preserve it. The type part
carries that a process which executes is not nil, and the abort in `requeue` and
`procResume` is what keeps the queue free of duplicates: the proof shows that no other
path to the queue exists.

**RunQueue.** The links of the processes are a heap, and the walk over them a function,
`nth`, of which nothing can be said before it is known to exist. `IsList(q)` says that a
sequence q of distinct processes is what the heap holds: the head is its first element,
each link leads to the next, the last is nil, and no process outside q has a link.
`WalkFindsList` shows that the walk over such a heap exists and finds exactly q; distinct
processes are no more than there are processes (`ShortEnough`), so the walk meets nil.
The invariant `QueueInv` is that `Chain` is such a list. `LinksAppended` and
`LinksRemoved` say what the writes of `addProcToRunnables`, `suspendProcess` and
`getNextForRunning` make of a list. This is the step that lets `Scheduling` use a
sequence: the linked list never shows but as the FIFO queue.

**Semaphore.** None of the four properties is inductive. The invariant is `TickSeen` and
(`cut` or `SemInv`): every step from a state with `SemInv` leads to another or ends a slice inside a
section. `SemInv` adds, and needs all of:

* `KernelHeld`: interrupts are disabled exactly while the running process is inside the
  critical code. Nothing else can step then, but by a tick and the end of the slice, which
  sets `cut`. This makes the rest sequential.
* `WaitersDistinct`, `WaitersParked`, `WaitingListed`: a process in the list is live,
  not queued, and between adding itself and its yield; beyond the label `w_state` its
  state is 3, so a preemption does not queue it; and a process with state 3 is in the
  list or being activated.
* `SignalKnows`: the process a signal is about to wake has left the list, is not queued
  and does not run, so resuming it cannot fail.
* `CountMatches`: the count against the length of the list, at every step of `wait` and
  `signal`, with the register that holds the old value.
* `PermitsKept`: the permit holders, plus a positive count, plus the permit on its way
  through a signal, are `Permits`. `MutualExclusion` follows since the processes in the
  section are holders.

One lemma per action proves that it is preserved; `OutsideStep` and `KernelStep` state
once what steps outside and inside the critical code have in common.

The refinement needs no further invariant. `BarsMatch`, a consequence of `SemInv`, gives
the mapped variables at each point of the code: between the store of a `wait` and its
add, the line is the list with the process appended; from the store of a `signal` to the
removal, it is the list without its head, and the head holds a permit. So the store of
the count is the abstract step (acquire or block, release or hand over, by its sign), and
the change of the list that follows does not show. `ImplementsSemaphore` says this of all
steps up to the one that sets `cut`.

**EventQueue.** Here too the invariant is `TickSeen` and (`cut` or `EvInv`). `EvInv` has
parts like those of `SemInv`, over a list that holds processes and the event queue itself, with the labels of `receiveEvent:`. Two things are
new. A nested `critical:` ends by enabling interrupts while the outer one is still open;
`EvHeld` says that interrupts are disabled in every step that touches what is shared, up
to where the inner section begins, and that from its end on only labels follow that
touch nothing. And a process may sleep for two reasons, so what keeps a sleeper in reach
says where it is known: in the list of waiters, as `waiter` of the event queue, or in the
hands of a process that activates it, which may be preempted in between.

**EventLoop.** The invariant `LoopInv` is `TypeOK` and `LoopLocked`, with two facts that
neither implies: the second thread has not begun while the interpreter has still to
create it (`CreatedFirst`; otherwise the creation could move a thread that holds the
lock), and the timer is off from `StopTimer` on (`StoppedForGood`; `timeSliceCb` finds it
so, whatever elapsed during its poll).

**ContextStack.** The chain of contexts and the collector's walk are recursive functions
of the words. Each is shown to exist for every contents (`ChainExists`, `WalkExists`, by
a least counterexample), and then to be the only set that is closed in the way it is
closed (`IsChain`, `IsWalk`); after that no recursion is left, and a step is proved by
giving the set it leads to. The invariant `StackInv`: contexts that run or are being
filled lie one above the other with room for each (`LaidApart`); a block that may yet
return knows a home that runs, below it (`HomesKnown`); and the walk visits them all and
meets, after each context it visits, another one or nil (`WalkWhole`). The last part is
what depends on the annulled word after a new context (`LaidOut`), and on the walk's
being cut where a context that returned is annulled (`Returned`). `HomesCopied` says that
the word of a filled context holds its block's home: a block made inside a block takes the
home from there.

The refinement adds `MethodsEndThemselves`: only blocks have a home to return from, and
what is being filled above the running context is a method. It works as for RunQueue:
`IsStack` says that a sequence of contexts is linked by `prevBP`, `IsCalls` that a
sequence of indices gives their homes, and each has one solution (`StackIsChain`,
`CallsAreBar`). A call shows when the new context becomes the running one (`FillCalls`),
a block's when it replaces the context of `value` (`ExecBlockRuns`); everything that
returns cuts the sequence (`ReturnedTo`); collections and the filling of a block's
context do not show. In the phases `overrun` and `wild` the machine takes no step, so the
theorem claims nothing of them either.

**Primitives.** Each primitive is a formula over two integers; the lemmas say what
truncation to a width does (`TruncateInRange`) and that the code's comparison with the
limit of a *word* lets pass all that a small integer can hold (`BoundedPasses`). From
these `ArithmeticExact` follows: what fits is exact. With three tag bits, as in the code,
the limit is so far off that no sum ever meets it, so `SumsNeverFail`: one that does not
fit wraps around and is answered. Run `Program` checks the same at a width of five bits
(`ResultRight`); the theorem says that it is so at every width. Shifts and bitwise
operations are defined by recursive functions over the bits and are only model-checked.

**Lookup.** `TableRemembers` says of dictionaries what the code's comments take for
granted, with two ways of comparing keys: `insert` compares symbols, `findPairByFun` their
hash codes. It needs distinct codes and nothing else, not even that a key occurs once.
`Lineage` is a recursive function of the memory and is shown to exist (`LineageExists`);
what a lookup finds is then what the first class of the lineage has that has anything
(`LookupEnds`). `MethodsAddedAreFound` describes the whole effect of `addMethod`: the
method is found from exactly the classes whose lookup reaches the class it was added to,
without an override on the way (`Reaches`), every other answer stays, and the classes are
laid out as before, so that the theorem applies to the next method again. Its hypothesis
`ClassesLaid` holds when code is about to be generated in every program of the run
(`LookupRight`).

The caches. The invariant `CacheInv` adds to `CachesCoherent` that the classes and
dictionaries, numbered `K` and `D`, are closed (superclasses and dictionaries lead to
others of them), that every lineage ends, that every object is an instance of one of them
and that a filled cache was filled for one. Each action of the machine is shown to leave
what lookups read as it was, or to fill one cache with what a lookup finds
(`HarmlessKeeps`, `SendStep`). The theorem supposes the discipline in every state
(`[]Disciplined`). Without it the property is false, since `basicAt:put:` may write into a
class; run `Program` checks that each of its programs keeps it (`LookupRight`), from the
moment the machine starts, and that `Placed` holds there.

**Model-checked only.**

* The liveness properties (`RoundRobin`, `StarvationFree`, `EventWakes`, `Timeslicing`,
  `Ends`, `Terminates`): TLAPS does not reason about fairness. Those of Semaphore and
  EventQueue, too, hold until a slice first ends inside a section.
* `ResultRight`, `NoAbort`, `CodeWellFormed`, `ResumesAtInstructions` and `LookupRight` of
  `Program`, and all properties of `Types`. The compiler and the type checker walk trees
  with RECURSIVE operators, which the provers cannot expand, and what they do for every
  program would need an induction over trees. `LookupRight` compares with what the
  declarations say, which is such a walk; its part about the memory is
  `MethodsAddedAreFound`.
* The four runs that show a violation, which are counterexamples.

## 7. What is not modelled, and why

* Scanner and grammar: the programs are trees. Printing of trees, code and reports.
* Floats, strings beyond what copying and indexing need, files, and the debugging
  primitives: values and output that no property is about.
* Garbage collection in Program: objects are never moved there. What the collector's
  walk sees is ContextStack; the allocation points are a protocol of MPS.
* In the type checker: block types with parameters of their own, namespaces (they are
  flattened), and class methods, whose bodies the code does not check either. Bounds of
  type parameters: the grammar builds them (`Parser.y:566-573`) and nobody resolves them,
  so `isSubtypeOf` follows a type that is still an identifier; with a bounded variable on
  the right it ends in `abort()`, and with one on the left it never returns, since it asks
  the same of the variable again. The programs of the run declare none.
* Several processes in Program: the machine runs the first one. The composition with the
  scheduler is by the polling instructions, which are the steps of Scheduling.
* In the models of processes, a child is a process like the others; what fork copies is
  in ContextStack only, where a child's stack is that of a process which has run the
  block itself.
* The memory model. `m_interruptFlag` is a volatile written by one thread and read by
  the other, with atomic operations in some places; it is modelled as an atomic.
* libev and MPS, libraries outside the repository; the former is modelled from its use.
* Text and collections of the class library: sequential code in which a model would only
  repeat the program.
* `tools/lemon`, vendored.

## 8. Plan

Done: RunQueue and FifoQueue, Scheduling, Semaphore and FifoSemaphore, EventQueue,
EventLoop, ContextStack and CallStack; the compiler and the machine (Primitives to
Program); the type checker; the proofs of all safety properties and refinements outside
the compiler, the machine and the type checker; the proofs about arithmetic,
dictionaries, the lookup of methods and the caches.

To do, in order:

1. The jump and literal bookkeeping of the code generator without RECURSIVE operators, so
   that what patching promises can be proved; the links that `setupClass` makes likewise.
2. EventQueue with several sources, and the count that grows past its start.
3. A program of two processes on the machine, composed with Scheduling.
