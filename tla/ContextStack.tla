---------------------------- MODULE ContextStack ----------------------------
(***************************************************************************)
(* The stack of a Smalltalk process: contexts laid out one after the other *)
(* in the words of an array (cmd/vm/Interpreter.cc, primExecBlock of       *)
(* Primitive.cc), and the garbage collector's walk over them (mpsScan of   *)
(* ObjectMemory.cc).                                                       *)
(*                                                                         *)
(* The words of a context are, from its first: the header, which here also *)
(* stands for the fields that are set before anything can be allocated     *)
(* (isa, size, prevBP, methodOrBlock, bytecode); one word for those that   *)
(* initWithBlock sets afterwards (heapVars, parentHeapVars,                *)
(* programCounter, homeMethodBP, reg0); and the other registers.           *)
(*                                                                         *)
(* primProcNewFork runs the block, by primExecBlock, on a copy of the      *)
(* stack: from then on the child's stack is that of a process which has    *)
(* run the block itself.                                                   *)
(***************************************************************************)
EXTENDS Naturals, Sequences

CONSTANTS
    StackSize,  \* words in the stack
    Sizes       \* words of a context (fullSize), from method to method

ASSUME SizeAssumption ==
    StackSize \in Nat /\ Sizes \subseteq 3 .. StackSize - 1 /\ Sizes # {}

VARIABLES
    word,       \* what is in each word of the stack
    stale,      \* words with a reference that the collector has passed over
    bp,         \* the running context, 0 for nil
    filling,    \* the context that is being initialised, or 0
    phase,      \* what the interpreter is doing
    blocks      \* the blocks that exist

vars == <<word, stale, bp, filling, phase, blocks>>

Words == 1 .. StackSize

(* A word is zero, or a reference or number, or the header of a context,   *)
(* or the fields that are set after it.  What the header says of           *)
(* methodOrBlock is whether it is a block, and the homeMethodContext of    *)
(* that block (0 for a method); live is an annotation: the block's home    *)
(* method has not returned.                                                *)
Nil == [kind |-> "nil"]
Data == [kind |-> "data"]
Fields(home) == [kind |-> "fields", homeMethodBP |-> home]
Context(size, prev, isBlock, home, live) ==
    [kind |-> "context", size |-> size, prevBP |-> prev, isBlock |-> isBlock,
     home |-> home, live |-> live]
IsContext(w) == w.kind = "context"
HoldsReference(w) == w.kind \in {"data", "fields"}

(* The contexts of the running activations, by prevBP.                     *)
chainTo[b \in 0 .. StackSize] ==
    IF b = 0 THEN <<>>
    ELSE IF ~IsContext(word[b]) \/ word[b].prevBP >= b THEN <<b>>
    ELSE Append(chainTo[word[b].prevBP], b)
Chain == chainTo[bp]
Running == {Chain[i] : i \in DOMAIN Chain}

-----------------------------------------------------------------------------
(* mpsScan: contexts one after the other, until one without a class or the *)
(* end.  Its end is too early by the size of the array's own header, which *)
(* is less than any context has.                                           *)
walkFrom[b \in 1 .. 2 * StackSize] ==
    IF b > StackSize \/ ~IsContext(word[b]) THEN {}
    ELSE {b} \cup walkFrom[b + word[b].size]
Walk == walkFrom[1]
Extent(b) == b .. b + word[b].size - 1
Scanned == UNION {Extent(b) : b \in Walk}

(* A collection moves objects, and mends the words that it scans.          *)
mpsScan ==
    /\ phase \in {"run", "allocate"}
    /\ stale' = (stale \cup {i \in Words : HoldsReference(word[i])}) \ Scanned
    /\ UNCHANGED <<word, bp, filling, phase, blocks>>

-----------------------------------------------------------------------------
(* initWithMethod and initWithBlock, up to the allocation of the heap      *)
(* variables: the registers are annulled, and so is the word after them.   *)
\* Mutation: the registers only.
layKeepingNext(b, ctx) ==
    /\ word' = [i \in Words |-> IF i = b THEN ctx
                                ELSE IF i \in b + 2 .. b + ctx.size - 1 THEN Nil
                                ELSE word[i]]
    /\ stale' = stale \ ({b} \cup b + 2 .. b + ctx.size - 1)

lay(b, ctx) ==
    /\ word' = [i \in Words |-> IF i = b THEN ctx
                                ELSE IF i \in b + 2 .. b + ctx.size THEN Nil
                                ELSE word[i]]
    /\ stale' = stale \ ({b} \cup b + 2 .. b + ctx.size)

(* The rest of them, and the arguments.  Registers hold anything from here *)
(* on.  homeMethodBP is copied from the block; a method's is nil.          *)
Fill ==
    /\ phase \in {"fill", "allocate"}
    /\ LET rest == filling + 1 .. filling + word[filling].size - 1
       IN /\ word' = [i \in Words |->
                        IF i = filling + 1 THEN Fields(word[filling].home)
                        ELSE IF i \in rest THEN Data ELSE word[i]]
          /\ stale' = stale \ rest
    /\ bp' = filling
    /\ filling' = 0
    /\ phase' = "run"
    /\ UNCHANGED blocks

\* Mutation: one word of the caller is taken for the new context.
nextOverlapping == bp + word[bp].size - 1

(* Where the next context goes: after the running one.                     *)
nextBP == bp + word[bp].size

(* Memory after the stack is overwritten: nothing is known from then on.   *)
Overrun ==
    /\ phase' = "overrun"
    /\ UNCHANGED <<word, stale, bp, filling, blocks>>

(* newContext and initWithMethod, for a send or a binary operation.  Only  *)
(* the beginning of the new context is compared with the stack's size.     *)
newContext(size, heapVars) ==
    /\ phase = "run"
    /\ IF nextBP > StackSize
         THEN /\ phase' = "abort"
              /\ UNCHANGED <<word, stale, bp, filling, blocks>>
       ELSE IF nextBP + size > StackSize
         THEN Overrun
         ELSE /\ lay(nextBP, Context(size, bp, FALSE, 0, FALSE))
              /\ filling' = nextBP
              /\ phase' = IF heapVars THEN "allocate" ELSE "fill"
              /\ UNCHANGED <<bp, blocks>>

(* execBlock is used in methods that make no blocks, such as Block>>value. *)
MayBeValue(b) ==
    /\ ~word[b].isBlock
    /\ \A block \in blocks : block.live => block.home # b

\* Mutation: the abolished context of value loses its class.
execClearing(block, size, heapVars) ==
    /\ phase = "run"
    /\ MayBeValue(bp)
    /\ IF nextBP + size > StackSize
         THEN Overrun
         ELSE LET ctx == Context(size, word[bp].prevBP, TRUE, block.home, block.live)
              IN /\ word' = [i \in Words |->
                               IF i = nextBP THEN ctx
                               ELSE IF i = bp \/ i \in nextBP + 2 .. nextBP + size
                                 THEN Nil
                               ELSE word[i]]
                 /\ stale' = stale \ ({nextBP} \cup nextBP + 2 .. nextBP + size)
                 /\ bp' = nextBP
                 /\ filling' = nextBP
                 /\ phase' = IF heapVars THEN "allocate" ELSE "fill"
                 /\ UNCHANGED blocks

(* primExecBlock and initWithBlock.  The running context is that of        *)
(* Block>>value or the like, which the block replaces as its caller's      *)
(* callee.  The size of the stack is not tested.                           *)
execBlock(block, size, heapVars) ==
    /\ phase = "run"
    /\ MayBeValue(bp)
    /\ IF nextBP + size > StackSize
         THEN Overrun
         ELSE /\ lay(nextBP, Context(size, word[bp].prevBP, TRUE,
                                     block.home, block.live))
              /\ bp' = nextBP
              /\ filling' = nextBP
              /\ phase' = IF heapVars THEN "allocate" ELSE "fill"
              /\ UNCHANGED blocks

(* LdaBlockCopy: the home of a block in a block is that of the outer one,  *)
(* as it stands in the running context.                                    *)
ldaBlockCopy ==
    /\ phase = "run"
    /\ blocks' = blocks \cup
         {IF word[bp].isBlock
            THEN [home |-> word[bp + 1].homeMethodBP, live |-> word[bp].live]
            ELSE [home |-> bp, live |-> TRUE]}
    /\ UNCHANGED <<word, stale, bp, filling, phase>>

-----------------------------------------------------------------------------
(* The contexts in ended have returned; the process goes on in prev.       *)
resumeCaller(prev, ended) ==
    /\ bp' = prev
    /\ phase' = IF prev = 0 THEN "end" ELSE "run"
    /\ blocks' = {[b EXCEPT !.live = b.live /\ b.home \notin ended] : b \in blocks}
    /\ UNCHANGED filling

opReturn ==
    /\ phase = "run"
    /\ resumeCaller(word[bp].prevBP, {bp})
    /\ UNCHANGED <<word, stale>>

(* Methods only: in a block, ^ self is a block return.                     *)
opReturnSelf ==
    /\ phase = "run"
    /\ ~word[bp].isBlock
    /\ word' = [word EXCEPT ![bp] = Nil]
    /\ resumeCaller(word[bp].prevBP, {bp})
    /\ UNCHANGED stale

\* Mutation: the process goes on in the home, not in its caller.
blockReturnToHome ==
    /\ phase = "run"
    /\ word[bp].isBlock
    /\ word[bp].live
    /\ LET home == word[bp].home
       IN /\ UNCHANGED word
          /\ resumeCaller(home, {b \in Running : b >= home})
    /\ UNCHANGED stale

(* The home is the block's own homeMethodContext, not the context's copy.  *)
(* Nothing tests that the home still runs: if it does not, whatever lies   *)
(* at its place now is taken for a context, and nothing is known any more. *)
blockReturn ==
    /\ phase = "run"
    /\ word[bp].isBlock
    /\ IF word[bp].live
         THEN LET home == word[bp].home
              IN /\ word' = [word EXCEPT ![home] = Nil]
                 /\ resumeCaller(word[home].prevBP, {b \in Running : b >= home})
         ELSE phase' = "wild" /\ UNCHANGED <<word, bp, filling, blocks>>
    /\ UNCHANGED stale

-----------------------------------------------------------------------------
(* A new process: the first context at the bottom of a stack of zeroes.    *)
Init ==
    /\ \E size \in Sizes :
         word = [i \in Words |->
                   IF i = 1 THEN Context(size, 0, FALSE, 0, FALSE)
                   ELSE IF i = 2 THEN Fields(0)
                   ELSE IF i \in 3 .. size THEN Data ELSE Nil]
    /\ stale = {}
    /\ bp = 1
    /\ filling = 0
    /\ phase = "run"
    /\ blocks = {}

Next ==
    \/ \E size \in Sizes, heapVars \in BOOLEAN :
         \/ newContext(size, heapVars)
         \/ \E block \in blocks : execBlock(block, size, heapVars)
    \/ Fill \/ mpsScan
    \/ ldaBlockCopy
    \/ opReturn \/ opReturnSelf \/ blockReturn

Spec == Init /\ [][Next]_vars

-----------------------------------------------------------------------------
Unknown == phase \in {"overrun", "wild"}

(* The running contexts and the one being initialised lie one above the    *)
(* other, and none has been damaged by the initialisation of another: each *)
(* caller is a whole context when it is returned to.                       *)
ContextsApart ==
    ~Unknown => \A b \in Running \cup ({filling} \ {0}) :
        /\ IsContext(word[b])
        /\ b + word[b].size <= StackSize
        /\ LET prev == word[b].prevBP
           IN prev # 0 => prev \in Running /\ prev + word[prev].size <= b

(* The collector's walk visits every running context and the one being     *)
(* initialised: contexts that have returned do not lead it astray, nor cut *)
(* it short.                                                               *)
ScanReachesRunning ==
    ~Unknown => Running \cup ({filling} \ {0}) \subseteq Walk

(* The walk ends at an annulled word or at the end of the stack, never     *)
(* amid the registers of an older context.                                 *)
WalkEndsAtNil ==
    ~Unknown => \A b \in Walk :
        LET next == b + word[b].size
        IN next \in Words => IsContext(word[next]) \/ word[next] = Nil

(* Interpreter.cc:25-27 says of the annulled word: "to ensure that we      *)
(* don't mistakenly scan it.  We are careful to zero before we set isa,    *)
(* which makes this object eligible for scanning".  So the walk never      *)
(* scans a reference that an earlier collection has passed over.           *)
NothingStaleScanned == phase \in {"run", "allocate"} => Scanned \cap stale = {}

(* Whatever the layout, the process sees the activations of a programmer's *)
(* model: returns go to the caller, and a ^ in a block ends the method in  *)
(* which it was written, and no other.                                     *)
indexOf(b) == IF b \in Running THEN CHOOSE i \in DOMAIN Chain : Chain[i] = b ELSE 0
Abstract == INSTANCE CallStack WITH
    calls <- [i \in DOMAIN Chain |->
                IF word[Chain[i]].live THEN indexOf(word[Chain[i]].home)
                                       ELSE 0]
ImplementsCallStack == Abstract!Spec

=============================================================================
