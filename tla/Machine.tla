------------------------------ MODULE Machine ------------------------------
(***************************************************************************)
(* The interpreter (execute in Interpreter.cc) running the bytecode of one *)
(* process: an action for every instruction, in the order of its effects,  *)
(* and the end of the time slice, which an instruction that polls the      *)
(* interrupt flag may find due.  pc and ac are execute's own; SPILL saves  *)
(* them in the context and in the process, and what is not saved is lost   *)
(* when the slice ends.                                                    *)
(*                                                                         *)
(* Contexts are numbered by their order on the stack; how many words each  *)
(* has, and what becomes of them once they are abandoned, is the subject   *)
(* of ContextStack.  A context here is                                     *)
(*   [code, regs, heapVars, parentHeapVars, home, pc, prev, live]          *)
(* where code is its method or block and home the context of a block's     *)
(* method, 0 for a method.                                                 *)
(***************************************************************************)
EXTENDS ObjectMemory

VARIABLES
    mem,    \* the objects
    stack,  \* the contexts, from the first
    bp,     \* the running context, 0 for nil
    acc,    \* the process's accumulator
    pc,     \* execute's program counter: bytes executed or skipped
    ac,     \* execute's accumulator
    source, \* the program: which one, and its tree until code is generated
    phase   \* what the program is doing: "running", "sliced", "done" or
            \* "aborted" while the machine has it

vars == <<mem, stack, bp, acc, pc, ac, source, phase>>

Ctx == stack[bp]
Code == At(mem, Ctx.code, Bytecode)
Lit(i) == At(mem, Ctx.code, Literal)[i + 1]
Reg(i) == Ctx.regs[i]
Operand(i) == Code[pc + 1 + i]

Executes(op) == phase = "running" /\ Code[pc + 1] = op

Abort == phase' = "aborted" /\ UNCHANGED <<mem, stack, bp, acc, pc, ac, source>>

Spilled(next) == [stack EXCEPT ![bp].pc = next]

-----------------------------------------------------------------------------
(* Instructions that load the accumulator, store it, or copy.              *)
Load(op, n, v) ==
    /\ Executes(op)
    /\ ac' = v
    /\ pc' = pc + 1 + n
    /\ UNCHANGED <<mem, stack, bp, acc, source, phase>>

Store(op, n, m) ==
    /\ Executes(op)
    /\ mem' = m
    /\ pc' = pc + 1 + n
    /\ UNCHANGED <<stack, bp, acc, ac, source, phase>>

ThisProcess == Oop(CHOOSE i \in DOMAIN mem : mem[i].isa = Known("Process"))

opLdaNil == Load("LdaNil", 0, Nil)
opLdaTrue == Load("LdaTrue", 0, True)
opLdaFalse == Load("LdaFalse", 0, False)
opLdaThisProcess == Load("LdaThisProcess", 0, ThisProcess)
opLdaSmalltalk == Load("LdaSmalltalk", 0, Smalltalk)
opLdaParentHeapVar ==
    Load("LdaParentHeapVar", 1, At(mem, Ctx.parentHeapVars, Operand(1)))
opLdaMyHeapVar == Load("LdaMyHeapVar", 1, At(mem, Ctx.heapVars, Operand(1)))
opLdaGlobal ==
    Load("LdaGlobal", 1, SymbolLookup(mem, Globals, Lit(Operand(1))[2]))
opLdaNstVar == Load("LdaNstVar", 1, At(mem, Reg(0), Operand(1)))
opLdaLiteral == Load("LdaLiteral", 1, Lit(Operand(1)))
opLdar == Load("Ldar", 1, Reg(Operand(1)))

opMoveParentHeapVarToMyHeapVars ==
    Store("MoveParentHeapVarToMyHeapVars", 2,
          AtPut(mem, Ctx.heapVars, Operand(2),
                At(mem, Ctx.parentHeapVars, Operand(1))))
opMoveMyHeapVarToParentHeapVars ==
    Store("MoveMyHeapVarToParentHeapVars", 2,
          AtPut(mem, Ctx.parentHeapVars, Operand(2),
                At(mem, Ctx.heapVars, Operand(1))))
opStaNstVar == Store("StaNstVar", 1, AtPut(mem, Reg(0), Operand(1), ac))
opStaParentHeapVar ==
    Store("StaParentHeapVar", 1,
          AtPut(mem, Ctx.parentHeapVars, Operand(1), ac))
opStaMyHeapVar ==
    Store("StaMyHeapVar", 1, AtPut(mem, Ctx.heapVars, Operand(1), ac))

opStaGlobal == Executes("StaGlobal") /\ Abort

opStar ==
    /\ Executes("Star")
    /\ stack' = [stack EXCEPT ![bp].regs[Operand(1)] = ac]
    /\ pc' = pc + 2
    /\ UNCHANGED <<mem, bp, acc, ac, source, phase>>

opLdaThisContext ==
    /\ Executes("LdaThisContext")
    /\ mem' = New(mem, Known("StackFrame"), <<ThisProcess, Smi(bp)>>)
    /\ ac' = Newest(mem')
    /\ pc' = pc + 1
    /\ UNCHANGED <<stack, bp, acc, source, phase>>

(* A copy of the block in the literals, tied to the running context.       *)
opLdaBlockCopy ==
    LET template == mem[Lit(Operand(1))[2]]
        home == IF Ctx.home # 0 THEN Ctx.home ELSE bp
    IN  /\ Executes("LdaBlockCopy")
        /\ mem' = New(mem, template.isa,
                      [template.slots EXCEPT ![ParentHeapVars] = Ctx.heapVars,
                                             ![Receiver] = Reg(0),
                                             ![HomeContext] = Smi(home)])
        /\ ac' = Newest(mem')
        /\ pc' = pc + 2
        /\ UNCHANGED <<stack, bp, acc, source, phase>>

-----------------------------------------------------------------------------
(* Jumps.                                                                  *)
opJump ==
    /\ Executes("Jump")
    /\ pc' = pc + 3 + Operand(1)
    /\ UNCHANGED <<mem, stack, bp, acc, ac, source, phase>>

BranchIf(op, v) ==
    /\ Executes(op)
    /\ IF ac \notin {True, False} THEN Abort
       ELSE /\ pc' = pc + 3 + (IF ac = v THEN Operand(1) ELSE 0)
            /\ UNCHANGED <<mem, stack, bp, acc, ac, source, phase>>
opBranchIfFalse == BranchIf("BranchIfFalse", False)
opBranchIfTrue == BranchIf("BranchIfTrue", True)

-----------------------------------------------------------------------------
(* Activations.  A new context is begun after the running one, over what   *)
(* was there, and the machine goes on at its start.                        *)
Context(code, receiver, args, heapVars, parentHeapVars, home, prev) ==
    [code |-> code,
     regs |-> [i \in 0 .. At(mem, code, StackSize)[2] - 1 |->
                  IF i = 0 THEN receiver
                  ELSE IF i <= Len(args) THEN args[i] ELSE Nil],
     heapVars |-> heapVars, parentHeapVars |-> parentHeapVars,
     home |-> home, pc |-> 0, prev |-> prev, live |-> TRUE]

(* The memory with the heap variables that the code needs, and those.      *)
WithHeapVars(m, code) ==
    IF At(m, code, HeapVarsSize) = Smi(0) THEN [mem |-> m, heapVars |-> Nil]
    ELSE LET n == New(m, Known("Array"), Nils(At(m, code, HeapVarsSize)[2]))
         IN  [mem |-> n, heapVars |-> Newest(n)]

(* Entering a method from a memory m, the caller to go on at next; the     *)
(* accumulator, by then v, is spilled with it.                             *)
\* Mutation: the caller goes on at the send once more.
enterAgain(m, method, receiver, args, next, v) ==
    LET h == WithHeapVars(m, method)
    IN  /\ mem' = h.mem
        /\ stack' = Append(SubSeq(Spilled(pc), 1, bp),
                           Context(method, receiver, args, h.heapVars, Nil,
                                   0, bp))
        /\ bp' = bp + 1
        /\ ac' = v
        /\ acc' = v
        /\ pc' = 0
        /\ UNCHANGED <<source, phase>>

Enter(m, method, receiver, args, next, v) ==
    LET h == WithHeapVars(m, method)
    IN  /\ mem' = h.mem
        /\ stack' = Append(SubSeq(Spilled(next), 1, bp),
                           Context(method, receiver, args, h.heapVars, Nil,
                                   0, bp))
        /\ bp' = bp + 1
        /\ ac' = v
        /\ acc' = v
        /\ pc' = 0
        /\ UNCHANGED <<source, phase>>

FindMethod(cls, selector) ==
    IF cls = Nil THEN Nil ELSE LookupMethod(mem, cls, selector)

opBinOp ==
    LET op == Operand(2) + 1
        x == Reg(Operand(1))
        v == SmiPrimitive(op, x, ac)
        method == FindMethod(ClassOf(mem, x), BinOps[op])
    IN  /\ Executes("BinOp")
        /\ IF v # Nil
           THEN /\ ac' = v
                /\ pc' = pc + 3
                /\ UNCHANGED <<mem, stack, bp, acc, source, phase>>
           ELSE IF method = Nil THEN Abort
           ELSE Enter(mem, method, x, <<ac>>, pc + 3, Nil)

(* lookupCached: the cache of a send remembers the method of one class.    *)
CacheHit(cache, cls) ==
    /\ At(mem, cache, CacheMethod) # Nil
    /\ At(mem, cache, CacheClass) = cls
    /\ At(mem, cache, CacheVersion) = Smi(5)
\* Mutation: the receiver's class is remembered for a message to super too.
cachedForReceiver(cache, cls, method) ==
    [mem EXCEPT ![cache[2]].slots =
        [@ EXCEPT ![CacheMethod] = method, ![CacheClass] = ClassOf(mem, ac),
                  ![CacheVersion] = Smi(5)]]
Cached(cache, cls, method) ==
    [mem EXCEPT ![cache[2]].slots =
        [@ EXCEPT ![CacheMethod] = method, ![CacheClass] = cls,
                  ![CacheVersion] = Smi(5)]]

SendTo(cls) ==
    LET cache == Lit(Operand(1))
        n == Operand(2)
        args == [i \in 1 .. n |-> Reg(Operand(2 + i))]
        method == FindMethod(cls, At(mem, cache, CacheSelector)[2])
    IN  IF CacheHit(cache, cls)
        THEN Enter(mem, At(mem, cache, CacheMethod), ac, args, pc + 3 + n, ac)
        ELSE IF method = Nil THEN Abort
        ELSE Enter(Cached(cache, cls, method), method, ac, args, pc + 3 + n, ac)

(* The class whose method is running, or made the block that is.           *)
ClassOfMethod ==
    At(mem, IF Ctx.home = 0 THEN Ctx.code ELSE stack[Ctx.home].code,
       MethodClass)

opSend == Executes("Send") /\ SendTo(ClassOf(mem, ac))
opSendSuper ==
    Executes("SendSuper") /\ SendTo(At(mem, ClassOfMethod, SuperClass))

-----------------------------------------------------------------------------
(* Primitives that answer a value: what they make of the memory, which     *)
(* most leave as it is, and the value.  Bytes up to the first null are     *)
(* those of a string.                                                      *)
StringOf(bytes) == SubSeq(bytes, 1, SelectInSeq(bytes, LAMBDA b : b = 0) - 1)
Least(a, b) == IF a <= b THEN a ELSE b

CopyFromTo(bytes, from, to) ==
    LET string == StringOf(bytes)
        asked == to + 1 - from
    IN  IF from < 1 \/ from > Len(string) \/ asked < 1 THEN <<>>
        ELSE SubSeq(string, from, Least(Len(string), from + asked - 1))

InBounds(o, i) ==
    ~IsSmi(o) /\ IsSmi(i) /\ 1 <= i[2] /\ i[2] <= Len(mem[o[2]].slots)

PrimMemory(name, a) ==
    LET bytes(o) == mem[o[2]].slots
    IN  CASE name = "classOfPut" -> SetClass(mem, a[1], a[2])
          [] name = "basicAtPut" /\ InBounds(a[1], a[2]) ->
                AtPut(mem, a[1], a[2][2], a[3])
          [] name = "byteAtPut" -> AtPut(mem, a[1], a[2][2], a[3][2] % 256)
          [] name = "stringCat" ->
                New(mem, Known("String"),
                    StringOf(bytes(a[1])) \o StringOf(bytes(a[2])) \o <<0>>)
          [] name = "copyFromTo" ->
                New(mem, Known("String"),
                    CopyFromTo(bytes(a[1]), a[2][2], a[3][2]) \o <<0>>)
          [] name = "symbolAssign" -> SymbolInsert(mem, Globals, a[1][2], a[2])
          [] name = "newOops" /\ IsSmi(a[1]) -> New(mem, Nil, Nils(a[1][2]))
          [] name = "newBytes" /\ IsSmi(a[1]) ->
                New(mem, Nil, [i \in 1 .. a[1][2] |-> 0])
          [] OTHER -> mem

PrimValue(p, a) ==
    LET name == PrimName(p)
        slots(o) == mem[o[2]].slots
    IN  CASE p <= 13             -> SmiPrimitive(p, a[1], a[2])
          [] name = "smiBitShift" -> BitShift(a[1], a[2])
          [] name = "class"      -> ClassOf(mem, a[1])
          [] name = "size"       -> Smi(IF IsSmi(a[1]) THEN 0 ELSE Len(slots(a[1])))
          [] name = "oopEq"      -> Truth(a[1] = a[2])
          [] name = "basicAt"    -> IF InBounds(a[1], a[2])
                                    THEN slots(a[1])[a[2][2]] ELSE Nil
          [] name = "byteAt"     -> Smi(slots(a[1])[a[2][2]])
          [] name = "stringSize" -> Smi(Len(StringOf(slots(a[1]))))
          [] name = "basicAtPut" -> IF InBounds(a[1], a[2]) THEN a[1] ELSE Nil
          [] name \in {"classOfPut", "byteAtPut", "symbolAssign"} -> a[1]
          [] name \in {"stringCat", "copyFromTo"} -> Newest(PrimMemory(name, a))
          [] name \in {"newOops", "newBytes"} ->
                IF IsSmi(a[1]) THEN Newest(PrimMemory(name, a)) ELSE Nil
          [] name \in {"disableInterrupts", "enableInterrupts"} -> Nil

CallPrimitive(op, n, args) ==
    LET p == Operand(1)
    IN  /\ Executes(op)
        /\ IF PrimName(p) = "fatal" THEN Abort
           ELSE /\ mem' = PrimMemory(PrimName(p), args)
                /\ ac' = PrimValue(p, args)
                /\ acc' = ac
                /\ pc' = pc + 1 + n
                /\ stack' = Spilled(pc')
                /\ UNCHANGED <<bp, source, phase>>

opPrimitive ==
    CallPrimitive("Primitive", 2 + Operand(2),
                  [i \in 1 .. Operand(2) |-> Reg(Operand(2 + i))])
opPrimitive0 == CallPrimitive("Primitive0", 1, <<>>)
opPrimitive1 == CallPrimitive("Primitive1", 1, <<ac>>)
opPrimitive2 == CallPrimitive("Primitive2", 2, <<Reg(Operand(2)), ac>>)
opPrimitive3 ==
    CallPrimitive("Primitive3", 2,
                  <<Reg(Operand(2)), Reg(Operand(2) + 1), ac>>)

(* primExecBlock, the only one of its kind: the block returns to where the *)
(* method that runs it would.                                              *)
opPrimitiveV ==
    LET block == Reg(Operand(3))
        args == [i \in 1 .. Operand(2) - 1 |-> Reg(Operand(3) + i)]
        h == WithHeapVars(mem, block)
    IN  /\ Executes("PrimitiveV")
        /\ mem' = h.mem
        /\ stack' = Append(SubSeq(Spilled(pc + 4), 1, bp),
                           Context(block, At(mem, block, Receiver), args,
                                   h.heapVars, At(mem, block, ParentHeapVars),
                                   At(mem, block, HomeContext)[2], Ctx.prev))
        /\ bp' = bp + 1
        /\ acc' = ac
        /\ ac' = Nil
        /\ pc' = 0
        /\ UNCHANGED <<source, phase>>

-----------------------------------------------------------------------------
(* Returns.  Where there is no previous context the process has finished.  *)
ReturnTo(prev, v) ==
    /\ bp' = prev
    /\ ac' = v
    /\ IF prev = 0 THEN acc' = v /\ phase' = "done" /\ UNCHANGED pc
                   ELSE pc' = stack[prev].pc /\ UNCHANGED <<acc, phase>>
    /\ UNCHANGED <<mem, source>>

opReturn == Executes("Return") /\ ReturnTo(Ctx.prev, ac) /\ UNCHANGED stack
opReturnSelf ==
    /\ Executes("ReturnSelf")
    /\ ReturnTo(Ctx.prev, Reg(0))
    /\ stack' = [stack EXCEPT ![bp].live = FALSE]

(* From a block, to where its home method would; the contexts in between   *)
(* are left as they are.  The home context is taken to be there still.     *)
opBlockReturn ==
    LET home == At(mem, Ctx.code, HomeContext)[2]
    IN  /\ Executes("BlockReturn")
        /\ bp' = stack[home].prev
        /\ acc' = ac
        /\ stack' = [Spilled(pc + 1) EXCEPT ![home].live = FALSE]
        /\ IF bp' = 0 THEN phase' = "done" /\ UNCHANGED pc
                      ELSE pc' = stack[bp'].pc /\ UNCHANGED phase
        /\ UNCHANGED <<mem, ac, source>>

-----------------------------------------------------------------------------
(* The end of a time slice, at the instructions that poll; and execute's   *)
(* start, in the next.                                                     *)
Polling == {"BranchIfFalse", "BranchIfTrue", "BinOp", "Send", "SendSuper",
            "Primitive", "Primitive0", "Primitive1", "Primitive2",
            "Primitive3", "PrimitiveV", "Return", "ReturnSelf", "BlockReturn"}

\* Mutation: the program counter is not taken back to the instruction.
sliceAfterOpcode ==
    /\ phase = "running"
    /\ Code[pc + 1] \in Polling
    /\ stack' = Spilled(pc + 1)
    /\ acc' = ac
    /\ phase' = "sliced"
    /\ pc' = 0
    /\ ac' = Nil
    /\ UNCHANGED <<mem, bp, source>>

TimesliceDone ==
    /\ phase = "running"
    /\ Code[pc + 1] \in Polling
    /\ stack' = Spilled(pc)
    /\ acc' = ac
    /\ phase' = "sliced"
    /\ pc' = 0
    /\ ac' = Nil
    /\ UNCHANGED <<mem, bp, source>>

Execute ==
    /\ phase = "sliced"
    /\ pc' = Ctx.pc
    /\ ac' = acc
    /\ phase' = "running"
    /\ UNCHANGED <<mem, stack, bp, acc, source>>

Instruction ==
    \/ opLdaNil \/ opLdaTrue \/ opLdaFalse \/ opLdaThisContext
    \/ opLdaThisProcess \/ opLdaSmalltalk \/ opLdaParentHeapVar
    \/ opLdaMyHeapVar \/ opLdaGlobal \/ opLdaNstVar \/ opLdaLiteral
    \/ opLdaBlockCopy \/ opLdar \/ opStaNstVar \/ opStaGlobal
    \/ opStaParentHeapVar \/ opStaMyHeapVar \/ opStar
    \/ opMoveParentHeapVarToMyHeapVars \/ opMoveMyHeapVarToParentHeapVars
    \/ opJump \/ opBranchIfFalse \/ opBranchIfTrue
    \/ opBinOp \/ opSend \/ opSendSuper
    \/ opPrimitive \/ opPrimitive0 \/ opPrimitive1 \/ opPrimitive2
    \/ opPrimitive3 \/ opPrimitiveV
    \/ opReturn \/ opReturnSelf \/ opBlockReturn
=============================================================================
