------------------------------ MODULE CodeGen ------------------------------
(***************************************************************************)
(* Code generation (the generateOn functions of AST.cc, and Generation.cc) *)
(* from a tree that has been through Synth.  The bytecode is a sequence of *)
(* bytes, an opcode being written by its name, and an operand is a byte,   *)
(* so what does not fit in one is truncated; a jump's offset, two bytes in *)
(* the code, is one number here followed by a filler.                      *)
(*                                                                         *)
(* The state of a generator:                                               *)
(*   code, lits, reg   the bytecode, the literals, the next free register  *)
(*   labels            places in the code still to be jumped to or from    *)
(*   nArgs, isBlock    as given to its constructor                         *)
(*   scope             the scope whose code it is, by number in scopes     *)
(*   mem               the object memory, where literals are made          *)
(*   ok                FALSE once an assertion of the compiler has failed  *)
(* Each operator takes a generator g and answers the generator after.      *)
(***************************************************************************)
EXTENDS Synth, ObjectMemory

CodeGenFor(mem, scopes, s, isBlock) ==
    LET nArgs == Len(scopes[s].args)
    IN  [code |-> <<>>, lits |-> <<>>,
         reg |-> nArgs + Len(scopes[s].locals) + 1,
         nArgs |-> nArgs, isBlock |-> isBlock, scope |-> s, labels |-> <<>>,
         scopes |-> scopes, mem |-> mem, ok |-> TRUE]

Gen(g, op, operands) ==
    [g EXCEPT !.code = @ \o <<op>> \o
         [i \in DOMAIN operands |-> operands[i] % 256]]

(* An instruction whose operand is the index of a new literal.             *)
GenLit(g, op, lit, operands) ==
    LET h == [g EXCEPT !.lits = Append(@, lit)]
    IN  Gen(h, op, <<Len(g.lits)>> \o operands)

GenStarTo(g, reg) == Gen(g, "Star", <<reg>>)
AllocReg(g) == [g EXCEPT !.reg = @ + 1]
GenStar(g) == GenStarTo(AllocReg(g), g.reg)

(* Jumps: generated without a target, with a label at the byte after the   *)
(* instruction, from which the offset is counted when the jump is patched. *)
(* Label i is the i-th from the last.                                      *)
Mark(g) == [g EXCEPT !.labels = Append(@, Len(g.code))]
Unmark(g, i) == [g EXCEPT !.labels = RemoveAt(@, Len(@) + 1 - i)]
Label(g, i) == g.labels[Len(g.labels) + 1 - i]
GenJump(g, op) == Mark(Gen(g, op, <<0, 0>>))
PatchJump(g, from, to) == [g EXCEPT !.code[from - 1] = Truncate(to - from, 16)]
Land(g, i) == Unmark(PatchJump(g, Label(g, i), Len(g.code)), i)
JumpBack(g, i) == Unmark(PatchJump(g, Label(g, 1), Label(g, i)), 1)

GenMessage(g, isSuper, selector, argRegs) ==
    LET m == New(g.mem, Known("Character"),
                 [Nils(CacheSlots) EXCEPT ![CacheSelector] = Symbol(selector)])
    IN  GenLit([g EXCEPT !.mem = m], IF isSuper THEN "SendSuper" ELSE "Send",
               Newest(m), <<Len(argRegs)>> \o argRegs)

-----------------------------------------------------------------------------
(* Variables.  Where a variable is to be found from g's scope: in a        *)
(* register, in the heap variables here or of the parent, in the receiver, *)
(* or by name.                                                             *)
Place(g, v) ==
    LET p == PromotedIndex(g.scopes[g.scope], v)
    IN  CASE v.kind = "inst" -> <<"NstVar", v.index>>
          [] v.kind = "heap" -> <<"MyHeapVar", v.index>>
          [] v.kind \in {"arg", "local", "parent"} /\ p # 0 ->
                <<"MyHeapVar", p>>
          [] v.kind = "parent" /\ p = 0 -> <<"ParentHeapVar", v.index>>
          [] v.kind = "arg" /\ p = 0 -> <<"reg", v.index>>
          [] v.kind = "local" /\ p = 0 -> <<"reg", g.nArgs + v.index>>
          [] OTHER -> <<"global", 0>>

GenLoad(g, v) ==
    LET p == Place(g, v)
    IN  CASE p[1] = "reg" -> Gen(g, "Ldar", <<p[2]>>)
          [] p[1] = "global" -> GenLit(g, "LdaGlobal", Symbol(v.name), <<>>)
          [] OTHER -> Gen(g, "Lda" \o p[1], <<p[2]>>)

(* An argument that is not promoted cannot be assigned, nor can one that   *)
(* is: both are taken for globals.                                         *)
GenStore(g, v) ==
    LET p == Place(g, v)
    IN  CASE v.kind = "arg" \/ p[1] = "global" ->
                GenLit(g, "StaGlobal", Symbol(v.name), <<>>)
          [] v.kind # "arg" /\ p[1] = "reg" -> GenStarTo(g, p[2])
          [] OTHER -> Gen(g, "Sta" \o p[1], <<p[2]>>)

(* generatePromoteOn for the i-th heap variable: at the start of a method  *)
(* or block, the variables that its blocks use move to its heap variables. *)
GenPromote(g, i) ==
    LET v == g.scopes[g.scope].heap[i].of
        reg == IF v.kind = "local" THEN g.nArgs + v.index ELSE v.index
    IN  IF v.kind = "parent"
        THEN Gen(g, "MoveParentHeapVarToMyHeapVars", <<v.index, i>>)
        ELSE Gen(Gen(g, "Ldar", <<reg>>), "StaMyHeapVar", <<i>>)

(* generateRestoreOn, before a block's normal return.                      *)
\* Mutation: nothing is written back.
restoreNothing(g, i) == g
GenRestore(g, i) ==
    LET v == g.scopes[g.scope].heap[i].of
    IN  IF v.kind = "parent"
        THEN Gen(g, "MoveMyHeapVarToParentHeapVars", <<i, v.index>>) ELSE g

ForEachHeapVar(Op(_, _), g) ==
    FoldLeftDomain(Op, g, g.scopes[g.scope].heap)

-----------------------------------------------------------------------------
Constants == [nil |-> "LdaNil", true |-> "LdaTrue", false |-> "LdaFalse",
              Smalltalk |-> "LdaSmalltalk", thisContext |-> "LdaThisContext",
              thisProcess |-> "LdaThisProcess"]

GenIdent(g, e) ==
    IF e.attr \in {"self", "super"} THEN Gen(g, "Ldar", <<0>>)
    ELSE IF e.attr \in DOMAIN Constants THEN Gen(g, Constants[e.attr], <<>>)
    ELSE GenLoad(g, e.note[1])

(* A string is made with a null byte at its end, floats and arrays are nil.*)
GenLiteral(g, e) ==
    LET made == IF e.tag = "str"
                THEN New(g.mem, Known("String"), Append(e.attr, 0))
                ELSE New(g.mem, Known("Character"), <<Smi(e.attr)>>)
    IN  CASE e.tag = "int" -> GenLit(g, "LdaLiteral", Smi(e.attr), <<>>)
          [] e.tag = "sym" -> GenLit(g, "LdaLiteral", Symbol(e.attr), <<>>)
          [] e.tag \in {"str", "char"} ->
                GenLit([g EXCEPT !.mem = made], "LdaLiteral", Newest(made), <<>>)
          [] OTHER -> GenLit(g, "LdaLiteral", Nil, <<>>)

RECURSIVE Generate(_, _)
GenerateAll(g, nodes) == FoldLeft(Generate, g, nodes)

(* [g, reg]: self, and a variable in a register, are used where they are;  *)
(* anything else is evaluated into a new register.                         *)
Starred(g) == [g |-> GenStar(g), reg |-> g.reg]
InPlace(g, e) ==
    /\ e.tag = "id"
    /\ e.attr \in {"self", "super"} \/
       (e.attr \notin DOMAIN Constants /\ Place(g, e.note[1])[1] = "reg")
IntoReg(g, e) ==
    IF ~InPlace(g, e) THEN Starred(Generate(g, e))
    ELSE [g |-> g, reg |-> IF e.attr \in {"self", "super"} THEN 0
                           ELSE Place(g, e.note[1])[2]]

WithReg(r, in) == [g |-> in.g, regs |-> Append(r.regs, in.reg)]
ArgsIntoRegs(g, args) ==
    FoldLeft(LAMBDA r, e : WithReg(r, IntoReg(r.g, e)),
             [g |-> g, regs |-> <<>>], args)

(* A message whose receiver is in recvReg, or still to be evaluated if     *)
(* that is -1.  It is loaded again once the arguments are there.           *)
SendLoaded(m, isSuper, reg, r) ==
    GenMessage(Gen(r.g, "Ldar", <<reg>>), isSuper, m.attr, r.regs)
SendWithArgs(m, isSuper, recv) ==
    SendLoaded(m, isSuper, recv.reg, ArgsIntoRegs(recv.g, Tail(m.kids)))
GenSend(g, m, recvReg, isSuper) ==
    IF Len(m.kids) > 1
    THEN SendWithArgs(m, isSuper, IF recvReg = -1 THEN IntoReg(g, m.kids[1])
                                  ELSE [g |-> g, reg |-> recvReg])
    ELSE GenMessage(IF recvReg = -1 THEN Generate(g, m.kids[1]) ELSE g,
                    isSuper, m.attr, <<>>)

(* Messages compiled in line.  onTrue says which value of the receiver     *)
(* leads to the code that follows the branch.                              *)
Branch(onTrue) == IF onTrue THEN "BranchIfFalse" ELSE "BranchIfTrue"
GenTest(g, m, onTrue) == GenJump(Generate(g, m.kids[1]), Branch(onTrue))

GenOneArmed(g, m, onTrue) ==
    Land(Generate(GenTest(g, m, onTrue), m.kids[2]), 1)

GenTwoArmed(g, m, onTrue) ==
    LET first == GenJump(Generate(GenTest(g, m, onTrue), m.kids[2]), "Jump")
    IN  Land(Generate(Land(first, 2), m.kids[3]), 1)

GenLoop(g, m, onTrue) ==
    LET body == GenerateAll(GenTest(Mark(g), m, onTrue), Tail(m.kids))
    IN  Unmark(Land(JumpBack(GenJump(body, "Jump"), 3), 1), 1)

GenOperator(m, recv) ==
    Gen(Generate(recv.g, m.kids[2]), "BinOp",
        <<recv.reg, BinOpIndex(m.attr) - 1>>)
GenBinOp(g, m) == GenOperator(m, IntoReg(g, m.kids[1]))

(* generateSpecialOn, which asserts that it is not in a cascade.           *)
GenSpecial(g, m) ==
    LET k == m.attr
    IN  CASE k \in {"and:", "ifTrue:", "ifFalse:"} -> GenOneArmed(g, m, k # "ifFalse:")
          [] k \in {"ifTrue:ifFalse:", "ifFalse:ifTrue:"} ->
                GenTwoArmed(g, m, k = "ifTrue:ifFalse:")
          [] k \in Loops -> GenLoop(g, m, k \in {"whileTrue", "whileTrue:"})
          [] OTHER -> GenBinOp(g, m)

GenMsg(g, m, recvReg, isSuper) ==
    IF SpecialKind(m) = "normal" THEN GenSend(g, m, recvReg, isSuper)
    ELSE [GenSpecial(g, m) EXCEPT !.ok = @ /\ recvReg = -1 /\ ~isSuper]

(* A cascade: of one message only, the receiver is evaluated twice.        *)
GenMessages(e, loaded) ==
    FoldLeft(LAMBDA g, m : GenMsg(g, m, loaded.reg, IsSuper(e.kids[1])),
             loaded.g, Tail(e.kids))
GenCascade(g, e) ==
    LET loaded == Generate(g, e.kids[1])
    IN  IF Len(e.kids) = 2
        THEN GenMsg(loaded, e.kids[2], -1, IsSuper(e.kids[1]))
        ELSE GenMessages(e, Starred(loaded))

(* Primitives, by how they are called.  The arguments go to new registers, *)
(* the last of one, two or three staying in the accumulator; those of a    *)
(* call with a count, to registers reserved before the first is evaluated. *)
(* A primitive that takes none, one, two or three is asserted to be given  *)
(* as many.                                                                *)
GenOldCall(p, r) ==
    Gen(r.g, "Primitive", <<p, Len(r.regs)>> \o r.regs)
GenCallOf2(p, e, first) ==
    Gen(Generate(first.g, e.kids[2]), "Primitive2", <<p, first.reg>>)
GenCallOf3(p, e, first) ==
    LET second == GenStarTo(Generate(AllocReg(first.g), e.kids[2]), first.reg + 1)
    IN  Gen(Generate(second, e.kids[3]), "Primitive3", <<p, first.reg>>)
GenPrimitive(g, e) ==
    LET p == PrimIndex(e.attr)
        n == Len(e.kids)
        call == PrimCall(p)
    IN  CASE call = "old" ->
                GenOldCall(p, FoldLeft(LAMBDA r, k : WithReg(r, Starred(Generate(r.g, k))),
                                       [g |-> g, regs |-> <<>>], e.kids))
          [] call = "many" ->
                Gen(FoldLeftDomain(
                        LAMBDA h, i : GenStarTo(Generate(h, e.kids[i]), g.reg + i - 1),
                        [g EXCEPT !.reg = @ + n], e.kids),
                    "PrimitiveV", <<p, n, g.reg>>)
          [] call = "0" /\ n = 0 -> Gen(g, "Primitive0", <<p>>)
          [] call = "1" /\ n = 1 -> Gen(Generate(g, e.kids[1]), "Primitive1", <<p>>)
          [] call = "2" /\ n = 2 ->
                GenCallOf2(p, e, Starred(Generate(g, e.kids[1])))
          [] call = "3" /\ n = 3 ->
                GenCallOf3(p, e, Starred(Generate(g, e.kids[1])))
          [] OTHER -> [g EXCEPT !.ok = FALSE]

(* The statements of a method or block, the last followed by end unless it *)
(* is a return, and the object that is made of the result.                 *)
EndsInReturn(node) ==
    node.kids # <<>> /\ node.kids[Len(node.kids)].tag = "return"
GenBody(g, node) == GenerateAll(ForEachHeapVar(GenPromote, g), node.kids)

CodeObject(g, mem, cls, slots) ==
    LET scope == g.scopes[g.scope]
    IN  New(mem, cls,
            [Nils(slots) EXCEPT
                ![Bytecode] = g.code, ![Literal] = g.lits,
                ![ArgumentCount] = Smi(g.nArgs),
                ![TemporarySize] = Smi(Len(scope.locals)),
                ![HeapVarsSize] = Smi(Len(scope.heap)),
                ![StackSize] = Smi(g.reg)])

GenReturnPrelude(g) == ForEachHeapVar(GenRestore, g)
GenBlockEnd(g, e) ==
    IF EndsInReturn(e) THEN g
    ELSE IF e.kids = <<>>
    THEN Gen(Gen(GenReturnPrelude(g), "LdaNil", <<>>), "Return", <<>>)
    ELSE Gen(GenReturnPrelude(g), "Return", <<>>)
BlockCopy(g, b) ==
    LET m == CodeObject(b, b.mem, Known("Block"), BlockSlots)
    IN  GenLit([g EXCEPT !.mem = m, !.ok = @ /\ b.ok], "LdaBlockCopy",
               Newest(m), <<>>)
GenBlock(g, e) ==
    BlockCopy(g, GenBlockEnd(
        GenBody(CodeGenFor(g.mem, g.scopes, e.note[1], TRUE), e), e))

GenReturn(g, e) ==
    IF g.isBlock THEN Gen(Generate(g, e), "BlockReturn", <<>>)
    ELSE IF IsSelf(e) THEN Gen(g, "ReturnSelf", <<>>)
    ELSE Gen(Generate(g, e), "Return", <<>>)

Generate(g, e) ==
    CASE e.tag \in Literals   -> GenLiteral(g, e)
      [] e.tag = "id"         -> GenIdent(g, e)
      [] e.tag = "assign"     -> GenStore(Generate(g, e.kids[2]), e.kids[1].note[1])
      [] e.tag = "msg"        -> GenMsg(g, e, -1, IsSuper(e.kids[1]))
      [] e.tag = "cascade"    -> GenCascade(g, e)
      [] e.tag = "prim"       -> GenPrimitive(g, e)
      [] e.tag = "block"      -> IF e.note = <<>> THEN GenerateAll(g, e.kids)
                                 ELSE GenBlock(g, e)
      [] e.tag = "expr"       -> Generate(g, e.kids[1])
      [] e.tag = "return"     -> GenReturn(g, e.kids[1])

(* MethodNode::generate: [mem, ok], the method being the newest object.    *)
MethodOf(g, m) ==
    LET new == CodeObject(g, g.mem, Known("Method"), MethodSlots)
    IN  [mem |-> AtPut(new, Newest(new), Selector, Symbol(m.attr.sel)), ok |-> g.ok]
GenMethodEnd(g, m) == IF EndsInReturn(m) THEN g ELSE Gen(g, "ReturnSelf", <<>>)
GenerateMethod(mem, m) ==
    MethodOf(GenMethodEnd(
        GenBody(CodeGenFor(mem, m.note[1].scopes, 1, FALSE), m), m), m)
=============================================================================
