---------------------------- MODULE ProgramRight ----------------------------
(***************************************************************************)
(* What makes compiled programs right, whatever they compute: their code   *)
(* is well formed, the machine only ever stops between instructions, the   *)
(* lookup of names and methods finds what is declared, and the caches of   *)
(* sends agree with it.                                                    *)
(***************************************************************************)
EXTENDS Program, Lookup

Sem == INSTANCE Semantics

(* How many bytes follow the opcode at i.                                  *)
OperandsAt(code, i) ==
    LET op == code[i]
    IN  CASE op \in {"LdaNil", "LdaTrue", "LdaFalse", "LdaThisContext",
                     "LdaThisProcess", "LdaSmalltalk", "Return", "ReturnSelf",
                     "BlockReturn"} -> 0
          [] op \in {"MoveParentHeapVarToMyHeapVars", "BinOp", "Jump",
                     "MoveMyHeapVarToParentHeapVars", "BranchIfFalse",
                     "BranchIfTrue", "Primitive2", "Primitive3"} -> 2
          [] op = "PrimitiveV" -> 3
          [] op \in {"Send", "SendSuper", "Primitive"} -> 2 + code[i + 2]
          [] OTHER -> 1

(* Where instructions begin, and where the last one ends.                  *)
RECURSIVE StartsFrom(_, _)
StartsFrom(code, i) ==
    IF i > Len(code) THEN {i}
    ELSE {i} \cup StartsFrom(code, i + 1 + OperandsAt(code, i))

RegistersAt(code, i) ==
    LET op == code[i]
    IN  CASE op \in {"Ldar", "Star", "BinOp"} -> {code[i + 1]}
          [] op \in {"Send", "SendSuper", "Primitive"} ->
                {code[i + 2 + k] : k \in 1 .. code[i + 2]}
          [] op = "Primitive2" -> {code[i + 2]}
          [] op = "Primitive3" -> {code[i + 2], code[i + 2] + 1}
          [] op = "PrimitiveV" -> code[i + 3] .. code[i + 3] + code[i + 2] - 1
          [] OTHER -> {}

HeapVarsAt(code, i) ==
    CASE code[i] \in {"LdaMyHeapVar", "StaMyHeapVar",
                      "MoveMyHeapVarToParentHeapVars"} -> {code[i + 1]}
      [] code[i] = "MoveParentHeapVarToMyHeapVars" -> {code[i + 2]}
      [] OTHER -> {}
ParentHeapVarsAt(code, i) ==
    CASE code[i] \in {"LdaParentHeapVar", "StaParentHeapVar",
                      "MoveParentHeapVarToMyHeapVars"} -> {code[i + 1]}
      [] code[i] = "MoveMyHeapVarToParentHeapVars" -> {code[i + 2]}
      [] OTHER -> {}

(* The literal that the instruction at i names is of the kind it needs.    *)
LiteralFits(lits, code, i) ==
    LET needs == code[i] \in {"LdaGlobal", "LdaLiteral", "LdaBlockCopy", "Send",
                              "SendSuper"}
        lit == lits[code[i + 1] + 1]
    IN  needs => /\ code[i + 1] < Len(lits)
                 /\ CASE code[i] = "LdaGlobal" -> lit[1] = "sym"
                      [] code[i] = "LdaBlockCopy" -> ClassOf(mem, lit) = Known("Block")
                      [] code[i] \in {"Send", "SendSuper"} ->
                            Len(mem[lit[2]].slots) = CacheSlots
                      [] OTHER -> TRUE

(* A method, or a block within code that has so many heap variables, in a  *)
(* class with so many instance variables.                                  *)
RECURSIVE CodeFits(_, _, _)
CodeFits(o, parentHeapVars, ivars) ==
    LET code == At(mem, o, Bytecode)
        lits == At(mem, o, Literal)
        heapVars == At(mem, o, HeapVarsSize)[2]
        starts == StartsFrom(code, 1) \ {Len(code) + 1}
        last == CHOOSE i \in starts : \A j \in starts : j <= i
    IN  /\ Len(code) + 1 \in StartsFrom(code, 1)
        /\ code[last] \in {"Return", "ReturnSelf", "BlockReturn"}
        /\ \A i \in starts :
              /\ RegistersAt(code, i) \subseteq 0 .. At(mem, o, StackSize)[2] - 1
              /\ HeapVarsAt(code, i) \subseteq 1 .. heapVars
              /\ ParentHeapVarsAt(code, i) \subseteq 1 .. parentHeapVars
              /\ code[i] \in {"LdaNstVar", "StaNstVar"} => code[i + 1] \in 1 .. ivars
              /\ code[i] \in {"Jump", "BranchIfFalse", "BranchIfTrue"} =>
                    i + 3 + code[i + 1] \in starts
              /\ LiteralFits(lits, code, i)
              /\ code[i] = "LdaBlockCopy" =>
                    CodeFits(lits[code[i + 1] + 1], heapVars, ivars)

Methods_ == {i \in DOMAIN mem : mem[i].isa = Known("Method")}

(* INVARIANT.  Generated code stays within what its context will have:     *)
(* registers, its own and its parent's heap variables, the receiver's      *)
(* instance variables and the literals; jumps lead to instructions, and no *)
(* path runs off the end.  Synthesis promotes a variable while blocks that *)
(* use it are still being visited, registers are allocated by hand, and    *)
(* offsets are patched afterwards (Synth.cc, AST.cc, Generation.cc).       *)
CodeWellFormed ==
    phase = "start" =>
        \A i \in Methods_ :
            LET cls == At(mem, Oop(i), MethodClass)
                size == At(mem, cls, NstSize)
            IN  CodeFits(Oop(i), 0, IF size = Nil THEN 0 ELSE size[2])

(* TYPE INVARIANT.  The contexts are nested, each was made by one below it *)
(* in the stack, and the running one, the sliced one and every context to  *)
(* which a return can lead are between two instructions (SPILL, UNSPILL).  *)
BetweenInstructions(context, at) ==
    LET code == At(mem, context.code, Bytecode)
    IN  at + 1 \in StartsFrom(code, 1) \ {Len(code) + 1}
ResumesAtInstructions ==
    phase \in {"running", "sliced"} =>
        /\ bp \in DOMAIN stack
        /\ BetweenInstructions(Ctx, IF phase = "running" THEN pc ELSE Ctx.pc)
        /\ \A i \in 1 .. bp :
              /\ stack[i].prev \in 0 .. i - 1 /\ stack[i].home \in 0 .. i - 1
              /\ stack[i].prev # 0 =>
                    BetweenInstructions(stack[stack[i].prev],
                                        stack[stack[i].prev].pc)

(* The parts of LookupRight (MCProgram): every class is linked to its       *)
(* superclass on both sides; its instances have a field for each variable  *)
(* declared along the chain; and looking up any selector of the program in *)
(* any class or metaclass finds the method that the declarations give it,  *)
(* whatever the namespaces the classes are in and the buckets in which     *)
(* their names end (Synth.cc, Objects.cc).                                 *)
ClassNamed(name) ==
    Oop(CHOOSE o \in DOMAIN mem : /\ Len(mem[o].slots) = ClassSlots
                                  /\ mem[o].slots[Name] = Symbol(name))
Side(class) ==
    IF class.meta THEN ClassOf(mem, ClassNamed(class.name)) ELSE ClassNamed(class.name)
LinkedRight(tree) ==
    LET classes == Sem!ClassesOf(tree)
        side(n, meta) == Side([name |-> n, meta |-> meta])
    IN  \A n \in DOMAIN classes, meta \in BOOLEAN :
            Sem!SuperOf(classes[n]) # "nil" =>
                At(mem, side(n, meta), SuperClass) = side(Sem!SuperOf(classes[n]), meta)

(* The classes that a declaration follows all superclasses of.             *)
RECURSIVE FollowsSupers(_, _, _)
FollowsSupers(all, classes, n) ==
    LET at(m) == SelectInSeq(all, LAMBDA d : d.attr.name = m)
        super == Sem!SuperOf(classes[n])
    IN  super # "nil" => at(super) < at(n) /\ FollowsSupers(all, classes, super)
InOrder(tree) ==
    {n \in DOMAIN Sem!ClassesOf(tree) :
        FollowsSupers(Sem!Declared(tree), Sem!ClassesOf(tree), n)}
FieldsRight(tree, names) ==
    LET classes == Sem!ClassesOf(tree)
    IN  \A n \in names :
            At(mem, ClassNamed(n), NstSize) = Smi(Len(Sem!IvarsOf(classes, n)))
LookupRightFor(tree) ==
    LET classes == Sem!ClassesOf(tree)
        selectors == UNION {{classes[n].kids[i].attr.sel :
                                i \in DOMAIN classes[n].kids} : n \in DOMAIN classes}
        right(class, sel) ==
            LET found == Sem!FindIn(classes, class, sel)
                m == LookupMethod(mem, Side(class), sel)
            IN  IF found.method = <<>> THEN m = Nil
                ELSE /\ m # Nil
                     /\ At(mem, m, Selector) = Symbol(sel)
                     /\ At(mem, m, MethodClass) = Side(found.class)
    IN  \A n \in DOMAIN classes, meta \in BOOLEAN, sel \in selectors :
            right([name |-> n, meta |-> meta], sel)

(* The classes, on both sides, and the dictionaries of their methods.      *)
ClassObjects ==
    LET named == {o \in DOMAIN mem : /\ Len(mem[o].slots) = ClassSlots
                                     /\ mem[o].slots[Name] # Nil}
    IN  named \cup ({mem[o].isa[2] : o \in named} \ {Nil[2]})
MethodDictionaries ==
    {At(mem, Oop(k), Methods)[2] : k \in ClassObjects} \ {Nil[2]}
MethodsLaid ==
    /\ OwnCodes(DOMAIN HashCode)
    /\ ClassesLaid(mem, ClassObjects, MethodDictionaries, DOMAIN HashCode,
                   Oops(DOMAIN mem))
LookupsDisciplined ==
    /\ Placed(mem, ClassObjects, MethodDictionaries)
    /\ Disciplined(ClassObjects, MethodDictionaries)

(* LIVENESS.  A program ends, with a result or an error, however often its *)
(* time slice does (Scheduling.cc, execute).                               *)
Terminates == <>(phase \in {"done", "aborted"})
=============================================================================
