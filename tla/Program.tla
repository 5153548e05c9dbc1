------------------------------ MODULE Program ------------------------------
(***************************************************************************)
(* A program from its syntax tree to its result (main in Main.cc): the     *)
(* names of its classes are registered, its classes are linked and its     *)
(* methods resolved, its types are checked, code is generated, and the     *)
(* first process runs INITIAL's method `initial' on the machine.  The tree *)
(* carries what each pass leaves for the next: a class node, its class,    *)
(* and a method, its scopes.  Type checking leaves nothing, but it may end *)
(* the program: it is taken to find the memory as it was (see TypeChecker).*)
(***************************************************************************)
EXTENDS CodeGen, Machine

CONSTANTS
    Trees,      \* the programs, a sequence of trees
    Library     \* declared after each, for type checking, a sequence of classes

Types == INSTANCE Types

-----------------------------------------------------------------------------
(* The passes over declarations: each answers [node, mem, ok] and visits   *)
(* the declarations of a namespace in their order.                         *)
WithDecl(r, i, d) ==
    [node |-> [r.node EXCEPT !.kids[i] = d.node], mem |-> d.mem,
     ok |-> r.ok /\ d.ok]
OverDecls(Pass(_, _, _), node, m, space) ==
    FoldLeftDomain(
        LAMBDA r, i : WithDecl(r, i, Pass(node.kids[i], r.mem, space)),
        [node |-> node, mem |-> m, ok |-> TRUE], node.kids)
OverSpace(Pass(_, _, _), node, sub) == OverDecls(Pass, node, sub.mem, sub.space)
InSpace(node, m, space) ==
    IF node.tag = "program" THEN [mem |-> m, space |-> space]
    ELSE SubNamespace(m, space, node.attr)

RegisterClass(node, made, space) ==
    [node |-> [node EXCEPT !.note = <<made.cls>>],
     mem |-> SymbolInsert(
                 AtPut(AtPut(made.mem, made.cls, NstVars, node.attr.ivars),
                       made.cls, Dictionary, space),
                 space, node.attr.name, made.cls),
     ok |-> TRUE]
RECURSIVE RegisterNamesIn(_, _, _)
RegisterNamesIn(node, m, space) ==
    IF node.tag = "class"
    THEN RegisterClass(node, FindOrCreateClass(m, space, Nil, node.attr.name), space)
    ELSE OverSpace(RegisterNamesIn, node, InSpace(node, m, space))

(* The instance variables of a class, its superclasses' first.             *)
RECURSIVE AllIvars(_, _)
AllIvars(m, cls) ==
    LET super == At(m, cls, SuperClass)
    IN  (IF super = Nil THEN <<>> ELSE AllIvars(m, super))
        \o At(m, cls, NstVars)

(* symbolLookupNamespaced, for a name given as its parts between colons.   *)
(* A name found through Super is resolved there with all of its parts and  *)
(* then, its first part gone, once more within what that gave.             *)
RECURSIVE LookupNamespaced(_, _, _)
LookupNamespaced(m, space, path) ==
    LET here == SymbolLookup(m, space, path[1])
        super == SymbolLookup(m, space, "Super")
        res == IF here # Nil THEN here
               ELSE IF super = Nil THEN Nil
               ELSE LookupNamespaced(m, super, path)
    IN  IF Len(path) = 1 \/ res = Nil THEN res
        ELSE LookupNamespaced(m, res, Tail(path))

(* A class is linked to its superclass, and its methods are resolved       *)
(* against the instance variables known along the chain at that moment.    *)
WithMethods(node, m, ivars, methods) ==
    [node |-> [node EXCEPT !.kids = methods],
     mem |-> AtPut(m, node.note[1], NstSize, Smi(Len(ivars))),
     ok |-> \A i \in DOMAIN methods : methods[i].note[1].ok]
SynthMethods(node, m, ivars) ==
    WithMethods(node, m, ivars,
                [i \in DOMAIN node.kids |-> SynthMethod(node.kids[i], ivars)])
SynthLinked(node, m) == SynthMethods(node, m, AllIvars(m, node.note[1]))
SynthClass(node, m, super) ==
    IF super = Nil /\ node.attr.super # <<"nil">>
    THEN [node |-> node, mem |-> m, ok |-> FALSE]
    ELSE SynthLinked(node, SetupSuperclass(m, node.note[1], super))

RECURSIVE SynthInNamespace(_, _, _)
SynthInNamespace(node, m, space) ==
    IF node.tag = "class"
    THEN SynthClass(node, m, IF node.attr.super = <<"nil">> THEN Nil
                             ELSE LookupNamespaced(m, space, node.attr.super))
    ELSE OverSpace(SynthInNamespace, node, InSpace(node, m, space))

(* Class methods are added to the metaclass.                               *)
WithMethod(r, i, g) ==
    [r EXCEPT !.mem = AddMethod(g.mem,
                                IF i <= r.node.attr.nClass
                                THEN ClassOf(g.mem, r.node.note[1])
                                ELSE r.node.note[1],
                                Newest(g.mem)),
              !.ok = @ /\ g.ok]
GenerateClass(node, m) ==
    FoldLeftDomain(
        LAMBDA r, i : WithMethod(r, i, GenerateMethod(r.mem, node.kids[i])),
        [node |-> node, mem |-> m, ok |-> TRUE], node.kids)

RECURSIVE GenerateDecls(_, _, _)
GenerateDecls(node, m, space) ==
    IF node.tag = "class" THEN GenerateClass(node, m)
    ELSE OverDecls(GenerateDecls, node, m, space)

-----------------------------------------------------------------------------
Init ==
    /\ \E i \in DOMAIN Trees : source = [prog |-> i, tree |-> Trees[i]]
    /\ mem = SetupInitialObjects
    /\ phase = "names"
    /\ stack = <<>> /\ bp = 0
    /\ acc = Nil /\ pc = 0 /\ ac = Nil

(* A pass over the program, in which an assertion may fail.                *)
RunPass(now, r, next) ==
    /\ phase = now
    /\ mem' = r.mem
    /\ phase' = IF r.ok THEN next ELSE "aborted"
    /\ source' = [source EXCEPT !.tree = IF phase' = "start" THEN Program(<<>>) ELSE r.node]
    /\ UNCHANGED <<stack, bp, acc, pc, ac>>

RegisterNames ==
    RunPass("names", RegisterNamesIn(source.tree, mem, Globals), "synth")
Synth == RunPass("synth", SynthInNamespace(source.tree, mem, Globals), "types")
TypeCheck ==
    RunPass("types",
            [node |-> source.tree, mem |-> mem,
             ok |-> Types!TypeCheckAll(Types!ClassNodes(source.tree) \o Library).ok],
            "generate")
GenerateCode ==
    RunPass("generate", GenerateDecls(source.tree, mem, Globals), "start")

(* The first process, on the method `initial' of INITIAL itself.           *)
Start ==
    LET initial == SymbolLookup(mem, Globals, "INITIAL")
        dict == At(mem, initial, Methods)
        start == SymbolLookup(mem, dict, "initial")
        h == WithHeapVars(New(mem, Known("Process"), <<>>), start)
    IN  /\ phase = "start"
        /\ IF initial = Nil \/ dict = Nil \/ start = Nil THEN Abort
           ELSE /\ mem' = h.mem
                /\ stack' = <<Context(start, Nil, <<>>, h.heapVars, Nil, 0, 0)>>
                /\ bp' = 1
                /\ phase' = "sliced"
                /\ UNCHANGED <<acc, pc, ac, source>>

Compile == RegisterNames \/ Synth \/ TypeCheck \/ GenerateCode \/ Start
Next == Compile \/ Execute \/ Instruction \/ TimesliceDone

(* The compiler's passes end.  The process gets to run again, and of all   *)
(* its time slices some last beyond one of the instructions at which a     *)
(* slice may end.  This is strong fairness of Instruction, which is always *)
(* enabled while the machine runs.                                         *)
Compiling == phase \in {"names", "synth", "types", "generate", "start"}
position == <<bp, pc, phase>>   \* what every step of the machine changes
CarryOn == phase = "running" /\ phase' # "sliced"
Spec ==
    /\ Init /\ [][Next]_vars
    /\ []<>~Compiling
    /\ WF_position(Execute)
    /\ []<>(phase = "running") => []<><<CarryOn>>_position
=============================================================================
