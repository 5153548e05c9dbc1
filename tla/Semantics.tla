----------------------------- MODULE Semantics -----------------------------
(***************************************************************************)
(* What a program means: a reference evaluator over syntax trees, with     *)
(* neither registers nor heap variables nor dictionaries nor caches.       *)
(* Compiled code is compared with it (MCProgram).  A variable is a cell,   *)
(* and whatever sees the variable shares the cell; a class is its name; a  *)
(* message runs the method found along the names of superclasses; numbers  *)
(* are exact.  `new' and `value' are understood by every class and block.  *)
(*                                                                         *)
(* The state of an evaluation:                                             *)
(*   v        the value of what was evaluated last                         *)
(*   ret      the activation that a return under way leaves, 0 for none    *)
(*   ok       FALSE when the program goes beyond what is defined here      *)
(*   cells    the variables            frames   how many activations       *)
(*   objs     the objects, [class, vars], vars being cells by name         *)
(*   blocks   the closures, [block, env]                                   *)
(* and the environment: the receiver self, the class [name, meta] of the   *)
(* method, its activation, and the cell of each variable in sight.         *)
(***************************************************************************)
EXTENDS Ast, SequencesExt

Class0 == [name |-> "nil", meta |-> FALSE]
Stopped(s) == s.ret # 0 \/ ~s.ok
Give(s, v) == [s EXCEPT !.v = v]
Undefined(s) == [s EXCEPT !.ok = FALSE]
Number(s, n) == IF Fits(n, SmiBits) THEN Give(s, Smi(n)) ELSE Undefined(s)

(* The classes of a program, however nested, as a function of their names. *)
RECURSIVE Declared(_)
Declared(node) ==
    IF node.tag = "class" THEN <<node>>
    ELSE FlattenSeq([i \in DOMAIN node.kids |-> Declared(node.kids[i])])
ClassesOf(tree) ==
    LET all == Declared(tree)
    IN  [n \in {all[i].attr.name : i \in DOMAIN all} |->
            all[CHOOSE i \in DOMAIN all : all[i].attr.name = n]]
SuperOf(class) == Last(class.attr.super)

RECURSIVE IvarsOf(_, _)
IvarsOf(classes, name) ==
    IF name = "nil" THEN <<>>
    ELSE IvarsOf(classes, SuperOf(classes[name])) \o classes[name].attr.ivars

(* Where a message is answered: [class, method], with no method when it is *)
(* not; after the last metaclass comes its own class.                      *)
RECURSIVE FindIn(_, _, _)
FindIn(classes, class, sel) ==
    LET c == classes[class.name]
        own == {i \in DOMAIN c.kids : /\ c.kids[i].attr.sel = sel
                                      /\ (i <= c.attr.nClass) = class.meta}
        super == SuperOf(c)
    IN  IF class.name \notin DOMAIN classes
        THEN [class |-> Class0, method |-> <<>>]
        ELSE IF own # {}
        THEN [class |-> class, method |-> <<c.kids[CHOOSE i \in own : TRUE]>>]
        ELSE IF super = "nil" /\ class.meta
        THEN FindIn(classes, [class EXCEPT !.meta = FALSE], sel)
        ELSE FindIn(classes, [class EXCEPT !.name = super], sel)

ClassOfValue(s, v) ==
    LET named(n) == [name |-> n, meta |-> FALSE]
    IN  CASE v[1] = "class" -> [name |-> v[2], meta |-> TRUE]
          [] v[1] = "obj"   -> named(s.objs[v[2]].class)
          [] v[1] = "smi"   -> named("Integer")
          [] v = Nil        -> named("UndefinedObject")
          [] v = True       -> named("True")
          [] v = False      -> named("False")
          [] v[1] = "sym"   -> named("Symbol")
          [] OTHER          -> named("Block")

-----------------------------------------------------------------------------
(* New cells for names, holding values, nil when there are none.           *)
Bind(s, env, names, values) ==
    LET n == Len(s.cells)
        value(i) == IF i <= Len(values) THEN values[i] ELSE Nil
        at == [x \in ToSet(names) |->
                  n + (CHOOSE i \in DOMAIN names : names[i] = x)]
    IN  [s |-> [s EXCEPT !.cells = @ \o [i \in DOMAIN names |-> value(i)]],
         env |-> [env EXCEPT !.vars = at @@ @]]

(* The cell of a variable, 0 if the name is not one.                       *)
Cell(s, env, name) ==
    IF name \in DOMAIN env.vars THEN env.vars[name]
    ELSE IF env.self[1] = "obj" /\ name \in DOMAIN s.objs[env.self[2]].vars
    THEN s.objs[env.self[2]].vars[name] ELSE 0

(* The smallest of the primitives that programs here call.                 *)
Arithmetic(s, op, x, y) ==
    LET a == x[2]
        b == y[2]
    IN  CASE op = 1 -> Number(s, a + b)
          [] op = 2 -> Number(s, a - b)
          [] op = 9 -> Number(s, a * b)
          [] op \in {10, 11} /\ b # 0 ->
                LET q == CHOOSE n \in -Magnitude(a) .. Magnitude(a) :
                            /\ Magnitude(a - b * n) < Magnitude(b)
                            /\ (a - b * n) * a >= 0
                IN  Number(s, IF op = 10 THEN q ELSE a - b * q)
          [] op \in {10, 11} /\ b = 0 -> Undefined(s)
          [] OTHER -> Give(s, SmiPrimitive(op, x, y))

MakeObject(classes, s, name) ==
    LET r == Bind(s, [vars |-> <<>>], IvarsOf(classes, name), <<>>)
    IN  Give([r.s EXCEPT !.objs = Append(@, [class |-> name,
                                             vars |-> r.env.vars])],
             <<"obj", Len(s.objs) + 1>>)

-----------------------------------------------------------------------------
RECURSIVE Eval(_, _, _, _)

EvalSeq(classes, nodes, env, s) ==
    FoldLeft(LAMBDA t, n : IF Stopped(t) THEN t ELSE Eval(classes, n, env, t),
             s, nodes)

(* [s, vs]: the values of all the nodes.                                   *)
WithValue(r, s) == [s |-> s, vs |-> Append(r.vs, s.v)]
EvalList(classes, nodes, env, s) ==
    FoldLeft(LAMBDA r, n : IF Stopped(r.s) THEN r
                           ELSE WithValue(r, Eval(classes, n, env, r.s)),
             [s |-> s, vs |-> <<>>], nodes)

(* A method runs to its end, and answers the receiver, or to a return.     *)
Left(s, frame, self) ==
    IF s.ret = frame THEN [s EXCEPT !.ret = 0]
    ELSE IF Stopped(s) THEN s ELSE Give(s, self)
Body(classes, node, b) == EvalSeq(classes, node.kids, b.env, b.s)
Call(classes, class, m, self, args, s) ==
    LET frame == s.frames + 1
    IN  Left(Body(classes, m,
                  Bind([s EXCEPT !.frames = frame],
                       [self |-> self, class |-> class, frame |-> frame,
                        vars |-> <<>>],
                       m.attr.args \o m.attr.locals, args)),
             frame, self)
Invoke(classes, found, self, args, s) ==
    IF found.method = <<>> THEN Undefined(s)
    ELSE Call(classes, found.class, found.method[1], self, args, s)

RunClosure(classes, c, args, s) ==
    IF c.block.kids = <<>> THEN Give(s, Nil)
    ELSE Body(classes, c.block,
              Bind(s, c.env, c.block.attr.args \o c.block.attr.locals, args))

Send(classes, class, self, sel, args, s) ==
    LET op == BinOpIndex(sel)
    IN  IF sel = "new" /\ self[1] = "class" THEN MakeObject(classes, s, self[2])
        ELSE IF sel \in {"value", "value:"} /\ self[1] = "blk"
        THEN RunClosure(classes, s.blocks[self[2]], args, s)
        ELSE IF op # 0 /\ IsSmi(self) /\ IsSmi(args[1])
        THEN Arithmetic(s, op, self, args[1])
        ELSE Invoke(classes, FindIn(classes, class, sel), self, args, s)

(* A message to a value already there, its arguments still to come.        *)
FirstClass(classes, isSuper, env, s) ==
    LET super == SuperOf(classes[env.class.name])
    IN  IF ~isSuper THEN ClassOfValue(s, s.v)
        ELSE IF super = "nil" THEN [env.class EXCEPT !.meta = FALSE]
        ELSE [env.class EXCEPT !.name = super]
SendArgs(classes, m, class, self, r) ==
    IF Stopped(r.s) THEN r.s ELSE Send(classes, class, self, m.attr, r.vs, r.s)
SendFrom(classes, m, isSuper, env, s) ==
    IF Stopped(s) THEN s
    ELSE SendArgs(classes, m, FirstClass(classes, isSuper, env, s), s.v,
                  EvalList(classes, Tail(m.kids), env, s))
Cascaded(classes, e, env, s) ==
    FoldLeft(LAMBDA t, m :
                 IF Stopped(t) THEN t
                 ELSE SendFrom(classes, m, IsSuper(e.kids[1]), env, Give(t, s.v)),
             s, Tail(e.kids))

(* An arm of a conditional or of a loop: a block without arguments.        *)
RunArm(classes, node, env, s) ==
    IF node.tag # "block" THEN Undefined(s)
    ELSE Body(classes, node, Bind(s, env, node.attr.locals, <<>>))

(* What each selector that takes blocks does on true and on false, as the  *)
(* number of the child to run; 0 to answer the receiver.                   *)
ArmsOf == [k \in Conditionals |->
            CASE k \in {"and:", "ifTrue:"} -> <<2, 0>>
              [] k = "ifFalse:"            -> <<0, 2>>
              [] k = "ifTrue:ifFalse:"     -> <<2, 3>>
              [] k = "ifFalse:ifTrue:"     -> <<3, 2>>]

Branching(classes, m, env, s) ==
    LET arm == ArmsOf[m.attr][IF s.v = True THEN 1 ELSE 2]
    IN  IF Stopped(s) THEN s
        ELSE IF s.v \notin {True, False} THEN Undefined(s)
        ELSE IF arm = 0 THEN s ELSE RunArm(classes, m.kids[arm], env, s)

RECURSIVE Loop(_, _, _, _)
LoopOn(classes, m, env, s) ==
    IF Stopped(s) THEN s
    ELSE Loop(classes, m, env,
              IF Len(m.kids) = 1 THEN s ELSE RunArm(classes, m.kids[2], env, s))
AfterTest(classes, m, env, s) ==
    IF Stopped(s) THEN s
    ELSE IF s.v \notin {True, False} THEN Undefined(s)
    ELSE IF s.v = Truth(m.attr \in {"whileTrue", "whileTrue:"})
    THEN LoopOn(classes, m, env, s) ELSE s
Loop(classes, m, env, s) ==
    IF Stopped(s) THEN s
    ELSE AfterTest(classes, m, env, RunArm(classes, m.kids[1], env, s))

NameValue(classes, s, env, name) ==
    CASE name \in {"self", "super"} -> Give(s, env.self)
      [] name = "nil"   -> Give(s, Nil)
      [] name = "true"  -> Give(s, True)
      [] name = "false" -> Give(s, False)
      [] Cell(s, env, name) # 0 -> Give(s, s.cells[Cell(s, env, name)])
      [] Cell(s, env, name) = 0 /\ name \in DOMAIN classes ->
            Give(s, <<"class", name>>)
      [] OTHER -> Undefined(s)
Assigned(s, cell) ==
    IF Stopped(s) THEN s
    ELSE IF cell = 0 THEN Undefined(s) ELSE [s EXCEPT !.cells[cell] = s.v]
Returning(s, frame) == IF Stopped(s) THEN s ELSE [s EXCEPT !.ret = frame]

(* The parts of e that come first, and then what e does with them.         *)
Eval(classes, e, env, s) ==
    LET first == Eval(classes, e.kids[1], env, s)
        kind == IF e.tag = "msg" THEN SpecialKind(e) ELSE e.tag
    IN  CASE e.tag = "int"    -> Number(s, e.attr)
          [] e.tag = "sym"    -> Give(s, <<"sym", e.attr>>)
          [] e.tag = "id"     -> NameValue(classes, s, env, e.attr)
          [] e.tag = "expr"   -> first
          [] e.tag = "assign" -> Assigned(Eval(classes, e.kids[2], env, s),
                                          Cell(s, env, e.kids[1].attr))
          [] e.tag = "block"  ->
                Give([s EXCEPT !.blocks = Append(@, [block |-> e, env |-> env])],
                     <<"blk", Len(s.blocks) + 1>>)
          [] e.tag = "return"  -> Returning(first, env.frame)
          [] e.tag = "cascade" -> Cascaded(classes, e, env, first)
          [] kind \in Conditionals      -> Branching(classes, e, env, first)
          [] kind \in Loops             -> Loop(classes, e, env, s)
          [] kind \in {"normal", "binop"} ->
                SendFrom(classes, e, IsSuper(e.kids[1]), env, first)
          [] OTHER -> Undefined(s)

(* INITIAL's method `initial', on nil.                                     *)
Finished(s) == IF s.ret # 0 THEN Undefined(s) ELSE s
MeaningIn(classes) ==
    Finished(Invoke(classes,
        FindIn(classes, [name |-> "INITIAL", meta |-> FALSE], "initial"), Nil, <<>>,
        [v |-> Nil, ret |-> 0, ok |-> TRUE, frames |-> 0,
         cells |-> <<>>, objs |-> <<>>, blocks |-> <<>>]))
Meaning(tree) == MeaningIn(ClassesOf(tree))
=============================================================================
