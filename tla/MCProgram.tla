----------------------------- MODULE MCProgram -----------------------------
(* Programs for Program to compile and run, a few classes each, and what   *)
(* is compared with their meaning.                                         *)
EXTENDS ProgramRight

-----------------------------------------------------------------------------
(* The classes of the library that they stand on.                          *)
N(n) == IntLit(n)
Unary(r, sel) == Msg(r, sel, <<>>)
Do(stmts) == Block(<<>>, <<>>, stmts)
Does(e) == Do(<<Expr(e)>>)
Simple(sel, e) == Method(sel, <<>>, <<>>, <<Return(e)>>)
Run0(b) == Unary(b, "value")
Self == Id("self")

ObjectDecl ==
    Class("Object", <<"nil">>, <<>>,
          <<Simple("new", Primitive("classOfPut",
                <<Primitive("newOops", <<Msg(Self, "basicAt:", <<N(4)>>)>>),
                  Self>>))>>,
          <<Method("basicAt:", <<"index">>, <<>>,
                   <<Return(Primitive("basicAt", <<Self, Id("index")>>))>>)>>)
BlockDecl ==
    Class("Block", <<"Object">>, <<>>, <<>>,
          <<Simple("value", Primitive("execBlock", <<Self>>)),
            Method("value:", <<"x">>, <<>>,
                   <<Return(Primitive("execBlock", <<Self, Id("x")>>))>>)>>)
Initial(args, locals, stmts) ==
    Class("INITIAL", <<"Object">>, <<>>, <<>>,
          <<Method("initial", args, locals, stmts)>>)

(* What else the type checker asks for.                                    *)
MCLibrary ==
    LET names == <<"UndefinedObject", "Dictionary", "True", "False", "Character", "Float",
                   "Integer", "Symbol", "String", "Process", "Scheduler", "SymbolTable",
                   "Smalltalk", "File">>
    IN  [i \in DOMAIN names |-> Class(names[i], <<"Object">>, <<>>, <<>>, <<>>)]

(* A program whose `initial' has the locals x and y.                       *)
Main(stmts) == Program(<<ObjectDecl, BlockDecl, Initial(<<>>, <<"x", "y">>, stmts)>>)
With(classes, stmts) ==
    Program(<<ObjectDecl, BlockDecl>> \o classes
            \o <<Initial(<<>>, <<"x", "y">>, stmts)>>)
Answer(e) == Main(<<Return(e)>>)
Put(v, e) == Expr(Assign(v, e))
Plus(a, b) == Msg(a, "+", <<b>>)
X == Id("x")
Y == Id("y")

(* Every program that F makes of a member of each of two sequences.        *)
Pairs(F(_, _), s, t) ==
    [k \in 1 .. Len(s) * Len(t) |->
        F(s[((k - 1) \div Len(t)) + 1], t[((k - 1) % Len(t)) + 1])]

-----------------------------------------------------------------------------
(* Numbers: every operator on operands around the limits.                  *)
Operands == <<-16, -3, 0, 5, 15>>
Numbers ==
    Pairs(LAMBDA p, op : Answer(Msg(N(p[1]), op, <<N(p[2])>>)),
          Pairs(LAMBDA a, b : <<a, b>>, Operands, Operands), BinOps)

(* Blocks: two statements out of those below, between a declaration and    *)
(* what is answered.                                                       *)
BlockStatements ==
  <<Put("x", Plus(X, N(1))),
     Expr(Run0(Does(Assign("x", Plus(X, N(2)))))),
     Put("y", Does(X)),
     Put("y", Do(<<Put("x", N(4))>>)),
     Expr(Run0(Y)),
     Put("x", Msg(Block(<<"z">>, <<>>, <<Expr(Plus(Id("z"), X))>>), "value:", <<N(3)>>)),
     Expr(Run0(Do(<<Return(Plus(X, N(1)))>>))),
     Put("x", Run0(Does(Run0(Does(Plus(X, N(5))))))),
     Expr(Run0(Does(Run0(Does(Assign("x", Plus(X, N(2))))))))>>
Closures ==
    Pairs(LAMBDA s, t : Main(<<Put("x", N(1)), Put("y", Does(N(7))), s, t,
                               Return(X)>>),
          BlockStatements, BlockStatements)

(* Conditionals, on a test that holds and one that does not, answering the *)
(* value or what its arms did to x; and loops.                             *)
Small == Msg(X, "<", <<N(3)>>)
FirstArms == <<Does(N(4)), Does(Assign("x", N(5))), Do(<<Return(N(6))>>),
               Block(<<>>, <<"z">>, <<Put("z", N(7)), Expr(Plus(Id("z"), X))>>)>>
SecondArms == <<Does(Small), Does(Run0(Does(Assign("x", N(9)))))>>
Arms == [i \in DOMAIN FirstArms |-> <<FirstArms[i]>>]
        \o Pairs(LAMBDA a, b : <<a, b>>, FirstArms, SecondArms)
Chosen ==
    Pairs(LAMBDA k, arms : Msg(Id("y"), k, arms),
          <<"and:", "ifTrue:", "ifFalse:">>, SubSeq(Arms, 1, 4))
    \o Pairs(LAMBDA k, arms : Msg(Id("y"), k, arms),
             <<"ifTrue:ifFalse:", "ifFalse:ifTrue:">>, SubSeq(Arms, 5, 12))
Conditions ==
    Pairs(LAMBDA start, choice :
              Main(<<Put("x", N(start[1])), Put("y", Small), Put("y", choice),
                     Return(start[2])>>),
          << <<1, X>>, <<1, Y>>, <<4, X>>, <<4, Y>> >>, Chosen)

Bodies == <<Does(Assign("x", Plus(X, N(1)))),
            Does(Run0(Does(Assign("x", Plus(X, N(1)))))),
            Do(<<Put("x", Plus(X, N(1))),
                 Expr(Msg(Msg(X, "=", <<N(2)>>), "ifTrue:", <<Do(<<Return(N(8))>>)>>))>>),
            Do(<<Put("x", Plus(X, N(2))),
                 Expr(Msg(Does(Msg(Y, "<", <<X>>)), "whileTrue:",
                          <<Does(Assign("y", Plus(Y, N(1))))>>))>>)>>
Iterations ==
    Pairs(LAMBDA k, body :
              Main(<<Put("x", N(0)), Put("y", N(0)),
                     Expr(Msg(Does(Msg(X, k[1], <<N(3)>>)), k[2], <<body>>)),
                     Return(Plus(X, Y))>>),
          << <<"<", "whileTrue:">>, <<">=", "whileFalse:">> >>, Bodies)
    \o Pairs(LAMBDA k, v :
                 Main(<<Put("x", N(0)),
                        Expr(Msg(Do(<<Put("x", Plus(X, N(1))),
                                      Expr(Msg(X, k[1], <<N(v)>>))>>), k[2], <<>>)),
                        Return(X)>>),
             << <<"<", "whileTrue">>, <<">", "whileFalse">> >>, <<1, 2, 3>>)

-----------------------------------------------------------------------------
(* Classes A, B and C, each the superclass of the next, of which the last  *)
(* two may answer m in any of these ways; every m is sent from one place,  *)
(* to an instance of one class, of another, and of the first again.        *)
Ways(sel) == << <<>>,
                <<Simple(sel, N(5))>>,
                <<Simple(sel, Plus(Unary(Id("super"), sel), N(1)))>>,
                <<Simple(sel, Run0(Does(Plus(Unary(Id("super"), sel), N(3)))))>>,
                <<Simple(sel, Unary(Self, "n"))>> >>
Chain(b, c) ==
    <<Class("A", <<"Object">>, <<>>, <<>>, <<Simple("m", N(1)), Simple("n", N(2))>>),
      Class("B", <<"A">>, <<>>, <<>>, b),
      Class("C", <<"B">>, <<>>, <<>>, c \o <<Simple("n", N(4))>>),
      Class("Site", <<"Object">>, <<>>, <<>>,
            <<Method("call:", <<"r">>, <<>>, <<Return(Unary(Id("r"), "m"))>>)>>)>>
NewOf(name) == Unary(Id(name), "new")
Call(name) == Msg(X, "call:", <<NewOf(name)>>)
Dispatch ==
    Pairs(LAMBDA ways, to :
              With(Chain(ways[1], ways[2]),
                   <<Put("x", NewOf("Site")), Put("y", Call(to[1])),
                     Put("y", Plus(Call(to[2]), Y)), Return(Plus(Call(to[1]), Y))>>),
          Pairs(LAMBDA b, c : <<b, c>>, Ways("m"), Ways("m")),
          << <<"A", "B">>, <<"B", "C">>, <<"C", "A">> >>)

(* The same on the side of the classes themselves.                         *)
ClassSide ==
    Pairs(LAMBDA b, c :
              With(<<Class("A", <<"Object">>, <<>>,
                           <<Simple("m", N(1)), Simple("n", N(2))>>, <<>>),
                     Class("B", <<"A">>, <<>>, b, <<Simple("m", N(7))>>),
                     Class("C", <<"B">>, <<>>, c, <<>>)>>,
                   <<Put("x", Unary(Id("B"), "m")),
                     Return(Plus(Unary(Id("C"), "m"), X))>>),
          Ways("m"), Ways("m"))

(* Instance variables along a chain of three classes, declared in every    *)
(* order (the first here, the others below).                               *)
Setter(sel, v) == Method(sel, <<"new">>, <<>>, <<Put(v, Id("new"))>>)
Fields ==
    <<Class("A", <<"Object">>, <<"a", "b">>, <<>>,
            <<Setter("a:", "a"), Simple("a", Id("a")),
              Method("n", <<>>, <<>>,
                     <<Expr(Run0(Does(Assign("b", Plus(Id("a"), N(1)))))),
                       Return(Id("b"))>>)>>),
      Class("B", <<"A">>, <<"c">>, <<>>,
            <<Setter("c:", "c"), Simple("c", Plus(Id("c"), Id("a")))>>),
      Class("C", <<"B">>, <<"d">>, <<>>,
            <<Setter("d:", "d"),
              Simple("m", Plus(Plus(Unary(Self, "c"), Id("c")), Id("d")))>>)>>
Orders == << <<2, 1, 3>>, <<2, 3, 1>>, <<1, 3, 2>>, <<3, 1, 2>>, <<3, 2, 1>> >>
FieldUses ==
    <<Put("x", NewOf("C")), Put("y", NewOf("C")),
      Expr(Cascade(X, <<Msg(X, "a:", <<N(1)>>), Msg(X, "c:", <<N(2)>>),
                        Msg(X, "d:", <<N(4)>>)>>)),
      Expr(Msg(Y, "a:", <<N(5)>>))>>
Inherited ==
    LET uses == <<Unary(X, "m"), Plus(Unary(X, "n"), Unary(Y, "a")), Unary(Y, "n")>>
    IN  [i \in DOMAIN uses |-> With(Fields, FieldUses \o <<Return(uses[i])>>)]

Pair(super, m) == Class("A", super, <<"a">>, <<>>, m)

(* The same in the other orders, and superclasses named by a path: the     *)
(* classes are linked, but the type checker does not get through.          *)
Untypable ==
    [i \in DOMAIN Orders |->
        With([k \in 1 .. 3 |-> Fields[Orders[i][k]]], FieldUses \o <<Return(N(1))>>)]
    \o << Program(Fields \o <<BlockDecl, ObjectDecl>>),
          With(<<Namespace("Kernel",
                     <<Class("B", <<"A">>, <<>>, <<>>, <<Simple("m", N(3))>>),
                       Namespace("Deep", <<Class("C", <<"B">>, <<>>, <<>>, <<>>)>>),
                       Class("D", <<"Deep", "C">>, <<"a">>, <<>>, <<>>)>>),
                 Pair(<<"Object">>, <<>>),
                 Class("Site", <<"Kernel", "D">>, <<>>, <<>>, <<>>)>>,
               <<Return(N(1))>>) >>

(* Classes in namespaces; an operator                                      *)
(* that a class defines; arguments and locals that blocks share, and a     *)
(* return through the methods that run them.                               *)
Various ==
    << With(<<Pair(<<"Object">>, <<>>),
              Namespace("Kernel",
                  <<Class("B", <<"A">>, <<"b">>, <<>>, <<Simple("m", N(3))>>),
                    Namespace("Deep",
                        <<Class("C", <<"B">>, <<>>, <<>>,
                                <<Simple("n", Unary(Id("super"), "m"))>>)>>)>>)>>,
            <<Return(Unary(NewOf("A"), "a"))>>),
       With(<<Pair(<<"Object">>,
                   <<Method("+", <<"r">>, <<>>, <<Return(Plus(Id("r"), N(2)))>>)>>)>>,
            <<Return(Plus(NewOf("A"), Plus(NewOf("A"), N(3))))>>),
       With(<<Pair(<<"Object">>,
                   <<Method("call:", <<"r">>, <<"t", "r2">>,
                            <<Put("t", Block(<<"z">>, <<"w">>,
                                  <<Put("w", Id("z")),
                                    Put("a", Plus(Id("w"), Id("r"))),
                                    Expr(Plus(Id("a"), Id("r")))>>)),
                              Put("r2", Plus(Msg(Id("t"), "value:", <<N(2)>>), Id("r"))),
                              Return(Plus(Id("r2"), Id("a")))>>)>>)>>,
            <<Return(Msg(NewOf("A"), "call:", <<N(1)>>))>>),
       With(<<Pair(<<"Object">>,
                   <<Method("call:", <<"r">>, <<>>, <<Expr(Run0(Id("r"))), Return(N(2))>>)>>)>>,
            <<Put("x", NewOf("A")),
              Expr(Msg(X, "call:", <<Does(Msg(X, "call:", <<Do(<<Return(N(9))>>)>>))>>)),
              Return(N(1))>>),
       With(<<Pair(<<"Object">>,
                   <<Method("call:", <<"r">>, <<>>, <<Return(Do(<<Put("a", Id("r")),
                                                               Expr(Id("a"))>>))>>)>>)>>,
            <<Put("y", Msg(NewOf("A"), "call:", <<N(6)>>)),
              Put("x", Msg(NewOf("A"), "call:", <<N(4)>>)),
              Return(Plus(Run0(Y), Run0(X)))>>) >>

Compared == Numbers \o Closures \o Conditions \o Iterations \o Dispatch
            \o ClassSide \o Inherited \o Various

-----------------------------------------------------------------------------
(* What has no meaning but its own: primitives on strings, memory and      *)
(* globals, the words for the machine's own objects, and errors; with what *)
(* is answered, or that the program aborts.                                *)
Aborts == <<"aborts", 0>>
P(name, args) == Primitive(name, args)
Ab == StrLit(<<7, 8>>)
Cd == StrLit(<<9>>)
Cut(from, to) == P("copyFromTo", <<P("stringCat", <<Ab, Cd>>), N(from), N(to)>>)
Told ==
    << <<Answer(P("stringSize", <<P("stringCat", <<Ab, Cd>>)>>)), Smi(3)>>,
       <<Answer(P("stringSize", <<Cut(2, 3)>>)), Smi(2)>>,
       <<Answer(P("stringSize", <<Cut(2, 9)>>)), Smi(2)>>,
       <<Answer(P("stringSize", <<Cut(0, 2)>>)), Smi(0)>>,
       <<Answer(P("stringSize", <<Cut(3, 2)>>)), Smi(0)>>,
       <<Answer(P("byteAt", <<Cut(3, 3), N(1)>>)), Smi(9)>>,
       <<Answer(P("size", <<P("byteAtPut", <<P("newBytes", <<N(3)>>), N(2), N(6)>>)>>)), Smi(3)>>,
       <<Answer(P("byteAt", <<P("byteAtPut", <<P("newBytes", <<N(3)>>), N(2), N(6)>>), N(2)>>)), Smi(6)>>,
       <<Answer(P("basicAt", <<P("basicAtPut", <<P("newOops", <<N(2)>>), N(2), N(6)>>), N(2)>>)), Smi(6)>>,
       <<Answer(P("basicAtPut", <<P("newOops", <<N(2)>>), N(3), N(6)>>)), Nil>>,
       <<Answer(P("basicAt", <<CharLit(4), N(1)>>)), Smi(4)>>,
       <<Answer(P("size", <<N(4)>>)), Smi(0)>>,
       <<Answer(P("smiBitShift", <<N(3), N(2)>>)), Smi(12)>>,
       <<Answer(P("smiBitShift", <<N(-9), N(-2)>>)), Smi(-3)>>,
       <<Answer(P("smiAdd", <<N(15), SymLit("m")>>)), Nil>>,
       <<Answer(P("oopEq", <<P("class", <<N(4)>>), Id("Integer")>>)), True>>,
       <<Answer(P("oopEq", <<FloatLit, FloatLit>>)), True>>,
       <<Answer(ArrayLit(<<N(1)>>)), Aborts>>,
       <<With(<<Pair(<<"Object">>, <<>>)>>,
              <<Expr(P("symbolAssign", <<SymLit("A"), N(6)>>)), Return(Id("A"))>>), Smi(6)>>,
       <<Main(<<Return(Id("Fresh"))>>), Aborts>>,
       <<Main(<<Put("x", P("disableInterrupts", <<>>)), Put("x", Id("thisContext")),
                Put("y", P("oopEq", <<Id("Smalltalk"), Id("thisProcess")>>)),
                Return(Y)>>), False>>,
       <<Main(<<Expr(P("fatal", <<Ab>>)), Return(N(1))>>), Aborts>>,
       <<Main(<<Expr(P("none", <<>>))>>), Aborts>>,
       <<Answer(P("disableInterrupts", <<N(1)>>)), Aborts>>, <<Answer(P("size", <<>>)), Aborts>>,
       <<Answer(P("size", <<N(4), N(5)>>)), Aborts>>, <<Answer(P("byteAt", <<Ab>>)), Aborts>>,
       <<Answer(P("byteAtPut", <<Ab, N(1)>>)), Aborts>>,
       <<Main(<<Expr(Unary(Self, "none"))>>), Aborts>>,
       <<With(<<Pair(<<"Fresh">>, <<>>)>>, <<Return(N(1))>>), Aborts>>,
       <<With(<<Pair(<<"Object">>,
                     <<Method("call:", <<"r">>, <<>>, <<Put("r", N(1))>>)>>)>>,
              <<Return(Msg(NewOf("A"), "call:", <<N(2)>>))>>), Aborts>>,
       <<Program(<<ObjectDecl>>), Aborts>> >>

(* Symbols are given hash codes in the order of this list, so several      *)
(* share each bucket.                                                      *)
MCNames ==
    KnownClasses \o BinOps \o
        <<"Super", "INITIAL", "initial", "new", "basicAt:", "value",
          "value:", "A", "B", "C", "D", "Site", "Kernel", "Deep", "m", "n",
          "call:", "a", "a:", "c", "c:", "d:", "Fresh", "none">>
MCHashCode ==
    [n \in {MCNames[i] : i \in DOMAIN MCNames} |->
        CHOOSE i \in DOMAIN MCNames : MCNames[i] = n]

MCTrees == Compared \o [i \in DOMAIN Told |-> Told[i][1]] \o Untypable

(* Programs in which a block assigns a variable from two levels out: the   *)
(* block between the two ends afterwards, reads it, or has ended before.   *)
MCRestoreTrees ==
    << Main(<<Put("x", N(1)), Put("y", Does(Run0(Does(Assign("x", N(5)))))),
              Expr(Run0(Y)), Return(X)>>),
       Main(<<Put("x", N(1)), Put("y", Do(<<Expr(Run0(Does(Assign("x", N(5))))),
                                            Expr(Assign("y", X))>>)),
              Expr(Run0(Y)), Return(Plus(X, Y))>>),
       Main(<<Put("x", N(1)), Put("y", Does(Does(Assign("x", Plus(X, N(4)))))),
              Put("y", Run0(Y)), Expr(Run0(Y)), Return(X)>>) >>

-----------------------------------------------------------------------------
Meant ==
    LET i == source.prog - Len(Compared)
        v == IF i \in DOMAIN Told THEN Told[i][2] ELSE Aborts
    IN  IF i <= 0 THEN Sem!Meaning(Trees[source.prog]) ELSE [ok |-> v # Aborts, v |-> v]
Comparable(v) == v[1] \in {"smi", "nil", "sym"} \/ v \in {True, False}

(* INVARIANT.  Once the declarations have been visited, every class, symbol *)
(* and method is found where the program declares it, on the side of       *)
(* instances and on that of classes, however many collide in a bucket      *)
(* (DictionaryOopDesc::insert, setSuperClass, lookupMethod).  A class that *)
(* is declared after its superclasses has a field for each variable along  *)
(* the chain.  One that is declared before may lack those that its         *)
(* superclass inherits (ClassNode::synthInNamespace takes the chain as it  *)
(* is linked so far), but no such program gets through type checking: in   *)
(* whatever order the classes are declared, code is generated only for     *)
(* complete ones.  Classes and dictionaries are then laid out as the       *)
(* theorem about adding methods supposes, and the programs of the run keep *)
(* what the theorem about caches asks of a program.                        *)
LookupRight ==
    /\ phase = "types" => /\ LinkedRight(source.tree)
                          /\ FieldsRight(source.tree, InOrder(source.tree))
    /\ phase = "generate" =>
            /\ FieldsRight(source.tree, DOMAIN Sem!ClassesOf(source.tree))
            /\ MethodsLaid
    /\ phase = "start" /\ source.prog <= Len(Compared) => LookupRightFor(Trees[source.prog])
    /\ phase \in {"sliced", "running"} => LookupsDisciplined

(* INVARIANT.  What a program answers is what it means: the compiler and   *)
(* the interpreter together, whenever the time slice ends, compute what    *)
(* evaluating the program's tree does (Semantics), or what Told says.      *)
ResultRight ==
    phase = "done" =>
        LET m == Meant IN /\ m.ok /\ Comparable(m.v) => acc = m.v
                          /\ source.prog > Len(Compared) => m.ok

(* INVARIANT.  Neither the compiler nor the machine aborts a program that  *)
(* has a meaning: no assertion fails, and every message sent is found.     *)
NoAbort == phase = "aborted" => ~Meant.ok

(* INVARIANT (violated).  What a block assigns to a variable of the code   *)
(* around it is there for that code to read.  generateRestoreOn is said to *)
(* implement "the ability to mutate parents' data" (AST.cc:261-264).       *)
ParentsDataMutated ==
    phase = "done" => acc = Sem!Meaning(Trees[source.prog]).v
=============================================================================
