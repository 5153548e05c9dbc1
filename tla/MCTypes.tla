------------------------------ MODULE MCTypes ------------------------------
(* Programs for TypeChecker to check, and what is compared with what their *)
(* types mean (Subtyping) and with what they do (Semantics).               *)
EXTENDS TypeChecker

Sub == INSTANCE Subtyping
Sem == INSTANCE Semantics

-----------------------------------------------------------------------------
(* Classes and methods with their annotations.                             *)
T(name) == Named(name, <<>>)
Of(name, arg) == Named(name, <<T(arg)>>)
Either(a, b) == UnionOf(<<T(a), T(b)>>)
Sig(params, ret, args, locals) ==
    [params |-> params, ret |-> ret, args |-> args, locals |-> locals]
Header(params, superArgs, ivars) ==
    [params |-> params, superArgs |-> superArgs, ivars |-> ivars]
Simple(sel, ret, e) ==
    Typed(Method(sel, <<>>, <<>>, <<Return(e)>>), Sig(<<>>, <<ret>>, <<>>, <<>>))
Of1(sel, ret, arg, stmts) ==
    Typed(Method(sel, <<"z">>, <<>>, stmts), Sig(<<>>, <<ret>>, << <<arg>> >>, <<>>))
N(n) == IntLit(n)
Z == Id("z")
X == Id("x")
Y == Id("y")
Unary(r, sel) == Msg(r, sel, <<>>)
New(name) == Unary(Id(name), "new")
Put(v, e) == Expr(Assign(v, e))

(* The classes that the checker asks for, their methods without bodies, and  *)
(* Boolean with a generic conditional; then collections and pairs.         *)
Plain(name, super) == Class(name, <<super>>, <<>>, <<>>, <<>>)
Without(m) == [m EXCEPT !.kids = <<>>]
Has(sel, ret) == Without(Simple(sel, ret, N(0)))
Has1(sel, ret, arg) == Of1(sel, ret, arg, <<>>)
Object ==
    Class("Object", <<"nil">>, <<>>, <<Has("new", T("instancetype"))>>,
          <<Has1("isKindOf:", T("Boolean"), T("id"))>>)
Boolean ==
    Class("Boolean", <<"Object">>, <<>>, <<>>,
          <<Typed(Method("ifTrue:ifFalse:", <<"z", "w">>, <<>>, <<>>),
                  Sig(<<"A", "B">>, <<Either("A", "B")>>,
                      << <<BlockOf(T("A"), <<>>)>>, <<BlockOf(T("B"), <<>>)>> >>, <<>>))>>)
Library ==
    <<Object, Boolean,
      Class("True", <<"Boolean">>, <<>>, <<>>, <<Has("not", T("False"))>>),
      Class("False", <<"Boolean">>, <<>>, <<>>, <<Has("not", T("True"))>>),
      Class("Character", <<"Object">>, <<>>, <<>>, <<Has("asInteger", T("Integer"))>>),
      Class("Integer", <<"Object">>, <<>>, <<>>,
            <<Has1("+", T("Integer"), T("Integer"))>>)>>
    \o [i \in 1 .. 10 |-> Plain(<<"UndefinedObject", "Dictionary", "Float", "Process",
                                 "Scheduler", "String", "Symbol", "SymbolTable",
                                 "Smalltalk", "File">>[i], "Object")]
Cltn(methods) ==
    Typed(Class("Cltn", <<"Object">>, <<"el">>, <<>>, methods),
          Header(<<"E">>, <<>>, << <<T("E")>> >>))
SubCltn(methods) ==
    Typed(Class("SubCltn", <<"Cltn">>, <<>>, <<>>, methods), Header(<<"S">>, <<T("S")>>, <<>>))
Assoc ==
    Typed(Class("Assoc", <<"Object">>, <<"key", "val">>, <<>>, <<>>),
          Header(<<"K", "V">>, <<>>, << <<T("K")>>, <<T("V")>> >>))
Swapped ==
    Typed(Class("Swapped", <<"Assoc">>, <<>>, <<>>, <<>>),
          Header(<<"A", "B">>, <<T("B"), T("A")>>, <<>>))
Pairs(methods) ==
    Typed(Class("Pairs", <<"Cltn">>, <<>>, <<>>, methods),
          Header(<<"A", "B">>, <<Named("Assoc", <<T("A"), T("B")>>)>>, <<>>))

(* A program of these classes and one more, whose method has the locals x  *)
(* and y.                                                                  *)
Tester(classes, ret, x, y, stmts) ==
    Program(Library \o classes
            \o <<Class("INITIAL", <<"Object">>, <<>>, <<>>,
                       <<Typed(Method("initial", <<>>, <<"x", "y">>, stmts),
                               Sig(<<>>, <<ret>>, <<>>, <<x, y>>))>>)>>)

-----------------------------------------------------------------------------
(* The repository's tests (src/test), with what they say of themselves.    *)
El == <<Simple("getEl", T("E"), Id("el")),
        Of1("setEl:", T("E"), T("E"), <<Put("el", Z)>>)>>
Each(e) == Block(<<"each">>, <<>>, <<Expr(e)>>)
Mapping ==
    Cltn(<<Typed(Method("map:", <<"z">>, <<>>, <<Return(New("Cltn"))>>),
                 Sig(<<"N">>, <<Of("Cltn", "N")>>,
                     << <<BlockOf(T("N"), <<T("E")>>)>> >>, <<>>))>>)
Mapped ==
    Program(Library \o <<Mapping,
        Class("Tester", <<"Object">>, <<>>, <<>>,
              <<Typed(Method("test", <<>>, <<"x", "y", "f">>,
                             <<Put("f", Each(Unary(Id("each"), "not"))),
                               Return(Msg(X, "map:", <<Id("f")>>)),
                               Return(Msg(Y, "map:", <<Id("f")>>))>>),
                      Sig(<<>>, <<T("True")>>, <<>>,
                          << <<Of("Cltn", "True")>>, <<Of("Cltn", "False")>>, <<>> >>))>>)>>)
Flow(test) ==
    Program(Library \o
        <<Class("Tester", <<"Object">>, <<>>, <<>>,
                <<Of1("test:", T("Float"), T("Object"),
                      <<Return(Msg(test, "ifTrue:ifFalse:",
                                   <<Block(<<>>, <<>>, <<Expr(Unary(Z, "asInteger"))>>),
                                     Block(<<>>, <<>>, <<Expr(SymLit("no"))>>)>>))>>)>>)>>)
Identity ==
    Class("Identity", <<"Object">>, <<>>, <<>>,
          <<Typed(Method("identity:", <<"z">>, <<>>, <<Return(Z)>>),
                  Sig(<<"T">>, <<T("T")>>, << <<T("T")>> >>, <<>>))>>)
Documented ==
    << Mapped,
       Flow(Msg(Z, "isKindOf:", <<Id("Character")>>)),
       Tester(<<Identity>>, T("True"), <<>>, <<>>,
              <<Put("x", New("Identity")), Return(Msg(X, "identity:", <<N(5)>>)),
                Return(Msg(X, "identity:", <<SymLit("m")>>))>>),
       Tester(<<Cltn(<<Simple("getEl", T("E"), Id("el"))>>),
                SubCltn(<<Of1("setEl:", T("S"), T("S"), <<Return(Assign("el", Z))>>)>>)>>,
              T("True"), <<>>, <<>>,
              <<Put("x", New("SubCltn")), Expr(Msg(X, "setEl:", <<N(5)>>)), Return(X)>>),
       Tester(<<Cltn(El), Assoc, Pairs(<<>>)>>, T("True"),
              <<Named("Pairs", <<T("Integer"), T("String")>>)>>, <<>>,
              <<Return(Unary(X, "getEl"))>>),
       Tester(<<Cltn(El), SubCltn(<<>>)>>, Of("Cltn", "Integer"), <<>>, <<>>,
              <<Put("x", New("SubCltn")), Put("y", N(55)),
                Expr(Msg(X, "setEl:", <<Y>>)), Expr(Unary(X, "getEl")), Return(X)>>),
       Tester(<<>>, T("Boolean"), <<Either("True", "False")>>, <<>>,
              <<Return(Unary(X, "not"))>>) >>
Refused(spec) == <<"return", Sub!Spelled(spec)>>
Answers ==
    << <<Refused(Of("Cltn", "False")), Refused(Of("Cltn", "True"))>>,
       <<Refused(Either("Integer", "Symbol"))>>,
       <<Refused(T("Integer")), Refused(T("Symbol"))>>,
       <<Refused(Of("SubCltn", "Integer"))>>,
       <<Refused(Named("Assoc", <<T("Integer"), T("String")>>))>>,
       <<>>, <<>> >>

-----------------------------------------------------------------------------
(* Every type below is assigned to every one.                              *)
Numbered ==
    Typed(Class("Numbered", <<"SubCltn">>, <<"n">>, <<>>, <<>>),
          Header(<<>>, <<T("Integer")>>, << <<T("Integer")>> >>))
Generic == <<Cltn(El), SubCltn(<<>>), Assoc, Swapped, Pairs(<<>>), Numbered>>
Two(name, a, b) == Named(name, <<T(a), T(b)>>)
SomeTypes ==
    <<T("Object"), T("Integer"), T("Boolean"), T("True"), Of("Cltn", "Boolean"),
      Of("Cltn", "True"), Of("SubCltn", "True"), Of("SubCltn", "Integer"),
      Two("Assoc", "True", "Integer"), Two("Assoc", "Boolean", "Object"),
      Two("Swapped", "Integer", "True"), Two("Swapped", "True", "Integer"),
      Two("Pairs", "True", "Integer"), T("Numbered"),
      Named("Cltn", <<Two("Assoc", "Boolean", "Integer")>>),
      Named("Cltn", <<Of("SubCltn", "True")>>), Named("Cltn", <<Of("Cltn", "Boolean")>>),
      Either("True", "False"), Either("Integer", "Boolean"),
      UnionOf(<<Of("Cltn", "True"), T("Integer")>>)>>
AllPairs(F(_, _), s, t) ==
    [k \in 1 .. Len(s) * Len(t) |->
        F(s[((k - 1) \div Len(t)) + 1], t[((k - 1) % Len(t)) + 1])]
Assigning(a, b) == Tester(Generic, T("id"), <<b>>, <<a>>, <<Put("x", Y)>>)
Assignments == AllPairs(LAMBDA a, b : <<a, b>>, SomeTypes, SomeTypes)

(* Elements are asked of every collection, to be of each of some types.    *)
Collections == SelectSeq(SomeTypes, LAMBDA s : s.tag = "named"
                             /\ s.attr \in {"Cltn", "SubCltn", "Pairs", "Numbered"})
Elements == <<T("Object"), T("Integer"), T("True"), Of("Cltn", "Boolean"),
              Two("Assoc", "Boolean", "Integer"), Two("Assoc", "Integer", "True")>>
Asked == AllPairs(LAMBDA c, e : <<c, e>>, Collections, Elements)
Asking(c, e) == Tester(Generic, e, <<c>>, <<>>, <<Return(Unary(X, "getEl"))>>)

(* Programs that are to do what their types say: variables, messages to    *)
(* them and to what those answer, and to classes of which one adds to and  *)
(* one overrides what it inherits.  Some have a method that promises self, *)
(* and keep it or not.                                                     *)
Me(e) == <<Simple("me", T("self"), e)>>
Acting(me) ==
    <<Class("A", <<"Object">>, <<>>, <<Simple("make", T("instancetype"), Unary(Id("self"), "new"))>>,
            <<Simple("m", T("Integer"), N(3)), Simple("n", T("Symbol"), SymLit("m"))>>
            \o me),
      Class("B", <<"A">>, <<>>, <<>>,
            <<Simple("n", T("Symbol"), SymLit("n")), Simple("k", T("A"), New("A")),
              Simple("up", T("Symbol"), Unary(Id("super"), "n"))>>)>>
Sources == <<N(2), SymLit("m"), New("A"), New("B"), Unary(Id("B"), "make")>>
KeepingSelf == Me(Id("self"))
Uses ==
    [i \in 1 .. 8 |-> <<Acting(<<>>),
        <<X, Unary(X, "m"), Msg(X, "+", <<N(1)>>), Msg(X, "+", <<Unary(X, "m")>>),
          Unary(X, "k"), Unary(X, "up"), Unary(Unary(X, "k"), "n"),
          Cascade(X, <<Unary(X, "k"), Unary(X, "n")>>)>>[i]>>]
    \o << <<Acting(KeepingSelf), Unary(Unary(X, "me"), "k")>>,
          <<Acting(Me(New("A"))), Unary(Unary(X, "me"), "k")>>,
          <<Acting(Me(New("A"))), Unary(Unary(X, "me"), "m")>> >>
Results == <<T("Integer"), T("Symbol"), T("A"), T("B")>>
Variables == << <<>>, <<T("Integer")>>, <<T("A")>>, <<T("B")>>, <<T("Object")>> >>
ActingOn(v, ret, source, use) ==
    Tester(use[1], ret, v, <<>>, <<Put("x", source), Return(use[2])>>)
Actions ==
    AllPairs(LAMBDA p, q : ActingOn(p[1], p[2], q[1], q[2]),
             AllPairs(LAMBDA v, r : <<v, r>>, Variables, Results),
             AllPairs(LAMBDA s, u : <<s, u>>, Sources, Uses))

(* Programs that end in an exception: something is named that is not       *)
(* there, has no type, is given a wrong number of type arguments or is     *)
(* narrowed to what it cannot be, or a class is assigned to a variable of  *)
(* an instance.  The variables of their classes are to be right if they    *)
(* get that far.                                                           *)
Doing(stmts) == Tester(<<Cltn(El), Identity>>, T("id"), <<>>, <<>>, stmts)
Holding(spec, stmts) == Tester(<<Cltn(El), Identity>>, T("id"), <<spec>>, <<>>, stmts)
Narrowing(e, type) ==
    Expr(Msg(Msg(e, "isKindOf:", <<Id(type)>>), "ifTrue:ifFalse:",
             <<Block(<<>>, <<>>, <<Expr(X)>>), Block(<<>>, <<>>, <<Expr(N(1))>>)>>))
Throwing ==
    << Doing(<<Put("q", N(1))>>), Doing(<<Put("x", ArrayLit(<<N(1)>>))>>),
       Doing(<<Narrowing(Id("q"), "Character")>>), Doing(<<Narrowing(X, "q")>>),
       Holding(T("None"), <<>>), Holding(Two("Cltn", "True", "False"), <<>>),
       Holding(T("Integer"), <<Put("x", Id("Integer"))>>),
       Holding(T("Integer"), <<Narrowing(X, "Character")>>),
       Holding(Either("Integer", "True"), <<Narrowing(X, "True")>>),
       Program(Library \o <<Plain("B", "A"), Plain("A", "Object")>>),
       Program(<<Class("A", <<"Kernel", "Object">>, <<>>, <<>>, <<>>)>>),
       Program(Front(Library)),
       Tester(<<Mapping>>, T("id"), <<Of("Cltn", "True")>>, <<>>,
              <<Expr(Msg(X, "map:", <<Block(<<"each">>, <<"t">>, <<Put("t", Id("each"))>>)>>))>>)
    >>
(* And others that do not, whatever they report.                           *)
Reporting ==
    << Doing(<<Expr(Unary(Id("Cltn"), "none")), Expr(Unary(Id("super"), "none")),
               Expr(Unary(Id("thisContext"), "none")), Expr(Primitive("size", <<StrLit(<<1>>)>>)),
               Return(FloatLit)>>),
       Doing(<<Narrowing(X, "Character"), Expr(Unary(X, "asInteger")), Put("x", CharLit(1)),
               Put("x", N(1))>>),
       Holding(Either("Integer", "True"), <<Expr(Unary(X, "not"))>>),
       Holding(Of("Cltn", "Integer"), <<Put("y", Each(X)), Put("y", Each(Id("each"))),
                                        Put("y", Block(<<>>, <<>>, <<>>)), Put("y", N(1))>>),
       Program(Library \o <<Mapping, Class("Tester", <<"Object">>, <<>>, <<>>,
           <<Of1("test:", T("id"), Of("Cltn", "True"),
                 <<Return(Msg(Z, "map:", <<Each(Msg(Z, "map:", <<Each(Id("each"))>>))>>))>>)>>)>>),
       Tester(<<Mapping>>, T("id"), <<Of("Cltn", "True")>>, <<>>,
              <<Put("y", Each(Msg(X, "map:", <<Each(Id("each"))>>))),
                Expr(Msg(X, "map:", <<Y>>)), Expr(Msg(X, "map:", <<Y>>))>>)
    >>

MCPrograms ==
    Documented
    \o [i \in DOMAIN Assignments |-> Assigning(Assignments[i][1], Assignments[i][2])]
    \o [i \in DOMAIN Asked |-> Asking(Asked[i][1], Asked[i][2])]
    \o Actions \o Throwing \o Reporting

-----------------------------------------------------------------------------
FirstAssignment == Len(Documented)
FirstAsked == FirstAssignment + Len(Assignments)
FirstAction == FirstAsked + Len(Asked)
Finished == phase = "statements" /\ todo = <<>> /\ outcome = "going"
Reports ==
    [i \in DOMAIN checker.reports |->
        <<checker.reports[i].what, Sub!Shown(Nodes, checker.reports[i].type, checker.types)>>]

(* INVARIANT.  The repository's tests say beside their statements what the *)
(* checker is to answer (src/test/block.st, flow.st, genmeth.st,           *)
(* inherit.st, inherit2.st, subinfer.st, union.st).                        *)
TestsAgree ==
    Finished /\ program \in DOMAIN Documented => Reports = Answers[program]

(* INVARIANT.  One type can be assigned to another just if it is a subtype *)
(* of it by the declarations, however long the chain of superclasses and   *)
(* whatever their arguments (isSubtypeOf, instanceIsSubtypeOfInstance).    *)
SubtypeRight ==
    LET i == program - FirstAssignment
    IN  Finished /\ i \in DOMAIN Assignments =>
            (checker.reports = <<>>) =
                Sub!Subtype(Nodes, Assignments[i][1], Assignments[i][2])

(* INVARIANT.  A method that is inherited answers what it is declared to,  *)
(* with the type arguments of its class as they follow from those of the   *)
(* receiver (typeSend, typeInInvocation).                                  *)
ReplyTypeRight ==
    LET i == program - FirstAsked
        collection == CHOOSE s \in ToSet(Sub!Ancestry(Nodes, Asked[i][1])) : s.attr = "Cltn"
    IN  Finished /\ i \in DOMAIN Asked =>
            (checker.reports = <<>>) = Sub!Subtype(Nodes, collection.kids[1], Asked[i][2])

IvarsRight(nodes, c) ==
    LET params == TypesOf(c).params
        chain == Sub!Ancestry(nodes, Named(c.attr.name,
                                           [i \in DOMAIN params |-> T(params[i])]))
        declared(d, i, args) ==
            Sub!Spelled(Sub!Substitute(TypesOf(d).ivars[i][1], TypesOf(d).params, args))
        types == checker.classes[c.attr.name].frame.vars
        right(d, args) == \A i \in DOMAIN d.attr.ivars :
            Sub!Shown(nodes, types[d.attr.ivars[i]], checker.types) = declared(d, i, args)
    IN  \A k \in DOMAIN chain \cap 1 .. 2 :
            right(Sub!NodeOf(nodes, chain[k].attr), chain[k].kids)

(* INVARIANT.  An instance variable, of a class or of its superclass, has  *)
(* in the class the type it is declared with, the superclass' parameters   *)
(* being what the class says they are (registerIVars).                     *)
IvarTypesRight ==
    Finished => \A k \in Len(Library) + 1 .. Len(Nodes) : IvarsRight(Nodes, Nodes[k])

KeepsSelf(nodes) == Last(Sub!NodeOf(nodes, "A").kids) = Last(KeepingSelf)

(* INVARIANT.  What is accepted does not go wrong: every message is        *)
(* understood, and what is answered is of the type that was promised.      *)
(* Where the checker says that it falsely allows an instance as self, this *)
(* is so if the method does answer itself; if not, a program goes wrong of *)
(* which nothing else is said (isSubtypeOf, Typecheck.cc:296-301).         *)
TypesSound ==
    LET m == Sem!Meaning(Programs[program])
        promised == TypesOf(Last(Nodes).kids[1]).ret[1]
        accepted == checker.reports = <<>> /\ (checker.allowing => KeepsSelf(Nodes))
    IN  Finished /\ program - FirstAction \in DOMAIN Actions /\ accepted =>
            /\ m.ok
            /\ Sub!Subtype(Nodes, T(Sem!ClassOfValue(m, m.v).name), promised)
=============================================================================
