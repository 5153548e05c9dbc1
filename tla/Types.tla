------------------------------- MODULE Types -------------------------------
(***************************************************************************)
(* The type checker (Typecheck.cc, TypeFlow.cc).  Types are objects that   *)
(* are shared: a variable and every expression that names it have the same *)
(* one, and inferring what a type is overwrites it for all who share it.   *)
(* So here a type is a number, its place in the sequence of types made so  *)
(* far, which holds                                                        *)
(*   [kind, name, args]                                                    *)
(* where name is the class of an instance or a class, the declaration of a *)
(* type variable, or the number of a block; and args the type arguments of *)
(* an instance, or the members of a union.                                 *)
(*                                                                         *)
(* The state of the checker:                                               *)
(*   types      the types                                                  *)
(*   blocks     the block types, [node, args, ret], which types share too  *)
(*   nodes      what was typed as a block, [expr, ctx, checked]            *)
(*   globals    a frame; frames are [vars, types], from names to types     *)
(*   classes    by name, [node, frame, super, methods], once registered    *)
(*   reports    the errors reported, as [what, type]                       *)
(*   again      TRUE while the body of a block is checked once more        *)
(*   allowing   TRUE once it said that it falsely allows something         *)
(*   memory     "freed" once freed memory was read, which may still hold   *)
(*              what it did, "garbage" once what was never written was     *)
(*   ok         FALSE once the checker has thrown an exception or aborted  *)
(* An operator that yields a type answers [t, st].                         *)
(***************************************************************************)
EXTENDS Ast, SequencesExt

(* Types as they are written, and the annotations of a method (ret, and    *)
(* for arguments and locals <<>> or <<type>> each), of a class, or of none.*)
Named(name, args) == Node("named", name, args)
BlockOf(ret, args) == Node("blockOf", 0, <<ret>> \o args)
UnionOf(members) == Node("unionOf", 0, members)
Typed(node, types) == [node EXCEPT !.attr = @ @@ [types |-> types]]

Untyped(names) == [i \in DOMAIN names |-> <<>>]
TypesOf(node) ==
    IF "types" \in DOMAIN node.attr THEN node.attr.types
    ELSE IF node.tag = "class"
    THEN [params |-> <<>>, superArgs |-> <<>>, ivars |-> Untyped(node.attr.ivars)]
    ELSE [params |-> <<>>, ret |-> <<>>, args |-> Untyped(node.attr.args),
          locals |-> Untyped(node.attr.locals)]

-----------------------------------------------------------------------------
Ty(kind, name, args) == [kind |-> kind, name |-> name, args |-> args]
Unspecified == Ty("unspecified", <<>>, <<>>)
Instance(class, args) == Ty("instance", <<class>>, args)
TyVar(owner, method, i) == Ty("tyvar", <<owner, method, i>>, <<>>)
ClassName(ty) == ty.name[1]

Made(ty, st) ==
    [t |-> Len(st.types) + 1, st |-> [st EXCEPT !.types = Append(@, ty)]]
Same(t, st) == [t |-> t, st |-> st]
Spoilt(how, st) == [st EXCEPT !.memory = IF @ = "garbage" THEN @ ELSE how]
Fail(st) == Made(Unspecified, [st EXCEPT !.ok = FALSE])

(* What Op(x, st) yields for each x in turn: [ts, st].                     *)
Added(r, made) == [ts |-> Append(r.ts, made.t), st |-> made.st]
ForEach(Op(_, _), xs, st) ==
    FoldLeft(LAMBDA r, x : Added(r, Op(x, r.st)), [ts |-> <<>>, st |-> st], xs)

Fresh(n, st) == ForEach(LAMBDA i, s : Made(Unspecified, s), [i \in 1 .. n |-> i], st)

(* A type with arguments that were made for it.                            *)
MadeOf(kind, name, r) == Made(Ty(kind, name, r.ts), r.st)

(* Names in frames, the innermost last; 0 if there is none.                *)
LookupVar(frames, name) ==
    LET i == SelectLastInSeq(frames, LAMBDA f : name \in DOMAIN f.vars)
    IN  IF i = 0 THEN 0 ELSE frames[i].vars[name]
LookupType(frames, name) ==
    LET i == SelectLastInSeq(frames, LAMBDA f : name \in DOMAIN f.types)
    IN  IF i = 0 THEN 0 ELSE frames[i].types[name]
NoNames == [x \in {} |-> 0]
Frame(vars, types) == [vars |-> vars, types |-> types]

(* Type parameters as declared names, each the reference to a variable.    *)
Params(names, owner, method, st) ==
    ForEach(LAMBDA i, s : Made(TyVar(owner, method, i), s),
            [i \in DOMAIN names |-> i], st)
Naming(names, ts) ==
    [n \in ToSet(names) |-> ts[CHOOSE i \in DOMAIN names : names[i] = n]]

-----------------------------------------------------------------------------
(* resolveInTyEnv and constructInto: a named class without its arguments   *)
(* gets new ones, to be inferred.                                          *)
Reserved == [self |-> "self", instancetype |-> "instancetype", id |-> "id"]

Constructed(found, args, st) ==
    LET ty == st.types[found]
        n == Len(ty.args)
    IN  IF ty.kind = "instance" /\ Len(args.ts) \notin {0, n} THEN Fail(st)
        ELSE IF ty.kind = "instance" /\ args.ts = <<>>
        THEN MadeOf(ty.kind, ty.name, Fresh(n, args.st))
        ELSE MadeOf(ty.kind, ty.name, args)

NewBlock(node, ts, st) ==
    Made(Ty("block", <<Len(st.blocks) + 1>>, <<>>),
         [st EXCEPT !.blocks = Append(@, [node |-> node, args |-> Tail(ts),
                                          ret |-> Head(ts)])])

RECURSIVE Resolve(_, _, _)
ResolveAll(specs, frames, st) ==
    ForEach(LAMBDA e, s : Resolve(e, frames, s), specs, st)
ResolvedBlock(r) == NewBlock(0, r.ts, r.st)
Resolve(spec, frames, st) ==
    LET found == LookupType(frames, spec.attr)
    IN  IF spec.tag = "blockOf" THEN ResolvedBlock(ResolveAll(spec.kids, frames, st))
        ELSE IF spec.tag = "unionOf"
        THEN MadeOf("union", <<>>, ResolveAll(spec.kids, frames, st))
        ELSE IF spec.attr \in DOMAIN Reserved
        THEN Made(Ty(Reserved[spec.attr], <<>>, <<>>), st)
        ELSE IF found = 0 THEN Fail(st)
        ELSE Constructed(found, ResolveAll(spec.kids, frames, st), st)

ResolveOr(ty, spec, frames, st) ==
    IF spec = <<>> THEN Made(ty, st) ELSE Resolve(spec[1], frames, st)
Anything == Ty("id", <<>>, <<>>)

-----------------------------------------------------------------------------
(* Types as seen through a message: an invocation is [receiver, true,      *)
(* params], the last from declarations of type variables to types.         *)
Invocation(receiver, true, params) ==
    [receiver |-> receiver, true |-> true, params |-> params]

(* The type variables of a class bound to the arguments of an instance.    *)
Binding(class, method, ts) ==
    [d \in {<<class, method, i>> : i \in DOMAIN ts} |-> ts[d[3]]]

Copied(r, node) == NewBlock(node, r.ts, r.st)
Parts(b) == <<b.ret>> \o b.args
CopyOf(t, st) == Made(st.types[t], st)
\* Mutation: a block is not copied before it is passed.
blockShared(t, st) == Same(t, st)
BlockCopyIfNecessary(t, st) ==
    LET b == st.blocks[st.types[t].name[1]]
    IN  IF st.types[t].kind # "block" THEN Same(t, st)
        ELSE Copied(ForEach(CopyOf, Parts(b), st), b.node)

RECURSIVE InInvocation(_, _, _)
\* Mutation: type arguments are left as they are.
argsAsTheyAre(ts, inv, st) == [ts |-> ts, st |-> st]
AllInInvocation(ts, inv, st) ==
    ForEach(LAMBDA t, s : InInvocation(t, inv, s), ts, st)
(* The parts of a block are copied first.                                  *)
PartInInvocation(inv, t, st) ==
    IF st.types[t].kind = "unspecified" THEN CopyOf(t, st)
    ELSE InInvocation(t, inv, st)
InInvocation(t, inv, st) ==
    LET ty == st.types[t]
        true == st.types[inv.true]
        b == st.blocks[ty.name[1]]
    IN  CASE ty.kind \in {"union", "instance"} ->
                MadeOf(ty.kind, ty.name, AllInInvocation(ty.args, inv, st))
          [] ty.kind = "block" ->
                Copied(ForEach(LAMBDA p, s : PartInInvocation(inv, p, s), Parts(b), st),
                       b.node)
          [] ty.kind = "self" -> Same(inv.receiver, st)
          [] ty.kind = "instancetype" ->
                IF true.kind \notin {"class", "instance"} THEN Fail(st)
                ELSE Constructed(st.globals.types[ClassName(true)],
                                 [ts |-> <<>>, st |-> st], st)
          [] ty.kind = "tyvar" -> IF ty.name \in DOMAIN inv.params
                                  THEN Same(inv.params[ty.name], st) ELSE Fail(st)
          [] ty.kind \in {"id", "class", "unspecified"} -> Same(t, st)
          [] ty.kind = "super" -> Fail(st)

-----------------------------------------------------------------------------
(* Subtyping: [holds, st].  A type that is not known yet becomes the other *)
(* one.  A context of typing is [frames, ret]: the names in sight and the  *)
(* type that the method is to return.                                      *)
Holds(b, st) == [holds |-> b, st |-> st]
Become(t, ty, st) == Holds(TRUE, [st EXCEPT !.types[t] = ty])

RECURSIVE IsSubtypeOf(_, _, _), TypeOf(_, _, _), TypeSend(_, _, _, _, _),
          TypeCheckBlock(_, _, _)

Every(pairs, st) ==
    FoldLeft(LAMBDA r, p : IF r.holds THEN IsSubtypeOf(p[1], p[2], r.st) ELSE r,
             Holds(TRUE, st), pairs)
AnyHolds(t, ts, st) ==
    FoldLeft(LAMBDA r, u : IF r.holds THEN r ELSE IsSubtypeOf(t, u, r.st),
             Holds(FALSE, st), ts)

(* The block's own, unnamed type variable stands for a return type that is *)
(* not known before its body is checked, on the arguments it will get.     *)
RetUnknown(b, st) ==
    st.types[b.ret].kind = "tyvar" /\ st.types[b.ret].name[1] = ""
         /\ st.types[b.ret].name[3] = 0
WithRet(n, r) == [r.st EXCEPT !.blocks[n].ret = r.t]
BlockReturns(n, m, r) ==
    IF ~r.holds THEN r
    ELSE IsSubtypeOf(r.st.blocks[m].ret, r.st.blocks[n].ret, r.st)
ArgsThenBody(n, m, r) ==
    IF r.holds /\ RetUnknown(r.st.blocks[n], r.st)
    THEN Holds(TRUE, WithRet(n, TypeCheckBlock(n, r.st.blocks[m].args, r.st))) ELSE r
BlockIsSubtype(n, m, st) ==
    IF Len(st.blocks[n].args) > Len(st.blocks[m].args)
    THEN Holds(FALSE, Spoilt("garbage", st))
    ELSE BlockReturns(n, m, ArgsThenBody(n, m,
            Every([i \in DOMAIN st.blocks[n].args |->
                      <<st.blocks[n].args[i], st.blocks[m].args[i]>>], st)))

(* The superclass' type with the arguments of the instance put in.         *)
AsSuper(t, params, receiver, st) ==
    InInvocation(st.classes[ClassName(st.types[t])].super,
                 Invocation(receiver, receiver,
                            Binding(ClassName(st.types[t]), 0, st.types[t].args) @@ params),
                 st)
ThenSubtype(r, b) == IsSubtypeOf(r.t, b, r.st)
\* Mutation: type arguments are not compared.
sameClass(a, b, st) ==
    IF ClassName(st.types[a]) = ClassName(st.types[b]) THEN Holds(TRUE, st)
    ELSE IF st.classes[ClassName(st.types[a])].super = 0 THEN Holds(FALSE, st)
    ELSE ThenSubtype(AsSuper(a, NoNames, b, st), b)
InstanceIsSubtype(a, b, st) ==
    LET ta == st.types[a]
        tb == st.types[b]
    IN  IF ClassName(ta) = ClassName(tb)
        THEN IF Len(ta.args) = Len(tb.args)
             THEN Every([i \in DOMAIN ta.args |-> <<ta.args[i], tb.args[i]>>], st)
             ELSE Holds(ta.args = <<>>, st)
        ELSE IF st.classes[ClassName(ta)].super = 0 THEN Holds(FALSE, st)
        ELSE ThenSubtype(AsSuper(a, NoNames, b, st), b)

(* What the checker cannot tell, it allows, and says so: "Falsely          *)
(* allowing".                                                              *)
FalselyAllowed(st) == Holds(TRUE, [st EXCEPT !.allowing = TRUE])

(* A type variable allows everything, by the same words, unless it has a   *)
(* bound.  No declaration has one here: the grammar takes them, but nobody *)
(* resolves them (Parser.y:566-573).  Of a block's argument the bound is   *)
(* read where the declaration was before the vector of them grew.          *)
ReadBound(ty, st) ==
    FalselyAllowed(IF ty.name[1] = "" /\ ty.name[3] # 0 THEN Spoilt("freed", st) ELSE st)

IsSubtypeOf(a, b, st) ==
    LET ta == st.types[a]
        tb == st.types[b]
    IN  IF tb.kind = "unspecified" THEN Become(b, ta, st)
        ELSE IF "id" \in {ta.kind, tb.kind} THEN Holds(TRUE, st)
        ELSE IF tb.kind = "block" /\ ta.kind # "block" THEN Holds(FALSE, st)
        ELSE IF ta.kind = "union"
        THEN Every([i \in DOMAIN ta.args |-> <<ta.args[i], b>>], st)
        ELSE IF tb.kind = "union" THEN AnyHolds(a, tb.args, st)
        ELSE CASE ta.kind = "unspecified" -> Become(a, tb, st)
               [] ta.kind = "block" -> IF tb.kind # "block" THEN Holds(FALSE, st)
                                       ELSE BlockIsSubtype(ta.name[1], tb.name[1], st)
               [] ta.kind = "tyvar" -> ReadBound(ta, st)
               [] ta.kind = "instance" ->
                    (CASE tb.kind \in {"self", "instancetype"} -> FalselyAllowed(st)
                       [] tb.kind = "tyvar"    -> ReadBound(tb, st)
                       [] tb.kind = "class"    -> Holds(FALSE, st)
                       [] tb.kind = "instance" -> InstanceIsSubtype(a, b, st)
                       [] OTHER -> Holds(FALSE, [st EXCEPT !.ok = FALSE]))
               [] OTHER -> Holds(FALSE, [st EXCEPT !.ok = FALSE])

-----------------------------------------------------------------------------
(* Sending a message of some selector and types of arguments, a call, to a *)
(* type.  What is wrong with it is reported, and goes on.                  *)
Reported(what, t, r) ==
    IF r.holds THEN r.st
    ELSE [r.st EXCEPT !.reports = Append(@, [what |-> what, type |-> t])]
Expect(t, formal, what, shown, st) == Reported(what, shown, IsSubtypeOf(t, formal, st))
NotUnderstood(t, st) == Made(Anything, Reported("selector", t, Holds(FALSE, st)))

(* Each argument is held against the formal one; a block for an instance's *)
(* method in a copy of its type.                                           *)
Against(formal, arg) == Expect(arg.t, formal, "argument", arg.t, arg.st)
Pass(formal, arg, own, inv) ==
    IF own THEN Against(formal.t, BlockCopyIfNecessary(arg, formal.st))
    ELSE Expect(arg, formal.t, "argument", inv.receiver, formal.st)
Invoke(m, call, own, inv, st) ==
    InInvocation(m.ret, inv,
        FoldLeftDomain(LAMBDA s, i : Pass(InInvocation(m.args[i], inv, s),
                                          call.args[i], own, inv),
                       st, call.args))
InvokeGeneric(class, m, call, inv, r) ==
    Invoke(m, call, TRUE, [inv EXCEPT !.params = Binding(class, m.index, r.ts) @@ @], r.st)

MethodOf(methods, sel) == SelectLastInSeq(methods, LAMBDA m : m.sel = sel)
ToSuper(r, call, inv) == TypeSend(r.t, call, FALSE, inv, r.st)
ToInstance(name, call, skip, inv, st) ==
    LET class == st.classes[name]
        i == IF skip THEN 0 ELSE MethodOf(class.iMethods, call.sel)
    IN  IF i # 0
        THEN InvokeGeneric(name, class.iMethods[i], call, inv,
                           Fresh(class.iMethods[i].params, st))
        ELSE IF class.super = 0 THEN NotUnderstood(inv.true, st)
        ELSE ToSuper(InInvocation(class.super, inv, st), call, inv)
ToClass(t, call, inv, st) ==
    LET class == st.classes[ClassName(st.types[t])]
        i == MethodOf(class.cMethods, call.sel)
    IN  IF i # 0 THEN Invoke(class.cMethods[i], call, FALSE, inv, st)
        ELSE IF class.super = 0 THEN NotUnderstood(t, st)
        ELSE TypeSend(st.globals.vars[ClassName(st.types[class.super])],
                      call, FALSE, inv, st)

TypeSend(t, call, skip, inv, st) ==
    LET ty == st.types[t]
    IN  CASE ty.kind = "union" ->
                MadeOf("union", <<>>,
                       ForEach(LAMBDA m, s :
                                   TypeSend(m, call, FALSE,
                                            Invocation(inv.true, inv.true, NoNames), s),
                               ty.args, st))
          [] ty.kind = "instance" ->
                ToInstance(ClassName(ty), call, skip,
                           Invocation(inv.true, inv.true,
                                      Binding(ClassName(ty), 0, ty.args) @@ inv.params),
                           st)
          [] ty.kind = "class" -> ToClass(t, call, [inv EXCEPT !.receiver = t], st)
          [] OTHER -> Made(Anything, st)

(* A message to super goes to the type of self, past its own class.        *)
FullSend(t, sel, skip, args) ==
    TypeSend(t, [sel |-> sel, args |-> args.ts], skip, Invocation(t, t, NoNames), args.st)
SendFrom(t, sel, ctx, args) ==
    IF args.st.types[t].kind = "super"
    THEN FullSend(LookupVar(ctx.frames, "self"), sel, TRUE, args)
    ELSE FullSend(t, sel, FALSE, args)

-----------------------------------------------------------------------------
(* Expressions and statements, in a context [frames, ret].                 *)
In(ctx, frame) == [ctx EXCEPT !.frames = Append(@, frame)]
TypeAll(es, ctx, st) == ForEach(LAMBDA e, s : TypeOf(e, ctx, s), es, st)

(* `v isKindOf: C' decides what v is in the arm that runs when it holds,   *)
(* if that is no less than what was known of it.                           *)
InfersFlow(e) ==
    /\ e.tag = "msg" /\ e.attr = "isKindOf:"
    /\ e.kids[1].tag = "id" /\ e.kids[2].tag = "id"
Narrowed(name, t, ctx, r) ==
    [frame |-> Frame([v \in {name} |-> t], NoNames),
     st |-> IF r.holds THEN r.st ELSE Fail(r.st).st]
Narrow(name, old, new, ctx, st) ==
    Narrowed(name, new, ctx,
             IF 0 \in {old, new} THEN Holds(FALSE, st)
             ELSE IF st.types[old].kind = "union" THEN Holds(FALSE, st)
             ELSE IsSubtypeOf(new, old, st))
BothArms(e, ctx, n) ==
    ForEach(LAMBDA i, s : TypeOf(e.kids[i], IF i = 2 THEN In(ctx, n.frame) ELSE ctx, s),
            <<2, 3>>, n.st)
TypeArgs(e, ctx, cascaded, st) ==
    LET test == e.kids[1]
    IN  IF ~cascaded /\ e.attr = "ifTrue:ifFalse:" /\ InfersFlow(test)
        THEN BothArms(e, ctx,
                      Narrow(test.kids[1].attr, LookupVar(ctx.frames, test.kids[1].attr),
                             LookupType(ctx.frames, test.kids[2].attr), ctx, st))
        ELSE TypeAll(Tail(e.kids), ctx, st)
FullType(e, ctx, cascaded, recv) ==
    SendFrom(recv.t, e.attr, ctx, TypeArgs(e, ctx, cascaded, recv.st))

(* Every message of a cascade goes to the one receiver.                    *)
\* Mutation: a cascade is of the type of its receiver.
cascadeOfReceiver(messages, ctx, recv) ==
    Same(recv.t, FoldLeft(LAMBDA s, m : FullType(m, ctx, TRUE, Same(recv.t, s)).st,
                          recv.st, messages))
TypeCascade(messages, ctx, recv) ==
    FoldLeft(LAMBDA r, m : FullType(m, ctx, TRUE, Same(recv.t, r.st)), recv, messages)

(* A block has new type variables, <<"", its number, argument>>, the last  *)
(* one, 0, for what it returns.  Typed once more it finds its annotations  *)
(* set, and leaves the return type unset.                                  *)
WithNode(r, node) == NewBlock(Len(r.st.nodes) + 1, <<Last(r.ts)>> \o Front(r.ts),
                              [r.st EXCEPT !.nodes = Append(@, node)])
TypeBlock(e, ctx, st) ==
    WithNode(ForEach(LAMBDA i, s : Made(TyVar("", Len(st.blocks) + 1, i), s),
                     [i \in 1 .. Len(e.attr.args) |-> i] \o <<0>>,
                     IF st.again THEN Spoilt("garbage", st) ELSE st),
             [expr |-> e, ctx |-> ctx, checked |-> FALSE])

Equal(lhs, rhs) == Same(lhs, Expect(rhs.t, lhs, "assign", rhs.t, rhs.st))
TypeAssign(e, ctx, lhs) == Equal(lhs.t, TypeOf(e.kids[2], ctx, lhs.st))
TypeOf(e, ctx, st) ==
    CASE e.tag \in DOMAIN st.known -> Same(st.known[e.tag], st)
      [] e.tag = "array" -> Fail(st)
      [] e.tag = "id" ->
            IF IsSuper(e) THEN Made(Ty("super", <<>>, <<>>), st)
            ELSE IF LookupVar(ctx.frames, e.attr) = 0 THEN Fail(st)
            ELSE Same(LookupVar(ctx.frames, e.attr), st)
      [] e.tag = "assign" -> TypeAssign(e, ctx, TypeOf(e.kids[1], ctx, st))
      [] e.tag = "msg" -> FullType(e, ctx, FALSE, TypeOf(e.kids[1], ctx, st))
      [] e.tag = "cascade" -> TypeCascade(Tail(e.kids), ctx, TypeOf(e.kids[1], ctx, st))
      [] e.tag = "prim" -> Made(Anything, TypeAll(e.kids, ctx, st).st)
      [] e.tag = "block" -> TypeBlock(e, ctx, st)

Returns(ctx, r) == Expect(r.t, ctx.ret, "return", r.t, r.st)
TypeCheckStmt(stmt, ctx, st) ==
    IF stmt.tag = "return" THEN Returns(ctx, TypeOf(stmt.kids[1], ctx, st))
    ELSE TypeOf(stmt.kids[1], ctx, st).st

(* The body of a block, on types of its arguments: it is of the type of    *)
(* its last statement, if that is an expression.                           *)
BodyStmt(stmt, last, ctx, r) ==
    IF last /\ stmt.tag = "expr" THEN TypeOf(stmt.kids[1], ctx, r.st)
    ELSE Same(0, TypeCheckStmt(stmt, ctx, r.st))
TypeBody(stmts, ctx, st) ==
    FoldLeftDomain(LAMBDA r, i : BodyStmt(stmts[i], i = Len(stmts), ctx, r),
                   Same(0, st), stmts)
Body(r, again) ==
    IF r.t = 0 THEN Made(Anything, [r.st EXCEPT !.again = again])
    ELSE Same(r.t, [r.st EXCEPT !.again = again])
TypeCheckBlock(n, argTs, st) ==
    LET i == st.blocks[n].node
        node == st.nodes[i]
        args == SubSeq(node.expr.attr.args, 1, Len(st.blocks[n].args))
    IN  Body(TypeBody(node.expr.kids,
                      In(node.ctx, Frame(Naming(args, argTs), NoNames)),
                      [st EXCEPT !.again = node.checked, !.nodes[i].checked = TRUE]),
             st.again)

-----------------------------------------------------------------------------
(* The passes before that.  A class has the type of itself and the master  *)
(* of the types of its instances.                                          *)
FindOrCreateClass(node, s) ==
    LET name == node.attr.name
        made == Made(Ty("class", <<name>>, <<>>), s)
        master == MadeOf("instance", <<name>>,
                         Params(TypesOf(node).params, name, 0, made.st))
    IN  IF name \in DOMAIN s.globals.vars THEN s
        ELSE [master.st EXCEPT !.globals = Frame((name :> made.t) @@ @.vars,
                                                 (name :> master.t) @@ @.types)]

(* A method's return type, arguments and locals; what is not annotated may *)
(* be anything, except that a local is to be inferred.                     *)
Annotations(a) ==
    <<<<Anything, a.ret>>>> \o [i \in DOMAIN a.args |-> <<Anything, a.args[i]>>]
    \o [i \in DOMAIN a.locals |-> <<Unspecified, a.locals[i]>>]
ResolveEach(annotations, frames, st) ==
    ForEach(LAMBDA a, s : ResolveOr(a[1], a[2], frames, s), annotations, st)

MethodType(node, index, names, types, master, r) ==
    LET nArgs == Len(node.attr.args)
        variables == node.attr.args \o node.attr.locals
    IN  [t |-> [sel |-> node.attr.sel, index |-> index, params |-> Cardinality(DOMAIN types),
                ret |-> r.ts[1], args |-> SubSeq(r.ts, 2, nArgs + 1),
                frame |-> Frame(("self" :> master) @@ Naming(variables, Tail(r.ts)), types)],
         st |-> r.st]
MethodIn(node, index, master, frames, names, p) ==
    MethodType(node, index, names, Naming(names, p.ts), master,
               ResolveEach(Annotations(TypesOf(node)),
                           Append(frames, Frame(NoNames, Naming(names, p.ts))), p.st))
RegMethod(class, index, node, frames, st) ==
    MethodIn(node, index, st.globals.types[class], frames, TypesOf(node).params,
             Params(TypesOf(node).params, class, index, st))

(* The variables of a superclass, and again those of its own, now with the *)
(* arguments its declaration gives them and not those of the subclass.     *)
RECURSIVE RegisterIVars(_, _, _)
SeenVars(names, r) == [vars |-> Naming(names, r.ts), st |-> r.st]
\* Mutation: inherited variables keep the parameters of the superclass.
ivarsUnbound(class, names, inv, st) ==
    SeenVars(names, [ts |-> [i \in DOMAIN names |-> class.frame.vars[names[i]]], st |-> st])
IVarsOf(class, names, inv, st) ==
    SeenVars(names, ForEach(LAMBDA v, s : InInvocation(class.frame.vars[v], inv, s), names, st))
OverOwn(own, r) == [r EXCEPT !.vars = @ @@ own]
AndSuper(super, inv, r) ==
    IF super = 0 THEN r
    ELSE OverOwn(r.vars, RegisterIVars(super, inv, r.st))
RegisterIVars(t, inv, st) ==
    LET ty == st.types[t]
        class == st.classes[ClassName(ty)]
        bound == [inv EXCEPT !.params = Binding(ClassName(ty), 0, ty.args) @@ @]
    IN  AndSuper(class.super, bound,
                 IVarsOf(class, SetToSeq(DOMAIN class.frame.vars), bound, st))

(* A class: its superclass, which has to be registered before it, its      *)
(* variables and its methods.                                              *)
Methods(node, frames, st) ==
    ForEach(LAMBDA i, s : RegMethod(node.attr.name, i, node.kids[i], frames, s),
            [i \in DOMAIN node.kids |-> i], st)
Registered(node, super, frame, r) ==
    [r.st EXCEPT !.classes = @ @@
        (node.attr.name :> [frame |-> frame, super |-> super,
                            cMethods |-> SubSeq(r.ts, 1, node.attr.nClass),
                            iMethods |-> SubSeq(r.ts, node.attr.nClass + 1, Len(r.ts))])]
WithOwnVars(node, super, types, vars, r) ==
    Registered(node, super,
               Frame(Naming(node.attr.ivars, r.ts) @@ vars, types),
               Methods(node, <<r.st.globals, Frame(NoNames, types)>>, r.st))
WithVars(node, super, types, r) ==
    WithOwnVars(node, super, types, r.vars,
                ResolveEach([i \in DOMAIN node.attr.ivars |->
                                <<Anything, TypesOf(node).ivars[i]>>],
                            <<r.st.globals, Frame(NoNames, types)>>, r.st))
Inheriting(node, types, r) ==
    IF ~r.st.ok \/ ClassName(r.st.types[r.t]) \notin DOMAIN r.st.classes
    THEN Fail(r.st).st
    ELSE WithVars(node, r.t, types,
                  RegisterIVars(r.t, Invocation(r.st.globals.types[node.attr.name],
                                                r.st.globals.types[node.attr.name], NoNames),
                                r.st))
WithParams(node, types, st) ==
    IF node.attr.super = <<"nil">> THEN WithVars(node, 0, types, [vars |-> NoNames, st |-> st])
    ELSE IF Len(node.attr.super) > 1 THEN Fail(st).st
    ELSE Inheriting(node, types,
                    Resolve(Named(node.attr.super[1], TypesOf(node).superArgs),
                            <<st.globals, Frame(NoNames, types)>>, st))
ParamsOfClass(node, names, p) == WithParams(node, Naming(names, p.ts), p.st)
TypeRegClass(node, st) ==
    ParamsOfClass(node, TypesOf(node).params,
                  Params(TypesOf(node).params, node.attr.name, 0, st))

(* The global variables, and the types of literals.                        *)
GlobalTypes ==
    <<<<"thisContext", "Dictionary">>, <<"classes", "Dictionary">>,
      <<"symbols", "SymbolTable">>, <<"smalltalk", "Smalltalk">>,
      <<"systemProcess", "Process">>, <<"thisProcess", "Process">>,
      <<"scheduler", "Scheduler">>, <<"nil", "UndefinedObject">>, <<"true", "True">>,
      <<"false", "False">>, <<"stdOut", "File">>>>
LiteralTypes ==
    <<<<"char", "Character">>, <<"float", "Float">>, <<"int", "Integer">>,
      <<"sym", "Symbol">>, <<"str", "String">>>>
ResolveNamed(pairs, st) ==
    ResolveAll([i \in DOMAIN pairs |-> Named(pairs[i][2], <<>>)], <<st.globals>>, st)
NamesOf(pairs) == [i \in DOMAIN pairs |-> pairs[i][1]]
WithKnown(r) == [r.st EXCEPT !.known = Naming(NamesOf(LiteralTypes), r.ts)]
AndLiterals(r) ==
    WithKnown(ResolveNamed(LiteralTypes,
        [r.st EXCEPT !.globals.vars = Naming(NamesOf(GlobalTypes), r.ts) @@ @]))
GlobalsToo(st) == IF st.ok THEN AndLiterals(ResolveNamed(GlobalTypes, st)) ELSE st
TypeRegProgram(nodes, st) ==
    GlobalsToo(
        FoldLeft(LAMBDA s, n : IF s.ok THEN TypeRegClass(n, s) ELSE s, st, nodes))

-----------------------------------------------------------------------------
(* Before all that, and what is done to a program: its classes, whatever   *)
(* namespaces they are in, by name.                                        *)
NewChecker ==
    [types |-> <<>>, blocks |-> <<>>, nodes |-> <<>>, globals |-> Frame(NoNames, NoNames),
     classes |-> NoNames, known |-> NoNames, reports |-> <<>>, again |-> FALSE,
     allowing |-> FALSE, memory |-> "sound", ok |-> TRUE]
RECURSIVE ClassNodes(_)
ClassNodes(node) ==
    IF node.tag = "class" THEN <<node>>
    ELSE FoldLeft(LAMBDA s, d : s \o ClassNodes(d), <<>>, node.kids)
MethodCtx(class, method, st) ==
    [frames |-> <<st.globals, st.classes[class].frame, method.frame>>, ret |-> method.ret]

(* The statements of the methods of instances, each as the number of its   *)
(* class, that of its method and its own.                                  *)
Statements(nodes) ==
    LET ofMethod(c, m) == [s \in DOMAIN nodes[c].kids[m].kids |-> <<c, m, s>>]
        ofClass(c) == [i \in 1 .. Len(nodes[c].kids) - nodes[c].attr.nClass |->
                          ofMethod(c, nodes[c].attr.nClass + i)]
    IN  FlattenSeq(FlattenSeq([c \in DOMAIN nodes |-> ofClass(c)]))
CheckIn(node, m, s, st) ==
    TypeCheckStmt(node.kids[m].kids[s],
                  MethodCtx(node.attr.name,
                            st.classes[node.attr.name].iMethods[m - node.attr.nClass], st),
                  st)
TypeCheckAt(nodes, at, st) == CheckIn(nodes[at[1]], at[2], at[3], st)

(* The whole of it at once, to the first exception.                        *)
RegisterAll(nodes, st) == FoldLeft(LAMBDA s, n : FindOrCreateClass(n, s), st, nodes)
TypeCheckAll(nodes) ==
    FoldLeft(LAMBDA s, at : IF s.ok THEN TypeCheckAt(nodes, at, s) ELSE s,
             TypeRegProgram(nodes, RegisterAll(nodes, NewChecker)), Statements(nodes))
=============================================================================
