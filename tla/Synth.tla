------------------------------- MODULE Synth -------------------------------
(***************************************************************************)
(* Synthesis (Synth.cc): resolving every identifier of a method to a       *)
(* variable, and finding which variables blocks share with the code that   *)
(* surrounds them.  A variable that a block uses from outside is promoted: *)
(* it moves to the heap variables of the scope that declares it, and the   *)
(* block sees them as its parent's heap variables.  A block between the    *)
(* two promotes the parent's variable once more, into a copy of its own.   *)
(*                                                                         *)
(* The result of a pass is [node, st]: the tree with its annotations and   *)
(* the state of synthesis, which is                                        *)
(*   scopes  the method's scope and its blocks', each in its parent's      *)
(*           reach by number; heap[i].of is the variable promoted to i     *)
(*   ivars   the instance variables of the class                           *)
(*   ok      FALSE once an assertion of the compiler has failed            *)
(***************************************************************************)
EXTENDS Ast, SequencesExt

Scope(kind, parent, args) ==
    [kind |-> kind, parent |-> parent, args |-> args, locals |-> <<>>,
     heap |-> <<>>]

(* A variable: its kind, the scope and the index it has there, its name.   *)
Var(kind, scope, index, name) ==
    [kind |-> kind, scope |-> scope, index |-> index, name |-> name]
ParentsHeapVar(index, name) == Var("parent", 0, index, name)

(* Where a name is in a list, 0 if it is not.                              *)
Position(names, name) == SelectInSeq(names, LAMBDA n : n = name)
HeapPosition(scope, name) ==
    SelectInSeq(scope.heap, LAMBDA h : h.name = name)

(* The index of the heap variable that v was promoted to, 0 if it was not: *)
(* promotedIndex, and parentHeapVarToMyHeapVar for a parent's variable.    *)
PromotedIndex(scope, v) == SelectInSeq(scope.heap, LAMBDA h : h.of = v)

Found(v, st) == [var |-> v, st |-> st]

Promote(v, s, st) ==
    Found(ParentsHeapVar(Len(st.scopes[s].heap) + 1, v.name),
          [st EXCEPT !.scopes[s].heap =
               Append(@, [name |-> v.name, of |-> v])])

ClassLookup(name, st) ==
    IF Position(st.ivars, name) # 0
    THEN Var("inst", 0, Position(st.ivars, name), name)
    ELSE Var("global", 0, 0, name)

(* The local or argument called name in a scope; kind "none" if neither.   *)
OwnVar(name, s, st, first, second) ==
    LET scope == st.scopes[s]
        Of(kind) == Position(IF kind = "local" THEN scope.locals
                                               ELSE scope.args, name)
    IN  IF Of(first) # 0 THEN Var(first, s, Of(first), name)
        ELSE IF Of(second) # 0 THEN Var(second, s, Of(second), name)
        ELSE Var("none", s, 0, name)

(* What a block finds in the scope around it (lookupFromBlock).            *)
\* Mutation: the block between uses the outer block's index.
outerUnchanged(s, outer) == outer
FromOuter(s, outer) ==
    IF outer.var.kind = "parent" THEN Promote(outer.var, s, outer.st) ELSE outer

RECURSIVE LookupFromBlock(_, _, _)
LookupFromBlock(name, s, st) ==
    LET scope == st.scopes[s]
        own == OwnVar(name, s, st, "local", "arg")
    IN  IF HeapPosition(scope, name) # 0
        THEN Found(ParentsHeapVar(HeapPosition(scope, name), name), st)
        ELSE IF own.kind # "none" THEN Promote(own, s, st)
        ELSE IF scope.kind = "method" THEN Found(ClassLookup(name, st), st)
        ELSE FromOuter(s, LookupFromBlock(name, scope.parent, st))

Lookup(name, s, st) ==
    LET scope == st.scopes[s]
        ownOfMethod == OwnVar(name, s, st, "local", "arg")
        ownOfBlock == OwnVar(name, s, st, "arg", "local")
    IN  IF scope.kind = "method"
        THEN Found(IF ownOfMethod.kind # "none" THEN ownOfMethod
                   ELSE ClassLookup(name, st), st)
        ELSE IF HeapPosition(scope, name) # 0
        THEN Found(Var("heap", s, HeapPosition(scope, name), name), st)
        ELSE IF ownOfBlock.kind # "none" THEN Found(ownOfBlock, st)
        ELSE LookupFromBlock(name, scope.parent, st)

(* addLocal: a second local of the same name aborts the compiler.          *)
AddLocals(names, s, st) ==
    FoldLeft(LAMBDA t, n :
                 [t EXCEPT !.ok = @ /\ Position(t.scopes[s].locals, n) = 0,
                           !.scopes[s].locals = Append(@, n)],
             st, names)

(* Which children of a message are compiled in line.                       *)
InlineKids(node) ==
    IF node.tag # "msg" THEN {}
    ELSE CASE SpecialKind(node) \in Loops        -> DOMAIN node.kids
           [] SpecialKind(node) \in Conditionals -> DOMAIN node.kids \ {1}
           [] OTHER                              -> {}

(* What a node does before its children.  A block opens a scope; in line,  *)
(* it puts its locals among those of the code around it and may have no    *)
(* arguments.  A primitive must be in the table.                           *)
OpensScope(node, inline) == node.tag = "block" /\ ~inline
Before(node, inline, s, st) ==
    CASE OpensScope(node, inline) ->
            AddLocals(node.attr.locals, Len(st.scopes) + 1,
                      [st EXCEPT !.scopes =
                          Append(@, Scope("block", s, node.attr.args))])
      [] node.tag = "block" /\ inline ->
            AddLocals(node.attr.locals, s,
                      [st EXCEPT !.ok = @ /\ node.attr.args = <<>>])
      [] node.tag = "prim" -> [st EXCEPT !.ok = @ /\ PrimIndex(node.attr) # 0]
      [] OTHER -> st

WithKid(r, i, kid) ==
    [node |-> [r.node EXCEPT !.kids[i] = kid.node], st |-> kid.st]
Resolved(node, found) ==
    [node |-> [node EXCEPT !.note = <<found.var>>], st |-> found.st]

RECURSIVE SynthInScope(_, _, _, _)

SynthKids(node, s, st) ==
    FoldLeftDomain(
        LAMBDA r, i : WithKid(r, i, SynthInScope(node.kids[i],
                                                 i \in InlineKids(node), s, r.st)),
        [node |-> node, st |-> st], node.kids)

(* synthInScope and, for what is inline, synthInline.                      *)
SynthInScope(node, inline, s, st) ==
    LET b == Len(st.scopes) + 1
        opens == OpensScope(node, inline)
    IN  IF node.tag \in Literals THEN [node |-> node, st |-> st]
        ELSE IF node.tag = "id" THEN Resolved(node, Lookup(node.attr, s, st))
        ELSE SynthKids(IF opens THEN [node EXCEPT !.note = <<b>>] ELSE node,
                       IF opens THEN b ELSE s, Before(node, inline, s, st))

(* synthInClassScope: the method keeps its scopes in its annotation.       *)
Scoped(r) == [r.node EXCEPT !.note = <<r.st>>]
SynthMethod(m, ivars) ==
    Scoped(SynthKids(m, 1,
        AddLocals(m.attr.locals, 1,
                  [scopes |-> <<Scope("method", 0, m.attr.args)>>,
                   ivars |-> ivars, ok |-> TRUE])))
=============================================================================
