----------------------------- MODULE Subtyping -----------------------------
(***************************************************************************)
(* What types mean: a reference for the type checker, over types as they   *)
(* are written and without any state.  A superclass is what a declaration  *)
(* says, with the arguments of the type in the place of its parameters.    *)
(***************************************************************************)
EXTENDS Types

(* The class of a name among class nodes.                                  *)
NodeOf(nodes, name) ==
    nodes[CHOOSE i \in DOMAIN nodes : nodes[i].attr.name = name]

RECURSIVE Substitute(_, _, _)
Substitute(spec, params, args) ==
    IF spec.tag = "named" /\ spec.attr \in ToSet(params)
    THEN args[CHOOSE i \in DOMAIN params : params[i] = spec.attr]
    ELSE [spec EXCEPT !.kids =
             [i \in DOMAIN @ |-> Substitute(@[i], params, args)]]

SuperSpec(node, args) ==
    Substitute(Named(node.attr.super[1], TypesOf(node).superArgs),
               TypesOf(node).params, args)

(* The types that an instance of a type is also an instance of, from its   *)
(* own upwards.                                                            *)
RECURSIVE Ancestry(_, _)
Ancestry(nodes, spec) ==
    LET node == NodeOf(nodes, spec.attr)
    IN  <<spec>> \o IF node.attr.super = <<"nil">> THEN <<>>
                    ELSE Ancestry(nodes, SuperSpec(node, spec.kids))

RECURSIVE Subtype(_, _, _)
Subtype(nodes, a, b) ==
    IF a.tag = "unionOf" THEN \A i \in DOMAIN a.kids : Subtype(nodes, a.kids[i], b)
    ELSE IF b.tag = "unionOf" THEN \E i \in DOMAIN b.kids : Subtype(nodes, a, b.kids[i])
    ELSE \E s \in ToSet(Ancestry(nodes, a)) :
            /\ s.attr = b.attr
            /\ \A i \in DOMAIN s.kids : Subtype(nodes, s.kids[i], b.kids[i])

-----------------------------------------------------------------------------
(* A type in words, the same for one that is written and one in a checker. *)
RECURSIVE Spelled(_)
Spelled(spec) ==
    LET parts == FlattenSeq([i \in DOMAIN spec.kids |-> Spelled(spec.kids[i])])
    IN  IF spec.tag = "unionOf" THEN <<"either">> \o parts \o <<"end">>
        ELSE <<spec.attr>> \o parts

RECURSIVE Shown(_, _, _)
Shown(nodes, t, types) ==
    LET ty == types[t]
        parts == FlattenSeq([i \in DOMAIN ty.args |-> Shown(nodes, ty.args[i], types)])
    IN  CASE ty.kind = "union"    -> <<"either">> \o parts \o <<"end">>
          [] ty.kind = "instance" -> <<ClassName(ty)>> \o parts
          [] ty.kind = "tyvar" /\ ty.name[1] # "" /\ ty.name[2] = 0 ->
                <<TypesOf(NodeOf(nodes, ty.name[1])).params[ty.name[3]]>>
          [] OTHER -> <<ty.kind>>
=============================================================================
