-------------------------------- MODULE Ast --------------------------------
(***************************************************************************)
(* The syntax trees that the parser hands to the compiler (AST.hh).  Every *)
(* node has the same four fields: what it is, its own attributes, its      *)
(* children in the order in which they are visited, and the annotation     *)
(* that synthesis leaves on it (Synth).  Types belong to module Types.     *)
(***************************************************************************)
EXTENDS Primitives

Node(tag, attr, kids) == [tag |-> tag, attr |-> attr, kids |-> kids, note |-> <<>>]

(* Literals.  Characters, strings and symbols are told apart by their tag; *)
(* floats and arrays have no value, none is ever generated for them.       *)
IntLit(n) == Node("int", n, <<>>)
SymLit(s) == Node("sym", s, <<>>)
StrLit(s) == Node("str", s, <<>>)
CharLit(c) == Node("char", c, <<>>)
FloatLit == Node("float", 0, <<>>)
ArrayLit(elements) == Node("array", 0, elements)
Literals == {"int", "sym", "str", "char", "float", "array"}

Id(name) == Node("id", name, <<>>)
Assign(name, e) == Node("assign", 0, <<Id(name), e>>)
Msg(receiver, selector, args) ==
    Node("msg", selector, <<receiver>> \o args)
Primitive(name, args) == Node("prim", name, args)

(* The messages of a cascade each hold its receiver again: the parser      *)
(* makes them with the receiver of the first.                              *)
Cascade(receiver, messages) == Node("cascade", 0, <<receiver>> \o messages)

Block(args, locals, stmts) ==
    Node("block", [args |-> args, locals |-> locals], stmts)

Expr(e) == Node("expr", 0, <<e>>)
Return(e) == Node("return", 0, <<e>>)

Method(sel, args, locals, stmts) ==
    Node("method", [sel |-> sel, args |-> args, locals |-> locals], stmts)

(* The methods of a class, its class methods first (addMethods).           *)
Class(name, super, ivars, cMethods, iMethods) ==
    Node("class", [name |-> name, super |-> super, ivars |-> ivars,
                   nClass |-> Len(cMethods)], cMethods \o iMethods)
Namespace(name, decls) == Node("namespace", name, decls)
Program(decls) == Node("program", 0, decls)

IsSuper(e) == e.tag = "id" /\ e.attr = "super"

(* isSelf, which is asked of what is returned only: never an inlined block. *)
IsSelf(e) == e.tag = "id" /\ e.attr = "self"

(* The selectors that are compiled in line.                                *)
Loops == {"whileTrue", "whileFalse", "whileTrue:", "whileFalse:"}
Conditionals == {"and:", "ifTrue:", "ifFalse:", "ifTrue:ifFalse:",
                 "ifFalse:ifTrue:"}

(* m_specialKind: a message to super never has one.                        *)
SpecialKind(m) ==
    IF IsSuper(m.kids[1]) THEN "normal"
    ELSE IF m.attr \in Loops \cup Conditionals THEN m.attr
    ELSE IF BinOpIndex(m.attr) # 0 THEN "binop" ELSE "normal"
=============================================================================
