---------------------------- MODULE TypeChecker ----------------------------
(***************************************************************************)
(* A program goes through the type checker: the names of its classes, its  *)
(* classes in the order in which they are declared, the globals, and then  *)
(* the methods of instances, one statement after the other.                *)
(***************************************************************************)
EXTENDS Types

CONSTANT Programs   \* the programs to check, a sequence of trees

VARIABLES
    program,    \* the number of the one that is checked
    phase,      \* "names", "classes" or "statements"
    todo,       \* the statements that are left
    checker,    \* the state of the checker (Types)
    outcome     \* "going", "thrown", or "wild" after it read bad memory
vars == <<program, phase, todo, checker, outcome>>

-----------------------------------------------------------------------------
Nodes == ClassNodes(Programs[program])

Init ==
    /\ program \in DOMAIN Programs
    /\ phase = "names" /\ todo = <<>>
    /\ checker = NewChecker
    /\ outcome = "going"

(* What the checker does next leaves it in state st: it goes on unless it  *)
(* threw, or the memory it read was not what it should have been.          *)
Do(now, st, next, rest) ==
    /\ phase = now /\ outcome = "going"
    /\ phase' = next /\ todo' = rest
    /\ \/ /\ st.memory # "garbage"
          /\ outcome' = IF st.ok THEN "going" ELSE "thrown"
          /\ checker' = [st EXCEPT !.memory = "sound"]
       \/ /\ st.memory # "sound"
          /\ outcome' = "wild"
          /\ UNCHANGED checker
    /\ UNCHANGED program

TypeNames ==
    Do("names", RegisterAll(Nodes, checker),
       "classes", <<>>)
TypeReg == Do("classes", TypeRegProgram(Nodes, checker), "statements", Statements(Nodes))
TypeStatement ==
    /\ todo # <<>>
    /\ Do("statements", TypeCheckAt(Nodes, Head(todo), checker), "statements", Tail(todo))

Next == TypeNames \/ TypeReg \/ TypeStatement
Spec == Init /\ [][Next]_vars
=============================================================================
