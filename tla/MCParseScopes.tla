--------------------------- MODULE MCParseScopes ---------------------------
(* Instances of ParseScopes for TLC. *)
EXTENDS ParseScopes

CONSTANTS nameX, nameF

Two == {nameX, nameF}
One == {nameX}

P(name, prim, const) == [name |-> name, prim |-> prim, const |-> const]
E(op, l, r) == [op |-> op, l |-> l, r |-> r]

\* No parameters, and int nameX.
ScopeParams == {<<>>, <<P(nameX, "int", FALSE)>>}
\* and also const int nameX.
SessionParams == ScopeParams \cup {<<P(nameX, "int", TRUE)>>}
\* void, and void nameX.
VoidParams == {<<P(NoName, "void", FALSE)>>, <<P(nameX, "void", FALSE)>>}

\* int; and also const int and void.
IntOnly == {[prim |-> "int", const |-> FALSE]}
SessionTypes == IntOnly \cup {[prim |-> "int", const |-> TRUE], [prim |-> "void", const |-> FALSE]}

\* The expression nameX = nameX.
AssignX == {E("assign", nameX, nameX)}
\* nameX, and 1.
Reads == {E("read", nameX, Number), E("read", Number, Number)}
=============================================================================
