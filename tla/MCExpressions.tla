--------------------------- MODULE MCExpressions ---------------------------
(* Instances of Expressions for TLC. *)
EXTENDS Expressions

Const(type) == <<[type[1] EXCEPT !.const = TRUE]>> \o Inner(type)

\* short s; const char c; char *p; const char *q; char **pp; const char **qq; void *v;
MCVarTypes == <<Prim("short"), Const(Prim("char")), CharPtr,
                PointerTo(Const(Prim("char"))), PointerTo(CharPtr),
                PointerTo(PointerTo(Const(Prim("char")))), PointerTo(Prim("void"))>>
\* void f(const char *, long), int g(char, ...)
MCFuncs == <<[ret |-> Prim("void"), ellipsis |-> FALSE,
              params |-> <<PointerTo(Const(Prim("char"))), Prim("long")>>],
             [ret |-> Prim("int"), ellipsis |-> TRUE, params |-> <<Prim("char")>>]>>

AllUnary == {"neg", "plus", "compl", "preInc", "preDec", "postInc", "postDec", "addr", "not", "deref"}
\* (int) and (char *)
MCCasts == {Prim("int"), CharPtr}
=============================================================================
