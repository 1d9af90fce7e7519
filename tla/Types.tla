------------------------------- MODULE Types -------------------------------
(***************************************************************************)
(* The types of an AST (include/ast/type.h) and the relations that decide  *)
(* which assignments are legal (src/ast/type.c).  A type is the chain of   *)
(* its layers, the outermost first: `inner' is Tail, and the null pointer  *)
(* (the inner of a primitive, or a type never set) is the empty chain.     *)
(***************************************************************************)
EXTENDS Naturals, Sequences

Prims == {"char", "short", "int", "long", "void"}

\* struct bcc_ast_type without the links to other types.
Layer == [t: {"prim", "pointer", "function"}, prim: Prims, const: BOOLEAN,
          unsigned: BOOLEAN, zero: BOOLEAN]
Type == Seq(Layer)
NullType == <<>>

\* bcc_ast_type_primitives, and the types the parser makes around them.
Prim(p) ==
    <<[t |-> "prim", prim |-> p, const |-> FALSE, unsigned |-> FALSE, zero |-> FALSE]>>
IntZero == <<[Prim("int")[1] EXCEPT !.zero = TRUE]>>
Wrapper(t) == <<[t |-> t, prim |-> "void", const |-> FALSE, unsigned |-> FALSE, zero |-> FALSE]>>
PointerTo(type) == Wrapper("pointer") \o type
FunctionTo(ret) == Wrapper("function") \o ret
CharPtr == PointerTo(Prim("char"))

Inner(type) == Tail(type)

PrimSize == [char |-> 1, short |-> 2, int |-> 4, long |-> 4, void |-> 0]
PointerSize == 4
Size(type) ==
    CASE type[1].t = "prim"     -> PrimSize[type[1].prim]
      [] type[1].t = "pointer"  -> PointerSize
      [] type[1].t = "function" -> 0

\* The predicates below dereference the type: it must not be NullType.
IsPointer(type) == type[1].t = "pointer"
IsPrimitive(type) == type[1].t = "prim"
IsFunction(type) == type[1].t = "function"
IsConst(type) == type[1].const
IsUnsigned(type) == type[1].unsigned
IsInteger(type) == IsPrimitive(type) /\ type[1].prim \in {"char", "short", "long", "int"}
IsVoidPointer(type) ==
    IsPointer(type) /\ IsPrimitive(Inner(type)) /\ Inner(type)[1].prim = "void"

\* Two layers agree up to their qualifiers.
SameLayer(a, b) ==
    a.t = b.t /\ (a.t = "prim" => a.prim = b.prim /\ a.unsigned = b.unsigned)

\* The qualifiers of the i-th layers allow the assignment: the top level may
\* differ, the second may gain const, the others must agree.
ConstAllowed_LosesSecond(i, lvalue, rvalue) == i <= 2 \/ lvalue.const = rvalue.const
ConstAllowed(i, lvalue, rvalue) ==
    \/ i = 1
    \/ i = 2 /\ lvalue.const
    \/ lvalue.const = rvalue.const

\* bcc_ast_type_lvalue_identical_to_rvalue
LvalueIdentical(lvalue, rvalue) ==
    /\ Len(lvalue) = Len(rvalue)
    /\ \A i \in DOMAIN lvalue :
          SameLayer(lvalue[i], rvalue[i]) /\ ConstAllowed(i, lvalue[i], rvalue[i])

\* bcc_ast_type_are_identical
Identical(first, second) ==
    /\ Len(first) = Len(second)
    /\ \A i \in DOMAIN first : SameLayer(first[i], second[i])

\* bcc_ast_type_implicit_cast_exists
ImplicitCast(current, target) ==
    \/ IsVoidPointer(current) /\ IsPointer(target)
    \/ IsVoidPointer(target) /\ IsPointer(current)
    \/ IsPointer(target) /\ IsInteger(current) /\ current[1].zero
    \/ IsInteger(current) /\ IsInteger(target)
=============================================================================
