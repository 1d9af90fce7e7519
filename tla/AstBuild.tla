------------------------------ MODULE AstBuild ------------------------------
(***************************************************************************)
(* The expression nodes of an AST (include/ast/nodes) and the functions    *)
(* that build them with their conversions: src/ast/ast.c and               *)
(* binop_create.c, assign_create.c and func_param_check.c of               *)
(* src/ast/in/lalr.  A node is a record; the nodes it points to are its    *)
(* kids.  A constructor that returns NULL gives Failed, and one that       *)
(* dereferences a null pointer on the way gives Fault.                     *)
(***************************************************************************)
EXTENDS Types

\* target is the type a cast converts to, val a literal's value, the number of
\* a variable, function or string, or a binary operator's operand_size.  A cast
\* has no operator: its op only records, for the properties, whether the source
\* text has it ("source") or the code put it in ("").
Node(n, op, type, kids, val, target) ==
    [n |-> n, op |-> op, type |-> type, kids |-> kids, val |-> val, target |-> target]

Failed == Node("failed", "", NullType, <<>>, 0, NullType)
Fault == Node("fault", "", NullType, <<>>, 0, NullType)
IsNode(e) == e.n \notin {"failed", "fault"}

NumberNode(k) == Node("number", "", IntZero, <<>>, k, NullType)
StringNode(id) == Node("string", "", CharPtr, <<>>, id, NullType)
VarNode(v, type) == Node("var", "", type, <<>>, v, NullType)
FuncNode(f, ret) == Node("func", "", FunctionTo(ret), <<>>, f, NullType)
Unary(op, type, e) == Node("unary", op, type, <<e>>, 0, NullType)
CastTo(target, e) == Node("cast", "", target, <<e>>, 0, target)

\* bcc_ast_entry_is_lvalue
IsLvalue(e) == e.n = "var" \/ (e.n = "unary" /\ e.op = "deref")

(*************************** Conversions ***********************************)
\* bcc_ast_entry_integer_promotion
IntegerPromotion_NotShort(e) ==
    IF IsPrimitive(e.type) /\ e.type[1].prim = "char" THEN CastTo(Prim("int"), e) ELSE e
IntegerPromotion(e) ==
    IF IsPrimitive(e.type) /\ e.type[1].prim \in {"char", "short"}
    THEN CastTo(Prim("int"), e) ELSE e

\* bcc_ast_entry_conv: a function becomes a pointer to it.
Conv(e) == IF IsFunction(e.type) THEN Unary("addr", PointerTo(e.type), e) ELSE e

(*************************** Binary operators ******************************)
Comparisons == {">", "<", ">=", "<=", "==", "!="}

\* create_bin_ptr_op.  With the pointer on the right its caller still passes
\* the left operand as ptr, an integer that has no inner type.
BinPtrOp(op, ptr, val, ptrIsFirst) ==
    IF Inner(ptr.type) = NullType THEN Fault
    ELSE LET size == Size(Inner(ptr.type))
             v    == IF Size(val.type) < size THEN CastTo(Prim("long"), val) ELSE val
         IN  Node("binary", op, ptr.type, IF ptrIsFirst THEN <<ptr, v>> ELSE <<v, ptr>>, size, NullType)

\* create_ptr_bin_from_components
PtrBinary(op, l, r) ==
    CASE op \in {"+", "-"} /\ IsPointer(l.type) /\ IsInteger(r.type) ->
            BinPtrOp(IF op = "+" THEN "addIndex" ELSE "subIndex", l, r, TRUE)
      [] op \in {"+", "-"} /\ IsPointer(r.type) /\ IsInteger(l.type) ->
            BinPtrOp(IF op = "+" THEN "addIndex" ELSE "subIndex", l, r, FALSE)
      [] op = "-" /\ IsPointer(l.type) /\ IsPointer(r.type) ->
            Node("binary", "addrSub", Prim("int"), <<l, r>>, Size(r.type), NullType)
      [] op \in Comparisons -> Node("binary", op, Prim("int"), <<l, r>>, 0, NullType)
      [] OTHER -> Failed

\* The smaller of two integers is cast to the type of the larger.
Widened(e, other) ==
    IF IsInteger(e.type) /\ IsInteger(other.type) /\ Size(e.type) < Size(other.type)
    THEN CastTo(other.type, e) ELSE e

\* create_bin_from_components
Binary(op, left, right) ==
    IF left.type = NullType \/ right.type = NullType THEN Fault
    ELSE LET l == Conv(IntegerPromotion(left))
             r == Conv(IntegerPromotion(right))
         IN  IF IsPointer(l.type) \/ IsPointer(r.type) THEN PtrBinary(op, l, r)
             ELSE Node("binary", op, Widened(l, r).type, <<Widened(l, r), Widened(r, l)>>, 0, NullType)

(*************************** Assignments ***********************************)
\* The conversion of an rvalue: as it is, or through a cast, whose own
\* node_type is left NULL.
AssignTo(lvalue, rvalue) ==
    LET r == Conv(rvalue)
        to == lvalue.type
        assign(v) == Node("assign", "", to, <<lvalue, v>>, 0, NullType)
    IN  IF LvalueIdentical(to, r.type) THEN assign(r)
        ELSE IF ImplicitCast(r.type, to) THEN assign([CastTo(to, r) EXCEPT !.type = NullType])
        ELSE Failed

\* create_assignment.  op is "" for '=', else the operator of a compound
\* assignment, which only a variable may be the left side of.
Assignment(op, lvalue, rvalue) ==
    IF op = "" THEN IF rvalue.type = NullType THEN Fault ELSE AssignTo(lvalue, rvalue)
    ELSE IF lvalue.n # "var" THEN Failed
    ELSE LET value == Binary(op, lvalue, rvalue)
         IN  IF IsNode(value) THEN AssignTo(lvalue, value) ELSE value

(*************************** Calls *****************************************)
\* What func_params_check_and_cast makes of the argument for a parameter.
ArgFor(param, arg) ==
    IF LvalueIdentical(param, arg.type) THEN arg
    ELSE IF arg.type = NullType THEN Fault
    ELSE IF ImplicitCast(arg.type, param) THEN CastTo(param, arg)
    ELSE Failed

\* What it makes of an argument the ellipsis takes.
EllipsisArg(arg) ==
    IF arg.type = NullType THEN Fault
    ELSE IF IsInteger(arg.type) THEN CastTo(Prim("int"), arg) ELSE arg

\* The arguments are converted from the first on, up to the first that is not.
FirstBad(args) ==
    LET bad == {i \in DOMAIN args : ~IsNode(args[i])}
    IN  args[CHOOSE i \in bad : \A j \in bad : i <= j]

\* The number of arguments fits; f() of a function with parameters does not.
CountFits_TooFew(count, sig) == count = Len(sig.params) \/ sig.ellipsis
CountFits(count, sig) ==
    count = Len(sig.params) \/ (count > Len(sig.params) /\ sig.ellipsis)

\* The call node, or why there is none.
Call(f, sig, args) ==
    LET both  == {i \in DOMAIN args : i <= Len(sig.params)}
        named == [i \in both |-> ArgFor(sig.params[i], args[i])]
        all   == [i \in DOMAIN args |-> IF i \in both THEN named[i] ELSE EllipsisArg(args[i])]
    IN  IF \E i \in both : ~IsNode(named[i]) THEN FirstBad(named)
        ELSE IF ~CountFits(Len(args), sig) THEN Failed
        ELSE IF \E i \in DOMAIN all : ~IsNode(all[i]) THEN Fault
        ELSE Node("call", "", sig.ret, all, f, NullType)

(*************************** Operators *************************************)
\* Dereferencing the node_type of e needs it to be there.
Checked(e, then) == IF e.type = NullType THEN Fault ELSE then

\* '&': of a dereference it is the dereferenced expression.
AddressOf(e) ==
    CASE e.n = "unary" -> IF e.op = "deref" THEN e.kids[1] ELSE Failed
      [] e.n # "unary" -> IF IsLvalue(e) THEN Unary("addr", PointerTo(e.type), e) ELSE Failed

\* The unary operators.  '-', '+' and '~' take operands of any type, the four
\* increments and decrements an lvalue, and '*' does not check what it
\* dereferences: the inner type may be NULL.
UnaryOf(op, e) ==
    CASE op \in {"neg", "plus", "compl"} -> Unary(op, e.type, e)
      [] op \in {"preInc", "preDec", "postInc", "postDec"} ->
            IF IsLvalue(e) THEN Unary(op, e.type, e) ELSE Failed
      [] op = "addr" -> AddressOf(e)
      [] op = "not" -> Unary("not", Prim("int"), e)
      [] op = "deref" -> Checked(e, Unary("deref", Inner(e.type), e))

\* '(' type_name ')': between integers and pointers, of any kind.
CastAllowed(start, target) ==
    (IsInteger(start) \/ IsPointer(start)) /\ (IsInteger(target) \/ IsPointer(target))
SourceCast(target, e) == Node("cast", "source", target, <<e>>, 0, target)
Casted(target, e) ==
    Checked(e, IF CastAllowed(e.type, target) THEN SourceCast(target, e) ELSE Failed)

\* base [ index ]
Indexed(base, index) ==
    IF ~IsPointer(base.type) THEN Failed
    ELSE LET sum == Binary("+", base, index)
         IN  IF IsNode(sum) THEN Unary("deref", Inner(sum.type), sum) ELSE sum

\* The ASSIGNMENT macro: "lvalue is const", then create_assignment.  Nothing
\* asks whether the left side is an lvalue.
Assigned_NoConstCheck(op, lvalue, rvalue) == Assignment(op, lvalue, rvalue)
Assigned(op, lvalue, rvalue) ==
    IF IsConst(lvalue.type) THEN Failed ELSE Assignment(op, lvalue, rvalue)
=============================================================================
