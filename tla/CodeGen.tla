------------------------------ MODULE CodeGen ------------------------------
(***************************************************************************)
(* The code generator, src/ast/out/asm_x86: a walk over the AST that       *)
(* appends instructions to the output.  g is struct gen_state: the code    *)
(* written so far and the number of the next label; off is the loffset of  *)
(* every variable of the function, which the C code keeps in the variable. *)
(* The value of an expression is left in %eax, in the part of it that the  *)
(* size of its type names.                                                 *)
(***************************************************************************)
EXTENDS AstBuild, X86

\* Statements, which are AST nodes like any other.
Stmt(n, kids) == Node(n, "", NullType, kids, 0, NullType)

A(z) == R("a", z)
B(z) == R("b", z)

Emit(g, code) == [g EXCEPT !.code = @ \o code]
NextLabel(g) == [g EXCEPT !.next = @ + 1]

Mov(s, d) == Ins("mov", s, d)
Cmp(s, d) == Ins("cmp", s, d)
Push == Ins("push", A(4), None)
Pop(r) == Ins("pop", None, R(r, 4))
Def(kind, n) == To("label", <<kind, n>>)

(*************************** gen.c *****************************************)
\* gen_conv_op: widening only; a two byte source is always sign extended.
ConvOp_Narrows(from, to, unsigned) ==
    IF from # to THEN <<Ins(IF unsigned THEN "movzx" ELSE "movsx", A(from), A(to))>> ELSE <<>>
ConvOp(from, to, unsigned) ==
    CASE from = 1 /\ to \in {2, 4} ->
            <<Ins(IF unsigned THEN "movzx" ELSE "movsx", A(1), A(to))>>
      [] from = 2 /\ to = 4 -> <<Ins("movsx", A(2), A(4))>>
      [] OTHER -> <<>>

(*************************** load.c ****************************************)
\* gen_div_reg_extend
DivExtend(size, unsigned) ==
    CASE size = 1 -> <<To(IF unsigned THEN "zeroAh" ELSE "cbtw", <<"", 0>>)>>
      [] size = 2 -> <<To(IF unsigned THEN "zeroDx" ELSE "cwtd", <<"", 0>>)>>
      [] size = 4 -> <<IF unsigned THEN Ins("xor", R("d", 4), R("d", 4)) ELSE To("cltd", <<"", 0>>)>>
      [] OTHER -> <<>>

\* The end of gen_node_binary_op, with the left operand in %ebx and the right
\* one in %eax; l and r are their sizes.
InstructionFor(op) ==
    CASE op = "+" -> "add" [] op = "*" -> "imul" [] op = "&" -> "and" [] op = "|" -> "or"
      [] op = "^" -> "xor"
SetterFor(op) ==
    CASE op = ">" -> "setg" [] op = "<" -> "setl" [] op = ">=" -> "setge" [] op = "<=" -> "setle"
      [] op = "==" -> "sete" [] op = "!=" -> "setne"

\* '-': the left operand is in %ebx.
Subtract_Reversed(l, r) == <<Ins("sub", B(l), A(r))>>
Subtract(l, r) == <<Ins("sub", A(r), B(l)), Mov(B(l), A(r))>>

Divide(op, l, r, unsigned) ==
    <<Ins("xchg", A(r), B(l))>> \o DivExtend(l, unsigned) \o <<Ins("idiv", B(l), None)>>
    \o (IF op = "/" THEN <<>>
        ELSE CASE l = 1 -> <<To("movAhAl", <<"", 0>>)>>
               [] l = 2 -> <<Mov(R("d", 2), A(2))>>
               [] l = 4 -> <<Mov(R("d", 4), A(4))>>
               [] OTHER -> <<>>)

Shift(op, l, r, unsigned) ==
    <<Mov(A(1), R("c", 1)),
      Ins(IF op = "<<" THEN "shl" ELSE IF unsigned THEN "shr" ELSE "sar", R("c", 1), B(l)),
      Mov(B(l), A(r))>>

Compare(op, l, r) ==
    <<Cmp(A(r), B(l)), Ins(SetterFor(op), None, A(1))>> \o ConvOp(1, r, TRUE)

\* Pointer and index: the pointer is brought into %eax.
AddIndex(op, leftIsPointer, size) ==
    (IF leftIsPointer THEN <<Ins("xchg", A(4), B(4))>> ELSE <<>>)
    \o (IF op = "subIndex" THEN <<Ins("neg", None, B(4))>> ELSE <<>>)
    \o (IF size \in {1, 2, 4} THEN <<Ins("leaIndex", Imm(size), None)>> ELSE <<>>)

SubtractPointers(size) ==
    <<Ins("sub", B(4), A(4))>>
    \o (CASE size = 2 -> <<Ins("shr", A(4), Imm(1))>>
          [] size = 4 -> <<Ins("shr", A(4), Imm(2))>>
          [] OTHER -> <<>>)

BinaryTail(e) ==
    LET l == Size(e.kids[1].type)
        r == Size(e.kids[2].type)
        unsigned == IsUnsigned(e.kids[1].type)
    IN  CASE e.op \in {"+", "*", "&", "|", "^"} -> <<Ins(InstructionFor(e.op), B(l), A(r))>>
          [] e.op = "-" -> Subtract(l, r)
          [] e.op \in {"/", "%"} -> Divide(e.op, l, r, unsigned)
          [] e.op \in {"<<", ">>"} -> Shift(e.op, l, r, unsigned)
          [] e.op \in Comparisons -> Compare(e.op, l, r)
          [] e.op \in {"addIndex", "subIndex"} -> AddIndex(e.op, IsPointer(e.kids[1].type), e.val)
          [] e.op = "addrSub" -> SubtractPointers(e.val)

RECURSIVE Gen(_, _, _), GenStore(_, _, _), GenAll(_, _, _), GenArgs(_, _, _)

\* gen_node_logical_op
LogicalJump(op) == IF op = "&&" THEN "je" ELSE "jne"
GenLogical(g, off, e) ==
    LET end  == <<"LOGICAL_OP", g.next>>
        test(k) == <<Cmp(Imm(0), A(Size(e.kids[k].type))), To(LogicalJump(e.op), end)>>
        left == Emit(Gen(NextLabel(g), off, e.kids[1]), test(1))
    IN  Emit(Gen(left, off, e.kids[2]),
             test(2) \o <<Mov(Imm(IF e.op = "&&" THEN 1 ELSE 0), A(4)), To("label", end)>>)

\* gen_node_binary_op
GenBinary(g, off, e) ==
    IF e.op \in {"&&", "||"} THEN GenLogical(g, off, e)
    ELSE LET left == Emit(Gen(g, off, e.kids[1]), <<Push>>)
         IN  Emit(Gen(left, off, e.kids[2]), <<Pop("b")>> \o BinaryTail(e))

\* The postfix operators keep the old value on the stack.
KeepOld == <<Push>>
RestoreOld == <<Pop("a")>>

\* The increments and decrements: inc and dec of the value, whatever its type.
GenStep(g, off, e) ==
    LET step == <<Ins(IF e.op \in {"preInc", "postInc"} THEN "inc" ELSE "dec", None, A(Size(e.kids[1].type)))>>
        value == Gen(g, off, e.kids[1])
    IN  IF e.op \in {"preInc", "preDec"}
        THEN GenStore(Emit(value, step), off, e.kids[1])
        ELSE Emit(GenStore(Emit(value, KeepOld \o step), off, e.kids[1]), RestoreOld)

\* gen_node_unary_op
GenUnary(g, off, e) ==
    LET kid   == e.kids[1]
        value == Gen(g, off, kid)
        size  == Size(kid.type)
    IN  CASE e.op \in {"preInc", "preDec", "postInc", "postDec"} -> GenStep(g, off, e)
          [] e.op = "plus" -> value
          [] e.op = "neg" -> Emit(value, <<Ins("neg", None, A(size))>>)
          [] e.op = "compl" -> Emit(value, <<Ins("not", None, A(size))>>)
          [] e.op = "addr" ->
                IF kid.n = "var" THEN Emit(g, <<Ins("lea", Frame(off[kid.val]), A(size))>>) ELSE g
          [] e.op = "deref" -> Emit(value, <<Mov(At("a"), A(Size(e.type)))>>)
          [] e.op = "not" -> Emit(value, <<Cmp(Imm(0), A(size)), Ins("setne", None, A(4))>>)

\* gen_node_cast: pointers stay as they are, a primitive is extended.
GenCast(g, off, e) ==
    LET from == e.kids[1].type
        to   == e.target
        value == Gen(g, off, e.kids[1])
    IN  IF IsPrimitive(from) /\ IsPrimitive(to)
        THEN Emit(value, ConvOp(Size(from), Size(to), IsUnsigned(to))) ELSE value

\* gen_node_func_call: the arguments, the last first, and then they are dropped.
GenArgs(g, off, args) ==
    IF args = <<>> THEN g
    ELSE LET last == args[Len(args)]
             done == Gen(g, off, last)
         IN  GenArgs(IF Size(last.type) <= 4 THEN Emit(done, <<Push>>) ELSE done,
                     off, SubSeq(args, 1, Len(args) - 1))
DropArgs_KeepsOne(args) == 4 * (Len(args) - 1)
DropArgs(args) == 4 * Len(args)
GenCall(g, off, e) ==
    Emit(GenArgs(g, off, e.kids),
         <<To("call", <<"FUNC", e.val>>), Ins("add", Imm(DropArgs(e.kids)), R("sp", 4))>>)

\* gen_node_if
GenIf(g, off, e) ==
    LET n == g.next
        cond == Emit(Gen(NextLabel(g), off, e.kids[1]),
                     <<Cmp(Imm(0), A(Size(e.kids[1].type))), To("je", <<"ELSE_CLAUSE", n>>)>>)
        then == Emit(Gen(cond, off, e.kids[2]), <<To("jmp", <<"END_IF", n>>), Def("ELSE_CLAUSE", n)>>)
    IN  Emit(IF Len(e.kids) = 3 THEN Gen(then, off, e.kids[3]) ELSE then, <<Def("END_IF", n)>>)

\* gen_node_while
LoopBack(n) == <<"WHILE_CONDITION", n>>
GenWhile(g, off, e) ==
    LET n == g.next
        cond == Emit(Gen(Emit(NextLabel(g), <<Def("WHILE_CONDITION", n)>>), off, e.kids[1]),
                     <<Cmp(Imm(0), A(Size(e.kids[1].type))), To("je", <<"WHILE_END", n>>)>>)
    IN  Emit(Gen(cond, off, e.kids[2]), <<To("jmp", LoopBack(n)), Def("WHILE_END", n)>>)

\* gen_node_block
GenAll(g, off, entries) ==
    IF entries = <<>> THEN g ELSE GenAll(Gen(g, off, entries[1]), off, Tail(entries))

Return == <<To("leave", <<"", 0>>), To("ret", <<"", 0>>)>>

\* gen_bcc_ast_entry and its table.
Gen(g, off, e) ==
    CASE e.n = "number" -> Emit(g, <<Mov(Imm(e.val), A(4))>>)
      [] e.n = "string" -> Emit(g, <<Mov(Str(e.val), A(4))>>)
      [] e.n = "binary" -> GenBinary(g, off, e)
      [] e.n = "unary" -> GenUnary(g, off, e)
      [] e.n = "cast" -> GenCast(g, off, e)
      [] e.n = "var" -> Emit(g, <<Mov(Frame(off[e.val]), A(Size(e.type)))>>)
      [] e.n = "assign" -> GenStore(Gen(g, off, e.kids[2]), off, e.kids[1])
      [] e.n = "call" -> GenCall(g, off, e)
      [] e.n = "expr" -> Gen(g, off, e.kids[1])
      [] e.n = "return" -> Emit(Gen(g, off, e.kids[1]), Return)
      [] e.n = "if" -> GenIf(g, off, e)
      [] e.n = "while" -> GenWhile(g, off, e)
      [] e.n = "block" -> GenAll(g, off, e.kids)
      [] OTHER -> g

(*************************** store.c ***************************************)
\* store_node_unary_op, through a dereference: the value waits on the stack
\* while the address is computed.
GenStore(g, off, e) ==
    CASE e.n = "var" -> Emit(g, <<Mov(A(Size(e.type)), Frame(off[e.val]))>>)
      [] e.n = "unary" /\ e.op = "deref" ->
            Emit(Gen(Emit(g, <<Push>>), off, e.kids[1]),
                 <<Mov(A(4), B(4)), Pop("a"), Mov(A(Size(e.type)), At("b"))>>)
      [] OTHER -> g

(*************************** Functions *************************************)
\* loffset: the locals below %ebp, the last one nearest; the parameters above
\* the return address, the first one nearest.
LocalOffset_FromZero(locals, i) == -(4 * (Len(locals) - i))
LocalOffset(locals, i) == -(4 * (Len(locals) - i + 1))
Offsets(func) ==
    LET offs(vs, at(_)) == [v \in {vs[i] : i \in DOMAIN vs} |-> at(CHOOSE i \in DOMAIN vs : vs[i] = v)]
        locals == offs(func.locals, LAMBDA i : LocalOffset(func.locals, i))
        params == offs(func.params, LAMBDA i : 4 * (i + 1))
    IN  [v \in DOMAIN locals \cup DOMAIN params |-> IF v \in DOMAIN locals THEN locals[v] ELSE params[v]]

\* gen_bcc_ast_function: nothing but .extern for a function without a body.
FrameSize(func) == 4 * Len(func.locals)
GenFunction(g, funcs, f) ==
    LET func  == funcs[f]
        entry == <<Def("FUNC", f), Ins("push", R("bp", 4), None), Mov(R("sp", 4), R("bp", 4)),
                   Ins("sub", Imm(FrameSize(func)), R("sp", 4))>>
    IN  IF func.body = <<>> THEN g
        ELSE Emit(Gen(Emit(g, entry), Offsets(func), func.body[1]), Return)

\* gen_asm_x86: every function in order; the labels go on counting.
GenProgram(funcs) ==
    LET upTo[f \in 0 .. Len(funcs)] ==
            IF f = 0 THEN [code |-> <<>>, next |-> 0] ELSE GenFunction(upTo[f - 1], funcs, f)
    IN  upTo[Len(funcs)].code
=============================================================================
