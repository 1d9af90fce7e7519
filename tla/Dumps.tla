------------------------------- MODULE Dumps -------------------------------
(***************************************************************************)
(* The other two outputs of the compiler: --gen ast, an indented outline   *)
(* of the AST (gen_dump_ast.c), and --gen text, the program written out    *)
(* again (gen_text.c).  Both walk the AST through a table with a function  *)
(* for each kind of node.  Neither table is complete, and calling what is  *)
(* not there ends the process: the walk's last line is then "crash".  So   *)
(* does a function that is named as a value inside itself: printing the    *)
(* name prints the function, and that never ends.                          *)
(***************************************************************************)
EXTENDS Compile

\* binary_op_string
OpString(op) ==
    CASE op = "addIndex" -> "+" [] op \in {"subIndex", "addrSub"} -> "-" [] OTHER -> op

\* What is printed, and for a line of the outline, how far it is indented.
Line(k, label, of) == <<[at |-> k, is |-> label, named |-> "", of |-> of]>>
Named(k, label, name) == <<[at |-> k, is |-> label, named |-> name, of |-> 0]>>
Crash == Line(0, "crash", 0)
Crashes(lines) == \E i \in DOMAIN lines : lines[i].is = "crash"

(*************************** gen_dump_ast.c ********************************)
\* bcc_ast_entry_print prints one step further in.
Inside_Same(k) == k
Inside(k) == k + 1

\* bcc_ast_type_print and its table.
RECURSIVE TypeLines(_, _)
TypeLines(type, k) ==
    CASE IsPrimitive(type) ->
            Named(k, "TYPE", type[1].prim) \o (IF IsUnsigned(type) THEN Named(k, "TYPE", "unsigned") ELSE <<>>)
      [] IsPointer(type) ->
            Named(k, "TYPE", IF IsConst(type) THEN "pointer: const" ELSE "pointer:")
            \o TypeLines(Inner(type), Inside(k))
      [] OTHER -> Crash

\* p is the AST of a program, busy the functions that are being printed.
RECURSIVE Outline(_, _, _, _), OutlineAll(_, _, _, _)
OutlineAll(es, k, p, busy) ==
    IF es = <<>> THEN <<>> ELSE Outline(es[1], k, p, busy) \o OutlineAll(Tail(es), k, p, busy)

VarLines(vs, k, types) ==
    FlattenSeq([i \in DOMAIN vs |->
        Line(k, "VAR", vs[i]) \o Line(k, "TYPE", 0) \o TypeLines(types[vs[i]], Inside(k))])
Names(label, vs, k) == FlattenSeq([i \in DOMAIN vs |-> Line(k, label, vs[i])])

\* print_node_function.  Only the outermost block of a function declares
\* variables in the programs of Compile.
FunctionLines(f, k, p, busy) ==
    LET func == p[f]
        block == func.body[1]
    IN  IF f \in busy THEN Crash
        ELSE Line(k, "FUNCTION", f) \o Names("PARAM", func.params, k)
             \o VarLines(func.locals, k, func.types)
             \o IF func.body = <<>> THEN <<>>
                ELSE Line(Inside(k), "BLOCK", 0) \o Names("VAR", func.locals, Inside(k))
                     \o OutlineAll(block.kids, Inside(Inside(k)), p, busy \cup {f})

\* The functions of print_node_table.
Outline(e, k, p, busy) ==
    LET part(label, i) == Line(k, label, 0) \o Outline(e.kids[i], Inside(k), p, busy)
    IN  CASE e.n = "number" -> Line(k, "LITERAL_NUMBER", e.val)
          [] e.n = "string" -> Line(k, "LITERAL_STRING", e.val)
          [] e.n = "var" -> Line(k, "NODE_VAR", e.val)
          [] e.n = "binary" ->
                Named(k, "BINARY_OP", OpString(e.op)) \o part("LEFT_EXP", 1) \o part("RIGHT_EXP", 2)
          [] e.n = "cast" ->
                Line(k, "CAST", 0) \o Line(k, "TYPE", 0) \o TypeLines(e.target, Inside(k))
                \o part("EXPRESSION", 1)
          [] e.n = "assign" -> Line(k, "ASSIGN", 0) \o part("LVALUE", 1) \o part("RVALUE", 2)
          [] e.n = "call" ->
                Line(k, "FUNC_CALL", e.val) \o FlattenSeq([i \in DOMAIN e.kids |-> part("PARAM", i)])
          [] e.n = "func" -> FunctionLines(e.val, k, p, busy)
          [] e.n = "expr" -> Line(k, "EXPRESSION_STMT", 0) \o Outline(e.kids[1], Inside(k), p, busy)
          [] e.n = "return" -> Line(k, "RETURN", 0) \o Outline(e.kids[1], Inside(k), p, busy)
          [] e.n = "if" ->
                Line(k, "IF", 0) \o part("IF_EXPRESSION", 1) \o part("IF_BLOCK", 2)
                \o (IF Len(e.kids) = 3 THEN part("IF_ELSE_BLOCK", 3) ELSE <<>>)
          [] e.n = "while" -> Line(k, "WHILE", 0) \o part("CONDITION", 1) \o part("BLOCK", 2)
          [] e.n = "block" -> Line(k, "BLOCK", 0) \o OutlineAll(e.kids, Inside(k), p, busy)
          [] e.n = "unary" -> Crash

\* gen_dump_ast
DumpAst(p) ==
    FlattenSeq([f \in DOMAIN p |-> Line(0, "FUNCTION", f) \o FunctionLines(f, Inside(0), p, {})])

(*************************** gen_text.c ************************************)
Tok(c) == Line(0, c, 0)
Bracketed_Not(toks) == toks
Bracketed(toks) == Tok("(") \o toks \o Tok(")")

RECURSIVE Text(_, _, _), TextAll(_, _, _)
TextAll(es, p, busy) ==
    IF es = <<>> THEN <<>> ELSE Text(es[1], p, busy) \o TextAll(Tail(es), p, busy)

\* Every type is written int.
Ints(vs, after) == FlattenSeq([i \in DOMAIN vs |-> Tok("int") \o Line(0, "name", vs[i]) \o Tok(after)])
FunctionText(f, p, busy) ==
    LET func == p[f]
    IN  IF f \in busy THEN Crash
        ELSE Tok("int") \o Line(0, "name", f) \o Bracketed(Ints(func.params, ","))
             \o IF func.body = <<>> THEN <<>>
                ELSE Tok("{") \o Ints(func.locals, ";")
                     \o TextAll(func.body[1].kids, p, busy \cup {f}) \o Tok("}")

Text(e, p, busy) ==
    LET kid(i) == Text(e.kids[i], p, busy)
        braced(i) == Tok("{") \o kid(i) \o Tok("}")
    IN  CASE e.n = "number" -> Line(0, "number", e.val)
          [] e.n = "string" -> Line(0, "string", e.val)
          [] e.n = "binary" -> Bracketed(kid(1) \o Tok(OpString(e.op)) \o kid(2))
          [] e.n = "cast" -> Bracketed(Tok("type_name")) \o Bracketed(kid(1))
          [] e.n = "assign" -> kid(1) \o Tok("=") \o kid(2)
          [] e.n = "func" -> FunctionText(e.val, p, busy)
          [] e.n = "expr" -> kid(1) \o Tok(";")
          [] e.n = "return" -> Tok("return") \o kid(1) \o Tok(";")
          [] e.n = "if" ->
                Tok("if") \o Bracketed(kid(1)) \o braced(2)
                \o (IF Len(e.kids) = 3 THEN Tok("else") \o braced(3) ELSE <<>>)
          [] e.n = "while" -> Tok("while") \o Bracketed(kid(1)) \o braced(2)
          [] e.n = "block" -> TextAll(e.kids, p, busy)
          [] e.n \in {"unary", "var", "call"} -> Crash

\* gen_text
GenText(p) == FlattenSeq([f \in DOMAIN p |-> FunctionText(f, p, {})])

(***************************************************************************)
(* Properties                                                              *)
(***************************************************************************)
\* The ASTs as the generators get them, with the types of the variables.
Asts ==
    LET ps == Programs
        types(p, f) == [types |-> ps[p].funcs[f].types]
    IN  Table([p \in DOMAIN ps |-> [f \in DOMAIN ps[p].funcs |->
                  BuiltFunction(ps[p].funcs[f], ps[p].funcs) @@ types(p, f)]])

\* What the outline tells of a node: not the types of operands, nor which of
\* two additions or subtractions it is.
TypeShape(type) ==
    [i \in DOMAIN type |-> [type[i] EXCEPT !.zero = FALSE, !.const = @ /\ type[i].t = "pointer"]]
\* The mark of a cast is not part of the AST.
ShownOp(e) == IF e.n = "cast" THEN "" ELSE OpString(e.op)
RECURSIVE Shape(_), TextShape(_)
Shape(e) ==
    [n |-> e.n, op |-> ShownOp(e), val |-> IF e.n = "binary" THEN 0 ELSE e.val,
     to |-> TypeShape(e.target), kids |-> [i \in DOMAIN e.kids |-> Shape(e.kids[i])]]
\* What the text tells of it: no types at all, and every branch is a block.
TextShape(e) ==
    LET kid(i) == TextShape(e.kids[i])
        branch(i) == IF e.kids[i].n = "block" THEN kid(i) ELSE [TextShape(Stmt("block", <<>>)) EXCEPT !.kids = <<kid(i)>>]
    IN  [n |-> e.n, op |-> ShownOp(e), val |-> IF e.n = "binary" THEN 0 ELSE e.val,
         kids |-> [i \in DOMAIN e.kids |-> IF e.n \in {"if", "while"} /\ i > 1 THEN branch(i) ELSE kid(i)]]
OfFunctions(p, types(_), shape(_)) ==
    [f \in DOMAIN p |-> <<p[f].params, p[f].locals, [v \in DOMAIN p[f].types |-> types(p[f].types[v])],
                          [i \in DOMAIN p[f].body |-> shape(p[f].body[i])]>>]

Outlines == Table([p \in DOMAIN Asts |-> DumpAst(Asts[p])])
Texts == Table([p \in DOMAIN Asts |-> GenText(Asts[p])])
OutlineShapes == Table([p \in DOMAIN Asts |-> OfFunctions(Asts[p], TypeShape, Shape)])
TextShapes == Table([p \in DOMAIN Asts |-> OfFunctions(Asts[p], LAMBDA t : 0, TextShape)])

Confused(outs, shapes) ==
    {p \in DOMAIN outs : /\ ~Crashes(outs[p])
                            /\ \E q \in DOMAIN outs :
                                  outs[q] = outs[p] /\ shapes[q] # shapes[p]}
ConfusedOutlines == Confused(Outlines, OutlineShapes)
ConfusedTexts == Confused(Texts, TextShapes)

\* No two programs with different ASTs have the same outline: the indentation,
\* which every function of the table changes and restores, and the headings
\* together tell where each node belongs.  And no two that differ in more than
\* types, and in the braces around one statement, have the same text: the
\* brackets keep every operand and every branch where the AST has it.
DumpsTellApart == program \notin ConfusedOutlines \cup ConfusedTexts
=============================================================================
