------------------------------ MODULE Compile ------------------------------
(***************************************************************************)
(* The compiler from end to end: the parser's actions build the AST of a   *)
(* source program (AstBuild), the code generator turns it into assembly    *)
(* (CodeGen), and the machine runs that (Machine).  What the source means  *)
(* is CSource's.                                                           *)
(***************************************************************************)
EXTENDS CodeGen, CSource, Machine

CONSTANT Programs   \* the source programs: [funcs, strings]

(*************************** parser.y **************************************)
\* $$ = e, unless one of the parts could not be built.
FromParts(kids, e) ==
    LET bad == {i \in DOMAIN kids : ~IsNode(kids[i])}
    IN  IF bad = {} THEN e ELSE kids[CHOOSE i \in bad : \A j \in bad : i <= j]

Signature(func) ==
    [ret |-> func.ret, params |-> [i \in DOMAIN func.params |-> func.types[func.params[i]]],
     ellipsis |-> func.params = <<>>]

RECURSIVE Built(_, _, _)
\* The node of an expression or statement of function func.
Built(s, func, funcs) ==
    LET kids == [i \in DOMAIN s.kids |-> Built(s.kids[i], func, funcs)]
    IN  FromParts(kids,
            CASE s.n = "num" -> NumberNode(s.val)
              [] s.n = "str" -> StringNode(s.val)
              [] s.n = "var" -> VarNode(s.val, func.types[s.val])
              [] s.n = "un" -> UnaryOf(s.op, kids[1])
              [] s.n = "cast" -> Casted(s.type, kids[1])
              [] s.n = "bin" -> Binary(s.op, kids[1], kids[2])
              [] s.n = "index" -> Indexed(kids[1], kids[2])
              [] s.n = "assign" -> Assigned(s.op, kids[1], kids[2])
              [] s.n = "call" -> Call(s.val, Signature(funcs[s.val]), kids)
              [] OTHER -> Stmt(s.n, kids))

\* The function as the code generator gets it.
BuiltFunction(func, funcs) ==
    [params |-> func.params, locals |-> func.locals,
     body |-> IF func.body = <<>> THEN <<>> ELSE <<Built(func.body[1], func, funcs)>>]
\* basic-cc --gen assembler: nothing comes out of a program with an error.
Image(p) ==
    LET ast == Table([f \in DOMAIN p.funcs |-> BuiltFunction(p.funcs[f], p.funcs)])
        accepted == \A f \in DOMAIN ast : ast[f].body = <<>> \/ IsNode(ast[f].body[1])
        code == IF accepted THEN GenProgram(ast) ELSE <<>>
    IN  [code    |-> code,
         main    |-> IF accepted THEN Label(code, <<"FUNC", Len(ast)>>) ELSE 0,
         strings |-> p.strings,
         frames  |-> [f \in DOMAIN ast |-> FrameSize(ast[f])],
         library |-> [f \in DOMAIN ast |-> ast[f].body = <<>>]]

\* What the machine is given to run, and what is to come of it.
Compiled ==
    LET ps == Programs
    IN  Table([p \in DOMAIN ps |-> Image(ps[p])])
Meanings ==
    LET ps == Programs
    IN  Table([p \in DOMAIN ps |-> Meaning(ps[p])])
=============================================================================
