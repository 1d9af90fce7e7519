---------------------------- MODULE Expressions ----------------------------
(***************************************************************************)
(* The semantic actions of the expression rules of                         *)
(* src/ast/in/lalr/parser.y (paren_expression to expression).  Every       *)
(* subexpression may be parenthesised, so the rules reduce their operands  *)
(* in every order a postfix notation allows: vals is the part of the value *)
(* stack that holds expressions, and each action reduces its top.          *)
(*                                                                         *)
(* VarTypes and Funcs are the variables and functions name lookup found    *)
(* (module ParseScopes); a function declared with no parameters has an     *)
(* ellipsis.                                                               *)
(***************************************************************************)
EXTENDS AstBuild, Integers

CONSTANTS
    VarTypes,      \* the types of the variables in scope
    Funcs,         \* the functions in scope: [ret, params, ellipsis]
    Numbers,       \* the number literals of the source text
    BinaryOps, UnaryOps, CompoundOps,  \* the operators it uses
    CastTypes,     \* the types it casts to
    MaxOperands,   \* bound on the operands shifted
    MaxReductions  \* bound on the operators reduced

ASSUME VarTypesAssumption == VarTypes \in Seq(Type \ {NullType})
ASSUME FuncsAssumption ==
    Funcs \in Seq([ret: Type \ {NullType}, params: Seq(Type \ {NullType}), ellipsis: BOOLEAN])
ASSUME CastTypesAssumption == CastTypes \subseteq Type \ {NullType}
ASSUME UnaryOpsAssumption ==
    UnaryOps \subseteq {"neg", "plus", "compl", "preInc", "preDec", "postInc", "postDec",
                        "addr", "not", "deref"}

VARIABLES
    vals,       \* the expressions on the value stack
    inArgs,     \* the functions whose own entry was linked into an argument list
    operands, reductions,   \* how many operands and operators there were
    status      \* "parsing", "aborted", or how the code went wrong: "fault" (a null
                \* dereference), "badCallee", "relinked" (see FunctionCall)

vars == <<vals, inArgs, operands, reductions, status>>

Init ==
    vals = <<>> /\ inArgs = {} /\ operands = 0 /\ reductions = 0 /\ status = "parsing"

Depth == Len(vals)
Top == vals[Depth]
Second == vals[Depth - 1]

\* A rule with k expressions on its right side.
Reducing(k) ==
    /\ status = "parsing" /\ Depth >= k /\ reductions < MaxReductions
    /\ reductions' = reductions + 1
    /\ UNCHANGED operands

\* $$ = e, over k expressions; a constructor's failure ends the parse.
Reduce(k, e) ==
    IF IsNode(e)
    THEN vals' = Append(SubSeq(vals, 1, Depth - k), e) /\ UNCHANGED status
    ELSE status' = (IF e = Fault THEN "fault" ELSE "aborted") /\ UNCHANGED vals

(*************************** Operands **************************************)
\* paren_expression: an identifier, a number or a string.
Operand ==
    /\ status = "parsing" /\ operands < MaxOperands
    /\ \E e \in {VarNode(v, VarTypes[v]) : v \in DOMAIN VarTypes}
                \cup {FuncNode(f, Funcs[f].ret) : f \in DOMAIN Funcs}
                \cup {NumberNode(k) : k \in Numbers}
                \cup {StringNode(operands)} :
          vals' = Append(vals, e)
    /\ operands' = operands + 1
    /\ UNCHANGED <<inArgs, reductions, status>>

(*************************** Unary operators *******************************)
UnaryReduction(op) == Reducing(1) /\ Reduce(1, UnaryOf(op, Top)) /\ UNCHANGED inArgs

Cast(target) == Reducing(1) /\ Reduce(1, Casted(target, Top)) /\ UNCHANGED inArgs

(*************************** Binary operators ******************************)
BinaryReduction(op) ==
    /\ Reducing(2)
    /\ Reduce(2, Binary(op, Second, Top))
    /\ UNCHANGED inArgs

\* Second [ Top ]
Index ==
    /\ Reducing(2)
    /\ Reduce(2, Checked(Second, Indexed(Second, Top)))
    /\ UNCHANGED inArgs

Assign(op) ==
    /\ Reducing(2)
    /\ Reduce(2, Checked(Second, Assigned(op, Second, Top)))
    /\ UNCHANGED inArgs

(*************************** Calls *****************************************)
\* The functions among the arguments: their struct bae_function is the node
\* the argument list links.
FuncsAmong(args) == {args[i].val : i \in {i \in DOMAIN args : args[i].n = "func"}}
LinksTwice(args) ==
    \/ FuncsAmong(args) \cap inArgs # {}
    \/ \E i, j \in DOMAIN args : i < j /\ args[i].n = "func" /\ args[j].n = "func"
                                    /\ args[i].val = args[j].val

\* unary_postfix_expression '(' ... ')' with k arguments.  A callee of function
\* type is taken for a struct bae_function, which only an identifier is.  A
\* function linked into a second argument list corrupts the first.
FunctionCall(k) ==
    /\ Reducing(k + 1)
    /\ LET callee == vals[Depth - k]
           args   == SubSeq(vals, Depth - k + 1, Depth)
       IN  CASE callee.type = NullType -> Reduce(k + 1, Fault) /\ UNCHANGED inArgs
             [] callee.type # NullType /\ ~IsFunction(callee.type) ->
                   Reduce(k + 1, Failed) /\ UNCHANGED inArgs
             [] OTHER ->
                  IF callee.n # "func"
                  THEN status' = "badCallee" /\ UNCHANGED <<vals, inArgs>>
                  ELSE IF LinksTwice(args)
                  THEN status' = "relinked" /\ UNCHANGED <<vals, inArgs>>
                  ELSE /\ Reduce(k + 1, Call(callee.val, Funcs[callee.val], args))
                       /\ inArgs' = inArgs \cup FuncsAmong(args)

Next ==
    \/ Operand
    \/ \E op \in UnaryOps : UnaryReduction(op)
    \/ \E target \in CastTypes : Cast(target)
    \/ \E op \in BinaryOps : BinaryReduction(op)
    \/ Index
    \/ \E op \in CompoundOps \cup {""} : Assign(op)
    \/ \E k \in 0 .. 2 : FunctionCall(k)

Spec == Init /\ [][Next]_vars

(***************************************************************************)
(* Properties                                                              *)
(***************************************************************************)
\* The nodes the last reductions made, with the conversions inside them: a
\* compound assignment nests at most four.
WithKids(nodes) == nodes \cup UNION {{e.kids[i] : i \in DOMAIN e.kids} : e \in nodes}
Made == WithKids(WithKids(WithKids(WithKids({vals[i] : i \in DOMAIN vals}))))

\* What gen_node_binary_op relies on when it names one register for either
\* operand: both are as wide as an int at least (promoted), and equally wide.
\* Operands without a size (void, functions) are left out.
OperandsWide ==
    \A e \in Made : e.n = "binary" =>
        LET l == Size(e.kids[1].type)
            r == Size(e.kids[2].type)
        IN  l # 0 /\ r # 0 => l = r /\ l >= PrimSize["int"]

\* Every call passes exactly the parameters its function has, each of the
\* parameter's type, and beyond them only what an ellipsis takes, promoted.
CallsConverted ==
    \A e \in Made : e.n = "call" =>
        LET params == Funcs[e.val].params
        IN  /\ Len(e.kids) >= Len(params)
            /\ \A i \in DOMAIN e.kids :
                  IF i <= Len(params) THEN LvalueIdentical(params[i], e.kids[i].type)
                  ELSE /\ Funcs[e.val].ellipsis
                       /\ IsInteger(e.kids[i].type) => Size(e.kids[i].type) = PrimSize["int"]

Sides == {"l", "r"}
Other == [l |-> "r", r |-> "l"]
\* A value of type r may be kept where type l is expected and no access that
\* the types allow can then modify a const object: what can be reached through
\* r may be read as what l points to, and, where l may be written through, what
\* is written fits what r points to.
Safe(l, r) ==
    LET \* The sides whose layers behind k may be kept as those of the other side.
        safe[k \in 1 .. Len(l)] ==
            {to \in Sides :
                k = Len(l) \/
                LET at == [l |-> l[k + 1], r |-> r[k + 1]]
                IN  /\ to \in safe[k + 1]
                    /\ ~at[to].const => ~at[Other[to]].const /\ Other[to] \in safe[k + 1]}
    IN  Len(l) = Len(r) /\ "l" \in safe[1]

\* A cast that assignments and calls put around a value, and the type that the
\* value has in the source, before such a cast.
Inserted(e) == e.n = "cast" /\ e.op # "source"
SourceType(e) == IF Inserted(e) THEN e.kids[1].type ELSE e.type

\* The value e may be kept where type l is expected: safely, or as an integer,
\* or by one of two conversions that say nothing of const: to and from a pointer
\* to void, where bcc_ast_type_implicit_cast_exists does not look at it (and so
\* loses it), and from an integer marked as zero, which every number is.
Kept(l, e) ==
    LET r == SourceType(e)
    IN  \/ Safe(l, r)
        \/ IsInteger(l) /\ IsInteger(r)
        \/ IsVoidPointer(l) \/ IsVoidPointer(r)
        \/ IsPointer(l) /\ r[1].zero

\* const is respected: what is assigned is not const, and a pointer kept under
\* another type, through a cast that the code inserts too, cannot be used to
\* modify a const object unless a cast of the source or a pointer to void took
\* const away (the rule behind `const char **s = (char **)l' in type.c).
ConstRespected ==
    \A e \in Made :
        /\ e.n = "assign" => ~IsConst(e.type) /\ Kept(e.type, e.kids[2])
        /\ e.n = "call" =>
              \A i \in DOMAIN Funcs[e.val].params : Kept(Funcs[e.val].params[i], e.kids[i])

\* Addition and subtraction of a pointer and an integer never fault.
PointerArithmeticBuilt == status # "fault"
=============================================================================
