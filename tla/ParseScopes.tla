---------------------------- MODULE ParseScopes ----------------------------
(***************************************************************************)
(* The parse session of basic-cc: the semantic actions of                  *)
(* src/ast/in/lalr/parser.y that build functions, blocks, declarations and *)
(* statements, and the name lookup of src/ast/ast.c they rely on.          *)
(*                                                                         *)
(* The LALR automaton keeps half-built constructs on its value stack while *)
(* struct bcc_parser_state keeps, next to it, three bare pointers:         *)
(* current_func, current_scope and declaration_type.  Every action below   *)
(* is one grammar rule; `stack' holds the constructs whose rule has begun  *)
(* and not yet been reduced, and `result' is the semantic value ($$) of    *)
(* the statement or block reduced last, until a rule consumes it.          *)
(*                                                                         *)
(* Pointers are indices into the heaps; Null is the null pointer.          *)
(* Declarators are plain identifiers (pointer declarators are the subject  *)
(* of other modules), so a type is a primitive and its const flag.         *)
(***************************************************************************)
EXTENDS Naturals, Sequences, FiniteSets

CONSTANTS
    Names,       \* the identifiers of the source text
    NoName,      \* the name of an unnamed parameter: char *name = NULL
    Number,      \* a TOK_NUMBER operand
    ParamLists,  \* the parameter lists a function_declaration may carry
    Exprs,       \* the expressions a statement or an initialiser may carry
    DeclTypes,   \* the types a declaration may begin with
    MaxTypes, MaxVars, MaxBlocks, MaxExprs, MaxFuncs  \* heap bounds

Null == 0
Prims == {"int", "void"}
Param == [name: Names \cup {NoName}, prim: Prims, const: BOOLEAN]

ASSUME NamesAssumption == NoName \notin Names /\ Number \notin Names
ASSUME ParamListsAssumption == ParamLists \subseteq Seq(Param)

\* Expressions as source text.  "inc" stands for the four increment and
\* decrement rules, "assign" for '='.
Operand == Names \cup {Number}
Expr == [op: {"read", "inc"}, l: Operand, r: {Number}]
        \cup [op: {"assign"}, l: Operand, r: Operand]

ASSUME ExprsAssumption == Exprs \subseteq Expr

Type == [prim: Prims, const: BOOLEAN]
ASSUME DeclTypesAssumption == DeclTypes \subseteq Type

VARIABLES
    typeObjs,      \* struct bcc_ast_type objects
    varObjs,       \* struct bcc_ast_variable objects
    blockObjs,     \* struct bae_block objects
    exprObjs,      \* reduced expressions, with their operands looked up
    stmtObjs,      \* expression_stmt, return, if and while nodes
    funcObjs,      \* struct bae_function objects, in function_list order
    currentFunc, currentScope, declType,   \* struct bcc_parser_state
    stack,         \* rules begun and not yet reduced, outermost first
    result,        \* the statement or block reduced last, or NoNode
    status         \* yyparse: "parsing", "accepted", "aborted"; or "crashed"

state == <<currentFunc, currentScope, declType>>
vars == <<typeObjs, varObjs, blockObjs, exprObjs, stmtObjs, funcObjs,
          state, stack, result, status>>

(*************************** Values ****************************************)
Node == [t: {"none", "stmt", "block"}, id: Nat]
NoNode == [t |-> "none", id |-> Null]

\* What an operand denotes once its identifier is looked up; the last two
\* are lookups that end the parse.
Entity == [t: {"none", "number", "var", "func", "aborted", "crashed"}, id: Nat]
Denotes(t, id) == [t |-> t, id |-> id]

\* An expression with its operands looked up.
Resolved == [op: {"read", "inc", "assign"}, l: Entity, r: Entity]

Variable == [name: Names \cup {NoName}, type: Nat]
Block == [outer: Nat, variables: Seq(Nat), entries: Seq(Nat)]
Stmt == [kind: {"expr", "init", "if", "while"},
         expr: Nat, body: Node, alt: Node]
Func == [name: Names, params: Seq(Nat), locals: Seq(Nat), block: Nat]
Frame == [kind: {"function", "block", "declaration", "if", "else", "while"},
          id: Nat, expr: Nat, body: Node]

FrameOf(kind, id, expr, body) ==
    [kind |-> kind, id |-> id, expr |-> expr, body |-> body]

Top == stack[Len(stack)]
Pop == SubSeq(stack, 1, Len(stack) - 1)
Push(f) == Append(stack, f)

(*************************** Name lookup ***********************************)
\* The variables bcc_ast_find_variable compares, in the order it does: each
\* block from the given scope outwards along outer_block, then the parameters.
ScopeOrder[b \in 0 .. Len(blockObjs)] ==
    IF b = Null THEN <<>>
    ELSE blockObjs[b].variables \o ScopeOrder[blockObjs[b].outer]

SearchOrder_ParamsFirst(func, scope) == funcObjs[func].params \o ScopeOrder[scope]
SearchOrder(func, scope) == ScopeOrder[scope] \o funcObjs[func].params

\* The position of the first variable of `order' the walk stops at: the name
\* it looks for, or an unnamed parameter, on which strcmp(NULL, name) faults.
StopsAt(order, n) ==
    {i \in DOMAIN order : varObjs[order[i]].name \in {n, NoName}}

FindVariable(func, scope, n) ==
    LET order == SearchOrder(func, scope)
        hits  == StopsAt(order, n)
        first == CHOOSE i \in hits : \A j \in hits : i <= j
    IN  IF hits = {} THEN Denotes("none", Null)
        ELSE IF varObjs[order[first]].name = NoName THEN Denotes("crashed", Null)
        ELSE Denotes("var", order[first])

FindFunction(n) ==
    LET named == {f \in DOMAIN funcObjs : funcObjs[f].name = n}
    IN  IF named = {} THEN Denotes("none", Null)
        ELSE Denotes("func", CHOOSE f \in named : \A g \in named : f <= g)

\* paren_expression: a variable, else a function, else "Unknown identifier".
Resolve(x) ==
    IF x = Number THEN Denotes("number", Null)
    ELSE LET v == FindVariable(currentFunc, currentScope, x)
             f == FindFunction(x)
         IN  IF v.t # "none" THEN v
             ELSE IF f.t # "none" THEN f
             ELSE Denotes("aborted", Null)

(*************************** Expressions ***********************************)
PrimOf(ent) ==
    CASE ent.t = "var"  -> typeObjs[varObjs[ent.id].type].prim
      [] ent.t = "func" -> "function"
      [] OTHER          -> "int"

IsConst(ent) == ent.t = "var" /\ typeObjs[varObjs[ent.id].type].const

\* create_assignment succeeds: the rvalue's type is the lvalue's, a function
\* having become a pointer on the right only.
Assignable(lprim, rprim) == lprim = rprim /\ lprim # "function"

OpAccepted_NoConstCheck(op, l, r) ==
    CASE op = "read"   -> TRUE
      [] op = "inc"    -> l.t = "var"
      [] op = "assign" -> Assignable(PrimOf(l), PrimOf(r))
OpAccepted(op, l, r) ==
    CASE op = "read"   -> TRUE
      [] op = "inc"    -> l.t = "var"
      [] op = "assign" -> ~IsConst(l) /\ Assignable(PrimOf(l), PrimOf(r))

ResolveExpr(e) == [op |-> e.op, l |-> Resolve(e.l), r |-> Resolve(e.r)]

\* How the reductions of an expression leave the parse: the operands are
\* reduced left to right, and then the operator.
Outcome(x) ==
    IF x.l.t \in {"aborted", "crashed"} THEN x.l.t
    ELSE IF x.r.t \in {"aborted", "crashed"} THEN x.r.t
    ELSE IF OpAccepted(x.op, x.l, x.r) THEN "parsing" ELSE "aborted"

Init ==
    /\ typeObjs = <<>> /\ varObjs = <<>> /\ blockObjs = <<>>
    /\ exprObjs = <<>> /\ stmtObjs = <<>> /\ funcObjs = <<>>
    /\ currentFunc = Null /\ currentScope = Null /\ declType = Null
    /\ stack = <<>> /\ result = NoNode /\ status = "parsing"

(*************************** Control ***************************************)
Awaiting(kinds) ==
    /\ status = "parsing" /\ result = NoNode
    /\ stack # <<>> /\ Top.kind \in kinds

Reduced(kinds) ==
    /\ status = "parsing" /\ result # NoNode
    /\ stack # <<>> /\ Top.kind \in kinds

StatementPlace == {"block", "if", "else", "while"}

\* YYABORT, or the fault of a lookup: nothing more is parsed.
Stop(why) ==
    /\ status' = why
    /\ UNCHANGED <<typeObjs, varObjs, blockObjs, exprObjs, stmtObjs, funcObjs, state, stack, result>>

NewExpr == Len(exprObjs) + 1

NewStmt(kind, expr, body, alt) ==
    stmtObjs' = Append(stmtObjs, [kind |-> kind, expr |-> expr, body |-> body, alt |-> alt])

Yield == result' = [t |-> "stmt", id |-> Len(stmtObjs) + 1]

(*************************** Functions *************************************)
\* function_declaration: the parameters become variables of the function,
\* which enters function_list at once so that its body can call it.
FunctionDeclaration(n, ps) ==
    /\ status = "parsing" /\ stack = <<>>
    /\ Len(funcObjs) < MaxFuncs
    /\ Len(varObjs) + Len(ps) <= MaxVars /\ Len(typeObjs) + Len(ps) <= MaxTypes
    /\ typeObjs' = typeObjs \o [i \in DOMAIN ps |-> [prim |-> ps[i].prim, const |-> ps[i].const]]
    /\ varObjs' = varObjs \o [i \in DOMAIN ps |->
                                [name |-> ps[i].name, type |-> Len(typeObjs) + i]]
    /\ funcObjs' = Append(funcObjs,
            [name |-> n, params |-> [i \in DOMAIN ps |-> Len(varObjs) + i],
             locals |-> <<>>, block |-> Null])
    /\ currentFunc' = Len(funcObjs) + 1
    /\ stack' = Push(FrameOf("function", Len(funcObjs) + 1, Null, NoNode))
    /\ UNCHANGED <<blockObjs, exprObjs, stmtObjs, currentScope, declType, result, status>>

\* function: function_declaration ';'
FunctionPrototype ==
    /\ Awaiting({"function"})
    /\ currentScope' = Null /\ currentFunc' = Null
    /\ stack' = Pop
    /\ UNCHANGED <<typeObjs, varObjs, blockObjs, exprObjs, stmtObjs, funcObjs, declType, result, status>>

\* The scope left behind by a function's closing brace.
ScopeAfterFunction(b) == Null

\* function: function_declaration '{' block '}'
FunctionDefinition ==
    /\ Awaiting({"block"}) /\ Len(stack) = 2
    /\ funcObjs' = [funcObjs EXCEPT ![stack[1].id].block = Top.id]
    /\ currentScope' = ScopeAfterFunction(Top.id) /\ currentFunc' = Null
    /\ stack' = <<>>
    /\ UNCHANGED <<typeObjs, varObjs, blockObjs, exprObjs, stmtObjs, declType, result, status>>

(*************************** Blocks ****************************************)
\* block: %empty, reduced right after '{'.
OpenBlock ==
    /\ Awaiting({"function", "if", "else", "while"})
    /\ Len(blockObjs) < MaxBlocks
    /\ blockObjs' = Append(blockObjs,
            [outer |-> currentScope, variables |-> <<>>, entries |-> <<>>])
    /\ currentScope' = Len(blockObjs) + 1
    /\ stack' = Push(FrameOf("block", Len(blockObjs) + 1, Null, NoNode))
    /\ UNCHANGED <<typeObjs, varObjs, exprObjs, stmtObjs, funcObjs, currentFunc, declType, result, status>>

\* The scope left behind by a block's closing brace.
ScopeAfterBlock_NotRestored(b) == b
ScopeAfterBlock(b) == blockObjs[b].outer

\* optional_block: '{' block '}'
CloseBlock ==
    /\ Awaiting({"block"}) /\ Len(stack) > 2
    /\ currentScope' = ScopeAfterBlock(Top.id)
    /\ result' = [t |-> "block", id |-> Top.id]
    /\ stack' = Pop
    /\ UNCHANGED <<typeObjs, varObjs, blockObjs, exprObjs, stmtObjs, funcObjs, currentFunc, declType, status>>

\* bae_block_add_entry: statements go to the tail of the entry list.
AddEntry_AtHead(entries, s) == <<s>> \o entries
AddEntry(entries, s) == Append(entries, s)

\* block: block statement, which appends to the block of the value stack.
BlockStatement ==
    /\ Reduced({"block"})
    /\ blockObjs' = [blockObjs EXCEPT ![Top.id].entries = AddEntry(@, result.id)]
    /\ result' = NoNode
    /\ UNCHANGED <<typeObjs, varObjs, exprObjs, stmtObjs, funcObjs, state, stack, status>>

(*************************** Declarations **********************************)
\* declaration: type_base { state->declaration_type = $1; }
BeginDeclaration(type) ==
    /\ Awaiting({"block"})
    /\ Len(typeObjs) < MaxTypes
    /\ typeObjs' = Append(typeObjs, type)
    /\ declType' = Len(typeObjs) + 1
    /\ stack' = Push(FrameOf("declaration", 0, Null, NoNode))
    /\ UNCHANGED <<varObjs, blockObjs, exprObjs, stmtObjs, funcObjs, currentFunc, currentScope, result, status>>

\* "Variable cannot be of type void"
VoidVariable == typeObjs[declType].prim = "void"

\* The list_add_tail that puts a new local on the function whose frame holds it.
AddLocal_NoFrameEntry(n) ==
    /\ varObjs' = Append(varObjs, [name |-> n, type |-> declType])
    /\ UNCHANGED funcObjs
AddLocal_NextType(n) ==
    /\ varObjs' = Append(varObjs, [name |-> n, type |-> declType + 1])
    /\ funcObjs' = [funcObjs EXCEPT ![currentFunc].locals = Append(@, Len(varObjs) + 1)]
AddLocal(n) ==
    /\ varObjs' = Append(varObjs, [name |-> n, type |-> declType])
    /\ funcObjs' = [funcObjs EXCEPT ![currentFunc].locals = Append(@, Len(varObjs) + 1)]

\* declaration_optional_assignment: type_declarator
Declare(n) ==
    /\ Awaiting({"declaration"}) /\ Len(varObjs) < MaxVars
    /\ \/ /\ VoidVariable
          /\ Stop("aborted")
       \/ /\ ~VoidVariable
          /\ AddLocal(n)
          /\ blockObjs' = [blockObjs EXCEPT
                ![currentScope].variables = Append(@, Len(varObjs) + 1)]
          /\ stack' = [stack EXCEPT ![Len(stack)].id = 1]
          /\ UNCHANGED <<typeObjs, exprObjs, stmtObjs, state, result, status>>

\* const is lifted from the declared type while the initialiser is assigned;
\* this is what it is set back to.
ConstAfterInit_Forgotten(wasConst) == FALSE
ConstAfterInit(wasConst) == wasConst

\* The current block with variable v and the statement s that initialises it.
WithInit(block, v, s) ==
    [block EXCEPT !.variables = Append(@, v), !.entries = AddEntry(@, s)]

\* declaration_optional_assignment: type_declarator '=' expression.  The
\* expression is reduced first, so it cannot see the variable it initialises.
DeclareInit(n, e) ==
    /\ Awaiting({"declaration"}) /\ Len(varObjs) < MaxVars /\ Len(exprObjs) < MaxExprs
    /\ LET x == ResolveExpr(e)
           v == Len(varObjs) + 1
           wasConst == typeObjs[declType].const
       IN  \/ Outcome(x) # "parsing" /\ Stop(Outcome(x))
           \/ /\ Outcome(x) = "parsing" /\ VoidVariable
              /\ Stop("aborted")
           \/ /\ Outcome(x) = "parsing" /\ ~VoidVariable
              /\ AddLocal(n)
              /\ \/ /\ ~Assignable(typeObjs[declType].prim, PrimOf(x.l))
                    /\ typeObjs' = [typeObjs EXCEPT ![declType].const = FALSE]
                    /\ blockObjs' = [blockObjs EXCEPT
                          ![currentScope].variables = Append(@, v)]
                    /\ status' = "aborted"
                    /\ UNCHANGED <<exprObjs, stmtObjs, stack>>
                 \/ /\ Assignable(typeObjs[declType].prim, PrimOf(x.l))
                    /\ typeObjs' = [typeObjs EXCEPT ![declType].const = ConstAfterInit(wasConst)]
                    /\ exprObjs' = Append(exprObjs,
                          [op |-> "assign", l |-> Denotes("var", v), r |-> x.l])
                    /\ NewStmt("init", NewExpr, NoNode, NoNode)
                    /\ blockObjs' = [blockObjs EXCEPT
                          ![currentScope] = WithInit(@, v, Len(stmtObjs) + 1)]
                    /\ stack' = [stack EXCEPT ![Len(stack)].id = 1]
                    /\ UNCHANGED status
              /\ UNCHANGED <<state, result>>

\* declaration: ... declaration_list ';'
EndDeclaration ==
    /\ Awaiting({"declaration"}) /\ Top.id = 1
    /\ stack' = Pop
    /\ UNCHANGED <<typeObjs, varObjs, blockObjs, exprObjs, stmtObjs, funcObjs, state, result, status>>

(*************************** Statements ************************************)
\* statement: expression ';'  and  statement: TOK_RETURN expression ';', whose
\* nodes differ in nothing the parse session depends on.
ExprStatement(e) ==
    /\ Awaiting(StatementPlace) /\ Len(exprObjs) < MaxExprs
    /\ LET x == ResolveExpr(e)
       IN  \/ Outcome(x) # "parsing" /\ Stop(Outcome(x))
           \/ /\ Outcome(x) = "parsing"
              /\ exprObjs' = Append(exprObjs, x)
              /\ NewStmt("expr", NewExpr, NoNode, NoNode)
              /\ Yield
              /\ UNCHANGED <<typeObjs, varObjs, blockObjs, funcObjs, state, stack, status>>

\* TOK_IF '(' expression ')'  and  TOK_WHILE '(' expression ')'
BeginControl(kind, e) ==
    /\ Awaiting(StatementPlace) /\ Len(exprObjs) < MaxExprs
    /\ LET x == ResolveExpr(e)
       IN  \/ Outcome(x) # "parsing" /\ Stop(Outcome(x))
           \/ /\ Outcome(x) = "parsing"
              /\ exprObjs' = Append(exprObjs, x)
              /\ stack' = Push(FrameOf(kind, Null, NewExpr, NoNode))
              /\ UNCHANGED <<typeObjs, varObjs, blockObjs, stmtObjs, funcObjs, state,
                             result, status>>

\* TOK_ELSE after the first branch: the dangling else binds to the innermost if.
Else_DropsBranch ==
    /\ Reduced({"if"})
    /\ stack' = [stack EXCEPT ![Len(stack)] = FrameOf("else", Null, @.expr, NoNode)]
    /\ result' = NoNode
    /\ UNCHANGED <<typeObjs, varObjs, blockObjs, exprObjs, stmtObjs, funcObjs, state, status>>
Else ==
    /\ Reduced({"if"})
    /\ stack' = [stack EXCEPT ![Len(stack)] = FrameOf("else", Null, @.expr, result)]
    /\ result' = NoNode
    /\ UNCHANGED <<typeObjs, varObjs, blockObjs, exprObjs, stmtObjs, funcObjs, state, status>>

\* The if without else, the if with else, and the while: one node each.
EndControl ==
    /\ Reduced({"if", "else", "while"})
    /\ \/ Top.kind \in {"if", "while"} /\ NewStmt(Top.kind, Top.expr, result, NoNode)
       \/ Top.kind = "else" /\ NewStmt("if", Top.expr, Top.body, result)
    /\ Yield
    /\ stack' = Pop
    /\ UNCHANGED <<typeObjs, varObjs, blockObjs, exprObjs, funcObjs, state, status>>

(*************************** Ends of the parse *****************************)
\* basic_cc_file: basic_cc_file TOK_EOF { YYACCEPT; }
Accept ==
    /\ status = "parsing" /\ stack = <<>>
    /\ status' = "accepted"
    /\ UNCHANGED <<typeObjs, varObjs, blockObjs, exprObjs, stmtObjs, funcObjs, state, stack, result>>

\* A token no rule can take: yyerror, then yyparse returns 1.
SyntaxError == status = "parsing" /\ Stop("aborted")

Next ==
    \/ \E n \in Names, ps \in ParamLists : FunctionDeclaration(n, ps)
    \/ FunctionPrototype
    \/ FunctionDefinition
    \/ OpenBlock
    \/ CloseBlock
    \/ BlockStatement
    \/ \E type \in DeclTypes : BeginDeclaration(type)
    \/ \E n \in Names : Declare(n)
    \/ \E n \in Names, e \in Exprs : DeclareInit(n, e)
    \/ EndDeclaration
    \/ \E e \in Exprs : ExprStatement(e)
    \/ \E kind \in {"if", "while"}, e \in Exprs : BeginControl(kind, e)
    \/ Else
    \/ EndControl
    \/ Accept
    \/ SyntaxError

Spec == Init /\ [][Next]_vars

(***************************************************************************)
(* Properties                                                              *)
(***************************************************************************)
\* Every heap object has its shape; the parser's own pointers and the types of
\* the variables exist.
PointersTyped ==
    /\ typeObjs \in Seq(Type)
    /\ varObjs \in Seq(Variable) /\ \A v \in DOMAIN varObjs : varObjs[v].type \in DOMAIN typeObjs
    /\ blockObjs \in Seq(Block)
    /\ stmtObjs \in Seq(Stmt)
    /\ funcObjs \in Seq(Func)
    /\ currentFunc \in 0 .. Len(funcObjs)
    /\ currentScope \in 0 .. Len(blockObjs)
    /\ declType \in 0 .. Len(typeObjs)
    /\ stack \in Seq(Frame)
    /\ result \in Node
    /\ status \in {"parsing", "accepted", "aborted", "crashed"}

IsBlockFrame(frame) == frame.kind = "block"

\* s is the block opened last among the first k frames of stk and still open.
IsInnermost(stk, s, k) ==
    \/ s = Null /\ \A j \in 1 .. k : ~IsBlockFrame(stk[j])
    \/ \E i \in 1 .. k : /\ IsBlockFrame(stk[i]) /\ stk[i].id = s
                         /\ \A j \in (i + 1) .. k : ~IsBlockFrame(stk[j])

\* The bare pointers of the parser state agree with the value stack: while a
\* file is parsed, current_scope is the innermost open block, each open block's
\* outer_block is the one open around it, and current_func is the function
\* whose rule has begun (all null between functions).  Nested blocks, both
\* branches of an if, loops and the end of a function all have to restore them.
ScopeChain ==
    status = "parsing" =>
        /\ IsInnermost(stack, currentScope, Len(stack))
        /\ \A i \in DOMAIN stack : IsBlockFrame(stack[i]) =>
               IsInnermost(stack, blockObjs[stack[i].id].outer, i - 1)
        /\ currentFunc = IF stack = <<>> THEN Null ELSE stack[1].id

\* C's rule, from the braces still open and not from outer_block: the first
\* declaration of n in the innermost open block that declares n, else a parameter.
FirstNamed(order, n) ==
    LET named == {i \in DOMAIN order : varObjs[order[i]].name = n}
    IN  IF named = {} THEN Null ELSE order[CHOOSE i \in named : \A j \in named : i <= j]

LexicalVariable(n) ==
    LET declares == {i \in DOMAIN stack : IsBlockFrame(stack[i])
                        /\ FirstNamed(blockObjs[stack[i].id].variables, n) # Null}
    IN  IF declares # {}
        THEN LET i == CHOOSE i \in declares : \A j \in declares : j <= i
             IN  FirstNamed(blockObjs[stack[i].id].variables, n)
        ELSE FirstNamed(funcObjs[currentFunc].params, n)

\* bcc_ast_find_variable finds, for every name and wherever an expression may
\* be parsed, the variable C's scoping gives it: never one of a closed block or
\* of another function.
ResolvesLexically ==
    status = "parsing" /\ stack # <<>> =>
        \A n \in Names :
            LET found == FindVariable(currentFunc, currentScope, n)
            IN  found.t # "crashed" => found.id = LexicalVariable(n)

\* Every variable is on exactly one of the lists bcc_ast_clear frees variables
\* from (a block's variable_list or a function's param_list), and every local
\* of a function has exactly one place in its frame (local_variable_list).
Places(lists, v) ==
    UNION {{<<o, i>> : i \in {i \in DOMAIN lists[o] : lists[o][i] = v}} : o \in DOMAIN lists}
BlockLists == [b \in DOMAIN blockObjs |-> blockObjs[b].variables]
ParamListsOf == [f \in DOMAIN funcObjs |-> funcObjs[f].params]
LocalLists == [f \in DOMAIN funcObjs |-> funcObjs[f].locals]
VariablesOwnedOnce ==
    \A v \in DOMAIN varObjs :
        /\ Cardinality(Places(BlockLists, v)) + Cardinality(Places(ParamListsOf, v)) = 1
        /\ Cardinality(Places(LocalLists, v)) = Cardinality(Places(BlockLists, v))

\* Every statement and every block has exactly one holder: an entry list, a
\* branch or body, a function, the value stack, or the pending value.  A node is
\* linked by its only list node, so two holders would corrupt both lists.
StmtNode(s) == [t |-> "stmt", id |-> s]
BlockNode(b) == [t |-> "block", id |-> b]
InEntries ==
    UNION {{<<"entry", <<b, i>>, StmtNode(blockObjs[b].entries[i])>> :
               i \in DOMAIN blockObjs[b].entries} : b \in DOMAIN blockObjs}
InBodies == {<<"body", s, stmtObjs[s].body>> : s \in DOMAIN stmtObjs}
InAlts == {<<"alt", s, stmtObjs[s].alt>> : s \in DOMAIN stmtObjs}
InFuncs == {<<"func", f, BlockNode(funcObjs[f].block)>> : f \in DOMAIN funcObjs}
StillOpen == {<<"open", i, BlockNode(stack[i].id)>> :
                 i \in {i \in DOMAIN stack : IsBlockFrame(stack[i])}}
InBranches == {<<"branch", i, stack[i].body>> : i \in DOMAIN stack}
Pending == {<<"result", 0, result>>}
Holdings == InEntries \cup InBodies \cup InAlts \cup InFuncs \cup StillOpen \cup InBranches \cup Pending
Nodes == {StmtNode(s) : s \in DOMAIN stmtObjs} \cup {BlockNode(b) : b \in DOMAIN blockObjs}
NodesOwnedOnce ==
    LET held == Holdings
    IN  \A nd \in Nodes : Cardinality({h \in held : h[3] = nd}) = 1

\* No list, outer_block, branch, body or block of a function points outside its
\* heap, whichever rule linked it and however the parse ends; outer_block points
\* to an older block.
AllIn(list, heap) == \A i \in DOMAIN list : list[i] \in DOMAIN heap
PointersInRange ==
    /\ \A b \in DOMAIN blockObjs :
          /\ blockObjs[b].outer \in 0 .. (b - 1)
          /\ AllIn(blockObjs[b].variables, varObjs) /\ AllIn(blockObjs[b].entries, stmtObjs)
    /\ \A f \in DOMAIN funcObjs :
          AllIn(funcObjs[f].params, varObjs) /\ AllIn(funcObjs[f].locals, varObjs)
    /\ \A h \in Holdings : h[3] \in Nodes \cup {NoNode, BlockNode(Null)}

TypeOK == PointersTyped /\ PointersInRange /\ exprObjs \in Seq(Resolved)

\* Initialisers and statements run in the order they were written, although
\* the first reach the block through current_scope and the others through $1.
EntriesInSourceOrder ==
    \A b \in DOMAIN blockObjs :
        LET es == blockObjs[b].entries
        IN  \A i, j \in DOMAIN es : i < j => es[i] < es[j]

Initialisers == {stmtObjs[s].expr : s \in {s \in DOMAIN stmtObjs : stmtObjs[s].kind = "init"}}

\* No accepted expression assigns a const variable (other than its initialiser):
\* "lvalue is const".  The flag is lifted and set back by each initialiser of
\* the declaration, whose variables share one type object.
ConstNeverAssigned ==
    \A x \in DOMAIN exprObjs \ Initialisers :
        exprObjs[x].op = "assign" => ~IsConst(exprObjs[x].l)

\* A declared type keeps its const flag as long as the parse goes on.
ConstPreserved ==
    [][status' = "parsing" =>
          \A t \in DOMAIN typeObjs : typeObjs'[t].const = typeObjs[t].const]_vars

\* What the tests say of every program they hold: a lookup never faults.
\* The unnamed parameter of `int main2(void)' makes it fault.
LookupNeverFaults == status # "crashed"

\* A parameter is never of type void.
ParamsNotVoid ==
    \A f \in DOMAIN funcObjs : \A i \in DOMAIN funcObjs[f].params :
        LET p == varObjs[funcObjs[f].params[i]]
        IN  p.name # NoName => typeObjs[p.type].prim # "void"
=============================================================================
