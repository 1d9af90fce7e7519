----------------------------- MODULE AstMemory -----------------------------
(***************************************************************************)
(* Who frees what.  Nodes of the AST are areas of a bump allocator         *)
(* (bump_alloc.c), which frees them all at the end and runs the clear      *)
(* function of those that own something: a block its variables, a function *)
(* its parameters and name, a string literal its characters.  Everything   *)
(* else on the way there is malloc'd by the scanner or a rule of the       *)
(* parser, waits on the value stack, and is handed on or freed by the rule *)
(* that takes it.  Types have an allocator of their own (ObjectPool).      *)
(*                                                                         *)
(* The value stack holds the symbols that point to memory.  What the rules *)
(* do to it is that of parser.y; names and types are not looked at, so a   *)
(* rule that tests them may go either way.                                 *)
(***************************************************************************)
EXTENDS Naturals, Sequences, FiniteSets, SequencesExt

CONSTANTS
    Addresses,     \* where malloc can put something
    MaxSymbols,    \* most symbols that point to memory on the value stack
    MaxUndone      \* how often an & may undo a *

ASSUME AddressesAssumption == IsFiniteSet(Addresses) /\ Addresses \subseteq Nat \ {0}
ASSUME BoundsAssumption == MaxSymbols \in Nat \ {0} /\ MaxUndone \in Nat

NULL == 0
Pointers == Addresses \cup {NULL}

Kinds == {"name", "string", "list", "variable", "block", "function", "literal", "deref", "node"}
NodeKinds == {"block", "function", "literal", "deref", "node"}
\* A piece of memory: what it is and the memory it is responsible for: a
\* name (a literal's characters too), and variables on its list.  locals is
\* the function's list of local variables, which their blocks own.
Cell == [kind: Kinds, name: Pointers, vars: Seq(Addresses), locals: Seq(Addresses), expr: Pointers]
Unused == [kind |-> "unused"]
New(kind) == [kind |-> kind, name |-> NULL, vars |-> <<>>, locals |-> <<>>, expr |-> NULL]

VARIABLES
    heap,       \* what is at each address, or Unused
    areas,      \* the allocator's areas, newest first: node and clear function
    symbols,    \* the value stack: symbol and pointer
    func,       \* current_func
    scope,      \* current_scope
    outer,      \* the outer_block of each open block
    memStatus,  \* "parsing", "accepted", "aborted", "cleared", "doubleFree"
    lost,       \* what was in hand when the parse ended, and nobody has now (history)
    undone      \* how often an & has undone a * (history)

memVars == <<heap, areas, symbols, func, scope, outer, memStatus, lost, undone>>

MemInit ==
    /\ heap = [a \in Addresses |-> Unused] /\ areas = <<>> /\ symbols = <<>>
    /\ func = NULL /\ scope = NULL /\ outer = <<>> /\ memStatus = "parsing" /\ lost = {} /\ undone = 0

(******************************** Memory ***********************************)
Live == {a \in Addresses : heap[a] # Unused}
\* malloc gives any free address; the lowest, so that what is freed is given
\* out again soon.
Lowest(set) == CHOOSE a \in set : \A b \in set : a <= b
Vacant(h) == {a \in Addresses : h[a] = Unused}
Room(n) == Cardinality(Addresses \ Live) >= n
Fresh == Lowest(Addresses \ Live)
Second == Lowest(Addresses \ (Live \cup {Fresh}))

\* bcc_ast_entry_alloc: a node and its area.  Each kind has its clear function.
ClearOf_Every(kind) == kind
ClearOf(kind) == IF kind \in {"block", "function", "literal"} THEN kind ELSE "none"
Area(a, kind) == [obj |-> a, clear |-> ClearOf(kind)]

(****************************** Value stack ********************************)
Sym(s, a) == [sym |-> s, at |-> a]
Top == Last(symbols)
On(s) == symbols # <<>> /\ Top.sym = s
Under(n) == symbols[Len(symbols) - n]
Beneath(n, s) == Len(symbols) > n /\ Under(n).sym = s
Popped(n) == SubSeq(symbols, 1, Len(symbols) - n)
Push(n, s, a) ==
    /\ Len(symbols) - n < MaxSymbols
    /\ symbols' = Append(Popped(n), Sym(s, a))

Parsing == memStatus = "parsing"
Context == UNCHANGED <<func, scope, outer, undone>>
Proceed == Parsing /\ UNCHANGED <<memStatus, lost>>
\* The parse ends with a token's memory in hand that no rule has taken: the
\* lookahead's name or string, or the buffer (lex_str) of a string that the end
\* of the text leaves open.  Bison has no %destructor for it.
EndsIn(kind, h, hand) ==
    LET a == Lowest(Vacant(h))
    IN  Vacant(h) # {} /\ heap' = [h EXCEPT ![a] = New(kind)] /\ lost' = hand \cup {a}
\* A rule, or the parser at a syntax error, gives up; hand is what only its
\* local variables point to.
GiveUp(h, hand) ==
    /\ Parsing /\ memStatus' = "aborted"
    /\ \/ heap' = h /\ lost' = hand
       \/ \E kind \in {"name", "string"} : EndsIn(kind, h, hand)

\* An expression may start, or a statement end, here.
ExprMayStart == On("block") \/ On("expr") \/ On("args") \/ (On("declarator") /\ Beneath(1, "block"))

\* A rule whose value is a new node over the n symbols it takes.
NewNode(n, node) ==
    /\ Proceed /\ Room(1)
    /\ heap' = [heap EXCEPT ![Fresh] = node]
    /\ areas' = <<Area(Fresh, node.kind)>> \o areas
    /\ Push(n, "expr", Fresh) /\ Context

(************************* Tokens and expressions **************************)
\* TOK_IDENT, strdup: the name of a function, what a declarator declares, or a
\* variable or function of an expression.
Identifier(sym) ==
    /\ Proceed /\ Room(1)
    /\ CASE sym = "name" -> symbols = <<>>
         [] sym = "declarator" -> On("block") \/ On("params")
         [] sym = "ident" -> ExprMayStart
    /\ heap' = [heap EXCEPT ![Fresh] = New("name")]
    /\ Push(0, sym, Fresh) /\ Context /\ UNCHANGED areas
\* TOK_STRING, the scanner's buffer, where an expression takes it; anywhere else
\* it is the lookahead of an Error.
StringToken ==
    /\ Proceed /\ Room(1) /\ ExprMayStart
    /\ heap' = [heap EXCEPT ![Fresh] = New("string")]
    /\ Push(0, "string", Fresh) /\ Context /\ UNCHANGED areas
\* string: string TOK_STRING: realloc of the first, free of the second.  The
\* memory may move.
Concatenate ==
    /\ Proceed /\ Room(1) /\ On("string")
    /\ \E a \in {Fresh, Top.at} :
          /\ heap' = [heap EXCEPT ![Top.at] = Unused, ![a] = New("string")]
          /\ Push(1, "string", a)
    /\ Context /\ UNCHANGED areas
LiteralString ==
    /\ On("string") /\ NewNode(1, [New("literal") EXCEPT !.name = Top.at])
LiteralNumber == ExprMayStart /\ NewNode(0, New("node"))

\* paren_expression: TOK_IDENT.  The name is freed, found or not.
WithoutName_Kept(h, a) == h
WithoutName(h, a) == [h EXCEPT ![a] = Unused]
VariableName ==
    /\ On("ident") /\ Proceed /\ Room(1)
    /\ heap' = [WithoutName(heap, Top.at) EXCEPT ![Fresh] = New("node")]
    /\ areas' = <<Area(Fresh, "node")>> \o areas
    /\ Push(1, "expr", Fresh) /\ Context
FunctionName ==
    /\ On("ident") /\ Proceed
    /\ heap' = WithoutName(heap, Top.at)
    /\ \E f \in {a \in Live : heap[a].kind = "function"} : Push(1, "expr", f)
    /\ Context /\ UNCHANGED areas
\* The rule is reduced without a lookahead.
UnknownName ==
    /\ On("ident") /\ Parsing /\ memStatus' = "aborted"
    /\ heap' = WithoutName(heap, Top.at) /\ symbols' = Popped(1)
    /\ Context /\ UNCHANGED <<areas, lost>>

Dereference == On("expr") /\ NewNode(1, [New("deref") EXCEPT !.expr = Top.at])
\* Any other operator of one operand, or a cast.
UnaryOp == On("expr") /\ NewNode(1, New("node"))
BinaryOp == On("expr") /\ Beneath(1, "expr") /\ NewNode(2, New("node"))
\* & of a * gives the pointer, and frees the *.
Pointed_TheNode(a) == a
Pointed(a) == heap[a].expr
AddressOf ==
    /\ On("expr") /\ Proceed /\ heap[Top.at].kind = "deref"
    /\ heap' = [heap EXCEPT ![Top.at] = Unused] /\ Push(1, "expr", Pointed(Top.at))
    /\ undone < MaxUndone /\ undone' = undone + 1 /\ UNCHANGED <<areas, func, scope, outer>>

(********************************* Calls ***********************************)
\* '(' after what is called: no list until the first argument.
OpenCall == On("expr") /\ Proceed /\ Push(0, "args", NULL) /\ Context /\ UNCHANGED <<heap, areas>>
\* function_arg_list: the argument is linked to a list made for the first one.
Argument ==
    /\ On("expr") /\ Beneath(1, "args") /\ Proceed
    /\ IF Under(1).at # NULL
       THEN Push(2, "args", Under(1).at) /\ UNCHANGED heap
       ELSE Room(1) /\ heap' = [heap EXCEPT ![Fresh] = New("list")] /\ Push(2, "args", Fresh)
    /\ Context /\ UNCHANGED areas
\* ')': the list is replaced by the call's own, and freed.
Freed(h, a) == IF a = NULL THEN h ELSE [h EXCEPT ![a] = Unused]
Call ==
    /\ On("args") /\ Beneath(1, "expr") /\ Proceed /\ Room(1)
    /\ heap' = Freed([heap EXCEPT ![Fresh] = New("node")], Top.at)
    /\ areas' = <<Area(Fresh, "node")>> \o areas
    /\ Push(2, "expr", Fresh) /\ Context

(****************************** Statements *********************************)
\* expression ';', and return: the statement goes on the block's entry list.
Statement ==
    /\ On("expr") /\ Beneath(1, "block") /\ Proceed /\ Room(1)
    /\ heap' = [heap EXCEPT ![Fresh] = New("node")]
    /\ areas' = <<Area(Fresh, "node")>> \o areas
    /\ symbols' = Popped(1) /\ Context
\* block: %empty, in a function and behind if (...) or while (...).
OpenBlock ==
    /\ On("func") \/ (On("expr") /\ Beneath(1, "block"))
    /\ Proceed /\ Room(1)
    /\ heap' = [heap EXCEPT ![Fresh] = New("block")]
    /\ areas' = <<Area(Fresh, "block")>> \o areas
    /\ Push(0, "block", Fresh)
    /\ outer' = Append(outer, scope) /\ scope' = Fresh /\ UNCHANGED <<func, undone>>
\* '}' of an if or while, whose node takes the condition and the block.
CloseBlock ==
    /\ On("block") /\ Beneath(1, "expr") /\ Proceed /\ Room(1)
    /\ heap' = [heap EXCEPT ![Fresh] = New("node")]
    /\ areas' = <<Area(Fresh, "node")>> \o areas
    /\ symbols' = Popped(2)
    /\ scope' = Last(outer) /\ outer' = Front(outer) /\ UNCHANGED <<func, undone>>

\* A variable takes its name, and is linked to a list.
Variable(name) == [New("variable") EXCEPT !.name = name]
Onto(h, list, v) == [h EXCEPT ![list].vars = Append(@, v)]

\* declaration_optional_assignment: the variable takes the name, the block the
\* variable, and the function lists it.
Declared(h, v) == [Onto(h, scope, v) EXCEPT ![func].locals = Append(@, v)]
Declare ==
    /\ On("declarator") /\ Beneath(1, "block") /\ Proceed /\ Room(1)
    /\ heap' = Declared([heap EXCEPT ![Fresh] = Variable(Top.at)], Fresh)
    /\ symbols' = Popped(1) /\ Context /\ UNCHANGED areas
\* With an initialiser: also the variable's node, the assignment and the
\* statement, of which the model keeps one.  The value stack's own pointer to
\* the name is gone once the rule is reduced.  If the initialiser's type does
\* not fit, the rule gives up with the variable declared.
DeclareInit ==
    /\ On("expr") /\ Beneath(1, "declarator") /\ Parsing /\ Room(2)
    /\ LET h == Declared([heap EXCEPT ![Fresh] = Variable(Under(1).at), ![Second] = New("node")], Fresh)
       IN  (heap' = h /\ UNCHANGED <<memStatus, lost>>) \/ GiveUp(h, {})
    /\ areas' = <<Area(Second, "node")>> \o areas
    /\ symbols' = Popped(2) /\ Context
\* A variable of type void, with an initialiser or without: the rule gives up
\* with the variable on no list.
DeclareVoid ==
    /\ Room(1)
    /\ \/ /\ On("declarator") /\ Beneath(1, "block") /\ symbols' = Popped(1)
          /\ GiveUp([heap EXCEPT ![Fresh] = Variable(Top.at)], {Fresh})
       \/ /\ On("expr") /\ Beneath(1, "declarator") /\ symbols' = Popped(2)
          /\ GiveUp([heap EXCEPT ![Fresh] = Variable(Under(1).at)], {Fresh})
    /\ Context /\ UNCHANGED areas

(******************************* Functions *********************************)
OpenParams == On("name") /\ Proceed /\ Push(0, "params", NULL) /\ Context /\ UNCHANGED <<heap, areas>>
\* parameter, with a name or without, and parameter_list: a list is made for
\* the first.
Parameter ==
    /\ Proceed
    /\ \E named \in BOOLEAN :
         LET taken == IF named THEN 2 ELSE 1
             name == IF named THEN Top.at ELSE NULL
             list == IF named THEN Under(1).at ELSE Top.at
             new == [heap EXCEPT ![Fresh] = Variable(name)]
         IN  /\ IF named THEN On("declarator") /\ Beneath(1, "params") ELSE On("params")
             /\ IF list # NULL
                THEN /\ Room(1) /\ Push(taken, "params", list)
                     /\ heap' = Onto(new, list, Fresh)
                ELSE /\ Room(2) /\ Push(taken, "params", Second)
                     /\ heap' = Onto([new EXCEPT ![Second] = New("list")], Second, Fresh)
    /\ Context /\ UNCHANGED areas

\* function_declaration: the function takes its name and the parameters of the
\* list, which is freed.
FreeList_Kept(h, list) == h
FreeList(h, list) == Freed(h, list)
FunctionDeclaration ==
    /\ On("params") /\ Beneath(1, "name") /\ Proceed /\ Room(1)
    /\ LET list == Top.at
           params == IF list = NULL THEN <<>> ELSE heap[list].vars
           node == [New("function") EXCEPT !.name = Under(1).at, !.vars = params]
       IN  heap' = FreeList([heap EXCEPT ![Fresh] = node], list)
    /\ areas' = <<Area(Fresh, "function")>> \o areas
    /\ Push(2, "func", Fresh) /\ func' = Fresh /\ UNCHANGED <<scope, outer, undone>>
\* '}' of the body, or ';' of a prototype.
EndFunction ==
    /\ Proceed
    /\ \/ On("block") /\ Beneath(1, "func") /\ symbols' = Popped(2) /\ outer' = Front(outer)
       \/ On("func") /\ symbols' = Popped(1) /\ UNCHANGED outer
    /\ scope' = NULL /\ func' = NULL /\ UNCHANGED <<heap, areas, undone>>

(******************************** The end **********************************)
\* TOK_EOF, which is also what the scanner returns inside a string.
Accept ==
    /\ Parsing /\ symbols = <<>> /\ memStatus' = "accepted"
    /\ UNCHANGED <<heap, lost>> \/ EndsIn("string", heap, {})
    /\ Context /\ UNCHANGED <<areas, symbols>>
\* A syntax error, or a test of a rule fails before it changes anything that is
\* looked at again.
Error == GiveUp(heap, {}) /\ Context /\ UNCHANGED <<areas, symbols>>

\* What the clear function of an area frees.
NameOf(a) == IF a \in Live THEN heap[a].name ELSE NULL
Names(vars) == [i \in DOMAIN vars |-> NameOf(vars[i])]
WithNames(vars) == vars \o Names(vars)
Cleared_LocalsToo(area) ==
    LET cell == heap[area.obj]
    IN  CASE area.clear = "block" -> WithNames(cell.vars)
          [] area.clear = "function" -> WithNames(cell.vars \o cell.locals) \o <<cell.name>>
          [] area.clear = "literal" -> <<cell.name>>
          [] area.clear = "none" -> <<>>
Cleared(area) ==
    LET cell == heap[area.obj]
    IN  CASE area.clear = "block" -> WithNames(cell.vars)
          [] area.clear = "function" -> WithNames(cell.vars) \o <<cell.name>>
          [] area.clear = "literal" -> <<cell.name>>
          [] area.clear = "none" -> <<>>
\* bump_alloc_free_all: one area after the other, the newest first.  Freeing
\* what is not allocated, or reading it, is the end of the process; free of
\* NULL does nothing.
Ended == memStatus \in {"accepted", "aborted"}
NoneTwice(frees) ==
    \A i, j \in DOMAIN frees : frees[i] = frees[j] /\ frees[i] # NULL => i = j
StillThere(area) ==
    /\ area.obj \in Live
    /\ area.clear = "none" \/ heap[area.obj].kind = area.clear
FreeArea ==
    /\ Ended /\ areas # <<>>
    /\ LET area == Head(areas)
           frees == Append(Cleared(area), area.obj)
       IN  IF StillThere(area) /\ NoneTwice(frees) /\ ToSet(frees) \subseteq Live \cup {NULL}
           THEN /\ heap' = [a \in Addresses |-> IF a \in ToSet(frees) THEN Unused ELSE heap[a]]
                /\ areas' = Tail(areas) /\ UNCHANGED memStatus
           ELSE memStatus' = "doubleFree" /\ UNCHANGED <<heap, areas>>
    /\ Context /\ UNCHANGED <<symbols, lost>>
AreasFreed ==
    /\ Ended /\ areas = <<>> /\ memStatus' = "cleared"
    /\ Context /\ UNCHANGED <<heap, areas, symbols, lost>>

ParserStep ==
    \/ \E sym \in {"name", "declarator", "ident"} : Identifier(sym)
    \/ StringToken \/ Concatenate \/ LiteralString \/ LiteralNumber
    \/ VariableName \/ FunctionName \/ UnknownName
    \/ Dereference \/ UnaryOp \/ BinaryOp \/ AddressOf
    \/ OpenCall \/ Argument \/ Call
    \/ Statement \/ OpenBlock \/ CloseBlock \/ Declare \/ DeclareInit \/ DeclareVoid
    \/ OpenParams \/ Parameter \/ FunctionDeclaration \/ EndFunction
    \/ Accept \/ Error
ClearStep == FreeArea \/ AreasFreed
MemNext == ParserStep \/ ClearStep
MemSpec == MemInit /\ [][MemNext]_memVars

(******************************* Properties ********************************)
Symbols == {"name", "declarator", "ident", "string", "args", "params", "expr", "block", "func"}
MemTypeOK ==
    /\ heap \in [Addresses -> Cell \cup {Unused}]
    /\ areas \in Seq([obj: Addresses, clear: {"block", "function", "literal", "none"}])
    /\ symbols \in Seq([sym: Symbols, at: Pointers])
    /\ {func, scope} \subseteq Pointers /\ outer \in Seq(Pointers)
    /\ memStatus \in {"parsing", "accepted", "aborted", "cleared", "doubleFree"}
    /\ lost \subseteq Addresses /\ undone \in 0..MaxUndone

\* Who is to free the memory at a: an area, the owner of a name, the list a
\* variable is on, or the rule that will take the symbol from the stack; or it
\* is lost, and nobody is.
Owning == {"name", "declarator", "ident", "string", "args", "params"}
Owners(a) ==
    {<<"area", i>> : i \in {j \in DOMAIN areas : areas[j].obj = a}}
    \cup {<<"name", c>> : c \in {d \in Live : heap[d].name = a}}
    \cup (UNION {{<<"list", c, i>> : i \in {j \in DOMAIN heap[c].vars : heap[c].vars[j] = a}} : c \in Live})
    \cup {<<"stack", i>> : i \in {j \in DOMAIN symbols : symbols[j] \in [sym: Owning, at: {a}]}}

\* Everything allocated has exactly one owner, from the token to the end of
\* bcc_ast_clear, through every rule that hands memory on, and what is freed has
\* none.  Only what was in hand when the parse ended is nobody's: nothing while
\* it goes on, and in a parse that is accepted at most the buffer of a string
\* the text leaves open (lexer.l:132).  (& of a * breaks it.)
OwnedOnce ==
    undone = 0 =>
        /\ \A a \in Addresses :
              /\ a \notin Live => Owners(a) = {} /\ a \notin lost
              /\ a \in Live => Cardinality(Owners(a)) = IF a \in lost THEN 0 ELSE 1
        /\ Parsing => lost = {}
        /\ memStatus = "accepted" => Cardinality(lost) <= 1 /\ \A a \in lost : heap[a].kind = "string"

\* What the value stack and the parser had in hand when the parse ended, and
\* what hangs on it: the variables of a list, their names.
InHand == lost \cup {symbols[i].at : i \in {j \in DOMAIN symbols : symbols[j].sym \in Owning}}
HangsOn(set) ==
    {heap[c].name : c \in set \cap Live} \cup UNION {ToSet(heap[c].vars) : c \in set \cap Live}
LeftOver == InHand \cup HangsOn(InHand) \cup HangsOn(HangsOn(InHand))

\* bcc_ast_clear frees nothing that is freed already, and reads nothing through
\* what is, unless an & undid a * (parser.y:551): the clear functions and the
\* rules agree on who frees what.  After it all of the AST is freed, however far
\* the parse came; what is left is only what was in hand when the parse ended.
FreedOnce ==
    undone = 0 => /\ memStatus # "doubleFree"
                  /\ memStatus = "cleared" => Live \subseteq LeftOver

\* The nodes the value stack points to are allocated: not even the freed * of
\* &* is still pointed to by a rule that is not reduced yet.
NodesLive ==
    memStatus = "parsing" =>
        /\ \A i \in DOMAIN symbols : symbols[i].sym \in {"expr", "block", "func"}
                                        => symbols[i].at \in Live
        /\ \A p \in {func, scope} \cup ToSet(outer) : p # NULL => p \in Live
        /\ \A a \in Live : heap[a].expr # NULL => heap[a].expr \in Live
=============================================================================
