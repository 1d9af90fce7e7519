------------------------- MODULE ParseScopesProofs -------------------------
(***************************************************************************)
(* The parse session, for every set of names, parameter lists, expressions *)
(* and bounds, in three parts.                                             *)
(*                                                                         *)
(* The pointers of the parser state agree with the value stack             *)
(* (ScopeChain).  That is not inductive alone: a frame must name an object *)
(* of its heap, and the function frame must be the outermost one.          *)
(*                                                                         *)
(* Who holds what: each variable is on one owning list and has one place   *)
(* in a frame, each node has one holder, and a block's entries are in      *)
(* source order.  All rest on the order of the frames (Nested).            *)
(*                                                                         *)
(* What bcc_ast_find_variable finds: the variable C's scoping gives a      *)
(* name, wherever an expression is parsed; and that no accepted expression *)
(* assigns a const variable.  Both need that the walk along outer_block    *)
(* ends, as each points to an older block.                                 *)
(***************************************************************************)
EXTENDS ParseScopes, SequenceTheorems, FiniteSetTheorems, WellFoundedInduction, TLAPS

\* The function's rule is the outermost one, and an open block is a block.
FrameShape ==
    status = "parsing" =>
        \A i \in DOMAIN stack :
            /\ stack[i].kind = "function" <=> i = 1
            /\ stack[i].kind = "function" => stack[i].id \in DOMAIN funcObjs
            /\ stack[i].kind = "block" => stack[i].id \in DOMAIN blockObjs

Chain == FrameShape /\ ScopeChain

\* A declaration that has begun has its type.
DeclAt(i) == i \in 1 .. Len(stack) /\ stack[i].kind = "declaration"
DeclShape == status = "parsing" => \A i : DeclAt(i) => declType \in DOMAIN typeObjs

\* The expression nodes form a sequence; their contents play no part.
ExprsSeq == \E S : exprObjs \in Seq(S)

IInv == PointersTyped /\ ExprsSeq /\ DeclShape /\ Chain

LEMMA InitIInv == Init => IInv
  BY DEF Init, IInv, ExprsSeq, DeclShape, DeclAt, Chain, PointersTyped, FrameShape, ScopeChain, IsInnermost, IsBlockFrame,
         Null, NoNode, Node

(***************************************************************************)
(* Chain only reads the block and function frames of the stack, so a step  *)
(* that keeps those, the two pointers and every outer_block keeps Chain.   *)
(***************************************************************************)
BlockAt(i, b) == i \in 1 .. Len(stack) /\ stack[i].kind = "block" /\ stack[i].id = b
FuncAt(i, f) == i \in 1 .. Len(stack) /\ stack[i].kind = "function" /\ stack[i].id = f

\* Heaps only grow, and outer_block is never written again.
HeapsGrow ==
    /\ DOMAIN funcObjs \subseteq DOMAIN funcObjs'
    /\ DOMAIN blockObjs \subseteq DOMAIN blockObjs'
    /\ \A b \in DOMAIN blockObjs : blockObjs'[b].outer = blockObjs[b].outer

LEMMA ChainKept ==
    ASSUME Chain, stack \in Seq(Frame), stack' \in Seq(Frame), HeapsGrow,
           stack # <<>>, stack' # <<>>, status = "parsing",
           currentScope' = currentScope, currentFunc' = currentFunc,
           \A i, b : BlockAt(i, b)' <=> BlockAt(i, b),
           \A i, f : FuncAt(i, f)' <=> FuncAt(i, f)
    PROVE  Chain'
<1>1. /\ Len(stack) \in Nat \ {0} /\ DOMAIN stack = 1 .. Len(stack)
      /\ Len(stack') \in Nat \ {0} /\ DOMAIN stack' = 1 .. Len(stack')
  BY EmptySeq, LenProperties
<1>2. \A i \in DOMAIN stack' : IsBlockFrame(stack'[i]) =>
          /\ i \in DOMAIN stack /\ IsBlockFrame(stack[i]) /\ stack[i].id = stack'[i].id
  BY <1>1 DEF BlockAt, IsBlockFrame
<1>3. \A i \in DOMAIN stack : IsBlockFrame(stack[i]) =>
          /\ i \in DOMAIN stack' /\ IsBlockFrame(stack'[i]) /\ stack[i].id = stack'[i].id
  BY <1>1 DEF BlockAt, IsBlockFrame
<1>4. \A i \in DOMAIN stack' : stack'[i].kind = "function" =>
          /\ i \in DOMAIN stack /\ stack[i].kind = "function" /\ stack[i].id = stack'[i].id
  BY <1>1 DEF FuncAt
<1>5. stack[1].kind = "function"
  BY <1>1 DEF Chain, FrameShape
<1>6. stack'[1].kind = "function" /\ stack'[1].id = stack[1].id
  BY <1>1, <1>5 DEF FuncAt
<1>7. FrameShape'
  BY <1>1, <1>2, <1>4, <1>5, <1>6 DEF Chain, FrameShape, HeapsGrow, IsBlockFrame
<1>8. \A s : IsInnermost(stack, s, Len(stack)) => IsInnermost(stack', s, Len(stack'))
  <2> SUFFICES ASSUME NEW s, IsInnermost(stack, s, Len(stack))
               PROVE  IsInnermost(stack', s, Len(stack'))
    OBVIOUS
  <2>1. CASE s = Null /\ \A j \in 1 .. Len(stack) : ~IsBlockFrame(stack[j])
    BY <1>1, <1>2, <2>1 DEF IsInnermost
  <2>2. CASE \E i \in 1 .. Len(stack) :
                 /\ IsBlockFrame(stack[i]) /\ stack[i].id = s
                 /\ \A j \in (i + 1) .. Len(stack) : ~IsBlockFrame(stack[j])
    <3>1. PICK i \in 1 .. Len(stack) :
                 /\ IsBlockFrame(stack[i]) /\ stack[i].id = s
                 /\ \A j \in (i + 1) .. Len(stack) : ~IsBlockFrame(stack[j])
      BY <2>2
    <3>2. i \in 1 .. Len(stack') /\ IsBlockFrame(stack'[i]) /\ stack'[i].id = s
      BY <1>1, <1>3, <3>1
    <3>3. \A j \in (i + 1) .. Len(stack') : ~IsBlockFrame(stack'[j])
      BY <1>1, <1>2, <3>1
    <3> QED  BY <3>2, <3>3 DEF IsInnermost
  <2> QED  BY <2>1, <2>2 DEF IsInnermost
<1>9. \A s : \A i \in (1 .. Len(stack')) \cap (1 .. Len(stack)) :
          IsInnermost(stack, s, i - 1) => IsInnermost(stack', s, i - 1)
  BY <1>1, <1>2, <1>3 DEF IsInnermost
<1>10. ScopeChain'
  <2>1. IsInnermost(stack', currentScope', Len(stack'))
    BY <1>8 DEF Chain, ScopeChain
  <2>2. ASSUME NEW i \in DOMAIN stack', IsBlockFrame(stack'[i])
        PROVE  IsInnermost(stack', blockObjs'[stack'[i].id].outer, i - 1)
    <3>1. i \in DOMAIN stack /\ IsBlockFrame(stack[i]) /\ stack[i].id = stack'[i].id
      BY <1>2, <2>2
    <3>2. blockObjs'[stack'[i].id].outer = blockObjs[stack[i].id].outer
      BY <3>1 DEF Chain, FrameShape, HeapsGrow, IsBlockFrame
    <3>3. IsInnermost(stack, blockObjs[stack[i].id].outer, i - 1)
      BY <3>1 DEF Chain, ScopeChain
    <3> QED  BY <1>1, <1>9, <3>1, <3>2, <3>3
  <2>3. currentFunc' = stack'[1].id
    BY <1>6 DEF Chain, ScopeChain
  <2> QED  BY <2>1, <2>2, <2>3 DEF ScopeChain
<1> QED  BY <1>7, <1>10 DEF Chain

(***************************************************************************)
(* The steps that change only frames of statements and declarations.       *)
(***************************************************************************)
MarkKinds == {"block", "function"}

MarksKept ==
    /\ stack' \in Seq(Frame) /\ stack' # <<>>
    /\ \A i, b : BlockAt(i, b)' <=> BlockAt(i, b)
    /\ \A i, f : FuncAt(i, f)' <=> FuncAt(i, f)
    /\ \A i : DeclAt(i)' => DeclAt(i)

LEMMA FrameType ==
    ASSUME NEW kind \in {"function", "block", "declaration", "if", "else", "while"},
           NEW id \in Nat, NEW expr \in Nat, NEW body \in Node
    PROVE  FrameOf(kind, id, expr, body) \in Frame
  BY DEF FrameOf, Frame

LEMMA SameKeepsMarks ==
    ASSUME stack \in Seq(Frame), stack # <<>>, stack' = stack
    PROVE  MarksKept
  BY DEF MarksKept, BlockAt, FuncAt, DeclAt

LEMMA PushKeepsMarks ==
    ASSUME stack \in Seq(Frame), NEW fr \in Frame, fr.kind \notin MarkKinds \cup {"declaration"},
           stack' = Push(fr)
    PROVE  MarksKept
<1>1. /\ Len(stack) \in Nat /\ stack' \in Seq(Frame) /\ stack' # <<>>
      /\ Len(stack') = Len(stack) + 1 /\ stack'[Len(stack) + 1] = fr
      /\ \A i \in 1 .. Len(stack) : stack'[i] = stack[i]
  BY AppendProperties, LenProperties DEF Push
<1> QED  BY <1>1 DEF MarksKept, BlockAt, FuncAt, DeclAt, MarkKinds

LEMMA TopKeepsMarks ==
    ASSUME stack \in Seq(Frame), stack # <<>>, NEW fr \in Frame,
           Top.kind \notin MarkKinds, fr.kind \notin MarkKinds,
           fr.kind = "declaration" => Top.kind = "declaration",
           stack' = [stack EXCEPT ![Len(stack)] = fr]
    PROVE  MarksKept
<1>1. Len(stack) \in Nat \ {0}
  BY EmptySeq
<1>2. /\ stack' \in Seq(Frame) /\ Len(stack') = Len(stack)
      /\ \A j \in 1 .. Len(stack) : stack'[j] = IF j = Len(stack) THEN fr ELSE stack[j]
  BY <1>1, ExceptSeq
<1>3. stack' # <<>>
  BY <1>1, <1>2, EmptySeq
<1> QED  BY <1>1, <1>2, <1>3 DEF MarksKept, BlockAt, FuncAt, DeclAt, MarkKinds, Top

LEMMA PopShape ==
    ASSUME stack \in Seq(Frame), stack # <<>>
    PROVE  /\ Len(stack) \in Nat \ {0} /\ Pop \in Seq(Frame) /\ Len(Pop) = Len(stack) - 1
           /\ \A i \in 1 .. Len(stack) - 1 : Pop[i] = stack[i]
<1>1. Len(stack) \in Nat \ {0}
  BY EmptySeq
<1>2. \A i \in 1 .. Len(stack) - 1 : stack[i] \in Frame
  BY <1>1, ElementOfSeq
<1>3. 1 \in Int /\ Len(stack) - 1 \in Int
  BY <1>1
<1>4. /\ Pop \in Seq(Frame)
      /\ Len(Pop) = IF 1 <= Len(stack) - 1 THEN Len(stack) - 1 - 1 + 1 ELSE 0
      /\ \A i \in 1 .. Len(stack) - 1 - 1 + 1 : Pop[i] = stack[1 + i - 1]
  BY <1>2, <1>3, SubSeqProperties DEF Pop
<1>5. Len(stack) - 1 - 1 + 1 = Len(stack) - 1 /\ \A i \in 1 .. Len(stack) - 1 : 1 + i - 1 = i
  BY <1>1
<1>6. Len(Pop) = Len(stack) - 1
  <2>1. CASE Len(stack) = 1
    BY <1>4, <2>1
  <2>2. CASE Len(stack) # 1
    <3>1. \A k \in Nat \ {0} : k # 1 => 1 <= k - 1
      OBVIOUS
    <3>2. 1 <= Len(stack) - 1
      BY <1>1, <2>2, <3>1
    <3> QED  BY <1>4, <1>5, <3>2
  <2> QED  BY <2>1, <2>2
<1> QED  BY <1>1, <1>4, <1>5, <1>6

LEMMA PopKeepsMarks ==
    ASSUME stack \in Seq(Frame), stack # <<>>, Top.kind \notin MarkKinds,
           stack[1].kind = "function", stack' = Pop
    PROVE  MarksKept
<1>1. /\ Len(stack) \in Nat \ {0} /\ stack' \in Seq(Frame) /\ Len(stack') = Len(stack) - 1
      /\ \A i \in 1 .. Len(stack) - 1 : stack'[i] = stack[i]
  BY PopShape
<1>2. Len(stack) # 1
  BY DEF Top, MarkKinds
<1>3. stack' # <<>>
  BY <1>1, <1>2, EmptySeq
<1> QED  BY <1>1, <1>3 DEF MarksKept, BlockAt, FuncAt, DeclAt, MarkKinds, Top

\* The common case: typing is kept, and so is everything Chain reads.
LEMMA KeepsIInv ==
    ASSUME IInv, PointersTyped', ExprsSeq', stack # <<>>, status = "parsing", HeapsGrow,
           MarksKept, currentScope' = currentScope, currentFunc' = currentFunc,
           declType' = declType, DOMAIN typeObjs \subseteq DOMAIN typeObjs'
    PROVE  IInv'
<1>1. stack \in Seq(Frame)
  BY DEF IInv, PointersTyped
<1>2. Chain'
  BY <1>1, ChainKept DEF IInv, MarksKept
<1>3. DeclShape'
  BY DEF IInv, DeclShape, MarksKept
<1> QED  BY <1>2, <1>3 DEF IInv

LEMMA StopKeepsIInv ==
    ASSUME IInv, NEW why \in {"aborted", "crashed"}, Stop(why)
    PROVE  IInv'
  BY DEF IInv, Stop, state, PointersTyped, Chain, FrameShape, ScopeChain, ExprsSeq, DeclShape

LEMMA OutcomeType ==
    \A x : Outcome(x) \in {"parsing", "aborted", "crashed"}
  BY DEF Outcome

LEMMA FunctionFrameFirst ==
    ASSUME IInv, status = "parsing", stack # <<>>
    PROVE  stack[1].kind = "function" /\ Len(stack) \in Nat \ {0} /\ Top \in Frame
<1>1. stack \in Seq(Frame)
  BY DEF IInv, PointersTyped
<1>2. Len(stack) \in Nat \ {0} /\ DOMAIN stack = 1 .. Len(stack)
  BY <1>1, EmptySeq, LenProperties
<1> QED  BY <1>1, <1>2, ElementOfSeq DEF IInv, Chain, FrameShape, Top

LEMMA NewExprType ==
    ASSUME ExprsSeq
    PROVE  /\ NewExpr \in Nat
           /\ \A x : exprObjs' = Append(exprObjs, x) => ExprsSeq'
<1>1. PICK S : exprObjs \in Seq(S)
  BY DEF ExprsSeq
<1>2. NewExpr \in Nat
  BY <1>1, LenProperties DEF NewExpr
<1>3. ASSUME NEW x, exprObjs' = Append(exprObjs, x)
      PROVE  ExprsSeq'
  <2>1. exprObjs \in Seq(S \cup {x})
    BY <1>1, SeqMonotonic
  <2>2. exprObjs' \in Seq(S \cup {x})
    BY <1>3, <2>1, AppendProperties
  <2> QED  BY <2>2 DEF ExprsSeq
<1> QED  BY <1>2, <1>3

(***************************************************************************)
(* One lemma per rule.                                                     *)
(***************************************************************************)
LEMMA KeepTyping ==
    ASSUME PointersTyped, stack' \in Seq(Frame), result' \in Node,
           status' \in {"parsing", "accepted", "aborted", "crashed"},
           stmtObjs' \in Seq(Stmt),
           UNCHANGED <<typeObjs, varObjs, blockObjs, funcObjs, state>>
    PROVE  PointersTyped' /\ HeapsGrow
  BY DEF PointersTyped, HeapsGrow, state

LEMMA EndDeclarationStep ==
    ASSUME IInv, EndDeclaration PROVE IInv'
<1>1. /\ status = "parsing" /\ stack # <<>> /\ Top.kind = "declaration" /\ stack' = Pop
      /\ stack \in Seq(Frame)
  BY DEF EndDeclaration, Awaiting, IInv, PointersTyped
<1>2. MarksKept
  BY <1>1, FunctionFrameFirst, PopKeepsMarks DEF MarkKinds
<1>3. PointersTyped' /\ HeapsGrow
  BY <1>2, KeepTyping DEF EndDeclaration, IInv, PointersTyped, MarksKept
<1> QED  BY <1>1, <1>2, <1>3, KeepsIInv DEF EndDeclaration, state, IInv, ExprsSeq

LEMMA ElseStep ==
    ASSUME IInv, Else PROVE IInv'
<1>1. /\ status = "parsing" /\ stack # <<>> /\ Top.kind = "if" /\ stack \in Seq(Frame)
      /\ result \in Node
  BY DEF Else, Reduced, IInv, PointersTyped
<1>2. Top.expr \in Nat
  BY <1>1, FunctionFrameFirst DEF Frame
<1>3. FrameOf("else", Null, Top.expr, result) \in Frame
  BY <1>1, <1>2, FrameType DEF Null
<1>4. stack' = [stack EXCEPT ![Len(stack)] = FrameOf("else", Null, Top.expr, result)]
  BY DEF Else, Top
<1>5. MarksKept
  BY <1>1, <1>3, <1>4, TopKeepsMarks DEF MarkKinds, FrameOf
<1>6. PointersTyped' /\ HeapsGrow
  BY <1>5, KeepTyping DEF Else, IInv, PointersTyped, MarksKept, Node, NoNode, Null
<1> QED  BY <1>1, <1>5, <1>6, KeepsIInv DEF Else, state, IInv, ExprsSeq

LEMMA EndControlStep ==
    ASSUME IInv, EndControl PROVE IInv'
<1>1. /\ status = "parsing" /\ stack # <<>> /\ Top.kind \in {"if", "else", "while"}
      /\ stack \in Seq(Frame) /\ stack' = Pop /\ result \in Node /\ stmtObjs \in Seq(Stmt)
  BY DEF EndControl, Reduced, IInv, PointersTyped
<1>2. MarksKept
  BY <1>1, FunctionFrameFirst, PopKeepsMarks DEF MarkKinds
<1>3. Top.expr \in Nat /\ Top.body \in Node
  BY <1>1, FunctionFrameFirst DEF Frame
<1>4. stmtObjs' \in Seq(Stmt)
  <2>1. \A st \in Stmt : Append(stmtObjs, st) \in Seq(Stmt)
    BY <1>1, AppendProperties
  <2> QED  BY <1>1, <1>3, <2>1 DEF EndControl, NewStmt, Stmt, Node, NoNode, Null
<1>5. result' \in Node
  BY <1>1, LenProperties DEF EndControl, Yield, Node
<1>6. PointersTyped' /\ HeapsGrow
  BY <1>2, <1>4, <1>5, KeepTyping DEF EndControl, IInv, PointersTyped, MarksKept
<1> QED  BY <1>1, <1>2, <1>6, KeepsIInv DEF EndControl, state, IInv, ExprsSeq

LEMMA ExprStatementStep ==
    ASSUME IInv, NEW e \in Exprs, ExprStatement(e) PROVE IInv'
<1> DEFINE x == ResolveExpr(e)
<1>1. (Outcome(x) # "parsing" /\ Stop(Outcome(x))) \/ Outcome(x) = "parsing"
  BY DEF ExprStatement
<1>2. CASE Outcome(x) # "parsing" /\ Stop(Outcome(x))
  <2> HIDE DEF x
  <2> QED  BY <1>2, OutcomeType, StopKeepsIInv
<1>3. CASE Outcome(x) = "parsing"
  <2>1. /\ status = "parsing" /\ stack # <<>> /\ stack \in Seq(Frame) /\ stmtObjs \in Seq(Stmt)
        /\ exprObjs' = Append(exprObjs, x)
        /\ NewStmt("expr", NewExpr, NoNode, NoNode) /\ Yield
        /\ UNCHANGED <<typeObjs, varObjs, blockObjs, funcObjs, state, stack, status>>
    BY <1>3 DEF ExprStatement, Awaiting, Stop, IInv, PointersTyped
  <2> HIDE DEF x
  <2>2. MarksKept
    BY <2>1, SameKeepsMarks
  <2>3. NewExpr \in Nat /\ ExprsSeq'
    BY <2>1, NewExprType DEF IInv
  <2>4. stmtObjs' \in Seq(Stmt)
    <3>1. [kind |-> "expr", expr |-> NewExpr, body |-> NoNode, alt |-> NoNode] \in Stmt
      BY <2>3 DEF Stmt, Node, NoNode, Null
    <3> QED  BY <2>1, <3>1, AppendProperties DEF NewStmt
  <2>5. result' \in Node
    BY <2>1, LenProperties DEF Yield, Node
  <2>6. PointersTyped' /\ HeapsGrow
    BY <2>1, <2>4, <2>5, KeepTyping DEF IInv, PointersTyped
  <2> QED  BY <2>1, <2>2, <2>3, <2>6, KeepsIInv DEF state
<1> QED  BY <1>1, <1>2, <1>3

LEMMA BeginControlStep ==
    ASSUME IInv, NEW kind \in {"if", "while"}, NEW e \in Exprs, BeginControl(kind, e)
    PROVE  IInv'
<1> DEFINE x == ResolveExpr(e)
<1>1. (Outcome(x) # "parsing" /\ Stop(Outcome(x))) \/ Outcome(x) = "parsing"
  BY DEF BeginControl
<1>2. CASE Outcome(x) # "parsing" /\ Stop(Outcome(x))
  <2> HIDE DEF x
  <2> QED  BY <1>2, OutcomeType, StopKeepsIInv
<1>3. CASE Outcome(x) = "parsing"
  <2>1. /\ status = "parsing" /\ stack # <<>> /\ stack \in Seq(Frame)
        /\ exprObjs' = Append(exprObjs, x)
        /\ stack' = Push(FrameOf(kind, Null, NewExpr, NoNode))
        /\ UNCHANGED <<typeObjs, varObjs, blockObjs, stmtObjs, funcObjs, state, result, status>>
    BY <1>3 DEF BeginControl, Awaiting, Stop, IInv, PointersTyped
  <2> HIDE DEF x
  <2>2. NewExpr \in Nat /\ ExprsSeq'
    BY <2>1, NewExprType DEF IInv
  <2>3. FrameOf(kind, Null, NewExpr, NoNode) \in Frame
    BY <2>2, FrameType DEF Node, NoNode, Null
  <2>4. MarksKept
    BY <2>1, <2>3, PushKeepsMarks DEF MarkKinds, FrameOf
  <2>5. PointersTyped' /\ HeapsGrow
    BY <2>1, <2>4, KeepTyping DEF IInv, PointersTyped, MarksKept
  <2> QED  BY <2>1, <2>2, <2>4, <2>5, KeepsIInv DEF state
<1> QED  BY <1>1, <1>2, <1>3

(***************************************************************************)
(* Writes through a pointer: an object of a heap replaced by another.      *)
(***************************************************************************)
LEMMA ReplaceType ==
    ASSUME NEW S, NEW heap \in Seq(S), NEW i, NEW obj, i \in DOMAIN heap => obj \in S
    PROVE  /\ [heap EXCEPT ![i] = obj] \in Seq(S)
           /\ Len([heap EXCEPT ![i] = obj]) = Len(heap)
           /\ DOMAIN [heap EXCEPT ![i] = obj] = DOMAIN heap
           /\ \A j \in DOMAIN heap : [heap EXCEPT ![i] = obj][j] = IF j = i THEN obj ELSE heap[j]
<1>1. Len(heap) \in Nat /\ DOMAIN heap = 1 .. Len(heap)
  BY LenProperties
<1>2. CASE i \in DOMAIN heap
  BY <1>1, <1>2, ExceptSeq
<1>3. CASE i \notin DOMAIN heap
  <2>1. [heap EXCEPT ![i] = obj] = heap
    BY <1>3
  <2> QED  BY <1>1, <1>3, <2>1
<1> QED  BY <1>2, <1>3

LEMMA BlockReplaced ==
    ASSUME blockObjs \in Seq(Block), NEW b, NEW obj,
           b \in DOMAIN blockObjs => obj \in Block /\ obj.outer = blockObjs[b].outer,
           blockObjs' = [blockObjs EXCEPT ![b] = obj]
    PROVE  /\ blockObjs' \in Seq(Block) /\ Len(blockObjs') = Len(blockObjs)
           /\ DOMAIN blockObjs' = DOMAIN blockObjs
           /\ \A c \in DOMAIN blockObjs : blockObjs'[c].outer = blockObjs[c].outer
  BY ReplaceType

LEMMA FuncReplaced ==
    ASSUME funcObjs \in Seq(Func), NEW f, NEW obj,
           f \in DOMAIN funcObjs => obj \in Func,
           funcObjs' = [funcObjs EXCEPT ![f] = obj]
    PROVE  /\ funcObjs' \in Seq(Func) /\ Len(funcObjs') = Len(funcObjs)
           /\ DOMAIN funcObjs' = DOMAIN funcObjs
  BY ReplaceType

LEMMA BlockStatementStep ==
    ASSUME IInv, BlockStatement PROVE IInv'
<1>1. /\ status = "parsing" /\ stack # <<>> /\ Top.kind = "block" /\ stack \in Seq(Frame)
      /\ result \in Node /\ blockObjs \in Seq(Block)
  BY DEF BlockStatement, Reduced, IInv, PointersTyped
<1> DEFINE obj == [blockObjs[Top.id] EXCEPT !.entries = AddEntry(@, result.id)]
<1>2. Top.id \in DOMAIN blockObjs => obj \in Block /\ obj.outer = blockObjs[Top.id].outer
  <2> SUFFICES ASSUME Top.id \in DOMAIN blockObjs
               PROVE  obj \in Block /\ obj.outer = blockObjs[Top.id].outer
    OBVIOUS
  <2>1. blockObjs[Top.id] \in Block
    BY <1>1, LenProperties, ElementOfSeq
  <2>2. Append(blockObjs[Top.id].entries, result.id) \in Seq(Nat)
    BY <1>1, <2>1, AppendProperties DEF Block, Node
  <2> QED  BY <2>1, <2>2 DEF Block, AddEntry
<1>3. blockObjs' = [blockObjs EXCEPT ![Top.id] = obj]
  BY DEF BlockStatement
<1> HIDE DEF obj
<1>4. /\ blockObjs' \in Seq(Block) /\ Len(blockObjs') = Len(blockObjs)
      /\ DOMAIN blockObjs' = DOMAIN blockObjs
      /\ \A c \in DOMAIN blockObjs : blockObjs'[c].outer = blockObjs[c].outer
  BY <1>1, <1>2, <1>3, BlockReplaced
<1>5. MarksKept
  BY <1>1, SameKeepsMarks DEF BlockStatement
<1>6. PointersTyped' /\ HeapsGrow
  BY <1>4 DEF BlockStatement, IInv, PointersTyped, HeapsGrow, state, Node, NoNode, Null
<1> QED  BY <1>1, <1>5, <1>6, KeepsIInv DEF BlockStatement, state, IInv, ExprsSeq

(***************************************************************************)
(* A declarator.                                                           *)
(***************************************************************************)
LEMMA AddLocalType ==
    ASSUME IInv, status = "parsing", stack # <<>>, Top.kind = "declaration",
           NEW n \in Names, AddLocal(n)
    PROVE  /\ declType \in DOMAIN typeObjs /\ Len(varObjs) + 1 \in Nat
           /\ varObjs' \in Seq(Variable)
           /\ \A v \in DOMAIN varObjs' : varObjs'[v].type \in DOMAIN typeObjs
           /\ funcObjs' \in Seq(Func) /\ Len(funcObjs') = Len(funcObjs)
           /\ DOMAIN funcObjs' = DOMAIN funcObjs
<1>1. /\ varObjs \in Seq(Variable) /\ funcObjs \in Seq(Func) /\ declType \in Nat
      /\ typeObjs \in Seq(Type) /\ \A v \in DOMAIN varObjs : varObjs[v].type \in DOMAIN typeObjs
  BY LenProperties DEF IInv, PointersTyped
<1>2. declType \in DOMAIN typeObjs
  <2>1. Len(stack) \in 1 .. Len(stack)
    BY FunctionFrameFirst
  <2> QED  BY <2>1 DEF DeclAt, DeclShape, IInv, Top
<1>3. Len(varObjs) \in Nat /\ DOMAIN varObjs = 1 .. Len(varObjs)
  BY <1>1, LenProperties
<1> DEFINE w == [name |-> n, type |-> declType]
<1>4. w \in Variable
  BY <1>1 DEF Variable
<1>5. /\ varObjs' \in Seq(Variable) /\ DOMAIN varObjs' = 1 .. (Len(varObjs) + 1)
      /\ \A v \in 1 .. Len(varObjs) : varObjs'[v] = varObjs[v]
      /\ varObjs'[Len(varObjs) + 1] = w
  BY <1>1, <1>3, <1>4, AppendProperties, LenProperties DEF AddLocal
<1>6. \A v \in DOMAIN varObjs' : varObjs'[v].type \in DOMAIN typeObjs
  <2> SUFFICES ASSUME NEW v \in DOMAIN varObjs' PROVE varObjs'[v].type \in DOMAIN typeObjs
    OBVIOUS
  <2>1. v \in 1 .. Len(varObjs) \/ v = Len(varObjs) + 1
    BY <1>3, <1>5
  <2> QED  BY <1>1, <1>2, <1>3, <1>5, <2>1
<1> DEFINE g == [funcObjs[currentFunc] EXCEPT !.locals = Append(@, Len(varObjs) + 1)]
<1>7. currentFunc \in DOMAIN funcObjs => g \in Func
  <2> SUFFICES ASSUME currentFunc \in DOMAIN funcObjs PROVE g \in Func
    OBVIOUS
  <2>1. funcObjs[currentFunc] \in Func
    BY <1>1, LenProperties, ElementOfSeq
  <2>2. Append(funcObjs[currentFunc].locals, Len(varObjs) + 1) \in Seq(Nat)
    BY <1>3, <2>1, AppendProperties DEF Func
  <2> QED  BY <2>1, <2>2 DEF Func
<1>8. funcObjs' = [funcObjs EXCEPT ![currentFunc] = g]
  BY DEF AddLocal
<1> HIDE DEF g
<1>9. /\ funcObjs' \in Seq(Func) /\ Len(funcObjs') = Len(funcObjs)
      /\ DOMAIN funcObjs' = DOMAIN funcObjs
  BY <1>1, <1>7, <1>8, FuncReplaced
<1> QED  BY <1>2, <1>3, <1>5, <1>6, <1>9

\* The frame of a declaration notes that a declarator has been reduced.
LEMMA DeclaratorNoted ==
    ASSUME IInv, status = "parsing", stack # <<>>, Top.kind = "declaration",
           stack' = [stack EXCEPT ![Len(stack)].id = 1]
    PROVE  MarksKept
<1> DEFINE fr == [Top EXCEPT !.id = 1]
<1>1. stack \in Seq(Frame) /\ Top \in Frame
  BY FunctionFrameFirst DEF IInv, PointersTyped
<1>2. fr \in Frame /\ fr.kind = "declaration"
  BY <1>1 DEF Frame
<1>3. stack' = [stack EXCEPT ![Len(stack)] = fr]
  BY DEF Top
<1> HIDE DEF fr
<1> QED  BY <1>1, <1>2, <1>3, TopKeepsMarks DEF MarkKinds

LEMMA DeclareStep ==
    ASSUME IInv, NEW n \in Names, Declare(n) PROVE IInv'
<1>1. /\ status = "parsing" /\ stack # <<>> /\ Top.kind = "declaration"
      /\ blockObjs \in Seq(Block)
  BY DEF Declare, Awaiting, IInv, PointersTyped
<1>2. CASE Stop("aborted")
  BY <1>2, StopKeepsIInv
<1>3. CASE ~Stop("aborted")
  <2>1. /\ AddLocal(n) /\ stack' = [stack EXCEPT ![Len(stack)].id = 1]
        /\ blockObjs' = [blockObjs EXCEPT
                ![currentScope].variables = Append(@, Len(varObjs) + 1)]
        /\ UNCHANGED <<typeObjs, exprObjs, stmtObjs, state, result, status>>
    BY <1>3 DEF Declare
  <2>2. /\ Len(varObjs) + 1 \in Nat
        /\ varObjs' \in Seq(Variable)
        /\ \A v \in DOMAIN varObjs' : varObjs'[v].type \in DOMAIN typeObjs
        /\ funcObjs' \in Seq(Func) /\ Len(funcObjs') = Len(funcObjs)
        /\ DOMAIN funcObjs' = DOMAIN funcObjs
    BY <1>1, <2>1, AddLocalType
  <2>3. MarksKept
    BY <1>1, <2>1, DeclaratorNoted
  <2> DEFINE obj == [blockObjs[currentScope] EXCEPT !.variables = Append(@, Len(varObjs) + 1)]
  <2>4. currentScope \in DOMAIN blockObjs =>
            obj \in Block /\ obj.outer = blockObjs[currentScope].outer
    <3> SUFFICES ASSUME currentScope \in DOMAIN blockObjs
                 PROVE  obj \in Block /\ obj.outer = blockObjs[currentScope].outer
      OBVIOUS
    <3>1. blockObjs[currentScope] \in Block
      BY <1>1, LenProperties, ElementOfSeq
    <3>2. Append(blockObjs[currentScope].variables, Len(varObjs) + 1) \in Seq(Nat)
      BY <2>2, <3>1, AppendProperties DEF Block
    <3> QED  BY <3>1, <3>2 DEF Block
  <2>5. blockObjs' = [blockObjs EXCEPT ![currentScope] = obj]
    BY <2>1
  <2> HIDE DEF obj
  <2>6. /\ blockObjs' \in Seq(Block) /\ Len(blockObjs') = Len(blockObjs)
        /\ DOMAIN blockObjs' = DOMAIN blockObjs
        /\ \A c \in DOMAIN blockObjs : blockObjs'[c].outer = blockObjs[c].outer
    BY <1>1, <2>4, <2>5, BlockReplaced
  <2>7. PointersTyped' /\ HeapsGrow
    BY <2>1, <2>2, <2>3, <2>6 DEF IInv, PointersTyped, HeapsGrow, MarksKept, state
  <2> QED  BY <1>1, <2>1, <2>3, <2>7, KeepsIInv DEF state, IInv, ExprsSeq
<1> QED  BY <1>2, <1>3

LEMMA TypeReplaced ==
    ASSUME typeObjs \in Seq(Type), NEW t, NEW obj, t \in DOMAIN typeObjs => obj \in Type,
           typeObjs' = [typeObjs EXCEPT ![t] = obj]
    PROVE  /\ typeObjs' \in Seq(Type) /\ Len(typeObjs') = Len(typeObjs)
           /\ DOMAIN typeObjs' = DOMAIN typeObjs
  BY ReplaceType

LEMMA ConstReplaced ==
    ASSUME typeObjs \in Seq(Type), declType \in DOMAIN typeObjs, NEW const \in BOOLEAN,
           typeObjs' = [typeObjs EXCEPT ![declType].const = const]
    PROVE  /\ typeObjs' \in Seq(Type) /\ Len(typeObjs') = Len(typeObjs)
           /\ DOMAIN typeObjs' = DOMAIN typeObjs
<1> DEFINE obj == [typeObjs[declType] EXCEPT !.const = const]
<1>1. typeObjs[declType] \in [prim: Prims, const: BOOLEAN]
  BY LenProperties, ElementOfSeq DEF Type
<1>2. obj \in [prim: Prims, const: BOOLEAN]
  BY Zenon, <1>1
<1>3. typeObjs' = [typeObjs EXCEPT ![declType] = obj]
  OBVIOUS
<1> HIDE DEF obj
<1> QED  BY <1>2, <1>3, TypeReplaced DEF Type

LEMMA DeclareInitStep ==
    ASSUME IInv, NEW n \in Names, NEW e \in Exprs, DeclareInit(n, e) PROVE IInv'
<1> DEFINE x == ResolveExpr(e)
           v == Len(varObjs) + 1
           wasConst == typeObjs[declType].const
           cast == [op |-> "assign", l |-> Denotes("var", v), r |-> x.l]
<1>1. /\ status = "parsing" /\ stack # <<>> /\ Top.kind = "declaration"
      /\ blockObjs \in Seq(Block) /\ typeObjs \in Seq(Type) /\ stmtObjs \in Seq(Stmt)
  BY DEF DeclareInit, Awaiting, IInv, PointersTyped
<1>2. \/ Outcome(x) # "parsing" /\ Stop(Outcome(x))
      \/ Stop("aborted")
      \/ /\ AddLocal(n)
         /\ typeObjs' = [typeObjs EXCEPT ![declType].const = FALSE]
         /\ blockObjs' = [blockObjs EXCEPT ![currentScope].variables = Append(@, v)]
         /\ status' = "aborted"
         /\ UNCHANGED <<exprObjs, stmtObjs, stack>> /\ UNCHANGED <<state, result>>
      \/ /\ AddLocal(n)
         /\ typeObjs' = [typeObjs EXCEPT ![declType].const = ConstAfterInit(wasConst)]
         /\ exprObjs' = Append(exprObjs, cast)
         /\ NewStmt("init", NewExpr, NoNode, NoNode)
         /\ blockObjs' = [blockObjs EXCEPT
                          ![currentScope] = WithInit(@, v, Len(stmtObjs) + 1)]
         /\ stack' = [stack EXCEPT ![Len(stack)].id = 1]
         /\ UNCHANGED status /\ UNCHANGED <<state, result>>
  BY Zenon DEF DeclareInit
<1> HIDE DEF x, wasConst, cast
<1>3. CASE Outcome(x) # "parsing" /\ Stop(Outcome(x))
  BY <1>3, OutcomeType, StopKeepsIInv
<1>4. CASE Stop("aborted")
  BY <1>4, StopKeepsIInv
<1>5. ASSUME AddLocal(n)
      PROVE  /\ declType \in DOMAIN typeObjs /\ v \in Nat
             /\ varObjs' \in Seq(Variable)
             /\ \A w \in DOMAIN varObjs' : varObjs'[w].type \in DOMAIN typeObjs
             /\ funcObjs' \in Seq(Func) /\ Len(funcObjs') = Len(funcObjs)
             /\ DOMAIN funcObjs' = DOMAIN funcObjs
  BY <1>1, <1>5, AddLocalType
<1>6. ASSUME NEW b \in DOMAIN blockObjs, v \in Nat
      PROVE  /\ Append(blockObjs[b].variables, v) \in Seq(Nat)
             /\ Append(blockObjs[b].entries, Len(stmtObjs) + 1) \in Seq(Nat)
             /\ blockObjs[b] \in Block
  <2>1. blockObjs[b] \in Block
    BY <1>1, LenProperties, ElementOfSeq
  <2>2. Len(stmtObjs) + 1 \in Nat
    BY <1>1, LenProperties
  <2> QED  BY <1>6, <2>1, <2>2, AppendProperties DEF Block
<1>7. CASE /\ AddLocal(n)
           /\ typeObjs' = [typeObjs EXCEPT ![declType].const = FALSE]
           /\ blockObjs' = [blockObjs EXCEPT ![currentScope].variables = Append(@, v)]
           /\ status' = "aborted"
           /\ UNCHANGED <<exprObjs, stmtObjs, stack>> /\ UNCHANGED <<state, result>>
  <2> DEFINE obj == [blockObjs[currentScope] EXCEPT !.variables = Append(@, v)]
  <2>1. currentScope \in DOMAIN blockObjs =>
            obj \in Block /\ obj.outer = blockObjs[currentScope].outer
    BY <1>5, <1>6, <1>7 DEF Block
  <2>2. blockObjs' = [blockObjs EXCEPT ![currentScope] = obj]
    BY <1>7
  <2> HIDE DEF obj
  <2>3. blockObjs' \in Seq(Block) /\ Len(blockObjs') = Len(blockObjs)
    BY <1>1, <2>1, <2>2, BlockReplaced
  <2>4. /\ typeObjs' \in Seq(Type) /\ Len(typeObjs') = Len(typeObjs)
        /\ DOMAIN typeObjs' = DOMAIN typeObjs
    BY <1>1, <1>5, <1>7, ConstReplaced
  <2>5. PointersTyped'
    BY <1>5, <1>7, <2>3, <2>4 DEF IInv, PointersTyped, state
  <2> QED  BY <1>7, <2>5 DEF IInv, ExprsSeq, DeclShape, Chain, FrameShape, ScopeChain
<1>8. CASE /\ AddLocal(n)
           /\ typeObjs' = [typeObjs EXCEPT ![declType].const = ConstAfterInit(wasConst)]
           /\ exprObjs' = Append(exprObjs, cast)
           /\ NewStmt("init", NewExpr, NoNode, NoNode)
           /\ blockObjs' = [blockObjs EXCEPT
                          ![currentScope] = WithInit(@, v, Len(stmtObjs) + 1)]
           /\ stack' = [stack EXCEPT ![Len(stack)].id = 1]
           /\ UNCHANGED status /\ UNCHANGED <<state, result>>
  <2> DEFINE obj == WithInit(blockObjs[currentScope], v, Len(stmtObjs) + 1)
  <2>1. currentScope \in DOMAIN blockObjs =>
            obj \in Block /\ obj.outer = blockObjs[currentScope].outer
    BY <1>5, <1>6, <1>8 DEF Block, WithInit, AddEntry
  <2>2. blockObjs' = [blockObjs EXCEPT ![currentScope] = obj]
    BY <1>8
  <2> HIDE DEF obj
  <2>3. /\ blockObjs' \in Seq(Block) /\ Len(blockObjs') = Len(blockObjs)
        /\ DOMAIN blockObjs' = DOMAIN blockObjs
        /\ \A c \in DOMAIN blockObjs : blockObjs'[c].outer = blockObjs[c].outer
    BY <1>1, <2>1, <2>2, BlockReplaced
  <2>4. wasConst \in BOOLEAN
    <3>1. typeObjs[declType] \in Type
      BY <1>1, <1>5, <1>8, LenProperties, ElementOfSeq
    <3> QED  BY Zenon, <3>1 DEF Type, wasConst
  <2>5. /\ typeObjs' \in Seq(Type) /\ Len(typeObjs') = Len(typeObjs)
        /\ DOMAIN typeObjs' = DOMAIN typeObjs
    BY <1>1, <1>5, <1>8, <2>4, ConstReplaced DEF ConstAfterInit
  <2>6. MarksKept
    BY <1>1, <1>8, DeclaratorNoted
  <2>7. NewExpr \in Nat /\ ExprsSeq'
    BY <1>8, NewExprType DEF IInv
  <2>8. stmtObjs' \in Seq(Stmt)
    <3>1. [kind |-> "init", expr |-> NewExpr, body |-> NoNode, alt |-> NoNode] \in Stmt
      BY <2>7 DEF Stmt, Node, NoNode, Null
    <3> QED  BY <1>1, <1>8, <3>1, AppendProperties DEF NewStmt
  <2>9. PointersTyped' /\ HeapsGrow
    BY <1>5, <1>8, <2>3, <2>5, <2>6, <2>8 DEF IInv, PointersTyped, HeapsGrow, MarksKept, state
  <2> QED  BY <1>1, <1>8, <2>5, <2>6, <2>7, <2>9, KeepsIInv DEF state
<1> QED  BY <1>2, <1>3, <1>4, <1>7, <1>8

LEMMA BeginDeclarationStep ==
    ASSUME IInv, NEW type \in DeclTypes, BeginDeclaration(type) PROVE IInv'
<1>1. /\ status = "parsing" /\ stack # <<>> /\ stack \in Seq(Frame) /\ typeObjs \in Seq(Type)
      /\ type \in Type
  BY DeclTypesAssumption DEF BeginDeclaration, Awaiting, IInv, PointersTyped
<1> DEFINE fr == FrameOf("declaration", 0, Null, NoNode)
<1>2. fr \in Frame /\ fr.kind = "declaration"
  BY FrameType DEF Node, NoNode, Null, FrameOf
<1>3. stack' = Push(fr)
  BY DEF BeginDeclaration
<1> HIDE DEF fr
<1>4. /\ Len(stack) \in Nat /\ stack' \in Seq(Frame) /\ stack' # <<>>
      /\ Len(stack') = Len(stack) + 1 /\ stack'[Len(stack) + 1] = fr
      /\ \A i \in 1 .. Len(stack) : stack'[i] = stack[i]
  BY <1>1, <1>2, <1>3, AppendProperties, LenProperties DEF Push
<1>5. /\ \A i, b : BlockAt(i, b)' <=> BlockAt(i, b)
      /\ \A i, f : FuncAt(i, f)' <=> FuncAt(i, f)
  BY <1>2, <1>4 DEF BlockAt, FuncAt
<1>6. /\ typeObjs' \in Seq(Type) /\ Len(typeObjs') = Len(typeObjs) + 1 /\ Len(typeObjs) \in Nat
      /\ DOMAIN typeObjs = 1 .. Len(typeObjs) /\ DOMAIN typeObjs' = 1 .. (Len(typeObjs) + 1)
  BY <1>1, AppendProperties, LenProperties DEF BeginDeclaration
<1>7. declType' \in DOMAIN typeObjs' /\ declType' \in 0 .. Len(typeObjs')
  BY <1>6 DEF BeginDeclaration
<1>8. PointersTyped' /\ HeapsGrow
  BY <1>4, <1>6, <1>7 DEF BeginDeclaration, IInv, PointersTyped, HeapsGrow
<1>9. Chain'
  BY <1>1, <1>4, <1>5, <1>8, ChainKept DEF IInv, BeginDeclaration
<1> QED  BY <1>7, <1>8, <1>9 DEF IInv, DeclShape, ExprsSeq, BeginDeclaration

(***************************************************************************)
(* The steps that move the scope.                                          *)
(***************************************************************************)
LEMMA InnermostAgree ==
    ASSUME NEW stk1, NEW stk2, NEW s, NEW k \in Int,
           \A j \in 1 .. k : stk1[j] = stk2[j], IsInnermost(stk1, s, k)
    PROVE  IsInnermost(stk2, s, k)
<1>1. CASE s = Null /\ \A j \in 1 .. k : ~IsBlockFrame(stk1[j])
  BY <1>1 DEF IsInnermost
<1>2. CASE \E i \in 1 .. k : /\ IsBlockFrame(stk1[i]) /\ stk1[i].id = s
                             /\ \A j \in (i + 1) .. k : ~IsBlockFrame(stk1[j])
  <2>1. PICK i \in 1 .. k : /\ IsBlockFrame(stk1[i]) /\ stk1[i].id = s
                            /\ \A j \in (i + 1) .. k : ~IsBlockFrame(stk1[j])
    BY <1>2
  <2>2. IsBlockFrame(stk2[i]) /\ stk2[i].id = s
    BY <2>1
  <2>3. \A j \in (i + 1) .. k : ~IsBlockFrame(stk2[j])
    BY <2>1
  <2> QED  BY <2>2, <2>3 DEF IsInnermost
<1> QED  BY <1>1, <1>2 DEF IsInnermost

LEMMA OpenBlockStep ==
    ASSUME IInv, OpenBlock PROVE IInv'
<1>1. /\ status = "parsing" /\ stack # <<>> /\ stack \in Seq(Frame) /\ blockObjs \in Seq(Block)
      /\ currentScope \in Nat
  BY LenProperties DEF OpenBlock, Awaiting, IInv, PointersTyped
<1> DEFINE b == Len(blockObjs) + 1
           obj == [outer |-> currentScope, variables |-> <<>>, entries |-> <<>>]
           fr == FrameOf("block", b, Null, NoNode)
           n == Len(stack)
<1>2. obj \in Block /\ obj.outer = currentScope
  BY <1>1 DEF Block
<1>3. /\ blockObjs' = Append(blockObjs, obj) /\ currentScope' = b /\ stack' = Push(fr)
  BY DEF OpenBlock
<1>4. b \in Nat /\ DOMAIN blockObjs = 1 .. Len(blockObjs) /\ Len(blockObjs) \in Nat
  BY <1>1, LenProperties
<1>5. fr \in Frame /\ fr.kind = "block" /\ fr.id = b
  BY <1>4, FrameType DEF Node, NoNode, Null, FrameOf
<1> HIDE DEF obj, fr
<1>6. /\ blockObjs' \in Seq(Block) /\ Len(blockObjs') = b /\ DOMAIN blockObjs' = 1 .. b
      /\ blockObjs'[b] = obj
      /\ \A c \in DOMAIN blockObjs : blockObjs'[c] = blockObjs[c]
  BY <1>1, <1>2, <1>3, <1>4, AppendProperties, LenProperties
<1>7. n \in Nat \ {0} /\ DOMAIN stack = 1 .. n
  BY <1>1, EmptySeq, LenProperties
<1>8. /\ stack' \in Seq(Frame) /\ stack' # <<>> /\ Len(stack') = n + 1
      /\ DOMAIN stack' = 1 .. (n + 1) /\ stack'[n + 1] = fr
      /\ \A i \in 1 .. n : stack'[i] = stack[i]
  BY <1>1, <1>3, <1>5, <1>7, AppendProperties, LenProperties DEF Push
<1>9. PointersTyped'
  BY <1>3, <1>4, <1>6, <1>8 DEF OpenBlock, IInv, PointersTyped
<1>10. FrameShape'
  <2> SUFFICES ASSUME NEW i \in DOMAIN stack'
               PROVE  /\ stack'[i].kind = "function" <=> i = 1
                      /\ stack'[i].kind = "function" => stack'[i].id \in DOMAIN funcObjs
                      /\ stack'[i].kind = "block" => stack'[i].id \in DOMAIN blockObjs'
    BY DEF FrameShape, OpenBlock
  <2>1. CASE i \in 1 .. n
    BY <1>1, <1>4, <1>6, <1>7, <1>8, <2>1 DEF IInv, Chain, FrameShape
  <2>2. CASE i = n + 1
    BY <1>4, <1>5, <1>6, <1>7, <1>8, <2>2
  <2> QED  BY <1>7, <1>8, <2>1, <2>2
<1>11. ScopeChain'
  <2>1. IsInnermost(stack', b, n + 1)
    BY <1>5, <1>7, <1>8 DEF IsInnermost, IsBlockFrame
  <2>2. ASSUME NEW i \in DOMAIN stack', IsBlockFrame(stack'[i])
        PROVE  IsInnermost(stack', blockObjs'[stack'[i].id].outer, i - 1)
    <3>1. CASE i \in 1 .. n
      <4>1. stack'[i] = stack[i] /\ IsBlockFrame(stack[i]) /\ stack[i].id \in DOMAIN blockObjs
        BY <1>1, <1>7, <1>8, <2>2, <3>1 DEF IInv, Chain, FrameShape, IsBlockFrame
      <4>2. IsInnermost(stack, blockObjs[stack[i].id].outer, i - 1)
        BY <1>1, <1>7, <3>1, <4>1 DEF IInv, Chain, ScopeChain
      <4>3. i - 1 \in Int /\ \A j \in 1 .. (i - 1) : stack[j] = stack'[j]
        BY <1>7, <1>8, <3>1
      <4> QED  BY <1>6, <4>1, <4>2, <4>3, InnermostAgree
    <3>2. CASE i = n + 1
      <4>1. IsInnermost(stack, currentScope, n)
        BY <1>1 DEF IInv, Chain, ScopeChain
      <4>2. IsInnermost(stack', currentScope, n)
        BY <1>7, <1>8, <4>1, InnermostAgree
      <4>3. blockObjs'[stack'[i].id].outer = currentScope /\ i - 1 = n
        BY <1>2, <1>5, <1>6, <1>7, <1>8, <3>2
      <4> QED  BY <4>2, <4>3
    <3> QED  BY <1>7, <1>8, <3>1, <3>2
  <2>3. currentFunc' = stack'[1].id
    BY <1>1, <1>7, <1>8 DEF IInv, Chain, ScopeChain, OpenBlock
  <2> QED  BY <1>3, <1>8, <2>1, <2>2, <2>3 DEF ScopeChain
<1>12. DeclShape'
  <2>1. \A i : DeclAt(i)' => DeclAt(i)
    BY <1>5, <1>7, <1>8 DEF DeclAt
  <2> QED  BY <1>1, <2>1 DEF IInv, DeclShape, OpenBlock
<1> QED  BY <1>9, <1>10, <1>11, <1>12 DEF IInv, Chain, ExprsSeq, OpenBlock

LEMMA CloseBlockStep ==
    ASSUME IInv, CloseBlock PROVE IInv'
<1> DEFINE n == Len(stack)
           b == Top.id
<1>1. /\ status = "parsing" /\ stack # <<>> /\ stack \in Seq(Frame) /\ blockObjs \in Seq(Block)
      /\ stack' = Pop /\ currentScope' = blockObjs[b].outer /\ n > 2 /\ Top.kind = "block"
  BY DEF CloseBlock, Awaiting, IInv, PointersTyped, ScopeAfterBlock
<1>2. /\ n \in Nat \ {0} /\ stack' \in Seq(Frame) /\ Len(stack') = n - 1
      /\ \A i \in 1 .. n - 1 : stack'[i] = stack[i]
  BY <1>1, PopShape
<1>3. DOMAIN stack = 1 .. n /\ DOMAIN stack' = 1 .. n - 1
  BY <1>1, <1>2, LenProperties
<1>4. n \in DOMAIN stack /\ IsBlockFrame(stack[n]) /\ stack[n].id = b
  BY <1>1, <1>2, <1>3 DEF IsBlockFrame, Top
<1>5. IsInnermost(stack, currentScope', n - 1) /\ b \in DOMAIN blockObjs
  BY <1>1, <1>4 DEF IInv, Chain, ScopeChain, FrameShape, IsBlockFrame
<1>6. IsInnermost(stack', currentScope', n - 1)
  BY <1>2, <1>5, InnermostAgree
<1>7. currentScope' \in 0 .. Len(blockObjs)
  <2>1. currentScope' = Null \/ \E i \in 1 .. n - 1 : IsBlockFrame(stack[i]) /\ stack[i].id = currentScope'
    BY <1>5 DEF IsInnermost
  <2>2. \A i \in 1 .. n - 1 : IsBlockFrame(stack[i]) => stack[i].id \in DOMAIN blockObjs
    BY <1>1, <1>2, <1>3 DEF IInv, Chain, FrameShape, IsBlockFrame
  <2>3. Len(blockObjs) \in Nat /\ DOMAIN blockObjs = 1 .. Len(blockObjs)
    BY <1>1, LenProperties
  <2> QED  BY <2>1, <2>2, <2>3 DEF Null
<1>8. b \in Nat
  BY <1>1, <1>5, LenProperties
<1>9. PointersTyped'
  BY <1>2, <1>7, <1>8 DEF CloseBlock, IInv, PointersTyped, Node
<1>10. FrameShape'
  BY <1>1, <1>2, <1>3 DEF CloseBlock, IInv, Chain, FrameShape
<1>11. ScopeChain'
  <2>1. ASSUME NEW i \in DOMAIN stack', IsBlockFrame(stack'[i])
        PROVE  IsInnermost(stack', blockObjs[stack'[i].id].outer, i - 1)
    <3>1. i \in 1 .. n - 1 /\ stack'[i] = stack[i] /\ IsBlockFrame(stack[i]) /\ i \in DOMAIN stack
      BY <1>2, <1>3, <2>1
    <3>2. IsInnermost(stack, blockObjs[stack[i].id].outer, i - 1)
      BY <1>1, <3>1 DEF IInv, Chain, ScopeChain
    <3>3. i - 1 \in Int /\ \A j \in 1 .. (i - 1) : stack[j] = stack'[j]
      BY <1>2, <3>1
    <3> QED  BY <3>1, <3>2, <3>3, InnermostAgree
  <2>2. currentFunc = stack'[1].id /\ stack' # <<>>
    <3>1. stack'[1] = stack[1] /\ Len(stack') # 0
      BY <1>1, <1>2
    <3> QED  BY <1>1, <1>2, <3>1, EmptySeq DEF IInv, Chain, ScopeChain
  <2> QED  BY <1>2, <1>6, <2>1, <2>2 DEF ScopeChain, CloseBlock
<1>12. DeclShape'
  <2>1. \A i : DeclAt(i)' => DeclAt(i)
    BY <1>2 DEF DeclAt
  <2> QED  BY <1>1, <2>1 DEF IInv, DeclShape, CloseBlock
<1> QED  BY <1>9, <1>10, <1>11, <1>12 DEF IInv, Chain, ExprsSeq, CloseBlock

\* Between functions there is nothing to agree with.
LEMMA EmptyChain ==
    ASSUME stack' = <<>>, currentScope' = Null, currentFunc' = Null
    PROVE  Chain' /\ DeclShape'
  BY EmptySeq DEF Chain, FrameShape, ScopeChain, DeclShape, DeclAt, IsInnermost

LEMMA FunctionPrototypeStep ==
    ASSUME IInv, FunctionPrototype PROVE IInv'
<1>1. /\ status = "parsing" /\ stack # <<>> /\ stack \in Seq(Frame) /\ stack' = Pop
      /\ Top.kind = "function" /\ currentScope' = Null /\ currentFunc' = Null
  BY DEF FunctionPrototype, Awaiting, IInv, PointersTyped
<1>2. /\ Len(stack) \in Nat \ {0} /\ stack' \in Seq(Frame) /\ Len(stack') = Len(stack) - 1
  BY <1>1, PopShape
<1>3. Len(stack) = 1
  BY <1>1, <1>2, LenProperties DEF IInv, Chain, FrameShape, Top
<1>4. stack' = <<>>
  BY <1>2, <1>3, EmptySeq
<1>5. PointersTyped'
  BY <1>1, <1>2, LenProperties DEF FunctionPrototype, IInv, PointersTyped, Null
<1> QED  BY <1>1, <1>4, <1>5, EmptyChain DEF IInv, ExprsSeq, FunctionPrototype

LEMMA FunctionDefinitionStep ==
    ASSUME IInv, FunctionDefinition PROVE IInv'
<1>1. /\ status = "parsing" /\ stack # <<>> /\ stack \in Seq(Frame) /\ stack' = <<>>
      /\ funcObjs \in Seq(Func) /\ blockObjs \in Seq(Block)
      /\ Top.kind = "block" /\ currentScope' = Null /\ currentFunc' = Null
  BY DEF FunctionDefinition, Awaiting, IInv, PointersTyped, ScopeAfterFunction
<1>2. Top.id \in Nat
  BY <1>1, FunctionFrameFirst DEF Frame
<1> DEFINE f == stack[1].id
           obj == [funcObjs[f] EXCEPT !.block = Top.id]
<1>3. f \in DOMAIN funcObjs => obj \in Func
  <2>1. f \in DOMAIN funcObjs => funcObjs[f] \in Func
    BY <1>1, LenProperties, ElementOfSeq
  <2> QED  BY <1>2, <2>1 DEF Func
<1>4. funcObjs' = [funcObjs EXCEPT ![f] = obj]
  BY DEF FunctionDefinition
<1> HIDE DEF f, obj
<1>5. funcObjs' \in Seq(Func) /\ Len(funcObjs') = Len(funcObjs)
  BY <1>1, <1>3, <1>4, FuncReplaced
<1>6. PointersTyped'
  BY <1>1, <1>5, LenProperties DEF FunctionDefinition, IInv, PointersTyped, Null
<1> QED  BY <1>1, <1>6, EmptyChain DEF IInv, ExprsSeq, FunctionDefinition

LEMMA ConcatShape ==
    ASSUME NEW S, NEW s \in Seq(S), NEW t \in Seq(S)
    PROVE  /\ s \o t \in Seq(S) /\ Len(s \o t) = Len(s) + Len(t)
           /\ DOMAIN (s \o t) = 1 .. Len(s) + Len(t)
           /\ \A i \in 1 .. Len(s) + Len(t) :
                  (s \o t)[i] = IF i <= Len(s) THEN s[i] ELSE t[i - Len(s)]
  BY ConcatProperties, LenProperties

LEMMA FunctionDeclarationStep ==
    ASSUME IInv, NEW n \in Names, NEW ps \in ParamLists, FunctionDeclaration(n, ps)
    PROVE  IInv'
<1> DEFINE types == [i \in DOMAIN ps |-> [prim |-> ps[i].prim, const |-> ps[i].const]]
           params == [i \in DOMAIN ps |-> [name |-> ps[i].name, type |-> Len(typeObjs) + i]]
           ids == [i \in DOMAIN ps |-> Len(varObjs) + i]
           func == [name |-> n, params |-> ids, locals |-> <<>>, block |-> Null]
           g == Len(funcObjs) + 1
           fr == FrameOf("function", g, Null, NoNode)
<1>1. /\ status = "parsing" /\ status' = status /\ stack = <<>>
      /\ typeObjs \in Seq(Type) /\ varObjs \in Seq(Variable) /\ funcObjs \in Seq(Func)
      /\ \A v \in DOMAIN varObjs : varObjs[v].type \in DOMAIN typeObjs
      /\ typeObjs' = typeObjs \o types /\ varObjs' = varObjs \o params
      /\ funcObjs' = Append(funcObjs, func) /\ currentFunc' = g /\ stack' = Push(fr)
  BY DEF FunctionDeclaration, IInv, PointersTyped
<1>2. /\ ps \in Seq(Param) /\ Len(ps) \in Nat /\ DOMAIN ps = 1 .. Len(ps)
      /\ \A i \in DOMAIN ps : ps[i] \in Param
  BY ParamListsAssumption, LenProperties, ElementOfSeq
<1>3. /\ Len(typeObjs) \in Nat /\ DOMAIN typeObjs = 1 .. Len(typeObjs)
      /\ Len(varObjs) \in Nat /\ DOMAIN varObjs = 1 .. Len(varObjs)
      /\ Len(funcObjs) \in Nat /\ DOMAIN funcObjs = 1 .. Len(funcObjs)
  BY <1>1, LenProperties
<1>4. types \in Seq(Type) /\ Len(types) = Len(ps)
  <2>1. \A i \in DOMAIN ps : [prim |-> ps[i].prim, const |-> ps[i].const] \in Type
    BY Zenon, <1>2 DEF Type, Param
  <2>2. types \in [1 .. Len(ps) -> Type]
    BY <1>2, <2>1
  <2> QED  BY <1>2, <2>2, SeqDef, LenProperties
<1>5. /\ params \in Seq(Variable) /\ Len(params) = Len(ps)
      /\ \A i \in 1 .. Len(ps) : params[i].type = Len(typeObjs) + i
  <2>1. \A i \in DOMAIN ps : [name |-> ps[i].name, type |-> Len(typeObjs) + i] \in Variable
    BY <1>2, <1>3 DEF Variable, Param
  <2>2. params \in [1 .. Len(ps) -> Variable]
    BY <1>2, <2>1
  <2> QED  BY <1>2, <2>2, SeqDef, LenProperties
<1>6. ids \in Seq(Nat)
  <2>1. ids \in [1 .. Len(ps) -> Nat]
    BY <1>2, <1>3
  <2> QED  BY <1>2, <2>1, SeqDef
<1>7. func \in Func
  BY <1>6 DEF Func, Null
<1>8. fr \in Frame /\ fr.kind = "function" /\ fr.id = g
  BY <1>3, FrameType DEF Node, NoNode, Null, FrameOf
<1> HIDE DEF types, params, ids, func, fr
<1>9. /\ typeObjs' \in Seq(Type) /\ Len(typeObjs') = Len(typeObjs) + Len(ps)
      /\ DOMAIN typeObjs' = 1 .. Len(typeObjs) + Len(ps)
  <2>1. typeObjs \in Seq(Type) /\ types \in Seq(Type)
    BY <1>1, <1>4
  <2>2. /\ typeObjs \o types \in Seq(Type)
        /\ Len(typeObjs \o types) = Len(typeObjs) + Len(types)
        /\ DOMAIN (typeObjs \o types) = 1 .. Len(typeObjs) + Len(types)
    BY <2>1, ConcatShape
  <2> QED  BY <1>1, <1>4, <2>2
<1>10. /\ varObjs' \in Seq(Variable) /\ DOMAIN varObjs' = 1 .. Len(varObjs) + Len(ps)
       /\ \A v \in 1 .. Len(varObjs) + Len(ps) :
              varObjs'[v] = IF v <= Len(varObjs) THEN varObjs[v] ELSE params[v - Len(varObjs)]
  <2>1. varObjs \in Seq(Variable) /\ params \in Seq(Variable)
    BY <1>1, <1>5
  <2>2. /\ varObjs \o params \in Seq(Variable)
        /\ DOMAIN (varObjs \o params) = 1 .. Len(varObjs) + Len(params)
        /\ \A v \in 1 .. Len(varObjs) + Len(params) :
              (varObjs \o params)[v] = IF v <= Len(varObjs) THEN varObjs[v]
                                       ELSE params[v - Len(varObjs)]
    BY <2>1, ConcatShape
  <2> QED  BY <1>1, <1>5, <2>2
<1>11. \A v \in DOMAIN varObjs' : varObjs'[v].type \in DOMAIN typeObjs'
  <2> SUFFICES ASSUME NEW v \in DOMAIN varObjs' PROVE varObjs'[v].type \in DOMAIN typeObjs'
    OBVIOUS
  <2>1. CASE v <= Len(varObjs)
    <3>1. v \in DOMAIN varObjs /\ varObjs'[v] = varObjs[v]
      BY <1>3, <1>10, <1>2, <2>1
    <3> QED  BY <1>1, <1>2, <1>3, <1>9, <3>1
  <2>2. CASE ~(v <= Len(varObjs))
    <3>1. v - Len(varObjs) \in 1 .. Len(ps) /\ varObjs'[v] = params[v - Len(varObjs)]
      BY <1>2, <1>3, <1>10, <2>2
    <3>2. varObjs'[v].type = Len(typeObjs) + (v - Len(varObjs))
      BY <1>5, <3>1
    <3> QED  BY <1>2, <1>3, <1>9, <3>1, <3>2
  <2> QED  BY <2>1, <2>2
<1>12. /\ funcObjs' \in Seq(Func) /\ Len(funcObjs') = g /\ DOMAIN funcObjs' = 1 .. g /\ g \in Nat
  BY <1>1, <1>3, <1>7, AppendProperties, LenProperties
<1>13. /\ stack' \in Seq(Frame) /\ Len(stack') = 1 /\ DOMAIN stack' = {1} /\ stack'[1] = fr
       /\ stack' # <<>>
  <2>1. stack \in Seq(Frame) /\ Len(stack) = 0
    BY <1>1, EmptySeq
  <2> QED  BY <1>1, <1>8, <2>1, AppendProperties, LenProperties, EmptySeq DEF Push
<1>14. PointersTyped'
  <2>1. declType' \in 0 .. Len(typeObjs') /\ currentFunc' \in 0 .. Len(funcObjs')
    BY <1>1, <1>2, <1>3, <1>9, <1>12 DEF FunctionDeclaration, IInv, PointersTyped
  <2> QED  BY <1>9, <1>10, <1>11, <1>12, <1>13, <2>1 DEF FunctionDeclaration, IInv, PointersTyped
<1>15. FrameShape'
  BY <1>8, <1>12, <1>13 DEF FrameShape
<1>16. currentScope = Null
  <2>1. IsInnermost(stack, currentScope, 0)
    BY <1>1, EmptySeq DEF IInv, Chain, ScopeChain
  <2> QED  BY <2>1 DEF IsInnermost
<1>17. ScopeChain'
  <2>1. IsInnermost(stack', currentScope', 1)
    BY <1>8, <1>13, <1>16 DEF IsInnermost, IsBlockFrame, FunctionDeclaration
  <2> QED  BY <1>1, <1>8, <1>13, <2>1 DEF ScopeChain, IsBlockFrame
<1>18. DeclShape'
  BY <1>8, <1>13 DEF DeclShape, DeclAt
<1> QED  BY <1>14, <1>15, <1>17, <1>18 DEF IInv, Chain, ExprsSeq, FunctionDeclaration

LEMMA AcceptStep ==
    ASSUME IInv, Accept PROVE IInv'
  BY DEF IInv, Accept, state, PointersTyped, Chain, FrameShape, ScopeChain, ExprsSeq, DeclShape

LEMMA StutterStep ==
    ASSUME IInv, UNCHANGED vars PROVE IInv'
  BY DEF IInv, vars, state, PointersTyped, Chain, FrameShape, ScopeChain, ExprsSeq, DeclShape, DeclAt

LEMMA NextIInv == IInv /\ [Next]_vars => IInv'
<1> SUFFICES ASSUME IInv, [Next]_vars PROVE IInv'
  OBVIOUS
<1>1. CASE \E n \in Names, ps \in ParamLists : FunctionDeclaration(n, ps)
  BY <1>1, FunctionDeclarationStep
<1>2. CASE FunctionPrototype
  BY <1>2, FunctionPrototypeStep
<1>3. CASE FunctionDefinition
  BY <1>3, FunctionDefinitionStep
<1>4. CASE OpenBlock
  BY <1>4, OpenBlockStep
<1>5. CASE CloseBlock
  BY <1>5, CloseBlockStep
<1>6. CASE BlockStatement
  BY <1>6, BlockStatementStep
<1>7. CASE \E type \in DeclTypes : BeginDeclaration(type)
  BY <1>7, BeginDeclarationStep
<1>8. CASE \E n \in Names : Declare(n)
  BY <1>8, DeclareStep
<1>9. CASE \E n \in Names, e \in Exprs : DeclareInit(n, e)
  BY <1>9, DeclareInitStep
<1>10. CASE EndDeclaration
  BY <1>10, EndDeclarationStep
<1>11. CASE \E e \in Exprs : ExprStatement(e)
  BY <1>11, ExprStatementStep
<1>12. CASE \E kind \in {"if", "while"}, e \in Exprs : BeginControl(kind, e)
  BY <1>12, BeginControlStep
<1>13. CASE Else
  BY <1>13, ElseStep
<1>14. CASE EndControl
  BY <1>14, EndControlStep
<1>15. CASE Accept
  BY <1>15, AcceptStep
<1>16. CASE SyntaxError
  BY <1>16, StopKeepsIInv DEF SyntaxError
<1>17. CASE UNCHANGED vars
  BY <1>17, StutterStep
<1> QED
  BY <1>1, <1>2, <1>3, <1>4, <1>5, <1>6, <1>7, <1>8, <1>9, <1>10, <1>11, <1>12,
     <1>13, <1>14, <1>15, <1>16, <1>17 DEF Next

\* IInv holds in every state of every parse.
THEOREM Invariance == Spec => []IInv
<1>1. Init => IInv
  BY InitIInv
<1>2. IInv /\ [Next]_vars => IInv'
  BY NextIInv
<1> QED  BY <1>1, <1>2, PTL DEF Spec

\* current_scope, current_func and every outer_block agree with the rules that
\* have begun, in every parse of every file: parser.y restores them on every
\* path out of a block and of a function.
THEOREM ScopesAgree == Spec => []ScopeChain
<1>1. IInv => ScopeChain
  BY DEF IInv, Chain
<1> QED  BY <1>1, Invariance, PTL

(***************************************************************************)
(* Sequences, element by element.                                          *)
(***************************************************************************)
Sized(s) == Len(s) \in Nat /\ DOMAIN s = 1 .. Len(s)
\* t is s with x behind it; s without its last; s with x at k.
Longer(s, t, x) ==
    /\ Sized(s) /\ Sized(t) /\ Len(t) = Len(s) + 1
    /\ t[Len(s) + 1] = x /\ \A i \in DOMAIN s : t[i] = s[i]
Shorter(s, t) ==
    /\ Sized(s) /\ Sized(t) /\ Len(s) = Len(t) + 1
    /\ \A i \in DOMAIN t : t[i] = s[i]
Replaced(s, t, k, x) ==
    /\ Sized(s) /\ Sized(t) /\ Len(s) = Len(t) /\ k \in DOMAIN s
    /\ t[k] = x /\ \A i \in DOMAIN s : i # k => t[i] = s[i]

LEMMA SizedSeq == ASSUME NEW S, NEW s \in Seq(S) PROVE Sized(s) /\ \A i \in DOMAIN s : s[i] \in S
  BY LenProperties, ElementOfSeq DEF Sized

LEMMA LongerAppend ==
    ASSUME NEW S, NEW s \in Seq(S), NEW x \in S
    PROVE  Longer(s, Append(s, x), x)
  BY LenProperties, AppendProperties DEF Longer, Sized

LEMMA ReplacedExcept ==
    ASSUME NEW S, NEW s \in Seq(S), NEW k \in DOMAIN s, NEW x \in S
    PROVE  Replaced(s, [s EXCEPT ![k] = x], k, x)
  BY LenProperties, ReplaceType DEF Replaced, Sized

\* What the type invariant says of the heaps and the stack.
LEMMA Sizes ==
    ASSUME IInv
    PROVE  /\ Sized(stack) /\ \A i \in DOMAIN stack : stack[i] \in Frame
           /\ Sized(blockObjs) /\ \A b \in DOMAIN blockObjs : blockObjs[b] \in Block
           /\ Sized(stmtObjs) /\ \A s \in DOMAIN stmtObjs : stmtObjs[s] \in Stmt
           /\ Sized(funcObjs) /\ \A f \in DOMAIN funcObjs : funcObjs[f] \in Func
           /\ Sized(varObjs) /\ result \in Node
           /\ stack # <<>> => Len(stack) \in DOMAIN stack
<1>1. stack # <<>> => Len(stack) \in 1 .. Len(stack)
  BY EmptySeq DEF IInv, PointersTyped
<1> QED  BY <1>1, SizedSeq DEF IInv, PointersTyped, Sized
(***************************************************************************)
(* The order of the frames.                                                *)
(***************************************************************************)
Controls == {"if", "else", "while"}

\* A declaration is in a block, a block below the first in a statement of
\* control, and only an else holds a branch.
Nested ==
    status = "parsing" =>
        \A i \in DOMAIN stack :
            /\ stack[i].kind = "declaration" => i > 1 /\ stack[i - 1].kind = "block"
            /\ stack[i].kind = "block" /\ i > 2 => stack[i - 1].kind \in Controls
            /\ stack[i].kind # "else" => stack[i].body = NoNode

\* What has been reduced is a statement, or the block of a statement of control.
Reduction ==
    /\ result = NoNode \/ result.t \in {"stmt", "block"}
    /\ status = "parsing" /\ result.t = "block" => stack # <<>> /\ Top.kind \in Controls

LEMMA AtDeclaration ==
    ASSUME IInv, Nested, status = "parsing", stack # <<>>, Top.kind = "declaration"
    PROVE  currentScope \in DOMAIN blockObjs /\ currentFunc \in DOMAIN funcObjs
<1> DEFINE n == Len(stack)
<1>1. n \in DOMAIN stack /\ DOMAIN stack = 1 .. n /\ n \in Nat /\ stack[n].kind = "declaration"
  BY Sizes DEF Top, Sized
<1>2. n - 1 \in DOMAIN stack /\ stack[n - 1].kind = "block"
  BY <1>1 DEF Nested
<1>3. IsInnermost(stack, currentScope, n)
  BY DEF IInv, Chain, ScopeChain
<1>4. \E i \in DOMAIN stack : stack[i].kind = "block" /\ stack[i].id = currentScope
  BY <1>1, <1>2, <1>3 DEF IsInnermost, IsBlockFrame
<1>5. currentScope \in DOMAIN blockObjs
  BY <1>4 DEF IInv, Chain, FrameShape
<1>6. currentFunc = stack[1].id /\ 1 \in DOMAIN stack
  BY <1>1 DEF IInv, Chain, ScopeChain
<1>7. currentFunc \in DOMAIN funcObjs
  BY <1>6 DEF IInv, Chain, FrameShape
<1> QED  BY <1>5, <1>7

\* The frames on top, and what they name.
LEMMA AtBlock ==
    ASSUME IInv, status = "parsing", stack # <<>>, Top.kind = "block"
    PROVE  Top.id \in DOMAIN blockObjs /\ stack[1].id \in DOMAIN funcObjs /\ 1 \in DOMAIN stack
<1>1. Len(stack) \in DOMAIN stack /\ 1 \in DOMAIN stack
  BY Sizes DEF Sized
<1> QED  BY <1>1 DEF IInv, Chain, FrameShape, Top

LEMMA NestedKept ==
    ASSUME Nested, status = "parsing", stack' = stack
    PROVE  Nested'
  BY DEF Nested

LEMMA NestedPush ==
    ASSUME Nested, status = "parsing", NEW fr, Longer(stack, stack', fr),
           fr.kind = "declaration" => stack # <<>> /\ Top.kind = "block",
           fr.kind = "block" => stack # <<>> /\ (Len(stack) > 1 => Top.kind \in Controls),
           fr.kind # "else" => fr.body = NoNode, stack # <<>> => Len(stack) \in DOMAIN stack
    PROVE  Nested'
<1> SUFFICES ASSUME NEW i \in DOMAIN stack'
             PROVE  /\ stack'[i].kind = "declaration" => i > 1 /\ stack'[i - 1].kind = "block"
                    /\ stack'[i].kind = "block" /\ i > 2 => stack'[i - 1].kind \in Controls
                    /\ stack'[i].kind # "else" => stack'[i].body = NoNode
  BY DEF Nested
<1>1. CASE i \in DOMAIN stack
  <2>1. stack'[i] = stack[i] /\ (i > 1 => stack'[i - 1] = stack[i - 1])
    BY <1>1 DEF Longer, Sized
  <2> QED  BY <1>1, <2>1 DEF Nested, Longer, Sized
<1>2. CASE i \notin DOMAIN stack
  <2>1. i = Len(stack) + 1 /\ stack'[i] = fr
    BY <1>2 DEF Longer, Sized
  <2>2. stack # <<>> => stack'[i - 1] = Top /\ i > 1 /\ Len(stack) = i - 1
    BY <2>1 DEF Longer, Sized, Top
  <2> QED  BY <2>1, <2>2 DEF Longer, Sized
<1> QED  BY <1>1, <1>2

LEMMA NestedPop ==
    ASSUME Nested, status = "parsing", Shorter(stack, stack')
    PROVE  Nested'
<1>1. \A i \in DOMAIN stack' : i \in DOMAIN stack /\ stack'[i] = stack[i]
          /\ (i > 1 => stack'[i - 1] = stack[i - 1])
  BY DEF Shorter, Sized
<1> SUFFICES ASSUME NEW i \in DOMAIN stack'
             PROVE  /\ stack'[i].kind = "declaration" => i > 1 /\ stack'[i - 1].kind = "block"
                    /\ stack'[i].kind = "block" /\ i > 2 => stack'[i - 1].kind \in Controls
                    /\ stack'[i].kind # "else" => stack'[i].body = NoNode
  BY DEF Nested
<1>2. i > 2 => i > 1
  BY DEF Shorter, Sized
<1> QED  BY <1>1, <1>2 DEF Nested

LEMMA NestedTop ==
    ASSUME Nested, status = "parsing", NEW fr, Replaced(stack, stack', Len(stack), fr),
           fr.kind = Top.kind \/ (Top.kind = "if" /\ fr.kind = "else"),
           fr.kind # "else" => fr.body = Top.body
    PROVE  Nested'
<1> DEFINE n == Len(stack)
<1>1. /\ DOMAIN stack' = DOMAIN stack /\ n \in DOMAIN stack /\ DOMAIN stack = 1 .. n /\ n \in Nat
      /\ stack'[n] = fr /\ Top = stack[n]
      /\ \A i \in DOMAIN stack : i # n => stack'[i] = stack[i]
  BY DEF Replaced, Sized, Top
<1> SUFFICES ASSUME NEW i \in DOMAIN stack
             PROVE  /\ stack'[i].kind = "declaration" => i > 1 /\ stack'[i - 1].kind = "block"
                    /\ stack'[i].kind = "block" /\ i > 2 => stack'[i - 1].kind \in Controls
                    /\ stack'[i].kind # "else" => stack'[i].body = NoNode
  BY <1>1 DEF Nested
<1>2. i > 1 => stack'[i - 1] = stack[i - 1] /\ i - 1 \in DOMAIN stack
  BY <1>1
<1>3. stack'[i] = IF i = n THEN fr ELSE stack[i]
  BY <1>1
<1> QED  BY <1>1, <1>2, <1>3 DEF Nested, Controls
(***************************************************************************)
(* What the actions do to the heaps and to the stack.                      *)
(***************************************************************************)
LEMMA PushDoes ==
    ASSUME IInv, NEW fr \in Frame, stack' = Push(fr)
    PROVE  Longer(stack, stack', fr)
  BY LongerAppend DEF IInv, PointersTyped, Push

LEMMA PopDoes ==
    ASSUME IInv, stack # <<>>, stack' = Pop
    PROVE  Shorter(stack, stack')
  BY PopShape, SizedSeq DEF IInv, PointersTyped, Shorter, Sized

LEMMA TopDoes ==
    ASSUME IInv, stack # <<>>, NEW fr \in Frame, stack' = [stack EXCEPT ![Len(stack)] = fr]
    PROVE  Replaced(stack, stack', Len(stack), fr)
  BY Sizes, ReplacedExcept DEF IInv, PointersTyped

LEMMA NewStmtDoes ==
    ASSUME IInv, NEW kind \in {"expr", "init", "if", "while"}, NEW expr \in Nat,
           NEW body \in Node, NEW alt \in Node, NewStmt(kind, expr, body, alt)
    PROVE  \E st : Longer(stmtObjs, stmtObjs', st) /\ st.body = body /\ st.alt = alt
<1> DEFINE st == [kind |-> kind, expr |-> expr, body |-> body, alt |-> alt]
<1>1. st \in Stmt /\ st.body = body /\ st.alt = alt
  BY DEF Stmt
<1>2. stmtObjs' = Append(stmtObjs, st)
  BY DEF NewStmt
<1> HIDE DEF st
<1>3. stmtObjs \in Seq(Stmt)
  BY DEF IInv, PointersTyped
<1> QED  BY <1>1, <1>2, <1>3, LongerAppend

LEMMA AddLocalDoes ==
    ASSUME IInv, currentFunc \in DOMAIN funcObjs, NEW n \in Names, AddLocal(n),
           declType \in Nat
    PROVE  /\ \E w : Longer(varObjs, varObjs', w)
           /\ \E ob : /\ Replaced(funcObjs, funcObjs', currentFunc, ob)
                      /\ ob.params = funcObjs[currentFunc].params
                      /\ ob.block = funcObjs[currentFunc].block
                      /\ Longer(funcObjs[currentFunc].locals, ob.locals, Len(varObjs) + 1)
<1> DEFINE w == [name |-> n, type |-> declType]
           old == funcObjs[currentFunc]
           ob == [old EXCEPT !.locals = Append(@, Len(varObjs) + 1)]
<1>1. varObjs \in Seq(Variable) /\ funcObjs \in Seq(Func) /\ Len(varObjs) + 1 \in Nat
  BY Sizes DEF IInv, PointersTyped, Sized
<1>2. w \in Variable
  BY DEF Variable
<1>3. varObjs' = Append(varObjs, w) /\ funcObjs' = [funcObjs EXCEPT ![currentFunc] = ob]
  BY DEF AddLocal
<1>4. old \in Func
  BY Sizes
<1>5. old.locals \in Seq(Nat)
  BY <1>4 DEF Func
<1>6. Append(old.locals, Len(varObjs) + 1) \in Seq(Nat) /\ Longer(old.locals, Append(old.locals, Len(varObjs) + 1), Len(varObjs) + 1)
  BY <1>1, <1>5, LongerAppend, AppendProperties
<1>7. /\ ob \in Func /\ ob.params = old.params /\ ob.block = old.block
      /\ ob.locals = Append(old.locals, Len(varObjs) + 1)
  BY <1>4, <1>6 DEF Func
<1> HIDE DEF w, ob
<1>8. Longer(varObjs, varObjs', w)
  BY <1>1, <1>2, <1>3, LongerAppend
<1>9. Replaced(funcObjs, funcObjs', currentFunc, ob)
  BY <1>1, <1>3, <1>7, ReplacedExcept
<1> QED  BY <1>6, <1>7, <1>8, <1>9

\* A block with a variable, an entry or both added.
LEMMA BlockDoes ==
    ASSUME IInv, NEW b \in DOMAIN blockObjs, NEW ob \in Block,
           blockObjs' = [blockObjs EXCEPT ![b] = ob]
    PROVE  Replaced(blockObjs, blockObjs', b, ob)
  BY ReplacedExcept DEF IInv, PointersTyped

LEMMA ListsOf ==
    ASSUME IInv, NEW b \in DOMAIN blockObjs, NEW x \in Nat
    PROVE  /\ blockObjs[b] \in Block
           /\ Append(blockObjs[b].entries, x) \in Seq(Nat)
           /\ Longer(blockObjs[b].entries, Append(blockObjs[b].entries, x), x)
           /\ Append(blockObjs[b].variables, x) \in Seq(Nat)
           /\ Longer(blockObjs[b].variables, Append(blockObjs[b].variables, x), x)
<1>1. blockObjs[b] \in Block
  BY Sizes
<1>2. blockObjs[b].entries \in Seq(Nat) /\ blockObjs[b].variables \in Seq(Nat)
  BY <1>1 DEF Block
<1> QED  BY <1>1, <1>2, LongerAppend, AppendProperties

LEMMA DoesFunctionDeclaration ==
    ASSUME IInv, NEW n \in Names, NEW ps \in ParamLists, FunctionDeclaration(n, ps)
    PROVE  /\ \E fr : Longer(stack, stack', fr) /\ fr.kind = "function" /\ fr.body = NoNode
           /\ \E ob : /\ Longer(funcObjs, funcObjs', ob) /\ ob.block = Null /\ ob.locals = <<>>
                      /\ Sized(ob.params) /\ Len(ob.params) = Len(ps)
                      /\ \A i \in DOMAIN ob.params : ob.params[i] = Len(varObjs) + i
           /\ Sized(varObjs') /\ Len(varObjs') = Len(varObjs) + Len(ps)
<1> DEFINE fr == FrameOf("function", Len(funcObjs) + 1, Null, NoNode)
           params == [i \in DOMAIN ps |-> [name |-> ps[i].name, type |-> Len(typeObjs) + i]]
           ids == [i \in DOMAIN ps |-> Len(varObjs) + i]
           ob == [name |-> n, params |-> ids, locals |-> <<>>, block |-> Null]
<1>1. /\ stack' = Push(fr) /\ varObjs' = varObjs \o params /\ funcObjs' = Append(funcObjs, ob)
  BY DEF FunctionDeclaration
<1>2. fr \in Frame /\ fr.kind = "function" /\ fr.body = NoNode
  BY Sizes, FrameType DEF Node, NoNode, Null, FrameOf, Sized
<1>3. /\ ps \in Seq(Param) /\ Len(ps) \in Nat /\ DOMAIN ps = 1 .. Len(ps)
      /\ \A i \in DOMAIN ps : ps[i] \in Param
  BY ParamListsAssumption, LenProperties, ElementOfSeq
<1>4. Len(varObjs) \in Nat /\ Len(typeObjs) \in Nat /\ funcObjs \in Seq(Func) /\ varObjs \in Seq(Variable)
  BY Sizes, LenProperties DEF Sized, IInv, PointersTyped
<1>5. params \in Seq(Variable) /\ Len(params) = Len(ps)
  <2>1. \A i \in DOMAIN ps : [name |-> ps[i].name, type |-> Len(typeObjs) + i] \in Variable
    BY <1>3, <1>4 DEF Variable, Param
  <2>2. params \in [1 .. Len(ps) -> Variable]
    BY <1>3, <2>1
  <2> QED  BY <1>3, <2>2, SeqDef, LenProperties
<1>6. ids \in Seq(Nat) /\ Len(ids) = Len(ps) /\ DOMAIN ids = 1 .. Len(ps)
      /\ \A i \in DOMAIN ids : ids[i] = Len(varObjs) + i
  <2>1. ids \in [1 .. Len(ps) -> Nat]
    BY <1>3, <1>4
  <2> QED  BY <1>3, <2>1, SeqDef, LenProperties
<1>7. ob \in Func /\ ob.block = Null /\ ob.locals = <<>> /\ ob.params = ids
  BY <1>6 DEF Func, Null
<1> HIDE DEF fr, params, ids, ob
<1>8. Longer(stack, stack', fr)
  BY <1>1, <1>2, PushDoes
<1>9. Longer(funcObjs, funcObjs', ob)
  BY <1>1, <1>4, <1>7, LongerAppend
<1>10. Sized(varObjs') /\ Len(varObjs') = Len(varObjs) + Len(ps)
  <2>1. varObjs \in Seq(Variable) /\ params \in Seq(Variable)
    BY <1>4, <1>5
  <2>2. /\ Len(varObjs \o params) = Len(varObjs) + Len(params)
        /\ DOMAIN (varObjs \o params) = 1 .. Len(varObjs) + Len(params)
    BY <2>1, ConcatShape
  <2> QED  BY <1>1, <1>3, <1>4, <1>5, <2>2 DEF Sized
<1>11. Sized(ob.params) /\ Len(ob.params) = Len(ps) /\ \A i \in DOMAIN ob.params : ob.params[i] = Len(varObjs) + i
  BY <1>3, <1>6, <1>7 DEF Sized
<1>12. \E fr2 : Longer(stack, stack', fr2) /\ fr2.kind = "function" /\ fr2.body = NoNode
  BY Zenon, <1>2, <1>8
<1> QED  BY Zenon, <1>7, <1>9, <1>10, <1>11, <1>12

LEMMA DoesFunctionDefinition ==
    ASSUME IInv, FunctionDefinition
    PROVE  /\ 1 \in DOMAIN stack /\ 2 \in DOMAIN stack /\ DOMAIN stack = {1, 2} /\ stack[2] = Top
           /\ Top.id \in DOMAIN blockObjs /\ stack' = <<>> /\ DOMAIN stack' = {}
           /\ \E ob : /\ Replaced(funcObjs, funcObjs', stack[1].id, ob)
                      /\ ob.params = funcObjs[stack[1].id].params
                      /\ ob.locals = funcObjs[stack[1].id].locals
                      /\ ob.block = Top.id
<1>1. status = "parsing" /\ stack # <<>> /\ Top.kind = "block" /\ Len(stack) = 2 /\ stack' = <<>>
  BY DEF FunctionDefinition, Awaiting
<1>2. Top.id \in DOMAIN blockObjs /\ stack[1].id \in DOMAIN funcObjs
  BY <1>1, AtBlock
<1>3. Sized(blockObjs) /\ Sized(stack)
  BY Sizes
<1>4. DOMAIN stack = {1, 2} /\ Top.id \in Nat /\ stack[2] = Top
  BY <1>1, <1>2, <1>3 DEF Sized, Top
<1> DEFINE f == stack[1].id
           ob == [funcObjs[f] EXCEPT !.block = Top.id]
<1>5. funcObjs \in Seq(Func) /\ funcObjs[f] \in Func
  BY <1>2, Sizes DEF IInv, PointersTyped
<1>6. ob \in Func /\ ob.params = funcObjs[f].params /\ ob.locals = funcObjs[f].locals /\ ob.block = Top.id
  BY <1>4, <1>5 DEF Func
<1>7. funcObjs' = [funcObjs EXCEPT ![f] = ob]
  BY DEF FunctionDefinition
<1> HIDE DEF ob
<1>8. Replaced(funcObjs, funcObjs', f, ob)
  BY <1>2, <1>5, <1>6, <1>7, ReplacedExcept
<1>9. DOMAIN stack' = {}
  BY <1>1
<1> QED  BY <1>1, <1>2, <1>4, <1>6, <1>8, <1>9
LEMMA DoesOpenBlock ==
    ASSUME IInv, OpenBlock
    PROVE  /\ stack # <<>> /\ Top.kind \in Controls \cup {"function"}
           /\ \E fr : /\ Longer(stack, stack', fr) /\ fr.kind = "block" /\ fr.body = NoNode
                      /\ fr.id = Len(blockObjs) + 1
           /\ \E ob : /\ Longer(blockObjs, blockObjs', ob) /\ ob.outer = currentScope
                      /\ ob.variables = <<>> /\ ob.entries = <<>>
<1> DEFINE fr == FrameOf("block", Len(blockObjs) + 1, Null, NoNode)
           ob == [outer |-> currentScope, variables |-> <<>>, entries |-> <<>>]
<1>1. blockObjs' = Append(blockObjs, ob) /\ stack' = Push(fr)
  BY DEF OpenBlock
<1>2. currentScope \in Nat /\ blockObjs \in Seq(Block) /\ Len(blockObjs) \in Nat
  BY LenProperties DEF IInv, PointersTyped
<1>3. ob \in Block /\ ob.outer = currentScope /\ ob.variables = <<>> /\ ob.entries = <<>>
  BY <1>2 DEF Block
<1>4. fr \in Frame /\ fr.kind = "block" /\ fr.body = NoNode /\ fr.id = Len(blockObjs) + 1
  BY <1>2, FrameType DEF Node, NoNode, Null, FrameOf
<1>5. stack # <<>> /\ Top.kind \in Controls \cup {"function"}
  BY DEF OpenBlock, Awaiting, Controls
<1> HIDE DEF fr, ob
<1>6. Longer(stack, stack', fr)
  BY <1>1, <1>4, PushDoes
<1>7. Longer(blockObjs, blockObjs', ob)
  BY <1>1, <1>2, <1>3, LongerAppend
<1> QED  BY Zenon, <1>3, <1>4, <1>5, <1>6, <1>7

LEMMA DoesBlockStatement ==
    ASSUME IInv, Reduction, BlockStatement
    PROVE  /\ result.t = "stmt" /\ result.id \in Nat
           /\ \E ob : /\ Replaced(blockObjs, blockObjs', Top.id, ob)
                      /\ ob.outer = blockObjs[Top.id].outer /\ ob.variables = blockObjs[Top.id].variables
                      /\ Longer(blockObjs[Top.id].entries, ob.entries, result.id)
<1> DEFINE b == Top.id
           ob == [blockObjs[b] EXCEPT !.entries = AddEntry(@, result.id)]
<1>1. status = "parsing" /\ stack # <<>> /\ Top.kind = "block" /\ result # NoNode
  BY DEF BlockStatement, Reduced
<1>2. b \in DOMAIN blockObjs
  BY <1>1, AtBlock
<1>3. result.id \in Nat /\ result.t = "stmt"
  BY <1>1, Sizes DEF Reduction, Controls, Node
<1>4. /\ blockObjs[b] \in Block /\ Append(blockObjs[b].entries, result.id) \in Seq(Nat)
      /\ Longer(blockObjs[b].entries, Append(blockObjs[b].entries, result.id), result.id)
  BY <1>2, <1>3, ListsOf
<1>5. /\ ob \in Block /\ ob.outer = blockObjs[b].outer /\ ob.variables = blockObjs[b].variables
      /\ ob.entries = Append(blockObjs[b].entries, result.id)
  BY <1>4 DEF Block, AddEntry
<1>6. blockObjs' = [blockObjs EXCEPT ![b] = ob]
  BY DEF BlockStatement
<1> HIDE DEF b, ob
<1>7. Replaced(blockObjs, blockObjs', b, ob)
  BY <1>2, <1>5, <1>6, BlockDoes
<1> QED  BY Zenon, <1>3, <1>4, <1>5, <1>7 DEF b

\* A local is added to the function and to the innermost block.
Locals ==
    /\ currentScope \in DOMAIN blockObjs /\ currentFunc \in DOMAIN funcObjs
    /\ \E w : Longer(varObjs, varObjs', w)
    /\ \E ob : /\ Replaced(funcObjs, funcObjs', currentFunc, ob)
               /\ ob.params = funcObjs[currentFunc].params
               /\ ob.block = funcObjs[currentFunc].block
               /\ Longer(funcObjs[currentFunc].locals, ob.locals, Len(varObjs) + 1)
    /\ \E ob : /\ Replaced(blockObjs, blockObjs', currentScope, ob) /\ ob.outer = blockObjs[currentScope].outer
               /\ Longer(blockObjs[currentScope].variables, ob.variables, Len(varObjs) + 1)

LEMMA AddsLocal ==
    ASSUME IInv, Nested, status = "parsing", stack # <<>>, Top.kind = "declaration",
           NEW n \in Names, AddLocal(n), NEW ob \in Block,
           ob.outer = blockObjs[currentScope].outer,
           ob.variables = Append(blockObjs[currentScope].variables, Len(varObjs) + 1),
           blockObjs' = [blockObjs EXCEPT ![currentScope] = ob]
    PROVE  Locals /\ Replaced(blockObjs, blockObjs', currentScope, ob)
<1>1. currentScope \in DOMAIN blockObjs /\ currentFunc \in DOMAIN funcObjs
  BY AtDeclaration
<1>2. Replaced(blockObjs, blockObjs', currentScope, ob)
  BY <1>1, BlockDoes
<1>3. Len(varObjs) + 1 \in Nat /\ declType \in Nat
  BY Sizes, LenProperties DEF Sized, IInv, PointersTyped
<1>4. Longer(blockObjs[currentScope].variables, ob.variables, Len(varObjs) + 1)
  BY <1>1, <1>3, ListsOf
<1>5. /\ \E w : Longer(varObjs, varObjs', w)
      /\ \E fo : /\ Replaced(funcObjs, funcObjs', currentFunc, fo)
                 /\ fo.params = funcObjs[currentFunc].params
                 /\ fo.block = funcObjs[currentFunc].block
                 /\ Longer(funcObjs[currentFunc].locals, fo.locals, Len(varObjs) + 1)
  BY <1>1, <1>3, AddLocalDoes
<1> QED  BY Zenon, <1>1, <1>2, <1>4, <1>5 DEF Locals

\* The declaration's frame notes a declarator.
Noted == \E fr : Replaced(stack, stack', Len(stack), fr) /\ fr.kind = Top.kind /\ fr.body = Top.body

LEMMA DoesNote ==
    ASSUME IInv, status = "parsing", stack # <<>>, stack' = [stack EXCEPT ![Len(stack)].id = 1]
    PROVE  Noted
<1> DEFINE fr == [Top EXCEPT !.id = 1]
<1>1. stack \in Seq(Frame) /\ Len(stack) \in DOMAIN stack /\ Top \in Frame
  BY Sizes DEF IInv, PointersTyped, Top
<1>2. fr \in Frame /\ fr.kind = Top.kind /\ fr.body = Top.body
  BY <1>1 DEF Frame
<1>3. stack' = [stack EXCEPT ![Len(stack)] = fr]
  BY DEF Top
<1> HIDE DEF fr
<1>4. Replaced(stack, stack', Len(stack), fr)
  BY Zenon, <1>2, <1>3, TopDoes
<1> QED  BY <1>2, <1>4 DEF Noted

LEMMA DoesDeclare ==
    ASSUME IInv, Nested, NEW n \in Names, Declare(n), ~Stop("aborted")
    PROVE  /\ Locals /\ Noted /\ Top.kind = "declaration"
           /\ blockObjs'[currentScope].entries = blockObjs[currentScope].entries
           /\ UNCHANGED <<stmtObjs, result, status, typeObjs>>
<1> DEFINE v == Len(varObjs) + 1
           ob == [blockObjs[currentScope] EXCEPT !.variables = Append(@, v)]
<1>1. /\ status = "parsing" /\ stack # <<>> /\ Top.kind = "declaration" /\ AddLocal(n)
      /\ blockObjs' = [blockObjs EXCEPT ![currentScope] = ob]
      /\ stack' = [stack EXCEPT ![Len(stack)].id = 1] /\ UNCHANGED <<stmtObjs, result, status, typeObjs>>
  BY DEF Declare, Awaiting
<1>2. currentScope \in DOMAIN blockObjs
  BY <1>1, AtDeclaration
<1>3. v \in Nat
  BY Sizes DEF Sized
<1>4. blockObjs[currentScope] \in Block /\ Append(blockObjs[currentScope].variables, v) \in Seq(Nat)
  BY <1>2, <1>3, ListsOf
<1>5. /\ ob \in Block /\ ob.variables = Append(blockObjs[currentScope].variables, v)
      /\ ob.outer = blockObjs[currentScope].outer /\ ob.entries = blockObjs[currentScope].entries
  BY <1>4 DEF Block
<1> HIDE DEF ob
<1>6. Locals /\ Replaced(blockObjs, blockObjs', currentScope, ob)
  BY <1>1, <1>5, AddsLocal
<1>7. Noted
  BY <1>1, DoesNote
<1>8. blockObjs'[currentScope] = ob
  BY <1>6 DEF Replaced
<1> QED  BY <1>1, <1>5, <1>6, <1>7, <1>8
\* A declarator whose initialiser cannot be assigned ends the parse.
LEMMA DoesDeclareInit ==
    ASSUME IInv, Nested, NEW n \in Names, NEW e \in Exprs, DeclareInit(n, e)
    PROVE  \/ \E why \in {"aborted", "crashed"} : Stop(why)
           \/ /\ Locals /\ status' = "aborted"
              /\ typeObjs' = [typeObjs EXCEPT ![declType].const = FALSE]
              /\ blockObjs'[currentScope].entries = blockObjs[currentScope].entries
              /\ UNCHANGED <<stmtObjs, stack, result>>
           \/ /\ Locals /\ Noted /\ Top.kind = "declaration" /\ UNCHANGED <<status, result>>
              /\ typeObjs' = [typeObjs EXCEPT ![declType].const = typeObjs[declType].const]
              /\ \E st : Longer(stmtObjs, stmtObjs', st) /\ st.body = NoNode /\ st.alt = NoNode
              /\ Longer(blockObjs[currentScope].entries, blockObjs'[currentScope].entries,
                        Len(stmtObjs) + 1)
<1> DEFINE x == ResolveExpr(e)
           v == Len(varObjs) + 1
           s == Len(stmtObjs) + 1
           wasConst == typeObjs[declType].const
           cast == [op |-> "assign", l |-> Denotes("var", v), r |-> x.l]
<1>1. status = "parsing" /\ stack # <<>> /\ Top.kind = "declaration"
  BY DEF DeclareInit, Awaiting
<1>2. \/ Outcome(x) # "parsing" /\ Stop(Outcome(x))
      \/ Stop("aborted")
      \/ /\ AddLocal(n)
         /\ typeObjs' = [typeObjs EXCEPT ![declType].const = FALSE]
         /\ blockObjs' = [blockObjs EXCEPT ![currentScope].variables = Append(@, v)]
         /\ status' = "aborted"
         /\ UNCHANGED <<exprObjs, stmtObjs, stack>> /\ UNCHANGED <<state, result>>
      \/ /\ AddLocal(n)
         /\ typeObjs' = [typeObjs EXCEPT ![declType].const = ConstAfterInit(wasConst)]
         /\ exprObjs' = Append(exprObjs, cast)
         /\ NewStmt("init", NewExpr, NoNode, NoNode)
         /\ blockObjs' = [blockObjs EXCEPT
                          ![currentScope] = WithInit(@, v, Len(stmtObjs) + 1)]
         /\ stack' = [stack EXCEPT ![Len(stack)].id = 1]
         /\ UNCHANGED status /\ UNCHANGED <<state, result>>
  BY Zenon DEF DeclareInit
<1> HIDE DEF x, cast
<1>3. CASE Outcome(x) # "parsing" /\ Stop(Outcome(x))
  BY <1>3, OutcomeType
<1>4. CASE Stop("aborted")
  BY <1>4
<1>5. currentScope \in DOMAIN blockObjs
  BY <1>1, AtDeclaration
<1>6. v \in Nat /\ s \in Nat
  BY Sizes DEF Sized
<1>7. /\ blockObjs[currentScope] \in Block /\ Append(blockObjs[currentScope].variables, v) \in Seq(Nat)
      /\ Append(blockObjs[currentScope].entries, s) \in Seq(Nat)
      /\ Longer(blockObjs[currentScope].entries, Append(blockObjs[currentScope].entries, s), s)
  BY <1>5, <1>6, ListsOf
<1>8. CASE /\ AddLocal(n)
           /\ typeObjs' = [typeObjs EXCEPT ![declType].const = FALSE]
           /\ blockObjs' = [blockObjs EXCEPT ![currentScope].variables = Append(@, v)]
           /\ status' = "aborted"
           /\ UNCHANGED <<exprObjs, stmtObjs, stack>> /\ UNCHANGED <<state, result>>
  <2> DEFINE ob == [blockObjs[currentScope] EXCEPT !.variables = Append(@, v)]
  <2>1. /\ ob \in Block /\ ob.variables = Append(blockObjs[currentScope].variables, v)
        /\ ob.outer = blockObjs[currentScope].outer /\ ob.entries = blockObjs[currentScope].entries
    BY <1>7 DEF Block
  <2>2. blockObjs' = [blockObjs EXCEPT ![currentScope] = ob] /\ AddLocal(n)
    BY <1>8
  <2> HIDE DEF ob
  <2>3. Locals /\ Replaced(blockObjs, blockObjs', currentScope, ob)
    BY Zenon, <1>1, <2>1, <2>2, AddsLocal
  <2>4. blockObjs'[currentScope] = ob
    BY <2>3 DEF Replaced
  <2> QED  BY <1>8, <2>1, <2>3, <2>4
<1>9. CASE /\ AddLocal(n)
           /\ typeObjs' = [typeObjs EXCEPT ![declType].const = ConstAfterInit(wasConst)]
           /\ exprObjs' = Append(exprObjs, cast)
           /\ NewStmt("init", NewExpr, NoNode, NoNode)
           /\ blockObjs' = [blockObjs EXCEPT
                          ![currentScope] = WithInit(@, v, Len(stmtObjs) + 1)]
           /\ stack' = [stack EXCEPT ![Len(stack)].id = 1]
           /\ UNCHANGED status /\ UNCHANGED <<state, result>>
  <2> DEFINE ob == WithInit(blockObjs[currentScope], v, s)
  <2>1. /\ ob \in Block /\ ob.variables = Append(blockObjs[currentScope].variables, v)
        /\ ob.outer = blockObjs[currentScope].outer /\ ob.entries = Append(blockObjs[currentScope].entries, s)
    BY <1>7 DEF Block, WithInit, AddEntry
  <2>2. blockObjs' = [blockObjs EXCEPT ![currentScope] = ob] /\ AddLocal(n)
    BY <1>9
  <2> HIDE DEF ob
  <2>3. Locals /\ Replaced(blockObjs, blockObjs', currentScope, ob)
    BY Zenon, <1>1, <2>1, <2>2, AddsLocal
  <2>4. blockObjs'[currentScope] = ob
    BY <2>3 DEF Replaced
  <2>5. Noted
    BY Zenon, <1>1, <1>9, DoesNote
  <2>6. NewExpr \in Nat /\ NoNode \in Node
    BY NewExprType DEF IInv, Node, NoNode, Null
  <2>7. \E st : Longer(stmtObjs, stmtObjs', st) /\ st.body = NoNode /\ st.alt = NoNode
    BY <1>9, <2>6, NewStmtDoes
  <2>8. typeObjs' = [typeObjs EXCEPT ![declType].const = wasConst]
    BY Zenon, <1>9 DEF ConstAfterInit
  <2>9. Longer(blockObjs[currentScope].entries, blockObjs'[currentScope].entries, s)
    BY Zenon, <1>7, <2>1, <2>4
  <2> QED  BY Zenon, <1>1, <1>9, <2>3, <2>5, <2>7, <2>8, <2>9
<1> QED  BY Zenon, <1>2, <1>3, <1>4, <1>8, <1>9
\* An expression that is refused leaves everything as it is.
LEMMA DoesExprStatement ==
    ASSUME IInv, NEW e \in Exprs, ExprStatement(e)
    PROVE  \/ \E why \in {"aborted", "crashed"} : Stop(why)
           \/ /\ \E st : Longer(stmtObjs, stmtObjs', st) /\ st.body = NoNode /\ st.alt = NoNode
              /\ result = NoNode /\ result' = StmtNode(Len(stmtObjs) + 1)
              /\ UNCHANGED <<typeObjs, varObjs, blockObjs, funcObjs, stack, status>>
<1> DEFINE x == ResolveExpr(e)
<1>1. \/ Outcome(x) # "parsing" /\ Stop(Outcome(x))
      \/ /\ result = NoNode /\ NewStmt("expr", NewExpr, NoNode, NoNode) /\ Yield
         /\ UNCHANGED <<typeObjs, varObjs, blockObjs, funcObjs, state, stack, status>>
  BY Zenon DEF ExprStatement, Awaiting
<1> HIDE DEF x
<1>2. CASE Outcome(x) # "parsing" /\ Stop(Outcome(x))
  BY <1>2, OutcomeType
<1>3. CASE /\ result = NoNode /\ NewStmt("expr", NewExpr, NoNode, NoNode) /\ Yield
           /\ UNCHANGED <<typeObjs, varObjs, blockObjs, funcObjs, state, stack, status>>
  <2>1. NewExpr \in Nat /\ NoNode \in Node
    BY NewExprType DEF IInv, Node, NoNode, Null
  <2>2. \E st : Longer(stmtObjs, stmtObjs', st) /\ st.body = NoNode /\ st.alt = NoNode
    BY <1>3, <2>1, NewStmtDoes
  <2> QED  BY Zenon, <1>3, <2>2 DEF Yield, StmtNode
<1> QED  BY <1>1, <1>2, <1>3

LEMMA DoesBeginControl ==
    ASSUME IInv, NEW kind \in {"if", "while"}, NEW e \in Exprs, BeginControl(kind, e)
    PROVE  \/ \E why \in {"aborted", "crashed"} : Stop(why)
           \/ /\ \E fr : Longer(stack, stack', fr) /\ fr.kind \in {"if", "while"} /\ fr.body = NoNode
              /\ UNCHANGED <<typeObjs, varObjs, blockObjs, funcObjs, stmtObjs, result, status>>
<1> DEFINE x == ResolveExpr(e)
           fr == FrameOf(kind, Null, NewExpr, NoNode)
<1>1. \/ Outcome(x) # "parsing" /\ Stop(Outcome(x))
      \/ /\ stack' = Push(fr)
         /\ UNCHANGED <<typeObjs, varObjs, blockObjs, stmtObjs, funcObjs, state, result, status>>
  BY Zenon DEF BeginControl
<1>2. fr \in Frame /\ fr.kind \in {"if", "while"} /\ fr.body = NoNode
  BY NewExprType, FrameType DEF IInv, Node, NoNode, Null, FrameOf
<1> HIDE DEF x, fr
<1>3. CASE Outcome(x) # "parsing" /\ Stop(Outcome(x))
  BY <1>3, OutcomeType
<1>4. CASE /\ stack' = Push(fr)
           /\ UNCHANGED <<typeObjs, varObjs, blockObjs, stmtObjs, funcObjs, state, result, status>>
  <2>1. Longer(stack, stack', fr)
    BY <1>2, <1>4, PushDoes
  <2>2. \E f : Longer(stack, stack', f) /\ f.kind \in {"if", "while"} /\ f.body = NoNode
    BY Zenon, <1>2, <2>1
  <2> QED  BY Zenon, <1>4, <2>2
<1> QED  BY <1>1, <1>3, <1>4

LEMMA DoesBeginDeclaration ==
    ASSUME IInv, NEW type \in DeclTypes, BeginDeclaration(type)
    PROVE  /\ stack # <<>> /\ Top.kind = "block"
           /\ \E fr : Longer(stack, stack', fr) /\ fr.kind = "declaration" /\ fr.body = NoNode
<1> DEFINE fr == FrameOf("declaration", 0, Null, NoNode)
<1>1. stack # <<>> /\ Top.kind = "block" /\ stack' = Push(fr)
  BY DEF BeginDeclaration, Awaiting
<1>2. fr \in Frame /\ fr.kind = "declaration" /\ fr.body = NoNode
  BY FrameType DEF Node, NoNode, Null, FrameOf
<1> HIDE DEF fr
<1>3. Longer(stack, stack', fr)
  BY <1>1, <1>2, PushDoes
<1> QED  BY Zenon, <1>1, <1>2, <1>3

LEMMA DoesElse ==
    ASSUME IInv, Else
    PROVE  /\ Top.kind = "if" /\ result' = NoNode
           /\ \E fr : Replaced(stack, stack', Len(stack), fr) /\ fr.kind = "else" /\ fr.body = result
<1> DEFINE fr == FrameOf("else", Null, Top.expr, result)
<1>1. stack # <<>> /\ Top.kind = "if" /\ stack' = [stack EXCEPT ![Len(stack)] = fr] /\ result' = NoNode
  BY DEF Else, Reduced, Top
<1>2. Top \in Frame /\ result \in Node
  BY <1>1, Sizes DEF Top
<1>3. fr \in Frame /\ fr.kind = "else" /\ fr.body = result
  BY <1>2, FrameType DEF FrameOf, Null, Frame
<1> HIDE DEF fr
<1>4. Replaced(stack, stack', Len(stack), fr)
  BY Zenon, <1>1, <1>3, TopDoes
<1> QED  BY <1>1, <1>3, <1>4

LEMMA DoesEndControl ==
    ASSUME IInv, EndControl
    PROVE  /\ stack # <<>> /\ Top.kind \in Controls /\ Shorter(stack, stack')
           /\ result # NoNode /\ result' = StmtNode(Len(stmtObjs) + 1)
           /\ \E st : /\ Longer(stmtObjs, stmtObjs', st)
                      /\ \/ Top.kind # "else" /\ st.body = result /\ st.alt = NoNode
                         \/ Top.kind = "else" /\ st.body = Top.body /\ st.alt = result
<1>1. /\ stack # <<>> /\ Top.kind \in Controls /\ stack' = Pop /\ result # NoNode
      /\ result' = StmtNode(Len(stmtObjs) + 1)
  BY DEF EndControl, Reduced, Controls, Yield, StmtNode
<1>2. Top \in Frame /\ result \in Node /\ NoNode \in Node
  BY <1>1, Sizes DEF Top, Node, NoNode, Null
<1>3. Top.expr \in Nat /\ Top.body \in Node
  BY <1>2 DEF Frame
<1>4. Shorter(stack, stack')
  BY <1>1, PopDoes
<1>5. CASE Top.kind \in {"if", "while"} /\ NewStmt(Top.kind, Top.expr, result, NoNode)
  <2>1. \E st : Longer(stmtObjs, stmtObjs', st) /\ st.body = result /\ st.alt = NoNode
    BY <1>2, <1>3, <1>5, NewStmtDoes
  <2> QED  BY <1>1, <1>4, <1>5, <2>1
<1>6. CASE Top.kind = "else" /\ NewStmt("if", Top.expr, Top.body, result)
  <2>1. \E st : Longer(stmtObjs, stmtObjs', st) /\ st.body = Top.body /\ st.alt = result
    BY <1>2, <1>3, <1>6, NewStmtDoes
  <2> QED  BY <1>1, <1>4, <1>6, <2>1
<1> QED  BY <1>5, <1>6 DEF EndControl

LEMMA DoesCloseBlock ==
    ASSUME IInv, Nested, CloseBlock
    PROVE  /\ stack # <<>> /\ Top.kind = "block" /\ Top.id \in DOMAIN blockObjs
           /\ Shorter(stack, stack') /\ result = NoNode /\ result' = BlockNode(Top.id)
           /\ stack' # <<>> /\ Top'.kind \in Controls
<1>1. /\ status = "parsing" /\ stack # <<>> /\ Top.kind = "block" /\ Len(stack) > 2 /\ stack' = Pop
      /\ result = NoNode /\ result' = BlockNode(Top.id)
  BY DEF CloseBlock, Awaiting, BlockNode
<1>2. Top.id \in DOMAIN blockObjs
  BY <1>1, AtBlock
<1>3. Shorter(stack, stack') /\ Len(stack) \in DOMAIN stack
  BY <1>1, PopDoes, Sizes
<1>4. stack[Len(stack) - 1].kind \in Controls
  BY <1>1, <1>3 DEF Nested, Top
<1>5. Len(stack') > 1 /\ Len(stack') = Len(stack) - 1 /\ stack'[Len(stack')] = stack[Len(stack) - 1]
  BY <1>1, <1>3 DEF Shorter, Sized
<1>6. stack' # <<>>
  BY <1>5, EmptySeq
<1> QED  BY <1>1, <1>2, <1>3, <1>4, <1>5, <1>6 DEF Top
LEMMA StopFrames ==
    ASSUME Reduction, NEW why \in {"aborted", "crashed"}, Stop(why)
    PROVE  Nested' /\ Reduction'
  BY DEF Stop, Nested, Reduction

LEMMA NextFrames ==
    ASSUME IInv, Nested, Reduction, [Next]_vars
    PROVE  Nested' /\ Reduction'
<1>0. stack # <<>> => Len(stack) \in DOMAIN stack
  BY Sizes
<1>1. ASSUME NEW n \in Names, NEW ps \in ParamLists, FunctionDeclaration(n, ps)
      PROVE  Nested' /\ Reduction'
  <2>1. status = "parsing" /\ stack = <<>> /\ UNCHANGED <<result, status>>
    BY <1>1 DEF FunctionDeclaration
  <2>2. PICK fr : Longer(stack, stack', fr) /\ fr.kind = "function" /\ fr.body = NoNode
    BY <1>1, DoesFunctionDeclaration
  <2>3. Nested'
    BY <1>0, <2>1, <2>2, NestedPush
  <2> QED  BY <2>1, <2>3 DEF Reduction
<1>2. CASE FunctionPrototype
  <2>1. status = "parsing" /\ stack # <<>> /\ stack' = Pop /\ result = NoNode /\ UNCHANGED <<result, status>>
    BY <1>2 DEF FunctionPrototype, Awaiting
  <2>2. Nested'
    BY <2>1, PopDoes, NestedPop
  <2> QED  BY <2>1, <2>2 DEF Reduction, NoNode
<1>3. CASE FunctionDefinition
  <2>1. result = NoNode /\ result' = NoNode /\ DOMAIN stack' = {}
    BY <1>3, DoesFunctionDefinition DEF FunctionDefinition, Awaiting
  <2> QED  BY <2>1 DEF Nested, Reduction, NoNode
<1>4. CASE OpenBlock
  <2>1. status = "parsing" /\ result = NoNode /\ UNCHANGED <<result, status>>
    BY <1>4 DEF OpenBlock, Awaiting
  <2>2. stack # <<>> /\ Top.kind \in Controls \cup {"function"}
    BY <1>4, DoesOpenBlock
  <2>3. PICK fr : Longer(stack, stack', fr) /\ fr.kind = "block" /\ fr.body = NoNode
    BY <1>4, DoesOpenBlock
  <2>4. Len(stack) > 1 => Top.kind # "function"
    BY <1>0, <2>1, <2>2 DEF IInv, Chain, FrameShape, Top
  <2>5. Nested'
    BY <1>0, <2>1, <2>2, <2>3, <2>4, NestedPush
  <2> QED  BY <2>1, <2>5 DEF Reduction, NoNode
<1>5. CASE CloseBlock
  <2>1. status = "parsing"
    BY <1>5 DEF CloseBlock, Awaiting
  <2>2. Shorter(stack, stack') /\ result' = BlockNode(Top.id) /\ stack' # <<>> /\ Top'.kind \in Controls
    BY <1>5, DoesCloseBlock
  <2>3. Nested'
    BY <2>1, <2>2, NestedPop
  <2> QED  BY <2>2, <2>3 DEF Reduction, BlockNode, Controls
<1>6. CASE BlockStatement
  BY <1>6 DEF BlockStatement, Reduced, Nested, Reduction, NoNode
<1>7. ASSUME NEW type \in DeclTypes, BeginDeclaration(type)
      PROVE  Nested' /\ Reduction'
  <2>1. status = "parsing" /\ result = NoNode /\ UNCHANGED <<result, status>>
    BY <1>7 DEF BeginDeclaration, Awaiting
  <2>2. stack # <<>> /\ Top.kind = "block"
    BY <1>7, DoesBeginDeclaration
  <2>3. PICK fr : Longer(stack, stack', fr) /\ fr.kind = "declaration" /\ fr.body = NoNode
    BY <1>7, DoesBeginDeclaration
  <2>4. Nested'
    BY <1>0, <2>1, <2>2, <2>3, NestedPush
  <2> QED  BY <2>1, <2>4 DEF Reduction, NoNode
<1>8. ASSUME status = "parsing", result = NoNode, Noted, UNCHANGED <<status, result>>
      PROVE  Nested' /\ Reduction'
  <2>1. PICK fr : Replaced(stack, stack', Len(stack), fr) /\ fr.kind = Top.kind /\ fr.body = Top.body
    BY <1>8 DEF Noted
  <2>2. Nested'
    BY <1>8, <2>1, NestedTop
  <2> QED  BY <1>8, <2>2 DEF Reduction, NoNode
<1>9. ASSUME NEW n \in Names, Declare(n)
      PROVE  Nested' /\ Reduction'
  <2>1. status = "parsing" /\ result = NoNode
    BY <1>9 DEF Declare, Awaiting
  <2>2. CASE Stop("aborted")
    BY <2>2, StopFrames
  <2>3. CASE ~Stop("aborted")
    BY <1>8, <1>9, <2>1, <2>3, DoesDeclare
  <2> QED  BY <2>2, <2>3
<1>10. ASSUME NEW n \in Names, NEW e \in Exprs, DeclareInit(n, e)
       PROVE  Nested' /\ Reduction'
  <2>1. status = "parsing" /\ result = NoNode
    BY <1>10 DEF DeclareInit, Awaiting
  <2>2. \/ \E why \in {"aborted", "crashed"} : Stop(why)
        \/ status' = "aborted" /\ UNCHANGED result
        \/ Noted /\ UNCHANGED <<status, result>>
    BY <1>10, DoesDeclareInit
  <2>3. CASE \E why \in {"aborted", "crashed"} : Stop(why)
    BY <2>3, StopFrames
  <2>4. CASE status' = "aborted" /\ UNCHANGED result
    BY <2>4 DEF Nested, Reduction
  <2>5. CASE Noted /\ UNCHANGED <<status, result>>
    BY <1>8, <2>1, <2>5
  <2> QED  BY <2>2, <2>3, <2>4, <2>5
<1>11. CASE EndDeclaration
  <2>1. status = "parsing" /\ stack # <<>> /\ stack' = Pop /\ result = NoNode /\ UNCHANGED <<result, status>>
    BY <1>11 DEF EndDeclaration, Awaiting
  <2>2. Nested'
    BY <2>1, PopDoes, NestedPop
  <2> QED  BY <2>1, <2>2 DEF Reduction, NoNode
<1>12. ASSUME NEW e \in Exprs, ExprStatement(e)
       PROVE  Nested' /\ Reduction'
  <2>1. status = "parsing"
    BY <1>12 DEF ExprStatement, Awaiting
  <2>2. \/ \E why \in {"aborted", "crashed"} : Stop(why)
        \/ result' = StmtNode(Len(stmtObjs) + 1) /\ UNCHANGED <<stack, status>>
    BY <1>12, DoesExprStatement
  <2>3. CASE \E why \in {"aborted", "crashed"} : Stop(why)
    BY <2>3, StopFrames
  <2>4. CASE result' = StmtNode(Len(stmtObjs) + 1) /\ UNCHANGED <<stack, status>>
    BY <2>1, <2>4 DEF Nested, Reduction, StmtNode
  <2> QED  BY <2>2, <2>3, <2>4
<1>13. ASSUME NEW kind \in {"if", "while"}, NEW e \in Exprs, BeginControl(kind, e)
       PROVE  Nested' /\ Reduction'
  <2>1. status = "parsing" /\ result = NoNode
    BY <1>13 DEF BeginControl, Awaiting
  <2>2. \/ \E why \in {"aborted", "crashed"} : Stop(why)
        \/ /\ \E fr : Longer(stack, stack', fr) /\ fr.kind \in {"if", "while"} /\ fr.body = NoNode
           /\ UNCHANGED <<result, status>>
    BY <1>13, DoesBeginControl
  <2>3. CASE \E why \in {"aborted", "crashed"} : Stop(why)
    BY <2>3, StopFrames
  <2>4. CASE /\ \E fr : Longer(stack, stack', fr) /\ fr.kind \in {"if", "while"} /\ fr.body = NoNode
             /\ UNCHANGED <<result, status>>
    <3>1. PICK fr : Longer(stack, stack', fr) /\ fr.kind \in {"if", "while"} /\ fr.body = NoNode
      BY <2>4
    <3>2. Nested'
      BY <1>0, <2>1, <3>1, NestedPush
    <3> QED  BY <2>1, <2>4, <3>2 DEF Reduction, NoNode
  <2> QED  BY <2>2, <2>3, <2>4
<1>14. CASE Else
  <2>1. status = "parsing"
    BY <1>14 DEF Else, Reduced
  <2>2. Top.kind = "if" /\ result' = NoNode
    BY <1>14, DoesElse
  <2>3. PICK fr : Replaced(stack, stack', Len(stack), fr) /\ fr.kind = "else"
    BY <1>14, DoesElse
  <2>4. Nested'
    BY <2>1, <2>2, <2>3, NestedTop
  <2> QED  BY <2>2, <2>4 DEF Reduction, NoNode
<1>15. CASE EndControl
  <2>1. status = "parsing"
    BY <1>15 DEF EndControl, Reduced
  <2>2. Shorter(stack, stack') /\ result' = StmtNode(Len(stmtObjs) + 1)
    BY <1>15, DoesEndControl
  <2>3. Nested'
    BY <2>1, <2>2, NestedPop
  <2> QED  BY <2>2, <2>3 DEF Reduction, StmtNode
<1>16. CASE Accept
  <2>1. stack' = stack /\ result' = result /\ status' = "accepted"
    BY <1>16 DEF Accept
  <2> QED  BY <2>1 DEF Nested, Reduction
<1>17. CASE SyntaxError
  BY <1>17, StopFrames DEF SyntaxError
<1>18. CASE UNCHANGED vars
  <2>1. stack' = stack /\ result' = result /\ status' = status
    BY <1>18 DEF vars
  <2>2. Nested'
    BY Zenon, <2>1 DEF Nested
  <2>3. Reduction'
    BY Zenon, <2>1 DEF Reduction, Top
  <2> QED  BY <2>2, <2>3
<1> QED
  BY <1>1, <1>2, <1>3, <1>4, <1>5, <1>6, <1>7, <1>9, <1>10, <1>11, <1>12, <1>13, <1>14,
     <1>15, <1>16, <1>17, <1>18 DEF Next
(***************************************************************************)
(* The order of the entries.                                               *)
(***************************************************************************)
\* An entry is a statement, and a statement that waits to become one is
\* younger than all entries.
EntriesOlder ==
    /\ \A b \in DOMAIN blockObjs : \A i \in DOMAIN blockObjs[b].entries :
           blockObjs[b].entries[i] \in DOMAIN stmtObjs
    /\ result.t = "stmt" =>
           /\ result.id \in DOMAIN stmtObjs
           /\ \A b \in DOMAIN blockObjs : \A i \in DOMAIN blockObjs[b].entries :
                  blockObjs[b].entries[i] < result.id

\* Blocks keep their entries, new ones have none.
EntriesKept ==
    \A b \in DOMAIN blockObjs' :
        \/ b \in DOMAIN blockObjs /\ blockObjs'[b].entries = blockObjs[b].entries
        \/ DOMAIN blockObjs'[b].entries = {}

LEMMA OrderKept ==
    ASSUME EntriesInSourceOrder, EntriesOlder, EntriesKept, DOMAIN stmtObjs \subseteq DOMAIN stmtObjs',
           result' = result \/ result'.t # "stmt"
           \/ (Sized(stmtObjs) /\ Sized(stmtObjs') /\ Len(stmtObjs') = Len(stmtObjs) + 1
               /\ result'.id = Len(stmtObjs'))
    PROVE  EntriesInSourceOrder' /\ EntriesOlder'
<1>1. EntriesInSourceOrder'
  BY DEF EntriesInSourceOrder, EntriesKept
<1>2. \A b \in DOMAIN blockObjs' : \A i \in DOMAIN blockObjs'[b].entries :
          blockObjs'[b].entries[i] \in DOMAIN stmtObjs
  BY DEF EntriesOlder, EntriesKept
<1>3. ASSUME result'.t = "stmt"
      PROVE  /\ result'.id \in DOMAIN stmtObjs'
             /\ \A b \in DOMAIN blockObjs' : \A i \in DOMAIN blockObjs'[b].entries :
                    blockObjs'[b].entries[i] < result'.id
  <2>1. CASE result' = result
    <3>1. /\ result.t = "stmt" /\ result.id \in DOMAIN stmtObjs
          /\ \A b \in DOMAIN blockObjs : \A i \in DOMAIN blockObjs[b].entries :
                 blockObjs[b].entries[i] < result.id
      BY <1>3, <2>1 DEF EntriesOlder
    <3> QED  BY <2>1, <3>1 DEF EntriesKept
  <2>2. CASE /\ Sized(stmtObjs) /\ Sized(stmtObjs') /\ Len(stmtObjs') = Len(stmtObjs) + 1
             /\ result'.id = Len(stmtObjs')
    <3>1. result'.id \in DOMAIN stmtObjs' /\ \A s \in DOMAIN stmtObjs : s < result'.id
      BY <2>2 DEF Sized
    <3> QED  BY <1>2, <3>1
  <2> QED  BY <1>3, <2>1, <2>2
<1>4. \A b \in DOMAIN blockObjs' : \A i \in DOMAIN blockObjs'[b].entries :
          blockObjs'[b].entries[i] \in DOMAIN stmtObjs'
  BY <1>2
<1>5. EntriesOlder'
  BY <1>3, <1>4 DEF EntriesOlder
<1> QED  BY <1>1, <1>5

LEMMA OrderLonger ==
    ASSUME EntriesInSourceOrder, EntriesOlder, NEW b \in DOMAIN blockObjs, NEW ob, NEW s \in Nat,
           Replaced(blockObjs, blockObjs', b, ob), Longer(blockObjs[b].entries, ob.entries, s),
           DOMAIN stmtObjs \subseteq DOMAIN stmtObjs', s \in DOMAIN stmtObjs', result'.t # "stmt",
           \A i \in DOMAIN blockObjs[b].entries : blockObjs[b].entries[i] < s
    PROVE  EntriesInSourceOrder' /\ EntriesOlder'
<1> DEFINE es == blockObjs[b].entries
           fs == ob.entries
<1>1. /\ DOMAIN fs = 1 .. Len(es) + 1 /\ Len(es) \in Nat /\ DOMAIN es = 1 .. Len(es)
      /\ fs[Len(es) + 1] = s /\ \A i \in DOMAIN es : fs[i] = es[i]
  BY DEF Longer, Sized
<1>2. /\ DOMAIN blockObjs' = DOMAIN blockObjs /\ blockObjs'[b].entries = fs
      /\ \A c \in DOMAIN blockObjs : c # b => blockObjs'[c] = blockObjs[c]
  BY DEF Replaced, Sized
<1>3. \A i, j \in DOMAIN es : i < j => es[i] < es[j]
  BY DEF EntriesInSourceOrder
<1>4. \A i \in DOMAIN es : es[i] < s /\ es[i] \in DOMAIN stmtObjs
  BY DEF EntriesOlder
<1> HIDE DEF es, fs
<1>5. ASSUME NEW i \in DOMAIN fs, NEW j \in DOMAIN fs, i < j
      PROVE  fs[i] < fs[j]
  <2>1. i \in DOMAIN es /\ fs[i] = es[i]
    BY <1>1, <1>5
  <2>2. CASE j \in DOMAIN es
    BY <1>1, <1>3, <1>5, <2>1, <2>2
  <2>3. CASE j = Len(es) + 1
    BY <1>1, <1>4, <2>1, <2>3
  <2> QED  BY <1>1, <2>2, <2>3
<1>6. EntriesInSourceOrder'
  <2> SUFFICES ASSUME NEW c \in DOMAIN blockObjs'
               PROVE  \A i, j \in DOMAIN blockObjs'[c].entries :
                          i < j => blockObjs'[c].entries[i] < blockObjs'[c].entries[j]
    BY DEF EntriesInSourceOrder
  <2>1. CASE c = b
    BY <1>2, <1>5, <2>1
  <2>2. CASE c # b
    BY <1>2, <2>2 DEF EntriesInSourceOrder
  <2> QED  BY <2>1, <2>2
<1>7. \A c \in DOMAIN blockObjs' : \A i \in DOMAIN blockObjs'[c].entries :
          blockObjs'[c].entries[i] \in DOMAIN stmtObjs'
  <2> SUFFICES ASSUME NEW c \in DOMAIN blockObjs', NEW i \in DOMAIN blockObjs'[c].entries
               PROVE  blockObjs'[c].entries[i] \in DOMAIN stmtObjs'
    OBVIOUS
  <2>1. CASE c = b
    BY <1>1, <1>2, <1>4, <2>1
  <2>2. CASE c # b
    BY <1>2, <2>2 DEF EntriesOlder
  <2> QED  BY <2>1, <2>2
<1> QED  BY <1>6, <1>7 DEF EntriesOlder

LEMMA NextOrder ==
    ASSUME IInv, Nested, Reduction, EntriesInSourceOrder, EntriesOlder, [Next]_vars
    PROVE  EntriesInSourceOrder' /\ EntriesOlder'
<1>0. Sized(stmtObjs) /\ Sized(blockObjs)
  BY Sizes
<1>1. ASSUME UNCHANGED <<blockObjs, stmtObjs>>, result' = result \/ result'.t # "stmt"
      PROVE  EntriesInSourceOrder' /\ EntriesOlder'
  BY <1>1, OrderKept DEF EntriesKept
<1>2. ASSUME UNCHANGED blockObjs, result'.id = Len(stmtObjs) + 1, NEW st, Longer(stmtObjs, stmtObjs', st)
      PROVE  EntriesInSourceOrder' /\ EntriesOlder'
  <2>1. /\ Sized(stmtObjs) /\ Sized(stmtObjs') /\ Len(stmtObjs') = Len(stmtObjs) + 1
        /\ result'.id = Len(stmtObjs') /\ DOMAIN stmtObjs \subseteq DOMAIN stmtObjs'
    BY <1>2 DEF Longer, Sized
  <2> QED  BY <1>2, <2>1, OrderKept DEF EntriesKept
<1>3. ASSUME NEW why, Stop(why)
      PROVE  EntriesInSourceOrder' /\ EntriesOlder'
  BY <1>1, <1>3 DEF Stop
<1>4. ASSUME Locals, blockObjs'[currentScope].entries = blockObjs[currentScope].entries,
             UNCHANGED <<stmtObjs, result>>
      PROVE  EntriesInSourceOrder' /\ EntriesOlder'
  <2>1. EntriesKept
    BY <1>4 DEF EntriesKept, Locals, Replaced, Sized
  <2> QED  BY <1>4, <2>1, OrderKept
<1>5. CASE OpenBlock
  <2>1. PICK ob : Longer(blockObjs, blockObjs', ob) /\ ob.entries = <<>>
    BY <1>5, DoesOpenBlock
  <2>2. DOMAIN ob.entries = {}
    BY <2>1
  <2>3. EntriesKept
    BY <2>1, <2>2 DEF EntriesKept, Longer, Sized
  <2> QED  BY <1>5, <2>3, OrderKept DEF OpenBlock
<1>6. CASE CloseBlock
  <2>1. result'.t # "stmt"
    BY <1>6, DoesCloseBlock DEF BlockNode
  <2> QED  BY <1>1, <1>6, <2>1 DEF CloseBlock
<1>7. CASE BlockStatement
  <2>1. status = "parsing" /\ stack # <<>> /\ Top.kind = "block" /\ result' = NoNode /\ stmtObjs' = stmtObjs
    BY <1>7 DEF BlockStatement, Reduced
  <2>2. Top.id \in DOMAIN blockObjs
    BY <2>1, AtBlock
  <2>3. result.t = "stmt" /\ result.id \in Nat
    BY <1>7, DoesBlockStatement
  <2>4. PICK ob : /\ Replaced(blockObjs, blockObjs', Top.id, ob)
                  /\ Longer(blockObjs[Top.id].entries, ob.entries, result.id)
    BY <1>7, DoesBlockStatement
  <2>5. /\ result.id \in DOMAIN stmtObjs
        /\ \A i \in DOMAIN blockObjs[Top.id].entries : blockObjs[Top.id].entries[i] < result.id
    BY <2>2, <2>3 DEF EntriesOlder
  <2> QED  BY <2>1, <2>2, <2>3, <2>4, <2>5, OrderLonger DEF NoNode
<1>8. ASSUME NEW n \in Names, Declare(n)
      PROVE  EntriesInSourceOrder' /\ EntriesOlder'
  BY <1>3, <1>4, <1>8, DoesDeclare
<1>9. ASSUME NEW n \in Names, NEW e \in Exprs, DeclareInit(n, e)
      PROVE  EntriesInSourceOrder' /\ EntriesOlder'
  <2>1. CASE \E why \in {"aborted", "crashed"} : Stop(why)
    BY <1>3, <2>1
  <2>2. CASE /\ Locals /\ blockObjs'[currentScope].entries = blockObjs[currentScope].entries
             /\ UNCHANGED <<stmtObjs, result>>
    BY <1>4, <2>2
  <2>3. CASE /\ Locals /\ UNCHANGED result
             /\ \E st : Longer(stmtObjs, stmtObjs', st)
             /\ Longer(blockObjs[currentScope].entries, blockObjs'[currentScope].entries,
                       Len(stmtObjs) + 1)
    <3>1. result'.t # "stmt"
      BY <1>9, <2>3 DEF DeclareInit, Awaiting, NoNode
    <3>2. PICK ob : Replaced(blockObjs, blockObjs', currentScope, ob)
      BY <2>3 DEF Locals
    <3>3. /\ Longer(blockObjs[currentScope].entries, ob.entries, Len(stmtObjs) + 1)
          /\ currentScope \in DOMAIN blockObjs
      BY <2>3, <3>2 DEF Replaced, Locals
    <3>4. PICK st : Longer(stmtObjs, stmtObjs', st)
      BY <2>3
    <3>5. /\ Len(stmtObjs) + 1 \in DOMAIN stmtObjs' /\ DOMAIN stmtObjs \subseteq DOMAIN stmtObjs'
          /\ Len(stmtObjs) + 1 \in Nat /\ \A s \in DOMAIN stmtObjs : s < Len(stmtObjs) + 1
      BY <3>4 DEF Longer, Sized
    <3>6. \A i \in DOMAIN blockObjs[currentScope].entries :
              blockObjs[currentScope].entries[i] < Len(stmtObjs) + 1
      BY <3>3, <3>5 DEF EntriesOlder
    <3> QED  BY <3>1, <3>2, <3>3, <3>5, <3>6, OrderLonger
  <2> QED  BY <1>9, <2>1, <2>2, <2>3, DoesDeclareInit
<1>10. ASSUME NEW e \in Exprs, ExprStatement(e)
       PROVE  EntriesInSourceOrder' /\ EntriesOlder'
  <2>1. CASE \E why \in {"aborted", "crashed"} : Stop(why)
    BY <1>3, <2>1
  <2>2. CASE /\ \E st : Longer(stmtObjs, stmtObjs', st)
             /\ result' = StmtNode(Len(stmtObjs) + 1) /\ UNCHANGED blockObjs
    BY <1>2, <2>2 DEF StmtNode
  <2> QED  BY <1>10, <2>1, <2>2, DoesExprStatement
<1>11. ASSUME NEW kind \in {"if", "while"}, NEW e \in Exprs, BeginControl(kind, e)
       PROVE  EntriesInSourceOrder' /\ EntriesOlder'
  BY <1>1, <1>3, <1>11, DoesBeginControl
<1>12. CASE Else
  BY <1>1, <1>12, DoesElse DEF Else, NoNode
<1>13. CASE EndControl
  <2>1. result'.id = Len(stmtObjs) + 1 /\ \E st : Longer(stmtObjs, stmtObjs', st)
    BY <1>13, DoesEndControl DEF StmtNode
  <2> QED  BY <1>2, <1>13, <2>1 DEF EndControl
<1>14. CASE \E n \in Names, ps \in ParamLists : FunctionDeclaration(n, ps)
  BY <1>1, <1>14 DEF FunctionDeclaration
<1>15. CASE FunctionPrototype \/ FunctionDefinition
  BY <1>1, <1>15 DEF FunctionPrototype, FunctionDefinition
<1>16. CASE EndDeclaration \/ \E type \in DeclTypes : BeginDeclaration(type)
  BY <1>1, <1>16 DEF EndDeclaration, BeginDeclaration
<1>17. CASE Accept \/ SyntaxError \/ UNCHANGED vars
  BY <1>1, <1>3, <1>17 DEF Accept, SyntaxError, vars
<1> QED
  BY <1>5, <1>6, <1>7, <1>8, <1>9, <1>10, <1>11, <1>12, <1>13, <1>14, <1>15, <1>16, <1>17 DEF Next
(***************************************************************************)
(* The lists of the variables.                                             *)
(***************************************************************************)
At(lists, o, i, v) == o \in DOMAIN lists /\ i \in DOMAIN lists[o] /\ lists[o][i] = v
OnList(lists, v) == \E o, i : At(lists, o, i, v)
Once(lists) == \A o, p, i, j, v : At(lists, o, i, v) /\ At(lists, p, j, v) => o = p /\ i = j

\* v at the end of list o; the list of a new owner o.
Appends(lists, after, o, v) ==
    /\ o \in DOMAIN lists /\ DOMAIN after = DOMAIN lists
    /\ Longer(lists[o], after[o], v)
    /\ \A p \in DOMAIN lists : p # o => after[p] = lists[p]
Adds(lists, after, o, es) ==
    /\ o \notin DOMAIN lists /\ DOMAIN after = DOMAIN lists \cup {o}
    /\ after[o] = es /\ \A p \in DOMAIN lists : after[p] = lists[p]

LEMMA CountPlaces ==
    ASSUME NEW lists, NEW v, Once(lists)
    PROVE  /\ OnList(lists, v) => Cardinality(Places(lists, v)) = 1
           /\ ~OnList(lists, v) => Cardinality(Places(lists, v)) = 0
<1>1. \A p : p \in Places(lists, v) <=> \E o, i : p = <<o, i>> /\ At(lists, o, i, v)
  BY DEF Places, At
<1>2. ASSUME OnList(lists, v) PROVE Cardinality(Places(lists, v)) = 1
  <2>1. PICK o, i : At(lists, o, i, v)
    BY <1>2 DEF OnList
  <2>2. Places(lists, v) = {<<o, i>>}
    BY <1>1, <2>1 DEF Once
  <2> QED  BY <2>2, FS_Singleton
<1>3. ASSUME ~OnList(lists, v) PROVE Cardinality(Places(lists, v)) = 0
  <2>1. Places(lists, v) = {}
    BY <1>1, <1>3 DEF OnList
  <2> QED  BY <2>1, FS_EmptySet
<1> QED  BY <1>2, <1>3

LEMMA AppendsAt ==
    ASSUME NEW lists, NEW after, NEW o, NEW v, Appends(lists, after, o, v)
    PROVE  \A p, i, w : At(after, p, i, w) <=>
               At(lists, p, i, w) \/ (p = o /\ i = Len(lists[o]) + 1 /\ w = v)
<1> DEFINE es == lists[o]
           fs == after[o]
<1>1. /\ DOMAIN fs = 1 .. Len(es) + 1 /\ Len(es) \in Nat /\ DOMAIN es = 1 .. Len(es)
      /\ fs[Len(es) + 1] = v /\ \A i \in DOMAIN es : fs[i] = es[i]
  BY DEF Appends, Longer, Sized
<1>2. \A i : i \in DOMAIN fs <=> i \in DOMAIN es \/ i = Len(es) + 1
  BY <1>1
<1>3. Len(es) + 1 \notin DOMAIN es
  BY <1>1
<1> SUFFICES ASSUME NEW p, NEW i, NEW w
             PROVE  At(after, p, i, w) <=>
                        At(lists, p, i, w) \/ (p = o /\ i = Len(lists[o]) + 1 /\ w = v)
  OBVIOUS
<1>4. CASE p = o
  <2>1. At(after, o, i, w) <=> i \in DOMAIN fs /\ fs[i] = w
    BY DEF At, Appends
  <2>2. At(lists, o, i, w) <=> i \in DOMAIN es /\ es[i] = w
    BY DEF At, Appends
  <2> HIDE DEF es, fs
  <2>3. i \in DOMAIN fs /\ fs[i] = w <=> (i \in DOMAIN es /\ es[i] = w) \/ (i = Len(es) + 1 /\ w = v)
    BY <1>1, <1>2, <1>3
  <2> QED  BY <1>4, <2>1, <2>2, <2>3 DEF es
<1>5. CASE p # o
  BY <1>5 DEF At, Appends
<1> QED  BY <1>4, <1>5

LEMMA AppendsOnce ==
    ASSUME NEW lists, NEW after, NEW o, NEW v, Appends(lists, after, o, v), Once(lists), ~OnList(lists, v)
    PROVE  Once(after) /\ \A w : OnList(after, w) <=> OnList(lists, w) \/ w = v
<1>1. \A p, i, w : At(after, p, i, w) <=>
          At(lists, p, i, w) \/ (p = o /\ i = Len(lists[o]) + 1 /\ w = v)
  BY AppendsAt
<1>2. \A p, i : ~At(lists, p, i, v)
  BY DEF OnList
<1>3. Once(after)
  BY <1>1, <1>2 DEF Once
<1>4. \A w : OnList(after, w) <=> OnList(lists, w) \/ w = v
  BY <1>1 DEF OnList
<1> QED  BY <1>3, <1>4

LEMMA AddsAt ==
    ASSUME NEW lists, NEW after, NEW o, NEW es, Adds(lists, after, o, es)
    PROVE  \A p, i, w : At(after, p, i, w) <=>
               At(lists, p, i, w) \/ (p = o /\ i \in DOMAIN es /\ es[i] = w)
  BY DEF Adds, At

LEMMA AddsOnce ==
    ASSUME NEW lists, NEW after, NEW o, NEW es, Adds(lists, after, o, es), Once(lists),
           \A i, j \in DOMAIN es : es[i] = es[j] => i = j,
           \A i \in DOMAIN es : ~OnList(lists, es[i])
    PROVE  Once(after) /\ \A w : OnList(after, w) <=> OnList(lists, w) \/ \E i \in DOMAIN es : es[i] = w
<1>1. \A p, i, w : At(after, p, i, w) <=>
          At(lists, p, i, w) \/ (p = o /\ i \in DOMAIN es /\ es[i] = w)
  BY AddsAt
<1>2. \A p, i : \A j \in DOMAIN es : ~At(lists, p, i, es[j])
  BY DEF OnList
<1>3. Once(after)
  BY <1>1, <1>2 DEF Once
<1>4. \A w : OnList(after, w) <=> OnList(lists, w) \/ \E i \in DOMAIN es : es[i] = w
  BY <1>1 DEF OnList
<1> QED  BY <1>3, <1>4

LEMMA AddsNone ==
    ASSUME NEW lists, NEW after, NEW o, Adds(lists, after, o, <<>>), Once(lists)
    PROVE  Once(after) /\ \A w : OnList(after, w) <=> OnList(lists, w)
<1> DEFINE es == <<>>
<1>1. Adds(lists, after, o, es) /\ DOMAIN es = {}
  OBVIOUS
<1> HIDE DEF es
<1>2. Once(after) /\ \A w : OnList(after, w) <=> OnList(lists, w) \/ \E i \in DOMAIN es : es[i] = w
  BY <1>1, AddsOnce
<1> QED  BY <1>1, <1>2

\* A variable is on a list of a block or a function, not on both, and those of
\* blocks are the locals.
VarsOwned ==
    /\ Once(BlockLists) /\ Once(ParamListsOf) /\ Once(LocalLists)
    /\ \A v : OnList(BlockLists, v) \/ OnList(ParamListsOf, v) <=> v \in DOMAIN varObjs
    /\ \A v : ~(OnList(BlockLists, v) /\ OnList(ParamListsOf, v))
    /\ \A v : OnList(LocalLists, v) <=> OnList(BlockLists, v)

LEMMA VarsOwnedOnce == ASSUME VarsOwned PROVE VariablesOwnedOnce
<1> SUFFICES ASSUME NEW v \in DOMAIN varObjs
             PROVE  /\ Cardinality(Places(BlockLists, v)) + Cardinality(Places(ParamListsOf, v)) = 1
                    /\ Cardinality(Places(LocalLists, v)) = Cardinality(Places(BlockLists, v))
  BY DEF VariablesOwnedOnce
<1>1. CASE OnList(BlockLists, v)
  <2>1. ~OnList(ParamListsOf, v) /\ OnList(LocalLists, v)
    BY <1>1 DEF VarsOwned
  <2>2. /\ Cardinality(Places(BlockLists, v)) = 1 /\ Cardinality(Places(LocalLists, v)) = 1
        /\ Cardinality(Places(ParamListsOf, v)) = 0
    BY <1>1, <2>1, CountPlaces DEF VarsOwned
  <2> QED  BY <2>2
<1>2. CASE ~OnList(BlockLists, v)
  <2>1. OnList(ParamListsOf, v) /\ ~OnList(LocalLists, v)
    BY <1>2 DEF VarsOwned
  <2>2. /\ Cardinality(Places(BlockLists, v)) = 0 /\ Cardinality(Places(LocalLists, v)) = 0
        /\ Cardinality(Places(ParamListsOf, v)) = 1
    BY <1>2, <2>1, CountPlaces DEF VarsOwned
  <2> QED  BY <2>2
<1> QED  BY <1>1, <1>2
LEMMA LocalsKeepVars ==
    ASSUME IInv, VarsOwned, Locals
    PROVE  VarsOwned'
<1> DEFINE v == Len(varObjs) + 1
<1>1. v \notin DOMAIN varObjs /\ \A w : w \in DOMAIN varObjs' <=> w \in DOMAIN varObjs \/ w = v
  <2>1. PICK w : Longer(varObjs, varObjs', w)
    BY DEF Locals
  <2> QED  BY <2>1 DEF Longer, Sized
<1>2. Appends(BlockLists, BlockLists', currentScope, v)
  <2>1. PICK ob : /\ Replaced(blockObjs, blockObjs', currentScope, ob)
                  /\ Longer(blockObjs[currentScope].variables, ob.variables, v)
    BY DEF Locals
  <2> QED  BY <2>1 DEF Appends, BlockLists, Replaced, Sized
<1>3. Appends(LocalLists, LocalLists', currentFunc, v) /\ ParamListsOf' = ParamListsOf
  <2>1. PICK ob : /\ Replaced(funcObjs, funcObjs', currentFunc, ob)
                  /\ ob.params = funcObjs[currentFunc].params
                  /\ Longer(funcObjs[currentFunc].locals, ob.locals, v)
    BY DEF Locals
  <2>2. DOMAIN funcObjs' = DOMAIN funcObjs /\ currentFunc \in DOMAIN funcObjs /\ funcObjs'[currentFunc] = ob
        /\ \A f \in DOMAIN funcObjs : f # currentFunc => funcObjs'[f] = funcObjs[f]
    BY <2>1 DEF Replaced, Sized
  <2>3. \A f \in DOMAIN funcObjs : funcObjs'[f].params = funcObjs[f].params
    BY <2>1, <2>2
  <2> QED  BY <2>1, <2>2, <2>3 DEF Appends, LocalLists, ParamListsOf
<1> HIDE DEF v
<1>4. ~OnList(BlockLists, v) /\ ~OnList(LocalLists, v) /\ ~OnList(ParamListsOf, v)
  BY <1>1 DEF VarsOwned
<1>5. /\ Once(BlockLists') /\ \A w : OnList(BlockLists', w) <=> OnList(BlockLists, w) \/ w = v
      /\ Once(LocalLists') /\ \A w : OnList(LocalLists', w) <=> OnList(LocalLists, w) \/ w = v
  BY <1>2, <1>3, <1>4, AppendsOnce DEF VarsOwned
<1>6. /\ Once(ParamListsOf') /\ \A w : OnList(ParamListsOf', w) <=> OnList(ParamListsOf, w)
  BY <1>3 DEF VarsOwned
<1> QED  BY <1>1, <1>4, <1>5, <1>6 DEF VarsOwned

LEMMA SameVars ==
    ASSUME VarsOwned, DOMAIN varObjs' = DOMAIN varObjs, BlockLists' = BlockLists,
           ParamListsOf' = ParamListsOf, LocalLists' = LocalLists
    PROVE  VarsOwned'
  BY Zenon DEF VarsOwned

LEMMA NextVars ==
    ASSUME IInv, Nested, Reduction, VarsOwned, [Next]_vars
    PROVE  VarsOwned'
<1>1. ASSUME UNCHANGED <<varObjs, blockObjs, funcObjs>>
      PROVE  VarsOwned'
  BY <1>1, SameVars DEF BlockLists, ParamListsOf, LocalLists
<1>2. ASSUME NEW n \in Names, NEW ps \in ParamLists, FunctionDeclaration(n, ps)
      PROVE  VarsOwned'
  <2>1. PICK ob : /\ Longer(funcObjs, funcObjs', ob) /\ ob.locals = <<>>
                  /\ Sized(ob.params) /\ Len(ob.params) = Len(ps)
                  /\ \A i \in DOMAIN ob.params : ob.params[i] = Len(varObjs) + i
    BY <1>2, DoesFunctionDeclaration
  <2>2. /\ Sized(varObjs) /\ Sized(varObjs') /\ Len(varObjs') = Len(varObjs) + Len(ps)
        /\ blockObjs' = blockObjs
    BY <1>2, DoesFunctionDeclaration, Sizes DEF FunctionDeclaration
  <2> DEFINE f == Len(funcObjs) + 1
             ids == ob.params
  <2>3. Adds(ParamListsOf, ParamListsOf', f, ids) /\ Adds(LocalLists, LocalLists', f, <<>>)
    BY <2>1 DEF Adds, ParamListsOf, LocalLists, Longer, Sized
  <2>4. BlockLists' = BlockLists
    BY <2>2 DEF BlockLists
  <2>5. \A w : w \in DOMAIN varObjs' <=> w \in DOMAIN varObjs \/ \E i \in DOMAIN ids : ids[i] = w
    <3> SUFFICES ASSUME NEW w
                 PROVE  w \in DOMAIN varObjs' <=> w \in DOMAIN varObjs \/ \E i \in DOMAIN ids : ids[i] = w
      OBVIOUS
    <3>1. ASSUME w \in DOMAIN varObjs', w \notin DOMAIN varObjs PROVE \E i \in DOMAIN ids : ids[i] = w
      <4>1. w - Len(varObjs) \in DOMAIN ids /\ w = Len(varObjs) + (w - Len(varObjs))
        BY <2>1, <2>2, <3>1 DEF Sized
      <4> QED  BY <2>1, <4>1
    <3>2. \A i \in DOMAIN ids : ids[i] \in DOMAIN varObjs'
      BY <2>1, <2>2 DEF Sized
    <3>3. w \in DOMAIN varObjs => w \in DOMAIN varObjs'
      BY <2>1, <2>2 DEF Sized
    <3> QED  BY <3>1, <3>2, <3>3
  <2>6. /\ \A i \in DOMAIN ids : ids[i] \notin DOMAIN varObjs
        /\ \A i, j \in DOMAIN ids : ids[i] = ids[j] => i = j
    BY <2>1, <2>2 DEF Sized
  <2> HIDE DEF f, ids
  <2>7. \A i \in DOMAIN ids : ~OnList(ParamListsOf, ids[i]) /\ ~OnList(BlockLists, ids[i])
    BY <2>6 DEF VarsOwned
  <2>8. /\ Once(ParamListsOf')
        /\ \A w : OnList(ParamListsOf', w) <=> OnList(ParamListsOf, w) \/ \E i \in DOMAIN ids : ids[i] = w
    BY <2>3, <2>6, <2>7, AddsOnce DEF VarsOwned
  <2>9. Once(LocalLists') /\ \A w : OnList(LocalLists', w) <=> OnList(LocalLists, w)
    BY <2>3, AddsNone DEF VarsOwned
  <2>10. Once(BlockLists') /\ \A w : OnList(BlockLists', w) <=> OnList(BlockLists, w)
    BY <2>4 DEF VarsOwned
  <2> QED  BY <2>5, <2>7, <2>8, <2>9, <2>10 DEF VarsOwned
<1>3. CASE FunctionDefinition
  <2>1. UNCHANGED <<varObjs, blockObjs>>
    BY <1>3 DEF FunctionDefinition
  <2> DEFINE f == stack[1].id
  <2>2. PICK ob : /\ Replaced(funcObjs, funcObjs', f, ob)
                  /\ ob.params = funcObjs[f].params /\ ob.locals = funcObjs[f].locals
    BY <1>3, DoesFunctionDefinition
  <2>3. /\ DOMAIN funcObjs' = DOMAIN funcObjs
        /\ \A g \in DOMAIN funcObjs : /\ funcObjs'[g].params = funcObjs[g].params
                                      /\ funcObjs'[g].locals = funcObjs[g].locals
    BY <2>2 DEF Replaced, Sized
  <2>4. ParamListsOf' = ParamListsOf /\ LocalLists' = LocalLists
    BY <2>3 DEF ParamListsOf, LocalLists
  <2> QED  BY <2>1, <2>4, SameVars DEF BlockLists
<1>4. CASE OpenBlock
  <2>1. UNCHANGED <<varObjs, funcObjs>>
    BY <1>4 DEF OpenBlock
  <2>2. PICK ob : Longer(blockObjs, blockObjs', ob) /\ ob.variables = <<>>
    BY <1>4, DoesOpenBlock
  <2>3. Adds(BlockLists, BlockLists', Len(blockObjs) + 1, <<>>)
    BY <2>2 DEF Adds, BlockLists, Longer, Sized
  <2>4. Once(BlockLists') /\ \A w : OnList(BlockLists', w) <=> OnList(BlockLists, w)
    BY <2>3, AddsNone DEF VarsOwned
  <2>5. ParamListsOf' = ParamListsOf /\ LocalLists' = LocalLists
    BY <2>1 DEF ParamListsOf, LocalLists
  <2> QED  BY Zenon, <2>1, <2>4, <2>5 DEF VarsOwned
<1>5. CASE BlockStatement
  <2>1. UNCHANGED <<varObjs, funcObjs>>
    BY <1>5 DEF BlockStatement
  <2> DEFINE b == Top.id
  <2>2. PICK ob : Replaced(blockObjs, blockObjs', b, ob) /\ ob.variables = blockObjs[b].variables
    BY <1>5, DoesBlockStatement
  <2>3. BlockLists' = BlockLists
    BY <2>2 DEF BlockLists, Replaced, Sized
  <2> QED  BY <2>1, <2>3, SameVars DEF ParamListsOf, LocalLists
<1>6. ASSUME NEW n \in Names, Declare(n) PROVE VarsOwned'
  BY <1>1, <1>6, DoesDeclare, LocalsKeepVars DEF Stop
<1>7. ASSUME NEW n \in Names, NEW e \in Exprs, DeclareInit(n, e) PROVE VarsOwned'
  <2>1. Locals \/ \E why \in {"aborted", "crashed"} : Stop(why)
    BY <1>7, DoesDeclareInit
  <2> QED  BY <1>1, <2>1, LocalsKeepVars DEF Stop
<1>8. ASSUME NEW e \in Exprs, ExprStatement(e) PROVE VarsOwned'
  BY <1>1, <1>8, DoesExprStatement DEF Stop
<1>9. ASSUME NEW kind \in {"if", "while"}, NEW e \in Exprs, BeginControl(kind, e) PROVE VarsOwned'
  BY <1>1, <1>9, DoesBeginControl DEF Stop
<1>10. CASE FunctionPrototype \/ CloseBlock \/ EndDeclaration \/ Else \/ EndControl
  BY <1>1, <1>10 DEF FunctionPrototype, CloseBlock, EndDeclaration, Else, EndControl
<1>11. CASE \E type \in DeclTypes : BeginDeclaration(type)
  BY <1>1, <1>11 DEF BeginDeclaration
<1>12. CASE Accept \/ SyntaxError \/ UNCHANGED vars
  BY <1>1, <1>12 DEF Accept, SyntaxError, Stop, vars
<1> QED
  BY <1>2, <1>3, <1>4, <1>5, <1>6, <1>7, <1>8, <1>9, <1>10, <1>11, <1>12 DEF Next
(***************************************************************************)
(* The holders of the nodes.                                               *)
(***************************************************************************)
\* What a pointer holds that points to no node.
Blank == {NoNode, BlockNode(Null)}

\* Each node of N has one holder in H, and nothing else is held.
Owned(H, N) ==
    /\ \A nd \in N : \E h \in H : h[3] = nd /\ \A g \in H : g[3] = nd => g = h
    /\ \A h \in H : h[3] \in N \cup Blank

\* The same holders of nodes.
Alike(H, G) == \A h : h[3] \notin Blank => (h \in H <=> h \in G)

LEMMA MoveOne ==
    ASSUME NEW H, NEW N, Owned(H, N), NEW a \in H, NEW b, b[3] = a[3]
    PROVE  Owned((H \ {a}) \cup {b}, N)
<1> DEFINE G == (H \ {a}) \cup {b}
<1>1. \A h : h \in G <=> (h \in H /\ h # a) \/ h = b
  OBVIOUS
<1> HIDE DEF G
<1>2. ASSUME NEW nd \in N
      PROVE  \E h \in G : h[3] = nd /\ \A g \in G : g[3] = nd => g = h
  <2>1. PICK h \in H : h[3] = nd /\ \A g \in H : g[3] = nd => g = h
    BY DEF Owned
  <2>2. CASE h = a
    BY <1>1, <2>1, <2>2
  <2>3. CASE h # a
    BY <1>1, <2>1, <2>3
  <2> QED  BY <2>2, <2>3
<1>3. \A h \in G : h[3] \in N \cup Blank
  BY <1>1 DEF Owned
<1>4. Owned(G, N)
  BY <1>2, <1>3 DEF Owned
<1> QED  BY <1>4 DEF G

LEMMA AddOne ==
    ASSUME NEW H, NEW N, Owned(H, N), NEW b, b[3] \notin N \cup Blank
    PROVE  Owned(H \cup {b}, N \cup {b[3]})
<1> DEFINE G == H \cup {b}
           M == N \cup {b[3]}
<1>1. /\ \A h : h \in G <=> h \in H \/ h = b
      /\ \A nd : nd \in M <=> nd \in N \/ nd = b[3]
  OBVIOUS
<1>2. \A h \in H : h[3] # b[3]
  BY DEF Owned
<1> HIDE DEF G, M
<1>3. ASSUME NEW nd \in M
      PROVE  \E h \in G : h[3] = nd /\ \A g \in G : g[3] = nd => g = h
  <2>1. CASE nd = b[3]
    BY <1>1, <1>2, <2>1
  <2>2. CASE nd # b[3]
    <3>1. PICK h \in H : h[3] = nd /\ \A g \in H : g[3] = nd => g = h
      BY <1>1, <2>2 DEF Owned
    <3> QED  BY <1>1, <2>2, <3>1
  <2> QED  BY <2>1, <2>2
<1>4. \A h \in G : h[3] \in M \cup Blank
  BY <1>1 DEF Owned
<1>5. Owned(G, M)
  BY <1>3, <1>4 DEF Owned
<1> QED  BY <1>5 DEF G, M

LEMMA AlikeOwned ==
    ASSUME NEW H, NEW G, NEW N, Owned(H, N), Alike(G, H), N \cap Blank = {}
    PROVE  Owned(G, N)
<1>1. ASSUME NEW nd \in N
      PROVE  \E h \in G : h[3] = nd /\ \A g \in G : g[3] = nd => g = h
  <2>1. PICK h \in H : h[3] = nd /\ \A g \in H : g[3] = nd => g = h
    BY DEF Owned
  <2>2. \A g : g[3] = nd => (g \in G <=> g \in H)
    BY DEF Alike
  <2> QED  BY <2>1, <2>2
<1>2. \A h \in G : h[3] \in N \cup Blank
  BY DEF Alike, Owned
<1> QED  BY <1>1, <1>2 DEF Owned

LEMMA OwnedOnceNodes == ASSUME Owned(Holdings, Nodes) PROVE NodesOwnedOnce
<1> SUFFICES ASSUME NEW nd \in Nodes PROVE Cardinality({h \in Holdings : h[3] = nd}) = 1
  BY DEF NodesOwnedOnce
<1>1. PICK h \in Holdings : h[3] = nd /\ \A g \in Holdings : g[3] = nd => g = h
  BY DEF Owned
<1>2. {g \in Holdings : g[3] = nd} = {h}
  BY <1>1
<1> QED  BY <1>2, FS_Singleton

\* Each sort of holder has its mark.
LEMMA Marks ==
    \A h : /\ h \in InEntries => h[1] = "entry"
           /\ h \in InBodies => h[1] = "body"
           /\ h \in InAlts => h[1] = "alt"
           /\ h \in InFuncs => h[1] = "func"
           /\ h \in StillOpen => h[1] = "open"
           /\ h \in InBranches => h[1] = "branch"
           /\ h \in Pending => h[1] = "result"
<1> TAKE h
<1>1. h \in InEntries => h[1] = "entry"
  BY DEF InEntries
<1>2. (h \in InBodies => h[1] = "body") /\ (h \in InAlts => h[1] = "alt")
  BY DEF InBodies, InAlts
<1>3. (h \in InFuncs => h[1] = "func") /\ (h \in StillOpen => h[1] = "open")
  BY DEF InFuncs, StillOpen
<1>4. (h \in InBranches => h[1] = "branch") /\ (h \in Pending => h[1] = "result")
  BY DEF InBranches, Pending
<1> QED  BY <1>1, <1>2, <1>3, <1>4

\* The pointers of frames, statements, functions and blocks.
Open(i, id) == <<"open", i, BlockNode(id)>>
Branch(i, nd) == <<"branch", i, nd>>
Body(s, nd) == <<"body", s, nd>>
Alt(s, nd) == <<"alt", s, nd>>
Entry(b, i, s) == <<"entry", <<b, i>>, StmtNode(s)>>
OfFunc(f, id) == <<"func", f, BlockNode(id)>>
Result(nd) == <<"result", 0, nd>>

LEMMA PushHolds ==
    ASSUME NEW fr, Longer(stack, stack', fr), fr.body = NoNode
    PROVE  /\ Alike(InBranches', InBranches)
           /\ fr.kind # "block" => StillOpen' = StillOpen
           /\ fr.kind = "block" => StillOpen' = StillOpen \cup {Open(Len(stack) + 1, fr.id)}
<1>1. \A i : i \in DOMAIN stack' <=> i \in DOMAIN stack \/ i = Len(stack) + 1
  BY DEF Longer, Sized
<1>2. stack'[Len(stack) + 1] = fr /\ Len(stack) + 1 \notin DOMAIN stack /\ \A i \in DOMAIN stack : stack'[i] = stack[i]
  BY DEF Longer, Sized
<1>3. Alike(InBranches', InBranches)
  BY <1>1, <1>2 DEF Alike, InBranches, Blank
<1>4. \A h : h \in StillOpen' <=> h \in StillOpen \/ (fr.kind = "block" /\ h = Open(Len(stack) + 1, fr.id))
  BY <1>1, <1>2 DEF StillOpen, IsBlockFrame, Open
<1> QED  BY <1>3, <1>4

LEMMA PopHolds ==
    ASSUME Shorter(stack, stack')
    PROVE  /\ InBranches' = InBranches \ {Branch(Len(stack), Top.body)}
           /\ Top.kind # "block" => StillOpen' = StillOpen
           /\ Top.kind = "block" => StillOpen' = StillOpen \ {Open(Len(stack), Top.id)}
<1>1. \A i : i \in DOMAIN stack <=> i \in DOMAIN stack' \/ i = Len(stack)
  BY DEF Shorter, Sized
<1>2. stack[Len(stack)] = Top /\ Len(stack) \notin DOMAIN stack' /\ \A i \in DOMAIN stack' : stack'[i] = stack[i]
  BY DEF Shorter, Sized, Top
<1>3. \A h : h \in InBranches' <=> h \in InBranches /\ h # Branch(Len(stack), Top.body)
  BY <1>1, <1>2 DEF InBranches, Branch
<1>4. \A h : h \in StillOpen' <=> h \in StillOpen /\ ~(Top.kind = "block" /\ h = Open(Len(stack), Top.id))
  BY <1>1, <1>2 DEF StillOpen, IsBlockFrame, Open
<1> QED  BY <1>3, <1>4

LEMMA TopHolds ==
    ASSUME NEW fr, Replaced(stack, stack', Len(stack), fr), Top.kind # "block", fr.kind # "block"
    PROVE  /\ StillOpen' = StillOpen
           /\ fr.body = Top.body => InBranches' = InBranches
           /\ Top.body = NoNode => Alike(InBranches', InBranches \cup {Branch(Len(stack), fr.body)})
<1>1. /\ DOMAIN stack' = DOMAIN stack /\ Len(stack) \in DOMAIN stack
      /\ stack[Len(stack)] = Top /\ stack'[Len(stack)] = fr
      /\ \A i \in DOMAIN stack : i # Len(stack) => stack'[i] = stack[i]
  BY DEF Replaced, Sized, Top
<1>2. \A h : h \in StillOpen' <=> h \in StillOpen
  BY <1>1 DEF StillOpen, IsBlockFrame
<1>3. fr.body = Top.body => \A h : h \in InBranches' <=> h \in InBranches
  BY <1>1 DEF InBranches
<1>4. \A h : h \in InBranches' <=> (h \in InBranches /\ h # Branch(Len(stack), Top.body)) \/ h = Branch(Len(stack), fr.body)
  BY <1>1 DEF InBranches, Branch
<1>5. Top.body = NoNode => Alike(InBranches', InBranches \cup {Branch(Len(stack), fr.body)})
  BY <1>4 DEF Alike, Branch, Blank
<1> QED  BY <1>2, <1>3, <1>5

LEMMA StmtHolds ==
    ASSUME NEW st, Longer(stmtObjs, stmtObjs', st)
    PROVE  /\ InBodies' = InBodies \cup {Body(Len(stmtObjs) + 1, st.body)}
           /\ InAlts' = InAlts \cup {Alt(Len(stmtObjs) + 1, st.alt)}
<1>1. \A s : s \in DOMAIN stmtObjs' <=> s \in DOMAIN stmtObjs \/ s = Len(stmtObjs) + 1
  BY DEF Longer, Sized
<1>2. stmtObjs'[Len(stmtObjs) + 1] = st /\ \A s \in DOMAIN stmtObjs : stmtObjs'[s] = stmtObjs[s]
  BY DEF Longer, Sized
<1>3. \A h : h \in InBodies' <=> h \in InBodies \/ h = Body(Len(stmtObjs) + 1, st.body)
  BY <1>1, <1>2 DEF InBodies, Body
<1>4. \A h : h \in InAlts' <=> h \in InAlts \/ h = Alt(Len(stmtObjs) + 1, st.alt)
  BY <1>1, <1>2 DEF InAlts, Alt
<1> QED  BY <1>3, <1>4

LEMMA EntriesHold ==
    ASSUME NEW b \in DOMAIN blockObjs, NEW ob, Replaced(blockObjs, blockObjs', b, ob), NEW s
    PROVE  /\ ob.entries = blockObjs[b].entries => InEntries' = InEntries
           /\ Longer(blockObjs[b].entries, ob.entries, s) =>
                  InEntries' = InEntries \cup {Entry(b, Len(blockObjs[b].entries) + 1, s)}
<1>1. /\ DOMAIN blockObjs' = DOMAIN blockObjs /\ blockObjs'[b] = ob
      /\ \A c \in DOMAIN blockObjs : c # b => blockObjs'[c] = blockObjs[c]
  BY DEF Replaced, Sized
<1>2. ASSUME ob.entries = blockObjs[b].entries PROVE InEntries' = InEntries
  <2>1. \A c \in DOMAIN blockObjs : blockObjs'[c].entries = blockObjs[c].entries
    BY <1>1, <1>2
  <2> QED  BY <1>1, <2>1 DEF InEntries
<1>3. ASSUME Longer(blockObjs[b].entries, ob.entries, s)
      PROVE  InEntries' = InEntries \cup {Entry(b, Len(blockObjs[b].entries) + 1, s)}
  <2> DEFINE k == Len(blockObjs[b].entries) + 1
  <2>1. /\ \A i : i \in DOMAIN ob.entries <=> i \in DOMAIN blockObjs[b].entries \/ i = k
        /\ ob.entries[k] = s /\ \A i \in DOMAIN blockObjs[b].entries : ob.entries[i] = blockObjs[b].entries[i]
    BY <1>3 DEF Longer, Sized
  <2> HIDE DEF k
  <2>2. \A c : c \in DOMAIN blockObjs' =>
            \A i : /\ i \in DOMAIN blockObjs'[c].entries <=> i \in DOMAIN blockObjs[c].entries \/ (c = b /\ i = k)
                   /\ i \in DOMAIN blockObjs[c].entries => blockObjs'[c].entries[i] = blockObjs[c].entries[i]
    BY <1>1, <2>1
  <2>3. \A h : h \in InEntries <=> \E c \in DOMAIN blockObjs : \E i \in DOMAIN blockObjs[c].entries :
                                       h = Entry(c, i, blockObjs[c].entries[i])
    BY DEF InEntries, Entry
  <2>4. \A h : h \in InEntries' <=> \E c \in DOMAIN blockObjs' : \E i \in DOMAIN blockObjs'[c].entries :
                                       h = Entry(c, i, blockObjs'[c].entries[i])
    BY DEF InEntries, Entry
  <2>5. blockObjs'[b].entries[k] = s /\ b \in DOMAIN blockObjs'
    BY <1>1, <2>1
  <2>6. \A h : h \in InEntries' <=> h \in InEntries \/ h = Entry(b, k, s)
    BY <1>1, <2>2, <2>3, <2>4, <2>5
  <2> QED  BY <2>6 DEF k
<1> QED  BY <1>2, <1>3
LEMMA FuncsHold ==
    ASSUME NEW f \in DOMAIN funcObjs, NEW ob, Replaced(funcObjs, funcObjs', f, ob)
    PROVE  /\ ob.block = funcObjs[f].block => InFuncs' = InFuncs
           /\ funcObjs[f].block = Null => Alike(InFuncs', InFuncs \cup {OfFunc(f, ob.block)})
<1>1. /\ DOMAIN funcObjs' = DOMAIN funcObjs /\ funcObjs'[f] = ob
      /\ \A g \in DOMAIN funcObjs : g # f => funcObjs'[g] = funcObjs[g]
  BY DEF Replaced, Sized
<1>2. ob.block = funcObjs[f].block => \A h : h \in InFuncs' <=> h \in InFuncs
  BY <1>1 DEF InFuncs
<1>3. \A h : h \in InFuncs' <=> (h \in InFuncs /\ h # OfFunc(f, funcObjs[f].block)) \/ h = OfFunc(f, ob.block)
  BY <1>1 DEF InFuncs, OfFunc
<1>4. funcObjs[f].block = Null => Alike(InFuncs', InFuncs \cup {OfFunc(f, ob.block)})
  BY <1>3 DEF Alike, Blank, OfFunc
<1> QED  BY <1>2, <1>4

LEMMA NewFuncHolds ==
    ASSUME NEW ob, Longer(funcObjs, funcObjs', ob), ob.block = Null
    PROVE  Alike(InFuncs', InFuncs)
<1>1. /\ \A f : f \in DOMAIN funcObjs' <=> f \in DOMAIN funcObjs \/ f = Len(funcObjs) + 1
      /\ funcObjs'[Len(funcObjs) + 1] = ob /\ \A f \in DOMAIN funcObjs : funcObjs'[f] = funcObjs[f]
  BY DEF Longer, Sized
<1> QED  BY <1>1 DEF Alike, InFuncs, Blank

LEMMA NewBlockHolds ==
    ASSUME NEW ob, Longer(blockObjs, blockObjs', ob), ob.entries = <<>>
    PROVE  InEntries' = InEntries
<1>1. /\ \A b : b \in DOMAIN blockObjs' <=> b \in DOMAIN blockObjs \/ b = Len(blockObjs) + 1
      /\ blockObjs'[Len(blockObjs) + 1] = ob /\ \A b \in DOMAIN blockObjs : blockObjs'[b] = blockObjs[b]
      /\ Len(blockObjs) + 1 \notin DOMAIN blockObjs
  BY DEF Longer, Sized
<1>2. DOMAIN ob.entries = {}
  OBVIOUS
<1>3. \A h : h \in InEntries' <=> h \in InEntries
  BY <1>1, <1>2 DEF InEntries
<1> QED  BY <1>3

\* Heaps that do not change hold what they held.
LEMMA SameHold ==
    /\ blockObjs' = blockObjs => InEntries' = InEntries
    /\ stmtObjs' = stmtObjs => InBodies' = InBodies /\ InAlts' = InAlts
    /\ funcObjs' = funcObjs => InFuncs' = InFuncs
    /\ stack' = stack => StillOpen' = StillOpen /\ InBranches' = InBranches
    /\ result' = result => Pending' = Pending
  BY DEF InEntries, InBodies, InAlts, InFuncs, StillOpen, InBranches, IsBlockFrame, Pending

\* A node that points to none adds no holder.
LEMMA BlankStmtHolds ==
    ASSUME NEW st, Longer(stmtObjs, stmtObjs', st), st.body = NoNode, st.alt = NoNode
    PROVE  Alike(InBodies', InBodies) /\ Alike(InAlts', InAlts)
  BY StmtHolds DEF Alike, Blank, Body, Alt

LEMMA BlankResult ==
    /\ result = NoNode => \A h \in Pending : h[3] \in Blank
    /\ \A h : h \in Pending <=> h = Result(result)
  BY DEF Pending, Result, Blank

LEMMA SameAlike == \A H : Alike(H, H)
  BY DEF Alike

\* Statements, blocks and what points to neither are told apart.
LEMMA NodesApart ==
    /\ \A r, s : StmtNode(r) = StmtNode(s) => r = s
    /\ \A r, s : BlockNode(r) = BlockNode(s) => r = s
    /\ \A r, s : StmtNode(r) # BlockNode(s)
    /\ \A r : StmtNode(r) # NoNode /\ BlockNode(r) # NoNode
<1>1. ASSUME NEW r, NEW s, StmtNode(r) = StmtNode(s) PROVE r = s
  <2>1. StmtNode(r).id = r /\ StmtNode(s).id = s
    BY DEF StmtNode
  <2> QED  BY <1>1, <2>1
<1>2. ASSUME NEW r, NEW s, BlockNode(r) = BlockNode(s) PROVE r = s
  <2>1. BlockNode(r).id = r /\ BlockNode(s).id = s
    BY DEF BlockNode
  <2> QED  BY <1>2, <2>1
<1>3. \A r : StmtNode(r).t = "stmt" /\ BlockNode(r).t = "block" /\ NoNode.t = "none"
  BY DEF StmtNode, BlockNode, NoNode
<1> QED  BY <1>1, <1>2, <1>3

\* No node is blank, and the nodes made next are new.
LEMMA NodesHeld ==
    ASSUME IInv
    PROVE  /\ Nodes \cap Blank = {}
           /\ StmtNode(Len(stmtObjs) + 1) \notin Nodes \cup Blank
           /\ BlockNode(Len(blockObjs) + 1) \notin Nodes \cup Blank
<1>1. /\ DOMAIN stmtObjs = 1 .. Len(stmtObjs) /\ Len(stmtObjs) \in Nat
      /\ DOMAIN blockObjs = 1 .. Len(blockObjs) /\ Len(blockObjs) \in Nat
  BY Sizes DEF Sized
<1>2. /\ Null \notin DOMAIN blockObjs /\ Len(blockObjs) + 1 # Null
      /\ Len(stmtObjs) + 1 \notin DOMAIN stmtObjs /\ Len(blockObjs) + 1 \notin DOMAIN blockObjs
  BY <1>1 DEF Null
<1>3. \A nd : nd \in Nodes <=> \/ \E s \in DOMAIN stmtObjs : nd = StmtNode(s)
                             \/ \E b \in DOMAIN blockObjs : nd = BlockNode(b)
  BY DEF Nodes
<1>4. \A nd : nd \in Blank <=> nd = NoNode \/ nd = BlockNode(Null)
  BY DEF Blank
<1>5. \A nd \in Nodes : nd \notin Blank
  BY <1>2, <1>3, <1>4, NodesApart
<1>6. StmtNode(Len(stmtObjs) + 1) \notin Nodes /\ StmtNode(Len(stmtObjs) + 1) \notin Blank
  BY <1>2, <1>3, <1>4, NodesApart
<1>7. BlockNode(Len(blockObjs) + 1) \notin Nodes /\ BlockNode(Len(blockObjs) + 1) \notin Blank
  BY <1>2, <1>3, <1>4, NodesApart
<1> QED  BY <1>5, <1>6, <1>7

\* The nodes after a statement or a block is made.
LEMMA NewNodes ==
    /\ \A st : Longer(stmtObjs, stmtObjs', st) /\ blockObjs' = blockObjs =>
           Nodes' = Nodes \cup {StmtNode(Len(stmtObjs) + 1)}
    /\ \A ob : Longer(blockObjs, blockObjs', ob) /\ stmtObjs' = stmtObjs =>
           Nodes' = Nodes \cup {BlockNode(Len(blockObjs) + 1)}
    /\ DOMAIN stmtObjs' = DOMAIN stmtObjs /\ DOMAIN blockObjs' = DOMAIN blockObjs => Nodes' = Nodes
<1>1. ASSUME NEW st, Longer(stmtObjs, stmtObjs', st), blockObjs' = blockObjs
      PROVE  Nodes' = Nodes \cup {StmtNode(Len(stmtObjs) + 1)}
  <2>1. \A s : s \in DOMAIN stmtObjs' <=> s \in DOMAIN stmtObjs \/ s = Len(stmtObjs) + 1
    BY <1>1 DEF Longer, Sized
  <2> QED  BY <1>1, <2>1 DEF Nodes
<1>2. ASSUME NEW ob, Longer(blockObjs, blockObjs', ob), stmtObjs' = stmtObjs
      PROVE  Nodes' = Nodes \cup {BlockNode(Len(blockObjs) + 1)}
  <2>1. \A s : s \in DOMAIN blockObjs' <=> s \in DOMAIN blockObjs \/ s = Len(blockObjs) + 1
    BY <1>2 DEF Longer, Sized
  <2> QED  BY <1>2, <2>1 DEF Nodes
<1>3. ASSUME DOMAIN stmtObjs' = DOMAIN stmtObjs, DOMAIN blockObjs' = DOMAIN blockObjs
      PROVE  Nodes' = Nodes
  BY <1>3 DEF Nodes
<1> QED  BY <1>1, <1>2, <1>3
(***************************************************************************)
(* Each step leaves the holders alike, moves one, or makes one.            *)
(***************************************************************************)
\* A function under definition has no block yet.
Bodiless == status = "parsing" /\ currentFunc # Null => funcObjs[currentFunc].block = Null

NodesOwned == Owned(Holdings, Nodes) /\ Bodiless

\* h is held, by the sort of holder.
LEMMA HeldBy ==
    \A h : h \in Holdings <=> \/ h \in InEntries \/ h \in InBodies \/ h \in InAlts \/ h \in InFuncs
                              \/ h \in StillOpen \/ h \in InBranches \/ h \in Pending
  BY DEF Holdings

LEMMA AlikeHoldings ==
    ASSUME Alike(InEntries', InEntries), Alike(InBodies', InBodies), Alike(InAlts', InAlts),
           Alike(InFuncs', InFuncs), Alike(StillOpen', StillOpen),
           Alike(InBranches', InBranches), Alike(Pending', Pending)
    PROVE  Alike(Holdings', Holdings)
<1>1. \A h : h \in Holdings' <=> \/ h \in InEntries' \/ h \in InBodies' \/ h \in InAlts' \/ h \in InFuncs'
                                 \/ h \in StillOpen' \/ h \in InBranches' \/ h \in Pending'
  BY DEF Holdings
<1> QED  BY <1>1, HeldBy DEF Alike

\* The holders after a step that makes no node.
LEMMA HeldAlike ==
    ASSUME IInv, Owned(Holdings, Nodes), Nodes' = Nodes, Alike(Holdings', Holdings)
    PROVE  Owned(Holdings, Nodes)'
<1>1. Owned(Holdings', Nodes)
  BY NodesHeld, AlikeOwned
<1> QED  BY <1>1

LEMMA HeldMoved ==
    ASSUME IInv, Owned(Holdings, Nodes), Nodes' = Nodes, NEW a \in Holdings, NEW b, b[3] = a[3],
           Alike(Holdings', (Holdings \ {a}) \cup {b})
    PROVE  Owned(Holdings, Nodes)'
<1> DEFINE H == (Holdings \ {a}) \cup {b}
<1>1. Owned(H, Nodes)
  BY MoveOne
<1>2. Alike(Holdings', H)
  OBVIOUS
<1> HIDE DEF H
<1>3. Owned(Holdings', Nodes)
  BY <1>1, <1>2, NodesHeld, AlikeOwned
<1> QED  BY <1>3

\* The holders after a step that makes node b[3], from the holders H.
LEMMA HeldMade ==
    ASSUME IInv, NEW H, Owned(H, Nodes), NEW b, b[3] \notin Nodes \cup Blank,
           Nodes' = Nodes \cup {b[3]}, Alike(Holdings', H \cup {b})
    PROVE  Owned(Holdings, Nodes)'
<1> DEFINE G == H \cup {b}
<1>1. Owned(G, Nodes')
  BY AddOne
<1>2. Alike(Holdings', G)
  OBVIOUS
<1>3. Nodes' \cap Blank = {}
  BY NodesHeld
<1> HIDE DEF G
<1>4. Owned(Holdings', Nodes')
  BY <1>1, <1>2, <1>3, AlikeOwned
<1> QED  BY <1>4

\* Adding a local changes no holder but the entries of its block.
LEMMA LocalsHold ==
    ASSUME IInv, Locals
    PROVE  /\ InFuncs' = InFuncs /\ DOMAIN blockObjs' = DOMAIN blockObjs
           /\ blockObjs'[currentScope].entries = blockObjs[currentScope].entries => InEntries' = InEntries
           /\ \A s : Longer(blockObjs[currentScope].entries, blockObjs'[currentScope].entries, s) =>
                 InEntries' = InEntries
                    \cup {Entry(currentScope, Len(blockObjs[currentScope].entries) + 1, s)}
<1>1. PICK ob : Replaced(funcObjs, funcObjs', currentFunc, ob) /\ ob.block = funcObjs[currentFunc].block
  BY DEF Locals
<1>2. InFuncs' = InFuncs
  BY <1>1, FuncsHold DEF Locals
<1>3. PICK bb : Replaced(blockObjs, blockObjs', currentScope, bb)
  BY DEF Locals
<1>4. bb = blockObjs'[currentScope] /\ DOMAIN blockObjs' = DOMAIN blockObjs
  BY <1>3 DEF Replaced, Sized
<1>5. bb.entries = blockObjs[currentScope].entries => InEntries' = InEntries
  BY <1>3, EntriesHold DEF Locals
<1>6. \A s : Longer(blockObjs[currentScope].entries, bb.entries, s) =>
         InEntries' = InEntries \cup {Entry(currentScope, Len(blockObjs[currentScope].entries) + 1, s)}
  BY <1>3, EntriesHold DEF Locals
<1> QED  BY <1>2, <1>4, <1>5, <1>6

LEMMA NotedHolds ==
    ASSUME Noted, Top.kind # "block"
    PROVE  StillOpen' = StillOpen /\ InBranches' = InBranches
  BY TopHolds DEF Noted
LEMMA OpenBlockHolds ==
    ASSUME IInv, Owned(Holdings, Nodes), OpenBlock
    PROVE  Owned(Holdings, Nodes)'
<1>1. PICK fr : /\ Longer(stack, stack', fr) /\ fr.kind = "block" /\ fr.body = NoNode
                /\ fr.id = Len(blockObjs) + 1
  BY DoesOpenBlock
<1>2. PICK ob : Longer(blockObjs, blockObjs', ob) /\ ob.entries = <<>>
  BY DoesOpenBlock
<1>3. UNCHANGED <<stmtObjs, funcObjs, result>>
  BY DEF OpenBlock
<1> DEFINE b == Open(Len(stack) + 1, Len(blockObjs) + 1)
<1>4. b[3] = BlockNode(Len(blockObjs) + 1)
  BY DEF Open
<1> HIDE DEF b
<1>5. /\ InEntries' = InEntries /\ Alike(InBranches', InBranches) /\ StillOpen' = StillOpen \cup {b}
      /\ InBodies' = InBodies /\ InAlts' = InAlts /\ InFuncs' = InFuncs /\ Pending' = Pending
  BY <1>1, <1>2, <1>3, NewBlockHolds, PushHolds, SameHold DEF b
<1>6. Alike(Holdings', Holdings \cup {b})
  <2>1. \A h : h \in Holdings' <=> \/ h \in InEntries \/ h \in InBodies \/ h \in InAlts \/ h \in InFuncs
                                   \/ h \in StillOpen \/ h = b \/ h \in InBranches' \/ h \in Pending
    BY <1>5 DEF Holdings
  <2> QED  BY <1>5, <2>1, HeldBy DEF Alike
<1>7. Nodes' = Nodes \cup {b[3]} /\ b[3] \notin Nodes \cup Blank
  BY <1>2, <1>3, <1>4, NewNodes, NodesHeld
<1> QED  BY <1>6, <1>7, HeldMade

LEMMA CloseBlockHolds ==
    ASSUME IInv, Nested, Owned(Holdings, Nodes), CloseBlock
    PROVE  Owned(Holdings, Nodes)'
<1>1. /\ status = "parsing" /\ stack # <<>> /\ Top.kind = "block" /\ result = NoNode
      /\ stack' = Pop /\ result' = BlockNode(Top.id) /\ UNCHANGED <<stmtObjs, blockObjs, funcObjs>>
  BY DEF CloseBlock, Awaiting, BlockNode
<1>2. Shorter(stack, stack')
  BY <1>1, PopDoes
<1>3. Len(stack) \in DOMAIN stack /\ Top.body = NoNode
  BY <1>1, Sizes DEF Nested, Top
<1> DEFINE a == Open(Len(stack), Top.id)
           b == Result(BlockNode(Top.id))
           n == Branch(Len(stack), Top.body)
<1>4. a[3] = BlockNode(Top.id) /\ b[3] = BlockNode(Top.id) /\ a[1] = "open" /\ n[3] \in Blank
  BY <1>3 DEF Open, Result, Branch, Blank
<1>5. a \in StillOpen
  BY <1>1, <1>3 DEF StillOpen, Open, IsBlockFrame, Top
<1>6. \A h : h \in Pending' <=> h = b
  BY <1>1 DEF Pending, Result
<1>7. \A h \in Pending : h[3] \in Blank
  BY <1>1, BlankResult
<1>8. InBranches' = InBranches \ {n} /\ StillOpen' = StillOpen \ {a}
  BY <1>1, <1>2, PopHolds
<1> HIDE DEF a, b, n
<1>9. InEntries' = InEntries /\ InBodies' = InBodies /\ InAlts' = InAlts /\ InFuncs' = InFuncs /\ Nodes' = Nodes
  BY <1>1, SameHold, NewNodes
<1>10. Alike(Holdings', (Holdings \ {a}) \cup {b})
  <2>1. \A h : /\ h \in InBranches' <=> h \in InBranches /\ h # n
               /\ h \in StillOpen' <=> h \in StillOpen /\ h # a
    BY <1>8
  <2>2. \A h : h \in Holdings' <=> \/ h \in InEntries \/ h \in InBodies \/ h \in InAlts \/ h \in InFuncs
                                   \/ h \in StillOpen' \/ h \in InBranches' \/ h \in Pending'
    BY <1>9 DEF Holdings
  <2>3. \A h : h[3] \notin Blank => (h \in Holdings' <=> (h \in Holdings /\ h # a) \/ h = b)
    BY <1>4, <1>6, <1>7, <2>1, <2>2, HeldBy, Marks
  <2> QED  BY <2>3 DEF Alike
<1>11. a \in Holdings
  BY <1>5, HeldBy
<1> QED  BY <1>4, <1>9, <1>10, <1>11, HeldMoved

LEMMA FunctionDefinitionHolds ==
    ASSUME IInv, Nested, NodesOwned, FunctionDefinition
    PROVE  Owned(Holdings, Nodes)'
<1>1. /\ status = "parsing" /\ stack # <<>> /\ Top.kind = "block" /\ result = NoNode
      /\ UNCHANGED <<stmtObjs, blockObjs, result>>
  BY DEF FunctionDefinition, Awaiting
<1>2. /\ DOMAIN stack = {1, 2} /\ stack[2] = Top /\ DOMAIN stack' = {}
  BY DoesFunctionDefinition
<1> DEFINE f == stack[1].id
           a == Open(2, Top.id)
           b == OfFunc(f, Top.id)
<1>3. PICK ob : Replaced(funcObjs, funcObjs', f, ob) /\ ob.block = Top.id
  BY DoesFunctionDefinition
<1>4. f \in DOMAIN funcObjs /\ f = currentFunc /\ currentFunc # Null
  <2>1. f \in DOMAIN funcObjs
    BY <1>1, AtBlock
  <2>2. f = currentFunc
    BY <1>1 DEF IInv, Chain, ScopeChain
  <2> QED  BY <2>1, <2>2, Sizes DEF Sized, Null
<1>5. Alike(InFuncs', InFuncs \cup {b})
  BY <1>1, <1>3, <1>4, FuncsHold DEF NodesOwned, Bodiless
<1>6. a[3] = BlockNode(Top.id) /\ b[3] = BlockNode(Top.id) /\ a[1] = "open"
  BY DEF Open, OfFunc
<1>7. \A h : h \in StillOpen <=> h = a
  <2>1. stack[1].kind # "block" /\ stack[2].kind = "block"
    BY <1>1, <1>2 DEF IInv, Chain, FrameShape
  <2> QED  BY <1>2, <2>1 DEF StillOpen, IsBlockFrame, Open
<1>8. \A h : h \in InBranches => h[3] \in Blank
  <2>1. \A i \in DOMAIN stack : stack[i].body = NoNode
    <3>1. stack[1].kind = "function" /\ stack[2].kind = "block"
      BY <1>1, <1>2 DEF IInv, Chain, FrameShape
    <3> QED  BY <1>1, <1>2, <3>1 DEF Nested
  <2> QED  BY <2>1 DEF InBranches, Blank
<1>9. StillOpen' = {} /\ InBranches' = {}
  BY <1>2 DEF StillOpen, InBranches
<1>10. InEntries' = InEntries /\ InBodies' = InBodies /\ InAlts' = InAlts /\ Pending' = Pending /\ Nodes' = Nodes
  BY <1>1, SameHold, NewNodes
<1> HIDE DEF a, b
<1>11. Alike(Holdings', (Holdings \ {a}) \cup {b})
  <2>1. \A h : h \in Holdings' <=> \/ h \in InEntries \/ h \in InBodies \/ h \in InAlts
                                   \/ h \in InFuncs' \/ h \in Pending
    BY <1>9, <1>10 DEF Holdings
  <2>2. \A h : h[3] \notin Blank => (h \in InFuncs' <=> h \in InFuncs \/ h = b)
    BY <1>5 DEF Alike
  <2>3. \A h : h[3] \notin Blank => (h \in Holdings' <=> (h \in Holdings /\ h # a) \/ h = b)
    BY <1>6, <1>7, <1>8, <2>1, <2>2, HeldBy, Marks
  <2> QED  BY <2>3 DEF Alike
<1>12. a \in Holdings
  BY <1>7, HeldBy
<1> QED  BY <1>6, <1>10, <1>11, <1>12, HeldMoved DEF NodesOwned

LEMMA BlockStatementHolds ==
    ASSUME IInv, Reduction, Owned(Holdings, Nodes), BlockStatement
    PROVE  Owned(Holdings, Nodes)'
<1>1. /\ status = "parsing" /\ stack # <<>> /\ Top.kind = "block"
      /\ result' = NoNode /\ UNCHANGED <<stmtObjs, funcObjs, stack>>
  BY DEF BlockStatement, Reduced
<1>2. Top.id \in DOMAIN blockObjs
  BY <1>1, AtBlock
<1>3. PICK ob : /\ Replaced(blockObjs, blockObjs', Top.id, ob)
                /\ Longer(blockObjs[Top.id].entries, ob.entries, result.id)
  BY DoesBlockStatement
<1>4. result = StmtNode(result.id)
  BY DoesBlockStatement, Sizes DEF Node, StmtNode
<1> DEFINE a == Result(result)
           b == Entry(Top.id, Len(blockObjs[Top.id].entries) + 1, result.id)
<1>5. a[3] = result /\ b[3] = result /\ a[1] = "result"
  BY <1>4 DEF Result, Entry
<1>6. InEntries' = InEntries \cup {b}
  BY <1>2, <1>3, EntriesHold
<1>7. \A h : h \in Pending <=> h = a
  BY BlankResult
<1> HIDE DEF a, b
<1>8. \A h \in Pending' : h[3] \in Blank
  BY <1>1 DEF Pending, Blank
<1>9. /\ InBodies' = InBodies /\ InAlts' = InAlts /\ InFuncs' = InFuncs
      /\ StillOpen' = StillOpen /\ InBranches' = InBranches
  BY <1>1, SameHold
<1>10. DOMAIN blockObjs' = DOMAIN blockObjs
  BY <1>3 DEF Replaced, Sized
<1>11. Nodes' = Nodes
  BY <1>1, <1>10, NewNodes
<1>12. Alike(Holdings', (Holdings \ {a}) \cup {b})
  <2>1. \A h : h \in Holdings' <=> \/ h \in InEntries \/ h = b \/ h \in InBodies \/ h \in InAlts
                \/ h \in InFuncs \/ h \in StillOpen \/ h \in InBranches \/ h \in Pending'
    BY <1>6, <1>9 DEF Holdings
  <2>2. \A h : h[3] \notin Blank => (h \in Holdings' <=> (h \in Holdings /\ h # a) \/ h = b)
    BY <1>5, <1>7, <1>8, <2>1, HeldBy, Marks
  <2> QED  BY <2>2 DEF Alike
<1>13. a \in Holdings
  BY <1>7, HeldBy
<1> QED  BY <1>5, <1>11, <1>12, <1>13, HeldMoved
\* A statement whose branches are blank, held by b: what DeclareInit and
\* ExprStatement make.
LEMMA DeclareInitHolds ==
    ASSUME IInv, Nested, Owned(Holdings, Nodes), Locals, Noted, Top.kind = "declaration",
           UNCHANGED result, NEW st, Longer(stmtObjs, stmtObjs', st), st.body = NoNode, st.alt = NoNode,
           Longer(blockObjs[currentScope].entries, blockObjs'[currentScope].entries, Len(stmtObjs) + 1)
    PROVE  Owned(Holdings, Nodes)'
<1> DEFINE b == Entry(currentScope, Len(blockObjs[currentScope].entries) + 1, Len(stmtObjs) + 1)
<1>1. b[3] = StmtNode(Len(stmtObjs) + 1)
  BY DEF Entry
<1>2. InFuncs' = InFuncs /\ DOMAIN blockObjs' = DOMAIN blockObjs /\ InEntries' = InEntries \cup {b}
  BY LocalsHold
<1> HIDE DEF b
<1>3. StillOpen' = StillOpen /\ InBranches' = InBranches /\ Pending' = Pending
  BY NotedHolds, SameHold
<1>4. Alike(InBodies', InBodies) /\ Alike(InAlts', InAlts)
  BY BlankStmtHolds
<1>5. Alike(Holdings', Holdings \cup {b})
  <2>1. \A h : h \in Holdings' <=> \/ h \in InEntries \/ h = b \/ h \in InBodies' \/ h \in InAlts'
                \/ h \in InFuncs \/ h \in StillOpen \/ h \in InBranches \/ h \in Pending
    BY <1>2, <1>3 DEF Holdings
  <2> QED  BY <1>4, <2>1, HeldBy DEF Alike
<1>6. Nodes' = Nodes \cup {b[3]} /\ b[3] \notin Nodes \cup Blank
  <2>1. \A s : s \in DOMAIN stmtObjs' <=> s \in DOMAIN stmtObjs \/ s = Len(stmtObjs) + 1
    BY DEF Longer, Sized
  <2> QED  BY <1>1, <1>2, <2>1, NodesHeld DEF Nodes
<1> QED  BY <1>5, <1>6, HeldMade

LEMMA ExprStatementHolds ==
    ASSUME IInv, Owned(Holdings, Nodes), NEW st, Longer(stmtObjs, stmtObjs', st),
           st.body = NoNode, st.alt = NoNode,
           result = NoNode, result' = StmtNode(Len(stmtObjs) + 1),
           UNCHANGED <<blockObjs, funcObjs, stack>>
    PROVE  Owned(Holdings, Nodes)'
<1> DEFINE b == Result(StmtNode(Len(stmtObjs) + 1))
<1>1. b[3] = StmtNode(Len(stmtObjs) + 1)
  BY DEF Result
<1>2. \A h : h \in Pending' <=> h = b
  BY DEF Pending, Result
<1> HIDE DEF b
<1>3. \A h \in Pending : h[3] \in Blank
  BY BlankResult
<1>4. /\ InEntries' = InEntries /\ InFuncs' = InFuncs
      /\ StillOpen' = StillOpen /\ InBranches' = InBranches
  BY SameHold
<1>5. Alike(InBodies', InBodies) /\ Alike(InAlts', InAlts)
  BY BlankStmtHolds
<1>6. Alike(Holdings', Holdings \cup {b})
  <2>1. \A h : h \in Holdings' <=> \/ h \in InEntries \/ h = b \/ h \in InBodies' \/ h \in InAlts'
                \/ h \in InFuncs \/ h \in StillOpen \/ h \in InBranches
    BY <1>2, <1>4 DEF Holdings
  <2> QED  BY <1>3, <1>5, <2>1, HeldBy DEF Alike
<1>7. Nodes' = Nodes \cup {b[3]} /\ b[3] \notin Nodes \cup Blank
  BY <1>1, NewNodes, NodesHeld
<1> QED  BY <1>6, <1>7, HeldMade

LEMMA ElseHolds ==
    ASSUME IInv, Nested, Owned(Holdings, Nodes), Else
    PROVE  Owned(Holdings, Nodes)'
<1>1. /\ status = "parsing" /\ stack # <<>> /\ Top.kind = "if" /\ result' = NoNode
      /\ UNCHANGED <<stmtObjs, blockObjs, funcObjs>>
  BY DEF Else, Reduced
<1>2. PICK fr : Replaced(stack, stack', Len(stack), fr) /\ fr.kind = "else" /\ fr.body = result
  BY DoesElse
<1>3. Top.body = NoNode
  BY <1>1, Sizes DEF Nested, Top
<1> DEFINE a == Result(result)
           b == Branch(Len(stack), result)
<1>4. a[3] = result /\ b[3] = result /\ a[1] = "result"
  BY DEF Result, Branch
<1>5. StillOpen' = StillOpen /\ Alike(InBranches', InBranches \cup {b})
  BY <1>1, <1>2, <1>3, TopHolds
<1>6. \A h : h \in Pending <=> h = a
  BY BlankResult
<1> HIDE DEF a, b
<1>7. \A h \in Pending' : h[3] \in Blank
  BY <1>1 DEF Pending, Blank
<1>8. InEntries' = InEntries /\ InBodies' = InBodies /\ InAlts' = InAlts /\ InFuncs' = InFuncs /\ Nodes' = Nodes
  BY <1>1, SameHold, NewNodes
<1>9. Alike(Holdings', (Holdings \ {a}) \cup {b})
  <2>1. \A h : h \in Holdings' <=> \/ h \in InEntries \/ h \in InBodies \/ h \in InAlts
                \/ h \in InFuncs \/ h \in StillOpen \/ h \in InBranches' \/ h \in Pending'
    BY <1>5, <1>8 DEF Holdings
  <2>2. \A h : h[3] \notin Blank => (h \in InBranches' <=> h \in InBranches \/ h = b)
    BY <1>5 DEF Alike
  <2>3. \A h : h[3] \notin Blank => (h \in Holdings' <=> (h \in Holdings /\ h # a) \/ h = b)
    BY <1>4, <1>6, <1>7, <2>1, <2>2, HeldBy, Marks
  <2> QED  BY <2>3 DEF Alike
<1>10. a \in Holdings
  BY <1>6, HeldBy
<1> QED  BY <1>4, <1>8, <1>9, <1>10, HeldMoved

\* The new if or while takes what was reduced, and the branch of its frame.
LEMMA EndControlHolds ==
    ASSUME IInv, Nested, Owned(Holdings, Nodes), EndControl
    PROVE  Owned(Holdings, Nodes)'
<1>1. /\ status = "parsing" /\ stack # <<>> /\ Top.kind # "block"
      /\ result' = StmtNode(Len(stmtObjs) + 1) /\ Shorter(stack, stack')
      /\ UNCHANGED <<blockObjs, funcObjs>>
  BY DoesEndControl DEF EndControl, Reduced, Controls
<1>2. PICK st : /\ Longer(stmtObjs, stmtObjs', st)
                /\ \/ Top.kind # "else" /\ st.body = result /\ st.alt = NoNode
                   \/ Top.kind = "else" /\ st.body = Top.body /\ st.alt = result
  BY DoesEndControl
<1> DEFINE s == Len(stmtObjs) + 1
           a == Result(result)
           n == Branch(Len(stack), Top.body)
           body == Body(s, st.body)
           alt == Alt(s, st.alt)
           c == Result(StmtNode(s))
<1>3. /\ a[3] = result /\ n[3] = Top.body /\ body[3] = st.body /\ alt[3] = st.alt /\ c[3] = StmtNode(s)
      /\ a[1] = "result" /\ n[1] = "branch" /\ body[1] = "body" /\ alt[1] = "alt"
  BY DEF Result, Branch, Body, Alt
<1>4. /\ \A h : h \in Pending <=> h = a
      /\ \A h : h \in Pending' <=> h = c
  BY <1>1 DEF Pending, Result
<1>5. n \in InBranches
  BY <1>1, Sizes DEF InBranches, Branch, Top
<1>6. /\ InBranches' = InBranches \ {n} /\ StillOpen' = StillOpen
      /\ InBodies' = InBodies \cup {body} /\ InAlts' = InAlts \cup {alt}
  BY <1>1, <1>2, PopHolds, StmtHolds
<1>7. c[3] \notin Nodes \cup Blank /\ Nodes' = Nodes \cup {c[3]}
  BY <1>1, <1>2, NodesHeld, NewNodes DEF Result
<1> HIDE DEF s, a, n, body, alt, c
<1>8. InEntries' = InEntries /\ InFuncs' = InFuncs
  BY <1>1, SameHold
<1>9. \A h : h \in Holdings' <=> \/ h \in InEntries \/ h \in InBodies \/ h = body \/ h \in InAlts \/ h = alt
                \/ h \in InFuncs \/ h \in StillOpen \/ (h \in InBranches /\ h # n) \/ h = c
  <2>1. \A h : /\ h \in InBranches' <=> h \in InBranches /\ h # n
               /\ h \in InBodies' <=> h \in InBodies \/ h = body
               /\ h \in InAlts' <=> h \in InAlts \/ h = alt
    BY <1>6
  <2>2. \A h : h \in Holdings' <=> \/ h \in InEntries' \/ h \in InBodies' \/ h \in InAlts' \/ h \in InFuncs'
                                   \/ h \in StillOpen' \/ h \in InBranches' \/ h \in Pending'
    BY DEF Holdings
  <2> QED  BY <1>4, <1>6, <1>8, <2>1, <2>2
<1>10. a \in Holdings /\ n \in Holdings
  BY <1>4, <1>5, HeldBy
<1>11. CASE Top.kind # "else" /\ st.body = result /\ st.alt = NoNode
  <2>1. n[3] \in Blank /\ alt[3] \in Blank
    <3>1. Top.body = NoNode
      BY <1>1, <1>11, Sizes DEF Nested, Top
    <3> QED  BY <1>3, <1>11, <3>1 DEF Blank
  <2> DEFINE H == (Holdings \ {a}) \cup {body}
  <2>2. Owned(H, Nodes)
    BY <1>3, <1>10, <1>11, MoveOne
  <2>3. \A h : h \in H <=> (h \in Holdings /\ h # a) \/ h = body
    OBVIOUS
  <2> HIDE DEF H
  <2>4. \A h : h[3] \notin Blank => (h \in Holdings' <=> h \in H \/ h = c)
    BY <1>3, <1>4, <1>9, <2>1, <2>3, HeldBy, Marks
  <2>5. Alike(Holdings', H \cup {c})
    BY <2>4 DEF Alike
  <2> QED  BY <1>7, <2>2, <2>5, HeldMade
<1>12. CASE Top.kind = "else" /\ st.body = Top.body /\ st.alt = result
  <2> DEFINE H == (Holdings \ {a}) \cup {alt}
             G == (H \ {n}) \cup {body}
  <2>1. Owned(H, Nodes)
    BY <1>3, <1>10, <1>12, MoveOne
  <2>2. \A h : h \in H <=> (h \in Holdings /\ h # a) \/ h = alt
    OBVIOUS
  <2>3. \A h : h \in G <=> (h \in H /\ h # n) \/ h = body
    OBVIOUS
  <2> HIDE DEF H
  <2>4. n \in H
    BY <1>3, <1>10, <2>2
  <2>5. Owned(G, Nodes)
    BY <1>3, <1>12, <2>1, <2>4, MoveOne
  <2> HIDE DEF G
  <2>6. \A h : h \in Holdings' <=> h \in G \/ h = c
    BY <1>3, <1>4, <1>9, <2>2, <2>3, HeldBy, Marks
  <2>7. Alike(Holdings', G \cup {c})
    BY <2>6 DEF Alike
  <2> QED  BY <1>7, <2>5, <2>7, HeldMade
<1> QED  BY <1>2, <1>11, <1>12
\* A step that makes no node and passes no node on.
LEMMA SameNodes ==
    ASSUME IInv, Owned(Holdings, Nodes), UNCHANGED <<stmtObjs, result>>,
           DOMAIN blockObjs' = DOMAIN blockObjs, InEntries' = InEntries,
           Alike(InFuncs', InFuncs), Alike(StillOpen', StillOpen), Alike(InBranches', InBranches)
    PROVE  Owned(Holdings, Nodes)'
<1>1. InBodies' = InBodies /\ InAlts' = InAlts /\ Pending' = Pending
  BY SameHold
<1>2. Alike(InEntries', InEntries) /\ Alike(InBodies', InBodies) /\ Alike(InAlts', InAlts) /\ Alike(Pending', Pending)
  BY <1>1, SameAlike
<1>3. Alike(Holdings', Holdings)
  BY <1>2, AlikeHoldings
<1>4. Nodes' = Nodes
  BY NewNodes
<1> QED  BY <1>3, <1>4, HeldAlike

LEMMA SameHeaps ==
    ASSUME IInv, Owned(Holdings, Nodes), UNCHANGED <<stmtObjs, blockObjs, funcObjs, stack, result>>
    PROVE  Owned(Holdings, Nodes)'
<1>1. InEntries' = InEntries /\ InFuncs' = InFuncs /\ StillOpen' = StillOpen /\ InBranches' = InBranches
  BY SameHold
<1>2. Alike(InFuncs', InFuncs) /\ Alike(StillOpen', StillOpen) /\ Alike(InBranches', InBranches)
  BY <1>1, SameAlike
<1> QED  BY <1>1, <1>2, SameNodes

LEMMA PushedFrame ==
    ASSUME IInv, Owned(Holdings, Nodes), UNCHANGED <<stmtObjs, blockObjs, result>>,
           Alike(InFuncs', InFuncs),
           NEW fr, Longer(stack, stack', fr), fr.kind # "block", fr.body = NoNode
    PROVE  Owned(Holdings, Nodes)'
<1>1. Alike(InBranches', InBranches) /\ StillOpen' = StillOpen /\ InEntries' = InEntries
  BY PushHolds, SameHold
<1>2. Alike(StillOpen', StillOpen)
  BY <1>1, SameAlike
<1> QED  BY <1>1, <1>2, SameNodes

LEMMA PoppedFrame ==
    ASSUME IInv, Nested, Owned(Holdings, Nodes), UNCHANGED <<stmtObjs, blockObjs, funcObjs, result>>,
           status = "parsing", stack # <<>>, Shorter(stack, stack'), Top.kind \in {"function", "declaration"}
    PROVE  Owned(Holdings, Nodes)'
<1>1. Top.body = NoNode
  BY Sizes DEF Nested, Top
<1>2. InBranches' = InBranches \ {Branch(Len(stack), Top.body)} /\ StillOpen' = StillOpen
  BY PopHolds
<1>3. Branch(Len(stack), Top.body)[3] \in Blank
  BY <1>1 DEF Branch, Blank
<1>4. Alike(InBranches', InBranches)
  BY <1>2, <1>3 DEF Alike
<1>5. InEntries' = InEntries /\ InFuncs' = InFuncs
  BY SameHold
<1>6. Alike(StillOpen', StillOpen) /\ Alike(InFuncs', InFuncs)
  BY <1>2, <1>5, SameAlike
<1> QED  BY <1>4, <1>5, <1>6, SameNodes

\* No step but the end of a function gives the open one a block.
LEMMA NextBodiless ==
    ASSUME IInv, Nested, Bodiless, [Next]_vars
    PROVE  Bodiless'
<1>1. ASSUME UNCHANGED <<currentFunc, funcObjs>>, status' = "parsing" => status = "parsing"
      PROVE  Bodiless'
  BY <1>1 DEF Bodiless
<1>2. ASSUME UNCHANGED currentFunc, Locals, status' = "parsing" => status = "parsing"
      PROVE  Bodiless'
  <2>1. PICK ob : Replaced(funcObjs, funcObjs', currentFunc, ob) /\ ob.block = funcObjs[currentFunc].block
    BY <1>2 DEF Locals
  <2>2. funcObjs'[currentFunc].block = funcObjs[currentFunc].block
    BY <2>1 DEF Replaced
  <2> QED  BY <1>2, <2>2 DEF Bodiless
<1>3. ASSUME NEW why \in {"aborted", "crashed"}, Stop(why) PROVE Bodiless'
  BY <1>1, <1>3 DEF Stop, state
<1>4. ASSUME NEW n \in Names, NEW ps \in ParamLists, FunctionDeclaration(n, ps) PROVE Bodiless'
  <2>1. PICK ob : Longer(funcObjs, funcObjs', ob) /\ ob.block = Null
    BY <1>4, DoesFunctionDeclaration
  <2>2. currentFunc' = Len(funcObjs) + 1 /\ funcObjs'[Len(funcObjs) + 1] = ob
    BY <1>4, <2>1 DEF FunctionDeclaration, Longer
  <2> QED  BY <2>1, <2>2 DEF Bodiless
<1>5. CASE FunctionPrototype \/ FunctionDefinition
  BY <1>5 DEF FunctionPrototype, FunctionDefinition, Bodiless
<1>6. CASE OpenBlock \/ CloseBlock \/ BlockStatement \/ EndDeclaration \/ Else \/ EndControl
  BY <1>1, <1>6 DEF OpenBlock, CloseBlock, BlockStatement, EndDeclaration, Else, EndControl, state
<1>7. CASE \E type \in DeclTypes : BeginDeclaration(type)
  BY <1>1, <1>7 DEF BeginDeclaration
<1>8. ASSUME NEW n \in Names, Declare(n) PROVE Bodiless'
  <2>1. UNCHANGED state
    BY <1>8 DEF Declare, Stop
  <2>2. CASE Stop("aborted")
    BY <1>3, <2>2
  <2>3. CASE ~Stop("aborted")
    BY <1>2, <1>8, <2>1, <2>3, DoesDeclare DEF state
  <2> QED  BY <2>2, <2>3
<1>9. ASSUME NEW n \in Names, NEW e \in Exprs, DeclareInit(n, e) PROVE Bodiless'
  <2>1. status = "parsing" /\ UNCHANGED state
    BY Zenon, <1>9 DEF DeclareInit, Stop, Awaiting
  <2>2. Locals \/ \E why \in {"aborted", "crashed"} : Stop(why)
    BY <1>9, DoesDeclareInit
  <2> QED  BY <1>2, <1>3, <2>1, <2>2 DEF state
<1>10. ASSUME NEW e \in Exprs, ExprStatement(e) PROVE Bodiless'
  <2>1. UNCHANGED state
    BY Zenon, <1>10 DEF ExprStatement, Stop
  <2> QED  BY <1>1, <1>3, <1>10, <2>1, DoesExprStatement DEF state
<1>11. ASSUME NEW kind \in {"if", "while"}, NEW e \in Exprs, BeginControl(kind, e) PROVE Bodiless'
  <2>1. UNCHANGED state
    BY Zenon, <1>11 DEF BeginControl, Stop
  <2> QED  BY <1>1, <1>3, <1>11, <2>1, DoesBeginControl DEF state
<1>12. CASE Accept \/ SyntaxError \/ UNCHANGED vars
  BY <1>1, <1>12 DEF Accept, SyntaxError, Stop, vars, state
<1> QED
  BY <1>4, <1>5, <1>6, <1>7, <1>8, <1>9, <1>10, <1>11, <1>12 DEF Next

\* Every step keeps one holder for each node.
LEMMA NextNodes ==
    ASSUME IInv, Nested, Reduction, NodesOwned, [Next]_vars
    PROVE  NodesOwned'
<1> DEFINE Goal == Owned(Holdings, Nodes)'
<1> SUFFICES Goal
  BY NextBodiless DEF NodesOwned
<1>0. Owned(Holdings, Nodes)
  BY DEF NodesOwned
<1>1. ASSUME NEW why, Stop(why) PROVE Goal
  BY <1>0, <1>1, SameHeaps DEF Stop
<1>2. ASSUME NEW n \in Names, NEW ps \in ParamLists, FunctionDeclaration(n, ps) PROVE Goal
  <2>1. PICK fr : Longer(stack, stack', fr) /\ fr.kind = "function" /\ fr.body = NoNode
    BY <1>2, DoesFunctionDeclaration
  <2>2. PICK ob : Longer(funcObjs, funcObjs', ob) /\ ob.block = Null
    BY <1>2, DoesFunctionDeclaration
  <2>3. UNCHANGED <<stmtObjs, blockObjs, result>>
    BY <1>2 DEF FunctionDeclaration
  <2>4. Alike(InFuncs', InFuncs)
    BY <2>2, NewFuncHolds
  <2> QED  BY <1>0, <2>1, <2>3, <2>4, PushedFrame
<1>3. CASE FunctionPrototype
  <2>1. /\ status = "parsing" /\ stack # <<>> /\ Top.kind = "function" /\ stack' = Pop
        /\ UNCHANGED <<stmtObjs, blockObjs, funcObjs, result>>
    BY <1>3 DEF FunctionPrototype, Awaiting
  <2>2. Shorter(stack, stack')
    BY <2>1, PopDoes
  <2> QED  BY <1>0, <2>1, <2>2, PoppedFrame
<1>4. CASE FunctionDefinition
  BY <1>4, FunctionDefinitionHolds
<1>5. CASE OpenBlock
  BY <1>0, <1>5, OpenBlockHolds
<1>6. CASE CloseBlock
  BY <1>0, <1>6, CloseBlockHolds
<1>7. CASE BlockStatement
  BY <1>0, <1>7, BlockStatementHolds
<1>8. ASSUME NEW type \in DeclTypes, BeginDeclaration(type) PROVE Goal
  <2>1. PICK fr : Longer(stack, stack', fr) /\ fr.kind = "declaration" /\ fr.body = NoNode
    BY <1>8, DoesBeginDeclaration
  <2>2. UNCHANGED <<stmtObjs, blockObjs, funcObjs, result>>
    BY <1>8 DEF BeginDeclaration
  <2>3. Alike(InFuncs', InFuncs)
    BY <2>2, SameHold, SameAlike
  <2> QED  BY <1>0, <2>1, <2>2, <2>3, PushedFrame
<1>9. ASSUME Locals, UNCHANGED <<stmtObjs, result>>, StillOpen' = StillOpen, InBranches' = InBranches,
             blockObjs'[currentScope].entries = blockObjs[currentScope].entries
      PROVE  Goal
  <2>1. InFuncs' = InFuncs /\ DOMAIN blockObjs' = DOMAIN blockObjs /\ InEntries' = InEntries
    BY <1>9, LocalsHold
  <2>2. Alike(InFuncs', InFuncs) /\ Alike(StillOpen', StillOpen) /\ Alike(InBranches', InBranches)
    BY <1>9, <2>1, SameAlike
  <2> QED  BY <1>0, <1>9, <2>1, <2>2, SameNodes
<1>10. ASSUME NEW n \in Names, Declare(n) PROVE Goal
  <2>1. CASE Stop("aborted")
    BY <1>1, <2>1
  <2>2. CASE ~Stop("aborted")
    <3>1. /\ Locals /\ Noted /\ Top.kind = "declaration" /\ UNCHANGED <<stmtObjs, result>>
          /\ blockObjs'[currentScope].entries = blockObjs[currentScope].entries
      BY <1>10, <2>2, DoesDeclare
    <3>2. StillOpen' = StillOpen /\ InBranches' = InBranches
      BY <3>1, NotedHolds
    <3> QED  BY <1>9, <3>1, <3>2
  <2> QED  BY <2>1, <2>2
<1>11. ASSUME NEW n \in Names, NEW e \in Exprs, DeclareInit(n, e) PROVE Goal
  <2>1. CASE \E why \in {"aborted", "crashed"} : Stop(why)
    BY <1>1, <2>1
  <2>2. CASE /\ Locals /\ status' = "aborted"
             /\ blockObjs'[currentScope].entries = blockObjs[currentScope].entries
             /\ UNCHANGED <<stmtObjs, stack, result>>
    <3>1. StillOpen' = StillOpen /\ InBranches' = InBranches
      BY <2>2, SameHold
    <3> QED  BY <1>9, <2>2, <3>1
  <2>3. CASE /\ Locals /\ Noted /\ Top.kind = "declaration" /\ UNCHANGED result
             /\ \E st : Longer(stmtObjs, stmtObjs', st) /\ st.body = NoNode /\ st.alt = NoNode
             /\ Longer(blockObjs[currentScope].entries, blockObjs'[currentScope].entries,
                       Len(stmtObjs) + 1)
    BY <1>0, <2>3, DeclareInitHolds
  <2> QED  BY <1>11, <2>1, <2>2, <2>3, DoesDeclareInit
<1>12. CASE EndDeclaration
  <2>1. /\ status = "parsing" /\ stack # <<>> /\ Top.kind = "declaration" /\ stack' = Pop
        /\ UNCHANGED <<stmtObjs, blockObjs, funcObjs, result>>
    BY <1>12 DEF EndDeclaration, Awaiting
  <2>2. Shorter(stack, stack')
    BY <2>1, PopDoes
  <2> QED  BY <1>0, <2>1, <2>2, PoppedFrame
<1>13. ASSUME NEW e \in Exprs, ExprStatement(e) PROVE Goal
  BY <1>0, <1>1, <1>13, DoesExprStatement, ExprStatementHolds
<1>14. ASSUME NEW kind \in {"if", "while"}, NEW e \in Exprs, BeginControl(kind, e) PROVE Goal
  <2>1. CASE \E why \in {"aborted", "crashed"} : Stop(why)
    BY <1>1, <2>1
  <2>2. CASE /\ \E fr : Longer(stack, stack', fr) /\ fr.kind \in {"if", "while"} /\ fr.body = NoNode
             /\ UNCHANGED <<typeObjs, varObjs, blockObjs, funcObjs, stmtObjs, result, status>>
    <3>1. PICK fr : Longer(stack, stack', fr) /\ fr.kind # "block" /\ fr.body = NoNode
      BY <2>2
    <3>2. Alike(InFuncs', InFuncs)
      BY <2>2, SameHold, SameAlike
    <3> QED  BY <1>0, <2>2, <3>1, <3>2, PushedFrame
  <2> QED  BY <1>14, <2>1, <2>2, DoesBeginControl
<1>15. CASE Else
  BY <1>0, <1>15, ElseHolds
<1>16. CASE EndControl
  BY <1>0, <1>16, EndControlHolds
<1>17. CASE Accept \/ SyntaxError \/ UNCHANGED vars
  BY <1>0, <1>17, SameHeaps DEF Accept, SyntaxError, Stop, vars
<1> QED
  BY <1>2, <1>3, <1>4, <1>5, <1>6, <1>7, <1>8, <1>10, <1>11, <1>12, <1>13, <1>14, <1>15,
     <1>16, <1>17 DEF Next
(***************************************************************************)
(* The theorems.                                                           *)
(***************************************************************************)
\* The inductive invariant: the pointers, the order of the frames, the order of
\* the entries, and who owns the variables and the nodes.
OInv ==
    /\ IInv /\ Nested /\ Reduction
    /\ EntriesInSourceOrder /\ EntriesOlder
    /\ VarsOwned /\ NodesOwned

\* Nothing has been parsed, so nothing is owned.
LEMMA InitOInv == Init => OInv
<1> SUFFICES ASSUME Init PROVE OInv
  OBVIOUS
<1>1. /\ DOMAIN stack = {} /\ DOMAIN blockObjs = {} /\ DOMAIN stmtObjs = {} /\ DOMAIN funcObjs = {}
      /\ DOMAIN varObjs = {} /\ result = NoNode /\ currentFunc = Null
  BY DEF Init
<1>2. IInv
  BY InitIInv
<1>3. Nested /\ Reduction /\ EntriesInSourceOrder /\ EntriesOlder
  BY <1>1 DEF Nested, Reduction, EntriesInSourceOrder, EntriesOlder, NoNode
<1>4. VarsOwned
  <2>1. DOMAIN BlockLists = {} /\ DOMAIN ParamListsOf = {} /\ DOMAIN LocalLists = {}
    BY <1>1 DEF BlockLists, ParamListsOf, LocalLists
  <2>2. \A o, i, v : ~At(BlockLists, o, i, v) /\ ~At(ParamListsOf, o, i, v) /\ ~At(LocalLists, o, i, v)
    BY <2>1 DEF At
  <2> QED  BY <1>1, <2>2 DEF VarsOwned, Once, OnList
<1>5. /\ InEntries = {} /\ InBodies = {} /\ InAlts = {} /\ InFuncs = {}
      /\ StillOpen = {} /\ InBranches = {} /\ Nodes = {}
  BY <1>1 DEF InEntries, InBodies, InAlts, InFuncs, StillOpen, InBranches, Nodes
<1>6. \A h \in Pending : h[3] \in Blank
  BY <1>1, BlankResult
<1>7. \A h \in Holdings : h[3] \in Blank
  BY <1>5, <1>6, HeldBy
<1>8. NodesOwned
  BY <1>1, <1>5, <1>7 DEF NodesOwned, Owned, Bodiless
<1> QED  BY <1>2, <1>3, <1>4, <1>8 DEF OInv

LEMMA NextOInv == OInv /\ [Next]_vars => OInv'
  BY NextIInv, NextFrames, NextOrder, NextVars, NextNodes DEF OInv

\* OInv holds in every state of every parse.
THEOREM OwnershipInductive == Spec => []OInv
<1> QED  BY InitOInv, NextOInv, PTL DEF Spec

\* Statements and initialisers enter their block in the order they were written,
\* through $1 the ones and through current_scope the others: bae_block_add_entry
\* never puts one behind a younger one.
THEOREM EntriesKeepOrder == Spec => []EntriesInSourceOrder
<1>1. OInv => EntriesInSourceOrder
  BY DEF OInv
<1> QED  BY <1>1, OwnershipInductive, PTL

\* Every variable is on exactly one of the lists it is freed from, and every
\* local has exactly one place in its function's frame.
THEOREM OneListPerVariable == Spec => []VariablesOwnedOnce
<1>1. OInv => VariablesOwnedOnce
  BY VarsOwnedOnce DEF OInv
<1> QED  BY <1>1, OwnershipInductive, PTL

\* Every statement and every block has exactly one holder: the semantic actions
\* neither lose a node nor link one twice, on every path through blocks and
\* branches and whatever ends the parse.
THEOREM OneHolderPerNode == Spec => []NodesOwnedOnce
<1>1. OInv => NodesOwnedOnce
  BY OwnedOnceNodes DEF OInv, NodesOwned
<1> QED  BY <1>1, OwnershipInductive, PTL
(***************************************************************************)
(* The const flags of the declared types.                                  *)
(***************************************************************************)
ConstKept == \A t \in DOMAIN typeObjs : typeObjs'[t].const = typeObjs[t].const

\* A step that goes on keeps every flag: an initialiser sets back what it lifted.
LEMMA NextConst ==
    ASSUME IInv, Nested, [Next]_vars, status' = "parsing"
    PROVE  ConstKept
<1>1. ASSUME UNCHANGED typeObjs PROVE ConstKept
  BY <1>1 DEF ConstKept
<1>2. typeObjs \in Seq(Type) /\ Len(typeObjs) \in Nat /\ DOMAIN typeObjs = 1 .. Len(typeObjs)
  BY LenProperties DEF IInv, PointersTyped
<1>3. ASSUME NEW n \in Names, NEW ps \in ParamLists, FunctionDeclaration(n, ps) PROVE ConstKept
  <2> DEFINE types == [i \in DOMAIN ps |-> [prim |-> ps[i].prim, const |-> ps[i].const]]
  <2>1. ps \in Seq(Param) /\ Len(ps) \in Nat /\ DOMAIN ps = 1 .. Len(ps) /\ \A i \in DOMAIN ps : ps[i] \in Param
    BY ParamListsAssumption, LenProperties, ElementOfSeq
  <2>2. \A i \in DOMAIN ps : [prim |-> ps[i].prim, const |-> ps[i].const] \in Type
    BY Zenon, <2>1 DEF Type, Param
  <2>3. types \in [1 .. Len(ps) -> Type]
    BY <2>1, <2>2
  <2>4. types \in Seq(Type)
    BY <2>1, <2>3, SeqDef
  <2>5. typeObjs' = typeObjs \o types
    BY <1>3 DEF FunctionDeclaration
  <2> HIDE DEF types
  <2>6. /\ Len(types) \in Nat
        /\ \A i \in 1 .. Len(typeObjs) + Len(types) :
               (typeObjs \o types)[i] = IF i <= Len(typeObjs) THEN typeObjs[i] ELSE types[i - Len(typeObjs)]
    BY <1>2, <2>4, ConcatShape, LenProperties
  <2>7. \A i \in DOMAIN typeObjs : (typeObjs \o types)[i] = typeObjs[i]
    BY <1>2, <2>6
  <2> QED  BY <2>5, <2>7 DEF ConstKept
<1>4. ASSUME NEW type \in DeclTypes, BeginDeclaration(type) PROVE ConstKept
  <2>1. type \in Type /\ typeObjs' = Append(typeObjs, type)
    BY <1>4, DeclTypesAssumption DEF BeginDeclaration
  <2>2. Longer(typeObjs, typeObjs', type)
    BY <1>2, <2>1, LongerAppend
  <2> QED  BY <2>2 DEF ConstKept, Longer
<1>5. ASSUME NEW n \in Names, Declare(n) PROVE ConstKept
  <2>1. UNCHANGED typeObjs
    BY <1>5 DEF Declare, Stop
  <2> QED  BY <1>1, <2>1
<1>6. ASSUME NEW n \in Names, NEW e \in Exprs, DeclareInit(n, e) PROVE ConstKept
  <2>1. CASE \E why \in {"aborted", "crashed"} : Stop(why)
    BY <1>1, <2>1 DEF Stop
  <2>2. CASE typeObjs' = [typeObjs EXCEPT ![declType].const = typeObjs[declType].const]
    <3>1. \A t \in DOMAIN typeObjs : typeObjs[t] \in [prim: Prims, const: BOOLEAN]
      BY <1>2, ElementOfSeq DEF Type
    <3> QED  BY <2>2, <3>1 DEF ConstKept
  <2> QED  BY <1>6, <2>1, <2>2, DoesDeclareInit
<1>7. ASSUME NEW e \in Exprs, ExprStatement(e) PROVE ConstKept
  BY <1>1, <1>7, DoesExprStatement DEF Stop
<1>8. ASSUME NEW kind \in {"if", "while"}, NEW e \in Exprs, BeginControl(kind, e) PROVE ConstKept
  BY <1>1, <1>8, DoesBeginControl DEF Stop
<1>9. CASE FunctionPrototype \/ FunctionDefinition \/ OpenBlock \/ CloseBlock \/ BlockStatement
  BY <1>1, <1>9 DEF FunctionPrototype, FunctionDefinition, OpenBlock, CloseBlock, BlockStatement
<1>10. CASE EndDeclaration \/ Else \/ EndControl \/ Accept \/ SyntaxError \/ UNCHANGED vars
  BY <1>1, <1>10 DEF EndDeclaration, Else, EndControl, Accept, SyntaxError, Stop, vars
<1> QED
  BY <1>3, <1>4, <1>5, <1>6, <1>7, <1>8, <1>9, <1>10 DEF Next

\* The const flag that each initialiser lifts from the declared type is back when
\* the parse goes on, for all the variables that share the type.
THEOREM ConstSetBack == Spec => ConstPreserved
<1>1. OInv /\ [Next]_vars => [status' = "parsing" =>
          \A t \in DOMAIN typeObjs : typeObjs'[t].const = typeObjs[t].const]_vars
  BY NextConst DEF OInv, ConstKept
<1> QED  BY <1>1, OwnershipInductive, PTL DEF Spec, ConstPreserved

(***************************************************************************)
(* Looking a name up.                                                      *)
(***************************************************************************)
LEMMA LeastOf ==
    ASSUME NEW S \in SUBSET Nat, S # {}
    PROVE  \E x \in S : \A y \in S : x <= y
<1> DEFINE R == {ss \in Nat \X Nat : ss[1] < ss[2]}
<1>1. \A x, y \in Nat : x < y => <<x, y>> \in R
  OBVIOUS
<1>2. IsWellFoundedOn(R, Nat)
  BY NatLessThanWellFounded DEF OpToRel
<1> HIDE DEF R
<1>3. PICK x \in S : \A y \in S : ~(<<y, x>> \in R)
  BY <1>2, WFMin
<1>4. x \in Nat /\ \A y \in S : y \in Nat
  OBVIOUS
<1>5. ASSUME NEW y \in S PROVE x <= y
  <2>1. ~(y < x)
    BY <1>1, <1>3, <1>4, Zenon
  <2> QED  BY <1>4, <2>1
<1> QED  BY <1>3, <1>5

(***************************************************************************)
(* The walk along outer_block.                                             *)
(***************************************************************************)
\* outer_block points to an older block, so that walks end.
Outward == \A b \in DOMAIN blockObjs : blockObjs[b].outer \in 0 .. (b - 1)

\* f is the order of the walks that start at the first n blocks.
Walks(f, n) ==
    f = [b \in 0 .. n |-> IF b = Null THEN <<>>
                          ELSE blockObjs[b].variables \o f[blockObjs[b].outer]]

LEMMA WalksFurther ==
    ASSUME Sized(blockObjs), Outward, NEW x \in DOMAIN blockObjs, NEW f, Walks(f, x - 1)
    PROVE  \E g : Walks(g, x)
<1> DEFINE step == blockObjs[x].variables \o f[blockObjs[x].outer]
           g == [b \in 0 .. x |-> IF b = x THEN step ELSE f[b]]
<1>1. x \in Nat /\ x # 0 /\ x <= Len(blockObjs) /\ DOMAIN blockObjs = 1 .. Len(blockObjs)
      /\ Len(blockObjs) \in Nat
  BY DEF Sized
<1>2. \A b \in 0 .. x : b # 0 => b \in DOMAIN blockObjs /\ blockObjs[b].outer \in 0 .. (x - 1)
  BY <1>1 DEF Outward
<1>3. \A b \in 0 .. (x - 1) : f[b] = IF b = Null THEN <<>>
                                    ELSE blockObjs[b].variables \o f[blockObjs[b].outer]
  BY Zenon DEF Walks
<1>4. /\ \A b \in 0 .. (x - 1) : b \in 0 .. x /\ b # x
      /\ x \in 0 .. x /\ \A b \in 0 .. x : b = x \/ b \in 0 .. (x - 1)
  BY <1>1
<1>5. \A b \in 0 .. (x - 1) : g[b] = f[b]
  BY <1>4
<1>6. g[x] = step
  BY <1>4
<1>7. ASSUME NEW b \in 0 .. x
      PROVE  (IF b = x THEN step ELSE f[b]) =
                 IF b = Null THEN <<>> ELSE blockObjs[b].variables \o g[blockObjs[b].outer]
  <2> HIDE DEF g
  <2>1. CASE b = x
    BY <1>1, <1>2, <1>5, <2>1 DEF Null
  <2>2. CASE b # x
    <3>1. b \in 0 .. (x - 1)
      BY <1>4, <2>2
    <3>2. b # Null => g[blockObjs[b].outer] = f[blockObjs[b].outer]
      BY <1>2, <1>5 DEF Null
    <3> QED  BY <1>3, <2>2, <3>1, <3>2
  <2> QED  BY <2>1, <2>2
<1>8. g = [b \in 0 .. x |-> IF b = Null THEN <<>> ELSE blockObjs[b].variables \o g[blockObjs[b].outer]]
  BY Zenon, <1>7
<1> QED  BY Zenon, <1>8 DEF Walks

LEMMA WalksExist ==
    ASSUME Sized(blockObjs), Outward
    PROVE  \A n \in 0 .. Len(blockObjs) : \E f : Walks(f, n)
<1> DEFINE S == {n \in 0 .. Len(blockObjs) : ~\E f : Walks(f, n)}
<1>1. SUFFICES ASSUME S # {} PROVE FALSE
  OBVIOUS
<1>2. S \in SUBSET Nat /\ \A n : n \in S <=> n \in 0 .. Len(blockObjs) /\ ~\E f : Walks(f, n)
  BY DEF Sized
<1> HIDE DEF S
<1>3. PICK x \in S : \A y \in S : x <= y
  BY <1>1, <1>2, LeastOf
<1>4. x \in 0 .. Len(blockObjs) /\ ~\E f : Walks(f, x)
  BY <1>2, <1>3
<1>5. CASE x = 0
  <2> DEFINE f == [b \in 0 .. 0 |-> <<>>]
  <2>1. Walks(f, 0)
    BY DEF Walks, Null
  <2> QED  BY <1>4, <1>5, <2>1
<1>6. CASE x # 0
  <2>1. x - 1 \in 0 .. Len(blockObjs) /\ ~(x <= x - 1) /\ x \in DOMAIN blockObjs
    BY <1>4, <1>6 DEF Sized
  <2>2. PICK f : Walks(f, x - 1)
    BY <1>2, <1>3, <2>1
  <2> QED  BY <1>4, <2>1, <2>2, WalksFurther
<1> QED  BY <1>5, <1>6

\* ScopeOrder is what its recursion says.
LEMMA ScopeOrderWalks ==
    ASSUME Sized(blockObjs), Outward
    PROVE  /\ ScopeOrder[Null] = <<>>
           /\ \A b \in DOMAIN blockObjs :
                  ScopeOrder[b] = blockObjs[b].variables \o ScopeOrder[blockObjs[b].outer]
<1>1. Len(blockObjs) \in 0 .. Len(blockObjs) /\ Null \in 0 .. Len(blockObjs)
      /\ \A b \in DOMAIN blockObjs : b \in 0 .. Len(blockObjs) /\ b # Null
  BY DEF Sized, Null
<1>2. \E f : Walks(f, Len(blockObjs))
  BY <1>1, WalksExist
<1>3. Walks(ScopeOrder, Len(blockObjs))
  BY Zenon, <1>2 DEF ScopeOrder, Walks
<1>4. \A b \in 0 .. Len(blockObjs) :
          ScopeOrder[b] = IF b = Null THEN <<>>
                          ELSE blockObjs[b].variables \o ScopeOrder[blockObjs[b].outer]
  BY Zenon, <1>3 DEF Walks
<1> QED  BY <1>1, <1>4

\* Every walk is a sequence of variables that exist.
LEMMA WalksType ==
    ASSUME Sized(blockObjs), Outward, NEW V,
           \A b \in DOMAIN blockObjs : blockObjs[b].variables \in Seq(V)
    PROVE  \A b \in 0 .. Len(blockObjs) : ScopeOrder[b] \in Seq(V)
<1> DEFINE S == {b \in 0 .. Len(blockObjs) : ScopeOrder[b] \notin Seq(V)}
<1>1. SUFFICES ASSUME S # {} PROVE FALSE
  OBVIOUS
<1>2. S \in SUBSET Nat /\ \A b : b \in S <=> b \in 0 .. Len(blockObjs) /\ ScopeOrder[b] \notin Seq(V)
  BY DEF Sized
<1> HIDE DEF S
<1>3. PICK x \in S : \A y \in S : x <= y
  BY <1>1, <1>2, LeastOf
<1>4. x \in 0 .. Len(blockObjs) /\ ScopeOrder[x] \notin Seq(V)
  BY <1>2, <1>3
<1>5. x # Null
  <2>1. ScopeOrder[Null] = <<>> /\ <<>> \in Seq(V)
    BY ScopeOrderWalks
  <2> QED  BY <1>4, <2>1
<1>6. x \in DOMAIN blockObjs
  BY <1>4, <1>5 DEF Sized, Null
<1>7. blockObjs[x].outer \in 0 .. Len(blockObjs) /\ ~(x <= blockObjs[x].outer)
  BY <1>6 DEF Outward, Sized
<1>8. ScopeOrder[blockObjs[x].outer] \in Seq(V)
  BY <1>2, <1>3, <1>7
<1>9. ScopeOrder[x] = blockObjs[x].variables \o ScopeOrder[blockObjs[x].outer]
  BY <1>6, ScopeOrderWalks
<1>10. blockObjs[x].variables \o ScopeOrder[blockObjs[x].outer] \in Seq(V)
  BY <1>6, <1>8, ConcatShape
<1> QED  BY <1>4, <1>9, <1>10

\* The lists of variables hold variables that exist.
LEMMA ListsType ==
    ASSUME IInv, VarsOwned
    PROVE  /\ \A b \in DOMAIN blockObjs : blockObjs[b].variables \in Seq(DOMAIN varObjs)
           /\ \A f \in DOMAIN funcObjs : funcObjs[f].params \in Seq(DOMAIN varObjs)
<1>1. ASSUME NEW s \in Seq(Nat), \A i \in DOMAIN s : s[i] \in DOMAIN varObjs
      PROVE  s \in Seq(DOMAIN varObjs)
  <2>1. s \in [1 .. Len(s) -> DOMAIN varObjs] /\ Len(s) \in Nat
    BY <1>1, SizedSeq DEF Sized
  <2> QED  BY <2>1, SeqDef
<1>2. ASSUME NEW b \in DOMAIN blockObjs PROVE blockObjs[b].variables \in Seq(DOMAIN varObjs)
  <2>1. blockObjs[b].variables \in Seq(Nat)
    BY Sizes DEF Block
  <2>2. \A i \in DOMAIN blockObjs[b].variables : At(BlockLists, b, i, blockObjs[b].variables[i])
    BY DEF At, BlockLists
  <2>3. \A i \in DOMAIN blockObjs[b].variables : OnList(BlockLists, blockObjs[b].variables[i])
    BY <2>2 DEF OnList
  <2> QED  BY <1>1, <2>1, <2>3 DEF VarsOwned
<1>3. ASSUME NEW f \in DOMAIN funcObjs PROVE funcObjs[f].params \in Seq(DOMAIN varObjs)
  <2>1. funcObjs[f].params \in Seq(Nat)
    BY Sizes DEF Func
  <2>2. \A i \in DOMAIN funcObjs[f].params : At(ParamListsOf, f, i, funcObjs[f].params[i])
    BY DEF At, ParamListsOf
  <2>3. \A i \in DOMAIN funcObjs[f].params : OnList(ParamListsOf, funcObjs[f].params[i])
    BY <2>2 DEF OnList
  <2> QED  BY <1>1, <2>1, <2>3 DEF VarsOwned
<1> QED  BY <1>2, <1>3

\* A lookup compares variables that exist, while a function is being parsed.
LEMMA SearchType ==
    ASSUME OInv, Outward, status = "parsing", stack # <<>>
    PROVE  /\ SearchOrder(currentFunc, currentScope) \in Seq(DOMAIN varObjs)
           /\ ScopeOrder[currentScope] \in Seq(DOMAIN varObjs)
           /\ funcObjs[currentFunc].params \in Seq(DOMAIN varObjs)
<1>1. IInv /\ VarsOwned /\ Sized(blockObjs)
  BY Sizes DEF OInv
<1>2. currentFunc \in DOMAIN funcObjs /\ currentScope \in 0 .. Len(blockObjs)
  <2>1. currentFunc = stack[1].id /\ 1 \in DOMAIN stack
    BY <1>1, Sizes DEF IInv, Chain, ScopeChain, Sized
  <2> QED  BY <1>1, <2>1 DEF IInv, PointersTyped, Chain, FrameShape
<1> DEFINE V == DOMAIN varObjs
<1>3. \A b \in DOMAIN blockObjs : blockObjs[b].variables \in Seq(V)
  BY <1>1, ListsType
<1>4. funcObjs[currentFunc].params \in Seq(V)
  BY <1>1, <1>2, ListsType
<1> HIDE DEF V
<1>5. ScopeOrder[currentScope] \in Seq(V)
  BY <1>1, <1>2, <1>3, WalksType
<1>6. ScopeOrder[currentScope] \o funcObjs[currentFunc].params \in Seq(V)
  BY <1>4, <1>5, ConcatShape
<1> QED  BY <1>4, <1>5, <1>6 DEF V, SearchOrder

(***************************************************************************)
(* Lookups.                                                                *)
(***************************************************************************)
\* A lookup stops at the first variable with the name, or without one.
LEMMA FindStops ==
    ASSUME NEW V, NEW func, NEW scope, NEW n, SearchOrder(func, scope) \in Seq(V)
    PROVE  LET order == SearchOrder(func, scope)
               found == FindVariable(func, scope, n)
           IN  \/ StopsAt(order, n) = {} /\ found = Denotes("none", Null)
               \/ \E i \in StopsAt(order, n) :
                      /\ \A j \in StopsAt(order, n) : i <= j
                      /\ found = IF varObjs[order[i]].name = NoName THEN Denotes("crashed", Null)
                                 ELSE Denotes("var", order[i])
<1> DEFINE order == SearchOrder(func, scope)
           hits == StopsAt(order, n)
           first == CHOOSE i \in hits : \A j \in hits : i <= j
           found == FindVariable(func, scope, n)
<1>1. found = IF hits = {} THEN Denotes("none", Null)
              ELSE IF varObjs[order[first]].name = NoName THEN Denotes("crashed", Null)
              ELSE Denotes("var", order[first])
  BY DEF FindVariable
<1>2. hits \in SUBSET Nat
  <2>1. DOMAIN order \subseteq Nat
    BY LenProperties
  <2> QED  BY <2>1 DEF StopsAt
<1>3. hits # {} => first \in hits /\ \A j \in hits : first <= j
  <2> SUFFICES ASSUME hits # {} PROVE first \in hits /\ \A j \in hits : first <= j
    OBVIOUS
  <2> HIDE DEF hits
  <2>1. \E i \in hits : \A j \in hits : i <= j
    BY <1>2, LeastOf
  <2> QED  BY Zenon, <2>1
<1> HIDE DEF first, hits, order, found
<1>4. \/ hits = {} /\ found = Denotes("none", Null)
      \/ \E i \in hits : /\ \A j \in hits : i <= j
                         /\ found = IF varObjs[order[i]].name = NoName THEN Denotes("crashed", Null)
                                    ELSE Denotes("var", order[i])
  BY <1>1, <1>3
<1> QED  BY <1>4 DEF order, hits, found

\* Which entities name a variable that exists.
Known(ent) == ent.t = "var" => ent.id \in DOMAIN varObjs

LEMMA DenotesType ==
    /\ \A t \in {"none", "number", "var", "func", "aborted", "crashed"}, id \in Nat : Denotes(t, id) \in Entity
    /\ \A t, id : Denotes(t, id).t = t /\ Denotes(t, id).id = id
  BY DEF Denotes, Entity

\* An operand denotes a number, a variable that exists or a function, or ends
\* the parse.
LEMMA ResolveType ==
    ASSUME OInv, Outward, status = "parsing", stack # <<>>, NEW x
    PROVE  Resolve(x) \in Entity /\ Known(Resolve(x))
<1>1. /\ SearchOrder(currentFunc, currentScope) \in Seq(DOMAIN varObjs)
      /\ DOMAIN varObjs \subseteq Nat /\ DOMAIN funcObjs \subseteq Nat
  BY SearchType, Sizes DEF OInv, Sized
<1> DEFINE v == FindVariable(currentFunc, currentScope, x)
           f == FindFunction(x)
           order == SearchOrder(currentFunc, currentScope)
<1>2. v \in Entity /\ Known(v)
  <2>1. CASE v = Denotes("none", Null)
    BY <2>1, DenotesType DEF Known, Null
  <2>2. CASE \E i \in StopsAt(order, x) :
                 v = IF varObjs[order[i]].name = NoName THEN Denotes("crashed", Null)
                     ELSE Denotes("var", order[i])
    <3>1. PICK i \in DOMAIN order : v = Denotes("crashed", Null) \/ v = Denotes("var", order[i])
      BY <2>2 DEF StopsAt
    <3>2. order[i] \in DOMAIN varObjs
      BY <1>1, <3>1, ElementOfSeq, LenProperties
    <3> HIDE DEF v, order
    <3>3. CASE v = Denotes("crashed", Null)
      BY <3>3, DenotesType DEF Known, Null
    <3>4. CASE v = Denotes("var", order[i])
      BY <1>1, <3>2, <3>4, DenotesType DEF Known
    <3> QED  BY <3>1, <3>3, <3>4
  <2> QED  BY <1>1, <2>1, <2>2, FindStops
<1>3. f \in Entity /\ Known(f)
  <2> DEFINE named == {g \in DOMAIN funcObjs : funcObjs[g].name = x}
             g0 == CHOOSE g \in named : \A h \in named : g <= h
  <2>1. f = IF named = {} THEN Denotes("none", Null) ELSE Denotes("func", g0)
    BY DEF FindFunction
  <2>2. named \in SUBSET Nat
    BY <1>1
  <2> HIDE DEF f, named
  <2>3. CASE named = {}
    BY <2>1, <2>3, DenotesType DEF Known, Null
  <2>4. CASE named # {}
    <3>1. \E g \in named : \A h \in named : g <= h
      BY <2>2, <2>4, LeastOf
    <3>2. g0 \in named
      BY Zenon, <3>1
    <3> HIDE DEF g0
    <3> QED  BY <2>1, <2>2, <2>4, <3>2, DenotesType DEF Known
  <2> QED  BY <2>3, <2>4
<1> HIDE DEF v, f
<1>4. /\ Denotes("number", Null) \in Entity /\ Known(Denotes("number", Null))
      /\ Denotes("aborted", Null) \in Entity /\ Known(Denotes("aborted", Null))
  BY DenotesType DEF Known, Null
<1>5. Resolve(x) = IF x = Number THEN Denotes("number", Null)
                   ELSE IF v.t # "none" THEN v ELSE IF f.t # "none" THEN f ELSE Denotes("aborted", Null)
  BY DEF Resolve, v, f
<1> QED  BY <1>2, <1>3, <1>4, <1>5

LEMMA ResolvedType ==
    ASSUME OInv, Outward, status = "parsing", stack # <<>>, NEW e \in Exprs
    PROVE  LET x == ResolveExpr(e) IN x \in Resolved /\ Known(x.l) /\ Known(x.r) /\ x.op = e.op
<1>1. e.op \in {"read", "inc", "assign"}
  BY ExprsAssumption DEF Expr
<1>2. /\ Resolve(e.l) \in Entity /\ Known(Resolve(e.l)) /\ Resolve(e.r) \in Entity /\ Known(Resolve(e.r))
  BY ResolveType
<1> QED  BY <1>1, <1>2 DEF ResolveExpr, Resolved

(***************************************************************************)
(* What the steps do to outer_block, variables, nodes and const flags.     *)
(***************************************************************************)
\* Only OpenBlock writes an outer_block, and current_scope is an older block.
LEMMA NextOutward ==
    ASSUME IInv, Nested, Reduction, Outward, [Next]_vars
    PROVE  Outward'
<1>1. ASSUME UNCHANGED blockObjs PROVE Outward'
  BY <1>1 DEF Outward
<1>2. ASSUME NEW b, NEW ob, Replaced(blockObjs, blockObjs', b, ob), ob.outer = blockObjs[b].outer
      PROVE  Outward'
  BY <1>2 DEF Outward, Replaced, Sized
<1>3. CASE OpenBlock
  <2>1. PICK ob : Longer(blockObjs, blockObjs', ob) /\ ob.outer = currentScope
    BY <1>3, DoesOpenBlock
  <2>2. currentScope \in 0 .. Len(blockObjs)
    BY DEF IInv, PointersTyped
  <2>3. ASSUME NEW b \in DOMAIN blockObjs' PROVE blockObjs'[b].outer \in 0 .. (b - 1)
    <3>1. CASE b \in DOMAIN blockObjs
      BY <2>1, <3>1 DEF Longer, Outward
    <3>2. CASE b \notin DOMAIN blockObjs
      <4>1. b = Len(blockObjs) + 1 /\ b - 1 = Len(blockObjs) /\ blockObjs'[b] = ob
        BY <2>1, <3>2 DEF Longer, Sized
      <4> QED  BY <2>1, <2>2, <4>1
    <3> QED  BY <3>1, <3>2
  <2> QED  BY <2>3 DEF Outward
<1>4. CASE BlockStatement
  BY <1>2, <1>4, DoesBlockStatement
<1>5. ASSUME Locals PROVE Outward'
  BY <1>2, <1>5 DEF Locals
<1>6. ASSUME NEW n \in Names, Declare(n) PROVE Outward'
  BY <1>1, <1>5, <1>6, DoesDeclare DEF Stop
<1>7. ASSUME NEW n \in Names, NEW e \in Exprs, DeclareInit(n, e) PROVE Outward'
  <2>1. Locals \/ \E why \in {"aborted", "crashed"} : Stop(why)
    BY <1>7, DoesDeclareInit
  <2> QED  BY <1>1, <1>5, <2>1 DEF Stop
<1>8. ASSUME NEW e \in Exprs, ExprStatement(e) PROVE Outward'
  BY <1>1, <1>8, DoesExprStatement DEF Stop
<1>9. ASSUME NEW kind \in {"if", "while"}, NEW e \in Exprs, BeginControl(kind, e) PROVE Outward'
  BY <1>1, <1>9, DoesBeginControl DEF Stop
<1>10. CASE \E n \in Names, ps \in ParamLists : FunctionDeclaration(n, ps)
  BY <1>1, <1>10 DEF FunctionDeclaration
<1>11. CASE \E type \in DeclTypes : BeginDeclaration(type)
  BY <1>1, <1>11 DEF BeginDeclaration
<1>12. CASE FunctionPrototype \/ FunctionDefinition \/ CloseBlock \/ EndDeclaration
  BY <1>1, <1>12 DEF FunctionPrototype, FunctionDefinition, CloseBlock, EndDeclaration
<1>13. CASE Else \/ EndControl \/ Accept \/ SyntaxError \/ UNCHANGED vars
  BY <1>1, <1>13 DEF Else, EndControl, Accept, SyntaxError, Stop, vars
<1> QED
  BY <1>3, <1>4, <1>6, <1>7, <1>8, <1>9, <1>10, <1>11, <1>12, <1>13 DEF Next

\* Variables and statements stay as they were made; a const flag is only lifted.
VarsStay == \A v \in DOMAIN varObjs : v \in DOMAIN varObjs' /\ varObjs'[v] = varObjs[v]
StmtsStay == \A s \in DOMAIN stmtObjs : s \in DOMAIN stmtObjs' /\ stmtObjs'[s] = stmtObjs[s]
ConstLifted == \A t \in DOMAIN typeObjs : typeObjs'[t].const => typeObjs[t].const

LEMMA LongerStays ==
    /\ \A w : Longer(varObjs, varObjs', w) => VarsStay
    /\ \A st : Longer(stmtObjs, stmtObjs', st) => StmtsStay
    /\ varObjs' = varObjs => VarsStay
    /\ stmtObjs' = stmtObjs => StmtsStay
  BY DEF Longer, Sized, VarsStay, StmtsStay

LEMMA NextVarsStay ==
    ASSUME IInv, Nested, [Next]_vars
    PROVE  VarsStay
<1>1. ASSUME UNCHANGED varObjs PROVE VarsStay
  BY <1>1, LongerStays
<1>2. ASSUME Locals PROVE VarsStay
  BY <1>2, LongerStays DEF Locals
<1>3. ASSUME NEW n \in Names, NEW ps \in ParamLists, FunctionDeclaration(n, ps) PROVE VarsStay
  <2> DEFINE params == [i \in DOMAIN ps |-> [name |-> ps[i].name, type |-> Len(typeObjs) + i]]
  <2>1. ps \in Seq(Param) /\ Len(ps) \in Nat /\ DOMAIN ps = 1 .. Len(ps) /\ \A i \in DOMAIN ps : ps[i] \in Param
    BY ParamListsAssumption, LenProperties, ElementOfSeq
  <2>2. varObjs \in Seq(Variable) /\ Len(varObjs) \in Nat /\ DOMAIN varObjs = 1 .. Len(varObjs) /\ Len(typeObjs) \in Nat
    BY LenProperties DEF IInv, PointersTyped
  <2>3. \A i \in DOMAIN ps : [name |-> ps[i].name, type |-> Len(typeObjs) + i] \in Variable
    BY <2>1, <2>2 DEF Variable, Param
  <2>4. params \in [1 .. Len(ps) -> Variable]
    BY <2>1, <2>3
  <2>5. params \in Seq(Variable)
    BY <2>1, <2>4, SeqDef
  <2>6. varObjs' = varObjs \o params
    BY <1>3 DEF FunctionDeclaration
  <2> HIDE DEF params
  <2>7. /\ Len(params) \in Nat /\ DOMAIN (varObjs \o params) = 1 .. Len(varObjs) + Len(params)
        /\ \A i \in 1 .. Len(varObjs) + Len(params) :
               (varObjs \o params)[i] = IF i <= Len(varObjs) THEN varObjs[i] ELSE params[i - Len(varObjs)]
    BY <2>2, <2>5, ConcatShape, LenProperties
  <2>8. \A i \in DOMAIN varObjs : i \in DOMAIN (varObjs \o params) /\ (varObjs \o params)[i] = varObjs[i]
    BY <2>2, <2>7
  <2> QED  BY <2>6, <2>8 DEF VarsStay
<1>4. ASSUME NEW n \in Names, Declare(n) PROVE VarsStay
  BY <1>1, <1>2, <1>4, DoesDeclare DEF Stop
<1>5. ASSUME NEW n \in Names, NEW e \in Exprs, DeclareInit(n, e) PROVE VarsStay
  <2>1. Locals \/ \E why \in {"aborted", "crashed"} : Stop(why)
    BY <1>5, DoesDeclareInit
  <2> QED  BY <1>1, <1>2, <2>1 DEF Stop
<1>6. ASSUME NEW e \in Exprs, ExprStatement(e) PROVE VarsStay
  BY <1>1, <1>6, DoesExprStatement DEF Stop
<1>7. ASSUME NEW kind \in {"if", "while"}, NEW e \in Exprs, BeginControl(kind, e) PROVE VarsStay
  BY <1>1, <1>7, DoesBeginControl DEF Stop
<1>8. CASE FunctionPrototype \/ FunctionDefinition \/ OpenBlock \/ CloseBlock \/ BlockStatement
  BY <1>1, <1>8 DEF FunctionPrototype, FunctionDefinition, OpenBlock, CloseBlock, BlockStatement
<1>9. CASE \/ EndDeclaration \/ Else \/ EndControl \/ Accept \/ SyntaxError \/ UNCHANGED vars
           \/ \E type \in DeclTypes : BeginDeclaration(type)
  BY <1>1, <1>9 DEF EndDeclaration, Else, EndControl, Accept, SyntaxError, Stop, vars, BeginDeclaration
<1> QED
  BY <1>3, <1>4, <1>5, <1>6, <1>7, <1>8, <1>9 DEF Next

LEMMA NextStmtsStay ==
    ASSUME IInv, Nested, [Next]_vars
    PROVE  StmtsStay
<1>1. ASSUME UNCHANGED stmtObjs PROVE StmtsStay
  BY <1>1, LongerStays
<1>2. ASSUME NEW n \in Names, Declare(n) PROVE StmtsStay
  BY <1>1, <1>2, DoesDeclare DEF Stop
<1>3. ASSUME NEW n \in Names, NEW e \in Exprs, DeclareInit(n, e) PROVE StmtsStay
  <2>1. \/ \E why \in {"aborted", "crashed"} : Stop(why)
        \/ UNCHANGED stmtObjs
        \/ \E st : Longer(stmtObjs, stmtObjs', st)
    BY <1>3, DoesDeclareInit
  <2> QED  BY <1>1, <2>1, LongerStays DEF Stop
<1>4. ASSUME NEW e \in Exprs, ExprStatement(e) PROVE StmtsStay
  BY <1>1, <1>4, DoesExprStatement, LongerStays DEF Stop
<1>5. ASSUME NEW kind \in {"if", "while"}, NEW e \in Exprs, BeginControl(kind, e) PROVE StmtsStay
  BY <1>1, <1>5, DoesBeginControl DEF Stop
<1>6. CASE EndControl
  BY <1>6, DoesEndControl, LongerStays
<1>7. CASE FunctionPrototype \/ FunctionDefinition \/ OpenBlock \/ CloseBlock \/ BlockStatement
  BY <1>1, <1>7 DEF FunctionPrototype, FunctionDefinition, OpenBlock, CloseBlock, BlockStatement
<1>8. CASE EndDeclaration \/ Else \/ Accept \/ SyntaxError \/ UNCHANGED vars
  BY <1>1, <1>8 DEF EndDeclaration, Else, Accept, SyntaxError, Stop, vars
<1>9. CASE \/ \E n \in Names, ps \in ParamLists : FunctionDeclaration(n, ps)
           \/ \E type \in DeclTypes : BeginDeclaration(type)
  BY <1>1, <1>9 DEF FunctionDeclaration, BeginDeclaration
<1> QED
  BY <1>2, <1>3, <1>4, <1>5, <1>6, <1>7, <1>8, <1>9 DEF Next

\* Only an initialiser that cannot be assigned leaves its flag lifted.
LEMMA NextConstLifted ==
    ASSUME IInv, Nested, [Next]_vars
    PROVE  ConstLifted
<1>1. ASSUME ConstKept PROVE ConstLifted
  BY <1>1 DEF ConstKept, ConstLifted
<1>2. ASSUME UNCHANGED typeObjs PROVE ConstLifted
  BY <1>2 DEF ConstLifted
<1>3. CASE status' = "parsing"
  BY <1>1, <1>3, NextConst
<1>4. ASSUME NEW n \in Names, NEW e \in Exprs, DeclareInit(n, e), status' # "parsing" PROVE ConstLifted
  <2>1. status = "parsing"
    BY <1>4 DEF DeclareInit, Awaiting
  <2>2. \/ \E why \in {"aborted", "crashed"} : Stop(why)
        \/ typeObjs' = [typeObjs EXCEPT ![declType].const = FALSE]
    BY <1>4, <2>1, DoesDeclareInit
  <2>3. CASE typeObjs' = [typeObjs EXCEPT ![declType].const = FALSE]
    <3>1. \A t \in DOMAIN typeObjs : typeObjs[t] \in [prim: Prims, const: BOOLEAN]
      BY ElementOfSeq, LenProperties DEF IInv, PointersTyped, Type
    <3> QED  BY <2>3, <3>1 DEF ConstLifted
  <2> QED  BY <1>2, <2>2, <2>3 DEF Stop
<1>5. ASSUME NEW n \in Names, Declare(n), status' # "parsing" PROVE ConstLifted
  <2>1. UNCHANGED typeObjs
    BY <1>5 DEF Declare, Stop
  <2> QED  BY <1>2, <2>1
<1>6. ASSUME NEW e \in Exprs, ExprStatement(e) PROVE ConstLifted
  BY <1>2, <1>6, DoesExprStatement DEF Stop
<1>7. ASSUME NEW kind \in {"if", "while"}, NEW e \in Exprs, BeginControl(kind, e) PROVE ConstLifted
  BY <1>2, <1>7, DoesBeginControl DEF Stop
<1>8. CASE Accept \/ SyntaxError \/ UNCHANGED vars
  BY <1>2, <1>8 DEF Accept, SyntaxError, Stop, vars
<1>9. CASE \/ \E n \in Names, ps \in ParamLists : FunctionDeclaration(n, ps)
           \/ \E type \in DeclTypes : BeginDeclaration(type)
           \/ FunctionPrototype \/ FunctionDefinition \/ OpenBlock \/ CloseBlock \/ BlockStatement
           \/ EndDeclaration \/ Else \/ EndControl
  <2>1. status = "parsing" /\ status' = status
    BY <1>9 DEF FunctionDeclaration, BeginDeclaration, FunctionPrototype, FunctionDefinition, OpenBlock,
                CloseBlock, BlockStatement, EndDeclaration, Else, EndControl, Awaiting, Reduced
  <2> QED  BY <1>3, <2>1
<1> QED
  BY <1>3, <1>4, <1>5, <1>6, <1>7, <1>8, <1>9 DEF Next

(***************************************************************************)
(* The expressions that have been accepted.                                *)
(***************************************************************************)
\* They are of their type, and the variables they assign exist.
ExprsHold ==
    /\ exprObjs \in Seq(Resolved) /\ \A x \in DOMAIN exprObjs : Known(exprObjs[x].l)
    /\ ConstNeverAssigned

\* Known and IsConst, of the next state.
KnownNext(ent) == ent.t = "var" => ent.id \in DOMAIN varObjs'
ConstNext(ent) == ent.t = "var" /\ typeObjs'[varObjs'[ent.id].type].const

LEMMA ConstStays ==
    ASSUME IInv, VarsStay, ConstLifted, NEW ent, Known(ent), ~IsConst(ent)
    PROVE  ~ConstNext(ent)
<1> SUFFICES ASSUME ent.t = "var" PROVE ~typeObjs'[varObjs'[ent.id].type].const
  BY DEF ConstNext
<1>1. /\ ent.id \in DOMAIN varObjs /\ varObjs'[ent.id] = varObjs[ent.id]
      /\ varObjs[ent.id].type \in DOMAIN typeObjs
  BY DEF Known, VarsStay, IInv, PointersTyped
<1>2. ~typeObjs[varObjs[ent.id].type].const
  BY DEF IsConst
<1> QED  BY <1>1, <1>2 DEF ConstLifted

LEMMA KnownStays ==
    ASSUME VarsStay, NEW ent, Known(ent)
    PROVE  KnownNext(ent)
  BY DEF Known, KnownNext, VarsStay

\* An initialiser stays one.
LEMMA InitialisersStay == ASSUME StmtsStay PROVE Initialisers \subseteq Initialisers'
  BY DEF StmtsStay, Initialisers

\* The next expressions, one by one.
LEMMA ExprsNext ==
    ASSUME exprObjs' \in Seq(Resolved),
           \A x \in DOMAIN exprObjs' : KnownNext(exprObjs'[x].l),
           \A x \in DOMAIN exprObjs' \ Initialisers' :
               exprObjs'[x].op = "assign" => ~ConstNext(exprObjs'[x].l)
    PROVE  ExprsHold'
<1>1. \A x \in DOMAIN exprObjs' : exprObjs'[x].l.t = "var" => exprObjs'[x].l.id \in DOMAIN varObjs'
  BY DEF KnownNext
<1>2. ConstNeverAssigned'
  BY DEF ConstNeverAssigned, IsConst, ConstNext
<1> QED  BY <1>1, <1>2 DEF ExprsHold, Known

\* The old ones go on holding.
LEMMA OldExprs ==
    ASSUME IInv, ExprsHold, VarsStay, StmtsStay, ConstLifted, NEW x \in DOMAIN exprObjs
    PROVE  /\ KnownNext(exprObjs[x].l)
           /\ x \notin Initialisers' /\ exprObjs[x].op = "assign" => ~ConstNext(exprObjs[x].l)
<1> DEFINE ent == exprObjs[x].l
<1>1. Known(ent)
  BY DEF ExprsHold
<1>2. ASSUME x \notin Initialisers', exprObjs[x].op = "assign" PROVE ~IsConst(ent)
  BY <1>2, InitialisersStay DEF ExprsHold, ConstNeverAssigned
<1> HIDE DEF ent
<1>3. KnownNext(ent)
  BY <1>1, KnownStays
<1>4. ~IsConst(ent) => ~ConstNext(ent)
  BY <1>1, ConstStays
<1> QED  BY <1>2, <1>3, <1>4 DEF ent

LEMMA ExprsStay ==
    ASSUME IInv, ExprsHold, VarsStay, StmtsStay, ConstLifted, UNCHANGED exprObjs
    PROVE  ExprsHold'
<1>1. exprObjs' \in Seq(Resolved)
  BY DEF ExprsHold
<1> QED  BY <1>1, OldExprs, ExprsNext

LEMMA ExprAdded ==
    ASSUME IInv, ExprsHold, VarsStay, StmtsStay, ConstLifted,
           NEW y \in Resolved, exprObjs' = Append(exprObjs, y), KnownNext(y.l),
           \/ y.op = "assign" => ~ConstNext(y.l)
           \/ Len(exprObjs) + 1 \in Initialisers'
    PROVE  ExprsHold'
<1> DEFINE k == Len(exprObjs) + 1
<1>1. exprObjs \in Seq(Resolved)
  BY DEF ExprsHold
<1>2. Longer(exprObjs, exprObjs', y) /\ exprObjs' \in Seq(Resolved)
  BY <1>1, LongerAppend, AppendProperties
<1>3. /\ \A x : x \in DOMAIN exprObjs' <=> x \in DOMAIN exprObjs \/ x = k
      /\ exprObjs'[k] = y /\ \A x \in DOMAIN exprObjs : exprObjs'[x] = exprObjs[x]
  BY <1>2 DEF Longer, Sized
<1> HIDE DEF k
<1>4. \A x \in DOMAIN exprObjs' : KnownNext(exprObjs'[x].l)
  BY <1>3, OldExprs
<1>5. \A x \in DOMAIN exprObjs' \ Initialisers' :
          exprObjs'[x].op = "assign" => ~ConstNext(exprObjs'[x].l)
  BY <1>3, OldExprs DEF k
<1> QED  BY <1>2, <1>4, <1>5, ExprsNext

\* A statement or condition that assigns was let through by the const check.
LEMMA AcceptedHolds ==
    ASSUME OInv, Outward, ExprsHold, VarsStay, StmtsStay, ConstLifted,
           status = "parsing", stack # <<>>, NEW e \in Exprs,
           Outcome(ResolveExpr(e)) = "parsing", exprObjs' = Append(exprObjs, ResolveExpr(e)),
           UNCHANGED <<typeObjs, varObjs>>
    PROVE  ExprsHold'
<1> DEFINE x == ResolveExpr(e)
<1>1. x \in Resolved /\ Known(x.l) /\ x.op = e.op
  BY ResolvedType
<1>2. Outcome(x) = "parsing" /\ exprObjs' = Append(exprObjs, x) /\ e.op \in {"read", "inc", "assign"}
  BY ExprsAssumption DEF Expr
<1> HIDE DEF x
<1>3. x.op = "assign" => ~IsConst(x.l)
  BY <1>1, <1>2 DEF Outcome, OpAccepted
<1>4. KnownNext(x.l) /\ (x.op = "assign" => ~ConstNext(x.l))
  BY <1>1, <1>3, KnownStays DEF IsConst, ConstNext
<1> QED  BY <1>1, <1>2, <1>4, ExprAdded DEF OInv

LEMMA ExprStatementHoldsExprs ==
    ASSUME OInv, Outward, ExprsHold, VarsStay, StmtsStay, ConstLifted,
           NEW e \in Exprs, ExprStatement(e)
    PROVE  ExprsHold'
<1> DEFINE x == ResolveExpr(e)
<1>1. /\ status = "parsing" /\ stack # <<>>
      /\ \/ UNCHANGED exprObjs
         \/ /\ Outcome(x) = "parsing" /\ exprObjs' = Append(exprObjs, x)
            /\ UNCHANGED <<typeObjs, varObjs>>
  BY DEF ExprStatement, Awaiting, Stop
<1> QED  BY <1>1, ExprsStay, AcceptedHolds DEF OInv

LEMMA BeginControlHoldsExprs ==
    ASSUME OInv, Outward, ExprsHold, VarsStay, StmtsStay, ConstLifted,
           NEW kind \in {"if", "while"}, NEW e \in Exprs, BeginControl(kind, e)
    PROVE  ExprsHold'
<1> DEFINE x == ResolveExpr(e)
<1>1. /\ status = "parsing" /\ stack # <<>>
      /\ \/ UNCHANGED exprObjs
         \/ /\ Outcome(x) = "parsing" /\ exprObjs' = Append(exprObjs, x)
            /\ UNCHANGED <<typeObjs, varObjs>>
  BY DEF BeginControl, Awaiting, Stop
<1> QED  BY <1>1, ExprsStay, AcceptedHolds DEF OInv

\* The assignment an initialiser makes is the one that may assign a const variable.
LEMMA DeclareInitHoldsExprs ==
    ASSUME OInv, Outward, ExprsHold, VarsStay, StmtsStay, ConstLifted,
           NEW n \in Names, NEW e \in Exprs, DeclareInit(n, e)
    PROVE  ExprsHold'
<1> DEFINE v == Len(varObjs) + 1
           y == [op |-> "assign", l |-> Denotes("var", v), r |-> ResolveExpr(e).l]
           st == [kind |-> "init", expr |-> NewExpr, body |-> NoNode, alt |-> NoNode]
<1>1. /\ status = "parsing" /\ stack # <<>>
      /\ \/ UNCHANGED exprObjs
         \/ AddLocal(n) /\ exprObjs' = Append(exprObjs, y) /\ stmtObjs' = Append(stmtObjs, st)
  BY Zenon DEF DeclareInit, Awaiting, Stop, NewStmt
<1>2. CASE UNCHANGED exprObjs
  BY <1>2, ExprsStay DEF OInv
<1>3. CASE AddLocal(n) /\ exprObjs' = Append(exprObjs, y) /\ stmtObjs' = Append(stmtObjs, st)
  <2>1. ResolveExpr(e).l \in Entity /\ v \in Nat
    BY <1>1, ResolvedType, Sizes DEF Resolved, OInv, Sized
  <2>2. Denotes("var", v) \in Entity /\ Denotes("var", v).id = v
    BY <2>1, DenotesType
  <2>3. y \in Resolved /\ y.l = Denotes("var", v)
    BY <2>1, <2>2 DEF Resolved
  <2>4. v \in DOMAIN varObjs'
    <3>1. varObjs \in Seq(Variable) /\ varObjs' = Append(varObjs, [name |-> n, type |-> declType])
      BY <1>3 DEF AddLocal, OInv, IInv, PointersTyped
    <3>2. [name |-> n, type |-> declType] \in Variable
      BY LenProperties DEF OInv, IInv, PointersTyped, Variable
    <3>3. Longer(varObjs, varObjs', [name |-> n, type |-> declType])
      BY <3>1, <3>2, LongerAppend
    <3> QED  BY <3>3 DEF Longer, Sized
  <2>5. NewExpr \in Initialisers'
    <3>1. stmtObjs \in Seq(Stmt) /\ st \in Stmt
      BY NewExprType DEF OInv, IInv, PointersTyped, Stmt, Node, NoNode, Null
    <3>2. st.kind = "init" /\ st.expr = NewExpr /\ stmtObjs' = Append(stmtObjs, st)
      BY <1>3
    <3> HIDE DEF st
    <3>3. Longer(stmtObjs, stmtObjs', st)
      BY <3>1, <3>2, LongerAppend
    <3> QED  BY <3>2, <3>3 DEF Longer, Sized, Initialisers
  <2>6. KnownNext(y.l)
    BY <2>2, <2>3, <2>4 DEF KnownNext
  <2> HIDE DEF y, v, st
  <2>7. Len(exprObjs) + 1 \in Initialisers'
    BY <2>5 DEF NewExpr
  <2> QED  BY <1>3, <2>3, <2>6, <2>7, ExprAdded DEF OInv
<1> QED  BY <1>1, <1>2, <1>3

LEMMA NextExprs ==
    ASSUME OInv, Outward, ExprsHold, [Next]_vars
    PROVE  ExprsHold'
<1>1. IInv /\ Nested /\ VarsStay /\ StmtsStay /\ ConstLifted
  BY NextVarsStay, NextStmtsStay, NextConstLifted DEF OInv
<1>2. ASSUME UNCHANGED exprObjs PROVE ExprsHold'
  BY <1>1, <1>2, ExprsStay
<1>3. ASSUME NEW n \in Names, NEW e \in Exprs, DeclareInit(n, e) PROVE ExprsHold'
  BY <1>1, <1>3, DeclareInitHoldsExprs
<1>4. ASSUME NEW e \in Exprs, ExprStatement(e) PROVE ExprsHold'
  BY <1>1, <1>4, ExprStatementHoldsExprs
<1>5. ASSUME NEW kind \in {"if", "while"}, NEW e \in Exprs, BeginControl(kind, e) PROVE ExprsHold'
  BY <1>1, <1>5, BeginControlHoldsExprs
<1>6. ASSUME NEW n \in Names, Declare(n) PROVE ExprsHold'
  BY <1>2, <1>6 DEF Declare, Stop
<1>7. CASE FunctionPrototype \/ FunctionDefinition \/ OpenBlock \/ CloseBlock \/ BlockStatement
  BY <1>2, <1>7 DEF FunctionPrototype, FunctionDefinition, OpenBlock, CloseBlock, BlockStatement
<1>8. CASE EndDeclaration \/ Else \/ EndControl \/ Accept \/ SyntaxError \/ UNCHANGED vars
  BY <1>2, <1>8 DEF EndDeclaration, Else, EndControl, Accept, SyntaxError, Stop, vars
<1>9. CASE \/ \E n \in Names, ps \in ParamLists : FunctionDeclaration(n, ps)
           \/ \E type \in DeclTypes : BeginDeclaration(type)
  BY <1>2, <1>9 DEF FunctionDeclaration, BeginDeclaration
<1> QED
  BY <1>3, <1>4, <1>5, <1>6, <1>7, <1>8, <1>9 DEF Next

(***************************************************************************)
(* Lexical scoping.                                                        *)
(***************************************************************************)
\* v is the first of `order' that is named n; none of `order' is.
IsFirst(order, n, v) ==
    \E i \in DOMAIN order : /\ order[i] = v /\ varObjs[v].name = n
                            /\ \A j \in DOMAIN order : j < i => varObjs[order[j]].name # n
NoneNamed(order, n) == \A i \in DOMAIN order : varObjs[order[i]].name # n

LEMMA FirstNamedIs ==
    ASSUME NEW V \in SUBSET (Nat \ {0}), NEW order \in Seq(V), NEW n
    PROVE  /\ NoneNamed(order, n) <=> FirstNamed(order, n) = Null
           /\ \A v : IsFirst(order, n, v) => FirstNamed(order, n) = v
           /\ FirstNamed(order, n) # Null => IsFirst(order, n, FirstNamed(order, n))
<1> DEFINE named == {i \in DOMAIN order : varObjs[order[i]].name = n}
           least == CHOOSE i \in named : \A j \in named : i <= j
<1>1. FirstNamed(order, n) = IF named = {} THEN Null ELSE order[least]
  BY DEF FirstNamed
<1>2. named \in SUBSET Nat /\ \A i : i \in named <=> i \in DOMAIN order /\ varObjs[order[i]].name = n
  <2>1. DOMAIN order \subseteq Nat
    BY LenProperties
  <2> QED  BY <2>1
<1>3. \A i \in DOMAIN order : order[i] \in V /\ order[i] # Null
  BY ElementOfSeq, LenProperties DEF Null
<1> HIDE DEF named
<1>4. named # {} => least \in named /\ \A j \in named : least <= j
  <2> SUFFICES ASSUME named # {} PROVE least \in named /\ \A j \in named : least <= j
    OBVIOUS
  <2>1. \E i \in named : \A j \in named : i <= j
    BY <1>2, LeastOf
  <2> QED  BY Zenon, <2>1
<1> HIDE DEF least
<1>5. NoneNamed(order, n) <=> named = {}
  BY <1>2 DEF NoneNamed
<1>6. named # {} => FirstNamed(order, n) # Null
  BY <1>1, <1>2, <1>3, <1>4
<1>7. named # {} => IsFirst(order, n, FirstNamed(order, n))
  BY <1>1, <1>2, <1>4 DEF IsFirst
<1>8. ASSUME NEW v, IsFirst(order, n, v) PROVE FirstNamed(order, n) = v
  <2>1. PICK i \in DOMAIN order : /\ order[i] = v /\ varObjs[v].name = n
                                  /\ \A j \in DOMAIN order : j < i => varObjs[order[j]].name # n
    BY <1>8 DEF IsFirst
  <2>2. i \in named /\ \A j \in named : ~(j < i)
    BY <1>2, <2>1
  <2>3. i = least
    BY <1>2, <1>4, <2>2
  <2> QED  BY <1>1, <2>1, <2>2, <2>3
<1> QED  BY <1>1, <1>5, <1>6, <1>7, <1>8

\* The first of two lists is the first of the one, else of the other.
LEMMA FirstOfBoth ==
    ASSUME NEW V \in SUBSET (Nat \ {0}), NEW a \in Seq(V), NEW b \in Seq(V), NEW n
    PROVE  FirstNamed(a \o b, n) = IF FirstNamed(a, n) # Null THEN FirstNamed(a, n) ELSE FirstNamed(b, n)
<1> DEFINE c == a \o b
<1>1. /\ c \in Seq(V) /\ DOMAIN c = 1 .. Len(a) + Len(b) /\ DOMAIN a = 1 .. Len(a) /\ DOMAIN b = 1 .. Len(b)
      /\ Len(a) \in Nat /\ Len(b) \in Nat
      /\ \A i \in 1 .. Len(a) + Len(b) : c[i] = IF i <= Len(a) THEN a[i] ELSE b[i - Len(a)]
  BY ConcatShape, LenProperties
<1> HIDE DEF c
<1>2. /\ \A i \in DOMAIN a : i \in DOMAIN c /\ c[i] = a[i]
      /\ \A j \in DOMAIN b : Len(a) + j \in DOMAIN c /\ c[Len(a) + j] = b[j]
      /\ \A i \in DOMAIN c : i \notin DOMAIN a => i - Len(a) \in DOMAIN b /\ i = Len(a) + (i - Len(a))
  BY <1>1
<1>3. CASE FirstNamed(a, n) # Null
  <2> DEFINE v == FirstNamed(a, n)
  <2>1. IsFirst(a, n, v)
    BY <1>3, FirstNamedIs
  <2> HIDE DEF v
  <2>2. PICK i \in DOMAIN a : /\ a[i] = v /\ varObjs[v].name = n
                              /\ \A j \in DOMAIN a : j < i => varObjs[a[j]].name # n
    BY <2>1 DEF IsFirst
  <2>3. \A j \in DOMAIN c : j < i => j \in DOMAIN a /\ c[j] = a[j]
    BY <1>1, <1>2
  <2>4. IsFirst(c, n, v)
    BY <1>2, <2>2, <2>3 DEF IsFirst
  <2> QED  BY <1>1, <1>3, <2>4, FirstNamedIs DEF v, c
<1>4. CASE FirstNamed(a, n) = Null
  <2>1. NoneNamed(a, n)
    BY <1>4, FirstNamedIs
  <2>2. CASE FirstNamed(b, n) = Null
    <3>1. NoneNamed(b, n)
      BY <2>2, FirstNamedIs
    <3>2. NoneNamed(c, n)
      BY <1>2, <2>1, <3>1 DEF NoneNamed
    <3> QED  BY <1>1, <1>4, <2>2, <3>2, FirstNamedIs DEF c
  <2>3. CASE FirstNamed(b, n) # Null
    <3> DEFINE v == FirstNamed(b, n)
    <3>1. IsFirst(b, n, v)
      BY <2>3, FirstNamedIs
    <3> HIDE DEF v
    <3>2. PICK i \in DOMAIN b : /\ b[i] = v /\ varObjs[v].name = n
                                /\ \A j \in DOMAIN b : j < i => varObjs[b[j]].name # n
      BY <3>1 DEF IsFirst
    <3>3. Len(a) + i \in DOMAIN c /\ c[Len(a) + i] = v
      BY <1>2, <3>2
    <3>4. ASSUME NEW j \in DOMAIN c, j < Len(a) + i PROVE varObjs[c[j]].name # n
      <4>1. CASE j \in DOMAIN a
        BY <1>2, <2>1, <4>1 DEF NoneNamed
      <4>2. CASE j \notin DOMAIN a
        <5>1. j - Len(a) \in DOMAIN b /\ j - Len(a) < i /\ c[j] = b[j - Len(a)]
          BY <1>1, <1>2, <3>2, <3>4, <4>2
        <5> QED  BY <3>2, <5>1
      <4> QED  BY <4>1, <4>2
    <3>5. IsFirst(c, n, v)
      BY <3>2, <3>3, <3>4 DEF IsFirst
    <3> QED  BY <1>1, <1>4, <3>5, FirstNamedIs DEF v, c
  <2> QED  BY <2>2, <2>3
<1> QED  BY <1>3, <1>4

\* The open block of frame i declares n.
Declares(i, n) ==
    /\ i \in DOMAIN stack /\ IsBlockFrame(stack[i])
    /\ FirstNamed(blockObjs[stack[i].id].variables, n) # Null

\* v is what the innermost of the first k frames that declares n declares.
UpTo(k, n, v) ==
    \/ v = Null /\ \A i : Declares(i, n) => i > k
    \/ \E i : /\ Declares(i, n) /\ i <= k /\ v = FirstNamed(blockObjs[stack[i].id].variables, n)
              /\ \A j : Declares(j, n) /\ j <= k => j <= i

\* One step of the walk: from the block of frame i to the ones around it.
LEMMA UpOne ==
    ASSUME Sized(stack), NEW k \in 0 .. Len(stack), NEW n, NEW i \in 1 .. k, IsBlockFrame(stack[i]),
           \A j \in (i + 1) .. k : ~IsBlockFrame(stack[j]),
           NEW around, UpTo(i - 1, n, around)
    PROVE  LET own == FirstNamed(blockObjs[stack[i].id].variables, n)
           IN  UpTo(k, n, IF own # Null THEN own ELSE around)
<1> DEFINE own == FirstNamed(blockObjs[stack[i].id].variables, n)
<1>1. i \in DOMAIN stack /\ i \in Nat /\ k \in Nat /\ i <= k /\ DOMAIN stack = 1 .. Len(stack) /\ Len(stack) \in Nat
  BY DEF Sized
<1>2. \A j : Declares(j, n) => j \in Nat /\ (j <= k => j <= i)
  BY <1>1 DEF Declares
<1>3. Declares(i, n) <=> own # Null
  BY <1>1 DEF Declares
<1>4. CASE own # Null
  BY <1>1, <1>2, <1>3, <1>4 DEF UpTo
<1>5. CASE own = Null
  <2>1. \A j : Declares(j, n) => (j <= k <=> j <= i - 1)
    BY <1>1, <1>2, <1>3, <1>5
  <2>2. CASE around = Null /\ \A j : Declares(j, n) => j > i - 1
    BY <1>1, <1>2, <1>5, <2>1, <2>2 DEF UpTo
  <2>3. CASE \E m : /\ Declares(m, n) /\ m <= i - 1
                    /\ around = FirstNamed(blockObjs[stack[m].id].variables, n)
                    /\ \A j : Declares(j, n) /\ j <= i - 1 => j <= m
    <3>1. PICK m : /\ Declares(m, n) /\ m <= i - 1
                   /\ around = FirstNamed(blockObjs[stack[m].id].variables, n)
                   /\ \A j : Declares(j, n) /\ j <= i - 1 => j <= m
      BY <2>3
    <3>2. m <= k /\ \A j : Declares(j, n) /\ j <= k => j <= m
      BY <2>1, <3>1
    <3>3. UpTo(k, n, around)
      BY <3>1, <3>2 DEF UpTo
    <3> QED  BY Zenon, <1>5, <3>3
  <2> QED  BY <2>2, <2>3 DEF UpTo
<1> QED  BY <1>4, <1>5

\* The walk from the innermost of the first k frames' blocks finds what the
\* innermost of them that declares the name declares.
LEMMA WalkFinds ==
    ASSUME OInv, Outward, status = "parsing", NEW n
    PROVE  \A k \in 0 .. Len(stack) : \A s :
               IsInnermost(stack, s, k) => UpTo(k, n, FirstNamed(ScopeOrder[s], n))
<1> DEFINE Bad(k) == \E s : IsInnermost(stack, s, k) /\ ~UpTo(k, n, FirstNamed(ScopeOrder[s], n))
           S == {k \in 0 .. Len(stack) : Bad(k)}
           V == DOMAIN varObjs
<1>1. SUFFICES ASSUME S # {} PROVE FALSE
  OBVIOUS
<1>2. /\ Sized(stack) /\ Sized(blockObjs) /\ Sized(varObjs) /\ IInv /\ VarsOwned
      /\ DOMAIN stack = 1 .. Len(stack)
  BY Sizes DEF OInv, Sized
<1>3. S \in SUBSET Nat
  BY <1>2 DEF Sized
<1>4. \A k : k \in S <=> k \in 0 .. Len(stack) /\ Bad(k)
  OBVIOUS
<1> HIDE DEF S
<1>5. PICK k \in S : \A j \in S : k <= j
  BY <1>1, <1>3, LeastOf
<1>6. PICK s : IsInnermost(stack, s, k) /\ ~UpTo(k, n, FirstNamed(ScopeOrder[s], n))
  BY <1>4, <1>5
<1>7. k \in 0 .. Len(stack) /\ k \in Nat
  BY <1>3, <1>4, <1>5
<1>8. V \in SUBSET (Nat \ {0}) /\ \A b \in DOMAIN blockObjs : blockObjs[b].variables \in Seq(V)
  BY <1>2, ListsType DEF Sized
<1> HIDE DEF V
<1>9. \A b \in 0 .. Len(blockObjs) : ScopeOrder[b] \in Seq(V)
  BY <1>2, <1>8, WalksType
<1>10. CASE s = Null /\ \A j \in 1 .. k : ~IsBlockFrame(stack[j])
  <2>1. ScopeOrder[s] = <<>> /\ DOMAIN ScopeOrder[s] = {}
    BY <1>2, <1>10, ScopeOrderWalks
  <2>2. FirstNamed(ScopeOrder[s], n) = Null
    BY <2>1 DEF FirstNamed
  <2>3. \A j : Declares(j, n) => j > k
    BY <1>2, <1>7, <1>10 DEF Declares, Sized
  <2> QED  BY <1>6, <2>2, <2>3 DEF UpTo
<1>11. CASE \E i \in 1 .. k : /\ IsBlockFrame(stack[i]) /\ stack[i].id = s
                              /\ \A j \in (i + 1) .. k : ~IsBlockFrame(stack[j])
  <2>1. PICK i \in 1 .. k : /\ IsBlockFrame(stack[i]) /\ stack[i].id = s
                            /\ \A j \in (i + 1) .. k : ~IsBlockFrame(stack[j])
    BY <1>11
  <2>2. i \in DOMAIN stack /\ i - 1 \in 0 .. Len(stack) /\ ~(k <= i - 1)
    BY <1>2, <1>7, <2>1 DEF Sized
  <2>3. s \in DOMAIN blockObjs
    BY <1>2, <2>1, <2>2 DEF IInv, Chain, FrameShape, IsBlockFrame
  <2> DEFINE outer == blockObjs[s].outer
  <2>4. IsInnermost(stack, outer, i - 1)
    BY <1>2, <2>1, <2>2 DEF IInv, Chain, ScopeChain
  <2>5. outer \in 0 .. Len(blockObjs)
    BY <1>2, <2>3 DEF Outward, Sized
  <2>6. ~Bad(i - 1)
    BY <1>4, <1>5, <2>2
  <2>7. UpTo(i - 1, n, FirstNamed(ScopeOrder[outer], n))
    BY <2>4, <2>6
  <2>8. ScopeOrder[s] = blockObjs[s].variables \o ScopeOrder[outer]
    BY <1>2, <2>3, ScopeOrderWalks
  <2> DEFINE own == FirstNamed(blockObjs[s].variables, n)
             around == FirstNamed(ScopeOrder[outer], n)
  <2>9. FirstNamed(ScopeOrder[s], n) = IF own # Null THEN own ELSE around
    <3>1. blockObjs[s].variables \in Seq(V) /\ ScopeOrder[outer] \in Seq(V)
      BY <1>8, <1>9, <2>3, <2>5
    <3> HIDE DEF outer
    <3>2. FirstNamed(blockObjs[s].variables \o ScopeOrder[outer], n) = IF own # Null THEN own ELSE around
      BY <1>8, <3>1, FirstOfBoth
    <3> QED  BY Zenon, <2>8, <3>2
  <2> HIDE DEF outer, around
  <2>10. UpTo(i - 1, n, around)
    BY <2>7 DEF around
  <2>11. UpTo(k, n, IF own # Null THEN own ELSE around)
    BY <1>2, <1>7, <2>1, <2>10, UpOne
  <2> QED  BY <1>6, <2>9, <2>11
<1> QED  BY <1>6, <1>10, <1>11 DEF IsInnermost

\* What a lookup finds, unless an unnamed parameter stops it, is the first
\* variable with the name in the order it searches.
LEMMA FindsFirst ==
    ASSUME NEW V \in SUBSET (Nat \ {0}), NEW func, NEW scope, NEW n,
           SearchOrder(func, scope) \in Seq(V), FindVariable(func, scope, n).t # "crashed"
    PROVE  FindVariable(func, scope, n).id = FirstNamed(SearchOrder(func, scope), n)
<1> DEFINE order == SearchOrder(func, scope)
           found == FindVariable(func, scope, n)
<1>1. order \in Seq(V) /\ found.t # "crashed" /\ DOMAIN order \subseteq Nat
  BY LenProperties
<1>2. \/ StopsAt(order, n) = {} /\ found = Denotes("none", Null)
      \/ \E i \in StopsAt(order, n) :
             /\ \A j \in StopsAt(order, n) : i <= j
             /\ found = IF varObjs[order[i]].name = NoName THEN Denotes("crashed", Null)
                        ELSE Denotes("var", order[i])
  BY FindStops
<1>3. \A i : i \in StopsAt(order, n) <=> i \in DOMAIN order /\ varObjs[order[i]].name \in {n, NoName}
  BY DEF StopsAt
<1> HIDE DEF order, found
<1>4. CASE StopsAt(order, n) = {} /\ found = Denotes("none", Null)
  <2>1. NoneNamed(order, n)
    BY <1>3, <1>4 DEF NoneNamed
  <2>2. found.id = Null
    BY <1>4, DenotesType
  <2> QED  BY <1>1, <2>1, <2>2, FirstNamedIs DEF order, found
<1>5. CASE \E i \in StopsAt(order, n) :
               /\ \A j \in StopsAt(order, n) : i <= j
               /\ found = IF varObjs[order[i]].name = NoName THEN Denotes("crashed", Null)
                          ELSE Denotes("var", order[i])
  <2>1. PICK i \in StopsAt(order, n) :
               /\ \A j \in StopsAt(order, n) : i <= j
               /\ found = IF varObjs[order[i]].name = NoName THEN Denotes("crashed", Null)
                          ELSE Denotes("var", order[i])
    BY <1>5
  <2>2. varObjs[order[i]].name # NoName
    BY <1>1, <2>1, DenotesType
  <2>3. varObjs[order[i]].name = n /\ i \in DOMAIN order /\ found.id = order[i]
    BY <1>3, <2>1, <2>2, DenotesType
  <2>4. ASSUME NEW j \in DOMAIN order, j < i PROVE varObjs[order[j]].name # n
    <3>1. j \in Nat /\ i \in Nat
      BY <1>1, <2>3
    <3>2. j \notin StopsAt(order, n)
      BY <2>1, <2>4, <3>1
    <3> QED  BY <1>3, <3>2
  <2>5. IsFirst(order, n, found.id)
    BY <2>3, <2>4 DEF IsFirst
  <2> QED  BY <1>1, <2>5, FirstNamedIs DEF order, found
<1> QED  BY <1>2, <1>4, <1>5

\* C's scoping, from the walk of all frames.
LEMMA LexicalIs ==
    ASSUME NEW n, NEW v, UpTo(Len(stack), n, v), Sized(stack)
    PROVE  LexicalVariable(n) = IF v # Null THEN v ELSE FirstNamed(funcObjs[currentFunc].params, n)
<1> DEFINE declares == {i \in DOMAIN stack : IsBlockFrame(stack[i])
                           /\ FirstNamed(blockObjs[stack[i].id].variables, n) # Null}
           last == CHOOSE i \in declares : \A j \in declares : j <= i
<1>1. LexicalVariable(n) = IF declares # {} THEN FirstNamed(blockObjs[stack[last].id].variables, n)
                           ELSE FirstNamed(funcObjs[currentFunc].params, n)
  BY DEF LexicalVariable
<1>2. \A i : i \in declares <=> Declares(i, n)
  BY DEF Declares
<1>3. \A i : Declares(i, n) => i <= Len(stack) /\ ~(i > Len(stack)) /\ i \in Nat
  BY DEF Declares, Sized
<1> HIDE DEF declares
<1>4. CASE v = Null /\ \A i : Declares(i, n) => i > Len(stack)
  <2>1. declares = {}
    BY <1>2, <1>3, <1>4
  <2> QED  BY <1>1, <1>4, <2>1
<1>5. CASE \E i : /\ Declares(i, n) /\ i <= Len(stack) /\ v = FirstNamed(blockObjs[stack[i].id].variables, n)
                  /\ \A j : Declares(j, n) /\ j <= Len(stack) => j <= i
  <2>1. PICK i : /\ Declares(i, n) /\ i <= Len(stack) /\ v = FirstNamed(blockObjs[stack[i].id].variables, n)
                 /\ \A j : Declares(j, n) /\ j <= Len(stack) => j <= i
    BY <1>5
  <2>2. i \in declares /\ \A j \in declares : j <= i
    BY <1>2, <1>3, <2>1
  <2>3. last \in declares /\ \A j \in declares : j <= last
    BY Zenon, <2>2
  <2>4. last = i
    BY <1>2, <1>3, <2>2, <2>3
  <2>5. v # Null
    BY <2>1 DEF Declares
  <2> HIDE DEF last
  <2> QED  BY <1>1, <2>1, <2>2, <2>4, <2>5
<1> QED  BY <1>4, <1>5 DEF UpTo

LEMMA LookupIsLexical == ASSUME OInv, Outward PROVE ResolvesLexically
<1> SUFFICES ASSUME status = "parsing", stack # <<>>, NEW n \in Names,
                    FindVariable(currentFunc, currentScope, n).t # "crashed"
             PROVE  FindVariable(currentFunc, currentScope, n).id = LexicalVariable(n)
  BY DEF ResolvesLexically
<1> DEFINE V == DOMAIN varObjs
           a == ScopeOrder[currentScope]
           b == funcObjs[currentFunc].params
<1>1. Sized(stack) /\ Sized(varObjs) /\ IsInnermost(stack, currentScope, Len(stack))
  BY Sizes DEF OInv, IInv, Chain, ScopeChain
<1>2. V \in SUBSET (Nat \ {0}) /\ Len(stack) \in 0 .. Len(stack)
  BY <1>1 DEF Sized
<1>3. SearchOrder(currentFunc, currentScope) \in Seq(V) /\ a \in Seq(V) /\ b \in Seq(V)
  BY SearchType
<1>4. SearchOrder(currentFunc, currentScope) = a \o b
  BY DEF SearchOrder
<1>5. UpTo(Len(stack), n, FirstNamed(a, n))
  BY <1>1, <1>2, WalkFinds
<1> HIDE DEF V
<1>6. FindVariable(currentFunc, currentScope, n).id = FirstNamed(SearchOrder(currentFunc, currentScope), n)
  BY <1>2, <1>3, FindsFirst
<1> HIDE DEF a
<1>7. FirstNamed(a \o b, n) = IF FirstNamed(a, n) # Null THEN FirstNamed(a, n) ELSE FirstNamed(b, n)
  BY <1>2, <1>3, FirstOfBoth
<1>8. LexicalVariable(n) = IF FirstNamed(a, n) # Null THEN FirstNamed(a, n) ELSE FirstNamed(b, n)
  BY <1>1, <1>5, LexicalIs
<1> QED  BY <1>4, <1>6, <1>7, <1>8

(***************************************************************************)
(* The theorems.                                                           *)
(***************************************************************************)
\* The inductive invariant: what is owned, that walks end, and the expressions.
LInv == OInv /\ Outward /\ ExprsHold

LEMMA InitLInv == Init => LInv
<1> SUFFICES ASSUME Init PROVE LInv
  OBVIOUS
<1>1. OInv /\ DOMAIN blockObjs = {} /\ DOMAIN exprObjs = {} /\ exprObjs \in Seq(Resolved)
  BY InitOInv DEF Init
<1> QED  BY <1>1 DEF LInv, Outward, ExprsHold, ConstNeverAssigned

LEMMA NextLInv == LInv /\ [Next]_vars => LInv'
  BY NextOInv, NextOutward, NextExprs DEF LInv, OInv

\* LInv holds in every state of every parse.
THEOREM LookupInductive == Spec => []LInv
<1> QED  BY InitLInv, NextLInv, PTL DEF Spec

LEMMA InRange == ASSUME LInv PROVE PointersInRange
<1>1. ASSUME NEW lists, NEW o \in DOMAIN lists, \A v : OnList(lists, v) => v \in DOMAIN varObjs
      PROVE  AllIn(lists[o], varObjs)
  BY <1>1 DEF AllIn, OnList, At
<1>2. /\ \A v : OnList(BlockLists, v) => v \in DOMAIN varObjs
      /\ \A v : OnList(ParamListsOf, v) => v \in DOMAIN varObjs
      /\ \A v : OnList(LocalLists, v) => v \in DOMAIN varObjs
  BY DEF LInv, OInv, VarsOwned
<1>3. ASSUME NEW b \in DOMAIN blockObjs
      PROVE  /\ blockObjs[b].outer \in 0 .. (b - 1)
             /\ AllIn(blockObjs[b].variables, varObjs) /\ AllIn(blockObjs[b].entries, stmtObjs)
  <2>1. b \in DOMAIN BlockLists /\ BlockLists[b] = blockObjs[b].variables
    BY DEF BlockLists
  <2>2. AllIn(BlockLists[b], varObjs)
    BY <1>1, <1>2, <2>1
  <2>3. AllIn(blockObjs[b].entries, stmtObjs)
    BY DEF AllIn, LInv, OInv, EntriesOlder
  <2> QED  BY <2>1, <2>2, <2>3 DEF LInv, Outward
<1>4. ASSUME NEW f \in DOMAIN funcObjs
      PROVE  AllIn(funcObjs[f].params, varObjs) /\ AllIn(funcObjs[f].locals, varObjs)
  <2>1. /\ f \in DOMAIN ParamListsOf /\ ParamListsOf[f] = funcObjs[f].params
        /\ f \in DOMAIN LocalLists /\ LocalLists[f] = funcObjs[f].locals
    BY DEF ParamListsOf, LocalLists
  <2>2. AllIn(ParamListsOf[f], varObjs) /\ AllIn(LocalLists[f], varObjs)
    BY <1>1, <1>2, <2>1
  <2> QED  BY <2>1, <2>2
<1>5. \A h \in Holdings : h[3] \in Nodes \cup {NoNode, BlockNode(Null)}
  BY DEF LInv, OInv, NodesOwned, Owned, Blank
<1> QED  BY <1>3, <1>4, <1>5 DEF PointersInRange

\* No rule leaves a list, an outer_block, a branch, a body or a function's block
\* that points outside its heap, in any program and however its parse ends.
THEOREM PointersStayInRange == Spec => []PointersInRange
<1> QED  BY InRange, LookupInductive, PTL

\* Every object the parse session makes is of its type and points to objects
\* there are, the expressions with the entities their identifiers were looked up
\* to among them.
THEOREM SessionTypes == Spec => []TypeOK
<1>1. LInv => TypeOK
  BY InRange DEF LInv, OInv, IInv, ExprsHold, TypeOK
<1> QED  BY <1>1, LookupInductive, PTL

\* bcc_ast_find_variable finds the variable C's scoping gives the name, wherever
\* an expression may be parsed, unless it faults on an unnamed parameter.
THEOREM LookupsAreLexical == Spec => []ResolvesLexically
<1>1. LInv => ResolvesLexically
  BY LookupIsLexical DEF LInv
<1> QED  BY <1>1, LookupInductive, PTL

\* No accepted expression assigns a const variable, but for its initialiser: the
\* flag an initialiser lifts is back before the next expression is looked at.
THEOREM ConstIsRespected == Spec => []ConstNeverAssigned
<1>1. LInv => ConstNeverAssigned
  BY DEF LInv, ExprsHold
<1> QED  BY <1>1, LookupInductive, PTL
=============================================================================
