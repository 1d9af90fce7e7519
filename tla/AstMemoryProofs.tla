-------------------------- MODULE AstMemoryProofs ---------------------------
(***************************************************************************)
(* For any number of addresses, any input and any depth of the value       *)
(* stack: everything malloc'd has one owner from the token to the end of   *)
(* bcc_ast_clear, nothing is freed twice, and no rule points to a node     *)
(* that is freed.  First the inductive invariant and what it says of any   *)
(* heap; then each rule of the parser and each step of the clearing.       *)
(***************************************************************************)
EXTENDS AstMemory, WellFoundedInduction, FiniteSetTheorems, SequenceTheorems, TLAPS


(***************************************************************************)
(* The inductive invariant.  Its parts are about any heap h, areas ar and  *)
(* value stack sy, so that a rule which hands memory on is a composition   *)
(* of the lemmas below.                                                    *)
(***************************************************************************)
Heaps == [Addresses -> Cell \cup {Unused}]
AreaSet == [obj: Addresses, clear: {"block", "function", "literal", "none"}]
AreaSeqs == Seq(AreaSet)
SymSet == [sym: Symbols, at: Pointers]
Stacks == Seq(SymSet)
LiveIn(h) == {a \in Addresses : h[a] # Unused}

\* What the memory an owning symbol points to must be.
KindOf(sym) == IF sym = "string" THEN "string"
               ELSE IF sym \in {"args", "params"} THEN "list" ELSE "name"
Namers == {"variable", "function", "literal"}
Listers == {"block", "function", "list"}

\* Names, variables and the stack's memory are allocated, are what their owner
\* takes them for, and have no other owner of these sorts.
Kept(h, sy) ==
    /\ \A c \in LiveIn(h) : h[c].name # NULL =>
          h[c].kind \in Namers /\ h[c].name \in LiveIn(h) /\ h[h[c].name].kind \in {"name", "string"}
    /\ \A c \in LiveIn(h) : \A i \in DOMAIN h[c].vars :
          /\ h[c].kind \in Listers
          /\ h[c].vars[i] \in LiveIn(h) /\ h[h[c].vars[i]].kind = "variable"
    /\ \A i \in DOMAIN sy : sy[i].sym \in Owning /\ sy[i].at # NULL =>
          /\ sy[i].at \in LiveIn(h) /\ h[sy[i].at].kind = KindOf(sy[i].sym)
          /\ sy[i].sym = "args" => h[sy[i].at].vars = <<>>
NamedOnce(h, sy) ==
    /\ \A c, d \in LiveIn(h) : h[c].name = h[d].name /\ h[c].name # NULL => c = d
    /\ \A c \in LiveIn(h), i \in DOMAIN sy :
          h[c].name = sy[i].at /\ h[c].name # NULL => sy[i].sym \notin Owning
ListedOnce(h) ==
    \A c, d \in LiveIn(h) : \A i \in DOMAIN h[c].vars, j \in DOMAIN h[d].vars :
        h[c].vars[i] = h[d].vars[j] => c = d /\ i = j
StackedOnce(sy) ==
    \A i, j \in DOMAIN sy :
        {sy[i].sym, sy[j].sym} \subseteq Owning /\ sy[i].at = sy[j].at /\ sy[i].at # NULL => i = j
Handed(h, sy) == Kept(h, sy) /\ NamedOnce(h, sy) /\ ListedOnce(h) /\ StackedOnce(sy)

\* Each area is a node of its kind, and no node has two.
AreasHold(h, ar) ==
    /\ \A i \in DOMAIN ar : /\ ar[i].obj \in LiveIn(h) /\ h[ar[i].obj].kind \in NodeKinds
                            /\ ar[i].clear = ClearOf(h[ar[i].obj].kind)
    /\ \A i, j \in DOMAIN ar : ar[i].obj = ar[j].obj => i = j

\* Everything allocated but the memory of X has an owner.
HasOwner(h, ar, sy, a) ==
    \/ \E i \in DOMAIN ar : ar[i].obj = a
    \/ \E c \in LiveIn(h) : h[c].name = a
    \/ \E c \in LiveIn(h) : \E i \in DOMAIN h[c].vars : h[c].vars[i] = a
    \/ \E i \in DOMAIN sy : sy[i].sym \in Owning /\ sy[i].at = a
AllOwned(h, ar, sy, X) == \A a \in LiveIn(h) \ X : HasOwner(h, ar, sy, a)

\* What the parser reads through: the nodes of the symbols and of a *, and the
\* function and blocks it is in.  Nothing else points to a *.
ExprKinds == {"function", "literal", "deref", "node"}
Reach(h, sy) ==
    /\ \A i \in DOMAIN sy :
          /\ sy[i].sym = "expr" => sy[i].at \in LiveIn(h) /\ h[sy[i].at].kind \in ExprKinds
          /\ sy[i].sym \in {"block", "func"} =>
                sy[i].at \in LiveIn(h) /\ h[sy[i].at].kind = (IF sy[i].sym = "func" THEN "function" ELSE "block")
    /\ \A a \in LiveIn(h) :
          /\ h[a].expr # NULL <=> h[a].kind = "deref"
          /\ h[a].expr # NULL => h[a].expr \in LiveIn(h) /\ h[h[a].expr].kind \in ExprKinds
DerefOnce(h, sy) ==
    /\ \A i, j \in DOMAIN sy :
          sy[i].sym = "expr" /\ sy[j].sym = "expr" /\ sy[i].at = sy[j].at
          /\ h[sy[i].at].kind = "deref" => i = j
    /\ \A c \in LiveIn(h), i \in DOMAIN sy :
          sy[i].sym = "expr" /\ h[c].expr = sy[i].at => h[sy[i].at].kind # "deref"
    /\ \A c, d \in LiveIn(h) :
          h[c].expr = h[d].expr /\ h[c].expr # NULL /\ h[h[c].expr].kind = "deref" => c = d
Within(h, fn, sc, ou) ==
    /\ fn # NULL => fn \in LiveIn(h) /\ h[fn].kind = "function"
    /\ sc # NULL => sc \in LiveIn(h) /\ h[sc].kind = "block"
    /\ \A j \in DOMAIN ou : ou[j] # NULL => ou[j] \in LiveIn(h) /\ h[ou[j]].kind = "block"

\* A function is at the bottom of the stack; in its body current_func and
\* current_scope are set, and each open block but the first has an outer one.
Tokens == {"name", "declarator", "ident", "string"}
BlocksOf(sy) == {i \in DOMAIN sy : sy[i].sym = "block"}
Grammar(sy) ==
    /\ \A i \in DOMAIN sy : /\ sy[i].sym \in {"name", "func"} <=> i = 1
                            /\ sy[i].sym \in Tokens => sy[i].at # NULL
    /\ sy # <<>> /\ sy[1].sym = "name" =>
          \A i \in DOMAIN sy : sy[i].sym \in {"name", "params", "declarator"}
    /\ Len(sy) > 1 /\ sy[1].sym = "func" => sy[2].sym = "block"
Nesting(sy, fn, sc, ou) ==
    /\ Len(ou) = Cardinality(BlocksOf(sy))
    /\ sy # <<>> /\ sy[1].sym = "func" => fn # NULL
    /\ BlocksOf(sy) # {} => sc # NULL
    /\ \A j \in DOMAIN ou : j > 1 => ou[j] # NULL

\* Who owns what, whatever else an action has still to do; X waits to be given
\* an owner.  Once an & has undone a * the areas are wrong (u is undone).
Own(h, ar, sy, X, u) ==
    /\ h \in Heaps /\ ar \in AreaSeqs /\ sy \in Stacks
    /\ Handed(h, sy)
    /\ u = 0 => AreasHold(h, ar) /\ AllOwned(h, ar, sy, X)
\* Nothing but perhaps an area is responsible for a.
Unheld(h, sy, a) ==
    /\ \A c \in LiveIn(h) : h[c].name # a
    /\ \A c \in LiveIn(h) : \A i \in DOMAIN h[c].vars : h[c].vars[i] # a
    /\ \A i \in DOMAIN sy : sy[i].sym \in Owning => sy[i].at # a
\* What nobody has is allocated, and nothing is responsible for it.
LostHold(h, sy, X) == \A a \in X : a \in LiveIn(h) /\ h[a].kind \notin NodeKinds /\ Unheld(h, sy, a)
See(h, sy, fn, sc, ou) == Reach(h, sy) /\ DerefOnce(h, sy) /\ Within(h, fn, sc, ou)

ParserInv ==
    /\ See(heap, symbols, func, scope, outer)
    /\ Grammar(symbols) /\ Nesting(symbols, func, scope, outer)
OwnerInv ==
    /\ AreasHold(heap, areas) /\ memStatus # "doubleFree"
    /\ AllOwned(heap, areas, symbols, lost) /\ LostHold(heap, symbols, lost)
    /\ memStatus = "accepted" => (\A a, b \in lost : a = b) /\ \A a \in lost : heap[a].kind = "string"
    /\ memStatus = "cleared" => areas = <<>>
IInv ==
    /\ MemTypeOK
    /\ Parsing => ParserInv /\ lost = {}
    /\ Parsing \/ undone = 0 => Handed(heap, symbols)
    /\ undone = 0 => OwnerInv

(***************************************************************************)
(* Addresses, cells and stacks.                                            *)
(***************************************************************************)

\* CHOOSE of the lowest finds one, as addresses are natural numbers.
LEMMA LowestOf ==
    ASSUME NEW S \in SUBSET Nat, S # {}
    PROVE  Lowest(S) \in S
<1> DEFINE R == {ss \in Nat \X Nat : ss[1] < ss[2]}
<1>1. \A x, y \in Nat : x < y => <<x, y>> \in R
  OBVIOUS
<1>2. IsWellFoundedOn(R, Nat)
  BY NatLessThanWellFounded DEF OpToRel
<1> HIDE DEF R
<1>3. PICK x \in S : \A y \in S : ~(<<y, x>> \in R)
  BY <1>2, WFMin
<1>4. x \in Nat /\ \A y \in S : y \in Nat
  OBVIOUS
<1>5. ASSUME NEW y \in S PROVE x <= y
  <2>1. ~(y < x)
    BY <1>1, <1>3, <1>4, Zenon
  <2> QED  BY <1>4, <2>1
<1>6. \E a \in S : \A b \in S : a <= b
  BY <1>3, <1>5
<1> QED  BY <1>6, Zenon DEF Lowest

\* What malloc gives is free, and a second call gives something else.
LEMMA FreshFree ==
    ASSUME Room(1)
    PROVE  Fresh \in Addresses /\ heap[Fresh] = Unused /\ Fresh # NULL
<1> DEFINE S == Addresses \ Live
<1>1. IsFiniteSet(S) /\ S \subseteq Nat
  BY AddressesAssumption, FS_Subset
<1>2. S # {}
  BY <1>1, FS_EmptySet DEF Room
<1>3. Fresh \in S
  BY <1>1, <1>2, LowestOf DEF Fresh
<1> QED  BY <1>3, AddressesAssumption DEF Live, NULL

\* Room for two: a second free address beside the first.
LEMMA SecondFree ==
    ASSUME Room(2)
    PROVE  Room(1) /\ Second \in Addresses /\ heap[Second] = Unused /\ Second # Fresh /\ Second # NULL
<1> DEFINE S == Addresses \ Live
<1>1. IsFiniteSet(S) /\ S \subseteq Nat
  BY AddressesAssumption, FS_Subset
<1>2. Cardinality(S) \in Nat /\ Cardinality(S) >= 2
  BY <1>1, FS_CardinalityType DEF Room
<1> HIDE DEF S
<1>3. S # {Fresh} /\ S # {}
  <2>1. Cardinality({Fresh}) = 1 /\ Cardinality({}) = 0
    BY FS_Singleton, FS_EmptySet
  <2>2. Cardinality(S) # 1 /\ Cardinality(S) # 0
    BY <1>2
  <2> QED  BY <2>1, <2>2
<1>4. S \ {Fresh} # {}
  BY <1>3
<1>5. S \ {Fresh} = Addresses \ (Live \cup {Fresh})
  BY DEF S
<1>6. Second \in S \ {Fresh}
  BY <1>1, <1>4, <1>5, LowestOf DEF Second
<1> QED  BY <1>2, <1>6, AddressesAssumption DEF S, Live, NULL, Room

\* Allocated memory is told from free memory.
LEMMA CellUsed == \A c \in Cell : c # Unused
  BY DEF Cell, Unused, Kinds

\* What New makes is a cell with nothing to be responsible for.
LEMMA NewCell ==
    ASSUME NEW kind \in Kinds
    PROVE  /\ New(kind) \in Cell /\ New(kind).kind = kind
           /\ New(kind).name = NULL /\ New(kind).vars = <<>> /\ New(kind).expr = NULL
  BY EmptySeq DEF New, Cell, Pointers

\* NULL is no address.
LEMMA NullApart == NULL \notin Addresses
  BY AddressesAssumption DEF NULL

\* The stack after n symbols are taken, and after one is put on it.
Cut(q, sy, n) ==
    /\ q \in Stacks /\ Len(q) = Len(sy) - n
    /\ \A i \in DOMAIN q : i \in DOMAIN sy /\ i <= Len(sy) - n /\ q[i] = sy[i]

\* A prefix of a sequence, by its elements.
LEMMA Prefix ==
    ASSUME NEW S, NEW s \in Seq(S), NEW k \in 0..Len(s)
    PROVE  LET p == SubSeq(s, 1, k)
           IN  p \in Seq(S) /\ Len(p) = k /\ DOMAIN p = 1..k /\ \A i \in 1..k : p[i] = s[i]
  BY LenProperties, ElementOfSeq

\* Cut, from what the positions hold.
LEMMA CutByIndex ==
    ASSUME NEW sy \in Stacks, NEW n \in 0..Len(sy), NEW q \in Stacks,
           Len(sy) \in Nat, DOMAIN sy = 1..Len(sy),
           Len(q) = Len(sy) - n, DOMAIN q = 1..(Len(sy) - n),
           \A i \in 1..(Len(sy) - n) : q[i] = sy[i]
    PROVE  Cut(q, sy, n)
  BY DEF Cut

\* What Popped leaves is a Cut of the stack.
LEMMA StackCut ==
    ASSUME NEW sy \in Stacks, NEW n \in 0..Len(sy)
    PROVE  Cut(SubSeq(sy, 1, Len(sy) - n), sy, n)
<1>1. Len(sy) \in Nat /\ DOMAIN sy = 1..Len(sy) /\ Len(sy) - n \in 0..Len(sy)
  BY LenProperties DEF Stacks
<1> DEFINE q == SubSeq(sy, 1, Len(sy) - n)
<1>2. /\ q \in Stacks /\ Len(q) = Len(sy) - n /\ DOMAIN q = 1..(Len(sy) - n)
      /\ \A i \in 1..(Len(sy) - n) : q[i] = sy[i]
  BY <1>1, Prefix DEF Stacks
<1> HIDE DEF q
<1>3. Cut(q, sy, n)
  BY <1>1, <1>2, CutByIndex
<1> QED  BY <1>3 DEF q

\* What Push puts on the stack, by position.
LEMMA StackPush ==
    ASSUME NEW sy \in Stacks, NEW s \in Symbols, NEW a \in Pointers
    PROVE  LET q == Append(sy, Sym(s, a))
           IN  /\ q \in Stacks /\ q # <<>> /\ Len(q) = Len(sy) + 1 /\ DOMAIN q = 1..(Len(sy) + 1)
               /\ DOMAIN sy = 1..Len(sy) /\ Len(sy) \in Nat
               /\ \A i \in DOMAIN sy : q[i] = sy[i]
               /\ q[Len(sy) + 1].sym = s /\ q[Len(sy) + 1].at = a
<1> DEFINE q == Append(sy, Sym(s, a))
<1>1. Sym(s, a) \in SymSet
  BY DEF Sym, SymSet
<1>2. Len(sy) \in Nat /\ DOMAIN sy = 1..Len(sy)
  BY LenProperties DEF Stacks
<1>3. /\ q \in Stacks /\ q # <<>> /\ Len(q) = Len(sy) + 1
      /\ \A i \in 1..Len(sy) : q[i] = sy[i]
      /\ q[Len(sy) + 1] = Sym(s, a)
  BY <1>1, AppendProperties DEF Stacks
<1>4. DOMAIN q = 1..(Len(sy) + 1)
  BY <1>3, LenProperties DEF Stacks
<1>5. Sym(s, a).sym = s /\ Sym(s, a).at = a
  BY DEF Sym
<1> HIDE DEF q
<1>6. /\ q \in Stacks /\ q # <<>> /\ Len(q) = Len(sy) + 1 /\ DOMAIN q = 1..(Len(sy) + 1)
      /\ \A i \in DOMAIN sy : q[i] = sy[i]
      /\ q[Len(sy) + 1].sym = s /\ q[Len(sy) + 1].at = a
  BY <1>2, <1>3, <1>4, <1>5
<1> QED  BY <1>2, <1>6 DEF q

(***************************************************************************)
(* How memory changes hands.                                               *)
(***************************************************************************)

\* What is allocated is a cell.
LEMMA LiveCells ==
    ASSUME NEW h \in Heaps
    PROVE  \A a \in LiveIn(h) : a \in Addresses /\ h[a] \in Cell /\ h[a].vars \in Seq(Addresses)
                                /\ h[a].kind \in Kinds
  BY DEF Heaps, LiveIn, Cell

\* Symbols are taken from the stack; what they owned waits.
LEMMA OwnCut ==
    ASSUME NEW h, NEW ar, NEW sy, NEW X, NEW u, Own(h, ar, sy, X, u), NEW q \in Stacks, NEW Y,
           \A i \in DOMAIN q : i \in DOMAIN sy /\ q[i] = sy[i],
           X \subseteq Y,
           \A i \in DOMAIN sy : i \notin DOMAIN q /\ sy[i].sym \in Owning => sy[i].at \in Y \cup {NULL}
    PROVE  /\ Own(h, ar, q, Y, u)
           /\ \A i \in DOMAIN sy : i \notin DOMAIN q =>
                 (sy[i].sym \in Owning /\ sy[i].at # NULL => Unheld(h, q, sy[i].at))
<1>1. Handed(h, q)
  BY DEF Own, Handed, Kept, NamedOnce, StackedOnce
<1>2. ASSUME u = 0 PROVE AllOwned(h, ar, q, Y)
  <2> SUFFICES ASSUME NEW a \in LiveIn(h) \ Y PROVE HasOwner(h, ar, q, a)
    BY DEF AllOwned
  <2>1. HasOwner(h, ar, sy, a) /\ a # NULL
    BY <1>2, NullApart DEF Own, AllOwned, LiveIn
  <2> QED  BY <2>1 DEF HasOwner
<1>3. ASSUME NEW i \in DOMAIN sy \ DOMAIN q, sy[i].sym \in Owning, sy[i].at # NULL
      PROVE  Unheld(h, q, sy[i].at)
  <2>1. /\ Kept(h, sy) /\ NamedOnce(h, sy) /\ StackedOnce(sy)
    BY DEF Own, Handed
  <2>2. \A c \in LiveIn(h) : h[c].name # sy[i].at
    BY <1>3, <2>1 DEF NamedOnce
  <2>3. h[sy[i].at].kind # "variable"
    BY <1>3, <2>1 DEF Kept, KindOf
  <2>4. \A c \in LiveIn(h) : \A j \in DOMAIN h[c].vars : h[c].vars[j] # sy[i].at
    BY <2>1, <2>3 DEF Kept
  <2>5. \A j \in DOMAIN q : q[j].sym \in Owning => q[j].at # sy[i].at
    BY <1>3, <2>1 DEF StackedOnce
  <2> QED  BY <2>2, <2>4, <2>5 DEF Unheld
<1> QED  BY <1>1, <1>2, <1>3 DEF Own

\* A symbol is put on the stack.
LEMMA OwnPush ==
    ASSUME NEW h, NEW ar, NEW sy, NEW X, NEW u, Own(h, ar, sy, X, u),
           NEW s \in Symbols, NEW a \in Pointers, NEW Y,
           s \in Owning /\ a # NULL => a \in LiveIn(h) /\ h[a].kind = KindOf(s) /\ Unheld(h, sy, a),
           s = "args" /\ a # NULL => h[a].vars = <<>>,
           X \subseteq Y \cup {b \in {a} : s \in Owning}
    PROVE  Own(h, ar, Append(sy, Sym(s, a)), Y, u)
<1> DEFINE q == Append(sy, Sym(s, a))
<1> DEFINE n == Len(sy) + 1
<1> sy \in Stacks
  BY DEF Own
<1>1. /\ q \in Stacks /\ DOMAIN q = 1..n /\ DOMAIN sy = 1..Len(sy) /\ Len(sy) \in Nat
      /\ \A i \in DOMAIN sy : q[i] = sy[i]
      /\ q[n].sym = s /\ q[n].at = a
  BY StackPush
<1>2. n \in DOMAIN q /\ \A i \in DOMAIN sy : i \in DOMAIN q
  BY <1>1
<1> HIDE DEF q
<1>3. \A i \in DOMAIN q : i = n \/ (i \in DOMAIN sy /\ q[i] = sy[i])
  BY <1>1
<1> HIDE DEF n
<1>4. Kept(h, sy) /\ NamedOnce(h, sy) /\ ListedOnce(h) /\ StackedOnce(sy)
  BY DEF Own, Handed
<1>5. Kept(h, q)
  BY <1>1, <1>4, <1>3 DEF Kept
<1>6. NamedOnce(h, q)
  BY <1>1, <1>4, <1>3 DEF NamedOnce, Unheld
<1>7. StackedOnce(q)
  BY <1>1, <1>4, <1>3 DEF StackedOnce, Unheld
<1>8. ASSUME u = 0 PROVE AllOwned(h, ar, q, Y)
  <2> SUFFICES ASSUME NEW b \in LiveIn(h) \ Y PROVE HasOwner(h, ar, q, b)
    BY DEF AllOwned
  <2>1. CASE b = a /\ s \in Owning
    BY <1>1, <1>2, <2>1 DEF HasOwner
  <2>2. CASE ~(b = a /\ s \in Owning)
    <3>1. HasOwner(h, ar, sy, b)
      BY <1>8, <2>2 DEF Own, AllOwned
    <3> QED  BY <1>1, <1>2, <3>1 DEF HasOwner
  <2> QED  BY <2>1, <2>2
<1> QED  BY <1>1, <1>4, <1>5, <1>6, <1>7, <1>8 DEF Own, Handed, q

\* Memory is allocated for a cell that takes a name and variables that wait;
\* the cell itself waits.
Takeable(h, sy, cell) ==
    /\ cell.name # NULL => /\ cell.kind \in Namers /\ cell.name \in LiveIn(h)
                           /\ h[cell.name].kind \in {"name", "string"} /\ Unheld(h, sy, cell.name)
    /\ \A i \in DOMAIN cell.vars :
          /\ cell.kind \in Listers /\ cell.vars[i] \in LiveIn(h)
          /\ h[cell.vars[i]].kind = "variable" /\ Unheld(h, sy, cell.vars[i])
    /\ \A i, j \in DOMAIN cell.vars : cell.vars[i] = cell.vars[j] => i = j
TakenBy(cell) == {cell.name} \cup {cell.vars[i] : i \in DOMAIN cell.vars}
\* The heap with a cell more.
With(g, h, b, cell) ==
    /\ g \in Heaps /\ b \in Addresses /\ h[b] = Unused /\ cell \in Cell
    /\ g[b] = cell /\ \A a \in Addresses \ {b} : g[a] = h[a]

\* A new cell changes nothing that is allocated.
LEMMA HeapNew ==
    ASSUME NEW g, NEW h, NEW b, NEW cell, With(g, h, b, cell)
    PROVE  /\ g[b] = cell /\ b \notin LiveIn(h)
           /\ \A a : a \in LiveIn(g) <=> a = b \/ a \in LiveIn(h)
           /\ \A a \in LiveIn(h) : a # b /\ g[a] = h[a]
  BY CellUsed DEF LiveIn, With

\* EXCEPT at a free address is With.
LEMMA OneNew ==
    ASSUME NEW h \in Heaps, NEW b \in Addresses, h[b] = Unused, NEW cell \in Cell
    PROVE  With([h EXCEPT ![b] = cell], h, b, cell)
  BY DEF With, Heaps

\* A new cell keeps one owner each if it takes only what nobody owns; what it
\* takes leaves the set that is owned by a rule under way, which it joins.
LEMMA OwnNew ==
    ASSUME NEW h, NEW ar, NEW sy, NEW X, NEW u, Own(h, ar, sy, X, u),
           NEW b, NEW cell, NEW g, With(g, h, b, cell), Takeable(h, sy, cell),
           NEW Y, X \subseteq Y \cup TakenBy(cell), b \in Y
    PROVE  Own(g, ar, sy, Y, u)
<1>1. /\ Kept(h, sy) /\ NamedOnce(h, sy) /\ ListedOnce(h) /\ StackedOnce(sy)
  BY DEF Own, Handed
<1>2. /\ g \in Heaps /\ g[b] = cell /\ b \notin LiveIn(h)
      /\ \A a : a \in LiveIn(g) <=> a = b \/ a \in LiveIn(h)
      /\ \A a \in LiveIn(h) : a # b /\ g[a] = h[a]
  BY HeapNew DEF With
<1>3. Kept(g, sy)
  BY <1>1, <1>2 DEF Kept, Takeable
<1>4. NamedOnce(g, sy)
  BY <1>1, <1>2 DEF NamedOnce, Takeable, Unheld
<1>5. ListedOnce(g)
  BY <1>1, <1>2 DEF ListedOnce, Takeable, Unheld
<1>6. ASSUME u = 0 PROVE AreasHold(g, ar) /\ AllOwned(g, ar, sy, Y)
  <2>1. AreasHold(g, ar)
    BY <1>2, <1>6 DEF Own, AreasHold
  <2>2. ASSUME NEW a \in LiveIn(g) \ Y PROVE HasOwner(g, ar, sy, a)
    <3>1. a \in LiveIn(h)
      BY <1>2, <2>2
    <3>2. CASE a \in TakenBy(cell)
      BY <1>2, <3>2 DEF HasOwner, TakenBy
    <3>3. CASE a \notin TakenBy(cell)
      <4>1. HasOwner(h, ar, sy, a)
        BY <1>6, <2>2, <3>1, <3>3 DEF Own, AllOwned
      <4> QED  BY <1>2, <4>1 DEF HasOwner
    <3> QED  BY <3>2, <3>3
  <2> QED  BY <2>1, <2>2 DEF AllOwned
<1> QED  BY <1>1, <1>2, <1>3, <1>4, <1>5, <1>6 DEF Own, Handed

\* Nobody is responsible for new memory, or for more than before.
LEMMA NewUnheld ==
    ASSUME NEW h, NEW sy, Kept(h, sy), NEW b, NEW cell, NEW g, With(g, h, b, cell),
           cell.name # b, \A i \in DOMAIN cell.vars : cell.vars[i] # b
    PROVE  Unheld(g, sy, b)
<1>1. /\ g[b] = cell /\ b \notin LiveIn(h) /\ b # NULL
      /\ \A a : a \in LiveIn(g) <=> a = b \/ a \in LiveIn(h)
      /\ \A a \in LiveIn(h) : a # b /\ g[a] = h[a]
  BY HeapNew, NullApart DEF With
<1> QED  BY <1>1 DEF Unheld, Kept

\* What nobody owns still has no owner beside a cell that does not take it.
LEMMA StaysUnheld ==
    ASSUME NEW h, NEW sy, NEW b, NEW cell, NEW g, With(g, h, b, cell),
           NEW a, Unheld(h, sy, a), a \notin TakenBy(cell)
    PROVE  Unheld(g, sy, a)
<1>1. /\ g[b] = cell
      /\ \A c : c \in LiveIn(g) <=> c = b \/ c \in LiveIn(h)
      /\ \A c \in LiveIn(h) : c # b /\ g[c] = h[c]
  BY HeapNew
<1> QED  BY <1>1 DEF Unheld, TakenBy

\* A node's memory gets an area at once.
LEMMA OwnNode ==
    ASSUME NEW h, NEW ar, NEW sy, NEW X, NEW u, Own(h, ar, sy, X, u),
           NEW b, NEW cell, NEW g, With(g, h, b, cell), Takeable(h, sy, cell),
           cell.kind \in NodeKinds, NEW Y, X \subseteq Y \cup TakenBy(cell)
    PROVE  Own(g, <<Area(b, cell.kind)>> \o ar, sy, Y, u)
<1> DEFINE Z == Y \cup {b}
<1>1. /\ Own(g, ar, sy, Z, u) /\ g[b] = cell
      /\ \A a : a \in LiveIn(g) <=> a = b \/ a \in LiveIn(h)
  <2>1. X \subseteq Z \cup TakenBy(cell) /\ b \in Z
    OBVIOUS
  <2> HIDE DEF Z
  <2>2. Own(g, ar, sy, Z, u)
    BY <2>1, OwnNew
  <2> QED  BY <2>2, HeapNew
<1> DEFINE x == Area(b, cell.kind)
<1> DEFINE br == <<x>> \o ar
<1>2. x \in AreaSet /\ x.obj = b /\ x.clear = ClearOf(cell.kind)
  BY DEF AreaSet, Area, ClearOf, With
<1>3. ar \in AreaSeqs /\ Len(ar) \in Nat /\ DOMAIN ar = 1..Len(ar)
  BY LenProperties DEF Own, AreaSeqs
<1> HIDE DEF x, Z
<1>4. /\ br \in AreaSeqs /\ DOMAIN br = 1..(Len(ar) + 1) /\ br[1] = x
      /\ \A i \in 1..Len(ar) : br[i + 1] = ar[i]
  BY <1>2, <1>3, ConcatProperties, LenProperties DEF AreaSeqs
<1> HIDE DEF br
<1>5. 1 \in DOMAIN br /\ \A i \in DOMAIN ar : i + 1 \in DOMAIN br /\ br[i + 1] = ar[i]
  BY <1>3, <1>4
<1>6. \A i \in DOMAIN br : i = 1 \/ \E j \in DOMAIN ar : i = j + 1 /\ br[i] = ar[j]
  <2> SUFFICES ASSUME NEW i \in DOMAIN br, i # 1 PROVE i - 1 \in DOMAIN ar /\ i = (i - 1) + 1 /\ br[i] = ar[i - 1]
    OBVIOUS
  <2> QED  BY <1>3, <1>4
<1>7. ASSUME u = 0 PROVE AreasHold(g, br) /\ AllOwned(g, br, sy, Y)
  <2>1. \A i \in DOMAIN ar : ar[i].obj # b
    BY <1>7, HeapNew DEF Own, AreasHold
  <2>2. AreasHold(g, ar) /\ AllOwned(g, ar, sy, Z)
    BY <1>1, <1>7 DEF Own
  <2>3. \A i \in DOMAIN br : /\ br[i].obj \in LiveIn(g) /\ g[br[i].obj].kind \in NodeKinds
                             /\ br[i].clear = ClearOf(g[br[i].obj].kind)
    BY <1>1, <1>2, <1>4, <1>6, <2>2 DEF AreasHold
  <2>4. \A i, j \in DOMAIN br : br[i].obj = br[j].obj => i = j
    BY <1>2, <1>4, <1>6, <2>1, <2>2 DEF AreasHold
  <2>5. ASSUME NEW a \in LiveIn(g) \ Y PROVE HasOwner(g, br, sy, a)
    <3>1. CASE a = b
      BY <1>2, <1>4, <1>5, <3>1 DEF HasOwner
    <3>2. CASE a # b
      <4>1. HasOwner(g, ar, sy, a)
        BY <2>2, <2>5, <3>2 DEF AllOwned, Z
      <4> QED  BY <1>5, <4>1 DEF HasOwner
    <3> QED  BY <3>1, <3>2
  <2> QED  BY <2>3, <2>4, <2>5 DEF AreasHold, AllOwned
<1>8. Own(g, br, sy, Y, u)
  BY <1>1, <1>4, <1>7 DEF Own
<1> QED  BY <1>8 DEF br, x

\* The memory of F is freed: nobody else was responsible for it, and what it
\* was responsible for waits.
Without(g, h, F) == g \in Heaps /\ \A a \in Addresses : g[a] = IF a \in F THEN Unused ELSE h[a]

\* Freeing changes nothing that stays allocated.
LEMMA HeapFree ==
    ASSUME NEW h, NEW F, NEW g, Without(g, h, F)
    PROVE  /\ \A a : a \in LiveIn(g) <=> a \in LiveIn(h) /\ a \notin F
           /\ \A a \in LiveIn(g) : g[a] = h[a]
  BY DEF LiveIn, Without

\* EXCEPT with Unused is Without.
LEMMA OneFree ==
    ASSUME NEW h \in Heaps, NEW a
    PROVE  Without([h EXCEPT ![a] = Unused], h, {a})
  BY DEF Without, Heaps

\* Freeing keeps one owner each if nobody else owns what is freed; what that
\* owned is then owned by the rule under way.
LEMMA OwnFree ==
    ASSUME NEW h, NEW ar, NEW sy, NEW X, NEW u, Own(h, ar, sy, X, u),
           NEW F, NEW g, Without(g, h, F),
           \A c \in LiveIn(h) \ F : h[c].name \notin F /\ \A i \in DOMAIN h[c].vars : h[c].vars[i] \notin F,
           \A i \in DOMAIN sy : sy[i].sym \in Owning => sy[i].at \notin F,
           u = 0 => \A i \in DOMAIN ar : ar[i].obj \notin F,
           NEW Y, X \subseteq Y \cup F,
           \A c \in LiveIn(h) \cap F : /\ h[c].name \in Y \cup F \cup {NULL}
                                       /\ \A i \in DOMAIN h[c].vars : h[c].vars[i] \in Y \cup F
    PROVE  Own(g, ar, sy, Y, u)
<1>1. /\ Kept(h, sy) /\ NamedOnce(h, sy) /\ ListedOnce(h) /\ StackedOnce(sy)
  BY DEF Own, Handed
<1>2. /\ \A a : a \in LiveIn(g) <=> a \in LiveIn(h) /\ a \notin F
      /\ \A c \in LiveIn(g) : c \in LiveIn(h) /\ c \notin F /\ g[c] = h[c]
      /\ g \in Heaps
  BY HeapFree DEF Without
<1>3. Kept(g, sy)
  BY <1>1, <1>2, NullApart DEF Kept, LiveIn
<1>4. NamedOnce(g, sy) /\ ListedOnce(g)
  BY <1>1, <1>2 DEF NamedOnce, ListedOnce
<1>5. ASSUME u = 0 PROVE AreasHold(g, ar) /\ AllOwned(g, ar, sy, Y)
  <2>1. AreasHold(g, ar)
    BY <1>2, <1>5 DEF Own, AreasHold
  <2>2. ASSUME NEW a \in LiveIn(g) \ Y PROVE HasOwner(g, ar, sy, a)
    <3>1. a \in LiveIn(h) /\ a \notin F /\ a \notin X /\ a # NULL
      BY <1>2, <2>2, NullApart DEF LiveIn
    <3>2. HasOwner(h, ar, sy, a)
      BY <1>5, <3>1 DEF Own, AllOwned
    <3>3. \A c \in LiveIn(h) : h[c].name = a => c \in LiveIn(g) /\ g[c] = h[c]
      BY <1>2, <2>2, <3>1
    <3>4. \A c \in LiveIn(h) : \A i \in DOMAIN h[c].vars : h[c].vars[i] = a => c \in LiveIn(g) /\ g[c] = h[c]
      BY <1>2, <2>2, <3>1
    <3> QED  BY <3>2, <3>3, <3>4 DEF HasOwner
  <2> QED  BY <2>1, <2>2 DEF AllOwned
<1> QED  BY <1>1, <1>2, <1>3, <1>4, <1>5 DEF Own, Handed

\* One piece of memory that no area has.
LEMMA OwnFreeOne ==
    ASSUME NEW h, NEW ar, NEW sy, NEW X, NEW u, Own(h, ar, sy, X, u),
           NEW a, Unheld(h, sy, a), a \in LiveIn(h) => h[a].kind \notin NodeKinds \/ u # 0,
           NEW Y, X \subseteq Y \cup {a},
           a \in LiveIn(h) => /\ h[a].name \in Y \cup {NULL}
                             /\ \A i \in DOMAIN h[a].vars : h[a].vars[i] \in Y,
           NEW g, Without(g, h, {a})
    PROVE  Own(g, ar, sy, Y, u)
<1> DEFINE F == {a}
<1>1. Without(g, h, F)
  OBVIOUS
<1>2. u = 0 => \A i \in DOMAIN ar : ar[i].obj \notin F
  BY DEF Own, AreasHold
<1>3. \A c \in LiveIn(h) \ F : h[c].name \notin F /\ \A i \in DOMAIN h[c].vars : h[c].vars[i] \notin F
  BY DEF Unheld
<1>4. \A i \in DOMAIN sy : sy[i].sym \in Owning => sy[i].at \notin F
  BY DEF Unheld
<1>5. \A c \in LiveIn(h) \cap F : /\ h[c].name \in Y \cup F \cup {NULL}
                                    /\ \A i \in DOMAIN h[c].vars : h[c].vars[i] \in Y \cup F
  OBVIOUS
<1>6. X \subseteq Y \cup F
  OBVIOUS
<1> HIDE DEF F
<1> QED  BY <1>1, <1>2, <1>3, <1>4, <1>5, <1>6, OwnFree

\* Who is responsible for what was freed loses it, nobody gets more.
LEMMA FreeUnheld ==
    ASSUME NEW h, NEW sy, NEW F, NEW g, Without(g, h, F), NEW a, Unheld(h, sy, a)
    PROVE  Unheld(g, sy, a)
  BY HeapFree DEF Unheld

\* A freed list's variables have no owner left.
LEMMA FreedListUnheld ==
    ASSUME NEW h \in Heaps, NEW sy, Handed(h, sy), NEW a \in LiveIn(h),
           NEW i \in DOMAIN h[a].vars, NEW g, Without(g, h, {a})
    PROVE  Unheld(g, sy, h[a].vars[i])
<1>1. Kept(h, sy) /\ ListedOnce(h)
  BY DEF Handed
<1>2. h[a].vars[i] \in LiveIn(h) /\ h[h[a].vars[i]].kind = "variable" /\ h[a].vars[i] # NULL
  BY <1>1, NullApart DEF Kept, LiveIn
<1>3. \A c \in LiveIn(g) : c \in LiveIn(h) /\ c # a /\ g[c] = h[c]
  BY HeapFree
<1>4. \A c \in LiveIn(g) : g[c].name # h[a].vars[i]
  BY <1>1, <1>2, <1>3 DEF Kept
<1>5. \A c \in LiveIn(g) : \A j \in DOMAIN g[c].vars : g[c].vars[j] # h[a].vars[i]
  BY <1>1, <1>3 DEF ListedOnce
<1>6. \A j \in DOMAIN sy : sy[j].sym \in Owning => sy[j].at # h[a].vars[i]
  BY <1>1, <1>2 DEF Kept, KindOf
<1> QED  BY <1>4, <1>5, <1>6 DEF Unheld

\* A variable that waits is put on a list.
Listed(g, h, c, v) ==
    /\ g \in Heaps /\ c \in LiveIn(h) /\ v \in LiveIn(h)
    /\ \A a \in Addresses : IF a = c THEN g[a] # Unused ELSE g[a] = h[a]
    /\ g[c].kind = h[c].kind /\ g[c].name = h[c].name /\ g[c].expr = h[c].expr
    /\ g[c].vars = Append(h[c].vars, v)

\* Linking a variable changes only the list it is linked to.
LEMMA HeapListed ==
    ASSUME NEW g, NEW h \in Heaps, NEW c, NEW v, Listed(g, h, c, v)
    PROVE  /\ \A a : a \in LiveIn(g) <=> a \in LiveIn(h)
           /\ \A a \in LiveIn(h) : /\ g[a].kind = h[a].kind /\ g[a].name = h[a].name
                                   /\ g[a].expr = h[a].expr /\ (a # c => g[a] = h[a])
           /\ \A i : i \in DOMAIN g[c].vars <=> i \in DOMAIN h[c].vars \/ i = Len(h[c].vars) + 1
           /\ Len(h[c].vars) + 1 \notin DOMAIN h[c].vars
           /\ g[c].vars[Len(h[c].vars) + 1] = v
           /\ \A i \in DOMAIN h[c].vars : g[c].vars[i] = h[c].vars[i]
<1>1. h[c].vars \in Seq(Addresses) /\ v \in Addresses
  BY LiveCells DEF Listed, LiveIn
<1> DEFINE s == h[c].vars
<1> DEFINE n == Len(s) + 1
<1> DEFINE t == Append(s, v)
<1>2. /\ Len(s) \in Nat /\ DOMAIN s = 1..Len(s) /\ DOMAIN t = 1..n /\ t[n] = v
      /\ \A i \in 1..Len(s) : t[i] = s[i]
  BY <1>1, AppendProperties, LenProperties
<1>3. g[c].vars = t
  BY DEF Listed
<1> HIDE DEF t
<1>4. /\ \A i : i \in DOMAIN t <=> i \in DOMAIN s \/ i = n
      /\ n \notin DOMAIN s /\ t[n] = v /\ \A i \in DOMAIN s : t[i] = s[i]
  BY <1>2
<1>5. \A a : a \in LiveIn(g) <=> a \in LiveIn(h)
  BY DEF Listed, LiveIn
<1>6. \A a \in LiveIn(h) : /\ g[a].kind = h[a].kind /\ g[a].name = h[a].name
                           /\ g[a].expr = h[a].expr /\ (a # c => g[a] = h[a])
  BY DEF Listed, LiveIn
<1> QED  BY <1>3, <1>4, <1>5, <1>6

\* A variable nobody owns gets its list as its owner.
LEMMA OwnListed ==
    ASSUME NEW h, NEW ar, NEW sy, NEW X, NEW u, Own(h, ar, sy, X, u),
           NEW c, NEW v, NEW g, Listed(g, h, c, v), h[c].kind \in Listers,
           h[v].kind = "variable", Unheld(h, sy, v), NEW Y, X \subseteq Y \cup {v},
           h[c].kind = "list" => Unheld(h, sy, c)
    PROVE  Own(g, ar, sy, Y, u)
<1>1. /\ Kept(h, sy) /\ NamedOnce(h, sy) /\ ListedOnce(h) /\ StackedOnce(sy)
  BY DEF Own, Handed
<1> DEFINE n == Len(h[c].vars) + 1
<1>2. /\ \A a : a \in LiveIn(g) <=> a \in LiveIn(h)
      /\ \A a \in LiveIn(h) : /\ g[a].kind = h[a].kind /\ g[a].name = h[a].name
                              /\ g[a].expr = h[a].expr /\ (a # c => g[a] = h[a])
      /\ \A i : i \in DOMAIN g[c].vars <=> i \in DOMAIN h[c].vars \/ i = n
      /\ n \notin DOMAIN h[c].vars
      /\ g[c].vars[n] = v
      /\ \A i \in DOMAIN h[c].vars : g[c].vars[i] = h[c].vars[i]
  <2> h \in Heaps
    BY DEF Own
  <2> QED  BY HeapListed
<1> HIDE DEF n
<1> g \in Heaps /\ c \in LiveIn(h) /\ v \in LiveIn(h)
  BY DEF Listed
<1>3. \A d \in LiveIn(g) : \A i \in DOMAIN g[d].vars :
         \/ d = c /\ i = n /\ g[d].vars[i] = v
         \/ i \in DOMAIN h[d].vars /\ g[d].vars[i] = h[d].vars[i]
  BY <1>2
<1>4. \A d \in LiveIn(h) : \A i \in DOMAIN h[d].vars : i \in DOMAIN g[d].vars /\ g[d].vars[i] = h[d].vars[i]
  BY <1>2
<1>5. Kept(g, sy)
  <2>1. \A i \in DOMAIN sy : sy[i].sym = "args" /\ sy[i].at # NULL => sy[i].at # c
    BY <1>1 DEF Kept, Unheld, KindOf, Owning
  <2> QED  BY <1>1, <1>2, <1>3, <2>1 DEF Kept
<1>6. NamedOnce(g, sy)
  BY <1>1, <1>2 DEF NamedOnce
<1>7. ListedOnce(g)
  BY <1>1, <1>2, <1>3 DEF ListedOnce, Unheld
<1>8. ASSUME u = 0 PROVE AreasHold(g, ar) /\ AllOwned(g, ar, sy, Y)
  <2>1. AreasHold(g, ar)
    BY <1>2, <1>8 DEF Own, AreasHold
  <2>2. ASSUME NEW a \in LiveIn(g) \ Y PROVE HasOwner(g, ar, sy, a)
    <3>1. CASE a = v
      <4>1. n \in DOMAIN g[c].vars
        BY <1>2
      <4> QED  BY <1>2, <3>1, <4>1 DEF HasOwner
    <3>2. CASE a # v
      <4>1. HasOwner(h, ar, sy, a)
        BY <1>2, <1>8, <2>2, <3>2 DEF Own, AllOwned
      <4> QED  BY <1>2, <1>4, <4>1 DEF HasOwner
    <3> QED  BY <3>1, <3>2
  <2> QED  BY <2>1, <2>2 DEF AllOwned
<1> QED  BY <1>1, <1>2, <1>5, <1>6, <1>7, <1>8 DEF Own, Handed

\* A function's list of locals is nobody's property.
SameOwners(g, h) ==
    /\ g \in Heaps /\ \A a : a \in LiveIn(g) <=> a \in LiveIn(h)
    /\ \A a \in LiveIn(h) : /\ g[a].kind = h[a].kind /\ g[a].name = h[a].name
                            /\ g[a].vars = h[a].vars /\ g[a].expr = h[a].expr

\* Owners are the same in heaps that differ in locals only.
LEMMA OwnSame ==
    ASSUME NEW h, NEW ar, NEW sy, NEW X, NEW u, Own(h, ar, sy, X, u), NEW g, SameOwners(g, h)
    PROVE  Own(g, ar, sy, X, u)
<1>1. /\ Kept(g, sy) /\ NamedOnce(g, sy) /\ ListedOnce(g) /\ StackedOnce(sy)
  BY DEF Own, Handed, Kept, NamedOnce, ListedOnce, SameOwners
<1>2. u = 0 => AreasHold(g, ar)
  BY DEF Own, AreasHold, SameOwners
<1>3. u = 0 => AllOwned(g, ar, sy, X)
  BY DEF Own, AllOwned, HasOwner, SameOwners
<1> QED  BY <1>1, <1>2, <1>3 DEF Own, Handed, SameOwners
(***************************************************************************)
(* What the parser reads through.                                          *)
(***************************************************************************)
\* Nothing points to a, if it is a *.
Unpointed(h, sy, a) ==
    h[a].kind = "deref" => /\ \A c \in LiveIn(h) : h[c].expr # a
                           /\ \A i \in DOMAIN sy : sy[i].sym = "expr" => sy[i].at # a

\* Taking symbols off the stack leaves the others, and nothing points to the
\* nodes that were on it.
LEMMA SeeCut ==
    ASSUME NEW h, NEW sy, NEW fn, NEW sc, NEW ou, See(h, sy, fn, sc, ou), NEW q,
           \A i \in DOMAIN q : i \in DOMAIN sy /\ q[i] = sy[i]
    PROVE  /\ See(h, q, fn, sc, ou)
           /\ \A i \in DOMAIN sy : i \notin DOMAIN q => (sy[i].sym = "expr" => Unpointed(h, q, sy[i].at))
<1>1. See(h, q, fn, sc, ou)
  BY DEF See, Reach, DerefOnce
<1> QED  BY <1>1 DEF See, DerefOnce, Unpointed

\* Pushing a node keeps what is seen if nothing pointed to it.
LEMMA SeePush ==
    ASSUME NEW h, NEW sy \in Stacks, NEW fn, NEW sc, NEW ou, See(h, sy, fn, sc, ou),
           NEW s \in Symbols, NEW a \in Pointers,
           s = "expr" => a \in LiveIn(h) /\ h[a].kind \in ExprKinds /\ Unpointed(h, sy, a),
           s \in {"block", "func"} => a \in LiveIn(h) /\ h[a].kind = (IF s = "func" THEN "function" ELSE "block")
    PROVE  See(h, Append(sy, Sym(s, a)), fn, sc, ou)
<1> DEFINE q == Append(sy, Sym(s, a))
<1> DEFINE n == Len(sy) + 1
<1>1. /\ q \in Stacks /\ DOMAIN q = 1..n /\ DOMAIN sy = 1..Len(sy) /\ Len(sy) \in Nat
      /\ \A i \in DOMAIN sy : q[i] = sy[i]
      /\ q[n].sym = s /\ q[n].at = a
  BY StackPush
<1> HIDE DEF q
<1>2. \A i \in DOMAIN q : i = n \/ (i \in DOMAIN sy /\ q[i] = sy[i])
  BY <1>1
<1> HIDE DEF n
<1>3. Reach(h, q)
  BY <1>1, <1>2 DEF See, Reach
<1>4. DerefOnce(h, q)
  BY <1>1, <1>2 DEF See, DerefOnce, Unpointed
<1>5. See(h, q, fn, sc, ou)
  BY <1>3, <1>4 DEF See
<1> QED  BY <1>5 DEF q

\* The heap changes but for its nodes; new nodes are no *.
SameNodes(g, h) ==
    /\ \A a \in LiveIn(h) : h[a].kind \in NodeKinds =>
          a \in LiveIn(g) /\ g[a].kind = h[a].kind /\ g[a].expr = h[a].expr
    /\ \A a \in LiveIn(g) :
          \/ a \in LiveIn(h) /\ g[a].kind = h[a].kind /\ g[a].expr = h[a].expr
          \/ /\ a \in LiveIn(h) => h[a].kind \notin NodeKinds
             /\ g[a].expr = NULL /\ g[a].kind # "deref"

\* What is seen depends on the nodes only.
LEMMA SeeHeap ==
    ASSUME NEW h, NEW sy, NEW fn, NEW sc, NEW ou, See(h, sy, fn, sc, ou), NEW g, SameNodes(g, h)
    PROVE  See(g, sy, fn, sc, ou)
<1>1. Reach(h, sy) /\ DerefOnce(h, sy) /\ Within(h, fn, sc, ou)
  BY DEF See
<1>2. \A a \in LiveIn(h) : h[a].kind \in ExprKinds \cup {"block"} => h[a].kind \in NodeKinds
  BY DEF ExprKinds, NodeKinds
<1>3. Reach(g, sy)
  <2>1. \A i \in DOMAIN sy : sy[i].sym = "expr" => sy[i].at \in LiveIn(g) /\ g[sy[i].at].kind \in ExprKinds
    BY <1>1, <1>2 DEF Reach, SameNodes
  <2>2. \A i \in DOMAIN sy : sy[i].sym \in {"block", "func"} =>
           /\ sy[i].at \in LiveIn(g)
           /\ g[sy[i].at].kind = (IF sy[i].sym = "func" THEN "function" ELSE "block")
    BY <1>1, <1>2 DEF Reach, SameNodes, ExprKinds
  <2>3. \A a \in LiveIn(g) : g[a].expr # NULL <=> g[a].kind = "deref"
    BY <1>1 DEF Reach, SameNodes
  <2>4. \A a \in LiveIn(g) : g[a].expr # NULL => g[a].expr \in LiveIn(g) /\ g[g[a].expr].kind \in ExprKinds
    BY <1>1, <1>2 DEF Reach, SameNodes
  <2> QED  BY <2>1, <2>2, <2>3, <2>4 DEF Reach
<1>4. DerefOnce(g, sy)
  <2>1. \A i \in DOMAIN sy : sy[i].sym = "expr" =>
           sy[i].at \in LiveIn(h) /\ sy[i].at # NULL /\ g[sy[i].at].kind = h[sy[i].at].kind
    BY <1>1, <1>2, NullApart DEF Reach, SameNodes, LiveIn
  <2>2. \A c \in LiveIn(g) : g[c].expr # NULL =>
           /\ c \in LiveIn(h) /\ g[c].expr = h[c].expr
           /\ g[g[c].expr].kind = h[g[c].expr].kind
    BY <1>1, <1>2 DEF Reach, SameNodes
  <2> QED  BY <1>1, <2>1, <2>2 DEF DerefOnce
<1>5. Within(g, fn, sc, ou)
  BY <1>1, <1>2 DEF Within, SameNodes, ExprKinds
<1> QED  BY <1>3, <1>4, <1>5 DEF See

\* A new * may point to a node nothing else points to.
LEMMA SeeNewDeref ==
    ASSUME NEW h, NEW sy, NEW fn, NEW sc, NEW ou, See(h, sy, fn, sc, ou),
           NEW b, NEW cell, NEW g, With(g, h, b, cell), cell.kind = "deref",
           cell.expr \in LiveIn(h), h[cell.expr].kind \in ExprKinds, Unpointed(h, sy, cell.expr)
    PROVE  See(g, sy, fn, sc, ou) /\ Unpointed(g, sy, b)
<1>1. Reach(h, sy) /\ DerefOnce(h, sy) /\ Within(h, fn, sc, ou)
  BY DEF See
<1>2. /\ g[b] = cell /\ b \notin LiveIn(h)
      /\ \A a : a \in LiveIn(g) <=> a = b \/ a \in LiveIn(h)
      /\ \A a \in LiveIn(h) : a # b /\ g[a] = h[a]
  BY HeapNew
<1>3. cell.expr # NULL
  BY NullApart DEF LiveIn
<1>4. Reach(g, sy)
  BY <1>1, <1>2, <1>3 DEF Reach
<1>5. DerefOnce(g, sy)
  BY <1>1, <1>2, <1>3 DEF DerefOnce, Unpointed, Reach
<1>6. Within(g, fn, sc, ou)
  BY <1>1, <1>2 DEF Within
<1>7. Unpointed(g, sy, b)
  BY <1>1, <1>2, NullApart DEF Unpointed, Reach, With
<1> QED  BY <1>4, <1>5, <1>6, <1>7 DEF See

\* & of a *: the * goes, and what it pointed to is free to be used.
LEMMA SeeFreeDeref ==
    ASSUME NEW h, NEW sy, NEW fn, NEW sc, NEW ou, See(h, sy, fn, sc, ou),
           NEW d \in LiveIn(h), h[d].kind = "deref", Unpointed(h, sy, d), NEW g, Without(g, h, {d})
    PROVE  /\ See(g, sy, fn, sc, ou)
           /\ h[d].expr \in LiveIn(g) /\ g[h[d].expr].kind \in ExprKinds /\ Unpointed(g, sy, h[d].expr)
<1>1. Reach(h, sy) /\ DerefOnce(h, sy) /\ Within(h, fn, sc, ou)
  BY DEF See
<1>2. /\ \A a : a \in LiveIn(g) <=> a \in LiveIn(h) /\ a # d
      /\ \A a \in LiveIn(g) : g[a] = h[a]
  BY HeapFree
<1>3. /\ \A c \in LiveIn(h) : h[c].expr # d
      /\ \A i \in DOMAIN sy : sy[i].sym = "expr" => sy[i].at # d
  BY DEF Unpointed
<1>4. h[d].expr # NULL /\ h[d].expr \in LiveIn(h) /\ h[d].expr # d /\ h[h[d].expr].kind \in ExprKinds
  BY <1>1, <1>3 DEF Reach
<1>5. Reach(g, sy)
  BY <1>1, <1>2, <1>3 DEF Reach
<1>6. DerefOnce(g, sy)
  BY <1>1, <1>2, <1>3 DEF DerefOnce, Reach
<1>7. Within(g, fn, sc, ou)
  BY <1>1, <1>2 DEF Within
<1>8. Unpointed(g, sy, h[d].expr)
  BY <1>1, <1>2, <1>4 DEF Unpointed, DerefOnce
<1> QED  BY <1>2, <1>4, <1>5, <1>6, <1>7, <1>8 DEF See
(***************************************************************************)
(* What is on the stack together, and the open blocks.                     *)
(***************************************************************************)
Shaped(sy, fn, sc, ou) == Grammar(sy) /\ Nesting(sy, fn, sc, ou)

\* Expressions and what they are made of stand in a block of a function.
LEMMA InBody ==
    ASSUME NEW sy \in Stacks, Grammar(sy), NEW i \in DOMAIN sy
    PROVE  /\ DOMAIN sy = 1..Len(sy) /\ Len(sy) \in Nat /\ i \in Nat
           /\ sy[1].sym \in {"name", "func"}
           /\ sy[i].sym \in {"expr", "ident", "string", "args", "block"} => sy[1].sym = "func" /\ i > 1
           /\ sy[i].sym \in {"expr", "ident", "string", "args"} => i > 2
           /\ i > 1 /\ sy[1].sym = "func" => sy[2].sym = "block"
<1>1. DOMAIN sy = 1..Len(sy) /\ Len(sy) \in Nat
  BY LenProperties DEF Stacks
<1>2. i \in Nat /\ i > 0 /\ 1 \in DOMAIN sy /\ sy # <<>>
  BY <1>1
<1>3. sy[1].sym \in {"name", "func"}
  BY <1>2 DEF Grammar
<1>4. sy[i].sym \in {"expr", "ident", "string", "args", "block"} => sy[1].sym = "func" /\ i > 1
  BY <1>2, <1>3 DEF Grammar
<1>5. i > 1 /\ sy[1].sym = "func" => sy[2].sym = "block"
  BY <1>1, <1>2 DEF Grammar
<1> QED  BY <1>1, <1>2, <1>3, <1>4, <1>5

\* The open blocks can be counted.
LEMMA BlocksFinite ==
    ASSUME NEW sy \in Stacks
    PROVE  IsFiniteSet(BlocksOf(sy)) /\ Cardinality(BlocksOf(sy)) \in Nat
<1>1. Len(sy) \in Nat /\ DOMAIN sy = 1..Len(sy)
  BY LenProperties DEF Stacks
<1>2. IsFiniteSet(DOMAIN sy) /\ BlocksOf(sy) \in SUBSET DOMAIN sy
  BY <1>1, FS_Interval DEF BlocksOf
<1> QED  BY <1>2, FS_Subset, FS_CardinalityType

\* Symbols above the function's block come and go.
LEMMA ShapeCut ==
    ASSUME NEW sy \in Stacks, NEW fn, NEW sc, NEW ou, Shaped(sy, fn, sc, ou),
           NEW n \in 0..Len(sy), NEW q, Cut(q, sy, n),
           \A i \in DOMAIN sy : i > Len(sy) - n => sy[i].sym # "block"
    PROVE  Shaped(q, fn, sc, ou)
<1>1. /\ Len(sy) \in Nat /\ DOMAIN sy = 1..Len(sy) /\ n \in Nat
      /\ q \in Stacks /\ Len(q) = Len(sy) - n
      /\ \A i \in DOMAIN q : i \in DOMAIN sy /\ q[i] = sy[i]
  BY LenProperties DEF Stacks, Cut
<1>2. DOMAIN q = 1..Len(q) /\ Len(q) \in Nat
  BY <1>1, LenProperties DEF Stacks
<1>3. q # <<>> => 1 \in DOMAIN q /\ sy # <<>> /\ q[1] = sy[1]
  BY <1>1, <1>2
<1>4. Len(q) > 1 => Len(sy) > 1 /\ q[2] = sy[2]
  BY <1>1, <1>2
<1>5. Grammar(q)
  BY <1>1, <1>3, <1>4 DEF Shaped, Grammar
<1>6. \A i \in DOMAIN sy : sy[i].sym = "block" => i \in DOMAIN q
  BY <1>1, <1>2
<1>7. BlocksOf(q) = BlocksOf(sy)
  BY <1>1, <1>6 DEF BlocksOf
<1>8. Nesting(q, fn, sc, ou)
  BY <1>3, <1>7 DEF Shaped, Nesting
<1> QED  BY <1>5, <1>8 DEF Shaped

\* A symbol that opens no function and no block keeps the shape of the stack.
LEMMA ShapePush ==
    ASSUME NEW sy \in Stacks, NEW fn, NEW sc, NEW ou, Shaped(sy, fn, sc, ou), sy # <<>>,
           NEW s \in Symbols \ {"name", "func", "block"}, NEW a \in Pointers,
           sy[1].sym = "name" => s \in {"params", "declarator"},
           sy[1].sym = "func" => Len(sy) > 1, s \in Tokens => a # NULL
    PROVE  Shaped(Append(sy, Sym(s, a)), fn, sc, ou)
<1> DEFINE q == Append(sy, Sym(s, a))
<1>1. /\ q \in Stacks /\ q # <<>> /\ DOMAIN q = 1..(Len(sy) + 1) /\ Len(q) = Len(sy) + 1
      /\ DOMAIN sy = 1..Len(sy) /\ Len(sy) \in Nat
      /\ \A i \in DOMAIN sy : q[i] = sy[i]
      /\ q[Len(sy) + 1].sym = s /\ q[Len(sy) + 1].at = a
  BY StackPush
<1> HIDE DEF q
<1>2. 1 \in DOMAIN sy /\ q[1] = sy[1]
  BY <1>1, EmptySeq DEF Stacks
<1>3. \A i \in DOMAIN q : (i = Len(sy) + 1 /\ q[i].sym = s /\ q[i].at = a /\ i # 1) \/ (i \in DOMAIN sy /\ q[i] = sy[i])
  BY <1>1, <1>2
<1>4. \A i \in DOMAIN q : /\ q[i].sym \in {"name", "func"} <=> i = 1
                          /\ q[i].sym \in Tokens => q[i].at # NULL
  BY <1>3 DEF Shaped, Grammar
<1>5. q[1].sym = "name" => \A i \in DOMAIN q : q[i].sym \in {"name", "params", "declarator"}
  BY <1>2, <1>3 DEF Shaped, Grammar
<1>6. Len(q) > 1 /\ q[1].sym = "func" => q[2].sym = "block"
  BY <1>1, <1>2 DEF Shaped, Grammar
<1>7. BlocksOf(q) = BlocksOf(sy)
  <2>1. \A i \in DOMAIN sy : i \in DOMAIN q
    BY <1>1
  <2> QED  BY <1>1, <1>3, <2>1 DEF BlocksOf
<1>8. Shaped(q, fn, sc, ou)
  BY <1>2, <1>4, <1>5, <1>6, <1>7 DEF Shaped, Grammar, Nesting
<1> QED  BY <1>8 DEF q

\* A block put on the stack, by position.
LEMMA BlockPush ==
    ASSUME NEW sy \in Stacks, NEW b \in Pointers
    PROVE  LET q == Append(sy, Sym("block", b))
           IN  /\ q \in Stacks /\ q # <<>> /\ Len(q) = Len(sy) + 1 /\ DOMAIN q = 1..(Len(sy) + 1)
               /\ DOMAIN sy = 1..Len(sy) /\ Len(sy) \in Nat
               /\ \A i \in DOMAIN sy : q[i] = sy[i]
               /\ q[Len(sy) + 1].sym = "block"
<1>1. "block" \in Symbols
  BY DEF Symbols
<1> QED  BY <1>1, StackPush

\* A block is opened: its outer block is remembered.
LEMMA ShapeOpen ==
    ASSUME NEW sy \in Stacks, NEW fn, NEW sc \in Pointers, NEW ou \in Seq(Pointers),
           Shaped(sy, fn, sc, ou), sy # <<>>, sy[1].sym = "func", NEW b \in Pointers, b # NULL
    PROVE  Shaped(Append(sy, Sym("block", b)), fn, b, Append(ou, sc))
<1> DEFINE q == Append(sy, Sym("block", b))
<1>1. /\ q \in Stacks /\ q # <<>> /\ DOMAIN q = 1..(Len(sy) + 1) /\ Len(q) = Len(sy) + 1
      /\ DOMAIN sy = 1..Len(sy) /\ Len(sy) \in Nat
      /\ \A i \in DOMAIN sy : q[i] = sy[i]
      /\ q[Len(sy) + 1].sym = "block"
  BY BlockPush
<1> DEFINE n == Len(sy) + 1
<1> DEFINE ov == Append(ou, sc)
<1>2. /\ Len(ov) = Len(ou) + 1 /\ DOMAIN ov = 1..(Len(ou) + 1) /\ Len(ou) \in Nat /\ DOMAIN ou = 1..Len(ou)
      /\ \A j \in 1..Len(ou) : ov[j] = ou[j]
      /\ ov[Len(ou) + 1] = sc
  BY AppendProperties, LenProperties
<1> HIDE DEF q, ov
<1>3. 1 \in DOMAIN sy /\ q[1] = sy[1] /\ n \notin DOMAIN sy /\ n # 1
  BY <1>1, EmptySeq DEF Stacks
<1>4. \A i : i \in DOMAIN q <=> i = n \/ i \in DOMAIN sy
  BY <1>1
<1> HIDE DEF n
<1>5. \A i \in DOMAIN q : /\ q[i].sym \in {"name", "func"} <=> i = 1
                          /\ q[i].sym \in Tokens => q[i].at # NULL
  BY <1>1, <1>3, <1>4 DEF Shaped, Grammar, Tokens
<1>6. Len(q) > 1 => q[2].sym = "block"
  BY <1>1, <1>3 DEF Shaped, Grammar, n
<1>7. Grammar(q)
  BY <1>3, <1>5, <1>6 DEF Grammar
<1>8. Cardinality(BlocksOf(q)) = Cardinality(BlocksOf(sy)) + 1
  <2>1. BlocksOf(q) = BlocksOf(sy) \cup {n}
    BY <1>1, <1>4 DEF BlocksOf
  <2>2. n \notin BlocksOf(sy)
    BY <1>3 DEF BlocksOf
  <2> QED  BY <2>1, <2>2, BlocksFinite, FS_AddElement
<1>9. ASSUME NEW j \in DOMAIN ov, j > 1 PROVE ov[j] # NULL
  <2>1. CASE j \in 1..Len(ou)
    BY <1>2, <1>9, <2>1 DEF Shaped, Nesting
  <2>2. CASE j = Len(ou) + 1
    <3>1. Len(ou) # 0 /\ Len(ou) = Cardinality(BlocksOf(sy))
      BY <1>2, <1>9, <2>2 DEF Shaped, Nesting
    <3>2. BlocksOf(sy) # {}
      BY <3>1, FS_EmptySet
    <3> QED  BY <1>2, <2>2, <3>2 DEF Shaped, Nesting
  <2> QED  BY <1>2, <2>1, <2>2
<1>10. fn # NULL
  BY DEF Shaped, Nesting
<1>11. Nesting(q, fn, b, ov)
  BY <1>2, <1>8, <1>9, <1>10 DEF Shaped, Nesting
<1> QED  BY <1>7, <1>11 DEF Shaped, q, ov

\* The block of an if or while is closed: the function's own stays.
LEMMA ShapeClose ==
    ASSUME NEW sy \in Stacks, NEW fn, NEW sc, NEW ou \in Seq(Pointers), Shaped(sy, fn, sc, ou),
           Len(sy) > 1, sy[Len(sy)].sym = "block", sy[Len(sy) - 1].sym = "expr",
           NEW q, Cut(q, sy, 2)
    PROVE  ou # <<>> /\ Shaped(q, fn, Last(ou), Front(ou))
<1> DEFINE n == Len(sy)
<1>1. /\ n \in Nat /\ DOMAIN sy = 1..n /\ q \in Stacks /\ Len(q) = n - 2 /\ DOMAIN q = 1..(n - 2)
      /\ \A i \in DOMAIN q : i \in DOMAIN sy /\ q[i] = sy[i]
  BY LenProperties DEF Stacks, Cut
<1>2. n \in DOMAIN sy /\ n - 1 \in DOMAIN sy
  BY <1>1
<1>3. n > 3 /\ sy[1].sym = "func" /\ sy[2].sym = "block"
  <2>1. n - 1 > 2 /\ sy[1].sym = "func"
    BY <1>2, InBody DEF Shaped
  <2> QED  BY <1>1, <1>2, <2>1, InBody DEF Shaped
<1> HIDE DEF n
<1>4. q[1] = sy[1] /\ q[2] = sy[2] /\ q # <<>>
  BY <1>1, <1>3, EmptySeq
<1>5. Grammar(q)
  BY <1>1, <1>3, <1>4 DEF Shaped, Grammar
<1>6. BlocksOf(q) = BlocksOf(sy) \ {n}
  <2>1. \A i \in DOMAIN sy : sy[i].sym = "block" /\ i # n => i \in DOMAIN q
    BY <1>1 DEF n
  <2>2. n \notin DOMAIN q
    BY <1>1
  <2> QED  BY <1>1, <2>1, <2>2 DEF BlocksOf
<1>7. {2, n} \subseteq BlocksOf(sy) /\ 2 # n
  BY <1>1, <1>2, <1>3 DEF BlocksOf, n
<1>8. /\ Cardinality(BlocksOf(q)) = Cardinality(BlocksOf(sy)) - 1
      /\ BlocksOf(q) # {} /\ Cardinality(BlocksOf(q)) \in Nat /\ Cardinality(BlocksOf(q)) # 0
  <2>1. Cardinality(BlocksOf(sy) \ {n}) = Cardinality(BlocksOf(sy)) - 1
    BY <1>7, BlocksFinite, FS_RemoveElement
  <2>2. BlocksOf(q) # {}
    BY <1>6, <1>7
  <2>3. IsFiniteSet(BlocksOf(q)) /\ Cardinality(BlocksOf(q)) \in Nat
    BY <1>1, BlocksFinite
  <2> QED  BY <1>6, <2>1, <2>2, <2>3, FS_EmptySet
<1>9. Len(ou) \in Nat /\ Len(ou) - 1 = Cardinality(BlocksOf(q)) /\ Len(ou) > 1 /\ DOMAIN ou = 1..Len(ou)
  <2>1. Len(ou) = Cardinality(BlocksOf(sy)) /\ Len(ou) \in Nat /\ DOMAIN ou = 1..Len(ou)
    BY LenProperties DEF Shaped, Nesting
  <2> QED  BY <1>8, <2>1
<1>10. ou # <<>> /\ Last(ou) # NULL
  BY <1>9 DEF Shaped, Nesting, Last
<1>11. /\ Len(Front(ou)) = Len(ou) - 1 /\ DOMAIN Front(ou) = 1..(Len(ou) - 1)
       /\ \A j \in 1..(Len(ou) - 1) : Front(ou)[j] = ou[j]
  BY <1>9, Prefix DEF Front
<1>12. \A j \in DOMAIN Front(ou) : j > 1 => Front(ou)[j] # NULL
  BY <1>9, <1>11 DEF Shaped, Nesting
<1>13. fn # NULL
  BY <1>1, <1>3 DEF Shaped, Nesting
<1> QED  BY <1>5, <1>8, <1>9, <1>10, <1>11, <1>12, <1>13 DEF Shaped, Nesting

\* The function's own block is the last.
LEMMA ShapeEnd ==
    ASSUME NEW sy \in Stacks, NEW fn, NEW sc, NEW ou \in Seq(Pointers), Shaped(sy, fn, sc, ou)
    PROVE  /\ Len(sy) > 1 /\ sy[Len(sy)].sym = "block" /\ sy[Len(sy) - 1].sym = "func" =>
                 /\ Len(sy) = 2 /\ ou # <<>> /\ Front(ou) = <<>>
           /\ Len(sy) > 0 /\ sy[Len(sy)].sym = "func" => Len(sy) = 1 /\ ou = <<>>
<1>1. /\ Len(sy) \in Nat /\ DOMAIN sy = 1..Len(sy)
      /\ Len(ou) \in Nat /\ Len(ou) = Cardinality(BlocksOf(sy)) /\ Grammar(sy)
  BY LenProperties DEF Stacks, Shaped, Nesting
<1>2. ASSUME Len(sy) > 1, sy[Len(sy)].sym = "block", sy[Len(sy) - 1].sym = "func"
      PROVE  Len(sy) = 2 /\ ou # <<>> /\ Front(ou) = <<>>
  <2>1. Len(sy) = 2
    BY <1>1, <1>2 DEF Grammar
  <2>2. BlocksOf(sy) = {2}
    BY <1>1, <1>2, <2>1 DEF BlocksOf
  <2>3. Len(ou) = 1
    BY <1>1, <2>2, FS_Singleton
  <2> QED  BY <2>1, <2>3, SubSeqEmpty DEF Front
<1>3. ASSUME Len(sy) > 0, sy[Len(sy)].sym = "func"
      PROVE  Len(sy) = 1 /\ ou = <<>>
  <2>1. Len(sy) = 1
    BY <1>1, <1>3 DEF Grammar
  <2>2. BlocksOf(sy) = {}
    BY <1>1, <1>3, <2>1 DEF BlocksOf
  <2>3. Len(ou) = 0
    BY <1>1, <2>2, FS_EmptySet
  <2> QED  BY <2>1, <2>3, EmptySeq
<1> QED  BY <1>2, <1>3

\* The shape of a stack of one symbol, and of none.
LEMMA ShapeBottom ==
    ASSUME NEW s \in {"name", "func"}, NEW a \in Pointers, NEW fn, NEW sc,
           s = "func" => fn # NULL, s = "name" => a # NULL
    PROVE  /\ Shaped(Append(<<>>, Sym(s, a)), fn, sc, <<>>) /\ Shaped(<<>>, fn, sc, <<>>)
<1> DEFINE q == Append(<<>>, Sym(s, a))
<1>1. <<>> \in Stacks /\ Len(<<>>) = 0
  BY EmptySeq DEF Stacks
<1>2. q # <<>> /\ DOMAIN q = 1..1 /\ Len(q) = 1 /\ q[1].sym = s /\ q[1].at = a
  <2> s \in Symbols
    BY DEF Symbols
  <2> DEFINE n == Len(<<>>) + 1
  <2>1. q # <<>> /\ DOMAIN q = 1..n /\ Len(q) = n /\ q[n].sym = s /\ q[n].at = a
    BY <1>1, StackPush
  <2>2. n = 1
    BY <1>1
  <2> QED  BY <2>1, <2>2
<1> HIDE DEF q
<1>3. BlocksOf(q) = {} /\ BlocksOf(<<>>) = {}
  BY <1>2 DEF BlocksOf
<1>4. Grammar(q) /\ Grammar(<<>>)
  BY <1>1, <1>2 DEF Grammar, Tokens
<1>5. Nesting(q, fn, sc, <<>>) /\ Nesting(<<>>, fn, sc, <<>>)
  BY <1>1, <1>2, <1>3, FS_EmptySet DEF Nesting
<1> QED  BY <1>4, <1>5 DEF Shaped, q
(***************************************************************************)
(* A state of the parse, and what a rule does to it: symbols are taken,    *)
(* memory changes hands while X waits for an owner, a symbol is put on.    *)
(***************************************************************************)
Sound(h, ar, sy, X, fn, sc, ou, u) ==
    Own(h, ar, sy, X, u) /\ See(h, sy, fn, sc, ou) /\ Shaped(sy, fn, sc, ou)
\* Nothing waits, or one thing.
Nothing == {}
Only(a) == {a}
\* What is known of a symbol on the stack, and of one that was taken from it.
Known(h, x) ==
    /\ x.at \in Pointers /\ (x.sym \in Tokens => x.at # NULL)
    /\ x.sym = "expr" => x.at \in LiveIn(h) /\ h[x.at].kind \in ExprKinds
    /\ x.sym \in Owning /\ x.at # NULL => x.at \in LiveIn(h) /\ h[x.at].kind = KindOf(x.sym)
    /\ x.sym = "args" /\ x.at # NULL => h[x.at].vars = <<>>
Loose(h, q, x) ==
    /\ x.sym \in Owning /\ x.at # NULL => Unheld(h, q, x.at)
    /\ x.sym = "expr" => Unpointed(h, q, x.at)
\* The stack ends in a block of a function, and perhaps in more.
InFunction(q) == q # <<>> /\ q[1].sym = "func" /\ Len(q) > 1
TakesOnly(sy, n, Y) ==
    \A i \in DOMAIN sy : i > Len(sy) - n =>
        sy[i].sym # "block" /\ (sy[i].sym \in Owning => sy[i].at \in Y \cup {NULL})

\* A rule that takes n symbols has what they owned, and nothing else changes.
LEMMA SoundCut ==
    ASSUME NEW h, NEW ar, NEW sy, NEW fn, NEW sc, NEW ou, NEW u, Sound(h, ar, sy, Nothing, fn, sc, ou, u),
           NEW n \in 0..Len(sy), NEW Y, TakesOnly(sy, n, Y), NEW q, Cut(q, sy, n)
    PROVE  /\ Sound(h, ar, q, Y, fn, sc, ou, u)
           /\ \A i \in DOMAIN sy : i > Len(sy) - n => Known(h, sy[i]) /\ Loose(h, q, sy[i])
<1>1. /\ Own(h, ar, sy, Nothing, u) /\ See(h, sy, fn, sc, ou) /\ Shaped(sy, fn, sc, ou)
      /\ sy \in Stacks /\ q \in Stacks
  BY DEF Sound, Own, Cut
<1>2. /\ Len(sy) \in Nat /\ DOMAIN sy = 1..Len(sy) /\ DOMAIN q = 1..(Len(sy) - n)
      /\ \A i \in DOMAIN q : i \in DOMAIN sy /\ q[i] = sy[i]
  BY <1>1, LenProperties DEF Cut, Stacks
<1>3. \A i \in DOMAIN sy : i > Len(sy) - n <=> i \notin DOMAIN q
  BY <1>2
<1>4. \A i \in DOMAIN sy : i \notin DOMAIN q /\ sy[i].sym \in Owning => sy[i].at \in Y \cup {NULL}
  BY <1>3 DEF TakesOnly
<1>5. Nothing \subseteq Y
  BY DEF Nothing
<1>6. /\ Own(h, ar, q, Y, u)
      /\ \A i \in DOMAIN sy : i \notin DOMAIN q =>
            (sy[i].sym \in Owning /\ sy[i].at # NULL => Unheld(h, q, sy[i].at))
  BY <1>1, <1>2, <1>4, <1>5, OwnCut
<1>7. /\ See(h, q, fn, sc, ou)
      /\ \A i \in DOMAIN sy : i \notin DOMAIN q => (sy[i].sym = "expr" => Unpointed(h, q, sy[i].at))
  BY <1>1, <1>2, SeeCut
<1>8. Shaped(q, fn, sc, ou)
  <2>1. \A i \in DOMAIN sy : i > Len(sy) - n => sy[i].sym # "block"
    BY DEF TakesOnly
  <2> QED  BY <1>1, <2>1, ShapeCut
<1>9. \A i \in DOMAIN sy : Known(h, sy[i])
  <2>1. \A i \in DOMAIN sy : sy[i] \in SymSet
    BY <1>1, ElementOfSeq, LenProperties DEF Stacks
  <2>2. \A i \in DOMAIN sy : sy[i].at \in Pointers
    BY <2>1 DEF SymSet
  <2>3. Kept(h, sy) /\ Reach(h, sy)
    BY <1>1 DEF Own, Handed, See
  <2>4. \A i \in DOMAIN sy : sy[i].sym = "expr" => sy[i].at \in LiveIn(h) /\ h[sy[i].at].kind \in ExprKinds
    BY <2>3 DEF Reach
  <2>5. \A i \in DOMAIN sy : sy[i].sym \in Owning /\ sy[i].at # NULL =>
           /\ sy[i].at \in LiveIn(h) /\ h[sy[i].at].kind = KindOf(sy[i].sym)
           /\ sy[i].sym = "args" => h[sy[i].at].vars = <<>>
    BY <2>3 DEF Kept
  <2>6. \A i \in DOMAIN sy : sy[i].sym \in Tokens => sy[i].at # NULL
    BY <1>1 DEF Shaped, Grammar
  <2> QED  BY <2>2, <2>4, <2>5, <2>6 DEF Known, Owning
<1>10. \A i \in DOMAIN sy : i \notin DOMAIN q => Loose(h, q, sy[i])
  BY <1>6, <1>7 DEF Loose
<1> QED  BY <1>3, <1>6, <1>7, <1>8, <1>9, <1>10 DEF Sound

\* The head of an expression, or a part of one, has a block beneath it.
LEMMA BodyBelow ==
    ASSUME NEW sy \in Stacks, Grammar(sy), NEW n \in Nat, NEW i \in DOMAIN sy, i = Len(sy) - n + 1,
           sy[i].sym \in {"expr", "ident", "string", "args"}, NEW q, Cut(q, sy, n)
    PROVE  InFunction(q)
<1>1. DOMAIN sy = 1..Len(sy) /\ Len(sy) \in Nat /\ i \in Nat /\ i > 2 /\ sy[1].sym = "func"
  BY InBody
<1>2. Len(q) = Len(sy) - n /\ q \in Stacks /\ \A j \in DOMAIN q : q[j] = sy[j]
  BY DEF Cut
<1>3. Len(q) > 1
  BY <1>1, <1>2
<1>4. DOMAIN q = 1..Len(q) /\ Len(q) \in Nat
  BY <1>2, LenProperties DEF Stacks
<1>5. 1 \in DOMAIN q /\ q # <<>>
  BY <1>3, <1>4
<1> QED  BY <1>1, <1>2, <1>3, <1>5 DEF InFunction

\* New memory that is no node waits for its owner.
LEMMA SoundNew ==
    ASSUME NEW h, NEW ar, NEW q, NEW X, NEW fn, NEW sc, NEW ou, NEW u, Sound(h, ar, q, X, fn, sc, ou, u),
           NEW b, NEW cell, NEW g, With(g, h, b, cell), Takeable(h, q, cell),
           cell.kind \notin NodeKinds, cell.expr = NULL,
           NEW Y, X \subseteq Y \cup TakenBy(cell), b \in Y
    PROVE  Sound(g, ar, q, Y, fn, sc, ou, u) /\ SameNodes(g, h)
<1>1. Own(g, ar, q, Y, u)
  BY OwnNew DEF Sound
<1>2. SameNodes(g, h)
  BY HeapNew DEF SameNodes, NodeKinds
<1> QED  BY <1>1, <1>2, SeeHeap DEF Sound

\* A new node has its area, and nobody points to it yet.
LEMMA SoundNode ==
    ASSUME NEW h, NEW ar, NEW q, NEW X, NEW fn, NEW sc, NEW ou, NEW u, Sound(h, ar, q, X, fn, sc, ou, u),
           NEW b, NEW cell, NEW g, With(g, h, b, cell), Takeable(h, q, cell),
           cell.kind \in NodeKinds, cell.kind # "deref", cell.expr = NULL,
           NEW Y, X \subseteq Y \cup TakenBy(cell)
    PROVE  /\ Sound(g, <<Area(b, cell.kind)>> \o ar, q, Y, fn, sc, ou, u)
           /\ b \in LiveIn(g) /\ g[b] = cell /\ Unpointed(g, q, b)
<1>1. Own(g, <<Area(b, cell.kind)>> \o ar, q, Y, u)
  BY OwnNode DEF Sound
<1>2. SameNodes(g, h)
  BY HeapNew DEF SameNodes
<1>3. b \in LiveIn(g) /\ g[b] = cell
  BY HeapNew
<1> QED  BY <1>1, <1>2, <1>3, SeeHeap DEF Sound, Unpointed

\* The new node is a *.
LEMMA SoundDeref ==
    ASSUME NEW h, NEW ar, NEW q, NEW X, NEW fn, NEW sc, NEW ou, NEW u, Sound(h, ar, q, X, fn, sc, ou, u),
           NEW b, NEW cell, NEW g, With(g, h, b, cell), Takeable(h, q, cell), cell.kind = "deref",
           cell.expr \in LiveIn(h), h[cell.expr].kind \in ExprKinds, Unpointed(h, q, cell.expr),
           NEW Y, X \subseteq Y \cup TakenBy(cell)
    PROVE  /\ Sound(g, <<Area(b, cell.kind)>> \o ar, q, Y, fn, sc, ou, u)
           /\ b \in LiveIn(g) /\ g[b] = cell /\ Unpointed(g, q, b)
<1>1. cell.kind \in NodeKinds
  BY DEF NodeKinds
<1>2. Own(g, <<Area(b, cell.kind)>> \o ar, q, Y, u)
  BY <1>1, OwnNode DEF Sound
<1>3. See(g, q, fn, sc, ou) /\ Unpointed(g, q, b)
  BY SeeNewDeref DEF Sound
<1>4. b \in LiveIn(g) /\ g[b] = cell
  BY HeapNew
<1> QED  BY <1>2, <1>3, <1>4 DEF Sound

\* Memory of no node is freed.
LEMMA SoundFree ==
    ASSUME NEW h, NEW ar, NEW q, NEW X, NEW fn, NEW sc, NEW ou, NEW u, Sound(h, ar, q, X, fn, sc, ou, u),
           NEW a \in LiveIn(h), Unheld(h, q, a), h[a].kind \notin NodeKinds,
           NEW Y, X \subseteq Y \cup {a}, h[a].name \in Y \cup {NULL},
           \A i \in DOMAIN h[a].vars : h[a].vars[i] \in Y,
           NEW g, Without(g, h, {a})
    PROVE  Sound(g, ar, q, Y, fn, sc, ou, u) /\ SameNodes(g, h)
<1>1. Own(g, ar, q, Y, u)
  BY OwnFreeOne DEF Sound
<1>2. SameNodes(g, h)
  BY HeapFree DEF SameNodes
<1> QED  BY <1>1, <1>2, SeeHeap DEF Sound

\* A variable that waits is put on a list.
LEMMA SoundListed ==
    ASSUME NEW h, NEW ar, NEW q, NEW X, NEW fn, NEW sc, NEW ou, NEW u, Sound(h, ar, q, X, fn, sc, ou, u),
           NEW c, NEW v, NEW g, Listed(g, h, c, v), h[c].kind \in Listers,
           h[v].kind = "variable", Unheld(h, q, v), NEW Y, X \subseteq Y \cup {v},
           h[c].kind = "list" => Unheld(h, q, c)
    PROVE  Sound(g, ar, q, Y, fn, sc, ou, u)
<1>1. Own(g, ar, q, Y, u)
  BY OwnListed DEF Sound
<1>2. SameNodes(g, h)
  BY HeapListed DEF SameNodes, Sound, Own
<1> QED  BY <1>1, <1>2, SeeHeap DEF Sound

\* Soundness is the same in heaps that differ in locals only.
LEMMA SoundSame ==
    ASSUME NEW h, NEW ar, NEW q, NEW X, NEW fn, NEW sc, NEW ou, NEW u, Sound(h, ar, q, X, fn, sc, ou, u),
           NEW g, SameOwners(g, h)
    PROVE  Sound(g, ar, q, X, fn, sc, ou, u)
<1>1. Own(g, ar, q, X, u)
  BY OwnSame DEF Sound
<1>2. SameNodes(g, h)
  BY DEF SameNodes, SameOwners
<1> QED  BY <1>1, <1>2, SeeHeap DEF Sound

\* An expression is put on the stack.
LEMMA SoundExpr ==
    ASSUME NEW h, NEW ar, NEW q, NEW X, NEW fn, NEW sc, NEW ou, NEW u, Sound(h, ar, q, X, fn, sc, ou, u),
           InFunction(q), NEW a \in LiveIn(h), h[a].kind \in ExprKinds, Unpointed(h, q, a)
    PROVE  Sound(h, ar, Append(q, Sym("expr", a)), X, fn, sc, ou, u)
<1>1. a \in Pointers /\ q \in Stacks
  BY DEF LiveIn, Pointers, Sound, Own
<1> DEFINE s == "expr"
<1>2. /\ s \in Symbols /\ s \notin {"name", "func", "block"} /\ s \notin Owning /\ s \notin {"block", "func"}
      /\ s = "expr" /\ s # "args"
  BY DEF Symbols, Owning
<1>0. s \in Tokens => a # NULL
  BY DEF Tokens
<1> HIDE DEF s
<1>3. s \in Symbols \ {"name", "func", "block"} /\ X \subseteq X \cup {b \in {a} : s \in Owning}
  BY <1>2
<1> DEFINE r == Append(q, Sym(s, a))
<1>4. Own(h, ar, r, X, u)
  BY <1>1, <1>2, <1>3, OwnPush DEF Sound
<1>5. See(h, r, fn, sc, ou)
  BY <1>1, <1>2, SeePush DEF Sound
<1>6. q # <<>> /\ q[1].sym = "func" /\ q[1].sym # "name" /\ Len(q) > 1 /\ Shaped(q, fn, sc, ou)
  BY DEF InFunction, Sound
<1>7. Shaped(r, fn, sc, ou)
  BY <1>0, <1>1, <1>3, <1>6, ShapePush
<1>8. Sound(h, ar, r, X, fn, sc, ou, u)
  BY <1>4, <1>5, <1>7 DEF Sound
<1> QED  BY <1>8 DEF r, s

\* A symbol that owns memory is put on the stack.
Fits(q, s) ==
    /\ q # <<>>
    /\ q[1].sym = "name" => s \in {"params", "declarator"}
    /\ q[1].sym = "func" => Len(q) > 1

\* A rule that pushes an owning symbol gives what it has to the stack.
LEMMA SoundPush ==
    ASSUME NEW h, NEW ar, NEW q, NEW X, NEW fn, NEW sc, NEW ou, NEW u, Sound(h, ar, q, X, fn, sc, ou, u),
           NEW s \in Owning \ {"name"}, Fits(q, s), NEW a \in Pointers, NEW Y, X \subseteq Y \cup {a},
           a # NULL => a \in LiveIn(h) /\ h[a].kind = KindOf(s) /\ Unheld(h, q, a),
           s = "args" /\ a # NULL => h[a].vars = <<>>, s \in Tokens => a # NULL
    PROVE  Sound(h, ar, Append(q, Sym(s, a)), Y, fn, sc, ou, u)
<1>1. /\ s \in Symbols \ {"name", "func", "block"} /\ s \in Symbols /\ s \in Owning
      /\ s # "expr" /\ s \notin {"block", "func"}
  BY DEF Symbols, Owning
<1>2. X \subseteq Y \cup {b \in {a} : s \in Owning} /\ q \in Stacks
  BY <1>1 DEF Sound, Own
<1> DEFINE r == Append(q, Sym(s, a))
<1>3. Own(h, ar, r, Y, u)
  BY <1>1, <1>2, OwnPush DEF Sound
<1>4. See(h, r, fn, sc, ou)
  BY <1>1, <1>2, SeePush DEF Sound
<1>5. Shaped(r, fn, sc, ou)
  BY <1>1, <1>2, ShapePush DEF Sound, Fits
<1>6. Sound(h, ar, r, Y, fn, sc, ou, u)
  BY <1>3, <1>4, <1>5 DEF Sound
<1> QED  BY <1>6 DEF r

(***************************************************************************)
(* The steps.                                                              *)
(***************************************************************************)
Typed(fn, sc, ou, un) == fn \in Pointers /\ sc \in Pointers /\ ou \in Seq(Pointers) /\ un \in 0..MaxUndone
\* Between two steps of the parser.
Sane ==
    /\ Sound(heap, areas, symbols, Nothing, func, scope, outer, undone)
    /\ Typed(func, scope, outer, undone)
    /\ lost = Nothing
\* A rule after which the parse goes on.
GoesOn == memStatus' = "parsing" /\ lost' = Nothing

\* Where a rule starts from.
LEMMA Before ==
    ASSUME IInv, Parsing
    PROVE  Sane
<1>1. Own(heap, areas, symbols, Nothing, undone)
  BY DEF IInv, OwnerInv, MemTypeOK, Own, Parsing, Nothing, Heaps, AreaSeqs, AreaSet, Stacks, SymSet
<1>2. See(heap, symbols, func, scope, outer) /\ Shaped(symbols, func, scope, outer)
  BY DEF IInv, ParserInv, Shaped
<1>3. Typed(func, scope, outer, undone) /\ lost = Nothing
  BY DEF IInv, MemTypeOK, Typed, Nothing
<1> QED  BY <1>1, <1>2, <1>3 DEF Sane, Sound

\* Where a rule that does not end the parse has to end.
LEMMA After ==
    ASSUME Sound(heap', areas', symbols', Nothing, func', scope', outer', undone'),
           Typed(func', scope', outer', undone'), GoesOn
    PROVE  IInv'
<1>1. /\ Own(heap', areas', symbols', Nothing, undone')
      /\ See(heap', symbols', func', scope', outer')
      /\ Shaped(symbols', func', scope', outer')
  BY DEF Sound
<1>2. memStatus' = "parsing" /\ lost' = {}
  BY DEF GoesOn, Nothing
<1>3. MemTypeOK'
  BY <1>1, <1>2 DEF MemTypeOK, Typed, Own, Heaps, AreaSeqs, AreaSet, Stacks, SymSet
<1>4. ParserInv' /\ Handed(heap', symbols')
  BY <1>1 DEF ParserInv, Shaped, Own
<1>5. undone' = 0 => OwnerInv'
  BY <1>1, <1>2 DEF OwnerInv, Own, Nothing, LostHold
<1> QED  BY <1>2, <1>3, <1>4, <1>5 DEF IInv

\* What a parse that is given up had in hand is lost.
LEMMA AfterAbort ==
    ASSUME NEW X \in SUBSET Addresses, Own(heap', areas', symbols', X, undone'), LostHold(heap', symbols', X),
           lost' = X, Typed(func', scope', outer', undone'), memStatus' = "aborted"
    PROVE  IInv'
<1>1. MemTypeOK'
  BY DEF MemTypeOK, Typed, Own, Heaps, AreaSeqs, AreaSet, Stacks, SymSet
<1>2. ~Parsing' /\ Handed(heap', symbols')
  BY DEF Parsing, Own
<1>3. undone' = 0 => OwnerInv'
  BY DEF OwnerInv, Own
<1> QED  BY <1>1, <1>2, <1>3 DEF IInv

\* A cell that takes nothing.
LEMMA TakesNothing ==
    ASSUME NEW h, NEW q, NEW cell, cell.name = NULL, cell.vars = <<>>
    PROVE  Takeable(h, q, cell) /\ TakenBy(cell) = {NULL}
  BY DEF Takeable, TakenBy

\* A token that the end of the parse finds in hand joins what nobody has.
LEMMA TokenLost ==
    ASSUME NEW h, NEW ar, NEW sy, NEW X \in SUBSET Addresses, NEW u, Own(h, ar, sy, X, u), LostHold(h, sy, X),
           NEW kind \in {"name", "string"}, EndsIn(kind, h, X)
    PROVE  /\ Own(heap', ar, sy, lost', u) /\ LostHold(heap', sy, lost') /\ lost' \in SUBSET Addresses
           /\ \A a \in lost' \ X : heap'[a].kind = kind
           /\ X = {} => \A a, b \in lost' : a = b
<1> DEFINE b == Lowest(Vacant(h))
<1> DEFINE cell == New(kind)
<1>1. /\ Vacant(h) # {} /\ heap' = [h EXCEPT ![b] = cell] /\ lost' = X \cup {b}
      /\ h \in Heaps /\ Kept(h, sy)
  BY DEF EndsIn, Own, Handed
<1>2. b \in Addresses /\ h[b] = Unused /\ b # NULL
  <2>1. Vacant(h) \in SUBSET Nat
    BY AddressesAssumption DEF Vacant
  <2>2. b \in Vacant(h)
    BY <1>1, <2>1, LowestOf
  <2> QED  BY <2>2, NullApart DEF Vacant
<1>3. /\ cell \in Cell /\ cell.kind = kind /\ cell.kind \notin NodeKinds
      /\ cell.name = NULL /\ cell.vars = <<>>
  BY NewCell DEF Kinds, NodeKinds
<1> HIDE DEF b, cell
<1>4. With(heap', h, b, cell)
  BY <1>1, <1>2, <1>3, OneNew
<1>5. Takeable(h, sy, cell) /\ TakenBy(cell) = {NULL}
  BY <1>3, TakesNothing
<1>6. Own(heap', ar, sy, lost', u)
  <2>1. X \subseteq lost' \cup TakenBy(cell) /\ b \in lost'
    BY <1>1
  <2> QED  BY <1>4, <1>5, <2>1, OwnNew
<1>7. b \in LiveIn(heap') /\ heap'[b] = cell /\ Unheld(heap', sy, b)
  <2>1. cell.name # b /\ \A i \in DOMAIN cell.vars : cell.vars[i] # b
    BY <1>2, <1>3
  <2>2. Unheld(heap', sy, b)
    BY <1>1, <1>4, <2>1, NewUnheld
  <2> QED  BY <1>4, <2>2, HeapNew
<1>8. ASSUME NEW a \in X
      PROVE  a \in LiveIn(heap') /\ heap'[a].kind \notin NodeKinds /\ Unheld(heap', sy, a)
  <2>1. a \in LiveIn(h) /\ h[a].kind \notin NodeKinds /\ Unheld(h, sy, a) /\ a # NULL
    BY NullApart DEF LostHold
  <2>2. a \in LiveIn(heap') /\ heap'[a] = h[a]
    BY <1>4, <2>1, HeapNew
  <2> QED  BY <1>4, <1>5, <2>1, <2>2, StaysUnheld
<1>9. LostHold(heap', sy, lost')
  BY <1>1, <1>3, <1>7, <1>8 DEF LostHold
<1> QED  BY <1>1, <1>2, <1>3, <1>6, <1>7, <1>9

\* A rule that gives up loses what only it has, and the lookahead.
LEMMA AfterGiveUp ==
    ASSUME NEW h, NEW X \in SUBSET Addresses, Own(h, areas', symbols', X, undone'), LostHold(h, symbols', X),
           Typed(func', scope', outer', undone'), GiveUp(h, X)
    PROVE  IInv'
<1>1. memStatus' = "aborted"
  BY DEF GiveUp
<1>2. CASE heap' = h /\ lost' = X
  BY <1>1, <1>2, AfterAbort
<1>3. CASE \E kind \in {"name", "string"} : EndsIn(kind, h, X)
  <2>1. PICK kind \in {"name", "string"} : EndsIn(kind, h, X)
    BY <1>3
  <2> DEFINE Y == lost'
  <2>2. /\ Own(heap', areas', symbols', Y, undone') /\ LostHold(heap', symbols', Y)
        /\ Y \in SUBSET Addresses /\ lost' = Y
    BY <2>1, TokenLost
  <2> HIDE DEF Y
  <2> QED  BY <1>1, <2>2, AfterAbort
<1> QED  BY <1>2, <1>3 DEF GiveUp

\* Nothing in hand.
LEMMA NothingLost ==
    /\ Nothing \in SUBSET Addresses /\ Nothing = {}
    /\ \A h, sy : LostHold(h, sy, Nothing)
  BY DEF Nothing, LostHold

(***************************************************************************)
(* What a rule takes from the stack.                                       *)
(***************************************************************************)

\* Top and Under, by position.
LEMMA Tops ==
    ASSUME symbols \in Stacks, symbols # <<>>
    PROVE  /\ Len(symbols) \in DOMAIN symbols /\ Len(symbols) \in Nat /\ Len(symbols) > 0
           /\ DOMAIN symbols = 1..Len(symbols)
           /\ Top = symbols[Len(symbols)] /\ Under(1) = symbols[Len(symbols) - 1]
<1>1. Len(symbols) \in Nat /\ Len(symbols) # 0 /\ DOMAIN symbols = 1..Len(symbols)
  BY EmptySeq, LenProperties DEF Stacks
<1> QED  BY <1>1 DEF Top, Last, Under

\* Popping nothing.
LEMMA PoppedNone ==
    ASSUME symbols \in Stacks
    PROVE  Popped(0) = symbols
<1>1. Len(symbols) - 0 = Len(symbols)
  BY LenProperties DEF Stacks
<1> QED  BY <1>1, SubSeqFull DEF Popped, Stacks

\* A rule of one symbol: what it has once it has taken it.
LEMMA TakeOne ==
    ASSUME Sane, NEW s, On(s), s # "block", NEW Y, s \in Owning => Top.at \in Y \cup {NULL}
    PROVE  /\ Sound(heap, areas, Popped(1), Y, func, scope, outer, undone)
           /\ Known(heap, Top) /\ Loose(heap, Popped(1), Top) /\ Top.sym = s
           /\ s \in {"expr", "ident", "string", "args"} => InFunction(Popped(1))
<1>1. /\ symbols \in Stacks /\ symbols # <<>> /\ Grammar(symbols)
      /\ Sound(heap, areas, symbols, Nothing, func, scope, outer, undone)
  BY DEF Sane, Sound, Own, On, Shaped
<1> DEFINE n == Len(symbols)
<1>2. /\ n \in DOMAIN symbols /\ n \in Nat /\ n > 0 /\ DOMAIN symbols = 1..n /\ Top = symbols[n]
      /\ symbols[n].sym = s
  BY <1>1, Tops DEF On
<1>3. Cut(Popped(1), symbols, 1)
  BY <1>1, <1>2, StackCut DEF Popped
<1>4. TakesOnly(symbols, 1, Y)
  BY <1>2 DEF TakesOnly
<1>5. /\ Sound(heap, areas, Popped(1), Y, func, scope, outer, undone)
      /\ \A i \in DOMAIN symbols : i > n - 1 => Known(heap, symbols[i]) /\ Loose(heap, Popped(1), symbols[i])
  <2> DEFINE m == 1
  <2>1. m \in 0..Len(symbols) /\ TakesOnly(symbols, m, Y) /\ Cut(Popped(1), symbols, m)
    BY <1>2, <1>3, <1>4
  <2> HIDE DEF m
  <2>2. /\ Sound(heap, areas, Popped(1), Y, func, scope, outer, undone)
        /\ \A i \in DOMAIN symbols : i > n - m => Known(heap, symbols[i]) /\ Loose(heap, Popped(1), symbols[i])
    BY <1>1, <2>1, SoundCut
  <2> QED  BY <2>2 DEF m
<1>6. Known(heap, Top) /\ Loose(heap, Popped(1), Top)
  BY <1>2, <1>5
<1>7. ASSUME s \in {"expr", "ident", "string", "args"} PROVE InFunction(Popped(1))
  <2>1. n = n - 1 + 1
    BY <1>2
  <2> QED  BY <1>1, <1>2, <1>3, <1>7, <2>1, BodyBelow
<1> QED  BY <1>2, <1>5, <1>6, <1>7

\* The same for a rule of two symbols.
LEMMA TakeTwo ==
    ASSUME Sane, NEW s, On(s), NEW t, Beneath(1, t), "block" \notin {s, t},
           NEW Y, s \in Owning => Top.at \in Y \cup {NULL}, t \in Owning => Under(1).at \in Y \cup {NULL}
    PROVE  /\ Sound(heap, areas, Popped(2), Y, func, scope, outer, undone)
           /\ Known(heap, Top) /\ Loose(heap, Popped(2), Top) /\ Top.sym = s
           /\ Known(heap, Under(1)) /\ Loose(heap, Popped(2), Under(1)) /\ Under(1).sym = t
           /\ t \in {"expr", "ident", "string", "args"} => InFunction(Popped(2))
<1>1. /\ symbols \in Stacks /\ symbols # <<>> /\ Grammar(symbols)
      /\ Sound(heap, areas, symbols, Nothing, func, scope, outer, undone)
  BY DEF Sane, Sound, Own, On, Shaped
<1> DEFINE n == Len(symbols)
<1>2. /\ n \in DOMAIN symbols /\ n \in Nat /\ n > 0 /\ DOMAIN symbols = 1..n /\ Top = symbols[n]
      /\ symbols[n].sym = s /\ Under(1) = symbols[n - 1] /\ symbols[n - 1].sym = t /\ n > 1
      /\ n - 1 \in DOMAIN symbols
  BY <1>1, Tops DEF On, Beneath
<1>3. Cut(Popped(2), symbols, 2)
  BY <1>1, <1>2, StackCut DEF Popped
<1>4. TakesOnly(symbols, 2, Y)
  <2>1. \A i \in DOMAIN symbols : i > n - 2 => i = n \/ i = n - 1
    BY <1>2
  <2> QED  BY <1>2, <2>1 DEF TakesOnly
<1>5. /\ Sound(heap, areas, Popped(2), Y, func, scope, outer, undone)
      /\ \A i \in DOMAIN symbols : i > n - 2 => Known(heap, symbols[i]) /\ Loose(heap, Popped(2), symbols[i])
  <2> DEFINE m == 2
  <2>1. m \in 0..Len(symbols) /\ TakesOnly(symbols, m, Y) /\ Cut(Popped(2), symbols, m)
    BY <1>2, <1>3, <1>4
  <2> HIDE DEF m
  <2>2. /\ Sound(heap, areas, Popped(2), Y, func, scope, outer, undone)
        /\ \A i \in DOMAIN symbols : i > n - m => Known(heap, symbols[i]) /\ Loose(heap, Popped(2), symbols[i])
    BY <1>1, <2>1, SoundCut
  <2> QED  BY <2>2 DEF m
<1>6. /\ Known(heap, Top) /\ Loose(heap, Popped(2), Top)
      /\ Known(heap, Under(1)) /\ Loose(heap, Popped(2), Under(1))
  BY <1>2, <1>5
<1>7. ASSUME t \in {"expr", "ident", "string", "args"} PROVE InFunction(Popped(2))
  <2>1. n - 1 = n - 2 + 1
    BY <1>2
  <2> QED  BY <1>1, <1>2, <1>3, <1>7, <2>1, BodyBelow
<1> QED  BY <1>2, <1>5, <1>6, <1>7

\* A rule that leaves the parser's state alone.
LEMMA Unchanged ==
    ASSUME Sane, Context
    PROVE  /\ func' = func /\ scope' = scope /\ outer' = outer /\ undone' = undone
           /\ Typed(func', scope', outer', undone')
  BY DEF Sane, Context, Typed

\* The next free address, filled.
LEMMA FreshWith ==
    ASSUME heap \in Heaps, Room(1), NEW cell \in Cell
    PROVE  With([heap EXCEPT ![Fresh] = cell], heap, Fresh, cell)
  BY FreshFree, OneNew

(***************************************************************************)
(* One step per rule: tokens and expressions.                              *)
(***************************************************************************)

LEMMA KeepsNewNode ==
    ASSUME Sane, NEW n, NEW node \in Cell, NewNode(n, node), InFunction(Popped(n)),
           NEW X, Sound(heap, areas, Popped(n), X, func, scope, outer, undone),
           X \subseteq Nothing \cup TakenBy(node), Takeable(heap, Popped(n), node),
           node.kind \in ExprKinds,
           \/ node.kind # "deref" /\ node.expr = NULL
           \/ /\ node.kind = "deref" /\ node.expr \in LiveIn(heap) /\ heap[node.expr].kind \in ExprKinds
              /\ Unpointed(heap, Popped(n), node.expr)
    PROVE  IInv'
<1>1. /\ heap' = [heap EXCEPT ![Fresh] = node] /\ areas' = <<Area(Fresh, node.kind)>> \o areas
      /\ symbols' = Append(Popped(n), Sym("expr", Fresh)) /\ Room(1) /\ Context
      /\ GoesOn
  BY DEF NewNode, Push, Proceed, Parsing, GoesOn, Sane
<1>2. With(heap', heap, Fresh, node)
  <2>1. heap \in Heaps
    BY DEF Sane, Sound, Own
  <2>2. With([heap EXCEPT ![Fresh] = node], heap, Fresh, node)
    BY <1>1, <2>1, FreshWith
  <2> QED  BY <1>1, <2>2, Zenon
<1>3. node.kind \in NodeKinds
  BY DEF ExprKinds, NodeKinds
<1>4. /\ Sound(heap', areas', Popped(n), Nothing, func, scope, outer, undone)
      /\ Fresh \in LiveIn(heap') /\ heap'[Fresh] = node /\ Unpointed(heap', Popped(n), Fresh)
  <2>1. CASE node.kind # "deref" /\ node.expr = NULL
    <3>1. /\ Sound(heap', <<Area(Fresh, node.kind)>> \o areas, Popped(n), Nothing, func, scope, outer, undone)
          /\ Fresh \in LiveIn(heap') /\ heap'[Fresh] = node /\ Unpointed(heap', Popped(n), Fresh)
      BY <1>2, <1>3, <2>1, SoundNode
    <3> QED  BY <1>1, <3>1
  <2>2. CASE /\ node.kind = "deref" /\ node.expr \in LiveIn(heap) /\ heap[node.expr].kind \in ExprKinds
             /\ Unpointed(heap, Popped(n), node.expr)
    <3>1. /\ Sound(heap', <<Area(Fresh, node.kind)>> \o areas, Popped(n), Nothing, func, scope, outer, undone)
          /\ Fresh \in LiveIn(heap') /\ heap'[Fresh] = node /\ Unpointed(heap', Popped(n), Fresh)
      BY <1>2, <2>2, SoundDeref
    <3> QED  BY <1>1, <3>1
  <2> QED  BY <2>1, <2>2
<1>5. Sound(heap', areas', symbols', Nothing, func, scope, outer, undone)
  BY <1>1, <1>4, SoundExpr
<1> QED  BY <1>1, <1>5, Unchanged, After

\* Expressions start only inside functions.
LEMMA BodyHere ==
    ASSUME Sane, ExprMayStart
    PROVE  symbols = Popped(0) /\ InFunction(symbols)
<1>1. symbols \in Stacks /\ Grammar(symbols) /\ symbols = Popped(0)
  BY PoppedNone DEF Sane, Sound, Own, Shaped
<1>2. symbols # <<>>
  BY DEF ExprMayStart, On
<1> DEFINE n == Len(symbols)
<1>3. /\ n \in DOMAIN symbols /\ n \in Nat /\ Top = symbols[n] /\ Under(1) = symbols[n - 1]
      /\ DOMAIN symbols = 1..n
  BY <1>1, <1>2, Tops
<1>4. CASE symbols[n].sym \in {"block", "expr", "args"}
  <2>1. symbols[1].sym = "func" /\ n > 1
    BY <1>1, <1>3, <1>4, InBody
  <2> QED  BY <1>1, <1>2, <2>1 DEF InFunction
<1>5. CASE n > 1 /\ symbols[n - 1].sym = "block"
  <2>1. n - 1 \in DOMAIN symbols
    BY <1>3, <1>5
  <2>2. symbols[1].sym = "func"
    BY <1>1, <1>5, <2>1, InBody
  <2> QED  BY <1>1, <1>2, <1>5, <2>2 DEF InFunction
<1> QED  BY <1>3, <1>4, <1>5 DEF ExprMayStart, On, Beneath

\* A rule that takes no symbol.
LEMMA SameStack ==
    ASSUME Sane
    PROVE  Sound(heap, areas, Popped(0), Nothing, func, scope, outer, undone)
  BY PoppedNone DEF Sane, Sound, Own

LEMMA KeepsLiteralNumber == ASSUME Sane, LiteralNumber PROVE IInv'
<1>1. NewNode(0, New("node")) /\ InFunction(Popped(0))
  BY BodyHere DEF LiteralNumber
<1>2. New("node") \in Cell /\ New("node").kind = "node" /\ New("node").expr = NULL
      /\ New("node").name = NULL /\ New("node").vars = <<>>
  BY NewCell DEF Kinds
<1>3. Takeable(heap, Popped(0), New("node"))
  BY <1>2, TakesNothing
<1>4. Nothing \subseteq Nothing \cup TakenBy(New("node")) /\ New("node").kind \in ExprKinds
  BY <1>2 DEF ExprKinds
<1> QED  BY <1>1, <1>2, <1>3, <1>4, SameStack, KeepsNewNode

\* A cell with a name.
LEMMA NamedCell ==
    ASSUME NEW kind \in Kinds, NEW a \in Pointers
    PROVE  LET c == [New(kind) EXCEPT !.name = a]
           IN  c \in Cell /\ c.kind = kind /\ c.name = a /\ c.vars = <<>> /\ c.expr = NULL
  BY EmptySeq DEF New, Cell, Pointers

\* A node that is responsible for nothing.
LEMMA NodeCell ==
    /\ New("node") \in Cell /\ New("node").kind = "node" /\ New("node").expr = NULL
    /\ New("node").name = NULL /\ New("node").vars = <<>>
    /\ New("node").kind \in ExprKinds
    /\ Nothing \subseteq Nothing \cup TakenBy(New("node"))
    /\ \A h, q : Takeable(h, q, New("node"))
<1>1. /\ New("node") \in Cell /\ New("node").kind = "node" /\ New("node").expr = NULL
      /\ New("node").name = NULL /\ New("node").vars = <<>>
  BY NewCell DEF Kinds
<1> QED  BY <1>1, TakesNothing DEF ExprKinds

LEMMA KeepsUnaryOp == ASSUME Sane, UnaryOp PROVE IInv'
<1>1. NewNode(1, New("node")) /\ On("expr")
  BY DEF UnaryOp
<1>2. Sound(heap, areas, Popped(1), Nothing, func, scope, outer, undone) /\ InFunction(Popped(1))
  BY <1>1, TakeOne DEF Owning
<1> QED  BY <1>1, <1>2, NodeCell, KeepsNewNode

LEMMA KeepsBinaryOp == ASSUME Sane, BinaryOp PROVE IInv'
<1>1. NewNode(2, New("node")) /\ On("expr") /\ Beneath(1, "expr")
  BY DEF BinaryOp
<1>2. Sound(heap, areas, Popped(2), Nothing, func, scope, outer, undone) /\ InFunction(Popped(2))
  BY <1>1, TakeTwo DEF Owning
<1> QED  BY <1>1, <1>2, NodeCell, KeepsNewNode

LEMMA KeepsLiteralString == ASSUME Sane, LiteralString PROVE IInv'
<1> DEFINE node == [New("literal") EXCEPT !.name = Top.at]
<1> DEFINE X == {Top.at}
<1>1. NewNode(1, node) /\ On("string")
  BY DEF LiteralString
<1>2. /\ Sound(heap, areas, Popped(1), X, func, scope, outer, undone)
      /\ Known(heap, Top) /\ Loose(heap, Popped(1), Top) /\ Top.sym = "string"
      /\ InFunction(Popped(1))
  BY <1>1, TakeOne
<1>3. node \in Cell /\ node.kind = "literal" /\ node.name = Top.at /\ node.vars = <<>> /\ node.expr = NULL
  BY <1>2, NamedCell DEF Known, Kinds
<1> HIDE DEF node
<1>4. Takeable(heap, Popped(1), node)
  BY <1>2, <1>3 DEF Takeable, Known, Loose, KindOf, Owning, Namers
<1>5. X \subseteq Nothing \cup TakenBy(node) /\ node.kind \in ExprKinds
  BY <1>3 DEF TakenBy, ExprKinds
<1> HIDE DEF X
<1> QED  BY <1>1, <1>2, <1>3, <1>4, <1>5, KeepsNewNode

LEMMA KeepsDereference == ASSUME Sane, Dereference PROVE IInv'
<1> DEFINE node == [New("deref") EXCEPT !.expr = Top.at]
<1>1. NewNode(1, node) /\ On("expr")
  BY DEF Dereference
<1>2. /\ Sound(heap, areas, Popped(1), Nothing, func, scope, outer, undone)
      /\ Known(heap, Top) /\ Loose(heap, Popped(1), Top) /\ Top.sym = "expr"
      /\ InFunction(Popped(1))
  BY <1>1, TakeOne DEF Owning
<1>3. node \in Cell /\ node.kind = "deref" /\ node.name = NULL /\ node.vars = <<>> /\ node.expr = Top.at
  BY <1>2, EmptySeq DEF Known, New, Cell, Pointers, Kinds
<1> HIDE DEF node
<1>4. Takeable(heap, Popped(1), node) /\ Nothing \subseteq Nothing \cup TakenBy(node)
  BY <1>3, TakesNothing
<1>5. /\ node.expr \in LiveIn(heap) /\ heap[node.expr].kind \in ExprKinds
      /\ Unpointed(heap, Popped(1), node.expr) /\ node.kind \in ExprKinds
  BY <1>2, <1>3 DEF Known, Loose, ExprKinds
<1> QED  BY <1>1, <1>2, <1>3, <1>4, <1>5, KeepsNewNode

\* A name, a string's buffer or a list that a symbol is to point to.
BufferKinds == {"name", "string", "list"}

\* The scanner has a new buffer.
LEMMA Buffer ==
    ASSUME NEW h, NEW ar, NEW q, NEW fn, NEW sc, NEW ou, NEW u, Sound(h, ar, q, Nothing, fn, sc, ou, u),
           NEW b, NEW kind \in BufferKinds, NEW g, With(g, h, b, New(kind))
    PROVE  /\ Sound(g, ar, q, Only(b), fn, sc, ou, u) /\ Unheld(g, q, b)
           /\ b \in LiveIn(g) /\ b \in Pointers /\ b # NULL /\ g[b].kind = kind /\ g[b].vars = <<>>
<1> DEFINE cell == New(kind)
<1> DEFINE Y == Only(b)
<1>1. /\ cell.kind = kind /\ cell.expr = NULL /\ cell.name = NULL /\ cell.vars = <<>>
      /\ cell.kind \notin NodeKinds
  BY NewCell DEF Kinds, NodeKinds, BufferKinds
<1>2. /\ With(g, h, b, cell) /\ b \in LiveIn(g) /\ b \in Addresses /\ b # NULL /\ g[b] = cell
      /\ cell.name # b /\ cell.vars = <<>>
  BY <1>1, HeapNew, NullApart DEF With
<1> HIDE DEF cell
<1>3. Takeable(h, q, cell) /\ Nothing \subseteq Y \cup TakenBy(cell) /\ b \in Y
  BY <1>1, TakesNothing DEF Nothing, Only
<1> HIDE DEF Y
<1>4. Sound(g, ar, q, Y, fn, sc, ou, u)
  BY <1>1, <1>2, <1>3, SoundNew
<1>5. Unheld(g, q, b)
  BY <1>2, NewUnheld DEF Sound, Own, Handed
<1> QED  BY <1>1, <1>2, <1>4, <1>5 DEF Y, Pointers

\* The buffer is put on the stack.
LEMMA SoundBuffer ==
    ASSUME NEW h, NEW ar, NEW q, NEW fn, NEW sc, NEW ou, NEW u, Sound(h, ar, q, Nothing, fn, sc, ou, u),
           NEW b, NEW kind \in BufferKinds, NEW g, With(g, h, b, New(kind)),
           NEW s \in Owning \ {"name"}, Fits(q, s), KindOf(s) = kind
    PROVE  Sound(g, ar, Append(q, Sym(s, b)), Nothing, fn, sc, ou, u)
<1>1. /\ Sound(g, ar, q, Only(b), fn, sc, ou, u) /\ Unheld(g, q, b)
      /\ b \in LiveIn(g) /\ b \in Pointers /\ g[b].kind = kind /\ g[b].vars = <<>> /\ b # NULL
  BY Buffer
<1>2. Only(b) \subseteq Nothing \cup {b}
  BY DEF Only
<1> QED  BY <1>1, <1>2, SoundPush

LEMMA KeepsName ==
    ASSUME Sane, Identifier("name")
    PROVE  IInv'
<1>1. /\ heap' = [heap EXCEPT ![Fresh] = New("name")] /\ areas' = areas
      /\ symbols' = Append(Popped(0), Sym("name", Fresh)) /\ Room(1) /\ Context
      /\ GoesOn /\ symbols = <<>>
  BY DEF Identifier, Push, Proceed, Parsing, GoesOn, Sane
<1>2. Sound(heap, areas, symbols, Nothing, func, scope, outer, undone) /\ symbols = Popped(0)
  BY PoppedNone DEF Sane, Sound, Own
<1>3. With(heap', heap, Fresh, New("name")) /\ "name" \in BufferKinds
  <2>1. New("name") \in Cell /\ heap \in Heaps
    BY NewCell DEF Kinds, Sane, Sound, Own
  <2>2. With([heap EXCEPT ![Fresh] = New("name")], heap, Fresh, New("name"))
    BY <1>1, <2>1, FreshWith
  <2> QED  BY <1>1, <2>2, Zenon DEF BufferKinds
<1>4. /\ Sound(heap', areas, symbols, Only(Fresh), func, scope, outer, undone) /\ Unheld(heap', symbols, Fresh)
      /\ Fresh \in LiveIn(heap') /\ Fresh \in Pointers /\ heap'[Fresh].kind = "name" /\ Fresh # NULL
  BY <1>2, <1>3, Buffer
<1> DEFINE s == "name"
<1> DEFINE X == Only(Fresh)
<1> DEFINE r == Append(symbols, Sym(s, Fresh))
<1>5. s \in Symbols /\ s \in Owning /\ KindOf(s) = "name" /\ s # "args" /\ s # "expr" /\ s \notin {"block", "func"}
  BY DEF Symbols, Owning, KindOf
<1>6. Sound(heap', areas, symbols, X, func, scope, outer, undone) /\ symbols \in Stacks
  BY <1>4 DEF Sound, Own
<1>7. X \subseteq Nothing \cup {b \in {Fresh} : s \in Owning}
  BY <1>5 DEF Only
<1> HIDE DEF X, s
<1>8. Own(heap', areas, r, Nothing, undone)
  BY <1>4, <1>5, <1>6, <1>7, OwnPush DEF Sound
<1>9. See(heap', r, func, scope, outer)
  BY <1>4, <1>5, <1>6, SeePush DEF Sound
<1>10. Shaped(r, func, scope, outer)
  <2>1. outer = <<>>
    <3>1. BlocksOf(symbols) = {}
      BY <1>1 DEF BlocksOf
    <3>2. Len(outer) = 0
      BY <1>2, <3>1, FS_EmptySet DEF Sound, Shaped, Nesting
    <3> QED  BY <3>2, EmptySeq DEF Sane, Typed
  <2> QED  BY <1>1, <1>4, <2>1, ShapeBottom DEF s
<1>11. Sound(heap', areas', symbols', Nothing, func, scope, outer, undone)
  BY <1>1, <1>2, <1>8, <1>9, <1>10 DEF Sound, s
<1> QED  BY <1>1, <1>11, Unchanged, After

\* Where a declarator, an identifier or a string may stand.
LEMMA StackFits ==
    ASSUME Sane, NEW s
    PROVE  /\ On("params") /\ s \in {"params", "declarator"} => Fits(symbols, s)
           /\ On("block") \/ ExprMayStart => Fits(symbols, s)
           /\ On("name") /\ s \in {"params", "declarator"} => Fits(symbols, s)
<1>1. symbols \in Stacks /\ Grammar(symbols)
  BY DEF Sane, Sound, Own, Shaped
<1>2. On("block") \/ ExprMayStart => Fits(symbols, s)
  BY BodyHere DEF ExprMayStart, InFunction, Fits
<1>3. ASSUME symbols # <<>>, Top.sym \in {"params", "name"}, s \in {"params", "declarator"}
      PROVE  Fits(symbols, s)
  <2>1. Len(symbols) \in DOMAIN symbols /\ Len(symbols) > 0 /\ Top = symbols[Len(symbols)] /\ Len(symbols) \in Nat
    BY <1>1, <1>3, Tops
  <2>2. symbols[1].sym = "func" => Len(symbols) # 1
    BY <1>3, <2>1
  <2> QED  BY <1>3, <2>1, <2>2 DEF Fits
<1> QED  BY <1>2, <1>3 DEF On

LEMMA KeepsToken ==
    ASSUME Sane, NEW s \in {"declarator", "ident", "string"}, Fits(symbols, s), Room(1), Context,
           GoesOn, areas' = areas,
           NEW kind \in BufferKinds, KindOf(s) = kind, heap' = [heap EXCEPT ![Fresh] = New(kind)],
           symbols' = Append(Popped(0), Sym(s, Fresh))
    PROVE  IInv'
<1>1. Sound(heap, areas, symbols, Nothing, func, scope, outer, undone) /\ symbols = Popped(0)
  BY PoppedNone DEF Sane, Sound, Own
<1>2. With(heap', heap, Fresh, New(kind))
  <2>1. New(kind) \in Cell /\ heap \in Heaps
    BY NewCell DEF Kinds, BufferKinds, Sane, Sound, Own
  <2>2. With([heap EXCEPT ![Fresh] = New(kind)], heap, Fresh, New(kind))
    BY <2>1, FreshWith
  <2> QED  BY <2>2, Zenon
<1>3. s \in Owning \ {"name"}
  BY DEF Owning
<1>4. Sound(heap', areas, Append(symbols, Sym(s, Fresh)), Nothing, func, scope, outer, undone)
  BY <1>1, <1>2, <1>3, SoundBuffer
<1>5. Sound(heap', areas', symbols', Nothing, func, scope, outer, undone)
  BY <1>1, <1>4
<1> QED  BY <1>5, Unchanged, After

LEMMA KeepsIdentifier ==
    ASSUME Sane, NEW sym \in {"name", "declarator", "ident"}, Identifier(sym)
    PROVE  IInv'
<1>1. CASE sym = "name"
  BY <1>1, KeepsName
<1>2. CASE sym \in {"declarator", "ident"}
  <2>1. /\ heap' = [heap EXCEPT ![Fresh] = New("name")] /\ areas' = areas
        /\ symbols' = Append(Popped(0), Sym(sym, Fresh)) /\ Room(1) /\ Context
        /\ GoesOn
    BY DEF Identifier, Push, Proceed, Parsing, GoesOn, Sane
  <2>2. (sym = "declarator" => On("block") \/ On("params")) /\ (sym = "ident" => ExprMayStart)
    BY DEF Identifier
  <2>3. Fits(symbols, sym) /\ KindOf(sym) = "name" /\ "name" \in BufferKinds
    BY <1>2, <2>2, StackFits DEF KindOf, BufferKinds
  <2> QED  BY <1>2, <2>1, <2>3, KeepsToken
<1> QED  BY <1>1, <1>2

LEMMA KeepsStringToken == ASSUME Sane, StringToken PROVE IInv'
<1>1. /\ heap' = [heap EXCEPT ![Fresh] = New("string")] /\ areas' = areas
      /\ symbols' = Append(Popped(0), Sym("string", Fresh)) /\ Room(1) /\ Context
      /\ GoesOn /\ ExprMayStart
  BY DEF StringToken, Push, Proceed, Parsing, GoesOn, Sane
<1>2. Fits(symbols, "string") /\ KindOf("string") = "string" /\ "string" \in BufferKinds
  BY <1>1, StackFits DEF KindOf, BufferKinds
<1> QED  BY <1>1, <1>2, KeepsToken

\* What a token pointed to is freed.
LEMMA SoundFreeBuffer ==
    ASSUME NEW h, NEW ar, NEW q, NEW a, NEW fn, NEW sc, NEW ou, NEW u,
           Sound(h, ar, q, Only(a), fn, sc, ou, u), a \in LiveIn(h), Unheld(h, q, a),
           h[a].kind \in BufferKinds, h[a].kind = "list" => h[a].vars = <<>>, NEW g, Without(g, h, Only(a))
    PROVE  Sound(g, ar, q, Nothing, fn, sc, ou, u)
<1>1. h[a].kind \notin NodeKinds /\ h[a].kind \notin Namers
  BY DEF NodeKinds, Namers, BufferKinds
<1>2. Kept(h, q)
  BY DEF Sound, Own, Handed
<1>3. h[a].name \in Nothing \cup {NULL}
  BY <1>1, <1>2 DEF Kept
<1>4. \A i \in DOMAIN h[a].vars : h[a].vars[i] \in Nothing
  <2>1. CASE h[a].kind = "list"
    <3>1. h[a].vars = <<>>
      BY <2>1
    <3> QED  BY <3>1
  <2>2. CASE h[a].kind # "list"
    <3>1. h[a].kind \notin Listers
      BY <2>2 DEF Listers, BufferKinds
    <3> QED  BY <1>2, <3>1 DEF Kept
  <2> QED  BY <2>1, <2>2
<1>5. Only(a) \subseteq Nothing \cup {a} /\ Without(g, h, {a})
  BY DEF Only
<1> QED  BY <1>1, <1>3, <1>4, <1>5, SoundFree

FreedTokens == {"ident", "string"}

\* A rule that frees the token it takes.
LEMMA FreeTop ==
    ASSUME Sane, NEW s \in FreedTokens, On(s), NEW g, Without(g, heap, Only(Top.at))
    PROVE  /\ Sound(g, areas, Popped(1), Nothing, func, scope, outer, undone) /\ InFunction(Popped(1))
           /\ Top.at \in Addresses /\ heap[Top.at].kind \in {"name", "string"}
<1>1. s \in Owning /\ s # "block" /\ s \in Tokens /\ s \in {"expr", "ident", "string", "args"}
      /\ KindOf(s) \in BufferKinds /\ KindOf(s) \in {"name", "string"}
  BY DEF FreedTokens, Owning, Tokens, KindOf, BufferKinds
<1> DEFINE Y == Only(Top.at)
<1>2. Top.at \in Y \cup {NULL}
  BY DEF Only
<1> HIDE DEF Y
<1>3. /\ Sound(heap, areas, Popped(1), Y, func, scope, outer, undone)
      /\ Known(heap, Top) /\ Loose(heap, Popped(1), Top) /\ Top.sym = s /\ InFunction(Popped(1))
  BY <1>1, <1>2, TakeOne
<1>4. /\ Top.at # NULL /\ Top.at \in LiveIn(heap) /\ Unheld(heap, Popped(1), Top.at)
      /\ heap[Top.at].kind = KindOf(s)
  BY <1>1, <1>3 DEF Known, Loose
<1>5. heap[Top.at].kind # "list"
  BY <1>1, <1>4 
<1>6. Sound(g, areas, Popped(1), Nothing, func, scope, outer, undone)
  BY <1>1, <1>3, <1>4, <1>5, SoundFreeBuffer DEF Y
<1> QED  BY <1>1, <1>3, <1>4, <1>6 DEF LiveIn

LEMMA KeepsConcatenate == ASSUME Sane, Concatenate PROVE IInv'
<1> DEFINE g == WithoutName(heap, Top.at)
<1>1. /\ areas' = areas /\ Room(1) /\ Context /\ GoesOn /\ On("string")
      /\ heap \in Heaps
  BY DEF Concatenate, Proceed, Parsing, Sane, Sound, Own, GoesOn
<1>2. PICK a \in {Fresh, Top.at} : /\ heap' = [g EXCEPT ![a] = New("string")]
                                   /\ symbols' = Append(Popped(1), Sym("string", a))
  BY DEF Concatenate, Push, WithoutName
<1>3. Without(g, heap, Only(Top.at))
  BY <1>1, OneFree DEF WithoutName, Only
<1> HIDE DEF g
<1>4. "string" \in FreedTokens /\ "string" \in BufferKinds
  BY DEF FreedTokens, BufferKinds
<1>5. /\ Sound(g, areas, Popped(1), Nothing, func, scope, outer, undone) /\ InFunction(Popped(1))
      /\ Top.at \in Addresses
  BY <1>1, <1>3, <1>4, FreeTop
<1>6. a \in Addresses /\ g[a] = Unused /\ g \in Heaps
  BY <1>1, <1>3, <1>5, FreshFree DEF Without, Only
<1>7. With(heap', g, a, New("string"))
  <2>1. New("string") \in Cell
    BY NewCell DEF Kinds
  <2>2. With([g EXCEPT ![a] = New("string")], g, a, New("string"))
    BY <1>6, <2>1, OneNew
  <2> QED  BY <1>2, <2>2, Zenon
<1>8. "string" \in Owning \ {"name"} /\ Fits(Popped(1), "string") /\ KindOf("string") = "string"
  BY <1>5 DEF Owning, Fits, InFunction, KindOf
<1>9. Sound(heap', areas, Append(Popped(1), Sym("string", a)), Nothing, func, scope, outer, undone)
  BY <1>4, <1>5, <1>7, <1>8, SoundBuffer
<1>10. Sound(heap', areas', symbols', Nothing, func, scope, outer, undone)
  BY <1>1, <1>2, <1>9
<1> QED  BY <1>1, <1>10, Unchanged, After

\* A node that takes nothing.
LEMMA SoundPlain ==
    ASSUME NEW h, NEW ar, NEW q, NEW X, NEW fn, NEW sc, NEW ou, NEW u, Sound(h, ar, q, X, fn, sc, ou, u),
           NEW b, NEW g, With(g, h, b, New("node"))
    PROVE  /\ Sound(g, <<Area(b, "node")>> \o ar, q, X, fn, sc, ou, u)
           /\ b \in LiveIn(g) /\ g[b].kind \in ExprKinds /\ Unpointed(g, q, b)
<1> DEFINE node == New("node")
<1>1. /\ node.kind = "node" /\ node.expr = NULL /\ Takeable(h, q, node) /\ node.kind \in ExprKinds
      /\ node.kind \in NodeKinds /\ node.kind # "deref"
  BY NodeCell DEF NodeKinds
<1>2. With(g, h, b, node)
  OBVIOUS
<1> HIDE DEF node
<1>3. X \subseteq X \cup TakenBy(node)
  OBVIOUS
<1>4. /\ Sound(g, <<Area(b, node.kind)>> \o ar, q, X, fn, sc, ou, u)
      /\ b \in LiveIn(g) /\ g[b] = node /\ Unpointed(g, q, b)
  BY <1>1, <1>2, <1>3, SoundNode
<1> QED  BY <1>1, <1>4

LEMMA KeepsVariableName == ASSUME Sane, VariableName PROVE IInv'
<1> DEFINE g == WithoutName(heap, Top.at)
<1>1. /\ heap' = [g EXCEPT ![Fresh] = New("node")] /\ areas' = <<Area(Fresh, "node")>> \o areas
      /\ symbols' = Append(Popped(1), Sym("expr", Fresh))
      /\ Room(1) /\ Context /\ GoesOn /\ On("ident") /\ heap \in Heaps
  BY DEF VariableName, Proceed, Parsing, Push, Sane, Sound, Own, GoesOn
<1>2. Without(g, heap, Only(Top.at))
  BY <1>1, OneFree DEF WithoutName, Only
<1> HIDE DEF g
<1>3. "ident" \in FreedTokens
  BY DEF FreedTokens
<1>4. Sound(g, areas, Popped(1), Nothing, func, scope, outer, undone) /\ InFunction(Popped(1))
  BY <1>1, <1>2, <1>3, FreeTop
<1>5. With(heap', g, Fresh, New("node"))
  <2>1. New("node") \in Cell
    BY NodeCell
  <2>2. Fresh \in Addresses /\ g[Fresh] = Unused /\ g \in Heaps
    BY <1>1, <1>2, FreshFree DEF Without
  <2>3. With([g EXCEPT ![Fresh] = New("node")], g, Fresh, New("node"))
    BY <2>1, <2>2, OneNew
  <2> QED  BY <1>1, <2>3, Zenon
<1>6. /\ Sound(heap', areas', Popped(1), Nothing, func, scope, outer, undone)
      /\ Fresh \in LiveIn(heap') /\ heap'[Fresh].kind \in ExprKinds /\ Unpointed(heap', Popped(1), Fresh)
  BY <1>1, <1>4, <1>5, SoundPlain
<1>7. Sound(heap', areas', symbols', Nothing, func, scope, outer, undone)
  BY <1>1, <1>4, <1>6, SoundExpr
<1> QED  BY <1>1, <1>7, Unchanged, After

LEMMA KeepsFunctionName == ASSUME Sane, FunctionName PROVE IInv'
<1>1. /\ heap' = WithoutName(heap, Top.at) /\ areas' = areas
      /\ Context /\ GoesOn /\ On("ident") /\ heap \in Heaps
  BY DEF FunctionName, Proceed, Parsing, Sane, Sound, Own, GoesOn
<1>2. PICK f \in Live : heap[f].kind = "function" /\ symbols' = Append(Popped(1), Sym("expr", f))
  BY DEF FunctionName, Push
<1>3. Without(heap', heap, Only(Top.at)) /\ "ident" \in FreedTokens
  BY <1>1, OneFree DEF WithoutName, Only, FreedTokens
<1>4. /\ Sound(heap', areas, Popped(1), Nothing, func, scope, outer, undone) /\ InFunction(Popped(1))
      /\ heap[Top.at].kind \in {"name", "string"}
  BY <1>1, <1>3, FreeTop
<1>5. f \in LiveIn(heap') /\ heap'[f].kind \in ExprKinds /\ Unpointed(heap', Popped(1), f)
  <2>1. f \in LiveIn(heap) /\ f \notin Only(Top.at)
    BY <1>2, <1>4 DEF Live, LiveIn, Only
  <2>2. f \in LiveIn(heap') /\ heap'[f] = heap[f]
    BY <1>3, <2>1, HeapFree
  <2> QED  BY <1>2, <2>2 DEF Unpointed, ExprKinds
<1>6. Sound(heap', areas', symbols', Nothing, func, scope, outer, undone)
  BY <1>1, <1>2, <1>4, <1>5, SoundExpr
<1> QED  BY <1>1, <1>6, Unchanged, After

LEMMA KeepsUnknownName == ASSUME Sane, UnknownName PROVE IInv'
<1>1. /\ heap' = WithoutName(heap, Top.at) /\ areas' = areas /\ symbols' = Popped(1) /\ lost' = Nothing
      /\ Context /\ memStatus' = "aborted" /\ On("ident") /\ heap \in Heaps
  BY DEF UnknownName, Sane, Sound, Own
<1>2. Without(heap', heap, Only(Top.at)) /\ "ident" \in FreedTokens
  BY <1>1, OneFree DEF WithoutName, Only, FreedTokens
<1>3. Sound(heap', areas, Popped(1), Nothing, func, scope, outer, undone)
  BY <1>1, <1>2, FreeTop
<1> QED  BY <1>1, <1>3, Unchanged, NothingLost, AfterAbort DEF Sound

\* Nobody but its area is responsible for a node.
LEMMA NodeUnheld ==
    ASSUME NEW h, NEW q, Kept(h, q), NEW a \in LiveIn(h), h[a].kind \in NodeKinds
    PROVE  Unheld(h, q, a)
<1>1. a # NULL /\ h[a].kind \notin {"name", "string", "list", "variable"}
  BY NullApart DEF LiveIn, NodeKinds
<1>2. \A i \in DOMAIN q : KindOf(q[i].sym) \in {"name", "string", "list"}
  BY DEF KindOf
<1> QED  BY <1>1, <1>2 DEF Kept, Unheld

LEMMA KeepsAddressOf == ASSUME Sane, AddressOf PROVE IInv'
<1> DEFINE a == Top.at
<1> DEFINE q == Popped(1)
<1>1. /\ heap' = [heap EXCEPT ![a] = Unused] /\ UNCHANGED <<areas, func, scope, outer>>
      /\ symbols' = Append(q, Sym("expr", heap[a].expr)) /\ heap[a].kind = "deref"
      /\ undone' = undone + 1 /\ undone < MaxUndone /\ GoesOn /\ On("expr") /\ heap \in Heaps
  BY DEF AddressOf, Proceed, Parsing, Push, Pointed, Sane, Sound, Own, GoesOn
<1>2. /\ Sound(heap, areas, q, Nothing, func, scope, outer, undone)
      /\ Known(heap, Top) /\ Loose(heap, q, Top) /\ Top.sym = "expr" /\ InFunction(q)
  BY <1>1, TakeOne DEF Owning
<1>3. a \in LiveIn(heap) /\ Unpointed(heap, q, a)
  BY <1>2 DEF Known, Loose
<1> HIDE DEF q, a
<1>4. undone' # 0 /\ undone' \in 0..MaxUndone
  BY <1>1, BoundsAssumption DEF Sane, Typed
<1>5. Without(heap', heap, {a})
  <2>1. Without([heap EXCEPT ![a] = Unused], heap, {a})
    BY <1>1, OneFree
  <2> QED  BY <1>1, <2>1, Zenon
<1>6. Own(heap, areas, q, Nothing, undone') /\ Kept(heap, q)
  BY <1>2, <1>4 DEF Sound, Own, Handed
<1>7. Unheld(heap, q, a)
  BY <1>1, <1>3, <1>6, NodeUnheld DEF NodeKinds
<1>8. heap[a].name \in Nothing \cup {NULL} /\ \A i \in DOMAIN heap[a].vars : heap[a].vars[i] \in Nothing
  BY <1>1, <1>3, <1>6 DEF Kept, Namers, Listers
<1>9. Nothing \subseteq Nothing \cup {a}
  OBVIOUS
<1>10. Own(heap', areas, q, Nothing, undone')
  BY <1>4, <1>5, <1>6, <1>7, <1>8, <1>9, OwnFreeOne
<1>11. /\ See(heap', q, func, scope, outer)
       /\ heap[a].expr \in LiveIn(heap') /\ heap'[heap[a].expr].kind \in ExprKinds
       /\ Unpointed(heap', q, heap[a].expr)
  BY <1>1, <1>2, <1>3, <1>5, SeeFreeDeref DEF Sound
<1>12. Sound(heap', areas, q, Nothing, func, scope, outer, undone')
  BY <1>2, <1>10, <1>11 DEF Sound
<1> DEFINE e == heap[a].expr
<1>13. /\ e \in LiveIn(heap') /\ heap'[e].kind \in ExprKinds /\ Unpointed(heap', q, e)
       /\ symbols' = Append(q, Sym("expr", e))
  BY <1>1, <1>11
<1> HIDE DEF e
<1>14. Sound(heap', areas', symbols', Nothing, func, scope, outer, undone')
  BY <1>1, <1>2, <1>12, <1>13, SoundExpr
<1>15. Typed(func', scope', outer', undone')
  BY <1>1, <1>4 DEF Sane, Typed
<1> QED  BY <1>1, <1>14, <1>15, After
(***************************************************************************)
(* Calls.                                                                  *)
(***************************************************************************)

LEMMA KeepsOpenCall == ASSUME Sane, OpenCall PROVE IInv'
<1>1. /\ UNCHANGED <<heap, areas>> /\ symbols' = Append(Popped(0), Sym("args", NULL))
      /\ Context /\ GoesOn /\ On("expr")
  BY DEF OpenCall, Proceed, Parsing, Push, GoesOn, Sane
<1>2. Sound(heap, areas, symbols, Nothing, func, scope, outer, undone) /\ symbols = Popped(0)
  BY PoppedNone DEF Sane, Sound, Own
<1>3. ExprMayStart
  BY <1>1 DEF ExprMayStart
<1> DEFINE s == "args"
<1>4. /\ s \in Owning \ {"name"} /\ Fits(symbols, s) /\ s \notin Tokens /\ NULL \in Pointers
      /\ Nothing \subseteq Nothing \cup {NULL}
  BY <1>3, StackFits DEF Owning, Tokens, Pointers
<1> HIDE DEF s
<1>5. Sound(heap, areas, Append(symbols, Sym(s, NULL)), Nothing, func, scope, outer, undone)
  BY <1>2, <1>4, SoundPush
<1>6. Sound(heap', areas', symbols', Nothing, func, scope, outer, undone)
  BY <1>1, <1>2, <1>5 DEF s
<1> QED  BY <1>1, <1>6, Unchanged, After

LEMMA KeepsArgument == ASSUME Sane, Argument PROVE IInv'
<1> DEFINE list == Under(1).at
<1> DEFINE q == Popped(2)
<1> DEFINE s == "args"
<1>1. /\ areas' = areas /\ Context /\ GoesOn /\ On("expr") /\ Beneath(1, s) /\ heap \in Heaps
      /\ list # NULL => symbols' = Append(q, Sym(s, list)) /\ heap' = heap
      /\ list = NULL => /\ symbols' = Append(q, Sym(s, Fresh)) /\ Room(1)
                        /\ heap' = [heap EXCEPT ![Fresh] = New("list")]
  BY DEF Argument, Proceed, Parsing, Push, Sane, Sound, Own, GoesOn
<1>2. ASSUME NEW Y, list \in Y \cup {NULL}
      PROVE  /\ Sound(heap, areas, q, Y, func, scope, outer, undone)
             /\ Known(heap, Under(1)) /\ Loose(heap, q, Under(1)) /\ Under(1).sym = s /\ InFunction(q)
  BY <1>1, <1>2, TakeTwo DEF Owning
<1>3. s \in Owning \ {"name"} /\ s \notin Tokens /\ KindOf(s) = "list" /\ s = "args"
  BY DEF Owning, Tokens, KindOf
<1>4. CASE list # NULL
  <2>1. list \in Only(list) \cup {NULL} /\ Only(list) \subseteq Nothing \cup {list}
    BY DEF Only
  <2>2. /\ Sound(heap, areas, q, Only(list), func, scope, outer, undone)
        /\ Known(heap, Under(1)) /\ Loose(heap, q, Under(1)) /\ Under(1).sym = s /\ InFunction(q)
    BY <1>2, <2>1
  <2>3. /\ list \in LiveIn(heap) /\ heap[list].kind = KindOf(s) /\ Unheld(heap, q, list)
        /\ heap[list].vars = <<>> /\ list \in Pointers /\ Fits(q, s)
    BY <1>3, <1>4, <2>2 DEF Known, Loose, InFunction, Fits
  <2> HIDE DEF list, q, s
  <2>4. Sound(heap, areas, Append(q, Sym(s, list)), Nothing, func, scope, outer, undone)
    BY <1>3, <2>1, <2>2, <2>3, SoundPush
  <2>5. Sound(heap', areas', symbols', Nothing, func, scope, outer, undone)
    BY <1>1, <1>4, <2>4
  <2> QED  BY <1>1, <2>5, Unchanged, After
<1>5. CASE list = NULL
  <2>1. Sound(heap, areas, q, Nothing, func, scope, outer, undone) /\ InFunction(q)
    BY <1>2, <1>5
  <2> HIDE DEF list, q, s
  <2>2. Fits(q, s) /\ "list" \in BufferKinds
    BY <2>1 DEF InFunction, Fits, BufferKinds
  <2>3. With(heap', heap, Fresh, New("list"))
    <3>1. New("list") \in Cell
      BY NewCell DEF Kinds
    <3>2. With([heap EXCEPT ![Fresh] = New("list")], heap, Fresh, New("list"))
      BY <1>1, <1>5, <3>1, FreshWith
    <3> QED  BY <1>1, <1>5, <3>2, Zenon
  <2>4. Sound(heap', areas, Append(q, Sym(s, Fresh)), Nothing, func, scope, outer, undone)
    BY <1>3, <2>1, <2>2, <2>3, SoundBuffer
  <2>5. Sound(heap', areas', symbols', Nothing, func, scope, outer, undone)
    BY <1>1, <1>5, <2>4
  <2> QED  BY <1>1, <2>5, Unchanged, After
<1> QED  BY <1>4, <1>5

\* Memory is allocated and other memory freed, in either order.
LEMMA NewThenFree ==
    ASSUME NEW h \in Heaps, NEW b \in Addresses, h[b] = Unused, NEW cell \in Cell, NEW a, a # b
    PROVE  With([[h EXCEPT ![b] = cell] EXCEPT ![a] = Unused], [h EXCEPT ![a] = Unused], b, cell)
  BY DEF With, Heaps

LEMMA KeepsCall == ASSUME Sane, Call PROVE IInv'
<1> DEFINE list == Top.at
<1> DEFINE q == Popped(2)
<1> DEFINE node == New("node")
<1>1. /\ heap' = Freed([heap EXCEPT ![Fresh] = node], list)
      /\ areas' = <<Area(Fresh, "node")>> \o areas /\ symbols' = Append(q, Sym("expr", Fresh))
      /\ Context /\ GoesOn /\ On("args") /\ Beneath(1, "expr") /\ heap \in Heaps /\ Room(1)
  BY DEF Call, Proceed, Parsing, Push, Sane, Sound, Own, GoesOn
<1>2. ASSUME NEW Y, list \in Y \cup {NULL}
      PROVE  /\ Sound(heap, areas, q, Y, func, scope, outer, undone)
             /\ Known(heap, Top) /\ Loose(heap, q, Top) /\ Top.sym = "args" /\ InFunction(q)
  BY <1>1, <1>2, TakeTwo DEF Owning
<1>3. node \in Cell
  BY NodeCell
<1>4. \E g : /\ Sound(g, areas, q, Nothing, func, scope, outer, undone)
             /\ With(heap', g, Fresh, node) /\ InFunction(q)
  <2>1. CASE list = NULL
    <3>1. Sound(heap, areas, q, Nothing, func, scope, outer, undone) /\ InFunction(q)
      BY <1>2, <2>1
    <3> HIDE DEF list, q, node
    <3>2. With([heap EXCEPT ![Fresh] = node], heap, Fresh, node)
      BY <1>1, <1>3, FreshWith
    <3>3. With(heap', heap, Fresh, node)
      BY <1>1, <2>1, <3>2, Zenon DEF Freed
    <3> QED  BY <3>1, <3>3
  <2>2. CASE list # NULL
    <3> DEFINE g == [heap EXCEPT ![list] = Unused]
    <3>1. list \in Only(list) \cup {NULL}
      BY DEF Only
    <3>2. /\ Sound(heap, areas, q, Only(list), func, scope, outer, undone)
          /\ Known(heap, Top) /\ Loose(heap, q, Top) /\ Top.sym = "args" /\ InFunction(q)
      BY <1>2, <3>1
    <3>3. /\ list \in LiveIn(heap) /\ heap[list].kind = "list" /\ Unheld(heap, q, list)
          /\ heap[list].vars = <<>> /\ heap[list].kind \in BufferKinds
      BY <2>2, <3>2 DEF Known, Loose, Owning, KindOf, BufferKinds
    <3> HIDE DEF list, q, node
    <3>4. Without(g, heap, Only(list))
      BY <1>1, OneFree DEF Only
    <3>5. With(heap', g, Fresh, node)
      <4>1. list # Fresh /\ Fresh \in Addresses /\ heap[Fresh] = Unused
        BY <1>1, <3>3, FreshFree DEF LiveIn
      <4>2. With([[heap EXCEPT ![Fresh] = node] EXCEPT ![list] = Unused], g, Fresh, node)
        BY <1>1, <1>3, <4>1, NewThenFree
      <4> QED  BY <1>1, <2>2, <4>2, Zenon DEF Freed
    <3> HIDE DEF g
    <3>6. Sound(g, areas, q, Nothing, func, scope, outer, undone)
      BY <3>2, <3>3, <3>4, SoundFreeBuffer
    <3> QED  BY <3>2, <3>5, <3>6
  <2> QED  BY <2>1, <2>2
<1>5. /\ Sound(heap', areas', q, Nothing, func, scope, outer, undone) /\ InFunction(q)
      /\ Fresh \in LiveIn(heap') /\ heap'[Fresh].kind \in ExprKinds /\ Unpointed(heap', q, Fresh)
  BY <1>1, <1>4, SoundPlain
<1> HIDE DEF q
<1>6. Sound(heap', areas', symbols', Nothing, func, scope, outer, undone)
  BY <1>1, <1>5, SoundExpr
<1> QED  BY <1>1, <1>6, Unchanged, After
(***************************************************************************)
(* Statements.                                                             *)
(***************************************************************************)

LEMMA KeepsStatement == ASSUME Sane, Statement PROVE IInv'
<1>1. /\ heap' = [heap EXCEPT ![Fresh] = New("node")] /\ areas' = <<Area(Fresh, "node")>> \o areas
      /\ symbols' = Popped(1) /\ Context /\ GoesOn /\ On("expr") /\ Room(1) /\ heap \in Heaps
  BY DEF Statement, Proceed, Parsing, Sane, Sound, Own, GoesOn
<1>2. Sound(heap, areas, Popped(1), Nothing, func, scope, outer, undone)
  <2>1. On("expr")
    BY <1>1
  <2> QED  BY <2>1, TakeOne DEF Owning
<1>3. With(heap', heap, Fresh, New("node"))
  <2>1. With([heap EXCEPT ![Fresh] = New("node")], heap, Fresh, New("node"))
    BY <1>1, NodeCell, FreshWith
  <2> QED  BY <1>1, <2>1, Zenon
<1>4. Sound(heap', areas', symbols', Nothing, func, scope, outer, undone)
  BY <1>1, <1>2, <1>3, SoundPlain
<1> QED  BY <1>1, <1>4, Unchanged, After

LEMMA KeepsOpenBlock == ASSUME Sane, OpenBlock PROVE IInv'
<1> DEFINE node == New("block")
<1>1. /\ heap' = [heap EXCEPT ![Fresh] = node] /\ areas' = <<Area(Fresh, "block")>> \o areas
      /\ symbols' = Append(Popped(0), Sym("block", Fresh)) /\ GoesOn /\ Room(1)
      /\ outer' = Append(outer, scope) /\ scope' = Fresh /\ UNCHANGED <<func, undone>>
  BY DEF OpenBlock, Proceed, Parsing, Push, GoesOn, Sane
<1>2. /\ heap \in Heaps /\ symbols = Popped(0) /\ symbols \in Stacks /\ Grammar(symbols)
      /\ Sound(heap, areas, symbols, Nothing, func, scope, outer, undone)
      /\ func \in Pointers /\ scope \in Pointers /\ outer \in Seq(Pointers) /\ undone \in 0..MaxUndone
  BY PoppedNone DEF Sane, Sound, Own, Shaped, Typed
<1>3. symbols # <<>> /\ symbols[1].sym = "func"
  <2>1. CASE On("func")
    <3>1. symbols # <<>> /\ Len(symbols) \in DOMAIN symbols /\ symbols[Len(symbols)].sym = "func"
      BY <1>2, <2>1, Tops DEF On
    <3> QED  BY <1>2, <3>1 DEF Grammar
  <2>2. CASE On("expr")
    BY <2>2, BodyHere DEF ExprMayStart, InFunction
  <2> QED  BY <2>1, <2>2 DEF OpenBlock
<1>4. /\ node \in Cell /\ node.kind = "block" /\ node.expr = NULL /\ node.name = NULL /\ node.vars = <<>>
      /\ node.kind \in NodeKinds /\ node.kind # "deref"
  BY NewCell DEF Kinds, NodeKinds
<1> HIDE DEF node
<1>5. With(heap', heap, Fresh, node)
  <2>1. With([heap EXCEPT ![Fresh] = node], heap, Fresh, node)
    BY <1>1, <1>2, <1>4, FreshWith
  <2> QED  BY <1>1, <2>1, Zenon
<1>6. Takeable(heap, symbols, node) /\ Nothing \subseteq Nothing \cup TakenBy(node)
  BY <1>4, TakesNothing
<1>7. /\ Sound(heap', areas', symbols, Nothing, func, scope, outer, undone)
      /\ Fresh \in LiveIn(heap') /\ heap'[Fresh] = node
  <2>1. /\ Sound(heap', <<Area(Fresh, node.kind)>> \o areas, symbols, Nothing, func, scope, outer, undone)
        /\ Fresh \in LiveIn(heap') /\ heap'[Fresh] = node
    <3>1. Sound(heap, areas, symbols, Nothing, func, scope, outer, undone)
      BY <1>2
    <3>2. node.kind \in NodeKinds /\ node.kind # "deref" /\ node.expr = NULL
      BY <1>4
    <3> QED  BY <1>5, <1>6, <3>1, <3>2, SoundNode
  <2> QED  BY <1>1, <1>4, <2>1
<1>8. Fresh \in Pointers /\ Fresh # NULL
  BY <1>1, FreshFree DEF Pointers
<1> DEFINE s == "block"
<1> DEFINE r == Append(symbols, Sym(s, Fresh))
<1>9. s \in Symbols /\ s \notin Owning /\ s # "args" /\ s # "expr" /\ s # "func" /\ s = "block"
  BY DEF Symbols, Owning
<1> HIDE DEF s
<1>10. Own(heap', areas', r, Nothing, undone)
  <2>1. Nothing \subseteq Nothing \cup {b \in {Fresh} : s \in Owning}
    OBVIOUS
  <2> QED  BY <1>7, <1>8, <1>9, <2>1, OwnPush DEF Sound
<1>11. See(heap', r, func, scope, outer)
  BY <1>2, <1>4, <1>7, <1>8, <1>9, SeePush DEF Sound
<1>12. Within(heap', func, Fresh, outer')
  <2>1. Within(heap', func, scope, outer)
    BY <1>11 DEF See
  <2>2. \A j \in DOMAIN outer' : outer'[j] = scope \/ (j \in DOMAIN outer /\ outer'[j] = outer[j])
    <3>1. /\ Len(outer') = Len(outer) + 1 /\ DOMAIN outer' = 1..(Len(outer) + 1)
          /\ \A j \in 1..Len(outer) : outer'[j] = outer[j]
          /\ outer'[Len(outer) + 1] = scope /\ DOMAIN outer = 1..Len(outer) /\ Len(outer) \in Nat
      BY <1>1, <1>2, AppendProperties, LenProperties
    <3> QED  BY <3>1
  <2> QED  BY <1>4, <1>7, <2>1, <2>2 DEF Within
<1>13. Shaped(r, func, Fresh, outer')
  BY <1>1, <1>2, <1>3, <1>7, <1>8, ShapeOpen DEF Sound, s
<1>14. Sound(heap', areas', symbols', Nothing, func', scope', outer', undone')
  BY <1>1, <1>2, <1>10, <1>11, <1>12, <1>13 DEF Sound, See, s
<1>15. Typed(func', scope', outer', undone')
  <2>1. outer' \in Seq(Pointers)
    BY <1>1, <1>2, AppendProperties
  <2> QED  BY <1>1, <1>2, <1>8, <2>1 DEF Typed
<1> QED  BY <1>1, <1>14, <1>15, After

\* The symbols of a finished block and of what is beneath it go.
LEMMA CutBlock ==
    ASSUME Sane, On("block"), NEW t \in {"expr", "func"}, Beneath(1, t)
    PROVE  /\ Cut(Popped(2), symbols, 2) /\ Len(symbols) > 1 /\ symbols \in Stacks
           /\ symbols[Len(symbols)].sym = "block" /\ symbols[Len(symbols) - 1].sym = t
           /\ Own(heap, areas, Popped(2), Nothing, undone) /\ See(heap, Popped(2), func, scope, outer)
<1>1. /\ symbols \in Stacks /\ symbols # <<>>
      /\ Own(heap, areas, symbols, Nothing, undone) /\ See(heap, symbols, func, scope, outer)
  BY DEF Sane, Sound, Own, On
<1> DEFINE n == Len(symbols)
<1>2. /\ n \in DOMAIN symbols /\ n \in Nat /\ n > 1 /\ DOMAIN symbols = 1..n
      /\ symbols[n].sym = "block" /\ symbols[n - 1].sym = t
  BY <1>1, Tops DEF On, Beneath
<1>3. Cut(Popped(2), symbols, 2)
  BY <1>1, <1>2, StackCut DEF Popped
<1> DEFINE q == Popped(2)
<1> HIDE DEF q
<1>4. /\ q \in Stacks /\ \A i \in DOMAIN q : i \in DOMAIN symbols /\ q[i] = symbols[i]
      /\ DOMAIN q = 1..(n - 2)
  BY <1>2, <1>3, LenProperties DEF Cut, Stacks, q
<1>5. \A i \in DOMAIN symbols : i \notin DOMAIN q /\ symbols[i].sym \in Owning => symbols[i].at \in Nothing \cup {NULL}
  <2>1. \A i \in DOMAIN symbols : i \notin DOMAIN q => i = n \/ i = n - 1
    BY <1>2, <1>4
  <2> QED  BY <1>2, <2>1 DEF Owning
<1>6. Own(heap, areas, q, Nothing, undone)
  <2>1. Nothing \subseteq Nothing
    OBVIOUS
  <2> QED  BY <1>1, <1>4, <1>5, <2>1, OwnCut
<1>7. See(heap, q, func, scope, outer)
  BY <1>1, <1>4, SeeCut
<1> QED  BY <1>1, <1>2, <1>3, <1>6, <1>7 DEF q

LEMMA KeepsCloseBlock == ASSUME Sane, CloseBlock PROVE IInv'
<1> DEFINE q == Popped(2)
<1> DEFINE sc == Last(outer)
<1> DEFINE ou == Front(outer)
<1>1. /\ heap' = [heap EXCEPT ![Fresh] = New("node")] /\ areas' = <<Area(Fresh, "node")>> \o areas
      /\ symbols' = q /\ GoesOn /\ Room(1) /\ heap \in Heaps
      /\ scope' = sc /\ outer' = ou /\ UNCHANGED <<func, undone>>
      /\ On("block") /\ Beneath(1, "expr")
  BY DEF CloseBlock, Proceed, Parsing, Sane, Sound, Own, GoesOn
<1>2. /\ Cut(q, symbols, 2) /\ Len(symbols) > 1 /\ symbols \in Stacks
      /\ symbols[Len(symbols)].sym = "block" /\ symbols[Len(symbols) - 1].sym = "expr"
      /\ Own(heap, areas, q, Nothing, undone) /\ See(heap, q, func, scope, outer)
  BY <1>1, CutBlock
<1>3. Typed(func, scope, outer, undone) /\ Shaped(symbols, func, scope, outer)
  BY DEF Sane, Sound
<1> HIDE DEF q
<1>4. outer # <<>> /\ Shaped(q, func, sc, ou)
  BY <1>2, <1>3, ShapeClose DEF Typed
<1>5. /\ ou \in Seq(Pointers) /\ sc \in Pointers /\ (\E j \in DOMAIN outer : sc = outer[j])
      /\ \A j \in DOMAIN ou : j \in DOMAIN outer /\ ou[j] = outer[j]
  <2>1. /\ Len(outer) \in Nat /\ DOMAIN outer = 1..Len(outer) /\ outer \in Seq(Pointers) /\ Len(outer) # 0
    BY <1>3, <1>4, LenProperties, EmptySeq DEF Typed
  <2>2. sc = outer[Len(outer)] /\ Len(outer) \in DOMAIN outer /\ sc \in Pointers
    BY <2>1, ElementOfSeq DEF Last
  <2>3. Len(outer) - 1 \in 0..Len(outer)
    BY <2>1
  <2>4. ou \in Seq(Pointers) /\ DOMAIN ou = 1..(Len(outer) - 1) /\ \A j \in 1..(Len(outer) - 1) : ou[j] = outer[j]
    BY <2>1, <2>3, Prefix DEF Front
  <2> QED  BY <2>1, <2>2, <2>4
<1> HIDE DEF sc, ou
<1>6. See(heap, q, func, sc, ou)
  BY <1>2, <1>5 DEF See, Within
<1>7. Sound(heap, areas, q, Nothing, func, sc, ou, undone)
  BY <1>2, <1>4, <1>6 DEF Sound
<1>8. With(heap', heap, Fresh, New("node"))
  <2>1. With([heap EXCEPT ![Fresh] = New("node")], heap, Fresh, New("node"))
    BY <1>1, NodeCell, FreshWith
  <2> QED  BY <1>1, <2>1, Zenon
<1>9. Sound(heap', areas', symbols', Nothing, func', scope', outer', undone')
  BY <1>1, <1>7, <1>8, SoundPlain
<1>10. Typed(func', scope', outer', undone')
  BY <1>1, <1>3, <1>5 DEF Typed
<1> QED  BY <1>1, <1>9, <1>10, After
(***************************************************************************)
(* Declarations.                                                           *)
(***************************************************************************)
\* current_func and current_scope are set in the body of a function.
LEMMA InScope ==
    ASSUME Sane, InFunction(symbols)
    PROVE  /\ func \in LiveIn(heap) /\ heap[func].kind = "function"
           /\ scope \in LiveIn(heap) /\ heap[scope].kind = "block"
<1>1. /\ symbols \in Stacks /\ Grammar(symbols) /\ Nesting(symbols, func, scope, outer)
      /\ Within(heap, func, scope, outer)
  BY DEF Sane, Sound, Own, See, Shaped
<1>2. Len(symbols) \in Nat /\ DOMAIN symbols = 1..Len(symbols)
  BY <1>1, LenProperties DEF Stacks
<1>3. 2 \in DOMAIN symbols /\ symbols[2].sym = "block"
  BY <1>1, <1>2 DEF InFunction, Grammar
<1>4. func # NULL /\ scope # NULL
  BY <1>1, <1>3 DEF InFunction, Nesting, BlocksOf
<1> QED  BY <1>1, <1>4 DEF Within

\* Onto is Listed.
LEMMA OneListed ==
    ASSUME NEW h \in Heaps, NEW c \in LiveIn(h), NEW v \in LiveIn(h)
    PROVE  Listed(Onto(h, c, v), h, c, v)
<1> DEFINE s == Append(h[c].vars, v)
<1>1. /\ c \in Addresses /\ h[c] \in Cell /\ h[c].vars \in Seq(Addresses) /\ v \in Addresses
  BY LiveCells
<1>2. s \in Seq(Addresses)
  BY <1>1, AppendProperties
<1> HIDE DEF s
<1> DEFINE cell == [h[c] EXCEPT !.vars = s]
<1>3. cell \in Cell /\ cell.kind = h[c].kind /\ cell.name = h[c].name /\ cell.expr = h[c].expr /\ cell.vars = s
  BY <1>1, <1>2 DEF Cell
<1> HIDE DEF cell
<1>4. Listed([h EXCEPT ![c] = cell], h, c, v)
  BY <1>1, <1>3, CellUsed DEF Listed, Heaps, s
<1> QED  BY <1>4 DEF cell, s, Onto

\* The function's list of locals owns nothing.
LEMMA OneLocal ==
    ASSUME NEW h \in Heaps, NEW c \in LiveIn(h), NEW v \in Addresses
    PROVE  SameOwners([h EXCEPT ![c].locals = Append(@, v)], h)
<1> DEFINE s == Append(h[c].locals, v)
<1>1. c \in Addresses /\ h[c] \in Cell /\ h[c].locals \in Seq(Addresses)
  BY LiveCells DEF Cell
<1>2. s \in Seq(Addresses)
  BY <1>1, AppendProperties
<1> HIDE DEF s
<1> DEFINE cell == [h[c] EXCEPT !.locals = s]
<1>3. /\ cell \in Cell /\ cell.kind = h[c].kind /\ cell.name = h[c].name /\ cell.expr = h[c].expr
      /\ cell.vars = h[c].vars
  BY <1>1, <1>2 DEF Cell
<1> HIDE DEF cell
<1>4. SameOwners([h EXCEPT ![c] = cell], h)
  BY <1>1, <1>3, CellUsed DEF SameOwners, Heaps, LiveIn
<1> QED  BY <1>4 DEF cell, s

\* The variable that takes a name.
Waits(g, q, v) ==
    /\ Unheld(g, q, v) /\ v \in LiveIn(g) /\ v # NULL /\ v \in Addresses
    /\ g[v].kind = "variable"

\* A new variable takes its name and waits for its list.
LEMMA SoundVariable ==
    ASSUME NEW h, NEW ar, NEW q, NEW fn, NEW sc, NEW ou, NEW u, NEW name \in Pointers, NEW X,
           Sound(h, ar, q, X, fn, sc, ou, u),
           name # NULL => name \in LiveIn(h) /\ h[name].kind = "name" /\ Unheld(h, q, name),
           NEW v, NEW g, With(g, h, v, Variable(name)), NEW Y, X \subseteq Y \cup {name}, v \in Y
    PROVE  Sound(g, ar, q, Y, fn, sc, ou, u) /\ Waits(g, q, v)
<1> DEFINE var == Variable(name)
<1>1. /\ var.kind = "variable" /\ var.name = name /\ var.vars = <<>> /\ var.expr = NULL
      /\ var.kind \notin NodeKinds
  BY NamedCell DEF Kinds, NodeKinds, Variable
<1>2. With(g, h, v, var)
  OBVIOUS
<1> HIDE DEF var
<1>3. Takeable(h, q, var)
  BY <1>1 DEF Takeable, Namers
<1>4. X \subseteq Y \cup TakenBy(var)
  BY <1>1 DEF TakenBy
<1>5. Sound(g, ar, q, Y, fn, sc, ou, u)
  BY <1>1, <1>2, <1>3, <1>4, SoundNew
<1>6. v \in LiveIn(g) /\ v \notin LiveIn(h) /\ v \in Addresses /\ g[v] = var /\ v # NULL
  BY <1>2, HeapNew, NullApart DEF With
<1>7. var.name # v /\ \A i \in DOMAIN var.vars : var.vars[i] # v
  BY <1>1, <1>6
<1>8. Unheld(g, q, v)
  BY <1>2, <1>7, NewUnheld DEF Sound, Own, Handed
<1> QED  BY <1>1, <1>5, <1>6, <1>8 DEF Waits

\* A variable takes its name and no more.
LEMMA NoNameTaken ==
    ASSUME NEW name \in Pointers
    PROVE  TakenBy(Variable(name)) = {name}
<1> DEFINE var == Variable(name)
<1>1. var.name = name /\ var.vars = <<>>
  BY NamedCell DEF Kinds, Variable
<1> HIDE DEF var
<1>2. TakenBy(var) = {name}
  BY <1>1 DEF TakenBy
<1> QED  BY <1>2 DEF var

\* A variable that waits still does beside a cell that does not take it.
LEMMA WaitsStill ==
    ASSUME NEW h, NEW q, NEW v, Waits(h, q, v), NEW b, NEW cell, NEW g, With(g, h, b, cell), v \notin TakenBy(cell)
    PROVE  Waits(g, q, v)
  BY HeapNew, StaysUnheld DEF Waits

\* It is put on the block's list, and the function's.
LEMMA SoundDeclared ==
    ASSUME NEW h, NEW ar, NEW q, NEW fn, NEW sc, NEW ou, NEW u, NEW v \in LiveIn(h),
           Sound(h, ar, q, Only(v), fn, sc, ou, u), Unheld(h, q, v), h[v].kind = "variable",
           fn \in LiveIn(h), sc \in LiveIn(h), h[sc].kind \in Listers, h[sc].kind # "list"
    PROVE  Sound([Onto(h, sc, v) EXCEPT ![fn].locals = Append(@, v)], ar, q, Nothing, fn, sc, ou, u)
<1> DEFINE g == Onto(h, sc, v)
<1>1. h \in Heaps /\ v \in Addresses
  BY DEF Sound, Own, LiveIn
<1>2. Listed(g, h, sc, v)
  BY <1>1, OneListed
<1> HIDE DEF g
<1>3. Only(v) \subseteq Nothing \cup {v}
  BY DEF Only
<1>4. Sound(g, ar, q, Nothing, fn, sc, ou, u)
  BY <1>2, <1>3, SoundListed
<1>5. g \in Heaps /\ fn \in LiveIn(g)
  BY <1>1, <1>2, HeapListed DEF Listed
<1> DEFINE f == [g EXCEPT ![fn].locals = Append(@, v)]
<1>6. SameOwners(f, g)
  BY <1>1, <1>5, OneLocal
<1> HIDE DEF f
<1>7. Sound(f, ar, q, Nothing, fn, sc, ou, u)
  BY <1>4, <1>6, SoundSame
<1> QED  BY <1>7 DEF f, g

\* What the top of the stack named is what the variable takes.
LEMMA NameTaken ==
    ASSUME NEW x, NEW h, NEW q, Known(h, x), Loose(h, q, x), x.sym = "declarator"
    PROVE  /\ x.at \in Pointers
           /\ x.at # NULL => x.at \in LiveIn(h) /\ h[x.at].kind = "name" /\ Unheld(h, q, x.at)
  BY DEF Known, Loose, Owning, KindOf

\* A variable is a cell.
LEMMA VariableCell ==
    ASSUME NEW name \in Pointers
    PROVE  Variable(name) \in Cell
  BY NamedCell DEF Kinds, Variable

LEMMA KeepsDeclare == ASSUME Sane, Declare PROVE IInv'
<1> DEFINE name == Top.at
<1> DEFINE q == Popped(1)
<1> DEFINE g == [heap EXCEPT ![Fresh] = Variable(name)]
<1>0. On("declarator") /\ Beneath(1, "block") /\ Room(1) /\ heap \in Heaps
  BY DEF Declare, Sane, Sound, Own
<1>1. /\ heap' = Declared(g, Fresh)
      /\ areas' = areas /\ symbols' = q /\ Context /\ GoesOn
  BY DEF Declare, Proceed, Parsing, GoesOn, Sane
<1>2. /\ Sound(heap, areas, q, Only(name), func, scope, outer, undone)
      /\ Known(heap, Top) /\ Loose(heap, q, Top) /\ Top.sym = "declarator"
  <2>1. name \in Only(name) \cup {NULL}
    BY DEF Only
  <2> QED  BY <1>0, <2>1, TakeOne
<1>3. /\ name \in Pointers
      /\ name # NULL => name \in LiveIn(heap) /\ heap[name].kind = "name" /\ Unheld(heap, q, name)
  BY <1>2, NameTaken
<1>4. /\ func \in LiveIn(heap) /\ heap[func].kind = "function"
      /\ scope \in LiveIn(heap) /\ heap[scope].kind = "block"
  <2>1. InFunction(symbols)
    BY <1>0, BodyHere DEF ExprMayStart
  <2> QED  BY <2>1, InScope
<1> HIDE DEF q, name
<1>5. With(g, heap, Fresh, Variable(name))
  BY <1>0, <1>3, VariableCell, FreshWith
<1> HIDE DEF g
<1>6. Sound(g, areas, q, Only(Fresh), func, scope, outer, undone) /\ Waits(g, q, Fresh)
  <2>1. Only(name) \subseteq Only(Fresh) \cup {name} /\ Fresh \in Only(Fresh)
    BY DEF Only
  <2> QED  BY <1>2, <1>3, <1>5, <2>1, SoundVariable
<1>7. func \in LiveIn(g) /\ scope \in LiveIn(g) /\ g[scope].kind \in Listers /\ g[scope].kind # "list"
  BY <1>4, <1>5, HeapNew DEF Listers
<1>8. Sound(Declared(g, Fresh), areas, q, Nothing, func, scope, outer, undone)
  BY <1>6, <1>7, SoundDeclared DEF Declared, Waits
<1>9. Sound(heap', areas', symbols', Nothing, func, scope, outer, undone)
  BY <1>1, <1>8, Zenon
<1> QED  BY <1>1, <1>9, Unchanged, After

\* The rule gives up with a variable that only it has, and the name in it.
LEMMA KeepsLostVariable ==
    ASSUME Sane, Context, Room(1), NEW name, NEW q, q = symbols', areas' = areas,
           Sound(heap, areas, q, Only(name), func, scope, outer, undone), name \in Pointers,
           name # NULL => name \in LiveIn(heap) /\ heap[name].kind = "name" /\ Unheld(heap, q, name),
           GiveUp([heap EXCEPT ![Fresh] = Variable(name)], {Fresh})
    PROVE  IInv'
<1> DEFINE g == [heap EXCEPT ![Fresh] = Variable(name)]
<1> DEFINE X == Only(Fresh)
<1>1. With(g, heap, Fresh, Variable(name))
  BY VariableCell, FreshWith DEF Sound, Own
<1>2. GiveUp(g, X)
  BY DEF Only
<1> HIDE DEF g
<1>3. Sound(g, areas, q, X, func, scope, outer, undone) /\ Waits(g, q, Fresh)
  <2>1. Only(name) \subseteq X \cup {name} /\ Fresh \in X
    BY DEF Only
  <2> HIDE DEF X
  <2> QED  BY <1>1, <2>1, SoundVariable
<1>4. X \in SUBSET Addresses /\ LostHold(g, q, X)
  BY <1>3 DEF Only, Waits, LostHold, NodeKinds
<1> HIDE DEF X
<1>5. Own(g, areas', symbols', X, undone') /\ LostHold(g, symbols', X)
  BY <1>3, <1>4, Unchanged DEF Sound
<1> QED  BY <1>2, <1>4, <1>5, Unchanged, AfterGiveUp

LEMMA KeepsDeclareVoid == ASSUME Sane, DeclareVoid PROVE IInv'
<1>1. Room(1) /\ Context /\ areas' = areas
  BY DEF DeclareVoid
<1>2. CASE /\ On("declarator") /\ Beneath(1, "block") /\ symbols' = Popped(1)
           /\ GiveUp([heap EXCEPT ![Fresh] = Variable(Top.at)], {Fresh})
  <2> DEFINE name == Top.at
  <2> DEFINE q == Popped(1)
  <2>1. /\ Sound(heap, areas, q, Only(name), func, scope, outer, undone)
        /\ Known(heap, Top) /\ Loose(heap, q, Top) /\ Top.sym = "declarator"
    <3>1. name \in Only(name) \cup {NULL}
      BY DEF Only
    <3> QED  BY <1>2, <3>1, TakeOne
  <2>2. /\ name \in Pointers /\ q = symbols'
        /\ name # NULL => name \in LiveIn(heap) /\ heap[name].kind = "name" /\ Unheld(heap, q, name)
        /\ GiveUp([heap EXCEPT ![Fresh] = Variable(name)], {Fresh})
    BY <1>2, <2>1, NameTaken
  <2> HIDE DEF name, q
  <2> QED  BY <1>1, <2>1, <2>2, KeepsLostVariable
<1>3. CASE /\ On("expr") /\ Beneath(1, "declarator") /\ symbols' = Popped(2)
           /\ GiveUp([heap EXCEPT ![Fresh] = Variable(Under(1).at)], {Fresh})
  <2> DEFINE name == Under(1).at
  <2> DEFINE q == Popped(2)
  <2>1. /\ Sound(heap, areas, q, Only(name), func, scope, outer, undone)
        /\ Known(heap, Under(1)) /\ Loose(heap, q, Under(1)) /\ Under(1).sym = "declarator"
    <3>1. name \in Only(name) \cup {NULL} /\ "expr" \notin Owning
      BY DEF Only, Owning
    <3> QED  BY <1>3, <3>1, TakeTwo
  <2>2. /\ name \in Pointers /\ q = symbols'
        /\ name # NULL => name \in LiveIn(heap) /\ heap[name].kind = "name" /\ Unheld(heap, q, name)
        /\ GiveUp([heap EXCEPT ![Fresh] = Variable(name)], {Fresh})
    BY <1>3, <2>1, NameTaken
  <2> HIDE DEF name, q
  <2> QED  BY <1>1, <2>1, <2>2, KeepsLostVariable
<1> QED  BY <1>2, <1>3 DEF DeclareVoid

LEMMA KeepsDeclareInit == ASSUME Sane, DeclareInit PROVE IInv'
<1> DEFINE name == Under(1).at
<1> DEFINE q == Popped(2)
<1> DEFINE g == [heap EXCEPT ![Fresh] = Variable(name)]
<1> DEFINE f == [g EXCEPT ![Second] = New("node")]
<1>0. On("expr") /\ Beneath(1, "declarator") /\ Room(2) /\ heap \in Heaps
  BY DEF DeclareInit, Sane, Sound, Own
<1>1. /\ (heap' = Declared(f, Fresh) /\ GoesOn) \/ GiveUp(Declared(f, Fresh), Nothing)
      /\ areas' = <<Area(Second, "node")>> \o areas /\ symbols' = q /\ Context
  <2> DEFINE e == [heap EXCEPT ![Fresh] = Variable(name), ![Second] = New("node")]
  <2>1. /\ (heap' = Declared(e, Fresh) /\ UNCHANGED <<memStatus, lost>>) \/ GiveUp(Declared(e, Fresh), {})
        /\ areas' = <<Area(Second, "node")>> \o areas /\ symbols' = q /\ Context
        /\ memStatus = "parsing" /\ lost = Nothing
    BY Zenon DEF DeclareInit, Parsing, Sane
  <2>2. e = f
    OBVIOUS
  <2> HIDE DEF e, f
  <2> QED  BY <2>1, <2>2 DEF GoesOn, Nothing
<1>2. /\ Sound(heap, areas, q, Only(name), func, scope, outer, undone)
      /\ Known(heap, Under(1)) /\ Loose(heap, q, Under(1)) /\ Under(1).sym = "declarator"
  <2>1. name \in Only(name) \cup {NULL} /\ "expr" \notin Owning
    BY DEF Only, Owning
  <2> QED  BY <1>0, <2>1, TakeTwo
<1>3. /\ name \in Pointers
      /\ name # NULL => name \in LiveIn(heap) /\ heap[name].kind = "name" /\ Unheld(heap, q, name)
  BY <1>2, NameTaken
<1>4. /\ func \in LiveIn(heap) /\ heap[func].kind = "function"
      /\ scope \in LiveIn(heap) /\ heap[scope].kind = "block"
  <2>1. InFunction(symbols)
    BY <1>0, BodyHere DEF ExprMayStart
  <2> QED  BY <2>1, InScope
<1>5. Room(1) /\ Second \in Addresses /\ heap[Second] = Unused /\ Second # Fresh
  BY <1>0, SecondFree
<1> HIDE DEF q, name
<1>6. With(g, heap, Fresh, Variable(name))
  BY <1>0, <1>3, <1>5, VariableCell, FreshWith
<1> HIDE DEF g
<1>7. Sound(g, areas, q, Only(Fresh), func, scope, outer, undone) /\ Waits(g, q, Fresh)
  <2>1. Only(name) \subseteq Only(Fresh) \cup {name} /\ Fresh \in Only(Fresh)
    BY DEF Only
  <2> QED  BY <1>2, <1>3, <1>6, <2>1, SoundVariable
<1>8. With(f, g, Second, New("node"))
  <2>1. g \in Heaps /\ g[Second] = Unused
    BY <1>5, <1>6 DEF With
  <2> QED  BY <1>5, <2>1, NodeCell, OneNew
<1> HIDE DEF f
<1>9. Sound(f, areas', q, Only(Fresh), func, scope, outer, undone)
  BY <1>1, <1>7, <1>8, SoundPlain
<1>10. Waits(f, q, Fresh)
  <2>1. Fresh \notin TakenBy(New("node"))
    BY <1>7, NodeCell, TakesNothing DEF Waits
  <2> QED  BY <1>7, <1>8, <2>1, WaitsStill
<1>11. func \in LiveIn(f) /\ scope \in LiveIn(f) /\ f[scope].kind \in Listers /\ f[scope].kind # "list"
  BY <1>4, <1>6, <1>8, HeapNew DEF Listers
<1>12. Sound(Declared(f, Fresh), areas', q, Nothing, func, scope, outer, undone)
  BY <1>9, <1>10, <1>11, SoundDeclared DEF Declared, Waits
<1> DEFINE d == Declared(f, Fresh)
<1>13. /\ Sound(d, areas', symbols', Nothing, func', scope', outer', undone')
       /\ Typed(func', scope', outer', undone')
  BY <1>1, <1>12, Unchanged
<1>14. (heap' = d /\ GoesOn) \/ GiveUp(d, Nothing)
  BY <1>1
<1> HIDE DEF d
<1>15. CASE heap' = d /\ GoesOn
  BY <1>13, <1>15, After
<1>16. CASE GiveUp(d, Nothing)
  BY <1>13, <1>16, NothingLost, AfterGiveUp DEF Sound
<1> QED  BY <1>14, <1>15, <1>16
(***************************************************************************)
(* Functions and the end.                                                  *)
(***************************************************************************)

LEMMA KeepsOpenParams == ASSUME Sane, OpenParams PROVE IInv'
<1>1. /\ UNCHANGED <<heap, areas>> /\ symbols' = Append(Popped(0), Sym("params", NULL))
      /\ Context /\ GoesOn /\ On("name")
  BY DEF OpenParams, Proceed, Parsing, Push, GoesOn, Sane
<1>2. Sound(heap, areas, symbols, Nothing, func, scope, outer, undone) /\ symbols = Popped(0)
  BY PoppedNone DEF Sane, Sound, Own
<1> DEFINE s == "params"
<1>3. /\ s \in Owning \ {"name"} /\ Fits(symbols, s) /\ s \notin Tokens /\ NULL \in Pointers
      /\ s # "args" /\ Nothing \subseteq Nothing \cup {NULL}
  BY <1>1, StackFits DEF Owning, Tokens, Pointers
<1> HIDE DEF s
<1>4. Sound(heap, areas, Append(symbols, Sym(s, NULL)), Nothing, func, scope, outer, undone)
  BY <1>2, <1>3, SoundPush
<1>5. Sound(heap', areas', symbols', Nothing, func, scope, outer, undone)
  BY <1>1, <1>2, <1>4 DEF s
<1> QED  BY <1>1, <1>5, Unchanged, After

\* The variable is put on the list, and the list on the stack.
Both(a, b) == {a, b}

\* Linking one variable gives nothing else an owner.
LEMMA ListedUnheld ==
    ASSUME NEW h \in Heaps, NEW q, NEW c, NEW v, NEW g, Listed(g, h, c, v), NEW a, Unheld(h, q, a), a # v
    PROVE  Unheld(g, q, a)
<1>1. /\ \A d : d \in LiveIn(g) <=> d \in LiveIn(h)
      /\ \A d \in LiveIn(h) : g[d].name = h[d].name
  BY HeapListed
<1>2. \A d \in LiveIn(g) : \A i \in DOMAIN g[d].vars : g[d].vars[i] # a
  <2> SUFFICES ASSUME NEW d \in LiveIn(g), NEW i \in DOMAIN g[d].vars PROVE g[d].vars[i] # a
    OBVIOUS
  <2>1. CASE d = c
    BY <2>1, <1>1, HeapListed DEF Unheld
  <2>2. CASE d # c
    BY <2>2, <1>1, HeapListed DEF Unheld
  <2> QED  BY <2>1, <2>2
<1> QED  BY <1>1, <1>2 DEF Unheld

\* The parameter is linked and its list is put back on the stack.
LEMMA SoundParameter ==
    ASSUME NEW h, NEW ar, NEW q, NEW fn, NEW sc, NEW ou, NEW u, NEW v, NEW list,
           Sound(h, ar, q, Both(list, v), fn, sc, ou, u), Waits(h, q, v), Fits(q, "params"),
           list \in LiveIn(h), h[list].kind = "list", Unheld(h, q, list)
    PROVE  Sound(Onto(h, list, v), ar, Append(q, Sym("params", list)), Nothing, fn, sc, ou, u)
<1> DEFINE g == Onto(h, list, v)
<1>1. h \in Heaps /\ v \in LiveIn(h) /\ h[v].kind = "variable" /\ list # v /\ Unheld(h, q, v)
  BY DEF Sound, Own, Waits
<1>2. Listed(g, h, list, v)
  BY <1>1, OneListed
<1> HIDE DEF g
<1>3. h[list].kind \in Listers /\ Both(list, v) \subseteq Only(list) \cup {v} /\ Only(list) \subseteq Nothing \cup {list}
  BY DEF Listers, Both, Only
<1>4. Sound(g, ar, q, Only(list), fn, sc, ou, u)
  <2> DEFINE k == h[list].kind
  <2>1. k \in Listers
    BY <1>3
  <2> QED  BY <1>1, <1>2, <1>3, SoundListed
<1>5. list \in LiveIn(g) /\ g[list].kind = "list" /\ list \in Pointers /\ Unheld(g, q, list)
  BY <1>1, <1>2, HeapListed, ListedUnheld DEF LiveIn, Pointers
<1> DEFINE s == "params"
<1>6. /\ s \in Owning \ {"name"} /\ Fits(q, s) /\ s \notin Tokens /\ KindOf(s) = "list" /\ s # "args"
  BY DEF Owning, Tokens, KindOf
<1> HIDE DEF s
<1>7. Sound(g, ar, Append(q, Sym(s, list)), Nothing, fn, sc, ou, u)
  BY <1>3, <1>4, <1>5, <1>6, SoundPush
<1> QED  BY <1>7 DEF g, s

LEMMA KeepsParameterOn ==
    ASSUME Sane, NEW q, NEW name \in Pointers, NEW list \in Pointers, Fits(q, "params"),
           Sound(heap, areas, q, Both(name, list), func, scope, outer, undone),
           name # NULL => name \in LiveIn(heap) /\ heap[name].kind = "name" /\ Unheld(heap, q, name),
           list # NULL => list \in LiveIn(heap) /\ heap[list].kind = "list" /\ Unheld(heap, q, list),
           NEW new, new = [heap EXCEPT ![Fresh] = Variable(name)],
           list # NULL => /\ Room(1) /\ symbols' = Append(q, Sym("params", list))
                          /\ heap' = Onto(new, list, Fresh),
           list = NULL => /\ Room(2) /\ symbols' = Append(q, Sym("params", Second))
                          /\ heap' = Onto([new EXCEPT ![Second] = New("list")], Second, Fresh),
           areas' = areas, Context, GoesOn
    PROVE  IInv'
<1>1. Room(1) /\ heap \in Heaps
  BY SecondFree DEF Sane, Sound, Own
<1>2. With(new, heap, Fresh, Variable(name))
  <2>1. With([heap EXCEPT ![Fresh] = Variable(name)], heap, Fresh, Variable(name))
    BY <1>1, VariableCell, FreshWith
  <2> QED  BY <2>1, Zenon
<1>3. Sound(new, areas, q, Both(list, Fresh), func, scope, outer, undone) /\ Waits(new, q, Fresh)
  <2>1. Both(name, list) \subseteq Both(list, Fresh) \cup {name} /\ Fresh \in Both(list, Fresh)
    BY DEF Both
  <2> QED  BY <1>2, <2>1, SoundVariable
<1>4. CASE list # NULL
  <2>1. list \notin TakenBy(Variable(name))
    BY <1>4, NoNameTaken
  <2>2. list \in LiveIn(new) /\ new[list].kind = "list"
    BY <1>2, <1>4, HeapNew
  <2>3. Unheld(new, q, list)
    BY <1>2, <1>4, <2>1, StaysUnheld
  <2>4. Sound(Onto(new, list, Fresh), areas, Append(q, Sym("params", list)), Nothing, func, scope, outer, undone)
    BY <1>3, <2>2, <2>3, SoundParameter
  <2>5. Sound(heap', areas', symbols', Nothing, func, scope, outer, undone)
    BY <1>4, <2>4, Zenon
  <2> QED  BY <2>5, Unchanged, After
<1>5. CASE list = NULL
  <2> DEFINE f == [new EXCEPT ![Second] = New("list")]
  <2> DEFINE cell == New("list")
  <2>1. /\ cell \in Cell /\ cell.kind = "list" /\ cell.name = NULL /\ cell.vars = <<>> /\ cell.expr = NULL
        /\ cell.kind \notin NodeKinds
    BY NewCell DEF Kinds, NodeKinds
  <2>2. Second \in Addresses /\ heap[Second] = Unused /\ Second # Fresh /\ Second # NULL
    BY <1>5, SecondFree
  <2>3. new \in Heaps /\ new[Second] = Unused
    BY <1>2, <2>2 DEF With
  <2>4. With(f, new, Second, cell)
    BY <2>1, <2>2, <2>3, OneNew
  <2>5. heap' = Onto(f, Second, Fresh) /\ symbols' = Append(q, Sym("params", Second))
    BY <1>5
  <2> HIDE DEF f, cell
  <2>6. Takeable(new, q, cell) /\ TakenBy(cell) = {NULL}
    BY <2>1, TakesNothing
  <2>7. Sound(f, areas, q, Both(Second, Fresh), func, scope, outer, undone)
    <3>1. Both(list, Fresh) \subseteq Both(Second, Fresh) \cup TakenBy(cell) /\ Second \in Both(Second, Fresh)
      BY <1>5, <2>6 DEF Both
    <3>2. cell.kind \notin NodeKinds /\ cell.expr = NULL /\ Takeable(new, q, cell)
      BY <2>1, <2>6
    <3> QED  BY <1>3, <2>4, <3>1, <3>2, SoundNew
  <2>8. Waits(f, q, Fresh)
    <3>1. Fresh \notin TakenBy(cell)
      BY <1>3, <2>6 DEF Waits
    <3> QED  BY <1>3, <2>4, <3>1, WaitsStill
  <2>9. Second \in LiveIn(f) /\ f[Second].kind = "list"
    BY <2>1, <2>4, HeapNew
  <2>10. Unheld(f, q, Second)
    <3>1. cell.name # Second /\ \A i \in DOMAIN cell.vars : cell.vars[i] # Second
      BY <2>1, <2>2
    <3> QED  BY <1>3, <2>4, <3>1, NewUnheld DEF Sound, Own, Handed
  <2>11. Sound(Onto(f, Second, Fresh), areas, Append(q, Sym("params", Second)), Nothing, func, scope, outer, undone)
    BY <2>7, <2>8, <2>9, <2>10, SoundParameter
  <2>12. Sound(heap', areas', symbols', Nothing, func, scope, outer, undone)
    BY <2>5, <2>11, Zenon
  <2> QED  BY <2>12, Unchanged, After
<1> QED  BY <1>4, <1>5

\* Parameters and what follows them leave a stack they fit on.
LEMMA ParamsBelow ==
    ASSUME Sane, NEW n \in Nat, NEW i \in DOMAIN symbols, i = Len(symbols) - n + 1, symbols[i].sym = "params"
    PROVE  Fits(Popped(n), "params")
<1>1. symbols \in Stacks /\ Grammar(symbols)
  BY DEF Sane, Sound, Own, Shaped
<1>2. DOMAIN symbols = 1..Len(symbols) /\ Len(symbols) \in Nat
  BY <1>1, LenProperties DEF Stacks
<1>3. i \in Nat /\ i > 1 /\ i <= Len(symbols) /\ n \in 0..Len(symbols) /\ Len(symbols) - n = i - 1
  <2>1. i # 1
    BY <1>1 DEF Grammar
  <2> QED  BY <1>2, <2>1
<1> DEFINE q == Popped(n)
<1>4. Cut(q, symbols, n)
  BY <1>1, <1>3, StackCut DEF Popped
<1> HIDE DEF q
<1>5. Len(q) = i - 1 /\ DOMAIN q = 1..Len(q) /\ \A j \in DOMAIN q : q[j] = symbols[j]
  BY <1>3, <1>4, LenProperties DEF Cut, Stacks
<1>6. 1 \in DOMAIN q /\ q # <<>> /\ q[1] = symbols[1]
  BY <1>3, <1>5
<1>7. q[1].sym = "func" => Len(q) > 1
  <2>1. symbols[1].sym = "func" => symbols[2].sym = "block"
    BY <1>1, <1>2, <1>3 DEF Grammar
  <2>2. symbols[1].sym = "func" => i # 2
    BY <2>1
  <2> QED  BY <1>3, <1>5, <1>6, <2>2
<1> QED  BY <1>6, <1>7 DEF Fits, q

\* The list that the stack's symbol pointed to.
LEMMA ListTaken ==
    ASSUME NEW x, NEW h, NEW q, Known(h, x), Loose(h, q, x), x.sym = "params"
    PROVE  /\ x.at \in Pointers
           /\ x.at # NULL => x.at \in LiveIn(h) /\ h[x.at].kind = "list" /\ Unheld(h, q, x.at)
  BY DEF Known, Loose, Owning, KindOf

\* A parameter with a name.
LEMMA KeepsNamedParameter ==
    ASSUME Sane, On("declarator"), Beneath(1, "params"), NEW new, new = [heap EXCEPT ![Fresh] = Variable(Top.at)],
           Under(1).at # NULL => /\ Room(1) /\ symbols' = Append(Popped(2), Sym("params", Under(1).at))
                                 /\ heap' = Onto(new, Under(1).at, Fresh),
           Under(1).at = NULL => /\ Room(2) /\ symbols' = Append(Popped(2), Sym("params", Second))
                                 /\ heap' = Onto([new EXCEPT ![Second] = New("list")], Second, Fresh),
           areas' = areas, Context, GoesOn
    PROVE  IInv'
<1> DEFINE name == Top.at
<1> DEFINE list == Under(1).at
<1> DEFINE q == Popped(2)
<1>1. /\ Sound(heap, areas, q, Both(name, list), func, scope, outer, undone)
      /\ Known(heap, Top) /\ Loose(heap, q, Top) /\ Top.sym = "declarator"
      /\ Known(heap, Under(1)) /\ Loose(heap, q, Under(1)) /\ Under(1).sym = "params"
  <2>1. name \in Both(name, list) \cup {NULL} /\ list \in Both(name, list) \cup {NULL}
    BY DEF Both
  <2>2. "block" \notin {"declarator", "params"}
    OBVIOUS
  <2> QED  BY <2>1, <2>2, TakeTwo
<1>2. /\ name \in Pointers
      /\ name # NULL => name \in LiveIn(heap) /\ heap[name].kind = "name" /\ Unheld(heap, q, name)
  BY <1>1, NameTaken
<1>3. /\ list \in Pointers
      /\ list # NULL => list \in LiveIn(heap) /\ heap[list].kind = "list" /\ Unheld(heap, q, list)
  BY <1>1, ListTaken
<1>4. Fits(q, "params")
  <2>1. /\ symbols \in Stacks /\ symbols # <<>> /\ Len(symbols) > 1
        /\ Under(1) = symbols[Len(symbols) - 1] /\ DOMAIN symbols = 1..Len(symbols) /\ Len(symbols) \in Nat
    BY Tops DEF On, Beneath, Sane, Sound, Own
  <2>2. Len(symbols) - 1 \in DOMAIN symbols /\ Len(symbols) - 1 = Len(symbols) - 2 + 1
    BY <2>1
  <2> QED  BY <1>1, <2>1, <2>2, ParamsBelow
<1> HIDE DEF name, list, q
<1> QED  BY <1>1, <1>2, <1>3, <1>4, KeepsParameterOn DEF name, list, q

\* And without one.
LEMMA KeepsUnnamedParameter ==
    ASSUME Sane, On("params"), NEW new, new = [heap EXCEPT ![Fresh] = Variable(NULL)],
           Top.at # NULL => /\ Room(1) /\ symbols' = Append(Popped(1), Sym("params", Top.at))
                            /\ heap' = Onto(new, Top.at, Fresh),
           Top.at = NULL => /\ Room(2) /\ symbols' = Append(Popped(1), Sym("params", Second))
                            /\ heap' = Onto([new EXCEPT ![Second] = New("list")], Second, Fresh),
           areas' = areas, Context, GoesOn
    PROVE  IInv'
<1> DEFINE list == Top.at
<1> DEFINE q == Popped(1)
<1>1. /\ Sound(heap, areas, q, Both(NULL, list), func, scope, outer, undone)
      /\ Known(heap, Top) /\ Loose(heap, q, Top) /\ Top.sym = "params"
  <2>1. list \in Both(NULL, list) \cup {NULL}
    BY DEF Both
  <2> QED  BY <2>1, TakeOne
<1>2. NULL \in Pointers
  BY DEF Pointers
<1>3. /\ list \in Pointers
      /\ list # NULL => list \in LiveIn(heap) /\ heap[list].kind = "list" /\ Unheld(heap, q, list)
  BY <1>1, ListTaken
<1>4. Fits(q, "params")
  <2>1. /\ symbols \in Stacks /\ symbols # <<>>
        /\ Top = symbols[Len(symbols)] /\ Len(symbols) \in DOMAIN symbols /\ Len(symbols) \in Nat
    BY Tops DEF On, Sane, Sound, Own
  <2>2. Len(symbols) = Len(symbols) - 1 + 1
    BY <2>1
  <2> QED  BY <1>1, <2>1, <2>2, ParamsBelow
<1> HIDE DEF list, q
<1> QED  BY <1>1, <1>2, <1>3, <1>4, KeepsParameterOn DEF list, q

LEMMA KeepsParameter == ASSUME Sane, Parameter PROVE IInv'
<1>1. areas' = areas /\ Context /\ GoesOn
  BY DEF Parameter, Proceed, Parsing, GoesOn, Sane
<1>2. PICK named \in BOOLEAN :
         LET taken == IF named THEN 2 ELSE 1
             name == IF named THEN Top.at ELSE NULL
             list == IF named THEN Under(1).at ELSE Top.at
             new == [heap EXCEPT ![Fresh] = Variable(name)]
         IN  /\ IF named THEN On("declarator") /\ Beneath(1, "params") ELSE On("params")
             /\ IF list # NULL
                THEN /\ Room(1) /\ Push(taken, "params", list)
                     /\ heap' = Onto(new, list, Fresh)
                ELSE /\ Room(2) /\ Push(taken, "params", Second)
                     /\ heap' = Onto([new EXCEPT ![Second] = New("list")], Second, Fresh)
  BY DEF Parameter
<1>3. CASE named
  <2> DEFINE new == [heap EXCEPT ![Fresh] = Variable(Top.at)]
  <2>1. /\ On("declarator") /\ Beneath(1, "params")
        /\ Under(1).at # NULL => Room(1) /\ Push(2, "params", Under(1).at) /\ heap' = Onto(new, Under(1).at, Fresh)
        /\ Under(1).at = NULL => /\ Room(2) /\ Push(2, "params", Second)
                                 /\ heap' = Onto([new EXCEPT ![Second] = New("list")], Second, Fresh)
    BY <1>2, <1>3, Zenon
  <2>2. new = [heap EXCEPT ![Fresh] = Variable(Top.at)]
    OBVIOUS
  <2> HIDE DEF new
  <2> QED  BY <1>1, <2>1, <2>2, KeepsNamedParameter DEF Push
<1>4. CASE ~named
  <2> DEFINE new == [heap EXCEPT ![Fresh] = Variable(NULL)]
  <2>1. /\ On("params")
        /\ Top.at # NULL => Room(1) /\ Push(1, "params", Top.at) /\ heap' = Onto(new, Top.at, Fresh)
        /\ Top.at = NULL => /\ Room(2) /\ Push(1, "params", Second)
                            /\ heap' = Onto([new EXCEPT ![Second] = New("list")], Second, Fresh)
    BY <1>2, <1>4, Zenon
  <2>2. new = [heap EXCEPT ![Fresh] = Variable(NULL)]
    OBVIOUS
  <2> HIDE DEF new
  <2> QED  BY <1>1, <2>1, <2>2, KeepsUnnamedParameter DEF Push
<1> QED  BY <1>3, <1>4

\* A list is freed; what was on it, and a name, wait for the function.
LEMMA ListFreed ==
    ASSUME NEW h, NEW ar, NEW q, NEW fn, NEW sc, NEW ou, NEW u, NEW name, NEW list, NEW node, NEW g,
           Sound(h, ar, q, Both(list, name), fn, sc, ou, u),
           name \in LiveIn(h), h[name].kind = "name", Unheld(h, q, name),
           list \in LiveIn(h), h[list].kind = "list", Unheld(h, q, list), Without(g, h, Only(list)),
           node.kind = "function", node.name = name, node.vars = h[list].vars
    PROVE  Sound(g, ar, q, TakenBy(node), fn, sc, ou, u) /\ Takeable(g, q, node)
<1>1. h \in Heaps /\ Handed(h, q) /\ Kept(h, q) /\ ListedOnce(h)
  BY DEF Sound, Own, Handed
<1>2. Without(g, h, {list}) /\ name # list /\ h[list].kind \notin NodeKinds
  BY DEF Only, NodeKinds
<1>3. /\ name \in LiveIn(g) /\ g[name].kind = "name" /\ Unheld(g, q, name)
  BY <1>2, HeapFree, FreeUnheld
<1> DEFINE Y == TakenBy(node)
<1>4. Both(list, name) \subseteq Y \cup {list} /\ \A i \in DOMAIN h[list].vars : h[list].vars[i] \in Y
  BY DEF TakenBy, Both
<1>5. h[list].name \in Y \cup {NULL}
  BY <1>1 DEF Kept, Namers
<1> HIDE DEF Y
<1>6. Sound(g, ar, q, Y, fn, sc, ou, u)
  BY <1>2, <1>4, <1>5, SoundFree
<1>7. ASSUME NEW i \in DOMAIN node.vars
      PROVE  node.vars[i] \in LiveIn(g) /\ g[node.vars[i]].kind = "variable" /\ Unheld(g, q, node.vars[i])
  <2>1. node.vars[i] \in LiveIn(h) /\ h[node.vars[i]].kind = "variable" /\ node.vars[i] # list
    BY <1>1 DEF Kept
  <2>2. Unheld(g, q, node.vars[i])
    BY <1>1, <1>2, FreedListUnheld
  <2> QED  BY <1>2, <2>1, <2>2, HeapFree
<1>8. \A i, j \in DOMAIN node.vars : node.vars[i] = node.vars[j] => i = j
  BY <1>1 DEF ListedOnce
<1>9. Takeable(g, q, node)
  BY <1>3, <1>7, <1>8 DEF Takeable, Namers, Listers
<1> QED  BY <1>6, <1>9 DEF Y

\* A function with its name and parameters.
LEMMA FunctionCell ==
    ASSUME NEW name \in Pointers, NEW vars \in Seq(Addresses)
    PROVE  LET c == [New("function") EXCEPT !.name = name, !.vars = vars]
           IN  c \in Cell /\ c.kind = "function" /\ c.name = name /\ c.vars = vars /\ c.expr = NULL
  BY EmptySeq DEF New, Cell, Pointers, Kinds

\* Only a name is beneath the parameters.
LEMMA ParamsAlone ==
    ASSUME Sane, On("params"), Beneath(1, "name")
    PROVE  Popped(2) = <<>> /\ outer = <<>>
<1>1. /\ symbols \in Stacks /\ symbols # <<>> /\ Grammar(symbols) /\ outer \in Seq(Pointers)
      /\ Nesting(symbols, func, scope, outer)
  BY DEF Sane, Sound, Own, On, Shaped, Typed
<1>2. /\ DOMAIN symbols = 1..Len(symbols) /\ Len(symbols) \in Nat /\ Len(symbols) > 1
      /\ symbols[Len(symbols) - 1].sym = "name"
  BY <1>1, Tops DEF Beneath
<1>3. Len(symbols) = 2 /\ symbols[1].sym = "name"
  BY <1>1, <1>2 DEF Grammar
<1>4. Popped(2) = <<>>
  BY <1>1, <1>3, SubSeqEmpty DEF Popped, Stacks
<1>5. BlocksOf(symbols) = {}
  BY <1>1, <1>3 DEF Grammar, BlocksOf
<1>6. Len(outer) = 0
  BY <1>1, <1>5, FS_EmptySet DEF Nesting
<1> QED  BY <1>1, <1>4, <1>6, EmptySeq

LEMMA KeepsFunctionDeclaration == ASSUME Sane, FunctionDeclaration PROVE IInv'
<1> DEFINE name == Under(1).at
<1> DEFINE list == Top.at
<1> DEFINE vars == IF list = NULL THEN <<>> ELSE heap[list].vars
<1> DEFINE node == [New("function") EXCEPT !.name = name, !.vars = vars]
<1> DEFINE q == Popped(2)
<1>0. On("params") /\ Beneath(1, "name") /\ Room(1) /\ heap \in Heaps
  BY DEF FunctionDeclaration, Sane, Sound, Own
<1>1. /\ heap' = Freed([heap EXCEPT ![Fresh] = node], list)
      /\ areas' = <<Area(Fresh, "function")>> \o areas /\ symbols' = Append(q, Sym("func", Fresh))
      /\ GoesOn /\ func' = Fresh /\ UNCHANGED <<scope, outer, undone>>
  BY DEF FunctionDeclaration, Proceed, Parsing, Push, FreeList, GoesOn, Sane
<1>2. ASSUME NEW Y, list \in Y \cup {NULL}, name \in Y
      PROVE  /\ Sound(heap, areas, q, Y, func, scope, outer, undone)
             /\ Known(heap, Top) /\ Loose(heap, q, Top) /\ Top.sym = "params"
             /\ Known(heap, Under(1)) /\ Loose(heap, q, Under(1)) /\ Under(1).sym = "name"
  BY <1>0, <1>2, TakeTwo
<1>3. /\ list \in Pointers
      /\ list # NULL => list \in LiveIn(heap) /\ heap[list].kind = "list" /\ Unheld(heap, q, list)
      /\ name \in LiveIn(heap) /\ heap[name].kind = "name" /\ Unheld(heap, q, name)
      /\ name \in Pointers /\ name # NULL
  <2>1. list \in Both(list, name) \cup {NULL} /\ name \in Both(list, name)
    BY DEF Both
  <2>2. /\ Known(heap, Top) /\ Loose(heap, q, Top) /\ Top.sym = "params"
        /\ Known(heap, Under(1)) /\ Loose(heap, q, Under(1)) /\ Under(1).sym = "name"
    BY <1>2, <2>1
  <2> QED  BY <2>2, ListTaken DEF Known, Loose, Owning, KindOf, Tokens
<1>4. vars \in Seq(Addresses)
  BY <1>0, <1>3, LiveCells, EmptySeq
<1>5. node \in Cell /\ node.kind = "function" /\ node.name = name /\ node.vars = vars /\ node.expr = NULL
  <2> HIDE DEF name, vars, list
  <2>1. name \in Pointers /\ vars \in Seq(Addresses)
    BY <1>3, <1>4
  <2> QED  BY <2>1, FunctionCell
<1>6. Fresh \in Addresses /\ heap[Fresh] = Unused /\ Fresh # NULL /\ Fresh \in Pointers /\ list # Fresh
  BY <1>0, <1>3, FreshFree DEF Pointers, LiveIn
<1>7. PICK g : /\ Sound(g, areas, q, TakenBy(node), func, scope, outer, undone)
               /\ Takeable(g, q, node) /\ With(heap', g, Fresh, node)
  <2>1. CASE list = NULL
    <3>1. list \in Only(name) \cup {NULL} /\ name \in Only(name)
      BY <2>1 DEF Only
    <3>2. Sound(heap, areas, q, Only(name), func, scope, outer, undone)
      BY <1>2, <3>1
    <3>3. node.vars = <<>>
      BY <1>5, <2>1
    <3>4. Takeable(heap, q, node) /\ TakenBy(node) = Only(name)
      <4> HIDE DEF node, name
      <4> QED  BY <1>3, <1>5, <3>3 DEF Takeable, TakenBy, Only, Namers
    <3> HIDE DEF node, list, name, q
    <3>5. With([heap EXCEPT ![Fresh] = node], heap, Fresh, node)
      BY <1>0, <1>5, FreshWith
    <3>6. With(heap', heap, Fresh, node)
      BY <1>1, <2>1, <3>5, Zenon DEF Freed
    <3> QED  BY <3>2, <3>4, <3>6
  <2>2. CASE list # NULL
    <3> DEFINE g == [heap EXCEPT ![list] = Unused]
    <3>1. list \in Both(list, name) \cup {NULL} /\ name \in Both(list, name)
      BY DEF Both
    <3>2. Sound(heap, areas, q, Both(list, name), func, scope, outer, undone)
      BY <1>2, <3>1
    <3>3. node.vars = heap[list].vars
      BY <1>5, <2>2
    <3> HIDE DEF node, list, name, q
    <3>4. Without(g, heap, Only(list))
      BY <1>0, OneFree DEF Only
    <3>5. With(heap', g, Fresh, node)
      <4>1. With([[heap EXCEPT ![Fresh] = node] EXCEPT ![list] = Unused], g, Fresh, node)
        BY <1>0, <1>5, <1>6, NewThenFree
      <4> QED  BY <1>1, <2>2, <4>1, Zenon DEF Freed
    <3> HIDE DEF g
    <3>6. Sound(g, areas, q, TakenBy(node), func, scope, outer, undone) /\ Takeable(g, q, node)
      BY <1>3, <1>5, <2>2, <3>2, <3>3, <3>4, ListFreed
    <3> QED  BY <3>5, <3>6
  <2> QED  BY <2>1, <2>2
<1> HIDE DEF node, list, name, vars
<1>8. /\ Sound(heap', areas', q, Nothing, func, scope, outer, undone)
      /\ Fresh \in LiveIn(heap') /\ heap'[Fresh].kind = "function"
  <2> DEFINE X == TakenBy(node)
  <2>1. X \subseteq Nothing \cup TakenBy(node)
    OBVIOUS
  <2>2. node.kind \in NodeKinds /\ node.kind # "deref" /\ areas' = <<Area(Fresh, node.kind)>> \o areas
    BY <1>1, <1>5 DEF NodeKinds
  <2> HIDE DEF X
  <2>3. Sound(g, areas, q, X, func, scope, outer, undone)
    BY <1>7 DEF X
  <2>4. /\ Sound(heap', <<Area(Fresh, node.kind)>> \o areas, q, Nothing, func, scope, outer, undone)
        /\ Fresh \in LiveIn(heap') /\ heap'[Fresh] = node
    BY <1>5, <1>7, <2>1, <2>2, <2>3, SoundNode
  <2> QED  BY <1>5, <2>2, <2>4
<1>9. q = <<>> /\ outer = <<>>
  BY <1>0, ParamsAlone
<1> HIDE DEF q
<1> DEFINE s == "func"
<1> DEFINE r == Append(q, Sym(s, Fresh))
<1>10. s \in Symbols /\ s \notin Owning /\ s # "args" /\ s # "expr" /\ s = "func"
  BY DEF Symbols, Owning
<1> HIDE DEF s
<1>11. Own(heap', areas', r, Nothing, undone)
  <2>1. Nothing \subseteq Nothing \cup {b \in {Fresh} : s \in Owning}
    OBVIOUS
  <2> QED  BY <1>6, <1>8, <1>10, <2>1, OwnPush DEF Sound
<1>12. See(heap', r, func, scope, outer)
  <2>1. q \in Stacks
    BY <1>8 DEF Sound, Own
  <2> QED  BY <1>6, <1>8, <1>10, <2>1, SeePush DEF Sound
<1>13. See(heap', r, Fresh, scope, outer)
  BY <1>8, <1>12 DEF See, Within
<1>14. Shaped(r, Fresh, scope, outer)
  BY <1>6, <1>9, ShapeBottom DEF s
<1>15. Sound(heap', areas', symbols', Nothing, func', scope', outer', undone')
  BY <1>1, <1>11, <1>13, <1>14 DEF Sound, s
<1>16. Typed(func', scope', outer', undone')
  BY <1>1, <1>6 DEF Sane, Typed
<1> QED  BY <1>1, <1>15, <1>16, After

\* The end of a function leaves nothing on the stack.
LEMMA KeepsEndFunction == ASSUME Sane, EndFunction PROVE IInv'
<1>1. /\ scope' = NULL /\ func' = NULL /\ UNCHANGED <<heap, areas, undone>> /\ GoesOn
      /\ \/ On("block") /\ Beneath(1, "func") /\ symbols' = Popped(2) /\ outer' = Front(outer)
         \/ On("func") /\ symbols' = Popped(1) /\ outer' = outer
  BY DEF EndFunction, Proceed, Parsing, GoesOn, Sane
<1>2. /\ symbols \in Stacks /\ Shaped(symbols, func, scope, outer) /\ outer \in Seq(Pointers)
      /\ undone \in 0..MaxUndone
  BY DEF Sane, Sound, Own, Typed
<1>3. /\ symbols' = <<>> /\ outer' = <<>> /\ Own(heap, areas, symbols', Nothing, undone)
      /\ See(heap, symbols', func, scope, outer)
  <2>1. CASE On("block") /\ Beneath(1, "func") /\ symbols' = Popped(2) /\ outer' = Front(outer)
    <3>1. /\ Len(symbols) > 1
          /\ symbols[Len(symbols)].sym = "block" /\ symbols[Len(symbols) - 1].sym = "func"
          /\ Own(heap, areas, symbols', Nothing, undone) /\ See(heap, symbols', func, scope, outer)
      BY <2>1, CutBlock
    <3>2. Len(symbols) = 2 /\ Front(outer) = <<>>
      BY <1>2, <3>1, ShapeEnd
    <3>3. Popped(2) = <<>>
      BY <1>2, <3>2, SubSeqEmpty DEF Popped, Stacks
    <3> QED  BY <2>1, <3>1, <3>2, <3>3
  <2>2. CASE On("func") /\ symbols' = Popped(1) /\ outer' = outer
    <3>1. Len(symbols) > 0 /\ symbols[Len(symbols)].sym = "func"
      BY <1>2, <2>2, Tops DEF On
    <3>2. Len(symbols) = 1 /\ outer = <<>>
      BY <1>2, <3>1, ShapeEnd
    <3>3. Popped(1) = <<>>
      BY <1>2, <3>2, SubSeqEmpty DEF Popped, Stacks
    <3>4. Sound(heap, areas, Popped(1), Nothing, func, scope, outer, undone)
      BY <2>2, TakeOne DEF Owning
    <3> QED  BY <2>2, <3>2, <3>3, <3>4 DEF Sound
  <2> QED  BY <1>1, <2>1, <2>2
<1>4. See(heap, symbols', NULL, NULL, <<>>)
  BY <1>3 DEF See, Within
<1>5. Shaped(<<>>, NULL, NULL, <<>>)
  <2>1. BlocksOf(<<>>) = {}
    BY DEF BlocksOf
  <2>2. Grammar(<<>>)
    BY EmptySeq DEF Grammar
  <2>3. Nesting(<<>>, NULL, NULL, <<>>)
    BY <2>1, FS_EmptySet, EmptySeq DEF Nesting
  <2> QED  BY <2>2, <2>3 DEF Shaped
<1>6. Sound(heap', areas', symbols', Nothing, func', scope', outer', undone')
  BY <1>1, <1>3, <1>4, <1>5 DEF Sound
<1>7. Typed(func', scope', outer', undone')
  BY <1>1, <1>2, <1>3, EmptySeq DEF Typed, Pointers
<1> QED  BY <1>1, <1>6, <1>7, After
(***************************************************************************)
(* The end.                                                                *)
(***************************************************************************)

LEMMA KeepsAccept == ASSUME Sane, Accept PROVE IInv'
<1>1. /\ UNCHANGED <<areas, symbols, func, scope, outer, undone>> /\ memStatus' = "accepted"
      /\ (heap' = heap /\ lost' = lost) \/ EndsIn("string", heap, Nothing)
  BY DEF Accept, Context, Nothing
<1>2. /\ Own(heap, areas, symbols, Nothing, undone) /\ Typed(func, scope, outer, undone) /\ lost = Nothing
      /\ LostHold(heap, symbols, Nothing)
  BY NothingLost DEF Sane, Sound
<1>3. /\ Own(heap', areas', symbols', lost', undone') /\ LostHold(heap', symbols', lost')
      /\ lost' \in SUBSET Addresses
      /\ (\A a, b \in lost' : a = b) /\ \A a \in lost' : heap'[a].kind = "string"
  <2>1. CASE heap' = heap /\ lost' = lost
    BY <1>1, <1>2, <2>1, NothingLost
  <2>2. CASE EndsIn("string", heap, Nothing)
    <3> DEFINE kind == "string"
    <3>1. EndsIn(kind, heap, Nothing) /\ kind \in {"name", "string"}
      BY <2>2
    <3> HIDE DEF kind
    <3>2. /\ Own(heap', areas, symbols, lost', undone) /\ LostHold(heap', symbols, lost')
          /\ lost' \in SUBSET Addresses
          /\ \A a \in lost' \ Nothing : heap'[a].kind = kind
          /\ Nothing = {} => \A a, b \in lost' : a = b
      BY <1>2, <3>1, NothingLost, TokenLost
    <3> QED  BY <1>1, <3>2, NothingLost DEF kind
  <2> QED  BY <1>1, <2>1, <2>2
<1>4. MemTypeOK'
  BY <1>1, <1>2, <1>3 DEF MemTypeOK, Typed, Own, Heaps, AreaSeqs, AreaSet, Stacks, SymSet
<1>5. ~Parsing' /\ Handed(heap', symbols')
  BY <1>1, <1>3 DEF Parsing, Own
<1>6. undone' = 0 => OwnerInv'
  BY <1>1, <1>3 DEF OwnerInv, Own
<1> QED  BY <1>4, <1>5, <1>6 DEF IInv

LEMMA KeepsError == ASSUME Sane, Error PROVE IInv'
<1>1. UNCHANGED <<areas, symbols, func, scope, outer, undone>> /\ GiveUp(heap, Nothing)
  BY DEF Error, Context, Nothing
<1>2. Own(heap, areas, symbols, Nothing, undone) /\ Typed(func, scope, outer, undone)
  BY DEF Sane, Sound
<1> QED  BY <1>1, <1>2, NothingLost, AfterGiveUp

\* Two lists of frees without a common address, one after the other.
LEMMA JoinFrees ==
    ASSUME NEW s \in Seq(Pointers), NEW t \in Seq(Pointers), NoneTwice(s), NoneTwice(t),
           \A i \in DOMAIN s, j \in DOMAIN t : s[i] = t[j] => s[i] = NULL
    PROVE  LET f == s \o t
           IN  /\ f \in Seq(Pointers) /\ NoneTwice(f)
               /\ \A x : x \in ToSet(f) <=> x \in ToSet(s) \/ x \in ToSet(t)
<1> DEFINE f == s \o t
<1> DEFINE m == Len(s)
<1> DEFINE n == Len(t)
<1>1. /\ m \in Nat /\ n \in Nat /\ DOMAIN s = 1..m /\ DOMAIN t = 1..n
      /\ f \in Seq(Pointers) /\ Len(f) = m + n /\ DOMAIN f = 1..(m + n)
      /\ \A i \in 1..(m + n) : f[i] = IF i <= m THEN s[i] ELSE t[i - m]
  BY ConcatProperties, LenProperties
<1> HIDE DEF f, m, n
<1>2. \A i \in DOMAIN f : \/ i \in DOMAIN s /\ f[i] = s[i]
                          \/ i - m \in DOMAIN t /\ f[i] = t[i - m] /\ i \in Nat
  BY <1>1
<1>3. \A i \in DOMAIN s : i \in DOMAIN f /\ f[i] = s[i]
  BY <1>1
<1>4. ASSUME NEW j \in DOMAIN t PROVE j + m \in DOMAIN f /\ f[j + m] = t[j]
  <2>1. j \in Nat /\ j + m \in 1..(m + n) /\ ~(j + m <= m) /\ j + m - m = j
    BY <1>1
  <2> QED  BY <1>1, <2>1
<1>5. ASSUME NEW i \in DOMAIN f, NEW j \in DOMAIN f, f[i] = f[j], f[i] # NULL PROVE i = j
  <2>1. CASE i \in DOMAIN s /\ f[i] = s[i]
    BY <1>2, <1>5, <2>1 DEF NoneTwice
  <2>2. CASE i - m \in DOMAIN t /\ f[i] = t[i - m] /\ i \in Nat
    <3>1. j - m \in DOMAIN t /\ f[j] = t[j - m] /\ j \in Nat
      BY <1>2, <1>5, <2>2
    <3>2. i - m = j - m
      BY <1>5, <2>2, <3>1 DEF NoneTwice
    <3> QED  BY <1>1, <2>2, <3>1, <3>2
  <2> QED  BY <1>2, <2>1, <2>2
<1>6. NoneTwice(f)
  BY <1>5 DEF NoneTwice
<1>7. ASSUME NEW x PROVE x \in ToSet(f) <=> x \in ToSet(s) \/ x \in ToSet(t)
  BY <1>2, <1>3, <1>4 DEF ToSet
<1> QED  BY <1>1, <1>6, <1>7 DEF f

\* One free.
LEMMA OneFreed ==
    ASSUME NEW a \in Pointers
    PROVE  /\ <<a>> \in Seq(Pointers) /\ NoneTwice(<<a>>)
           /\ \A x : x \in ToSet(<<a>>) <=> x = a
  BY DEF NoneTwice, ToSet

\* What an area's clear function frees, and the node.
FreedBy(h, o) == {a \in LiveIn(h) : \/ a = o \/ a = h[o].name
                                    \/ \E i \in DOMAIN h[o].vars : a = h[o].vars[i] \/ a = h[h[o].vars[i]].name}

\* What the clear functions free of a node's variables: each and its name, once.
LEMMA VariablesFreed ==
    ASSUME heap \in Heaps, Handed(heap, symbols), NEW o \in LiveIn(heap)
    PROVE  LET f == WithNames(heap[o].vars)
           IN  /\ f \in Seq(Pointers) /\ NoneTwice(f)
               /\ \A x : x \in ToSet(f) <=>
                     \E i \in DOMAIN heap[o].vars : x = heap[o].vars[i] \/ x = heap[heap[o].vars[i]].name
<1> DEFINE s == heap[o].vars
<1> DEFINE t == Names(s)
<1>1. Kept(heap, symbols) /\ NamedOnce(heap, symbols) /\ ListedOnce(heap) /\ Live = LiveIn(heap)
  BY DEF Handed, Live, LiveIn
<1>2. s \in Seq(Addresses) /\ s \in Seq(Pointers) /\ DOMAIN s = 1..Len(s) /\ Len(s) \in Nat
  BY LiveCells, LenProperties DEF Pointers
<1>3. \A i \in DOMAIN s : s[i] \in LiveIn(heap) /\ heap[s[i]].kind = "variable"
  BY <1>1 DEF Kept
<1>4. \A i \in DOMAIN s : heap[s[i]].name \in Pointers
  BY <1>3, LiveCells DEF Cell
<1>5. DOMAIN t = DOMAIN s /\ \A i \in DOMAIN s : t[i] = heap[s[i]].name
  BY <1>1, <1>3 DEF Names, NameOf
<1> HIDE DEF t
<1>6. t \in Seq(Pointers)
  <2>1. t = [i \in 1..Len(s) |-> heap[s[i]].name]
    <3>1. t = [i \in DOMAIN t |-> t[i]]
      BY DEF t, Names
    <3> QED  BY <1>2, <1>5, <3>1
  <2> QED  BY <1>2, <1>4, <2>1
<1>7. NoneTwice(s)
  BY <1>1 DEF ListedOnce, NoneTwice
<1>8. NoneTwice(t)
  <2>1. \A i, j \in DOMAIN s : heap[s[i]].name = heap[s[j]].name /\ heap[s[i]].name # NULL => s[i] = s[j]
    BY <1>1, <1>3 DEF NamedOnce
  <2> QED  BY <1>1, <1>5, <2>1 DEF ListedOnce, NoneTwice
<1>9. \A i \in DOMAIN s, j \in DOMAIN t : s[i] = t[j] => s[i] = NULL
  BY <1>1, <1>3, <1>5 DEF Kept
<1>10. \A x : x \in ToSet(s) <=> \E i \in DOMAIN s : x = s[i]
  BY DEF ToSet
<1>11. \A x : x \in ToSet(t) <=> \E i \in DOMAIN s : x = heap[s[i]].name
  BY <1>5 DEF ToSet
<1> HIDE DEF s
<1> DEFINE f == s \o t
<1>12. /\ f \in Seq(Pointers) /\ NoneTwice(f)
       /\ \A x : x \in ToSet(f) <=> x \in ToSet(s) \/ x \in ToSet(t)
  BY <1>2, <1>6, <1>7, <1>8, <1>9, JoinFrees
<1> HIDE DEF f
<1>13. \A x : x \in ToSet(f) <=> \E i \in DOMAIN s : x = s[i] \/ x = heap[s[i]].name
  BY <1>10, <1>11, <1>12
<1> QED  BY <1>12, <1>13 DEF f, s, t, WithNames

\* What freeing an area frees, once: what the node is responsible for, and it.
LEMMA ClearedFrees ==
    ASSUME heap \in Heaps, Handed(heap, symbols), NEW area, area.obj \in LiveIn(heap),
           heap[area.obj].kind \in NodeKinds, area.clear = ClearOf(heap[area.obj].kind)
    PROVE  LET f == Append(Cleared(area), area.obj)
           IN  /\ NoneTwice(f) /\ ToSet(f) \subseteq Pointers
               /\ \A x : x # NULL => (x \in ToSet(f) <=> x \in FreedBy(heap, area.obj))
<1> DEFINE o == area.obj
<1> DEFINE vars == heap[o].vars
<1> DEFINE vs == WithNames(vars)
<1> DEFINE nm == heap[o].name
<1> DEFINE c == Cleared(area)
<1>1. Kept(heap, symbols) /\ NamedOnce(heap, symbols) /\ Live = LiveIn(heap)
  BY DEF Handed, Live, LiveIn
<1>2. /\ vs \in Seq(Pointers) /\ NoneTwice(vs)
      /\ \A x : x \in ToSet(vs) <=> \E i \in DOMAIN vars : x = vars[i] \/ x = heap[vars[i]].name
  BY VariablesFreed
<1>3. c = CASE area.clear = "block" -> vs
            [] area.clear = "function" -> vs \o <<nm>>
            [] area.clear = "literal" -> <<nm>>
            [] area.clear = "none" -> <<>>
  BY DEF Cleared
<1>4. nm \in Pointers /\ o \in Pointers /\ o # NULL
  BY LiveCells, NullApart DEF Cell, Pointers, LiveIn
<1>5. /\ \A i \in DOMAIN vars : vars[i] \in LiveIn(heap) /\ heap[vars[i]].kind = "variable" /\ vars[i] # o
      /\ \A i \in DOMAIN vars : heap[vars[i]].name # NULL =>
            heap[vars[i]].name \in LiveIn(heap) /\ heap[heap[vars[i]].name].kind \in {"name", "string"}
      /\ nm # NULL => nm \in LiveIn(heap) /\ heap[nm].kind \in {"name", "string"}
      /\ \A i \in DOMAIN vars : heap[vars[i]].name = nm => nm = NULL
  <2>1. \A i \in DOMAIN vars : vars[i] \in LiveIn(heap) /\ heap[vars[i]].kind = "variable"
    BY <1>1 DEF Kept
  <2>2. \A i \in DOMAIN vars : vars[i] # o
    BY <2>1 DEF NodeKinds
  <2> QED  BY <1>1, <2>1, <2>2 DEF Kept, NamedOnce
<1>6. /\ heap[o].kind \notin Namers => nm = NULL
      /\ heap[o].kind \notin Listers => \A i : i \notin DOMAIN vars
  BY <1>1 DEF Kept
<1>7. area.clear = IF heap[o].kind \in {"block", "function", "literal"} THEN heap[o].kind ELSE "none"
  BY DEF ClearOf
<1> HIDE DEF o, vars, vs, nm, c
<1> DEFINE Mine(x) == x = nm \/ \E i \in DOMAIN vars : x = vars[i] \/ x = heap[vars[i]].name
<1>8. /\ c \in Seq(Pointers) /\ NoneTwice(c)
      /\ \A x : x # NULL => (x \in ToSet(c) <=> Mine(x))
  <2>1. CASE heap[o].kind = "block"
    <3>1. c = vs /\ nm = NULL
      BY <1>3, <1>6, <1>7, <2>1 DEF Namers
    <3> QED  BY <1>2, <3>1
  <2>2. CASE heap[o].kind = "function"
    <3> DEFINE t == <<nm>>
    <3>1. c = vs \o t
      BY <1>3, <1>7, <2>2
    <3>2. t \in Seq(Pointers) /\ NoneTwice(t) /\ (\A x : x \in ToSet(t) <=> x = nm) /\ \A j \in DOMAIN t : t[j] = nm
      BY <1>4, OneFreed
    <3>3. \A i \in DOMAIN vs : vs[i] = nm => vs[i] = NULL
      <4>1. \A i \in DOMAIN vs : vs[i] \in ToSet(vs)
        BY DEF ToSet
      <4>2. nm # NULL => nm \notin ToSet(vs)
        BY <1>2, <1>5
      <4> QED  BY <4>1, <4>2
    <3> HIDE DEF t
    <3>4. \A i \in DOMAIN vs, j \in DOMAIN t : vs[i] = t[j] => vs[i] = NULL
      BY <3>2, <3>3
    <3>5. /\ c \in Seq(Pointers) /\ NoneTwice(c)
          /\ \A x : x \in ToSet(c) <=> x \in ToSet(vs) \/ x \in ToSet(t)
      <4> DEFINE f == vs \o t
      <4>1. /\ f \in Seq(Pointers) /\ NoneTwice(f)
            /\ \A x : x \in ToSet(f) <=> x \in ToSet(vs) \/ x \in ToSet(t)
        BY <1>2, <3>2, <3>4, JoinFrees
      <4> HIDE DEF f
      <4>2. c = f
        BY <3>1 DEF f
      <4> QED  BY <4>1, <4>2
    <3> QED  BY <1>2, <3>2, <3>5
  <2>3. CASE heap[o].kind = "literal"
    <3>1. c = <<nm>> /\ \A i : i \notin DOMAIN vars
      BY <1>3, <1>6, <1>7, <2>3 DEF Listers
    <3> QED  BY <1>4, <3>1, OneFreed
  <2>4. CASE heap[o].kind \in {"deref", "node"}
    <3>1. c = <<>> /\ nm = NULL /\ \A i : i \notin DOMAIN vars
      BY <1>3, <1>6, <1>7, <2>4 DEF Namers, Listers
    <3> QED  BY <3>1, EmptySeq DEF NoneTwice, ToSet
  <2> QED  BY <2>1, <2>2, <2>3, <2>4 DEF NodeKinds, o
<1> DEFINE t == <<o>>
<1>9. t \in Seq(Pointers) /\ NoneTwice(t) /\ (\A x : x \in ToSet(t) <=> x = o) /\ \A j \in DOMAIN t : t[j] = o
  BY <1>4, OneFreed
<1>10. \A i \in DOMAIN c : c[i] # o
  <2>1. \A i \in DOMAIN c : c[i] \in ToSet(c)
    BY DEF ToSet
  <2>2. heap[o].kind \notin {"name", "string", "variable"}
    BY DEF NodeKinds, o
  <2>3. o \notin ToSet(c)
    BY <1>4, <1>5, <1>8, <2>2
  <2> QED  BY <2>1, <2>3
<1> HIDE DEF t, Mine
<1> DEFINE f == c \o t
<1>11. /\ f \in Seq(Pointers) /\ NoneTwice(f)
       /\ \A x : x \in ToSet(f) <=> x \in ToSet(c) \/ x \in ToSet(t)
  <2>1. \A i \in DOMAIN c, j \in DOMAIN t : c[i] = t[j] => c[i] = NULL
    BY <1>9, <1>10
  <2> QED  BY <1>8, <1>9, <2>1, JoinFrees
<1> HIDE DEF f
<1>12. Append(Cleared(area), area.obj) = f
  BY <1>4, <1>8, AppendIsConcat DEF f, t, c, o
<1>13. ToSet(f) \subseteq Pointers
  BY <1>11 DEF ToSet
<1>14. ASSUME NEW x, x # NULL PROVE x \in ToSet(f) <=> x \in FreedBy(heap, o)
  <2>1. x \in ToSet(f) <=> Mine(x) \/ x = o
    BY <1>8, <1>9, <1>11, <1>14
  <2>2. Mine(x) => x \in LiveIn(heap)
    BY <1>5, <1>14 DEF Mine
  <2>3. o \in LiveIn(heap)
    BY DEF o
  <2> QED  BY <2>1, <2>2, <2>3 DEF Mine, FreedBy, nm, vars
<1> QED  BY <1>11, <1>12, <1>13, <1>14 DEF o

\* The clearing takes an area and what it frees, and leaves the rest as owned
\* as it was.
LEMMA OwnCleared ==
    ASSUME NEW h, NEW ar, NEW q, NEW X, Own(h, ar, q, X, 0), ar # <<>>,
           NEW o, o = Head(ar).obj, NEW g, Without(g, h, FreedBy(h, o))
    PROVE  Own(g, Tail(ar), q, X, 0)
<1> DEFINE F == FreedBy(h, o)
<1> DEFINE Y == X \cup {o}
<1> DEFINE br == Tail(ar)
<1>1. /\ h \in Heaps /\ ar \in AreaSeqs /\ q \in Stacks /\ Kept(h, q) /\ NamedOnce(h, q) /\ ListedOnce(h)
      /\ AreasHold(h, ar) /\ AllOwned(h, ar, q, X) /\ Handed(h, q)
  BY DEF Own, Handed
<1>2. /\ br \in AreaSeqs /\ Len(ar) \in Nat /\ Len(ar) > 0 /\ DOMAIN ar = 1..Len(ar)
      /\ Len(br) = Len(ar) - 1 /\ DOMAIN br = 1..(Len(ar) - 1)
      /\ \A i \in 1..(Len(ar) - 1) : br[i] = ar[i + 1]
      /\ o = ar[1].obj
  BY <1>1, HeadTailProperties, LenProperties, EmptySeq DEF AreaSeqs
<1>3. \A i \in DOMAIN br : i + 1 \in DOMAIN ar /\ br[i] = ar[i + 1] /\ i + 1 # 1 /\ i \in Nat
  BY <1>2
<1>4. 1 \in DOMAIN ar /\ \A i \in DOMAIN ar : i = 1 \/ (i - 1 \in DOMAIN br /\ br[i - 1] = ar[i])
  <2>1. 1 \in DOMAIN ar
    BY <1>2
  <2>2. ASSUME NEW i \in DOMAIN ar, i # 1 PROVE i - 1 \in DOMAIN br /\ br[i - 1] = ar[i]
    <3>1. i - 1 \in 1..(Len(ar) - 1) /\ i - 1 + 1 = i
      BY <1>2, <2>2
    <3> QED  BY <1>2, <3>1
  <2> QED  BY <2>1, <2>2
<1>5. o \in LiveIn(h) /\ h[o].kind \in NodeKinds /\ o # NULL
  BY <1>1, <1>2, <1>4, NullApart DEF AreasHold, LiveIn
<1> HIDE DEF br, Y
<1>6. AreasHold(h, br)
  <2>1. \A i, j \in DOMAIN br : br[i].obj = br[j].obj => i = j
    <3> SUFFICES ASSUME NEW i \in DOMAIN br, NEW j \in DOMAIN br, br[i].obj = br[j].obj PROVE i = j
      OBVIOUS
    <3>1. i + 1 = j + 1
      BY <1>1, <1>3 DEF AreasHold
    <3> QED  BY <1>3, <3>1
  <2> QED  BY <1>1, <1>3, <2>1 DEF AreasHold
<1>7. \A i \in DOMAIN br : br[i].obj # o
  BY <1>1, <1>2, <1>3, <1>4 DEF AreasHold
<1>8. AllOwned(h, br, q, Y)
  <2> SUFFICES ASSUME NEW a \in LiveIn(h) \ Y PROVE HasOwner(h, br, q, a)
    BY DEF AllOwned
  <2>1. HasOwner(h, ar, q, a) /\ a # o
    BY <1>1 DEF AllOwned, Y
  <2> QED  BY <1>2, <1>4, <2>1 DEF HasOwner
<1>9. Own(h, br, q, Y, 0)
  BY <1>1, <1>2, <1>6, <1>8 DEF Own
<1>10. /\ \A i \in DOMAIN h[o].vars : h[o].vars[i] \in LiveIn(h) /\ h[h[o].vars[i]].kind = "variable"
       /\ \A c \in LiveIn(h) : h[c].name # NULL => h[h[c].name].kind \in {"name", "string"} /\ h[c].name \in LiveIn(h)
  BY <1>1, <1>5 DEF Kept
<1>11. /\ NULL \notin F /\ o \in F
       /\ \A a \in F : \/ a = o \/ a = h[o].name
                       \/ \E i \in DOMAIN h[o].vars : a = h[o].vars[i] \/ a = h[h[o].vars[i]].name
       /\ \A i \in DOMAIN h[o].vars : h[o].vars[i] \in F
       /\ h[o].name # NULL => h[o].name \in F
       /\ \A i \in DOMAIN h[o].vars : h[h[o].vars[i]].name # NULL => h[h[o].vars[i]].name \in F
  BY <1>5, <1>10, NullApart DEF FreedBy, LiveIn
<1> HIDE DEF F
<1>12. \A a \in F : h[a].kind \in {"name", "string", "variable"} \/ a = o
  BY <1>10, <1>11, <1>5
<1>13. ASSUME NEW c \in LiveIn(h) \ F
       PROVE  h[c].name \notin F /\ \A i \in DOMAIN h[c].vars : h[c].vars[i] \notin F
  <2>1. h[c].name \notin F
    <3> SUFFICES ASSUME h[c].name \in F PROVE FALSE
      OBVIOUS
    <3>1. h[c].name # NULL /\ h[h[c].name].kind \in {"name", "string"} /\ h[c].name # o
      BY <1>5, <1>10, <1>11 DEF NodeKinds
    <3>2. h[c].name = h[o].name \/ \E i \in DOMAIN h[o].vars : h[c].name = h[h[o].vars[i]].name
      BY <1>10, <1>11, <3>1
    <3>3. c = o \/ \E i \in DOMAIN h[o].vars : c = h[o].vars[i]
      BY <1>1, <1>5, <1>10, <3>1, <3>2 DEF NamedOnce
    <3> QED  BY <1>11, <1>13, <3>3
  <2>2. ASSUME NEW i \in DOMAIN h[c].vars, h[c].vars[i] \in F PROVE FALSE
    <3>1. h[h[c].vars[i]].kind = "variable"
      BY <1>1 DEF Kept
    <3>2. \E j \in DOMAIN h[o].vars : h[c].vars[i] = h[o].vars[j]
      BY <1>5, <1>10, <1>11, <2>2, <3>1 DEF NodeKinds
    <3> QED  BY <1>1, <1>5, <1>11, <1>13, <3>2 DEF ListedOnce
  <2> QED  BY <2>1, <2>2
<1>14. ASSUME NEW i \in DOMAIN q, q[i].sym \in Owning, q[i].at \in F PROVE FALSE
  <2>1. q[i].at # NULL /\ h[q[i].at].kind = KindOf(q[i].sym)
    BY <1>1, <1>11, <1>14 DEF Kept
  <2>2. q[i].at # o /\ h[q[i].at].kind # "variable"
    BY <1>5, <2>1 DEF KindOf, NodeKinds
  <2>3. \E c \in LiveIn(h) : q[i].at = h[c].name
    BY <1>5, <1>10, <1>11, <1>14, <2>2
  <2> QED  BY <1>1, <1>14, <2>1, <2>3 DEF NamedOnce
<1>15. \A i \in DOMAIN br : br[i].obj \notin F
  BY <1>6, <1>7, <1>12 DEF AreasHold, NodeKinds
<1>16. Y \subseteq X \cup F
  BY <1>11 DEF Y
<1>17. ASSUME NEW c \in LiveIn(h) \cap F
       PROVE  /\ h[c].name \in X \cup F \cup {NULL}
              /\ \A i \in DOMAIN h[c].vars : h[c].vars[i] \in X \cup F
  <2>1. CASE c = o
    BY <1>11, <2>1
  <2>2. CASE c # o
    <3>1. \A i : i \notin DOMAIN h[c].vars
      BY <1>1, <1>12, <2>2 DEF Kept, Listers
    <3>2. h[c].name # NULL => h[c].kind = "variable"
      BY <1>1, <1>12, <2>2 DEF Kept, Namers
    <3>3. h[c].name # NULL => \E i \in DOMAIN h[o].vars : c = h[o].vars[i]
      BY <1>10, <1>11, <1>5, <2>2, <3>2
    <3> QED  BY <1>11, <3>1, <3>3
  <2> QED  BY <2>1, <2>2
<1>18. Without(g, h, F)
  BY DEF F
<1> DEFINE u == 0
<1>19. u = 0 /\ Own(h, br, q, Y, u)
  BY <1>9
<1> HIDE DEF u
<1>20. Own(g, br, q, X, u)
  BY <1>13, <1>14, <1>15, <1>16, <1>17, <1>18, <1>19, OwnFree
<1> QED  BY <1>19, <1>20 DEF br

\* One area is cleared.
LEMMA KeepsFreeArea == ASSUME IInv, FreeArea PROVE IInv'
<1> DEFINE area == Head(areas)
<1> DEFINE frees == Append(Cleared(area), area.obj)
<1> DEFINE free == StillThere(area) /\ NoneTwice(frees) /\ ToSet(frees) \subseteq Live \cup {NULL}
<1>1. /\ Ended /\ areas # <<>> /\ UNCHANGED <<func, scope, outer, undone, symbols, lost>>
      /\ free => /\ heap' = [a \in Addresses |-> IF a \in ToSet(frees) THEN Unused ELSE heap[a]]
                 /\ areas' = Tail(areas) /\ memStatus' = memStatus
      /\ ~free => memStatus' = "doubleFree" /\ UNCHANGED <<heap, areas>>
  BY Zenon DEF FreeArea, Context
<1>2. /\ heap \in Heaps /\ areas \in AreaSeqs /\ symbols \in Stacks /\ Typed(func, scope, outer, undone)
      /\ MemTypeOK
  BY DEF IInv, MemTypeOK, Heaps, AreaSeqs, AreaSet, Stacks, SymSet, Typed
<1> HIDE DEF free, frees, area
<1>3. Tail(areas) \in AreaSeqs
  BY <1>1, <1>2, HeadTailProperties DEF AreaSeqs
<1>4. memStatus \in {"accepted", "aborted"} /\ memStatus' \in {"accepted", "aborted", "doubleFree"}
  BY <1>1 DEF Ended
<1>5. heap' \in Heaps /\ areas' \in AreaSeqs
  <2>1. CASE free
    BY <1>1, <1>2, <1>3, <2>1 DEF Heaps
  <2>2. CASE ~free
    BY <1>1, <1>2, <2>2
  <2> QED  BY <2>1, <2>2
<1>6. MemTypeOK'
  BY <1>1, <1>2, <1>4, <1>5 DEF MemTypeOK, Heaps, AreaSeqs, AreaSet, Stacks, SymSet, Typed
<1>7. ~Parsing'
  BY <1>4 DEF Parsing
<1>8. ASSUME undone = 0 PROVE Handed(heap', symbols') /\ OwnerInv'
  <2> DEFINE o == area.obj
  <2>1. Handed(heap, symbols) /\ AreasHold(heap, areas)
    BY <1>8 DEF IInv, OwnerInv
  <2>2. /\ o \in LiveIn(heap) /\ heap[o].kind \in NodeKinds /\ area.clear = ClearOf(heap[o].kind)
        /\ o = Head(areas).obj
    <3>1. area = areas[1] /\ 1 \in DOMAIN areas
      BY <1>1, <1>2, HeadTailProperties, LenProperties, EmptySeq DEF AreaSeqs, area
    <3> QED  BY <2>1, <3>1 DEF AreasHold, area
  <2>3. /\ NoneTwice(frees) /\ ToSet(frees) \subseteq Pointers
        /\ \A x : x # NULL => (x \in ToSet(frees) <=> x \in FreedBy(heap, o))
    BY <1>2, <2>1, <2>2, ClearedFrees DEF frees
  <2>4. Live = LiveIn(heap) /\ FreedBy(heap, o) \subseteq LiveIn(heap)
    BY DEF Live, LiveIn, FreedBy
  <2>5. StillThere(area)
    BY <2>2, <2>4 DEF StillThere, ClearOf
  <2>6. free
    BY <2>3, <2>4, <2>5 DEF free
  <2>7. heap' = [a \in Addresses |-> IF a \in ToSet(frees) THEN Unused ELSE heap[a]]
    BY <1>1, <2>6
  <2>8. Without(heap', heap, FreedBy(heap, o))
    <3>1. \A a \in Addresses : a \in ToSet(frees) <=> a \in FreedBy(heap, o)
      BY <2>3, NullApart
    <3> HIDE DEF o
    <3> QED  BY <1>5, <2>7, <3>1 DEF Without
  <2> HIDE DEF o
  <2>9. /\ Own(heap, areas, symbols, lost, 0) /\ LostHold(heap, symbols, lost)
        /\ memStatus = "accepted" => (\A a, b \in lost : a = b) /\ \A a \in lost : heap[a].kind = "string"
    BY <1>2, <1>8, <2>1 DEF IInv, OwnerInv, Own
  <2>10. Own(heap', Tail(areas), symbols, lost, 0)
    BY <1>1, <2>2, <2>8, <2>9, OwnCleared
  <2>11. areas' = Tail(areas) /\ memStatus' = memStatus /\ symbols' = symbols /\ lost' = lost
    BY <1>1, <2>6
  <2>12. Handed(heap', symbols') /\ AreasHold(heap', areas') /\ AllOwned(heap', areas', symbols', lost')
    BY <2>10, <2>11 DEF Own
  <2>13. memStatus' # "doubleFree" /\ memStatus' # "cleared" /\ memStatus' # "parsing"
    BY <1>4, <2>11
  <2>14. ASSUME NEW a \in lost
         PROVE  /\ a \in LiveIn(heap') /\ heap'[a] = heap[a] /\ Unheld(heap', symbols, a)
    <3>1. a \in LiveIn(heap) /\ heap[a].kind \notin NodeKinds /\ Unheld(heap, symbols, a)
      BY <2>9 DEF LostHold
    <3>2. Kept(heap, symbols)
      BY <2>1 DEF Handed
    <3>3. a \notin FreedBy(heap, o)
      BY <2>2, <3>1, <3>2 DEF FreedBy, Unheld, Kept
    <3> QED  BY <2>8, <3>1, <3>3, HeapFree, FreeUnheld
  <2>15. LostHold(heap', symbols', lost')
    BY <2>9, <2>11, <2>14 DEF LostHold
  <2>16. memStatus' = "accepted" => (\A a, b \in lost' : a = b) /\ \A a \in lost' : heap'[a].kind = "string"
    BY <2>9, <2>11, <2>14
  <2> QED  BY <2>12, <2>13, <2>15, <2>16 DEF OwnerInv
<1> QED  BY <1>1, <1>6, <1>7, <1>8 DEF IInv

LEMMA KeepsAreasFreed == ASSUME IInv, AreasFreed PROVE IInv'
<1>1. /\ areas = <<>> /\ memStatus' = "cleared" /\ Ended
      /\ UNCHANGED <<heap, areas, symbols, func, scope, outer, undone, lost>>
  BY DEF AreasFreed, Context
<1>2. MemTypeOK'
  BY <1>1 DEF IInv, MemTypeOK
<1>3. ~Parsing'
  BY <1>1 DEF Parsing
<1>4. undone = 0 => /\ Handed(heap, symbols) /\ AreasHold(heap, areas)
                    /\ AllOwned(heap, areas, symbols, lost) /\ LostHold(heap, symbols, lost)
  BY DEF IInv, OwnerInv
<1>5. undone' = 0 => Handed(heap', symbols') /\ OwnerInv'
  BY <1>1, <1>4 DEF OwnerInv
<1> QED  BY <1>2, <1>3, <1>5 DEF IInv

LEMMA KeepsIdle == ASSUME IInv, UNCHANGED memVars PROVE IInv'
<1>1. UNCHANGED <<heap, areas, symbols, func, scope, outer, memStatus, lost, undone>>
  BY DEF memVars
<1>2. MemTypeOK' /\ (Parsing' <=> Parsing)
  BY <1>1 DEF IInv, MemTypeOK, Parsing
<1>3. Parsing => ParserInv' /\ lost' = {}
  BY <1>1 DEF IInv, ParserInv
<1>4. undone = 0 => OwnerInv'
  BY <1>1 DEF IInv, OwnerInv
<1>5. Parsing \/ undone = 0 => Handed(heap', symbols')
  BY <1>1 DEF IInv
<1> QED  BY <1>1, <1>2, <1>3, <1>4, <1>5 DEF IInv

(***************************************************************************)
(* The invariant, and what follows from it.                                *)
(***************************************************************************)

\* It holds before the parse.
LEMMA InitIInv == ASSUME MemInit PROVE IInv
<1>1. /\ heap = [a \in Addresses |-> Unused] /\ areas = <<>> /\ symbols = <<>>
      /\ func = NULL /\ scope = NULL /\ outer = <<>> /\ memStatus = "parsing" /\ undone = 0
      /\ lost = {}
  BY DEF MemInit
<1>2. MemTypeOK
  BY <1>1, BoundsAssumption, EmptySeq DEF MemTypeOK, Pointers
<1>3. LiveIn(heap) = {} /\ DOMAIN symbols = {} /\ DOMAIN areas = {} /\ DOMAIN outer = {}
  BY <1>1, EmptySeq DEF LiveIn
<1>4. Handed(heap, symbols)
  BY <1>3 DEF Handed, Kept, NamedOnce, ListedOnce, StackedOnce
<1>5. See(heap, symbols, func, scope, outer)
  BY <1>1, <1>3 DEF See, Reach, DerefOnce, Within
<1>6. BlocksOf(symbols) = {}
  BY <1>3 DEF BlocksOf
<1>7. Grammar(symbols) /\ Nesting(symbols, func, scope, outer)
  BY <1>1, <1>3, <1>6, FS_EmptySet, EmptySeq DEF Grammar, Nesting
<1>8. OwnerInv
  BY <1>1, <1>3 DEF OwnerInv, AreasHold, AllOwned, LostHold
<1> QED  BY <1>1, <1>2, <1>4, <1>5, <1>7, <1>8 DEF IInv, ParserInv

LEMMA KeepsParserStep == ASSUME IInv, ParserStep PROVE IInv'
<1>1. Parsing
  BY DEF ParserStep, Identifier, StringToken, Concatenate, LiteralString, LiteralNumber,
         VariableName, FunctionName, UnknownName, Dereference, UnaryOp, BinaryOp, AddressOf, OpenCall, Argument,
         Call, Statement, OpenBlock, CloseBlock, Declare, DeclareInit, DeclareVoid, OpenParams, Parameter,
         FunctionDeclaration, EndFunction, Accept, Error, NewNode, Proceed, GiveUp
<1>2. Sane
  BY <1>1, Before
<1>3. CASE \E sym \in {"name", "declarator", "ident"} : Identifier(sym)
  <2>1. PICK sym \in {"name", "declarator", "ident"} : Identifier(sym)
    BY <1>3
  <2> QED  BY <1>2, <2>1, KeepsIdentifier
<1>4. CASE StringToken  BY <1>2, <1>4, KeepsStringToken
<1>5. CASE Concatenate  BY <1>2, <1>5, KeepsConcatenate
<1>6. CASE LiteralString  BY <1>2, <1>6, KeepsLiteralString
<1>7. CASE LiteralNumber  BY <1>2, <1>7, KeepsLiteralNumber
<1>8. CASE VariableName  BY <1>2, <1>8, KeepsVariableName
<1>9. CASE FunctionName  BY <1>2, <1>9, KeepsFunctionName
<1>10. CASE UnknownName  BY <1>2, <1>10, KeepsUnknownName
<1>11. CASE Dereference  BY <1>2, <1>11, KeepsDereference
<1>12. CASE UnaryOp  BY <1>2, <1>12, KeepsUnaryOp
<1>13. CASE BinaryOp  BY <1>2, <1>13, KeepsBinaryOp
<1>14. CASE AddressOf  BY <1>2, <1>14, KeepsAddressOf
<1>15. CASE OpenCall  BY <1>2, <1>15, KeepsOpenCall
<1>16. CASE Argument  BY <1>2, <1>16, KeepsArgument
<1>17. CASE Call  BY <1>2, <1>17, KeepsCall
<1>18. CASE Statement  BY <1>2, <1>18, KeepsStatement
<1>19. CASE OpenBlock  BY <1>2, <1>19, KeepsOpenBlock
<1>20. CASE CloseBlock  BY <1>2, <1>20, KeepsCloseBlock
<1>21. CASE Declare  BY <1>2, <1>21, KeepsDeclare
<1>22. CASE DeclareInit  BY <1>2, <1>22, KeepsDeclareInit
<1>23. CASE DeclareVoid  BY <1>2, <1>23, KeepsDeclareVoid
<1>24. CASE OpenParams  BY <1>2, <1>24, KeepsOpenParams
<1>25. CASE Parameter  BY <1>2, <1>25, KeepsParameter
<1>26. CASE FunctionDeclaration  BY <1>2, <1>26, KeepsFunctionDeclaration
<1>27. CASE EndFunction  BY <1>2, <1>27, KeepsEndFunction
<1>28. CASE Accept  BY <1>2, <1>28, KeepsAccept
<1>29. CASE Error  BY <1>2, <1>29, KeepsError
<1> QED
  BY <1>3, <1>4, <1>5, <1>6, <1>7, <1>8, <1>9, <1>10, <1>11, <1>12, <1>13, <1>14, <1>15, <1>16, <1>17,
     <1>18, <1>19, <1>20, <1>21, <1>22, <1>23, <1>24, <1>25, <1>26, <1>27, <1>28, <1>29 DEF ParserStep

\* Every step keeps it.
LEMMA NextIInv == ASSUME IInv, [MemNext]_memVars PROVE IInv'
  BY KeepsParserStep, KeepsFreeArea, KeepsAreasFreed, KeepsIdle DEF MemNext, ClearStep

\* What the value stack and the parser's own pointers reach is allocated.
LEMMA IInvNodesLive == ASSUME IInv PROVE NodesLive
<1> SUFFICES ASSUME memStatus = "parsing" PROVE NodesLive
  BY DEF NodesLive
<1>1. See(heap, symbols, func, scope, outer) /\ Live = LiveIn(heap) /\ outer \in Seq(Pointers)
  BY DEF IInv, ParserInv, Parsing, Live, LiveIn, MemTypeOK
<1>2. \A i \in DOMAIN symbols : symbols[i].sym \in {"expr", "block", "func"} => symbols[i].at \in Live
  BY <1>1 DEF See, Reach
<1>3. \A a \in Live : heap[a].expr # NULL => heap[a].expr \in Live
  BY <1>1 DEF See, Reach
<1>4. \A p \in {func, scope} \cup ToSet(outer) : p # NULL => p \in Live
  BY <1>1 DEF See, Within, ToSet
<1> QED  BY <1>2, <1>3, <1>4 DEF NodesLive

\* At most one owner: the kind of memory says of which sort, and the parts of
\* Handed that it has no two of a sort.
LEMMA AllEqual ==
    ASSUME NEW S, \A x, y \in S : x = y
    PROVE  Cardinality(S) <= 1
<1>1. CASE S = {}
  BY <1>1, FS_EmptySet
<1>2. CASE S # {}
  <2>1. PICK x \in S : TRUE
    BY <1>2
  <2>2. S = {x}
    BY <2>1
  <2> QED  BY <2>2, FS_Singleton
<1> QED  BY <1>1, <1>2

\* The members of Owners.
LEMMA OwnerOf ==
    ASSUME MemTypeOK, NEW a \in Addresses, NEW x
    PROVE  x \in Owners(a) <=>
              \/ \E i \in DOMAIN areas : x = <<"area", i>> /\ areas[i].obj = a
              \/ \E c \in Live : x = <<"name", c>> /\ heap[c].name = a
              \/ \E c \in Live : \E i \in DOMAIN heap[c].vars : x = <<"list", c, i>> /\ heap[c].vars[i] = a
              \/ \E i \in DOMAIN symbols : x = <<"stack", i>> /\ symbols[i].sym \in Owning /\ symbols[i].at = a
<1>1. x \in {<<"area", i>> : i \in {j \in DOMAIN areas : areas[j].obj = a}}
         <=> \E i \in DOMAIN areas : x = <<"area", i>> /\ areas[i].obj = a
  OBVIOUS
<1>2. x \in {<<"name", c>> : c \in {d \in Live : heap[d].name = a}}
         <=> \E c \in Live : x = <<"name", c>> /\ heap[c].name = a
  OBVIOUS
<1>3. x \in UNION {{<<"list", c, i>> : i \in {j \in DOMAIN heap[c].vars : heap[c].vars[j] = a}} : c \in Live}
         <=> \E c \in Live : \E i \in DOMAIN heap[c].vars : x = <<"list", c, i>> /\ heap[c].vars[i] = a
  OBVIOUS
<1>4. \A i \in DOMAIN symbols : symbols[i] \in [sym: Symbols, at: Pointers]
  BY LenProperties, ElementOfSeq DEF MemTypeOK
<1>5. \A i \in DOMAIN symbols :
         symbols[i] \in [sym: Owning, at: {a}] <=> symbols[i].sym \in Owning /\ symbols[i].at = a
  BY <1>4
<1>6. x \in {<<"stack", i>> : i \in {j \in DOMAIN symbols : symbols[j] \in [sym: Owning, at: {a}]}}
         <=> \E i \in DOMAIN symbols : x = <<"stack", i>> /\ symbols[i].sym \in Owning /\ symbols[i].at = a
  BY <1>5
<1> QED  BY <1>1, <1>2, <1>3, <1>6 DEF Owners

\* OwnedOnce counts owners; the invariant says that two are the same.
LEMMA IInvOwnedOnce == ASSUME IInv PROVE OwnedOnce
<1> SUFFICES ASSUME undone = 0 PROVE OwnedOnce
  BY DEF OwnedOnce
<1>1. /\ Kept(heap, symbols) /\ NamedOnce(heap, symbols) /\ ListedOnce(heap) /\ StackedOnce(symbols)
      /\ AreasHold(heap, areas) /\ Live = LiveIn(heap) /\ MemTypeOK
      /\ AllOwned(heap, areas, symbols, lost) /\ LostHold(heap, symbols, lost)
  BY DEF IInv, OwnerInv, Handed, Live, LiveIn
<1>0. /\ Parsing => lost = {}
      /\ memStatus = "accepted" => Cardinality(lost) <= 1 /\ \A a \in lost : heap[a].kind = "string"
  BY AllEqual DEF IInv, OwnerInv
<1> SUFFICES ASSUME NEW a \in Addresses
             PROVE  /\ a \notin Live => Owners(a) = {} /\ a \notin lost
                    /\ a \in Live => Cardinality(Owners(a)) = IF a \in lost THEN 0 ELSE 1
  BY <1>0 DEF OwnedOnce
<1>2. a # NULL
  BY NullApart
<1> DEFINE ByArea(i) == i \in DOMAIN areas /\ areas[i].obj = a
<1> DEFINE ByName(c) == c \in Live /\ heap[c].name = a
<1> DEFINE ByList(c, i) == c \in Live /\ i \in DOMAIN heap[c].vars /\ heap[c].vars[i] = a
<1> DEFINE ByStack(i) == i \in DOMAIN symbols /\ symbols[i].sym \in Owning /\ symbols[i].at = a
<1>3. \A x : x \in Owners(a) <=>
         \/ \E i : x = <<"area", i>> /\ ByArea(i)
         \/ \E c : x = <<"name", c>> /\ ByName(c)
         \/ \E c, i : x = <<"list", c, i>> /\ ByList(c, i)
         \/ \E i : x = <<"stack", i>> /\ ByStack(i)
  BY <1>1, OwnerOf
<1>4. /\ \A i : ByArea(i) => a \in Live /\ heap[a].kind \in NodeKinds
      /\ \A i, j : ByArea(i) /\ ByArea(j) => i = j
  BY <1>1 DEF AreasHold
<1>5. /\ \A c : ByName(c) => a \in Live /\ heap[a].kind \in {"name", "string"}
      /\ \A c, d : ByName(c) /\ ByName(d) => c = d
      /\ \A c, i : ByName(c) => ~ByStack(i)
  BY <1>1, <1>2 DEF Kept, NamedOnce
<1>6. /\ \A c, i : ByList(c, i) => a \in Live /\ heap[a].kind = "variable"
      /\ \A c, i, d, j : ByList(c, i) /\ ByList(d, j) => c = d /\ i = j
  BY <1>1 DEF Kept, ListedOnce
<1>7. /\ \A i : ByStack(i) => a \in Live /\ heap[a].kind \in {"name", "string", "list"}
      /\ \A i, j : ByStack(i) /\ ByStack(j) => i = j
  BY <1>1, <1>2 DEF Kept, KindOf, StackedOnce
<1>8. ASSUME a \in Live, a \notin lost PROVE Owners(a) # {}
  <2>1. HasOwner(heap, areas, symbols, a)
    BY <1>1, <1>8 DEF AllOwned
  <2>2. \/ \E i : ByArea(i) \/ ByStack(i)
        \/ \E c : ByName(c)
        \/ \E c, i : ByList(c, i)
    BY <1>1, <2>1 DEF HasOwner
  <2> HIDE DEF ByArea, ByName, ByList, ByStack
  <2> QED  BY <1>3, <2>2
<1>12. ASSUME a \in lost PROVE Owners(a) = {} /\ a \in Live
  <2>1. a \in Live /\ heap[a].kind \notin NodeKinds /\ Unheld(heap, symbols, a)
    BY <1>1, <1>12 DEF LostHold
  <2>2. /\ \A i : ~ByArea(i) /\ ~ByStack(i)
        /\ \A c : ~ByName(c)
        /\ \A c, i : ~ByList(c, i)
    BY <1>1, <1>4, <2>1 DEF Unheld
  <2> HIDE DEF ByArea, ByName, ByList, ByStack
  <2> QED  BY <1>3, <2>1, <2>2
<1> HIDE DEF ByArea, ByName, ByList, ByStack
<1>9. a \notin Live => Owners(a) = {}
  BY <1>3, <1>4, <1>5, <1>6, <1>7
<1>10. ASSUME NEW x \in Owners(a), NEW y \in Owners(a) PROVE x = y
  <2>1. CASE \E i : x = <<"area", i>> /\ ByArea(i)
    BY <1>3, <1>4, <1>5, <1>6, <1>7, <2>1 DEF NodeKinds
  <2>2. CASE \E c : x = <<"name", c>> /\ ByName(c)
    BY <1>3, <1>4, <1>5, <1>6, <1>7, <2>2 DEF NodeKinds
  <2>3. CASE \E c, i : x = <<"list", c, i>> /\ ByList(c, i)
    BY <1>3, <1>4, <1>5, <1>6, <1>7, <2>3 DEF NodeKinds
  <2>4. CASE \E i : x = <<"stack", i>> /\ ByStack(i)
    BY <1>3, <1>4, <1>5, <1>6, <1>7, <2>4 DEF NodeKinds
  <2> QED  BY <1>3, <2>1, <2>2, <2>3, <2>4
<1>11. ASSUME a \in Live, a \notin lost PROVE Cardinality(Owners(a)) = 1
  <2>1. PICK x \in Owners(a) : TRUE
    BY <1>8, <1>11
  <2>2. Owners(a) = {x}
    BY <1>10, <2>1
  <2> QED  BY <2>2, FS_Singleton
<1>13. a \in lost => Cardinality(Owners(a)) = 0 /\ a \in Live
  BY <1>12, FS_EmptySet
<1> QED  BY <1>9, <1>11, <1>13

\* With no area nothing owns a node, so a list is in hand; a variable is in
\* hand or on such a list, and a name is in hand or one of theirs.
LEMMA IInvFreedOnce == ASSUME IInv PROVE FreedOnce
<1> SUFFICES ASSUME undone = 0 PROVE FreedOnce
  BY DEF FreedOnce
<1>1. memStatus # "doubleFree"
  BY DEF IInv, OwnerInv
<1>2. ASSUME memStatus = "cleared", NEW a \in Live PROVE a \in LeftOver
  <2> DEFINE Named(x) == \E c \in Live : heap[c].name = x
  <2> DEFINE Listed1(x) == \E c \in Live : \E i \in DOMAIN heap[c].vars : heap[c].vars[i] = x
  <2>1. /\ Kept(heap, symbols) /\ AllOwned(heap, areas, symbols, lost) /\ LostHold(heap, symbols, lost)
        /\ areas = <<>> /\ Live = LiveIn(heap) /\ heap \in Heaps /\ symbols \in Stacks
    BY <1>2 DEF IInv, OwnerInv, Handed, Live, LiveIn, MemTypeOK, Heaps, Stacks, SymSet
  <2>2. \A x \in Live : x # NULL
    BY NullApart DEF Live
  <2>3. \A x : x \in InHand <=> x \in lost \/ \E i \in DOMAIN symbols : symbols[i].sym \in Owning /\ symbols[i].at = x
    BY DEF InHand
  <2>4. \A x \in Live : x \in InHand \/ Named(x) \/ Listed1(x)
    <3> SUFFICES ASSUME NEW x \in Live, x \notin InHand PROVE Named(x) \/ Listed1(x)
      OBVIOUS
    <3>1. HasOwner(heap, areas, symbols, x)
      BY <2>1, <2>3 DEF AllOwned
    <3>2. DOMAIN areas = {}
      BY <2>1, EmptySeq
    <3> QED  BY <2>1, <2>3, <3>1, <3>2 DEF HasOwner
  <2>5. \A x \in Live : /\ Named(x) => heap[x].kind \in {"name", "string"}
                        /\ Listed1(x) => heap[x].kind = "variable"
    BY <2>1, <2>2 DEF Kept
  <2>6. \A x \in InHand \cap Live : heap[x].kind \notin NodeKinds
    BY <2>1, <2>2, <2>3 DEF LostHold, Kept, KindOf, NodeKinds
  <2>7. \A x \in Live : heap[x].kind \notin NodeKinds
    BY <2>4, <2>5, <2>6 DEF NodeKinds
  <2>8. \A x \in Live : heap[x].kind = "list" => x \in InHand
    BY <2>4, <2>5
  <2>9. ASSUME NEW S, NEW c \in Live \cap S
        PROVE  heap[c].name \in HangsOn(S) /\ \A i \in DOMAIN heap[c].vars : heap[c].vars[i] \in HangsOn(S)
    <3>1. \A i \in DOMAIN heap[c].vars : heap[c].vars[i] \in ToSet(heap[c].vars)
      BY DEF ToSet
    <3> QED  BY <3>1 DEF HangsOn
  <2>10. \A x \in Live : heap[x].kind = "variable" => x \in InHand \cup HangsOn(InHand)
    <3> SUFFICES ASSUME NEW x \in Live, heap[x].kind = "variable", x \notin InHand PROVE x \in HangsOn(InHand)
      OBVIOUS
    <3>1. Listed1(x)
      BY <2>4, <2>5
    <3>2. PICK c \in Live : \E i \in DOMAIN heap[c].vars : heap[c].vars[i] = x
      BY <3>1
    <3>3. heap[c].kind = "list"
      BY <2>1, <2>7, <3>2 DEF Kept, Listers, NodeKinds
    <3> QED  BY <2>8, <2>9, <3>2, <3>3
  <2>11. ASSUME a \notin InHand, a \notin HangsOn(InHand) PROVE a \in HangsOn(HangsOn(InHand))
    <3>1. CASE Named(a)
      <4>1. PICK c \in Live : heap[c].name = a
        BY <3>1
      <4>2. heap[c].kind = "variable"
        BY <2>1, <2>2, <2>7, <4>1 DEF Kept, Namers, NodeKinds
      <4>3. c \in HangsOn(InHand)
        BY <2>9, <2>10, <2>11, <4>1, <4>2
      <4> QED  BY <2>9, <4>1, <4>3
    <3>2. CASE Listed1(a)
      BY <2>5, <2>10, <2>11, <3>2
    <3> QED  BY <2>4, <2>11, <3>1, <3>2
  <2> QED  BY <2>11 DEF LeftOver
<1> QED  BY <1>1, <1>2 DEF FreedOnce

(***************************************************************************)
(* The theorems.                                                           *)
(***************************************************************************)
\* The parse and the clearing keep the inductive invariant.
THEOREM MemInductive == MemSpec => []IInv
  BY InitIInv, NextIInv, PTL DEF MemSpec

\* What the heap, the areas and the value stack hold is of its type in every
\* state of a parse and of bcc_ast_clear.
THEOREM MemTypes == MemSpec => []MemTypeOK
<1>1. IInv => MemTypeOK
  BY DEF IInv
<1> QED  BY <1>1, MemInductive, PTL

\* Whatever the rules of parser.y do, the symbols on the value stack, the
\* operands of a *, current_func, current_scope and the outer blocks are
\* allocated nodes: no rule reads through what AddressOf freed.
THEOREM NoDanglingNode == MemSpec => []NodesLive
  BY MemInductive, IInvNodesLive, PTL

\* Everything malloc'd by the scanner, a rule or bcc_ast_entry_alloc has one
\* owner from the token to the end of bcc_ast_clear, and what is freed has
\* none, as long as no & undid a *.  Only what was in hand when the parse ended
\* has none: nothing of a parse that goes on, and of an accepted one at most the
\* buffer of a string that is open at the end of the text.
THEOREM OneOwner == MemSpec => []OwnedOnce
  BY MemInductive, IInvOwnedOnce, PTL

\* bcc_ast_clear frees nothing twice and reads nothing that is freed, and what
\* it leaves is only what was in hand when the parse ended and what hangs on it:
\* the lookahead's memory, a rule's variable, the value stack's tokens and lists.
THEOREM NothingFreedTwice == MemSpec => []FreedOnce
  BY MemInductive, IInvFreedOnce, PTL
=============================================================================
