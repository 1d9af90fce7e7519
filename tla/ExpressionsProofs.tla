------------------------- MODULE ExpressionsProofs -------------------------
(***************************************************************************)
(* What the expression rules guarantee of every node they make, for any    *)
(* variables, functions and casts and expressions of any size: operands as *)
(* wide as the generator takes them to be, arguments converted to their    *)
(* parameters, and no const object reached by a pointer that may write but *)
(* through a cast of the source or a pointer to void.                      *)
(***************************************************************************)
EXTENDS Expressions, SequenceTheorems, WellFoundedInduction, TLAPS

(***************************************************************************)
(* Types.                                                                  *)
(***************************************************************************)
\* A type that is set has an outermost layer.
LEMMA Outermost ==
    ASSUME NEW type \in Type, type # NullType
    PROVE  /\ Len(type) \in Nat /\ 1 \in 1 .. Len(type) /\ type[1] \in Layer
           /\ Inner(type) \in Type
<1>1. Len(type) \in Nat /\ Len(type) # 0
  BY EmptySeq, LenProperties DEF Type, NullType
<1>2. 1 \in 1 .. Len(type)
  BY <1>1
<1>3. type[1] \in Layer
  BY <1>2, ElementOfSeq DEF Type
<1>4. Inner(type) \in Type
  BY HeadTailProperties DEF Inner, Type, NullType
<1> QED  BY <1>1, <1>2, <1>3, <1>4

LEMMA OneLayer ==
    ASSUME NEW layer \in Layer
    PROVE  <<layer>> \in Type /\ <<layer>> # NullType /\ <<layer>>[1] = layer
  BY DEF Type, NullType

LEMMA PrimType ==
    ASSUME NEW p \in Prims
    PROVE  /\ Prim(p) \in Type /\ Prim(p) # NullType
           /\ Prim(p)[1].t = "prim" /\ Prim(p)[1].prim = p
<1> DEFINE layer == [t |-> "prim", prim |-> p, const |-> FALSE, unsigned |-> FALSE, zero |-> FALSE]
<1>1. layer \in Layer /\ layer.t = "prim" /\ layer.prim = p
  BY DEF Layer
<1>2. Prim(p) = <<layer>>
  BY DEF Prim
<1> HIDE DEF layer
<1> QED  BY <1>1, <1>2, OneLayer

LEMMA ZeroType == IntZero \in Type /\ IntZero # NullType
<1> DEFINE layer == [Prim("int")[1] EXCEPT !.zero = TRUE]
<1>1. layer \in Layer
  BY DEF Layer, Prim, Prims
<1>2. IntZero = <<layer>>
  BY DEF IntZero
<1> HIDE DEF layer
<1> QED  BY <1>1, <1>2, OneLayer

\* A layer around a type.
LEMMA Around ==
    ASSUME NEW layer \in Layer, NEW type \in Type
    PROVE  /\ <<layer>> \o type \in Type /\ <<layer>> \o type # NullType
           /\ (<<layer>> \o type)[1] = layer
<1> DEFINE one == <<layer>>
<1>1. one \in Seq(Layer) /\ type \in Seq(Layer) /\ Len(one) = 1 /\ one[1] = layer
  BY DEF Type
<1> HIDE DEF one
<1>2. /\ one \o type \in Seq(Layer) /\ Len(one \o type) = Len(one) + Len(type)
      /\ \A i \in 1 .. Len(one) + Len(type) :
            (one \o type)[i] = IF i <= Len(one) THEN one[i] ELSE type[i - Len(one)]
  BY <1>1, ConcatProperties
<1>3. Len(type) \in Nat
  BY <1>1, LenProperties
<1>4. (one \o type)[1] = layer /\ Len(one \o type) # 0
  BY <1>1, <1>2, <1>3
<1>5. one \o type # <<>>
  BY <1>4, EmptySeq
<1> QED  BY <1>2, <1>4, <1>5 DEF one, Type, NullType

LEMMA WrappedType ==
    ASSUME NEW type \in Type
    PROVE  /\ PointerTo(type) \in Type /\ PointerTo(type) # NullType /\ PointerTo(type)[1].t = "pointer"
           /\ FunctionTo(type) \in Type /\ FunctionTo(type) # NullType
<1> DEFINE layer(t) == [t |-> t, prim |-> "void", const |-> FALSE, unsigned |-> FALSE, zero |-> FALSE]
<1>1. layer("pointer") \in Layer /\ layer("function") \in Layer /\ layer("pointer").t = "pointer"
  BY DEF Layer, Prims
<1>2. PointerTo(type) = <<layer("pointer")>> \o type /\ FunctionTo(type) = <<layer("function")>> \o type
  BY DEF PointerTo, FunctionTo, Wrapper
<1> HIDE DEF layer
<1> QED  BY <1>1, <1>2, Around

LEMMA CharPtrType == CharPtr \in Type /\ CharPtr # NullType
  BY PrimType, WrappedType DEF CharPtr, Prims

LEMMA SizeType ==
    ASSUME NEW type \in Type, type # NullType
    PROVE  /\ Size(type) \in Nat
           /\ IsPointer(type) => Size(type) = 4
           /\ IsPrimitive(type) => Size(type) = PrimSize[type[1].prim]
  BY Outermost DEF Size, IsPointer, IsPrimitive, Layer, PrimSize, PointerSize, Prims

LEMMA LvalueReflexive ==
    ASSUME NEW type \in Type
    PROVE  LvalueIdentical(type, type)
  BY DEF LvalueIdentical, SameLayer, ConstAllowed

(***************************************************************************)
(* Const.                                                                  *)
(***************************************************************************)
LEMMA LeastOf ==
    ASSUME NEW S \in SUBSET Nat, S # {}
    PROVE  \E x \in S : \A y \in S : x <= y
<1> DEFINE R == {ss \in Nat \X Nat : ss[1] < ss[2]}
<1>1. \A x, y \in Nat : x < y => <<x, y>> \in R
  OBVIOUS
<1>2. IsWellFoundedOn(R, Nat)
  BY NatLessThanWellFounded DEF OpToRel
<1> HIDE DEF R
<1>3. PICK x \in S : \A y \in S : ~(<<y, x>> \in R)
  BY <1>2, WFMin
<1>4. x \in Nat /\ \A y \in S : y \in Nat
  OBVIOUS
<1>5. ASSUME NEW y \in S PROVE x <= y
  <2>1. ~(y < x)
    BY <1>1, <1>3, <1>4, Zenon
  <2> QED  BY <1>4, <2>1
<1> QED  BY <1>3, <1>5

\* What Safe asks of layer k, given what f says of the layers behind it.
Behind(f, l, r, k) ==
    {to \in Sides :
        k = Len(l) \/
        LET at == [l |-> l[k + 1], r |-> r[k + 1]]
        IN  /\ to \in f[k + 1]
            /\ ~at[to].const => ~at[Other[to]].const /\ Other[to] \in f[k + 1]}
SafeAt(f, l, r) == f = [k \in 1 .. Len(l) |-> Behind(f, l, r, k)]

LEMMA SafeIs ==
    ASSUME NEW l, NEW r, Len(l) = Len(r), \E f : SafeAt(f, l, r),
           \A f : SafeAt(f, l, r) => "l" \in f[1]
    PROVE  Safe(l, r)
  BY Zenon DEF Safe, SafeAt, Behind

\* Behind the second layer both types agree, so every side is safe there.
LEMMA IdenticalIsSafe ==
    ASSUME NEW l \in Type, NEW r \in Type, l # NullType, LvalueIdentical(l, r)
    PROVE  Safe(l, r)
<1> DEFINE n == Len(l)
<1>1. n \in Nat /\ 1 \in 1 .. n /\ Len(r) = n /\ DOMAIN l = 1 .. n
  BY Outermost, LenProperties DEF LvalueIdentical, Type
<1>2. \A i \in 1 .. n : i > 2 => l[i].const = r[i].const
  BY <1>1 DEF LvalueIdentical, ConstAllowed
<1>3. 2 \in 1 .. n => l[2].const \/ l[2].const = r[2].const
  BY <1>1 DEF LvalueIdentical, ConstAllowed
<1>4. \A i \in 1 .. n : l[i].const \in BOOLEAN /\ r[i].const \in BOOLEAN
  <2>1. \A i \in 1 .. n : l[i] \in Layer /\ r[i] \in Layer
    BY <1>1, ElementOfSeq DEF Type
  <2> QED  BY <2>1 DEF Layer
<1> HIDE DEF n
\* If the layers behind k are safe, so is k, but for the first.
<1>5. ASSUME NEW f, NEW k \in 1 .. n, k # 1, k # n => f[k + 1] = Sides
      PROVE  Behind(f, l, r, k) = Sides
  <2>1. CASE k = n
    BY <2>1 DEF Behind, n
  <2>2. CASE k # n
    <3>1. k + 1 \in 1 .. n /\ k + 1 > 2
      BY <1>1, <1>5, <2>2
    <3>2. l[k + 1].const = r[k + 1].const
      BY <1>2, <3>1
    <3> DEFINE a == l[k + 1]
               b == r[k + 1]
    <3>3. a.const = b.const
      BY <3>2
    <3> HIDE DEF a, b
    <3>4. \A to \in Sides : /\ Other[to] \in Sides
                            /\ ~([l |-> a, r |-> b])[to].const => ~([l |-> a, r |-> b])[Other[to]].const
      BY <3>3 DEF Sides, Other
    <3>5. f[k + 1] = Sides
      BY <1>5, <2>2
    <3> QED  BY <3>4, <3>5, Zenon DEF Behind, a, b
  <2> QED  BY <2>1, <2>2
<1>6. ASSUME NEW f, n # 1 => f[2] = Sides
      PROVE  "l" \in Behind(f, l, r, 1)
  <2>1. CASE n = 1
    BY <2>1 DEF Behind, n, Sides
  <2>2. CASE n # 1
    <3> DEFINE a == l[2]
               b == r[2]
    <3>1. a.const \/ a.const = b.const
      BY <1>1, <1>3, <2>2
    <3> HIDE DEF a, b
    <3>2. /\ "l" \in Sides /\ Other["l"] \in Sides /\ Other["l"] = "r"
          /\ ([l |-> a, r |-> b])["l"] = a /\ ([l |-> a, r |-> b])["r"] = b
      BY DEF Sides, Other
    <3>3. ~([l |-> a, r |-> b])["l"].const => ~([l |-> a, r |-> b])[Other["l"]].const
      BY <3>1, <3>2
    <3>4. f[1 + 1] = Sides /\ 1 + 1 = 2
      BY <1>6, <2>2
    <3> QED  BY <3>2, <3>3, <3>4, Zenon DEF Behind, a, b
  <2> QED  BY <2>1, <2>2
<1>7. \E f : SafeAt(f, l, r)
  <2> DEFINE all == [k \in 1 .. n |-> Sides]
             f == [k \in 1 .. n |-> IF k = 1 THEN Behind(all, l, r, 1) ELSE Sides]
  <2>1. /\ n # 1 => all[2] = Sides /\ f[2] = Sides
        /\ \A k \in 1 .. n : k # n => k + 1 \in 1 .. n /\ k + 1 # 1
    BY <1>1
  <2>2. \A k \in 1 .. n : k # n => f[k + 1] = Sides
    BY <1>1, <2>1
  <2>3. Behind(all, l, r, 1) = Behind(f, l, r, 1)
    <3>1. CASE n = 1
      BY <3>1 DEF Behind, n
    <3>2. CASE n # 1
      <4>1. all[1 + 1] = f[1 + 1]
        BY <2>1, <3>2
      <4> HIDE DEF all, f
      <4> QED  BY <4>1, Zenon DEF Behind
    <3> QED  BY <3>1, <3>2
  <2>4. ASSUME NEW k \in 1 .. n
        PROVE  (IF k = 1 THEN Behind(all, l, r, 1) ELSE Sides) = Behind(f, l, r, k)
    <3>1. k # 1 => Behind(f, l, r, k) = Sides
      <4> HIDE DEF f
      <4> QED  BY <1>5, <2>2
    <3> HIDE DEF f, all
    <3> QED  BY <2>3, <3>1
  <2>5. f = [k \in 1 .. n |-> Behind(f, l, r, k)]
    BY Zenon, <2>4
  <2> HIDE DEF f
  <2>6. SafeAt(f, l, r)
    BY <2>5, Zenon DEF SafeAt, n
  <2> QED  BY <2>6, Zenon
<1>8. ASSUME NEW f, SafeAt(f, l, r)
      PROVE  "l" \in f[1]
  <2>1. \A k \in 1 .. n : f[k] = Behind(f, l, r, k)
    BY <1>8, Zenon DEF SafeAt, n
  <2> DEFINE S == {d \in 0 .. n - 2 : f[n - d] # Sides}
  <2>2. S = {}
    <3>1. SUFFICES ASSUME S # {} PROVE FALSE
      OBVIOUS
    <3>2. S \in SUBSET Nat /\ \A d : d \in S <=> d \in 0 .. n - 2 /\ f[n - d] # Sides
      BY <1>1
    <3> HIDE DEF S
    <3>3. PICK d \in S : \A e \in S : d <= e
      BY <3>1, <3>2, LeastOf
    <3> DEFINE k == n - d
    <3>4. /\ d \in 0 .. n - 2 /\ k \in 1 .. n /\ k # 1 /\ ~(d <= d - 1)
          /\ k # n => d - 1 \in 0 .. n - 2 /\ n - (d - 1) = k + 1
      BY <1>1, <3>2, <3>3
    <3>5. k # n => f[k + 1] = Sides
      <4>1. k # n => ~(d - 1 \in S)
        BY <3>3, <3>4
      <4>2. k # n => f[n - (d - 1)] = Sides
        BY <3>2, <3>4, <4>1
      <4> QED  BY <3>4, <4>2
    <3>6. f[k] # Sides
      BY <3>2, <3>3
    <3> HIDE DEF k
    <3>7. Behind(f, l, r, k) = Sides
      BY <1>5, <3>4, <3>5
    <3> QED  BY <2>1, <3>4, <3>6, <3>7
  <2>3. n # 1 => f[2] = Sides
    <3>1. n # 1 => n - 2 \in 0 .. n - 2 /\ n - (n - 2) = 2
      BY <1>1
    <3> QED  BY <2>2, <3>1
  <2>4. "l" \in Behind(f, l, r, 1)
    BY <1>6, <2>3
  <2> QED  BY <1>1, <2>1, <2>4
<1> QED  BY <1>1, <1>7, <1>8, SafeIs DEF n

(***************************************************************************)
(* Nodes.                                                                  *)
(***************************************************************************)
\* The properties, of one node.
Wide(e) ==
    LET l == Size(e.kids[1].type)
        r == Size(e.kids[2].type)
    IN  l # 0 /\ r # 0 => l = r /\ l >= PrimSize["int"]
Converted(e) ==
    LET params == Funcs[e.val].params
    IN  /\ Len(e.kids) >= Len(params)
        /\ \A i \in DOMAIN e.kids :
              IF i <= Len(params) THEN LvalueIdentical(params[i], e.kids[i].type)
              ELSE /\ Funcs[e.val].ellipsis
                   /\ IsInteger(e.kids[i].type) => Size(e.kids[i].type) = PrimSize["int"]
AssignsSafely(e) ==
    ~IsConst(e.type) /\ Kept(e.type, e.kids[2])
PassesSafely(e) ==
    \A i \in DOMAIN Funcs[e.val].params : Kept(Funcs[e.val].params[i], e.kids[i])

Good(e) ==
    /\ IsNode(e) /\ e.type \in Type
    /\ e.n = "func" => e.val \in DOMAIN Funcs
    /\ e.n = "unary" => 1 \in DOMAIN e.kids /\ ~Inserted(e.kids[1])
    /\ e.n = "binary" => Wide(e)
    /\ e.n = "call" => Converted(e) /\ PassesSafely(e)
    /\ e.n = "assign" => AssignsSafely(e)

\* Good nodes with all that is under them.
Sound(N) == \A e \in N : Good(e) /\ \A i \in DOMAIN e.kids : e.kids[i] \in N
\* e can be made out of N.
Grown(N, e) == \E M : N \subseteq M /\ Sound(M) /\ e \in M
\* The value stack holds no cast that the code inserts: each is made together
\* with the node around it.
Plain(N) == {e \in N : ~Inserted(e)}
OperandGrows(N, e) == Grown(N, e) /\ ~Inserted(e)

LEMMA NodeGrown ==
    ASSUME NEW N, Sound(N), NEW e, Good(e), \A i \in DOMAIN e.kids : e.kids[i] \in N
    PROVE  Grown(N, e)
<1> DEFINE M == N \cup {e}
<1>1. Sound(M)
  BY DEF Sound
<1>2. N \subseteq M /\ e \in M
  OBVIOUS
<1> HIDE DEF M
<1> QED  BY <1>1, <1>2, Zenon DEF Grown

LEMMA UnaryGrown ==
    ASSUME NEW N, Sound(N), NEW e \in N, ~Inserted(e), NEW op, NEW type \in Type
    PROVE  OperandGrows(N, Unary(op, type, e))
<1> DEFINE u == Unary(op, type, e)
<1>1. u.n = "unary" /\ u.type = type /\ u.kids = <<e>>
  BY DEF Unary, Node
<1> HIDE DEF u
<1>2. Good(u) /\ \A i \in DOMAIN u.kids : u.kids[i] \in N
  BY <1>1 DEF Good, IsNode
<1>3. ~Inserted(u)
  BY <1>1 DEF Inserted
<1> QED  BY <1>2, <1>3, NodeGrown DEF u, OperandGrows

LEMMA CastGrown ==
    ASSUME NEW N, Sound(N), NEW e \in N, NEW target \in Type
    PROVE  /\ Grown(N, CastTo(target, e)) /\ CastTo(target, e).type = target
           /\ CastTo(target, e).n = "cast"
<1> DEFINE c == CastTo(target, e)
<1>1. c.n = "cast" /\ c.type = target /\ c.kids = <<e>>
  BY DEF CastTo, Node
<1> HIDE DEF c
<1>2. Good(c) /\ \A i \in DOMAIN c.kids : c.kids[i] \in N
  BY <1>1 DEF Good, IsNode
<1>3. Grown(N, c)
  BY <1>2, NodeGrown
<1> QED  BY <1>1, <1>3 DEF c

\* The cast of an assignment, whose type is left null.
LEMMA BareCastGrown ==
    ASSUME NEW N, Sound(N), NEW e \in N, NEW target \in Type
    PROVE  /\ Grown(N, [CastTo(target, e) EXCEPT !.type = NullType])
           /\ SourceType([CastTo(target, e) EXCEPT !.type = NullType]) = e.type
<1> DEFINE c == [CastTo(target, e) EXCEPT !.type = NullType]
<1>1. c.n = "cast" /\ c.op # "source" /\ c.type = NullType /\ c.kids = <<e>>
  BY DEF CastTo, Node
<1>2. NullType \in Type
  BY EmptySeq DEF NullType, Type
<1> HIDE DEF c
<1>3. Good(c) /\ \A i \in DOMAIN c.kids : c.kids[i] \in N
  BY <1>1, <1>2 DEF Good, IsNode
<1>4. Grown(N, c)
  BY <1>3, NodeGrown
<1>5. SourceType(c) = e.type
  BY <1>1 DEF SourceType, Inserted
<1> QED  BY <1>4, <1>5 DEF c

LEMMA SourceCastGrown ==
    ASSUME NEW N, Sound(N), NEW e \in N, NEW target \in Type
    PROVE  OperandGrows(N, SourceCast(target, e))
<1> DEFINE c == SourceCast(target, e)
<1>1. c.n = "cast" /\ c.op = "source" /\ c.type = target /\ c.kids = <<e>>
  BY DEF SourceCast, Node
<1> HIDE DEF c
<1>2. Good(c) /\ \A i \in DOMAIN c.kids : c.kids[i] \in N
  BY <1>1 DEF Good, IsNode
<1>3. ~Inserted(c)
  BY <1>1 DEF Inserted
<1> QED  BY <1>2, <1>3, NodeGrown DEF c, OperandGrows

LEMMA BinaryGrown ==
    ASSUME NEW N, Sound(N), NEW a \in N, NEW b \in N, NEW op, NEW type \in Type, NEW size,
           LET l == Size(a.type)
               r == Size(b.type)
           IN  l # 0 /\ r # 0 => l = r /\ l >= 4
    PROVE  /\ OperandGrows(N, Node("binary", op, type, <<a, b>>, size, NullType))
           /\ Node("binary", op, type, <<a, b>>, size, NullType).type = type
<1> DEFINE e == Node("binary", op, type, <<a, b>>, size, NullType)
<1>1. e.n = "binary" /\ e.type = type /\ e.kids = <<a, b>>
  BY DEF Node
<1> HIDE DEF e
<1>2. Wide(e)
  BY <1>1 DEF Wide, PrimSize
<1>3. Good(e) /\ \A i \in DOMAIN e.kids : e.kids[i] \in N
  BY <1>1, <1>2 DEF Good, IsNode
<1>4. Grown(N, e) /\ ~Inserted(e)
  BY <1>1, <1>3, NodeGrown DEF Inserted
<1> QED  BY <1>1, <1>4 DEF e, OperandGrows

\* What an operand of a binary operator is converted to.
Promoted(e) == Conv(IntegerPromotion(e))
Operational(e) ==
    /\ e.type \in Type \ {NullType}
    /\ \/ IsPointer(e.type) /\ ~IsPrimitive(e.type)
       \/ IsPrimitive(e.type) /\ ~IsPointer(e.type) /\ e.type[1].prim \in {"int", "long", "void"}

LEMMA ConvGrown ==
    ASSUME NEW N, Sound(N), NEW e \in N, e.type # NullType, IsFunction(e.type) => ~Inserted(e)
    PROVE  /\ Grown(N, Conv(e)) /\ Conv(e).type \in Type \ {NullType}
           /\ ~IsFunction(Conv(e).type)
           /\ ~IsFunction(e.type) => Conv(e) = e
           /\ ~Inserted(e) => ~Inserted(Conv(e))
<1>1. e.type \in Type \ {NullType}
  BY DEF Sound, Good
<1>2. CASE IsFunction(e.type)
  <2> DEFINE p == PointerTo(e.type)
             u == Unary("addr", p, e)
  <2>1. p \in Type \ {NullType} /\ p[1].t = "pointer" /\ u.type = p /\ Conv(e) = u
    BY <1>1, <1>2, WrappedType DEF Conv, Unary, Node
  <2>2. OperandGrows(N, u)
    <3> HIDE DEF p
    <3> QED  BY <1>2, <2>1, UnaryGrown
  <2> QED  BY <1>2, <2>1, <2>2 DEF IsFunction, OperandGrows
<1>3. CASE ~IsFunction(e.type)
  BY <1>1, <1>3, Zenon DEF Conv, Grown
<1> QED  BY <1>2, <1>3

LEMMA PromotedGrown ==
    ASSUME NEW N, Sound(N), NEW e \in N, ~Inserted(e), e.type # NullType
    PROVE  Grown(N, Promoted(e)) /\ Operational(Promoted(e))
<1>1. e.type \in Type \ {NullType} /\ e.type[1] \in Layer
  BY Outermost DEF Sound, Good
<1> DEFINE i == IntegerPromotion(e)
<1>2. /\ Grown(N, i) /\ i.type \in Type \ {NullType}
      /\ IsPrimitive(i.type) => i.type[1].prim \in {"int", "long", "void"}
      /\ IsFunction(i.type) => ~Inserted(i)
  <2>1. CASE IsPrimitive(e.type) /\ e.type[1].prim \in {"char", "short"}
    <3>1. i = CastTo(Prim("int"), e)
      BY <2>1 DEF IntegerPromotion
    <3>2. /\ Prim("int") \in Type \ {NullType} /\ Prim("int")[1].prim = "int"
          /\ ~IsFunction(Prim("int"))
      BY PrimType DEF Prims, IsFunction
    <3> QED  BY <3>1, <3>2, CastGrown
  <2>2. CASE ~(IsPrimitive(e.type) /\ e.type[1].prim \in {"char", "short"})
    <3>1. i = e
      BY <2>2 DEF IntegerPromotion
    <3>2. Grown(N, e)
      BY Zenon DEF Grown
    <3> QED  BY <1>1, <2>2, <3>1, <3>2 DEF Layer, Prims
  <2> QED  BY <2>1, <2>2
<1> HIDE DEF i
<1>3. PICK M : N \subseteq M /\ Sound(M) /\ i \in M
  BY <1>2 DEF Grown
<1>4. Grown(M, Conv(i)) /\ Conv(i).type \in Type \ {NullType} /\ ~IsFunction(Conv(i).type)
  BY <1>2, <1>3, ConvGrown
<1>5. Grown(N, Conv(i))
  BY <1>3, <1>4 DEF Grown
<1>6. ~IsFunction(i.type) => Conv(i) = i
  BY <1>2, <1>3, ConvGrown
<1>7. IsPrimitive(Conv(i).type) => Conv(i).type[1].prim \in {"int", "long", "void"}
  <2>1. CASE IsFunction(i.type)
    <3>1. Conv(i).type = PointerTo(i.type)
      BY <2>1 DEF Conv, Unary, Node
    <3> QED  BY <1>2, <3>1, WrappedType DEF IsPrimitive
  <2>2. CASE ~IsFunction(i.type)
    BY <1>2, <1>6, <2>2
  <2> QED  BY <2>1, <2>2
<1>8. Conv(i).type[1] \in Layer
  BY <1>4, Outermost
<1>9. Operational(Conv(i))
  BY <1>4, <1>7, <1>8 DEF Operational, IsPointer, IsPrimitive, IsFunction, Layer
<1> QED  BY <1>5, <1>9 DEF Promoted, i

LEMMA OperationalSize ==
    ASSUME NEW e, Operational(e)
    PROVE  /\ Size(e.type) \in {0, 4}
           /\ IsPointer(e.type) \/ IsInteger(e.type) => Size(e.type) = 4
           /\ IsPointer(e.type) \/ IsPrimitive(e.type)
<1>1. Size(e.type) = IF IsPointer(e.type) THEN 4 ELSE PrimSize[e.type[1].prim]
  BY SizeType DEF Operational
<1> QED  BY <1>1 DEF Operational, IsInteger, PrimSize

PtrLeft(op, ptr, val) == BinPtrOp(op, ptr, val, TRUE)
PtrRight(op, ptr, val) == BinPtrOp(op, ptr, val, FALSE)

LEMMA BinPtrOpGrown ==
    ASSUME NEW N, Sound(N), NEW ptr \in N, NEW val \in N, NEW op,
           ptr.type \in Type \ {NullType}, Size(ptr.type) = 4, Size(val.type) = 4
    PROVE  /\ IsNode(PtrLeft(op, ptr, val)) =>
                 /\ OperandGrows(N, PtrLeft(op, ptr, val))
                 /\ PtrLeft(op, ptr, val).type = ptr.type
           /\ IsNode(PtrRight(op, ptr, val)) =>
                 /\ OperandGrows(N, PtrRight(op, ptr, val))
                 /\ PtrRight(op, ptr, val).type = ptr.type
<1> DEFINE size == Size(Inner(ptr.type))
           v == IF Size(val.type) < size THEN CastTo(Prim("long"), val) ELSE val
<1>1. /\ IsNode(PtrLeft(op, ptr, val)) =>
            PtrLeft(op, ptr, val) = Node("binary", op, ptr.type, <<ptr, v>>, size, NullType)
      /\ IsNode(PtrRight(op, ptr, val)) =>
            PtrRight(op, ptr, val) = Node("binary", op, ptr.type, <<v, ptr>>, size, NullType)
  <2>1. ~IsNode(Fault)
    BY DEF IsNode, Fault, Node
  <2> QED  BY <2>1 DEF BinPtrOp, PtrLeft, PtrRight
<1>2. Grown(N, v) /\ Size(v.type) = 4
  <2>1. CASE Size(val.type) < size
    <3>1. Prim("long") \in Type \ {NullType} /\ Prim("long")[1].t = "prim" /\ Prim("long")[1].prim = "long"
      BY PrimType DEF Prims
    <3>2. Size(Prim("long")) = 4
      BY <3>1 DEF Size, PrimSize
    <3>3. Grown(N, CastTo(Prim("long"), val)) /\ CastTo(Prim("long"), val).type = Prim("long")
      BY <3>1, CastGrown
    <3> QED  BY <2>1, <3>2, <3>3
  <2>2. CASE ~(Size(val.type) < size)
    BY <2>2, Zenon DEF Grown
  <2> QED  BY <2>1, <2>2
<1> HIDE DEF v, size
<1>3. PICK M : N \subseteq M /\ Sound(M) /\ v \in M
  BY <1>2 DEF Grown
<1>4. ptr \in M
  BY <1>3
<1>5. /\ OperandGrows(M, Node("binary", op, ptr.type, <<ptr, v>>, size, NullType))
      /\ Node("binary", op, ptr.type, <<ptr, v>>, size, NullType).type = ptr.type
  BY <1>2, <1>3, <1>4, BinaryGrown
<1>6. /\ OperandGrows(M, Node("binary", op, ptr.type, <<v, ptr>>, size, NullType))
      /\ Node("binary", op, ptr.type, <<v, ptr>>, size, NullType).type = ptr.type
  BY <1>2, <1>3, <1>4, BinaryGrown
<1>7. ASSUME NEW e, OperandGrows(M, e) PROVE OperandGrows(N, e)
  BY <1>3, <1>7 DEF Grown, OperandGrows
<1> QED  BY <1>1, <1>5, <1>6, <1>7

LEMMA PtrBinaryGrown ==
    ASSUME NEW N, Sound(N), NEW l \in N, NEW r \in N, NEW op, Operational(l), Operational(r),
           IsPointer(l.type) \/ IsPointer(r.type), IsNode(PtrBinary(op, l, r))
    PROVE  /\ OperandGrows(N, PtrBinary(op, l, r)) /\ PtrBinary(op, l, r).type \in Type \ {NullType}
<1>1. /\ l.type \in Type \ {NullType} /\ r.type \in Type \ {NullType}
      /\ IsPointer(l.type) => Size(l.type) = 4 /\ ~IsInteger(l.type)
      /\ IsPointer(r.type) => Size(r.type) = 4 /\ ~IsInteger(r.type)
      /\ IsInteger(l.type) => Size(l.type) = 4
      /\ IsInteger(r.type) => Size(r.type) = 4
      /\ Size(l.type) \in {0, 4} /\ Size(r.type) \in {0, 4}
  BY OperationalSize DEF Operational, IsInteger
<1>2. Prim("int") \in Type \ {NullType}
  BY PrimType DEF Prims
<1> DEFINE indexOp == IF op = "+" THEN "addIndex" ELSE "subIndex"
           whole == PtrBinary(op, l, r)
<1> HIDE DEF indexOp, whole
<1>3. CASE op \in {"+", "-"} /\ IsPointer(l.type) /\ IsInteger(r.type)
  <2>1. whole = PtrLeft(indexOp, l, r)
    BY <1>1, <1>3 DEF PtrBinary, PtrLeft, PtrRight, Comparisons, indexOp, whole
  <2>2. IsNode(PtrLeft(indexOp, l, r))
    BY <2>1 DEF whole
  <2>3. OperandGrows(N, PtrLeft(indexOp, l, r)) /\ PtrLeft(indexOp, l, r).type = l.type
    <3>1. /\ l \in N /\ r \in N /\ Sound(N) /\ l.type \in Type \ {NullType}
          /\ Size(l.type) = 4 /\ Size(r.type) = 4
      BY <1>1, <1>3
    <3> QED  BY <2>2, <3>1, BinPtrOpGrown
  <2> QED  BY <1>1, <2>1, <2>3 DEF whole
<1>4. CASE op \in {"+", "-"} /\ IsPointer(r.type) /\ IsInteger(l.type)
  <2>1. whole = PtrRight(indexOp, l, r)
    BY <1>1, <1>4 DEF PtrBinary, PtrLeft, PtrRight, Comparisons, indexOp, whole
  <2>2. IsNode(PtrRight(indexOp, l, r))
    BY <2>1 DEF whole
  <2>3. OperandGrows(N, PtrRight(indexOp, l, r)) /\ PtrRight(indexOp, l, r).type = l.type
    <3>1. /\ l \in N /\ r \in N /\ Sound(N) /\ l.type \in Type \ {NullType}
          /\ Size(l.type) = 4 /\ Size(r.type) = 4
      BY <1>1, <1>4
    <3> QED  BY <2>2, <3>1, BinPtrOpGrown
  <2> QED  BY <1>1, <2>1, <2>3 DEF whole
<1>5. CASE op = "-" /\ IsPointer(l.type) /\ IsPointer(r.type)
  <2>1. whole = Node("binary", "addrSub", Prim("int"), <<l, r>>, Size(r.type), NullType)
    BY <1>1, <1>5 DEF PtrBinary, Comparisons, whole
  <2> QED  BY <1>1, <1>2, <1>5, <2>1, BinaryGrown DEF whole
<1>6. CASE op \in Comparisons
  <2>1. op \notin {"+", "-"}
    BY <1>6 DEF Comparisons
  <2>2. whole = Node("binary", op, Prim("int"), <<l, r>>, 0, NullType)
    BY <1>6, <2>1 DEF PtrBinary, whole
  <2> QED  BY <1>1, <1>2, <2>2, BinaryGrown DEF whole
<1>7. CASE /\ ~(op \in {"+", "-"} /\ IsPointer(l.type) /\ IsInteger(r.type))
           /\ ~(op \in {"+", "-"} /\ IsPointer(r.type) /\ IsInteger(l.type))
           /\ ~(op = "-" /\ IsPointer(l.type) /\ IsPointer(r.type)) /\ op \notin Comparisons
  <2>1. whole = Failed
    BY <1>7, Zenon DEF PtrBinary, whole
  <2>2. ~IsNode(Failed)
    BY DEF IsNode, Failed, Node
  <2> QED  BY <2>1, <2>2 DEF whole
<1> QED  BY <1>3, <1>4, <1>5, <1>6, <1>7

LEMMA BinaryMade ==
    ASSUME NEW N, Sound(N), NEW left \in Plain(N), NEW right \in Plain(N), NEW op,
           IsNode(Binary(op, left, right))
    PROVE  OperandGrows(N, Binary(op, left, right)) /\ Binary(op, left, right).type \in Type \ {NullType}
<1> DEFINE l == Promoted(left)
           r == Promoted(right)
           whole == Binary(op, left, right)
<1>1. left.type # NullType /\ right.type # NullType
  BY DEF Binary, IsNode, Fault, Node
<1>2. whole = IF IsPointer(l.type) \/ IsPointer(r.type) THEN PtrBinary(op, l, r)
              ELSE Node("binary", op, Widened(l, r).type, <<Widened(l, r), Widened(r, l)>>, 0, NullType)
  BY <1>1 DEF Binary, Promoted
<1>3. Grown(N, l) /\ Operational(l)
  BY <1>1, PromotedGrown DEF Plain
<1>4. IsNode(whole)
  OBVIOUS
<1> HIDE DEF l, whole
<1>5. PICK L : N \subseteq L /\ Sound(L) /\ l \in L
  BY <1>3 DEF Grown
<1>6. Grown(L, r) /\ Operational(r)
  <2>1. right \in L /\ ~Inserted(right)
    BY <1>5 DEF Plain
  <2> QED  BY <1>1, <1>5, <2>1, PromotedGrown
<1> HIDE DEF r
<1>7. PICK M : L \subseteq M /\ Sound(M) /\ r \in M
  BY <1>6 DEF Grown
<1>8. N \subseteq M /\ l \in M
  BY <1>5, <1>7
<1>9. OperandGrows(M, whole) /\ whole.type \in Type \ {NullType}
  <2>1. CASE IsPointer(l.type) \/ IsPointer(r.type)
    BY <1>2, <1>3, <1>4, <1>6, <1>7, <1>8, <2>1, PtrBinaryGrown
  <2>2. CASE ~(IsPointer(l.type) \/ IsPointer(r.type))
    <3>1. /\ Size(l.type) \in {0, 4} /\ Size(r.type) \in {0, 4}
          /\ IsInteger(l.type) => Size(l.type) = 4
          /\ IsInteger(r.type) => Size(r.type) = 4
          /\ l.type \in Type \ {NullType}
      BY <1>3, <1>6, OperationalSize DEF Operational
    <3>2. Widened(l, r) = l /\ Widened(r, l) = r
      BY <3>1 DEF Widened
    <3>3. whole = Node("binary", op, l.type, <<l, r>>, 0, NullType)
      BY <1>2, <2>2, <3>2
    <3>4. /\ OperandGrows(M, Node("binary", op, l.type, <<l, r>>, 0, NullType))
          /\ Node("binary", op, l.type, <<l, r>>, 0, NullType).type = l.type
      BY <1>7, <1>8, <3>1, BinaryGrown
    <3> QED  BY <3>1, <3>3, <3>4
  <2> QED  BY <2>1, <2>2
<1>10. OperandGrows(N, whole)
  BY <1>8, <1>9 DEF Grown, OperandGrows
<1> QED  BY <1>9, <1>10 DEF whole

LEMMA GrownFurther ==
    ASSUME NEW N, NEW M, N \subseteq M, NEW e, Grown(M, e)
    PROVE  Grown(N, e)
  BY DEF Grown

LEMMA TypeOf ==
    ASSUME NEW N, Sound(N), NEW e \in N
    PROVE  e.type \in Type /\ IsNode(e) /\ Grown(N, e)
  BY DEF Sound, Good, Grown

LEMMA PlainOf ==
    ASSUME NEW N, Sound(N), NEW e \in Plain(N)
    PROVE  e \in N /\ ~Inserted(e) /\ e.type \in Type /\ IsNode(e) /\ OperandGrows(N, e)
  BY TypeOf DEF Plain, OperandGrows

LEMMA NotNodes == ~IsNode(Failed) /\ ~IsNode(Fault)
  BY DEF IsNode, Failed, Fault, Node

(***************************************************************************)
(* Assignments.                                                            *)
(***************************************************************************)
LEMMA AssignGrown ==
    ASSUME NEW N, Sound(N), NEW lvalue \in N, NEW v \in N, ~IsConst(lvalue.type),
           Kept(lvalue.type, v)
    PROVE  OperandGrows(N, Node("assign", "", lvalue.type, <<lvalue, v>>, 0, NullType))
<1> DEFINE to == lvalue.type
           e == Node("assign", "", to, <<lvalue, v>>, 0, NullType)
<1>1. e.n = "assign" /\ e.type = to /\ e.kids = <<lvalue, v>> /\ to \in Type
  BY TypeOf DEF Node
<1> HIDE DEF e
<1>2. e.kids[2] = v
  BY <1>1
<1>3. AssignsSafely(e)
  BY <1>1, <1>2 DEF AssignsSafely
<1> HIDE DEF to
<1>4. Good(e) /\ \A i \in DOMAIN e.kids : e.kids[i] \in N
  BY <1>1, <1>3 DEF Good, IsNode
<1>5. OperandGrows(N, e)
  BY <1>1, <1>4, NodeGrown DEF OperandGrows, Inserted
<1> QED  BY <1>5 DEF e, to

\* Whatever bcc_ast_type_implicit_cast_exists allows besides identical types.
LEMMA CastIsKept ==
    ASSUME NEW to \in Type \ {NullType}, NEW e, SourceType(e) \in Type \ {NullType},
           ImplicitCast(SourceType(e), to)
    PROVE  Kept(to, e)
  BY DEF ImplicitCast, Kept

LEMMA AssignToMade ==
    ASSUME NEW N, Sound(N), NEW lvalue \in N, NEW rvalue \in Plain(N), lvalue.type # NullType,
           rvalue.type # NullType, ~IsConst(lvalue.type), IsNode(AssignTo(lvalue, rvalue))
    PROVE  OperandGrows(N, AssignTo(lvalue, rvalue))
<1> DEFINE r == Conv(rvalue)
           to == lvalue.type
           bare == [CastTo(to, r) EXCEPT !.type = NullType]
           whole == AssignTo(lvalue, rvalue)
           assign(v) == Node("assign", "", to, <<lvalue, v>>, 0, NullType)
<1>1. Grown(N, r) /\ r.type \in Type \ {NullType} /\ to \in Type /\ ~Inserted(r)
  BY ConvGrown, PlainOf, TypeOf
<1>2. \/ whole = assign(r) /\ LvalueIdentical(to, r.type)
      \/ whole = assign(bare) /\ ImplicitCast(r.type, to)
  BY NotNodes DEF AssignTo
<1> HIDE DEF r, bare, whole
<1>3. PICK M : N \subseteq M /\ Sound(M) /\ r \in M
  BY <1>1 DEF Grown
<1>4. lvalue \in M
  BY <1>3
<1>5. CASE whole = assign(r) /\ LvalueIdentical(to, r.type)
  <2>1. Kept(to, r)
    BY <1>1, <1>5, IdenticalIsSafe DEF Kept, SourceType
  <2>2. OperandGrows(M, assign(r))
    BY <1>3, <1>4, <2>1, AssignGrown
  <2> QED  BY <1>3, <1>5, <2>2, GrownFurther DEF whole, OperandGrows
<1>6. CASE whole = assign(bare) /\ ImplicitCast(r.type, to)
  <2>1. Grown(M, bare) /\ SourceType(bare) = r.type
    BY <1>1, <1>3, BareCastGrown DEF bare
  <2>2. PICK B : M \subseteq B /\ Sound(B) /\ bare \in B
    BY <2>1 DEF Grown
  <2>3. Kept(to, bare)
    BY <1>1, <1>6, <2>1, CastIsKept
  <2>4. OperandGrows(B, assign(bare))
    BY <1>4, <2>2, <2>3, AssignGrown
  <2>5. N \subseteq B
    BY <1>3, <2>2
  <2> QED  BY <1>6, <2>4, <2>5, GrownFurther DEF whole, OperandGrows
<1> QED  BY <1>2, <1>5, <1>6

LEMMA AssignedMade ==
    ASSUME NEW N, Sound(N), NEW lvalue \in Plain(N), NEW rvalue \in Plain(N), NEW op,
           lvalue.type # NullType, IsNode(Assigned(op, lvalue, rvalue))
    PROVE  OperandGrows(N, Assigned(op, lvalue, rvalue))
<1>1. ~IsConst(lvalue.type) /\ Assigned(op, lvalue, rvalue) = Assignment(op, lvalue, rvalue)
  BY NotNodes DEF Assigned
<1>2. CASE op = ""
  <2>1. rvalue.type # NullType /\ Assignment(op, lvalue, rvalue) = AssignTo(lvalue, rvalue)
    BY <1>1, <1>2, NotNodes DEF Assignment
  <2> QED  BY <1>1, <2>1, AssignToMade, PlainOf
<1>3. CASE op # ""
  <2> DEFINE value == Binary(op, lvalue, rvalue)
  <2>1. IsNode(value) /\ Assignment(op, lvalue, rvalue) = AssignTo(lvalue, value)
    BY <1>1, <1>3, NotNodes DEF Assignment
  <2>2. OperandGrows(N, value) /\ value.type \in Type \ {NullType}
    BY <2>1, BinaryMade
  <2> HIDE DEF value
  <2>3. PICK M : N \subseteq M /\ Sound(M) /\ value \in M
    BY <2>2 DEF Grown, OperandGrows
  <2>4. lvalue \in M /\ value \in Plain(M)
    BY <2>2, <2>3 DEF Plain, OperandGrows
  <2>5. OperandGrows(M, AssignTo(lvalue, value))
    BY <1>1, <2>1, <2>2, <2>3, <2>4, AssignToMade
  <2> QED  BY <1>1, <2>1, <2>3, <2>5, GrownFurther DEF OperandGrows
<1> QED  BY <1>2, <1>3

(***************************************************************************)
(* Unary operators, casts and indices.                                     *)
(***************************************************************************)
LEMMA UnaryOfMade ==
    ASSUME NEW N, Sound(N), NEW e \in Plain(N), NEW op \in UnaryOps, IsNode(UnaryOf(op, e))
    PROVE  OperandGrows(N, UnaryOf(op, e))
<1>1. e.type \in Type /\ e \in N /\ ~Inserted(e)
  BY PlainOf
<1>2. CASE op \in {"neg", "plus", "compl"}
  <2>1. UnaryOf(op, e) = Unary(op, e.type, e)
    BY <1>2 DEF UnaryOf
  <2> QED  BY <1>1, <2>1, UnaryGrown
<1>3. CASE op \in {"preInc", "preDec", "postInc", "postDec"}
  <2>1. UnaryOf(op, e) = IF IsLvalue(e) THEN Unary(op, e.type, e) ELSE Failed
    BY <1>3 DEF UnaryOf
  <2> QED  BY <1>1, <2>1, UnaryGrown, NotNodes
<1>4. CASE op = "addr"
  <2>1. UnaryOf(op, e) = AddressOf(e)
    BY <1>4 DEF UnaryOf
  <2>2. CASE e.n = "unary"
    <3>1. AddressOf(e) = e.kids[1]
      BY <2>1, <2>2, NotNodes DEF AddressOf
    <3>2. e.kids[1] \in Plain(N)
      BY <1>1, <2>2 DEF Sound, Good, Plain
    <3> QED  BY <2>1, <3>1, <3>2, PlainOf
  <2>3. CASE e.n # "unary"
    <3>1. AddressOf(e) = Unary("addr", PointerTo(e.type), e)
      BY <2>1, <2>3, NotNodes DEF AddressOf
    <3> DEFINE p == PointerTo(e.type)
    <3>2. p \in Type
      BY <1>1, WrappedType
    <3> HIDE DEF p
    <3>3. OperandGrows(N, Unary("addr", p, e))
      BY <1>1, <3>2, UnaryGrown
    <3> QED  BY <2>1, <3>1, <3>3 DEF p
  <2> QED  BY <2>2, <2>3
<1>5. CASE op = "not"
  <2>1. UnaryOf(op, e) = Unary("not", Prim("int"), e)
    BY <1>5 DEF UnaryOf
  <2>2. Prim("int") \in Type
    BY PrimType DEF Prims
  <2> QED  BY <1>1, <2>1, <2>2, UnaryGrown
<1>6. CASE op = "deref"
  <2>1. UnaryOf(op, e) = Checked(e, Unary("deref", Inner(e.type), e))
    BY <1>6 DEF UnaryOf
  <2>2. e.type # NullType /\ UnaryOf(op, e) = Unary("deref", Inner(e.type), e)
    BY <2>1, NotNodes DEF Checked
  <2>3. Inner(e.type) \in Type
    BY <1>1, <2>2, Outermost
  <2> QED  BY <1>1, <2>2, <2>3, UnaryGrown
<1> QED  BY <1>2, <1>3, <1>4, <1>5, <1>6, UnaryOpsAssumption

LEMMA CastedMade ==
    ASSUME NEW N, Sound(N), NEW e \in Plain(N), NEW target \in CastTypes, IsNode(Casted(target, e))
    PROVE  OperandGrows(N, Casted(target, e))
<1>1. Casted(target, e) = SourceCast(target, e)
  BY NotNodes DEF Casted, Checked
<1>2. target \in Type
  BY CastTypesAssumption
<1> QED  BY <1>1, <1>2, PlainOf, SourceCastGrown

LEMMA IndexedMade ==
    ASSUME NEW N, Sound(N), NEW base \in Plain(N), NEW index \in Plain(N),
           IsNode(Indexed(base, index))
    PROVE  OperandGrows(N, Indexed(base, index))
<1> DEFINE sum == Binary("+", base, index)
<1>1. IsNode(sum) /\ Indexed(base, index) = Unary("deref", Inner(sum.type), sum)
  BY NotNodes DEF Indexed
<1>2. OperandGrows(N, sum) /\ sum.type \in Type \ {NullType}
  BY <1>1, BinaryMade
<1> HIDE DEF sum
<1>3. PICK M : N \subseteq M /\ Sound(M) /\ sum \in M
  BY <1>2 DEF Grown, OperandGrows
<1>4. Inner(sum.type) \in Type
  BY <1>2, Outermost
<1>5. OperandGrows(M, Unary("deref", Inner(sum.type), sum))
  BY <1>2, <1>3, <1>4, UnaryGrown DEF OperandGrows
<1> QED  BY <1>1, <1>3, <1>5, GrownFurther DEF OperandGrows

(***************************************************************************)
(* Calls.                                                                  *)
(***************************************************************************)
\* A node made of those of N, with nothing between.
Single(N, e) == e \in N \/ (Good(e) /\ \A i \in DOMAIN e.kids : e.kids[i] \in N)

LEMMA AllGrown ==
    ASSUME NEW N, Sound(N), NEW S, \A e \in S : Single(N, e)
    PROVE  Sound(N \cup S)
  BY DEF Sound, Single

LEMMA CastSingle ==
    ASSUME NEW N, NEW e \in N, NEW target \in Type
    PROVE  /\ Single(N, CastTo(target, e)) /\ CastTo(target, e).type = target
           /\ SourceType(CastTo(target, e)) = e.type
<1> DEFINE c == CastTo(target, e)
<1>1. c.n = "cast" /\ c.op # "source" /\ c.type = target /\ c.kids = <<e>>
  BY DEF CastTo, Node
<1> HIDE DEF c
<1>2. Good(c) /\ \A i \in DOMAIN c.kids : c.kids[i] \in N
  BY <1>1 DEF Good, IsNode
<1>3. SourceType(c) = e.type
  BY <1>1 DEF SourceType, Inserted
<1> QED  BY <1>1, <1>2, <1>3 DEF c, Single

LEMMA ArgMade ==
    ASSUME NEW N, Sound(N), NEW arg \in Plain(N), NEW param \in Type \ {NullType},
           IsNode(ArgFor(param, arg))
    PROVE  /\ Single(N, ArgFor(param, arg)) /\ LvalueIdentical(param, ArgFor(param, arg).type)
           /\ Kept(param, ArgFor(param, arg))
<1>1. CASE LvalueIdentical(param, arg.type)
  <2>1. ArgFor(param, arg) = arg
    BY <1>1 DEF ArgFor
  <2>2. Safe(param, arg.type)
    BY <1>1, IdenticalIsSafe, PlainOf
  <2> QED  BY <1>1, <2>1, <2>2, PlainOf DEF Single, Kept, SourceType
<1>2. CASE ~LvalueIdentical(param, arg.type)
  <2> DEFINE c == CastTo(param, arg)
  <2>1. ArgFor(param, arg) = c /\ arg.type # NullType /\ ImplicitCast(arg.type, param)
    BY <1>2, NotNodes DEF ArgFor
  <2>2. Single(N, c) /\ c.type = param /\ SourceType(c) = arg.type
    BY PlainOf, CastSingle
  <2> HIDE DEF c
  <2>3. Kept(param, c)
    BY <2>1, <2>2, PlainOf, CastIsKept
  <2> QED  BY <2>1, <2>2, <2>3, LvalueReflexive
<1> QED  BY <1>1, <1>2

LEMMA EllipsisMade ==
    ASSUME NEW N, Sound(N), NEW arg \in N, IsNode(EllipsisArg(arg))
    PROVE  /\ Single(N, EllipsisArg(arg))
           /\ IsInteger(EllipsisArg(arg).type) => Size(EllipsisArg(arg).type) = 4
<1>1. CASE IsInteger(arg.type)
  <2>1. EllipsisArg(arg) = CastTo(Prim("int"), arg)
    BY <1>1, NotNodes DEF EllipsisArg
  <2>2. Prim("int") \in Type /\ Prim("int")[1].t = "prim" /\ Prim("int")[1].prim = "int"
    BY PrimType DEF Prims
  <2>3. Size(Prim("int")) = 4
    BY <2>2 DEF Size, PrimSize
  <2> QED  BY <2>1, <2>2, <2>3, CastSingle
<1>2. CASE ~IsInteger(arg.type)
  <2>1. EllipsisArg(arg) = arg
    BY <1>2, NotNodes DEF EllipsisArg
  <2> QED  BY <1>2, <2>1 DEF Single
<1> QED  BY <1>1, <1>2

LEMMA FirstBadIsBad ==
    ASSUME NEW args, DOMAIN args \subseteq Nat, \E i \in DOMAIN args : ~IsNode(args[i])
    PROVE  ~IsNode(FirstBad(args))
<1> DEFINE bad == {i \in DOMAIN args : ~IsNode(args[i])}
<1>1. bad \in SUBSET Nat /\ bad # {} /\ \A i \in bad : ~IsNode(args[i])
  OBVIOUS
<1> DEFINE least == CHOOSE i \in bad : \A j \in bad : i <= j
<1>2. FirstBad(args) = args[least]
  BY Zenon DEF FirstBad
<1> HIDE DEF bad
<1>3. \E i \in bad : \A j \in bad : i <= j
  BY <1>1, LeastOf
<1>4. least \in bad
  BY <1>3, Zenon
<1> QED  BY <1>1, <1>2, <1>4

LEMMA Signature ==
    ASSUME NEW f \in DOMAIN Funcs
    PROVE  /\ Funcs[f].ret \in Type \ {NullType} /\ Funcs[f].params \in Seq(Type \ {NullType})
           /\ Len(Funcs[f].params) \in Nat /\ DOMAIN Funcs[f].params = 1 .. Len(Funcs[f].params)
           /\ \A i \in 1 .. Len(Funcs[f].params) : Funcs[f].params[i] \in Type \ {NullType}
           /\ Funcs[f].ellipsis \in BOOLEAN
<1>1. Funcs[f] \in [ret: Type \ {NullType}, params: Seq(Type \ {NullType}), ellipsis: BOOLEAN]
  <2>1. f \in 1 .. Len(Funcs)
    BY FuncsAssumption, LenProperties
  <2> QED  BY <2>1, FuncsAssumption, ElementOfSeq
<1>2. Funcs[f].params \in Seq(Type \ {NullType})
  BY <1>1
<1> QED  BY <1>1, <1>2, LenProperties, ElementOfSeq

LEMMA CallMade ==
    ASSUME NEW N, Sound(N), NEW args \in Seq(Plain(N)), NEW f \in DOMAIN Funcs,
           IsNode(Call(f, Funcs[f], args))
    PROVE  OperandGrows(N, Call(f, Funcs[f], args))
<1> DEFINE sig == Funcs[f]
           n == Len(args)
           p == Len(sig.params)
           both == {i \in DOMAIN args : i <= p}
           named == [i \in both |-> ArgFor(sig.params[i], args[i])]
           all == [i \in DOMAIN args |-> IF i \in both THEN named[i] ELSE EllipsisArg(args[i])]
           e == Node("call", "", sig.ret, all, f, NullType)
<1>1. n \in Nat /\ DOMAIN args = 1 .. n /\ \A i \in 1 .. n : args[i] \in Plain(N)
  BY LenProperties, ElementOfSeq
<1>2. /\ sig.ret \in Type /\ p \in Nat /\ DOMAIN sig.params = 1 .. p
      /\ \A i \in 1 .. p : sig.params[i] \in Type \ {NullType}
  BY Signature
<1>3. /\ Call(f, sig, args) = e /\ ~(\E i \in both : ~IsNode(named[i]))
      /\ CountFits(n, sig) /\ ~(\E i \in DOMAIN all : ~IsNode(all[i]))
  <2>1. \/ Call(f, sig, args) = FirstBad(named) /\ \E i \in both : ~IsNode(named[i])
        \/ Call(f, sig, args) = Failed
        \/ Call(f, sig, args) = Fault
        \/ /\ Call(f, sig, args) = e /\ ~(\E i \in both : ~IsNode(named[i]))
           /\ CountFits(n, sig) /\ ~(\E i \in DOMAIN all : ~IsNode(all[i]))
    BY Zenon DEF Call
  <2>2. ASSUME \E i \in both : ~IsNode(named[i]) PROVE ~IsNode(FirstBad(named))
    <3>1. DOMAIN named = both /\ both \subseteq Nat
      BY <1>1
    <3> HIDE DEF named, both
    <3> QED  BY <2>2, <3>1, FirstBadIsBad
  <2> HIDE DEF e, all, named, both, sig
  <2> QED  BY <2>1, <2>2, NotNodes DEF sig
<1>4. ASSUME NEW i \in 1 .. n, i <= p
      PROVE  /\ Single(N, all[i]) /\ LvalueIdentical(sig.params[i], all[i].type)
             /\ Kept(sig.params[i], all[i])
  <2>1. i \in both /\ i \in DOMAIN args /\ i \in 1 .. p
    BY <1>1, <1>2, <1>4
  <2>2. named[i] = ArgFor(sig.params[i], args[i]) /\ all[i] = named[i] /\ IsNode(named[i])
    BY <1>3, <2>1
  <2> HIDE DEF all, named
  <2>3. IsNode(ArgFor(sig.params[i], args[i])) /\ args[i] \in Plain(N) /\ sig.params[i] \in Type \ {NullType}
    BY <1>1, <1>2, <2>1, <2>2
  <2> QED  BY <2>2, <2>3, ArgMade
<1>5. ASSUME NEW i \in 1 .. n, ~(i <= p)
      PROVE  /\ Single(N, all[i])
             /\ IsInteger(all[i].type) => Size(all[i].type) = 4
  <2>1. i \notin both /\ i \in DOMAIN args /\ args[i] \in N
    BY <1>1, <1>5 DEF Plain
  <2>2. all[i] = EllipsisArg(args[i]) /\ IsNode(all[i])
    BY <1>3, <2>1
  <2> HIDE DEF all
  <2> QED  BY <2>1, <2>2, EllipsisMade
<1>6. DOMAIN all = 1 .. n
  BY <1>1
<1> HIDE DEF all, named, both
<1> DEFINE S == {all[i] : i \in 1 .. n}
           M == N \cup S
<1>7. Sound(M) /\ N \subseteq M /\ \A i \in 1 .. n : all[i] \in M
  <2>1. \A x \in S : Single(N, x)
    BY <1>4, <1>5
  <2>2. \A i \in 1 .. n : all[i] \in S
    OBVIOUS
  <2> HIDE DEF S
  <2> QED  BY <2>1, <2>2, AllGrown
<1> HIDE DEF M, S
<1>8. all \in Seq(M) /\ Len(all) = n
  <2>1. all \in [1 .. n -> M]
    <3>1. all = [i \in 1 .. n |-> all[i]]
      BY <1>1, Zenon DEF all
    <3> QED  BY <1>6, <1>7, <3>1
  <2>2. all \in Seq(M)
    BY <1>1, <2>1, SeqDef
  <2> QED  BY <1>1, <1>6, <2>2, LenProperties
<1>9. e.n = "call" /\ e.type = sig.ret /\ e.kids = all /\ e.val = f
  BY DEF Node
<1> HIDE DEF e
<1>10. n >= p /\ (n > p => sig.ellipsis)
  BY <1>1, <1>2, <1>3 DEF CountFits
<1>11. Converted(e)
  BY <1>1, <1>2, <1>4, <1>5, <1>6, <1>8, <1>9, <1>10 DEF Converted, PrimSize
<1>12. PassesSafely(e)
  <2>1. \A i \in 1 .. p : i \in 1 .. n /\ i <= p
    BY <1>1, <1>2, <1>10
  <2> QED  BY <1>2, <1>4, <1>9, <2>1 DEF PassesSafely
<1>13. Good(e)
  BY <1>2, <1>9, <1>11, <1>12 DEF Good, IsNode
<1>14. Grown(M, e) /\ ~Inserted(e)
  BY <1>6, <1>7, <1>9, <1>13, NodeGrown DEF Inserted
<1> QED  BY <1>3, <1>7, <1>14, GrownFurther DEF OperandGrows

(***************************************************************************)
(* The rules.                                                              *)
(***************************************************************************)
\* Whatever is on the value stack, and all under it, is good.
ExprInv == \E N : Sound(N) /\ vals \in Seq(Plain(N))

LEMMA SoundStack ==
    ASSUME NEW M, Sound(M), vals' \in Seq(Plain(M))
    PROVE  ExprInv'
  BY Zenon DEF ExprInv

LEMMA LargerStack ==
    ASSUME NEW N, NEW M, N \subseteq M, NEW s \in Seq(Plain(N))
    PROVE  s \in Seq(Plain(M))
<1>1. Len(s) \in Nat /\ s \in [1 .. Len(s) -> Plain(N)]
  BY LenProperties, SeqDef
<1>2. Plain(N) \subseteq Plain(M)
  BY DEF Plain
<1>3. s \in [1 .. Len(s) -> Plain(M)]
  BY <1>1, <1>2
<1> QED  BY <1>1, <1>3, SeqDef

LEMMA Reduced ==
    ASSUME NEW N, Sound(N), vals \in Seq(Plain(N)), NEW k \in 1 .. Len(vals), NEW e,
           IsNode(e) => OperandGrows(N, e), Reduce(k, e)
    PROVE  ExprInv'
<1>1. CASE IsNode(e)
  <2>1. PICK M : N \subseteq M /\ Sound(M) /\ e \in Plain(M)
    BY <1>1 DEF Grown, OperandGrows, Plain
  <2> DEFINE rest == SubSeq(vals, 1, Depth - k)
  <2>2. vals' = Append(rest, e)
    BY <1>1 DEF Reduce
  <2>3. rest \in Seq(Plain(N))
    <3> DEFINE d == Depth - k
    <3>1. Len(vals) \in Nat /\ \A i \in 1 .. Len(vals) : vals[i] \in Plain(N)
      BY LenProperties, ElementOfSeq
    <3>2. d \in Int /\ 1 \in Int /\ \A i \in 1 .. d : vals[i] \in Plain(N)
      BY <3>1 DEF Depth
    <3> HIDE DEF d
    <3>3. SubSeq(vals, 1, d) \in Seq(Plain(N))
      BY <3>2, SubSeqProperties
    <3> QED  BY <3>3 DEF d
  <2> HIDE DEF rest
  <2>4. rest \in Seq(Plain(M))
    BY <2>1, <2>3, LargerStack
  <2>5. vals' \in Seq(Plain(M))
    BY <2>1, <2>2, <2>4, AppendProperties
  <2> QED  BY <2>1, <2>5, SoundStack
<1>2. CASE ~IsNode(e)
  <2>1. vals' = vals
    BY <1>2 DEF Reduce
  <2> QED  BY <2>1, SoundStack
<1> QED  BY <1>1, <1>2

LEMMA LeafGrown ==
    ASSUME NEW N, Sound(N), NEW e, e.kids = <<>>, e.type \in Type, e.n \in {"number", "string", "var", "func"},
           e.n = "func" => e.val \in DOMAIN Funcs
    PROVE  OperandGrows(N, e)
<1>1. Good(e) /\ \A i \in DOMAIN e.kids : e.kids[i] \in N
  BY DEF Good, IsNode
<1> QED  BY <1>1, NodeGrown DEF OperandGrows, Inserted

LEMMA OperandGrown ==
    ASSUME NEW N, Sound(N),
           NEW e \in {VarNode(v, VarTypes[v]) : v \in DOMAIN VarTypes}
                     \cup {FuncNode(f, Funcs[f].ret) : f \in DOMAIN Funcs}
                     \cup {NumberNode(k) : k \in Numbers}
                     \cup {StringNode(operands)}
    PROVE  OperandGrows(N, e)
<1>1. ASSUME NEW v \in DOMAIN VarTypes, e = VarNode(v, VarTypes[v])
      PROVE  OperandGrows(N, e)
  <2>1. e.kids = <<>> /\ e.type = VarTypes[v] /\ e.n = "var"
    BY <1>1 DEF VarNode, Node
  <2>2. VarTypes[v] \in Type
    BY VarTypesAssumption, LenProperties, ElementOfSeq
  <2> QED  BY <2>1, <2>2, LeafGrown
<1>2. ASSUME NEW f \in DOMAIN Funcs, e = FuncNode(f, Funcs[f].ret)
      PROVE  OperandGrows(N, e)
  <2>1. e.kids = <<>> /\ e.type = FunctionTo(Funcs[f].ret) /\ e.n = "func" /\ e.val = f
    BY <1>2 DEF FuncNode, Node
  <2>2. FunctionTo(Funcs[f].ret) \in Type
    BY Signature, WrappedType
  <2> QED  BY <2>1, <2>2, LeafGrown
<1>3. ASSUME NEW k \in Numbers, e = NumberNode(k)
      PROVE  OperandGrows(N, e)
  <2>1. e.kids = <<>> /\ e.type = IntZero /\ e.n = "number"
    BY <1>3 DEF NumberNode, Node
  <2> QED  BY <2>1, ZeroType, LeafGrown
<1>4. ASSUME e = StringNode(operands)
      PROVE  OperandGrows(N, e)
  <2>1. e.kids = <<>> /\ e.type = CharPtr /\ e.n = "string"
    BY <1>4 DEF StringNode, Node
  <2> QED  BY <2>1, CharPtrType, LeafGrown
<1> QED  BY <1>1, <1>2, <1>3, <1>4

LEMMA CallStep ==
    ASSUME NEW N, Sound(N), vals \in Seq(Plain(N)), NEW k \in 0 .. 2, FunctionCall(k)
    PROVE  ExprInv'
<1> DEFINE callee == vals[Depth - k]
           args == SubSeq(vals, Depth - k + 1, Depth)
           f == callee.val
           j == k + 1
<1>1. /\ Len(vals) \in Nat /\ Depth = Len(vals) /\ j \in 1 .. Len(vals) /\ Depth - k \in 1 .. Len(vals)
      /\ \A i \in 1 .. Len(vals) : vals[i] \in Plain(N)
  BY LenProperties, ElementOfSeq DEF FunctionCall, Reducing, Depth
<1>2. callee \in N
  BY <1>1 DEF Plain
<1>3. args \in Seq(Plain(N))
  <2> DEFINE d == Depth - k + 1
  <2>1. d \in Int /\ Depth \in Int /\ \A i \in d .. Depth : vals[i] \in Plain(N)
    BY <1>1
  <2> HIDE DEF d
  <2>2. SubSeq(vals, d, Depth) \in Seq(Plain(N))
    BY <2>1, SubSeqProperties
  <2> QED  BY <2>2 DEF d
<1>4. \/ Reduce(j, Fault)
      \/ Reduce(j, Failed)
      \/ vals' = vals
      \/ callee.n = "func" /\ Reduce(j, Call(f, Funcs[f], args))
  BY Zenon DEF FunctionCall
<1> HIDE DEF callee, args, j
<1>5. CASE Reduce(j, Fault) \/ Reduce(j, Failed)
  BY <1>1, <1>5, Reduced, NotNodes
<1>6. CASE vals' = vals
  BY <1>6, SoundStack
<1>7. CASE callee.n = "func" /\ Reduce(j, Call(f, Funcs[f], args))
  <2>1. f \in DOMAIN Funcs
    BY <1>2, <1>7 DEF Sound, Good
  <2>2. IsNode(Call(f, Funcs[f], args)) => OperandGrows(N, Call(f, Funcs[f], args))
    BY <1>3, <2>1, CallMade
  <2> QED  BY <1>1, <1>7, <2>2, Reduced
<1> QED  BY <1>4, <1>5, <1>6, <1>7

LEMMA InitExpr == Init => ExprInv
<1>1. Sound({})
  BY DEF Sound
<1>2. <<>> \in Seq(Plain({}))
  BY EmptySeq
<1> QED  BY <1>1, <1>2, Zenon DEF Init, ExprInv

LEMMA NextExpr == ExprInv /\ [Next]_vars => ExprInv'
<1> SUFFICES ASSUME ExprInv, [Next]_vars PROVE ExprInv'
  OBVIOUS
<1>1. PICK N : Sound(N) /\ vals \in Seq(Plain(N))
  BY DEF ExprInv
<1>2. /\ Len(vals) \in Nat /\ Depth = Len(vals) /\ \A i \in 1 .. Len(vals) : vals[i] \in Plain(N)
  BY <1>1, LenProperties, ElementOfSeq DEF Depth
<1>3. ASSUME Depth >= 1 PROVE Top \in Plain(N) /\ 1 \in 1 .. Len(vals)
  BY <1>2, <1>3 DEF Top
<1>4. ASSUME Depth >= 2 PROVE Top \in Plain(N) /\ Second \in Plain(N) /\ 2 \in 1 .. Len(vals)
  BY <1>2, <1>4 DEF Top, Second
<1>5. CASE Operand
  <2>1. PICK e \in {VarNode(v, VarTypes[v]) : v \in DOMAIN VarTypes}
                   \cup {FuncNode(f, Funcs[f].ret) : f \in DOMAIN Funcs}
                   \cup {NumberNode(k) : k \in Numbers}
                   \cup {StringNode(operands)} : vals' = Append(vals, e)
    BY <1>5, Zenon DEF Operand
  <2>2. OperandGrows(N, e)
    BY <1>1, OperandGrown, Zenon
  <2>3. PICK M : N \subseteq M /\ Sound(M) /\ e \in Plain(M)
    BY <2>2 DEF Grown, OperandGrows, Plain
  <2>4. vals \in Seq(Plain(M))
    BY <1>1, <2>3, LargerStack
  <2>5. vals' \in Seq(Plain(M))
    BY <2>1, <2>3, <2>4, AppendProperties
  <2> QED  BY <2>3, <2>5, SoundStack
<1>6. ASSUME NEW op \in UnaryOps, UnaryReduction(op) PROVE ExprInv'
  <2>1. Depth >= 1 /\ Reduce(1, UnaryOf(op, Top))
    BY <1>6 DEF UnaryReduction, Reducing
  <2> QED  BY <1>1, <1>3, <2>1, UnaryOfMade, Reduced
<1>7. ASSUME NEW target \in CastTypes, Cast(target) PROVE ExprInv'
  <2>1. Depth >= 1 /\ Reduce(1, Casted(target, Top))
    BY <1>7 DEF Cast, Reducing
  <2> QED  BY <1>1, <1>3, <2>1, CastedMade, Reduced
<1>8. ASSUME NEW op \in BinaryOps, BinaryReduction(op) PROVE ExprInv'
  <2>1. Depth >= 2 /\ Reduce(2, Binary(op, Second, Top))
    BY <1>8 DEF BinaryReduction, Reducing
  <2> QED  BY <1>1, <1>4, <2>1, BinaryMade, Reduced
<1>9. CASE Index
  <2>1. Depth >= 2 /\ Reduce(2, Checked(Second, Indexed(Second, Top)))
    BY <1>9 DEF Index, Reducing
  <2>2. IsNode(Checked(Second, Indexed(Second, Top)))
        => OperandGrows(N, Checked(Second, Indexed(Second, Top)))
    BY <1>1, <1>4, <2>1, IndexedMade, NotNodes DEF Checked
  <2> QED  BY <1>1, <1>4, <2>1, <2>2, Reduced
<1>10. ASSUME NEW op \in CompoundOps \cup {""}, Assign(op) PROVE ExprInv'
  <2>1. Depth >= 2 /\ Reduce(2, Checked(Second, Assigned(op, Second, Top)))
    BY <1>10 DEF Assign, Reducing
  <2>2. IsNode(Checked(Second, Assigned(op, Second, Top)))
        => OperandGrows(N, Checked(Second, Assigned(op, Second, Top)))
    BY <1>1, <1>4, <2>1, AssignedMade, NotNodes DEF Checked
  <2> QED  BY <1>1, <1>4, <2>1, <2>2, Reduced
<1>11. ASSUME NEW k \in 0 .. 2, FunctionCall(k) PROVE ExprInv'
  BY <1>1, <1>11, CallStep
<1>12. CASE UNCHANGED vars
  BY <1>1, <1>12, SoundStack DEF vars
<1> QED  BY <1>5, <1>6, <1>7, <1>8, <1>9, <1>10, <1>11, <1>12 DEF Next

(***************************************************************************)
(* The theorems.                                                           *)
(***************************************************************************)
LEMMA MadeIsGood ==
    ASSUME ExprInv
    PROVE  \A e \in Made : Good(e)
<1>1. PICK N : Sound(N) /\ vals \in Seq(Plain(N))
  BY DEF ExprInv
<1>2. ASSUME NEW nodes, nodes \subseteq N PROVE WithKids(nodes) \subseteq N
  BY <1>1, <1>2 DEF WithKids, Sound
<1>3. {vals[i] : i \in DOMAIN vals} \subseteq N
  BY <1>1, LenProperties, ElementOfSeq DEF Plain
<1>4. Made \subseteq N
  BY <1>2, <1>3, Zenon DEF Made
<1> QED  BY <1>1, <1>4 DEF Sound

\* Whatever is on the value stack was made by the constructors, and each of its
\* nodes is as they leave it: the inductive invariant of the expression rules.
THEOREM ExpressionsInductive == Spec => []ExprInv
  BY InitExpr, NextExpr, PTL DEF Spec

\* create_bin_from_components promotes and widens: the operands of a binary
\* operator are equally wide, and as wide as an int, in every expression.
THEOREM OperandsAreWide == Spec => []OperandsWide
<1>1. ExprInv => OperandsWide
  BY MadeIsGood DEF OperandsWide, Good, Wide
<1> QED  BY <1>1, ExpressionsInductive, PTL

\* func_params_check_and_cast walks arguments and parameters along two lists:
\* every call that is built has an argument of its type for each parameter, and
\* further ones, promoted, only where there is an ellipsis.
THEOREM ArgumentsConverted == Spec => []CallsConverted
<1>1. ExprInv => CallsConverted
  BY MadeIsGood DEF CallsConverted, Good, Converted
<1> QED  BY <1>1, ExpressionsInductive, PTL

\* bcc_ast_type_lvalue_identical_to_rvalue looks at const layer by layer: through
\* any number of pointers, no assignment and no argument gives a writable way to
\* a const object, not by a cast that the code inserts either, unless a cast of
\* the source or a pointer to void (type.c:137-142) took const away.
THEOREM ConstIsKept == Spec => []ConstRespected
<1>1. ExprInv => ConstRespected
  BY MadeIsGood DEF ConstRespected, Good, AssignsSafely, PassesSafely
<1> QED  BY <1>1, ExpressionsInductive, PTL
=============================================================================
