---------------------------- MODULE LexerProofs ----------------------------
(***************************************************************************)
(* The scanner, for any texts, operators and reserved words and any size   *)
(* of flex's chunks: what a match is, where tokens stand in the text, how  *)
(* the shared FILE is read, what a literal's buffer holds, here and in     *)
(* util_escape_str, what each literal means in C, and what of it the       *)
(* assembler puts into the program.                                        *)
(***************************************************************************)
EXTENDS Literals, SequenceTheorems, FiniteSetTheorems, WellFoundedInduction, TLAPS

Bytes == 1 .. 255

(***************************************************************************)
(* Least numbers, and induction over a set of numbers.                     *)
(***************************************************************************)
LEMMA LeastOf ==
    ASSUME NEW S \in SUBSET Nat, S # {}
    PROVE  \E x \in S : \A y \in S : x <= y
<1> DEFINE R == {ss \in Nat \X Nat : ss[1] < ss[2]}
<1>1. \A x, y \in Nat : x < y => <<x, y>> \in R
  OBVIOUS
<1>2. IsWellFoundedOn(R, Nat)
  BY NatLessThanWellFounded DEF OpToRel
<1> HIDE DEF R
<1>3. PICK x \in S : \A y \in S : ~(<<y, x>> \in R)
  BY <1>2, WFMin
<1>4. x \in Nat /\ \A y \in S : y \in Nat
  OBVIOUS
<1>5. ASSUME NEW y \in S PROVE x <= y
  <2>1. ~(y < x)
    BY <1>1, <1>3, <1>4, Zenon
  <2> QED  BY <1>4, <2>1
<1> QED  BY <1>3, <1>5

LEMMA UpTo ==
    ASSUME NEW n \in Nat, NEW G, 0 \in G, \A k \in Nat : k < n /\ k \in G => k + 1 \in G
    PROVE  \A k \in 0 .. n : k \in G
<1> DEFINE S == {k \in 0 .. n : k \notin G}
<1>1. SUFFICES ASSUME S # {} PROVE FALSE
  OBVIOUS
<1>2. S \in SUBSET Nat /\ \A k : k \in S <=> k \in 0 .. n /\ k \notin G
  OBVIOUS
<1> HIDE DEF S
<1>3. PICK x \in S : \A y \in S : x <= y
  BY <1>1, <1>2, LeastOf
<1>4. x \in 0 .. n /\ x \notin G /\ x # 0
  BY <1>2, <1>3
<1>5. x - 1 \in Nat /\ x - 1 < n /\ ~(x <= x - 1) /\ x - 1 \in 0 .. n /\ (x - 1) + 1 = x
  BY <1>4
<1>6. x - 1 \in G
  BY <1>2, <1>3, <1>5
<1> QED  BY <1>4, <1>5, <1>6

(***************************************************************************)
(* The three loops of the scanner's actions, as functions of how far they  *)
(* have come.                                                              *)
(***************************************************************************)
TriedUpTo(f, pattern, n) ==
    f = [k \in 0 .. n |-> IF k = 0 THEN [end |-> at, matches |-> TRUE, open |-> FALSE]
                          ELSE Longer(f[k - 1], pattern[k])]
NumberUpTo(f, digits, b, n) ==
    f = [k \in 0 .. n |-> IF k = 0 THEN 0 ELSE Wrap(f[k - 1] * b + DigitValue(digits[k]))]
AfterUpTo(f, l, chars, n) ==
    f = [k \in 0 .. n |-> IF k = 0 THEN l ELSE AppendTo(f[k - 1], chars[k])]

LEMMA TriedFurther ==
    ASSUME NEW pattern, NEW n \in Nat, NEW f, TriedUpTo(f, pattern, n)
    PROVE  \E g : TriedUpTo(g, pattern, n + 1)
<1> DEFINE m == n + 1
           start == [end |-> at, matches |-> TRUE, open |-> FALSE]
           step == Longer(f[n], pattern[m])
           g == [k \in 0 .. m |-> IF k = m THEN step ELSE f[k]]
<1>1. /\ \A k \in 0 .. n : k \in 0 .. m /\ k # m
      /\ m \in 0 .. m /\ m # 0 /\ m - 1 = n /\ n \in 0 .. n /\ \A k \in 0 .. m : k = m \/ k \in 0 .. n
      /\ \A k \in 0 .. n : k # 0 => k - 1 \in 0 .. n
  OBVIOUS
<1>2. \A k \in 0 .. n : f[k] = IF k = 0 THEN start ELSE Longer(f[k - 1], pattern[k])
  BY Zenon DEF TriedUpTo
<1>3. \A k \in 0 .. n : g[k] = f[k]
  BY <1>1
<1>4. ASSUME NEW k \in 0 .. m
      PROVE  (IF k = m THEN step ELSE f[k]) = IF k = 0 THEN start ELSE Longer(g[k - 1], pattern[k])
  <2> HIDE DEF g, start
  <2>1. CASE k = m
    BY <1>1, <1>3, <2>1
  <2>2. CASE k # m
    BY <1>1, <1>2, <1>3, <2>2
  <2> QED  BY <2>1, <2>2
<1>5. g = [k \in 0 .. m |-> IF k = 0 THEN start ELSE Longer(g[k - 1], pattern[k])]
  BY Zenon, <1>4
<1> QED  BY Zenon, <1>5 DEF TriedUpTo

LEMMA NumberFurther ==
    ASSUME NEW digits, NEW b, NEW n \in Nat, NEW f, NumberUpTo(f, digits, b, n)
    PROVE  \E g : NumberUpTo(g, digits, b, n + 1)
<1> DEFINE m == n + 1
           step == Wrap(f[n] * b + DigitValue(digits[m]))
           g == [k \in 0 .. m |-> IF k = m THEN step ELSE f[k]]
<1>1. /\ \A k \in 0 .. n : k \in 0 .. m /\ k # m
      /\ m \in 0 .. m /\ m # 0 /\ m - 1 = n /\ n \in 0 .. n /\ \A k \in 0 .. m : k = m \/ k \in 0 .. n
      /\ \A k \in 0 .. n : k # 0 => k - 1 \in 0 .. n
  OBVIOUS
<1>2. \A k \in 0 .. n : f[k] = IF k = 0 THEN 0 ELSE Wrap(f[k - 1] * b + DigitValue(digits[k]))
  BY Zenon DEF NumberUpTo
<1>3. \A k \in 0 .. n : g[k] = f[k]
  BY <1>1
<1>4. ASSUME NEW k \in 0 .. m
      PROVE  (IF k = m THEN step ELSE f[k])
             = IF k = 0 THEN 0 ELSE Wrap(g[k - 1] * b + DigitValue(digits[k]))
  <2> HIDE DEF g
  <2>1. CASE k = m
    BY <1>1, <1>3, <2>1, Zenon
  <2>2. CASE k # m
    BY <1>1, <1>2, <1>3, <2>2, Zenon
  <2> QED  BY <2>1, <2>2
<1>5. g = [k \in 0 .. m |-> IF k = 0 THEN 0 ELSE Wrap(g[k - 1] * b + DigitValue(digits[k]))]
  BY Zenon, <1>4
<1> QED  BY Zenon, <1>5 DEF NumberUpTo

LEMMA AfterFurther ==
    ASSUME NEW l, NEW chars, NEW n \in Nat, NEW f, AfterUpTo(f, l, chars, n)
    PROVE  \E g : AfterUpTo(g, l, chars, n + 1)
<1> DEFINE m == n + 1
           step == AppendTo(f[n], chars[m])
           g == [k \in 0 .. m |-> IF k = m THEN step ELSE f[k]]
<1>1. /\ \A k \in 0 .. n : k \in 0 .. m /\ k # m
      /\ m \in 0 .. m /\ m # 0 /\ m - 1 = n /\ n \in 0 .. n /\ \A k \in 0 .. m : k = m \/ k \in 0 .. n
      /\ \A k \in 0 .. n : k # 0 => k - 1 \in 0 .. n
  OBVIOUS
<1>2. \A k \in 0 .. n : f[k] = IF k = 0 THEN l ELSE AppendTo(f[k - 1], chars[k])
  BY Zenon DEF AfterUpTo
<1>3. \A k \in 0 .. n : g[k] = f[k]
  BY <1>1
<1>4. ASSUME NEW k \in 0 .. m
      PROVE  (IF k = m THEN step ELSE f[k]) = IF k = 0 THEN l ELSE AppendTo(g[k - 1], chars[k])
  <2> HIDE DEF g
  <2>1. CASE k = m
    BY <1>1, <1>3, <2>1, Zenon
  <2>2. CASE k # m
    BY <1>1, <1>2, <1>3, <2>2, Zenon
  <2> QED  BY <2>1, <2>2
<1>5. g = [k \in 0 .. m |-> IF k = 0 THEN l ELSE AppendTo(g[k - 1], chars[k])]
  BY Zenon, <1>4
<1> QED  BY Zenon, <1>5 DEF AfterUpTo

LEMMA TriedExist ==
    ASSUME NEW pattern, NEW n \in Nat
    PROVE  \E f : TriedUpTo(f, pattern, n)
<1> DEFINE G == {k \in Nat : \E f : TriedUpTo(f, pattern, k)}
<1>1. 0 \in G
  <2> DEFINE start == [end |-> at, matches |-> TRUE, open |-> FALSE]
             f == [k \in 0 .. 0 |-> start]
  <2>1. \A k \in 0 .. 0 : start = IF k = 0 THEN start ELSE Longer(f[k - 1], pattern[k])
    <3> HIDE DEF start
    <3> QED  OBVIOUS
  <2>2. f = [k \in 0 .. 0 |-> IF k = 0 THEN start ELSE Longer(f[k - 1], pattern[k])]
    BY <2>1, Zenon
  <2>3. TriedUpTo(f, pattern, 0)
    BY <2>2, Zenon DEF TriedUpTo
  <2>4. \E h : TriedUpTo(h, pattern, 0)
    BY <2>3, Zenon
  <2> QED  BY <2>4
<1>2. ASSUME NEW k \in Nat, k \in G PROVE k + 1 \in G
  <2>1. PICK f : TriedUpTo(f, pattern, k)
    BY <1>2
  <2>2. \E g : TriedUpTo(g, pattern, k + 1)
    BY <2>1, TriedFurther
  <2>3. k + 1 \in Nat
    OBVIOUS
  <2> QED  BY <2>2, <2>3
<1> HIDE DEF G
<1>3. n \in G
  BY <1>1, <1>2, UpTo
<1> QED  BY <1>3 DEF G

LEMMA NumberExists ==
    ASSUME NEW digits, NEW b, NEW n \in Nat
    PROVE  \E f : NumberUpTo(f, digits, b, n)
<1> DEFINE G == {k \in Nat : \E f : NumberUpTo(f, digits, b, k)}
<1>1. 0 \in G
  <2> DEFINE f == [k \in 0 .. 0 |-> 0]
  <2>1. \A k \in 0 .. 0 : 0 = IF k = 0 THEN 0 ELSE Wrap(f[k - 1] * b + DigitValue(digits[k]))
    OBVIOUS
  <2>2. f = [k \in 0 .. 0 |-> IF k = 0 THEN 0 ELSE Wrap(f[k - 1] * b + DigitValue(digits[k]))]
    BY <2>1, Zenon
  <2>3. NumberUpTo(f, digits, b, 0)
    BY <2>2, Zenon DEF NumberUpTo
  <2>4. \E h : NumberUpTo(h, digits, b, 0)
    BY <2>3, Zenon
  <2> QED  BY <2>4
<1>2. ASSUME NEW k \in Nat, k \in G PROVE k + 1 \in G
  <2>1. PICK f : NumberUpTo(f, digits, b, k)
    BY <1>2
  <2>2. \E g : NumberUpTo(g, digits, b, k + 1)
    BY <2>1, NumberFurther
  <2>3. k + 1 \in Nat
    OBVIOUS
  <2> QED  BY <2>2, <2>3
<1> HIDE DEF G
<1>3. n \in G
  BY <1>1, <1>2, UpTo
<1> QED  BY <1>3 DEF G

LEMMA AfterExists ==
    ASSUME NEW l, NEW chars, NEW n \in Nat
    PROVE  \E f : AfterUpTo(f, l, chars, n)
<1> DEFINE G == {k \in Nat : \E f : AfterUpTo(f, l, chars, k)}
<1>1. 0 \in G
  <2> DEFINE f == [k \in 0 .. 0 |-> l]
  <2>1. \A k \in 0 .. 0 : l = IF k = 0 THEN l ELSE AppendTo(f[k - 1], chars[k])
    OBVIOUS
  <2>2. f = [k \in 0 .. 0 |-> IF k = 0 THEN l ELSE AppendTo(f[k - 1], chars[k])]
    BY <2>1, Zenon
  <2>3. AfterUpTo(f, l, chars, 0)
    BY <2>2, Zenon DEF AfterUpTo
  <2>4. \E h : AfterUpTo(h, l, chars, 0)
    BY <2>3, Zenon
  <2> QED  BY <2>4
<1>2. ASSUME NEW k \in Nat, k \in G PROVE k + 1 \in G
  <2>1. PICK f : AfterUpTo(f, l, chars, k)
    BY <1>2
  <2>2. \E g : AfterUpTo(g, l, chars, k + 1)
    BY <2>1, AfterFurther
  <2>3. k + 1 \in Nat
    OBVIOUS
  <2> QED  BY <2>2, <2>3
<1> HIDE DEF G
<1>3. n \in G
  BY <1>1, <1>2, UpTo
<1> QED  BY <1>3 DEF G

\* Each operator is the last value of its loop.
LEMMA TryIs ==
    ASSUME NEW pattern, Len(pattern) \in Nat
    PROVE  \E f : TriedUpTo(f, pattern, Len(pattern)) /\ Try(pattern) = f[Len(pattern)]
<1>1. \E f : TriedUpTo(f, pattern, Len(pattern))
  BY TriedExist
<1> DEFINE f == CHOOSE f : f = [k \in 0 .. Len(pattern) |->
                    IF k = 0 THEN [end |-> at, matches |-> TRUE, open |-> FALSE]
                    ELSE Longer(f[k - 1], pattern[k])]
<1>2. TriedUpTo(f, pattern, Len(pattern))
  BY <1>1, Zenon DEF TriedUpTo
<1>3. Try(pattern) = f[Len(pattern)]
  BY Zenon DEF Try
<1> QED  BY <1>2, <1>3, Zenon

LEMMA NumberIs ==
    ASSUME NEW digits, NEW b, Len(digits) \in Nat
    PROVE  \E f : NumberUpTo(f, digits, b, Len(digits)) /\ NumberOf(digits, b) = f[Len(digits)]
<1>1. \E f : NumberUpTo(f, digits, b, Len(digits))
  BY NumberExists
<1> DEFINE f == CHOOSE f : f = [k \in 0 .. Len(digits) |->
                    IF k = 0 THEN 0 ELSE Wrap(f[k - 1] * b + DigitValue(digits[k]))]
<1>2. NumberUpTo(f, digits, b, Len(digits))
  BY <1>1, Zenon DEF NumberUpTo
<1>3. NumberOf(digits, b) = f[Len(digits)]
  BY Zenon DEF NumberOf
<1> QED  BY <1>2, <1>3, Zenon

LEMMA AppendAllIs ==
    ASSUME NEW l, NEW chars, Len(chars) \in Nat
    PROVE  \E f : AfterUpTo(f, l, chars, Len(chars)) /\ AppendAll(l, chars) = f[Len(chars)]
<1>1. \E f : AfterUpTo(f, l, chars, Len(chars))
  BY AfterExists
<1> DEFINE f == CHOOSE f : f = [k \in 0 .. Len(chars) |->
                    IF k = 0 THEN l ELSE AppendTo(f[k - 1], chars[k])]
<1>2. AfterUpTo(f, l, chars, Len(chars))
  BY <1>1, Zenon DEF AfterUpTo
<1>3. AppendAll(l, chars) = f[Len(chars)]
  BY Zenon DEF AppendAll
<1> QED  BY <1>2, <1>3, Zenon

(***************************************************************************)
(* Literals.                                                               *)
(***************************************************************************)
LEMMA IntValues ==
    \E k \in Nat \ {0, 1} : 2^IntBits = 256 * k /\ 2^(IntBits - 8) = k
<1>1. 2^(IntBits - 8) \in Int /\ 2^IntBits \in Int
  BY LexerAssumption
<1> QED  BY <1>1, LexerAssumption

LEMMA ModRange ==
    ASSUME NEW n \in Int, NEW p \in Nat \ {0}
    PROVE  n % p \in 0 .. p - 1 /\ \E q \in Int : n = q * p + (n % p)
<1>1. n % p \in 0 .. p - 1
  OBVIOUS
<1>2. n \div p \in Int /\ n = (n \div p) * p + (n % p)
  OBVIOUS
<1> QED  BY <1>1, <1>2

LEMMA WrapType ==
    ASSUME NEW n \in Int
    PROVE  Wrap(n) \in 0 .. 2^IntBits - 1
<1>1. 2^IntBits \in Nat \ {0}
  BY IntValues
<1> QED  BY <1>1, ModRange DEF Wrap

\* There is room for a byte behind an int shifted by one.
LEMMA WrapRoom ==
    ASSUME NEW n \in Int, NEW k \in Nat \ {0}
    PROVE  (n * 256) % (256 * k) \in 0 .. 256 * k - 256
<1>1. 256 * k \in Nat \ {0} /\ n * 256 \in Int
  OBVIOUS
<1> DEFINE e == n * 256
           d == 256 * k
           r == e % d
<1>2. r \in 0 .. 256 * k - 1 /\ \E q \in Int : n * 256 = q * (256 * k) + r
  <2>1. e \in Int /\ d \in Nat \ {0}
    BY <1>1
  <2> HIDE DEF e, d
  <2>2. r \in 0 .. d - 1 /\ \E q \in Int : e = q * d + r
    BY <2>1, ModRange
  <2> QED  BY <2>2, Zenon DEF e, d
<1> HIDE DEF r
<1>3. PICK q \in Int : n * 256 = q * (256 * k) + r
  BY <1>2
<1>4. q * k \in Int /\ q * (256 * k) = 256 * (q * k)
  OBVIOUS
<1>5. r = 256 * (n - q * k)
  BY <1>2, <1>3, <1>4
<1>6. n - q * k < k
  BY <1>2, <1>4, <1>5
<1>7. n - q * k <= k - 1 /\ n - q * k \in Int
  BY <1>4, <1>6
<1>8. r <= 256 * k - 256
  BY <1>4, <1>5, <1>7
<1> QED  BY <1>2, <1>8 DEF r

LEMMA ShiftedType ==
    ASSUME NEW n \in Int, NEW ch \in 0 .. 255
    PROVE  ShiftedIn(n, ch) \in 0 .. 2^IntBits - 1
<1>1. PICK k \in Nat \ {0, 1} : 2^IntBits = 256 * k
  BY IntValues
<1>2. Wrap(n * 256) \in 0 .. 256 * k - 256
  BY <1>1, WrapRoom DEF Wrap
<1>3. CASE ch < 128
  BY <1>1, <1>2, <1>3 DEF ShiftedIn
<1>4. CASE ~(ch < 128)
  BY <1>1, <1>4 DEF ShiftedIn
<1> QED  BY <1>3, <1>4

LEMMA DigitType ==
    ASSUME NEW c \in Int
    PROVE  DigitValue(c) \in Int
  BY DEF DigitValue

LEMMA NumberType ==
    ASSUME NEW digits \in Seq(Int), NEW b \in Int
    PROVE  NumberOf(digits, b) \in Int
<1>1. Len(digits) \in Nat /\ \A k \in 1 .. Len(digits) : digits[k] \in Int
  BY LenProperties, ElementOfSeq
<1>2. PICK f : NumberUpTo(f, digits, b, Len(digits)) /\ NumberOf(digits, b) = f[Len(digits)]
  BY <1>1, NumberIs
<1> DEFINE G == {k \in Nat : k <= Len(digits) => f[k] \in Int}
<1>3. \A k \in 0 .. Len(digits) : f[k] = IF k = 0 THEN 0 ELSE Wrap(f[k - 1] * b + DigitValue(digits[k]))
  BY <1>2, Zenon DEF NumberUpTo
<1>4. 0 \in G
  BY <1>1, <1>3
<1>5. ASSUME NEW k \in Nat, k < Len(digits), k \in G PROVE k + 1 \in G
  <2>1. /\ k + 1 \in 0 .. Len(digits) /\ k + 1 # 0 /\ (k + 1) - 1 = k
        /\ k <= Len(digits) /\ k + 1 \in 1 .. Len(digits)
    BY <1>1, <1>5
  <2>2. f[k] \in Int
    BY <1>5, <2>1
  <2>3. DigitValue(digits[k + 1]) \in Int
    BY <1>1, <2>1, DigitType
  <2>4. f[k] * b + DigitValue(digits[k + 1]) \in Int
    BY <2>2, <2>3
  <2>5. f[k + 1] = Wrap(f[k] * b + DigitValue(digits[k + 1]))
    BY <1>3, <2>1
  <2>6. f[k + 1] \in Int
    <3>1. PICK p \in Nat \ {0, 1} : 2^IntBits = 256 * p
      BY IntValues
    <3>2. Wrap(f[k] * b + DigitValue(digits[k + 1])) \in 0 .. 256 * p - 1
      BY <2>4, <3>1, WrapType
    <3> QED  BY <2>5, <3>1, <3>2
  <2> QED  BY <2>1, <2>6
<1> DEFINE n == Len(digits)
<1>6. n \in Nat /\ n \in 0 .. n /\ \A k \in Nat : k < n /\ k \in G => k + 1 \in G
  BY <1>1, <1>5
<1> HIDE DEF G, n
<1>7. \A k \in 0 .. n : k \in G
  BY <1>4, <1>6, UpTo
<1> QED  BY <1>1, <1>2, <1>6, <1>7 DEF G, n

LEMMA EscapedType ==
    ASSUME NEW digits \in Seq(Int), NEW b \in Int
    PROVE  EscapedChar(digits, b) \in 0 .. 255
<1>1. NumberOf(digits, b) \in Int
  BY NumberType
<1>2. \A n \in Int : n % 256 \in 0 .. 255
  OBVIOUS
<1> QED  BY <1>1, <1>2, Zenon DEF EscapedChar

\* A literal that is being built.
Room(l) == IF l.str = <<>> THEN l.cap = 0 ELSE HasRoom(l)
Building(l, state) == l \in Literal /\ Room(l) /\ l.state = state

LEMMA AppendToBuilds ==
    ASSUME NEW state, NEW l, Building(l, state), NEW ch \in 0 .. 255
    PROVE  /\ Building(AppendTo(l, ch), state)
           /\ state # "char" => AppendTo(l, ch).str # <<>> /\ HasRoom(AppendTo(l, ch))
<1>1. /\ l.state \in {"string", "char"} /\ l.str \in Seq(0 .. 255) /\ l.cap \in Nat
      /\ l.int \in 0 .. 2^IntBits - 1 /\ l = [state |-> l.state, str |-> l.str, cap |-> l.cap, int |-> l.int]
      /\ l.state = state
  BY DEF Building, Literal
<1>2. CASE l.state = "char"
  <2> DEFINE i == ShiftedIn(l.int, ch)
  <2>1. l.int \in Int
    <3>1. PICK p \in Nat \ {0, 1} : 2^IntBits = 256 * p
      BY IntValues
    <3> QED  BY <1>1, <3>1
  <2>2. i \in 0 .. 2^IntBits - 1
    BY <2>1, ShiftedType
  <2>3. AppendTo(l, ch) = [l EXCEPT !.int = i]
    BY <1>2 DEF AppendTo
  <2> HIDE DEF i
  <2>4. [l EXCEPT !.int = i] \in Literal
    BY <2>2 DEF Building, Literal
  <2>5. /\ [l EXCEPT !.int = i].str = l.str /\ [l EXCEPT !.int = i].cap = l.cap
        /\ [l EXCEPT !.int = i].state = l.state
    BY <1>1
  <2> QED  BY <1>1, <1>2, <2>3, <2>4, <2>5 DEF Building, Room, HasRoom
<1>3. CASE l.state # "char"
  <2> DEFINE s == Append(l.str, ch)
             c == WithRoom(Len(l.str) + 1, l.cap)
  <2>1. s \in Seq(0 .. 255) /\ Len(s) = Len(l.str) + 1 /\ Len(l.str) \in Nat /\ s # <<>>
    BY <1>1, AppendProperties, LenProperties, EmptySeq
  <2>2. Len(l.str) = 0 \/ Len(l.str) < l.cap
    BY <1>1, EmptySeq DEF Building, Room, HasRoom
  <2>3. l.str = <<>> => l.cap = 0 /\ Len(l.str) = 0
    BY DEF Building, Room
  <2>4. l.str # <<>> => Len(l.str) < l.cap
    BY DEF Building, Room, HasRoom
  <2>5. c \in Nat /\ Len(l.str) + 1 < c
    <3>1. InitialCapacity \in Nat /\ InitialCapacity > 1
      BY LexerAssumption
    <3>2. CASE l.str = <<>>
      <4>1. l.cap = 0 /\ Len(l.str) = 0
        BY <2>3, <3>2
      <4>2. c = InitialCapacity
        BY <4>1 DEF WithRoom, Grown
      <4> QED  BY <3>1, <4>1, <4>2
    <3>3. CASE l.str # <<>>
      <4>1. Len(l.str) \in Nat /\ l.cap \in Nat /\ Len(l.str) < l.cap
        BY <1>1, <2>1, <2>4, <3>3
      <4>2. c = IF Len(l.str) + 1 >= l.cap THEN 2 * l.cap ELSE l.cap
        BY <4>1 DEF WithRoom, Grown
      <4> HIDE DEF c
      <4> QED  BY <4>1, <4>2
    <3> QED  BY <3>2, <3>3
  <2>6. AppendTo(l, ch) = [l EXCEPT !.str = s, !.cap = c]
    BY <1>3 DEF AppendTo
  <2> HIDE DEF s, c
  <2>7. [l EXCEPT !.str = s, !.cap = c] \in Literal
    BY <2>1, <2>5 DEF Building, Literal
  <2>8. /\ [l EXCEPT !.str = s, !.cap = c].str = s /\ [l EXCEPT !.str = s, !.cap = c].cap = c
        /\ [l EXCEPT !.str = s, !.cap = c].state = l.state
    BY <1>1
  <2> QED  BY <1>1, <2>1, <2>5, <2>6, <2>7, <2>8 DEF Building, Room, HasRoom
<1> QED  BY <1>2, <1>3

LEMMA AppendAllBuilds ==
    ASSUME NEW state, NEW l, Building(l, state), NEW chars \in Seq(0 .. 255)
    PROVE  Building(AppendAll(l, chars), state)
<1>1. Len(chars) \in Nat /\ \A k \in 1 .. Len(chars) : chars[k] \in 0 .. 255
  BY LenProperties, ElementOfSeq
<1>2. PICK f : AfterUpTo(f, l, chars, Len(chars)) /\ AppendAll(l, chars) = f[Len(chars)]
  BY <1>1, AppendAllIs
<1> DEFINE G == {k \in Nat : k <= Len(chars) => Building(f[k], state)}
<1>3. \A k \in 0 .. Len(chars) : f[k] = IF k = 0 THEN l ELSE AppendTo(f[k - 1], chars[k])
  BY <1>2, Zenon DEF AfterUpTo
<1>4. 0 \in G
  <2>1. 0 \in 0 .. Len(chars) /\ 0 \in Nat
    BY <1>1
  <2>2. Building(f[0], state)
    BY <1>3, <2>1, Zenon
  <2> QED  BY <2>1, <2>2
<1>5. ASSUME NEW k \in Nat, k < Len(chars), k \in G PROVE k + 1 \in G
  <2>1. /\ k + 1 \in 0 .. Len(chars) /\ k + 1 # 0 /\ (k + 1) - 1 = k
        /\ k <= Len(chars) /\ k + 1 \in 1 .. Len(chars) /\ k + 1 \in Nat
    BY <1>1, <1>5
  <2>2. Building(f[k], state)
    BY <1>5, <2>1, Zenon
  <2>3. f[k + 1] = AppendTo(f[k], chars[k + 1])
    BY <1>3, <2>1, Zenon
  <2>4. Building(AppendTo(f[k], chars[k + 1]), state)
    BY <1>1, <2>1, <2>2, AppendToBuilds
  <2> QED  BY <2>1, <2>3, <2>4, Zenon
<1> DEFINE n == Len(chars)
<1>6. n \in Nat /\ n \in 0 .. n /\ \A k \in Nat : k < n /\ k \in G => k + 1 \in G
  BY <1>1, <1>5
<1> HIDE DEF G, n
<1>7. \A k \in 0 .. n : k \in G
  BY <1>4, <1>6, UpTo
<1>8. Len(chars) \in G /\ Len(chars) <= Len(chars)
  BY <1>1, <1>6, <1>7 DEF n
<1>9. Building(f[Len(chars)], state)
  BY <1>8, Zenon DEF G
<1> QED  BY <1>2, <1>9

(***************************************************************************)
(* Matching.                                                               *)
(***************************************************************************)
Item == [set: SUBSET Bytes, min: Nat, max: Nat]
Tried == [end: 0 .. Len(text), matches: BOOLEAN, open: BOOLEAN]

\* A run ends where the text does, or before a character of another kind.
RunEnds(i, set) == i = Len(text) \/ text[i + 1] \notin set
LEMMA RunStops ==
    ASSUME text \in Seq(Bytes), NEW set, NEW i \in 0 .. Len(text), NEW max \in Nat
    PROVE  /\ RunLength(set, i, max) \in 0 .. max /\ i + RunLength(set, i, max) <= Len(text)
           /\ \A j \in i + 1 .. i + RunLength(set, i, max) : text[j] \in set
           /\ RunLength(set, i, max) = max \/ RunEnds(i + RunLength(set, i, max), set)
<1> DEFINE room == Len(text) - i
           Run(k) == /\ \A j \in 1 .. k : text[i + j] \in set
                     /\ k < Len(text) - i => text[i + k + 1] \notin set
           S == {k \in 0 .. room : k = room \/ text[i + k + 1] \notin set}
<1>1. Len(text) \in Nat /\ room \in Nat /\ i + room = Len(text)
  BY LenProperties
<1>2. S \in SUBSET Nat /\ room \in S
  BY <1>1
<1>3. \A k : k \in S <=> k \in 0 .. room /\ (k = room \/ text[i + k + 1] \notin set)
  OBVIOUS
<1> HIDE DEF S
<1>4. PICK x \in S : \A y \in S : x <= y
  BY <1>2, LeastOf
<1>5. \E k \in 0 .. Len(text) - i : Run(k)
  <2>1. x \in 0 .. room /\ (x = room \/ text[i + x + 1] \notin set)
    BY <1>3, <1>4
  <2> HIDE DEF room
  <2>2. ASSUME NEW j \in 1 .. x PROVE text[i + j] \in set
    <3>0. x \in 0 .. room
      BY <2>1
    <3>1. j - 1 \in 0 .. room /\ j - 1 # room /\ ~(x <= j - 1) /\ i + (j - 1) + 1 = i + j
      BY <1>1, <2>2, <3>0
    <3>2. j - 1 \notin S
      BY <1>4, <3>1
    <3> QED  BY <1>3, <3>1, <3>2
  <2>3. x < Len(text) - i => text[i + x + 1] \notin set
    <3>1. x < room => x # room
      BY <1>1, <2>1
    <3>2. room = Len(text) - i
      BY DEF room
    <3> QED  BY <2>1, <3>1, <3>2, Zenon
  <2> USE DEF room
  <2> QED  BY <2>1, <2>2, <2>3
<1> DEFINE n == CHOOSE k \in 0 .. Len(text) - i : Run(k)
<1>6. n \in 0 .. Len(text) - i /\ Run(n)
  BY <1>5, Zenon
<1>7. RunLength(set, i, max) = IF n > max THEN max ELSE n
  BY Zenon DEF RunLength
<1> HIDE DEF n
<1>8. \A j \in 1 .. n : text[i + j] \in set
  BY <1>6
<1> DEFINE r == RunLength(set, i, max)
<1>9. r \in 0 .. max /\ i + r <= Len(text) /\ r <= n
  BY <1>1, <1>6, <1>7
<1> HIDE DEF r
<1>10. ASSUME NEW j \in i + 1 .. i + r PROVE text[j] \in set
  <2>1. j - i \in 1 .. n /\ i + (j - i) = j
    BY <1>1, <1>6, <1>9
  <2> QED  BY <1>8, <2>1
<1>11. r = max \/ RunEnds(i + r, set)
  <2>1. r = max \/ r = n
    BY <1>7 DEF r
  <2>2. n < Len(text) - i => text[i + n + 1] \notin set
    BY <1>6
  <2>3. n < Len(text) - i \/ i + n = Len(text)
    <3>1. n \in 0 .. Len(text) - i
      BY <1>6, Zenon
    <3> DEFINE l == Len(text)
    <3>2. l \in Nat /\ i \in 0 .. l /\ n \in 0 .. l - i
      BY <1>1, <3>1
    <3> HIDE DEF l
    <3>3. n < l - i \/ i + n = l
      BY <3>2
    <3> QED  BY <3>3 DEF l
  <2> QED  BY <2>1, <2>2, <2>3 DEF RunEnds
<1> QED  BY <1>9, <1>10, <1>11 DEF r

LEMMA RunIs ==
    ASSUME text \in Seq(Bytes), NEW set, NEW i \in 0 .. Len(text), NEW max \in Nat
    PROVE  /\ RunLength(set, i, max) \in 0 .. max /\ i + RunLength(set, i, max) <= Len(text)
           /\ \A j \in i + 1 .. i + RunLength(set, i, max) : text[j] \in set
  BY RunStops, Zenon

LEMMA LongerIs ==
    ASSUME text \in Seq(Bytes), NEW m \in Tried, NEW item \in Item
    PROVE  /\ Longer(m, item) \in Tried
           /\ Longer(m, item).matches =>
                 /\ m.matches /\ Longer(m, item).end \in m.end + item.min .. m.end + item.max
                 /\ \A j \in m.end + 1 .. Longer(m, item).end : text[j] \in item.set
<1>1. /\ m.end \in 0 .. Len(text) /\ m.matches \in BOOLEAN /\ item.min \in Nat /\ item.max \in Nat
      /\ Len(text) \in Nat
  BY LenProperties DEF Tried, Item
<1> DEFINE n == RunLength(item.set, m.end, item.max)
<1>2. /\ n \in 0 .. item.max /\ m.end + n <= Len(text)
      /\ \A j \in m.end + 1 .. m.end + n : text[j] \in item.set
  BY <1>1, RunIs
<1>3. Longer(m, item) = IF ~m.matches THEN m
                        ELSE [end |-> m.end + n, matches |-> n >= item.min,
                              open |-> m.end + n = Len(text) /\ n < item.max]
  BY DEF Longer
<1> HIDE DEF n
<1>4. CASE ~m.matches
  BY <1>3, <1>4
<1>5. CASE m.matches
  <2> DEFINE e == m.end + n
             b == n >= item.min
             o == e = Len(text) /\ n < item.max
  <2>1. Longer(m, item) = [end |-> e, matches |-> b, open |-> o]
    BY <1>3, <1>5
  <2>2. e \in 0 .. Len(text) /\ (b => e \in m.end + item.min .. m.end + item.max)
    BY <1>1, <1>2
  <2>3. b \in BOOLEAN /\ o \in BOOLEAN
    OBVIOUS
  <2>4. \A j \in m.end + 1 .. e : text[j] \in item.set
    BY <1>2
  <2> HIDE DEF e, b, o
  <2>5. [end |-> e, matches |-> b, open |-> o] \in Tried
    BY <2>2, <2>3, Zenon DEF Tried
  <2> QED  BY <1>5, <2>1, <2>2, <2>4, <2>5
<1> QED  BY <1>1, <1>4, <1>5

\* The text from at to end is a match of p: e[k] is where its first k parts end.
Ends(e, p, end) ==
    /\ e[0] = at /\ e[Len(p)] = end
    /\ \A k \in 1 .. Len(p) :
          /\ e[k - 1] \in Nat /\ e[k] \in e[k - 1] + p[k].min .. e[k - 1] + p[k].max
          /\ \A j \in e[k - 1] + 1 .. e[k] : text[j] \in p[k].set

\* Its last part took all it could.
Greedy(e, p) ==
    LET k == Len(p)
    IN  e[k] # e[k - 1] + p[k].max => IF e[k] = Len(text) THEN Try(p).open ELSE text[e[k] + 1] \notin p[k].set

LEMMA TryTakes ==
    ASSUME text \in Seq(Bytes), at \in 0 .. Len(text), NEW p \in Seq(Item), Try(p).matches
    PROVE  /\ Try(p).end \in 0 .. Len(text)
           /\ \E e : Ends(e, p, Try(p).end) /\ (p # <<>> => Greedy(e, p))
<1> DEFINE n == Len(p)
<1>1. n \in Nat /\ \A k \in 1 .. n : p[k] \in Item
  BY LenProperties, ElementOfSeq
<1>2. PICK f : TriedUpTo(f, p, n) /\ Try(p) = f[n]
  BY <1>1, TryIs
<1>3. \A k \in 0 .. n : f[k] = IF k = 0 THEN [end |-> at, matches |-> TRUE, open |-> FALSE]
                               ELSE Longer(f[k - 1], p[k])
  BY <1>2, Zenon DEF TriedUpTo
<1> HIDE DEF n
<1>4. f[0] = [end |-> at, matches |-> TRUE, open |-> FALSE] /\ \A k \in 1 .. n : f[k] = Longer(f[k - 1], p[k])
  <2>1. 0 \in 0 .. n /\ \A k \in 1 .. n : k \in 0 .. n /\ k # 0
    BY <1>1
  <2> QED  BY <1>3, <2>1, Zenon
<1>5. \A k \in 0 .. n : f[k] \in Tried
  <2> DEFINE G == {k \in Nat : k <= n => f[k] \in Tried}
  <2>1. 0 \in G
    <3>1. TRUE \in BOOLEAN /\ FALSE \in BOOLEAN
      OBVIOUS
    <3>2. [end |-> at, matches |-> TRUE, open |-> FALSE] \in Tried
      BY <3>1, Zenon DEF Tried
    <3>3. f[0] \in Tried
      BY <1>4, <3>2, Zenon
    <3> QED  BY <3>3
  <2>2. ASSUME NEW k \in Nat, k < n, k \in G PROVE k + 1 \in G
    <3>1. k + 1 \in 1 .. n /\ (k + 1) - 1 = k /\ k <= n /\ k + 1 \in Nat
      BY <1>1, <2>2
    <3>2. f[k] \in Tried /\ f[k + 1] = Longer(f[k], p[k + 1]) /\ p[k + 1] \in Item
      BY <1>1, <1>4, <2>2, <3>1
    <3>3. Longer(f[k], p[k + 1]) \in Tried
      BY <3>2, LongerIs
    <3> QED  BY <3>1, <3>2, <3>3
  <2>3. \A k : k \in G => (k <= n => f[k] \in Tried)
    OBVIOUS
  <2> HIDE DEF G
  <2>4. \A k \in 0 .. n : k \in G
    BY <1>1, <2>1, <2>2, UpTo
  <2> QED  BY <1>1, <2>3, <2>4
<1>6. ASSUME NEW k \in 1 .. n, f[k].matches
      PROVE  /\ f[k - 1].matches /\ f[k].end \in f[k - 1].end + p[k].min .. f[k - 1].end + p[k].max
             /\ \A j \in f[k - 1].end + 1 .. f[k].end : text[j] \in p[k].set
  <2>1. f[k - 1] \in Tried /\ p[k] \in Item /\ f[k] = Longer(f[k - 1], p[k])
    BY <1>1, <1>4, <1>5
  <2>2. Longer(f[k - 1], p[k]).matches
    BY <1>6, <2>1
  <2> DEFINE m == f[k - 1]
  <2> HIDE DEF m
  <2>3. m \in Tried /\ Longer(m, p[k]).matches
    BY <2>1, <2>2 DEF m
  <2>4. /\ m.matches /\ Longer(m, p[k]).end \in m.end + p[k].min .. m.end + p[k].max
        /\ \A j \in m.end + 1 .. Longer(m, p[k]).end : text[j] \in p[k].set
    BY <2>1, <2>3, LongerIs
  <2> QED  BY <2>1, <2>4 DEF m
<1>7. \A k \in 0 .. n : f[k].matches
  <2> DEFINE G == {k \in Nat : k <= n => f[n - k].matches}
  <2>1. 0 \in G
    BY <1>1, <1>2
  <2>2. ASSUME NEW k \in Nat, k < n, k \in G PROVE k + 1 \in G
    <3>1. n - k \in 1 .. n /\ (n - k) - 1 = n - (k + 1) /\ k <= n /\ k + 1 \in Nat
      BY <1>1, <2>2
    <3>2. f[n - k].matches
      BY <2>2, <3>1
    <3>3. f[(n - k) - 1].matches
      BY <1>6, <3>1, <3>2
    <3> QED  BY <3>1, <3>3
  <2>3. \A k : k \in G => (k <= n => f[n - k].matches)
    OBVIOUS
  <2> HIDE DEF G
  <2>4. \A k \in 0 .. n : k \in G
    BY <1>1, <2>1, <2>2, UpTo
  <2>5. ASSUME NEW k \in 0 .. n PROVE f[k].matches
    <3>1. n - k \in 0 .. n /\ n - (n - k) = k
      BY <1>1
    <3>2. f[n - (n - k)].matches
      BY <2>3, <2>4, <3>1
    <3> QED  BY <3>1, <3>2
  <2> QED  BY <2>5
<1> DEFINE e == [k \in 0 .. n |-> f[k].end]
<1>8. \A k \in 0 .. n : e[k] = f[k].end
  OBVIOUS
<1>9. \A k \in 0 .. n : f[k].end \in 0 .. Len(text)
  BY <1>5 DEF Tried
<1> HIDE DEF e
<1>10. e[0] = at /\ e[n] = Try(p).end /\ Try(p).end \in 0 .. Len(text)
  BY <1>1, <1>2, <1>4, <1>8, <1>9
<1>11. ASSUME NEW k \in 1 .. n
       PROVE  /\ e[k - 1] \in Nat /\ e[k] \in e[k - 1] + p[k].min .. e[k - 1] + p[k].max
              /\ \A j \in e[k - 1] + 1 .. e[k] : text[j] \in p[k].set
  <2>1. k \in 0 .. n /\ k - 1 \in 0 .. n
    BY <1>1
  <2>2. e[k] = f[k].end /\ e[k - 1] = f[k - 1].end /\ e[k - 1] \in Nat
    BY <1>8, <1>9, <2>1
  <2>3. f[k].matches
    BY <1>7, <2>1
  <2> QED  BY <1>6, <2>2, <2>3
<1>12. Ends(e, p, Try(p).end)
  BY <1>10, <1>11 DEF Ends, n
<1>13. ASSUME p # <<>> PROVE Greedy(e, p)
  <2> DEFINE m == f[n - 1]
             item == p[n]
             r == RunLength(item.set, m.end, item.max)
  <2>1. n \in 1 .. n /\ n - 1 \in 0 .. n
    BY <1>1, <1>13, EmptySeq DEF n
  <2>2. m \in Tried /\ item \in Item /\ m.matches /\ f[n] = Longer(m, item) /\ e[n - 1] = m.end /\ e[n] = f[n].end
    BY <1>1, <1>4, <1>5, <1>7, <1>8, <2>1
  <2> HIDE DEF m, item
  <2>3. /\ m.end \in 0 .. Len(text) /\ item.max \in Nat /\ Len(text) \in Nat
    BY <2>2, LenProperties DEF Tried, Item
  <2>4. /\ r \in 0 .. item.max /\ m.end + r <= Len(text)
        /\ r = item.max \/ RunEnds(m.end + r, item.set)
    BY <2>3, RunStops
  <2>5. f[n].end = m.end + r /\ f[n].open = (m.end + r = Len(text) /\ r < item.max)
    BY <2>2 DEF Longer
  <2> HIDE DEF r
  <2>6. e[n] # e[n - 1] + item.max => IF e[n] = Len(text) THEN Try(p).open ELSE text[e[n] + 1] \notin item.set
    <3>1. SUFFICES ASSUME e[n] # e[n - 1] + item.max
                   PROVE  IF e[n] = Len(text) THEN Try(p).open ELSE text[e[n] + 1] \notin item.set
      OBVIOUS
    <3>2. e[n] = m.end + r /\ r # item.max /\ Try(p).open = f[n].open
      BY <1>2, <2>2, <2>5, <3>1, Zenon
    <3>3. r < item.max
      BY <2>3, <2>4, <3>2
    <3>4. e[n] = Len(text) => Try(p).open
      BY <2>5, <3>2, <3>3, Zenon
    <3>5. e[n] # Len(text) => text[e[n] + 1] \notin item.set
      BY <2>4, <3>2, Zenon DEF RunEnds
    <3> QED  BY <3>4, <3>5
  <2> QED  BY <2>6, Zenon DEF Greedy, n, item
<1> QED  BY <1>10, <1>12, <1>13, Zenon

LEMMA TryFits ==
    ASSUME text \in Seq(Bytes), at \in 0 .. Len(text), NEW p \in Seq(Item), Try(p).matches
    PROVE  Try(p).end \in 0 .. Len(text) /\ \E e : Ends(e, p, Try(p).end)
  BY TryTakes, Zenon

\* A pattern that does not match: its first k - 1 parts do, and stand before a
\* character the next part does not take or where the text ends.
Stuck(e, p, k) ==
    /\ e[0] = at
    /\ \A j \in 1 .. k - 1 : /\ e[j - 1] \in Nat /\ e[j] \in e[j - 1] + p[j].min .. e[j - 1] + p[j].max
                             /\ \A i \in e[j - 1] + 1 .. e[j] : text[i] \in p[j].set
    /\ IF e[k - 1] = Len(text) THEN Try(p).open ELSE text[e[k - 1] + 1] \notin p[k].set

LEMMA TryFails ==
    ASSUME text \in Seq(Bytes), at \in 0 .. Len(text), NEW p \in Seq(Item), ~Try(p).matches,
           \A k \in 1 .. Len(p) : p[k].min = 1 /\ p[k].max >= 1
    PROVE  \E k \in 1 .. Len(p) : \E e : Stuck(e, p, k)
<1> DEFINE n == Len(p)
           start == [end |-> at, matches |-> TRUE, open |-> FALSE]
<1>1. n \in Nat /\ \A k \in 1 .. n : p[k] \in Item
  BY LenProperties, ElementOfSeq
<1>2. PICK f : TriedUpTo(f, p, n) /\ Try(p) = f[n]
  BY <1>1, TryIs
<1>3. \A k \in 0 .. n : f[k] = IF k = 0 THEN [end |-> at, matches |-> TRUE, open |-> FALSE]
                               ELSE Longer(f[k - 1], p[k])
  BY <1>2, Zenon DEF TriedUpTo
<1>3a. \A k \in 1 .. n : p[k].min = 1 /\ p[k].max >= 1
  OBVIOUS
<1> HIDE DEF n
<1>4. f[0] = start /\ \A k \in 1 .. n : f[k] = Longer(f[k - 1], p[k])
  <2>1. 0 \in 0 .. n /\ \A k \in 1 .. n : k \in 0 .. n /\ k # 0
    BY <1>1
  <2> QED  BY <1>3, <2>1, Zenon
<1>4a. start \in Tried /\ start.matches
  <2>1. TRUE \in BOOLEAN /\ FALSE \in BOOLEAN
    OBVIOUS
  <2> QED  BY <2>1, Zenon DEF Tried
<1>4b. start.end = at
  OBVIOUS
<1> HIDE DEF start
<1> DEFINE S == {k \in 0 .. n : ~f[k].matches}
<1>5. S \in SUBSET Nat /\ n \in S /\ \A k : k \in S <=> k \in 0 .. n /\ ~f[k].matches
  BY <1>1, <1>2
<1> HIDE DEF S
<1>6. PICK k \in S : \A y \in S : k <= y
  BY <1>5, LeastOf
<1>7. k \in 1 .. n /\ ~f[k].matches /\ k - 1 \in 0 .. n /\ \A j \in 0 .. k - 1 : j \in 0 .. n /\ f[j].matches
  <2>1. k \in 0 .. n /\ ~f[k].matches
    BY <1>5, <1>6
  <2>2. k # 0
    BY <1>4, <1>4a, <2>1
  <2>3. ASSUME NEW j \in 0 .. k - 1 PROVE j \in 0 .. n /\ f[j].matches
    <3>1. j \in 0 .. n /\ ~(k <= j)
      BY <1>1, <2>1
    <3> QED  BY <1>5, <1>6, <3>1
  <2> QED  BY <1>1, <2>1, <2>2, <2>3
<1>8. \A j \in 0 .. k - 1 : f[j] \in Tried
  <2> DEFINE G == {j \in Nat : j <= k - 1 => f[j] \in Tried}
  <2>1. 0 \in G
    BY <1>4, <1>4a
  <2>2. ASSUME NEW j \in Nat, j < k - 1, j \in G PROVE j + 1 \in G
    <3>1. j + 1 \in 1 .. n /\ (j + 1) - 1 = j /\ j <= k - 1 /\ j + 1 \in Nat
      BY <1>1, <1>7, <2>2
    <3>2. f[j] \in Tried /\ f[j + 1] = Longer(f[j], p[j + 1]) /\ p[j + 1] \in Item
      BY <1>1, <1>4, <2>2, <3>1
    <3>3. Longer(f[j], p[j + 1]) \in Tried
      BY <3>2, LongerIs
    <3> QED  BY <3>1, <3>2, <3>3
  <2>3. \A j : j \in G => (j <= k - 1 => f[j] \in Tried)
    OBVIOUS
  <2> HIDE DEF G
  <2>4. k - 1 \in Nat
    BY <1>7
  <2>5. \A j \in 0 .. k - 1 : j \in G
    BY <2>1, <2>2, <2>4, UpTo
  <2> QED  BY <2>3, <2>4, <2>5
<1>9. f[n] = f[k]
  <2> DEFINE G == {j \in Nat : j <= n - k => f[k + j] = f[k]}
  <2>1. 0 \in G
    <3>1. k + 0 = k
      BY <1>7
    <3> QED  BY <3>1
  <2>2. ASSUME NEW j \in Nat, j < n - k, j \in G PROVE j + 1 \in G
    <3>1. k + (j + 1) \in 1 .. n /\ (k + (j + 1)) - 1 = k + j /\ j <= n - k /\ j + 1 \in Nat
      BY <1>1, <1>7, <2>2
    <3>2. f[k + j] = f[k] /\ f[k + (j + 1)] = Longer(f[k + j], p[k + (j + 1)])
      BY <1>4, <2>2, <3>1
    <3>3. f[k + (j + 1)] = f[k]
      BY <1>7, <3>2 DEF Longer
    <3> QED  BY <3>1, <3>3
  <2>3. \A j : j \in G => (j <= n - k => f[k + j] = f[k])
    OBVIOUS
  <2> HIDE DEF G
  <2>4. n - k \in Nat /\ n - k \in 0 .. n - k /\ k + (n - k) = n /\ n - k <= n - k
    BY <1>1, <1>7
  <2>5. n - k \in G
    BY <2>1, <2>2, <2>4, UpTo
  <2>6. f[k + (n - k)] = f[k]
    BY <2>3, <2>4, <2>5
  <2> QED  BY <2>4, <2>6
<1> DEFINE e == [j \in 0 .. k - 1 |-> f[j].end]
<1>10. \A j \in 0 .. k - 1 : e[j] = f[j].end /\ e[j] \in Nat
  BY <1>8, LenProperties DEF Tried
<1> HIDE DEF e
<1>11. e[0] = at
  <2>1. 0 \in 0 .. k - 1
    BY <1>7
  <2> QED  BY <1>4, <1>4b, <1>10, <2>1
<1>12. ASSUME NEW j \in 1 .. k - 1
       PROVE  /\ e[j - 1] \in Nat /\ e[j] \in e[j - 1] + p[j].min .. e[j - 1] + p[j].max
              /\ \A i \in e[j - 1] + 1 .. e[j] : text[i] \in p[j].set
  <2>1. j \in 0 .. k - 1 /\ j - 1 \in 0 .. k - 1 /\ j \in 1 .. n
    BY <1>1, <1>7
  <2>2. e[j] = f[j].end /\ e[j - 1] = f[j - 1].end /\ e[j - 1] \in Nat
    BY <1>10, <2>1
  <2> DEFINE m == f[j - 1]
  <2>3. m \in Tried /\ p[j] \in Item /\ f[j] = Longer(m, p[j]) /\ f[j].matches
    BY <1>1, <1>4, <1>7, <1>8, <2>1
  <2> HIDE DEF m
  <2>4. /\ Longer(m, p[j]).end \in m.end + p[j].min .. m.end + p[j].max
        /\ \A i \in m.end + 1 .. Longer(m, p[j]).end : text[i] \in p[j].set
    BY <2>3, LongerIs
  <2> QED  BY <2>2, <2>3, <2>4 DEF m
<1>13. IF e[k - 1] = Len(text) THEN Try(p).open ELSE text[e[k - 1] + 1] \notin p[k].set
  <2> DEFINE m == f[k - 1]
             item == p[k]
             r == RunLength(item.set, m.end, item.max)
  <2>1. k - 1 \in 0 .. k - 1
    BY <1>7
  <2>2. m \in Tried /\ item \in Item /\ m.matches /\ f[k] = Longer(m, item) /\ e[k - 1] = m.end
        /\ item.min = 1 /\ item.max >= 1
    BY <1>1, <1>3a, <1>4, <1>7, <1>8, <1>10, <2>1
  <2> HIDE DEF m, item
  <2>3. /\ m.end \in 0 .. Len(text) /\ item.max \in Nat /\ Len(text) \in Nat
    BY <2>2, LenProperties DEF Tried, Item
  <2>4. /\ r \in 0 .. item.max /\ m.end + r <= Len(text)
        /\ r = item.max \/ RunEnds(m.end + r, item.set)
    BY <2>3, RunStops
  <2>5. f[k].matches = (r >= item.min) /\ f[k].open = (m.end + r = Len(text) /\ r < item.max)
    BY <2>2 DEF Longer
  <2> HIDE DEF r
  <2>5a. ~(r >= item.min)
    BY <1>7, <2>5, Zenon
  <2>6. r = 0
    BY <2>2, <2>3, <2>4, <2>5a
  <2>7. m.end + r = m.end /\ r < item.max
    BY <2>2, <2>3, <2>6
  <2> QED  BY <1>2, <1>9, <2>2, <2>4, <2>5, <2>7 DEF RunEnds, item
<1>14. Stuck(e, p, k)
  BY <1>11, <1>12, <1>13, Zenon DEF Stuck
<1> QED  BY <1>7, <1>14, Zenon DEF n

\* What the parts of a pattern match is what it matches.
LEMMA EndsCover ==
    ASSUME at \in Nat, NEW p \in Seq(Item), p # <<>>, NEW e, NEW end, Ends(e, p, end)
    PROVE  /\ end \in Nat /\ e[1] \in Nat /\ e[1] <= end /\ at <= e[1] /\ Len(p) \in Nat /\ 1 \in 1 .. Len(p)
           /\ \A j \in at + 1 .. end : \E i \in 1 .. Len(p) : text[j] \in p[i].set
<1> DEFINE n == Len(p)
<1>1. n \in Nat /\ n # 0 /\ \A k \in 1 .. n : p[k].min \in Nat /\ p[k].max \in Nat
  <2>1. n \in Nat /\ n # 0
    BY LenProperties, EmptySeq
  <2>2. \A k \in 1 .. n : p[k] \in Item
    BY ElementOfSeq
  <2>3. \A i \in Item : i.min \in Nat /\ i.max \in Nat
    BY DEF Item
  <2> QED  BY <2>1, <2>2, <2>3, Zenon
<1>2. /\ e[0] = at /\ e[n] = end
      /\ \A k \in 1 .. n :
            /\ e[k - 1] \in Nat /\ e[k] \in e[k - 1] + p[k].min .. e[k - 1] + p[k].max
            /\ \A j \in e[k - 1] + 1 .. e[k] : text[j] \in p[k].set
  BY DEF Ends
<1> HIDE DEF n
<1>3. ASSUME NEW k \in 1 .. n PROVE e[k] \in Nat /\ e[k - 1] \in Nat /\ e[k - 1] <= e[k]
  <2>1. e[k - 1] \in Nat /\ p[k].min \in Nat /\ p[k].max \in Nat
    BY <1>1, <1>2
  <2>2. e[k] \in e[k - 1] + p[k].min .. e[k - 1] + p[k].max
    BY <1>2
  <2> QED  BY <2>1, <2>2
<1>4. 1 \in 1 .. n /\ e[1] \in Nat /\ at <= e[1]
  <2>1. 1 \in 1 .. n /\ 1 - 1 = 0
    BY <1>1
  <2>2. e[1] \in Nat /\ e[1 - 1] <= e[1]
    BY <1>3, <2>1
  <2> QED  BY <1>2, <2>1, <2>2
<1> DEFINE Covered(k) == /\ e[k] \in Nat /\ (k # 0 => e[1] <= e[k])
                         /\ \A j \in at + 1 .. e[k] : \E i \in 1 .. n : text[j] \in p[i].set
           G == {k \in Nat : k <= n => Covered(k)}
<1>5. 0 \in G
  BY <1>2
<1>6. ASSUME NEW k \in Nat, k < n, k \in G PROVE k + 1 \in G
  <2> DEFINE m == k + 1
  <2>1. m \in 1 .. n /\ m - 1 = k /\ k <= n /\ m \in Nat /\ m # 0 /\ (k = 0 => m = 1)
    BY <1>1, <1>6
  <2>2. Covered(k)
    BY <1>6, <2>1
  <2> HIDE DEF m
  <2>3. e[m] \in Nat /\ e[k] <= e[m]
    BY <1>3, <2>1
  <2>4. e[1] <= e[m]
    BY <1>4, <2>1, <2>2, <2>3
  <2>5. ASSUME NEW j \in at + 1 .. e[m] PROVE \E i \in 1 .. n : text[j] \in p[i].set
    <3>1. CASE j <= e[k]
      BY <2>2, <2>5, <3>1
    <3>2. CASE ~(j <= e[k])
      <4>1. j \in e[m - 1] + 1 .. e[m]
        BY <2>1, <2>2, <2>3, <2>5, <3>2
      <4>2. text[j] \in p[m].set
        BY <1>2, <2>1, <4>1
      <4> QED  BY <2>1, <4>2
    <3> QED  BY <3>1, <3>2
  <2>6. Covered(m)
    BY <2>3, <2>4, <2>5
  <2> HIDE DEF Covered
  <2> QED  BY <2>1, <2>6 DEF m
<1>7. \A k : k \in G => (k <= n => Covered(k))
  BY Zenon
<1> HIDE DEF G
<1>8. n \in G /\ n <= n
  <2>1. n \in 0 .. n /\ n <= n
    BY <1>1
  <2>2. \A k \in 0 .. n : k \in G
    BY <1>1, <1>5, <1>6, UpTo
  <2> QED  BY <2>1, <2>2
<1>9. Covered(n)
  BY <1>7, <1>8
<1> QED  BY <1>1, <1>2, <1>4, <1>9 DEF n

\* A match in one line.
Inline(end) == end \in Nat /\ at + 1 <= end /\ \A j \in at + 1 .. end : text[j] # NL

LEMMA InlineMatch ==
    ASSUME at \in Nat, NEW p \in Seq(Item), p # <<>>, p[1].min >= 1,
           \A i \in 1 .. Len(p) : NL \notin p[i].set, NEW e, NEW end, Ends(e, p, end)
    PROVE  Inline(end) /\ text[at + 1] \in p[1].set
<1>1. /\ end \in Nat /\ e[1] \in Nat /\ e[1] <= end /\ at <= e[1] /\ 1 \in 1 .. Len(p)
      /\ \A j \in at + 1 .. end : \E i \in 1 .. Len(p) : text[j] \in p[i].set
  BY EndsCover
<1>2. \A j \in at + 1 .. end : text[j] # NL
  BY <1>1
<1>3. p[1].min \in Nat /\ p[1].max \in Nat
  <2>1. p[1] \in Item
    BY <1>1, ElementOfSeq
  <2> QED  BY <2>1 DEF Item
<1>4. e[0] = at /\ e[1] \in at + p[1].min .. at + p[1].max /\ \A j \in at + 1 .. e[1] : text[j] \in p[1].set
  <2>1. /\ e[1] \in e[1 - 1] + p[1].min .. e[1 - 1] + p[1].max
        /\ \A j \in e[1 - 1] + 1 .. e[1] : text[j] \in p[1].set
    BY <1>1, Zenon DEF Ends
  <2>2. e[0] = at /\ 1 - 1 = 0
    BY DEF Ends
  <2> QED  BY <2>1, <2>2
<1>5. at + 1 \in at + 1 .. e[1]
  BY <1>1, <1>3, <1>4
<1> QED  BY <1>1, <1>2, <1>3, <1>4, <1>5 DEF Inline

LEMMA Tuples ==
    ASSUME NEW a \in Item, NEW b \in Item, NEW c \in Item
    PROVE  /\ <<a>> \in Seq(Item) /\ Len(<<a>>) = 1 /\ <<a>>[1] = a /\ <<a>> # <<>>
           /\ <<a, b>> \in Seq(Item) /\ Len(<<a, b>>) = 2 /\ <<a, b>> # <<>>
           /\ <<a, b>>[1] = a /\ <<a, b>>[2] = b
           /\ <<a, b, c>> \in Seq(Item) /\ Len(<<a, b, c>>) = 3 /\ <<a, b, c>> # <<>>
           /\ <<a, b, c>>[1] = a /\ <<a, b, c>>[2] = b /\ <<a, b, c>>[3] = c
  OBVIOUS

LEMMA Items ==
    ASSUME NEW s \in SUBSET Bytes, NEW a \in Nat, NEW b \in Nat
    PROVE  Of(s, a, b) \in Item /\ Of(s, a, b).set = s /\ Of(s, a, b).min = a /\ Of(s, a, b).max = b
  BY DEF Of, Item

LEMMA Ones ==
    ASSUME NEW c \in Bytes
    PROVE  One(c) \in Item /\ One(c).set = {c} /\ One(c).min = 1 /\ One(c).max = 1
  BY DEF One, Of, Item

\* A pattern whose matches stay in their line, and start with its first part.
Stays(p) == p \in Seq(Item) /\ p # <<>> /\ p[1].min >= 1 /\ \A i \in 1 .. Len(p) : NL \notin p[i].set

LEMMA StaysOne ==
    ASSUME NEW a \in Item, a.min >= 1, NL \notin a.set
    PROVE  Stays(<<a>>) /\ <<a>>[1] = a
<1>1. <<a>> \in Seq(Item) /\ Len(<<a>>) = 1 /\ <<a>>[1] = a /\ <<a>> # <<>>
  BY Tuples
<1>2. \A i \in 1 .. 1 : i = 1
  OBVIOUS
<1> QED  BY <1>1, <1>2 DEF Stays

LEMMA StaysTwo ==
    ASSUME NEW a \in Item, NEW b \in Item, a.min >= 1, NL \notin a.set, NL \notin b.set
    PROVE  Stays(<<a, b>>) /\ <<a, b>>[1] = a
<1>1. <<a, b>> \in Seq(Item) /\ Len(<<a, b>>) = 2 /\ <<a, b>>[1] = a /\ <<a, b>>[2] = b /\ <<a, b>> # <<>>
  BY Tuples
<1>2. \A i \in 1 .. 2 : i = 1 \/ i = 2
  OBVIOUS
<1> QED  BY <1>1, <1>2 DEF Stays

LEMMA StaysThree ==
    ASSUME NEW a \in Item, NEW b \in Item, NEW c \in Item,
           a.min >= 1, NL \notin a.set, NL \notin b.set, NL \notin c.set
    PROVE  Stays(<<a, b, c>>) /\ <<a, b, c>>[1] = a
<1>1. /\ <<a, b, c>> \in Seq(Item) /\ Len(<<a, b, c>>) = 3 /\ <<a, b, c>> # <<>>
      /\ <<a, b, c>>[1] = a /\ <<a, b, c>>[2] = b /\ <<a, b, c>>[3] = c
  BY Tuples
<1>2. \A i \in 1 .. 3 : i = 1 \/ i = 2 \/ i = 3
  OBVIOUS
<1> QED  BY <1>1, <1>2 DEF Stays

TokenRules == {"operator", "number", "hexNumber", "word"}
TextRules == {"blank", "octal", "hexEscape", "simpleEscape", "stringText", "charText"}

LEMMA CharSets ==
    /\ Digits \in SUBSET Bytes /\ HexDigits \in SUBSET Bytes /\ OctalDigits \in SUBSET Bytes
    /\ Letters \in SUBSET Bytes /\ DOMAIN SimpleEscapes \in SUBSET Bytes
    /\ {NL, DQ, SQ} \cap (Digits \cup HexDigits \cup OctalDigits \cup Letters \cup {48, 120, 88}) = {}
    /\ NL \notin DOMAIN SimpleEscapes /\ NL \notin {32, TAB} /\ NL # BS
    /\ {NL, DQ, SQ, BS, CR, 48, 120} \subseteq Bytes
    /\ {120, 88} \in SUBSET Bytes /\ {32, TAB} \in SUBSET Bytes
    /\ Many \in Nat
  BY DEF Digits, HexDigits, OctalDigits, Letters, SimpleEscapes, Bytes, TAB, NL, CR, DQ, SQ, BS, Many

\* The rules that return what they match, without its newline or quotes.
LEMMA TokenPatterns ==
    ASSUME NEW r \in TokenRules, NEW p \in Patterns[r]
    PROVE  Stays(p) /\ {DQ, SQ} \cap p[1].set = {}
<1>1. CASE r = "operator"
  <2>1. PICK op \in Operators : p = [i \in DOMAIN op |-> One(op[i])]
    BY <1>1 DEF Patterns
  <2>2. op \in Seq(Bytes) /\ op # <<>> /\ \A i \in DOMAIN op : op[i] \notin {NL, DQ, SQ}
    BY LexerAssumption DEF Bytes
  <2> HIDE DEF Bytes
  <2>3. Len(op) \in Nat /\ Len(op) # 0 /\ DOMAIN op = 1 .. Len(op) /\ \A i \in 1 .. Len(op) : op[i] \in Bytes
    BY <2>2, LenProperties, ElementOfSeq, EmptySeq
  <2>4. \A i \in 1 .. Len(op) : p[i] = One(op[i]) /\ p[i] \in Item /\ p[i].set = {op[i]} /\ p[i].min = 1
    BY <2>1, <2>3, Ones
  <2>5. DOMAIN p = 1 .. Len(op) /\ p = [i \in 1 .. Len(op) |-> One(op[i])]
    BY <2>1, <2>3
  <2>6. p \in [1 .. Len(op) -> Item]
    BY <2>3, <2>5, Ones
  <2>7. p \in Seq(Item) /\ Len(p) = Len(op)
    BY <2>3, <2>5, <2>6, SeqDef, LenProperties
  <2>8. 1 \in 1 .. Len(op) /\ p # <<>>
    BY <2>3, <2>7, EmptySeq
  <2>9. {DQ, SQ} \cap p[1].set = {} /\ \A i \in 1 .. Len(p) : NL \notin p[i].set
    BY <2>2, <2>3, <2>4, <2>7, <2>8
  <2> QED  BY <2>4, <2>7, <2>8, <2>9 DEF Stays
<1>2. CASE r = "number"
  <2> DEFINE a == Of(Digits, 1, Many)
  <2>1. p = <<a>>
    BY <1>2 DEF Patterns
  <2>2. a \in Item /\ a.set = Digits /\ a.min = 1
    BY CharSets, Items
  <2> HIDE DEF a
  <2> QED  BY <2>1, <2>2, CharSets, StaysOne
<1>3. CASE r = "hexNumber"
  <2> DEFINE a == One(48)
             b == Of({120, 88}, 1, 1)
             c == Of(HexDigits, 1, Many)
  <2>1. p = <<a, b, c>>
    BY <1>3 DEF Patterns
  <2>2. a \in Item /\ a.set = {48} /\ a.min = 1
    BY CharSets, Ones
  <2>3. b \in Item /\ b.set = {120, 88} /\ c \in Item /\ c.set = HexDigits
    BY CharSets, Items
  <2> HIDE DEF a, b, c
  <2> QED  BY <2>1, <2>2, <2>3, CharSets, StaysThree
<1>4. CASE r = "word"
  <2> DEFINE a == Of(Letters, 1, 1)
             b == Of(Letters \cup Digits, 0, Many)
  <2>1. p = <<a, b>>
    BY <1>4 DEF Patterns
  <2>2. a \in Item /\ a.set = Letters /\ a.min = 1 /\ b \in Item /\ b.set = Letters \cup Digits
    BY CharSets, Items
  <2> HIDE DEF a, b
  <2> QED  BY <2>1, <2>2, CharSets, StaysTwo
<1> QED  BY <1>1, <1>2, <1>3, <1>4 DEF TokenRules

LEMMA TextPatterns ==
    ASSUME NEW r \in TextRules, NEW p \in Patterns[r]
    PROVE  Stays(p)
<1>1. CASE r = "blank"
  <2> DEFINE a == Of({32, TAB}, 1, Many)
  <2>1. p = <<a>>
    BY <1>1 DEF Patterns
  <2>2. a \in Item /\ a.set = {32, TAB} /\ a.min = 1
    BY CharSets, Items
  <2> HIDE DEF a
  <2> QED  BY <2>1, <2>2, CharSets, StaysOne
<1>2. CASE r = "octal"
  <2> DEFINE a == One(BS)
             b == Of(OctalDigits, 1, 3)
  <2>1. p = <<a, b>>
    BY <1>2 DEF Patterns, Escape
  <2>2. a \in Item /\ a.set = {BS} /\ a.min = 1 /\ b \in Item /\ b.set = OctalDigits
    BY CharSets, Ones, Items
  <2> HIDE DEF a, b
  <2> QED  BY <2>1, <2>2, CharSets, StaysTwo
<1>3. CASE r = "hexEscape"
  <2> DEFINE a == One(BS)
             b == One(120)
             c == Of(HexDigits, 1, 2)
  <2>1. p = <<a, b, c>>
    BY <1>3 DEF Patterns
  <2>2. a \in Item /\ a.set = {BS} /\ a.min = 1 /\ b \in Item /\ b.set = {120}
    BY CharSets, Ones
  <2>3. c \in Item /\ c.set = HexDigits
    BY CharSets, Items
  <2> HIDE DEF a, b, c
  <2> QED  BY <2>1, <2>2, <2>3, CharSets, StaysThree
<1>4. CASE r = "simpleEscape"
  <2> DEFINE a == One(BS)
             b == Of(DOMAIN SimpleEscapes, 1, 1)
  <2>1. p = <<a, b>>
    BY <1>4 DEF Patterns, Escape
  <2>2. a \in Item /\ a.set = {BS} /\ a.min = 1 /\ b \in Item /\ b.set = DOMAIN SimpleEscapes
    BY CharSets, Ones, Items
  <2> HIDE DEF a, b
  <2> QED  BY <2>1, <2>2, CharSets, StaysTwo
<1>5. CASE r = "stringText" \/ r = "charText"
  <2> DEFINE q == IF r = "stringText" THEN DQ ELSE SQ
             a == Of(But({BS, q, NL}), 1, Many)
  <2>1. p = <<a>>
    <3>1. Patterns["stringText"] = {<<Of(But({BS, DQ, NL}), 1, Many)>>}
      BY DEF Patterns
    <3>2. Patterns["charText"] = {<<Of(But({BS, SQ, NL}), 1, Many)>>}
      BY DEF Patterns
    <3>3. "stringText" # "charText"
      OBVIOUS
    <3>4. CASE r = "stringText"
      <4>1. q = DQ
        BY <3>4
      <4> HIDE DEF q
      <4> QED  BY <3>1, <3>4, <4>1
    <3>5. CASE r = "charText"
      <4>1. q = SQ
        BY <3>5
      <4> HIDE DEF q
      <4> QED  BY <3>2, <3>5, <4>1
    <3> QED  BY <1>5, <3>4, <3>5
  <2>2. But({BS, q, NL}) \in SUBSET Bytes /\ NL \notin But({BS, q, NL})
    BY DEF But, Bytes
  <2> HIDE DEF q
  <2>3. a \in Item /\ a.set = But({BS, q, NL}) /\ a.min = 1
    <3> DEFINE others == But({BS, q, NL})
               one == 1
    <3>1. others \in SUBSET Bytes /\ one \in Nat /\ Many \in Nat /\ a = Of(others, one, Many)
      BY <2>2, CharSets
    <3> HIDE DEF others, one, a
    <3>2. a \in Item /\ a.set = others /\ a.min = one
      BY <3>1, Items
    <3> QED  BY <3>2 DEF others, one
  <2> HIDE DEF a
  <2> QED  BY <2>1, <2>2, <2>3, StaysOne
<1> QED  BY <1>1, <1>2, <1>3, <1>4, <1>5 DEF TextRules

\* A pattern of one character.
Chars == [openString |-> DQ, openChar |-> SQ, closeString |-> DQ, closeChar |-> SQ, stringNewline |-> NL]

LEMMA CharPatterns ==
    ASSUME at \in Nat, NEW r \in DOMAIN Chars, NEW p \in Patterns[r], NEW e, NEW end, Ends(e, p, end)
    PROVE  end = at + 1 /\ text[at + 1] = Chars[r]
<1> DEFINE c == Chars[r]
           a == One(c)
<1>1. p = <<a>> /\ c \in Bytes
  BY DEF Patterns, Chars, Bytes, DQ, SQ, NL
<1>2. a.set = {c} /\ a.min = 1 /\ a.max = 1 /\ a \in Item
  BY <1>1, Ones
<1> HIDE DEF a, c
<1>3. Len(p) = 1 /\ p[1] = a
  BY <1>1, <1>2, Tuples
<1>4. e[0] = at /\ e[1] = end /\ 1 \in 1 .. 1 /\ 1 - 1 = 0
  BY <1>3 DEF Ends
<1>5. /\ e[1] \in e[0] + 1 .. e[0] + 1
      /\ \A j \in e[0] + 1 .. e[1] : text[j] \in {c}
  BY <1>2, <1>3, <1>4, Zenon DEF Ends
<1> QED  BY <1>4, <1>5 DEF c

\* \r?\n
LEMMA NewlinePattern ==
    ASSUME at \in Nat, NEW p \in Patterns["newline"], NEW e, NEW end, Ends(e, p, end)
    PROVE  end \in {at + 1, at + 2} /\ text[end] = NL /\ \A j \in at + 1 .. end - 1 : text[j] # NL
<1> DEFINE a == Of({CR}, 0, 1)
           b == One(NL)
<1>1. p = <<a, b>>
  BY DEF Patterns
<1>2. a \in Item /\ a.set = {CR} /\ a.min = 0 /\ a.max = 1
  <2>1. {CR} \in SUBSET Bytes
    BY DEF Bytes, CR
  <2> QED  BY <2>1, Items
<1>3. b \in Item /\ b.set = {NL} /\ b.min = 1 /\ b.max = 1
  BY CharSets, Ones
<1> HIDE DEF a, b
<1>4. Len(p) = 2 /\ p[1] = a /\ p[2] = b
  BY <1>1, <1>2, <1>3, Tuples
<1>5. e[0] = at /\ e[2] = end /\ 1 \in 1 .. 2 /\ 2 \in 1 .. 2 /\ 1 - 1 = 0 /\ 2 - 1 = 1
  BY <1>4 DEF Ends
<1>6. /\ e[1] \in e[0] + 0 .. e[0] + 1 /\ \A j \in e[0] + 1 .. e[1] : text[j] \in {CR}
      /\ e[1] \in Nat /\ e[2] \in e[1] + 1 .. e[1] + 1 /\ \A j \in e[1] + 1 .. e[2] : text[j] \in {NL}
  BY <1>2, <1>3, <1>4, <1>5, ZenonT(60) DEF Ends
<1> QED  BY <1>5, <1>6 DEF CR, NL

\* A backslash and a character.
LEMMA EscapePattern ==
    ASSUME at \in Nat, NEW p \in Patterns["simpleEscape"], NEW e, NEW end, Ends(e, p, end)
    PROVE  end = at + 2 /\ text[at + 2] \in DOMAIN SimpleEscapes
<1> DEFINE a == One(BS)
           b == Of(DOMAIN SimpleEscapes, 1, 1)
<1>1. p = <<a, b>>
  BY DEF Patterns, Escape
<1>2. a \in Item /\ a.set = {BS} /\ a.min = 1 /\ a.max = 1
  BY CharSets, Ones
<1>3. b \in Item /\ b.set = DOMAIN SimpleEscapes /\ b.min = 1 /\ b.max = 1
  BY CharSets, Items
<1> HIDE DEF a, b
<1>4. Len(p) = 2 /\ p[1] = a /\ p[2] = b
  BY <1>1, <1>2, <1>3, Tuples
<1>5. e[0] = at /\ e[2] = end /\ 1 \in 1 .. 2 /\ 2 \in 1 .. 2 /\ 1 - 1 = 0 /\ 2 - 1 = 1
  BY <1>4 DEF Ends
<1>6. /\ e[1] \in e[0] + 1 .. e[0] + 1
      /\ e[2] \in e[1] + 1 .. e[1] + 1 /\ \A j \in e[1] + 1 .. e[2] : text[j] \in DOMAIN SimpleEscapes
  BY <1>2, <1>3, <1>4, <1>5, Zenon DEF Ends
<1> QED  BY <1>5, <1>6

AllRules == TokenRules \cup TextRules \cup DOMAIN Chars \cup {"newline"}

LEMMA PatternTypes ==
    ASSUME NEW r \in AllRules, NEW p \in Patterns[r]
    PROVE  p \in Seq(Item)
<1>1. CASE r \in TokenRules
  BY <1>1, TokenPatterns DEF Stays
<1>2. CASE r \in TextRules
  BY <1>2, TextPatterns DEF Stays
<1>3. CASE r \in DOMAIN Chars
  <2> DEFINE a == One(Chars[r])
  <2>1. p = <<a>> /\ Chars[r] \in Bytes
    BY <1>3 DEF Patterns, Chars, Bytes, DQ, SQ, NL
  <2>2. a \in Item
    BY <2>1, Ones
  <2> HIDE DEF a
  <2> QED  BY <2>1, <2>2, Tuples
<1>4. CASE r = "newline"
  <2> DEFINE a == Of({CR}, 0, 1)
             b == One(NL)
  <2>1. p = <<a, b>>
    BY <1>4 DEF Patterns
  <2>2. {CR} \in SUBSET Bytes
    BY DEF Bytes, CR
  <2>3. a \in Item /\ b \in Item
    BY <2>2, CharSets, Items, Ones
  <2> HIDE DEF a, b
  <2> QED  BY <2>1, <2>3, Tuples
<1> QED  BY <1>1, <1>2, <1>3, <1>4 DEF AllRules

\* What every match is, and what each rule's match is.
Matched(m) ==
    /\ Running /\ at < Len(text) /\ m.n \in 1 .. Len(text) - at
    /\ m.lexeme \in Seq(Bytes) /\ Len(m.lexeme) = m.n /\ \A i \in 1 .. m.n : m.lexeme[i] = text[at + i]
    /\ m.rule = "default" => m.n = 1
    /\ m.rule # "default" => m.rule \in RulesOf[cond]
    /\ m.rule \in TokenRules \cup TextRules => Inline(at + m.n)
    /\ m.rule \in TokenRules => text[at + 1] \notin {DQ, SQ}
    /\ m.rule \in DOMAIN Chars => m.n = 1 /\ text[at + 1] = Chars[m.rule]
    /\ m.rule = "newline" => text[at + m.n] = NL /\ \A j \in at + 1 .. at + m.n - 1 : text[j] # NL
    /\ m.rule = "simpleEscape" => m.n = 2 /\ text[at + 2] \in DOMAIN SimpleEscapes

LEMMA RulesAreAll ==
    ASSUME cond \in DOMAIN RulesOf, NEW r \in RulesOf[cond]
    PROVE  r \in AllRules /\ r # "default"
  BY DEF RulesOf, InLiteral, AllRules, TokenRules, TextRules, Chars

LEMMA RulesApart ==
    /\ "default" \notin AllRules /\ "newline" \notin TokenRules \cup TextRules \cup DOMAIN Chars
    /\ (TokenRules \cup TextRules) \cap DOMAIN Chars = {} /\ TokenRules \cap TextRules = {}
    /\ "simpleEscape" \in TextRules
  BY DEF AllRules, TokenRules, TextRules, Chars

LEMMA LexemeIs ==
    ASSUME text \in Seq(Bytes), at \in 0 .. Len(text), NEW n \in 1 .. Len(text) - at
    PROVE  /\ SubSeq(text, at + 1, at + n) \in Seq(Bytes) /\ Len(SubSeq(text, at + 1, at + n)) = n
           /\ \A i \in 1 .. n : SubSeq(text, at + 1, at + n)[i] = text[at + i]
<1>1. Len(text) \in Nat
  BY LenProperties
<1>2. /\ at + 1 \in 1 .. Len(text) /\ at + n \in 1 .. Len(text)
      /\ at + 1 <= at + n /\ (at + n) - (at + 1) + 1 = n
  BY <1>1
<1> DEFINE s == SubSeq(text, at + 1, at + n)
<1> HIDE DEF Bytes
<1>3. s \in Seq(Bytes) /\ Len(s) = n
  BY <1>1, <1>2, SubSeqProperties
<1>4. ASSUME NEW i \in 1 .. n PROVE s[i] = text[at + i]
  <2>1. (at + 1) + i - 1 = at + i
    BY <1>1
  <2> QED  BY <1>1, <1>2, <2>1, SubSeqProperties
<1> QED  BY <1>3, <1>4

LEMMA MatchesAre ==
    ASSUME text \in Seq(Bytes), at \in 0 .. Len(text), cond \in DOMAIN RulesOf, NEW m \in Matches
    PROVE  Matched(m)
<1> DEFINE tries == Tries
           found == {t \in tries : t.try.matches}
           longest == {t \in found : \A u \in found : u.try.end <= t.try.end}
<1>0. Len(text) \in Nat /\ at \in Nat
  BY LenProperties
<1>1. Running /\ at # Len(text)
  BY DEF Matches
<1>2. \/ m = [rule |-> "default", n |-> 1, lexeme |-> <<text[at + 1]>>]
      \/ \E t \in longest : m = [rule |-> t.rule, n |-> t.try.end - at, lexeme |-> SubSeq(text, at + 1, t.try.end)]
  BY Zenon DEF Matches
<1>3. CASE m = [rule |-> "default", n |-> 1, lexeme |-> <<text[at + 1]>>]
  <2>1. m.rule = "default" /\ m.n = 1 /\ m.lexeme = <<text[at + 1]>>
    BY <1>3
  <2>2. at + 1 \in 1 .. Len(text) /\ at < Len(text) /\ 1 \in 1 .. Len(text) - at
    BY <1>0, <1>1
  <2>3. text[at + 1] \in Bytes
    BY <2>2, ElementOfSeq
  <2>4. <<text[at + 1]>> \in Seq(Bytes) /\ Len(<<text[at + 1]>>) = 1 /\ <<text[at + 1]>>[1] = text[at + 1]
    BY <2>3
  <2>5. \A i \in 1 .. 1 : i = 1
    OBVIOUS
  <2>6. m.rule \notin TokenRules \cup TextRules \cup DOMAIN Chars \cup {"newline", "simpleEscape"}
    BY <2>1, RulesApart DEF AllRules
  <2> QED  BY <1>1, <2>1, <2>2, <2>4, <2>5, <2>6, Zenon DEF Matched
<1>4. CASE \E t \in longest : m = [rule |-> t.rule, n |-> t.try.end - at, lexeme |-> SubSeq(text, at + 1, t.try.end)]
  <2>1. PICK t \in longest : m = [rule |-> t.rule, n |-> t.try.end - at, lexeme |-> SubSeq(text, at + 1, t.try.end)]
    BY <1>4
  <2>2. t \in Tries /\ t.try.matches
    BY <2>1
  <2>3. PICK r \in RulesOf[cond] : \E p \in Patterns[r] : t = [rule |-> r, try |-> Try(p)]
    BY <2>2 DEF Tries
  <2>4. PICK p \in Patterns[r] : t = [rule |-> r, try |-> Try(p)]
    BY <2>3
  <2>5. r \in AllRules /\ r # "default"
    BY RulesAreAll
  <2>6. p \in Seq(Item)
    BY <2>5, PatternTypes
  <2> DEFINE end == Try(p).end
             n == end - at
  <2>7. Try(p).matches /\ t.rule = r /\ t.try.end = end
    BY <2>2, <2>4
  <2>8. end \in 0 .. Len(text) /\ \E e : Ends(e, p, end)
    BY <2>6, <2>7, TryFits
  <2>9. PICK e : Ends(e, p, end)
    BY <2>8
  <2>10. m.rule = r /\ m.n = n /\ m.lexeme = SubSeq(text, at + 1, end)
    BY <2>1, <2>7
  <2> HIDE DEF end
  <2>11. ASSUME r \in TokenRules \cup TextRules
         PROVE  Inline(end) /\ (r \in TokenRules => text[at + 1] \notin {DQ, SQ})
    <3>1. Stays(p) /\ (r \in TokenRules => {DQ, SQ} \cap p[1].set = {})
      BY <2>11, TokenPatterns, TextPatterns
    <3>2. Inline(end) /\ text[at + 1] \in p[1].set
      BY <1>0, <2>9, <3>1, InlineMatch DEF Stays
    <3> QED  BY <3>1, <3>2
  <2>12. r \in DOMAIN Chars => end = at + 1 /\ text[at + 1] = Chars[r]
    BY <1>0, <2>9, CharPatterns
  <2>13. r = "newline" => end \in {at + 1, at + 2} /\ text[end] = NL /\ \A j \in at + 1 .. end - 1 : text[j] # NL
    BY <1>0, <2>9, NewlinePattern
  <2>14. r = "simpleEscape" => end = at + 2 /\ text[at + 2] \in DOMAIN SimpleEscapes
    BY <1>0, <2>9, EscapePattern
  <2>15. end \in Nat /\ at + 1 <= end /\ end <= Len(text)
    <3>1. CASE r \in TokenRules \cup TextRules
      BY <1>0, <2>8, <2>11, <3>1 DEF Inline
    <3>2. CASE r \in DOMAIN Chars
      BY <1>0, <2>8, <2>12, <3>2
    <3>3. CASE r = "newline"
      BY <1>0, <2>8, <2>13, <3>3
    <3> QED  BY <2>5, <3>1, <3>2, <3>3 DEF AllRules
  <2>16. /\ n \in 1 .. Len(text) - at /\ at + n = end /\ at < Len(text)
         /\ end = at + 1 => n = 1
         /\ end = at + 2 => n = 2
    BY <1>0, <2>15
  <2>17. /\ m.lexeme \in Seq(Bytes) /\ Len(m.lexeme) = n
         /\ \A i \in 1 .. n : m.lexeme[i] = text[at + i]
    <3> HIDE DEF n
    <3> QED  BY <2>10, <2>16, LexemeIs
  <2> HIDE DEF n
  <2>18. Running /\ at < Len(text) /\ m.n \in 1 .. Len(text) - at
    BY <1>1, <2>10, <2>16, Zenon
  <2>19. m.lexeme \in Seq(Bytes) /\ Len(m.lexeme) = m.n /\ \A i \in 1 .. m.n : m.lexeme[i] = text[at + i]
    BY <2>10, <2>17, Zenon
  <2>20. (m.rule = "default" => m.n = 1) /\ (m.rule # "default" => m.rule \in RulesOf[cond])
    BY <2>5, <2>10, Zenon
  <2>21. /\ m.rule \in TokenRules \cup TextRules => Inline(at + m.n)
         /\ m.rule \in TokenRules => text[at + 1] \notin {DQ, SQ}
    <3>1. r \in TokenRules => r \in TokenRules \cup TextRules
      OBVIOUS
    <3> QED  BY <2>10, <2>11, <2>16, <3>1, Zenon
  <2>22. m.rule \in DOMAIN Chars => m.n = 1 /\ text[at + 1] = Chars[m.rule]
    BY <2>10, <2>12, <2>16, Zenon
  <2>23. m.rule = "newline" => text[at + m.n] = NL /\ \A j \in at + 1 .. at + m.n - 1 : text[j] # NL
    <3>1. SUFFICES ASSUME m.rule = "newline"
                   PROVE  text[at + m.n] = NL /\ \A j \in at + 1 .. at + m.n - 1 : text[j] # NL
      OBVIOUS
    <3>2. at + m.n = end
      BY <2>10, <2>16
    <3>3. text[end] = NL /\ \A j \in at + 1 .. end - 1 : text[j] # NL
      BY <2>10, <2>13, <3>1
    <3>4. at + m.n - 1 = end - 1
      BY <1>0, <2>8, <2>10, <2>16, <3>2
    <3> QED  BY <3>2, <3>3, <3>4, Zenon
  <2>24. m.rule = "simpleEscape" => m.n = 2 /\ text[at + 2] \in DOMAIN SimpleEscapes
    BY <2>10, <2>14, <2>16, Zenon
  <2> QED  BY <2>18, <2>19, <2>20, <2>21, <2>22, <2>23, <2>24, Zenon DEF Matched
<1> QED  BY <1>2, <1>3, <1>4

(***************************************************************************)
(* Lines of a text.                                                        *)
(***************************************************************************)
Newlines(t, i) == {j \in 1 .. i - 1 : t[j] = NL}
LinesOf(t, i) == Cardinality(Newlines(t, i))
Furthest(ends) == CHOOSE e \in ends : \A f \in ends : f <= e
StartOf(t, i) == Furthest(Newlines(t, i) \cup {0})

LEMMA NewlinesSame ==
    ASSUME NEW t, NEW u, NEW i \in Nat, \A j \in 1 .. i - 1 : t[j] = u[j]
    PROVE  LinesOf(t, i) = LinesOf(u, i) /\ StartOf(t, i) = StartOf(u, i)
<1>1. Newlines(t, i) = Newlines(u, i)
  BY DEF Newlines
<1> QED  BY <1>1, Zenon DEF LinesOf, StartOf

LEMMA NewlinesStay ==
    ASSUME NEW t, NEW i \in Nat \ {0}, NEW k \in Nat, i <= k, \A j \in i .. k - 1 : t[j] # NL
    PROVE  LinesOf(t, k) = LinesOf(t, i) /\ StartOf(t, k) = StartOf(t, i)
<1>1. Newlines(t, k) = Newlines(t, i)
  BY DEF Newlines
<1> QED  BY <1>1, Zenon DEF LinesOf, StartOf

LEMMA FurthestIs ==
    ASSUME NEW n \in Nat, NEW ends \in SUBSET (0 .. n), 0 \in ends
    PROVE  Furthest(ends) \in ends /\ \A f \in ends : f <= Furthest(ends)
<1> DEFINE S == {d \in 0 .. n : n - d \in ends}
<1>1. S \in SUBSET Nat /\ n \in S /\ \A d : d \in S <=> d \in 0 .. n /\ n - d \in ends
  OBVIOUS
<1> HIDE DEF S
<1>2. PICK x \in S : \A y \in S : x <= y
  BY <1>1, LeastOf
<1>3. x \in 0 .. n /\ n - x \in ends
  BY <1>1
<1>4. ASSUME NEW f \in ends PROVE f <= n - x
  <2>1. f \in 0 .. n /\ n - f \in 0 .. n /\ n - (n - f) = f
    OBVIOUS
  <2>2. x <= n - f
    BY <1>1, <1>2, <2>1
  <2> QED  BY <1>3, <2>1, <2>2
<1>5. \E e \in ends : \A f \in ends : f <= e
  BY <1>3, <1>4
<1> QED  BY <1>5, Zenon DEF Furthest

LEMMA StartIs ==
    ASSUME NEW t, NEW i \in Nat \ {0}
    PROVE  StartOf(t, i) \in 0 .. i - 1 /\ LinesOf(t, i) \in Nat /\ IsFiniteSet(Newlines(t, i))
<1> DEFINE ends == Newlines(t, i) \cup {0}
           n == i - 1
<1>1. n \in Nat /\ ends \in SUBSET (0 .. n) /\ 0 \in ends
  BY DEF Newlines
<1>2. IsFiniteSet(Newlines(t, i))
  <2>1. Newlines(t, i) \subseteq 1 .. n /\ 1 \in Int /\ n \in Int
    BY DEF Newlines
  <2>2. IsFiniteSet(1 .. n)
    BY <2>1, FS_Interval
  <2> QED  BY <2>1, <2>2, FS_Subset
<1> HIDE DEF ends, n
<1>3. Furthest(ends) \in 0 .. n
  BY <1>1, FurthestIs
<1> QED  BY <1>2, <1>3, FS_CardinalityType DEF StartOf, LinesOf, ends, n

LEMMA NewlinesNext ==
    ASSUME NEW t, NEW i \in Nat \ {0}, t[i] = NL
    PROVE  LinesOf(t, i + 1) = LinesOf(t, i) + 1 /\ StartOf(t, i + 1) = i
<1>1. Newlines(t, i + 1) = Newlines(t, i) \cup {i} /\ i \notin Newlines(t, i)
  BY DEF Newlines
<1>2. LinesOf(t, i + 1) = LinesOf(t, i) + 1
  <2> DEFINE s == Newlines(t, i)
  <2> HIDE DEF s
  <2>1. IsFiniteSet(s) /\ i \notin s
    BY <1>1, StartIs DEF s
  <2>2. Cardinality(s \cup {i}) = Cardinality(s) + 1
    BY <2>1, FS_AddElement
  <2> QED  BY <1>1, <2>2, Zenon DEF LinesOf, s
<1>3. StartOf(t, i + 1) = i
  <2> DEFINE ends == Newlines(t, i + 1) \cup {0}
  <2>1. ends \in SUBSET (0 .. i) /\ 0 \in ends /\ i \in ends
    BY <1>1 DEF Newlines
  <2> HIDE DEF ends
  <2>2. Furthest(ends) \in ends /\ \A f \in ends : f <= Furthest(ends)
    BY <2>1, FurthestIs
  <2>3. Furthest(ends) \in 0 .. i /\ i <= Furthest(ends)
    BY <2>1, <2>2
  <2>4. Furthest(ends) = i
    BY <2>3
  <2> QED  BY <2>4, Zenon DEF StartOf, ends
<1> QED  BY <1>2, <1>3

(***************************************************************************)
(* The invariant.                                                          *)
(***************************************************************************)
Clean == NL \notin ToSet(echoed)
Placed ==
    Clean =>
        /\ place.line = LinesOf(text, at + 1) /\ place.column = at - StartOf(text, at + 1)
        /\ loc.lineOffset = StartOf(text, at + 1)
First(t, tok) == IF t[tok.from] \in {DQ, SQ} THEN tok.to ELSE tok.from
TokenPlaced(t, tok) ==
    tok.loc = [firstLine |-> LinesOf(t, First(t, tok)), lastLine |-> LinesOf(t, tok.to),
               firstColumn |-> First(t, tok) - 1 - StartOf(t, First(t, tok)),
               lastColumn |-> tok.to - 1 - StartOf(t, tok.to),
               lineOffset |-> StartOf(t, First(t, tok))]

\* The FILE and what flex has of it.
FileInv ==
    /\ source \in Seq(Bytes) /\ seekable \in BOOLEAN /\ fpos \in 0 .. Len(source)
    /\ text \in Seq(Bytes) /\ Len(text) <= fpos /\ FileReadInOrder
\* Where the scanner is.
PlaceInv ==
    /\ at \in 0 .. Len(text) /\ loc \in Location /\ place \in [line: Nat, column: Nat, offset: {at}]
    /\ Placed
\* The literal it is in, if it is in one, and its buffer.
LiteralInv ==
    /\ cond \in DOMAIN RulesOf /\ opened \in 0 .. at /\ (opened = 0 <=> cond = "initial")
    /\ opened # 0 => text[opened] \in {DQ, SQ}
    /\ Building(lex, lex.state) /\ (cond = "string" => lex.state = "string")
\* The last token.
TokenInv ==
    /\ token.kind \in {"none", "identifier", "keyword", "number", "string", "operator", "eof"}
    /\ token.from \in Nat /\ token.to \in Nat /\ token.from <= token.to /\ token.to <= at
    /\ token.kind \notin {"none", "eof"} => token.from # 0 /\ (Clean => TokenPlaced(text, token))
    /\ token.kind = "string" => token.value \in [str: Seq(0 .. 255), cap: Nat] /\ HasRoom(token.value)
OutInv == echoed \in Seq(Bytes) /\ status \in {"scanning", "ended"}

Inv == FileInv /\ PlaceInv /\ LiteralInv /\ TokenInv /\ OutInv

\* What flex has read stays read.
TextKept == Len(text) <= Len(text') /\ \A j \in 1 .. Len(text) : text'[j] = text[j]

LEMMA InvTypes ==
    ASSUME Inv
    PROVE  TypeOK
<1>1. Bytes = 1 .. 255
  BY DEF Bytes
<1>2. /\ source \in Seq(1 .. 255) /\ seekable \in BOOLEAN /\ fpos \in 0 .. Len(source)
      /\ text \in Seq(1 .. 255) /\ at \in 0 .. Len(text) /\ Len(text) <= fpos
  BY <1>1 DEF Inv, FileInv, PlaceInv
<1>3. cond \in DOMAIN RulesOf /\ lex \in Literal /\ loc \in Location /\ opened \in 0 .. at
  BY Zenon DEF Inv, LiteralInv, PlaceInv, Building
<1>4. 0 <= token.from /\ token.from <= token.to /\ token.to <= at
  BY DEF Inv, TokenInv
<1> QED  BY <1>1, <1>2, <1>3, <1>4, Zenon DEF TypeOK, Inv, PlaceInv, TokenInv, OutInv

LEMMA InvLocates ==
    ASSUME Inv
    PROVE  TokensLocated
<1>1. SUFFICES ASSUME token.kind \notin {"none", "eof"}, Clean PROVE TokensLocated
  BY DEF TokensLocated, Clean
<1>2. TokenPlaced(text, token)
  BY <1>1 DEF Inv, TokenInv
<1>3. \A i : LineOf(i) = LinesOf(text, i) /\ LineStart(i) = StartOf(text, i)
  BY Zenon DEF LineOf, LineStart, LinesOf, StartOf, Newlines, Furthest
<1> QED  BY <1>2, <1>3, Zenon DEF TokensLocated, TokenPlaced, First

LEMMA InvHolds ==
    ASSUME Inv
    PROVE  LiteralHolds
<1>1. Room(lex)
  BY DEF Inv, LiteralInv, Building
<1>2. ASSUME token.kind = "string" PROVE HasRoom([token.value EXCEPT !.str = Front(@)])
  <2> DEFINE s == token.value.str
             c == token.value.cap
  <2>1. token.value \in [str: Seq(0 .. 255), cap: Nat] /\ HasRoom(token.value)
    BY <1>2 DEF Inv, TokenInv
  <2>2. s \in Seq(0 .. 255) /\ c \in Nat /\ Len(s) < c /\ Len(s) \in Nat
    BY <2>1, LenProperties DEF HasRoom
  <2>3. [token.value EXCEPT !.str = Front(@)] = [str |-> Front(s), cap |-> c]
    BY <2>1
  <2> HIDE DEF s, c
  <2>4. Len(Front(s)) < c
    <3>1. CASE Len(s) = 0
      <4>1. s = <<>>
        BY <2>2, <3>1, EmptySeq
      <4>2. Len(Front(s)) = 0
        BY <4>1 DEF Front
      <4> QED  BY <2>2, <4>2
    <3>2. CASE Len(s) # 0
      <4> DEFINE n == Len(s) - 1
                 B == 0 .. 255
                 one == 1
      <4>1. n \in Int /\ one \in Int /\ \A i \in one .. n : s[i] \in B
        <5>1. \A i \in 1 .. Len(s) : s[i] \in 0 .. 255
          BY <2>2, ElementOfSeq
        <5> QED  BY <2>2, <3>2, <5>1
      <4>2. (one <= n \/ n = 0) /\ n - one + 1 = n
        <5>1. n \in Nat
          BY <2>2, <3>2
        <5> HIDE DEF n
        <5> QED  BY <5>1
      <4>3. Front(s) = SubSeq(s, one, n)
        BY Zenon DEF Front
      <4> HIDE DEF n, B, one
      <4>4. Len(SubSeq(s, one, n)) = IF one <= n THEN n - one + 1 ELSE 0
        BY <4>1, SubSeqProperties
      <4>5. Len(Front(s)) = n
        BY <4>1, <4>2, <4>3, <4>4
      <4>6. n = Len(s) - 1
        BY DEF n
      <4> QED  BY <2>2, <4>5, <4>6
    <3> QED  BY <3>1, <3>2
  <2>5. HasRoom([str |-> Front(s), cap |-> c])
    BY <2>4 DEF HasRoom
  <2> QED  BY <2>3, <2>5, Zenon
<1> QED  BY <1>1, <1>2 DEF LiteralHolds, Room

(***************************************************************************)
(* The FILE.                                                               *)
(***************************************************************************)
LEMMA FileSame ==
    ASSUME FileInv, UNCHANGED file
    PROVE  FileInv' /\ TextKept /\ text' = text
  BY DEF FileInv, FileReadInOrder, file, TextKept

\* A part of a text, cut in two.
LEMMA Cut ==
    ASSUME NEW T, NEW s \in Seq(T), NEW k \in 0 .. Len(s), NEW n \in k .. Len(s)
    PROVE  /\ SubSeq(s, k + 1, n) \in Seq(T) /\ Len(SubSeq(s, k + 1, n)) = n - k
           /\ SubSeq(s, 1, n) = SubSeq(s, 1, k) \o SubSeq(s, k + 1, n)
<1>1. Len(s) \in Nat /\ \A i \in 1 .. Len(s) : s[i] \in T
  BY LenProperties, ElementOfSeq
<1> DEFINE m == k + 1
<1>2. m \in Int /\ n \in Int /\ \A i \in m .. n : s[i] \in T
  BY <1>1
<1>3. m <= n => n - m + 1 = n - k
  BY <1>1
<1>4. ~(m <= n) => n - k = 0
  BY <1>1
<1> HIDE DEF m
<1>5. SubSeq(s, m, n) \in Seq(T) /\ Len(SubSeq(s, m, n)) = n - k
  BY <1>2, <1>3, <1>4, SubSeqProperties
<1> DEFINE one == 1
<1>6. one \in 1 .. Len(s) + 1 /\ k \in one - 1 .. Len(s)
  BY <1>1
<1> HIDE DEF one
<1>7. SubSeq(s, one, k) \o SubSeq(s, k + 1, n) = SubSeq(s, one, n)
  BY <1>6, ConcatAdjacentSubSeq
<1> QED  BY <1>5, <1>7 DEF m, one

LEMMA RefillFile ==
    ASSUME FileInv, Refill
    PROVE  FileInv' /\ TextKept
<1> DEFINE upto == IF fpos + Chunk < Len(source) THEN fpos + Chunk ELSE Len(source)
           s == SubSeq(source, fpos + 1, upto)
<1>1. /\ text' = text \o s /\ fpos' = upto /\ UNCHANGED <<source, seekable>>
  BY DEF Refill
<1>2. /\ source \in Seq(Bytes) /\ seekable \in BOOLEAN /\ fpos \in 0 .. Len(source)
      /\ text \in Seq(Bytes) /\ Len(text) <= fpos /\ (seekable => text = SubSeq(source, 1, fpos))
      /\ Len(source) \in Nat /\ Len(text) \in Nat
  BY LenProperties DEF FileInv, FileReadInOrder
<1>3. upto \in fpos .. Len(source)
  BY <1>2, LexerAssumption
<1> HIDE DEF upto, Bytes
<1>4. s \in Seq(Bytes) /\ Len(s) = upto - fpos /\ SubSeq(source, 1, upto) = SubSeq(source, 1, fpos) \o s
  BY <1>2, <1>3, Cut
<1> HIDE DEF s
<1>5. /\ text \o s \in Seq(Bytes) /\ Len(text \o s) = Len(text) + (upto - fpos)
      /\ \A i \in 1 .. Len(text) + (upto - fpos) :
            (text \o s)[i] = IF i <= Len(text) THEN text[i] ELSE s[i - Len(text)]
  BY <1>2, <1>4, ConcatProperties
<1>6. Len(text \o s) <= upto /\ Len(text) <= Len(text \o s) /\ upto \in 0 .. Len(source)
  BY <1>2, <1>3, <1>5
<1>7. \A j \in 1 .. Len(text) : (text \o s)[j] = text[j]
  BY <1>2, <1>3, <1>5
<1>8. TextKept
  BY <1>1, <1>6, <1>7, Zenon DEF TextKept
<1>9. FileReadInOrder'
  BY <1>1, <1>2, <1>4, Zenon DEF FileReadInOrder
<1> QED  BY <1>1, <1>2, <1>5, <1>6, <1>8, <1>9, Zenon DEF FileInv

\* A warning that shows a line.
LEMMA DisplayFile ==
    ASSUME FileInv, DisplayLine, UNCHANGED <<source, seekable, text>>
    PROVE  FileInv' /\ TextKept
<1>1. /\ source \in Seq(Bytes) /\ fpos \in 0 .. Len(source) /\ Len(source) \in Nat /\ Len(text) <= fpos
      /\ text \in Seq(Bytes) /\ Len(text) \in Nat /\ seekable \in BOOLEAN
  BY LenProperties DEF FileInv
<1>2. fpos' \in fpos .. Len(source) /\ (seekable => fpos' = fpos)
  <2>1. CASE seekable
    BY <1>1, <2>1 DEF DisplayLine
  <2>2. CASE ~seekable
    <3> DEFINE ends == {k \in fpos + 1 .. Len(source) : source[k] = NL} \cup {Len(source)}
    <3>1. ends \in SUBSET Nat /\ ends # {} /\ \A e \in ends : e \in fpos .. Len(source)
      BY <1>1
    <3>2. LineEnd(fpos) = CHOOSE e \in ends : \A f \in ends : e <= f
      BY Zenon DEF LineEnd
    <3> HIDE DEF ends
    <3>3. \E e \in ends : \A f \in ends : e <= f
      BY <3>1, LeastOf
    <3>4. LineEnd(fpos) \in ends
      BY <3>2, <3>3, Zenon
    <3> QED  BY <2>2, <3>1, <3>4 DEF DisplayLine
  <2> QED  BY <2>1, <2>2
<1>3. fpos' \in 0 .. Len(source) /\ Len(text) <= fpos'
  BY <1>1, <1>2
<1>4. FileReadInOrder'
  BY <1>2 DEF FileReadInOrder, FileInv
<1>5. Len(text) <= Len(text)
  BY <1>1
<1> QED  BY <1>1, <1>3, <1>4, <1>5, Zenon DEF FileInv, TextKept

(***************************************************************************)
(* Where the scanner is.                                                   *)
(***************************************************************************)
Position == [line: Nat, column: Nat, offset: Nat]

LEMMA MovedIs ==
    ASSUME NEW n \in Nat, place \in Position
    PROVE  /\ Moved(n) \in Position /\ Moved(n).line = place.line
           /\ Moved(n).column = place.column + n /\ Moved(n).offset = place.offset + n
<1> DEFINE c == place.column + n
           o == place.offset + n
<1>1. c \in Nat /\ o \in Nat /\ Moved(n) = [place EXCEPT !.column = c, !.offset = o]
  BY DEF Moved, Position
<1> HIDE DEF c, o
<1>2. /\ [place EXCEPT !.column = c, !.offset = o] \in Position
      /\ [place EXCEPT !.column = c, !.offset = o].line = place.line
      /\ [place EXCEPT !.column = c, !.offset = o].column = c
      /\ [place EXCEPT !.column = c, !.offset = o].offset = o
  BY <1>1 DEF Position
<1> QED  BY <1>1, <1>2, Zenon DEF c, o

LEMMA NextLineIs ==
    ASSUME NEW p \in Position
    PROVE  /\ NextLine(p) \in Position /\ NextLine(p).line = p.line + 1
           /\ NextLine(p).column = 0 /\ NextLine(p).offset = p.offset
<1> DEFINE l == p.line + 1
           c == 0
<1>1. l \in Nat /\ c \in Nat /\ NextLine(p) = [p EXCEPT !.line = l, !.column = c]
  BY DEF NextLine, Position
<1> HIDE DEF l, c
<1>2. /\ [p EXCEPT !.line = l, !.column = c] \in Position
      /\ [p EXCEPT !.line = l, !.column = c].line = l
      /\ [p EXCEPT !.line = l, !.column = c].column = c
      /\ [p EXCEPT !.line = l, !.column = c].offset = p.offset
  BY <1>1 DEF Position
<1> QED  BY <1>1, <1>2, Zenon DEF l, c

\* update_location keeps the types.
LEMMA Located_ ==
    ASSUME PlaceInv, NEW n \in Nat \ {0}
    PROVE  /\ Located(n) \in Location /\ Located(n).lineOffset = loc.lineOffset
           /\ Located(n).firstLine = place.line /\ Located(n).lastLine = place.line
           /\ Located(n).firstColumn = place.column /\ Located(n).lastColumn = place.column + n - 1
           /\ Moved(n) \in Position /\ Moved(n).line = place.line
           /\ Moved(n).column = place.column + n /\ Moved(n).offset = at + n
           /\ place.line \in Nat /\ place.column \in Nat /\ at \in Nat
<1>1. /\ place.line \in Nat /\ place.column \in Nat /\ place.offset = at /\ loc \in Location
      /\ place = [line |-> place.line, column |-> place.column, offset |-> at] /\ at \in Nat
  BY LenProperties DEF PlaceInv
<1>2. place.column + n - 1 \in Nat
  BY <1>1
<1> DEFINE c == place.column + n - 1
           l == place.line
           d == place.column
<1>3. Located(n) = [loc EXCEPT !.firstLine = l, !.lastLine = l, !.firstColumn = d, !.lastColumn = c]
  BY DEF Located
<1>4. l \in Nat /\ d \in Nat /\ c \in Nat
  BY <1>1, <1>2
<1>5. /\ Moved(n) \in Position /\ Moved(n).line = l
      /\ Moved(n).column = d + n /\ Moved(n).offset = at + n
  <2>1. place \in Position
    BY <1>1 DEF PlaceInv, Position
  <2> QED  BY <1>1, <2>1, MovedIs
<1> HIDE DEF c, l, d
<1>6. Located(n) \in Location
  BY <1>1, <1>3, <1>4 DEF Location
<1>7. /\ Located(n).lineOffset = loc.lineOffset /\ Located(n).firstLine = l /\ Located(n).lastLine = l
      /\ Located(n).firstColumn = d /\ Located(n).lastColumn = c
  BY <1>1, <1>3 DEF Location
<1> QED  BY <1>1, <1>5, <1>6, <1>7 DEF c, l, d

\* A match inside a line.
LEMMA PlaceConsumed ==
    ASSUME FileInv, PlaceInv, text' = text, NEW n \in 1 .. Len(text) - at, Consume(n), Clean' => Clean,
           Clean' => \A j \in at + 1 .. at + n : text[j] # NL
    PROVE  PlaceInv'
<1>1. Len(text) \in Nat /\ at \in 0 .. Len(text) /\ n \in Nat \ {0}
  BY LenProperties DEF FileInv, PlaceInv
<1>2. /\ at' = at + n /\ place' = Moved(n) /\ loc' = Located(n)
  BY DEF Consume
<1>3. /\ loc' \in Location /\ loc'.lineOffset = loc.lineOffset
      /\ place' \in Position /\ place'.line = place.line
      /\ place'.column = place.column + n /\ place'.offset = at + n
      /\ place.line \in Nat /\ place.column \in Nat /\ at \in Nat
  BY <1>1, <1>2, Located_
<1>4. place'.line = place.line /\ place'.column = place.column + n /\ place'.offset = at'
  BY <1>2, <1>3
<1>5. place' \in [line: Nat, column: Nat, offset: {at'}]
  BY <1>3, <1>4 DEF Position
<1>6. at' \in 0 .. Len(text')
  BY <1>1, <1>2
<1>7. ASSUME Clean' PROVE /\ place'.line = LinesOf(text', at' + 1) /\ place'.column = at' - StartOf(text', at' + 1)
                          /\ loc'.lineOffset = StartOf(text', at' + 1)
  <2> DEFINE i == at + 1
             k == (at + n) + 1
  <2>1. /\ place.line = LinesOf(text, i) /\ place.column = at - StartOf(text, i)
        /\ loc.lineOffset = StartOf(text, i)
    BY <1>7 DEF PlaceInv, Placed
  <2>2. i \in Nat \ {0} /\ k \in Nat /\ i <= k /\ \A j \in i .. k - 1 : text[j] # NL
    BY <1>1, <1>7
  <2>3. k = at' + 1
    BY <1>2
  <2> HIDE DEF i, k
  <2>4. LinesOf(text, k) = LinesOf(text, i) /\ StartOf(text, k) = StartOf(text, i)
    BY <2>2, NewlinesStay
  <2>5. StartOf(text, i) \in Int
    <3>1. StartOf(text, i) \in 0 .. i - 1
      BY <2>2, StartIs
    <3> QED  BY <2>2, <3>1
  <2>6. place.column + n = (at + n) - StartOf(text, i)
    BY <1>1, <2>1, <2>5
  <2> QED  BY <1>2, <1>3, <1>4, <2>1, <2>3, <2>4, <2>6, Zenon
<1>8. Placed'
  BY <1>7, Zenon DEF Placed
<1> QED  BY <1>3, <1>5, <1>6, <1>8, Zenon DEF PlaceInv

\* A match that ends with a newline.
LEMMA PlaceNextLine ==
    ASSUME FileInv, PlaceInv, text' = text, NEW n \in 1 .. Len(text) - at, ConsumeLine(n), Clean' => Clean,
           text[at + n] = NL, \A j \in at + 1 .. at + n - 1 : text[j] # NL
    PROVE  PlaceInv'
<1>1. Len(text) \in Nat /\ at \in 0 .. Len(text) /\ n \in Nat \ {0}
  BY LenProperties DEF FileInv, PlaceInv
<1>2. /\ at' = at + n /\ place' = NextLine(Moved(n))
      /\ loc' = [Located(n) EXCEPT !.lineOffset = Moved(n).offset]
  BY DEF ConsumeLine
<1>3. /\ Located(n) \in Location
      /\ Moved(n) \in Position /\ Moved(n).line = place.line /\ Moved(n).offset = at + n
      /\ place.line \in Nat /\ place.column \in Nat /\ at \in Nat
  BY <1>1, Located_
<1>4. /\ place' \in Position /\ place'.line = place.line + 1
      /\ place'.column = 0 /\ place'.offset = at + n
  <2> DEFINE p == Moved(n)
  <2>1. p \in Position /\ p.line = place.line /\ p.offset = at + n
    BY <1>3
  <2>2. place' = NextLine(p)
    BY <1>2
  <2> HIDE DEF p
  <2> QED  BY <2>1, <2>2, NextLineIs
<1>5. place' \in [line: Nat, column: Nat, offset: {at'}]
  BY <1>2, <1>4 DEF Position
<1>6. loc' \in Location /\ loc'.lineOffset = at + n
  <2> DEFINE o == at + n
             l == Located(n)
  <2>1. o \in Nat /\ Moved(n).offset = o
    BY <1>1, <1>3
  <2>2. loc' = [l EXCEPT !.lineOffset = o] /\ l \in Location
    BY <1>2, <1>3, <2>1
  <2> HIDE DEF o, l
  <2>3. [l EXCEPT !.lineOffset = o] \in Location /\ [l EXCEPT !.lineOffset = o].lineOffset = o
    BY <2>1, <2>2 DEF Location
  <2>4. loc' \in Location /\ loc'.lineOffset = o
    BY <2>2, <2>3, Zenon
  <2> QED  BY <2>4 DEF o
<1>7. at' \in 0 .. Len(text')
  BY <1>1, <1>2
<1>8. ASSUME Clean' PROVE /\ place'.line = LinesOf(text', at' + 1) /\ place'.column = at' - StartOf(text', at' + 1)
                          /\ loc'.lineOffset = StartOf(text', at' + 1)
  <2> DEFINE i == at + 1
             k == at + n
  <2>1. place.line = LinesOf(text, i)
    BY <1>8 DEF PlaceInv, Placed
  <2>2. i \in Nat \ {0} /\ k \in Nat \ {0} /\ i <= k /\ \A j \in i .. k - 1 : text[j] # NL
    BY <1>1
  <2>3. k = at' /\ text[k] = NL
    BY <1>2
  <2> HIDE DEF i, k
  <2>4. LinesOf(text, k) = LinesOf(text, i)
    BY <2>2, NewlinesStay
  <2>5. LinesOf(text, k + 1) = LinesOf(text, k) + 1 /\ StartOf(text, k + 1) = k
    BY <2>2, <2>3, NewlinesNext
  <2>6. k - k = 0
    BY <2>2
  <2> QED  BY <1>2, <1>4, <1>6, <2>1, <2>3, <2>4, <2>5, <2>6, Zenon
<1>9. Placed'
  BY <1>8, Zenon DEF Placed
<1> QED  BY <1>5, <1>6, <1>7, <1>9, Zenon DEF PlaceInv

\* More of the text.
LEMMA PlaceKept ==
    ASSUME FileInv, FileInv', PlaceInv, TextKept, UNCHANGED <<at, place, loc, echoed>>
    PROVE  PlaceInv'
<1>1. /\ Len(text) \in Nat /\ Len(text') \in Nat /\ Len(text) <= Len(text') /\ at \in 0 .. Len(text) /\ at' = at
      /\ place' = place /\ loc' = loc /\ echoed' = echoed
  BY LenProperties DEF FileInv, PlaceInv, TextKept
<1>2. at + 1 \in Nat /\ \A j \in 1 .. (at + 1) - 1 : text[j] = text'[j]
  BY <1>1 DEF TextKept
<1> DEFINE i == at + 1
<1> HIDE DEF i
<1>3. LinesOf(text, i) = LinesOf(text', i) /\ StartOf(text, i) = StartOf(text', i)
  BY <1>2, NewlinesSame DEF i
<1>4. Placed'
  BY <1>1, <1>3 DEF Placed, PlaceInv, Clean, i
<1>5. at' \in 0 .. Len(text')
  BY <1>1
<1> QED  BY <1>1, <1>4, <1>5 DEF PlaceInv

(***************************************************************************)
(* The literal and the token.                                              *)
(***************************************************************************)
LEMMA LiteralKept ==
    ASSUME FileInv, PlaceInv, LiteralInv, TextKept, UNCHANGED <<cond, opened>>,
           at' \in Nat, at <= at', Building(lex', lex.state)
    PROVE  LiteralInv'
<1>1. /\ Len(text) \in Nat /\ at \in 0 .. Len(text) /\ opened \in 0 .. at /\ opened' = opened /\ cond' = cond
      /\ (opened # 0 => text[opened] \in {DQ, SQ}) /\ cond \in DOMAIN RulesOf
      /\ (opened = 0 <=> cond = "initial") /\ (cond = "string" => lex.state = "string")
  BY LenProperties, Zenon DEF FileInv, PlaceInv, LiteralInv
<1>2. opened' \in 0 .. at'
  BY <1>1
<1>3. opened # 0 => text'[opened] = text[opened]
  BY <1>1 DEF TextKept
<1>4. lex'.state = lex.state
  BY DEF Building
<1> QED  BY <1>1, <1>2, <1>3, <1>4, Zenon DEF LiteralInv

LEMMA TokenKept ==
    ASSUME FileInv, PlaceInv, TokenInv, TextKept, token' = token, at' \in Nat, at <= at', Clean' => Clean
    PROVE  TokenInv'
<1>1. /\ Len(text) \in Nat /\ at \in 0 .. Len(text) /\ token.from \in Nat /\ token.to \in Nat
      /\ token.from <= token.to /\ token.to <= at
  BY LenProperties DEF FileInv, PlaceInv, TokenInv
<1>2. token.to <= at'
  BY <1>1
<1>3. ASSUME token.kind \notin {"none", "eof"}, Clean' PROVE TokenPlaced(text', token)
  <2>1. token.from # 0 /\ TokenPlaced(text, token)
    BY <1>3 DEF TokenInv
  <2>2. \A j \in 1 .. token.to : text[j] = text'[j]
    BY <1>1 DEF TextKept
  <2>3. First(text', token) = First(text, token)
    <3>1. token.from \in 1 .. token.to
      BY <1>1, <2>1
    <3> QED  BY <2>2, <3>1 DEF First
  <2> DEFINE f == First(text, token)
             l == token.to
  <2>4. f \in Nat /\ l \in Nat /\ (\A j \in 1 .. f - 1 : text[j] = text'[j]) /\ \A j \in 1 .. l - 1 : text[j] = text'[j]
    BY <1>1, <2>2 DEF First
  <2> HIDE DEF f, l
  <2>5. LinesOf(text, f) = LinesOf(text', f) /\ StartOf(text, f) = StartOf(text', f)
    BY <2>4, NewlinesSame
  <2>6. LinesOf(text, l) = LinesOf(text', l) /\ StartOf(text, l) = StartOf(text', l)
    BY <2>4, NewlinesSame
  <2> QED  BY <2>1, <2>3, <2>5, <2>6, Zenon DEF TokenPlaced, f, l
<1> QED  BY <1>1, <1>2, <1>3, Zenon DEF TokenInv

Kinds == {"identifier", "keyword", "number", "string", "operator"}

LEMMA LocationIs ==
    ASSUME NEW l \in Location
    PROVE  l = [firstLine |-> l.firstLine, lastLine |-> l.lastLine, firstColumn |-> l.firstColumn,
                lastColumn |-> l.lastColumn, lineOffset |-> l.lineOffset]
  BY DEF Location

\* A token that starts where the match does, or a literal that ends there.
LEMMA TokenReturned ==
    ASSUME FileInv, PlaceInv, LiteralInv, text' = text, Clean' => Clean, NEW n \in 1 .. Len(text) - at,
           NEW kind \in Kinds, NEW value, at' = at + n,
           token' = [kind |-> kind, value |-> value, loc |-> Located(n), to |-> at + n,
                     from |-> IF opened > 0 THEN opened ELSE at + 1],
           kind = "string" => value \in [str: Seq(0 .. 255), cap: Nat] /\ HasRoom(value),
           \/ opened = 0 /\ Inline(at + n) /\ text[at + 1] \notin {DQ, SQ}
           \/ opened # 0 /\ n = 1
    PROVE  TokenInv'
<1>1. /\ Len(text) \in Nat /\ at \in 0 .. Len(text) /\ n \in Nat \ {0} /\ opened \in 0 .. at
      /\ at + 1 \in Nat \ {0} /\ at + n \in Nat
  BY LenProperties DEF FileInv, PlaceInv, LiteralInv
<1> DEFINE from == IF opened > 0 THEN opened ELSE at + 1
           to == at + n
<1>2. /\ token'.kind = kind /\ token'.value = value /\ token'.loc = Located(n) /\ token'.to = to /\ token'.from = from
  BY Zenon
<1>3. from \in Nat /\ to \in Nat /\ from # 0 /\ from <= to /\ to <= at'
  BY <1>1
<1>4. ASSUME Clean' PROVE TokenPlaced(text, token')
  <2> DEFINE i == at + 1
  <2>1. First(text, token') = i
    <3>1. CASE opened = 0
      <4>1. from = i /\ text[i] \notin {DQ, SQ}
        BY <3>1
      <4> QED  BY <1>2, <4>1, Zenon DEF First
    <3>2. CASE opened # 0
      <4>1. from = opened /\ to = i /\ text[opened] \in {DQ, SQ}
        BY <1>1, <3>2 DEF LiteralInv
      <4> QED  BY <1>2, <4>1, Zenon DEF First
    <3> QED  BY <3>1, <3>2
  <2>2. /\ place.line = LinesOf(text, i) /\ place.column = at - StartOf(text, i)
        /\ loc.lineOffset = StartOf(text, i)
    BY <1>4 DEF PlaceInv, Placed
  <2>3. \A j \in i .. to - 1 : text[j] # NL
    <3>1. CASE opened = 0
      BY <1>1, <3>1 DEF Inline
    <3>2. CASE opened # 0
      <4>1. to - 1 < i
        BY <1>1, <3>2
      <4> QED  BY <1>1, <4>1
    <3> QED  BY <3>1, <3>2
  <2>4. i \in Nat \ {0} /\ to \in Nat /\ i <= to
    BY <1>1
  <2>5. LinesOf(text, to) = LinesOf(text, i) /\ StartOf(text, to) = StartOf(text, i)
    <3> HIDE DEF i, to
    <3> QED  BY <2>3, <2>4, NewlinesStay
  <2>6. StartOf(text, i) \in Int
    <3>1. StartOf(text, i) \in 0 .. i - 1
      <4> HIDE DEF i
      <4> QED  BY <2>4, StartIs
    <3> QED  BY <2>4, <3>1
  <2>7. /\ Located(n) \in Location /\ Located(n).lineOffset = loc.lineOffset
        /\ Located(n).firstLine = place.line /\ Located(n).lastLine = place.line
        /\ Located(n).firstColumn = place.column /\ Located(n).lastColumn = place.column + n - 1
    BY <1>1, Located_
  <2>8. /\ place.column = i - 1 - StartOf(text, i)
        /\ place.column + n - 1 = to - 1 - StartOf(text, i)
    BY <1>1, <2>2, <2>6
  <2> HIDE DEF i, to
  <2>9. Located(n) = [firstLine |-> LinesOf(text, i), lastLine |-> LinesOf(text, to),
                      firstColumn |-> i - 1 - StartOf(text, i), lastColumn |-> to - 1 - StartOf(text, to),
                      lineOffset |-> StartOf(text, i)]
    <3> DEFINE l == Located(n)
    <3>1. l = [firstLine |-> l.firstLine, lastLine |-> l.lastLine, firstColumn |-> l.firstColumn,
               lastColumn |-> l.lastColumn, lineOffset |-> l.lineOffset]
      <4>1. l \in Location
        BY <2>7
      <4> HIDE DEF l
      <4> QED  BY <4>1, LocationIs
    <3>2. /\ l.firstLine = LinesOf(text, i) /\ l.lastLine = LinesOf(text, to)
          /\ l.firstColumn = i - 1 - StartOf(text, i) /\ l.lastColumn = to - 1 - StartOf(text, to)
          /\ l.lineOffset = StartOf(text, i)
      BY <2>2, <2>5, <2>7, <2>8, Zenon
    <3> QED  BY <3>1, <3>2, Zenon
  <2> QED  BY <1>2, <2>1, <2>9, Zenon DEF TokenPlaced
<1>5. token'.kind \in {"none", "identifier", "keyword", "number", "string", "operator", "eof"}
  BY <1>2 DEF Kinds
<1> HIDE DEF from, to
<1> QED  BY <1>2, <1>3, <1>4, <1>5, Zenon DEF TokenInv

LEMMA CleanSame ==
    ASSUME echoed' = echoed
    PROVE  Clean' => Clean
  BY DEF Clean

\* What the default rule echoes.
LEMMA EchoedFurther ==
    ASSUME OutInv, NEW c \in Seq(Bytes), Len(c) = 1, echoed' = echoed \o c
    PROVE  /\ echoed' \in Seq(Bytes) /\ (Clean' => Clean /\ c[1] # NL)
<1> HIDE DEF Bytes
<1>1. echoed \in Seq(Bytes) /\ Len(echoed) \in Nat /\ DOMAIN echoed = 1 .. Len(echoed)
  BY LenProperties DEF OutInv
<1>2. /\ echoed' \in Seq(Bytes) /\ Len(echoed') = Len(echoed) + 1
      /\ \A i \in 1 .. Len(echoed) + 1 : echoed'[i] = IF i <= Len(echoed) THEN echoed[i] ELSE c[i - Len(echoed)]
  <2>1. /\ echoed \o c \in Seq(Bytes) /\ Len(echoed \o c) = Len(echoed) + Len(c)
        /\ \A i \in 1 .. Len(echoed) + Len(c) :
              (echoed \o c)[i] = IF i <= Len(echoed) THEN echoed[i] ELSE c[i - Len(echoed)]
    BY <1>1, ConcatProperties
  <2> QED  BY <2>1, Zenon
<1>3. DOMAIN echoed' = 1 .. Len(echoed) + 1
  BY <1>2, LenProperties
<1>4. ASSUME Clean' PROVE Clean /\ c[1] # NL
  <2>1. \A i \in 1 .. Len(echoed) + 1 : echoed'[i] # NL
    BY <1>3, <1>4 DEF Clean, ToSet
  <2>2. \A i \in 1 .. Len(echoed) : i \in 1 .. Len(echoed) + 1 /\ echoed'[i] = echoed[i]
    BY <1>1, <1>2
  <2>3. \A i \in 1 .. Len(echoed) : echoed[i] # NL
    BY <2>1, <2>2
  <2>4. Clean
    BY <1>1, <2>3 DEF Clean, ToSet
  <2>5. Len(echoed) + 1 \in 1 .. Len(echoed) + 1 /\ ~(Len(echoed) + 1 <= Len(echoed)) /\ (Len(echoed) + 1) - Len(echoed) = 1
    BY <1>1
  <2>6. echoed'[Len(echoed) + 1] = c[1]
    BY <1>2, <2>5
  <2> QED  BY <2>1, <2>4, <2>5, <2>6
<1> QED  BY <1>2, <1>4

(***************************************************************************)
(* The steps.                                                              *)
(***************************************************************************)
\* A match that is not a newline, whatever is done with it.
LEMMA MatchPlaced ==
    ASSUME Inv, NEW m, Matched(m), Consume(m.n), UNCHANGED <<file, echoed, status>>,
           m.rule \in TokenRules \cup TextRules \cup {"openString", "openChar", "closeString", "closeChar"}
    PROVE  /\ FileInv' /\ PlaceInv' /\ OutInv' /\ TextKept /\ text' = text /\ (Clean' => Clean)
           /\ m.n \in 1 .. Len(text) - at /\ at' = at + m.n /\ at' \in Nat /\ at <= at'
<1>1. m.n \in 1 .. Len(text) - at /\ at' = at + m.n /\ FileInv /\ PlaceInv
  BY DEF Matched, Consume, Inv
<1>2. at \in Nat /\ Len(text) \in Nat
  BY <1>1, LenProperties DEF FileInv, PlaceInv
<1>3. at' \in Nat /\ at <= at'
  BY <1>1, <1>2
<1>4. FileInv' /\ TextKept /\ text' = text
  BY <1>1, FileSame
<1>5. \A j \in at + 1 .. at + m.n : text[j] # NL
  <2>1. CASE m.rule \in TokenRules \cup TextRules
    BY <2>1, Zenon DEF Matched, Inline
  <2>2. CASE m.rule \in {"openString", "openChar", "closeString", "closeChar"}
    <3>1. m.n = 1 /\ text[at + 1] = Chars[m.rule]
      BY <2>2 DEF Matched, Chars
    <3>2. Chars[m.rule] # NL
      BY <2>2 DEF Chars, DQ, SQ, NL
    <3>3. \A j \in at + 1 .. at + m.n : j = at + 1
      BY <1>2, <3>1
    <3> QED  BY <3>1, <3>2, <3>3, Zenon
  <2> QED  BY <2>1, <2>2
<1>6. Clean' => Clean
  BY CleanSame
<1> DEFINE n == m.n
<1> HIDE DEF n
<1>7. n \in 1 .. Len(text) - at /\ Consume(n) /\ \A j \in at + 1 .. at + n : text[j] # NL
  BY <1>1, <1>5 DEF n
<1>8. PlaceInv'
  BY <1>1, <1>4, <1>6, <1>7, PlaceConsumed
<1>9. OutInv'
  BY DEF Inv, OutInv
<1> QED  BY <1>1, <1>3, <1>4, <1>6, <1>8, <1>9

\* Which start condition a rule belongs to.
LEMMA RuleConds ==
    ASSUME Inv, NEW m, Matched(m)
    PROVE  /\ m.rule \in TokenRules \cup {"newline", "blank", "openString", "openChar"} => opened = 0
           /\ m.rule \in {"closeString", "stringNewline"} => cond = "string" /\ opened # 0 /\ lex.state = "string"
           /\ m.rule = "closeChar" => opened # 0
<1>1. cond \in {"initial", "string", "charLiteral"} /\ (opened = 0 <=> cond = "initial")
      /\ (cond = "string" => lex.state = "string")
  BY DEF Inv, LiteralInv, RulesOf
<1>2. m.rule # "default" => m.rule \in RulesOf[cond]
  BY DEF Matched
<1>3. RulesOf["initial"] = TokenRules \cup {"newline", "blank", "openString", "openChar"}
  BY DEF RulesOf, TokenRules
<1>4. RulesOf["string"] = {"closeString", "stringNewline", "stringText", "octal", "hexEscape", "simpleEscape"}
  BY DEF RulesOf, InLiteral
<1>5. RulesOf["charLiteral"] = {"closeChar", "charText", "octal", "hexEscape", "simpleEscape"}
  BY DEF RulesOf, InLiteral
<1> QED  BY <1>1, <1>2, <1>3, <1>4, <1>5 DEF TokenRules

LEMMA NewlineStep ==
    ASSUME Inv, NEW m, Matched(m), Newline(m)
    PROVE  Inv'
<1>1. /\ m.rule = "newline" /\ ConsumeLine(m.n) /\ UNCHANGED <<cond, lex, token, opened>>
      /\ UNCHANGED <<file, echoed, status>> /\ at' = at + m.n
  BY DEF Newline, Elsewhere, ConsumeLine
<1>2. FileInv /\ PlaceInv /\ LiteralInv /\ TokenInv /\ m.n \in 1 .. Len(text) - at
      /\ text[at + m.n] = NL /\ \A j \in at + 1 .. at + m.n - 1 : text[j] # NL
  BY <1>1 DEF Inv, Matched
<1>3. at \in Nat /\ Len(text) \in Nat
  BY <1>2, LenProperties DEF FileInv, PlaceInv
<1>4. at' \in Nat /\ at <= at'
  BY <1>1, <1>2, <1>3
<1>5. FileInv' /\ TextKept /\ text' = text /\ (Clean' => Clean)
  BY <1>1, <1>2, FileSame, CleanSame
<1>6. PlaceInv'
  BY <1>1, <1>2, <1>5, PlaceNextLine
<1>7. LiteralInv'
  <2>1. Building(lex', lex.state)
    BY <1>1, <1>2, Zenon DEF LiteralInv
  <2> QED  BY <1>1, <1>2, <1>4, <1>5, <2>1, LiteralKept
<1>8. TokenInv'
  BY <1>1, <1>2, <1>4, <1>5, TokenKept
<1>9. OutInv'
  BY <1>1 DEF Inv, OutInv
<1> QED  BY <1>5, <1>6, <1>7, <1>8, <1>9 DEF Inv

\* A match that only adds to the literal.
LEMMA TextStep ==
    ASSUME Inv, NEW m, Matched(m), m.rule \in TextRules, Consume(m.n),
           UNCHANGED <<cond, token, opened, file, echoed, status>>, Building(lex', lex.state)
    PROVE  Inv'
<1>1. /\ FileInv' /\ PlaceInv' /\ OutInv' /\ TextKept /\ text' = text /\ (Clean' => Clean)
      /\ at' \in Nat /\ at <= at'
  BY MatchPlaced
<1>2. FileInv /\ PlaceInv /\ LiteralInv /\ TokenInv
  BY DEF Inv
<1>3. LiteralInv'
  BY <1>1, <1>2, LiteralKept
<1>4. TokenInv'
  BY <1>1, <1>2, TokenKept
<1> QED  BY <1>1, <1>3, <1>4 DEF Inv

\* A token that is all of its match.
LEMMA TokenStep ==
    ASSUME Inv, NEW m, Matched(m), m.rule \in TokenRules, Consume(m.n), NEW kind \in Kinds \ {"string"}, NEW value,
           Return(kind, value, m), UNCHANGED <<cond, lex, opened, file, echoed, status>>
    PROVE  Inv'
<1>1. /\ FileInv' /\ PlaceInv' /\ OutInv' /\ TextKept /\ text' = text /\ (Clean' => Clean)
      /\ at' \in Nat /\ at <= at' /\ m.n \in 1 .. Len(text) - at /\ at' = at + m.n
  BY MatchPlaced
<1>2. FileInv /\ PlaceInv /\ LiteralInv /\ TokenInv
  BY DEF Inv
<1>3. LiteralInv'
  <2>1. Building(lex', lex.state)
    BY <1>2, Zenon DEF LiteralInv
  <2> QED  BY <1>1, <1>2, <2>1, LiteralKept
<1>4. opened = 0 /\ Inline(at + m.n) /\ text[at + 1] \notin {DQ, SQ}
  BY RuleConds, Zenon DEF Matched
<1> DEFINE n == m.n
<1>5. token' = [kind |-> kind, value |-> value, loc |-> Located(n), to |-> at + n,
                from |-> IF opened > 0 THEN opened ELSE at + 1]
  BY Zenon DEF Return
<1>6. n \in 1 .. Len(text) - at /\ at' = at + n /\ Inline(at + n) /\ kind \in Kinds /\ kind # "string"
  BY <1>1, <1>4
<1> HIDE DEF n
<1>7. TokenInv'
  BY <1>1, <1>2, <1>4, <1>5, <1>6, TokenReturned
<1> QED  BY <1>1, <1>3, <1>7 DEF Inv

LEMMA OperatorStep ==
    ASSUME Inv, NEW m, Matched(m), OperatorToken(m) \/ Word(m) \/ Number(m) \/ HexNumber(m)
    PROVE  Inv'
<1>1. m.rule \in TokenRules /\ Consume(m.n) /\ UNCHANGED <<cond, lex, opened, file, echoed, status>>
  BY DEF OperatorToken, Word, Number, HexNumber, Elsewhere, TokenRules
<1>2. \E kind \in Kinds \ {"string"} : \E value : Return(kind, value, m)
  <2>1. CASE OperatorToken(m)
    <3>1. "operator" \in Kinds \ {"string"}
      BY DEF Kinds
    <3> QED  BY <2>1, <3>1, Zenon DEF OperatorToken
  <2>2. CASE Word(m)
    <3> DEFINE kind == IF m.lexeme \in Keywords THEN "keyword" ELSE "identifier"
    <3>1. kind \in Kinds \ {"string"}
      BY DEF Kinds
    <3>2. Return(kind, m.lexeme, m)
      BY <2>2, Zenon DEF Word
    <3> QED  BY <3>1, <3>2, Zenon
  <2>3. CASE Number(m) \/ HexNumber(m)
    <3>1. "number" \in Kinds \ {"string"}
      BY DEF Kinds
    <3> QED  BY <2>3, <3>1, Zenon DEF Number, HexNumber
  <2> QED  BY <2>1, <2>2, <2>3
<1>3. PICK kind \in Kinds \ {"string"} : \E value : Return(kind, value, m)
  BY <1>2
<1>4. PICK value : Return(kind, value, m)
  BY <1>3
<1> QED  BY <1>1, <1>4, TokenStep

LEMMA LexWith ==
    ASSUME NEW l, NEW state \in {"string", "char"}, l \in Literal, Room(l), 0 \in 0 .. 2^IntBits - 1
    PROVE  /\ Building([l EXCEPT !.state = state], state)
           /\ Building([l EXCEPT !.state = state, !.int = 0], state)
<1>1. /\ l.str \in Seq(0 .. 255) /\ l.cap \in Nat
  BY DEF Literal
<1> DEFINE k == [l EXCEPT !.state = state]
           j == [l EXCEPT !.state = state, !.int = 0]
<1>2. k \in Literal /\ k.state = state /\ k.str = l.str /\ k.cap = l.cap
  BY DEF Literal
<1>3. j \in Literal /\ j.state = state /\ j.str = l.str /\ j.cap = l.cap
  BY DEF Literal
<1> HIDE DEF k, j
<1>4. Building(k, state) /\ Building(j, state)
  BY <1>2, <1>3, Zenon DEF Building, Room, HasRoom
<1> QED  BY <1>4 DEF k, j

LEMMA ZeroFits == 0 \in 0 .. 2^IntBits - 1
  BY IntValues

\* A quote that begins a literal.
LEMMA OpenStep ==
    ASSUME Inv, NEW m, Matched(m), OpenString(m) \/ OpenChar(m)
    PROVE  Inv'
<1>1. /\ m.rule \in {"openString", "openChar"} /\ Consume(m.n) /\ opened' = at + 1
      /\ UNCHANGED <<token, file, echoed, status>>
  BY DEF OpenString, OpenChar, Elsewhere
<1>2. /\ FileInv' /\ PlaceInv' /\ OutInv' /\ TextKept /\ text' = text /\ (Clean' => Clean)
      /\ at' \in Nat /\ at <= at' /\ m.n \in 1 .. Len(text) - at /\ at' = at + m.n
  BY <1>1, MatchPlaced
<1>3. FileInv /\ PlaceInv /\ LiteralInv /\ TokenInv
  BY DEF Inv
<1>4. m.n = 1 /\ text[at + 1] \in {DQ, SQ}
  BY <1>1 DEF Matched, Chars
<1>5. at \in Nat
  BY <1>3, LenProperties DEF FileInv, PlaceInv
<1>6. lex \in Literal /\ Room(lex)
  BY <1>3, Zenon DEF LiteralInv, Building
<1>7. /\ cond' \in {"string", "charLiteral"} /\ Building(lex', lex'.state)
      /\ cond' = "string" => lex'.state = "string"
  <2>1. CASE OpenString(m)
    <3>1. cond' = "string" /\ lex' = [lex EXCEPT !.state = "string"]
      BY <2>1 DEF OpenString
    <3>2. Building(lex', "string")
      <4>1. "string" \in {"string", "char"}
        OBVIOUS
      <4>2. Building([lex EXCEPT !.state = "string"], "string")
        BY <1>6, <4>1, LexWith, ZeroFits, Zenon
      <4> QED  BY <3>1, <4>2, Zenon
    <3>3. lex'.state = "string"
      BY <3>2, Zenon DEF Building
    <3> QED  BY <3>1, <3>2, <3>3, Zenon
  <2>2. CASE OpenChar(m)
    <3>1. cond' = "charLiteral" /\ lex' = [lex EXCEPT !.state = "char", !.int = 0]
      BY <2>2 DEF OpenChar
    <3>2. Building(lex', "char")
      <4>1. "char" \in {"string", "char"}
        OBVIOUS
      <4>2. Building([lex EXCEPT !.state = "char", !.int = 0], "char")
        BY <1>6, <4>1, LexWith, ZeroFits, Zenon
      <4> QED  BY <3>1, <4>2, Zenon
    <3>3. lex'.state = "char"
      BY <3>2, Zenon DEF Building
    <3>4. "charLiteral" # "string"
      OBVIOUS
    <3> QED  BY <3>1, <3>2, <3>3, <3>4, Zenon
  <2> QED  BY <2>1, <2>2
<1>8. opened' \in 0 .. at' /\ opened' # 0 /\ text'[opened'] \in {DQ, SQ}
  BY <1>1, <1>2, <1>4, <1>5
<1>9. cond' \in DOMAIN RulesOf /\ cond' # "initial"
  BY <1>7 DEF RulesOf
<1>10. LiteralInv'
  BY <1>7, <1>8, <1>9, Zenon DEF LiteralInv
<1>11. TokenInv'
  BY <1>1, <1>2, <1>3, TokenKept
<1> QED  BY <1>2, <1>10, <1>11 DEF Inv

LEMMA HandedOverIs ==
    ASSUME NEW l \in Literal
    PROVE  Building(HandedOver(l), HandedOver(l).state)
<1> DEFINE h == [l EXCEPT !.str = <<>>, !.cap = 0]
<1>1. <<>> \in Seq(0 .. 255)
  BY EmptySeq
<1>2. h \in Literal /\ h.str = <<>> /\ h.cap = 0
  BY <1>1 DEF Literal
<1>3. HandedOver(l) = h
  BY DEF HandedOver
<1> HIDE DEF h
<1> QED  BY <1>2, <1>3, Zenon DEF Building, Room

\* The quote that ends one.
LEMMA CloseStep ==
    ASSUME Inv, NEW m, Matched(m), CloseString(m) \/ CloseChar(m)
    PROVE  Inv'
<1>1. /\ m.rule \in {"closeString", "closeChar"} /\ Consume(m.n) /\ cond' = "initial" /\ opened' = 0
      /\ UNCHANGED <<file, echoed, status>>
  BY DEF CloseString, CloseChar, Elsewhere
<1>2. /\ FileInv' /\ PlaceInv' /\ OutInv' /\ TextKept /\ text' = text /\ (Clean' => Clean)
      /\ at' \in Nat /\ at <= at' /\ m.n \in 1 .. Len(text) - at /\ at' = at + m.n
  BY <1>1, MatchPlaced
<1>3. FileInv /\ PlaceInv /\ LiteralInv /\ TokenInv
  BY DEF Inv
<1>4. m.n = 1 /\ opened # 0
  BY <1>1, RuleConds DEF Matched, Chars
<1>5. lex \in Literal /\ Room(lex)
  BY <1>3, Zenon DEF LiteralInv, Building
<1>6. /\ Building(lex', lex'.state)
      /\ \E kind \in Kinds : \E value : /\ Return(kind, value, m)
                                        /\ kind = "string" => value \in [str: Seq(0 .. 255), cap: Nat] /\ HasRoom(value)
  <2>1. CASE CloseString(m)
    <3> DEFINE l == AppendTo(lex, 0)
               value == [str |-> l.str, cap |-> l.cap]
    <3>1. lex.state = "string" /\ Building(lex, "string")
      <4>1. m.rule \in {"closeString", "stringNewline"}
        BY <2>1 DEF CloseString
      <4>2. lex.state = "string"
        BY <4>1, RuleConds
      <4> QED  BY <1>5, <4>2, Zenon DEF Building
    <3>2. 0 \in 0 .. 255 /\ "string" # "char"
      OBVIOUS
    <3>3. Building(l, "string") /\ HasRoom(l)
      BY <3>1, <3>2, AppendToBuilds, Zenon
    <3>4. Return("string", value, m) /\ lex' = HandedOver(lex)
      BY <2>1, Zenon DEF CloseString
    <3> HIDE DEF l
    <3>5. value \in [str: Seq(0 .. 255), cap: Nat] /\ HasRoom(value)
      BY <3>3 DEF Building, Literal, HasRoom
    <3>6. Building(lex', lex'.state)
      BY <1>5, <3>4, HandedOverIs
    <3>7. "string" \in Kinds
      BY DEF Kinds
    <3> HIDE DEF value
    <3> QED  BY <3>4, <3>5, <3>6, <3>7, Zenon
  <2>2. CASE CloseChar(m)
    <3>1. Return("number", Signed(lex.int), m) /\ lex' = lex
      BY <2>2, Zenon DEF CloseChar
    <3>2. "number" \in Kinds /\ "number" # "string"
      BY DEF Kinds
    <3>3. Building(lex', lex'.state)
      BY <1>3, <3>1, Zenon DEF LiteralInv
    <3> QED  BY <3>1, <3>2, <3>3, Zenon
  <2> QED  BY <2>1, <2>2
<1>7. LiteralInv'
  <2>1. "initial" \in DOMAIN RulesOf /\ "initial" # "string" /\ 0 \in 0 .. at'
    BY <1>2 DEF RulesOf
  <2> QED  BY <1>1, <1>6, <2>1, Zenon DEF LiteralInv
<1>8. PICK kind \in Kinds : \E value : /\ Return(kind, value, m)
                                       /\ kind = "string" => value \in [str: Seq(0 .. 255), cap: Nat] /\ HasRoom(value)
  BY <1>6
<1>9. PICK value : /\ Return(kind, value, m)
                   /\ kind = "string" => value \in [str: Seq(0 .. 255), cap: Nat] /\ HasRoom(value)
  BY <1>8, Zenon
<1> DEFINE n == m.n
<1>10. token' = [kind |-> kind, value |-> value, loc |-> Located(n), to |-> at + n,
                 from |-> IF opened > 0 THEN opened ELSE at + 1]
  BY <1>9, Zenon DEF Return
<1>11. n \in 1 .. Len(text) - at /\ at' = at + n /\ n = 1
  BY <1>2, <1>4
<1> HIDE DEF n
<1>12. TokenInv'
  BY <1>2, <1>3, <1>4, <1>9, <1>10, <1>11, TokenReturned
<1> QED  BY <1>2, <1>7, <1>12 DEF Inv

LEMMA StringNewlineStep ==
    ASSUME Inv, NEW m, Matched(m), StringNewline(m)
    PROVE  Inv'
<1>1. /\ m.rule = "stringNewline" /\ ConsumeLine(m.n) /\ DisplayLine
      /\ UNCHANGED <<cond, lex, token, opened, source, seekable, text, echoed, status>> /\ at' = at + m.n
  BY DEF StringNewline, ConsumeLine
<1>2. FileInv /\ PlaceInv /\ LiteralInv /\ TokenInv /\ m.n \in 1 .. Len(text) - at
      /\ m.n = 1 /\ text[at + 1] = NL
  BY <1>1 DEF Inv, Matched, Chars
<1>3. at \in Nat /\ Len(text) \in Nat
  BY <1>2, LenProperties DEF FileInv, PlaceInv
<1>4. at' \in Nat /\ at <= at'
  BY <1>1, <1>2, <1>3
<1>5. FileInv' /\ TextKept /\ text' = text /\ (Clean' => Clean)
  BY <1>1, <1>2, DisplayFile, CleanSame
<1> DEFINE n == m.n
<1>6. /\ n \in 1 .. Len(text) - at /\ ConsumeLine(n) /\ text[at + n] = NL
      /\ \A j \in at + 1 .. at + n - 1 : text[j] # NL
  BY <1>1, <1>2, <1>3
<1> HIDE DEF n
<1>7. PlaceInv'
  BY <1>2, <1>5, <1>6, PlaceNextLine
<1>8. LiteralInv'
  <2>1. Building(lex', lex.state)
    BY <1>1, <1>2, Zenon DEF LiteralInv
  <2> QED  BY <1>1, <1>2, <1>4, <1>5, <2>1, LiteralKept
<1>9. TokenInv'
  BY <1>1, <1>2, <1>4, <1>5, TokenKept
<1>10. OutInv'
  BY <1>1 DEF Inv, OutInv
<1> QED  BY <1>5, <1>7, <1>8, <1>9, <1>10 DEF Inv

\* What an escape or a piece of text appends.
LEMMA LiterallyStep ==
    ASSUME Inv, NEW m, Matched(m), m.rule \in TextRules, NEW chars \in Seq(0 .. 255), Literally(m, chars)
    PROVE  Inv'
<1>1. /\ Consume(m.n) /\ lex' = AppendAll(lex, chars)
      /\ UNCHANGED <<cond, token, opened, file, echoed, status>>
  BY DEF Literally, Elsewhere
<1> DEFINE state == lex.state
<1>2. Building(lex, state)
  BY Zenon DEF Inv, LiteralInv
<1> HIDE DEF state
<1>3. Building(AppendAll(lex, chars), state)
  BY <1>2, AppendAllBuilds
<1>4. Building(lex', lex.state)
  BY <1>1, <1>3, Zenon DEF state
<1> QED  BY <1>1, <1>4, TextStep

LEMMA OneByte ==
    ASSUME NEW c \in 0 .. 255
    PROVE  <<c>> \in Seq(0 .. 255)
  OBVIOUS

LEMMA EscapeStep ==
    ASSUME Inv, NEW m, Matched(m), Octal(m) \/ HexEscape(m) \/ SimpleEscape(m) \/ StringText(m) \/ CharText(m)
    PROVE  Inv'
<1>1. /\ m.lexeme \in Seq(Bytes) /\ Len(m.lexeme) = m.n /\ m.n \in Nat \ {0}
      /\ \A i \in 1 .. m.n : m.lexeme[i] \in Bytes /\ m.lexeme[i] = text[at + i]
  <2>1. /\ m.lexeme \in Seq(Bytes) /\ Len(m.lexeme) = m.n /\ m.n \in 1 .. Len(text) - at
        /\ \A i \in 1 .. m.n : m.lexeme[i] = text[at + i]
    BY Zenon DEF Matched
  <2>2. at \in Nat /\ Len(text) \in Nat
    BY LenProperties DEF Inv, FileInv, PlaceInv
  <2>3. \A i \in 1 .. Len(m.lexeme) : m.lexeme[i] \in Bytes
    <3> HIDE DEF Bytes
    <3> QED  BY <2>1, ElementOfSeq
  <2> QED  BY <2>1, <2>2, <2>3
<1> DEFINE s == m.lexeme
           n == m.n
<1>2. s \in Seq(Bytes) /\ Len(s) = n /\ n \in Nat \ {0} /\ \A i \in 1 .. n : s[i] \in Bytes
  BY <1>1
<1>3. Bytes \subseteq Int /\ Bytes \subseteq 0 .. 255
  BY DEF Bytes
<1>4. CASE Octal(m)
  <2> HIDE DEF s, n, Bytes
  <2>1. s # <<>>
    BY <1>2, EmptySeq
  <2>2. Tail(s) \in Seq(Int)
    <3>1. Tail(s) \in Seq(Bytes)
      BY <1>2, <2>1, HeadTailProperties
    <3> QED  BY <1>3, <3>1, SeqMonotonic
  <2> DEFINE c == EscapedChar(Tail(s), 8)
  <2>3. c \in 0 .. 255
    <3> DEFINE b == 8
    <3>1. b \in Int
      OBVIOUS
    <3> HIDE DEF b
    <3>2. EscapedChar(Tail(s), b) \in 0 .. 255
      BY <2>2, <3>1, EscapedType
    <3> QED  BY <3>2 DEF b
  <2>4. m.rule = "octal" /\ Literally(m, <<c>>)
    BY <1>4, Zenon DEF Octal, s
  <2> HIDE DEF c
  <2>5. m.rule \in TextRules /\ <<c>> \in Seq(0 .. 255)
    BY <2>3, <2>4, OneByte DEF TextRules
  <2> DEFINE chars == <<c>>
  <2>6. chars \in Seq(0 .. 255) /\ Literally(m, chars)
    BY <2>4, <2>5, Zenon
  <2> HIDE DEF chars
  <2> QED  BY <2>5, <2>6, LiterallyStep
<1>5. CASE HexEscape(m)
  <2> DEFINE three == 3
  <2>1. three \in Int /\ n \in Int /\ \A i \in three .. n : s[i] \in Bytes
    <3> HIDE DEF s, n, Bytes
    <3> QED  BY <1>2
  <2> DEFINE t == SubSeq(s, three, n)
  <2> HIDE DEF s, n, three, Bytes
  <2>2. t \in Seq(Int)
    <3>1. t \in Seq(Bytes)
      BY <2>1, SubSeqProperties
    <3> QED  BY <1>3, <3>1, SeqMonotonic
  <2> DEFINE c == EscapedChar(t, 16)
  <2>3. c \in 0 .. 255
    <3> DEFINE b == 16
    <3>1. b \in Int
      OBVIOUS
    <3> HIDE DEF b, t
    <3>2. EscapedChar(t, b) \in 0 .. 255
      BY <2>2, <3>1, EscapedType
    <3> QED  BY <3>2 DEF b
  <2>4. m.rule = "hexEscape" /\ Literally(m, <<c>>)
    BY <1>5, Zenon DEF HexEscape, s, n, three
  <2> HIDE DEF c
  <2>5. m.rule \in TextRules /\ <<c>> \in Seq(0 .. 255)
    BY <2>3, <2>4, OneByte DEF TextRules
  <2> DEFINE chars == <<c>>
  <2>6. chars \in Seq(0 .. 255) /\ Literally(m, chars)
    BY <2>4, <2>5, Zenon
  <2> HIDE DEF chars
  <2> QED  BY <2>5, <2>6, LiterallyStep
<1>6. CASE SimpleEscape(m)
  <2> DEFINE c == SimpleEscapes[m.lexeme[2]]
  <2>1. m.rule = "simpleEscape" /\ Literally(m, <<c>>)
    BY <1>6, Zenon DEF SimpleEscape
  <2>2. m.n = 2 /\ text[at + 2] \in DOMAIN SimpleEscapes
    BY <2>1, Zenon DEF Matched
  <2>3. m.lexeme[2] = text[at + 2]
    BY <1>1, <2>2
  <2>4. \A d \in DOMAIN SimpleEscapes : SimpleEscapes[d] \in 0 .. 255
    BY DEF SimpleEscapes, NL, CR, TAB, BS, SQ, DQ
  <2>5. c \in 0 .. 255
    BY <2>2, <2>3, <2>4, Zenon
  <2> HIDE DEF c
  <2>6. m.rule \in TextRules /\ <<c>> \in Seq(0 .. 255)
    BY <2>1, <2>5, OneByte DEF TextRules
  <2> DEFINE chars == <<c>>
  <2>7. chars \in Seq(0 .. 255) /\ Literally(m, chars)
    BY <2>1, <2>6, Zenon
  <2> HIDE DEF chars
  <2> QED  BY <2>6, <2>7, LiterallyStep
<1>7. CASE StringText(m) \/ CharText(m)
  <2>1. m.rule \in TextRules /\ Literally(m, s)
    BY <1>7 DEF StringText, CharText, TextRules
  <2> DEFINE B == 0 .. 255
  <2>2. Bytes \subseteq B
    BY <1>3
  <2> HIDE DEF s, n, Bytes, B
  <2>3. s \in Seq(B)
    BY <1>2, <2>2, SeqMonotonic
  <2>4. s \in Seq(0 .. 255)
    BY <2>3 DEF B
  <2> QED  BY <2>1, <2>4, LiterallyStep
<1> QED  BY <1>4, <1>5, <1>6, <1>7

LEMMA BlankStep ==
    ASSUME Inv, NEW m, Matched(m), Blank(m)
    PROVE  Inv'
<1>1. /\ m.rule \in TextRules /\ Consume(m.n) /\ UNCHANGED <<cond, token, opened, file, echoed, status>>
  BY DEF Blank, Elsewhere, TextRules
<1>2. Building(lex', lex.state)
  BY Zenon DEF Blank, Inv, LiteralInv
<1> QED  BY <1>1, <1>2, TextStep

\* A character that no rule matches.
LEMMA EchoStep ==
    ASSUME Inv, NEW m, Matched(m), Echo(m)
    PROVE  Inv'
<1> DEFINE n == m.n
           c == m.lexeme
<1>1. /\ m.rule = "default" /\ Consume(n) /\ echoed' = echoed \o c /\ at' = at + n
      /\ UNCHANGED <<cond, lex, token, opened, file, status>>
  BY DEF Echo, Consume
<1>2. n = 1 /\ c \in Seq(Bytes) /\ Len(c) = 1 /\ c[1] = text[at + 1] /\ n \in 1 .. Len(text) - at
  BY <1>1 DEF Matched
<1>3. FileInv /\ PlaceInv /\ LiteralInv /\ TokenInv /\ OutInv
  BY DEF Inv
<1>4. at \in Nat /\ Len(text) \in Nat
  BY <1>3, LenProperties DEF FileInv, PlaceInv
<1>5. at' \in Nat /\ at <= at' /\ \A j \in at + 1 .. at + n : j = at + 1
  BY <1>1, <1>2, <1>4
<1>6. FileInv' /\ TextKept /\ text' = text
  BY <1>1, <1>3, FileSame
<1> HIDE DEF n, c
<1>7. echoed' \in Seq(Bytes) /\ (Clean' => Clean /\ c[1] # NL)
  BY <1>1, <1>2, <1>3, EchoedFurther
<1>8. Clean' => \A j \in at + 1 .. at + n : text[j] # NL
  BY <1>2, <1>5, <1>7, Zenon
<1>9. PlaceInv'
  BY <1>1, <1>2, <1>3, <1>6, <1>7, <1>8, PlaceConsumed
<1>10. LiteralInv'
  <2>1. Building(lex', lex.state)
    BY <1>1, <1>3, Zenon DEF LiteralInv
  <2> QED  BY <1>1, <1>3, <1>5, <1>6, <2>1, LiteralKept
<1>11. TokenInv'
  BY <1>1, <1>3, <1>5, <1>6, <1>7, TokenKept
<1>12. OutInv'
  BY <1>1, <1>3, <1>7 DEF OutInv
<1> QED  BY <1>6, <1>9, <1>10, <1>11, <1>12 DEF Inv

\* flex reads more.
LEMMA RefillStep ==
    ASSUME Inv, Refill
    PROVE  Inv'
<1>1. UNCHANGED <<at, cond, lex, place, loc, token, opened, echoed, status>>
  BY DEF Refill
<1>2. FileInv /\ PlaceInv /\ LiteralInv /\ TokenInv /\ OutInv
  BY DEF Inv
<1>3. FileInv' /\ TextKept
  BY <1>2, RefillFile
<1>4. PlaceInv' /\ (Clean' => Clean)
  BY <1>1, <1>2, <1>3, PlaceKept, CleanSame
<1>5. at' \in Nat /\ at <= at'
  BY <1>1, <1>2, LenProperties DEF FileInv, PlaceInv
<1>6. LiteralInv'
  <2>1. Building(lex', lex.state)
    BY <1>1, <1>2, Zenon DEF LiteralInv
  <2> QED  BY <1>1, <1>2, <1>3, <1>5, <2>1, LiteralKept
<1>7. TokenInv'
  BY <1>1, <1>2, <1>3, <1>4, <1>5, TokenKept
<1>8. OutInv'
  BY <1>1, <1>2 DEF OutInv
<1> QED  BY <1>3, <1>4, <1>6, <1>7, <1>8 DEF Inv

LEMMA EndOfFileStep ==
    ASSUME Inv, EndOfFile
    PROVE  Inv'
<1>1. /\ status' = "ended" /\ UNCHANGED <<file, at, cond, lex, place, loc, opened, echoed>>
      /\ token' = [NoToken EXCEPT !.kind = "eof"]
  BY DEF EndOfFile
<1>2. FileInv /\ PlaceInv /\ LiteralInv /\ TokenInv /\ OutInv
  BY DEF Inv
<1>3. FileInv' /\ TextKept
  BY <1>1, <1>2, FileSame
<1>4. PlaceInv'
  BY <1>1, <1>2, <1>3, PlaceKept
<1>5. at' \in Nat /\ at <= at'
  BY <1>1, <1>2, LenProperties DEF FileInv, PlaceInv
<1>6. LiteralInv'
  <2>1. Building(lex', lex.state)
    BY <1>1, <1>2, Zenon DEF LiteralInv
  <2> QED  BY <1>1, <1>2, <1>3, <1>5, <2>1, LiteralKept
<1>7. token'.kind = "eof" /\ token'.from = 0 /\ token'.to = 0
  BY <1>1 DEF NoToken
<1>8. TokenInv'
  BY <1>5, <1>7 DEF TokenInv
<1>9. OutInv'
  BY <1>1, <1>2 DEF OutInv
<1> QED  BY <1>3, <1>4, <1>6, <1>8, <1>9 DEF Inv

LEMMA StutterStep ==
    ASSUME Inv, UNCHANGED vars
    PROVE  Inv'
<1>1. UNCHANGED <<source, seekable, fpos, text, at, cond, lex, place, loc, token, opened, echoed, status>>
  BY DEF vars
<1>2. FileInv'
  BY <1>1 DEF Inv, FileInv, FileReadInOrder
<1>3. PlaceInv'
  BY <1>1 DEF Inv, PlaceInv, Placed, Clean
<1>4. LiteralInv'
  BY <1>1, Zenon DEF Inv, LiteralInv
<1>5. TokenInv'
  BY <1>1, ZenonT(60) DEF Inv, TokenInv, Clean
<1>6. OutInv'
  BY <1>1 DEF Inv, OutInv
<1> QED  BY <1>2, <1>3, <1>4, <1>5, <1>6 DEF Inv

LEMMA NextStep ==
    ASSUME Inv, [Next]_vars
    PROVE  Inv'
<1>1. ASSUME NEW m \in Matches,
             \/ Newline(m) \/ Blank(m) \/ OperatorToken(m) \/ Word(m) \/ Number(m) \/ HexNumber(m)
             \/ OpenString(m) \/ OpenChar(m) \/ CloseString(m) \/ StringNewline(m) \/ CloseChar(m)
             \/ Octal(m) \/ HexEscape(m) \/ SimpleEscape(m) \/ StringText(m) \/ CharText(m) \/ Echo(m)
      PROVE  Inv'
  <2>1. Matched(m)
    <3>1. text \in Seq(Bytes) /\ at \in 0 .. Len(text) /\ cond \in DOMAIN RulesOf
      BY Zenon DEF Inv, FileInv, PlaceInv, LiteralInv
    <3> QED  BY <3>1, MatchesAre
  <2>2. CASE Newline(m)
    BY <2>1, <2>2, NewlineStep
  <2>3. CASE Blank(m)
    BY <2>1, <2>3, BlankStep
  <2>4. CASE OperatorToken(m) \/ Word(m) \/ Number(m) \/ HexNumber(m)
    BY <2>1, <2>4, OperatorStep
  <2>5. CASE OpenString(m) \/ OpenChar(m)
    BY <2>1, <2>5, OpenStep
  <2>6. CASE CloseString(m) \/ CloseChar(m)
    BY <2>1, <2>6, CloseStep
  <2>7. CASE StringNewline(m)
    BY <2>1, <2>7, StringNewlineStep
  <2>8. CASE Octal(m) \/ HexEscape(m) \/ SimpleEscape(m) \/ StringText(m) \/ CharText(m)
    BY <2>1, <2>8, EscapeStep
  <2>9. CASE Echo(m)
    BY <2>1, <2>9, EchoStep
  <2> QED  BY <1>1, <2>2, <2>3, <2>4, <2>5, <2>6, <2>7, <2>8, <2>9, Zenon
<1>2. CASE Refill
  BY <1>2, RefillStep
<1>3. CASE EndOfFile
  BY <1>3, EndOfFileStep
<1>4. CASE UNCHANGED vars
  BY <1>4, StutterStep
<1> QED  BY <1>1, <1>2, <1>3, <1>4, Zenon DEF Next

LEMMA FirstLine ==
    LinesOf(<<>>, 1) = 0 /\ StartOf(<<>>, 1) = 0
<1> DEFINE t == <<>>
<1>1. Newlines(t, 1) = {}
  BY DEF Newlines
<1>2. LinesOf(t, 1) = 0
  BY <1>1, FS_EmptySet DEF LinesOf
<1>3. \A e \in {0} : (\A f \in {0} : f <= e) /\ e = 0
  OBVIOUS
<1>4. StartOf(t, 1) = 0
  <2>1. Newlines(t, 1) \cup {0} = {0}
    BY <1>1
  <2>2. StartOf(t, 1) = Furthest({0})
    BY <2>1, Zenon DEF StartOf
  <2> QED  BY <1>3, <2>2 DEF Furthest
<1> QED  BY <1>2, <1>4

LEMMA InitInv ==
    ASSUME Init
    PROVE  Inv
<1>1. /\ source \in Sources /\ seekable \in BOOLEAN /\ fpos = 0 /\ text = <<>> /\ at = 0 /\ cond = "initial"
      /\ opened = 0 /\ echoed = <<>> /\ status = "scanning" /\ token = NoToken
  BY DEF Init
<1>2. source \in Seq(Bytes)
  BY <1>1, LexerAssumption DEF Bytes
<1>3. Len(source) \in Nat /\ text \in Seq(Bytes) /\ echoed \in Seq(Bytes) /\ Len(text) = 0
  <2> HIDE DEF Bytes
  <2> QED  BY <1>1, <1>2, LenProperties, EmptySeq
<1>4. FileInv
  <2>1. SubSeq(source, 1, 0) = <<>>
    BY <1>2, <1>3
  <2>2. FileReadInOrder
    BY <1>1, <2>1 DEF FileReadInOrder
  <2> QED  BY <1>1, <1>2, <1>3, <2>2 DEF FileInv
<1>5. PlaceInv
  <2>1. /\ place = [line |-> 0, column |-> 0, offset |-> 0]
        /\ loc = [firstLine |-> 0, lastLine |-> 0, firstColumn |-> 0, lastColumn |-> 0, lineOffset |-> 0]
    BY DEF Init
  <2>2. place \in [line: Nat, column: Nat, offset: {at}] /\ place.line = 0 /\ place.column = 0
    BY <1>1, <2>1
  <2>3. loc \in Location /\ loc.lineOffset = 0
    BY <2>1 DEF Location
  <2>4. at + 1 = 1 /\ at - 0 = 0 /\ at \in 0 .. Len(text)
    BY <1>1, <1>3
  <2>5. LinesOf(text, at + 1) = 0 /\ StartOf(text, at + 1) = 0
    BY <1>1, <2>4, FirstLine, Zenon
  <2>6. Placed
    BY <2>2, <2>3, <2>4, <2>5, Zenon DEF Placed
  <2> QED  BY <2>2, <2>3, <2>4, <2>6, Zenon DEF PlaceInv
<1>6. LiteralInv
  <2>1. lex = [state |-> "string", str |-> <<>>, cap |-> 0, int |-> 0]
    BY DEF Init
  <2> DEFINE e == <<>>
             v == 0
  <2>2. e \in Seq(0 .. 255) /\ v \in 0 .. 2^IntBits - 1 /\ v \in Nat
    <3> DEFINE B == 0 .. 255
    <3> HIDE DEF B
    <3>1. e \in Seq(B)
      BY EmptySeq
    <3>2. e \in Seq(0 .. 255)
      BY <3>1 DEF B
    <3> HIDE DEF e
    <3> QED  BY <3>2, ZeroFits
  <2> DEFINE l == [state |-> "string", str |-> e, cap |-> v, int |-> v]
  <2>3. l.str = e /\ l.cap = v /\ l.state = "string"
    OBVIOUS
  <2> HIDE DEF e, v
  <2>4. l \in Literal
    BY <2>2 DEF Literal
  <2> HIDE DEF l
  <2>5. Room(l)
    BY <2>3, Zenon DEF Room, e, v
  <2>6. lex = l
    BY <2>1, Zenon DEF l, e, v
  <2>7. Building(lex, lex.state) /\ lex.state = "string"
    BY <2>3, <2>4, <2>5, <2>6, Zenon DEF Building
  <2>8. cond \in DOMAIN RulesOf /\ cond # "string" /\ opened \in 0 .. at
    BY <1>1 DEF RulesOf
  <2> QED  BY <1>1, <2>7, <2>8, Zenon DEF LiteralInv
<1>7. TokenInv
  <2>1. token.kind = "none" /\ token.from = 0 /\ token.to = 0
    BY <1>1 DEF NoToken
  <2> QED  BY <1>1, <2>1 DEF TokenInv
<1>8. OutInv
  BY <1>1, <1>3 DEF OutInv
<1> QED  BY <1>4, <1>5, <1>6, <1>7, <1>8 DEF Inv

LEMMA Invariant == Spec => []Inv
<1>1. Init => Inv
  BY InitInv
<1>2. Inv /\ [Next]_vars => Inv'
  BY NextStep
<1> QED  BY <1>1, <1>2, PTL DEF Spec

(***************************************************************************)
(* The escaped string (util_escape_str), and its buffer.                   *)
(***************************************************************************)
EscapedUpTo(f, s, n) ==
    f = [i \in 0 .. n |-> IF i = 0 THEN <<>> ELSE f[i - 1] \o Escaped(s[i])]
\* The buffer when the first n characters are in it.
BufferUpTo(f, chars, n) ==
    f = [i \in 0 .. n |-> IF i = 0 THEN [str |-> <<>>, cap |-> EscapeCapacity, held |-> TRUE]
                          ELSE Appended(f[i - 1], chars[i])]

LEMMA EscapedFurther ==
    ASSUME NEW s, NEW n \in Nat, NEW f, EscapedUpTo(f, s, n)
    PROVE  \E g : EscapedUpTo(g, s, n + 1)
<1> DEFINE m == n + 1
           g == [i \in 0 .. m |-> IF i = m THEN f[n] \o Escaped(s[m]) ELSE f[i]]
<1>1. /\ m \in 0 .. m /\ m # 0 /\ m - 1 = n /\ n \in 0 .. n /\ \A i \in 0 .. m : i = m \/ i \in 0 .. n
      /\ \A i \in 0 .. n : i # 0 => i - 1 \in 0 .. n
  OBVIOUS
<1>2. \A i \in 0 .. n : f[i] = IF i = 0 THEN <<>> ELSE f[i - 1] \o Escaped(s[i])
  BY Zenon DEF EscapedUpTo
<1>3. \A i \in 0 .. n : g[i] = f[i]
  OBVIOUS
<1>4. ASSUME NEW i \in 0 .. m
      PROVE  (IF i = m THEN f[n] \o Escaped(s[m]) ELSE f[i])
             = IF i = 0 THEN <<>> ELSE g[i - 1] \o Escaped(s[i])
  <2> HIDE DEF g
  <2>1. CASE i = m
    BY <1>1, <1>3, <2>1, Zenon
  <2>2. CASE i # m
    BY <1>1, <1>2, <1>3, <2>2, Zenon
  <2> QED  BY <2>1, <2>2
<1>5. g = [i \in 0 .. m |-> IF i = 0 THEN <<>> ELSE g[i - 1] \o Escaped(s[i])]
  BY Zenon, <1>4
<1> QED  BY Zenon, <1>5 DEF EscapedUpTo

LEMMA BufferFurther ==
    ASSUME NEW chars, NEW n \in Nat, NEW f, BufferUpTo(f, chars, n)
    PROVE  \E g : BufferUpTo(g, chars, n + 1)
<1> DEFINE m == n + 1
           first == [str |-> <<>>, cap |-> EscapeCapacity, held |-> TRUE]
           g == [i \in 0 .. m |-> IF i = m THEN Appended(f[n], chars[m]) ELSE f[i]]
<1>1. /\ m \in 0 .. m /\ m # 0 /\ m - 1 = n /\ n \in 0 .. n /\ \A i \in 0 .. m : i = m \/ i \in 0 .. n
      /\ \A i \in 0 .. n : i # 0 => i - 1 \in 0 .. n
  OBVIOUS
<1>2. \A i \in 0 .. n : f[i] = IF i = 0 THEN first ELSE Appended(f[i - 1], chars[i])
  BY Zenon DEF BufferUpTo
<1>3. \A i \in 0 .. n : g[i] = f[i]
  OBVIOUS
<1>4. ASSUME NEW i \in 0 .. m
      PROVE  (IF i = m THEN Appended(f[n], chars[m]) ELSE f[i])
             = IF i = 0 THEN first ELSE Appended(g[i - 1], chars[i])
  <2> HIDE DEF g, first
  <2>1. CASE i = m
    BY <1>1, <1>3, <2>1, Zenon
  <2>2. CASE i # m
    BY <1>1, <1>2, <1>3, <2>2, Zenon
  <2> QED  BY <2>1, <2>2
<1>5. g = [i \in 0 .. m |-> IF i = 0 THEN first ELSE Appended(g[i - 1], chars[i])]
  BY Zenon, <1>4
<1> QED  BY Zenon, <1>5 DEF BufferUpTo

LEMMA EscapedExists ==
    ASSUME NEW s, NEW n \in Nat
    PROVE  \E f : EscapedUpTo(f, s, n)
<1> DEFINE G == {k \in Nat : \E f : EscapedUpTo(f, s, k)}
<1>1. 0 \in G
  <2> DEFINE f == [i \in 0 .. 0 |-> <<>>]
  <2>1. \A i \in 0 .. 0 : <<>> = IF i = 0 THEN <<>> ELSE f[i - 1] \o Escaped(s[i])
    OBVIOUS
  <2>2. f = [i \in 0 .. 0 |-> IF i = 0 THEN <<>> ELSE f[i - 1] \o Escaped(s[i])]
    BY <2>1, Zenon
  <2>3. EscapedUpTo(f, s, 0)
    BY <2>2, Zenon DEF EscapedUpTo
  <2>4. \E h : EscapedUpTo(h, s, 0)
    BY <2>3, Zenon
  <2> QED  BY <2>4
<1>2. ASSUME NEW k \in Nat, k \in G PROVE k + 1 \in G
  <2>1. PICK f : EscapedUpTo(f, s, k)
    BY <1>2
  <2>2. \E g : EscapedUpTo(g, s, k + 1)
    BY <2>1, EscapedFurther
  <2>3. k + 1 \in Nat
    OBVIOUS
  <2> QED  BY <2>2, <2>3
<1> HIDE DEF G
<1>3. n \in G
  BY <1>1, <1>2, UpTo
<1> QED  BY <1>3 DEF G

LEMMA BufferExists ==
    ASSUME NEW chars, NEW n \in Nat
    PROVE  \E f : BufferUpTo(f, chars, n)
<1> DEFINE G == {k \in Nat : \E f : BufferUpTo(f, chars, k)}
<1>1. 0 \in G
  <2> DEFINE first == [str |-> <<>>, cap |-> EscapeCapacity, held |-> TRUE]
             f == [i \in 0 .. 0 |-> first]
  <2>1. \A i \in 0 .. 0 : first = IF i = 0 THEN first ELSE Appended(f[i - 1], chars[i])
    OBVIOUS
  <2>2. f = [i \in 0 .. 0 |-> IF i = 0 THEN first ELSE Appended(f[i - 1], chars[i])]
    BY <2>1, Zenon
  <2>3. BufferUpTo(f, chars, 0)
    BY <2>2, Zenon DEF BufferUpTo
  <2>4. \E h : BufferUpTo(h, chars, 0)
    BY <2>3, Zenon
  <2> QED  BY <2>4
<1>2. ASSUME NEW k \in Nat, k \in G PROVE k + 1 \in G
  <2>1. PICK f : BufferUpTo(f, chars, k)
    BY <1>2
  <2>2. \E g : BufferUpTo(g, chars, k + 1)
    BY <2>1, BufferFurther
  <2>3. k + 1 \in Nat
    OBVIOUS
  <2> QED  BY <2>2, <2>3
<1> HIDE DEF G
<1>3. n \in G
  BY <1>1, <1>2, UpTo
<1> QED  BY <1>3 DEF G

LEMMA EscapedAllIs ==
    ASSUME NEW s, Len(s) \in Nat
    PROVE  \E f : EscapedUpTo(f, s, Len(s)) /\ EscapedAll(s) = f[Len(s)]
<1>1. \E f : EscapedUpTo(f, s, Len(s))
  BY EscapedExists
<1> DEFINE f == CHOOSE f : f = [i \in 0 .. Len(s) |-> IF i = 0 THEN <<>> ELSE f[i - 1] \o Escaped(s[i])]
<1>2. EscapedUpTo(f, s, Len(s))
  BY <1>1, Zenon DEF EscapedUpTo
<1>3. EscapedAll(s) = f[Len(s)]
  BY Zenon DEF EscapedAll
<1> QED  BY <1>2, <1>3, Zenon

LEMMA AppendedAllIs ==
    ASSUME NEW chars, Len(chars) \in Nat
    PROVE  \E f : BufferUpTo(f, chars, Len(chars)) /\ AppendedAll(chars) = f[Len(chars)]
<1>1. \E f : BufferUpTo(f, chars, Len(chars))
  BY BufferExists
<1> DEFINE f == CHOOSE f : f = [i \in 0 .. Len(chars) |->
                    IF i = 0 THEN [str |-> <<>>, cap |-> EscapeCapacity, held |-> TRUE]
                    ELSE Appended(f[i - 1], chars[i])]
<1>2. BufferUpTo(f, chars, Len(chars))
  BY <1>1, Zenon DEF BufferUpTo
<1>3. AppendedAll(chars) = f[Len(chars)]
  BY Zenon DEF AppendedAll
<1> QED  BY <1>2, <1>3, Zenon

Byte == 0 .. 255

\* What a character is escaped to: itself, or two or four others.
LEMMA WrittenType ==
    ASSUME NEW c \in Byte
    PROVE  Escaped(c) \in Seq(Int)
<1>1. c \in Int /\ SignedChar(c) \in Int /\ c \in 0 .. 255
  BY DEF Byte, SignedChar
<1>2. \A val \in Int : HexChar(val) \in Int
  BY DEF HexChar, Undefined
<1>3. HexChar(SignedChar(c) \div 16) \in Int /\ HexChar(c % 16) \in Int
  <2>1. SignedChar(c) \div 16 \in Int /\ c % 16 \in Int
    BY <1>1
  <2> QED  BY <1>2, <2>1
<1> DEFINE h == HexPair(c)
<1>4. h \in Seq(Int)
  BY <1>3 DEF HexPair
<1>5. /\ <<c>> \in Seq(Int) /\ <<BS, 110>> \in Seq(Int) /\ <<BS, 98>> \in Seq(Int) /\ <<BS, 114>> \in Seq(Int)
      /\ <<BS, 116>> \in Seq(Int) /\ <<BS, 120>> \in Seq(Int)
  BY <1>1 DEF BS
<1> DEFINE p == <<BS, 120>>
<1>6. p \o h \in Seq(Int)
  <2> DEFINE T == Int
  <2>1. p \in Seq(T) /\ h \in Seq(T)
    BY <1>4, <1>5
  <2> HIDE DEF p, h, T
  <2>2. p \o h \in Seq(T)
    BY <2>1, ConcatProperties
  <2> QED  BY <2>2 DEF T
<1> DEFINE e1 == <<c>>  e2 == <<BS, 110>>  e3 == <<BS, 98>>  e4 == <<BS, 114>>  e5 == <<BS, 116>>
           e6 == p \o h
           T == Seq(Int)
<1>7. Escaped(c) \in {e1, e2, e3, e4, e5, e6}
  BY ZenonT(60) DEF Escaped
<1>8. e1 \in T /\ e2 \in T /\ e3 \in T /\ e4 \in T /\ e5 \in T /\ e6 \in T
  BY <1>5, <1>6, Zenon
<1> HIDE DEF e1, e2, e3, e4, e5, e6, T
<1>9. Escaped(c) \in T
  BY <1>7, <1>8
<1> QED  BY <1>9 DEF T

LEMMA EscapedAllType ==
    ASSUME NEW s \in Seq(Byte)
    PROVE  EscapedAll(s) \in Seq(Int)
<1> DEFINE n == Len(s)
<1>1. n \in Nat /\ \A i \in 1 .. n : s[i] \in Byte
  BY LenProperties, ElementOfSeq
<1>2. PICK f : EscapedUpTo(f, s, n) /\ EscapedAll(s) = f[n]
  BY <1>1, EscapedAllIs
<1> HIDE DEF n
<1>3. \A i \in 0 .. n : f[i] = IF i = 0 THEN <<>> ELSE f[i - 1] \o Escaped(s[i])
  BY <1>2, Zenon DEF EscapedUpTo
<1> DEFINE T == Int
           G == {k \in Nat : k <= n => f[k] \in Seq(T)}
<1>4. 0 \in G
  <2>1. f[0] = <<>>
    BY <1>1, <1>3
  <2> HIDE DEF T
  <2> QED  BY <2>1, EmptySeq
<1>5. ASSUME NEW k \in Nat, k < n, k \in G PROVE k + 1 \in G
  <2> DEFINE j == k + 1
  <2>1. j \in 0 .. n /\ j \in 1 .. n /\ j # 0 /\ j - 1 = k /\ j \in Nat /\ k <= n
    BY <1>1, <1>5
  <2> HIDE DEF T
  <2>2. f[k] \in Seq(T)
    BY <1>5, <2>1
  <2> HIDE DEF j, G
  <2>3. f[j] = f[k] \o Escaped(s[j])
    BY <1>3, <2>1
  <2>4. Escaped(s[j]) \in Seq(T)
    BY <1>1, <2>1, WrittenType DEF T
  <2>5. f[k] \o Escaped(s[j]) \in Seq(T)
    BY <2>2, <2>4, ConcatProperties
  <2>6. f[j] \in Seq(T)
    BY <2>3, <2>5, Zenon
  <2> QED  BY <2>1, <2>6 DEF j, G
<1> HIDE DEF G
<1>6. n \in 0 .. n /\ n <= n
  BY <1>1
<1>7. n \in G
  BY <1>1, <1>4, <1>5, <1>6, UpTo
<1>8. f[n] \in Seq(T)
  BY <1>6, <1>7 DEF G
<1> QED  BY <1>2, <1>8

\* append_char: the buffer is longer than what is in it, before and after.
Holding(b) ==
    /\ b \in [str: Seq(Int), cap: Nat, held: BOOLEAN]
    /\ b.held /\ Len(b.str) < b.cap
LEMMA AppendedHolds ==
    ASSUME NEW b, Holding(b), NEW c \in Int
    PROVE  Holding(Appended(b, c))
<1>1. b.str \in Seq(Int) /\ b.cap \in Nat /\ b.held = TRUE /\ Len(b.str) < b.cap
  BY DEF Holding
<1>2. Append(b.str, c) \in Seq(Int) /\ Len(Append(b.str, c)) = Len(b.str) + 1 /\ Len(b.str) \in Nat
  <2> DEFINE s == b.str
             T == Int
  <2>1. s \in Seq(T) /\ c \in T
    BY <1>1
  <2> HIDE DEF s, T
  <2>2. Append(s, c) \in Seq(T) /\ Len(Append(s, c)) = Len(s) + 1 /\ Len(s) \in Nat
    BY <2>1, AppendProperties, LenProperties
  <2> QED  BY <2>2 DEF s, T
<1> DEFINE cap == IF Len(b.str) + 1 >= b.cap THEN 2 * b.cap ELSE b.cap
           after == Append(b.str, c)
           held == b.held /\ Len(b.str) < cap
<1>3. cap \in Nat /\ Len(b.str) + 1 < cap /\ held = TRUE
  BY <1>1, <1>2
<1>4. Appended(b, c) = [str |-> after, cap |-> cap, held |-> held]
  BY Zenon DEF Appended
<1>5. after \in Seq(Int) /\ Len(after) < cap
  BY <1>2, <1>3
<1> HIDE DEF cap, after, held
<1> DEFINE new == [str |-> after, cap |-> cap, held |-> held]
<1>6. new \in [str: Seq(Int), cap: Nat, held: BOOLEAN] /\ new.held /\ Len(new.str) < new.cap
  BY <1>3, <1>5
<1> HIDE DEF new
<1>7. Holding(new)
  BY <1>6 DEF Holding
<1> QED  BY <1>4, <1>7, Zenon DEF new

LEMMA AppendedAllHolds ==
    ASSUME NEW chars \in Seq(Int)
    PROVE  Holding(AppendedAll(chars))
<1> DEFINE n == Len(chars)
           first == [str |-> <<>>, cap |-> EscapeCapacity, held |-> TRUE]
<1>1. n \in Nat /\ \A i \in 1 .. n : chars[i] \in Int
  <2> DEFINE T == Int
  <2>1. chars \in Seq(T)
    OBVIOUS
  <2> HIDE DEF T
  <2>2. Len(chars) \in Nat /\ \A i \in 1 .. Len(chars) : chars[i] \in T
    BY <2>1, LenProperties, ElementOfSeq
  <2> QED  BY <2>2 DEF T
<1>2. PICK f : BufferUpTo(f, chars, n) /\ AppendedAll(chars) = f[n]
  BY <1>1, AppendedAllIs
<1>3. Holding(first)
  <2>1. <<>> \in Seq(Int) /\ Len(<<>>) = 0
    OBVIOUS
  <2> QED  BY <2>1, EscapeAssumption DEF Holding
<1> HIDE DEF n
<1>4. \A i \in 0 .. n : f[i] = IF i = 0 THEN first ELSE Appended(f[i - 1], chars[i])
  BY <1>2, Zenon DEF BufferUpTo
<1> HIDE DEF first
<1> DEFINE G == {k \in Nat : k <= n => Holding(f[k])}
<1>5. 0 \in G
  <2>1. f[0] = first
    BY <1>1, <1>4
  <2> QED  BY <1>3, <2>1
<1>6. ASSUME NEW k \in Nat, k < n, k \in G PROVE k + 1 \in G
  <2> DEFINE j == k + 1
  <2>1. j \in 0 .. n /\ j \in 1 .. n /\ j # 0 /\ j - 1 = k /\ j \in Nat /\ k <= n
    BY <1>1, <1>6
  <2>2. Holding(f[k])
    BY <1>6, <2>1
  <2> HIDE DEF j, G
  <2>3. f[j] = Appended(f[k], chars[j]) /\ chars[j] \in Int
    BY <1>1, <1>4, <2>1
  <2>4. Holding(Appended(f[k], chars[j]))
    BY <2>2, <2>3, AppendedHolds
  <2>5. Holding(f[j])
    BY <2>3, <2>4, Zenon
  <2> QED  BY <2>1, <2>5 DEF j, G
<1> HIDE DEF G
<1>7. n \in 0 .. n /\ n <= n
  BY <1>1
<1>8. n \in G
  BY <1>1, <1>5, <1>6, <1>7, UpTo
<1>9. Holding(f[n])
  BY <1>7, <1>8 DEF G
<1> QED  BY <1>2, <1>9, Zenon

\* Whatever is escaped.
LEMMA EscapeHolds ==
    ASSUME NEW s \in Seq(Byte)
    PROVE  EscapeStr(s).held
<1> DEFINE T == Int
           e == EscapedAll(s)
           z == <<0>>
<1>1. e \in Seq(T)
  BY EscapedAllType
<1>2. z \in Seq(T)
  OBVIOUS
<1> HIDE DEF T, e, z
<1>3. e \o z \in Seq(T)
  BY <1>1, <1>2, ConcatProperties
<1>4. Holding(AppendedAll(e \o z))
  BY <1>3, AppendedAllHolds DEF T
<1>5. EscapeStr(s) = AppendedAll(e \o z)
  BY Zenon DEF EscapeStr, e, z
<1> QED  BY <1>4, <1>5, Zenon DEF Holding

(***************************************************************************)
(* The string the parser joins.                                            *)
(***************************************************************************)
\* A buffer with a NUL in it, behind which the str functions do not look.
Terminated(b) == b \in Seq(Byte) /\ \E i \in 1 .. Len(b) : b[i] = 0

LEMMA CStringType ==
    ASSUME NEW b, Terminated(b)
    PROVE  CString(b) \in Seq(Byte)
<1> DEFINE n == Len(b)
           zeros == {i \in DOMAIN b : b[i] = 0}
           z == CHOOSE z \in zeros : \A y \in zeros : z <= y
<1>1. b \in Seq(Byte) /\ n \in Nat /\ DOMAIN b = 1 .. n /\ \A i \in 1 .. n : b[i] \in Byte
  BY LenProperties, ElementOfSeq DEF Terminated
<1>2. zeros \in SUBSET Nat /\ zeros # {} /\ zeros \subseteq 1 .. n
  BY <1>1 DEF Terminated
<1>3. CString(b) = SubSeq(b, 1, z - 1)
  BY Zenon DEF CString
<1> HIDE DEF zeros
<1>4. \E x \in zeros : \A y \in zeros : x <= y
  BY <1>2, LeastOf
<1>5. z \in zeros
  BY <1>4, Zenon
<1> HIDE DEF z, n
<1>6. SubSeq(b, 1, z - 1) \in Seq(Byte)
  <2> DEFINE m == z - 1
             o == 1
             T == Byte
  <2>1. m \in Int /\ o \in Int /\ \A i \in o .. m : b[i] \in T
    BY <1>1, <1>2, <1>5
  <2> HIDE DEF m, o, T
  <2>2. SubSeq(b, o, m) \in Seq(T)
    BY <2>1, SubSeqProperties
  <2> QED  BY <2>2 DEF m, o, T
<1> QED  BY <1>3, <1>6, Zenon

LEMMA AppendTerminates ==
    ASSUME NEW s \in Seq(Byte)
    PROVE  Terminated(Append(s, 0)) /\ Terminated(s \o <<0>>)
<1> DEFINE x == 0
           T == Byte
           t == Append(s, x)
           z == <<x>>
<1>1. x \in T
  BY DEF Byte
<1>2. s \in Seq(T)
  OBVIOUS
<1> HIDE DEF x, T
<1>3. z \in Seq(T)
  BY <1>1
<1>4. t \in Seq(T) /\ Len(t) = Len(s) + 1 /\ t[Len(s) + 1] = x /\ Len(s) \in Nat
  BY <1>1, <1>2, AppendProperties, LenProperties
<1>5. Append(s, x) = s \o <<x>>
  BY <1>1, <1>2, AppendIsConcat
<1> HIDE DEF t
<1>6. Len(s) + 1 \in 1 .. Len(t)
  BY <1>4
<1>7. Terminated(t)
  BY <1>4, <1>6 DEF Terminated, T, x
<1> QED  BY <1>5, <1>7 DEF t, x

LEMMA JoinedTerminates ==
    ASSUME NEW a, NEW b, Terminated(a), Terminated(b)
    PROVE  Terminated(Joined(a, b))
<1> DEFINE s == CString(a)
           t == CString(b)
           T == Byte
<1>1. s \in Seq(T) /\ t \in Seq(T)
  BY CStringType
<1> HIDE DEF s, t, T
<1>2. s \o t \in Seq(T)
  BY <1>1, ConcatProperties
<1>3. Terminated((s \o t) \o <<0>>)
  BY <1>2, AppendTerminates DEF T
<1>4. (s \o t) \o <<0>> = CString(a) \o CString(b) \o <<0>>
  BY DEF s, t
<1> QED  BY <1>3, <1>4, Zenon DEF Joined

\* The strings of the scanner and of the parser are terminated.
StringsEnd ==
    /\ token.kind = "string" => Terminated(token.value.str)
    /\ string # <<>> => Terminated(string)

LEMMA TokenEnds ==
    ASSUME Inv, StringsEnd, [Next]_vars
    PROVE  token'.kind = "string" => Terminated(token'.value.str)
<1>1. (token' = token \/ token'.kind # "string") => (token'.kind = "string" => Terminated(token'.value.str))
  BY Zenon DEF StringsEnd
<1>2. ASSUME NEW m, NEW kind, NEW value, Return(kind, value, m), kind # "string" PROVE token'.kind # "string"
  <2>1. token'.kind = kind
    BY <1>2 DEF Return
  <2> QED  BY <1>2, <2>1
<1>3. ASSUME NEW m \in Matches,
             \/ Newline(m) \/ Blank(m) \/ OperatorToken(m) \/ Word(m) \/ Number(m) \/ HexNumber(m)
             \/ OpenString(m) \/ OpenChar(m) \/ CloseString(m) \/ StringNewline(m) \/ CloseChar(m)
             \/ Octal(m) \/ HexEscape(m) \/ SimpleEscape(m) \/ StringText(m) \/ CharText(m) \/ Echo(m)
      PROVE  token'.kind = "string" => Terminated(token'.value.str)
  <2>1. CASE Newline(m) \/ Blank(m) \/ Echo(m) \/ OpenString(m) \/ OpenChar(m) \/ StringNewline(m)
    <3>1. token' = token
      BY <2>1, Zenon DEF Newline, Blank, Echo, OpenString, OpenChar, StringNewline
    <3> QED  BY <1>1, <3>1, Zenon
  <2>2. CASE Octal(m) \/ HexEscape(m) \/ SimpleEscape(m) \/ StringText(m) \/ CharText(m)
    <3>1. token' = token
      BY <2>2, Zenon DEF Octal, HexEscape, SimpleEscape, StringText, CharText, Literally
    <3> QED  BY <1>1, <3>1, Zenon
  <2>3. CASE OperatorToken(m) \/ Word(m) \/ Number(m) \/ HexNumber(m) \/ CloseChar(m)
    <3>1. /\ "operator" # "string" /\ "number" # "string"
          /\ (IF m.lexeme \in Keywords THEN "keyword" ELSE "identifier") # "string"
      OBVIOUS
    <3>2. CASE OperatorToken(m)
      BY <1>1, <1>2, <3>1, <3>2, Zenon DEF OperatorToken
    <3>3. CASE Word(m)
      BY <1>1, <1>2, <3>1, <3>3, Zenon DEF Word
    <3>4. CASE Number(m)
      BY <1>1, <1>2, <3>1, <3>4, Zenon DEF Number
    <3>5. CASE HexNumber(m)
      BY <1>1, <1>2, <3>1, <3>5, Zenon DEF HexNumber
    <3>6. CASE CloseChar(m)
      BY <1>1, <1>2, <3>1, <3>6, Zenon DEF CloseChar
    <3> QED  BY <2>3, <3>2, <3>3, <3>4, <3>5, <3>6
  <2>4. CASE CloseString(m)
    <3>1. Matched(m)
      <4>1. text \in Seq(Bytes) /\ at \in 0 .. Len(text) /\ cond \in DOMAIN RulesOf
        BY Zenon DEF Inv, FileInv, PlaceInv, LiteralInv
      <4> QED  BY <4>1, MatchesAre
    <3>2. lex.state = "string"
      <4>1. m.rule \in {"closeString", "stringNewline"}
        BY <2>4 DEF CloseString
      <4> QED  BY <3>1, <4>1, RuleConds
    <3>3. lex.str \in Seq(Byte)
      <4>1. lex \in Literal
        BY Zenon DEF Inv, LiteralInv, Building
      <4> QED  BY <4>1 DEF Literal, Byte
    <3>4. AppendTo(lex, 0).str = Append(lex.str, 0)
      <4> DEFINE s == Append(lex.str, 0)
                 c == WithRoom(Len(lex.str) + 1, lex.cap)
      <4>1. AppendTo(lex, 0) = [lex EXCEPT !.str = s, !.cap = c]
        <5>1. ~(lex.state = "char")
          BY <3>2
        <5> QED  BY <5>1, Zenon DEF AppendTo
      <4>2. lex \in Literal
        BY Zenon DEF Inv, LiteralInv, Building
      <4> HIDE DEF s, c
      <4>3. [lex EXCEPT !.str = s, !.cap = c].str = s
        BY <4>2 DEF Literal
      <4> QED  BY <4>1, <4>3, Zenon DEF s
    <3> DEFINE str == AppendTo(lex, 0).str
               cap == AppendTo(lex, 0).cap
    <3>5. Terminated(str)
      BY <3>3, <3>4, AppendTerminates
    <3>6. Return("string", [str |-> str, cap |-> cap], m)
      BY <2>4, Zenon DEF CloseString
    <3> HIDE DEF str, cap
    <3>7. token'.value.str = str
      BY <3>6 DEF Return
    <3> QED  BY <3>5, <3>7, Zenon
  <2> QED  BY <1>3, <2>1, <2>2, <2>3, <2>4, Zenon
<1>4. CASE Refill
  BY <1>1, <1>4, Zenon DEF Refill
<1>5. CASE EndOfFile
  <2>1. token'.kind = "eof" /\ "eof" # "string"
    BY <1>5 DEF EndOfFile, NoToken
  <2> QED  BY <1>1, <2>1, Zenon
<1>6. CASE UNCHANGED vars
  <2>1. token' = token
    BY <1>6 DEF vars
  <2> QED  BY <1>1, <2>1, Zenon
<1> QED  BY <1>3, <1>4, <1>5, <1>6, Zenon DEF Next

\* Every step of the scanner and the parser behind it keeps this.
LEMMA NextStringsEnd ==
    ASSUME Inv, StringsEnd, [Scan]_allVars
    PROVE  StringsEnd'
<1>1. [Next]_vars
  BY DEF Scan, allVars
<1>2. token'.kind = "string" => Terminated(token'.value.str)
  BY <1>1, TokenEnds
<1>3. string' # <<>> => Terminated(string')
  <2>1. CASE UNCHANGED string
    BY <2>1, Zenon DEF StringsEnd
  <2>2. CASE TakeToken
    <3> DEFINE str == token'.value.str
    <3>1. CASE token'.kind = "string" /\ string # <<>>
      <4>1. string' = Joined(string, str)
        BY <2>2, <3>1, Zenon DEF TakeToken
      <4>2. Terminated(string) /\ Terminated(str)
        BY <1>2, <3>1, Zenon DEF StringsEnd
      <4> HIDE DEF str
      <4>3. Terminated(Joined(string, str))
        BY <4>2, JoinedTerminates
      <4> QED  BY <4>1, <4>3, Zenon
    <3>2. CASE token'.kind = "string" /\ ~(string # <<>>)
      BY <1>2, <2>2, <3>2, Zenon DEF TakeToken
    <3>3. CASE token'.kind # "string"
      BY <2>2, <3>3, Zenon DEF TakeToken
    <3> QED  BY <3>1, <3>2, <3>3
  <2> QED  BY <2>1, <2>2 DEF Scan, allVars
<1> QED  BY <1>2, <1>3, Zenon DEF StringsEnd

LEMMA LiteralsInvariant == LiteralsSpec => [](Inv /\ StringsEnd)
<1>1. LiteralsInit => Inv /\ StringsEnd
  <2>1. LiteralsInit => Inv
    BY InitInv DEF LiteralsInit
  <2>2. LiteralsInit => token.kind # "string" /\ string = <<>>
    BY DEF LiteralsInit, Init, ParserInit, NoToken
  <2> QED  BY <2>1, <2>2, Zenon DEF StringsEnd
<1>2. Inv /\ StringsEnd /\ [Scan]_allVars => (Inv /\ StringsEnd)'
  <2>1. [Scan]_allVars => [Next]_vars
    BY DEF Scan, allVars
  <2> QED  BY <2>1, NextStep, NextStringsEnd
<1> QED  BY <1>1, <1>2, PTL DEF LiteralsSpec

(***************************************************************************)
(* Numbers.                                                                *)
(***************************************************************************)
PlacesUpTo(f, values, b, n) == f = [k \in 0 .. n |-> IF k = 0 THEN 0 ELSE b * f[k - 1] + values[k]]

LEMMA PlacesFurther ==
    ASSUME NEW values, NEW b, NEW n \in Nat, NEW f, PlacesUpTo(f, values, b, n)
    PROVE  \E g : PlacesUpTo(g, values, b, n + 1)
<1> DEFINE m == n + 1
           step == b * f[n] + values[m]
           g == [k \in 0 .. m |-> IF k = m THEN step ELSE f[k]]
<1>1. /\ \A k \in 0 .. n : k \in 0 .. m /\ k # m
      /\ m \in 0 .. m /\ m # 0 /\ m - 1 = n /\ n \in 0 .. n /\ \A k \in 0 .. m : k = m \/ k \in 0 .. n
      /\ \A k \in 0 .. n : k # 0 => k - 1 \in 0 .. n
  OBVIOUS
<1>2. \A k \in 0 .. n : f[k] = IF k = 0 THEN 0 ELSE b * f[k - 1] + values[k]
  BY Zenon DEF PlacesUpTo
<1>3. \A k \in 0 .. n : g[k] = f[k]
  BY <1>1
<1>4. ASSUME NEW k \in 0 .. m
      PROVE  (IF k = m THEN step ELSE f[k]) = IF k = 0 THEN 0 ELSE b * g[k - 1] + values[k]
  <2> HIDE DEF g
  <2>1. CASE k = m
    BY <1>1, <1>3, <2>1, Zenon
  <2>2. CASE k # m
    BY <1>1, <1>2, <1>3, <2>2, Zenon
  <2> QED  BY <2>1, <2>2
<1>5. g = [k \in 0 .. m |-> IF k = 0 THEN 0 ELSE b * g[k - 1] + values[k]]
  BY Zenon, <1>4
<1> QED  BY Zenon, <1>5 DEF PlacesUpTo

LEMMA PlacesExist ==
    ASSUME NEW values, NEW b, NEW n \in Nat
    PROVE  \E f : PlacesUpTo(f, values, b, n)
<1> DEFINE G == {k \in Nat : \E f : PlacesUpTo(f, values, b, k)}
<1>1. 0 \in G
  <2> DEFINE f == [k \in 0 .. 0 |-> 0]
  <2>1. \A k \in 0 .. 0 : 0 = IF k = 0 THEN 0 ELSE b * f[k - 1] + values[k]
    OBVIOUS
  <2>2. f = [k \in 0 .. 0 |-> IF k = 0 THEN 0 ELSE b * f[k - 1] + values[k]]
    BY <2>1, Zenon
  <2>3. PlacesUpTo(f, values, b, 0)
    BY <2>2, Zenon DEF PlacesUpTo
  <2>4. \E h : PlacesUpTo(h, values, b, 0)
    BY <2>3, Zenon
  <2> QED  BY <2>4
<1>2. ASSUME NEW k \in Nat, k \in G PROVE k + 1 \in G
  <2>1. PICK f : PlacesUpTo(f, values, b, k)
    BY <1>2
  <2>2. \E g : PlacesUpTo(g, values, b, k + 1)
    BY <2>1, PlacesFurther
  <2>3. k + 1 \in Nat
    OBVIOUS
  <2> QED  BY <2>2, <2>3
<1> HIDE DEF G
<1>3. n \in G
  BY <1>1, <1>2, UpTo
<1> QED  BY <1>3 DEF G

LEMMA PlacesAre ==
    ASSUME NEW values, NEW b, Len(values) \in Nat
    PROVE  \E f : PlacesUpTo(f, values, b, Len(values)) /\ Places(values, b) = f[Len(values)]
<1>1. \E f : PlacesUpTo(f, values, b, Len(values))
  BY PlacesExist
<1> DEFINE f == CHOOSE f : f = [k \in 0 .. Len(values) |-> IF k = 0 THEN 0 ELSE b * f[k - 1] + values[k]]
<1>2. PlacesUpTo(f, values, b, Len(values))
  BY <1>1, Zenon DEF PlacesUpTo
<1>3. Places(values, b) = f[Len(values)]
  BY Zenon DEF Places
<1> QED  BY <1>2, <1>3, Zenon

Bases == {8, 10, 16, 256}

LEMMA PlacesStep ==
    ASSUME NEW values, NEW b, NEW n \in Nat, NEW f, PlacesUpTo(f, values, b, n)
    PROVE  f[0] = 0 /\ \A k \in 1 .. n : f[k] = b * f[k - 1] + values[k]
<1>1. \A k \in 0 .. n : f[k] = IF k = 0 THEN 0 ELSE b * f[k - 1] + values[k]
  BY Zenon DEF PlacesUpTo
<1>2. 0 \in 0 .. n /\ \A k \in 1 .. n : k \in 0 .. n /\ k # 0
  OBVIOUS
<1> QED  BY <1>1, <1>2, Zenon

\* The partial sums of places never fall.
LEMMA PlacesRise ==
    ASSUME NEW values, NEW n \in Nat, n = Len(values), \A k \in 1 .. n : values[k] \in Nat, NEW b \in Bases
    PROVE  \E f : /\ Places(values, b) = f[n] /\ f[0] = 0
                  /\ \A k \in 0 .. n : f[k] \in Nat /\ f[k] <= f[n]
                  /\ \A k \in 1 .. n : f[k] = b * f[k - 1] + values[k]
<1>1. PICK f : PlacesUpTo(f, values, b, n) /\ Places(values, b) = f[n]
  BY PlacesAre
<1>3. f[0] = 0 /\ \A k \in 1 .. n : f[k] = b * f[k - 1] + values[k]
  BY <1>1, PlacesStep
<1>4. \A k \in 0 .. n : f[k] \in Nat
  <2> DEFINE G == {k \in Nat : k <= n => f[k] \in Nat}
  <2>1. 0 \in G
    BY <1>3
  <2>2. ASSUME NEW k \in Nat, k < n, k \in G PROVE k + 1 \in G
    <3> DEFINE j == k + 1
    <3>1. j \in 1 .. n /\ j - 1 = k /\ k <= n /\ j \in Nat
      BY <2>2
    <3>2. f[k] \in Nat
      BY <2>2, <3>1
    <3> HIDE DEF j, G
    <3>3. f[j] = b * f[k] + values[j] /\ values[j] \in Nat
      BY <1>3, <3>1
    <3> DEFINE x == f[k]
               y == values[j]
    <3>4. x \in Nat /\ y \in Nat
      BY <3>2, <3>3
    <3> HIDE DEF x, y
    <3>5. b * x + y \in Nat
      BY <3>4 DEF Bases
    <3>6. f[j] \in Nat
      BY <3>3, <3>5, Zenon DEF x, y
    <3> QED  BY <3>1, <3>6 DEF G, j
  <2>3. \A k : k \in G => (k <= n => f[k] \in Nat)
    OBVIOUS
  <2> HIDE DEF G
  <2>4. \A k \in 0 .. n : k \in G
    BY <2>1, <2>2, UpTo
  <2> QED  BY <2>3, <2>4
<1>5. ASSUME NEW k \in 1 .. n PROVE f[k - 1] <= f[k]
  <2>1. f[k - 1] \in Nat /\ f[k] = b * f[k - 1] + values[k] /\ values[k] \in Nat
    BY <1>3, <1>4
  <2> DEFINE x == f[k - 1]
             y == values[k]
  <2>2. x \in Nat /\ y \in Nat /\ f[k] = b * x + y
    BY <2>1
  <2> HIDE DEF x, y
  <2>3. x <= b * x + y
    BY <2>2 DEF Bases
  <2> QED  BY <2>2, <2>3, Zenon DEF x
<1>6. \A k \in 0 .. n : f[k] <= f[n]
  <2> DEFINE G == {k \in Nat : k <= n => f[n - k] <= f[n]}
  <2>1. 0 \in G
    BY <1>4
  <2>2. ASSUME NEW k \in Nat, k < n, k \in G PROVE k + 1 \in G
    <3>1. n - k \in 1 .. n /\ (n - k) - 1 = n - (k + 1) /\ k <= n /\ k + 1 \in Nat /\ n - (k + 1) \in 0 .. n /\ n \in 0 .. n
      BY <2>2
    <3>2. f[n - k] <= f[n] /\ f[(n - k) - 1] <= f[n - k]
      BY <1>5, <2>2, <3>1
    <3>3. f[n - (k + 1)] = f[(n - k) - 1] /\ f[n - (k + 1)] \in Nat /\ f[n - k] \in Nat /\ f[n] \in Nat
      <4>1. n - k \in 0 .. n
        BY <3>1
      <4> QED  BY <1>4, <3>1, <4>1, Zenon
    <3>4. f[n - (k + 1)] <= f[n]
      BY <3>2, <3>3
    <3> QED  BY <3>1, <3>4
  <2>3. \A k : k \in G => (k <= n => f[n - k] <= f[n])
    OBVIOUS
  <2> HIDE DEF G
  <2>4. \A k \in 0 .. n : k \in G
    BY <2>1, <2>2, UpTo
  <2>5. ASSUME NEW k \in 0 .. n PROVE f[k] <= f[n]
    <3>1. n - k \in 0 .. n /\ n - (n - k) = k
      OBVIOUS
    <3>2. f[n - (n - k)] <= f[n]
      BY <2>3, <2>4, <3>1
    <3> QED  BY <3>1, <3>2
  <2> QED  BY <2>5
<1> QED  BY <1>1, <1>3, <1>4, <1>6

LEMMA DigitsCount ==
    ASSUME NEW c \in HexDigits
    PROVE  DigitValue(c) \in 0 .. 15
  BY DEF HexDigits, Digits, DigitValue

\* A number that fits into an int is not cut.
LEMMA NumberFits ==
    ASSUME NEW digits, NEW n \in Nat, n = Len(digits), \A k \in 1 .. n : digits[k] \in HexDigits,
           NEW b \in Bases, Value(digits, b) < 2^IntBits
    PROVE  NumberOf(digits, b) = Value(digits, b)
<1> DEFINE values == [i \in 1 .. n |-> DigitValue(digits[i])]
<1>1. Len(values) = n /\ \A k \in 1 .. n : values[k] = DigitValue(digits[k]) /\ values[k] \in Nat
  BY DigitsCount
<1>2. Value(digits, b) = Places(values, b)
  BY Zenon DEF Value
<1> HIDE DEF values
<1>3. PICK f : /\ Places(values, b) = f[n] /\ f[0] = 0
               /\ \A k \in 0 .. n : f[k] \in Nat /\ f[k] <= f[n]
               /\ \A k \in 1 .. n : f[k] = b * f[k - 1] + values[k]
  BY <1>1, PlacesRise
<1>4. PICK g : NumberUpTo(g, digits, b, n) /\ NumberOf(digits, b) = g[n]
  BY NumberIs
<1>5. \A k \in 0 .. n : g[k] = IF k = 0 THEN 0 ELSE Wrap(g[k - 1] * b + DigitValue(digits[k]))
  BY <1>4, Zenon DEF NumberUpTo
<1>6. g[0] = 0 /\ \A k \in 1 .. n : g[k] = Wrap(g[k - 1] * b + DigitValue(digits[k]))
  <2>1. 0 \in 0 .. n /\ \A k \in 1 .. n : k \in 0 .. n /\ k # 0
    OBVIOUS
  <2> QED  BY <1>5, <2>1, Zenon
<1>7. \A k \in 0 .. n : g[k] = f[k]
  <2> DEFINE G == {k \in Nat : k <= n => g[k] = f[k]}
  <2>1. 0 \in G
    BY <1>3, <1>6
  <2>2. ASSUME NEW k \in Nat, k < n, k \in G PROVE k + 1 \in G
    <3> DEFINE j == k + 1
    <3>1. j \in 1 .. n /\ j \in 0 .. n /\ j - 1 = k /\ k <= n /\ j \in Nat /\ k \in 0 .. n
      BY <2>2
    <3>2. g[k] = f[k]
      BY <2>2, <3>1
    <3> HIDE DEF j, G
    <3>3. /\ f[j] = b * f[k] + values[j] /\ g[j] = Wrap(f[k] * b + values[j])
          /\ f[j] \in Nat /\ f[j] <= f[n] /\ f[k] \in Nat /\ values[j] \in Nat
      BY <1>1, <1>3, <1>6, <3>1, <3>2
    <3> DEFINE x == f[k]
    <3>4. x \in Nat /\ f[j] = b * x + values[j] /\ g[j] = Wrap(x * b + values[j])
      BY <3>3
    <3> HIDE DEF x
    <3>5. x * b + values[j] = f[j]
      BY <3>3, <3>4 DEF Bases
    <3>6. f[n] < 2^IntBits
      BY <1>2, <1>3, Zenon
    <3>7. g[j] = f[j]
      <4> DEFINE v == f[j]
                 w == 2^IntBits
      <4>1. v \in Nat /\ w \in Nat /\ v < w
        <5>1. n \in 0 .. n
          OBVIOUS
        <5>2. f[n] \in Nat
          BY <1>3, <5>1
        <5> QED  BY <3>3, <3>6, <5>2, IntValues
      <4> HIDE DEF v, w
      <4>2. v % w = v
        BY <4>1
      <4>3. g[j] = v % w
        BY <3>4, <3>5, Zenon DEF Wrap, v, w
      <4> QED  BY <4>2, <4>3, Zenon DEF v
    <3> QED  BY <3>1, <3>7 DEF G, j
  <2>3. \A k : k \in G => (k <= n => g[k] = f[k])
    OBVIOUS
  <2> HIDE DEF G
  <2>4. \A k \in 0 .. n : k \in G
    BY <2>1, <2>2, UpTo
  <2> QED  BY <2>3, <2>4
<1>8. n \in 0 .. n
  OBVIOUS
<1> QED  BY <1>2, <1>3, <1>4, <1>7, <1>8, Zenon

(***************************************************************************)
(* How a match is spelled, and why no more input can change it.            *)
(***************************************************************************)
\* The source has no more for the scanner, or p does not wait for any.
Decided(p) == fpos < Len(source) => ~Try(p).open

LEMMA MatchOf ==
    ASSUME text \in Seq(Bytes), at \in 0 .. Len(text), cond \in DOMAIN RulesOf, NEW m \in Matches
    PROVE  \/ /\ m.rule = "default"
              /\ \A r \in RulesOf[cond] : \A p \in Patterns[r] : ~Try(p).matches /\ Decided(p)
           \/ /\ m.rule \in RulesOf[cond]
              /\ \E p \in Patterns[m.rule] : \E e : Ends(e, p, at + m.n) /\ (p # <<>> => Greedy(e, p)) /\ Decided(p)
<1> DEFINE tries == Tries
           found == {t \in tries : t.try.matches}
           longest == {t \in found : \A u \in found : u.try.end <= t.try.end}
<1>0. Len(text) \in Nat /\ at \in Nat
  BY LenProperties
<1>1. ~(fpos < Len(source) /\ \E t \in tries : t.try.open)
  BY Zenon DEF Matches
<1>2. \/ m = [rule |-> "default", n |-> 1, lexeme |-> <<text[at + 1]>>] /\ found = {}
      \/ \E t \in longest : m = [rule |-> t.rule, n |-> t.try.end - at, lexeme |-> SubSeq(text, at + 1, t.try.end)]
  BY Zenon DEF Matches
<1>3. ASSUME NEW r \in RulesOf[cond], NEW p \in Patterns[r]
      PROVE  [rule |-> r, try |-> Try(p)] \in tries /\ Decided(p)
  <2>1. [rule |-> r, try |-> Try(p)] \in Tries
    BY DEF Tries
  <2>2. [rule |-> r, try |-> Try(p)].try = Try(p)
    OBVIOUS
  <2> QED  BY <1>1, <2>1, <2>2, Zenon DEF Decided
<1>4. CASE m = [rule |-> "default", n |-> 1, lexeme |-> <<text[at + 1]>>] /\ found = {}
  <2>1. m.rule = "default"
    BY <1>4
  <2>2. ASSUME NEW r \in RulesOf[cond], NEW p \in Patterns[r] PROVE ~Try(p).matches /\ Decided(p)
    <3> DEFINE t == [rule |-> r, try |-> Try(p)]
    <3>1. t \in tries /\ t.try = Try(p) /\ t \notin found
      BY <1>3, <1>4
    <3> QED  BY <1>3, <3>1
  <2> QED  BY <2>1, <2>2, Zenon
<1>5. CASE \E t \in longest : m = [rule |-> t.rule, n |-> t.try.end - at, lexeme |-> SubSeq(text, at + 1, t.try.end)]
  <2>1. PICK t \in longest : m = [rule |-> t.rule, n |-> t.try.end - at, lexeme |-> SubSeq(text, at + 1, t.try.end)]
    BY <1>5
  <2>2. t \in Tries /\ t.try.matches
    BY <2>1
  <2>3. PICK r \in RulesOf[cond] : \E p \in Patterns[r] : t = [rule |-> r, try |-> Try(p)]
    BY <2>2 DEF Tries
  <2>4. PICK p \in Patterns[r] : t = [rule |-> r, try |-> Try(p)]
    BY <2>3
  <2>5. p \in Seq(Item)
    <3>1. r \in AllRules
      BY RulesAreAll
    <3> QED  BY <3>1, PatternTypes
  <2> DEFINE end == Try(p).end
  <2>6. Try(p).matches /\ t.rule = r /\ t.try.end = end
    BY <2>2, <2>4
  <2>7. end \in 0 .. Len(text) /\ \E e : Ends(e, p, end) /\ (p # <<>> => Greedy(e, p))
    BY <2>5, <2>6, TryTakes
  <2>8. m.rule = r /\ m.n = end - at
    BY <2>1, <2>6
  <2> HIDE DEF end
  <2>9. at + m.n = end
    BY <1>0, <2>7, <2>8
  <2>10. Decided(p)
    BY <1>3
  <2>11. \E e : Ends(e, p, at + m.n) /\ (p # <<>> => Greedy(e, p)) /\ Decided(p)
    BY <2>7, <2>9, <2>10, Zenon
  <2>12. p \in Patterns[m.rule] /\ m.rule \in RulesOf[cond]
    BY <2>8
  <2> QED  BY <2>11, <2>12, Zenon
<1> QED  BY <1>2, <1>4, <1>5

\* No text that is still to come begins with a character of the set.
Stops(i, set) == IF i = Len(text) THEN fpos = Len(source) ELSE text[i + 1] \notin set
\* A backslash with no escape behind it.
NoEscape(i) ==
    /\ text[i] = BS
    /\ Stops(i, DOMAIN SimpleEscapes \cup OctalDigits)
    /\ i < Len(text) /\ text[i + 1] = 120 => Stops(i + 1, HexDigits)

Spelled_(m) ==
    /\ m.rule = "octal" =>
          /\ m.n \in 2 .. 4 /\ text[at + 1] = BS /\ \A j \in at + 2 .. at + m.n : text[j] \in OctalDigits
          /\ m.n # 4 => Stops(at + m.n, OctalDigits)
    /\ m.rule = "hexEscape" =>
          /\ m.n \in 3 .. 4 /\ text[at + 1] = BS /\ text[at + 2] = 120
          /\ \A j \in at + 3 .. at + m.n : text[j] \in HexDigits
          /\ m.n # 4 => Stops(at + m.n, HexDigits)
    /\ m.rule = "simpleEscape" => m.n = 2 /\ text[at + 1] = BS /\ text[at + 2] \in DOMAIN SimpleEscapes
    /\ m.rule \in {"stringText", "charText"} => \A j \in at + 1 .. at + m.n : text[j] \notin {BS, NL}
    /\ m.rule = "number" => \A j \in at + 1 .. at + m.n : text[j] \in Digits
    /\ m.rule = "hexNumber" =>
          m.n \in Nat /\ m.n > 2 /\ text[at + 2] \in {120, 88} /\ \A j \in at + 3 .. at + m.n : text[j] \in HexDigits
    /\ m.rule = "default" /\ cond # "initial" => text[at + 1] = NL \/ NoEscape(at + 1)

\* A match of two parts, the first of one character, and one of three, the
\* first two of one character.
LEMMA OneThen ==
    ASSUME at \in Nat, NEW a \in Item, NEW b \in Item, a.min = 1, a.max = 1, NEW e, NEW end, Ends(e, <<a, b>>, end)
    PROVE  /\ end \in at + 1 + b.min .. at + 1 + b.max /\ text[at + 1] \in a.set
           /\ \A j \in at + 2 .. end : text[j] \in b.set
           /\ e[2] = end /\ e[1] = at + 1
<1> DEFINE p == <<a, b>>
<1>1. Len(p) = 2 /\ p[1] = a /\ p[2] = b
  BY Tuples
<1> HIDE DEF p
<1>2. e[0] = at /\ e[2] = end /\ 1 \in 1 .. 2 /\ 2 \in 1 .. 2 /\ 1 - 1 = 0 /\ 2 - 1 = 1
  BY <1>1 DEF Ends, p
<1>3. /\ e[1] \in e[0] + 1 .. e[0] + 1 /\ \A j \in e[0] + 1 .. e[1] : text[j] \in a.set
      /\ e[2] \in e[1] + b.min .. e[1] + b.max /\ \A j \in e[1] + 1 .. e[2] : text[j] \in b.set
  BY <1>1, <1>2, Zenon DEF Ends, p
<1>4. e[1] = at + 1
  BY <1>2, <1>3
<1>5. at + 1 \in at + 1 .. at + 1 /\ (at + 1) + 1 = at + 2
  OBVIOUS
<1> QED  BY <1>2, <1>3, <1>4, <1>5, Zenon

LEMMA TwoThen ==
    ASSUME at \in Nat, NEW a \in Item, NEW b \in Item, NEW c \in Item, a.min = 1, a.max = 1, b.min = 1, b.max = 1,
           NEW e, NEW end, Ends(e, <<a, b, c>>, end)
    PROVE  /\ end \in at + 2 + c.min .. at + 2 + c.max /\ text[at + 1] \in a.set /\ text[at + 2] \in b.set
           /\ \A j \in at + 3 .. end : text[j] \in c.set
           /\ e[3] = end /\ e[2] = at + 2
<1> DEFINE p == <<a, b, c>>
<1>1. Len(p) = 3 /\ p[1] = a /\ p[2] = b /\ p[3] = c
  BY Tuples
<1> HIDE DEF p
<1>2. e[0] = at /\ e[3] = end /\ 1 \in 1 .. 3 /\ 2 \in 1 .. 3 /\ 3 \in 1 .. 3 /\ 1 - 1 = 0 /\ 2 - 1 = 1 /\ 3 - 1 = 2
  BY <1>1 DEF Ends, p
<1>3. /\ e[1] \in e[0] + 1 .. e[0] + 1 /\ \A j \in e[0] + 1 .. e[1] : text[j] \in a.set
      /\ e[2] \in e[1] + 1 .. e[1] + 1 /\ \A j \in e[1] + 1 .. e[2] : text[j] \in b.set
      /\ e[3] \in e[2] + c.min .. e[2] + c.max /\ \A j \in e[2] + 1 .. e[3] : text[j] \in c.set
  BY <1>1, <1>2, Zenon DEF Ends, p
<1>4. e[1] = at + 1 /\ e[2] = at + 2
  BY <1>2, <1>3
<1>5. /\ at + 1 \in at + 1 .. at + 1 /\ (at + 1) + 1 = at + 2 /\ (at + 2) + 1 = at + 3
      /\ at + 2 \in at + 2 .. at + 2
  OBVIOUS
<1> QED  BY <1>2, <1>3, <1>4, <1>5, Zenon

\* A greedy part that is decided stops where it does for good.
LEMMA GreedyStops ==
    ASSUME NEW p, NEW e, Greedy(e, p), Decided(p), fpos \in 0 .. Len(source), source \in Seq(Bytes),
           NEW n, n = Len(p), e[n] # e[n - 1] + p[n].max
    PROVE  Stops(e[n], p[n].set)
<1>1. Len(source) \in Nat
  BY LenProperties
<1>2. ~Try(p).open \/ fpos = Len(source)
  BY <1>1 DEF Decided
<1>3. IF e[n] = Len(text) THEN Try(p).open ELSE text[e[n] + 1] \notin p[n].set
  BY Zenon DEF Greedy
<1> QED  BY <1>2, <1>3, Zenon DEF Stops

LEMMA EscapeSpelled ==
    ASSUME at \in Nat, NEW r \in {"octal", "hexEscape", "simpleEscape"}, NEW p \in Patterns[r], NEW e, NEW n \in Nat,
           Ends(e, p, at + n), p # <<>> => Greedy(e, p), Decided(p), fpos \in 0 .. Len(source), source \in Seq(Bytes)
    PROVE  /\ r = "octal" =>
                  /\ n \in 2 .. 4 /\ text[at + 1] = BS /\ \A j \in at + 2 .. at + n : text[j] \in OctalDigits
                  /\ n # 4 => Stops(at + n, OctalDigits)
           /\ r = "hexEscape" =>
                  /\ n \in 3 .. 4 /\ text[at + 1] = BS /\ text[at + 2] = 120
                  /\ \A j \in at + 3 .. at + n : text[j] \in HexDigits
                  /\ n # 4 => Stops(at + n, HexDigits)
           /\ r = "simpleEscape" => n = 2 /\ text[at + 1] = BS /\ text[at + 2] \in DOMAIN SimpleEscapes
<1> DEFINE a == One(BS)
           end == at + n
<1>1. a \in Item /\ a.set = {BS} /\ a.min = 1 /\ a.max = 1
  BY CharSets, Ones
<1>2. CASE r = "octal"
  <2> DEFINE b == Of(OctalDigits, 1, 3)
  <2>1. p = <<a, b>>
    BY <1>2 DEF Patterns, Escape
  <2>2. b \in Item /\ b.set = OctalDigits /\ b.min = 1 /\ b.max = 3
    BY CharSets, Items
  <2> HIDE DEF a, b, end
  <2>3. /\ end \in at + 1 + b.min .. at + 1 + b.max /\ text[at + 1] \in a.set
        /\ \A j \in at + 2 .. end : text[j] \in b.set
        /\ e[2] = end /\ e[1] = at + 1
    <3>1. Ends(e, <<a, b>>, end)
      BY <2>1, Zenon DEF end
    <3> QED  BY <1>1, <2>2, <3>1, OneThen
  <2>4. n \in 2 .. 4
    BY <2>2, <2>3 DEF end
  <2>5. ASSUME n # 4 PROVE Stops(end, OctalDigits)
    <3>1. Len(p) = 2 /\ p[2] = b /\ p # <<>> /\ 2 - 1 = 1
      BY <1>1, <2>1, <2>2, Tuples
    <3>2. e[2] # e[1] + p[2].max
      BY <2>2, <2>3, <2>4, <2>5, <3>1 DEF end
    <3> DEFINE two == 2
    <3>3. two = Len(p) /\ e[two] # e[two - 1] + p[two].max /\ Greedy(e, p)
      BY <3>1, <3>2
    <3> HIDE DEF two
    <3>4. Stops(e[two], p[two].set)
      BY <3>3, GreedyStops
    <3> QED  BY <2>2, <2>3, <3>1, <3>4, Zenon DEF two
  <2> QED  BY <1>1, <1>2, <2>2, <2>3, <2>4, <2>5 DEF end
<1>3. CASE r = "hexEscape"
  <2> DEFINE b == One(120)
             c == Of(HexDigits, 1, 2)
  <2>1. p = <<a, b, c>>
    BY <1>3 DEF Patterns
  <2>2. b \in Item /\ b.set = {120} /\ b.min = 1 /\ b.max = 1
    BY CharSets, Ones
  <2>2a. c \in Item /\ c.set = HexDigits /\ c.min = 1 /\ c.max = 2
    BY CharSets, Items
  <2> HIDE DEF a, b, c, end
  <2>3. /\ end \in at + 2 + c.min .. at + 2 + c.max /\ text[at + 1] \in a.set /\ text[at + 2] \in b.set
        /\ \A j \in at + 3 .. end : text[j] \in c.set
        /\ e[3] = end /\ e[2] = at + 2
    <3>1. Ends(e, <<a, b, c>>, end)
      BY <2>1, Zenon DEF end
    <3> QED  BY <1>1, <2>2, <2>2a, <3>1, TwoThen
  <2>4. n \in 3 .. 4
    BY <2>2a, <2>3 DEF end
  <2>5. ASSUME n # 4 PROVE Stops(end, HexDigits)
    <3>1. Len(p) = 3 /\ p[3] = c /\ p # <<>> /\ 3 - 1 = 2
      BY <1>1, <2>1, <2>2, <2>2a, Tuples
    <3>2. e[3] # e[2] + p[3].max
      BY <2>2a, <2>3, <2>4, <2>5, <3>1 DEF end
    <3> DEFINE three == 3
    <3>3. three = Len(p) /\ e[three] # e[three - 1] + p[three].max /\ Greedy(e, p)
      BY <3>1, <3>2
    <3> HIDE DEF three
    <3>4. Stops(e[three], p[three].set)
      BY <3>3, GreedyStops
    <3> QED  BY <2>2a, <2>3, <3>1, <3>4, Zenon DEF three
  <2> QED  BY <1>1, <1>3, <2>2, <2>2a, <2>3, <2>4, <2>5 DEF end
<1>4. CASE r = "simpleEscape"
  <2> DEFINE b == Of(DOMAIN SimpleEscapes, 1, 1)
  <2>1. p = <<a, b>>
    BY <1>4 DEF Patterns, Escape
  <2>2. b \in Item /\ b.set = DOMAIN SimpleEscapes /\ b.min = 1 /\ b.max = 1
    BY CharSets, Items
  <2> HIDE DEF a, b, end
  <2>3. /\ end \in at + 1 + b.min .. at + 1 + b.max /\ text[at + 1] \in a.set
        /\ \A j \in at + 2 .. end : text[j] \in b.set
    <3>1. Ends(e, <<a, b>>, end)
      BY <2>1, Zenon DEF end
    <3> QED  BY <1>1, <2>2, <3>1, OneThen
  <2>4. n = 2 /\ at + 2 \in at + 2 .. end
    BY <2>2, <2>3 DEF end
  <2> QED  BY <1>1, <1>4, <2>2, <2>3, <2>4
<1> QED  BY <1>2, <1>3, <1>4

LEMMA AllOf ==
    ASSUME at \in Nat, NEW a \in Item, NEW e, NEW end, Ends(e, <<a>>, end)
    PROVE  \A j \in at + 1 .. end : text[j] \in a.set
<1> DEFINE p == <<a>>
<1>1. Len(p) = 1 /\ p[1] = a
  BY Tuples
<1> HIDE DEF p
<1>2. e[0] = at /\ e[1] = end /\ 1 \in 1 .. 1 /\ 1 - 1 = 0
  BY <1>1 DEF Ends, p
<1> QED  BY <1>1, <1>2, Zenon DEF Ends, p

TextOf(q) == But({BS, q, NL})

LEMMA TextParts ==
    ASSUME NEW q \in {DQ, SQ}
    PROVE  /\ Of(TextOf(q), 1, Many) \in Item /\ Of(TextOf(q), 1, Many).set = TextOf(q)
           /\ Of(TextOf(q), 1, Many).min = 1 /\ Of(TextOf(q), 1, Many).max = Many
           /\ Patterns["stringText"] = {<<Of(TextOf(DQ), 1, Many)>>} /\ Patterns["charText"] = {<<Of(TextOf(SQ), 1, Many)>>}
<1>1. /\ Patterns["stringText"] = {<<Of(TextOf(DQ), 1, Many)>>} /\ Patterns["charText"] = {<<Of(TextOf(SQ), 1, Many)>>}
  BY DEF Patterns, TextOf
<1> DEFINE others == TextOf(q)
           one == 1
<1>2. others \in SUBSET Bytes /\ one \in Nat /\ Many \in Nat
  BY CharSets DEF TextOf, But, Bytes
<1> HIDE DEF others, one
<1>3. /\ Of(others, one, Many) \in Item /\ Of(others, one, Many).set = others
      /\ Of(others, one, Many).min = one /\ Of(others, one, Many).max = Many
  BY <1>2, Items
<1> QED  BY <1>1, <1>3 DEF others, one

LEMMA OthersSpelled ==
    ASSUME at \in Nat, NEW r \in {"stringText", "charText", "number", "hexNumber"}, NEW p \in Patterns[r],
           NEW e, NEW n \in Nat, Ends(e, p, at + n)
    PROVE  /\ r \in {"stringText", "charText"} => \A j \in at + 1 .. at + n : text[j] \notin {BS, NL}
           /\ r = "number" => \A j \in at + 1 .. at + n : text[j] \in Digits
           /\ r = "hexNumber" =>
                  n \in Nat /\ n > 2 /\ text[at + 2] \in {120, 88} /\ \A j \in at + 3 .. at + n : text[j] \in HexDigits
<1> DEFINE end == at + n
<1>1. CASE r \in {"stringText", "charText"}
  <2> DEFINE q == IF r = "stringText" THEN DQ ELSE SQ
             a == Of(TextOf(q), 1, Many)
  <2>1. q \in {DQ, SQ}
    OBVIOUS
  <2>2. p = <<a>>
    <3>1. "stringText" # "charText"
      OBVIOUS
    <3>2. CASE r = "stringText"
      <4>1. q = DQ /\ p \in Patterns["stringText"]
        BY <3>2
      <4> HIDE DEF q
      <4> QED  BY <4>1, TextParts
    <3>3. CASE r = "charText"
      <4>1. q = SQ /\ p \in Patterns["charText"]
        BY <3>3
      <4> HIDE DEF q
      <4> QED  BY <4>1, TextParts
    <3> QED  BY <1>1, <3>2, <3>3
  <2> HIDE DEF q
  <2>3. a \in Item /\ a.set = TextOf(q)
    BY <2>1, TextParts
  <2> HIDE DEF a, end
  <2>4. \A j \in at + 1 .. end : text[j] \in a.set
    <3>1. Ends(e, <<a>>, end)
      BY <2>2, Zenon DEF end
    <3> QED  BY <2>3, <3>1, AllOf
  <2>5. \A c \in TextOf(q) : c \notin {BS, NL}
    BY DEF TextOf, But
  <2>6. r # "number" /\ r # "hexNumber"
    BY <1>1
  <2> QED  BY <2>3, <2>4, <2>5, <2>6, Zenon DEF end
<1>2. CASE r = "number"
  <2> DEFINE a == Of(Digits, 1, Many)
  <2>1. p = <<a>>
    BY <1>2 DEF Patterns
  <2>2. a \in Item /\ a.set = Digits
    BY CharSets, Items
  <2> HIDE DEF a, end
  <2>3. \A j \in at + 1 .. end : text[j] \in a.set
    <3>1. Ends(e, <<a>>, end)
      BY <2>1, Zenon DEF end
    <3> QED  BY <2>2, <3>1, AllOf
  <2>4. r \notin {"stringText", "charText"} /\ r # "hexNumber"
    BY <1>2
  <2> QED  BY <2>2, <2>3, <2>4, Zenon DEF end
<1>3. CASE r = "hexNumber"
  <2> DEFINE a == One(48)
             b == Of({120, 88}, 1, 1)
             c == Of(HexDigits, 1, Many)
  <2>1. p = <<a, b, c>>
    BY <1>3 DEF Patterns
  <2>2. a \in Item /\ a.min = 1 /\ a.max = 1
    BY CharSets, Ones
  <2>3. /\ b \in Item /\ b.set = {120, 88} /\ b.min = 1 /\ b.max = 1
        /\ c \in Item /\ c.set = HexDigits /\ c.min = 1 /\ c.max \in Nat
    BY CharSets, Items
  <2> HIDE DEF a, b, c, end
  <2>4. /\ end \in at + 2 + c.min .. at + 2 + c.max /\ text[at + 2] \in b.set
        /\ \A j \in at + 3 .. end : text[j] \in c.set
    <3>1. Ends(e, <<a, b, c>>, end)
      BY <2>1, Zenon DEF end
    <3> QED  BY <2>2, <2>3, <3>1, TwoThen
  <2>5. n > 2
    BY <2>3, <2>4 DEF end
  <2>6. r \notin {"stringText", "charText"} /\ r # "number"
    BY <1>3
  <2> QED  BY <2>3, <2>4, <2>5, <2>6, Zenon DEF end
<1> QED  BY <1>1, <1>2, <1>3

(***************************************************************************)
(* What no pattern matches.                                                *)
(***************************************************************************)
LEMMA NoneOf ==
    ASSUME text \in Seq(Bytes), at \in Nat, at < Len(text), NEW a \in Item, a.min = 1, a.max >= 1, ~Try(<<a>>).matches
    PROVE  text[at + 1] \notin a.set
<1> DEFINE p == <<a>>
<1>1. p \in Seq(Item) /\ Len(p) = 1 /\ p[1] = a
  BY Tuples
<1>2. at \in 0 .. Len(text) /\ Len(text) \in Nat
  BY LenProperties
<1> HIDE DEF p
<1>3. \A k \in 1 .. Len(p) : k = 1
  BY <1>1
<1>4. PICK k \in 1 .. Len(p) : \E e : Stuck(e, p, k)
  <2>1. \A k \in 1 .. Len(p) : p[k].min = 1 /\ p[k].max >= 1
    BY <1>1, <1>3
  <2>2. ~Try(p).matches
    BY DEF p
  <2> QED  BY <1>1, <1>2, <2>1, <2>2, TryFails
<1>5. PICK e : Stuck(e, p, k)
  BY <1>4
<1>6. k = 1 /\ k - 1 = 0
  BY <1>3
<1>7. e[0] = at /\ (e[0] # Len(text) => text[e[0] + 1] \notin p[1].set)
  BY <1>5, <1>6, Zenon DEF Stuck
<1>8. at # Len(text)
  BY <1>2
<1> QED  BY <1>1, <1>7, <1>8, Zenon

LEMMA NoneThen ==
    ASSUME text \in Seq(Bytes), at \in Nat, at < Len(text), NEW c \in Bytes, NEW b \in Item, b.min = 1, b.max >= 1,
           ~Try(<<One(c), b>>).matches, Decided(<<One(c), b>>), text[at + 1] = c,
           fpos \in 0 .. Len(source), source \in Seq(Bytes)
    PROVE  Stops(at + 1, b.set)
<1> DEFINE a == One(c)
           p == <<a, b>>
<1>0. a \in Item /\ a.set = {c} /\ a.min = 1 /\ a.max = 1
  BY Ones
<1> HIDE DEF a
<1>1. p \in Seq(Item) /\ Len(p) = 2 /\ p[1] = a /\ p[2] = b
  BY <1>0, Tuples
<1>2. at \in 0 .. Len(text) /\ Len(text) \in Nat /\ Len(source) \in Nat
  BY LenProperties
<1> HIDE DEF p
<1>2a. ~Try(p).matches /\ Decided(p)
  BY DEF p, a
<1>3. \A k \in 1 .. Len(p) : k = 1 \/ k = 2
  BY <1>1
<1>4. PICK k \in 1 .. Len(p) : \E e : Stuck(e, p, k)
  <2>1. \A k \in 1 .. Len(p) : p[k].min = 1 /\ p[k].max >= 1
    BY <1>0, <1>1, <1>3
  <2> QED  BY <1>1, <1>2, <1>2a, <2>1, TryFails
<1>5. PICK e : Stuck(e, p, k)
  BY <1>4
<1>6. k = 2 /\ k - 1 = 1 /\ 1 \in 1 .. k - 1 /\ 1 - 1 = 0
  <2>1. ASSUME k = 1 PROVE FALSE
    <3>1. k - 1 = 0
      BY <2>1
    <3>2. e[0] = at /\ (e[0] # Len(text) => text[e[0] + 1] \notin p[1].set)
      BY <1>5, <2>1, <3>1, Zenon DEF Stuck
    <3>3. at # Len(text)
      BY <1>2
    <3> QED  BY <1>0, <1>1, <3>2, <3>3
  <2> QED  BY <1>3, <2>1
<1>7. /\ e[0] = at /\ e[1] \in e[0] + p[1].min .. e[0] + p[1].max
      /\ IF e[1] = Len(text) THEN Try(p).open ELSE text[e[1] + 1] \notin p[2].set
  BY <1>5, <1>6, Zenon DEF Stuck
<1>8. e[1] = at + 1
  BY <1>0, <1>1, <1>7
<1>9. ~Try(p).open \/ fpos = Len(source)
  BY <1>2, <1>2a DEF Decided
<1> QED  BY <1>1, <1>7, <1>8, <1>9, Zenon DEF Stops

LEMMA NoneThird ==
    ASSUME text \in Seq(Bytes), at \in Nat, at + 1 < Len(text), NEW c \in Bytes, NEW d \in Bytes,
           NEW b \in Item, b.min = 1, b.max >= 1, text[at + 1] = c, text[at + 2] = d,
           ~Try(<<One(c), One(d), b>>).matches, Decided(<<One(c), One(d), b>>),
           fpos \in 0 .. Len(source), source \in Seq(Bytes)
    PROVE  Stops(at + 2, b.set)
<1> DEFINE a == One(c)
           g == One(d)
           p == <<a, g, b>>
<1>0. a \in Item /\ a.set = {c} /\ a.min = 1 /\ a.max = 1 /\ g \in Item /\ g.set = {d} /\ g.min = 1 /\ g.max = 1
  BY Ones
<1> HIDE DEF a, g
<1>1. p \in Seq(Item) /\ Len(p) = 3 /\ p[1] = a /\ p[2] = g /\ p[3] = b
  BY <1>0, Tuples
<1>2. at \in 0 .. Len(text) /\ Len(text) \in Nat /\ Len(source) \in Nat
  BY LenProperties
<1> HIDE DEF p
<1>2a. ~Try(p).matches /\ Decided(p)
  BY DEF p, a, g
<1>3. \A k \in 1 .. Len(p) : k = 1 \/ k = 2 \/ k = 3
  BY <1>1
<1>4. PICK k \in 1 .. Len(p) : \E e : Stuck(e, p, k)
  <2>1. \A k \in 1 .. Len(p) : p[k].min = 1 /\ p[k].max >= 1
    BY <1>0, <1>1, <1>3
  <2> QED  BY <1>1, <1>2, <1>2a, <2>1, TryFails
<1>5. PICK e : Stuck(e, p, k)
  BY <1>4
<1>6. k = 3
  <2>1. ASSUME k = 1 PROVE FALSE
    <3>1. k - 1 = 0
      BY <2>1
    <3>2. e[0] = at /\ (e[0] # Len(text) => text[e[0] + 1] \notin p[1].set)
      BY <1>5, <2>1, <3>1, Zenon DEF Stuck
    <3>3. at # Len(text)
      BY <1>2
    <3> QED  BY <1>0, <1>1, <3>2, <3>3
  <2>2. ASSUME k = 2 PROVE FALSE
    <3>1. k - 1 = 1 /\ 1 \in 1 .. k - 1 /\ 1 - 1 = 0
      BY <2>2
    <3>2. /\ e[0] = at /\ e[1] \in e[0] + p[1].min .. e[0] + p[1].max
          /\ e[1] # Len(text) => text[e[1] + 1] \notin p[2].set
      BY <1>5, <2>2, <3>1, Zenon DEF Stuck
    <3>3. e[1] = at + 1 /\ at + 1 # Len(text)
      BY <1>0, <1>1, <1>2, <3>2
    <3>4. (at + 1) + 1 = at + 2
      OBVIOUS
    <3>5. text[at + 2] \notin p[2].set
      BY <3>2, <3>3, <3>4, Zenon
    <3> QED  BY <1>0, <1>1, <3>5
  <2> QED  BY <1>3, <2>1, <2>2
<1>7. k - 1 = 2 /\ 1 \in 1 .. k - 1 /\ 1 - 1 = 0 /\ 2 \in 1 .. k - 1 /\ 2 - 1 = 1
  BY <1>6
<1>8. /\ e[0] = at /\ e[1] \in e[0] + p[1].min .. e[0] + p[1].max /\ e[2] \in e[1] + p[2].min .. e[1] + p[2].max
      /\ IF e[2] = Len(text) THEN Try(p).open ELSE text[e[2] + 1] \notin p[3].set
  BY <1>5, <1>6, <1>7, Zenon DEF Stuck
<1>9. e[2] = at + 2
  BY <1>0, <1>1, <1>8, SMTT(30)
<1>10. ~Try(p).open \/ fpos = Len(source)
  BY <1>2, <1>2a DEF Decided
<1> QED  BY <1>1, <1>8, <1>9, <1>10, Zenon DEF Stops

\* Inside a literal only a newline and a backslash of no escape are left over.
LEMMA DefaultSpelled ==
    ASSUME text \in Seq(Bytes), at \in Nat, at < Len(text), fpos \in 0 .. Len(source), source \in Seq(Bytes),
           NEW q \in {DQ, SQ}, NEW rules, rules = RulesOf[IF q = DQ THEN "string" ELSE "charLiteral"],
           \A r \in rules : \A p \in Patterns[r] : ~Try(p).matches /\ Decided(p)
    PROVE  text[at + 1] = NL \/ NoEscape(at + 1)
<1>1. /\ "octal" \in rules /\ "hexEscape" \in rules /\ "simpleEscape" \in rules
      /\ q = DQ => "closeString" \in rules /\ "stringText" \in rules
      /\ q = SQ => "closeChar" \in rules /\ "charText" \in rules
  BY DEF RulesOf, InLiteral, DQ, SQ
<1>2. text[at + 1] \in Bytes /\ Len(text) \in Nat
  <2>1. at + 1 \in 1 .. Len(text) /\ Len(text) \in Nat
    BY LenProperties
  <2> HIDE DEF Bytes
  <2> QED  BY <2>1, ElementOfSeq
<1>3. text[at + 1] # q
  <2> DEFINE a == One(q)
  <2>1. q \in Bytes
    BY DEF Bytes, DQ, SQ
  <2>2. a \in Item /\ a.set = {q} /\ a.min = 1 /\ a.max = 1
    BY <2>1, Ones
  <2>3. Patterns["closeString"] = {<<One(DQ)>>} /\ Patterns["closeChar"] = {<<One(SQ)>>}
    BY DEF Patterns
  <2>4. ~Try(<<a>>).matches
    BY <1>1, <2>3
  <2> HIDE DEF a
  <2> QED  BY <2>2, <2>4, NoneOf
<1>4. text[at + 1] \notin TextOf(q)
  <2> DEFINE a == Of(TextOf(q), 1, Many)
  <2>1. a \in Item /\ a.set = TextOf(q) /\ a.min = 1 /\ a.max = Many
    BY TextParts
  <2>2. ~Try(<<a>>).matches
    BY <1>1, TextParts
  <2> HIDE DEF a
  <2>3. a.max >= 1
    BY <2>1 DEF Many
  <2>4. text[at + 1] \notin a.set
    BY <2>1, <2>2, <2>3, NoneOf
  <2> QED  BY <2>1, <2>4, Zenon
<1>5. text[at + 1] = NL \/ text[at + 1] = BS
  BY <1>2, <1>3, <1>4 DEF TextOf, But, Bytes
<1>6. ASSUME text[at + 1] = BS PROVE NoEscape(at + 1)
  <2> DEFINE o == Of(OctalDigits, 1, 3)
             s == Of(DOMAIN SimpleEscapes, 1, 1)
             h == Of(HexDigits, 1, 2)
  <2>1. /\ o \in Item /\ o.set = OctalDigits /\ o.min = 1 /\ o.max = 3
        /\ s \in Item /\ s.set = DOMAIN SimpleEscapes /\ s.min = 1 /\ s.max = 1
        /\ h \in Item /\ h.set = HexDigits /\ h.min = 1 /\ h.max = 2
    BY CharSets, Items
  <2>2. /\ Patterns["octal"] = {<<One(BS), o>>} /\ Patterns["simpleEscape"] = {<<One(BS), s>>}
        /\ Patterns["hexEscape"] = {<<One(BS), One(120), h>>}
    BY DEF Patterns, Escape
  <2> HIDE DEF o, s, h
  <2>3. /\ ~Try(<<One(BS), o>>).matches /\ Decided(<<One(BS), o>>)
        /\ ~Try(<<One(BS), s>>).matches /\ Decided(<<One(BS), s>>)
        /\ ~Try(<<One(BS), One(120), h>>).matches /\ Decided(<<One(BS), One(120), h>>)
    BY <1>1, <2>2
  <2>4. BS \in Bytes /\ 120 \in Bytes
    BY DEF Bytes, BS
  <2> DEFINE b == BS
             x == 120
  <2>5. b \in Bytes /\ x \in Bytes /\ text[at + 1] = b
    BY <1>6, <2>4
  <2>6. o.max >= 1 /\ s.max >= 1 /\ h.max >= 1
    BY <2>1
  <2>7. Stops(at + 1, OctalDigits) /\ Stops(at + 1, DOMAIN SimpleEscapes)
    <3>1. Stops(at + 1, o.set)
      <4>1. ~Try(<<One(b), o>>).matches /\ Decided(<<One(b), o>>)
        BY <2>3
      <4> HIDE DEF b
      <4> QED  BY <2>1, <2>5, <2>6, <4>1, NoneThen
    <3>2. Stops(at + 1, s.set)
      <4>1. ~Try(<<One(b), s>>).matches /\ Decided(<<One(b), s>>)
        BY <2>3
      <4> HIDE DEF b
      <4> QED  BY <2>1, <2>5, <2>6, <4>1, NoneThen
    <3> QED  BY <2>1, <3>1, <3>2, Zenon
  <2>8. Stops(at + 1, DOMAIN SimpleEscapes \cup OctalDigits)
    <3>1. CASE at + 1 = Len(text)
      BY <2>7, <3>1, Zenon DEF Stops
    <3>2. CASE at + 1 # Len(text)
      <4>1. text[(at + 1) + 1] \notin OctalDigits /\ text[(at + 1) + 1] \notin DOMAIN SimpleEscapes
        BY <2>7, <3>2, Zenon DEF Stops
      <4>2. text[(at + 1) + 1] \notin DOMAIN SimpleEscapes \cup OctalDigits
        BY <4>1, Zenon
      <4> QED  BY <3>2, <4>2, Zenon DEF Stops
    <3> QED  BY <3>1, <3>2
  <2>9. ASSUME at + 1 < Len(text), text[(at + 1) + 1] = 120 PROVE Stops((at + 1) + 1, HexDigits)
    <3>1. (at + 1) + 1 = at + 2
      OBVIOUS
    <3>2. text[at + 2] = x /\ ~Try(<<One(b), One(x), h>>).matches /\ Decided(<<One(b), One(x), h>>)
      BY <2>3, <2>9, <3>1
    <3> HIDE DEF b, x
    <3>3. Stops(at + 2, h.set)
      BY <2>1, <2>5, <2>6, <2>9, <3>2, NoneThird
    <3> QED  BY <2>1, <3>1, <3>3, Zenon
  <2> QED  BY <1>6, <2>8, <2>9, Zenon DEF NoEscape
<1> QED  BY <1>5, <1>6

LEMMA SpellingOf ==
    ASSUME FileInv, at \in 0 .. Len(text), cond \in DOMAIN RulesOf, NEW m \in Matches
    PROVE  Spelled_(m)
<1>1. text \in Seq(Bytes) /\ source \in Seq(Bytes) /\ fpos \in 0 .. Len(source)
  BY DEF FileInv
<1>2. Matched(m)
  BY <1>1, MatchesAre
<1>3. at \in Nat /\ Len(text) \in Nat /\ m.n \in Nat /\ at < Len(text)
  BY <1>1, <1>2, LenProperties DEF Matched
<1>4. CASE m.rule = "default" /\ \A r \in RulesOf[cond] : \A p \in Patterns[r] : ~Try(p).matches /\ Decided(p)
  <2>1. ASSUME cond # "initial" PROVE text[at + 1] = NL \/ NoEscape(at + 1)
    <3>1. cond = "string" \/ cond = "charLiteral"
      BY <2>1 DEF RulesOf
    <3> DEFINE q == IF cond = "string" THEN DQ ELSE SQ
               rules == RulesOf[cond]
    <3>2. q \in {DQ, SQ} /\ cond = IF q = DQ THEN "string" ELSE "charLiteral"
      BY <3>1 DEF DQ, SQ
    <3>3. rules = RulesOf[IF q = DQ THEN "string" ELSE "charLiteral"]
      BY <3>2, Zenon
    <3> HIDE DEF q
    <3>4. \A r \in rules : \A p \in Patterns[r] : ~Try(p).matches /\ Decided(p)
      BY <1>4, Zenon
    <3> HIDE DEF rules
    <3> QED  BY <1>1, <1>3, <3>2, <3>3, <3>4, DefaultSpelled
  <2>2. m.rule \notin {"octal", "hexEscape", "simpleEscape", "stringText", "charText", "number", "hexNumber"}
    BY <1>4
  <2> QED  BY <1>4, <2>1, <2>2, Zenon DEF Spelled_
<1>5. CASE /\ m.rule \in RulesOf[cond]
           /\ \E p \in Patterns[m.rule] : \E e : Ends(e, p, at + m.n) /\ (p # <<>> => Greedy(e, p)) /\ Decided(p)
  <2>1. PICK p \in Patterns[m.rule] : \E e : Ends(e, p, at + m.n) /\ (p # <<>> => Greedy(e, p)) /\ Decided(p)
    BY <1>5
  <2>2. PICK e : Ends(e, p, at + m.n) /\ (p # <<>> => Greedy(e, p)) /\ Decided(p)
    BY <2>1
  <2>3. m.rule # "default"
    BY <1>5, RulesAreAll
  <2> DEFINE r == m.rule
             n == m.n
  <2>4. r \in RulesOf[cond] /\ p \in Patterns[r] /\ n \in Nat /\ Ends(e, p, at + n)
    BY <1>3, <1>5, <2>1, <2>2
  <2> HIDE DEF r, n
  <2>5. CASE r \in {"octal", "hexEscape", "simpleEscape"}
    <3>1. r \notin {"stringText", "charText", "number", "hexNumber"}
      BY <2>5
    <3>2. /\ r = "octal" =>
              /\ n \in 2 .. 4 /\ text[at + 1] = BS /\ \A j \in at + 2 .. at + n : text[j] \in OctalDigits
              /\ n # 4 => Stops(at + n, OctalDigits)
          /\ r = "hexEscape" =>
              /\ n \in 3 .. 4 /\ text[at + 1] = BS /\ text[at + 2] = 120
              /\ \A j \in at + 3 .. at + n : text[j] \in HexDigits
              /\ n # 4 => Stops(at + n, HexDigits)
          /\ r = "simpleEscape" => n = 2 /\ text[at + 1] = BS /\ text[at + 2] \in DOMAIN SimpleEscapes
      BY <1>1, <1>3, <2>2, <2>4, <2>5, EscapeSpelled, SMTT(30)
    <3> QED  BY <2>3, <3>1, <3>2, Zenon DEF Spelled_, r, n
  <2>6. CASE r \in {"stringText", "charText", "number", "hexNumber"}
    <3>1. r \notin {"octal", "hexEscape", "simpleEscape"}
      BY <2>6
    <3>2. /\ r \in {"stringText", "charText"} => \A j \in at + 1 .. at + n : text[j] \notin {BS, NL}
          /\ r = "number" => \A j \in at + 1 .. at + n : text[j] \in Digits
          /\ r = "hexNumber" =>
              n \in Nat /\ n > 2 /\ text[at + 2] \in {120, 88} /\ \A j \in at + 3 .. at + n : text[j] \in HexDigits
      BY <1>3, <2>4, <2>6, OthersSpelled
    <3> QED  BY <2>3, <3>1, <3>2, Zenon DEF Spelled_, r, n
  <2>7. CASE r \notin {"octal", "hexEscape", "simpleEscape", "stringText", "charText", "number", "hexNumber"}
    BY <2>3, <2>7, Zenon DEF Spelled_, r
  <2> QED  BY <2>5, <2>6, <2>7
<1> QED  BY <1>1, <1>4, <1>5, MatchOf, Zenon

(***************************************************************************)
(* What a body means in C.                                                 *)
(***************************************************************************)
Counted(s, i, set, max, n) ==
    /\ n \in 0 .. Len(s) - i + 1
    /\ \A k \in 0 .. n - 1 : s[i + k] \in set
    /\ n <= max /\ (n < max /\ i + n <= Len(s) => s[i + n] \notin set)

LEMMA CountExists ==
    ASSUME NEW s, Len(s) \in Nat, NEW i \in 1 .. Len(s) + 1, NEW set, NEW max \in Nat
    PROVE  \E n : Counted(s, i, set, max, n)
<1> DEFINE l == Len(s)
           ends == {n \in Nat : n = max \/ i + n > l \/ s[i + n] \notin set}
<1>1. max \in ends /\ l - i + 1 \in ends
  OBVIOUS
<1>2. ends \in SUBSET Nat /\ ends # {}
  BY <1>1
<1>3. \A n : n \in ends <=> n \in Nat /\ (n = max \/ i + n > l \/ s[i + n] \notin set)
  OBVIOUS
<1> HIDE DEF ends
<1>4. PICK n \in ends : \A m \in ends : n <= m
  BY <1>2, LeastOf
<1> HIDE DEF l
<1>5. n \in Nat /\ n <= max /\ n <= l - i + 1
  BY <1>1, <1>3, <1>4
<1>6. ASSUME NEW k \in 0 .. n - 1 PROVE s[i + k] \in set
  <2>1. k \in Nat /\ ~(n <= k)
    BY <1>5
  <2> QED  BY <1>3, <1>4, <2>1
<1>7. n < max /\ i + n <= l => s[i + n] \notin set
  <2>1. i \in Nat /\ l \in Nat
    BY DEF l
  <2> QED  BY <1>3, <1>4, <1>5, <2>1
<1>8. n \in 0 .. l - i + 1
  BY <1>5 DEF l
<1> QED  BY <1>5, <1>6, <1>7, <1>8, Zenon DEF Counted, l

LEMMA CountOne ==
    ASSUME NEW s, Len(s) \in Nat, NEW i \in 1 .. Len(s) + 1, NEW set, NEW max \in Nat,
           NEW m, NEW n, Counted(s, i, set, max, m), Counted(s, i, set, max, n)
    PROVE  m = n
<1>1. ASSUME NEW x, NEW y, Counted(s, i, set, max, x), Counted(s, i, set, max, y), x < y PROVE FALSE
  <2>1. /\ x \in 0 .. Len(s) - i + 1 /\ y \in 0 .. Len(s) - i + 1 /\ y <= max
        /\ \A k \in 0 .. y - 1 : s[i + k] \in set
        /\ x < max /\ i + x <= Len(s) => s[i + x] \notin set
    BY <1>1, Zenon DEF Counted
  <2>2. x \in 0 .. y - 1 /\ x < max /\ i + x <= Len(s)
    BY <1>1, <2>1
  <2> QED  BY <2>1, <2>2
<1>2. m \in Nat /\ n \in Nat
  BY DEF Counted
<1>3. ~(m < n) /\ ~(n < m)
  BY <1>1, Zenon
<1> QED  BY <1>2, <1>3

LEMMA CountIs ==
    ASSUME NEW s, Len(s) \in Nat, NEW i \in 1 .. Len(s) + 1, NEW set, NEW max \in Nat
    PROVE  Counted(s, i, set, max, CountAt(s, i, set, max))
<1>1. \E n : Counted(s, i, set, max, n)
  BY CountExists
<1> DEFINE count == CountAt(s, i, set, max)
<1>2. count = CHOOSE n \in 0 .. Len(s) - i + 1 :
            /\ \A k \in 0 .. n - 1 : s[i + k] \in set
            /\ n <= max /\ (n < max /\ i + n <= Len(s) => s[i + n] \notin set)
  BY Zenon DEF CountAt
<1>3. \E n \in 0 .. Len(s) - i + 1 :
            /\ \A k \in 0 .. n - 1 : s[i + k] \in set
            /\ n <= max /\ (n < max /\ i + n <= Len(s) => s[i + n] \notin set)
  BY <1>1, Zenon DEF Counted
<1> HIDE DEF count
<1>4. Counted(s, i, set, max, count)
  BY <1>2, <1>3, Zenon DEF Counted
<1> QED  BY <1>4 DEF count

LEMMA ValueType ==
    ASSUME NEW digits, NEW n \in Nat, n = Len(digits), \A k \in 1 .. n : digits[k] \in HexDigits, NEW b \in Bases
    PROVE  Value(digits, b) \in Nat
<1> DEFINE values == [i \in 1 .. n |-> DigitValue(digits[i])]
<1>1. Len(values) = n /\ \A k \in 1 .. n : values[k] \in Nat
  BY DigitsCount
<1>2. Value(digits, b) = Places(values, b)
  BY Zenon DEF Value
<1> HIDE DEF values
<1>3. PICK f : /\ Places(values, b) = f[n] /\ f[0] = 0
               /\ \A k \in 0 .. n : f[k] \in Nat /\ f[k] <= f[n]
               /\ \A k \in 1 .. n : f[k] = b * f[k - 1] + values[k]
  BY <1>1, PlacesRise
<1>4. n \in 0 .. n
  OBVIOUS
<1>5. f[n] \in Nat
  BY <1>3, <1>4
<1> QED  BY <1>2, <1>3, <1>5, Zenon

\* A part of a sequence, by its elements.
LEMMA PartIs ==
    ASSUME NEW T, NEW s \in Seq(T), NEW i \in Nat \ {0}, NEW n \in Nat, i + n <= Len(s) + 1
    PROVE  /\ SubSeq(s, i, i + n - 1) \in Seq(T) /\ Len(SubSeq(s, i, i + n - 1)) = n
           /\ \A k \in 1 .. n : SubSeq(s, i, i + n - 1)[k] = s[i + k - 1]
<1>1. Len(s) \in Nat /\ \A k \in 1 .. Len(s) : s[k] \in T
  BY LenProperties, ElementOfSeq
<1> DEFINE j == i + n - 1
           p == SubSeq(s, i, j)
<1>2. j \in Int /\ i \in Int /\ \A k \in i .. j : s[k] \in T
  BY <1>1
<1>3. i <= j => j - i + 1 = n
  OBVIOUS
<1>4. ~(i <= j) => n = 0
  OBVIOUS
<1>5. p \in Seq(T) /\ Len(p) = n
  <2> HIDE DEF j
  <2> QED  BY <1>2, <1>3, <1>4, SubSeqProperties
<1>6. ASSUME NEW k \in 1 .. n PROVE p[k] = s[i + k - 1]
  <2>1. i <= j /\ k \in 1 .. j - i + 1 /\ j \in Int /\ i \in Int
    BY <1>1
  <2>2. \A x \in i .. j : s[x] \in T
    BY <1>2
  <2> HIDE DEF j
  <2> QED  BY <2>1, <2>2, SubSeqProperties
<1> QED  BY <1>5, <1>6

\* Where a body's characters are read from a position on.
CRead(s, i, from) ==
            IF i > Len(s) THEN <<>>
            ELSE IF s[i] = NL THEN <<BadEscape>>
            ELSE IF s[i] # BS THEN <<s[i]>> \o from[i + 1]
            ELSE IF i = Len(s) THEN <<BadEscape>>
            ELSE IF s[i + 1] \in DOMAIN Meanings THEN <<Meanings[s[i + 1]]>> \o from[i + 2]
            ELSE LET hex == s[i + 1] = 120
                     first == IF hex THEN i + 2 ELSE i + 1
                     n == IF hex THEN CountAt(s, first, HexDigits, Many) ELSE CountAt(s, first, OctalDigits, 3)
                     v == ValueAt(s, first, n, IF hex THEN 16 ELSE 8)
                 IN  IF n = 0 \/ v > 255 \/ (hex /\ n > 2) THEN <<BadEscape>> ELSE <<v>> \o from[first + n]
CFrom(f, s) == f = [i \in 1 .. Len(s) + 1 |-> CRead(s, i, f)]

LEMMA InCIs ==
    ASSUME NEW s, \E f : CFrom(f, s)
    PROVE  \E f : CFrom(f, s) /\ InC(s) = f[1]
<1> DEFINE f == CHOOSE f : f = [i \in 1 .. Len(s) + 1 |-> CRead(s, i, f)]
<1>1. CFrom(f, s)
  BY Zenon DEF CFrom
<1>2. InC(s) = f[1]
  BY Zenon DEF InC, CRead
<1> QED  BY <1>1, <1>2, Zenon

LEMMA SameEscapes ==
    /\ DOMAIN Meanings = DOMAIN SimpleEscapes /\ \A c \in DOMAIN SimpleEscapes : Meanings[c] = SimpleEscapes[c]
    /\ 120 \notin DOMAIN SimpleEscapes /\ DOMAIN SimpleEscapes \cap OctalDigits = {} /\ 120 \notin OctalDigits
    /\ \A c \in DOMAIN SimpleEscapes : SimpleEscapes[c] \in Byte
<1>1. DOMAIN Meanings = DOMAIN SimpleEscapes
  BY DEF Meanings, SimpleEscapes, BS, SQ, DQ
<1>2. \A c \in DOMAIN SimpleEscapes : Meanings[c] = SimpleEscapes[c] /\ SimpleEscapes[c] \in Byte
  BY DEF Meanings, SimpleEscapes, Byte, NL, CR, TAB, BS, SQ, DQ
<1>3. 120 \notin DOMAIN SimpleEscapes /\ DOMAIN SimpleEscapes \cap OctalDigits = {} /\ 120 \notin OctalDigits
  BY DEF SimpleEscapes, OctalDigits, BS, SQ, DQ
<1> QED  BY <1>1, <1>2, <1>3

LEMMA CNewline ==
    ASSUME NEW s, Len(s) \in Nat, NEW i \in 1 .. Len(s), s[i] = NL, NEW f
    PROVE  CRead(s, i, f) = <<BadEscape>>
<1>1. ~(i > Len(s))
  OBVIOUS
<1> QED  BY <1>1, Zenon DEF CRead

LEMMA CPlain ==
    ASSUME NEW s, Len(s) \in Nat, NEW i \in 1 .. Len(s), s[i] \notin {NL, BS}, NEW f
    PROVE  CRead(s, i, f) = <<s[i]>> \o f[i + 1]
<1>1. ~(i > Len(s))
  OBVIOUS
<1>2. s[i] # NL /\ s[i] # BS
  OBVIOUS
<1> QED  BY <1>1, <1>2, Zenon DEF CRead

LEMMA CLast ==
    ASSUME NEW s, Len(s) \in Nat, NEW i \in 1 .. Len(s), s[i] = BS, i = Len(s), NEW f
    PROVE  CRead(s, i, f) = <<BadEscape>>
<1>1. ~(i > Len(s))
  OBVIOUS
<1>2. s[i] # NL
  BY DEF BS, NL
<1> QED  BY <1>1, <1>2, Zenon DEF CRead

LEMMA CSimple ==
    ASSUME NEW s, Len(s) \in Nat, NEW i \in 1 .. Len(s), s[i] = BS, i < Len(s), s[i + 1] \in DOMAIN SimpleEscapes, NEW f
    PROVE  CRead(s, i, f) = <<SimpleEscapes[s[i + 1]]>> \o f[i + 2]
<1>1. ~(i > Len(s)) /\ i # Len(s)
  OBVIOUS
<1>2. s[i] # NL
  BY DEF BS, NL
<1>3. s[i + 1] \in DOMAIN Meanings /\ Meanings[s[i + 1]] = SimpleEscapes[s[i + 1]]
  BY SameEscapes, Zenon
<1> QED  BY <1>1, <1>2, <1>3, Zenon DEF CRead

LEMMA CHex ==
    ASSUME NEW s, Len(s) \in Nat, NEW i \in 1 .. Len(s), s[i] = BS, i < Len(s), s[i + 1] = 120,
           NEW n, Counted(s, i + 2, HexDigits, Many, n), NEW f
    PROVE  CRead(s, i, f) = IF n = 0 \/ ValueAt(s, i + 2, n, 16) > 255 \/ n > 2 THEN <<BadEscape>>
                            ELSE <<ValueAt(s, i + 2, n, 16)>> \o f[(i + 2) + n]
<1>1. ~(i > Len(s)) /\ i # Len(s)
  OBVIOUS
<1>2. s[i] # NL
  BY DEF BS, NL
<1>3. s[i + 1] \notin DOMAIN Meanings
  BY SameEscapes, Zenon
<1>4. n = CountAt(s, i + 2, HexDigits, Many)
  <2> DEFINE first == i + 2
  <2>1. first \in 1 .. Len(s) + 1 /\ Many \in Nat /\ Counted(s, first, HexDigits, Many, n)
    BY DEF Many
  <2> HIDE DEF first
  <2>2. Counted(s, first, HexDigits, Many, CountAt(s, first, HexDigits, Many))
    BY <2>1, CountIs
  <2> HIDE DEF Many
  <2>3. n = CountAt(s, first, HexDigits, Many)
    BY <2>1, <2>2, CountOne
  <2> QED  BY <2>3 DEF first
<1> DEFINE first == i + 2
           v == ValueAt(s, first, n, 16)
<1>5. CRead(s, i, f) = IF n = 0 \/ v > 255 \/ (s[i + 1] = 120 /\ n > 2) THEN <<BadEscape>> ELSE <<v>> \o f[first + n]
  BY <1>1, <1>2, <1>3, <1>4, ZenonT(60) DEF CRead
<1> QED  BY <1>5, Zenon

LEMMA COctal ==
    ASSUME NEW s, Len(s) \in Nat, NEW i \in 1 .. Len(s), s[i] = BS, i < Len(s),
           s[i + 1] # 120, s[i + 1] \notin DOMAIN SimpleEscapes,
           NEW n, Counted(s, i + 1, OctalDigits, 3, n), NEW f
    PROVE  CRead(s, i, f) = IF n = 0 \/ ValueAt(s, i + 1, n, 8) > 255 THEN <<BadEscape>>
                            ELSE <<ValueAt(s, i + 1, n, 8)>> \o f[(i + 1) + n]
<1>1. ~(i > Len(s)) /\ i # Len(s)
  OBVIOUS
<1>2. s[i] # NL
  BY DEF BS, NL
<1>3. s[i + 1] \notin DOMAIN Meanings
  BY SameEscapes, Zenon
<1>4. n = CountAt(s, i + 1, OctalDigits, 3)
  <2> DEFINE first == i + 1
             three == 3
  <2>1. first \in 1 .. Len(s) + 1 /\ three \in Nat /\ Counted(s, first, OctalDigits, three, n)
    OBVIOUS
  <2> HIDE DEF first, three
  <2>2. Counted(s, first, OctalDigits, three, CountAt(s, first, OctalDigits, three))
    BY <2>1, CountIs
  <2>3. n = CountAt(s, first, OctalDigits, three)
    BY <2>1, <2>2, CountOne
  <2> QED  BY <2>3 DEF first, three
<1> DEFINE first == i + 1
           v == ValueAt(s, first, n, 8)
<1>5. CRead(s, i, f) = IF n = 0 \/ v > 255 \/ (s[i + 1] = 120 /\ n > 2) THEN <<BadEscape>> ELSE <<v>> \o f[first + n]
  BY <1>1, <1>2, <1>3, <1>4, ZenonT(60) DEF CRead
<1> QED  BY <1>5, Zenon

\* The digits counted make a number.
LEMMA CountedValue ==
    ASSUME NEW s \in Seq(Bytes), NEW i \in 1 .. Len(s) + 1, NEW set, set \subseteq HexDigits, NEW max, NEW n,
           Counted(s, i, set, max, n), NEW b \in Bases
    PROVE  ValueAt(s, i, n, b) \in Nat
<1>1. /\ Len(s) \in Nat /\ n \in 0 .. Len(s) - i + 1 /\ \A k \in 0 .. n - 1 : s[i + k] \in set
  BY LenProperties DEF Counted
<1> DEFINE p == SubSeq(s, i, i + n - 1)
<1>2. i \in Nat \ {0} /\ n \in Nat /\ i + n <= Len(s) + 1
  BY <1>1
<1> HIDE DEF Bytes
<1>3. Len(p) = n /\ \A k \in 1 .. n : p[k] = s[i + k - 1]
  BY <1>2, PartIs
<1> HIDE DEF p
<1>4. ASSUME NEW k \in 1 .. n PROVE p[k] \in HexDigits
  <2>1. k - 1 \in 0 .. n - 1 /\ i + (k - 1) = i + k - 1
    BY <1>2
  <2> QED  BY <1>1, <1>3, <2>1, Zenon
<1>5. Value(p, b) \in Nat
  BY <1>2, <1>3, <1>4, ValueType
<1> QED  BY <1>5, Zenon DEF ValueAt, p

\* At each place a body is wrong, or has a character and goes on behind it.
CGoesOn(s, i) ==
    \/ \A f : CRead(s, i, f) = <<BadEscape>>
    \/ \E v \in Byte : \E j \in i + 1 .. Len(s) + 1 : \A f : CRead(s, i, f) = <<v>> \o f[j]
LEMMA CReadIs ==
    ASSUME NEW s \in Seq(Bytes), NEW i \in 1 .. Len(s)
    PROVE  CGoesOn(s, i)
<1>1. Len(s) \in Nat /\ s[i] \in Bytes /\ i \in Nat
  <2>1. Len(s) \in Nat
    BY LenProperties
  <2> HIDE DEF Bytes
  <2> QED  BY <2>1, ElementOfSeq
<1>2. CASE s[i] = NL
  BY <1>1, <1>2, CNewline DEF CGoesOn
<1>3. CASE s[i] \notin {NL, BS}
  <2>1. \A f : CRead(s, i, f) = <<s[i]>> \o f[i + 1]
    BY <1>1, <1>3, CPlain
  <2>2. s[i] \in Byte /\ i + 1 \in i + 1 .. Len(s) + 1
    BY <1>1 DEF Byte, Bytes
  <2> QED  BY <2>1, <2>2, Zenon DEF CGoesOn
<1>4. CASE s[i] = BS /\ i = Len(s)
  BY <1>1, <1>4, CLast DEF CGoesOn
<1>5. CASE s[i] = BS /\ i < Len(s) /\ s[i + 1] \in DOMAIN SimpleEscapes
  <2>1. \A f : CRead(s, i, f) = <<SimpleEscapes[s[i + 1]]>> \o f[i + 2]
    BY <1>1, <1>5, CSimple
  <2>2. SimpleEscapes[s[i + 1]] \in Byte
    BY <1>5, SameEscapes
  <2>3. i + 2 \in i + 1 .. Len(s) + 1
    BY <1>1, <1>5
  <2> QED  BY <2>1, <2>2, <2>3, Zenon DEF CGoesOn
<1>6. CASE s[i] = BS /\ i < Len(s) /\ s[i + 1] = 120
  <2> DEFINE first == i + 2
             n == CountAt(s, first, HexDigits, Many)
             b == 16
             v == ValueAt(s, first, n, b)
  <2>1. first \in 1 .. Len(s) + 1 /\ first \in Nat /\ first > i
    BY <1>1, <1>6
  <2>2. Counted(s, first, HexDigits, Many, n)
    <3>1. Many \in Nat
      BY DEF Many
    <3> HIDE DEF first, Many
    <3> QED  BY <1>1, <2>1, <3>1, CountIs
  <2>3. v \in Nat
    <3>1. b \in Bases
      BY DEF Bases
    <3> HIDE DEF first, n, b, Bytes, Many
    <3> QED  BY <2>1, <2>2, <3>1, CountedValue
  <2>4. n \in 0 .. Len(s) - first + 1
    BY <2>2, Zenon DEF Counted
  <2>5. \A f : CRead(s, i, f) = IF n = 0 \/ v > 255 \/ n > 2 THEN <<BadEscape>> ELSE <<v>> \o f[first + n]
    <3> HIDE DEF n
    <3>0. Len(s) \in Nat /\ s[i] = BS /\ i < Len(s) /\ s[i + 1] = 120 /\ Counted(s, i + 2, HexDigits, Many, n)
      BY <1>1, <1>6, <2>2
    <3>1. ASSUME NEW f
          PROVE  CRead(s, i, f) = IF n = 0 \/ ValueAt(s, i + 2, n, 16) > 255 \/ n > 2 THEN <<BadEscape>>
                                  ELSE <<ValueAt(s, i + 2, n, 16)>> \o f[(i + 2) + n]
      BY <3>0, CHex
    <3> QED  BY <3>1, Zenon
  <2> HIDE DEF n, v, first, b
  <2>6. CASE n = 0 \/ v > 255 \/ n > 2
    BY <2>5, <2>6, Zenon DEF CGoesOn
  <2>7. CASE ~(n = 0 \/ v > 255 \/ n > 2)
    <3>1. v \in Byte /\ first + n \in i + 1 .. Len(s) + 1
      BY <1>1, <2>1, <2>3, <2>4, <2>7 DEF Byte
    <3> QED  BY <2>5, <2>7, <3>1, Zenon DEF CGoesOn
  <2> QED  BY <2>6, <2>7
<1>7. CASE s[i] = BS /\ i < Len(s) /\ s[i + 1] # 120 /\ s[i + 1] \notin DOMAIN SimpleEscapes
  <2> DEFINE first == i + 1
             three == 3
             n == CountAt(s, first, OctalDigits, three)
             b == 8
             v == ValueAt(s, first, n, b)
  <2>1. first \in 1 .. Len(s) + 1 /\ first \in Nat /\ first > i
    BY <1>1, <1>7
  <2>2. Counted(s, first, OctalDigits, three, n)
    <3>1. three \in Nat
      OBVIOUS
    <3> HIDE DEF first, three
    <3> QED  BY <1>1, <2>1, <3>1, CountIs
  <2>3. v \in Nat
    <3>1. b \in Bases /\ OctalDigits \subseteq HexDigits
      BY DEF Bases, OctalDigits, HexDigits, Digits
    <3> HIDE DEF first, n, b, Bytes, three
    <3> QED  BY <2>1, <2>2, <3>1, CountedValue
  <2>4. n \in 0 .. Len(s) - first + 1
    BY <2>2, Zenon DEF Counted
  <2>5. \A f : CRead(s, i, f) = IF n = 0 \/ v > 255 THEN <<BadEscape>> ELSE <<v>> \o f[first + n]
    <3> HIDE DEF n
    <3> QED  BY <1>1, <1>7, <2>2, COctal
  <2> HIDE DEF n, v, first, b, three
  <2>6. CASE n = 0 \/ v > 255
    BY <2>5, <2>6, Zenon DEF CGoesOn
  <2>7. CASE ~(n = 0 \/ v > 255)
    <3>1. v \in Byte /\ first + n \in i + 1 .. Len(s) + 1
      BY <1>1, <2>1, <2>3, <2>4, <2>7 DEF Byte
    <3> QED  BY <2>5, <2>7, <3>1, Zenon DEF CGoesOn
  <2> QED  BY <2>6, <2>7
<1> QED  BY <1>1, <1>2, <1>3, <1>4, <1>5, <1>6, <1>7

\* What is read at a place depends on what is read behind it.
LEMMA CReadSame ==
    ASSUME NEW s \in Seq(Bytes), NEW i \in 1 .. Len(s) + 1, NEW f, NEW g, \A j \in i + 1 .. Len(s) + 1 : f[j] = g[j]
    PROVE  CRead(s, i, f) = CRead(s, i, g)
<1>1. Len(s) \in Nat
  BY LenProperties
<1>2. CASE i = Len(s) + 1
  <2>1. i > Len(s)
    BY <1>1, <1>2
  <2> QED  BY <2>1, Zenon DEF CRead
<1>3. CASE i # Len(s) + 1
  <2>1. i \in 1 .. Len(s)
    BY <1>1, <1>3
  <2>2. CGoesOn(s, i)
    BY <2>1, CReadIs
  <2>3. CASE \A h : CRead(s, i, h) = <<BadEscape>>
    BY <2>3, Zenon
  <2>4. CASE \E v \in Byte : \E j \in i + 1 .. Len(s) + 1 : \A h : CRead(s, i, h) = <<v>> \o h[j]
    <3>1. PICK v \in Byte : \E j \in i + 1 .. Len(s) + 1 : \A h : CRead(s, i, h) = <<v>> \o h[j]
      BY <2>4
    <3>2. PICK j \in i + 1 .. Len(s) + 1 : \A h : CRead(s, i, h) = <<v>> \o h[j]
      BY <3>1
    <3>3. f[j] = g[j]
      BY <3>2
    <3> QED  BY <3>2, <3>3, Zenon
  <2> QED  BY <2>2, <2>3, <2>4, Zenon DEF CGoesOn
<1> QED  BY <1>2, <1>3

CDown(f, s, lo) == f = [i \in lo .. Len(s) + 1 |-> CRead(s, i, f)]

LEMMA CFurther ==
    ASSUME NEW s \in Seq(Bytes), NEW lo \in 2 .. Len(s) + 1, NEW f, CDown(f, s, lo)
    PROVE  \E g : CDown(g, s, lo - 1)
<1> DEFINE m == lo - 1
           l == Len(s) + 1
           step == CRead(s, m, f)
           g == [i \in m .. l |-> IF i = m THEN step ELSE f[i]]
<1>0. Len(s) \in Nat
  BY LenProperties
<1>1. /\ \A i \in m .. l : i = m \/ i \in lo .. l
      /\ \A i \in lo .. l : i \in m .. l /\ i # m /\ i \in 1 .. l
      /\ m \in m .. l /\ m \in 1 .. l /\ \A i \in m .. l : \A j \in i + 1 .. l : j \in lo .. l
  BY <1>0
<1>2. \A i \in lo .. l : f[i] = CRead(s, i, f)
  BY Zenon DEF CDown
<1>3. \A i \in lo .. l : g[i] = f[i]
  BY <1>1
<1>4. ASSUME NEW i \in m .. l PROVE (IF i = m THEN step ELSE f[i]) = CRead(s, i, g)
  <2>1. CRead(s, i, f) = CRead(s, i, g)
    <3>1. \A j \in i + 1 .. l : f[j] = g[j]
      <4> HIDE DEF m, l, g
      <4> QED  BY <1>1, <1>3
    <3>2. i \in 1 .. Len(s) + 1
      BY <1>1
    <3> HIDE DEF g, Bytes
    <3> QED  BY <3>1, <3>2, CReadSame
  <2> HIDE DEF g
  <2>2. CASE i = m
    BY <2>1, <2>2, Zenon
  <2>3. CASE i # m
    BY <1>1, <1>2, <2>1, <2>3, Zenon
  <2> QED  BY <2>2, <2>3
<1>5. g = [i \in m .. l |-> CRead(s, i, g)]
  BY Zenon, <1>4
<1> QED  BY Zenon, <1>5 DEF CDown

LEMMA CExists ==
    ASSUME NEW s \in Seq(Bytes)
    PROVE  \E f : CFrom(f, s)
<1>0. Len(s) \in Nat
  BY LenProperties
<1> DEFINE l == Len(s)
           G == {k \in Nat : k <= l => \E f : CDown(f, s, (l + 1) - k)}
<1>1. 0 \in G
  <2> DEFINE f == [i \in l + 1 .. l + 1 |-> <<>>]
  <2>1. \A i \in l + 1 .. l + 1 : <<>> = CRead(s, i, f)
    <3>1. \A i \in l + 1 .. l + 1 : i > l
      BY <1>0
    <3> QED  BY <3>1, Zenon DEF CRead
  <2>2. f = [i \in l + 1 .. l + 1 |-> CRead(s, i, f)]
    BY <2>1, Zenon
  <2>3. CDown(f, s, l + 1)
    BY <2>2, Zenon DEF CDown
  <2>4. (l + 1) - 0 = l + 1
    BY <1>0
  <2>5. \E h : CDown(h, s, (l + 1) - 0)
    BY <2>3, <2>4, Zenon
  <2> QED  BY <2>5
<1>2. ASSUME NEW k \in Nat, k < l, k \in G PROVE k + 1 \in G
  <2>1. \E f : CDown(f, s, (l + 1) - k)
    BY <1>0, <1>2
  <2>2. PICK f : CDown(f, s, (l + 1) - k)
    BY <2>1
  <2> DEFINE lo == (l + 1) - k
  <2>3. lo \in 2 .. Len(s) + 1 /\ lo - 1 = (l + 1) - (k + 1) /\ k + 1 \in Nat
    BY <1>0, <1>2
  <2>4. CDown(f, s, lo)
    BY <2>2
  <2> HIDE DEF lo, G, Bytes
  <2>5. \E g : CDown(g, s, lo - 1)
    BY <2>3, <2>4, CFurther
  <2>6. \E g : CDown(g, s, (l + 1) - (k + 1))
    BY <2>3, <2>5, Zenon
  <2> QED  BY <2>3, <2>6 DEF G
<1>3. \A k : k \in G => (k <= l => \E f : CDown(f, s, (l + 1) - k))
  OBVIOUS
<1> HIDE DEF G
<1>4. l \in G
  <2>1. \A k \in 0 .. l : k \in G
    BY <1>0, <1>1, <1>2, UpTo
  <2> QED  BY <1>0, <2>1
<1>5. l <= l /\ (l + 1) - l = 1
  BY <1>0
<1>6. \E f : CDown(f, s, (l + 1) - l)
  BY <1>3, <1>4, <1>5, Zenon
<1>7. \E f : CDown(f, s, 1)
  BY <1>5, <1>6, Zenon
<1> QED  BY <1>7, Zenon DEF CDown, CFrom

\* The body as it is read from each of its places.
Read(s) == CHOOSE f : CFrom(f, s)
LEMMA ReadIs ==
    ASSUME NEW s \in Seq(Bytes)
    PROVE  \A i \in 1 .. Len(s) + 1 : Read(s)[i] = CRead(s, i, Read(s))
<1>1. CFrom(Read(s), s)
  BY CExists, Zenon DEF Read
<1> QED  BY <1>1, Zenon DEF CFrom

LEMMA InCReads ==
    ASSUME NEW s
    PROVE  InC(s) = Read(s)[1]
<1> DEFINE f == CHOOSE f : f = [i \in 1 .. Len(s) + 1 |-> CRead(s, i, f)]
<1>1. InC(s) = f[1]
  BY Zenon DEF InC, CRead
<1>2. Read(s) = f
  BY Zenon DEF Read, CFrom
<1> QED  BY <1>1, <1>2, Zenon

LEMMA IntSeqs ==
    /\ \A v \in Int : <<v>> \in Seq(Int)
    /\ \A s \in Seq(Int) : \A t \in Seq(Int) : s \o t \in Seq(Int)
    /\ <<>> \in Seq(Int)
<1> DEFINE T == Int
<1>1. \A v \in T : <<v>> \in Seq(T)
  OBVIOUS
<1>2. <<>> \in Seq(T)
  BY EmptySeq
<1> HIDE DEF T
<1>3. \A s \in Seq(T) : \A t \in Seq(T) : s \o t \in Seq(T)
  BY ConcatProperties
<1> QED  BY <1>1, <1>2, <1>3 DEF T

LEMMA ReadType ==
    ASSUME NEW s \in Seq(Bytes)
    PROVE  \A i \in 1 .. Len(s) + 1 : Read(s)[i] \in Seq(Int)
<1> DEFINE l == Len(s)
           f == Read(s)
           R == {i \in 1 .. l + 1 : f[i] \notin Seq(Int)}
           D == {(l + 1) - i : i \in R}
<1>1. l \in Nat
  BY LenProperties
<1>2. \A i \in 1 .. l + 1 : f[i] = CRead(s, i, f)
  BY ReadIs
<1>3. SUFFICES ASSUME R # {} PROVE FALSE
  OBVIOUS
<1>4. D \in SUBSET Nat /\ D # {}
  BY <1>1, <1>3
<1>5. /\ \A d \in D : \E i \in R : d = (l + 1) - i
      /\ \A i \in R : (l + 1) - i \in D
      /\ \A i : i \in R <=> i \in 1 .. l + 1 /\ f[i] \notin Seq(Int)
  OBVIOUS
<1> HIDE DEF D, R, f
<1>6. PICK d \in D : \A e \in D : d <= e
  BY <1>4, LeastOf
<1>7. PICK i \in R : d = (l + 1) - i
  BY <1>5
<1>8. i \in 1 .. l + 1 /\ f[i] \notin Seq(Int) /\ f[i] = CRead(s, i, f)
  BY <1>2, <1>5, <1>7
<1>9. ASSUME NEW j \in i + 1 .. l + 1 PROVE f[j] \in Seq(Int)
  <2>1. j \in 1 .. l + 1 /\ ~(d <= (l + 1) - j)
    BY <1>1, <1>7, <1>8
  <2> QED  BY <1>5, <1>6, <2>1, Zenon
<1>10. CASE i = l + 1
  <2>1. i > Len(s)
    BY <1>1, <1>10
  <2>2. CRead(s, i, f) = <<>>
    BY <2>1, Zenon DEF CRead
  <2> QED  BY <1>8, <2>2, IntSeqs
<1>11. CASE i # l + 1
  <2>1. i \in 1 .. Len(s)
    BY <1>1, <1>8, <1>11
  <2>2. CGoesOn(s, i)
    <3> HIDE DEF Bytes
    <3> QED  BY <2>1, CReadIs
  <2>3. CASE \A h : CRead(s, i, h) = <<BadEscape>>
    <3>1. BadEscape \in Int
      BY DEF BadEscape
    <3>2. <<BadEscape>> \in Seq(Int)
      BY <3>1, IntSeqs, Zenon
    <3> QED  BY <1>8, <2>3, <3>2, Zenon
  <2>4. CASE \E v \in Byte : \E j \in i + 1 .. Len(s) + 1 : \A h : CRead(s, i, h) = <<v>> \o h[j]
    <3>1. PICK v \in Byte : \E j \in i + 1 .. Len(s) + 1 : \A h : CRead(s, i, h) = <<v>> \o h[j]
      BY <2>4
    <3>2. PICK j \in i + 1 .. Len(s) + 1 : \A h : CRead(s, i, h) = <<v>> \o h[j]
      BY <3>1
    <3>3. f[j] \in Seq(Int) /\ v \in Int
      BY <1>9, <3>2 DEF Byte
    <3>4. <<v>> \o f[j] \in Seq(Int)
      BY <3>3, IntSeqs, Zenon
    <3> QED  BY <1>8, <3>2, <3>4, Zenon
  <2> QED  BY <2>2, <2>3, <2>4, Zenon DEF CGoesOn
<1> QED  BY <1>10, <1>11

LEMMA IntAssoc ==
    ASSUME NEW a \in Seq(Int), NEW b \in Seq(Int), NEW c \in Seq(Int)
    PROVE  (a \o b) \o c = a \o (b \o c)
<1> DEFINE T == Int
<1>1. a \in Seq(T) /\ b \in Seq(T) /\ c \in Seq(T)
  OBVIOUS
<1> HIDE DEF T
<1> QED  BY <1>1, ConcatAssociative, SMTT(30)

LEMMA ByteInts ==
    /\ \A s \in Seq(Bytes) : s \in Seq(Byte) /\ s \in Seq(Int)
    /\ \A s \in Seq(Byte) : s \in Seq(Int)
<1> DEFINE I == Int
<1>1. Bytes \subseteq Byte /\ Byte \subseteq I
  BY DEF Bytes, Byte
<1>2. Bytes \subseteq I
  BY <1>1
<1> HIDE DEF I, Byte, Bytes
<1>3. \A s \in Seq(Bytes) : s \in Seq(Byte) /\ s \in Seq(I)
  BY <1>1, <1>2, SeqMonotonic
<1>4. \A s \in Seq(Byte) : s \in Seq(I)
  BY <1>1, SeqMonotonic
<1> QED  BY <1>3, <1>4 DEF I

\* What a piece of n characters means: the chars, or nothing C allows.
Goes(s, i, n, chars) == Read(s)[i] = <<BadEscape>> \/ Read(s)[i] = chars \o Read(s)[i + n]

\* One more character behind a part.
LEMMA PartLonger ==
    ASSUME NEW T, NEW s \in Seq(T), NEW i \in Nat \ {0}, NEW k \in Nat, i + k <= Len(s)
    PROVE  SubSeq(s, i, i + (k + 1) - 1) = SubSeq(s, i, i + k - 1) \o <<s[i + k]>>
<1> DEFINE n == i + k
<1>1. Len(s) \in Nat
  BY LenProperties
<1>2. i \in 1 .. Len(s) /\ n \in i .. Len(s) /\ i + (k + 1) - 1 = n /\ i + k - 1 = n - 1
  BY <1>1
<1> HIDE DEF n
<1>3. SubSeq(s, i, n) = SubSeq(s, i, n - 1) \o <<s[n]>>
  BY <1>2, SubSeqRecursiveSecond
<1> QED  BY <1>2, <1>3, Zenon DEF n

LEMMA TextMeans ==
    ASSUME NEW s \in Seq(Bytes), NEW i \in 1 .. Len(s) + 1, NEW n \in Nat, i + n <= Len(s) + 1,
           \A j \in i .. i + n - 1 : s[j] \notin {NL, BS}
    PROVE  Read(s)[i] = SubSeq(s, i, i + n - 1) \o Read(s)[i + n]
<1> DEFINE l == Len(s)
           f == Read(s)
           G == {k \in Nat : k <= n => f[i] = SubSeq(s, i, i + k - 1) \o f[i + k]}
<1>1. l \in Nat /\ i \in Nat \ {0} /\ i <= l + 1
  BY LenProperties
<1>2. \A j \in 1 .. l + 1 : f[j] = CRead(s, j, f) /\ f[j] \in Seq(Int)
  BY ReadIs, ReadType
<1>3. \A k : k \in G <=> k \in Nat /\ (k <= n => f[i] = SubSeq(s, i, i + k - 1) \o f[i + k])
  OBVIOUS
<1> HIDE DEF f, G
<1>4. 0 \in G
  <2>1. SubSeq(s, i, i + 0 - 1) = <<>>
    <3> DEFINE j == i + 0 - 1
    <3>1. j \in Int /\ i \in Int /\ j < i
      BY <1>1
    <3> HIDE DEF j, Bytes
    <3> QED  BY <3>1, SubSeqEmpty DEF j
  <2>2. i \in 1 .. l + 1 /\ i + 0 = i
    BY <1>1
  <2>3. f[i] \in Seq(Int)
    BY <1>2, <2>2
  <2>4. f[i] = <<>> \o f[i]
    <3> DEFINE T == Int
               u == f[i]
    <3>1. u \in Seq(T)
      BY <2>3
    <3> HIDE DEF T, u
    <3>2. <<>> \o u = u
      BY <3>1, ConcatEmptySeq
    <3> QED  BY <3>2 DEF u
  <2>5. f[i] = SubSeq(s, i, i + 0 - 1) \o f[i + 0]
    BY <2>1, <2>2, <2>4, Zenon
  <2> QED  BY <1>3, <2>5
<1>5. ASSUME NEW k \in Nat, k < n, k \in G PROVE k + 1 \in G
  <2>1. /\ k <= n /\ i + k \in 1 .. l /\ i + k \in 1 .. l + 1 /\ (i + k) + 1 = i + (k + 1) /\ i + (k + 1) \in 1 .. l + 1
        /\ i + k <= Len(s) /\ i + k \in i .. i + n - 1 /\ i + k <= Len(s) + 1
    BY <1>1, <1>5
  <2>2. f[i] = SubSeq(s, i, i + k - 1) \o f[i + k]
    BY <1>3, <1>5, <2>1
  <2>3. f[i + k] = <<s[i + k]>> \o f[(i + k) + 1]
    <3>1. s[i + k] \notin {NL, BS} /\ i + k \in 1 .. Len(s) /\ Len(s) \in Nat
      BY <1>1, <2>1
    <3> DEFINE j == i + k
    <3>2. f[j] = CRead(s, j, f)
      BY <1>2, <2>1
    <3> HIDE DEF j
    <3>3. CRead(s, j, f) = <<s[j]>> \o f[j + 1]
      BY <3>1, CPlain DEF j
    <3> QED  BY <3>2, <3>3, Zenon DEF j
  <2>4. SubSeq(s, i, i + (k + 1) - 1) = SubSeq(s, i, i + k - 1) \o <<s[i + k]>>
    <3> HIDE DEF Bytes
    <3> QED  BY <1>1, <2>1, PartLonger
  <2> DEFINE a == SubSeq(s, i, i + k - 1)
             b == <<s[i + k]>>
             c == f[i + (k + 1)]
  <2>5. a \in Seq(Int) /\ b \in Seq(Int) /\ c \in Seq(Int)
    <3>1. a \in Seq(Bytes)
      <4> HIDE DEF Bytes
      <4> QED  BY <1>1, <2>1, PartIs
    <3>2. s[i + k] \in Bytes
      <4> HIDE DEF Bytes
      <4> QED  BY <2>1, ElementOfSeq
    <3>3. s[i + k] \in Int
      <4>1. \A x \in Bytes : x \in Int
        BY DEF Bytes
      <4> QED  BY <3>2, <4>1, Zenon
    <3>4. a \in Seq(Int)
      <4> HIDE DEF a
      <4> QED  BY <3>1, ByteInts
    <3>5. b \in Seq(Int)
      BY <3>3, IntSeqs, Zenon
    <3> QED  BY <1>2, <2>1, <3>4, <3>5, Zenon
  <2>6. f[i] = a \o (b \o c)
    BY <2>1, <2>2, <2>3, Zenon
  <2>7. SubSeq(s, i, i + (k + 1) - 1) = a \o b
    BY <2>4, Zenon
  <2>8. f[i] = SubSeq(s, i, i + (k + 1) - 1) \o c
    <3> HIDE DEF a, b, c
    <3>1. (a \o b) \o c = a \o (b \o c)
      BY <2>5, IntAssoc
    <3> QED  BY <2>6, <2>7, <3>1, Zenon
  <2>9. k + 1 \in Nat
    OBVIOUS
  <2> QED  BY <1>3, <2>8, <2>9
<1>6. n \in G
  <2>1. n \in Nat /\ n \in 0 .. n
    OBVIOUS
  <2> QED  BY <1>4, <1>5, <2>1, UpTo
<1>7. n <= n
  OBVIOUS
<1> QED  BY <1>3, <1>6, <1>7, Zenon DEF f

LEMMA DigitsMean ==
    ASSUME NEW s \in Seq(Bytes), NEW i \in 1 .. Len(s) + 1, NEW n \in Nat, i + n <= Len(s) + 1,
           \A j \in i .. i + n - 1 : s[j] \in HexDigits, NEW b \in Bases, ValueAt(s, i, n, b) <= 255
    PROVE  EscapedChar(SubSeq(s, i, i + n - 1), b) = ValueAt(s, i, n, b)
<1> DEFINE p == SubSeq(s, i, i + n - 1)
           v == Value(p, b)
<1>1. Len(s) \in Nat /\ i \in Nat \ {0}
  BY LenProperties
<1>2. Len(p) = n /\ \A k \in 1 .. n : p[k] = s[i + k - 1]
  <2> HIDE DEF Bytes
  <2> QED  BY <1>1, PartIs, SMTT(30)
<1>3. ValueAt(s, i, n, b) = v
  BY Zenon DEF ValueAt
<1> HIDE DEF p
<1>4. \A k \in 1 .. n : p[k] \in HexDigits
  <2>1. \A k \in 1 .. n : i + k - 1 \in i .. i + n - 1
    BY <1>1
  <2> QED  BY <1>2, <2>1, Zenon
<1>5. v \in Nat
  BY <1>2, <1>4, ValueType
<1>6. v <= 255
  BY <1>3
<1>7. v < 2^IntBits
  <2>1. PICK k \in Nat \ {0, 1} : 2^IntBits = 256 * k
    BY IntValues
  <2> HIDE DEF v
  <2> QED  BY <1>5, <1>6, <2>1
<1>8. NumberOf(p, b) = v
  BY <1>2, <1>4, <1>7, NumberFits
<1> HIDE DEF v
<1>9. v % 256 = v
  BY <1>5, <1>6
<1> QED  BY <1>3, <1>8, <1>9, Zenon DEF EscapedChar, p

OctalRead(s, i, n, f) ==
    IF n = 0 \/ ValueAt(s, i + 1, n, 8) > 255 THEN <<BadEscape>> ELSE <<ValueAt(s, i + 1, n, 8)>> \o f[(i + 1) + n]
HexRead(s, i, n, f) ==
    IF n = 0 \/ ValueAt(s, i + 2, n, 16) > 255 \/ n > 2 THEN <<BadEscape>>
    ELSE <<ValueAt(s, i + 2, n, 16)>> \o f[(i + 2) + n]

LEMMA ReadOctal ==
    ASSUME NEW s \in Seq(Bytes), NEW i \in 1 .. Len(s), s[i] = BS, i < Len(s),
           s[i + 1] # 120, s[i + 1] \notin DOMAIN SimpleEscapes,
           NEW n, Counted(s, i + 1, OctalDigits, 3, n)
    PROVE  Read(s)[i] = OctalRead(s, i, n, Read(s))
<1> DEFINE f == Read(s)
<1>1. Len(s) \in Nat /\ i \in 1 .. Len(s) + 1
  BY LenProperties
<1>2. f[i] = CRead(s, i, f)
  BY <1>1, ReadIs
<1> HIDE DEF f
<1>3. CRead(s, i, f) = IF n = 0 \/ ValueAt(s, i + 1, n, 8) > 255 THEN <<BadEscape>>
                       ELSE <<ValueAt(s, i + 1, n, 8)>> \o f[(i + 1) + n]
  <2>1. Len(s) \in Nat /\ s[i] = BS /\ i < Len(s) /\ s[i + 1] # 120 /\ s[i + 1] \notin DOMAIN SimpleEscapes /\ Counted(s, i + 1, OctalDigits, 3, n)
    BY <1>1
  <2>2. ASSUME NEW g PROVE CRead(s, i, g) = IF n = 0 \/ ValueAt(s, i + 1, n, 8) > 255 THEN <<BadEscape>>
                                       ELSE <<ValueAt(s, i + 1, n, 8)>> \o g[(i + 1) + n]
    BY <2>1, COctal
  <2> QED  BY <2>2, Zenon
<1> QED  BY <1>2, <1>3, Zenon DEF f, OctalRead

LEMMA ReadHex ==
    ASSUME NEW s \in Seq(Bytes), NEW i \in 1 .. Len(s), s[i] = BS, i < Len(s), s[i + 1] = 120,
           NEW n, Counted(s, i + 2, HexDigits, Many, n)
    PROVE  Read(s)[i] = HexRead(s, i, n, Read(s))
<1> DEFINE f == Read(s)
<1>1. Len(s) \in Nat /\ i \in 1 .. Len(s) + 1
  BY LenProperties
<1>2. f[i] = CRead(s, i, f)
  BY <1>1, ReadIs
<1> HIDE DEF f
<1>3. CRead(s, i, f) = IF n = 0 \/ ValueAt(s, i + 2, n, 16) > 255 \/ n > 2 THEN <<BadEscape>>
                       ELSE <<ValueAt(s, i + 2, n, 16)>> \o f[(i + 2) + n]
  <2>1. Len(s) \in Nat /\ s[i] = BS /\ i < Len(s) /\ s[i + 1] = 120 /\ Counted(s, i + 2, HexDigits, Many, n)
    BY <1>1
  <2>2. ASSUME NEW g PROVE CRead(s, i, g) = IF n = 0 \/ ValueAt(s, i + 2, n, 16) > 255 \/ n > 2 THEN <<BadEscape>>
                                       ELSE <<ValueAt(s, i + 2, n, 16)>> \o g[(i + 2) + n]
    BY <2>1, CHex
  <2> QED  BY <2>2, Zenon
<1> QED  BY <1>2, <1>3, Zenon DEF f, HexRead

OctalAt(s, i, n) ==
    /\ n \in 1 .. 3 /\ i + n <= Len(s) /\ s[i] = BS /\ \A j \in i + 1 .. i + n : s[j] \in OctalDigits
    /\ n = 3 \/ i + n = Len(s) \/ s[i + n + 1] \notin OctalDigits
LEMMA OctalMeans ==
    ASSUME NEW s \in Seq(Bytes), NEW i \in 1 .. Len(s), NEW n, OctalAt(s, i, n)
    PROVE  Goes(s, i, n + 1, <<EscapedChar(SubSeq(s, i + 1, i + n), 8)>>)
<1> DEFINE first == i + 1
           v == ValueAt(s, first, n, 8)
           f == Read(s)
<1>1. Len(s) \in Nat /\ i \in Nat
  BY LenProperties
<1>a. n \in 1 .. 3 /\ i + n <= Len(s) /\ s[i] = BS /\ \A j \in i + 1 .. i + n : s[j] \in OctalDigits
  BY DEF OctalAt
<1>b. n = 3 \/ i + n = Len(s) \/ s[i + n + 1] \notin OctalDigits
  BY DEF OctalAt
<1>2. first \in 1 .. Len(s) + 1 /\ first + n <= Len(s) + 1 /\ first + n - 1 = i + n /\ i < Len(s) /\ first + n = i + (n + 1)
  BY <1>1, <1>a
<1>3. Counted(s, first, OctalDigits, 3, n)
  <2>1. n \in 0 .. Len(s) - first + 1 /\ n <= 3
    BY <1>1, <1>a
  <2>2. \A k \in 0 .. n - 1 : first + k \in i + 1 .. i + n
    BY <1>1, <1>a
  <2>3. n < 3 /\ first + n <= Len(s) => s[first + n] \notin OctalDigits
    <3>1. first + n = i + n + 1 /\ (first + n <= Len(s) => i + n # Len(s)) /\ (n < 3 => n # 3)
      BY <1>1, <1>a
    <3> QED  BY <1>b, <3>1, Zenon
  <2> QED  BY <1>a, <2>1, <2>2, <2>3, Zenon DEF Counted
<1>4. s[i + 1] # 120 /\ s[i + 1] \notin DOMAIN SimpleEscapes
  <2>1. i + 1 \in i + 1 .. i + n
    BY <1>1, <1>a
  <2>2. s[i + 1] \in OctalDigits
    BY <1>a, <2>1
  <2> DEFINE c == s[i + 1]
  <2>3. c \in OctalDigits
    BY <2>2
  <2> HIDE DEF c
  <2>4. c # 120 /\ c \notin DOMAIN SimpleEscapes
    BY <2>3, SameEscapes
  <2> QED  BY <2>4 DEF c
<1>5. f[i] = IF n = 0 \/ v > 255 THEN <<BadEscape>> ELSE <<v>> \o f[first + n]
  <2>1. /\ i < Len(s) /\ s[i] = BS /\ s[i + 1] # 120 /\ s[i + 1] \notin DOMAIN SimpleEscapes
        /\ Counted(s, i + 1, OctalDigits, 3, n)
    BY <1>a, <1>2, <1>3, <1>4
  <2> HIDE DEF Bytes
  <2>2. Read(s)[i] = OctalRead(s, i, n, Read(s))
    BY <2>1, ReadOctal
  <2> QED  BY <2>2, Zenon DEF OctalRead
<1>7. CASE v > 255
  BY <1>5, <1>7, Zenon DEF Goes
<1>8. CASE ~(v > 255)
  <2>1. v \in Nat
    <3> DEFINE b == 8
               three == 3
    <3>1. b \in Bases /\ OctalDigits \subseteq HexDigits
      BY DEF Bases, OctalDigits, HexDigits, Digits
    <3>2. Counted(s, first, OctalDigits, three, n)
      BY <1>3
    <3> HIDE DEF b, Bytes, first, three
    <3>3. ValueAt(s, first, n, b) \in Nat
      BY <1>2, <3>1, <3>2, CountedValue
    <3> QED  BY <3>3 DEF b, first
  <2>2. v <= 255
    <3> HIDE DEF v
    <3> QED  BY <1>8, <2>1
  <2>3. EscapedChar(SubSeq(s, first, first + n - 1), 8) = v
    <3> DEFINE b == 8
    <3>1. b \in Bases /\ \A c \in OctalDigits : c \in HexDigits
      BY DEF Bases, OctalDigits, HexDigits, Digits
    <3>2. \A j \in first .. first + n - 1 : s[j] \in HexDigits
      BY <1>a, <1>2, <3>1, Zenon
    <3>3. ValueAt(s, first, n, b) <= 255 /\ n \in Nat
      BY <1>a, <2>2
    <3> HIDE DEF b, Bytes, first
    <3>4. EscapedChar(SubSeq(s, first, first + n - 1), b) = ValueAt(s, first, n, b)
      BY <1>2, <3>1, <3>2, <3>3, DigitsMean
    <3> QED  BY <3>4 DEF b, first
  <2>4. n # 0
    BY <1>a
  <2>5. f[i] = <<v>> \o f[i + (n + 1)]
    BY <1>2, <1>5, <1>8, <2>4, Zenon
  <2>6. EscapedChar(SubSeq(s, i + 1, i + n), 8) = v
    BY <1>2, <2>3, Zenon
  <2> QED  BY <2>5, <2>6, Zenon DEF Goes
<1> QED  BY <1>7, <1>8

HexAt(s, i, n) ==
    /\ n \in 1 .. 2 /\ i + 1 + n <= Len(s) /\ s[i] = BS /\ s[i + 1] = 120
    /\ \A j \in i + 2 .. i + 1 + n : s[j] \in HexDigits
    /\ n = 2 \/ i + 1 + n = Len(s) \/ s[i + 2 + n] \notin HexDigits
LEMMA HexMeans ==
    ASSUME NEW s \in Seq(Bytes), NEW i \in 1 .. Len(s), NEW n, HexAt(s, i, n)
    PROVE  Goes(s, i, n + 2, <<EscapedChar(SubSeq(s, i + 2, i + 1 + n), 16)>>)
<1> DEFINE first == i + 2
           c == CountAt(s, first, HexDigits, Many)
           v == ValueAt(s, first, c, 16)
           f == Read(s)
<1>1. Len(s) \in Nat /\ i \in Nat
  BY LenProperties
<1>a. n \in 1 .. 2 /\ i + 1 + n <= Len(s) /\ s[i] = BS /\ s[i + 1] = 120
  BY DEF HexAt
<1>b. \A j \in i + 2 .. i + 1 + n : s[j] \in HexDigits
  BY DEF HexAt
<1>c. n = 2 \/ i + 1 + n = Len(s) \/ s[i + 2 + n] \notin HexDigits
  BY DEF HexAt
<1>2. first \in 1 .. Len(s) + 1 /\ first + n <= Len(s) + 1 /\ first + n - 1 = i + 1 + n /\ i < Len(s) /\ first + n = i + (n + 2)
  BY <1>1, <1>a
<1>3. Counted(s, first, HexDigits, Many, c)
  <2>1. Many \in Nat
    BY DEF Many
  <2> HIDE DEF first, Many
  <2> QED  BY <1>1, <1>2, <2>1, CountIs
<1>5. f[i] = IF c = 0 \/ v > 255 \/ c > 2 THEN <<BadEscape>> ELSE <<v>> \o f[first + c]
  <2>1. i < Len(s) /\ s[i] = BS /\ s[i + 1] = 120 /\ Counted(s, i + 2, HexDigits, Many, c)
    BY <1>a, <1>2, <1>3
  <2> HIDE DEF Bytes, c
  <2>2. Read(s)[i] = HexRead(s, i, c, Read(s))
    BY <2>1, ReadHex
  <2> QED  BY <2>2, Zenon DEF HexRead
<1>6. c \in Nat /\ (c = n \/ c > 2)
  <2> HIDE DEF c, first
  <2>1. /\ c \in 0 .. Len(s) - first + 1
        /\ \A k \in 0 .. c - 1 : s[first + k] \in HexDigits
        /\ c < Many /\ first + c <= Len(s) => s[first + c] \notin HexDigits
    BY <1>3, Zenon DEF Counted
  <2>2. ASSUME c < n PROVE FALSE
    <3>1. c < Many /\ first + c <= Len(s) /\ first + c \in i + 2 .. i + 1 + n
      BY <1>1, <1>2, <1>a, <2>1, <2>2 DEF Many, first
    <3> QED  BY <1>b, <2>1, <3>1
  <2>3. ASSUME c > n, c <= 2 PROVE FALSE
    <3>1. n = 1 /\ n \in 0 .. c - 1 /\ first + n <= Len(s)
      BY <1>1, <1>2, <1>a, <2>1, <2>3
    <3>2. s[first + n] \in HexDigits
      BY <2>1, <3>1
    <3>3. first + n = i + 2 + n /\ i + 1 + n # Len(s) /\ n # 2
      BY <1>1, <3>1 DEF first
    <3> QED  BY <1>c, <3>2, <3>3, Zenon
  <2> QED  BY <1>a, <2>1, <2>2, <2>3
<1>7. CASE v > 255 \/ c > 2
  BY <1>5, <1>7, Zenon DEF Goes
<1>8. CASE ~(v > 255 \/ c > 2)
  <2>1. v \in Nat
    <3> DEFINE b == 16
    <3>1. b \in Bases /\ HexDigits \subseteq HexDigits
      BY DEF Bases
    <3> HIDE DEF b, Bytes, first, c, Many
    <3>2. ValueAt(s, first, c, b) \in Nat
      BY <1>2, <1>3, <3>1, CountedValue
    <3> QED  BY <3>2 DEF b
  <2>2. v <= 255 /\ c = n
    <3> HIDE DEF v, c
    <3> QED  BY <1>6, <1>8, <2>1
  <2>3. EscapedChar(SubSeq(s, first, first + n - 1), 16) = v
    <3> DEFINE b == 16
    <3>1. b \in Bases
      BY DEF Bases
    <3>2. \A j \in first .. first + n - 1 : s[j] \in HexDigits
      BY <1>b, <1>2, Zenon
    <3>3. v = ValueAt(s, first, n, b)
      BY <2>2, Zenon
    <3>4. ValueAt(s, first, n, b) <= 255 /\ n \in Nat
      BY <1>a, <2>2, <3>3
    <3> HIDE DEF b, Bytes, first, v, f, c
    <3>5. EscapedChar(SubSeq(s, first, first + n - 1), b) = ValueAt(s, first, n, b)
      BY <1>2, <3>1, <3>2, <3>4, DigitsMean
    <3> QED  BY <3>3, <3>5 DEF b
  <2>4. c # 0
    <3> HIDE DEF c
    <3> QED  BY <1>a, <2>2
  <2>5. f[i] = <<v>> \o f[first + c]
    BY <1>5, <1>8, <2>4, Zenon
  <2>6. first + c = i + (n + 2)
    <3> HIDE DEF c
    <3> QED  BY <1>2, <2>2
  <2>7. f[i] = <<v>> \o f[i + (n + 2)]
    BY <2>5, <2>6, Zenon
  <2>8. EscapedChar(SubSeq(s, i + 2, i + 1 + n), 16) = v
    BY <1>2, <2>3, Zenon
  <2> QED  BY <2>7, <2>8, Zenon DEF Goes
<1> QED  BY <1>7, <1>8

LEMMA SimpleMeans ==
    ASSUME NEW s \in Seq(Bytes), NEW i \in 1 .. Len(s), i < Len(s), s[i] = BS, s[i + 1] \in DOMAIN SimpleEscapes
    PROVE  Goes(s, i, 2, <<SimpleEscapes[s[i + 1]]>>)
<1> DEFINE f == Read(s)
<1>1. Len(s) \in Nat /\ i \in 1 .. Len(s) + 1
  BY LenProperties
<1>2. f[i] = CRead(s, i, f)
  BY <1>1, ReadIs
<1> HIDE DEF f
<1>3. CRead(s, i, f) = <<SimpleEscapes[s[i + 1]]>> \o f[i + 2]
  BY <1>1, CSimple
<1> QED  BY <1>2, <1>3, Zenon DEF Goes, f

LEMMA WrongMeans ==
    ASSUME NEW s \in Seq(Bytes), NEW i \in 1 .. Len(s),
           \/ s[i] = NL
           \/ s[i] = BS /\ i = Len(s)
           \/ /\ s[i] = BS /\ s[i + 1] \notin DOMAIN SimpleEscapes /\ s[i + 1] \notin OctalDigits
              /\ s[i + 1] = 120 => i + 1 = Len(s) \/ s[i + 2] \notin HexDigits
    PROVE  Read(s)[i] = <<BadEscape>>
<1> DEFINE f == Read(s)
<1>1. Len(s) \in Nat /\ i \in 1 .. Len(s) + 1
  BY LenProperties
<1>2. f[i] = CRead(s, i, f)
  BY <1>1, ReadIs
<1> HIDE DEF f
<1> SUFFICES CRead(s, i, f) = <<BadEscape>>
  BY <1>2 DEF f
<1>3. CASE s[i] = NL
  BY <1>1, <1>3, CNewline
<1>4. CASE s[i] = BS /\ i = Len(s)
  BY <1>1, <1>4, CLast
<1>5. CASE /\ s[i] = BS /\ i # Len(s) /\ s[i + 1] \notin DOMAIN SimpleEscapes /\ s[i + 1] \notin OctalDigits
           /\ s[i + 1] = 120 => i + 1 = Len(s) \/ s[i + 2] \notin HexDigits
  <2>1. i < Len(s)
    BY <1>1, <1>5
  <2> DEFINE n == 0
  <2>2. CASE s[i + 1] = 120
    <3>1. Counted(s, i + 2, HexDigits, Many, n)
      <4>1. n \in 0 .. Len(s) - (i + 2) + 1 /\ n <= Many
        BY <1>1, <2>1 DEF Many
      <4>2. \A k \in 0 .. n - 1 : FALSE
        OBVIOUS
      <4>3. (i + 2) + n <= Len(s) => s[(i + 2) + n] \notin HexDigits
        <5>1. (i + 2) + n = i + 2 /\ (i + 2 <= Len(s) => i + 1 # Len(s))
          BY <1>1
        <5> QED  BY <1>5, <2>2, <5>1, Zenon
      <4> QED  BY <4>1, <4>2, <4>3, Zenon DEF Counted
    <3>2. CRead(s, i, f) = IF n = 0 \/ ValueAt(s, i + 2, n, 16) > 255 \/ n > 2 THEN <<BadEscape>>
                            ELSE <<ValueAt(s, i + 2, n, 16)>> \o f[(i + 2) + n]
      <4> HIDE DEF n
      <4> QED  BY <1>1, <1>5, <2>1, <2>2, <3>1, CHex
    <3> QED  BY <3>2, Zenon
  <2>3. CASE s[i + 1] # 120
    <3>1. Counted(s, i + 1, OctalDigits, 3, n)
      <4>1. n \in 0 .. Len(s) - (i + 1) + 1 /\ n <= 3
        BY <1>1, <2>1
      <4>2. \A k \in 0 .. n - 1 : FALSE
        OBVIOUS
      <4>3. (i + 1) + n <= Len(s) => s[(i + 1) + n] \notin OctalDigits
        <5>1. (i + 1) + n = i + 1
          BY <1>1
        <5> QED  BY <1>5, <5>1, Zenon
      <4> QED  BY <4>1, <4>2, <4>3, Zenon DEF Counted
    <3>2. CRead(s, i, f) = IF n = 0 \/ ValueAt(s, i + 1, n, 8) > 255 THEN <<BadEscape>>
                            ELSE <<ValueAt(s, i + 1, n, 8)>> \o f[(i + 1) + n]
      <4> HIDE DEF n
      <4> QED  BY <1>1, <1>5, <2>1, <2>3, <3>1, COctal
    <3> QED  BY <3>2, Zenon
  <2> QED  BY <2>2, <2>3
<1> QED  BY <1>3, <1>4, <1>5

(***************************************************************************)
(* What a literal that is being built holds of its characters.             *)
(***************************************************************************)
LEMMA ModIs ==
    ASSUME NEW y \in Int, NEW q \in Int, NEW m \in Nat \ {0}, NEW r \in 0 .. m - 1, y = q * m + r
    PROVE  y % m = r
<1> DEFINE s == y % m
<1>1. s \in 0 .. m - 1 /\ \E p \in Int : y = p * m + s
  BY ModRange
<1> HIDE DEF s
<1>2. PICK p \in Int : y = p * m + s
  BY <1>1
<1> DEFINE d == q - p
<1>3. d \in Int /\ d * m = s - r
  BY <1>1, <1>2
<1>4. \A e \in Int : e >= 1 => e * m >= m
  OBVIOUS
<1>5. \A e \in Int : e <= -1 => e * m <= -m
  OBVIOUS
<1> HIDE DEF d
<1>6. d = 0
  BY <1>1, <1>3, <1>4, <1>5
<1>7. s = r
  BY <1>1, <1>3, <1>6
<1> QED  BY <1>7 DEF s

OneMore(values, more, n) == Len(values) = n /\ Len(more) = n + 1 /\ \A k \in 1 .. n : more[k] = values[k]
LEMMA PlacesLonger ==
    ASSUME NEW values, NEW more, NEW n \in Nat, OneMore(values, more, n), NEW b
    PROVE  Places(more, b) = b * Places(values, b) + more[n + 1]
<1> DEFINE m == n + 1
<1>0. m \in Nat /\ Len(more) = m /\ Len(values) = n /\ \A k \in 1 .. n : more[k] = values[k]
  BY DEF OneMore
<1>1. PICK f : PlacesUpTo(f, values, b, n) /\ Places(values, b) = f[n]
  BY <1>0, PlacesAre
<1>2. PICK g : PlacesUpTo(g, more, b, m) /\ Places(more, b) = g[m]
  <2> HIDE DEF m
  <2> QED  BY <1>0, PlacesAre
<1>3. f[0] = 0 /\ \A k \in 1 .. n : f[k] = b * f[k - 1] + values[k]
  BY <1>1, PlacesStep
<1>4. g[0] = 0 /\ \A k \in 1 .. m : g[k] = b * g[k - 1] + more[k]
  <2>1. m \in Nat
    OBVIOUS
  <2> HIDE DEF m
  <2> QED  BY <1>2, <2>1, PlacesStep
<1> DEFINE G == {k \in Nat : k <= n => g[k] = f[k]}
<1>5. 0 \in G
  BY <1>3, <1>4
<1>6. ASSUME NEW k \in Nat, k < n, k \in G PROVE k + 1 \in G
  <2> DEFINE j == k + 1
  <2>1. j \in 1 .. n /\ j \in 1 .. m /\ j - 1 = k /\ j \in Nat /\ k <= n
    BY <1>6
  <2>2. g[k] = f[k]
    BY <1>6, <2>1
  <2> HIDE DEF j, G, m
  <2>3. g[j] = b * g[k] + more[j] /\ f[j] = b * f[k] + values[j] /\ more[j] = values[j]
    BY <1>0, <1>3, <1>4, <2>1, Zenon
  <2>4. g[j] = f[j]
    BY <2>2, <2>3, Zenon
  <2> QED  BY <2>1, <2>4 DEF j, G
<1>7. \A k : k \in G => (k <= n => g[k] = f[k])
  OBVIOUS
<1> HIDE DEF G
<1>8. g[n] = f[n]
  <2>1. n \in 0 .. n /\ n <= n
    OBVIOUS
  <2>2. n \in G
    BY <1>5, <1>6, <2>1, UpTo
  <2> QED  BY <1>7, <2>1, <2>2
<1>9. m \in 1 .. m /\ m - 1 = n
  OBVIOUS
<1>10. g[m] = b * g[n] + more[m]
  <2> HIDE DEF m
  <2> QED  BY <1>4, <1>9, Zenon
<1> QED  BY <1>1, <1>2, <1>8, <1>10, Zenon

\* One more sequence element behind a sequence of bytes.
LEMMA Behind ==
    ASSUME NEW c \in Seq(Byte), NEW x \in Byte
    PROVE  /\ c \o <<x>> \in Seq(Byte) /\ Len(c \o <<x>>) = Len(c) + 1 /\ Len(c) \in Nat
           /\ \A k \in 1 .. Len(c) : (c \o <<x>>)[k] = c[k] /\ c[k] \in Byte
           /\ (c \o <<x>>)[Len(c) + 1] = x /\ Append(c, x) = c \o <<x>>
<1> DEFINE a == Append(c, x)
<1> HIDE DEF Byte
<1>1. /\ a \in Seq(Byte) /\ Len(a) = Len(c) + 1 /\ Len(c) \in Nat
      /\ \A k \in 1 .. Len(c) : a[k] = c[k]
      /\ a[Len(c) + 1] = x
  BY AppendProperties, LenProperties
<1>2. \A k \in 1 .. Len(c) : c[k] \in Byte
  BY ElementOfSeq
<1>3. a = c \o <<x>>
  BY AppendIsConcat
<1> HIDE DEF a
<1>4. Append(c, x) = a
  BY DEF a
<1> QED  BY <1>1, <1>2, <1>3, <1>4, Zenon

\* The int of a character literal, after the characters c.
CharHolds(n, c) ==
    /\ c = <<>> => n = 0
    /\ Len(c) = 1 => Signed(n) = SignedChar(c[1])
    /\ (\A k \in 1 .. Len(c) : c[k] < 128) => n = Wrap(Places(c, 256))

LEMMA PlacesBytes ==
    ASSUME NEW c \in Seq(Byte)
    PROVE  Places(c, 256) \in Nat
<1> DEFINE n == Len(c)
           b == 256
<1>1. n \in Nat /\ \A k \in 1 .. n : c[k] \in Byte
  <2> HIDE DEF Byte
  <2> QED  BY LenProperties, ElementOfSeq
<1>2. \A k \in 1 .. n : c[k] \in Nat
  <2>1. \A v \in Byte : v \in Nat
    BY DEF Byte
  <2> QED  BY <1>1, <2>1, Zenon
<1>3. b \in Bases
  BY DEF Bases
<1>4. n = Len(c)
  OBVIOUS
<1> HIDE DEF n, b, Byte
<1>5. PICK f : /\ Places(c, b) = f[n] /\ f[0] = 0
               /\ \A k \in 0 .. n : f[k] \in Nat /\ f[k] <= f[n]
               /\ \A k \in 1 .. n : f[k] = b * f[k - 1] + c[k]
  BY <1>1, <1>2, <1>3, <1>4, PlacesRise
<1>6. n \in 0 .. n
  BY <1>1
<1> QED  BY <1>5, <1>6, Zenon DEF b

LEMMA SignedByte ==
    ASSUME NEW x \in Byte
    PROVE  Signed(ShiftedIn(0, x)) = SignedChar(x)
<1>1. PICK k \in Nat \ {0, 1} : 2^IntBits = 256 * k
  BY IntValues
<1>2. (256 * k) \div 2 = 128 * k /\ 0 % (256 * k) = 0
  <2> DEFINE h == 128 * k
  <2>1. h \in Nat /\ 256 * k = 2 * h
    OBVIOUS
  <2> HIDE DEF h
  <2>2. (2 * h) \div 2 = h
    BY <2>1
  <2>3. 0 % (256 * k) = 0
    <3>1. 0 = 0 * (256 * k) + 0 /\ 256 * k \in Nat \ {0} /\ 0 \in 0 .. (256 * k) - 1
      OBVIOUS
    <3> DEFINE m == 256 * k
               z == 0
    <3>2. z \in Int /\ z = z * m + z /\ m \in Nat \ {0} /\ z \in 0 .. m - 1
      BY <3>1
    <3> HIDE DEF m, z
    <3>3. z % m = z
      BY <3>2, ModIs
    <3> QED  BY <3>3 DEF m, z
  <2> QED  BY <2>1, <2>2, <2>3 DEF h
<1>3. Wrap(0 * 256) = 0
  BY <1>1, <1>2 DEF Wrap
<1>4. x \in 0 .. 255
  BY DEF Byte
<1>5. CASE x < 128
  <2>1. ShiftedIn(0, x) = x
    BY <1>3, <1>4, <1>5 DEF ShiftedIn
  <2>2. SignedChar(x) = x /\ ~(x >= 128 * k)
    BY <1>4, <1>5 DEF SignedChar
  <2>3. Signed(x) = x
    BY <1>1, <1>2, <2>2 DEF Signed
  <2> QED  BY <2>1, <2>2, <2>3
<1>6. CASE ~(x < 128)
  <2>1. ShiftedIn(0, x) = 256 * k - 256 + x
    BY <1>1, <1>6 DEF ShiftedIn
  <2>2. SignedChar(x) = x - 256 /\ 256 * k - 256 + x >= 128 * k
    BY <1>4, <1>6 DEF SignedChar
  <2>3. Signed(256 * k - 256 + x) = 256 * k - 256 + x - 256 * k
    <3> DEFINE v == 256 * k - 256 + x
    <3>1. v >= 2^IntBits \div 2
      BY <1>1, <1>2, <2>2
    <3>0. v = 256 * k - 256 + x
      OBVIOUS
    <3> HIDE DEF v
    <3>2. Signed(v) = v - 2^IntBits
      BY <3>1, Zenon DEF Signed
    <3>3. Signed(v) = v - 256 * k
      BY <1>1, <3>2, Zenon
    <3>4. v - 256 * k = 256 * k - 256 + x - 256 * k
      BY <1>4, <3>0
    <3> QED  BY <3>0, <3>3, <3>4, ZenonT(60)
  <2> QED  BY <1>4, <2>1, <2>2, <2>3
<1> QED  BY <1>5, <1>6

LEMMA WrappedBehind ==
    ASSUME NEW p \in Nat, NEW x \in 0 .. 127
    PROVE  Wrap(Wrap(p) * 256) + x = Wrap(256 * p + x)
<1>1. PICK k \in Nat \ {0, 1} : 2^IntBits = 256 * k
  BY IntValues
<1> DEFINE m == 256 * k
           r == p % m
           t == (r * 256) % m
<1>2. m \in Nat \ {0}
  OBVIOUS
<1>3. t \in 0 .. m - 256 /\ r \in Int
  <2>1. r \in Int
    BY <1>2, ModRange
  <2> HIDE DEF r
  <2>2. (r * 256) % (256 * k) \in 0 .. 256 * k - 256
    BY <2>1, WrapRoom
  <2> QED  BY <2>1, <2>2
<1>4. PICK q \in Int : p = q * m + r
  <2>1. p \in Int
    OBVIOUS
  <2> HIDE DEF m
  <2> QED  BY <1>2, <2>1, ModRange
<1>5. PICK u \in Int : r * 256 = u * m + t
  <2>1. r * 256 \in Int
    BY <1>3
  <2> HIDE DEF m, r
  <2> QED  BY <1>2, <2>1, ModRange
<1>6. Wrap(Wrap(p) * 256) + x = t + x
  BY <1>1 DEF Wrap
<1> HIDE DEF t, r
<1>7. m = 256 * k /\ m \in Int
  OBVIOUS
<1> HIDE DEF m
<1>8. 256 * p + x = (256 * q + u) * m + (t + x)
  <2>1. q * m \in Int /\ u * m \in Int /\ t \in Int
    BY <1>3, <1>7
  <2>2. 256 * p = 256 * (q * m) + 256 * r
    BY <1>3, <1>4, <2>1
  <2>3. (256 * q + u) * m = 256 * (q * m) + u * m
    BY <1>7
  <2> DEFINE a == q * m
             d == u * m
             e == 256 * p
  <2>4. a \in Int /\ d \in Int /\ e = 256 * a + 256 * r /\ r * 256 = d + t
    BY <1>5, <2>1, <2>2
  <2>5. (256 * q + u) * m = 256 * a + d
    BY <2>3
  <2> HIDE DEF a, d, e
  <2>6. e + x = (256 * a + d) + (t + x)
    BY <1>3, <2>4
  <2> QED  BY <2>5, <2>6, Zenon DEF e
<1>9. (256 * p + x) % m = t + x
  <2> DEFINE y == 256 * p + x
             z == 256 * q + u
             w == t + x
  <2>1. y \in Int /\ z \in Int /\ w \in 0 .. m - 1 /\ y = z * m + w
    BY <1>3, <1>7, <1>8
  <2> HIDE DEF y, z, w
  <2>2. y % m = w
    BY <1>2, <2>1, ModIs
  <2> QED  BY <2>2 DEF y, w
<1>10. Wrap(256 * p + x) = t + x
  <2>1. Wrap(256 * p + x) = (256 * p + x) % m
    BY <1>1, <1>7, Zenon DEF Wrap
  <2> QED  BY <1>9, <2>1
<1> QED  BY <1>6, <1>10

LEMMA CharAdds ==
    ASSUME NEW n \in Int, NEW c \in Seq(Byte), CharHolds(n, c), NEW x \in Byte
    PROVE  CharHolds(ShiftedIn(n, x), c \o <<x>>)
<1> DEFINE d == c \o <<x>>
           m == ShiftedIn(n, x)
           l == Len(c)
<1>1. /\ d \in Seq(Byte) /\ Len(d) = l + 1 /\ l \in Nat
      /\ \A k \in 1 .. l : d[k] = c[k] /\ c[k] \in Byte
      /\ d[l + 1] = x
  <2> HIDE DEF Byte
  <2> QED  BY Behind
<1> HIDE DEF d, m
<1>2. d # <<>>
  <2>1. Len(d) # 0
    <3> HIDE DEF l
    <3> QED  BY <1>1
  <2> QED  BY <2>1
<1>3. ASSUME Len(d) = 1 PROVE Signed(m) = SignedChar(d[1])
  <2>1. l = 0
    <3>1. l + 1 = 1
      BY <1>1, <1>3, Zenon
    <3>2. l \in Nat
      BY <1>1
    <3> HIDE DEF l
    <3> QED  BY <3>1, <3>2
  <2>2. c = <<>>
    <3> HIDE DEF Byte
    <3> QED  BY <2>1, EmptySeq
  <2>3. n = 0
    BY <2>2, Zenon DEF CharHolds
  <2>4. d[1] = x
    <3>1. l + 1 = 1
      BY <2>1
    <3> QED  BY <1>1, <3>1, Zenon
  <2>5. m = ShiftedIn(0, x)
    BY <2>3, Zenon DEF m
  <2> QED  BY <2>4, <2>5, SignedByte, Zenon
<1>4. ASSUME \A k \in 1 .. Len(d) : d[k] < 128 PROVE m = Wrap(Places(d, 256))
  <2>0. l \in Nat
    BY <1>1
  <2>1. x < 128
    <3>1. l + 1 \in 1 .. Len(d)
      <4> HIDE DEF l
      <4> QED  BY <1>1
    <3> QED  BY <1>1, <1>4, <3>1, Zenon
  <2>2. \A k \in 1 .. Len(c) : c[k] < 128
    <3>1. \A k \in 1 .. l : k \in 1 .. Len(d)
      <4> HIDE DEF l
      <4> QED  BY <1>1
    <3> QED  BY <1>1, <1>4, <3>1, Zenon
  <2>3. n = Wrap(Places(c, 256))
    BY <2>2, Zenon DEF CharHolds
  <2>4. Places(d, 256) = 256 * Places(c, 256) + x
    <3> DEFINE b == 256
    <3>1. OneMore(c, d, l)
      BY <1>1, Zenon DEF OneMore
    <3> HIDE DEF b, l
    <3>2. Places(d, b) = b * Places(c, b) + d[l + 1]
      BY <2>0, <3>1, PlacesLonger
    <3> QED  BY <1>1, <3>2, Zenon DEF b
  <2> DEFINE p == Places(c, 256)
  <2>5. p \in Nat
    BY PlacesBytes
  <2> HIDE DEF p
  <2>6. x \in 0 .. 127
    BY <2>1 DEF Byte
  <2>7. Wrap(Wrap(p) * 256) + x = Wrap(256 * p + x)
    BY <2>5, <2>6, WrappedBehind, ZenonT(60)
  <2>8. m = Wrap(n * 256) + x
    BY <2>1, Zenon DEF m, ShiftedIn
  <2> QED  BY <2>3, <2>4, <2>7, <2>8, Zenon DEF p
<1>5. CharHolds(m, d)
  BY <1>2, <1>3, <1>4, Zenon DEF CharHolds
<1> QED  BY <1>5 DEF m, d

\* A literal holds the characters it has been given.
Holds(l, c) ==
    /\ l.state = "char" => CharHolds(l.int, c)
    /\ l.state # "char" => l.str = c

LEMMA AppendToHolds ==
    ASSUME NEW state, NEW l, Building(l, state), NEW c \in Seq(Byte), Holds(l, c), NEW ch \in Byte
    PROVE  /\ Building(AppendTo(l, ch), state) /\ Holds(AppendTo(l, ch), c \o <<ch>>)
           /\ state = "char" => AppendTo(l, ch).str = l.str
<1>0. ch \in 0 .. 255
  BY DEF Byte
<1>1. Building(AppendTo(l, ch), state)
  BY <1>0, AppendToBuilds
<1>2. l.state = state /\ l \in Literal
  BY Zenon DEF Building
<1>3. CASE l.state = "char"
  <2> DEFINE i == ShiftedIn(l.int, ch)
  <2>1. AppendTo(l, ch) = [l EXCEPT !.int = i]
    BY <1>3, Zenon DEF AppendTo
  <2>2. l.int \in Int
    <3>1. PICK k \in Nat \ {0, 1} : 2^IntBits = 256 * k
      BY IntValues
    <3>2. l.int \in 0 .. 2^IntBits - 1
      BY <1>2 DEF Literal
    <3> QED  BY <3>1, <3>2
  <2>3. CharHolds(l.int, c)
    BY <1>3, Zenon DEF Holds
  <2>4. CharHolds(i, c \o <<ch>>)
    <3> DEFINE n == l.int
    <3>1. n \in Int /\ CharHolds(n, c)
      BY <2>2, <2>3
    <3> HIDE DEF n, Byte
    <3>2. CharHolds(ShiftedIn(n, ch), c \o <<ch>>)
      BY <3>1, CharAdds
    <3> QED  BY <3>2 DEF n
  <2> HIDE DEF i
  <2>5. [l EXCEPT !.int = i].int = i /\ [l EXCEPT !.int = i].str = l.str /\ [l EXCEPT !.int = i].state = l.state
    BY <1>2 DEF Literal
  <2>6. AppendTo(l, ch).int = i /\ AppendTo(l, ch).str = l.str /\ AppendTo(l, ch).state = "char"
    BY <1>3, <2>1, <2>5, Zenon
  <2> QED  BY <1>1, <2>4, <2>6, Zenon DEF Holds
<1>4. CASE l.state # "char"
  <2> DEFINE s == Append(l.str, ch)
             d == WithRoom(Len(l.str) + 1, l.cap)
  <2>1. AppendTo(l, ch) = [l EXCEPT !.str = s, !.cap = d]
    BY <1>4, Zenon DEF AppendTo
  <2>2. l.str = c
    BY <1>4, Zenon DEF Holds
  <2>3. s = c \o <<ch>>
    <3>1. Append(c, ch) = c \o <<ch>>
      <4> HIDE DEF Byte
      <4> QED  BY Behind
    <3> QED  BY <2>2, <3>1, Zenon
  <2> HIDE DEF s, d
  <2>4. [l EXCEPT !.str = s, !.cap = d].str = s /\ [l EXCEPT !.str = s, !.cap = d].state = l.state
    BY <1>2 DEF Literal
  <2>5. AppendTo(l, ch).str = s /\ AppendTo(l, ch).state = l.state
    BY <2>1, <2>4, Zenon
  <2> QED  BY <1>1, <1>2, <1>4, <2>3, <2>5, Zenon DEF Holds
<1> QED  BY <1>3, <1>4

LEMMA AppendAllHolds ==
    ASSUME NEW state, NEW l, Building(l, state), NEW c \in Seq(Byte), Holds(l, c), NEW chars \in Seq(Byte)
    PROVE  /\ Holds(AppendAll(l, chars), c \o chars)
           /\ state = "char" => AppendAll(l, chars).str = l.str
<1> DEFINE n == Len(chars)
           done(k) == c \o SubSeq(chars, 1, k)
<1>1. n \in Nat /\ \A k \in 1 .. n : chars[k] \in Byte
  <2> HIDE DEF Byte
  <2> QED  BY LenProperties, ElementOfSeq
<1>2. PICK f : AfterUpTo(f, l, chars, n) /\ AppendAll(l, chars) = f[n]
  BY <1>1, AppendAllIs
<1>3. \A k \in 0 .. n : f[k] = IF k = 0 THEN l ELSE AppendTo(f[k - 1], chars[k])
  BY <1>2, Zenon DEF AfterUpTo
<1> DEFINE So(k) == Building(f[k], state) /\ Holds(f[k], done(k)) /\ (state = "char" => f[k].str = l.str)
           G == {k \in Nat : k <= n => So(k)}
<1>4. SubSeq(chars, 1, 0) = <<>> /\ SubSeq(chars, 1, n) = chars
  <2>1. SubSeq(chars, 1, Len(chars)) = chars
    <3> HIDE DEF Byte
    <3> QED  BY SubSeqFull
  <2> QED  BY <2>1
<1>5. 0 \in G
  <2>1. f[0] = l
    BY <1>1, <1>3
  <2>2. c \o <<>> = c
    <3> HIDE DEF Byte
    <3> QED  BY ConcatEmptySeq
  <2>3. done(0) = c
    BY <1>4, <2>2, Zenon
  <2>4. So(0)
    BY <2>1, <2>3, Zenon
  <2> QED  BY <2>4
<1>6. ASSUME NEW k \in Nat, k < n, k \in G PROVE k + 1 \in G
  <2> DEFINE j == k + 1
             s == SubSeq(chars, 1, k)
             ch == chars[j]
  <2>1. /\ j \in 1 .. n /\ j \in 0 .. n /\ j # 0 /\ j - 1 = k /\ j \in Nat /\ k <= n
    BY <1>1, <1>6
  <2>2. So(k)
    BY <1>6, <2>1
  <2>3. ch \in Byte /\ s \in Seq(Byte)
    <3>1. ch \in Byte
      BY <1>1, <2>1, Zenon
    <3> DEFINE o == 1
    <3>2. o \in Int /\ k \in Int /\ \A x \in o .. k : chars[x] \in Byte
      BY <1>1, <1>6
    <3> HIDE DEF Byte, o
    <3>3. SubSeq(chars, o, k) \in Seq(Byte)
      BY <3>2, SubSeqProperties
    <3> QED  BY <3>1, <3>3 DEF o
  <2>4. SubSeq(chars, 1, j) = s \o <<ch>>
    <3> DEFINE o == 1
    <3>1. o \in 1 .. Len(chars) /\ j \in o .. Len(chars)
      BY <1>1, <2>1
    <3> HIDE DEF Byte, o, j
    <3>2. SubSeq(chars, o, j) = SubSeq(chars, o, j - 1) \o <<chars[j]>>
      BY <3>1, SubSeqRecursiveSecond
    <3> QED  BY <2>1, <3>2, Zenon DEF o
  <2>5. f[j] = AppendTo(f[k], ch)
    <3> HIDE DEF j
    <3> QED  BY <1>3, <2>1, Zenon
  <2> HIDE DEF j, G, s, ch
  <2> DEFINE d == done(k)
  <2>6. d = c \o s
    BY Zenon DEF s
  <2>7. d \in Seq(Byte)
    <3> HIDE DEF Byte, d
    <3> QED  BY <2>3, <2>6, ConcatProperties
  <2>8. done(j) = d \o <<ch>>
    <3>1. done(j) = c \o (s \o <<ch>>)
      BY <2>4, Zenon
    <3> DEFINE z == <<ch>>
    <3>2. z \in Seq(Byte)
      <4> HIDE DEF Byte
      <4> QED  BY <2>3
    <3> HIDE DEF z, Byte
    <3>3. (c \o s) \o z = c \o (s \o z)
      BY <2>3, <3>2, ConcatAssociative, SMTT(30)
    <3> QED  BY <2>6, <3>1, <3>3, Zenon DEF z
  <2>9. Building(f[k], state) /\ Holds(f[k], d)
    BY <2>2
  <2>10. /\ Building(AppendTo(f[k], ch), state) /\ Holds(AppendTo(f[k], ch), d \o <<ch>>)
         /\ state = "char" => AppendTo(f[k], ch).str = f[k].str
    <3> HIDE DEF d, Byte
    <3> QED  BY <2>3, <2>7, <2>9, AppendToHolds
  <2>11. So(j)
    BY <2>2, <2>5, <2>8, <2>10, Zenon
  <2> HIDE DEF So
  <2> QED  BY <2>1, <2>11 DEF G, j
<1>7. \A k : k \in G => (k <= n => So(k))
  OBVIOUS
<1> HIDE DEF G, So
<1>8. So(n)
  <2>1. n \in 0 .. n /\ n <= n
    BY <1>1
  <2> HIDE DEF n
  <2>2. n \in G
    BY <1>1, <1>5, <1>6, <2>1, UpTo
  <2> QED  BY <1>7, <2>1, <2>2
<1> QED  BY <1>2, <1>4, <1>8, Zenon DEF So

(***************************************************************************)
(* The bodies a literal may turn out to have.                              *)
(***************************************************************************)
\* What of b flex has read is in the text, and b does not go on behind what
\* the source has.
Follows(b) ==
    /\ b \in Seq(Bytes)
    /\ \A j \in 1 .. Len(b) : opened + j <= Len(text) => b[j] = text[opened + j]
    /\ fpos = Len(source) => opened + Len(b) <= Len(text)
\* The next n characters are of the body b.
Within(b, n) ==
    /\ Follows(b) /\ n \in Nat /\ at \in Nat /\ Len(text) \in Nat /\ opened \in 0 .. at
    /\ at + n <= Len(text) /\ at + n <= opened + Len(b)
Position_ == at - opened + 1
\* b goes on at i like the text at j.
Same(b, i, j, n) == \A d \in 0 .. n - 1 : b[i + d] = text[j + d]

LEMMA WithinIs ==
    ASSUME NEW b, NEW n, Within(b, n)
    PROVE  /\ b \in Seq(Bytes) /\ Len(b) \in Nat /\ Position_ \in 1 .. Len(b) + 1 /\ Position_ + n <= Len(b) + 1
           /\ Same(b, Position_, at + 1, n)
           /\ \A set : Stops(at + n, set) => Position_ + n = Len(b) + 1 \/ b[Position_ + n] \notin set
<1> DEFINE l == Len(b)
           k == Len(text)
           i == Position_
<1>1. b \in Seq(Bytes) /\ l \in Nat
  <2>1. b \in Seq(Bytes)
    BY Zenon DEF Within, Follows
  <2> HIDE DEF Bytes
  <2> QED  BY <2>1, LenProperties
<1>2. n \in Nat /\ at \in Nat /\ k \in Nat /\ opened \in 0 .. at /\ at + n <= k /\ at + n <= opened + l
  BY Zenon DEF Within
<1>3. \A j \in 1 .. l : opened + j <= k => b[j] = text[opened + j]
  BY Zenon DEF Within, Follows
<1>4. fpos = Len(source) => opened + l <= k
  BY Zenon DEF Within, Follows
<1>5. i = at - opened + 1
  BY Zenon DEF Position_
<1> HIDE DEF l, k, i
<1>6. i \in 1 .. l + 1 /\ i + n <= l + 1
  BY <1>1, <1>2, <1>5
<1>7. ASSUME NEW d \in 0 .. n - 1 PROVE b[i + d] = text[(at + 1) + d]
  <2>1. i + d \in 1 .. l /\ opened + (i + d) <= k /\ opened + (i + d) = (at + 1) + d
    BY <1>1, <1>2, <1>5
  <2> QED  BY <1>3, <2>1, Zenon
<1>8. ASSUME NEW set, Stops(at + n, set), i + n # l + 1 PROVE b[i + n] \notin set
  <2>1. CASE at + n = k
    <3>1. fpos = Len(source)
      BY <1>8, <2>1, Zenon DEF Stops, k
    <3> QED  BY <1>1, <1>2, <1>4, <1>5, <1>6, <1>8, <2>1, <3>1
  <2>2. CASE at + n # k
    <3>1. text[(at + n) + 1] \notin set
      BY <1>8, <2>2, Zenon DEF Stops, k
    <3>2. i + n \in 1 .. l /\ opened + (i + n) <= k /\ opened + (i + n) = (at + n) + 1
      BY <1>1, <1>2, <1>5, <1>6, <1>8, <2>2
    <3>3. b[i + n] = text[(at + n) + 1]
      BY <1>3, <3>2, Zenon
    <3> QED  BY <3>1, <3>3, Zenon
  <2> QED  BY <2>1, <2>2
<1> QED  BY <1>1, <1>6, <1>7, <1>8, Zenon DEF l, i, Same

\* A text that is a part of the body.
LEMMA PartSame ==
    ASSUME NEW b \in Seq(Bytes), NEW i \in Nat \ {0}, NEW n \in Nat, i + n <= Len(b) + 1, NEW t \in Seq(Bytes),
           Len(t) = n, \A k \in 1 .. n : t[k] = b[i + k - 1]
    PROVE  t = SubSeq(b, i, i + n - 1)
<1> DEFINE s == SubSeq(b, i, i + n - 1)
<1> HIDE DEF Bytes
<1>1. s \in Seq(Bytes) /\ Len(s) = n /\ \A k \in 1 .. n : s[k] = b[i + k - 1]
  BY PartIs
<1> HIDE DEF s
<1>2. \A k \in 1 .. Len(s) : s[k] = t[k]
  BY <1>1
<1>3. s = t
  BY <1>1, <1>2, SeqEqual
<1> QED  BY <1>3 DEF s

LEMMA OctalLies ==
    ASSUME NEW b, NEW n \in 2 .. 4, Within(b, n), text[at + 1] = BS,
           \A j \in at + 2 .. at + n : text[j] \in OctalDigits, n # 4 => Stops(at + n, OctalDigits)
    PROVE  OctalAt(b, Position_, n - 1)
<1> DEFINE i == Position_
           l == Len(b)
<1>1. /\ l \in Nat /\ i \in 1 .. l + 1 /\ i + n <= l + 1 /\ Same(b, i, at + 1, n)
      /\ Stops(at + n, OctalDigits) => i + n = l + 1 \/ b[i + n] \notin OctalDigits
  BY WithinIs
<1>2. at \in Nat
  BY Zenon DEF Within
<1> HIDE DEF i, l
<1>3. \A d \in 0 .. n - 1 : b[i + d] = text[(at + 1) + d]
  BY <1>1, Zenon DEF Same
<1>4. b[i] = BS
  <2>1. 0 \in 0 .. n - 1 /\ i + 0 = i /\ (at + 1) + 0 = at + 1
    BY <1>1, <1>2
  <2> QED  BY <1>3, <2>1
<1>5. ASSUME NEW j \in i + 1 .. i + (n - 1) PROVE b[j] \in OctalDigits
  <2> DEFINE d == j - i
  <2>1. d \in 0 .. n - 1 /\ i + d = j /\ (at + 1) + d \in at + 2 .. at + n
    BY <1>1, <1>2
  <2> HIDE DEF d
  <2> QED  BY <1>3, <2>1, Zenon
<1>6. n - 1 \in 1 .. 3 /\ i + (n - 1) <= l /\ i + (n - 1) + 1 = i + n
  BY <1>1
<1>7. n - 1 = 3 \/ i + (n - 1) = l \/ b[i + (n - 1) + 1] \notin OctalDigits
  <2>1. CASE n = 4
    BY <2>1
  <2>2. CASE n # 4 /\ i + n = l + 1
    BY <1>1, <2>2
  <2>3. CASE n # 4 /\ i + n # l + 1
    <3>1. b[i + n] \notin OctalDigits
      BY <1>1, <2>3, Zenon
    <3> QED  BY <1>6, <3>1, Zenon
  <2> QED  BY <2>1, <2>2, <2>3
<1> QED  BY <1>4, <1>5, <1>6, <1>7, Zenon DEF OctalAt, i, l

LEMMA HexLies ==
    ASSUME NEW b, NEW n \in 3 .. 4, Within(b, n), text[at + 1] = BS, text[at + 2] = 120,
           \A j \in at + 3 .. at + n : text[j] \in HexDigits, n # 4 => Stops(at + n, HexDigits)
    PROVE  HexAt(b, Position_, n - 2)
<1> DEFINE i == Position_
           l == Len(b)
<1>1. /\ l \in Nat /\ i \in 1 .. l + 1 /\ i + n <= l + 1 /\ Same(b, i, at + 1, n)
      /\ Stops(at + n, HexDigits) => i + n = l + 1 \/ b[i + n] \notin HexDigits
  BY WithinIs
<1>2. at \in Nat
  BY Zenon DEF Within
<1> HIDE DEF i, l
<1>3. \A d \in 0 .. n - 1 : b[i + d] = text[(at + 1) + d]
  BY <1>1, Zenon DEF Same
<1>4. b[i] = BS /\ b[i + 1] = 120
  <2>1. 0 \in 0 .. n - 1 /\ i + 0 = i /\ (at + 1) + 0 = at + 1 /\ 1 \in 0 .. n - 1 /\ (at + 1) + 1 = at + 2
    BY <1>1, <1>2
  <2> QED  BY <1>3, <2>1
<1>5. ASSUME NEW j \in i + 2 .. i + 1 + (n - 2) PROVE b[j] \in HexDigits
  <2> DEFINE d == j - i
  <2>1. d \in 0 .. n - 1 /\ i + d = j /\ (at + 1) + d \in at + 3 .. at + n
    BY <1>1, <1>2
  <2> HIDE DEF d
  <2> QED  BY <1>3, <2>1, ZenonT(60)
<1>6. n - 2 \in 1 .. 2 /\ i + 1 + (n - 2) <= l /\ i + 2 + (n - 2) = i + n
  BY <1>1
<1>7. n - 2 = 2 \/ i + 1 + (n - 2) = l \/ b[i + 2 + (n - 2)] \notin HexDigits
  <2>1. CASE n = 4
    BY <2>1
  <2>2. CASE n # 4 /\ i + n = l + 1
    BY <1>1, <2>2
  <2>3. CASE n # 4 /\ i + n # l + 1
    <3>1. b[i + n] \notin HexDigits
      BY <1>1, <2>3, Zenon
    <3> QED  BY <1>6, <3>1, Zenon
  <2> QED  BY <2>1, <2>2, <2>3
<1> QED  BY <1>4, <1>5, <1>6, <1>7, Zenon DEF HexAt, i, l

LEMMA WrongLies ==
    ASSUME NEW b, Within(b, 1), text[at + 1] = NL \/ NoEscape(at + 1), source \in Seq(Bytes)
    PROVE  Read(b)[Position_] = <<BadEscape>>
<1> DEFINE i == Position_
           l == Len(b)
           simple == DOMAIN SimpleEscapes
           none == simple \cup OctalDigits
<1>1. /\ b \in Seq(Bytes) /\ l \in Nat /\ i \in 1 .. l + 1 /\ i + 1 <= l + 1 /\ Same(b, i, at + 1, 1)
      /\ \A set : Stops(at + 1, set) => i + 1 = l + 1 \/ b[i + 1] \notin set
  BY WithinIs
<1>2. at \in Nat /\ opened \in 0 .. at /\ i = at - opened + 1 /\ Len(text) \in Nat /\ at + 1 <= Len(text) /\ Follows(b)
  BY Zenon DEF Within, Position_
<1> HIDE DEF i, l
<1>3. b[i] = text[at + 1]
  <2>1. 0 \in 0 .. 1 - 1 /\ i + 0 = i /\ (at + 1) + 0 = at + 1
    BY <1>1, <1>2
  <2>2. b[i + 0] = text[(at + 1) + 0]
    BY <1>1, <2>1, Zenon DEF Same
  <2> QED  BY <2>1, <2>2, Zenon
<1>4. i \in 1 .. l
  BY <1>1
<1>5. CASE text[at + 1] = NL
  <2>1. b[i] = NL
    BY <1>3, <1>5
  <2> HIDE DEF Bytes
  <2> QED  BY <1>1, <1>4, <2>1, WrongMeans, Zenon DEF l, i
<1>6. CASE NoEscape(at + 1)
  <2>1. b[i] = BS /\ Stops(at + 1, none)
    BY <1>3, <1>6, Zenon DEF NoEscape
  <2>2. CASE i = l
    BY <1>1, <1>4, <2>1, <2>2, WrongMeans, Zenon DEF l, i
  <2>3. CASE i # l
    <3> HIDE DEF none
    <3>1. b[i + 1] \notin none
      <4>1. i + 1 # l + 1
        BY <1>1, <2>3
      <4> QED  BY <1>1, <2>1, <4>1, Zenon
    <3>2. b[i + 1] \notin simple /\ b[i + 1] \notin OctalDigits
      BY <3>1 DEF none
    <3> HIDE DEF simple
    <3>3. ASSUME b[i + 1] = 120 PROVE i + 1 = l \/ b[i + 2] \notin HexDigits
      <4>1. at + 1 # Len(text)
        <5>1. SUFFICES ASSUME at + 1 = Len(text) PROVE FALSE
          OBVIOUS
        <5>2. fpos = Len(source)
          BY <2>1, <5>1, Zenon DEF Stops
        <5>3. opened + l <= Len(text)
          BY <1>2, <5>2, Zenon DEF Follows, l
        <5> QED  BY <1>1, <1>2, <1>4, <2>3, <5>1, <5>3
      <4>2. at + 1 < Len(text) /\ at + 2 <= Len(text) /\ at + 2 <= opened + l /\ 2 \in Nat
        BY <1>1, <1>2, <1>4, <2>3, <4>1
      <4>3. Within(b, 2)
        BY <1>2, <4>2, Zenon DEF Within, l
      <4>4. /\ Same(b, i, at + 1, 2)
            /\ \A set : Stops(at + 2, set) => i + 2 = l + 1 \/ b[i + 2] \notin set
        BY <4>3, WithinIs, Zenon DEF i, l
      <4>5. text[at + 2] = 120
        <5>1. 1 \in 0 .. 2 - 1 /\ (at + 1) + 1 = at + 2
          BY <1>2
        <5>2. b[i + 1] = text[(at + 1) + 1]
          BY <4>4, <5>1, Zenon DEF Same
        <5> QED  BY <3>3, <5>1, <5>2, Zenon
      <4>6. Stops(at + 2, HexDigits)
        <5>1. (at + 1) + 1 = at + 2
          BY <1>2
        <5> QED  BY <1>6, <4>2, <4>5, <5>1, Zenon DEF NoEscape
      <4>7. i + 2 = l + 1 \/ b[i + 2] \notin HexDigits
        BY <4>4, <4>6, Zenon
      <4> QED  BY <1>1, <4>7
    <3> QED  BY <1>1, <1>4, <2>1, <3>2, <3>3, WrongMeans, Zenon DEF l, i, simple
  <2> QED  BY <2>2, <2>3
<1> QED  BY <1>5, <1>6

(***************************************************************************)
(* Reading a body from its beginning: c, and then what follows from i.     *)
(***************************************************************************)
Wrong(b) == BadEscape \in ToSet(InC(b))
Reads(b, c, i) == InC(b) = c \o Read(b)[i] \/ Wrong(b)

LEMMA BadBehind ==
    ASSUME NEW c \in Seq(Byte)
    PROVE  BadEscape \in ToSet(c \o <<BadEscape>>)
<1> DEFINE x == <<BadEscape>>
           l == Len(c)
<1>1. c \in Seq(Int) /\ x \in Seq(Int) /\ Len(x) = 1 /\ x[1] = BadEscape
  BY ByteInts DEF BadEscape
<1>2. l \in Nat
  <2> HIDE DEF Byte
  <2> QED  BY LenProperties
<1> HIDE DEF x, l
<1>3. Len(c \o x) = l + 1 /\ \A k \in 1 .. l + 1 : (c \o x)[k] = IF k <= l THEN c[k] ELSE x[k - l]
  <2>1. Len(c \o x) = Len(c) + Len(x) /\ \A k \in 1 .. Len(c) + Len(x) : (c \o x)[k] = IF k <= Len(c) THEN c[k] ELSE x[k - Len(c)]
    BY <1>1, ConcatProperties
  <2> QED  BY <1>1, <2>1, Zenon DEF l
<1>4. l + 1 \in 1 .. l + 1 /\ ~(l + 1 <= l) /\ (l + 1) - l = 1
  BY <1>2
<1>5. (c \o x)[l + 1] = BadEscape
  BY <1>1, <1>3, <1>4, Zenon
<1>6. l + 1 \in DOMAIN (c \o x)
  <2>1. c \o x \in Seq(Int)
    BY <1>1, IntSeqs, Zenon
  <2>2. DOMAIN (c \o x) = 1 .. Len(c \o x)
    BY <2>1, LenProperties
  <2> QED  BY <1>3, <1>4, <2>2, Zenon
<1>7. \E k \in DOMAIN (c \o x) : (c \o x)[k] = BadEscape
  BY <1>5, <1>6, Zenon
<1> HIDE DEF BadEscape
<1> QED  BY <1>7, Zenon DEF ToSet, x

LEMMA ReadsWrong ==
    ASSUME NEW b, NEW c \in Seq(Byte), NEW i, Reads(b, c, i), Read(b)[i] = <<BadEscape>>
    PROVE  Wrong(b)
<1>1. CASE InC(b) = c \o Read(b)[i]
  <2>1. BadEscape \in ToSet(c \o <<BadEscape>>)
    <3> HIDE DEF Byte
    <3> QED  BY BadBehind
  <2> QED  BY <1>1, <2>1, Zenon DEF Wrong
<1> QED  BY <1>1, Zenon DEF Reads

LEMMA ReadsOn ==
    ASSUME NEW b \in Seq(Bytes), NEW c \in Seq(Byte), NEW i \in Nat, NEW n \in Nat, i + n \in 1 .. Len(b) + 1,
           Reads(b, c, i), NEW chars \in Seq(Byte), Goes(b, i, n, chars)
    PROVE  Reads(b, c \o chars, i + n)
<1>1. CASE Read(b)[i] = <<BadEscape>>
  BY <1>1, ReadsWrong, Zenon DEF Reads
<1>2. CASE Wrong(b)
  BY <1>2, Zenon DEF Reads
<1>3. CASE InC(b) = c \o Read(b)[i] /\ Read(b)[i] = chars \o Read(b)[i + n]
  <2> DEFINE r == Read(b)[i + n]
  <2>1. r \in Seq(Int)
    <3> DEFINE j == i + n
    <3>1. j \in 1 .. Len(b) + 1
      OBVIOUS
    <3> HIDE DEF j, Bytes
    <3>2. Read(b)[j] \in Seq(Int)
      BY <3>1, ReadType
    <3> QED  BY <3>2 DEF j
  <2>2. c \in Seq(Int) /\ chars \in Seq(Int)
    BY ByteInts, Zenon
  <2> HIDE DEF r
  <2>3. (c \o chars) \o r = c \o (chars \o r)
    BY <2>1, <2>2, IntAssoc
  <2> QED  BY <1>3, <2>3, Zenon DEF Reads, r
<1> QED  BY <1>1, <1>2, <1>3, Zenon DEF Reads, Goes

LEMMA ReadsAll ==
    ASSUME NEW b \in Seq(Bytes), NEW c \in Seq(Byte), Reads(b, c, Len(b) + 1), ~Wrong(b)
    PROVE  InC(b) = c
<1>1. InC(b) = c \o Read(b)[Len(b) + 1]
  BY Zenon DEF Reads
<1>2. Len(b) \in Nat
  <2> HIDE DEF Bytes
  <2> QED  BY LenProperties
<1>3. Read(b)[Len(b) + 1] = <<>>
  <2> DEFINE l == Len(b)
             j == l + 1
  <2>1. j \in 1 .. l + 1 /\ j > l
    BY <1>2
  <2>2. Read(b)[j] = CRead(b, j, Read(b))
    <3> HIDE DEF j, Bytes
    <3> QED  BY <2>1, ReadIs
  <2>3. CRead(b, j, Read(b)) = <<>>
    <3> HIDE DEF j
    <3> QED  BY <2>1 DEF CRead
  <2> QED  BY <2>2, <2>3
<1>4. c \o <<>> = c
  <2> HIDE DEF Byte
  <2> QED  BY ConcatEmptySeq
<1> QED  BY <1>1, <1>3, <1>4, Zenon

LEMMA ReadsFirst ==
    ASSUME NEW b \in Seq(Bytes), NEW c, c = <<>>
    PROVE  Reads(b, c, 1)
<1>1. Len(b) \in Nat
  <2> HIDE DEF Bytes
  <2> QED  BY LenProperties
<1>2. Read(b)[1] \in Seq(Int)
  <2> DEFINE i == 1
  <2>1. i \in 1 .. Len(b) + 1
    BY <1>1
  <2> HIDE DEF i, Bytes
  <2>2. Read(b)[i] \in Seq(Int)
    BY <2>1, ReadType
  <2> QED  BY <2>2 DEF i
<1>3. <<>> \o Read(b)[1] = Read(b)[1]
  BY <1>2, ConcatEmptySeq
<1> QED  BY <1>3, InCReads, Zenon DEF Reads

(***************************************************************************)
(* The literal being scanned.                                              *)
(***************************************************************************)
\* The literal holds c, and c is what C reads in every body up to here.
BodyHolds(c) ==
    /\ Holds(lex, c)
    /\ \A b : Follows(b) /\ at <= opened + Len(b) => Reads(b, c, Position_)
BodyInv == opened # 0 => \E c \in Seq(Byte) : BodyHolds(c)
\* What flex has read and shown does not add bodies.
Narrows ==
    /\ TextKept /\ source' = source /\ opened' = opened
    /\ fpos = Len(source) => text' = text /\ fpos' = Len(source)

LEMMA FollowsBack ==
    ASSUME Narrows, Len(text) \in Nat, Len(text') \in Nat, opened \in Nat, NEW b, Follows(b)'
    PROVE  Follows(b)
<1>1. /\ b \in Seq(Bytes)
      /\ \A j \in 1 .. Len(b) : opened' + j <= Len(text') => b[j] = text'[opened' + j]
      /\ fpos' = Len(source') => opened' + Len(b) <= Len(text')
  BY Zenon DEF Follows
<1>2. Len(b) \in Nat
  <2> HIDE DEF Bytes
  <2> QED  BY <1>1, LenProperties
<1>3. /\ Len(text) <= Len(text') /\ \A j \in 1 .. Len(text) : text'[j] = text[j]
      /\ source' = source /\ opened' = opened
      /\ fpos = Len(source) => text' = text /\ fpos' = Len(source)
  BY Zenon DEF Narrows, TextKept
<1>4. ASSUME NEW j \in 1 .. Len(b), opened + j <= Len(text) PROVE b[j] = text[opened + j]
  <2>1. opened + j \in 1 .. Len(text) /\ opened + j <= Len(text')
    BY <1>3, <1>4
  <2> QED  BY <1>1, <1>3, <1>4, <2>1, Zenon
<1>5. ASSUME fpos = Len(source) PROVE opened + Len(b) <= Len(text)
  BY <1>1, <1>3, <1>5, Zenon
<1> QED  BY <1>1, <1>4, <1>5, Zenon DEF Follows

\* One more part of the literal.
LEMMA BodyFurther ==
    ASSUME Narrows, BodyInv, opened # 0, opened \in 0 .. at, at \in Nat, Len(text) \in Nat, Len(text') \in Nat,
           NEW n \in Nat, at' = at + n, at + n <= Len(text), NEW chars \in Seq(Byte),
           \A c \in Seq(Byte) : Holds(lex, c) => Holds(lex', c \o chars),
           \A b : Within(b, n) => Goes(b, Position_, n, chars)
    PROVE  BodyInv'
<1>1. opened \in Nat /\ opened' = opened
  BY DEF Narrows
<1>2. PICK c \in Seq(Byte) : BodyHolds(c)
  BY Zenon DEF BodyInv
<1> DEFINE d == c \o chars
<1>3. d \in Seq(Byte)
  <2> HIDE DEF Byte
  <2> QED  BY ConcatProperties
<1>4. Holds(lex', d)
  BY <1>2, Zenon DEF BodyHolds
<1>5. ASSUME NEW b, Follows(b)', at' <= opened' + Len(b) PROVE Reads(b, d, Position_')
  <2>1. Follows(b)
    BY <1>1, <1>5, FollowsBack
  <2>2. b \in Seq(Bytes) /\ Len(b) \in Nat
    <3>1. b \in Seq(Bytes)
      BY <2>1, Zenon DEF Follows
    <3> HIDE DEF Bytes
    <3> QED  BY <3>1, LenProperties
  <2>3. at + n <= opened + Len(b) /\ at <= opened + Len(b)
    <3>1. at + n <= opened + Len(b)
      BY <1>1, <1>5, Zenon
    <3> QED  BY <1>1, <2>2, <3>1
  <2>4. Within(b, n)
    BY <2>1, <2>3, Zenon DEF Within
  <2>5. Goes(b, Position_, n, chars)
    BY <2>4, Zenon
  <2>6. Position_ \in 1 .. Len(b) + 1 /\ Position_ + n <= Len(b) + 1
    BY <2>4, WithinIs, Zenon
  <2>7. Reads(b, c, Position_)
    BY <1>2, <2>1, <2>3, Zenon DEF BodyHolds
  <2> DEFINE i == Position_
  <2>8. i \in Nat /\ i + n \in 1 .. Len(b) + 1
    <3> HIDE DEF i
    <3>1. i \in 1 .. Len(b) + 1 /\ i + n <= Len(b) + 1
      BY <2>6 DEF i
    <3> QED  BY <2>2, <3>1
  <2> HIDE DEF i, d
  <2>9. Reads(b, c \o chars, i + n)
    <3>1. Reads(b, c, i) /\ Goes(b, i, n, chars)
      BY <2>5, <2>7, Zenon DEF i
    <3> HIDE DEF Bytes, Byte
    <3> QED  BY <2>2, <2>8, <3>1, ReadsOn
  <2>10. Position_' = i + n
    <3>1. Position_' = at' - opened' + 1 /\ i = at - opened + 1
      BY Zenon DEF Position_, i
    <3> QED  BY <1>1, <3>1
  <2> QED  BY <2>9, <2>10, Zenon DEF d
<1>6. BodyHolds(d)'
  BY <1>4, <1>5, Zenon DEF BodyHolds
<1> HIDE DEF d
<1>7. \E z \in Seq(Byte) : BodyHolds(z)'
  BY <1>3, <1>6, Zenon
<1> QED  BY <1>7, Zenon DEF BodyInv

\* A part that C does not allow.
LEMMA BodyWrong ==
    ASSUME Narrows, BodyInv, opened # 0, opened \in 0 .. at, at \in Nat, Len(text) \in Nat, Len(text') \in Nat,
           lex' = lex, at' = at + 1, at + 1 <= Len(text), \A b : Within(b, 1) => Read(b)[Position_] = <<BadEscape>>
    PROVE  BodyInv'
<1>1. opened \in Nat /\ opened' = opened
  BY DEF Narrows
<1>2. PICK c \in Seq(Byte) : BodyHolds(c)
  BY Zenon DEF BodyInv
<1>4. Holds(lex', c)
  BY <1>2, Zenon DEF BodyHolds
<1>5. ASSUME NEW b, Follows(b)', at' <= opened' + Len(b) PROVE Reads(b, c, Position_')
  <2>1. Follows(b)
    BY <1>1, <1>5, FollowsBack
  <2>2. b \in Seq(Bytes) /\ Len(b) \in Nat
    <3>1. b \in Seq(Bytes)
      BY <2>1, Zenon DEF Follows
    <3> HIDE DEF Bytes
    <3> QED  BY <3>1, LenProperties
  <2>3. at + 1 <= opened + Len(b) /\ at <= opened + Len(b) /\ 1 \in Nat
    <3>1. at + 1 <= opened + Len(b)
      BY <1>1, <1>5, Zenon
    <3> QED  BY <1>1, <2>2, <3>1
  <2>4. Within(b, 1)
    BY <2>1, <2>3, Zenon DEF Within
  <2>7. Reads(b, c, Position_)
    BY <1>2, <2>1, <2>3, Zenon DEF BodyHolds
  <2>8. Wrong(b)
    <3> DEFINE i == Position_
    <3>1. Reads(b, c, i) /\ Read(b)[i] = <<BadEscape>>
      BY <2>4, <2>7, Zenon
    <3> HIDE DEF i, Byte
    <3> QED  BY <3>1, ReadsWrong
  <2> QED  BY <2>8, Zenon DEF Reads
<1>6. BodyHolds(c)'
  BY <1>4, <1>5, Zenon DEF BodyHolds
<1>7. \E z \in Seq(Byte) : BodyHolds(z)'
  BY <1>6, Zenon
<1> QED  BY <1>7, Zenon DEF BodyInv

\* A step that leaves the literal alone.
LEMMA BodyKept ==
    ASSUME Narrows, BodyInv, opened \in Nat, Len(text) \in Nat, Len(text') \in Nat, at' = at \/ opened = 0, lex' = lex
    PROVE  BodyInv'
<1>1. opened' = opened
  BY DEF Narrows
<1>2. CASE opened = 0
  BY <1>1, <1>2, Zenon DEF BodyInv
<1>3. CASE opened # 0
  <2>1. PICK c \in Seq(Byte) : BodyHolds(c)
    BY <1>3, Zenon DEF BodyInv
  <2>2. at' = at
    BY <1>3
  <2>3. ASSUME NEW b, Follows(b)', at' <= opened' + Len(b) PROVE Reads(b, c, Position_')
    <3>1. Follows(b)
      BY <2>3, FollowsBack
    <3>2. at <= opened + Len(b) /\ Position_' = Position_
      BY <1>1, <2>2, <2>3, Zenon DEF Position_
    <3> QED  BY <2>1, <3>1, <3>2, Zenon DEF BodyHolds
  <2>4. BodyHolds(c)'
    BY <2>1, <2>3, Zenon DEF BodyHolds
  <2>5. \E z \in Seq(Byte) : BodyHolds(z)'
    BY <2>4, Zenon
  <2> QED  BY <2>5, Zenon DEF BodyInv
<1> QED  BY <1>2, <1>3

\* A literal that begins.
LEMMA BodyBegins ==
    ASSUME at \in Nat, opened' = at', at' \in Nat, Holds(lex', <<>>)
    PROVE  BodyInv'
<1> DEFINE c == <<>>
<1>1. c \in Seq(Byte)
  <2> HIDE DEF Byte
  <2> QED  BY EmptySeq
<1>2. Position_' = 1
  <2>1. Position_' = at' - at' + 1
    BY Zenon DEF Position_
  <2>2. at' - at' + 1 = 1
    <3>1. \A z \in Nat : z - z + 1 = 1
      OBVIOUS
    <3>2. at' \in Nat
      OBVIOUS
    <3> QED  BY <3>1, <3>2, Zenon
  <2> QED  BY <2>1, <2>2, Zenon
<1>3. ASSUME NEW b, Follows(b)' PROVE Reads(b, c, Position_')
  <2>1. b \in Seq(Bytes)
    BY <1>3, Zenon DEF Follows
  <2>2. Reads(b, c, 1)
    <3> HIDE DEF Bytes
    <3> QED  BY <2>1, ReadsFirst
  <2> QED  BY <1>2, <2>2, Zenon
<1>4. BodyHolds(c)'
  BY <1>3, Zenon DEF BodyHolds
<1> HIDE DEF c
<1>5. \E z \in Seq(Byte) : BodyHolds(z)'
  BY <1>1, <1>4, Zenon
<1> QED  BY <1>5, Zenon DEF BodyInv

\* What a match's text is but for its first e characters.
Rest(rest, e, n) == rest \in Seq(Bytes) /\ Len(rest) = n - e /\ \A k \in 1 .. n - e : rest[k] = text[(at + e) + k]

LEMMA RestSame ==
    ASSUME NEW b, NEW n \in Nat \ {0}, Within(b, n), NEW e \in 0 .. n, NEW rest, Rest(rest, e, n)
    PROVE  rest = SubSeq(b, Position_ + e, Position_ + (n - 1))
<1> DEFINE i == Position_
           x == i + e
           r == n - e
           j == at + e
<1>1. b \in Seq(Bytes) /\ Len(b) \in Nat /\ i \in 1 .. Len(b) + 1 /\ i + n <= Len(b) + 1 /\ Same(b, i, at + 1, n)
  BY WithinIs
<1>2. at \in Nat
  BY Zenon DEF Within
<1> HIDE DEF i
<1>3. x \in Nat \ {0} /\ r \in Nat /\ x + r <= Len(b) + 1 /\ j \in Nat /\ x + r - 1 = i + (n - 1)
  BY <1>1, <1>2
<1>4. rest \in Seq(Bytes) /\ Len(rest) = r /\ \A k \in 1 .. r : rest[k] = text[j + k]
  BY Zenon DEF Rest
<1>5. ASSUME NEW k \in 1 .. r PROVE rest[k] = b[x + k - 1]
  <2> DEFINE d == e + (k - 1)
  <2>1. d \in 0 .. n - 1 /\ i + d = x + k - 1 /\ (at + 1) + d = j + k
    BY <1>1, <1>2
  <2> HIDE DEF d
  <2>2. b[i + d] = text[(at + 1) + d]
    BY <1>1, <2>1, Zenon DEF Same
  <2> QED  BY <1>4, <2>1, <2>2, Zenon
<1> HIDE DEF x, r, j
<1>6. rest \in Seq(Bytes) /\ Len(rest) = r /\ \A k \in 1 .. r : rest[k] = b[x + k - 1]
  BY <1>4, <1>5, Zenon
<1>7. rest = SubSeq(b, x, x + r - 1)
  <2> HIDE DEF Bytes
  <2> QED  BY <1>1, <1>3, <1>6, PartSame
<1> QED  BY <1>3, <1>7, Zenon DEF x, i

LEMMA RestOf ==
    ASSUME NEW n \in Nat \ {0}, at \in Nat, NEW s, Rest(s, 0, n)
    PROVE  Rest(Tail(s), 1, n)
<1> HIDE DEF Bytes
<1>1. s \in Seq(Bytes) /\ Len(s) = n /\ \A k \in 1 .. n : s[k] = text[at + k]
  <2>1. s \in Seq(Bytes) /\ Len(s) = n - 0 /\ \A k \in 1 .. n - 0 : s[k] = text[(at + 0) + k]
    BY Zenon DEF Rest
  <2>2. n - 0 = n /\ at + 0 = at
    OBVIOUS
  <2> QED  BY <2>1, <2>2, Zenon
<1>2. s # <<>>
  BY <1>1, EmptySeq
<1> DEFINE t == Tail(s)
<1>3. t \in Seq(Bytes) /\ Len(t) = Len(s) - 1 /\ \A k \in 1 .. Len(t) : t[k] = s[k + 1]
  BY <1>1, <1>2, HeadTailProperties
<1> HIDE DEF t
<1>4. Len(t) = n - 1
  BY <1>1, <1>3
<1>5. ASSUME NEW k \in 1 .. n - 1 PROVE t[k] = text[(at + 1) + k]
  <2>1. k + 1 \in 1 .. n /\ at + (k + 1) = (at + 1) + k
    OBVIOUS
  <2>2. t[k] = s[k + 1]
    BY <1>3, <1>4, Zenon
  <2> QED  BY <1>1, <2>1, <2>2, Zenon
<1> QED  BY <1>3, <1>4, <1>5, Zenon DEF Rest, t

LEMMA RestOfTwo ==
    ASSUME NEW n \in Nat, n > 2, at \in Nat, NEW s, Rest(s, 0, n)
    PROVE  Rest(SubSeq(s, 3, n), 2, n)
<1> HIDE DEF Bytes
<1>1. s \in Seq(Bytes) /\ Len(s) = n /\ \A k \in 1 .. n : s[k] = text[at + k]
  <2>1. s \in Seq(Bytes) /\ Len(s) = n - 0 /\ \A k \in 1 .. n - 0 : s[k] = text[(at + 0) + k]
    BY Zenon DEF Rest
  <2>2. n - 0 = n /\ at + 0 = at
    OBVIOUS
  <2> QED  BY <2>1, <2>2, Zenon
<1> DEFINE three == 3
           r == n - 2
           t == SubSeq(s, three, three + r - 1)
<1>2. three \in Nat \ {0} /\ r \in Nat /\ three + r <= Len(s) + 1 /\ three + r - 1 = n
  BY <1>1
<1> HIDE DEF three, r
<1>3. t \in Seq(Bytes) /\ Len(t) = r /\ \A k \in 1 .. r : t[k] = s[three + k - 1]
  <2>1. s \in Seq(Bytes) /\ three \in Nat \ {0} /\ r \in Nat /\ three + r <= Len(s) + 1
    BY <1>1, <1>2, Zenon
  <2> QED  BY <2>1, PartIs
<1> HIDE DEF t
<1>4. ASSUME NEW k \in 1 .. n - 2 PROVE t[k] = text[(at + 2) + k]
  <2>1. k + 2 \in 1 .. n /\ at + (k + 2) = (at + 2) + k /\ three + k - 1 = k + 2
    BY DEF three
  <2>2. t[k] = s[three + k - 1]
    BY <1>3, Zenon DEF r
  <2> QED  BY <1>1, <2>1, <2>2, Zenon
<1>5. t = SubSeq(s, 3, n)
  BY <1>2, Zenon DEF t, three
<1> QED  BY <1>3, <1>4, <1>5, Zenon DEF Rest, r

LEMMA TextGoes ==
    ASSUME NEW n \in Nat \ {0}, NEW s, Rest(s, 0, n), \A j \in at + 1 .. at + n : text[j] \notin {BS, NL},
           NEW b, Within(b, n)
    PROVE  Goes(b, Position_, n, s)
<1> DEFINE i == Position_
<1>1. b \in Seq(Bytes) /\ Len(b) \in Nat /\ i \in 1 .. Len(b) + 1 /\ i + n <= Len(b) + 1 /\ Same(b, i, at + 1, n)
  BY WithinIs
<1>2. at \in Nat
  BY Zenon DEF Within
<1>3. s = SubSeq(b, i, i + n - 1)
  <2> DEFINE e == 0
  <2>1. e \in 0 .. n
    OBVIOUS
  <2>2. Rest(s, e, n)
    OBVIOUS
  <2> HIDE DEF e, i
  <2>3. s = SubSeq(b, i + e, i + (n - 1))
    BY <2>1, <2>2, RestSame, Zenon DEF i
  <2>4. i + 0 = i /\ i + (n - 1) = i + n - 1
    BY <1>1
  <2> QED  BY <2>3, <2>4, Zenon DEF e
<1> HIDE DEF i
<1>4. ASSUME NEW j \in i .. i + n - 1 PROVE b[j] \notin {NL, BS}
  <2> DEFINE d == j - i
  <2>1. d \in 0 .. n - 1 /\ i + d = j /\ (at + 1) + d \in at + 1 .. at + n
    BY <1>1, <1>2
  <2> HIDE DEF d
  <2>2. b[j] = text[(at + 1) + d] /\ text[(at + 1) + d] \notin {BS, NL}
    BY <1>1, <2>1, Zenon DEF Same
  <2> QED  BY <2>2
<1>5. Read(b)[i] = SubSeq(b, i, i + n - 1) \o Read(b)[i + n]
  <2> HIDE DEF Bytes
  <2> QED  BY <1>1, <1>4, TextMeans
<1> QED  BY <1>3, <1>5, Zenon DEF Goes, i

LEMMA OctalGoes ==
    ASSUME NEW n \in 2 .. 4, NEW s, Rest(s, 0, n), text[at + 1] = BS,
           \A j \in at + 2 .. at + n : text[j] \in OctalDigits, n # 4 => Stops(at + n, OctalDigits),
           NEW b, Within(b, n)
    PROVE  Goes(b, Position_, n, <<EscapedChar(Tail(s), 8)>>)
<1> DEFINE i == Position_
           m == n - 1
<1>1. b \in Seq(Bytes) /\ Len(b) \in Nat /\ i \in 1 .. Len(b) + 1 /\ i + n <= Len(b) + 1
  BY WithinIs
<1>2. OctalAt(b, i, m)
  BY OctalLies
<1>3. at \in Nat
  BY Zenon DEF Within
<1>4. Tail(s) = SubSeq(b, i + 1, i + m)
  <2> DEFINE e == 1
             t == Tail(s)
  <2>1. e \in 0 .. n /\ n \in Nat \ {0}
    OBVIOUS
  <2>2. Rest(t, e, n)
    BY <1>3, <2>1, RestOf, Zenon
  <2> HIDE DEF e, t
  <2>3. t = SubSeq(b, i + e, i + (n - 1))
    BY <2>1, <2>2, RestSame, Zenon
  <2> QED  BY <2>3, Zenon DEF e, t
<1> HIDE DEF i, m
<1>5. i \in 1 .. Len(b)
  BY <1>1
<1>6. Goes(b, i, m + 1, <<EscapedChar(SubSeq(b, i + 1, i + m), 8)>>)
  <2> HIDE DEF Bytes
  <2> QED  BY <1>1, <1>2, <1>5, OctalMeans
<1>7. m + 1 = n
  BY DEF m
<1> QED  BY <1>4, <1>6, <1>7, Zenon DEF i

LEMMA HexGoes ==
    ASSUME NEW n \in 3 .. 4, NEW s, Rest(s, 0, n), text[at + 1] = BS, text[at + 2] = 120,
           \A j \in at + 3 .. at + n : text[j] \in HexDigits, n # 4 => Stops(at + n, HexDigits),
           NEW b, Within(b, n)
    PROVE  Goes(b, Position_, n, <<EscapedChar(SubSeq(s, 3, n), 16)>>)
<1> DEFINE i == Position_
           m == n - 2
<1>1. b \in Seq(Bytes) /\ Len(b) \in Nat /\ i \in 1 .. Len(b) + 1 /\ i + n <= Len(b) + 1
  BY WithinIs
<1>2. HexAt(b, i, m)
  BY HexLies
<1>3. at \in Nat
  BY Zenon DEF Within
<1>4. SubSeq(s, 3, n) = SubSeq(b, i + 2, i + (n - 1))
  <2> DEFINE e == 2
             t == SubSeq(s, 3, n)
  <2>1. e \in 0 .. n /\ n \in Nat \ {0} /\ n \in Nat /\ n > 2
    OBVIOUS
  <2>2. Rest(t, e, n)
    BY <1>3, <2>1, RestOfTwo, Zenon
  <2> HIDE DEF e, t
  <2>3. t = SubSeq(b, i + e, i + (n - 1))
    BY <2>1, <2>2, RestSame, Zenon
  <2> QED  BY <2>3, Zenon DEF e, t
<1> HIDE DEF i
<1>5. i \in 1 .. Len(b) /\ i + (n - 1) = i + 1 + m
  BY <1>1
<1> HIDE DEF m
<1>6. Goes(b, i, m + 2, <<EscapedChar(SubSeq(b, i + 2, i + 1 + m), 16)>>)
  <2> HIDE DEF Bytes
  <2> QED  BY <1>1, <1>2, <1>5, HexMeans
<1>7. m + 2 = n
  BY DEF m
<1> QED  BY <1>4, <1>5, <1>6, <1>7, Zenon DEF i

LEMMA SimpleGoes ==
    ASSUME NEW s, Rest(s, 0, 2), text[at + 1] = BS, text[at + 2] \in DOMAIN SimpleEscapes, NEW b, Within(b, 2)
    PROVE  Goes(b, Position_, 2, <<SimpleEscapes[s[2]]>>)
<1> DEFINE i == Position_
<1>1. b \in Seq(Bytes) /\ Len(b) \in Nat /\ i \in 1 .. Len(b) + 1 /\ i + 2 <= Len(b) + 1 /\ Same(b, i, at + 1, 2)
  BY WithinIs
<1>2. at \in Nat
  BY Zenon DEF Within
<1>3. s[2] = text[at + 2]
  <2>1. 2 \in 1 .. 2 - 0 /\ (at + 0) + 2 = at + 2
    BY <1>2
  <2>2. s[2] = text[(at + 0) + 2]
    BY <2>1, Zenon DEF Rest
  <2> QED  BY <2>1, <2>2, Zenon
<1> HIDE DEF i
<1>4. 0 \in 0 .. 2 - 1 /\ 1 \in 0 .. 2 - 1 /\ i + 0 = i /\ (at + 1) + 0 = at + 1 /\ (at + 1) + 1 = at + 2
      /\ i \in 1 .. Len(b) /\ i < Len(b)
  BY <1>1, <1>2
<1>5. b[i] = BS /\ b[i + 1] = text[at + 2]
  <2>1. b[i + 0] = text[(at + 1) + 0] /\ b[i + 1] = text[(at + 1) + 1]
    BY <1>1, <1>4, Zenon DEF Same
  <2> QED  BY <1>4, <2>1, Zenon
<1>6. Goes(b, i, 2, <<SimpleEscapes[b[i + 1]]>>)
  <2>1. b[i + 1] \in DOMAIN SimpleEscapes
    BY <1>5, Zenon
  <2> HIDE DEF Bytes
  <2> QED  BY <1>1, <1>4, <1>5, <2>1, SimpleMeans
<1> QED  BY <1>3, <1>5, <1>6, Zenon DEF i

(***************************************************************************)
(* The tokens of a text.                                                   *)
(***************************************************************************)
StringMeans(s, v) == ~Wrong(Body(s)) => v.str = InC(Body(s)) \o <<0>>
CharMeans(s, v) == CharDefined(InC(Body(s))) => v = CharValue(InC(Body(s)))
NumberMeans(s, v) == NumberDefined(s) => v = NumberValue(s)
TokenMeans(t, tok) ==
    /\ tok.kind = "string" => StringMeans(SubSeq(t, tok.from, tok.to), tok.value)
    /\ tok.kind = "number" => IF SubSeq(t, tok.from, tok.to)[1] = SQ
                              THEN CharMeans(SubSeq(t, tok.from, tok.to), tok.value)
                              ELSE NumberMeans(SubSeq(t, tok.from, tok.to), tok.value)

LEMMA TokensMean ==
    ASSUME TokenMeans(text, token)
    PROVE  LiteralsMeanC
  BY Zenon DEF TokenMeans, StringMeans, CharMeans, NumberMeans, LiteralsMeanC, Spelled, IsChar, Wrong

BodyOf(s, o, a) ==
    /\ Body(s) \in Seq(Bytes) /\ Len(Body(s)) = a - o /\ s[1] = text[o]
    /\ \A k \in 1 .. a - o : Body(s)[k] = text[o + k]
LEMMA BodyIs ==
    ASSUME text \in Seq(Bytes), NEW o \in Nat \ {0}, NEW a \in Nat, o <= a, a + 1 <= Len(text), NEW s, s = SubSeq(text, o, a + 1)
    PROVE  BodyOf(s, o, a)
<1> DEFINE n == a - o + 2
           p == SubSeq(text, o, o + n - 1)
<1>1. n \in Nat /\ o + n <= Len(text) + 1 /\ o + n - 1 = a + 1 /\ Len(text) \in Nat
  BY LenProperties
<1> HIDE DEF n, Bytes
<1>2. p \in Seq(Bytes) /\ Len(p) = n /\ \A k \in 1 .. n : p[k] = text[o + k - 1]
  BY <1>1, PartIs
<1>3. p = s
  BY <1>1, Zenon DEF p
<1> HIDE DEF p
<1>4. s \in Seq(Bytes) /\ Len(s) = n /\ \A k \in 1 .. n : s[k] = text[o + k - 1]
  BY <1>2, <1>3, Zenon
<1> DEFINE two == 2
           r == a - o
           b == SubSeq(s, two, two + r - 1)
<1>5. two \in Nat \ {0} /\ r \in Nat /\ two + r <= n + 1 /\ two + r - 1 = n - 1
  BY <1>1 DEF n
<1>6. two + r <= Len(s) + 1
  BY <1>4, <1>5, Zenon
<1> HIDE DEF two, r
<1>7. b \in Seq(Bytes) /\ Len(b) = r /\ \A k \in 1 .. r : b[k] = s[two + k - 1]
  <2>1. s \in Seq(Bytes) /\ two \in Nat \ {0} /\ r \in Nat /\ two + r <= Len(s) + 1
    BY <1>4, <1>5, <1>6, Zenon
  <2> QED  BY <2>1, PartIs
<1>8. Body(s) = b
  <2>1. Body(s) = SubSeq(s, 2, Len(s) - 1)
    BY Zenon DEF Body
  <2>2. Len(s) - 1 = two + r - 1
    BY <1>4, <1>5, Zenon
  <2> QED  BY <2>1, <2>2, Zenon DEF b, two
<1> HIDE DEF b
<1>9. ASSUME NEW k \in 1 .. r PROVE b[k] = text[o + k]
  <2>1. two + k - 1 \in 1 .. n /\ o + (two + k - 1) - 1 = o + k
    BY DEF two, r, n
  <2>2. b[k] = s[two + k - 1] /\ s[two + k - 1] = text[o + (two + k - 1) - 1]
    BY <1>4, <1>7, <2>1, Zenon
  <2> QED  BY <2>1, <2>2, Zenon
<1>10. s[1] = text[o]
  <2>1. 1 \in 1 .. n /\ o + 1 - 1 = o
    BY DEF n
  <2> QED  BY <1>4, <2>1, Zenon
<1> QED  BY <1>7, <1>8, <1>9, <1>10, Zenon DEF r, BodyOf

\* Where a literal ends its body is what C reads.
LEMMA BodyEnds ==
    ASSUME BodyInv, opened # 0, opened \in 0 .. at, at \in Nat, text \in Seq(Bytes), at + 1 <= Len(text),
           NEW b, b = Body(SubSeq(text, opened, at + 1))
    PROVE  \E c \in Seq(Byte) : Holds(lex, c) /\ (~Wrong(b) => InC(b) = c)
<1>1. PICK c \in Seq(Byte) : BodyHolds(c)
  BY Zenon DEF BodyInv
<1>2. Holds(lex, c)
  BY <1>1, Zenon DEF BodyHolds
<1>0. PICK o, a, s : o = opened /\ a = at /\ s = SubSeq(text, o, a + 1)
  BY Zenon
<1>3. o \in Nat \ {0} /\ a \in Nat /\ o <= a /\ a + 1 <= Len(text) /\ a <= Len(text) /\ Len(text) \in Nat
  BY <1>0, LenProperties
<1>4. b \in Seq(Bytes) /\ Len(b) = a - o /\ \A k \in 1 .. a - o : b[k] = text[o + k]
  <2>1. s = SubSeq(text, o, a + 1) /\ b = Body(s)
    BY <1>0
  <2> HIDE DEF Bytes
  <2>2. Body(s) \in Seq(Bytes) /\ Len(Body(s)) = a - o /\ \A k \in 1 .. a - o : Body(s)[k] = text[o + k]
    <3>1. BodyOf(s, o, a)
      BY <1>3, <2>1, BodyIs
    <3> QED  BY <3>1, Zenon DEF BodyOf
  <2> QED  BY <2>1, <2>2, Zenon
<1>5. o + Len(b) = a
  BY <1>3, <1>4
<1>6. Follows(b)
  <2>1. \A j \in 1 .. Len(b) : opened + j <= Len(text) => b[j] = text[opened + j]
    BY <1>0, <1>4, Zenon
  <2>2. opened + Len(b) <= Len(text)
    BY <1>0, <1>3, <1>5
  <2> QED  BY <1>4, <2>1, <2>2, Zenon DEF Follows
<1>7. Reads(b, c, Position_)
  <2>1. at <= opened + Len(b)
    BY <1>0, <1>3, <1>5
  <2> QED  BY <1>1, <1>6, <2>1, Zenon DEF BodyHolds
<1>8. Position_ = Len(b) + 1
  BY <1>0, <1>3, <1>4 DEF Position_
<1>9. ASSUME ~Wrong(b) PROVE InC(b) = c
  <2>1. Reads(b, c, Len(b) + 1)
    BY <1>7, <1>8, Zenon
  <2> HIDE DEF Bytes, Byte
  <2> QED  BY <1>4, <1>9, <2>1, ReadsAll
<1> QED  BY <1>2, <1>9

\* A character constant.
LEMMA CharValues ==
    ASSUME NEW n, NEW c \in Seq(Byte), CharHolds(n, c), CharDefined(c)
    PROVE  Signed(n) = CharValue(c)
<1>1. /\ Len(c) \in 1 .. IntBits \div 8
      /\ Len(c) > 1 => \A i \in DOMAIN c : c[i] < 128
  BY Zenon DEF CharDefined
<1>2. CASE Len(c) = 1
  BY <1>2, Zenon DEF CharHolds, CharValue
<1>3. CASE Len(c) # 1
  <2>1. Len(c) > 1
    <3> DEFINE l == Len(c)
               q == IntBits \div 8
    <3>1. q \in Int
      BY LexerAssumption
    <3>2. l \in 1 .. q /\ l # 1
      BY <1>1, <1>3
    <3> HIDE DEF l, q
    <3>3. l > 1
      BY <3>1, <3>2
    <3> QED  BY <3>3 DEF l
  <2>2. DOMAIN c = 1 .. Len(c)
    <3> HIDE DEF Byte
    <3> QED  BY LenProperties
  <2>3. \A k \in 1 .. Len(c) : c[k] < 128
    BY <1>1, <2>1, <2>2, Zenon
  <2>4. n = Wrap(Places(c, 256))
    BY <2>3, Zenon DEF CharHolds
  <2> QED  BY <1>3, <2>4, Zenon DEF CharValue
<1> QED  BY <1>2, <1>3

LEMMA DefinedRight ==
    ASSUME NEW b, CharDefined(InC(b))
    PROVE  ~Wrong(b)
  BY Zenon DEF CharDefined, Wrong

LEMMA SmallSame ==
    ASSUME NEW v, Small(v)
    PROVE  v \in Nat /\ v < 2^IntBits /\ Signed(v) = v
<1>1. PICK k \in Nat \ {0, 1} : 2^IntBits = 256 * k
  BY IntValues
<1>2. 2^IntBits \div 2 = 128 * k
  BY <1>1
<1> DEFINE half == 2^IntBits \div 2
<1>3. v \in 0 .. half - 1
  BY Zenon DEF Small
<1>4. half = 128 * k
  BY <1>2
<1> HIDE DEF half
<1>5. v \in Nat /\ v < 2^IntBits /\ ~(v >= half)
  BY <1>1, <1>3, <1>4
<1>6. Signed(v) = v
  BY <1>5, Zenon DEF Signed, half
<1> QED  BY <1>5, <1>6

\* What atoi and strtol return for a number that fits.
LEMMA SmallNumber ==
    ASSUME NEW digits, NEW n \in Nat, n = Len(digits), \A k \in 1 .. n : digits[k] \in HexDigits,
           NEW b \in Bases, Small(Value(digits, b))
    PROVE  Signed(NumberOf(digits, b)) = Value(digits, b)
<1>1. Value(digits, b) < 2^IntBits /\ Signed(Value(digits, b)) = Value(digits, b)
  BY SmallSame
<1>2. NumberOf(digits, b) = Value(digits, b)
  BY <1>1, NumberFits
<1> QED  BY <1>1, <1>2, Zenon

LEMMA DecimalMeans ==
    ASSUME NEW s, NEW n \in Nat \ {0}, Len(s) = n, \A k \in 1 .. n : s[k] \in Digits
    PROVE  s[1] # SQ /\ NumberMeans(s, Signed(NumberOf(s, 10)))
<1>1. s[1] \in Digits /\ s[1] # SQ
  <2>1. 1 \in 1 .. n
    OBVIOUS
  <2>2. \A d \in Digits : d # SQ
    BY DEF Digits, SQ
  <2> QED  BY <2>1, <2>2, Zenon
<1>2. ~IsHex(s)
  <2>1. CASE n > 2
    <3>1. 2 \in 1 .. n
      BY <2>1
    <3>2. \A d \in Digits : d \notin {120, 88}
      BY DEF Digits
    <3>3. s[2] \notin {120, 88}
      BY <3>1, <3>2, Zenon
    <3> QED  BY <3>3, Zenon DEF IsHex
  <2>2. CASE ~(n > 2)
    <3>1. ~(Len(s) > 2)
      BY <2>2
    <3> QED  BY <3>1, Zenon DEF IsHex
  <2> QED  BY <2>1, <2>2
<1>3. ASSUME NumberDefined(s) PROVE Signed(NumberOf(s, 10)) = NumberValue(s)
  <2>1. NumberValue(s) = Value(s, 10)
    BY <1>2, Zenon DEF NumberValue
  <2>2. Small(Value(s, 10))
    BY <1>3, <2>1, Zenon DEF NumberDefined
  <2>3. \A k \in 1 .. n : s[k] \in HexDigits
    BY DEF HexDigits
  <2> DEFINE b == 10
  <2>4. b \in Bases /\ Small(Value(s, b))
    BY <2>2 DEF Bases
  <2> HIDE DEF b
  <2>5. Signed(NumberOf(s, b)) = Value(s, b)
    BY <2>3, <2>4, SmallNumber
  <2> QED  BY <2>1, <2>5, Zenon DEF b
<1> QED  BY <1>1, <1>3, Zenon DEF NumberMeans

LEMMA HexMeansC ==
    ASSUME NEW s, NEW n \in Nat, n > 2, Len(s) = n, s \in Seq(Bytes), s[1] # SQ, s[2] \in {120, 88},
           \A k \in 3 .. n : s[k] \in HexDigits
    PROVE  NumberMeans(s, Signed(NumberOf(SubSeq(s, 3, n), 16)))
<1> DEFINE t == SubSeq(s, 3, n)
           r == n - 2
<1>1. IsHex(s)
  BY DEF IsHex
<1>2. t = SubSeq(s, 3, 3 + (Len(s) - 2) - 1)
  <2>1. 3 + (Len(s) - 2) - 1 = n
    OBVIOUS
  <2> QED  BY <2>1, Zenon
<1>3. r \in Nat /\ Len(t) = r /\ \A k \in 1 .. r : t[k] \in HexDigits
  <2> DEFINE three == 3
             p == SubSeq(s, three, three + r - 1)
  <2>1. three \in Nat \ {0} /\ r \in Nat /\ three + r <= Len(s) + 1 /\ three + r - 1 = n
    OBVIOUS
  <2>2. p = t
    BY <2>1, Zenon
  <2> HIDE DEF three, r, t, Bytes
  <2>3. p \in Seq(Bytes) /\ Len(p) = r /\ \A k \in 1 .. r : p[k] = s[three + k - 1]
    BY <2>1, PartIs
  <2> HIDE DEF p
  <2>4. ASSUME NEW k \in 1 .. r PROVE p[k] \in HexDigits
    <3>1. three + k - 1 \in 3 .. n
      BY <2>1 DEF three, r
    <3> QED  BY <2>3, <3>1, Zenon
  <2> QED  BY <2>1, <2>2, <2>3, <2>4, Zenon
<1> HIDE DEF t, r
<1>4. ASSUME NumberDefined(s) PROVE Signed(NumberOf(t, 16)) = NumberValue(s)
  <2>1. NumberValue(s) = Value(t, 16)
    BY <1>1, <1>2, Zenon DEF NumberValue, ValueAt
  <2>2. Small(Value(t, 16))
    BY <1>4, <2>1, Zenon DEF NumberDefined
  <2> DEFINE b == 16
  <2>3. b \in Bases /\ Small(Value(t, b))
    BY <2>2 DEF Bases
  <2> HIDE DEF b
  <2>4. Signed(NumberOf(t, b)) = Value(t, b)
    BY <1>3, <2>3, SmallNumber
  <2> QED  BY <2>1, <2>4, Zenon DEF b
<1> QED  BY <1>4, Zenon DEF NumberMeans, t

\* What flex reads next does not change how a token is spelled.
LEMMA SpellingKept ==
    ASSUME NEW s \in Seq(Bytes), NEW t \in Seq(Bytes), NEW i \in Nat \ {0}, NEW j \in Nat, i <= j, j <= Len(s), j <= Len(t),
           \A k \in 1 .. Len(s) : t[k] = s[k]
    PROVE  SubSeq(t, i, j) = SubSeq(s, i, j)
<1> DEFINE n == j - i + 1
           p == SubSeq(s, i, i + n - 1)
           q == SubSeq(t, i, i + n - 1)
<1>1. n \in Nat /\ i + n <= Len(s) + 1 /\ i + n <= Len(t) + 1 /\ i + n - 1 = j /\ Len(s) \in Nat /\ Len(t) \in Nat
  BY LenProperties
<1> HIDE DEF n, Bytes
<1>2. p \in Seq(Bytes) /\ Len(p) = n /\ \A k \in 1 .. n : p[k] = s[i + k - 1]
  BY <1>1, PartIs
<1>3. q \in Seq(Bytes) /\ Len(q) = n /\ \A k \in 1 .. n : q[k] = t[i + k - 1]
  BY <1>1, PartIs
<1> HIDE DEF p, q
<1>4. ASSUME NEW k \in 1 .. Len(p) PROVE p[k] = q[k]
  <2>1. k \in 1 .. n /\ i + k - 1 \in 1 .. Len(s)
    BY <1>1, <1>2
  <2> QED  BY <1>2, <1>3, <2>1, Zenon
<1>5. Len(p) = Len(q)
  BY <1>2, <1>3
<1>6. p = q
  BY <1>2, <1>3, <1>4, <1>5, SeqEqual
<1> QED  BY <1>1, <1>6, Zenon DEF p, q

LEMMA TokenMeansKept ==
    ASSUME FileInv, PlaceInv, TokenInv, FileInv', TextKept, token' = token, TokenMeans(text, token)
    PROVE  TokenMeans(text', token')
<1>1. CASE token.kind \in {"string", "number"}
  <2> DEFINE i == token.from
             j == token.to
  <2>1. i \in Nat \ {0} /\ j \in Nat /\ i <= j /\ j <= Len(text) /\ j <= Len(text') /\ text \in Seq(Bytes) /\ text' \in Seq(Bytes)
    <3>1. token.kind \notin {"none", "eof"}
      BY <1>1
    <3>2. text \in Seq(Bytes) /\ text' \in Seq(Bytes)
      BY Zenon DEF FileInv
    <3>3. Len(text) \in Nat /\ Len(text') \in Nat
      <4> HIDE DEF Bytes
      <4> QED  BY <3>2, LenProperties
    <3> QED  BY <3>1, <3>2, <3>3 DEF TokenInv, PlaceInv, TextKept
  <2>2. \A k \in 1 .. Len(text) : text'[k] = text[k]
    BY Zenon DEF TextKept
  <2>3. PICK s, t, x, y : s = text /\ t = text' /\ x = i /\ y = j
    BY Zenon
  <2> HIDE DEF i, j
  <2>4. SubSeq(t, x, y) = SubSeq(s, x, y)
    <3>1. /\ s \in Seq(Bytes) /\ t \in Seq(Bytes) /\ x \in Nat \ {0} /\ y \in Nat /\ x <= y /\ y <= Len(s) /\ y <= Len(t)
          /\ \A k \in 1 .. Len(s) : t[k] = s[k]
      BY <2>1, <2>2, <2>3, Zenon
    <3> HIDE DEF Bytes
    <3> QED  BY <3>1, SpellingKept
  <2>5. SubSeq(text', token.from, token.to) = SubSeq(text, token.from, token.to)
    BY <2>3, <2>4, Zenon DEF i, j
  <2> QED  BY <2>5, Zenon DEF TokenMeans
<1>2. CASE token.kind \notin {"string", "number"}
  <2>1. token.kind # "string" /\ token.kind # "number"
    BY <1>2
  <2> QED  BY <2>1, Zenon DEF TokenMeans
<1> QED  BY <1>1, <1>2

(***************************************************************************)
(* What literals mean in every state.                                      *)
(***************************************************************************)
CondInv ==
    /\ cond = "charLiteral" => text[opened] = SQ /\ lex.state = "char"
    /\ cond # "string" => lex.str = <<>>
MeanInv == CondInv /\ BodyInv /\ TokenMeans(text, token)

LEMMA InvPlaces ==
    ASSUME Inv
    PROVE  /\ opened \in 0 .. at /\ opened \in Nat /\ at \in Nat /\ Len(text) \in Nat /\ at <= Len(text)
           /\ text \in Seq(Bytes) /\ source \in Seq(Bytes) /\ fpos \in 0 .. Len(source) /\ Len(source) \in Nat
           /\ (opened = 0 <=> cond = "initial") /\ cond \in {"initial", "string", "charLiteral"}
<1>1. /\ opened \in 0 .. at /\ at \in 0 .. Len(text) /\ text \in Seq(Bytes)
      /\ source \in Seq(Bytes) /\ fpos \in 0 .. Len(source)
      /\ (opened = 0 <=> cond = "initial") /\ cond \in DOMAIN RulesOf
  BY Zenon DEF Inv, FileInv, PlaceInv, LiteralInv
<1>2. Len(text) \in Nat /\ Len(source) \in Nat
  <2> HIDE DEF Bytes
  <2> QED  BY <1>1, LenProperties
<1>3. cond \in {"initial", "string", "charLiteral"}
  BY <1>1 DEF RulesOf
<1> QED  BY <1>1, <1>2, <1>3

LEMMA MatchedRest ==
    ASSUME Inv, NEW m, Matched(m)
    PROVE  m.n \in Nat \ {0} /\ at + m.n <= Len(text) /\ Rest(m.lexeme, 0, m.n)
<1>1. /\ m.lexeme \in Seq(Bytes) /\ Len(m.lexeme) = m.n /\ m.n \in 1 .. Len(text) - at
      /\ \A i \in 1 .. m.n : m.lexeme[i] = text[at + i]
  BY Zenon DEF Matched
<1>2. at \in Nat /\ Len(text) \in Nat
  BY InvPlaces
<1>3. m.n \in Nat \ {0} /\ at + m.n <= Len(text) /\ m.n - 0 = m.n /\ at + 0 = at
  BY <1>1, <1>2
<1> QED  BY <1>1, <1>3, Zenon DEF Rest

\* Which literal a rule builds.
LEMMA RuleLiterals ==
    ASSUME Inv, NEW m, Matched(m)
    PROVE  /\ m.rule \in {"octal", "hexEscape", "simpleEscape", "stringText", "charText", "closeString", "closeChar", "stringNewline"}
                  => opened # 0
           /\ m.rule = "closeString" => cond = "string"
           /\ m.rule = "closeChar" => cond = "charLiteral"
           /\ m.rule \in {"openString", "openChar"} => cond = "initial"
<1>1. cond \in {"initial", "string", "charLiteral"} /\ (opened = 0 <=> cond = "initial")
  BY InvPlaces
<1>2. m.rule # "default" => m.rule \in RulesOf[cond]
  BY DEF Matched
<1>3. RulesOf["initial"] = TokenRules \cup {"newline", "blank", "openString", "openChar"}
  BY DEF RulesOf, TokenRules
<1>4. RulesOf["string"] = {"closeString", "stringNewline", "stringText", "octal", "hexEscape", "simpleEscape"}
  BY DEF RulesOf, InLiteral
<1>5. RulesOf["charLiteral"] = {"closeChar", "charText", "octal", "hexEscape", "simpleEscape"}
  BY DEF RulesOf, InLiteral
<1> QED  BY <1>1, <1>2, <1>3, <1>4, <1>5 DEF TokenRules

LEMMA CondKept ==
    ASSUME Inv, CondInv, TextKept, UNCHANGED <<cond, opened>>, lex' = lex
    PROVE  CondInv'
<1>1. opened \in 0 .. at /\ at <= Len(text) /\ at \in Nat /\ Len(text) \in Nat /\ (opened = 0 <=> cond = "initial")
  BY InvPlaces
<1>2. ASSUME cond = "charLiteral" PROVE text'[opened] = SQ
  <2>1. opened \in 1 .. Len(text)
    BY <1>1, <1>2
  <2>2. text'[opened] = text[opened]
    BY <2>1, Zenon DEF TextKept
  <2> QED  BY <1>2, <2>2, Zenon DEF CondInv
<1> QED  BY <1>2, Zenon DEF CondInv

LEMMA LiterallyMeans ==
    ASSUME Inv, CondInv, BodyInv, NEW m, Matched(m), opened # 0, NEW chars \in Seq(Byte), Literally(m, chars),
           \A b : Within(b, m.n) => Goes(b, Position_, m.n, chars)
    PROVE  CondInv' /\ BodyInv'
<1>1. /\ at' = at + m.n /\ lex' = AppendAll(lex, chars) /\ cond' = cond /\ opened' = opened
      /\ UNCHANGED file /\ text' = text /\ source' = source /\ fpos' = fpos
  BY DEF Literally, Elsewhere, Consume, file
<1>2. /\ opened \in 0 .. at /\ at \in Nat /\ Len(text) \in Nat /\ (opened = 0 <=> cond = "initial")
      /\ cond \in {"initial", "string", "charLiteral"}
  BY InvPlaces
<1>3. m.n \in Nat \ {0} /\ at + m.n <= Len(text)
  BY MatchedRest
<1>4. Narrows
  <2>1. TextKept
    BY <1>1, <1>2 DEF TextKept
  <2> QED  BY <1>1, <2>1, Zenon DEF Narrows
<1>5. PICK state : state = lex.state
  BY Zenon
<1>6. Building(lex, state)
  BY <1>5, Zenon DEF Inv, LiteralInv
<1>7. ASSUME NEW c \in Seq(Byte), Holds(lex, c)
      PROVE  /\ Holds(lex', c \o chars)
             /\ state = "char" => lex'.str = lex.str
  <2> HIDE DEF Byte
  <2>1. /\ Holds(AppendAll(lex, chars), c \o chars)
        /\ state = "char" => AppendAll(lex, chars).str = lex.str
    BY <1>6, <1>7, AppendAllHolds
  <2> QED  BY <1>1, <2>1, Zenon
<1>8. BodyInv'
  <2>1. PICK n : n = m.n
    BY Zenon
  <2>2. n \in Nat /\ at' = at + n /\ at + n <= Len(text) /\ Len(text') \in Nat
    BY <1>1, <1>2, <1>3, <2>1
  <2>3. \A b : Within(b, n) => Goes(b, Position_, n, chars)
    BY <2>1, Zenon
  <2>4. \A c \in Seq(Byte) : Holds(lex, c) => Holds(lex', c \o chars)
    BY <1>7, Zenon
  <2> HIDE DEF Byte
  <2> QED  BY <1>2, <1>4, <2>2, <2>3, <2>4, BodyFurther
<1>9. CondInv'
  <2>1. lex'.state = state
    <3>1. Building(AppendAll(lex, chars), state)
      BY <1>6, AppendAllBuilds DEF Byte
    <3> QED  BY <1>1, <3>1, Zenon DEF Building
  <2>2. ASSUME cond # "string" PROVE lex'.str = <<>>
    <3>1. cond = "charLiteral"
      BY <1>2, <2>2
    <3>2. state = "char" /\ lex.str = <<>>
      BY <1>5, <2>2, <3>1, Zenon DEF CondInv
    <3>3. PICK c \in Seq(Byte) : BodyHolds(c)
      BY Zenon DEF BodyInv
    <3> QED  BY <1>7, <3>2, <3>3, Zenon DEF BodyHolds
  <2> QED  BY <1>1, <1>5, <2>1, <2>2, Zenon DEF CondInv
<1> QED  BY <1>8, <1>9

LEMMA EscapeMeans ==
    ASSUME Inv, CondInv, BodyInv, NEW m, Matched(m), Spelled_(m),
           Octal(m) \/ HexEscape(m) \/ SimpleEscape(m) \/ StringText(m) \/ CharText(m)
    PROVE  CondInv' /\ BodyInv'
<1>1. PICK n, s : n = m.n /\ s = m.lexeme
  BY Zenon
<1>2. n \in Nat \ {0} /\ Rest(s, 0, n)
  BY <1>1, MatchedRest, Zenon
<1>3. opened # 0
  <2>1. m.rule \in {"octal", "hexEscape", "simpleEscape", "stringText", "charText"}
    BY DEF Octal, HexEscape, SimpleEscape, StringText, CharText
  <2> QED  BY <2>1, RuleLiterals
<1>4. s \in Seq(Bytes) /\ Len(s) = n /\ at \in Nat
  <2>1. m.lexeme \in Seq(Bytes) /\ Len(m.lexeme) = m.n
    BY Zenon DEF Matched
  <2> QED  BY <1>1, <2>1, InvPlaces, Zenon
<1>5. CASE StringText(m) \/ CharText(m)
  <2>1. m.rule \in {"stringText", "charText"} /\ Literally(m, s)
    BY <1>1, <1>5 DEF StringText, CharText
  <2>2. \A j \in at + 1 .. at + n : text[j] \notin {BS, NL}
    BY <1>1, <2>1, Zenon DEF Spelled_
  <2>3. \A b : Within(b, m.n) => Goes(b, Position_, m.n, s)
    <3>1. \A b : Within(b, n) => Goes(b, Position_, n, s)
      BY <1>2, <2>2, TextGoes
    <3> QED  BY <1>1, <3>1, Zenon
  <2>4. s \in Seq(Byte)
    BY <1>4, ByteInts, Zenon
  <2> HIDE DEF Byte
  <2> QED  BY <1>3, <2>1, <2>3, <2>4, LiterallyMeans
<1>6. CASE Octal(m)
  <2> DEFINE c == EscapedChar(Tail(s), 8)
             chars == <<c>>
  <2>1. m.rule = "octal" /\ Literally(m, chars)
    BY <1>1, <1>6, Zenon DEF Octal
  <2>2. /\ n \in 2 .. 4 /\ text[at + 1] = BS /\ \A j \in at + 2 .. at + n : text[j] \in OctalDigits
        /\ n # 4 => Stops(at + n, OctalDigits)
    BY <1>1, <2>1, Zenon DEF Spelled_
  <2>3. \A b : Within(b, m.n) => Goes(b, Position_, m.n, chars)
    <3>1. \A b : Within(b, n) => Goes(b, Position_, n, chars)
      BY <1>2, <2>2, OctalGoes
    <3> QED  BY <1>1, <3>1, Zenon
  <2>4. c \in Byte
    <3>1. Tail(s) \in Seq(Int)
      <4>1. s # <<>>
        BY <1>2, <1>4, EmptySeq
      <4>2. Tail(s) \in Seq(Bytes)
        <5> HIDE DEF Bytes
        <5> QED  BY <1>4, <4>1, HeadTailProperties
      <4> QED  BY <4>2, ByteInts, Zenon
    <3> DEFINE b == 8
               t == Tail(s)
    <3>2. b \in Int /\ t \in Seq(Int)
      BY <3>1
    <3> HIDE DEF b, t
    <3>3. EscapedChar(t, b) \in 0 .. 255
      BY <3>2, EscapedType
    <3> QED  BY <3>3 DEF b, t, Byte
  <2> HIDE DEF c
  <2>5. chars \in Seq(Byte)
    BY <2>4, OneByte DEF Byte
  <2> HIDE DEF Byte, chars
  <2> QED  BY <1>3, <2>1, <2>3, <2>5, LiterallyMeans
<1>7. CASE HexEscape(m)
  <2> DEFINE c == EscapedChar(SubSeq(s, 3, n), 16)
             chars == <<c>>
  <2>1. m.rule = "hexEscape" /\ Literally(m, chars)
    BY <1>1, <1>7, Zenon DEF HexEscape
  <2>2. /\ n \in 3 .. 4 /\ text[at + 1] = BS /\ text[at + 2] = 120
        /\ \A j \in at + 3 .. at + n : text[j] \in HexDigits
        /\ n # 4 => Stops(at + n, HexDigits)
    BY <1>1, <2>1, Zenon DEF Spelled_
  <2>3. \A b : Within(b, m.n) => Goes(b, Position_, m.n, chars)
    <3>1. \A b : Within(b, n) => Goes(b, Position_, n, chars)
      BY <1>2, <2>2, HexGoes
    <3> QED  BY <1>1, <3>1, Zenon
  <2>4. c \in Byte
    <3>1. SubSeq(s, 3, n) \in Seq(Int)
      <4>1. n > 2 /\ n \in Nat
        BY <2>2
      <4>2. Rest(SubSeq(s, 3, n), 2, n)
        BY <1>2, <1>4, <4>1, RestOfTwo
      <4>3. SubSeq(s, 3, n) \in Seq(Bytes)
        BY <4>2, Zenon DEF Rest
      <4> QED  BY <4>3, ByteInts, Zenon
    <3> DEFINE b == 16
               t == SubSeq(s, 3, n)
    <3>2. b \in Int /\ t \in Seq(Int)
      BY <3>1
    <3> HIDE DEF b, t
    <3>3. EscapedChar(t, b) \in 0 .. 255
      BY <3>2, EscapedType
    <3> QED  BY <3>3 DEF b, t, Byte
  <2> HIDE DEF c
  <2>5. chars \in Seq(Byte)
    BY <2>4, OneByte DEF Byte
  <2> HIDE DEF Byte, chars
  <2> QED  BY <1>3, <2>1, <2>3, <2>5, LiterallyMeans
<1>8. CASE SimpleEscape(m)
  <2> DEFINE c == SimpleEscapes[s[2]]
             chars == <<c>>
  <2>1. m.rule = "simpleEscape" /\ Literally(m, chars)
    BY <1>1, <1>8, Zenon DEF SimpleEscape
  <2>2. n = 2 /\ text[at + 1] = BS /\ text[at + 2] \in DOMAIN SimpleEscapes
    BY <1>1, <2>1, Zenon DEF Spelled_
  <2>3. \A b : Within(b, m.n) => Goes(b, Position_, m.n, chars)
    <3>1. \A b : Within(b, 2) => Goes(b, Position_, 2, chars)
      <4>1. Rest(s, 0, 2)
        BY <1>2, <2>2, Zenon
      <4> QED  BY <2>2, <4>1, SimpleGoes
    <3> QED  BY <1>1, <2>2, <3>1, Zenon
  <2>4. c \in Byte
    <3>1. s[2] = text[at + 2]
      <4>1. 2 \in 1 .. n - 0 /\ (at + 0) + 2 = at + 2
        BY <1>4, <2>2
      <4>2. s[2] = text[(at + 0) + 2]
        BY <1>2, <4>1, Zenon DEF Rest
      <4> QED  BY <4>1, <4>2, Zenon
    <3> QED  BY <2>2, <3>1, SameEscapes, Zenon
  <2> HIDE DEF c
  <2>5. chars \in Seq(Byte)
    BY <2>4, OneByte DEF Byte
  <2> HIDE DEF Byte, chars
  <2> QED  BY <1>3, <2>1, <2>3, <2>5, LiterallyMeans
<1> QED  BY <1>5, <1>6, <1>7, <1>8

\* A newline in a string and a character no rule matches: neither is C.
LEMMA WrongStep ==
    ASSUME Inv, CondInv, BodyInv, Narrows, opened # 0, UNCHANGED <<lex, cond>>, at' = at + 1, at + 1 <= Len(text),
           Len(text') \in Nat, text[at + 1] = NL \/ NoEscape(at + 1)
    PROVE  CondInv' /\ BodyInv'
<1>1. /\ opened \in 0 .. at /\ at \in Nat /\ Len(text) \in Nat /\ source \in Seq(Bytes)
  BY InvPlaces
<1>2. \A b : Within(b, 1) => Read(b)[Position_] = <<BadEscape>>
  BY <1>1, WrongLies
<1>3. BodyInv'
  BY <1>1, <1>2, BodyWrong
<1>4. TextKept /\ opened' = opened
  BY Zenon DEF Narrows
<1>5. CondInv'
  BY <1>4, CondKept
<1> QED  BY <1>3, <1>5

LEMMA DisplayNarrows ==
    ASSUME Inv, DisplayLine, UNCHANGED <<source, seekable, text, opened>>
    PROVE  Narrows
<1>1. /\ Len(source) \in Nat /\ fpos \in 0 .. Len(source) /\ Len(text) \in Nat
  BY InvPlaces
<1>2. ASSUME fpos = Len(source) PROVE fpos' = Len(source)
  <2>1. CASE seekable
    BY <1>2, <2>1 DEF DisplayLine
  <2>2. CASE ~seekable
    <3>1. fpos + 1 .. Len(source) = {}
      BY <1>1, <1>2
    <3>2. {k \in fpos + 1 .. Len(source) : source[k] = NL} \cup {Len(source)} = {Len(source)}
      BY <3>1
    <3> DEFINE ends == {k \in fpos + 1 .. Len(source) : source[k] = NL} \cup {Len(source)}
    <3>3. LineEnd(fpos) = CHOOSE e \in ends : \A f \in ends : e <= f
      BY Zenon DEF LineEnd
    <3>4. ends = {Len(source)}
      BY <3>2
    <3> HIDE DEF ends
    <3>5. \E e \in ends : \A f \in ends : e <= f
      BY <1>1, <3>4
    <3>6. LineEnd(fpos) \in ends
      BY <3>3, <3>5, Zenon
    <3> QED  BY <2>2, <3>4, <3>6 DEF DisplayLine
  <2> QED  BY <2>1, <2>2
<1>3. TextKept
  BY <1>1 DEF TextKept
<1> QED  BY <1>2, <1>3, Zenon DEF Narrows

LEMMA StringNewlineMeans ==
    ASSUME Inv, CondInv, BodyInv, NEW m, Matched(m), StringNewline(m)
    PROVE  CondInv' /\ BodyInv'
<1>1. /\ m.rule = "stringNewline" /\ ConsumeLine(m.n) /\ DisplayLine
      /\ UNCHANGED <<cond, lex, opened, source, seekable, text>> /\ at' = at + m.n
  BY DEF StringNewline, ConsumeLine
<1>2. m.n = 1 /\ text[at + 1] = NL
  BY <1>1 DEF Matched, Chars
<1>3. opened # 0 /\ at + 1 <= Len(text) /\ Len(text') \in Nat
  BY <1>1, <1>2, MatchedRest, RuleLiterals, InvPlaces
<1>4. Narrows
  BY <1>1, DisplayNarrows
<1>5. at' = at + 1 /\ UNCHANGED <<lex, cond>>
  BY <1>1, <1>2
<1> QED  BY <1>2, <1>3, <1>4, <1>5, WrongStep

LEMMA SameNarrows ==
    ASSUME Inv, UNCHANGED <<file, opened>>
    PROVE  Narrows /\ TextKept
<1>1. Len(text) \in Nat /\ text' = text /\ source' = source /\ fpos' = fpos
  BY InvPlaces DEF file
<1>2. TextKept
  BY <1>1 DEF TextKept
<1> QED  BY <1>1, <1>2, Zenon DEF Narrows

LEMMA EchoMeans ==
    ASSUME Inv, CondInv, BodyInv, NEW m, Matched(m), Spelled_(m), Echo(m)
    PROVE  CondInv' /\ BodyInv'
<1>1. /\ m.rule = "default" /\ at' = at + m.n /\ UNCHANGED <<cond, lex, opened, file>> /\ text' = text
  BY DEF Echo, Consume, file
<1>2. m.n = 1
  BY <1>1 DEF Matched
<1>3. Narrows /\ TextKept
  BY <1>1, SameNarrows
<1>4. opened \in Nat /\ Len(text) \in Nat /\ Len(text') \in Nat /\ (opened = 0 <=> cond = "initial") /\ at + 1 <= Len(text)
  BY <1>1, <1>2, InvPlaces, MatchedRest
<1>5. CASE opened = 0
  <2>1. BodyInv'
    BY <1>1, <1>3, <1>4, <1>5, BodyKept
  <2>2. CondInv'
    BY <1>1, <1>3, CondKept
  <2> QED  BY <2>1, <2>2
<1>6. CASE opened # 0
  <2>1. text[at + 1] = NL \/ NoEscape(at + 1)
    BY <1>1, <1>4, <1>6, Zenon DEF Spelled_
  <2>2. at' = at + 1 /\ UNCHANGED <<lex, cond>>
    BY <1>1, <1>2
  <2> QED  BY <1>3, <1>4, <1>6, <2>1, <2>2, WrongStep
<1> QED  BY <1>5, <1>6

\* Outside of a literal.
LEMMA OutsideMeans ==
    ASSUME Inv, CondInv, BodyInv, NEW m, Matched(m),
           Newline(m) \/ Blank(m) \/ OperatorToken(m) \/ Word(m) \/ Number(m) \/ HexNumber(m)
    PROVE  CondInv' /\ BodyInv'
<1>1. m.rule \in TokenRules \cup {"newline", "blank", "openString", "openChar"} /\ UNCHANGED <<cond, lex, opened, file>>
      /\ text' = text
  BY DEF Newline, Blank, OperatorToken, Word, Number, HexNumber, Elsewhere, TokenRules, file
<1>2. opened = 0
  BY <1>1, RuleConds
<1>3. Narrows /\ TextKept
  BY <1>1, SameNarrows
<1>4. opened \in Nat /\ Len(text) \in Nat /\ Len(text') \in Nat
  BY <1>1, InvPlaces
<1>5. BodyInv'
  BY <1>1, <1>2, <1>3, <1>4, BodyKept
<1>6. CondInv'
  BY <1>1, <1>3, CondKept
<1> QED  BY <1>5, <1>6

LEMMA NoChars ==
    CharHolds(0, <<>>)
<1>1. Places(<<>>, 256) \in Nat /\ Places(<<>>, 256) = 0
  <2> DEFINE v == <<>>
             n == Len(v)
  <2>1. n = 0 /\ n \in Nat
    OBVIOUS
  <2> HIDE DEF v
  <2>2. PICK f : PlacesUpTo(f, v, 256, n) /\ Places(v, 256) = f[n]
    BY <2>1, PlacesAre
  <2>3. f[0] = 0
    <3> DEFINE b == 256
    <3>1. n \in Nat /\ PlacesUpTo(f, v, b, n)
      BY <2>1, <2>2, Zenon
    <3> HIDE DEF n, b
    <3>2. f[0] = 0 /\ \A k \in 1 .. n : f[k] = b * f[k - 1] + v[k]
      BY <3>1, PlacesStep
    <3> QED  BY <3>2
  <2> QED  BY <2>1, <2>2, <2>3 DEF v
<1>2. Wrap(0) = 0
  <2>1. PICK k \in Nat \ {0, 1} : 2^IntBits = 256 * k
    BY IntValues
  <2> QED  BY <2>1 DEF Wrap
<1>3. Len(<<>>) # 1
  OBVIOUS
<1> QED  BY <1>1, <1>2, <1>3, Zenon DEF CharHolds

LEMMA OpenMeans ==
    ASSUME Inv, CondInv, NEW m, Matched(m), OpenString(m) \/ OpenChar(m)
    PROVE  CondInv' /\ BodyInv'
<1>1. m.rule \in {"openString", "openChar"} /\ opened' = at + 1 /\ at' = at + m.n /\ text' = text
  BY DEF OpenString, OpenChar, Elsewhere, Consume, file
<1>2. m.n = 1 /\ text[at + 1] = Chars[m.rule]
  BY <1>1 DEF Matched, Chars
<1>3. at \in Nat /\ at' \in Nat /\ opened' = at'
  BY <1>1, <1>2, InvPlaces
<1>4. cond = "initial"
  BY <1>1, RuleLiterals
<1>5. lex.str = <<>>
  BY <1>4 DEF CondInv
<1>6. lex \in Literal
  BY Zenon DEF Inv, LiteralInv, Building
<1>7. CASE OpenString(m)
  <2>1. cond' = "string" /\ lex' = [lex EXCEPT !.state = "string"]
    BY <1>7, Zenon DEF OpenString
  <2>2. [lex EXCEPT !.state = "string"].state = "string" /\ [lex EXCEPT !.state = "string"].str = lex.str
    BY <1>6 DEF Literal
  <2>3. lex'.state = "string" /\ lex'.str = <<>>
    BY <1>5, <2>1, <2>2, Zenon
  <2>4. "string" # "char" /\ "string" # "charLiteral"
    OBVIOUS
  <2>5. Holds(lex', <<>>)
    BY <2>3, <2>4, Zenon DEF Holds
  <2>6. BodyInv'
    BY <1>3, <2>5, BodyBegins
  <2>7. CondInv'
    BY <2>1, <2>4, Zenon DEF CondInv
  <2> QED  BY <2>6, <2>7
<1>8. CASE OpenChar(m)
  <2>1. cond' = "charLiteral" /\ lex' = [lex EXCEPT !.state = "char", !.int = 0] /\ m.rule = "openChar"
    BY <1>8, Zenon DEF OpenChar
  <2> DEFINE l == [lex EXCEPT !.state = "char", !.int = 0]
  <2>2. l.state = "char" /\ l.str = lex.str /\ l.int = 0
    BY <1>6 DEF Literal
  <2>3. lex'.state = "char" /\ lex'.str = <<>> /\ lex'.int = 0
    BY <1>5, <2>1, <2>2, Zenon
  <2>5. Holds(lex', <<>>)
    BY <2>3, NoChars, Zenon DEF Holds
  <2>6. BodyInv'
    BY <1>3, <2>5, BodyBegins
  <2>7. text'[opened'] = SQ
    <3>1. Chars["openChar"] = SQ
      BY DEF Chars
    <3> QED  BY <1>1, <1>2, <2>1, <3>1, Zenon
  <2>8. CondInv'
    BY <2>1, <2>3, <2>7, Zenon DEF CondInv
  <2> QED  BY <2>6, <2>8
<1> QED  BY <1>7, <1>8

LEMMA CloseMeans ==
    ASSUME Inv, CondInv, BodyInv, NEW m, Matched(m), CloseString(m) \/ CloseChar(m)
    PROVE  CondInv' /\ BodyInv' /\ TokenMeans(text', token')
<1>1. /\ m.rule \in {"closeString", "closeChar"} /\ cond' = "initial" /\ opened' = 0 /\ text' = text
  BY DEF CloseString, CloseChar, Elsewhere, file
<1>2. m.n = 1 /\ at + 1 <= Len(text)
  <2>1. m.n = 1
    BY <1>1 DEF Matched, Chars
  <2> QED  BY <2>1, MatchedRest
<1>3. opened # 0 /\ (m.rule = "closeString" => lex.state = "string") /\ (m.rule = "closeChar" => cond = "charLiteral")
  <2>1. opened # 0 /\ (m.rule = "closeChar" => cond = "charLiteral")
    BY <1>1, RuleLiterals
  <2>2. m.rule = "closeString" => lex.state = "string"
    BY RuleConds
  <2> QED  BY <2>1, <2>2
<1>4. opened \in 0 .. at /\ at \in Nat /\ text \in Seq(Bytes)
  BY InvPlaces
<1>5. PICK s, b : s = SubSeq(text, opened, at + 1) /\ b = Body(s)
  BY Zenon
<1>6. PICK c \in Seq(Byte) : Holds(lex, c) /\ (~Wrong(b) => InC(b) = c)
  <2>1. b = Body(SubSeq(text, opened, at + 1))
    BY <1>5, Zenon
  <2> HIDE DEF Bytes, Byte
  <2> QED  BY <1>2, <1>3, <1>4, <2>1, BodyEnds
<1>7. s[1] = text[opened]
  <2>1. PICK o, a : o = opened /\ a = at
    BY Zenon
  <2>2. o \in Nat \ {0} /\ a \in Nat /\ o <= a /\ a + 1 <= Len(text) /\ s = SubSeq(text, o, a + 1)
    BY <1>2, <1>3, <1>4, <1>5, <2>1
  <2>3. BodyOf(s, o, a)
    <3> HIDE DEF Bytes
    <3> QED  BY <1>4, <2>2, BodyIs
  <2> QED  BY <2>1, <2>3, Zenon DEF BodyOf
<1>8. BodyInv'
  BY <1>1, Zenon DEF BodyInv
<1>9. ASSUME NEW kind, NEW value, Return(kind, value, m)
      PROVE  token'.kind = kind /\ token'.value = value /\ token'.from = opened /\ token'.to = at + 1
  <2>1. token'.kind = kind /\ token'.value = value /\ token'.to = at + m.n
        /\ token'.from = IF opened > 0 THEN opened ELSE at + 1
    BY <1>9 DEF Return
  <2>2. opened > 0
    BY <1>3, <1>4
  <2> QED  BY <1>2, <2>1, <2>2, Zenon
<1>10. CASE CloseString(m)
  <2>1. lex.state = "string" /\ "string" # "char" /\ "initial" # "charLiteral"
    BY <1>3, <1>10 DEF CloseString
  <2>2. lex \in Literal
    BY Zenon DEF Inv, LiteralInv, Building
  <2>3. lex.str = c
    BY <1>6, <2>1, Zenon DEF Holds
  <2>4. AppendTo(lex, 0).str = c \o <<0>>
    <3> DEFINE t == Append(lex.str, 0)
               d == WithRoom(Len(lex.str) + 1, lex.cap)
    <3>1. AppendTo(lex, 0) = [lex EXCEPT !.str = t, !.cap = d]
      <4>1. ~(lex.state = "char")
        BY <2>1
      <4> QED  BY <4>1, Zenon DEF AppendTo
    <3> HIDE DEF t, d
    <3>2. [lex EXCEPT !.str = t, !.cap = d].str = t
      BY <2>2 DEF Literal
    <3>3. Append(c, 0) = c \o <<0>>
      <4> DEFINE x == 0
      <4>1. x \in Byte
        BY DEF Byte
      <4> HIDE DEF x, Byte
      <4>2. Append(c, x) = c \o <<x>>
        BY <4>1, Behind
      <4> QED  BY <4>2 DEF x
    <3> QED  BY <2>3, <3>1, <3>2, <3>3, Zenon DEF t
  <2>5. PICK str, cap : str = AppendTo(lex, 0).str /\ cap = AppendTo(lex, 0).cap
    BY Zenon
  <2>6. Return("string", [str |-> str, cap |-> cap], m) /\ lex' = HandedOver(lex)
    BY <1>10, <2>5, Zenon DEF CloseString
  <2>7. token'.kind = "string" /\ token'.value = [str |-> str, cap |-> cap] /\ token'.from = opened /\ token'.to = at + 1
    BY <1>9, <2>6, Zenon
  <2>8. token'.value.str = c \o <<0>>
    <3>1. token'.value.str = str
      BY <2>7
    <3> QED  BY <2>4, <2>5, <3>1, Zenon
  <2>9. StringMeans(s, token'.value)
    BY <1>5, <1>6, <2>8, Zenon DEF StringMeans
  <2>10. "string" # "number"
    OBVIOUS
  <2>11. TokenMeans(text', token')
    BY <1>1, <1>5, <2>7, <2>9, <2>10, Zenon DEF TokenMeans
  <2>12. lex'.str = <<>>
    <3>1. HandedOver(lex).str = <<>>
      BY <2>2 DEF HandedOver, Literal
    <3> QED  BY <2>6, <3>1, Zenon
  <2>13. CondInv'
    BY <1>1, <2>1, <2>12, Zenon DEF CondInv
  <2> QED  BY <1>8, <2>11, <2>13
<1>11. CASE CloseChar(m)
  <2>1. cond = "charLiteral" /\ lex' = lex /\ Return("number", Signed(lex.int), m) /\ "charLiteral" # "string"
        /\ "initial" # "charLiteral"
    BY <1>3, <1>11 DEF CloseChar
  <2>2. lex.state = "char" /\ text[opened] = SQ /\ lex.str = <<>>
    BY <2>1, Zenon DEF CondInv
  <2>3. CharHolds(lex.int, c)
    BY <1>6, <2>2, Zenon DEF Holds
  <2>4. token'.kind = "number" /\ token'.value = Signed(lex.int) /\ token'.from = opened /\ token'.to = at + 1
    <3>1. PICK v : v = Signed(lex.int)
      BY Zenon
    <3>2. Return("number", v, m)
      BY <2>1, <3>1, Zenon
    <3>3. token'.kind = "number" /\ token'.value = v /\ token'.from = opened /\ token'.to = at + 1
      BY <1>9, <3>2, Zenon
    <3> QED  BY <3>1, <3>3, Zenon
  <2>5. CharMeans(s, token'.value)
    <3>1. ASSUME CharDefined(InC(b)) PROVE Signed(lex.int) = CharValue(InC(b))
      <4>1. InC(b) = c
        BY <1>6, <3>1, DefinedRight
      <4>2. CharDefined(c)
        BY <3>1, <4>1, Zenon
      <4>3. PICK n : n = lex.int
        BY Zenon
      <4>4. CharHolds(n, c)
        BY <2>3, <4>3, Zenon
      <4>5. Signed(n) = CharValue(c)
        <5> HIDE DEF Byte
        <5> QED  BY <4>2, <4>4, CharValues
      <4> QED  BY <4>1, <4>3, <4>5, Zenon
    <3> QED  BY <1>5, <2>4, <3>1, Zenon DEF CharMeans
  <2>6. "string" # "number"
    OBVIOUS
  <2>7. TokenMeans(text', token')
    BY <1>1, <1>5, <1>7, <2>2, <2>4, <2>5, <2>6, Zenon DEF TokenMeans
  <2>8. CondInv'
    BY <1>1, <2>1, <2>2, Zenon DEF CondInv
  <2> QED  BY <1>8, <2>7, <2>8
<1> QED  BY <1>10, <1>11

\* A token that is a number.
LEMMA NumbersMean ==
    ASSUME Inv, NEW m, Matched(m), Spelled_(m), Number(m) \/ HexNumber(m)
    PROVE  TokenMeans(text', token')
<1>1. m.rule \in TokenRules /\ text' = text
  BY DEF Number, HexNumber, Elsewhere, TokenRules, file
<1>2. opened = 0 /\ text[at + 1] # SQ
  <2>1. text[at + 1] \notin {DQ, SQ}
    BY <1>1, Zenon DEF Matched
  <2> QED  BY <1>1, <2>1, RuleConds
<1>3. PICK n, s : n = m.n /\ s = m.lexeme
  BY Zenon
<1>4. at \in Nat /\ Len(text) \in Nat /\ text \in Seq(Bytes) /\ n \in Nat \ {0} /\ n \in Nat /\ at + n <= Len(text)
  <2>1. m.n \in Nat \ {0} /\ at + m.n <= Len(text)
    BY MatchedRest
  <2> QED  BY <1>3, <2>1, InvPlaces
<1>5. s \in Seq(Bytes) /\ Len(s) = n /\ \A k \in 1 .. n : s[k] = text[at + k]
  BY <1>3, Zenon DEF Matched
<1>6. s = SubSeq(text, at + 1, at + n)
  <2>1. PICK t, a : t = text /\ a = at
    BY Zenon
  <2> DEFINE i == a + 1
             p == SubSeq(t, i, i + n - 1)
  <2>2. i \in Nat \ {0} /\ i + n <= Len(t) + 1 /\ i + n - 1 = a + n /\ t \in Seq(Bytes)
    BY <1>4, <2>1
  <2>3. ASSUME NEW k \in 1 .. n PROVE s[k] = t[i + k - 1]
    <3>1. i + k - 1 = a + k
      BY <1>4, <2>1
    <3> QED  BY <1>5, <2>1, <3>1, Zenon
  <2> HIDE DEF i, Bytes
  <2>4. s = p
    BY <1>4, <1>5, <2>2, <2>3, PartSame
  <2> QED  BY <2>1, <2>2, <2>4, Zenon DEF i
<1>7. s[1] # SQ
  <2>1. 1 \in 1 .. n
    BY <1>4
  <2> QED  BY <1>2, <1>5, <2>1, Zenon
<1>8. ASSUME NEW value, Return("number", value, m), NumberMeans(s, value) PROVE TokenMeans(text', token')
  <2>1. token'.kind = "number" /\ token'.value = value /\ token'.to = at + m.n
        /\ token'.from = IF opened > 0 THEN opened ELSE at + 1
    BY <1>8 DEF Return
  <2>2. token'.from = at + 1
    BY <1>2, <2>1
  <2>3. SubSeq(text', token'.from, token'.to) = s
    BY <1>1, <1>3, <1>6, <2>1, <2>2, Zenon
  <2>4. "string" # "number"
    OBVIOUS
  <2> QED  BY <1>7, <1>8, <2>1, <2>3, <2>4, Zenon DEF TokenMeans
<1>9. CASE Number(m)
  <2>1. m.rule = "number"
    BY <1>9, Zenon DEF Number
  <2>2. ASSUME NEW k \in 1 .. n PROVE s[k] \in Digits
    <3>1. at + k \in at + 1 .. at + m.n
      BY <1>3, <1>4
    <3>2. text[at + k] \in Digits
      BY <2>1, <3>1, Zenon DEF Spelled_
    <3> QED  BY <1>5, <3>2, Zenon
  <2>3. PICK v : v = Signed(NumberOf(s, 10))
    BY Zenon
  <2>4. Return("number", v, m)
    BY <1>3, <1>9, <2>3, Zenon DEF Number
  <2>5. NumberMeans(s, v)
    BY <1>4, <1>5, <2>2, <2>3, DecimalMeans, Zenon
  <2> QED  BY <1>8, <2>4, <2>5, Zenon
<1>10. CASE HexNumber(m)
  <2>1. m.rule = "hexNumber"
    BY <1>10, Zenon DEF HexNumber
  <2>2. n > 2 /\ text[at + 2] \in {120, 88} /\ \A j \in at + 3 .. at + n : text[j] \in HexDigits
    BY <1>3, <2>1, Zenon DEF Spelled_
  <2>3. ASSUME NEW k \in 3 .. n PROVE s[k] \in HexDigits
    <3>1. at + k \in at + 3 .. at + n /\ k \in 1 .. n
      BY <1>4
    <3> QED  BY <1>5, <2>2, <3>1, Zenon
  <2>4. s[2] \in {120, 88}
    <3>1. 2 \in 1 .. n
      BY <1>4, <2>2
    <3> QED  BY <1>5, <2>2, <3>1, Zenon
  <2>5. PICK v : v = Signed(NumberOf(SubSeq(s, 3, n), 16))
    BY Zenon
  <2>6. Return("number", v, m)
    BY <1>3, <1>10, <2>5, Zenon DEF HexNumber
  <2>7. NumberMeans(s, Signed(NumberOf(SubSeq(s, 3, n), 16)))
    <3> HIDE DEF Bytes
    <3> QED  BY <1>4, <1>5, <1>7, <2>2, <2>3, <2>4, HexMeansC
  <2> QED  BY <1>8, <2>5, <2>6, <2>7, Zenon
<1> QED  BY <1>9, <1>10

LEMMA OthersMean ==
    ASSUME NEW kind, NEW value, NEW m, Return(kind, value, m), kind \notin {"string", "number"}
    PROVE  TokenMeans(text', token')
<1>1. token'.kind = kind
  BY DEF Return
<1>2. kind # "string" /\ kind # "number"
  OBVIOUS
<1> QED  BY <1>1, <1>2, Zenon DEF TokenMeans

LEMMA NextMeans ==
    ASSUME Inv, MeanInv, [Next]_vars
    PROVE  MeanInv'
<1>0. FileInv /\ PlaceInv /\ TokenInv /\ CondInv /\ BodyInv /\ TokenMeans(text, token)
  BY DEF Inv, MeanInv
<1>1. FileInv'
  BY NextStep DEF Inv
<1>2. ASSUME TextKept, token' = token PROVE TokenMeans(text', token')
  BY <1>0, <1>1, <1>2, TokenMeansKept
<1>3. ASSUME NEW m \in Matches,
             \/ Newline(m) \/ Blank(m) \/ OperatorToken(m) \/ Word(m) \/ Number(m) \/ HexNumber(m)
             \/ OpenString(m) \/ OpenChar(m) \/ CloseString(m) \/ StringNewline(m) \/ CloseChar(m)
             \/ Octal(m) \/ HexEscape(m) \/ SimpleEscape(m) \/ StringText(m) \/ CharText(m) \/ Echo(m)
      PROVE  MeanInv'
  <2>1. Matched(m) /\ Spelled_(m)
    <3>1. FileInv /\ text \in Seq(Bytes) /\ at \in 0 .. Len(text) /\ cond \in DOMAIN RulesOf
      BY Zenon DEF Inv, FileInv, PlaceInv, LiteralInv
    <3> QED  BY <3>1, MatchesAre, SpellingOf
  <2>2. ASSUME text' = text PROVE TextKept
    <3>1. Len(text) \in Nat
      BY InvPlaces
    <3> QED  BY <2>2, <3>1 DEF TextKept
  <2>3. CASE Newline(m) \/ Blank(m)
    <3>1. token' = token /\ text' = text
      BY <2>3, Zenon DEF Newline, Blank, Elsewhere, file
    <3>2. CondInv' /\ BodyInv'
      BY <1>0, <2>1, <2>3, OutsideMeans
    <3> QED  BY <1>2, <2>2, <3>1, <3>2 DEF MeanInv
  <2>4. CASE OperatorToken(m) \/ Word(m)
    <3>1. CondInv' /\ BodyInv'
      BY <1>0, <2>1, <2>4, OutsideMeans
    <3>2. TokenMeans(text', token')
      <4>1. CASE OperatorToken(m)
        <5>1. "operator" \notin {"string", "number"}
          OBVIOUS
        <5>2. Return("operator", m.lexeme, m)
          BY <4>1, Zenon DEF OperatorToken
        <5> QED  BY <5>1, <5>2, OthersMean, Zenon
      <4>2. CASE Word(m)
        <5> DEFINE kind == IF m.lexeme \in Keywords THEN "keyword" ELSE "identifier"
        <5>1. kind \notin {"string", "number"}
          OBVIOUS
        <5>2. Return(kind, m.lexeme, m)
          BY <4>2, Zenon DEF Word
        <5> HIDE DEF kind
        <5> QED  BY <5>1, <5>2, OthersMean, Zenon
      <4> QED  BY <2>4, <4>1, <4>2
    <3> QED  BY <3>1, <3>2 DEF MeanInv
  <2>5. CASE Number(m) \/ HexNumber(m)
    <3>1. CondInv' /\ BodyInv'
      BY <1>0, <2>1, <2>5, OutsideMeans
    <3>2. TokenMeans(text', token')
      BY <2>1, <2>5, NumbersMean
    <3> QED  BY <3>1, <3>2 DEF MeanInv
  <2>6. CASE OpenString(m) \/ OpenChar(m)
    <3>1. token' = token /\ text' = text
      BY <2>6, Zenon DEF OpenString, OpenChar, Elsewhere, file
    <3>2. CondInv' /\ BodyInv'
      BY <1>0, <2>1, <2>6, OpenMeans
    <3> QED  BY <1>2, <2>2, <3>1, <3>2 DEF MeanInv
  <2>7. CASE CloseString(m) \/ CloseChar(m)
    <3>1. CondInv' /\ BodyInv' /\ TokenMeans(text', token')
      BY <1>0, <2>1, <2>7, CloseMeans
    <3> QED  BY <3>1 DEF MeanInv
  <2>8. CASE StringNewline(m)
    <3>1. token' = token /\ text' = text
      BY <2>8, Zenon DEF StringNewline
    <3>2. CondInv' /\ BodyInv'
      BY <1>0, <2>1, <2>8, StringNewlineMeans
    <3> QED  BY <1>2, <2>2, <3>1, <3>2 DEF MeanInv
  <2>9. CASE Octal(m) \/ HexEscape(m) \/ SimpleEscape(m) \/ StringText(m) \/ CharText(m)
    <3>1. token' = token /\ text' = text
      BY <2>9, Zenon DEF Octal, HexEscape, SimpleEscape, StringText, CharText, Literally, Elsewhere, file
    <3>2. CondInv' /\ BodyInv'
      BY <1>0, <2>1, <2>9, EscapeMeans
    <3> QED  BY <1>2, <2>2, <3>1, <3>2 DEF MeanInv
  <2>10. CASE Echo(m)
    <3>1. token' = token /\ text' = text
      BY <2>10, Zenon DEF Echo, file
    <3>2. CondInv' /\ BodyInv'
      BY <1>0, <2>1, <2>10, EchoMeans
    <3> QED  BY <1>2, <2>2, <3>1, <3>2 DEF MeanInv
  <2> QED  BY <1>3, <2>3, <2>4, <2>5, <2>6, <2>7, <2>8, <2>9, <2>10, Zenon
<1>4. ASSUME TextKept, Narrows, UNCHANGED <<cond, lex, opened, at>> PROVE CondInv' /\ BodyInv'
  <2>1. opened \in Nat /\ Len(text) \in Nat
    BY InvPlaces
  <2>2. Len(text') \in Nat
    <3>1. text' \in Seq(Bytes)
      BY <1>1, Zenon DEF FileInv
    <3> HIDE DEF Bytes
    <3> QED  BY <3>1, LenProperties
  <2>3. BodyInv'
    BY <1>0, <1>4, <2>1, <2>2, BodyKept
  <2>4. CondInv'
    BY <1>0, <1>4, CondKept
  <2> QED  BY <2>3, <2>4
<1>5. CASE Refill
  <2>1. UNCHANGED <<at, cond, lex, opened>> /\ token' = token /\ source' = source /\ fpos < Len(source)
    BY <1>5, Zenon DEF Refill
  <2>2. TextKept
    BY <1>0, <1>5, RefillFile
  <2>3. Narrows
    <3>1. fpos # Len(source)
      BY <2>1, InvPlaces
    <3> QED  BY <2>1, <2>2, <3>1, Zenon DEF Narrows
  <2> QED  BY <1>2, <1>4, <2>1, <2>2, <2>3 DEF MeanInv
<1>6. CASE EndOfFile
  <2>1. UNCHANGED <<file, at, cond, lex, opened>> /\ token' = [NoToken EXCEPT !.kind = "eof"]
    BY <1>6, Zenon DEF EndOfFile
  <2>2. TextKept /\ Narrows
    BY <2>1, SameNarrows
  <2>3. token'.kind = "eof" /\ "eof" # "string" /\ "eof" # "number"
    BY <2>1 DEF NoToken
  <2>4. TokenMeans(text', token')
    BY <2>3, Zenon DEF TokenMeans
  <2> QED  BY <1>4, <2>1, <2>2, <2>4 DEF MeanInv
<1>7. CASE UNCHANGED vars
  <2>1. UNCHANGED <<file, at, cond, lex, opened>> /\ token' = token
    BY <1>7 DEF vars, file
  <2>2. TextKept /\ Narrows
    BY <2>1, SameNarrows
  <2> QED  BY <1>2, <1>4, <2>1, <2>2 DEF MeanInv
<1> QED  BY <1>3, <1>5, <1>6, <1>7, Zenon DEF Next

LEMMA InitMeans ==
    ASSUME Init
    PROVE  MeanInv
<1>1. cond = "initial" /\ opened = 0 /\ lex = [state |-> "string", str |-> <<>>, cap |-> 0, int |-> 0] /\ token = NoToken
  BY Zenon DEF Init
<1>2. CondInv
  <2>1. lex.str = <<>> /\ cond # "charLiteral"
    BY <1>1
  <2> QED  BY <2>1 DEF CondInv
<1>3. BodyInv
  BY <1>1, Zenon DEF BodyInv
<1>4. TokenMeans(text, token)
  <2>1. token.kind # "string" /\ token.kind # "number"
    BY <1>1 DEF NoToken
  <2> QED  BY <2>1, Zenon DEF TokenMeans
<1> QED  BY <1>2, <1>3, <1>4 DEF MeanInv

LEMMA MeansInvariant == LiteralsSpec => [](Inv /\ MeanInv)
<1>1. LiteralsInit => Inv /\ MeanInv
  BY InitInv, InitMeans DEF LiteralsInit
<1>2. Inv /\ MeanInv /\ [Scan]_allVars => (Inv /\ MeanInv)'
  <2>1. [Scan]_allVars => [Next]_vars
    BY DEF Scan, allVars
  <2> QED  BY <2>1, NextStep, NextMeans
<1> QED  BY <1>1, <1>2, PTL DEF LiteralsSpec

(***************************************************************************)
(* The characters meant, on their way through the parser.                  *)
(***************************************************************************)
\* A part of a sequence is one of the same elements, wherever it ends.
LEMMA PartType ==
    ASSUME NEW T, NEW s \in Seq(T), NEW i \in Nat \ {0}, NEW j \in Int, j <= Len(s)
    PROVE  SubSeq(s, i, j) \in Seq(T)
<1>1. Len(s) \in Nat /\ \A k \in 1 .. Len(s) : s[k] \in T
  BY LenProperties, ElementOfSeq
<1>2. i \in Int /\ j \in Int /\ \A k \in i .. j : s[k] \in T
  BY <1>1
<1> QED  BY <1>2, SubSeqProperties

LEMMA BodyType ==
    ASSUME NEW t \in Seq(Bytes), NEW i \in Nat \ {0}, NEW j \in Nat, j <= Len(t)
    PROVE  Body(SubSeq(t, i, j)) \in Seq(Bytes)
<1> DEFINE s == SubSeq(t, i, j)
           two == 2
           n == Len(s) - 1
<1>1. s \in Seq(Bytes)
  <2>1. j \in Int
    OBVIOUS
  <2> HIDE DEF Bytes
  <2> QED  BY <2>1, PartType
<1>2. Body(s) = SubSeq(s, two, n)
  BY Zenon DEF Body
<1> HIDE DEF s
<1>3. Len(s) \in Nat
  <2> HIDE DEF Bytes
  <2> QED  BY <1>1, LenProperties
<1>4. n \in Int /\ n <= Len(s) /\ two \in Nat \ {0}
  BY <1>3
<1> HIDE DEF two, n
<1>5. SubSeq(s, two, n) \in Seq(Bytes)
  <2> HIDE DEF Bytes
  <2> QED  BY <1>1, <1>4, PartType
<1> QED  BY <1>2, <1>5, Zenon DEF s

\* The str functions see all of a string without a NUL.
LEMMA CStringIs ==
    ASSUME NEW s \in Seq(Bytes)
    PROVE  CString(s \o <<0>>) = s
<1> DEFINE n == Len(s)
           x == 0
           z == <<x>>
           b == s \o z
           T == Byte
<1>1. n \in Nat /\ \A i \in 1 .. n : s[i] \in Bytes
  <2> HIDE DEF Bytes
  <2> QED  BY LenProperties, ElementOfSeq
<1>2. z \in Seq(T) /\ s \in Seq(T) /\ Len(z) = 1 /\ z[1] = x
  <2>1. x \in T
    BY DEF Byte
  <2>2. s \in Seq(T)
    BY ByteInts
  <2> HIDE DEF x, T
  <2> QED  BY <2>1, <2>2
<1> HIDE DEF z
<1>3. b \in Seq(T) /\ Len(b) = n + 1 /\ (\A i \in 1 .. n + 1 : b[i] = IF i <= n THEN s[i] ELSE z[i - n])
  <2> HIDE DEF T
  <2>1. b \in Seq(T) /\ Len(b) = n + Len(z)
        /\ \A i \in 1 .. n + Len(z) : b[i] = IF i <= n THEN s[i] ELSE z[i - n]
    BY <1>2, ConcatProperties
  <2> QED  BY <1>2, <2>1
<1> HIDE DEF b
<1>4. DOMAIN b = 1 .. n + 1
  <2>1. DOMAIN b = 1 .. Len(b)
    BY <1>3 DEF T
  <2> QED  BY <1>3, <2>1
<1> DEFINE zeros == {i \in DOMAIN b : b[i] = 0}
           o == CHOOSE y \in zeros : \A w \in zeros : y <= w
<1>5. b[n + 1] = 0 /\ \A i \in 1 .. n : b[i] = s[i] /\ b[i] # 0
  <2>1. n + 1 \in 1 .. n + 1 /\ ~(n + 1 <= n) /\ (n + 1) - n = 1
    BY <1>1
  <2>2. b[n + 1] = 0
    BY <1>2, <1>3, <2>1
  <2>3. ASSUME NEW i \in 1 .. n PROVE b[i] = s[i] /\ b[i] # 0
    <3>1. i \in 1 .. n + 1 /\ i <= n
      BY <1>1
    <3>2. b[i] = s[i]
      BY <1>3, <3>1
    <3>3. s[i] # 0
      <4>1. s[i] \in Bytes
        BY <1>1, Zenon
      <4>2. \A w \in Bytes : w # 0
        BY DEF Bytes
      <4> QED  BY <4>1, <4>2, Zenon
    <3> QED  BY <3>2, <3>3
  <2> QED  BY <2>2, <2>3
<1>6. zeros = {n + 1}
  BY <1>1, <1>4, <1>5
<1> HIDE DEF zeros
<1>7. o = n + 1
  BY <1>1, <1>6
<1>8. CString(b) = SubSeq(b, 1, o - 1)
  BY Zenon DEF CString, zeros
<1> HIDE DEF o
<1>9. CString(b) = SubSeq(b, 1, n)
  <2>1. o - 1 = n
    BY <1>1, <1>7
  <2> QED  BY <1>8, <2>1, Zenon
<1>10. SubSeq(b, 1, n) = s
  <2> DEFINE one == 1
             p == SubSeq(b, one, one + n - 1)
  <2>1. one \in Nat \ {0} /\ n \in Nat /\ one + n <= Len(b) + 1 /\ one + n - 1 = n
    BY <1>1, <1>3
  <2>2. \A k \in 1 .. n : one + k - 1 = k
    OBVIOUS
  <2> HIDE DEF one, T
  <2>3. p \in Seq(T) /\ Len(p) = n /\ \A k \in 1 .. n : p[k] = b[one + k - 1]
    BY <1>3, <2>1, PartIs
  <2>4. \A k \in 1 .. n : p[k] = s[k]
    BY <1>5, <2>2, <2>3
  <2> HIDE DEF p
  <2>5. p = s
    BY <1>2, <2>3, <2>4, SeqEqual
  <2> QED  BY <2>1, <2>5, Zenon DEF p, one
<1> QED  BY <1>9, <1>10, Zenon DEF b, z

\* Both parts of a sequence of bytes are.
LEMMA PartsOfBytes ==
    ASSUME NEW a \in Seq(Int), NEW b \in Seq(Int), a \o b \in Seq(Bytes)
    PROVE  a \in Seq(Bytes) /\ b \in Seq(Bytes)
<1> DEFINE I == Int
           c == a \o b
           n == Len(a)
           m == Len(b)
<1>1. a \in Seq(I) /\ b \in Seq(I)
  OBVIOUS
<1> HIDE DEF I
<1>2. n \in Nat /\ m \in Nat
  BY <1>1, LenProperties
<1>3. Len(c) = n + m /\ \A i \in 1 .. n + m : c[i] = IF i <= n THEN a[i] ELSE b[i - n]
  BY <1>1, ConcatProperties
<1>4. \A i \in 1 .. n + m : c[i] \in Bytes
  <2> HIDE DEF Bytes
  <2> QED  BY <1>3, ElementOfSeq
<1>5. a = [i \in 1 .. n |-> a[i]] /\ b = [i \in 1 .. m |-> b[i]]
  BY <1>1
<1> HIDE DEF c, Bytes
<1>6. \A i \in 1 .. n : a[i] \in Bytes
  <2>1. ASSUME NEW i \in 1 .. n PROVE a[i] \in Bytes
    <3>1. i \in 1 .. n + m /\ i <= n
      BY <1>2
    <3> QED  BY <1>3, <1>4, <3>1
  <2> QED  BY <2>1
<1>7. \A i \in 1 .. m : b[i] \in Bytes
  <2>1. ASSUME NEW i \in 1 .. m PROVE b[i] \in Bytes
    <3>1. n + i \in 1 .. n + m /\ ~(n + i <= n) /\ (n + i) - n = i
      BY <1>2
    <3> QED  BY <1>3, <1>4, <3>1
  <2> QED  BY <2>1
<1> HIDE DEF n, m
<1>8. a \in Seq(Bytes)
  BY <1>2, <1>5, <1>6
<1>9. b \in Seq(Bytes)
  BY <1>2, <1>5, <1>7
<1> QED  BY <1>8, <1>9

\* The parser has what the literals mean, if C's strings can hold it.
MeantInv == meant \in Seq(Int) /\ (string # <<>> /\ meant \in Seq(Bytes) => string = meant \o <<0>>)

LEMMA SpellingMeans ==
    ASSUME NEW t \in Seq(Bytes), NEW i \in Nat \ {0}, NEW j \in Nat, j <= Len(t), NEW v, StringMeans(SubSeq(t, i, j), v),
           NEW b, b = InC(Body(SubSeq(t, i, j)))
    PROVE  b \in Seq(Int) /\ (b \in Seq(Bytes) => v.str = b \o <<0>>)
<1> DEFINE s == Body(SubSeq(t, i, j))
<1>1. s \in Seq(Bytes)
  <2> HIDE DEF Bytes
  <2> QED  BY BodyType
<1> HIDE DEF s
<1>2. b = Read(s)[1]
  BY InCReads, Zenon DEF s
<1>3. b \in Seq(Int)
  <2>1. Len(s) \in Nat
    <3> HIDE DEF Bytes
    <3> QED  BY <1>1, LenProperties
  <2>2. 1 \in 1 .. Len(s) + 1
    BY <2>1
  <2>3. \A k \in 1 .. Len(s) + 1 : Read(s)[k] \in Seq(Int)
    <3> HIDE DEF Bytes
    <3> QED  BY <1>1, ReadType
  <2> QED  BY <1>2, <2>2, <2>3, Zenon
<1>4. ASSUME b \in Seq(Bytes) PROVE v.str = b \o <<0>>
  <2>1. ~Wrong(s)
    <3>1. BadEscape \notin Bytes
      BY DEF BadEscape, Bytes
    <3>2. \A k \in 1 .. Len(b) : b[k] \in Bytes
      <4> HIDE DEF Bytes
      <4> QED  BY <1>4, ElementOfSeq
    <3>3. DOMAIN b = 1 .. Len(b)
      BY <1>4
    <3>4. BadEscape \notin ToSet(b)
      <4> HIDE DEF Bytes, BadEscape
      <4> QED  BY <3>1, <3>2, <3>3, Zenon DEF ToSet
    <3> QED  BY <3>4, Zenon DEF Wrong, s
  <2> QED  BY <2>1, Zenon DEF StringMeans, s
<1> QED  BY <1>3, <1>4

LEMMA JoinedMeans ==
    \A a \in Seq(Bytes) : \A b \in Seq(Bytes) : Joined(a \o <<0>>, b \o <<0>>) = (a \o b) \o <<0>>
<1>1. ASSUME NEW a \in Seq(Bytes), NEW b \in Seq(Bytes)
      PROVE  Joined(a \o <<0>>, b \o <<0>>) = (a \o b) \o <<0>>
  <2>1. CString(a \o <<0>>) = a /\ CString(b \o <<0>>) = b
    BY CStringIs, Zenon
  <2> QED  BY <2>1, Zenon DEF Joined
<1> QED  BY <1>1, Zenon

\* The text is not read on while a token is returned.
LEMMA TextStays ==
    ASSUME [Next]_vars
    PROVE  token' = token \/ text' = text
<1>1. UNCHANGED file => text' = text
  BY DEF file
<1>2. ASSUME NEW m,
             \/ Newline(m) \/ Blank(m) \/ OperatorToken(m) \/ Word(m) \/ Number(m) \/ HexNumber(m)
             \/ OpenString(m) \/ OpenChar(m) \/ CloseString(m) \/ StringNewline(m) \/ CloseChar(m)
             \/ Octal(m) \/ HexEscape(m) \/ SimpleEscape(m) \/ StringText(m) \/ CharText(m) \/ Echo(m)
      PROVE  token' = token \/ text' = text
  <2>1. CASE Newline(m) \/ Blank(m) \/ Echo(m) \/ OpenString(m) \/ OpenChar(m) \/ StringNewline(m)
    BY <2>1, Zenon DEF Newline, Blank, Echo, OpenString, OpenChar, StringNewline
  <2>2. CASE Octal(m) \/ HexEscape(m) \/ SimpleEscape(m) \/ StringText(m) \/ CharText(m)
    BY <2>2, Zenon DEF Octal, HexEscape, SimpleEscape, StringText, CharText, Literally
  <2>3. CASE OperatorToken(m) \/ Word(m) \/ Number(m) \/ HexNumber(m) \/ CloseChar(m) \/ CloseString(m)
    BY <1>1, <2>3, Zenon DEF OperatorToken, Word, Number, HexNumber, CloseChar, CloseString, Elsewhere
  <2> QED  BY <1>2, <2>1, <2>2, <2>3, Zenon
<1>3. CASE Refill
  BY <1>3, Zenon DEF Refill
<1>4. CASE EndOfFile
  BY <1>1, <1>4, Zenon DEF EndOfFile
<1>5. CASE UNCHANGED vars
  BY <1>5 DEF vars
<1> QED  BY <1>2, <1>3, <1>4, <1>5, Zenon DEF Next

LEMMA NextMeant ==
    ASSUME Inv, MeanInv, MeantInv, [Scan]_allVars
    PROVE  MeantInv'
<1>1. [Next]_vars
  BY DEF Scan, allVars
<1>2. Inv' /\ MeanInv'
  BY <1>1, NextStep, NextMeans
<1>3. CASE UNCHANGED <<string, meant>>
  <2>1. string' = string /\ meant' = meant
    BY <1>3
  <2> QED  BY <2>1, Zenon DEF MeantInv
<1>4. CASE TakeToken /\ text' = text
  <2>1. ASSUME token'.kind = "string"
        PROVE  /\ InC(Body(SubSeq(text', token'.from, token'.to))) \in Seq(Int)
               /\ InC(Body(SubSeq(text', token'.from, token'.to))) \in Seq(Bytes)
                      => token'.value.str = InC(Body(SubSeq(text', token'.from, token'.to))) \o <<0>>
    <3>1. PICK t, i, j, w : t = text' /\ i = token'.from /\ j = token'.to /\ w = token'.value
      BY Zenon
    <3>2. StringMeans(SubSeq(t, i, j), w)
      <4>1. TokenMeans(text', token')
        BY <1>2 DEF MeanInv
      <4> QED  BY <2>1, <3>1, <4>1, Zenon DEF TokenMeans
    <3>3. t \in Seq(Bytes) /\ i \in Nat \ {0} /\ j \in Nat /\ j <= Len(t)
      <4>1. text' \in Seq(Bytes) /\ at' \in 0 .. Len(text') /\ token'.from \in Nat /\ token'.to \in Nat /\ token'.to <= at'
            /\ (token'.kind \notin {"none", "eof"} => token'.from # 0)
        BY <1>2, Zenon DEF Inv, FileInv, PlaceInv, TokenInv
      <4>2. Len(text') \in Nat
        <5> HIDE DEF Bytes
        <5> QED  BY <4>1, LenProperties
      <4>3. token'.from # 0
        BY <2>1, <4>1
      <4>4. token'.from \in Nat \ {0} /\ token'.to <= Len(text')
        BY <4>1, <4>2, <4>3
      <4> QED  BY <3>1, <4>1, <4>4, Zenon
    <3> DEFINE c == InC(Body(SubSeq(t, i, j)))
    <3>4. c \in Seq(Int) /\ (c \in Seq(Bytes) => w.str = c \o <<0>>)
      <4> HIDE DEF Bytes
      <4> QED  BY <3>2, <3>3, SpellingMeans
    <3> QED  BY <3>1, <3>4, Zenon
  <2>2. PICK c : c = InC(Body(SubSeq(text', token'.from, token'.to)))
    BY Zenon
  <2>3. token'.kind = "string" => c \in Seq(Int) /\ (c \in Seq(Bytes) => token'.value.str = c \o <<0>>)
    BY <2>1, <2>2, Zenon
  <2>4. CASE token'.kind = "string" /\ string # <<>>
    <3>1. string' = Joined(string, token'.value.str) /\ meant' = meant \o c
      BY <1>4, <2>2, <2>4, Zenon DEF TakeToken, Spelled
    <3>2. PICK a, x, y : a = meant /\ x = string /\ y = token'.value.str
      BY Zenon
    <3>3. a \in Seq(Int) /\ (a \in Seq(Bytes) => x = a \o <<0>>)
      BY <2>4, <3>2, Zenon DEF MeantInv
    <3>4. c \in Seq(Int) /\ (c \in Seq(Bytes) => y = c \o <<0>>)
      BY <2>3, <2>4, <3>2, Zenon
    <3>5. a \o c \in Seq(Int)
      BY <3>3, <3>4, IntSeqs, Zenon
    <3>6. ASSUME a \o c \in Seq(Bytes) PROVE Joined(x, y) = (a \o c) \o <<0>>
      <4>1. a \in Seq(Bytes) /\ c \in Seq(Bytes)
        <5> HIDE DEF Bytes
        <5> QED  BY <3>3, <3>4, <3>6, PartsOfBytes
      <4>2. x = a \o <<0>> /\ y = c \o <<0>>
        BY <3>3, <3>4, <4>1, Zenon
      <4> QED  BY <4>1, <4>2, JoinedMeans, Zenon
    <3>7. string' = Joined(x, y) /\ meant' = a \o c
      BY <3>1, <3>2, Zenon
    <3> QED  BY <3>5, <3>6, <3>7, Zenon DEF MeantInv
  <2>5. CASE token'.kind = "string" /\ ~(string # <<>>)
    <3>1. string' = token'.value.str /\ meant' = c
      BY <1>4, <2>2, <2>5, Zenon DEF TakeToken, Spelled
    <3> QED  BY <2>3, <2>5, <3>1, Zenon DEF MeantInv
  <2>6. CASE token'.kind # "string"
    <3>1. string' = <<>> /\ meant' = <<>>
      BY <1>4, <2>6, Zenon DEF TakeToken
    <3> QED  BY <3>1, IntSeqs, Zenon DEF MeantInv
  <2> QED  BY <2>4, <2>5, <2>6
<1>5. token' = token \/ text' = text
  BY <1>1, TextStays
<1>6. UNCHANGED <<string, meant>> \/ (token' # token /\ TakeToken)
  BY Zenon DEF Scan, allVars
<1> QED  BY <1>3, <1>4, <1>5, <1>6

LEMMA MeantInvariant == LiteralsSpec => [](Inv /\ MeantInv)
<1>1. LiteralsInit => Inv /\ MeanInv /\ MeantInv
  <2>1. LiteralsInit => Inv /\ MeanInv
    BY InitInv, InitMeans DEF LiteralsInit
  <2>2. LiteralsInit => MeantInv
    <3>1. LiteralsInit => string = <<>> /\ meant = <<>>
      BY DEF LiteralsInit, ParserInit
    <3> QED  BY <3>1, IntSeqs, Zenon DEF MeantInv
  <2> QED  BY <2>1, <2>2
<1>2. Inv /\ MeanInv /\ MeantInv /\ [Scan]_allVars => (Inv /\ MeanInv /\ MeantInv)'
  <2>1. [Scan]_allVars => [Next]_vars
    BY DEF Scan, allVars
  <2> QED  BY <2>1, NextStep, NextMeans, NextMeant
<1> QED  BY <1>1, <1>2, PTL DEF LiteralsSpec

(***************************************************************************)
(* What util_escape_str writes.                                            *)
(***************************************************************************)
LEMMA AppendedIs ==
    ASSUME NEW b, NEW c
    PROVE  Appended(b, c).str = Append(b.str, c)
<1> DEFINE cap == IF Len(b.str) + 1 >= b.cap THEN 2 * b.cap ELSE b.cap
           s == Append(b.str, c)
           held == b.held /\ Len(b.str) < cap
<1>1. Appended(b, c) = [str |-> s, cap |-> cap, held |-> held]
  BY Zenon DEF Appended
<1> HIDE DEF cap, s, held
<1>2. [str |-> s, cap |-> cap, held |-> held].str = s
  OBVIOUS
<1> QED  BY <1>1, <1>2, Zenon DEF s

\* append_char, one after the other, writes what it is given.
LEMMA AppendedAllWrites ==
    ASSUME NEW T, NEW chars \in Seq(T)
    PROVE  AppendedAll(chars).str = chars
<1> DEFINE n == Len(chars)
           one == 1
           first == [str |-> <<>>, cap |-> EscapeCapacity, held |-> TRUE]
<1>1. n \in Nat /\ one \in Nat \ {0} /\ one \in Int
  BY LenProperties
<1>2. PICK f : BufferUpTo(f, chars, n) /\ AppendedAll(chars) = f[n]
  BY <1>1, AppendedAllIs
<1>3. \A i \in 0 .. n : f[i] = IF i = 0 THEN first ELSE Appended(f[i - 1], chars[i])
  BY <1>2, Zenon DEF BufferUpTo
<1>4. first.str = <<>>
  OBVIOUS
<1> HIDE DEF first, n
<1> DEFINE G == {k \in Nat : k <= n => f[k].str = SubSeq(chars, one, k)}
<1>5. 0 \in G
  <2> DEFINE z == 0
  <2>1. z \in 0 .. n /\ z \in Int /\ z < one /\ z = 0
    BY <1>1
  <2>2. f[z] = first
    BY <1>3, <2>1
  <2> HIDE DEF z, one
  <2>3. SubSeq(chars, one, z) = <<>>
    BY <1>1, <2>1, SubSeqEmpty
  <2>4. f[z].str = SubSeq(chars, one, z)
    BY <1>4, <2>2, <2>3, Zenon
  <2> QED  BY <2>1, <2>4
<1>6. ASSUME NEW k \in Nat, k < n, k \in G PROVE k + 1 \in G
  <2> DEFINE j == k + 1
  <2>1. j \in 0 .. n /\ j # 0 /\ j - 1 = k /\ j \in Nat /\ k <= n /\ one \in 1 .. n /\ j \in one .. n
    BY <1>1, <1>6
  <2>2. f[k].str = SubSeq(chars, one, k)
    BY <1>6, <2>1
  <2> HIDE DEF j, G, one
  <2>3. f[j] = Appended(f[k], chars[j])
    BY <1>3, <2>1
  <2>4. f[j].str = Append(SubSeq(chars, one, k), chars[j])
    BY <2>2, <2>3, AppendedIs, Zenon
  <2>5. SubSeq(chars, one, j) = Append(SubSeq(chars, one, k), chars[j])
    <3>1. SubSeq(chars, one, j) = SubSeq(chars, one, k) \o <<chars[j]>>
      <4>1. one \in 1 .. Len(chars) /\ j \in one .. Len(chars)
        BY <2>1, Zenon DEF n
      <4>2. SubSeq(chars, one, j) = SubSeq(chars, one, j - 1) \o <<chars[j]>>
        BY <4>1, SubSeqRecursiveSecond
      <4> QED  BY <2>1, <4>2, Zenon
    <3> DEFINE p == SubSeq(chars, one, k)
               c == chars[j]
    <3>2. p \in Seq(T) /\ c \in T
      <4>1. k \in Int /\ k <= Len(chars) /\ j \in 1 .. Len(chars)
        BY <1>1, <2>1 DEF n
      <4> QED  BY <1>1, <4>1, PartType, ElementOfSeq
    <3>3. p \o <<c>> = Append(p, c)
      <4> HIDE DEF p, c
      <4> QED  BY <3>2, AppendIsConcat
    <3> QED  BY <3>1, <3>3, Zenon
  <2>6. f[j].str = SubSeq(chars, one, j)
    BY <2>4, <2>5, Zenon
  <2> QED  BY <2>1, <2>6 DEF j, G
<1> HIDE DEF G
<1>7. n \in 0 .. n /\ n <= n
  BY <1>1
<1>8. n \in G
  BY <1>1, <1>5, <1>6, <1>7, UpTo
<1>9. f[n].str = SubSeq(chars, one, n)
  BY <1>7, <1>8 DEF G
<1>10. SubSeq(chars, one, n) = chars
  BY SubSeqFull DEF n, one
<1> QED  BY <1>2, <1>9, <1>10, Zenon

\* The characters a string of C can carry, and how each is written.
Kept == (1 .. 127) \ {DQ, BS}
Bare == 32 .. 126
Named == {8, TAB, NL, CR}
HexOf(c) == <<BS, 120, HexChar(c \div 16), HexChar(c % 16)>>
NameOf(c) == IF c = NL THEN 110 ELSE IF c = 8 THEN 98 ELSE IF c = CR THEN 114 ELSE 116
Form(c) == IF c \in Bare THEN <<c>> ELSE IF c \in Named THEN <<BS, NameOf(c)>> ELSE HexOf(c)

\* Two digits of \x are digits, and make up the character.
LEMMA HexCharIs ==
    ASSUME NEW val \in 0 .. 15
    PROVE  HexChar(val) \in HexDigits /\ HexChar(val) \in Bytes /\ DigitValue(HexChar(val)) = val
<1>1. HexChar(val) = IF val < 10 THEN 48 + val ELSE 55 + val
  BY Zenon DEF HexChar
<1>2. CASE val < 10
  <2>1. HexChar(val) = 48 + val /\ val \in 0 .. 9
    BY <1>1, <1>2
  <2> QED  BY <2>1 DEF HexDigits, Digits, Bytes, DigitValue
<1>3. CASE ~(val < 10)
  <2>1. HexChar(val) = 55 + val /\ val \in 10 .. 15
    BY <1>1, <1>3
  <2>2. HexChar(val) \in 65 .. 70 /\ HexChar(val) \notin Digits /\ ~(HexChar(val) >= 97)
    BY <2>1 DEF Digits
  <2>3. DigitValue(HexChar(val)) = HexChar(val) - 55
    BY <2>2, Zenon DEF DigitValue
  <2>4. HexChar(val) - 55 = val
    BY <2>1
  <2>5. HexChar(val) \in Bytes
    BY <2>2 DEF Bytes
  <2> QED  BY <2>2, <2>3, <2>4, <2>5 DEF HexDigits
<1> QED  BY <1>2, <1>3

LEMMA KeptParts ==
    ASSUME NEW c \in Kept
    PROVE  /\ c \in Bytes /\ c \div 16 \in 0 .. 15 /\ c % 16 \in 0 .. 15 /\ 16 * (c \div 16) + (c % 16) = c
           /\ c % 256 = c /\ c # DQ /\ c # BS
<1>1. c \in 1 .. 127 /\ c # DQ /\ c # BS
  BY DEF Kept
<1>2. c \in Bytes
  BY <1>1 DEF Bytes
<1> QED  BY <1>1, <1>2

LEMMA FormIs ==
    ASSUME NEW c \in Kept
    PROVE  Escaped(c) = Form(c)
<1>1. c \in 1 .. 127
  BY DEF Kept
<1>2. SignedChar(c) = c
  BY <1>1 DEF SignedChar
<1>3. CASE c \in Bare
  <2>1. c \in 32 .. 126
    BY <1>3 DEF Bare
  <2>2. c # NL /\ c # 8 /\ c # CR /\ c # TAB
    BY <2>1 DEF NL, CR, TAB
  <2>3. Escaped(c) = <<c>>
    BY <2>1, <2>2, Zenon DEF Escaped
  <2> QED  BY <1>3, <2>3, Zenon DEF Form
<1>4. CASE c \notin Bare /\ c \in Named
  <2>1. c \notin 32 .. 126
    BY <1>4 DEF Bare
  <2>2. c = NL \/ c = 8 \/ c = CR \/ c = TAB
    BY <1>4 DEF Named
  <2>3. 8 # NL /\ CR # NL /\ TAB # NL /\ CR # 8 /\ TAB # 8 /\ TAB # CR
    BY DEF NL, CR, TAB
  <2>4. Form(c) = <<BS, NameOf(c)>>
    BY <1>4, Zenon DEF Form
  <2>5. CASE c = NL
    BY <2>1, <2>3, <2>4, <2>5, Zenon DEF Escaped, NameOf
  <2>6. CASE c = 8
    BY <2>1, <2>3, <2>4, <2>6, Zenon DEF Escaped, NameOf
  <2>7. CASE c = CR
    BY <2>1, <2>3, <2>4, <2>7, Zenon DEF Escaped, NameOf
  <2>8. CASE c = TAB
    BY <2>1, <2>3, <2>4, <2>8, Zenon DEF Escaped, NameOf
  <2> QED  BY <2>2, <2>5, <2>6, <2>7, <2>8
<1>5. CASE c \notin Bare /\ c \notin Named
  <2>1. c \notin 32 .. 126 /\ c # NL /\ c # 8 /\ c # CR /\ c # TAB
    BY <1>5 DEF Bare, Named
  <2>2. Escaped(c) = <<BS, 120>> \o HexPair(c)
    BY <2>1, Zenon DEF Escaped
  <2>3. HexPair(c) = <<HexChar(c \div 16), HexChar(c % 16)>>
    BY <1>2, Zenon DEF HexPair
  <2>4. <<BS, 120>> \o HexPair(c) = HexOf(c)
    <3>1. PICK a, b, x, y : a = BS /\ b = 120 /\ x = HexChar(c \div 16) /\ y = HexChar(c % 16)
      BY Zenon
    <3>2. a \in Bytes /\ b \in Bytes /\ x \in Bytes /\ y \in Bytes
      <4>1. BS \in Bytes /\ 120 \in Bytes
        BY DEF BS, Bytes
      <4>2. HexChar(c \div 16) \in Bytes /\ HexChar(c % 16) \in Bytes
        BY KeptParts, HexCharIs
      <4> QED  BY <3>1, <4>1, <4>2, Zenon
    <3>3. <<a, b>> \o <<x, y>> = <<a, b, x, y>>
      <4> DEFINE T == Bytes
                 s == <<a, b>>
                 t == <<x, y>>
                 u == <<a, b, x, y>>
      <4>1. s \in Seq(T) /\ t \in Seq(T) /\ u \in Seq(T) /\ Len(s) = 2 /\ Len(t) = 2 /\ Len(u) = 4
        <5> HIDE DEF Bytes
        <5> QED  BY <3>2
      <4>2. s[1] = a /\ s[2] = b /\ t[1] = x /\ t[2] = y /\ u[1] = a /\ u[2] = b /\ u[3] = x /\ u[4] = y
        OBVIOUS
      <4> HIDE DEF T, s, t, u
      <4>3. s \o t \in Seq(T) /\ Len(s \o t) = Len(s) + Len(t)
            /\ \A i \in 1 .. Len(s) + Len(t) : (s \o t)[i] = IF i <= Len(s) THEN s[i] ELSE t[i - Len(s)]
        BY <4>1, ConcatProperties
      <4>4. Len(s \o t) = 4 /\ \A i \in 1 .. 4 : (s \o t)[i] = IF i <= 2 THEN s[i] ELSE t[i - 2]
        BY <4>1, <4>3
      <4>5. \A i \in 1 .. 4 : i = 1 \/ i = 2 \/ i = 3 \/ i = 4
        OBVIOUS
      <4>6. (s \o t)[1] = u[1] /\ (s \o t)[2] = u[2] /\ (s \o t)[3] = u[3] /\ (s \o t)[4] = u[4]
        BY <4>2, <4>4
      <4> DEFINE v == s \o t
                 four == 4
      <4>7. Len(v) = four /\ Len(u) = four /\ v \in Seq(T)
        BY <4>1, <4>3, <4>4
      <4>8. \A i \in 1 .. four : v[i] = u[i]
        BY <4>5, <4>6, Zenon
      <4> HIDE DEF v, four
      <4>9. v = u
        BY <4>1, <4>7, <4>8, SeqEqual
      <4> QED  BY <4>9, Zenon DEF v, s, t, u
    <3> QED  BY <2>3, <3>1, <3>3, Zenon DEF HexOf
  <2>5. Form(c) = HexOf(c)
    BY <1>5, Zenon DEF Form
  <2> QED  BY <2>2, <2>4, <2>5, Zenon
<1> QED  BY <1>3, <1>4, <1>5

LEMMA FormType ==
    ASSUME NEW c \in Kept
    PROVE  /\ Form(c) \in Seq(Bytes)
           /\ Len(Form(c)) = IF c \in Bare THEN 1 ELSE IF c \in Named THEN 2 ELSE 4
           /\ Form(c)[1] = IF c \in Bare THEN c ELSE BS
<1>1. c \in Bytes /\ c \div 16 \in 0 .. 15 /\ c % 16 \in 0 .. 15
  BY KeptParts
<1>2. BS \in Bytes /\ 120 \in Bytes /\ NameOf(c) \in Bytes
  BY DEF Bytes, BS, NameOf
<1>3. HexChar(c \div 16) \in Bytes /\ HexChar(c % 16) \in Bytes
  BY <1>1, HexCharIs
<1> HIDE DEF Bytes
<1>4. CASE c \in Bare
  <2>1. Form(c) = <<c>>
    BY <1>4, Zenon DEF Form
  <2> QED  BY <1>1, <1>4, <2>1
<1>5. CASE c \notin Bare /\ c \in Named
  <2>1. Form(c) = <<BS, NameOf(c)>>
    BY <1>5, Zenon DEF Form
  <2> QED  BY <1>2, <1>5, <2>1
<1>6. CASE c \notin Bare /\ c \notin Named
  <2>1. Form(c) = <<BS, 120, HexChar(c \div 16), HexChar(c % 16)>>
    BY <1>6, Zenon DEF Form, HexOf
  <2> QED  BY <1>2, <1>3, <1>6, <2>1
<1> QED  BY <1>4, <1>5, <1>6

LEMMA FormInHex ==
    ASSUME NEW c \in Kept, c \notin Bare, c \notin Named
    PROVE  WrittenInHex(c)
<1>1. Len(Form(c)) = 4
  BY FormType
<1> QED  BY <1>1, FormIs, Zenon DEF WrittenInHex

(***************************************************************************)
(* Where each character stands in the escaped string.                      *)
(***************************************************************************)
Prefix(a, b) == Len(a) <= Len(b) /\ \A j \in 1 .. Len(a) : b[j] = a[j]
\* The form of c stands behind the first o characters of e.
Lies(e, o, c) == o + Len(Form(c)) <= Len(e) /\ \A d \in 1 .. Len(Form(c)) : e[o + d] = Form(c)[d]

LEMMA ConcatPrefix ==
    ASSUME NEW T, NEW a \in Seq(T), NEW b \in Seq(T)
    PROVE  Prefix(a, a \o b)
<1>1. Len(a) \in Nat /\ Len(b) \in Nat
  BY LenProperties
<1>2. Len(a \o b) = Len(a) + Len(b) /\ \A i \in 1 .. Len(a) + Len(b) : (a \o b)[i] = IF i <= Len(a) THEN a[i] ELSE b[i - Len(a)]
  BY ConcatProperties
<1> DEFINE n == Len(a)
           c == a \o b
<1>3. n <= Len(c)
  BY <1>1, <1>2
<1>4. ASSUME NEW j \in 1 .. n PROVE c[j] = a[j]
  <2>1. j \in 1 .. Len(a) + Len(b) /\ j <= Len(a)
    BY <1>1
  <2> QED  BY <1>2, <2>1
<1> QED  BY <1>3, <1>4, Zenon DEF Prefix

LEMMA PrefixPrefix ==
    ASSUME NEW a, NEW b, NEW c, Len(a) \in Nat, Len(b) \in Nat, Len(c) \in Nat, Prefix(a, b), Prefix(b, c)
    PROVE  Prefix(a, c)
<1>1. Len(a) <= Len(b) /\ Len(b) <= Len(c) /\ (\A j \in 1 .. Len(a) : b[j] = a[j]) /\ (\A j \in 1 .. Len(b) : c[j] = b[j])
  BY Zenon DEF Prefix
<1>2. Len(a) <= Len(c) /\ \A j \in 1 .. Len(a) : j \in 1 .. Len(b)
  BY <1>1
<1> QED  BY <1>1, <1>2, Zenon DEF Prefix

\* The escaped string of the characters before each.
Escapes(f, s) ==
    /\ f[0] = <<>> /\ \A k \in 0 .. Len(s) : f[k] \in Seq(Bytes)
    /\ \A k \in 1 .. Len(s) : f[k] = f[k - 1] \o Form(s[k])

LEMMA EscapesExist ==
    ASSUME NEW s \in Seq(Kept)
    PROVE  \E f : Escapes(f, s) /\ EscapedAll(s) = f[Len(s)]
<1> DEFINE n == Len(s)
<1>1. n \in Nat /\ \A k \in 1 .. n : s[k] \in Kept
  <2> HIDE DEF n
  <2>1. Len(s) \in Nat /\ \A k \in 1 .. Len(s) : s[k] \in Kept
    BY LenProperties, ElementOfSeq
  <2> QED  BY <2>1 DEF n
<1>2. PICK f : EscapedUpTo(f, s, n) /\ EscapedAll(s) = f[n]
  BY <1>1, EscapedAllIs
<1> HIDE DEF n
<1>3. \A i \in 0 .. n : f[i] = IF i = 0 THEN <<>> ELSE f[i - 1] \o Escaped(s[i])
  BY <1>2, Zenon DEF EscapedUpTo
<1>4. f[0] = <<>>
  BY <1>1, <1>3
<1>5. ASSUME NEW k \in 1 .. n PROVE f[k] = f[k - 1] \o Form(s[k])
  <2>1. k \in 0 .. n /\ k # 0
    BY <1>1
  <2>2. f[k] = f[k - 1] \o Escaped(s[k])
    BY <1>3, <2>1, Zenon
  <2>3. Escaped(s[k]) = Form(s[k])
    BY <1>1, FormIs
  <2> QED  BY <2>2, <2>3, Zenon
<1> DEFINE G == {k \in Nat : k <= n => f[k] \in Seq(Bytes)}
<1>6. 0 \in G
  <2> HIDE DEF Bytes
  <2> QED  BY <1>4, EmptySeq
<1>7. ASSUME NEW k \in Nat, k < n, k \in G PROVE k + 1 \in G
  <2> DEFINE j == k + 1
  <2>1. j \in 1 .. n /\ j - 1 = k /\ j \in Nat /\ k <= n
    BY <1>1, <1>7
  <2>2. f[k] \in Seq(Bytes)
    BY <1>7, <2>1
  <2> HIDE DEF j, G, Bytes
  <2>3. f[j] = f[k] \o Form(s[j])
    BY <1>5, <2>1
  <2>4. Form(s[j]) \in Seq(Bytes)
    BY <1>1, <2>1, FormType
  <2>5. f[k] \o Form(s[j]) \in Seq(Bytes)
    BY <2>2, <2>4, ConcatProperties
  <2>6. f[j] \in Seq(Bytes)
    BY <2>3, <2>5, Zenon
  <2> QED  BY <2>1, <2>6 DEF j, G
<1> HIDE DEF G
<1>8. \A k \in 0 .. n : k \in G
  BY <1>1, <1>6, <1>7, UpTo
<1>9. \A k \in 0 .. n : f[k] \in Seq(Bytes)
  BY <1>1, <1>8 DEF G
<1> QED  BY <1>2, <1>4, <1>5, <1>9, Zenon DEF Escapes, n

LEMMA EscapesLie ==
    ASSUME NEW s \in Seq(Kept), NEW f, Escapes(f, s), NEW k \in 1 .. Len(s)
    PROVE  Lies(f[Len(s)], Len(f[k - 1]), s[k]) /\ Len(f[k]) = Len(f[k - 1]) + Len(Form(s[k]))
<1> DEFINE n == Len(s)
<1>1. n \in Nat /\ \A j \in 1 .. n : s[j] \in Kept
  <2>1. Len(s) \in Nat /\ \A j \in 1 .. Len(s) : s[j] \in Kept
    BY LenProperties, ElementOfSeq
  <2> QED  BY <2>1
<1>2. /\ \A j \in 0 .. n : f[j] \in Seq(Bytes)
      /\ \A j \in 1 .. n : f[j] = f[j - 1] \o Form(s[j])
  BY Zenon DEF Escapes
<1> HIDE DEF n
<1>3. \A j \in 0 .. n : Len(f[j]) \in Nat
  <2> HIDE DEF Bytes
  <2> QED  BY <1>2, LenProperties
<1> DEFINE G == {j \in Nat : k <= j /\ j <= n => Prefix(f[k], f[j])}
<1>4. k \in 1 .. n /\ k \in 0 .. n /\ k - 1 \in 0 .. n /\ k \in Nat /\ n \in 0 .. n /\ k <= n
  BY <1>1 DEF n
<1>5. 0 \in G
  BY <1>4
<1>6. ASSUME NEW j \in Nat, j < n, j \in G PROVE j + 1 \in G
  <2>1. j + 1 \in Nat /\ j + 1 \in 1 .. n /\ j + 1 \in 0 .. n /\ j \in 0 .. n /\ j <= n /\ (j + 1) - 1 = j
    BY <1>1, <1>6
  <2>2. CASE k <= j
    <3>1. Prefix(f[k], f[j])
      BY <1>6, <2>1, <2>2
    <3>2. f[j + 1] = f[j] \o Form(s[j + 1])
      BY <1>2, <2>1
    <3>3. Form(s[j + 1]) \in Seq(Bytes) /\ f[j] \in Seq(Bytes)
      BY <1>1, <1>2, <2>1, FormType
    <3>4. Prefix(f[j], f[j] \o Form(s[j + 1]))
      <4> HIDE DEF Bytes
      <4> QED  BY <3>3, ConcatPrefix
    <3>5. Prefix(f[j], f[j + 1])
      BY <3>2, <3>4, Zenon
    <3>6. Len(f[k]) \in Nat /\ Len(f[j]) \in Nat /\ Len(f[j + 1]) \in Nat
      BY <1>3, <1>4, <2>1
    <3> HIDE DEF G
    <3>7. Prefix(f[k], f[j + 1])
      BY <3>1, <3>5, <3>6, PrefixPrefix
    <3> QED  BY <2>1, <3>7 DEF G
  <2>3. CASE ~(k <= j)
    <3>1. k <= j + 1 => k = j + 1
      BY <1>4, <2>3
    <3>2. Prefix(f[k], f[k])
      <4>1. Len(f[k]) \in Nat
        BY <1>3, <1>4
      <4> QED  BY <4>1 DEF Prefix
    <3> QED  BY <2>1, <3>1, <3>2
  <2> QED  BY <2>2, <2>3
<1> HIDE DEF G
<1>7. n \in G
  BY <1>1, <1>4, <1>5, <1>6, UpTo
<1>8. Prefix(f[k], f[n])
  BY <1>1, <1>4, <1>7 DEF G
<1> DEFINE o == Len(f[k - 1])
           p == Form(s[k])
           m == Len(p)
<1>9. f[k] = f[k - 1] \o p /\ f[k - 1] \in Seq(Bytes) /\ p \in Seq(Bytes)
  BY <1>1, <1>2, <1>4, FormType
<1> HIDE DEF p
<1>10. o \in Nat /\ m \in Nat /\ Len(f[k]) = o + m /\ \A i \in 1 .. o + m : f[k][i] = IF i <= o THEN f[k - 1][i] ELSE p[i - o]
  <2> DEFINE a == f[k - 1]
             b == f[k]
  <2>1. b = a \o p /\ a \in Seq(Bytes) /\ p \in Seq(Bytes)
    BY <1>9
  <2> HIDE DEF Bytes, a, b
  <2>2. Len(a) \in Nat /\ Len(p) \in Nat /\ Len(a \o p) = Len(a) + Len(p)
        /\ \A i \in 1 .. Len(a) + Len(p) : (a \o p)[i] = IF i <= Len(a) THEN a[i] ELSE p[i - Len(a)]
    BY <2>1, ConcatProperties, LenProperties
  <2> QED  BY <2>1, <2>2, Zenon DEF a, b
<1>11. Len(f[k]) <= Len(f[n]) /\ \A j \in 1 .. Len(f[k]) : f[n][j] = f[k][j]
  BY <1>8, Zenon DEF Prefix
<1>12. Len(f[n]) \in Nat
  BY <1>3, <1>4
<1> HIDE DEF o, m
<1>13. ASSUME NEW d \in 1 .. m PROVE f[n][o + d] = p[d]
  <2>1. o + d \in 1 .. o + m /\ ~(o + d <= o) /\ (o + d) - o = d
    BY <1>10
  <2>2. f[k][o + d] = p[d]
    BY <1>10, <2>1
  <2> QED  BY <1>10, <1>11, <2>1, <2>2
<1>14. o + m <= Len(f[n])
  BY <1>10, <1>11, <1>12
<1> QED  BY <1>10, <1>13, <1>14, Zenon DEF Lies, o, m, p, n

(***************************************************************************)
(* What the assembler reads.                                               *)
(***************************************************************************)
GRead(s, i, from) ==
            IF i > Len(s) THEN <<0>>
            ELSE IF s[i] = DQ \/ s[i] = Undefined THEN <<Undefined>>
            ELSE IF s[i] # BS THEN <<s[i]>> \o from[i + 1]
            ELSE IF i = Len(s) THEN <<Undefined>>
            ELSE IF s[i + 1] \in DOMAIN GasEscapes THEN <<GasEscapes[s[i + 1]]>> \o from[i + 2]
            ELSE IF s[i + 1] = 120
            THEN LET n == CountAt(s, i + 2, HexDigits, Many)
                 IN  <<ValueAt(s, i + 2, n, 16) % 256>> \o from[i + 2 + n]
            ELSE LET n == CountAt(s, i + 1, OctalDigits, 3)
                 IN  IF n = 0 THEN <<s[i + 1]>> \o from[i + 2]
                     ELSE <<ValueAt(s, i + 1, n, 8) % 256>> \o from[i + 1 + n]
GFrom(f, s) == f = [i \in 1 .. Len(s) + 1 |-> GRead(s, i, f)]

\* It ends, or has a character and goes on behind it.
GGoesOn(s, i) ==
    \/ \E c : \A f : GRead(s, i, f) = c
    \/ \E v : \E j \in i + 1 .. Len(s) + 1 : \A f : GRead(s, i, f) = <<v>> \o f[j]
LEMMA GReadIs ==
    ASSUME NEW s, Len(s) \in Nat, NEW i \in 1 .. Len(s)
    PROVE  GGoesOn(s, i)
<1>0. ~(i > Len(s)) /\ i \in Nat
  OBVIOUS
<1>1. CASE s[i] = DQ \/ s[i] = Undefined
  <2>1. \A f : GRead(s, i, f) = <<Undefined>>
    BY <1>0, <1>1, Zenon DEF GRead
  <2> QED  BY <2>1, Zenon DEF GGoesOn
<1>2. CASE ~(s[i] = DQ \/ s[i] = Undefined) /\ s[i] # BS
  <2>1. \A f : GRead(s, i, f) = <<s[i]>> \o f[i + 1]
    BY <1>0, <1>2, Zenon DEF GRead
  <2>2. i + 1 \in i + 1 .. Len(s) + 1
    OBVIOUS
  <2> QED  BY <2>1, <2>2, Zenon DEF GGoesOn
<1>3. CASE ~(s[i] = DQ \/ s[i] = Undefined) /\ s[i] = BS /\ i = Len(s)
  <2>1. \A f : GRead(s, i, f) = <<Undefined>>
    BY <1>0, <1>3, Zenon DEF GRead
  <2> QED  BY <2>1, Zenon DEF GGoesOn
<1>4. CASE ~(s[i] = DQ \/ s[i] = Undefined) /\ s[i] = BS /\ i # Len(s)
  <2>1. i + 2 \in i + 1 .. Len(s) + 1 /\ i + 2 \in 1 .. Len(s) + 1 /\ i + 1 \in 1 .. Len(s) + 1
    BY <1>4
  <2>2. CASE s[i + 1] \in DOMAIN GasEscapes
    <3>1. \A f : GRead(s, i, f) = <<GasEscapes[s[i + 1]]>> \o f[i + 2]
      BY <1>0, <1>4, <2>2, Zenon DEF GRead
    <3> QED  BY <2>1, <3>1, Zenon DEF GGoesOn
  <2>3. CASE s[i + 1] \notin DOMAIN GasEscapes /\ s[i + 1] = 120
    <3> DEFINE first == i + 2
               n == CountAt(s, first, HexDigits, Many)
    <3>1. \A f : GRead(s, i, f) = <<ValueAt(s, i + 2, n, 16) % 256>> \o f[i + 2 + n]
      BY <1>0, <1>4, <2>3, Zenon DEF GRead
    <3>2. Counted(s, first, HexDigits, Many, n)
      <4>1. Many \in Nat
        BY DEF Many
      <4> HIDE DEF first, Many
      <4> QED  BY <2>1, <4>1, CountIs DEF first
    <3>3. n \in 0 .. Len(s) - first + 1
      BY <3>2, Zenon DEF Counted
    <3> HIDE DEF n
    <3>4. i + 2 + n \in i + 1 .. Len(s) + 1
      BY <2>1, <3>3
    <3> DEFINE v == ValueAt(s, i + 2, n, 16) % 256
               j == i + 2 + n
    <3>5. (\A f : GRead(s, i, f) = <<v>> \o f[j]) /\ j \in i + 1 .. Len(s) + 1
      BY <3>1, <3>4, Zenon
    <3> HIDE DEF v, j
    <3> QED  BY <3>5, Zenon DEF GGoesOn
  <2>4. CASE s[i + 1] \notin DOMAIN GasEscapes /\ s[i + 1] # 120
    <3> DEFINE first == i + 1
               three == 3
               n == CountAt(s, first, OctalDigits, three)
    <3>1. \A f : GRead(s, i, f) = IF n = 0 THEN <<s[i + 1]>> \o f[i + 2]
                                  ELSE <<ValueAt(s, i + 1, n, 8) % 256>> \o f[i + 1 + n]
      BY <1>0, <1>4, <2>4, Zenon DEF GRead
    <3>2. Counted(s, first, OctalDigits, three, n)
      <4>1. three \in Nat
        OBVIOUS
      <4> HIDE DEF first, three
      <4> QED  BY <2>1, <4>1, CountIs DEF first
    <3>3. n \in 0 .. Len(s) - first + 1
      BY <3>2, Zenon DEF Counted
    <3> HIDE DEF n
    <3>4. i + 1 + n \in Nat /\ (n # 0 => i + 1 + n \in i + 1 .. Len(s) + 1)
      BY <2>1, <3>3
    <3>5. CASE n = 0
      BY <2>1, <3>1, <3>5, Zenon DEF GGoesOn
    <3>6. CASE n # 0
      <4> DEFINE v == ValueAt(s, i + 1, n, 8) % 256
      <4>1. \A f : GRead(s, i, f) = <<v>> \o f[i + 1 + n]
        BY <3>1, <3>6, Zenon
      <4> HIDE DEF v
      <4>2. i + 1 + n \in i + 1 .. Len(s) + 1
        BY <3>4, <3>6, Zenon
      <4> QED  BY <4>1, <4>2, Zenon DEF GGoesOn
    <3> QED  BY <3>5, <3>6
  <2> QED  BY <2>2, <2>3, <2>4
<1> QED  BY <1>1, <1>2, <1>3, <1>4

LEMMA GReadSame ==
    ASSUME NEW s, Len(s) \in Nat, NEW i \in 1 .. Len(s) + 1, NEW f, NEW g, \A j \in i + 1 .. Len(s) + 1 : f[j] = g[j]
    PROVE  GRead(s, i, f) = GRead(s, i, g)
<1>2. CASE i = Len(s) + 1
  <2>1. i > Len(s)
    BY <1>2
  <2> QED  BY <2>1, Zenon DEF GRead
<1>3. CASE i # Len(s) + 1
  <2>1. i \in 1 .. Len(s)
    BY <1>3
  <2>2. GGoesOn(s, i)
    BY <2>1, GReadIs
  <2>3. CASE \E c : \A h : GRead(s, i, h) = c
    BY <2>3, Zenon
  <2>4. CASE \E v : \E j \in i + 1 .. Len(s) + 1 : \A h : GRead(s, i, h) = <<v>> \o h[j]
    <3>1. PICK v : \E j \in i + 1 .. Len(s) + 1 : \A h : GRead(s, i, h) = <<v>> \o h[j]
      BY <2>4
    <3>2. PICK j \in i + 1 .. Len(s) + 1 : \A h : GRead(s, i, h) = <<v>> \o h[j]
      BY <3>1
    <3>3. f[j] = g[j]
      BY <3>2
    <3> QED  BY <3>2, <3>3, Zenon
  <2> QED  BY <2>2, <2>3, <2>4, Zenon DEF GGoesOn
<1> QED  BY <1>2, <1>3

GDown(f, s, lo) == f = [i \in lo .. Len(s) + 1 |-> GRead(s, i, f)]

LEMMA GFurther ==
    ASSUME NEW s, Len(s) \in Nat, NEW lo \in 2 .. Len(s) + 1, NEW f, GDown(f, s, lo)
    PROVE  \E g : GDown(g, s, lo - 1)
<1> DEFINE m == lo - 1
           l == Len(s) + 1
           step == GRead(s, m, f)
           g == [i \in m .. l |-> IF i = m THEN step ELSE f[i]]
<1>1. /\ \A i \in m .. l : i = m \/ i \in lo .. l
      /\ \A i \in lo .. l : i \in m .. l /\ i # m /\ i \in 1 .. l
      /\ m \in m .. l /\ m \in 1 .. l /\ \A i \in m .. l : \A j \in i + 1 .. l : j \in lo .. l
  OBVIOUS
<1>2. \A i \in lo .. l : f[i] = GRead(s, i, f)
  BY Zenon DEF GDown
<1>3. \A i \in lo .. l : g[i] = f[i]
  BY <1>1
<1>4. ASSUME NEW i \in m .. l PROVE (IF i = m THEN step ELSE f[i]) = GRead(s, i, g)
  <2>1. GRead(s, i, f) = GRead(s, i, g)
    <3>1. \A j \in i + 1 .. l : f[j] = g[j]
      <4> HIDE DEF m, l, g
      <4> QED  BY <1>1, <1>3
    <3>2. i \in 1 .. Len(s) + 1
      BY <1>1
    <3> HIDE DEF g
    <3> QED  BY <3>1, <3>2, GReadSame
  <2> HIDE DEF g
  <2>2. CASE i = m
    BY <2>1, <2>2, Zenon
  <2>3. CASE i # m
    BY <1>1, <1>2, <2>1, <2>3, Zenon
  <2> QED  BY <2>2, <2>3
<1>5. g = [i \in m .. l |-> GRead(s, i, g)]
  BY Zenon, <1>4
<1> QED  BY Zenon, <1>5 DEF GDown

LEMMA GExists ==
    ASSUME NEW s, Len(s) \in Nat
    PROVE  \E f : GFrom(f, s)
<1> DEFINE l == Len(s)
           G == {k \in Nat : k <= l => \E f : GDown(f, s, (l + 1) - k)}
<1>1. 0 \in G
  <2> DEFINE f == [i \in l + 1 .. l + 1 |-> <<0>>]
  <2>1. \A i \in l + 1 .. l + 1 : <<0>> = GRead(s, i, f)
    <3>1. \A i \in l + 1 .. l + 1 : i > l
      OBVIOUS
    <3> QED  BY <3>1, Zenon DEF GRead
  <2>2. f = [i \in l + 1 .. l + 1 |-> GRead(s, i, f)]
    BY <2>1, Zenon
  <2>3. GDown(f, s, l + 1)
    BY <2>2, Zenon DEF GDown
  <2>4. (l + 1) - 0 = l + 1
    OBVIOUS
  <2>5. \E h : GDown(h, s, (l + 1) - 0)
    BY <2>3, <2>4, Zenon
  <2> QED  BY <2>5
<1>2. ASSUME NEW k \in Nat, k < l, k \in G PROVE k + 1 \in G
  <2>1. \E f : GDown(f, s, (l + 1) - k)
    BY <1>2
  <2>2. PICK f : GDown(f, s, (l + 1) - k)
    BY <2>1
  <2> DEFINE lo == (l + 1) - k
  <2>3. lo \in 2 .. Len(s) + 1 /\ lo - 1 = (l + 1) - (k + 1) /\ k + 1 \in Nat
    BY <1>2
  <2>4. GDown(f, s, lo)
    BY <2>2
  <2> HIDE DEF lo, G
  <2>5. \E g : GDown(g, s, lo - 1)
    BY <2>3, <2>4, GFurther
  <2>6. \E g : GDown(g, s, (l + 1) - (k + 1))
    BY <2>3, <2>5, Zenon
  <2> QED  BY <2>3, <2>6 DEF G
<1>3. \A k : k \in G => (k <= l => \E f : GDown(f, s, (l + 1) - k))
  OBVIOUS
<1> HIDE DEF G
<1>4. l \in G
  <2>1. \A k \in 0 .. l : k \in G
    BY <1>1, <1>2, UpTo
  <2> QED  BY <2>1
<1>5. l <= l /\ (l + 1) - l = 1
  OBVIOUS
<1>6. \E f : GDown(f, s, (l + 1) - l)
  BY <1>3, <1>4, <1>5, Zenon
<1>7. \E f : GDown(f, s, 1)
  BY <1>5, <1>6, Zenon
<1> QED  BY <1>7, Zenon DEF GDown, GFrom

LEMMA GasReadsIs ==
    ASSUME NEW s, Len(s) \in Nat
    PROVE  \E g : GasReads(s) = g[1] /\ \A i \in 1 .. Len(s) + 1 : g[i] = GRead(s, i, g)
<1> DEFINE f == CHOOSE f : f = [i \in 1 .. Len(s) + 1 |-> GRead(s, i, f)]
<1>1. GFrom(f, s)
  BY GExists, Zenon DEF GFrom
<1>2. GasReads(s) = f[1]
  BY Zenon DEF GasReads, GRead
<1> HIDE DEF f
<1>3. \A i \in 1 .. Len(s) + 1 : f[i] = GRead(s, i, f)
  BY <1>1, Zenon DEF GFrom
<1> QED  BY <1>2, <1>3, Zenon

LEMMA TwoPlaces ==
    ASSUME NEW v, Len(v) = 2, NEW x \in Nat, NEW y \in Nat, v[1] = x, v[2] = y
    PROVE  Places(v, 16) = 16 * x + y
<1> DEFINE n == Len(v)
           b == 16
<1>1. n \in Nat
  OBVIOUS
<1>2. PICK f : PlacesUpTo(f, v, b, n) /\ Places(v, b) = f[n]
  <2> HIDE DEF b
  <2> QED  BY <1>1, PlacesAre
<1>3. \A k \in 0 .. n : f[k] = IF k = 0 THEN 0 ELSE b * f[k - 1] + v[k]
  <2> HIDE DEF b, n
  <2> QED  BY <1>2, Zenon DEF PlacesUpTo
<1>4. f[0] = 0 /\ f[1] = 16 * f[0] + v[1] /\ f[2] = 16 * f[1] + v[2]
  BY <1>3
<1>5. f[n] = 16 * x + y
  BY <1>4
<1> QED  BY <1>2, <1>5, Zenon

LEMMA TwoDigits ==
    ASSUME NEW e \in Seq(Bytes), NEW i \in Nat \ {0}, i + 2 <= Len(e) + 1, NEW x \in Nat, NEW y \in Nat,
           DigitValue(e[i]) = x, DigitValue(e[i + 1]) = y
    PROVE  ValueAt(e, i, 2, 16) = 16 * x + y
<1> DEFINE two == 2
           p == SubSeq(e, i, i + two - 1)
           b == 16
           values == [k \in 1 .. two |-> DigitValue(p[k])]
<1>1. two \in Nat /\ i + two <= Len(e) + 1 /\ i + 1 - 1 = i /\ i + 2 - 1 = i + 1 /\ 1 \in 1 .. two /\ 2 \in 1 .. two
  OBVIOUS
<1>2. Len(p) = two /\ \A k \in 1 .. two : p[k] = e[i + k - 1]
  <2> HIDE DEF Bytes, two
  <2> QED  BY <1>1, PartIs
<1>3. p[1] = e[i] /\ p[2] = e[i + 1]
  BY <1>1, <1>2
<1> HIDE DEF p
<1>4. Len(values) = two
  OBVIOUS
<1>5. values[1] = x /\ values[2] = y
  BY <1>1, <1>3
<1>6. ValueAt(e, i, 2, 16) = Places(values, b)
  BY <1>2, Zenon DEF ValueAt, Value, p
<1> HIDE DEF values, b, two
<1>7. Places(values, 16) = 16 * x + y
  <2>1. Len(values) = 2
    BY <1>4 DEF two
  <2> QED  BY <1>5, <2>1, TwoPlaces, Zenon
<1> QED  BY <1>6, <1>7, Zenon DEF b

\* Behind a \x there is no digit.
NoDigit(e, o, c) == WrittenInHex(c) => o + 4 = Len(e) \/ e[o + 5] \notin HexDigits

LEMMA NamedRead ==
    ASSUME NEW c \in Named
    PROVE  NameOf(c) \in DOMAIN GasEscapes /\ GasEscapes[NameOf(c)] = c
<1>1. c = NL \/ c = 8 \/ c = CR \/ c = TAB
  BY DEF Named
<1>2. CASE c = NL
  BY <1>2 DEF NameOf, GasEscapes, NL
<1>3. CASE c = 8
  BY <1>3 DEF NameOf, GasEscapes, NL
<1>4. CASE c = CR
  BY <1>4 DEF NameOf, GasEscapes, NL, CR
<1>5. CASE c = TAB
  BY <1>5 DEF NameOf, GasEscapes, NL, CR, TAB
<1> QED  BY <1>1, <1>2, <1>3, <1>4, <1>5

\* The assembler reads each form as its character and goes on behind it.
LEMMA FormRead ==
    ASSUME NEW e \in Seq(Bytes), NEW o \in Nat, NEW c \in Kept, Lies(e, o, c), NoDigit(e, o, c), NEW g
    PROVE  GRead(e, o + 1, g) = <<c>> \o g[(o + 1) + Len(Form(c))]
<1> DEFINE i == o + 1
           l == Len(e)
<1>1. l \in Nat /\ i \in Nat \ {0}
  <2>1. l \in Nat
    <3> HIDE DEF Bytes
    <3> QED  BY LenProperties
  <2> QED  BY <2>1
<1>2. o + Len(Form(c)) <= l /\ \A d \in 1 .. Len(Form(c)) : e[o + d] = Form(c)[d]
  BY Zenon DEF Lies
<1>3. BS # DQ /\ BS # Undefined /\ c # DQ /\ c # BS /\ c # Undefined
  BY KeptParts DEF BS, DQ, Undefined, Kept
<1>4. CASE c \in Bare
  <2>1. Form(c) = <<c>>
    BY <1>4, Zenon DEF Form
  <2>2. Len(Form(c)) = 1 /\ Form(c)[1] = c
    BY <2>1
  <2>3. 1 \in 1 .. Len(Form(c)) /\ ~(i > l)
    BY <1>1, <1>2, <2>2
  <2>4. e[i] = c
    BY <1>2, <2>2, <2>3, Zenon
  <2>5. GRead(e, i, g) = <<e[i]>> \o g[i + 1]
    BY <1>3, <2>3, <2>4, Zenon DEF GRead
  <2> QED  BY <2>2, <2>4, <2>5, Zenon
<1>5. CASE c \notin Bare /\ c \in Named
  <2>1. Form(c) = <<BS, NameOf(c)>>
    BY <1>5, Zenon DEF Form
  <2>2. Len(Form(c)) = 2 /\ Form(c)[1] = BS /\ Form(c)[2] = NameOf(c)
    BY <2>1
  <2>3. 1 \in 1 .. Len(Form(c)) /\ 2 \in 1 .. Len(Form(c)) /\ ~(i > l) /\ i # l /\ o + 2 = i + 1
    BY <1>1, <1>2, <2>2
  <2>4. e[i] = BS /\ e[i + 1] = NameOf(c)
    BY <1>2, <2>2, <2>3, Zenon
  <2>5. NameOf(c) \in DOMAIN GasEscapes /\ GasEscapes[NameOf(c)] = c
    BY <1>5, NamedRead
  <2>6. GRead(e, i, g) = <<GasEscapes[e[i + 1]]>> \o g[i + 2]
    BY <1>3, <2>3, <2>4, <2>5, Zenon DEF GRead
  <2> QED  BY <2>2, <2>4, <2>5, <2>6, Zenon
<1>6. CASE c \notin Bare /\ c \notin Named
  <2> DEFINE x == c \div 16
             y == c % 16
             first == i + 2
             two == 2
             X == HexChar(x)
             Y == HexChar(y)
  <2>1. Form(c) = <<BS, 120, X, Y>>
    BY <1>6, Zenon DEF Form, HexOf
  <2>2. Len(Form(c)) = 4 /\ Form(c)[1] = BS /\ Form(c)[2] = 120 /\ Form(c)[3] = X /\ Form(c)[4] = Y
    <3> HIDE DEF X, Y
    <3> QED  BY <2>1
  <2>3. /\ 1 \in 1 .. Len(Form(c)) /\ 2 \in 1 .. Len(Form(c)) /\ 3 \in 1 .. Len(Form(c)) /\ 4 \in 1 .. Len(Form(c))
        /\ ~(i > l) /\ i # l /\ o + 2 = i + 1 /\ o + 3 = first /\ o + 4 = first + 1 /\ o + 5 = first + 2
        /\ first \in Nat \ {0} /\ first + 2 <= l + 1
    BY <1>1, <1>2, <2>2
  <2>4. e[i] = BS /\ e[i + 1] = 120 /\ e[first] = X /\ e[first + 1] = Y
    <3> HIDE DEF X, Y, first, i
    <3>1. e[o + 1] = BS /\ e[o + 2] = 120 /\ e[o + 3] = X /\ e[o + 4] = Y
      BY <1>2, <2>2, <2>3, ZenonT(60)
    <3> QED  BY <2>3, <3>1, Zenon DEF i
  <2>5. X \in HexDigits /\ Y \in HexDigits /\ DigitValue(X) = x /\ DigitValue(Y) = y /\ x \in 0 .. 15 /\ y \in 0 .. 15
        /\ 16 * x + y = c /\ c % 256 = c
    <3>1. x \in 0 .. 15 /\ y \in 0 .. 15 /\ 16 * x + y = c /\ c % 256 = c
      BY KeptParts
    <3> HIDE DEF x, y
    <3> QED  BY <3>1, HexCharIs
  <2>6. ValueAt(e, first, 2, 16) = c
    <3>1. first \in Nat \ {0} /\ first + 2 <= Len(e) + 1 /\ x \in Nat /\ y \in Nat
          /\ DigitValue(e[first]) = x /\ DigitValue(e[first + 1]) = y
      <4>1. x \in Nat /\ y \in Nat
        <5>1. \A k \in 0 .. 15 : k \in Nat
          OBVIOUS
        <5> QED  BY <2>5, <5>1, Zenon
      <4> QED  BY <2>3, <2>4, <2>5, <4>1, Zenon
    <3> HIDE DEF first, x, y, Bytes
    <3>2. ValueAt(e, first, 2, 16) = 16 * x + y
      BY <3>1, TwoDigits
    <3> QED  BY <2>5, <3>2, Zenon
  <2>7. 120 \notin DOMAIN GasEscapes
    BY DEF GasEscapes, BS, DQ
  <2>8. CountAt(e, first, HexDigits, Many) = two
    <3>1. first \in 1 .. l + 1 /\ Many \in Nat /\ two \in 0 .. l - first + 1 /\ two <= Many /\ first + two = first + 2
      BY <1>1, <2>3 DEF Many
    <3>2. ASSUME NEW k \in 0 .. two - 1 PROVE e[first + k] \in HexDigits
      <4>1. k = 0 \/ k = 1
        OBVIOUS
      <4>2. first + 0 = first
        BY <2>3
      <4> HIDE DEF first, X, Y
      <4> QED  BY <2>4, <2>5, <4>1, <4>2, Zenon
    <3>3. first + two <= l => e[first + two] \notin HexDigits
      <4>1. WrittenInHex(c)
        BY <1>6, FormInHex
      <4>2. o + 4 = l \/ e[o + 5] \notin HexDigits
        BY <4>1, Zenon DEF NoDigit
      <4>3. o + 4 = l => ~(first + two <= l)
        BY <1>1, <2>3
      <4> QED  BY <2>3, <4>2, <4>3, Zenon
    <3>4. Counted(e, first, HexDigits, Many, two)
      <4> HIDE DEF first, two
      <4> QED  BY <3>1, <3>2, <3>3, Zenon DEF Counted
    <3>5. first \in 1 .. Len(e) + 1 /\ Len(e) \in Nat
      BY <1>1, <3>1
    <3> HIDE DEF first, two, Many, Bytes
    <3>6. Counted(e, first, HexDigits, Many, CountAt(e, first, HexDigits, Many))
      BY <3>1, <3>5, CountIs
    <3> QED  BY <3>1, <3>4, <3>5, <3>6, CountOne
  <2> HIDE DEF X, Y, x, y
  <2>9. GRead(e, i, g) = <<ValueAt(e, i + 2, CountAt(e, i + 2, HexDigits, Many), 16) % 256>>
                         \o g[i + 2 + CountAt(e, i + 2, HexDigits, Many)]
    BY <1>3, <2>3, <2>4, <2>7, Zenon DEF GRead
  <2>10. GRead(e, i, g) = <<c % 256>> \o g[i + 2 + 2]
    BY <2>6, <2>8, <2>9, Zenon
  <2>11. i + 2 + 2 = i + 4
    BY <1>1
  <2> QED  BY <2>2, <2>5, <2>10, <2>11, Zenon
<1> QED  BY <1>4, <1>5, <1>6

LEMMA KeptBytes ==
    /\ \A c \in Kept : c \in Bytes /\ c \in Int
    /\ \A s \in Seq(Kept) : s \in Seq(Bytes) /\ s \in Seq(Int)
<1> DEFINE I == Int
<1>1. Kept \subseteq Bytes /\ Bytes \subseteq I
  BY DEF Kept, Bytes
<1>2. Kept \subseteq I
  BY <1>1
<1> HIDE DEF I, Kept, Bytes
<1>3. \A s \in Seq(Kept) : s \in Seq(Bytes) /\ s \in Seq(I)
  BY <1>1, <1>2, SeqMonotonic
<1>4. \A c \in Kept : c \in Bytes /\ c \in I
  BY <1>1, <1>2
<1> QED  BY <1>3, <1>4 DEF I

\* No character that is written in hexadecimal is before a digit.
Apart(s) == \A k \in 1 .. Len(s) - 1 : WrittenInHex(s[k]) => s[k + 1] \notin HexDigits

LEMMA EscapesApart ==
    ASSUME NEW s \in Seq(Kept), Apart(s), NEW f, Escapes(f, s), NEW k \in 1 .. Len(s)
    PROVE  NoDigit(f[Len(s)], Len(f[k - 1]), s[k])
<1> DEFINE n == Len(s)
           e == f[n]
           o == Len(f[k - 1])
<1>1. n \in Nat /\ \A j \in 1 .. n : s[j] \in Kept
  <2>1. Len(s) \in Nat /\ \A j \in 1 .. Len(s) : s[j] \in Kept
    BY LenProperties, ElementOfSeq
  <2> QED  BY <2>1
<1>2. \A j \in 1 .. n : Lies(e, Len(f[j - 1]), s[j]) /\ Len(f[j]) = Len(f[j - 1]) + Len(Form(s[j]))
  BY EscapesLie
<1>3. SUFFICES ASSUME WrittenInHex(s[k]) PROVE o + 4 = Len(e) \/ e[o + 5] \notin HexDigits
  BY Zenon DEF NoDigit
<1> HIDE DEF n, e
<1>4. k \in 1 .. n /\ k \in Nat /\ k - 1 \in 0 .. n
  BY <1>1 DEF n
<1>5. Len(Form(s[k])) = 4
  <2>1. Escaped(s[k]) = Form(s[k])
    BY <1>1, <1>4, FormIs
  <2> QED  BY <1>3, <2>1, Zenon DEF WrittenInHex
<1>6. o \in Nat
  <2>1. f[k - 1] \in Seq(Bytes)
    BY <1>4, Zenon DEF Escapes, n
  <2> HIDE DEF Bytes
  <2> QED  BY <2>1, LenProperties
<1> HIDE DEF o
<1>7. Len(f[k]) = o + 4
  BY <1>2, <1>4, <1>5, Zenon DEF o
<1>8. CASE k = n
  BY <1>7, <1>8, Zenon DEF e
<1>9. CASE k # n
  <2> DEFINE c == s[k + 1]
  <2>1. k + 1 \in 1 .. n /\ k \in 1 .. n - 1 /\ (k + 1) - 1 = k
    BY <1>1, <1>4, <1>9
  <2>2. c \notin HexDigits /\ c \in Kept
    BY <1>1, <1>3, <2>1, Zenon DEF Apart, n
  <2>3. Lies(e, o + 4, c)
    BY <1>2, <1>7, <2>1, Zenon
  <2> HIDE DEF c
  <2>4. e[(o + 4) + 1] = Form(c)[1]
    <3>1. 1 \in 1 .. Len(Form(c))
      <4>1. Len(Form(c)) = IF c \in Bare THEN 1 ELSE IF c \in Named THEN 2 ELSE 4
        BY <2>2, FormType
      <4> QED  BY <4>1
    <3> QED  BY <2>3, <3>1, Zenon DEF Lies
  <2>5. Form(c)[1] \notin HexDigits
    <3>1. Form(c)[1] = IF c \in Bare THEN c ELSE BS
      BY <2>2, FormType
    <3>2. BS \notin HexDigits
      BY DEF BS, HexDigits, Digits
    <3> QED  BY <2>2, <3>1, <3>2, Zenon
  <2>6. (o + 4) + 1 = o + 5
    BY <1>6
  <2> QED  BY <2>4, <2>5, <2>6, Zenon
<1> QED  BY <1>8, <1>9

\* The assembler undoes the escaping.
LEMMA EscapedReads ==
    ASSUME NEW s \in Seq(Kept), Apart(s)
    PROVE  EscapedAll(s) \in Seq(Bytes) /\ GasReads(EscapedAll(s)) = s \o <<0>>
<1> DEFINE n == Len(s)
<1>1. n \in Nat /\ \A j \in 1 .. n : s[j] \in Kept
  <2>1. Len(s) \in Nat /\ \A j \in 1 .. Len(s) : s[j] \in Kept
    BY LenProperties, ElementOfSeq
  <2> QED  BY <2>1
<1>2. PICK f : Escapes(f, s) /\ EscapedAll(s) = f[n]
  BY EscapesExist
<1> DEFINE e == f[n]
<1>3. \A k \in 1 .. n : /\ Lies(e, Len(f[k - 1]), s[k]) /\ Len(f[k]) = Len(f[k - 1]) + Len(Form(s[k]))
                        /\ NoDigit(e, Len(f[k - 1]), s[k])
  BY <1>2, EscapesLie, EscapesApart
<1>4. f[0] = <<>> /\ \A k \in 0 .. n : f[k] \in Seq(Bytes)
  BY <1>2, Zenon DEF Escapes
<1> HIDE DEF n
<1>5. n \in 0 .. n /\ \A k \in 0 .. n : Len(f[k]) \in Nat
  <2>1. n \in 0 .. n
    BY <1>1
  <2> HIDE DEF Bytes
  <2> QED  BY <1>4, <2>1, LenProperties
<1>6. e \in Seq(Bytes) /\ Len(e) \in Nat
  BY <1>4, <1>5
<1> HIDE DEF e
<1>7. PICK g : GasReads(e) = g[1] /\ \A i \in 1 .. Len(e) + 1 : g[i] = GRead(e, i, g)
  BY <1>6, GasReadsIs
<1> DEFINE Reads_(k) == g[Len(f[k]) + 1] = SubSeq(s, k + 1, n) \o <<0>>
           G == {d \in Nat : d <= n => Reads_(n - d)}
<1>8. Reads_(n)
  <2> DEFINE i == Len(e) + 1
             m == n + 1
  <2>1. i \in 1 .. Len(e) + 1 /\ i > Len(e)
    BY <1>6
  <2>2. g[i] = <<0>>
    BY <1>7, <2>1, Zenon DEF GRead
  <2>3. SubSeq(s, m, n) = <<>>
    <3>1. m \in Int /\ n \in Int /\ n < m
      BY <1>1
    <3> HIDE DEF m
    <3> QED  BY <3>1, SubSeqEmpty
  <2>4. <<>> \o <<0>> = <<0>>
    OBVIOUS
  <2> QED  BY <2>2, <2>3, <2>4, Zenon DEF e
<1>9. ASSUME NEW k \in 1 .. n, Reads_(k) PROVE Reads_(k - 1)
  <2> DEFINE o == Len(f[k - 1])
             c == s[k]
             p == SubSeq(s, k + 1, n)
             z == <<0>>
  <2>1. k \in 0 .. n /\ k - 1 \in 0 .. n /\ (k - 1) + 1 = k /\ k \in Nat
    BY <1>1
  <2>2. o \in Nat /\ c \in Kept /\ Lies(e, o, c) /\ NoDigit(e, o, c) /\ Len(f[k]) = o + Len(Form(c)) /\ Len(f[k]) \in Nat
    BY <1>1, <1>3, <1>5, <2>1, Zenon
  <2> HIDE DEF o, c
  <2>3. Len(Form(c)) \in Nat /\ o + Len(Form(c)) <= Len(e)
    <3>1. Form(c) \in Seq(Bytes)
      BY <2>2, FormType
    <3>2. Len(Form(c)) \in Nat
      <4> HIDE DEF Bytes
      <4> QED  BY <3>1, LenProperties
    <3> QED  BY <2>2, <3>2, Zenon DEF Lies
  <2>4. o + 1 \in 1 .. Len(e) + 1 /\ (o + 1) + Len(Form(c)) = Len(f[k]) + 1
    BY <1>6, <2>2, <2>3
  <2>5. GRead(e, o + 1, g) = <<c>> \o g[(o + 1) + Len(Form(c))]
    <3> HIDE DEF Reads_, G, p, Bytes
    <3> QED  BY <1>6, <2>2, FormRead
  <2>6. g[o + 1] = <<c>> \o (p \o z)
    BY <1>7, <1>9, <2>4, <2>5, Zenon
  <2>7. SubSeq(s, k, n) = <<c>> \o p
    <3>1. k \in 1 .. Len(s) /\ n \in k .. Len(s)
      BY <1>1, <2>1 DEF n
    <3>2. SubSeq(s, k, n) = <<s[k]>> \o SubSeq(s, k + 1, n)
      BY <3>1, SubSeqRecursiveFirst
    <3> QED  BY <3>2, Zenon DEF c
  <2>8. p \in Seq(Int) /\ z \in Seq(Int) /\ <<c>> \in Seq(Int)
    <3>1. p \in Seq(Kept)
      <4> DEFINE m == k + 1
      <4>1. m \in Nat \ {0} /\ n \in Int /\ n <= Len(s)
        BY <1>1, <2>1 DEF n
      <4> HIDE DEF m
      <4>2. SubSeq(s, m, n) \in Seq(Kept)
        BY <4>1, PartType
      <4> QED  BY <4>2, Zenon DEF m
    <3>2. z \in Seq(Int)
      OBVIOUS
    <3> HIDE DEF p, z
    <3> QED  BY <2>2, <3>1, <3>2, KeptBytes, IntSeqs, Zenon
  <2> DEFINE a == <<c>>
  <2> HIDE DEF p, z, a
  <2>9. (a \o p) \o z = a \o (p \o z)
    <3>1. a \in Seq(Int)
      BY <2>8, Zenon DEF a
    <3> QED  BY <2>8, <3>1, IntAssoc
  <2>10. g[o + 1] = SubSeq(s, k, n) \o z
    BY <2>6, <2>7, <2>9, Zenon DEF a
  <2> QED  BY <2>1, <2>10, Zenon DEF o, z
<1>10. 0 \in G
  <2>1. n - 0 = n
    BY <1>1
  <2> QED  BY <1>8, <2>1, Zenon DEF Reads_
<1> HIDE DEF Reads_
<1>11. ASSUME NEW d \in Nat, d < n, d \in G PROVE d + 1 \in G
  <2>1. n - d \in 1 .. n /\ (n - d) - 1 = n - (d + 1) /\ d <= n /\ d + 1 \in Nat
    BY <1>1, <1>11
  <2>2. Reads_(n - d)
    BY <1>11, <2>1
  <2>3. Reads_((n - d) - 1)
    BY <1>9, <2>1, <2>2, Zenon
  <2>4. Reads_(n - (d + 1))
    BY <2>1, <2>3, Zenon
  <2> QED  BY <2>1, <2>4
<1>12. \A d : d \in G => (d <= n => Reads_(n - d))
  OBVIOUS
<1> HIDE DEF G
<1>13. n \in G
  BY <1>1, <1>5, <1>10, <1>11, UpTo
<1>14. Reads_(0)
  <2>1. n <= n /\ n - n = 0
    BY <1>1
  <2> QED  BY <1>12, <1>13, <2>1, Zenon
<1>15. g[1] = s \o <<0>>
  <2>1. Len(f[0]) = 0 /\ 0 + 1 = 1
    BY <1>4
  <2>2. SubSeq(s, 1, n) = s
    BY SubSeqFull DEF n
  <2> QED  BY <1>14, <2>1, <2>2, Zenon DEF Reads_
<1> QED  BY <1>2, <1>6, <1>7, <1>15, Zenon DEF e

LEMMA MeantAssembles ==
    ASSUME MeantInv
    PROVE  StringsReachTheProgram
<1>1. SUFFICES ASSUME string # <<>>, Carried(meant) PROVE Assembled(string) = meant \o <<0>>
  BY DEF StringsReachTheProgram
<1>2. PICK s, t : s = meant /\ t = string
  BY Zenon
<1>3. s \in Seq(Int) /\ ToSet(s) \subseteq Kept /\ Apart(s)
  <2>1. s \in Seq(Int)
    BY <1>2, Zenon DEF MeantInv
  <2>2. ToSet(s) \subseteq Kept
    BY <1>1, <1>2, Zenon DEF Carried, Kept
  <2>3. Apart(s)
    BY <1>1, <1>2, Zenon DEF Carried, Apart
  <2> QED  BY <2>1, <2>2, <2>3
<1>4. s \in Seq(Kept)
  <2>1. Len(s) \in Nat /\ s = [i \in 1 .. Len(s) |-> s[i]] /\ DOMAIN s = 1 .. Len(s)
    BY <1>3
  <2>2. \A i \in 1 .. Len(s) : s[i] \in Kept
    BY <1>3, <2>1, Zenon DEF ToSet
  <2> HIDE DEF Kept
  <2> QED  BY <2>1, <2>2
<1>5. s \in Seq(Bytes) /\ t = s \o <<0>>
  <2>1. s \in Seq(Bytes)
    BY <1>4, KeptBytes, Zenon
  <2> QED  BY <1>1, <1>2, <2>1, Zenon DEF MeantInv
<1>6. CString(t) = s
  BY <1>5, CStringIs, Zenon
<1> DEFINE e == EscapedAll(s)
           z == <<0>>
<1>7. e \in Seq(Bytes) /\ GasReads(e) = s \o <<0>>
  <2> HIDE DEF Bytes
  <2> QED  BY <1>3, <1>4, EscapedReads
<1>8. EscapeStr(s).str = e \o z
  <2>1. e \o z \in Seq(Int)
    <3>1. z \in Seq(Int)
      OBVIOUS
    <3>2. e \in Seq(Int)
      <4> HIDE DEF e
      <4> QED  BY <1>7, ByteInts
    <3> HIDE DEF e, z
    <3> QED  BY <3>1, <3>2, IntSeqs, Zenon
  <2>2. AppendedAll(e \o z).str = e \o z
    <3> DEFINE c == e \o z
               T == Int
    <3>1. c \in Seq(T)
      BY <2>1
    <3> HIDE DEF c, T
    <3>2. AppendedAll(c).str = c
      BY <3>1, AppendedAllWrites
    <3> QED  BY <3>2 DEF c
  <2> QED  BY <2>2, Zenon DEF EscapeStr
<1>9. CString(e \o z) = e
  BY <1>7, CStringIs, Zenon
<1> QED  BY <1>2, <1>6, <1>7, <1>8, <1>9, Zenon DEF Assembled

(***************************************************************************)
(* The theorems.                                                           *)
(***************************************************************************)
\* A match never goes past what flex has read, nor that past the file, and
\* every variable of the scanner has its type (lexer.l).
THEOREM TypesHold == Spec => []TypeOK
<1>1. Inv => TypeOK
  BY InvTypes
<1> QED  BY <1>1, Invariant, PTL

\* A file that can be positioned is read from front to back without a gap,
\* whatever lines the warnings inside string literals show
\* (display_invalid_token, YY_INPUT).
THEOREM FileInOrder == Spec => []FileReadInOrder
<1>1. Inv => FileReadInOrder
  BY DEF Inv, FileInv
<1> QED  BY <1>1, Invariant, PTL

\* The lines, columns and line offset of a token are those of its place in the
\* text, until a newline in a character literal falls to the default rule
\* (update_location and the two newline rules).
THEOREM TokensAreLocated == Spec => []TokensLocated
<1>1. Inv => TokensLocated
  BY InvLocates
<1> QED  BY <1>1, Invariant, PTL

\* The buffer of a string literal has room for every character written into
\* it, the NUL included, both while it is built and when it is handed over
\* (state_append_str, <string>\").
THEOREM LiteralsHold == Spec => []LiteralHolds
<1>1. Inv => LiteralHolds
  BY InvHolds
<1> QED  BY <1>1, Invariant, PTL

\* util_escape_str never writes behind its buffer, whatever the string, and
\* neither does the scanner (append_char, state_append_str).
THEOREM EscapesHold == LiteralsSpec => []BuffersHold
<1>1. Inv /\ StringsEnd => BuffersHold
  <2> SUFFICES ASSUME Inv, StringsEnd PROVE BuffersHold
    OBVIOUS
  <2>1. LiteralHolds
    BY InvHolds
  <2>2. ASSUME string # <<>> PROVE EscapeStr(CString(string)).held
    <3>1. CString(string) \in Seq(Byte)
      BY <2>2, CStringType DEF StringsEnd
    <3> QED  BY <3>1, EscapeHolds
  <2> QED  BY <2>1, <2>2 DEF BuffersHold
<1> QED  BY <1>1, LiteralsInvariant, PTL

\* A literal token has the value C gives its spelling: strings and characters
\* through the escapes of lexer.l and state_append_str, numbers through atoi and
\* strtol, whatever the text; LiteralsMeanC names the spellings left out.
THEOREM LiteralsMean == LiteralsSpec => []LiteralsMeanC
<1>1. MeanInv => LiteralsMeanC
  BY TokensMean DEF MeanInv
<1> QED  BY <1>1, MeansInvariant, PTL

\* The program's memory holds the characters the source's string literals mean,
\* and a NUL: unescaping in lexer.l, the parser's strcat, util_escape_str and the
\* assembler's reading of .asciz undo each other, for all Carried names.
THEOREM StringsArrive == LiteralsSpec => []StringsReachTheProgram
<1>1. MeantInv => StringsReachTheProgram
  BY MeantAssembles
<1> QED  BY <1>1, MeantInvariant, PTL
=============================================================================
