-------------------------- MODULE TypeNamesProofs --------------------------
(***************************************************************************)
(* How types are read, for any number of specifiers, pointers and          *)
(* parentheses: which bases are accepted and what they mean, what order    *)
(* the pointers of a declarator end up in, and where the name of a type    *)
(* ends in its buffer.                                                     *)
(***************************************************************************)
EXTENDS TypeNames, SequenceTheorems, WellFoundedInduction, TLAPS

Tokens == Specifiers \cup {"const"}
Widths == {"void", "char", "short", "long"}

(***************************************************************************)
(* Which sets of specifiers C has.                                         *)
(***************************************************************************)
\* F can be completed to a specifier list of C's.
Completable(F) ==
    /\ ~(Sign \subseteq F)
    /\ \/ F \subseteq {"void"}
       \/ F \subseteq {"char"} \cup Sign
       \/ F \subseteq {"short", "int"} \cup Sign
       \/ F \subseteq {"long", "int"} \cup Sign

LEMMA LegalCompletes ==
    ASSUME NEW F \in SUBSET Specifiers
    PROVE  Completable(F) <=> \E s \in Legal : F \subseteq s
<1>1. ASSUME NEW s \in Legal, F \subseteq s PROVE Completable(F)
  BY <1>1 DEF Legal, LegalSets, Completable, Sign
<1>2. ASSUME Completable(F) PROVE \E s \in Legal : F \subseteq s
  <2> DEFINE sg == F \cap Sign
  <2>1. ~(Sign \subseteq sg) /\ sg \in SUBSET Sign
    BY <1>2 DEF Completable
  <2>2. F \cap Sign = sg
    OBVIOUS
  <2> HIDE DEF sg
  <2>3. \A s \in SUBSET Sign : {"char"} \cup s \in LegalSets
    BY SMT DEF LegalSets
  <2>4. \A s \in SUBSET Sign, w \in {{}, {"short"}, {"long"}}, i \in {{}, {"int"}} :
            s \cup w \cup i \in LegalSets
    BY SMT DEF LegalSets
  <2>5. CASE F \subseteq {"void"}
    <3>1. {"void"} \in Legal
      BY DEF Legal, LegalSets, Sign
    <3> QED  BY <2>5, <3>1
  <2>6. CASE F \subseteq {"char"} \cup Sign
    <3>1. {"char"} \cup sg \in Legal
      BY <2>1, <2>3 DEF Legal, Sign
    <3>2. F \subseteq {"char"} \cup sg
      BY <2>2, <2>6
    <3> QED  BY <3>1, <3>2, Zenon
  <2>7. CASE F \subseteq {"short", "int"} \cup Sign
    <3>1. {"short"} \in {{}, {"short"}, {"long"}} /\ {"int"} \in {{}, {"int"}}
      BY Zenon
    <3>2. sg \cup {"short"} \cup {"int"} \in LegalSets
      BY <2>1, <2>4, <3>1, Zenon
    <3>3. sg \cup {"short"} \cup {"int"} \in Legal
      BY <2>1, <3>2 DEF Legal, Sign
    <3>4. F \subseteq sg \cup {"short"} \cup {"int"}
      BY <2>2, <2>7
    <3> QED  BY <3>3, <3>4, Zenon
  <2>8. CASE F \subseteq {"long", "int"} \cup Sign
    <3>1. {"long"} \in {{}, {"short"}, {"long"}} /\ {"int"} \in {{}, {"int"}}
      BY Zenon
    <3>2. sg \cup {"long"} \cup {"int"} \in LegalSets
      BY <2>1, <2>4, <3>1, Zenon
    <3>3. sg \cup {"long"} \cup {"int"} \in Legal
      BY <2>1, <3>2 DEF Legal, Sign
    <3>4. F \subseteq sg \cup {"long"} \cup {"int"}
      BY <2>2, <2>8
    <3> QED  BY <3>3, <3>4, Zenon
  <2> QED  BY <1>2, <2>5, <2>6, <2>7, <2>8 DEF Completable
<1> QED  BY <1>1, <1>2

\* What specifier_is_invalid lets through can be completed if it could before,
\* unless it is a sign after void, and what it refuses cannot.
LEMMA AcceptedCompletes ==
    ASSUME NEW F \in SUBSET Specifiers, NEW new \in Specifiers, ~Invalid(F, new), Completable(F),
           "void" \notin F
    PROVE  Completable(F \cup {new})
  BY DEF Invalid, MayFollow, Completable, Sign, Specifiers

LEMMA RefusedDoesNot ==
    ASSUME NEW F \in SUBSET Specifiers, NEW new \in Specifiers \ F, Invalid(F, new)
    PROVE  ~Completable(F \cup {new})
  BY DEF Invalid, MayFollow, Completable, Sign, Specifiers

(***************************************************************************)
(* The base.                                                               *)
(***************************************************************************)
Twice(s) == \E i, j \in DOMAIN s : i < j /\ s[i] = s[j]

BaseTypes ==
    /\ base \in Base /\ flags \in SUBSET Specifiers /\ seen \in Seq(Tokens)
    /\ phase \in {"base", "declarator", "reducing"}
    /\ status \in {"parsing", "done", "aborted", "fault"}

\* What the type is, given its specifiers: the one that says how wide it is, if
\* there is any, else an int.
Width ==
    IF flags \cap Widths = {}
    THEN IF flags = {} THEN base.prim = "max" /\ base.size = 0 ELSE base.prim = "int" /\ base.size = 4
    ELSE /\ base.prim \in flags \cap Widths
         /\ base.size = [void |-> 0, char |-> 1, short |-> 2, int |-> 4, long |-> 4][base.prim]

\* What has been accepted of a base: no token twice, nothing C refuses but a
\* sign after void, and the type says it.
BaseRead ==
    status # "aborted" =>
        /\ flags = Range(seen) \ {"const"} /\ ~Twice(seen)
        /\ base.const <=> "const" \in Range(seen)
        /\ base.unsigned <=> "unsigned" \in flags
        /\ Width
        /\ "void" \in flags \/ Completable(flags)
        /\ "void" \in flags => VoidFirst

BaseInv == BaseTypes /\ BaseRead /\ RejectsWhatCRejects

LEMMA BaseInvMeansC ==
    ASSUME BaseInv
    PROVE  BaseMeansC
<1> SUFFICES ASSUME status # "aborted", flags \in Legal \ {{}} PROVE BaseMeansC
  BY DEF BaseMeansC
<1>1. Width /\ (base.const <=> "const" \in Range(seen)) /\ (base.unsigned <=> "unsigned" \in flags)
  BY DEF BaseInv, BaseRead
<1>2. base.const \in BOOLEAN /\ base.unsigned \in BOOLEAN
  BY DEF BaseInv, BaseTypes, Base
<1>3. \A p, q \in Widths : p \in flags /\ q \in flags => p = q
  BY DEF Legal, LegalSets, Widths, Sign
<1>4. CASE flags \cap Widths = {}
  BY <1>1, <1>2, <1>4 DEF BaseMeansC, Width, Widths
<1>5. CASE flags \cap Widths # {}
  <2>1. (CHOOSE p \in Widths : p \in flags) = base.prim
    BY <1>1, <1>3, <1>5 DEF Width
  <2>2. (IF flags \cap Widths = {} THEN "int" ELSE CHOOSE p \in Widths : p \in flags) = base.prim
    BY <1>5, <2>1
  <2>3. base.size = [void |-> 0, char |-> 1, short |-> 2, int |-> 4, long |-> 4][base.prim]
    BY <1>1, <1>5 DEF Width
  <2>4. base.unsigned = ("unsigned" \in flags) /\ base.const = ("const" \in Range(seen))
    BY <1>1, <1>2
  <2> QED  BY <2>2, <2>3, <2>4, Zenon DEF BaseMeansC, Widths
<1> QED  BY <1>4, <1>5

\* One more token.
LEMMA OneMore ==
    ASSUME seen \in Seq(Tokens), NEW new \in Tokens, seen' = Append(seen, new)
    PROVE  /\ seen' \in Seq(Tokens) /\ Range(seen') = Range(seen) \cup {new}
           /\ Twice(seen') <=> Twice(seen) \/ new \in Range(seen)
           /\ VoidFirst => VoidFirst'
<1>1. /\ Len(seen) \in Nat /\ DOMAIN seen = 1 .. Len(seen) /\ Len(seen') = Len(seen) + 1
      /\ seen' \in Seq(Tokens)
  BY LenProperties, AppendProperties
<1>2. DOMAIN seen' = 1 .. Len(seen) + 1
  BY <1>1, LenProperties
<1>3. seen'[Len(seen) + 1] = new /\ \A i \in DOMAIN seen : seen'[i] = seen[i]
  BY <1>1, AppendProperties
<1>4. \A i : i \in DOMAIN seen' <=> i \in DOMAIN seen \/ i = Len(seen) + 1
  BY <1>1, <1>2
<1> HIDE DEF Tokens
<1>5. Range(seen') = Range(seen) \cup {new}
  BY <1>3, <1>4 DEF Range
<1>6. Twice(seen') <=> Twice(seen) \/ new \in Range(seen)
  <2>1. ASSUME Twice(seen') PROVE Twice(seen) \/ new \in Range(seen)
    BY <1>1, <1>2, <1>3, <1>4, <2>1 DEF Twice, Range
  <2>2. ASSUME Twice(seen) PROVE Twice(seen')
    BY <1>3, <1>4, <2>2 DEF Twice
  <2>3. ASSUME new \in Range(seen) PROVE Twice(seen')
    <3>1. PICK i \in DOMAIN seen : seen[i] = new
      BY <2>3 DEF Range
    <3>2. i < Len(seen) + 1 /\ i \in DOMAIN seen' /\ Len(seen) + 1 \in DOMAIN seen'
      BY <1>1, <1>4, <3>1
    <3> QED  BY <1>3, <3>1, <3>2 DEF Twice
  <2> QED  BY <2>1, <2>2, <2>3
<1>7. ASSUME VoidFirst PROVE VoidFirst'
  <2>1. PICK i \in DOMAIN seen : seen[i] = "void" /\ \A j \in 1 .. i - 1 : seen[j] = "const"
    BY <1>7 DEF VoidFirst
  <2>2. i \in DOMAIN seen' /\ seen'[i] = "void" /\ \A j \in 1 .. i - 1 : seen'[j] = "const"
    BY <1>1, <1>3, <1>4, <2>1
  <2> QED  BY <2>2 DEF VoidFirst
<1> QED  BY <1>1, <1>5, <1>6, <1>7

LEMMA BaseWith ==
    ASSUME NEW b \in Base, NEW p \in Prims, NEW z \in 0 .. 4
    PROVE  [b EXCEPT !.prim = p, !.size = z] \in Base
  BY DEF Base

\* The type after one more specifier.
LEMMA WidthKept ==
    ASSUME base \in Base, flags \in SUBSET Specifiers, NEW new \in Specifiers, ~Invalid(flags, new), Width,
           flags' = flags \cup {new}, base' = WithSpecifier(base, new)
    PROVE  /\ Width' /\ base' \in Base /\ base'.const = base.const
           /\ base'.unsigned = (base.unsigned \/ new = "unsigned")
<1>1. base.prim \in Prims /\ base.size \in 0 .. 4 /\ base.unsigned \in BOOLEAN /\ base.const \in BOOLEAN
  BY DEF Base
<1>2. CASE new = "void"
  <2>1. flags = {}
    BY <1>2 DEF Invalid, MayFollow, Sign
  <2>2. base' = [base EXCEPT !.prim = "void"]
    BY <1>2 DEF WithSpecifier, Sign
  <2> QED  BY <1>1, <1>2, <2>1, <2>2 DEF Width, Widths, Base, Prims
<1>3. CASE new \in {"long", "short", "char"}
  <2>1. flags \cap Widths = {}
    BY <1>3 DEF Invalid, MayFollow, Widths, Sign
  <2>2. base' = [base EXCEPT !.prim = new, !.size = IF new = "char" THEN 1 ELSE IF new = "short" THEN 2 ELSE 4]
    BY <1>3 DEF WithSpecifier, Sized, Sign
  <2>3. new \in {"void", "char", "short", "int", "long", "max"} /\ new \in flags' \cap Widths /\ new # "unsigned"
    BY <1>3 DEF Widths
  <2>4. /\ base'.prim = new /\ base'.const = base.const /\ base'.unsigned = base.unsigned
        /\ base'.size = [void |-> 0, char |-> 1, short |-> 2, int |-> 4, long |-> 4][new]
    BY <1>3, <2>2 DEF Base
  <2>5. base' \in Base
    <3> DEFINE z == IF new = "char" THEN 1 ELSE IF new = "short" THEN 2 ELSE 4
    <3>1. z \in 0 .. 4 /\ new \in Prims
      BY <2>3 DEF Prims
    <3>2. base' = [base EXCEPT !.prim = new, !.size = z]
      BY <2>2
    <3> HIDE DEF z
    <3>3. [base EXCEPT !.prim = new, !.size = z] \in Base
      BY <3>1, BaseWith
    <3> QED  BY <3>2, <3>3, Zenon
  <2> QED  BY <1>1, <2>3, <2>4, <2>5 DEF Width
<1>4. CASE new \in {"int"} \cup Sign
  <2>1. flags' \cap Widths = flags \cap Widths /\ flags' # {}
    BY <1>4 DEF Widths, Sign
  <2>2. CASE base.prim = "max"
    <3>1. flags \cap Widths = {}
      BY <2>2 DEF Width, Widths
    <3>2. base' = [base EXCEPT !.prim = "int", !.size = 4, !.unsigned = @ \/ new = "unsigned"]
      BY <1>1, <1>4, <2>2 DEF WithSpecifier, Sized, Sign
    <3>3. /\ base'.prim = "int" /\ base'.const = base.const /\ base'.size = 4
          /\ base'.unsigned = (base.unsigned \/ new = "unsigned")
      BY <3>2 DEF Base
    <3>4. base' \in Base
      <4> DEFINE u == base.unsigned \/ new = "unsigned"
      <4>1. u \in BOOLEAN /\ "int" \in Prims /\ 4 \in 0 .. 4
        BY <1>1 DEF Prims
      <4>2. base' = [base EXCEPT !.prim = "int", !.size = 4, !.unsigned = u]
        BY <3>2
      <4> HIDE DEF u
      <4>3. [base EXCEPT !.prim = "int", !.size = 4, !.unsigned = u] \in Base
        BY <4>1, Zenon DEF Base
      <4> QED  BY <4>2, <4>3, Zenon
    <3> QED  BY <2>1, <3>1, <3>3, <3>4 DEF Width
  <2>3. CASE base.prim # "max"
    <3>1. base' = [base EXCEPT !.unsigned = @ \/ new = "unsigned"]
      BY <1>4, <2>3 DEF WithSpecifier, Sign
    <3> QED  BY <1>1, <1>4, <2>1, <2>3, <3>1 DEF Width, Base, Prims
  <2> QED  BY <2>2, <2>3
<1> QED  BY <1>2, <1>3, <1>4 DEF Specifiers, Sign

LEMMA SpecifierBase ==
    ASSUME BaseInv, NEW new \in Specifiers, Specifier(new)
    PROVE  BaseInv'
<1>1. /\ phase = "base" /\ phase' = "base" /\ status = "parsing" /\ BaseTypes /\ BaseRead
      /\ seen' = Append(seen, new) /\ new \in Tokens /\ new # "const"
  BY DEF Specifier, In, BaseInv, Abort, Tokens, Specifiers
<1>2. /\ flags = Range(seen) \ {"const"} /\ ~Twice(seen) /\ Width
      /\ base.const <=> "const" \in Range(seen)
      /\ base.unsigned <=> "unsigned" \in flags
      /\ "void" \in flags \/ Completable(flags)
      /\ "void" \in flags => VoidFirst
  BY <1>1 DEF BaseRead
<1>3. /\ seen' \in Seq(Tokens) /\ Range(seen') = Range(seen) \cup {new}
      /\ Twice(seen') <=> new \in flags
      /\ VoidFirst => VoidFirst'
  BY <1>1, <1>2, OneMore DEF BaseTypes
<1>4. Range(seen') \ {"const"} = flags \cup {new}
  BY <1>1, <1>2, <1>3
<1>5. CASE Invalid(flags, new) /\ Abort
  <2>1. BaseTypes'
    BY <1>1, <1>3, <1>5 DEF BaseTypes, Abort
  <2>2. new \in flags \/ ~Completable(flags \cup {new})
    BY <1>1, <1>5, RefusedDoesNot DEF BaseTypes
  <2>3. Twice(seen') \/ ~\E s \in Legal : Range(seen') \ {"const"} \subseteq s
    <3>1. flags \cup {new} \in SUBSET Specifiers
      BY <1>1 DEF BaseTypes
    <3> QED  BY <1>3, <1>4, <2>2, <3>1, LegalCompletes
  <2>4. RejectsWhatCRejects'
    BY <1>5, <2>3 DEF RejectsWhatCRejects, Twice, Abort
  <2> QED  BY <1>5, <2>1, <2>4 DEF BaseInv, BaseRead, Abort
<1>6. CASE ~Invalid(flags, new) /\ flags' = flags \cup {new} /\ base' = WithSpecifier(base, new)
           /\ UNCHANGED <<groups, written, pointers, phase, status>>
  <2>1. /\ Width' /\ base' \in Base /\ base'.const = base.const
        /\ base'.unsigned = (base.unsigned \/ new = "unsigned")
    BY <1>1, <1>2, <1>6, WidthKept DEF BaseTypes
  <2>2. BaseTypes'
    BY <1>1, <1>3, <1>6, <2>1 DEF BaseTypes
  <2>3. ~Twice(seen')
    BY <1>3, <1>6 DEF Invalid
  <2>4. "void" \in flags' \/ Completable(flags')
    BY <1>1, <1>2, <1>6, AcceptedCompletes DEF BaseTypes
  <2>5. "void" \in flags' => VoidFirst'
    <3>1. CASE "void" \in flags
      BY <1>2, <1>3, <3>1
    <3>2. CASE "void" \notin flags /\ new = "void"
      <4>1. flags = {}
        BY <1>6, <3>2 DEF Invalid, MayFollow, Sign
      <4>2. \A j \in DOMAIN seen : seen[j] = "const"
        BY <1>2, <4>1 DEF Range
      <4>3. /\ Len(seen) + 1 \in DOMAIN seen' /\ seen'[Len(seen) + 1] = "void"
            /\ \A j \in 1 .. (Len(seen) + 1) - 1 : j \in DOMAIN seen /\ seen'[j] = seen[j]
        BY <1>1, <3>2, LenProperties, AppendProperties DEF BaseTypes
      <4> QED  BY <4>2, <4>3 DEF VoidFirst
    <3> QED  BY <1>6, <3>1, <3>2
  <2>6. base'.const <=> "const" \in Range(seen')
    BY <1>1, <1>2, <1>3, <2>1
  <2>7. base'.unsigned <=> "unsigned" \in flags'
    BY <1>2, <1>6, <2>1
  <2>8. BaseRead'
    BY <1>4, <1>6, <2>1, <2>3, <2>4, <2>5, <2>6, <2>7 DEF BaseRead
  <2>9. RejectsWhatCRejects'
    <3>1. "void" \in flags' \/ \E s \in Legal : Range(seen') \ {"const"} \subseteq s
      BY <1>4, <1>6, <2>2, <2>4, LegalCompletes DEF BaseTypes
    <3> QED  BY <1>1, <1>6, <2>3, <2>5, <3>1 DEF RejectsWhatCRejects, Twice
  <2> QED  BY <2>2, <2>8, <2>9 DEF BaseInv
<1> QED  BY <1>5, <1>6 DEF Specifier

LEMMA QualifierBase ==
    ASSUME BaseInv, Qualifier
    PROVE  BaseInv'
<1>1. /\ phase = "base" /\ phase' = "base" /\ status = "parsing" /\ BaseTypes /\ BaseRead
      /\ seen' = Append(seen, "const") /\ "const" \in Tokens /\ flags' = flags
  BY DEF Qualifier, In, BaseInv, Abort, Tokens
<1>2. /\ flags = Range(seen) \ {"const"} /\ ~Twice(seen)
      /\ base.const <=> "const" \in Range(seen)
  BY <1>1 DEF BaseRead
<1>3. /\ seen' \in Seq(Tokens) /\ Range(seen') = Range(seen) \cup {"const"}
      /\ Twice(seen') <=> "const" \in Range(seen)
      /\ VoidFirst => VoidFirst'
  BY <1>1, <1>2, OneMore DEF BaseTypes
<1>4. Range(seen') \ {"const"} = flags
  BY <1>2, <1>3
<1>5. CASE base.const /\ Abort
  <2>1. BaseTypes'
    BY <1>1, <1>3, <1>5 DEF BaseTypes, Abort
  <2> QED  BY <1>2, <1>3, <1>5, <2>1 DEF BaseInv, BaseRead, RejectsWhatCRejects, Twice, Abort
<1>6. CASE ~base.const /\ base' = [base EXCEPT !.const = TRUE]
           /\ UNCHANGED <<flags, groups, written, pointers, phase, status>>
  <2>1. /\ base' \in Base /\ base'.const /\ base'.prim = base.prim /\ base'.size = base.size
        /\ base'.unsigned = base.unsigned
    BY <1>1, <1>6 DEF BaseTypes, Base
  <2>2. BaseTypes'
    BY <1>1, <1>3, <1>6, <2>1 DEF BaseTypes
  <2>3. /\ Width
        /\ base.unsigned <=> "unsigned" \in flags
        /\ "void" \in flags \/ Completable(flags)
        /\ "void" \in flags => VoidFirst
    BY <1>1 DEF BaseRead
  <2>4. Width'
    BY <1>1, <2>1, <2>3 DEF Width
  <2>5. BaseRead'
    BY <1>1, <1>2, <1>3, <1>4, <1>6, <2>1, <2>3, <2>4 DEF BaseRead
  <2>6. RejectsWhatCRejects'
    <3>1. "void" \in flags \/ \E s \in Legal : flags \subseteq s
      BY <1>1, <2>3, LegalCompletes DEF BaseTypes
    <3>2. ~Twice(seen')
      BY <1>2, <1>3, <1>6
    <3> QED  BY <1>1, <1>3, <1>4, <1>6, <2>3, <3>1, <3>2 DEF RejectsWhatCRejects, Twice
  <2> QED  BY <2>2, <2>5, <2>6 DEF BaseInv
<1> QED  BY <1>5, <1>6 DEF Qualifier

LEMMA OtherBase ==
    ASSUME BaseInv, UNCHANGED <<base, flags, seen>>, phase' \in {phase, "declarator", "reducing"},
           status = "parsing", status' = "parsing" \/ phase' # "base",
           status' \in {"parsing", "done", "aborted", "fault"}
    PROVE  BaseInv'
<1>1. BaseTypes /\ BaseRead /\ BaseTypes'
  BY DEF BaseInv, BaseTypes
<1>2. BaseRead'
  BY <1>1 DEF BaseRead, Twice, Width, VoidFirst
<1>3. RejectsWhatCRejects'
  BY DEF BaseInv, BaseTypes, RejectsWhatCRejects, VoidFirst
<1> QED  BY <1>1, <1>2, <1>3 DEF BaseInv

LEMMA InitBase == Init => BaseInv
<1> SUFFICES ASSUME Init PROVE BaseInv
  OBVIOUS
<1>1. DOMAIN seen = {} /\ Range(seen) = {} /\ seen \in Seq(Tokens)
  BY DEF Init, Range
<1>2. BaseTypes
  BY <1>1 DEF Init, BaseTypes, Base, Prims
<1>3. Completable(flags)
  BY DEF Init, Completable, Sign
<1>4. BaseRead
  BY <1>1, <1>3 DEF Init, BaseRead, Twice, Width
<1>5. \E s \in Legal : Range(seen) \ {"const"} \subseteq s
  BY <1>1, <1>2, <1>3, LegalCompletes DEF Init, BaseTypes
<1> QED  BY <1>1, <1>2, <1>4, <1>5 DEF Init, BaseInv, RejectsWhatCRejects

LEMMA NextBase == BaseInv /\ [Next]_vars => BaseInv'
<1> SUFFICES ASSUME BaseInv, [Next]_vars PROVE BaseInv'
  OBVIOUS
<1>1. CASE \E new \in Specifiers : Specifier(new)
  BY <1>1, SpecifierBase
<1>2. CASE Qualifier
  BY <1>2, QualifierBase
<1>3. CASE EndBase \/ Star \/ OpenParen \/ Middle \/ CloseGroup
  BY <1>3, OtherBase DEF EndBase, Star, OpenParen, Middle, CloseGroup, In
<1>4. CASE PointerQualifier
  BY <1>4, OtherBase DEF PointerQualifier, In, Abort
<1>5. CASE Finish
  BY <1>5, OtherBase DEF Finish, In
<1>6. CASE UNCHANGED vars
  BY <1>6 DEF vars, BaseInv, BaseTypes, BaseRead, Twice, Width, VoidFirst, RejectsWhatCRejects
<1> QED  BY <1>1, <1>2, <1>3, <1>4, <1>5, <1>6 DEF Next

(***************************************************************************)
(* Sequences of sequences, flattened.                                      *)
(***************************************************************************)
LEMMA LeastOf ==
    ASSUME NEW S \in SUBSET Nat, S # {}
    PROVE  \E x \in S : \A y \in S : x <= y
<1> DEFINE R == {ss \in Nat \X Nat : ss[1] < ss[2]}
<1>1. \A x, y \in Nat : x < y => <<x, y>> \in R
  OBVIOUS
<1>2. IsWellFoundedOn(R, Nat)
  BY NatLessThanWellFounded DEF OpToRel
<1> HIDE DEF R
<1>3. PICK x \in S : \A y \in S : ~(<<y, x>> \in R)
  BY <1>2, WFMin
<1>4. x \in Nat /\ \A y \in S : y \in Nat
  OBVIOUS
<1>5. ASSUME NEW y \in S PROVE x <= y
  <2>1. ~(y < x)
    BY <1>1, <1>3, <1>4, Zenon
  <2> QED  BY <1>4, <2>1
<1> QED  BY <1>3, <1>5

\* f[i] is the first i of gs flattened, up to n.
Flattens(f, gs, n) == f = [i \in 1 .. n |-> IF i = 1 THEN gs[i] ELSE f[i - 1] \o gs[i]]

LEMMA FlattensFurther ==
    ASSUME NEW gs, NEW n \in Nat, NEW f, Flattens(f, gs, n)
    PROVE  \E g : Flattens(g, gs, n + 1)
<1> DEFINE m == n + 1
           step == IF m = 1 THEN gs[m] ELSE f[n] \o gs[m]
           g == [i \in 1 .. m |-> IF i = m THEN step ELSE f[i]]
<1>1. /\ \A i \in 1 .. n : i \in 1 .. m /\ i # m
      /\ m \in 1 .. m /\ m - 1 = n /\ \A i \in 1 .. m : i = m \/ i \in 1 .. n
      /\ \A i \in 1 .. n : i # 1 => i - 1 \in 1 .. n
      /\ m # 1 => n \in 1 .. n
  OBVIOUS
<1>2. \A i \in 1 .. n : f[i] = IF i = 1 THEN gs[i] ELSE f[i - 1] \o gs[i]
  BY Zenon DEF Flattens
<1>3. \A i \in 1 .. n : g[i] = f[i]
  BY <1>1
<1>4. g[m] = step
  BY <1>1
<1>5. ASSUME NEW i \in 1 .. m
      PROVE  (IF i = m THEN step ELSE f[i]) = IF i = 1 THEN gs[i] ELSE g[i - 1] \o gs[i]
  <2> HIDE DEF g
  <2>1. CASE i = m
    BY <1>1, <1>3, <2>1
  <2>2. CASE i # m
    BY <1>1, <1>2, <1>3, <2>2
  <2> QED  BY <2>1, <2>2
<1>6. g = [i \in 1 .. m |-> IF i = 1 THEN gs[i] ELSE g[i - 1] \o gs[i]]
  BY Zenon, <1>5
<1> QED  BY Zenon, <1>6 DEF Flattens

LEMMA FlattensExist ==
    ASSUME NEW gs
    PROVE  \A n \in Nat : \E f : Flattens(f, gs, n)
<1> DEFINE S == {n \in Nat : ~\E f : Flattens(f, gs, n)}
<1>1. SUFFICES ASSUME S # {} PROVE FALSE
  OBVIOUS
<1>2. S \in SUBSET Nat /\ \A n : n \in S <=> n \in Nat /\ ~\E f : Flattens(f, gs, n)
  OBVIOUS
<1> HIDE DEF S
<1>3. PICK x \in S : \A y \in S : x <= y
  BY <1>1, <1>2, LeastOf
<1>4. x \in Nat /\ ~\E f : Flattens(f, gs, x)
  BY <1>2, <1>3
<1>5. CASE x = 0
  <2> DEFINE f == [i \in 1 .. 0 |-> <<>>]
  <2>1. f = [i \in 1 .. 0 |-> IF i = 1 THEN gs[i] ELSE f[i - 1] \o gs[i]]
    OBVIOUS
  <2>2. Flattens(f, gs, 0)
    BY <2>1, Zenon DEF Flattens
  <2> QED  BY <1>4, <1>5, <2>2
<1>6. CASE x # 0
  <2>1. x - 1 \in Nat /\ ~(x <= x - 1) /\ (x - 1) + 1 = x
    BY <1>4, <1>6
  <2>2. PICK f : Flattens(f, gs, x - 1)
    BY <1>2, <1>3, <2>1
  <2> QED  BY <1>4, <2>1, <2>2, FlattensFurther
<1> QED  BY <1>5, <1>6

\* FlattenSeq is the last of them.
LEMMA FlattenIs ==
    ASSUME NEW T, NEW gs \in Seq(T), gs # <<>>
    PROVE  \E f : Flattens(f, gs, Len(gs)) /\ FlattenSeq(gs) = f[Len(gs)]
<1>1. Len(gs) \in Nat /\ Len(gs) # 0
  BY EmptySeq, LenProperties
<1>2. \E f : Flattens(f, gs, Len(gs))
  BY <1>1, FlattensExist
<1> DEFINE f == CHOOSE f : f = [i \in 1 .. Len(gs) |-> IF i = 1 THEN gs[i] ELSE f[i - 1] \o gs[i]]
<1>3. Flattens(f, gs, Len(gs))
  BY <1>2, Zenon DEF Flattens
<1>4. FlattenSeq(gs) = f[Len(gs)]
  BY <1>1, Zenon DEF FlattenSeq
<1> QED  BY <1>3, <1>4, Zenon

\* What is flattened so far is a sequence, and holds what each of its parts does.
LEMMA FlattensType ==
    ASSUME NEW T, NEW gs \in Seq(Seq(T)), NEW n \in 0 .. Len(gs), NEW f, Flattens(f, gs, n)
    PROVE  \A i \in 1 .. n : f[i] \in Seq(T) /\ \A j \in 1 .. i : Range(gs[j]) \subseteq Range(f[i])
<1> DEFINE Good(i) == f[i] \in Seq(T) /\ \A j \in 1 .. i : Range(gs[j]) \subseteq Range(f[i])
           S == {i \in 1 .. n : ~Good(i)}
<1>1. SUFFICES ASSUME S # {} PROVE FALSE
  OBVIOUS
<1>2. S \in SUBSET Nat /\ \A i : i \in S <=> i \in 1 .. n /\ ~Good(i)
  OBVIOUS
<1> HIDE DEF S
<1>3. PICK x \in S : \A y \in S : x <= y
  BY <1>1, <1>2, LeastOf
<1>4. Len(gs) \in Nat /\ n \in Nat /\ x \in 1 .. n /\ ~Good(x)
  BY <1>2, <1>3, LenProperties
<1>5. gs[x] \in Seq(T)
  BY <1>4, ElementOfSeq
<1>6. f[x] = IF x = 1 THEN gs[x] ELSE f[x - 1] \o gs[x]
  BY <1>4, Zenon DEF Flattens
<1>7. CASE x = 1
  BY <1>4, <1>5, <1>6, <1>7
<1>8. CASE x # 1
  <2>1. x - 1 \in 1 .. n /\ ~(x <= x - 1) /\ \A j \in 1 .. x : j = x \/ j \in 1 .. (x - 1)
    BY <1>4, <1>8
  <2>2. Good(x - 1)
    BY <1>2, <1>3, <2>1
  <2>3. f[x - 1] \o gs[x] \in Seq(T)
    BY <1>5, <2>2, ConcatProperties
  <2>4. Range(f[x - 1] \o gs[x]) = Range(f[x - 1]) \cup Range(gs[x])
    BY <1>5, <2>2, RangeConcatenation
  <2> QED  BY <1>4, <1>6, <1>8, <2>1, <2>2, <2>3, <2>4
<1> QED  BY <1>7, <1>8

SameParts(gs, hs, m) == \A i \in 1 .. m : gs[i] = hs[i]

\* What is flattened so far only depends on the parts so far.
LEMMA FlattensAgree ==
    ASSUME NEW gs, NEW hs, NEW n \in Nat, NEW m \in 0 .. n, NEW f, NEW g,
           Flattens(f, gs, n), Flattens(g, hs, m), SameParts(gs, hs, m)
    PROVE  \A i \in 1 .. m : f[i] = g[i]
<1> DEFINE S == {i \in 1 .. m : f[i] # g[i]}
<1>1. SUFFICES ASSUME S # {} PROVE FALSE
  OBVIOUS
<1>2. S \in SUBSET Nat /\ \A i : i \in S <=> i \in 1 .. m /\ f[i] # g[i]
  OBVIOUS
<1> HIDE DEF S
<1>3. PICK x \in S : \A y \in S : x <= y
  BY <1>1, <1>2, LeastOf
<1>4. x \in 1 .. m /\ x \in 1 .. n /\ f[x] # g[x] /\ ~(x <= x - 1)
  BY <1>2, <1>3
<1>5. /\ f[x] = IF x = 1 THEN gs[x] ELSE f[x - 1] \o gs[x]
      /\ g[x] = IF x = 1 THEN hs[x] ELSE g[x - 1] \o hs[x]
  BY <1>4, Zenon DEF Flattens
<1>6. x # 1 => x - 1 \in 1 .. m
  BY <1>4
<1> QED  BY <1>2, <1>3, <1>4, <1>5, <1>6 DEF SameParts

LEMMA FlattenFront ==
    ASSUME NEW T, NEW gs \in Seq(Seq(T)), gs # <<>>
    PROVE  LET n == Len(gs)
               front == SubSeq(gs, 1, n - 1)
           IN  /\ FlattenSeq(gs) = FlattenSeq(front) \o gs[n]
               /\ FlattenSeq(front) \in Seq(T) /\ FlattenSeq(gs) \in Seq(T) /\ gs[n] \in Seq(T)
               /\ \A i \in 1 .. n : Range(gs[i]) \subseteq Range(FlattenSeq(gs))
<1> DEFINE n == Len(gs)
           front == SubSeq(gs, 1, n - 1)
<1>1. n \in Nat /\ n # 0 /\ n \in 1 .. n /\ n \in 0 .. n /\ gs[n] \in Seq(T)
  BY EmptySeq, LenProperties, ElementOfSeq
<1>2. front \in Seq(Seq(T)) /\ Len(front) = n - 1 /\ \A i \in 1 .. n - 1 : front[i] = gs[i]
  <2>1. \A i \in 1 .. n - 1 : gs[i] \in Seq(T)
    BY <1>1, ElementOfSeq
  <2>2. n - 1 \in Int /\ 1 \in Int
    BY <1>1
  <2>3. /\ front \in Seq(Seq(T)) /\ Len(front) = IF 1 <= n - 1 THEN (n - 1) - 1 + 1 ELSE 0
        /\ \A i \in 1 .. (n - 1) - 1 + 1 : front[i] = gs[1 + i - 1]
    BY <2>1, <2>2, SubSeqProperties
  <2> HIDE DEF n, front
  <2>4. (n - 1) - 1 + 1 = n - 1 /\ (~(1 <= n - 1) => n - 1 = 0)
    BY <1>1
  <2>5. Len(front) = n - 1
    BY <2>3, <2>4
  <2>6. \A i \in 1 .. n - 1 : front[i] = gs[i]
    BY <1>1, <2>3, <2>4
  <2> QED  BY <2>3, <2>5, <2>6
<1>3. PICK f : Flattens(f, gs, n) /\ FlattenSeq(gs) = f[n]
  BY FlattenIs
<1>4. \A i \in 1 .. n : f[i] \in Seq(T) /\ \A j \in 1 .. i : Range(gs[j]) \subseteq Range(f[i])
  BY <1>1, <1>3, FlattensType
<1>5. f[n] = IF n = 1 THEN gs[n] ELSE f[n - 1] \o gs[n]
  BY <1>1, <1>3, Zenon DEF Flattens
<1> HIDE DEF n, front
<1>6. CASE n = 1
  <2>1. front = <<>>
    BY <1>2, <1>6, EmptySeq
  <2>2. FlattenSeq(front) = <<>> /\ FlattenSeq(front) \in Seq(T)
    BY <2>1, EmptySeq DEF FlattenSeq
  <2>3. <<>> \o gs[n] = gs[n]
    BY <1>1, ConcatEmptySeq
  <2>4. FlattenSeq(gs) = FlattenSeq(front) \o gs[n]
    BY <1>3, <1>5, <1>6, <2>2, <2>3
  <2> QED  BY <1>1, <1>3, <1>4, <2>2, <2>4 DEF n, front
<1>7. CASE n # 1
  <2>1. n - 1 \in Nat /\ n - 1 \in 0 .. n /\ n - 1 \in 1 .. n /\ n - 1 \in 1 .. n - 1 /\ front # <<>>
    BY <1>1, <1>2, <1>7, EmptySeq
  <2>2. PICK g : Flattens(g, front, n - 1) /\ FlattenSeq(front) = g[n - 1]
    BY <1>2, <2>1, FlattenIs
  <2>3. f[n - 1] = g[n - 1]
    <3>1. SameParts(gs, front, n - 1)
      BY <1>2 DEF SameParts
    <3> DEFINE m == n - 1
    <3>2. m \in 0 .. n /\ m \in 1 .. m /\ Flattens(g, front, m) /\ SameParts(gs, front, m)
      BY <2>1, <2>2, <3>1
    <3>3. n \in Nat /\ Flattens(f, gs, n)
      BY <1>1, <1>3
    <3> HIDE DEF m
    <3>4. f[m] = g[m]
      BY <3>2, <3>3, FlattensAgree
    <3> QED  BY <3>4 DEF m
  <2> QED  BY <1>1, <1>3, <1>4, <1>5, <1>7, <2>1, <2>2, <2>3 DEF n, front
<1> QED  BY <1>6, <1>7

(***************************************************************************)
(* The declarator.                                                         *)
(***************************************************************************)
DeclaratorTypes ==
    /\ groups \in Seq(Seq(BOOLEAN)) /\ written \in Seq(Seq(BOOLEAN)) /\ pointers \in Seq(BOOLEAN)
    /\ phase \in {"base", "declarator", "reducing"}

\* On the way in every parenthesis has its group.  On the way out the pointers
\* are those of the groups that were closed, which were the inner ones.
DeclaratorRead ==
    IF phase # "reducing" THEN groups # <<>> /\ pointers = <<>> /\ status # "done"
    ELSE /\ written # <<>> /\ Len(groups) \in 0 .. Len(written)
         /\ groups = SubSeq(written, 1, Len(groups))
         /\ Len(pointers) + Len(FlattenSeq(groups)) = Len(FlattenSeq(written))
         /\ Range(pointers) \subseteq Range(FlattenSeq(written))
         /\ Len(written) = 1 => \/ groups = written /\ pointers = <<>>
                                \/ groups = <<>> /\ pointers = Reverse(written[1])
         /\ status = "done" => groups = <<>>

DeclaratorInv == DeclaratorTypes /\ DeclaratorRead

LEMMA ReverseType ==
    ASSUME NEW T, NEW s \in Seq(T)
    PROVE  /\ Reverse(s) \in Seq(T) /\ Len(Reverse(s)) = Len(s)
           /\ Range(Reverse(s)) \subseteq Range(s)
           /\ \A i \in 1 .. Len(s) : Reverse(s)[i] = s[Len(s) - i + 1]
<1>1. Len(s) \in Nat /\ DOMAIN s = 1 .. Len(s) /\ \A i \in 1 .. Len(s) : s[i] \in T
  BY LenProperties, ElementOfSeq
<1>2. \A i \in 1 .. Len(s) : Len(s) - i + 1 \in 1 .. Len(s)
  BY <1>1
<1>3. Reverse(s) \in [1 .. Len(s) -> T]
  BY <1>1, <1>2 DEF Reverse
<1>4. Reverse(s) \in Seq(T)
  BY <1>1, <1>3, SeqDef
<1>5. Len(Reverse(s)) = Len(s) /\ DOMAIN Reverse(s) = 1 .. Len(s)
  BY <1>1, <1>3, <1>4, LenProperties
<1>6. \A i \in 1 .. Len(s) : Reverse(s)[i] = s[Len(s) - i + 1]
  BY DEF Reverse
<1>7. Range(Reverse(s)) \subseteq Range(s)
  BY <1>1, <1>2, <1>5, <1>6 DEF Range
<1> QED  BY <1>4, <1>5, <1>6, <1>7

LEMMA FlattenNone == FlattenSeq(<<>>) = <<>>
  BY EmptySeq DEF FlattenSeq

LEMMA DeclaratorInvMeansC ==
    ASSUME DeclaratorInv
    PROVE  DeclaratorMeansC
<1> SUFFICES ASSUME status = "done", Len(written) = 1 \/ Alike(written)
             PROVE  pointers = Reverse(FlattenSeq(written))
  BY DEF DeclaratorMeansC
<1> DEFINE flat == FlattenSeq(written)
<1>1. /\ written # <<>> /\ groups = <<>> /\ pointers \in Seq(BOOLEAN) /\ written \in Seq(Seq(BOOLEAN))
      /\ Len(pointers) + Len(FlattenSeq(groups)) = Len(flat)
      /\ Range(pointers) \subseteq Range(flat)
      /\ Len(written) = 1 => \/ groups = written /\ pointers = <<>>
                             \/ groups = <<>> /\ pointers = Reverse(written[1])
  BY DEF DeclaratorInv, DeclaratorTypes, DeclaratorRead
<1>2. /\ flat = FlattenSeq(SubSeq(written, 1, Len(written) - 1)) \o written[Len(written)]
      /\ flat \in Seq(BOOLEAN) /\ written[Len(written)] \in Seq(BOOLEAN)
  BY <1>1, FlattenFront
<1>3. CASE Len(written) = 1
  <2>1. SubSeq(written, 1, Len(written) - 1) = <<>>
    BY <1>3, SubSeqEmpty
  <2>2. flat = <<>> \o written[1]
    BY <1>2, <1>3, <2>1, FlattenNone
  <2>3. <<>> \o written[1] = written[1]
    BY <1>2, <1>3, ConcatEmptySeq
  <2> QED  BY <1>1, <1>3, <2>2, <2>3
<1>4. CASE Alike(written)
  <2> HIDE DEF flat
  <2>1. Len(pointers) = Len(flat)
    <3>1. Len(pointers) \in Nat /\ Len(flat) \in Nat /\ Len(<<>>) = 0
      BY <1>1, <1>2, LenProperties, EmptySeq
    <3> QED  BY <1>1, <3>1, FlattenNone
  <2>2. \A a, b \in Range(flat) : a = b
    BY <1>4 DEF Alike, flat
  <2>3. Reverse(flat) \in Seq(BOOLEAN) /\ Len(Reverse(flat)) = Len(flat) /\ Range(Reverse(flat)) \subseteq Range(flat)
    BY <1>2, ReverseType
  <2>4. \A i \in 1 .. Len(pointers) : pointers[i] \in Range(flat) /\ Reverse(flat)[i] \in Range(flat)
    BY <1>1, <2>1, <2>3, LenProperties DEF Range
  <2>5. \A i \in 1 .. Len(pointers) : pointers[i] = Reverse(flat)[i]
    BY <2>2, <2>4
  <2>6. pointers = Reverse(flat)
    BY <1>1, <2>1, <2>3, <2>5, SeqEqual
  <2> QED  BY <2>6 DEF flat
<1> QED  BY <1>3, <1>4

LEMMA GroupThere ==
    ASSUME DeclaratorTypes, groups # <<>>
    PROVE  Len(groups) \in 1 .. Len(groups) /\ Group \in Seq(BOOLEAN)
<1>1. Len(groups) \in Nat /\ Len(groups) # 0
  BY EmptySeq DEF DeclaratorTypes
<1>2. Len(groups) \in 1 .. Len(groups)
  BY <1>1
<1> QED  BY <1>2, ElementOfSeq DEF DeclaratorTypes, Group

\* Only the innermost group changes.
LEMMA GroupChanged ==
    ASSUME DeclaratorInv, phase = "declarator", NEW g \in Seq(BOOLEAN), groups' = [groups EXCEPT ![Len(groups)] = g],
           UNCHANGED <<written, pointers, phase, status>>
    PROVE  DeclaratorInv'
<1>1. groups # <<>> /\ Len(groups) \in 1 .. Len(groups)
  BY GroupThere DEF DeclaratorInv, DeclaratorRead
<1>2. [groups EXCEPT ![Len(groups)] = g] \in Seq(Seq(BOOLEAN)) /\ Len([groups EXCEPT ![Len(groups)] = g]) = Len(groups)
  BY <1>1, ExceptSeq DEF DeclaratorInv, DeclaratorTypes
<1>3. groups' \in Seq(Seq(BOOLEAN)) /\ Len(groups') = Len(groups)
  BY <1>2, Zenon
<1>4. groups' # <<>>
  BY <1>1, <1>3, EmptySeq
<1> QED  BY <1>3, <1>4 DEF DeclaratorInv, DeclaratorTypes, DeclaratorRead

LEMMA LinkedUp ==
    ASSUME NEW T, NEW rev \in Seq(T), NEW inside \in Seq(T)
    PROVE  /\ rev \o inside \in Seq(T) /\ Len(rev \o inside) = Len(rev) + Len(inside)
           /\ Range(rev \o inside) = Range(rev) \cup Range(inside)
<1>1. rev \o inside \in Seq(T) /\ Len(rev \o inside) = Len(rev) + Len(inside)
  BY ConcatProperties
<1>2. Range(rev \o inside) = Range(rev) \cup Range(inside)
  BY RangeConcatenation
<1> QED  BY <1>1, <1>2

LEMMA CloseGroupDeclarator ==
    ASSUME DeclaratorInv, CloseGroup
    PROVE  DeclaratorInv'
<1> DEFINE n == Len(groups)
           flat == FlattenSeq(written)
<1>1. /\ phase = "reducing" /\ phase' = phase /\ status = "parsing" /\ status' = status /\ written' = written
      /\ groups # <<>> /\ pointers' = Reverse(Group) \o pointers /\ groups' = SubSeq(groups, 1, n - 1)
  BY DEF CloseGroup, Linked, In
<1>2. /\ groups \in Seq(Seq(BOOLEAN)) /\ written \in Seq(Seq(BOOLEAN)) /\ pointers \in Seq(BOOLEAN)
      /\ written # <<>> /\ n \in 0 .. Len(written) /\ groups = SubSeq(written, 1, n)
      /\ Len(pointers) + Len(FlattenSeq(groups)) = Len(flat)
      /\ Range(pointers) \subseteq Range(flat)
      /\ Len(written) = 1 => \/ groups = written /\ pointers = <<>>
                             \/ groups = <<>> /\ pointers = Reverse(written[1])
  BY <1>1 DEF DeclaratorInv, DeclaratorTypes, DeclaratorRead
<1>3. /\ n \in 1 .. n /\ Group \in Seq(BOOLEAN) /\ Len(written) \in Nat /\ n \in 1 .. Len(written)
      /\ Group = written[n]
  <2>1. n \in 1 .. n /\ Group \in Seq(BOOLEAN) /\ Len(written) \in Nat
    BY <1>1, <1>2, GroupThere, LenProperties DEF DeclaratorInv
  <2>2. SubSeq(written, 1, n)[n] = written[n]
    BY <1>2, <2>1, LenProperties
  <2> QED  BY <1>2, <2>1, <2>2 DEF Group
<1>4. /\ FlattenSeq(groups) = FlattenSeq(groups') \o Group
      /\ FlattenSeq(groups') \in Seq(BOOLEAN) /\ flat \in Seq(BOOLEAN)
      /\ Range(Group) \subseteq Range(flat)
  <2>1. FlattenSeq(groups) = FlattenSeq(groups') \o Group /\ FlattenSeq(groups') \in Seq(BOOLEAN)
    BY <1>1, <1>2, FlattenFront DEF Group
  <2>2. flat \in Seq(BOOLEAN) /\ Range(written[n]) \subseteq Range(flat)
    BY <1>2, <1>3, FlattenFront
  <2> QED  BY <1>3, <2>1, <2>2
<1>5. /\ Reverse(Group) \in Seq(BOOLEAN) /\ Len(Reverse(Group)) = Len(Group)
      /\ Range(Reverse(Group)) \subseteq Range(Group)
  BY <1>3, ReverseType
<1> HIDE DEF flat
<1>6. /\ pointers' \in Seq(BOOLEAN) /\ Len(pointers') = Len(Group) + Len(pointers)
      /\ Range(pointers') \subseteq Range(flat)
  <2> DEFINE rev == Reverse(Group)
  <2>1. rev \in Seq(BOOLEAN) /\ Len(rev) = Len(Group) /\ Range(rev) \subseteq Range(flat) /\ pointers' = rev \o pointers
    BY <1>1, <1>4, <1>5
  <2> HIDE DEF rev
  <2>2. /\ rev \o pointers \in Seq(BOOLEAN) /\ Len(rev \o pointers) = Len(rev) + Len(pointers)
        /\ Range(rev \o pointers) = Range(rev) \cup Range(pointers)
    <3>1. pointers \in Seq(BOOLEAN)
      BY <1>2
    <3>2. rev \in Seq(BOOLEAN)
      BY <2>1
    <3> QED  BY <3>1, <3>2, LinkedUp, Zenon
  <2>3. Range(pointers) \subseteq Range(flat)
    BY <1>2
  <2> QED  BY <2>1, <2>2, <2>3, Zenon
<1>7. Len(pointers') + Len(FlattenSeq(groups')) = Len(flat)
  <2>1. Len(FlattenSeq(groups)) = Len(FlattenSeq(groups')) + Len(Group)
    BY <1>3, <1>4, ConcatProperties
  <2>2. /\ Len(FlattenSeq(groups')) \in Nat /\ Len(Group) \in Nat /\ Len(pointers) \in Nat
    BY <1>2, <1>3, <1>4, LenProperties
  <2> QED  BY <1>2, <1>6, <2>1, <2>2
<1>8. /\ groups' \in Seq(Seq(BOOLEAN)) /\ Len(groups') = n - 1 /\ groups' = SubSeq(written, 1, n - 1)
  <2>1. \A i \in 1 .. n - 1 : groups[i] \in Seq(BOOLEAN)
    BY <1>2, <1>3, ElementOfSeq
  <2>2. groups' \in Seq(Seq(BOOLEAN)) /\ Len(groups') = IF 1 <= n - 1 THEN (n - 1) - 1 + 1 ELSE 0
    BY <1>1, <1>3, <2>1, SubSeqProperties
  <2>3. Len(groups') = n - 1
    <3>1. (n - 1) - 1 + 1 = n - 1 /\ (~(1 <= n - 1) => n - 1 = 0)
      <4>1. n \in Nat /\ n >= 1
        BY <1>3
      <4> HIDE DEF n
      <4> QED  BY <4>1
    <3> QED  BY <2>2, <3>1, Zenon
  <2>4. SubSeq(SubSeq(written, 1, n), 1, n - 1) = SubSeq(written, 1, n - 1)
    BY <1>2, <1>3
  <2> QED  BY <1>1, <1>2, <2>2, <2>3, <2>4
<1>9. ASSUME Len(written) = 1
      PROVE  groups' = <<>> /\ pointers' = Reverse(written[1])
  <2>1. n = 1 /\ pointers = <<>>
    BY <1>1, <1>2, <1>3, <1>9
  <2>2. Reverse(Group) \o <<>> = Reverse(Group)
    BY <1>5, ConcatEmptySeq
  <2> QED  BY <1>1, <1>3, <1>8, <2>1, <2>2, EmptySeq
<1>10. DeclaratorTypes'
  BY <1>1, <1>2, <1>6, <1>8 DEF DeclaratorInv, DeclaratorTypes
<1>11. n - 1 \in 0 .. Len(written)
  BY <1>3
<1> QED  BY <1>1, <1>2, <1>6, <1>7, <1>8, <1>9, <1>10, <1>11 DEF DeclaratorInv, DeclaratorRead, flat

LEMMA NextDeclarator == DeclaratorInv /\ [Next]_vars => DeclaratorInv'
<1> SUFFICES ASSUME DeclaratorInv, [Next]_vars PROVE DeclaratorInv'
  OBVIOUS
<1>1. CASE (\E new \in Specifiers : Specifier(new)) \/ Qualifier \/ EndBase
  BY <1>1 DEF Specifier, Qualifier, EndBase, In, Abort, DeclaratorInv, DeclaratorTypes, DeclaratorRead
<1>2. CASE Star
  <2>1. Append(Group, FALSE) \in Seq(BOOLEAN)
    BY <1>2, GroupThere, AppendProperties DEF Star, In, DeclaratorInv, DeclaratorRead
  <2>2. groups' = [groups EXCEPT ![Len(groups)] = Append(Group, FALSE)]
    BY <1>2 DEF Star, Group
  <2> QED  BY <1>2, <2>1, <2>2, GroupChanged DEF Star, In
<1>3. CASE PointerQualifier
  <2>1. CASE Group[Len(Group)] /\ Abort
    BY <1>3, <2>1 DEF PointerQualifier, In, Abort, DeclaratorInv, DeclaratorTypes, DeclaratorRead
  <2>2. CASE groups' = [groups EXCEPT ![Len(groups)][Len(Group)] = TRUE]
             /\ UNCHANGED <<base, flags, written, pointers, phase, status>>
    <3>1. groups' = [groups EXCEPT ![Len(groups)] = [Group EXCEPT ![Len(Group)] = TRUE]]
      BY <2>2 DEF Group
    <3>2. Group \in Seq(BOOLEAN) /\ Group # <<>>
      BY <1>3, GroupThere DEF PointerQualifier, In, DeclaratorInv, DeclaratorRead
    <3>3. Len(Group) \in 1 .. Len(Group)
      BY <3>2, EmptySeq
    <3>4. [Group EXCEPT ![Len(Group)] = TRUE] \in Seq(BOOLEAN)
      BY <3>2, <3>3, ExceptSeq
    <3> QED  BY <1>3, <2>2, <3>1, <3>4, GroupChanged DEF PointerQualifier, In
  <2> QED  BY <1>3, <2>1, <2>2 DEF PointerQualifier
<1>4. CASE OpenParen
  <2>1. <<>> \in Seq(BOOLEAN) /\ groups \in Seq(Seq(BOOLEAN)) /\ groups' = Append(groups, <<>>)
    BY <1>4, EmptySeq DEF OpenParen, DeclaratorInv, DeclaratorTypes
  <2>2. groups' \in Seq(Seq(BOOLEAN)) /\ groups' # <<>>
    BY <2>1, AppendProperties
  <2> QED  BY <1>4, <2>2 DEF OpenParen, In, DeclaratorInv, DeclaratorTypes, DeclaratorRead
<1>5. CASE Middle
  <2>1. /\ groups # <<>> /\ pointers = <<>> /\ groups \in Seq(Seq(BOOLEAN)) /\ written' = groups
        /\ groups' = groups /\ pointers' = <<>> /\ phase' = "reducing" /\ status' # "done"
    BY <1>5 DEF Middle, In, DeclaratorInv, DeclaratorTypes, DeclaratorRead
  <2>2. Len(groups) \in Nat /\ groups = SubSeq(groups, 1, Len(groups)) /\ FlattenSeq(groups) \in Seq(BOOLEAN)
    BY <2>1, SubSeqFull, LenProperties, FlattenFront
  <2>3. Len(<<>>) = 0 /\ Range(<<>>) = {} /\ Len(FlattenSeq(groups)) \in Nat
    BY <2>2, LenProperties DEF Range
  <2> QED  BY <1>5, <2>1, <2>2, <2>3 DEF Middle, DeclaratorInv, DeclaratorTypes, DeclaratorRead
<1>6. CASE CloseGroup
  BY <1>6, CloseGroupDeclarator
<1>7. CASE Finish
  BY <1>7 DEF Finish, In, DeclaratorInv, DeclaratorTypes, DeclaratorRead
<1>8. CASE UNCHANGED vars
  BY <1>8 DEF vars, DeclaratorInv, DeclaratorTypes, DeclaratorRead
<1> QED  BY <1>1, <1>2, <1>3, <1>4, <1>5, <1>6, <1>7, <1>8 DEF Next

LEMMA InitDeclarator == Init => DeclaratorInv
<1> SUFFICES ASSUME Init PROVE DeclaratorInv
  OBVIOUS
<1>1. groups = <<<<>>>> /\ written = <<>> /\ pointers = <<>> /\ phase = "base" /\ status = "parsing"
  BY DEF Init
<1>2. <<>> \in Seq(BOOLEAN) /\ <<>> \in Seq(Seq(BOOLEAN))
  BY EmptySeq
<1>3. Append(<<>>, <<>>) \in Seq(Seq(BOOLEAN)) /\ Append(<<>>, <<>>) # <<>>
  BY <1>2, AppendProperties
<1>4. Append(<<>>, <<>>) = <<<<>>>>
  OBVIOUS
<1> QED  BY <1>1, <1>2, <1>3, <1>4 DEF DeclaratorInv, DeclaratorTypes, DeclaratorRead

(***************************************************************************)
(* The name of a type.                                                     *)
(***************************************************************************)
\* f[k] is the name after its first k texts, up to n.
NamesUpTo(f, texts, n) ==
    f = [k \in 0 .. n |-> IF k = 0 THEN [len |-> 0, end |-> 0] ELSE Named(f[k - 1], texts[k])]

LEMMA NamesFurther ==
    ASSUME NEW texts, NEW n \in Nat, NEW f, NamesUpTo(f, texts, n)
    PROVE  \E g : NamesUpTo(g, texts, n + 1)
<1> DEFINE m == n + 1
           step == Named(f[n], texts[m])
           g == [k \in 0 .. m |-> IF k = m THEN step ELSE f[k]]
<1>1. /\ \A k \in 0 .. n : k \in 0 .. m /\ k # m
      /\ m \in 0 .. m /\ m # 0 /\ m - 1 = n /\ n \in 0 .. n /\ \A k \in 0 .. m : k = m \/ k \in 0 .. n
      /\ \A k \in 0 .. n : k # 0 => k - 1 \in 0 .. n
  OBVIOUS
<1>2. \A k \in 0 .. n : f[k] = IF k = 0 THEN [len |-> 0, end |-> 0] ELSE Named(f[k - 1], texts[k])
  BY Zenon DEF NamesUpTo
<1>3. \A k \in 0 .. n : g[k] = f[k]
  BY <1>1
<1>4. g[m] = step
  BY <1>1
<1>5. ASSUME NEW k \in 0 .. m
      PROVE  (IF k = m THEN step ELSE f[k])
             = IF k = 0 THEN [len |-> 0, end |-> 0] ELSE Named(g[k - 1], texts[k])
  <2> HIDE DEF g
  <2>1. CASE k = m
    BY <1>1, <1>3, <2>1
  <2>2. CASE k # m
    BY <1>1, <1>2, <1>3, <2>2
  <2> QED  BY <2>1, <2>2
<1>6. g = [k \in 0 .. m |-> IF k = 0 THEN [len |-> 0, end |-> 0] ELSE Named(g[k - 1], texts[k])]
  BY Zenon, <1>5
<1> QED  BY Zenon, <1>6 DEF NamesUpTo

LEMMA NamesExist ==
    ASSUME NEW texts
    PROVE  \A n \in Nat : \E f : NamesUpTo(f, texts, n)
<1> DEFINE S == {n \in Nat : ~\E f : NamesUpTo(f, texts, n)}
<1>1. SUFFICES ASSUME S # {} PROVE FALSE
  OBVIOUS
<1>2. S \in SUBSET Nat /\ \A n : n \in S <=> n \in Nat /\ ~\E f : NamesUpTo(f, texts, n)
  OBVIOUS
<1> HIDE DEF S
<1>3. PICK x \in S : \A y \in S : x <= y
  BY <1>1, <1>2, LeastOf
<1>4. x \in Nat /\ ~\E f : NamesUpTo(f, texts, x)
  BY <1>2, <1>3
<1>5. CASE x = 0
  <2> DEFINE start == [len |-> 0, end |-> 0]
             f == [k \in 0 .. 0 |-> start]
  <2>1. \A k \in 0 .. 0 : start = IF k = 0 THEN [len |-> 0, end |-> 0] ELSE Named(f[k - 1], texts[k])
    OBVIOUS
  <2>2. f = [k \in 0 .. 0 |-> IF k = 0 THEN [len |-> 0, end |-> 0] ELSE Named(f[k - 1], texts[k])]
    BY <2>1, Zenon
  <2>3. NamesUpTo(f, texts, 0)
    BY <2>2, Zenon DEF NamesUpTo
  <2> QED  BY <1>4, <1>5, <2>3
<1>6. CASE x # 0
  <2>1. x - 1 \in Nat /\ ~(x <= x - 1) /\ (x - 1) + 1 = x
    BY <1>4, <1>6
  <2>2. PICK f : NamesUpTo(f, texts, x - 1)
    BY <1>2, <1>3, <2>1
  <2> QED  BY <1>4, <2>1, <2>2, NamesFurther
<1> QED  BY <1>5, <1>6

\* A text that starts inside the buffer ends inside it.
LEMMA NamedEndsInside ==
    ASSUME NEW name, NEW text \in Nat,
           name.len \in 0 .. NameSize, name.end \in 0 .. NameSize
    PROVE  Named(name, text).len = name.len + text /\ Named(name, text).end \in 0 .. NameSize
  BY NameSizeAssumption DEF Named, RoomFor

\* As long as the pointers fit, so does the name.
LEMMA PointersNamed ==
    ASSUME NEW texts, NEW n \in Nat, NEW p \in 0 .. n, NEW f, NamesUpTo(f, texts, n),
           \A i \in 1 .. p : texts[i] = 11, 11 * p <= NameSize
    PROVE  \A k \in 0 .. p : f[k].len = 11 * k /\ f[k].end \in 0 .. NameSize
<1> DEFINE Inside(k) == f[k].len = 11 * k /\ f[k].end \in 0 .. NameSize
           S == {k \in 0 .. p : ~Inside(k)}
<1>1. SUFFICES ASSUME S # {} PROVE FALSE
  OBVIOUS
<1>2. S \in SUBSET Nat /\ \A k : k \in S <=> k \in 0 .. p /\ ~Inside(k)
  OBVIOUS
<1> HIDE DEF S
<1>3. PICK x \in S : \A y \in S : x <= y
  BY <1>1, <1>2, LeastOf
<1>4. x \in 0 .. p /\ x \in 0 .. n /\ ~Inside(x)
  BY <1>2, <1>3
<1>5. f[x] = IF x = 0 THEN [len |-> 0, end |-> 0] ELSE Named(f[x - 1], texts[x])
  BY <1>4, Zenon DEF NamesUpTo
<1>6. CASE x = 0
  BY <1>4, <1>5, <1>6, NameSizeAssumption
<1>7. CASE x # 0
  <2>1. /\ x - 1 \in 0 .. p /\ ~(x <= x - 1) /\ x \in 1 .. p
        /\ 11 * (x - 1) \in 0 .. NameSize /\ 11 * (x - 1) + 11 = 11 * x
    BY <1>4, <1>7, NameSizeAssumption
  <2>2. Inside(x - 1)
    BY <1>2, <1>3, <2>1
  <2>3. texts[x] = 11
    BY <2>1
  <2>4. /\ Named(f[x - 1], 11).len = f[x - 1].len + 11
        /\ Named(f[x - 1], 11).end \in 0 .. NameSize
    BY <2>1, <2>2, NamedEndsInside
  <2> QED  BY <1>4, <1>5, <1>7, <2>1, <2>2, <2>3, <2>4
<1> QED  BY <1>6, <1>7

LEMMA NameInside ==
    ASSUME pointers \in Seq(BOOLEAN), 11 * Len(pointers) <= NameSize
    PROVE  Name.end <= NameSize
<1> DEFINE p == Len(pointers)
           texts == TextLengths
           n == Len(texts)
           stars == [i \in DOMAIN pointers |-> 11]
           prim == CASE base.prim = "int" -> 3 [] base.prim = "short" -> 5 [] base.prim = "max" -> 7 [] OTHER -> 4
<1>1. p \in Nat /\ stars \in Seq({11}) /\ Len(stars) = p /\ \A i \in 1 .. p : stars[i] = 11
  <2>1. p \in Nat /\ DOMAIN pointers = 1 .. p
    BY LenProperties
  <2>2. stars \in [1 .. p -> {11}]
    BY <2>1
  <2>3. stars \in Seq({11})
    BY <2>1, <2>2, SeqDef
  <2>4. Len(stars) = p
    BY <2>1, <2>2, <2>3, LenProperties
  <2> QED  BY <2>1, <2>3, <2>4
<1>2. prim \in Nat
  OBVIOUS
<1>3. texts = Append(stars, prim)
  BY DEF TextLengths
<1> HIDE DEF stars, prim, texts
<1>4. n = p + 1 /\ texts[n] = prim /\ \A i \in 1 .. p : texts[i] = 11
  <2>1. stars \in Seq(Nat)
    BY <1>1
  <2> QED  BY <1>1, <1>2, <1>3, <2>1, AppendProperties
<1>5. n \in Nat /\ p \in 0 .. n /\ n \in 0 .. n /\ n # 0 /\ n - 1 = p /\ p \in 0 .. p
  BY <1>1, <1>4
<1> DEFINE f == CHOOSE f : f = [k \in 0 .. n |-> IF k = 0 THEN [len |-> 0, end |-> 0]
                                                 ELSE Named(f[k - 1], texts[k])]
<1>6. NamesUpTo(f, texts, n)
  BY <1>5, NamesExist, Zenon DEF NamesUpTo
<1>7. Name = f[n]
  BY Zenon DEF Name, texts
<1> HIDE DEF f, n, p
<1>8. 11 * p <= NameSize
  BY DEF p
<1>9. f[p].len = 11 * p /\ f[p].end \in 0 .. NameSize
  BY <1>4, <1>5, <1>6, <1>8, PointersNamed
<1>10. f[n] = Named(f[p], prim)
  BY <1>4, <1>5, <1>6, Zenon DEF NamesUpTo
<1>11. f[p].len \in 0 .. NameSize
  BY <1>5, <1>8, <1>9, NameSizeAssumption
<1>12. Named(f[p], prim).end \in 0 .. NameSize
  BY <1>2, <1>9, <1>11, NamedEndsInside
<1> QED  BY <1>7, <1>10, <1>12, NameSizeAssumption

(***************************************************************************)
(* The theorems.                                                           *)
(***************************************************************************)
\* Each of the two invariants is inductive.
LEMMA BaseInvariant == Spec => []BaseInv
  BY InitBase, NextBase, PTL DEF Spec

LEMMA DeclaratorInvariant == Spec => []DeclaratorInv
  BY InitDeclarator, NextDeclarator, PTL DEF Spec

\* The base of a type means what C says (specifier_add_to_type and
\* type_base_with_spec): whatever the number and the order of its specifiers and
\* qualifiers, it has the primitive, width, sign and constness of their set.
THEOREM BasesMeanC == Spec => []BaseMeansC
<1>1. BaseInv => BaseMeansC
  BY BaseInvMeansC
<1> QED  BY <1>1, BaseInvariant, PTL

\* specifier_is_invalid refuses a specifier only when no C type has it with
\* those before it, and lets pass only what a C type has, or a sign after void.
THEOREM BasesRejected == Spec => []RejectsWhatCRejects
<1>1. BaseInv => RejectsWhatCRejects
  BY DEF BaseInv
<1> QED  BY <1>1, BaseInvariant, PTL

\* type_pointer, type_declarator and type_abstract_declarator, which link the
\* pointers of a group in reverse around what is inside: a declarator's chain is
\* C's for any number of pointers in one group, and for any number of groups if
\* their pointers are all alike, so that none is lost or read twice.  Groups with
\* different qualifiers are left out: the code nests them in the wrong order.
THEOREM DeclaratorsMeanC == Spec => []DeclaratorMeansC
<1>1. DeclaratorInv => DeclaratorMeansC
  BY DeclaratorInvMeansC
<1> QED  BY <1>1, DeclaratorInvariant, PTL

\* bcc_ast_type_get_name writes no further than its buffer, whatever its size,
\* as long as the pointers alone are no longer than it.
THEOREM NamesStay == Spec => []NamesStayInBuffer
<1>1. DeclaratorInv => NamesStayInBuffer
  BY NameInside DEF DeclaratorInv, DeclaratorTypes, NamesStayInBuffer
<1> QED  BY <1>1, DeclaratorInvariant, PTL
=============================================================================
