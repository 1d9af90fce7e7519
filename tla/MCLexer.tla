------------------------------ MODULE MCLexer ------------------------------
(* Instances of Literals for TLC: families of short texts. *)
EXTENDS Literals

Texts(chars, max) == UNION {[1 .. n -> chars] : n \in 0 .. max}
Between(q, bodies) == {<<q>> \o b \o <<q>> : b \in bodies}
a == 97  n == 110  x == 120  seven == 55  space == 32

\* "..." of a \ n x 7 newline and an 8-bit character
StringTexts == Between(DQ, Texts({a, BS, n, x, seven, NL, 200}, 4) \cup [1 .. 5 -> {BS, x, seven, a}])
\* One of each escape and character, before and after another.
EscapeBodies == {<<BS, c>> : c \in DOMAIN SimpleEscapes} \cup {<<BS, seven>>, <<BS, x, 49>>, <<BS, 49, 55, 55>>, <<BS, x, 70, 70>>}
                \cup {<<c>> : c \in {a, seven, space, NL}}
PairTexts == Between(DQ, {b \o c : b, c \in EscapeBodies}) \cup Between(SQ, {b \o c : b, c \in EscapeBodies})
\* Two adjacent literals, the second after each of the first.
JoinedTexts == {s \o g \o t : s, t \in Between(DQ, {<<>>, <<a>>, <<a, a, a>>, <<BS, x, 49>>, <<BS, 48, a>>}),
                              g \in {<<>>, <<space>>, <<NL>>}}
CharTexts == Between(SQ, Texts({a, BS, x, seven, 200, NL}, 3))
\* Words, blanks, lines and the beginnings of literals
LayoutTexts == Texts({a, space, NL, CR, DQ, SQ}, 4) \cup {<<c, NL, a>> \o t : c \in {a, SQ, DQ}, t \in Texts({a, NL, DQ, SQ}, 3)}
\* + > = . # and a digit
OperatorTexts == Texts({43, 62, 61, 46, 35, seven}, 4)
NumberTexts == Texts({48, x, 57, a, 102}, 4) \cup {<<48, x>> \o t : t \in [1 .. 3 -> {49, 102}]}

AllTexts == StringTexts \cup PairTexts \cup JoinedTexts \cup CharTexts \cup LayoutTexts \cup OperatorTexts \cup NumberTexts

\* + ++ += = == > >= >> >>= ...
SomeOperators == {<<43>>, <<43, 43>>, <<43, 61>>, <<61>>, <<61, 61>>, <<62>>, <<62, 61>>, <<62, 62>>, <<62, 62, 61>>, <<46, 46, 46>>}
\* aa stands for the reserved words.
SomeKeywords == {<<a, a>>}
=============================================================================
