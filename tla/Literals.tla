------------------------------ MODULE Literals ------------------------------
(***************************************************************************)
(* The way of a literal: spelled in the source, unescaped by the scanner   *)
(* (Lexer), joined to its neighbours by the parser (rule string), escaped  *)
(* by util_escape_str (src/ast/out/util.c), written behind .asciz by       *)
(* gen_bcc_literal_strings, and read by the assembler.                     *)
(***************************************************************************)
EXTENDS Lexer

CONSTANT EscapeCapacity   \* of the escaped string's buffer at first: 20
ASSUME EscapeAssumption == EscapeCapacity \in Nat \ {0}

VARIABLES
    string,   \* the value of the rule string: memory up to and with the last NUL
    meant     \* the characters the source's literals mean in C (history)

allVars == <<vars, string, meant>>

Undefined == -1    \* a byte read from outside an array

\* What the str functions see of a buffer: all before the first NUL.
CString(buffer) == LET zeros == {i \in DOMAIN buffer : buffer[i] = 0}
                   IN  SubSeq(buffer, 1, (CHOOSE z \in zeros : \A y \in zeros : z <= y) - 1)

(********************** What a literal means in C **************************)
Meanings == [c \in {97, 98, 102, 110, 114, 116, 118, 34, 39, 92, 63} |->
    CASE c = 110 -> 10 [] c = 98 -> 8 [] c = 116 -> 9 [] c = 114 -> 13 [] c = 102 -> 12
      [] c = 118 -> 11 [] c = 97 -> 7 [] OTHER -> c]
\* How many characters of a set stand from position i, up to max.
CountAt(s, i, set, max) == CHOOSE n \in 0 .. Len(s) - i + 1 :
    /\ \A k \in 0 .. n - 1 : s[i + k] \in set
    /\ n <= max /\ (n < max /\ i + n <= Len(s) => s[i + n] \notin set)
\* The number that places of a base make up, and that digits write.
Places(values, b) ==
    LET number[k \in 0 .. Len(values)] == IF k = 0 THEN 0 ELSE b * number[k - 1] + values[k]
    IN  number[Len(values)]
Value(digits, b) == Places([i \in 1 .. Len(digits) |-> DigitValue(digits[i])], b)
ValueAt(s, i, n, b) == Value(SubSeq(s, i, i + n - 1), b)
BadEscape == -2

\* The characters of a body, with BadEscape for what C does not allow or does
\* not define.  A hexadecimal escape is as long as its digits.
InC(s) ==
    LET from[i \in 1 .. Len(s) + 1] ==
            IF i > Len(s) THEN <<>>
            ELSE IF s[i] = NL THEN <<BadEscape>>
            ELSE IF s[i] # BS THEN <<s[i]>> \o from[i + 1]
            ELSE IF i = Len(s) THEN <<BadEscape>>
            ELSE IF s[i + 1] \in DOMAIN Meanings THEN <<Meanings[s[i + 1]]>> \o from[i + 2]
            ELSE LET hex == s[i + 1] = 120
                     first == IF hex THEN i + 2 ELSE i + 1
                     n == IF hex THEN CountAt(s, first, HexDigits, Many) ELSE CountAt(s, first, OctalDigits, 3)
                     v == ValueAt(s, first, n, IF hex THEN 16 ELSE 8)
                 IN  IF n = 0 \/ v > 255 \/ (hex /\ n > 2) THEN <<BadEscape>> ELSE <<v>> \o from[first + n]
    IN  from[1]

(************************** The escaped string *****************************)
\* hex_table[val]: a negative val, from a char above 127, is outside of it.
HexChar(val) == IF val \notin 0 .. 15 THEN Undefined ELSE IF val < 10 THEN 48 + val ELSE 55 + val
SignedChar(c) == IF c > 127 THEN c - 256 ELSE c
HexPair_LowFirst(c) == <<HexChar(c % 16), HexChar(SignedChar(c) \div 16)>>
HexPair(c) == <<HexChar(SignedChar(c) \div 16), HexChar(c % 16)>>
Escaped(c) ==
    CASE c \in 32 .. 126 -> <<c>>
      [] c = NL -> <<BS, 110>>
      [] c = 8 -> <<BS, 98>>
      [] c = CR -> <<BS, 114>>
      [] c = TAB -> <<BS, 116>>
      [] OTHER -> <<BS, 120>> \o HexPair(c)
\* append_char
Appended_GrowsOnce(b, c) ==
    LET cap == IF Len(b.str) + 1 = EscapeCapacity THEN 2 * b.cap ELSE b.cap
    IN  [str |-> Append(b.str, c), cap |-> cap, held |-> b.held /\ Len(b.str) < cap]
Appended(b, c) ==
    LET cap == IF Len(b.str) + 1 >= b.cap THEN 2 * b.cap ELSE b.cap
    IN  [str |-> Append(b.str, c), cap |-> cap, held |-> b.held /\ Len(b.str) < cap]
\* util_escape_str
EscapedAll(s) ==
    LET all[i \in 0 .. Len(s)] == IF i = 0 THEN <<>> ELSE all[i - 1] \o Escaped(s[i])
    IN  all[Len(s)]
AppendedAll(chars) ==
    LET buffer[i \in 0 .. Len(chars)] ==
            IF i = 0 THEN [str |-> <<>>, cap |-> EscapeCapacity, held |-> TRUE]
            ELSE Appended(buffer[i - 1], chars[i])
    IN  buffer[Len(chars)]
EscapeStr(s) == AppendedAll(EscapedAll(s) \o <<0>>)

\* What the assembler makes of the text between the quotes of .asciz: \x
\* takes all the digits that follow, an octal escape up to three.
GasEscapes == [c \in {98, 102, 110, 114, 116, BS, DQ} |->
    CASE c = 98 -> 8 [] c = 102 -> 12 [] c = 110 -> 10 [] c = 114 -> 13 [] c = 116 -> 9 [] OTHER -> c]
GasReads(s) ==
    LET from[i \in 1 .. Len(s) + 1] ==
            IF i > Len(s) THEN <<0>>
            ELSE IF s[i] = DQ \/ s[i] = Undefined THEN <<Undefined>>
            ELSE IF s[i] # BS THEN <<s[i]>> \o from[i + 1]
            ELSE IF i = Len(s) THEN <<Undefined>>
            ELSE IF s[i + 1] \in DOMAIN GasEscapes THEN <<GasEscapes[s[i + 1]]>> \o from[i + 2]
            ELSE IF s[i + 1] = 120
            THEN LET n == CountAt(s, i + 2, HexDigits, Many)
                 IN  <<ValueAt(s, i + 2, n, 16) % 256>> \o from[i + 2 + n]
            ELSE LET n == CountAt(s, i + 1, OctalDigits, 3)
                 IN  IF n = 0 THEN <<s[i + 1]>> \o from[i + 2]
                     ELSE <<ValueAt(s, i + 1, n, 8) % 256>> \o from[i + 1 + n]
    IN  from[1]
\* The bytes of the string in the program's memory.
Assembled(buffer) == GasReads(CString(EscapeStr(CString(buffer)).str))

(****************************** The parser *********************************)
\* string: string TOK_STRING, with realloc and strcat.
Joined(buffer, next) == CString(buffer) \o CString(next) \o <<0>>

Spelled(t) == SubSeq(text, t.from, t.to)
Body(s) == SubSeq(s, 2, Len(s) - 1)

ParserInit == string = <<>> /\ meant = <<>>
\* The parser takes the token the scanner has just returned.
TakeToken ==
    IF token'.kind = "string" /\ string # <<>>
    THEN string' = Joined(string, token'.value.str) /\ meant' = meant \o InC(Body(Spelled(token')))
    ELSE IF token'.kind = "string"
    THEN string' = token'.value.str /\ meant' = InC(Body(Spelled(token')))
    ELSE string' = <<>> /\ meant' = <<>>

LiteralsInit == Init /\ ParserInit
Scan == Next /\ (IF token' = token THEN UNCHANGED <<string, meant>> ELSE TakeToken)
LiteralsSpec == LiteralsInit /\ [][Scan]_allVars

(******************************* Properties ********************************)
IsChar(t) == Spelled(t)[1] = SQ
Small(n) == n \in 0 .. 2^IntBits \div 2 - 1
\* gcc's value of a character constant: its char, or its chars as the bytes of
\* an int.
CharValue(chars) ==
    IF Len(chars) = 1 THEN SignedChar(chars[1])
    ELSE Signed(Wrap(Places(chars, 256)))
CharDefined(chars) ==
    /\ BadEscape \notin ToSet(chars) /\ Len(chars) \in 1 .. IntBits \div 8
    /\ Len(chars) > 1 => \A i \in DOMAIN chars : chars[i] < 128
IsHex(s) == Len(s) > 2 /\ s[2] \in {120, 88}
NumberValue(s) == IF IsHex(s) THEN ValueAt(s, 3, Len(s) - 2, 16) ELSE Value(s, 10)
\* It has no leading zero, which C takes for octal and atoi does not, and fits.
NumberDefined(s) == (IsHex(s) \/ s[1] # 48 \/ Len(s) = 1) /\ Small(NumberValue(s))

\* A literal token has the value C gives its spelling (the literal rules,
\* state_append_str, atoi and strtol), for every literal C defines but octal
\* numbers and hexadecimal escapes of more than two digits.
LiteralsMeanC ==
    LET s == Spelled(token)
    IN  /\ token.kind = "string" /\ BadEscape \notin ToSet(InC(Body(s)))
               => token.value.str = InC(Body(s)) \o <<0>>
        /\ token.kind = "number" =>
               IF IsChar(token)
               THEN CharDefined(InC(Body(s))) => token.value = CharValue(InC(Body(s)))
               ELSE NumberDefined(s) => token.value = NumberValue(s)

\* What the escaping does not carry over: quotes and backslashes, which it
\* leaves bare; chars above 127; a NUL inside, which ends the string; and a
\* character written as \x before a hexadecimal digit, which the assembler adds
\* to the escape.
WrittenInHex(c) == Len(Escaped(c)) = 4
Carried(chars) ==
    /\ ToSet(chars) \subseteq (1 .. 127) \ {DQ, BS}
    /\ \A i \in 1 .. Len(chars) - 1 : WrittenInHex(chars[i]) => chars[i + 1] \notin HexDigits

\* The program's memory holds the characters the source's literals mean, joined
\* when they are adjacent, and a NUL: unescaping, strcat, util_escape_str and
\* the assembler's reading undo each other for all that Carried names.
StringsReachTheProgram ==
    string # <<>> /\ Carried(meant) => Assembled(string) = meant \o <<0>>

\* Neither the scanner's buffer (state_append_str) nor util_escape_str's
\* (append_char), which both grow as they are written, is written past its end.
BuffersHold == LiteralHolds /\ (string # <<>> => EscapeStr(CString(string)).held)
=============================================================================
