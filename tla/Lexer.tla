------------------------------- MODULE Lexer -------------------------------
(***************************************************************************)
(* The scanner (src/ast/in/lalr/lexer.l): flex matches the longest pattern *)
(* of the current start condition, and the pattern's action builds a       *)
(* literal, moves the location or returns a token.  The scanner and the    *)
(* parser's diagnostics (display_invalid_token) share one FILE: flex reads *)
(* it in chunks, the diagnostics move it to show a line and move it back,  *)
(* which a pipe does not allow.                                            *)
(*                                                                         *)
(* Characters are bytes.  A source text is any member of Sources.          *)
(***************************************************************************)
EXTENDS Integers, Sequences, FiniteSets, SequencesExt

CONSTANTS
    Sources,          \* the source texts
    Operators,        \* the operators and punctuation, as byte sequences
    Keywords,         \* the reserved words
    Chunk,            \* how much flex reads at once
    IntBits,          \* width of an int
    InitialCapacity   \* of a literal's buffer: 20 in state_append_str

(****************************** Characters *********************************)
TAB == 9  NL == 10  CR == 13  DQ == 34  SQ == 39  BS == 92

\* An operator has a character, and no quote or newline.  An int has more than
\* one byte; the last conjunct only says that of its number of values.
ASSUME LexerAssumption ==
    /\ Chunk \in Nat \ {0} /\ InitialCapacity \in Nat \ {0, 1}
    /\ \A s \in Sources \cup Operators \cup Keywords : s \in Seq(1 .. 255)
    /\ \A op \in Operators : op # <<>> /\ \A i \in DOMAIN op : op[i] \notin {NL, DQ, SQ}
    /\ IntBits \in Nat /\ IntBits > 8
    /\ 2^(IntBits - 8) > 1 /\ 2^IntBits = 256 * 2^(IntBits - 8)

Digits == 48 .. 57
HexDigits == Digits \cup 65 .. 70 \cup 97 .. 102
OctalDigits == 48 .. 55
Letters == 65 .. 90 \cup 97 .. 122 \cup {95}
\* \a \b \f \n \r \t \v \\ \' \" \?
SimpleEscapes == [c \in {97, 98, 102, 110, 114, 116, 118, BS, SQ, DQ, 63} |->
    CASE c = 97 -> 7 [] c = 98 -> 8 [] c = 102 -> 12 [] c = 110 -> NL [] c = 114 -> CR
      [] c = 116 -> TAB [] c = 118 -> 11 [] OTHER -> c]

DigitValue(c) == IF c \in Digits THEN c - 48 ELSE IF c >= 97 THEN c - 87 ELSE c - 55
Wrap(n) == n % 2^IntBits
Signed(n) == IF n >= 2^IntBits \div 2 THEN n - 2^IntBits ELSE n
\* The number the digits write in a base, cut to an int's width.
NumberOf(digits, b) ==
    LET number[k \in 0 .. Len(digits)] ==
            IF k = 0 THEN 0 ELSE Wrap(number[k - 1] * b + DigitValue(digits[k]))
    IN  number[Len(digits)]

(******************************* Patterns **********************************)
\* A pattern is a sequence of character sets, each with how often it occurs.
Many == 99
Of(set, min, max) == [set |-> set, min |-> min, max |-> max]
One(c) == Of({c}, 1, 1)
But(set) == (1 .. 255) \ set
Escape(item) == {<<One(BS), item>>}

Patterns == [
    newline |-> {<<Of({CR}, 0, 1), One(NL)>>},
    blank |-> {<<Of({32, TAB}, 1, Many)>>},
    operator |-> {[i \in DOMAIN op |-> One(op[i])] : op \in Operators},
    openString |-> {<<One(DQ)>>},
    openChar |-> {<<One(SQ)>>},
    number |-> {<<Of(Digits, 1, Many)>>},
    hexNumber |-> {<<One(48), Of({120, 88}, 1, 1), Of(HexDigits, 1, Many)>>},
    word |-> {<<Of(Letters, 1, 1), Of(Letters \cup Digits, 0, Many)>>},
    closeString |-> {<<One(DQ)>>},
    stringNewline |-> {<<One(NL)>>},
    octal |-> Escape(Of(OctalDigits, 1, 3)),
    hexEscape |-> {<<One(BS), One(120), Of(HexDigits, 1, 2)>>},
    simpleEscape |-> Escape(Of(DOMAIN SimpleEscapes, 1, 1)),
    stringText |-> {<<Of(But({BS, DQ, NL}), 1, Many)>>},
    charText |-> {<<Of(But({BS, SQ, NL}), 1, Many)>>},
    closeChar |-> {<<One(SQ)>>} ]

InLiteral == {"octal", "hexEscape", "simpleEscape"}
RulesOf == [
    initial |-> {"newline", "blank", "operator", "openString", "openChar", "number", "hexNumber", "word"},
    string |-> {"closeString", "stringNewline", "stringText"} \cup InLiteral,
    charLiteral |-> {"closeChar", "charText"} \cup InLiteral ]

VARIABLES
    source,     \* the text in the file
    seekable,   \* whether the file can be positioned, or is a pipe
    fpos,       \* how much of the source the FILE has delivered
    text,       \* what flex has read, in order
    at,         \* how much of it is matched
    cond,       \* the start condition
    lex,        \* lexing_state, lex_str with its capacity, lex_int
    place,      \* last_line, last_column and file_offset
    loc,        \* yylloc
    token,      \* the token returned last
    opened,     \* where its literal began in text (history)
    echoed,     \* what the default rule copied to the standard output
    status      \* "scanning", "ended"

vars == <<source, seekable, fpos, text, at, cond, lex, place, loc, token, opened, echoed, status>>
file == <<source, seekable, fpos, text>>

NoToken == [kind |-> "none", value |-> <<>>, loc |-> <<>>, from |-> 0, to |-> 0]

Init ==
    /\ source \in Sources /\ seekable \in BOOLEAN
    /\ fpos = 0 /\ text = <<>> /\ at = 0 /\ cond = "initial"
    /\ lex = [state |-> "string", str |-> <<>>, cap |-> 0, int |-> 0]
    /\ place = [line |-> 0, column |-> 0, offset |-> 0]
    /\ loc = [firstLine |-> 0, lastLine |-> 0, firstColumn |-> 0, lastColumn |-> 0, lineOffset |-> 0]
    /\ token = NoToken /\ opened = 0 /\ echoed = <<>> /\ status = "scanning"

(******************************* Matching **********************************)
\* How many characters of a set follow position i, up to max.
RunLength(set, i, max) ==
    LET n == CHOOSE k \in 0 .. Len(text) - i :
                /\ \A j \in 1 .. k : text[i + j] \in set
                /\ k < Len(text) - i => text[i + k + 1] \notin set
    IN  IF n > max THEN max ELSE n

\* A pattern tried at the next character: where its match ends, whether it
\* does match, and whether more input could make the match longer.
Longer(m, item) ==
    LET n == RunLength(item.set, m.end, item.max)
    IN  IF ~m.matches THEN m
        ELSE [end |-> m.end + n, matches |-> n >= item.min,
              open |-> m.end + n = Len(text) /\ n < item.max]
Try(pattern) ==
    LET tried[k \in 0 .. Len(pattern)] ==
            IF k = 0 THEN [end |-> at, matches |-> TRUE, open |-> FALSE]
            ELSE Longer(tried[k - 1], pattern[k])
    IN  tried[Len(pattern)]
Tries == UNION {{[rule |-> rule, try |-> Try(p)] : p \in Patterns[rule]} : rule \in RulesOf[cond]}

Running == status = "scanning"
\* The match flex makes: the longest, or one character by the default rule;
\* none while more input could make a match longer.  No two rules match the
\* same longest text: reserved words are matched as words.
Matches ==
    LET tries == Tries
        found == {t \in tries : t.try.matches}
        longest == {t \in found : \A u \in found : u.try.end <= t.try.end}
    IN  IF ~Running \/ at = Len(text) \/ (fpos < Len(source) /\ \E t \in tries : t.try.open) THEN {}
        ELSE IF found = {} THEN {[rule |-> "default", n |-> 1, lexeme |-> <<text[at + 1]>>]}
        ELSE {[rule |-> t.rule, n |-> t.try.end - at, lexeme |-> SubSeq(text, at + 1, t.try.end)] :
                t \in longest}

\* flex fills its buffer (YY_INPUT).
Refill ==
    /\ Running /\ fpos < Len(source) /\ Matches = {}
    /\ LET upto == IF fpos + Chunk < Len(source) THEN fpos + Chunk ELSE Len(source)
       IN  text' = text \o SubSeq(source, fpos + 1, upto) /\ fpos' = upto
    /\ UNCHANGED <<source, seekable, at, cond, lex, place, loc, token, opened, echoed, status>>

(******************************* Locations *********************************)
\* update_location, which runs before the action of every match.
Located(n) ==
    [loc EXCEPT !.firstLine = place.line, !.lastLine = place.line,
                !.firstColumn = place.column, !.lastColumn = place.column + n - 1]
Moved_ColumnOnly(n) == [place EXCEPT !.column = @ + n]
Moved(n) == [place EXCEPT !.column = @ + n, !.offset = @ + n]
\* What the two newline rules do to the location.
NextLine_ColumnKept(p) == [p EXCEPT !.line = @ + 1]
NextLine(p) == [p EXCEPT !.line = @ + 1, !.column = 0]
Consume(n) == at' = at + n /\ place' = Moved(n) /\ loc' = Located(n)
ConsumeLine(n) ==
    /\ at' = at + n /\ place' = NextLine(Moved(n))
    /\ loc' = [Located(n) EXCEPT !.lineOffset = Moved(n).offset]

\* The location in the file that the diagnostics show a line from, and where
\* they leave the FILE: where it was, unless it is a pipe, which has lost
\* the line they read.
LineEnd(from) == LET ends == {k \in from + 1 .. Len(source) : source[k] = NL} \cup {Len(source)}
                 IN  CHOOSE e \in ends : \A f \in ends : e <= f
DisplayLine_NotRestored == fpos' = LineEnd(IF seekable THEN loc.lineOffset ELSE fpos)
DisplayLine == fpos' = IF seekable THEN fpos ELSE LineEnd(fpos)

(******************************* Literals **********************************)
\* state_append_str.  A char is signed: one above 127 sets every upper bit of
\* the int it is or-ed into.
ShiftedIn(n, ch) == IF ch < 128 THEN Wrap(n * 256) + ch ELSE 2^IntBits - 256 + ch
Grown(cap) == IF cap = 0 THEN InitialCapacity ELSE 2 * cap
WithRoom(len, cap) == IF len >= cap THEN Grown(cap) ELSE cap
AppendTo(l, ch) ==
    IF l.state = "char"
    THEN [l EXCEPT !.int = ShiftedIn(@, ch)]
    ELSE [l EXCEPT !.str = Append(@, ch), !.cap = WithRoom(Len(l.str) + 1, @)]
AppendAll(l, chars) ==
    LET after[k \in 0 .. Len(chars)] == IF k = 0 THEN l ELSE AppendTo(after[k - 1], chars[k])
    IN  after[Len(chars)]

(********************************* Rules ***********************************)
\* The action of each rule, given the match m.
Return(kind, value, m) ==
    token' = [kind |-> kind, value |-> value, loc |-> Located(m.n), to |-> at + m.n,
              from |-> IF opened > 0 THEN opened ELSE at + 1]
Elsewhere == UNCHANGED <<file, echoed, status>>

\* \r?\n
Newline(m) ==
    /\ m.rule = "newline" /\ ConsumeLine(m.n)
    /\ UNCHANGED <<cond, lex, token, opened>> /\ Elsewhere
\* [ \t]+
Blank(m) ==
    /\ m.rule = "blank" /\ Consume(m.n)
    /\ UNCHANGED <<cond, lex, token, opened>> /\ Elsewhere
OperatorToken(m) ==
    /\ m.rule = "operator" /\ Consume(m.n) /\ Return("operator", m.lexeme, m)
    /\ UNCHANGED <<cond, lex, opened>> /\ Elsewhere
\* A reserved word is returned as itself: its rule comes before that of
\* identifiers, which wins only when it matches more.
Word(m) ==
    /\ m.rule = "word" /\ Consume(m.n)
    /\ Return(IF m.lexeme \in Keywords THEN "keyword" ELSE "identifier", m.lexeme, m)
    /\ UNCHANGED <<cond, lex, opened>> /\ Elsewhere
\* atoi
Number(m) ==
    /\ m.rule = "number" /\ Consume(m.n) /\ Return("number", Signed(NumberOf(m.lexeme, 10)), m)
    /\ UNCHANGED <<cond, lex, opened>> /\ Elsewhere
\* strtol(yytext + 2, 0, 16)
HexNumber(m) ==
    /\ m.rule = "hexNumber" /\ Consume(m.n)
    /\ Return("number", Signed(NumberOf(SubSeq(m.lexeme, 3, m.n), 16)), m)
    /\ UNCHANGED <<cond, lex, opened>> /\ Elsewhere

OpenString(m) ==
    /\ m.rule = "openString" /\ Consume(m.n)
    /\ cond' = "string" /\ lex' = [lex EXCEPT !.state = "string"] /\ opened' = at + 1
    /\ UNCHANGED token /\ Elsewhere
OpenChar(m) ==
    /\ m.rule = "openChar" /\ Consume(m.n)
    /\ cond' = "charLiteral" /\ lex' = [lex EXCEPT !.state = "char", !.int = 0] /\ opened' = at + 1
    /\ UNCHANGED token /\ Elsewhere

\* <string>\": the buffer is handed over with a NUL behind it.
HandedOver_KeepsCapacity(l) == [l EXCEPT !.str = <<>>]
HandedOver(l) == [l EXCEPT !.str = <<>>, !.cap = 0]
CloseString(m) ==
    /\ m.rule = "closeString" /\ Consume(m.n)
    /\ Return("string", [str |-> AppendTo(lex, 0).str, cap |-> AppendTo(lex, 0).cap], m)
    /\ lex' = HandedOver(lex) /\ cond' = "initial" /\ opened' = 0 /\ Elsewhere
\* <string>\n: dropped, with a warning.
StringNewline(m) ==
    /\ m.rule = "stringNewline" /\ ConsumeLine(m.n) /\ DisplayLine
    /\ UNCHANGED <<cond, lex, token, opened, source, seekable, text, echoed, status>>
\* <char_literal>'
CloseChar(m) ==
    /\ m.rule = "closeChar" /\ Consume(m.n) /\ Return("number", Signed(lex.int), m)
    /\ cond' = "initial" /\ opened' = 0 /\ UNCHANGED lex /\ Elsewhere

\* A rule that appends to the literal the characters its lexeme stands for.
Literally(m, chars) ==
    /\ Consume(m.n) /\ lex' = AppendAll(lex, chars)
    /\ UNCHANGED <<cond, token, opened>> /\ Elsewhere
\* The int that strtol returns, cast to char.
EscapedChar_Decimal(digits, b) == NumberOf(digits, IF b = 8 THEN 10 ELSE b) % 256
EscapedChar(digits, b) == NumberOf(digits, b) % 256
Octal(m) == m.rule = "octal" /\ Literally(m, <<EscapedChar(Tail(m.lexeme), 8)>>)
HexEscape(m) == m.rule = "hexEscape" /\ Literally(m, <<EscapedChar(SubSeq(m.lexeme, 3, m.n), 16)>>)
SimpleEscape(m) == m.rule = "simpleEscape" /\ Literally(m, <<SimpleEscapes[m.lexeme[2]]>>)
StringText(m) == m.rule = "stringText" /\ Literally(m, m.lexeme)
CharText(m) == m.rule = "charText" /\ Literally(m, m.lexeme)

\* flex's default rule: a character no rule matches goes to yyout.
Echo(m) ==
    /\ m.rule = "default" /\ Consume(m.n) /\ echoed' = echoed \o m.lexeme
    /\ UNCHANGED <<cond, lex, token, opened, file, status>>

\* <<EOF>>, in every start condition.  A literal's buffer stays where it is.
EndOfFile ==
    /\ Running /\ at = Len(text) /\ fpos = Len(source)
    /\ token' = [NoToken EXCEPT !.kind = "eof"] /\ status' = "ended"
    /\ UNCHANGED <<file, at, cond, lex, place, loc, opened, echoed>>

Next ==
    \/ Refill \/ EndOfFile
    \/ \E m \in Matches :
          \/ Newline(m) \/ Blank(m) \/ OperatorToken(m) \/ Word(m) \/ Number(m) \/ HexNumber(m)
          \/ OpenString(m) \/ OpenChar(m) \/ CloseString(m) \/ StringNewline(m) \/ CloseChar(m)
          \/ Octal(m) \/ HexEscape(m) \/ SimpleEscape(m) \/ StringText(m) \/ CharText(m) \/ Echo(m)

Spec == Init /\ [][Next]_vars

(******************************* Properties ********************************)
Literal == [state: {"string", "char"}, str: Seq(0 .. 255), cap: Nat, int: 0 .. 2^IntBits - 1]
Location == [firstLine: Nat, lastLine: Nat, firstColumn: Nat, lastColumn: Nat, lineOffset: Nat]

\* Types: a match never goes past what flex has read, nor that past the file.
TypeOK ==
    /\ source \in Seq(1 .. 255) /\ seekable \in BOOLEAN /\ fpos \in 0 .. Len(source)
    /\ text \in Seq(1 .. 255) /\ at \in 0 .. Len(text) /\ Len(text) <= fpos
    /\ cond \in DOMAIN RulesOf /\ lex \in Literal /\ loc \in Location
    /\ place \in [line: Nat, column: Nat, offset: {at}]
    /\ token.kind \in {"none", "identifier", "keyword", "number", "string", "operator", "eof"}
    /\ 0 <= token.from /\ token.from <= token.to /\ token.to <= at
    /\ opened \in 0 .. at /\ echoed \in Seq(1 .. 255) /\ status \in {"scanning", "ended"}

\* Every character of a string literal is written into memory the literal's
\* buffer has (state_append_str): the buffer has more room than characters
\* whenever there is one, and a literal that starts does not inherit the
\* capacity of the one handed over before it.
HasRoom(buffer) == Len(buffer.str) < buffer.cap
LiteralHolds ==
    /\ IF lex.str = <<>> THEN lex.cap = 0 ELSE HasRoom(lex)
    /\ token.kind = "string" => HasRoom([token.value EXCEPT !.str = Front(@)])

\* The location of a token (update_location, the newline rules) is where it
\* stands in the text, and its lineOffset is where that line begins, which is
\* what the diagnostics seek to.  Three actions keep it up by increments.  A
\* literal's location is that of its closing quote.  Once a newline in a
\* character literal has fallen to the default rule the lines are one off.
LineOf(i) == Cardinality({j \in 1 .. i - 1 : text[j] = NL})
LineStart(i) == LET ends == {j \in 1 .. i - 1 : text[j] = NL} \cup {0}
                IN  CHOOSE e \in ends : \A f \in ends : f <= e
TokensLocated ==
    token.kind \notin {"none", "eof"} /\ NL \notin ToSet(echoed) =>
        LET first == IF text[token.from] \in {DQ, SQ} THEN token.to ELSE token.from
        IN  token.loc = [firstLine |-> LineOf(first), lastLine |-> LineOf(token.to),
                         firstColumn |-> first - 1 - LineStart(first),
                         lastColumn |-> token.to - 1 - LineStart(token.to),
                         lineOffset |-> LineStart(first)]

\* The scanner gets every byte of a file once and in order, although warnings
\* move the FILE it reads from in the middle of a text (display_invalid_token).
FileReadInOrder == seekable => text = SubSeq(source, 1, fpos)
=============================================================================
