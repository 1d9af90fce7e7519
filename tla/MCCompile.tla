----------------------------- MODULE MCCompile -----------------------------
(***************************************************************************)
(* Instances of Compile and Dumps for TLC: families of small programs.     *)
(* With bytes of four bits an int has 16, a short 8 and a char 4, so that  *)
(* small sums already overflow a char and a cast already cuts.             *)
(***************************************************************************)
EXTENDS Dumps

TInt == Prim("int")
TChar == Prim("char")
TShort == Prim("short")
UnsignedOf(type) == <<[type[1] EXCEPT !.unsigned = TRUE]>>

Num(k) == Src("num", "", <<>>, k, TInt)
Lit(id) == Src("str", "", <<>>, id, CharPtr)
Var(v) == Src("var", "", <<>>, v, NullType)
Bin(op, a, b) == Src("bin", op, <<a, b>>, 0, NullType)
Un(op, a) == Src("un", op, <<a>>, 0, NullType)
CastE(type, a) == Src("cast", "", <<a>>, 0, type)
Index(a, i) == Src("index", "", <<a, i>>, 0, NullType)
\* type is that of the left side.
Set(op, a, b, type) == Src("assign", op, <<a, b>>, 0, type)
CallE(f, args) == Src("call", "", args, f, NullType)

Do(e) == Src("expr", "", <<e>>, 0, NullType)
Ret(e) == Src("return", "", <<e>>, 0, NullType)
Blk(ss) == Src("block", "", ss, 0, NullType)
If(c, a) == Src("if", "", <<c, a>>, 0, NullType)
IfElse(c, a, b) == Src("if", "", <<c, a, b>>, 0, NullType)
While(c, s) == Src("while", "", <<c, s>>, 0, NullType)

\* void out(int), a function of the library, is function 1.
OutFunction == [ret |-> Prim("void"), params |-> <<1>>, locals |-> <<>>, types |-> <<TInt>>, body |-> <<>>]
Out(e) == CallE(1, <<e>>)
Func(ret, params, types, ss) ==
    [ret |-> ret, params |-> [i \in 1 .. params |-> i],
     locals |-> [i \in 1 .. Len(types) - params |-> params + i], types |-> types, body |-> <<Blk(ss)>>]
Program(funcs, strings) == [funcs |-> <<OutFunction>> \o funcs, strings |-> strings]

\* int x; char c; short s; int *p; char *q;
Types5 == <<TInt, TChar, TShort, PointerTo(TInt), CharPtr>>
Prologue(x, c, s) ==
    << Do(Set("", Var(1), x, TInt)), Do(Set("", Var(2), c, TChar)), Do(Set("", Var(3), s, TShort)),
       Do(Set("", Var(4), Un("addr", Var(1)), PointerTo(TInt))), Do(Set("", Var(5), Lit(1), CharPtr)) >>
\* int main() { ...; out(e); out(x); return 0; }
Shown(e, x, c, s) ==
    Program(<<Func(TInt, 0, Types5, Prologue(x, c, s) \o <<Do(Out(e)), Do(Out(Var(1))), Ret(Num(0))>>)>>,
            <<<<1, -2, -1, 0>>>>)

\* f of every pair, and of every triple.
Pairs(f(_, _), as, bs) ==
    [i \in 1 .. Len(as) * Len(bs) |-> f(as[((i - 1) \div Len(bs)) + 1], bs[((i - 1) % Len(bs)) + 1])]
Triples(f(_, _, _), as, bs, cs) ==
    [i \in 1 .. Len(as) * Len(bs) * Len(cs) |->
        LET j == (i - 1) \div Len(cs)
        IN  f(as[(j \div Len(bs)) + 1], bs[(j % Len(bs)) + 1], cs[((i - 1) % Len(cs)) + 1])]

Leaves == <<Var(1), Var(2), Var(3), Num(3), Un("deref", Var(4)), Index(Var(5), Num(1))>>
AllOps == <<"+", "-", "*", "/", "%", "<<", ">>", "<", ">", "<=", ">=", "==", "!=", "&", "|", "^", "&&">>
Target(l, t) == [l |-> l, t |-> t]
Expressions1 ==
    Triples(Bin, AllOps, Leaves, Leaves)
    \o Pairs(Un, <<"neg", "plus", "compl">>, Leaves)
    \o Pairs(Un, <<"preInc", "preDec", "postInc", "postDec">>, <<Var(1), Var(2), Var(3), Un("deref", Var(4))>>)
    \o Pairs(CastE, <<TInt, TChar, TShort>>, Leaves)
    \o Pairs(LAMBDA op, e : Set(op, Var(1), e, TInt), <<"", "+", "-", "*", ">>", "^">>, Leaves)
    \o Pairs(LAMBDA l, e : Set("", l.l, e, l.t),
             <<Target(Var(2), TChar), Target(Var(3), TShort), Target(Un("deref", Var(4)), TInt)>>, Leaves)
    \o Pairs(LAMBDA op, e : Bin(op, Var(4), e), <<"==", "!=">>, <<Un("addr", Var(1)), Num(0)>>)
ExprPrograms ==
    LET es == Expressions1
    IN  Table([i \in DOMAIN es |-> Shown(es[i], Num(200), Un("neg", Num(1)), Num(5))])
\* One operator inside another, on either side.
Small == <<Var(1), Var(2)>>
Nested(inner, outer) ==
    Pairs(LAMBDA a, b : Bin(outer, a, Bin(inner, b, Var(3))), Small, Small)
    \o Pairs(LAMBDA a, b : Bin(outer, Bin(inner, Var(3), a), b), Small, Small)
Expressions2 == FlattenSeq(Pairs(Nested, <<"-", "/", "<<", "<", "&&">>, <<"-", "%", ">>", "<=", "&&">>))
NestedPrograms ==
    LET es == Expressions2
    IN  Table([i \in DOMAIN es |-> Shown(es[i], Num(5), Un("neg", Num(1)), Num(2))])

ExpressionPrograms == Table(ExprPrograms \o NestedPrograms)

(*************************** Statements and calls **************************)
Let(v, e, type) == Do(Set("", Var(v), e, type))
Looped(e) == Set("", Var(1), e, TInt)

Simple ==
    << Do(Out(Var(1))),
       Do(Looped(Bin("-", Var(1), Num(1)))),
       If(Var(3), Do(Out(Var(2)))),
       IfElse(Bin("<", Var(1), Num(2)), Do(Out(Num(1))), Blk(<<Let(2, Var(1), TChar), Do(Out(Var(2)))>>)),
       Do(Set("", Un("deref", Var(4)), Var(3), TInt)),
       While(Un("postDec", Var(3)), Do(Un("preInc", Var(2)))) >>
\* int x = 2; char c = -1; short s = 1; ...
Body(ss) == Program(<<Func(TInt, 0, Types5, Prologue(Num(2), Un("neg", Num(1)), Num(1)) \o ss
                                          \o <<Do(Out(Var(1))), Ret(Var(1))>>)>>, <<<<1, -2, -1, 0>>>>)
Loops == Pairs(LAMBDA a, b : Body(<<While(Var(1), Blk(<<a, b, Do(Un("postDec", Var(1)))>>))>>), Simple, Simple)
Branches == Pairs(LAMBDA a, b : Body(<<IfElse(Var(2), a, b), IfElse(Bin(">", Var(1), Num(2)), b, a)>>), Simple, Simple)

\* int f(int a, char b) { int l; l = a - b; if (b) return l; return a + 1; }
TakesTwo == Func(TInt, 2, <<TInt, TChar, TInt>>,
    <<Let(3, Bin("-", Var(1), Var(2)), TInt), If(Var(2), Ret(Var(3))), Ret(Bin("+", Var(1), Num(1)))>>)
F(a, b) == CallE(2, <<a, b>>)
Calling(e) == Program(<<TakesTwo, Func(TInt, 0, Types5,
                 Prologue(Num(7), Num(3), Num(0)) \o <<Do(Out(e)), Do(Out(Var(1))), Ret(Num(0))>>)>>,
                 <<<<1, -2, -1, 0>>>>)
Calls ==
    << Calling(F(Var(1), Var(2))), Calling(Bin("-", Var(1), F(Num(4), Num(1)))),
       Calling(F(F(Num(9), Num(2)), F(Num(4), Num(3)))), Calling(Bin("&&", Var(3), F(Num(1), Num(1)))),
       Calling(Bin("*", F(Num(3), Var(3)), F(Num(2), Var(3)))), Calling(F(Un("postInc", Var(1)), Num(20))),
       Calling(F(Set("", Un("deref", Var(4)), Num(6), TInt), Index(Var(5), Num(1)))) >>

\* int fact(int n) { if (n < 2) return 1; return n * fact(n - 1); }
Factorial == Program(<<Func(TInt, 1, <<TInt>>,
                          <<If(Bin("<", Var(1), Num(2)), Ret(Num(1))),
                            Ret(Bin("*", Var(1), CallE(2, <<Bin("-", Var(1), Num(1))>>)))>>),
                       Func(TInt, 0, <<>>, <<Do(Out(CallE(2, <<Num(4)>>))), Ret(Num(0))>>)>>, <<>>)
\* void swap(int *a, int *b) { int t; t = *a; *a = *b; *b = t; }
Swap == Program(<<Func(Prim("void"), 2, <<PointerTo(TInt), PointerTo(TInt), TInt>>,
                     <<Let(3, Un("deref", Var(1)), TInt),
                       Do(Set("", Un("deref", Var(1)), Un("deref", Var(2)), TInt)),
                       Do(Set("", Un("deref", Var(2)), Var(3), TInt))>>),
                  Func(TInt, 0, <<TInt, TInt>>,
                     <<Let(1, Num(1), TInt), Let(2, Num(2), TInt),
                       Do(CallE(2, <<Un("addr", Var(1)), Un("addr", Var(2))>>)),
                       Do(Out(Var(1))), Do(Out(Var(2))), Ret(Num(0))>>)>>, <<>>)
\* char *s; while (*s) { out(*s); s++; }
WalkText == Program(<<Func(TInt, 0, <<CharPtr>>,
                     <<Let(1, Lit(2), CharPtr),
                       While(Un("deref", Var(1)),
                             Blk(<<Do(Out(Un("deref", Var(1)))), Do(Un("postInc", Var(1)))>>)),
                       Ret(Num(0))>>)>>, <<<<7, 0>>, <<3, -4, 0>>>>)
\* int i; int *p; int **pp; p = &i; pp = &p; **pp = 5; out(i += *p);
Double == Program(<<Func(TInt, 0, <<TInt, PointerTo(TInt), PointerTo(PointerTo(TInt))>>,
                       <<Let(1, Num(1), TInt), Let(2, Un("addr", Var(1)), PointerTo(TInt)),
                         Let(3, Un("addr", Var(2)), PointerTo(PointerTo(TInt))),
                         Do(Set("", Un("deref", Un("deref", Var(3))), Num(5), TInt)),
                         Do(Out(Set("+", Var(1), Un("deref", Var(2)), TInt))), Ret(Var(1))>>)>>, <<>>)
FlowPrograms == Table(Loops \o Branches \o Calls \o <<Factorial, Swap, WalkText, Double>>)

(*************************** Nesting ***************************************)
\* Programs without variables, which all the outputs can print, and which
\* differ in how their parts are nested.
Plain(types, ss) == Program(<<Func(TInt, 0, types, ss \o <<Ret(Num(0))>>)>>, <<<<1, 0>>>>)
One == Num(1)
Sums ==
    << Bin("-", Bin("-", One, One), One), Bin("-", One, Bin("-", One, One)),
       CastE(TInt, Bin("-", One, One)), Bin("-", CastE(TInt, One), One), Bin("-", One, CastE(TChar, One)),
       Bin("<", Bin("<", One, One), One), Bin("<", One, Bin("<", One, One)) >>
Acts == <<Do(One), Do(Out(One))>>
Zero == Num(0)
Nestings(a, b) ==
    << Plain(<<>>, <<If(Zero, a), b>>), Plain(<<>>, <<If(Zero, Blk(<<a, b>>))>>),
       Plain(<<>>, <<IfElse(Zero, a, b)>>), Plain(<<>>, <<If(Zero, Blk(<<>>)), a, b>>),
       Plain(<<>>, <<While(Zero, a), b>>), Plain(<<>>, <<While(Zero, Blk(<<a, b>>))>>),
       Plain(<<>>, <<If(Zero, If(Zero, a)), b>>), Plain(<<>>, <<If(Zero, IfElse(Zero, a, b))>>),
       Plain(<<>>, <<IfElse(Zero, Blk(<<If(Zero, a)>>), b)>>),
       Plain(<<>>, <<If(Zero, Blk(<<If(Zero, a), b>>))>>), Plain(<<>>, <<a, b>>) >>
\* Locals of several types, and a cast to each.
Typed ==
    LET types == <<TInt, TChar, UnsignedOf(TShort), PointerTo(TChar), PointerTo(PointerTo(TInt))>>
    IN  [i \in DOMAIN types |-> Plain(<<types[i]>>, <<Do(One)>>)]
        \o [i \in 1 .. 3 |-> Plain(<<>>, <<Do(CastE(types[i], One))>>)]
PlainPrograms ==
    [i \in DOMAIN Sums |-> Plain(<<>>, <<Do(Sums[i])>>)]
    \o FlattenSeq(Pairs(Nestings, Acts, Acts)) \o Typed

AllPrograms == Table(ExpressionPrograms \o FlowPrograms \o PlainPrograms)
(*************************** Where the code departs from C *****************)
\* int main() { int x = 5; char c = 1; ... out(e); ... }
Single(e) == <<Shown(e, Num(5), Num(1), Num(2))>>
NotProgram == Single(Un("not", Var(1)))
OrProgram == Single(Bin("||", Var(1), Num(0)))
PointerDifference == Single(Bin("-", Bin("+", Var(5), Num(2)), Var(5)))
\* ++p == &x + 1
PointerStep == Single(Bin("==", Un("preInc", Var(4)), Bin("+", Un("addr", Var(1)), Num(1))))
AddressOfChar == Single(Un("deref", Un("addr", Var(2))))
\* int f(char c) { int l = 200; return c; }
NarrowReturn ==
    <<Program(<<Func(TInt, 1, <<TChar, TInt>>, <<Let(2, Num(200), TInt), Ret(Var(1))>>),
                Func(TInt, 0, <<>>, <<Do(Out(CallE(2, <<Num(1)>>))), Ret(Num(0))>>)>>, <<>>)>>
\* unsigned int u = -1; out(u > 1);
UnsignedCompare ==
    <<Program(<<Func(TInt, 0, <<UnsignedOf(TInt)>>,
                   <<Let(1, Un("neg", Num(1)), UnsignedOf(TInt)),
                     Do(Out(Bin(">", Var(1), Num(1)))), Ret(Num(0))>>)>>, <<>>)>>
=============================================================================
