------------------------------- MODULE CSource -------------------------------
(***************************************************************************)
(* The programs the compiler is given, and what C says they do: the        *)
(* standard the compiler is measured against (test/gcc_gen_test_output.sh  *)
(* takes the expected output from gcc).  Nothing here comes from src/.     *)
(*                                                                         *)
(* A program is a sequence of functions                                    *)
(*    [ret, params, locals, types, body]                                   *)
(* whose variables are numbered, types giving the type of each; body is    *)
(* <<>> for a function that is only declared.  Calling that one prints its *)
(* argument.  The last function is main.                                   *)
(***************************************************************************)
EXTENDS Types, X86

\* Expressions and statements.
Src(n, op, kids, val, type) == [n |-> n, op |-> op, kids |-> kids, val |-> val, type |-> type]

\* A value: an integer, or a pointer to element `at' of an object, a variable
\* <<"var", frame, v>> of one element or a string <<"str", id>>.
Null == [obj |-> <<>>, at |-> 0]
Ref(obj, at) == [obj |-> obj, at |-> at]
Value(type, i, ref) == [type |-> type, i |-> i, ref |-> ref]
IntValue(i) == Value(Prim("int"), i, Null)
True(v) == v.i # 0 \/ v.ref # Null
Truth(b) == IntValue(IF b THEN 1 ELSE 0)

\* The integers of a type.
InRange(i, type) ==
    IF IsUnsigned(type) THEN i \in 0 .. (Mod(Size(type)) - 1)
    ELSE Signed(Unsigned(i, Size(type)), Size(type)) = i
ConvertInt(i, type) ==
    IF IsUnsigned(type) THEN Unsigned(i, Size(type))
    ELSE Signed(Unsigned(i, Size(type)), Size(type))
Converted(v, type) ==
    IF IsInteger(type) THEN Value(type, ConvertInt(v.i, type), Null) ELSE Value(type, v.i, v.ref)

\* The integer promotions and the usual arithmetic conversions.
Promoted(type) == IF Size(type) < Size(Prim("int")) THEN Prim("int") ELSE type
Common(t, u) == IF IsUnsigned(Promoted(t)) THEN Promoted(t) ELSE Promoted(u)

(*************************** States of a run *******************************)
\* vars holds the variables of every activation, ok is FALSE once the program
\* did something C leaves undefined (or ran out of fuel), and returned holds the
\* value of a return that is on its way to the caller.
Start == [vars |-> <<>>, printed |-> <<>>, frame |-> 0, frames |-> 0, fuel |-> 25, ok |-> TRUE,
          returned |-> <<>>]

Undefined(st) == [st EXCEPT !.ok = FALSE]
R2(v, st) == [v |-> v, st |-> st]
NoValue == IntValue(0)

\* Reading and writing what a pointer points to.
Fetch(ref, st, strings) ==
    CASE ref.at = 1 /\ ref.obj \in DOMAIN st.vars -> R2(st.vars[ref.obj], st)
      [] ref.obj # <<>> /\ ref.obj[1] = "str" /\ ref.at \in DOMAIN strings[ref.obj[2]] ->
            R2(Value(Prim("char"), strings[ref.obj[2]][ref.at], Null), st)
      [] OTHER -> R2(NoValue, Undefined(st))
Keep(ref, v, st) ==
    IF ref.obj # <<>> /\ ref.obj[1] = "var" /\ ref.at = 1
    THEN [st EXCEPT !.vars = [k \in DOMAIN @ \cup {ref.obj} |-> IF k = ref.obj THEN v ELSE @[k]]]
    ELSE Undefined(st)

\* a op b of integers.
Compared(op, a, b) ==
    CASE op = "<" -> a < b [] op = ">" -> a > b [] op = "<=" -> a <= b [] op = ">=" -> a >= b
      [] op = "==" -> a = b [] op = "!=" -> a # b
Computed(op, a, b) ==
    CASE op = "+" -> a + b [] op = "-" -> a - b [] op = "*" -> a * b
      [] op = "/" -> Quotient(a, b) [] op = "%" -> Remainder(a, b)
      [] op = "<<" -> a * 2 ^ b [] op = ">>" -> a \div 2 ^ b
      [] op \in {"&", "|", "^"} ->
            LET x == Unsigned(a, Word)
                y == Unsigned(b, Word)
                bits == CASE op = "&" -> x & y [] op = "|" -> x | y [] op = "^" -> x ^^ y
            IN  IF a < 0 \/ b < 0 THEN Signed(bits, Word) ELSE bits
Shifts == {"<<", ">>"}
Defined(op, a, b, type) ==
    /\ op \in {"/", "%"} => b # 0
    /\ op \in Shifts => b >= 0 /\ b < ByteBits * Size(type)
    /\ op = "<<" => a >= 0 \/ IsUnsigned(type)
    /\ IsUnsigned(type) \/ InRange(Computed(op, a, b), type)

Relations == {"<", ">", "<=", ">=", "==", "!="}
IntegerOp(op, l, r, st) ==
    LET t == IF op \in Shifts THEN Promoted(l.type) ELSE Common(l.type, r.type)
        a == ConvertInt(l.i, t)
        b == IF op \in Shifts THEN r.i ELSE ConvertInt(r.i, t)
    IN  IF op \in Relations THEN R2(Truth(Compared(op, a, b)), st)
        ELSE IF ~Defined(op, a, b, t) THEN R2(NoValue, Undefined(st))
        ELSE R2(Value(t, ConvertInt(Computed(op, a, b), t), Null), st)

\* Pointers: into one object and to just behind it.
Elements(obj, strings) == IF obj[1] = "str" THEN Len(strings[obj[2]]) ELSE 1
Moved(p, d, st, strings) ==
    IF d = 0 THEN R2(p, st)
    ELSE IF p.ref # Null /\ p.ref.at + d \in 1 .. (Elements(p.ref.obj, strings) + 1)
    THEN R2([p EXCEPT !.ref.at = @ + d], st)
    ELSE R2(NoValue, Undefined(st))
PointerOp(op, l, r, st, strings) ==
    CASE op = "+" /\ IsPointer(l.type) -> Moved(l, r.i, st, strings)
      [] op = "+" /\ ~IsPointer(l.type) -> Moved(r, l.i, st, strings)
      [] op = "-" /\ ~IsPointer(r.type) -> Moved(l, -r.i, st, strings)
      [] op = "-" /\ IsPointer(r.type) ->
            IF l.ref.obj = r.ref.obj THEN R2(IntValue(l.ref.at - r.ref.at), st)
            ELSE R2(NoValue, Undefined(st))
      [] op = "==" -> R2(Truth(l.ref = r.ref), st)
      [] op = "!=" -> R2(Truth(l.ref # r.ref), st)
      [] OTHER -> R2(NoValue, Undefined(st))

BinaryOp(op, l, r, st, strings) ==
    IF IsPointer(l.type) \/ IsPointer(r.type) THEN PointerOp(op, l, r, st, strings) ELSE IntegerOp(op, l, r, st)

(*************************** Expressions ***********************************)
\* p is the program: [funcs, strings].
RECURSIVE Eval(_, _, _), EvalAll(_, _, _), Exec(_, _, _), ExecAll(_, _, _), Place(_, _, _)

\* The object an lvalue names.
Place(e, st, p) ==
    CASE e.n = "var" -> R2(Ref(<<"var", st.frame, e.val>>, 1), st)
      [] e.n = "un" -> LET at == Eval(e.kids[1], st, p) IN R2(at.v.ref, at.st)
      [] e.n = "index" ->
            LET base == Eval(e.kids[1], st, p)
                at   == Eval(e.kids[2], base.st, p)
                sum  == PointerOp("+", base.v, at.v, at.st, p.strings)
            IN  R2(sum.v.ref, sum.st)

EvalAll(es, st, p) ==
    IF es = <<>> THEN R2(<<>>, st)
    ELSE LET first == Eval(es[1], st, p)
             rest  == EvalAll(Tail(es), first.st, p)
         IN  R2(<<first.v>> \o rest.v, rest.st)

\* What is left in the object after v op= r, and the value of the whole.
Update(e, op, r, st, p) ==
    LET at  == Place(e, st, p)
        old == Fetch(at.v, at.st, p.strings)
        new == BinaryOp(op, old.v, r, old.st, p.strings)
        val == Converted(new.v, old.v.type)
    IN  [old |-> old.v, v |-> val, st |-> IF new.st.ok THEN Keep(at.v, val, new.st) ELSE new.st]

CallResult(f, args, st, p) ==
    LET func  == p.funcs[f]
        new   == st.frames + 1
        enter == [st EXCEPT !.frame = new, !.frames = new, !.fuel = @ - 1,
                            !.vars = [k \in DOMAIN @ \cup {<<"var", new, func.params[i]>> : i \in DOMAIN func.params} |->
                                         IF k[2] = new
                                         THEN LET i == CHOOSE i \in DOMAIN func.params : func.params[i] = k[3]
                                              IN  Converted(args[i], func.types[k[3]])
                                         ELSE @[k]]]
        run   == Exec(func.body[1], enter, p)
    IN  IF func.body = <<>> THEN R2(NoValue, [st EXCEPT !.printed = Append(@, args[1].i)])
        ELSE IF st.fuel = 0 THEN R2(NoValue, Undefined(st))
        ELSE R2(IF run.returned = <<>> THEN NoValue ELSE Converted(run.returned[1], func.ret),
                [run EXCEPT !.frame = st.frame, !.returned = <<>>])

Eval(e, st, p) ==
    IF ~st.ok THEN R2(NoValue, st)
    ELSE CASE e.n = "num" -> R2(IntValue(e.val), st)
      [] e.n = "str" -> R2(Value(CharPtr, 0, Ref(<<"str", e.val>>, 1)), st)
      [] e.n = "var" -> Fetch(Ref(<<"var", st.frame, e.val>>, 1), st, p.strings)
      [] e.n = "cast" -> LET r == Eval(e.kids[1], st, p) IN R2(Converted(r.v, e.type), r.st)
      [] e.n = "index" -> LET at == Place(e, st, p) IN Fetch(at.v, at.st, p.strings)
      [] e.n = "bin" /\ e.op \in {"&&", "||"} ->
            LET l == Eval(e.kids[1], st, p)
                r == Eval(e.kids[2], l.st, p)
            IN  IF True(l.v) = (e.op = "||") THEN R2(Truth(True(l.v)), l.st)
                ELSE R2(Truth(True(r.v)), r.st)
      [] e.n = "bin" /\ e.op \notin {"&&", "||"} ->
            LET l == Eval(e.kids[1], st, p)
                r == Eval(e.kids[2], l.st, p)
            IN  IF r.st.ok THEN BinaryOp(e.op, l.v, r.v, r.st, p.strings) ELSE r
      [] e.n = "un" /\ e.op = "addr" ->
            LET at == Place(e.kids[1], st, p)
                to == Fetch(at.v, at.st, p.strings)
            IN  R2(Value(PointerTo(to.v.type), 0, at.v), to.st)
      [] e.n = "un" /\ e.op = "deref" ->
            LET at == Eval(e.kids[1], st, p) IN Fetch(at.v.ref, at.st, p.strings)
      [] e.n = "un" /\ e.op \in {"preInc", "preDec", "postInc", "postDec"} ->
            LET u == Update(e.kids[1], IF e.op \in {"preInc", "postInc"} THEN "+" ELSE "-", IntValue(1), st, p)
            IN  R2(IF e.op \in {"preInc", "preDec"} THEN u.v ELSE u.old, u.st)
      [] e.n = "un" /\ e.op = "not" -> LET r == Eval(e.kids[1], st, p) IN R2(Truth(~True(r.v)), r.st)
      [] e.n = "un" /\ e.op \in {"neg", "plus", "compl"} ->
            LET r == Eval(e.kids[1], st, p)
                t == Promoted(r.v.type)
                i == CASE e.op = "neg" -> -r.v.i [] e.op = "plus" -> r.v.i [] e.op = "compl" -> -1 - r.v.i
            IN  IF IsUnsigned(t) \/ InRange(i, t) THEN R2(Value(t, ConvertInt(i, t), Null), r.st)
                ELSE R2(NoValue, Undefined(r.st))
      [] e.n = "assign" /\ e.op = "" ->
            LET r  == Eval(e.kids[2], st, p)
                at == Place(e.kids[1], r.st, p)
                to == Converted(r.v, e.type)
            IN  R2(to, Keep(at.v, to, at.st))
      [] e.n = "assign" /\ e.op # "" ->
            LET r == Eval(e.kids[2], st, p)
                u == Update(e.kids[1], e.op, r.v, r.st, p)
            IN  IF r.st.ok THEN R2(u.v, u.st) ELSE r
      [] e.n = "call" ->
            LET args == EvalAll(e.kids, st, p)
            IN  IF args.st.ok THEN CallResult(e.val, args.v, args.st, p) ELSE R2(NoValue, args.st)

(*************************** Statements ************************************)
ExecAll(ss, st, p) == IF ss = <<>> THEN st ELSE ExecAll(Tail(ss), Exec(ss[1], st, p), p)

Exec(s, st, p) ==
    IF ~st.ok \/ st.returned # <<>> THEN st
    ELSE CASE s.n = "expr" -> Eval(s.kids[1], st, p).st
      [] s.n = "return" -> LET r == Eval(s.kids[1], st, p) IN [r.st EXCEPT !.returned = <<r.v>>]
      [] s.n = "block" -> ExecAll(s.kids, st, p)
      [] s.n = "if" ->
            LET c == Eval(s.kids[1], st, p)
            IN  IF True(c.v) THEN Exec(s.kids[2], c.st, p)
                ELSE IF Len(s.kids) = 3 THEN Exec(s.kids[3], c.st, p) ELSE c.st
      [] s.n = "while" ->
            LET c    == Eval(s.kids[1], st, p)
                once == Exec(s.kids[2], [c.st EXCEPT !.fuel = @ - 1], p)
            IN  IF ~c.st.ok \/ ~True(c.v) THEN c.st
                ELSE IF c.st.fuel = 0 THEN Undefined(c.st) ELSE Exec(s, once, p)

\* What a run of the program prints and the value main returns.
Meaning(p) ==
    LET run == CallResult(Len(p.funcs), <<>>, Start, p)
    IN  [ok |-> run.st.ok, printed |-> run.st.printed, result |-> run.v.i]
=============================================================================
