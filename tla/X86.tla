-------------------------------- MODULE X86 --------------------------------
(***************************************************************************)
(* The part of an i386 and its assembler that the code of                  *)
(* src/ast/out/asm_x86 runs on, with bytes of ByteBits bits: a word has    *)
(* four.  Registers and memory hold unsigned numbers, a register may be    *)
(* accessed in part, memory is little endian, and the stack grows down.    *)
(***************************************************************************)
EXTENDS Integers, Sequences, Bitwise

CONSTANTS ByteBits,  \* bits of a byte
          MemSize    \* bytes of memory

\* A byte register holds every count a word can be shifted by.
ASSUME ByteBitsAssumption == ByteBits \in Nat /\ 2 ^ ByteBits >= 4 * ByteBits
ASSUME MemSizeAssumption == MemSize \in Nat \ {0}

Mod(z) == 2 ^ (ByteBits * z)
Word == 4
Byte == 0 .. (Mod(1) - 1)

\* z bytes read as a two's complement number, and back.
Signed(v, z) == IF v < Mod(z) \div 2 THEN v ELSE v - Mod(z)
Unsigned(i, z) == i % Mod(z)

(*************************** Operands **************************************)
Operand(k, r, z, v) == [k |-> k, r |-> r, z |-> z, v |-> v]
R(r, z) == Operand("reg", r, z, 0)      \* %al, %ax, %eax ...
Imm(v) == Operand("imm", "", 0, v)      \* $v
Frame(v) == Operand("frame", "", 0, v)  \* v(%ebp)
At(r) == Operand("at", r, 0, 0)         \* (%eax)
Str(id) == Operand("str", "", 0, id)    \* $.LSid
None == Operand("none", "", 0, 0)

\* An instruction, in the operand order of the AT&T syntax; l is the label it
\* defines or goes to, or the function it calls.
Ins(i, s, d) == [i |-> i, s |-> s, d |-> d, l |-> <<"", 0>>]
To(i, l) == [i |-> i, s |-> None, d |-> None, l |-> l]

Conditions == {"e", "ne", "g", "l", "ge", "le"}
Jumps == [e |-> "je", ne |-> "jne", jmp |-> "jmp"]
Setters == [e |-> "sete", ne |-> "setne", g |-> "setg", l |-> "setl", ge |-> "setge", le |-> "setle"]

\* What the assembler takes: registers that have a name and, where there are
\* two, one size; setcc only on a byte; lea not into a byte; the count of a
\* shift before what it shifts.
Regs(ins) == {o \in {ins.s, ins.d} : o.k = "reg"}
Assembles(ins) ==
    /\ \A o \in Regs(ins) : o.z \in {1, 2, 4}
    /\ ins.i \notin {"movsx", "movzx", "shl", "shr", "sar"} => \A o, p \in Regs(ins) : o.z = p.z
    /\ ins.i \in {"movsx", "movzx"} => ins.s.z < ins.d.z
    /\ \A c \in Conditions : ins.i = Setters[c] => ins.d.z = 1
    /\ ins.i = "lea" => ins.d.z # 1
    /\ ins.i \in {"shl", "shr", "sar"} => ins.s.k = "imm" \/ ins.s = R("c", 1)

\* The operand size of an instruction.
Width(ins) == IF Regs(ins) = {} THEN Word ELSE (CHOOSE o \in Regs(ins) : ins.d.k = "reg" => o = ins.d).z

(*************************** The machine ***********************************)
\* A machine: pc (0 is the return address of main), regs, mem, and the two
\* signed numbers compared last.  strs is where each string literal begins.
Addresses == 0 .. (MemSize - 1)

Effective(m, o) ==
    CASE o.k = "frame" -> Unsigned(m.regs["bp"] + o.v, Word)
      [] o.k = "at" -> m.regs[o.r]

\* Whether all z bytes from a on are there.
Mapped(a, z) == a >= 0 /\ a + z <= MemSize
Load(m, a, z) ==
    m.mem[a] + (IF z >= 2 THEN m.mem[a + 1] * Mod(1) ELSE 0)
             + (IF z = 4 THEN m.mem[a + 2] * Mod(2) + m.mem[a + 3] * Mod(3) ELSE 0)
Store(mem, a, z, v) ==
    [b \in DOMAIN mem |-> IF b \in a .. (a + z - 1) THEN (v \div Mod(b - a)) % Mod(1) ELSE mem[b]]

Read(m, o, z) ==
    CASE o.k = "reg" -> m.regs[o.r] % Mod(z)
      [] o.k = "imm" -> Unsigned(o.v, z)
      [] o.k = "str" -> m.strs[o.v]
      [] o.k \in {"frame", "at"} -> Load(m, Effective(m, o), z)

SetReg(m, r, z, v) == [m EXCEPT !.regs[r] = ((@ \div Mod(z)) * Mod(z)) + (v % Mod(z))]
Write(m, o, z, v) ==
    IF o.k = "reg" THEN SetReg(m, o.r, z, v)
    ELSE [m EXCEPT !.mem = Store(@, Effective(m, o), z, v % Mod(z))]

\* Memory operands outside the memory stop the machine.
Faults(m, ins) ==
    \/ \E o \in {ins.s, ins.d} : /\ o.k \in {"frame", "at"} /\ ins.i # "lea"
                                 /\ ~Mapped(Effective(m, o), Width(ins))
    \/ ins.i \in {"push", "call"} /\ m.regs["sp"] < Word
    \/ ins.i \in {"pop", "ret"} /\ ~Mapped(m.regs["sp"], Word)
    \/ ins.i = "leave" /\ ~Mapped(m.regs["bp"], Word)
    \/ ins.i = "idiv" /\ Read(m, ins.s, Word) = 0

\* Truncating division, as idiv does it.
Sign(i) == IF i < 0 THEN -1 ELSE 1
Abs(i) == IF i < 0 THEN -i ELSE i
Quotient(a, b) == Sign(a) * Sign(b) * (Abs(a) \div Abs(b))
Remainder(a, b) == a - b * Quotient(a, b)

\* An arithmetic shift right, on numbers of z bytes.
ShiftedRight(v, count, z) == Unsigned(Signed(v, z) \div 2 ^ count, z)

\* What an arithmetic instruction leaves in its destination.
Result(m, ins) ==
    LET z == Width(ins)
        s == Read(m, ins.s, z)
        d == Read(m, ins.d, z)
        count == (IF ins.s.k = "imm" THEN ins.s.v ELSE m.regs["c"] % Mod(1)) % (Word * ByteBits)
    IN  CASE ins.i = "mov" -> s
          [] ins.i = "add" -> Unsigned(d + s, z)
          [] ins.i = "sub" -> Unsigned(d - s, z)
          [] ins.i = "imul" -> Unsigned(Signed(d, z) * Signed(s, z), z)
          [] ins.i = "and" -> d & s
          [] ins.i = "or" -> d | s
          [] ins.i = "xor" -> d ^^ s
          [] ins.i = "neg" -> Unsigned(-d, z)
          [] ins.i = "not" -> Unsigned(-1 - d, z)
          [] ins.i = "inc" -> Unsigned(d + 1, z)
          [] ins.i = "dec" -> Unsigned(d - 1, z)
          [] ins.i = "shl" -> (d % 2 ^ (ByteBits * z - count)) * 2 ^ count
          [] ins.i = "shr" -> d \div 2 ^ count
          [] ins.i = "sar" -> ShiftedRight(d, count, z)
          [] ins.i = "lea" -> Unsigned(Effective(m, ins.s), z)
          [] ins.i = "movzx" -> Read(m, ins.s, ins.s.z)
          [] ins.i = "movsx" -> Unsigned(Signed(Read(m, ins.s, ins.s.z), ins.s.z), z)
Arithmetic == {"mov", "add", "sub", "imul", "and", "or", "xor", "neg", "not", "inc", "dec",
               "shl", "shr", "sar", "lea", "movzx", "movsx"}

Holds(m, c) ==
    CASE c = "e" -> m.cmp[1] = m.cmp[2]  [] c = "ne" -> m.cmp[1] # m.cmp[2]
      [] c = "g" -> m.cmp[1] > m.cmp[2]  [] c = "l" -> m.cmp[1] < m.cmp[2]
      [] c = "ge" -> m.cmp[1] >= m.cmp[2] [] c = "le" -> m.cmp[1] <= m.cmp[2]

Pushed(m, v) ==
    LET sp == m.regs["sp"] - Word
    IN  [m EXCEPT !.regs["sp"] = sp, !.mem = Store(@, sp, Word, v)]
Popped(m, r) ==
    LET v == Load(m, m.regs["sp"], Word)
    IN  SetReg(SetReg(m, "sp", Word, m.regs["sp"] + Word), r, Word, v)

Label(code, l) == CHOOSE k \in DOMAIN code : code[k].i = "label" /\ code[k].l = l

\* The machine after the instruction at pc, which neither faults nor calls
\* anything external.
Executed(m, code) ==
    LET ins  == code[m.pc]
        next == [m EXCEPT !.pc = @ + 1]
        jump == [m EXCEPT !.pc = Label(code, ins.l)]
        c    == {c \in Conditions : Setters[c] = ins.i}
    IN  CASE ins.i \in Arithmetic -> Write(next, ins.d, Width(ins), Result(m, ins))
          [] ins.i = "cmp" ->
                [next EXCEPT !.cmp = <<Signed(Read(m, ins.d, Width(ins)), Width(ins)),
                                       Signed(Read(m, ins.s, Width(ins)), Width(ins))>>]
          [] c # {} -> SetReg(next, ins.d.r, 1, IF \E k \in c : Holds(m, k) THEN 1 ELSE 0)
          [] ins.i = "xchg" ->
                SetReg(SetReg(next, ins.d.r, ins.d.z, Read(m, ins.s, ins.d.z)),
                       ins.s.r, ins.d.z, Read(m, ins.d, ins.d.z))
          [] ins.i = "leaIndex" ->
                SetReg(next, "a", Word, m.regs["a"] + m.regs["b"] * ins.s.v)
          [] ins.i = "cltd" -> SetReg(next, "d", Word, IF Signed(m.regs["a"], Word) < 0 THEN Mod(Word) - 1 ELSE 0)
          [] ins.i = "idiv" ->
                LET a == Signed(m.regs["d"], Word) * Mod(Word) + m.regs["a"]
                    b == Signed(Read(m, ins.s, Word), Word)
                IN  SetReg(SetReg(next, "a", Word, Unsigned(Quotient(a, b), Word)),
                           "d", Word, Unsigned(Remainder(a, b), Word))
          [] ins.i = "push" -> Pushed(next, Read(m, ins.s, Word))
          [] ins.i = "pop" -> Popped(next, ins.d.r)
          [] ins.i = "label" -> next
          [] ins.i = "jmp" -> jump
          [] ins.i \in {"je", "jne"} -> IF Holds(m, IF ins.i = "je" THEN "e" ELSE "ne") THEN jump ELSE next
          [] ins.i = "call" -> [Pushed(m, m.pc + 1) EXCEPT !.pc = Label(code, ins.l)]
          [] ins.i = "leave" -> Popped([next EXCEPT !.regs["sp"] = m.regs["bp"]], "bp")
          [] ins.i = "ret" -> [m EXCEPT !.pc = Load(m, m.regs["sp"], Word), !.regs["sp"] = @ + Word]
=============================================================================
