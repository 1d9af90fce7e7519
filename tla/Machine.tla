------------------------------ MODULE Machine ------------------------------
(***************************************************************************)
(* Running what basic-cc compiled: the processor of X86 executes the code  *)
(* of a program, among memory and registers whose contents nothing has     *)
(* set, and calls the C library.  What the run shows must be what the      *)
(* source means (Execution).  Module Compile gives Images and Runs.        *)
(***************************************************************************)
EXTENDS X86, SequencesExt, TLC

CONSTANTS
    Images,  \* for every program: its code (<<>> if it was rejected), where main
             \* begins, its strings, and for each function its number of bytes
             \* of locals (frames) and whether the library has it (library)
    Runs,    \* for every program: whether C defines it, its prints and its result
    Junk     \* the bytes memory and registers may be filled with

ASSUME JunkAssumption == Junk \subseteq Byte /\ Junk # {}

\* f itself: TLC evaluates the whole of it, once.
Table(f) == f @@ <<>>
\* What is run, and what it means.
Linked == Table(Images)
Meant == Table(Runs)

\* The programs C says anything about.
MeaningfulPrograms == {p \in DOMAIN Meant : Meant[p].ok}

\* The programs whose code the assembler takes.
Assembled ==
    {p \in DOMAIN Linked : \A k \in DOMAIN Linked[p].code : Assembles(Linked[p].code[k])}

(*************************** The run ***************************************)
VARIABLES
    program,  \* the program that is run
    fill,     \* the byte all memory and registers held before
    machine,  \* its registers, memory and comparison flags, and where it is
    printed   \* what the program has printed

vars == <<program, fill, machine, printed>>

Filled(byte) == byte * (1 + Mod(1) + Mod(2) + Mod(3))

\* The strings follow each other from address Word on, the stack ends at the
\* top, where main's return address is.
StringAt(strings) ==
    LET at[k \in 1 .. Len(strings)] == IF k = 1 THEN Word ELSE at[k - 1] + Len(strings[k - 1])
    IN  at
Initial(strings, byte) ==
    LET text == FlattenSeq(strings)
    IN  [a \in Addresses |->
            IF a >= MemSize - Word THEN 0
            ELSE IF a - Word + 1 \in DOMAIN text THEN Unsigned(text[a - Word + 1], 1) ELSE byte]

Init ==
    /\ program \in MeaningfulPrograms
    /\ fill \in Junk
    /\ machine = [pc   |-> Linked[program].main,
                  regs |-> [r \in {"a", "b", "c", "d", "bp", "sp"} |->
                              IF r = "sp" THEN MemSize - Word ELSE Filled(fill)],
                  mem  |-> Initial(Linked[program].strings, fill),
                  cmp  |-> <<0, 0>>,
                  strs |-> StringAt(Linked[program].strings)]
    /\ printed = <<>>

Code == Linked[program].code
Instruction == Code[machine.pc]
Halted == machine.pc = 0
Ran == Code # <<>>
External(ins) == ins.i = "call" /\ Linked[program].library[ins.l[2]]

\* The program runs: it assembled, and memory is where it reaches.
CanRun ==
    /\ ~Halted
    /\ program \in Assembled
    /\ ~Faults(machine, Instruction)

Execute ==
    /\ CanRun /\ ~External(Instruction)
    /\ machine' = Executed(machine, Code)
    /\ UNCHANGED <<program, fill, printed>>

\* A function of the C library prints its argument, the word on top of the
\* stack, and may leave anything in the registers its caller has to save.
CallLibrary ==
    /\ CanRun /\ External(Instruction)
    /\ printed' = Append(printed, Signed(Load(machine, machine.regs["sp"], Word), Word))
    /\ \E byte \in Junk :
          machine' = [machine EXCEPT !.pc = @ + 1,
                         !.regs = [r \in DOMAIN @ |-> IF r \in {"a", "c", "d"} THEN Filled(byte) ELSE @[r]]]
    /\ UNCHANGED <<program, fill>>

Next == Execute \/ CallLibrary

\* Fairness: the processor goes on.
Spec == Init /\ [][Next]_vars /\ WF_vars(Next)

(***************************************************************************)
(* Properties                                                              *)
(***************************************************************************)
\* The programs in which each jump and call has one place to go.
WellLabelled ==
    {p \in DOMAIN Linked :
        LET code == Linked[p].code
            at(l) == {k \in DOMAIN code : code[k].i = "label" /\ code[k].l = l}
        IN  \A k \in DOMAIN code :
                code[k].i \in {"jmp", "je", "jne", "call", "label"} =>
                    \/ \E j \in DOMAIN code : at(code[k].l) = {j}
                    \/ code[k].i = "call" /\ Linked[p].library[code[k].l[2]]}

\* What the compiler accepts, the assembler takes (`Did not assemble' is a
\* failed test of test/run_compile_tests.sh): gen_out is given registers that
\* have a name, and instructions operands of sizes that go together; and
\* next_label gives every label once, so that all jumps land.
CodeAssembles == program \in Assembled \cap WellLabelled

\* The function the instruction at pc belongs to.
Starts == {k \in DOMAIN Code : Code[k].i = "label" /\ Code[k].l[1] = "FUNC"}
Current ==
    LET before == {k \in Starts : k <= machine.pc}
    IN  Code[CHOOSE k \in before : \A j \in before : j <= k].l[2]

\* Between two statements nothing is left on the stack but the frame, however
\* control came there: the labels of if and while, and the end of a function.
StatementLabels == {"ELSE_CLAUSE", "END_IF", "WHILE_CONDITION", "WHILE_END"}
StackBalanced ==
    ~Halted /\ (Instruction.i = "leave" \/ Instruction.l[1] \in StatementLabels)
    => machine.regs["sp"] = machine.regs["bp"] - Linked[program].frames[Current]

\* The chain of frames, from the innermost: each holds the frame pointer of its
\* caller, higher in memory, and a return address that follows a call.
Outermost == MemSize - 2 * Word
InFrame == ~Halted /\ Instruction.i # "ret" /\ ~ \E k \in Starts : machine.pc \in k .. (k + 2)
FramesLinked ==
    LET chain[b \in Addresses] ==
            LET caller == Load(machine, b, Word)
                back   == Load(machine, b + Word, Word)
            IN  IF b = Outermost THEN caller = Filled(fill) /\ back = 0
                ELSE /\ b < Outermost
                     /\ back - 1 \in DOMAIN Code /\ Code[back - 1].i = "call"
                     /\ caller > b /\ caller \in Addresses /\ chain[caller]
    IN  /\ InFrame => machine.regs["bp"] \in Addresses /\ chain[machine.regs["bp"]]
        /\ Halted /\ Ran =>
              machine.regs["bp"] = Filled(fill) /\ machine.regs["sp"] = MemSize

\* The run shows what the source says: see Execution.  The result is what main
\* left in %eax.
Abstract == INSTANCE Execution
    WITH Runs <- Meant, result <- IF Halted /\ Ran THEN <<Signed(machine.regs["a"], Word)>> ELSE <<>>
ImplementsExecution == Abstract!Spec
=============================================================================
