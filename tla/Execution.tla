----------------------------- MODULE Execution -----------------------------
(***************************************************************************)
(* What compiling and running a program is for: the program prints, in     *)
(* order, what its source says it prints, and comes to an end with the     *)
(* value main returns.  This is how test/run_compile_tests.sh judges the   *)
(* programs of test/output_test.                                           *)
(***************************************************************************)
EXTENDS Naturals, Sequences

CONSTANTS Runs  \* for every program, what it prints and its result

VARIABLES program, printed, result

vars == <<program, printed, result>>

Running == <<>>

Init == program \in DOMAIN Runs /\ printed = <<>> /\ result = Running

\* One more number is printed, the next of those the source prints.
Show ==
    /\ result = Running
    /\ Len(printed) < Len(Runs[program].printed)
    /\ printed' = SubSeq(Runs[program].printed, 1, Len(printed) + 1)
    /\ UNCHANGED <<program, result>>

\* main returns, once everything is printed.
Finish ==
    /\ result = Running
    /\ printed = Runs[program].printed
    /\ result' = <<Runs[program].result>>
    /\ UNCHANGED <<program, printed>>

Next == Show \/ Finish

\* Every program goes on until it has finished.
Spec == Init /\ [][Next]_vars /\ WF_vars(Next)
=============================================================================
