----------------------------- MODULE Allocator -----------------------------
(***************************************************************************)
(* What an allocator of the compiler promises: an object handed out is one *)
(* nobody holds, and all of them go back at once.                          *)
(***************************************************************************)
EXTENDS Naturals

CONSTANT Objects     \* the objects there are

VARIABLES
    held,            \* objects handed out
    answered,        \* how many calls have been answered with one
    cleared          \* everything has been given back

Init == held = {} /\ answered = 0 /\ cleared = FALSE

Get == /\ ~cleared
       /\ \E o \in Objects \ held : held' = held \cup {o}
       /\ answered' = answered + 1
       /\ UNCHANGED cleared

Clear == ~cleared /\ held' = {} /\ cleared' = TRUE /\ UNCHANGED answered

Next == Get \/ Clear

Spec == Init /\ [][Next]_<<held, answered, cleared>>
=============================================================================
