----------------------------- MODULE LinkedList -----------------------------
(***************************************************************************)
(* include/list.h: circular doubly linked lists whose head and entries are *)
(* nodes of one kind.  A ring of two pointer maps stands for the memory;   *)
(* each action is one inline function, its pointer writes in source order. *)
(*                                                                         *)
(* The callers keep the rules the functions rely on: list_add takes an     *)
(* entry that is on no list, and an entry or head that list_replace        *)
(* replaced keeps its stale pointers and is not used again (the cast of a  *)
(* call's argument, the temporary list of the parameters).                 *)
(***************************************************************************)
EXTENDS Naturals, Sequences, FiniteSets

CONSTANTS Heads, Nodes

ASSUME HeadsAssumption == Heads \cap Nodes = {}

VARIABLES
    ring,      \* [next, prev]: the two pointers of every node
    retired    \* replaced heads and entries

vars == <<ring, retired>>

Cells == Heads \cup Nodes
InUse == Cells \ retired
Ring == [next: [Cells -> Cells], prev: [Cells -> Cells]]

(*************************** Pointer surgery *******************************)
\* LIST_NODE_INIT: the node is a list of its own.
Selfed(r, e) == [next |-> [r.next EXCEPT ![e] = e], prev |-> [r.prev EXCEPT ![e] = e]]

\* __list_add(new, before, after)
Linked(r, new, before, after) ==
    [next |-> [r.next EXCEPT ![new] = after, ![before] = new],
     prev |-> [r.prev EXCEPT ![after] = new, ![new] = before]]

\* __list_del_entry(e): e keeps its own pointers.
Unlinked_OneWay(r, e) ==
    [next |-> [r.next EXCEPT ![r.prev[e]] = r.next[e]], prev |-> r.prev]
Unlinked(r, e) ==
    [next |-> [r.next EXCEPT ![r.prev[e]] = r.next[e]],
     prev |-> [r.prev EXCEPT ![r.next[e]] = r.prev[e]]]

LinkedFirst(r, h, n) == Linked(r, n, h, r.next[h])
LinkedLast(r, h, n) == Linked(r, n, r.prev[h], h)

\* list_empty, list_is_last
Empty(h) == ring.next[h] = h
IsLast(h, e) == ring.next[e] = h

\* n is on no list.
Loose(n) == n \in Nodes \cap InUse /\ ring.next[n] = n
Listed(n) == n \in Nodes \cap InUse /\ ring.next[n] # n
HeadInUse(h) == h \in Heads \cap InUse

Init ==
    /\ ring = [next |-> [c \in Cells |-> c], prev |-> [c \in Cells |-> c]]
    /\ retired = {}

(*************************** Operations ************************************)
ListAdd(h, n) ==
    /\ HeadInUse(h) /\ Loose(n)
    /\ ring' = LinkedFirst(ring, h, n) /\ UNCHANGED retired

ListAddTail(h, n) ==
    /\ HeadInUse(h) /\ Loose(n)
    /\ ring' = LinkedLast(ring, h, n) /\ UNCHANGED retired

\* list_del leaves the entry a list of its own, ready to be added again.
ListDel_KeepsPointers(n) ==
    Listed(n) /\ ring' = Unlinked(ring, n) /\ UNCHANGED retired
ListDel(n) ==
    Listed(n) /\ ring' = Selfed(Unlinked(ring, n), n) /\ UNCHANGED retired

ListMove(h, n) ==
    /\ HeadInUse(h) /\ Listed(n)
    /\ ring' = LinkedFirst(Unlinked(ring, n), h, n) /\ UNCHANGED retired

ListMoveTail(h, n) ==
    /\ HeadInUse(h) /\ Listed(n)
    /\ ring' = LinkedLast(Unlinked(ring, n), h, n) /\ UNCHANGED retired

\* list_replace(new, old) reads old's two pointers one after the other, the
\* second after the first has been followed and written through.
Replaced(r, new, old) ==
    LET nextOf == [r.next EXCEPT ![new] = r.next[old]]
        prev1  == [r.prev EXCEPT ![nextOf[new]] = new]
        prev2  == [prev1 EXCEPT ![new] = prev1[old]]
    IN  [next |-> [nextOf EXCEPT ![prev2[new]] = new], prev |-> prev2]

\* Of an argument by its cast, or of one head by another; the callers never
\* replace an empty head, which would leave new pointing at old.
ListReplace(new, old) ==
    /\ \/ Loose(new) /\ Listed(old)
       \/ HeadInUse(new) /\ HeadInUse(old) /\ new # old /\ Empty(new) /\ ~Empty(old)
    /\ ring' = Replaced(ring, new, old)
    /\ retired' = retired \cup {old}

ListRotateLeft(h) ==
    /\ HeadInUse(h) /\ ~Empty(h)
    /\ LET n == ring.next[h] IN ring' = LinkedLast(Unlinked(ring, n), h, n)
    /\ UNCHANGED retired

ListRotateRight(h) ==
    /\ HeadInUse(h) /\ ~Empty(h)
    /\ LET n == ring.prev[h] IN ring' = LinkedFirst(Unlinked(ring, n), h, n)
    /\ UNCHANGED retired

\* The ring of h cut between last and first of the new order, and joined
\* where it was cut before.
Turned(r, h, newFirst, newLast) ==
    LET first == r.next[h]
        last  == r.prev[h]
    IN  [next |-> [r.next EXCEPT ![last] = first, ![newLast] = h, ![h] = newFirst],
         prev |-> [r.prev EXCEPT ![first] = last, ![newFirst] = h, ![h] = newLast]]

\* The entries of a list, walked from its head (at most every entry).
From[h \in Heads, c \in Cells, k \in Nat] ==
    IF c = h \/ k = 0 THEN <<>>
    ELSE <<c>> \o From[h, ring.next[c], k - 1]
Entries(h) == From[h, ring.next[h], Cardinality(Nodes)]
On(h, n) == \E i \in DOMAIN Entries(h) : Entries(h)[i] = n

\* list_new_first and list_new_last: the entry is one of h's.
ListNewFirst(h, n) ==
    /\ HeadInUse(h) /\ Listed(n) /\ On(h, n) /\ ring.next[h] # n
    /\ ring' = Turned(ring, h, n, ring.prev[n]) /\ UNCHANGED retired

ListNewLast(h, n) ==
    /\ HeadInUse(h) /\ Listed(n) /\ On(h, n) /\ ring.prev[h] # n
    /\ ring' = Turned(ring, h, ring.next[n], n) /\ UNCHANGED retired

\* list_take_first and list_take_last, the steps of list_foreach_take_entry.
ListTakeFirst(h) == HeadInUse(h) /\ ~Empty(h) /\ ListDel(ring.next[h])
ListTakeLast(h) == HeadInUse(h) /\ ~Empty(h) /\ ListDel(ring.prev[h])

Next ==
    \/ \E h \in Heads, n \in Nodes : ListAdd(h, n)
    \/ \E h \in Heads, n \in Nodes : ListAddTail(h, n)
    \/ \E n \in Nodes : ListDel(n)
    \/ \E h \in Heads, n \in Nodes : ListMove(h, n)
    \/ \E h \in Heads, n \in Nodes : ListMoveTail(h, n)
    \/ \E new, old \in Cells : ListReplace(new, old)
    \/ \E h \in Heads : ListRotateLeft(h)
    \/ \E h \in Heads : ListRotateRight(h)
    \/ \E h \in Heads, n \in Nodes : ListNewFirst(h, n)
    \/ \E h \in Heads, n \in Nodes : ListNewLast(h, n)
    \/ \E h \in Heads : ListTakeFirst(h)
    \/ \E h \in Heads : ListTakeLast(h)

Spec == Init /\ [][Next]_vars

(***************************************************************************)
(* Properties                                                              *)
(***************************************************************************)
TypeOK == ring \in Ring /\ retired \subseteq Cells

\* The two directions of every list agree, and no list leads to a replaced
\* node: walking forwards and backwards visits the same entries.
Inverse(r, set) ==
    \A c \in set : /\ r.next[c] \in set /\ r.prev[c] \in set
                   /\ r.next[r.prev[c]] = c /\ r.prev[r.next[c]] = c
WellLinked == Inverse(ring, InUse)

\* The functions of list.h implement sequences: every call has on every list
\* the effect its name promises, in the order the entries are walked.
Seqs == INSTANCE Lists WITH
            lists <- [h \in Heads |-> IF h \in retired THEN <<>> ELSE Entries(h)],
            retired <- retired
ImplementsLists == Seqs!Spec
=============================================================================
