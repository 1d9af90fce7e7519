------------------------------- MODULE Lists -------------------------------
(***************************************************************************)
(* What the lists of include/list.h promise: each head holds a sequence of *)
(* entries, and an entry is on at most one list.                           *)
(***************************************************************************)
EXTENDS Naturals, SequencesExt

CONSTANTS Heads, Nodes   \* list_head_t objects and list_node_t objects

VARIABLES
    lists,     \* the entries of each list, first to last
    retired    \* heads and entries another one has replaced

vars == <<lists, retired>>

On(h, n) == n \in ToSet(lists[h])
Listed == {n \in Nodes : \E h \in Heads : On(h, n)}
Loose == Nodes \ (Listed \cup retired)
Usable == Heads \ retired

Init == lists = [h \in Heads |-> <<>>] /\ retired = {}

\* The lists once n is on none of them.
Without(n) == [h \in Heads |-> Remove(lists[h], n)]

AddFirst(h, n) ==
    n \in Loose /\ lists' = [lists EXCEPT ![h] = <<n>> \o @] /\ UNCHANGED retired
AddLast(h, n) ==
    n \in Loose /\ lists' = [lists EXCEPT ![h] = Append(@, n)] /\ UNCHANGED retired
Delete(n) == n \in Listed /\ lists' = Without(n) /\ UNCHANGED retired
MoveFirst(h, n) ==
    n \in Listed /\ lists' = [Without(n) EXCEPT ![h] = <<n>> \o @] /\ UNCHANGED retired
MoveLast(h, n) ==
    n \in Listed /\ lists' = [Without(n) EXCEPT ![h] = Append(@, n)] /\ UNCHANGED retired

\* The entries of h turned so that entry i comes first.
Rotate(h, i) ==
    /\ i \in DOMAIN lists[h]
    /\ lists' = [lists EXCEPT ![h] = SubSeq(@, i, Len(@)) \o SubSeq(@, 1, i - 1)]
    /\ UNCHANGED retired

\* new takes the place of old, which is not to be used again.
ReplaceEntry(new, old) ==
    /\ new \in Loose /\ old \in Listed
    /\ lists' = [h \in Heads |-> [i \in DOMAIN lists[h] |->
                                     IF lists[h][i] = old THEN new ELSE lists[h][i]]]
    /\ retired' = retired \cup {old}
ReplaceHead(new, old) ==
    /\ {new, old} \subseteq Usable /\ new # old /\ lists[new] = <<>> /\ lists[old] # <<>>
    /\ lists' = [lists EXCEPT ![new] = lists[old], ![old] = <<>>]
    /\ retired' = retired \cup {old}

Next ==
    \/ \E h \in Usable, n \in Nodes : AddFirst(h, n) \/ AddLast(h, n)
                                      \/ MoveFirst(h, n) \/ MoveLast(h, n)
    \/ \E n \in Nodes : Delete(n)
    \/ \E h \in Usable : \E i \in DOMAIN lists[h] : Rotate(h, i)
    \/ \E new, old \in Nodes : ReplaceEntry(new, old)
    \/ \E new, old \in Heads : ReplaceHead(new, old)

Spec == Init /\ [][Next]_vars
=============================================================================
