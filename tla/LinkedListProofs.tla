-------------------------- MODULE LinkedListProofs --------------------------
(***************************************************************************)
(* The two directions of every list agree whatever the lists and entries,  *)
(* and however many: the surgery of list.h preserves WellLinked.           *)
(***************************************************************************)
EXTENDS LinkedList, TLAPS

\* WellLinked with the typing its proof reads.
IInv == TypeOK /\ WellLinked

LEMMA InitIInv == Init => IInv
  BY DEF Init, IInv, TypeOK, Ring, WellLinked, Inverse, InUse, Cells

(***************************************************************************)
(* The pieces of surgery, on any ring and set of cells.                    *)
(***************************************************************************)
\* Linking a cell that is a ring of its own between two neighbours.
LEMMA LinkedKeeps ==
    ASSUME NEW r \in Ring, NEW S \in SUBSET Cells, NEW e \in S, NEW p \in S \ {e},
           Inverse(r, S \ {e})
    PROVE  LET q == Linked(r, e, p, r.next[p]) IN q \in Ring /\ Inverse(q, S)
  BY DEF Inverse, Linked, Ring

\* Unlinking a cell leaves the others well linked.
LEMMA UnlinkedKeeps ==
    ASSUME NEW r \in Ring, NEW S \in SUBSET Cells, NEW e \in S, Inverse(r, S)
    PROVE  Unlinked(r, e) \in Ring /\ Inverse(Unlinked(r, e), S \ {e})
  BY DEF Inverse, Unlinked, Ring

LEMMA SelfedKeeps ==
    ASSUME NEW r \in Ring, NEW S \in SUBSET Cells, NEW e \in S, Inverse(r, S \ {e})
    PROVE  Selfed(r, e) \in Ring /\ Inverse(Selfed(r, e), S)
  BY DEF Inverse, Selfed, Ring

LEMMA TurnedKeeps ==
    ASSUME NEW r \in Ring, NEW S \in SUBSET Cells, NEW h \in S, NEW n \in S,
           Inverse(r, S), n # h, r.prev[n] # h
    PROVE  LET q == Turned(r, h, n, r.prev[n]) IN q \in Ring /\ Inverse(q, S)
  BY DEF Inverse, Turned, Ring

LEMMA ReplacedKeeps ==
    ASSUME NEW r \in Ring, NEW S \in SUBSET Cells, NEW new \in S, NEW old \in S,
           Inverse(r, S), r.next[new] = new, r.next[old] # old
    PROVE  Replaced(r, new, old) \in Ring /\ Inverse(Replaced(r, new, old), S \ {old})
  BY DEF Inverse, Replaced, Ring
\* A cell that is a ring of its own is no other cell's neighbour.
LEMMA LooseApart ==
    ASSUME NEW r \in Ring, NEW S \in SUBSET Cells, NEW e \in S, Inverse(r, S), r.next[e] = e
    PROVE  Inverse(r, S \ {e})
  BY DEF Inverse, Ring

LEMMA LinkedFirstKeeps ==
    ASSUME NEW r \in Ring, NEW S \in SUBSET Cells, NEW e \in S, NEW h \in S \ {e},
           Inverse(r, S \ {e})
    PROVE  LinkedFirst(r, h, e) \in Ring /\ Inverse(LinkedFirst(r, h, e), S)
  BY LinkedKeeps DEF LinkedFirst

LEMMA LinkedLastKeeps ==
    ASSUME NEW r \in Ring, NEW S \in SUBSET Cells, NEW e \in S, NEW h \in S \ {e},
           Inverse(r, S \ {e})
    PROVE  LinkedLast(r, h, e) \in Ring /\ Inverse(LinkedLast(r, h, e), S)
<1>1. r.prev[h] \in S \ {e} /\ r.next[r.prev[h]] = h
  BY DEF Inverse
<1> QED  BY <1>1, LinkedKeeps DEF LinkedLast

(***************************************************************************)
(* One step per function.                                                  *)
(***************************************************************************)
LEMMA NextIInv == IInv /\ [Next]_vars => IInv'
<1> SUFFICES ASSUME IInv, [Next]_vars PROVE IInv'
  OBVIOUS
<1>1. /\ ring \in Ring /\ retired \subseteq Cells /\ InUse \in SUBSET Cells
      /\ Inverse(ring, InUse)
  BY DEF IInv, TypeOK, WellLinked, InUse
\* Most functions retire nothing: a well linked ring is all there is to show.
<1>2. ASSUME ring' \in Ring, UNCHANGED retired, Inverse(ring', InUse) PROVE IInv'
  BY <1>1, <1>2 DEF IInv, TypeOK, WellLinked, InUse
<1>3. \A h \in Heads : HeadInUse(h) => h \in InUse
  BY DEF HeadInUse
<1>4. \A n : Loose(n) => n \in InUse /\ ring.next[n] = n /\ n \notin Heads
  BY HeadsAssumption DEF Loose
<1>5. \A n : Listed(n) => n \in InUse /\ n \notin Heads
  BY HeadsAssumption DEF Listed
<1>6. ASSUME NEW h \in Heads, NEW n \in Nodes, ListAdd(h, n) PROVE IInv'
  <2>1. n \in InUse /\ h \in InUse \ {n} /\ Inverse(ring, InUse \ {n})
    BY <1>1, <1>3, <1>4, <1>6, LooseApart DEF ListAdd
  <2> QED  BY <1>1, <1>2, <1>6, <2>1, LinkedFirstKeeps DEF ListAdd
<1>7. ASSUME NEW h \in Heads, NEW n \in Nodes, ListAddTail(h, n) PROVE IInv'
  <2>1. n \in InUse /\ h \in InUse \ {n} /\ Inverse(ring, InUse \ {n})
    BY <1>1, <1>3, <1>4, <1>7, LooseApart DEF ListAddTail
  <2> QED  BY <1>1, <1>2, <1>7, <2>1, LinkedLastKeeps DEF ListAddTail
<1>8. ASSUME NEW n, ListDel(n) PROVE IInv'
  <2>1. n \in InUse
    BY <1>5, <1>8 DEF ListDel
  <2>2. Unlinked(ring, n) \in Ring /\ Inverse(Unlinked(ring, n), InUse \ {n})
    BY <1>1, <2>1, UnlinkedKeeps
  <2> QED  BY <1>1, <1>2, <1>8, <2>1, <2>2, SelfedKeeps DEF ListDel
\* The entry a move takes off one place it links in at another.
<1>9. ASSUME NEW h \in Heads, HeadInUse(h), NEW n \in InUse, n # h
      PROVE  /\ Unlinked(ring, n) \in Ring
             /\ h \in InUse \ {n} /\ Inverse(Unlinked(ring, n), InUse \ {n})
  BY <1>1, <1>3, <1>9, UnlinkedKeeps
<1>10. ASSUME NEW h \in Heads, HeadInUse(h), NEW n \in InUse, n # h, UNCHANGED retired,
              \/ ring' = LinkedFirst(Unlinked(ring, n), h, n)
              \/ ring' = LinkedLast(Unlinked(ring, n), h, n)
       PROVE  IInv'
  <2>1. CASE ring' = LinkedFirst(Unlinked(ring, n), h, n)
    BY <1>1, <1>2, <1>9, <1>10, <2>1, LinkedFirstKeeps
  <2>2. CASE ring' = LinkedLast(Unlinked(ring, n), h, n)
    BY <1>1, <1>2, <1>9, <1>10, <2>2, LinkedLastKeeps
  <2> QED  BY <1>10, <2>1, <2>2
<1>11. ASSUME NEW h \in Heads, NEW n \in Nodes, ListMove(h, n) PROVE IInv'
  BY <1>5, <1>10, <1>11 DEF ListMove
<1>12. ASSUME NEW h \in Heads, NEW n \in Nodes, ListMoveTail(h, n) PROVE IInv'
  BY <1>5, <1>10, <1>12 DEF ListMoveTail
<1>13. ASSUME NEW new \in Cells, NEW old \in Cells, ListReplace(new, old) PROVE IInv'
  <2>1. new \in InUse /\ old \in InUse /\ ring.next[new] = new /\ ring.next[old] # old
    BY <1>3, <1>4, <1>5, <1>13 DEF ListReplace, HeadInUse, Listed, Empty
  <2>2. ring' \in Ring /\ Inverse(ring', InUse \ {old})
    BY <1>1, <1>13, <2>1, ReplacedKeeps DEF ListReplace
  <2>3. InUse' = InUse \ {old} /\ retired' \subseteq Cells
    BY <1>1, <1>13 DEF ListReplace, InUse
  <2> QED  BY <2>2, <2>3 DEF IInv, TypeOK, WellLinked
\* A rotation moves the entry at one end to the other.
<1>14. ASSUME NEW h \in Heads, HeadInUse(h), ~Empty(h)
       PROVE  /\ ring.next[h] \in InUse /\ ring.next[h] # h
              /\ ring.prev[h] \in InUse /\ ring.prev[h] # h
  BY <1>1, <1>3, <1>14 DEF Inverse, Empty
<1>15. ASSUME NEW h \in Heads, ListRotateLeft(h) PROVE IInv'
  BY <1>10, <1>14, <1>15 DEF ListRotateLeft
<1>16. ASSUME NEW h \in Heads, ListRotateRight(h) PROVE IInv'
  BY <1>10, <1>14, <1>16 DEF ListRotateRight
<1>17. ASSUME NEW h \in Heads, NEW n \in Nodes, ListNewFirst(h, n) PROVE IInv'
  <2>1. h \in InUse /\ n \in InUse /\ n # h
    BY <1>3, <1>5, <1>17 DEF ListNewFirst
  <2>2. ring.prev[n] # h
    BY <1>1, <1>17, <2>1 DEF ListNewFirst, Inverse
  <2> QED  BY <1>1, <1>2, <1>17, <2>1, <2>2, TurnedKeeps DEF ListNewFirst
<1>18. ASSUME NEW h \in Heads, NEW n \in Nodes, ListNewLast(h, n) PROVE IInv'
  <2>1. h \in InUse /\ n \in InUse /\ n # h
    BY <1>3, <1>5, <1>18 DEF ListNewLast
  <2> DEFINE m == ring.next[n]
  <2>2. m \in InUse /\ ring.prev[m] = n /\ m # h
    BY <1>1, <1>18, <2>1 DEF ListNewLast, Inverse
  <2>3. ring' = Turned(ring, h, m, ring.prev[m])
    BY <1>18, <2>2 DEF ListNewLast
  <2> HIDE DEF m
  <2>4. ring' \in Ring /\ Inverse(ring', InUse)
    BY <1>1, <2>1, <2>2, <2>3, TurnedKeeps
  <2> QED  BY <1>2, <1>18, <2>4 DEF ListNewLast
<1>19. ASSUME NEW h \in Heads, ListTakeFirst(h) \/ ListTakeLast(h) PROVE IInv'
  BY <1>8, <1>19 DEF ListTakeFirst, ListTakeLast
<1>20. CASE UNCHANGED vars
  BY <1>20 DEF vars, IInv, TypeOK, WellLinked, InUse
<1> QED  BY <1>6, <1>7, <1>8, <1>11, <1>12, <1>13, <1>15, <1>16, <1>17, <1>18, <1>19, <1>20 DEF Next

\* In every list built with list.h, however long, next and prev are inverse and
\* lead to no replaced node: a list reads the same forwards and backwards.
THEOREM AlwaysWellLinked == Spec => []WellLinked
<1>1. IInv => WellLinked
  BY DEF IInv
<1> QED  BY <1>1, InitIInv, NextIInv, PTL DEF Spec
=============================================================================
