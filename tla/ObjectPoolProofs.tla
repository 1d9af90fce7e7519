-------------------------- MODULE ObjectPoolProofs --------------------------
(***************************************************************************)
(* The object pool implements the allocator for every block size and       *)
(* number of blocks.  Its free lists have to be known exactly: the object  *)
(* handed out next is new because what is left of a block is a suffix of   *)
(* it, threaded in order and untouched by the holders of the rest.         *)
(***************************************************************************)
EXTENDS ObjectPool, SequenceTheorems, TLAPS

IInv == TypeOK /\ FreeListIntact /\ NoRoomWasted

\* The objects held are objects of the blocks there are.
LEMMA HeldType ==
    ASSUME TypeOK
    PROVE  held \in SUBSET Objects /\ Len(blocks) \in Nat /\ DOMAIN blocks = 1 .. Len(blocks)
<1>1. Len(blocks) \in Nat /\ DOMAIN blocks = 1 .. Len(blocks) /\ Len(blocks) <= MaxBlocks
  BY LenProperties DEF TypeOK
<1>2. DOMAIN blocks \subseteq 1 .. MaxBlocks
  BY <1>1, MaxBlocksAssumption
<1> QED  BY <1>1, <1>2 DEF TypeOK, Objects

LEMMA InitIInv == Init => IInv
<1> SUFFICES ASSUME Init PROVE IInv
  OBVIOUS
<1>1. /\ Len(blocks) = 0 /\ DOMAIN blocks = {} /\ blocks \in Seq([free: 0 .. PoolSize, empty: Pointer])
      /\ DOMAIN link = {}
  BY EmptySeq DEF Init
<1>2. link \in [(DOMAIN blocks) \X (1 .. PoolSize) -> Pointer]
  <2>1. (DOMAIN blocks) \X (1 .. PoolSize) = {}
    BY <1>1
  <2>2. link = [o \in {} |-> NoObject]
    BY <1>1 DEF Init
  <2> QED  BY <2>1, <2>2
<1>3. TypeOK
  <2>1. Len(blocks) <= MaxBlocks
    BY <1>1, MaxBlocksAssumption
  <2> QED  BY Zenon, <1>1, <1>2, <2>1 DEF Init, TypeOK
<1> QED  BY <1>1, <1>3 DEF Init, IInv, FreeListIntact, NoRoomWasted

\* Only the newest block can have room, so the walk stops there.
LEMMA RoomAtHead ==
    ASSUME IInv, WithRoom # {}
    PROVE  FirstWithRoom = Len(blocks) /\ Len(blocks) \in DOMAIN blocks
           /\ blocks[Len(blocks)].free # 0
<1>1. Len(blocks) \in Nat /\ DOMAIN blocks = 1 .. Len(blocks)
  BY LenProperties DEF IInv, TypeOK
<1>2. WithRoom = {Len(blocks)}
  BY <1>1 DEF IInv, NoRoomWasted, WithRoom
<1> QED  BY <1>1, <1>2 DEF FirstWithRoom, WithRoom

\* Taking the first free object of a block that is threaded like the code
\* threads it leaves the block so.
LEMMA PopKeeps ==
    ASSUME NEW free \in 1 .. PoolSize, NEW b \in Nat,
           NEW lnk, NEW empty, empty = Object(b, PoolSize - free + 1),
           lnk[empty] = Threaded(b)[empty]
    PROVE  /\ free - 1 \in 0 .. PoolSize /\ PoolSize - free + 1 \in 1 .. PoolSize
           /\ lnk[empty] = IF free - 1 = 0 THEN NoObject
                           ELSE Object(b, PoolSize - (free - 1) + 1)
<1>1. PoolSize - free + 1 \in 1 .. PoolSize /\ free - 1 \in 0 .. PoolSize
  BY PoolSizeAssumption
<1>2. empty \in {b} \X (1 .. PoolSize) /\ empty[2] = PoolSize - free + 1
  BY <1>1 DEF Object
<1>3. Threaded(b)[empty] = IF PoolSize - free + 1 < PoolSize
                           THEN Object(b, PoolSize - free + 1 + 1) ELSE NoObject
  BY <1>2 DEF Threaded
<1>4. (PoolSize - free + 1 < PoolSize) <=> (free - 1 # 0)
  BY PoolSizeAssumption
<1>5. PoolSize - free + 1 + 1 = PoolSize - (free - 1) + 1
  BY PoolSizeAssumption
<1> QED  BY <1>1, <1>3, <1>4, <1>5
\* What object_pool_get does once the block it takes from is the newest: the
\* blocks blks, of which the others are used up, and their free lists in lnk.
LEMMA PoppedKeeps ==
    ASSUME NEW blks \in Seq([free: 0 .. PoolSize, empty: Pointer]),
           NEW lnk \in [(DOMAIN blks) \X (1 .. PoolSize) -> Pointer],
           NEW H \in SUBSET Objects, NEW b \in DOMAIN blks,
           blks[b].free # 0,
           \A c \in DOMAIN blks :
              /\ blks[c].empty = IF blks[c].free = 0 THEN NoObject
                                 ELSE Object(c, PoolSize - blks[c].free + 1)
              /\ \A i \in 1 .. PoolSize :
                    /\ Object(c, i) \in H <=> ~(i > PoolSize - blks[c].free)
                    /\ i > PoolSize - blks[c].free => lnk[Object(c, i)] = Threaded(c)[Object(c, i)],
           blocks' = Popped(b, blks, lnk), held' = H \cup {blks[b].empty}, link' = lnk
    PROVE  /\ blocks' \in Seq([free: 0 .. PoolSize, empty: Pointer]) /\ DOMAIN blocks' = DOMAIN blks
           /\ Len(blocks') = Len(blks) /\ \A c \in DOMAIN blks : c # b => blocks'[c] = blks[c]
           /\ blks[b].empty \in {b} \X (1 .. PoolSize) /\ blks[b].empty \notin H
           /\ FreeListIntact'
<1> DEFINE free == blks[b].free
           o == blks[b].empty
           k == PoolSize - free + 1
<1>1. Len(blks) \in Nat /\ DOMAIN blks = 1 .. Len(blks) /\ b \in Nat
  BY LenProperties
<1>2. \A c \in DOMAIN blks : blks[c] \in [free: 0 .. PoolSize, empty: Pointer]
  BY <1>1, ElementOfSeq
<1>3. free \in 1 .. PoolSize
  BY <1>2, PoolSizeAssumption
<1>4. o = Object(b, k)
  OBVIOUS
<1>5. k \in 1 .. PoolSize /\ k > PoolSize - free
  BY <1>3, PoolSizeAssumption
<1>6. lnk[o] = Threaded(b)[o]
  BY <1>4, <1>5
<1>7. /\ free - 1 \in 0 .. PoolSize
      /\ lnk[o] = IF free - 1 = 0 THEN NoObject ELSE Object(b, PoolSize - (free - 1) + 1)
  BY <1>1, <1>3, <1>4, <1>6, PopKeeps
<1>8. o \in {b} \X (1 .. PoolSize) /\ o \notin H
  BY <1>4, <1>5 DEF Object
<1>9. lnk[o] \in Pointer
  BY <1>8
<1> DEFINE popped == [free |-> free - 1, empty |-> lnk[o]]
<1>10. popped \in [free: 0 .. PoolSize, empty: Pointer]
  BY <1>7, <1>9
<1>11. blocks' = [blks EXCEPT ![b] = popped]
  BY DEF Popped
<1> HIDE DEF popped
<1>12. /\ blocks' \in Seq([free: 0 .. PoolSize, empty: Pointer]) /\ Len(blocks') = Len(blks)
       /\ DOMAIN blocks' = DOMAIN blks
       /\ \A c \in DOMAIN blks : blocks'[c] = IF c = b THEN popped ELSE blks[c]
  BY <1>1, <1>10, <1>11, ExceptSeq, LenProperties
<1>13. popped.free = free - 1 /\ popped.empty = lnk[o]
  BY DEF popped
<1>14. FreeListIntact'
  <2> SUFFICES ASSUME NEW c \in DOMAIN blks
               PROVE  /\ blocks'[c].empty = IF blocks'[c].free = 0 THEN NoObject
                                             ELSE Object(c, PoolSize - blocks'[c].free + 1)
                      /\ \A i \in 1 .. PoolSize :
                            /\ Object(c, i) \in held' <=> ~(i > PoolSize - blocks'[c].free)
                            /\ i > PoolSize - blocks'[c].free
                                  => lnk[Object(c, i)] = Threaded(c)[Object(c, i)]
    BY <1>12 DEF FreeListIntact, OnFreeList
  <2>1. CASE c # b
    <3>1. blocks'[c] = blks[c]
      BY <1>12, <2>1
    <3>2. \A i : Object(c, i) \in held' <=> Object(c, i) \in H
      BY <1>4, <2>1 DEF Object
    <3> QED  BY <3>1, <3>2
  <2>2. CASE c = b
    <3>1. blocks'[c].free = free - 1 /\ blocks'[c].empty = lnk[o]
      BY <1>12, <1>13, <2>2
    <3>2. \A i \in 1 .. PoolSize : i > PoolSize - (free - 1) <=> i > PoolSize - free /\ i # k
      <4>1. \A p, f, i \in Int : i > p - (f - 1) <=> i > p - f /\ i # p - f + 1
        OBVIOUS
      <4>2. free \in Int /\ PoolSize \in Int
        BY <1>3, PoolSizeAssumption
      <4> HIDE DEF free
      <4> QED  BY <4>1, <4>2
    <3>3. \A i : Object(c, i) \in held' <=> Object(c, i) \in H \/ i = k
      BY <1>4, <2>2 DEF Object
    <3>4. \A i \in 1 .. PoolSize : Object(c, i) \in H <=> ~(i > PoolSize - free)
      BY <2>2
    <3>5. \A i \in 1 .. PoolSize : i > PoolSize - free
                                     => lnk[Object(c, i)] = Threaded(c)[Object(c, i)]
      BY <2>2
    <3> HIDE DEF free, k, o
    <3>6. \A i \in 1 .. PoolSize : Object(c, i) \in held' <=> ~(i > PoolSize - (free - 1))
      BY <1>5, <3>2, <3>3, <3>4
    <3> QED  BY <1>7, <2>2, <3>1, <3>2, <3>5, <3>6
  <2> QED  BY <2>1, <2>2
<1> QED  BY <1>8, <1>12, <1>14

LEMMA GetFromBlockStep ==
    ASSUME IInv, GetFromBlock
    PROVE  /\ IInv' /\ answered' = answered + 1
           /\ \E o \in Objects \ held : held' = held \cup {o}
<1> DEFINE b == Len(blocks)
<1>1. FirstWithRoom = b /\ b \in DOMAIN blocks /\ blocks[b].free # 0
  BY RoomAtHead DEF GetFromBlock
<1>2. /\ blocks \in Seq([free: 0 .. PoolSize, empty: Pointer]) /\ ~cleared
      /\ link \in [(DOMAIN blocks) \X (1 .. PoolSize) -> Pointer] /\ held \in SUBSET Objects
      /\ Len(blocks) <= MaxBlocks /\ Len(blocks) \in Nat /\ DOMAIN blocks = 1 .. Len(blocks)
      /\ held \subseteq (DOMAIN blocks) \X (1 .. PoolSize)
  BY HeldType DEF GetFromBlock, IInv, TypeOK
<1>3. \A c \in DOMAIN blocks :
         /\ blocks[c].empty = IF blocks[c].free = 0 THEN NoObject
                              ELSE Object(c, PoolSize - blocks[c].free + 1)
         /\ \A i \in 1 .. PoolSize :
               /\ Object(c, i) \in held <=> ~(i > PoolSize - blocks[c].free)
               /\ i > PoolSize - blocks[c].free
                     => link[Object(c, i)] = Threaded(c)[Object(c, i)]
  BY <1>2 DEF IInv, FreeListIntact, OnFreeList
<1>4. /\ blocks' = Popped(b, blocks, link) /\ held' = held \cup {blocks[b].empty}
      /\ link' = link /\ answered' = answered + 1 /\ cleared' = cleared
  BY <1>1 DEF GetFromBlock
<1> HIDE DEF b
<1>5. /\ blocks' \in Seq([free: 0 .. PoolSize, empty: Pointer]) /\ DOMAIN blocks' = DOMAIN blocks
      /\ Len(blocks') = Len(blocks) /\ \A c \in DOMAIN blocks : c # b => blocks'[c] = blocks[c]
      /\ blocks[b].empty \in {b} \X (1 .. PoolSize) /\ blocks[b].empty \notin held
      /\ FreeListIntact'
  BY <1>1, <1>2, <1>3, <1>4, PoppedKeeps
<1>6. blocks[b].empty \in Objects
  BY <1>1, <1>2, <1>5, MaxBlocksAssumption DEF Objects
<1>7. TypeOK'
  <2>1. held' \subseteq (DOMAIN blocks') \X (1 .. PoolSize)
    BY <1>1, <1>2, <1>4, <1>5
  <2>2. link' \in [(DOMAIN blocks') \X (1 .. PoolSize) -> Pointer] /\ Len(blocks') <= MaxBlocks
    BY <1>2, <1>4, <1>5
  <2>3. answered' \in Nat /\ cleared' \in BOOLEAN
    BY <1>4 DEF IInv, TypeOK
  <2> QED  BY Zenon, <1>5, <2>1, <2>2, <2>3 DEF TypeOK
<1>8. NoRoomWasted'
  BY <1>1, <1>2, <1>5 DEF IInv, NoRoomWasted, b
<1> QED  BY <1>4, <1>5, <1>6, <1>7, <1>8 DEF IInv

LEMMA GetFromNewBlockStep ==
    ASSUME IInv, GetFromNewBlock
    PROVE  /\ IInv' /\ answered' = answered + 1
           /\ \E o \in Objects \ held : held' = held \cup {o}
<1> DEFINE b == Len(blocks) + 1
           new == [free |-> PoolSize, empty |-> Object(b, 1)]
           blks == Append(blocks, new)
           lnk == [o \in DOMAIN link \cup DOMAIN Threaded(b) |->
                           IF o \in DOMAIN link THEN link[o] ELSE Threaded(b)[o]]
<1>1. /\ blocks \in Seq([free: 0 .. PoolSize, empty: Pointer]) /\ ~cleared
      /\ link \in [(DOMAIN blocks) \X (1 .. PoolSize) -> Pointer] /\ held \in SUBSET Objects
      /\ b <= MaxBlocks /\ Len(blocks) \in Nat /\ DOMAIN blocks = 1 .. Len(blocks) /\ b \in Nat
      /\ held \subseteq (DOMAIN blocks) \X (1 .. PoolSize)
  BY HeldType, MaxBlocksAssumption DEF GetFromNewBlock, IInv, TypeOK
<1>2. \A c \in DOMAIN blocks : blocks[c].free = 0
  BY DEF GetFromNewBlock, WithRoom
<1>3. new \in [free: 0 .. PoolSize, empty: Pointer] /\ Object(b, 1) \in Objects
  BY <1>1, PoolSizeAssumption, MaxBlocksAssumption DEF Object, Pointer, Objects
<1>4. new.free = PoolSize /\ new.empty = Object(b, 1)
  OBVIOUS
<1>5. /\ blocks' = Popped(b, blks, lnk) /\ held' = held \cup {Object(b, 1)} /\ link' = lnk
      /\ answered' = answered + 1 /\ cleared' = cleared
  BY DEF GetFromNewBlock
<1> HIDE DEF new
<1>6. /\ blks \in Seq([free: 0 .. PoolSize, empty: Pointer]) /\ Len(blks) = b
      /\ DOMAIN blks = 1 .. b /\ blks[b] = new /\ \A c \in DOMAIN blocks : blks[c] = blocks[c]
  BY <1>1, <1>3, AppendProperties, LenProperties
<1>7. DOMAIN Threaded(b) = {b} \X (1 .. PoolSize)
      /\ \A i \in 1 .. PoolSize : Threaded(b)[Object(b, i)] \in Pointer
  BY <1>1, PoolSizeAssumption, MaxBlocksAssumption DEF Threaded, Object, Pointer, Objects
<1>8. DOMAIN lnk = (DOMAIN blks) \X (1 .. PoolSize)
  BY <1>1, <1>6, <1>7
<1>9. /\ \A c \in DOMAIN blocks, i \in 1 .. PoolSize : lnk[Object(c, i)] = link[Object(c, i)]
      /\ \A i \in 1 .. PoolSize : lnk[Object(b, i)] = Threaded(b)[Object(b, i)]
  BY <1>1, <1>7 DEF Object
<1>10. lnk \in [(DOMAIN blks) \X (1 .. PoolSize) -> Pointer]
  <2>1. \A c \in DOMAIN blks, i \in 1 .. PoolSize : lnk[<<c, i>>] \in Pointer
    <3> SUFFICES ASSUME NEW c \in DOMAIN blks, NEW i \in 1 .. PoolSize
                 PROVE  lnk[<<c, i>>] \in Pointer
      OBVIOUS
    <3>1. CASE c = b
      BY <1>7, <1>9, <3>1 DEF Object
    <3>2. CASE c # b
      BY <1>1, <1>6, <1>9, <3>2 DEF Object
    <3> QED  BY <3>1, <3>2
  <2>2. lnk = [o \in DOMAIN lnk |-> lnk[o]]
    OBVIOUS
  <2> HIDE DEF lnk, blks
  <2>3. \A o \in (DOMAIN blks) \X (1 .. PoolSize) : lnk[o] \in Pointer
    <3> SUFFICES ASSUME NEW o \in (DOMAIN blks) \X (1 .. PoolSize) PROVE lnk[o] \in Pointer
      OBVIOUS
    <3>1. o = <<o[1], o[2]>> /\ o[1] \in DOMAIN blks /\ o[2] \in 1 .. PoolSize
      OBVIOUS
    <3>2. lnk[<<o[1], o[2]>>] \in Pointer
      BY <2>1, <3>1
    <3> QED  BY Zenon, <3>1, <3>2
  <2> QED  BY <1>8, <2>2, <2>3
<1> HIDE DEF blks, lnk
<1>11. \A c \in DOMAIN blks :
         /\ blks[c].empty = IF blks[c].free = 0 THEN NoObject
                            ELSE Object(c, PoolSize - blks[c].free + 1)
         /\ \A i \in 1 .. PoolSize :
               /\ Object(c, i) \in held <=> ~(i > PoolSize - blks[c].free)
               /\ i > PoolSize - blks[c].free => lnk[Object(c, i)] = Threaded(c)[Object(c, i)]
  <2> SUFFICES ASSUME NEW c \in DOMAIN blks
        PROVE  /\ blks[c].empty = IF blks[c].free = 0 THEN NoObject
                                  ELSE Object(c, PoolSize - blks[c].free + 1)
               /\ \A i \in 1 .. PoolSize :
                     /\ Object(c, i) \in held <=> ~(i > PoolSize - blks[c].free)
                     /\ i > PoolSize - blks[c].free
                           => lnk[Object(c, i)] = Threaded(c)[Object(c, i)]
    OBVIOUS
  <2>1. CASE c = b
    <3>1. blks[c].free = PoolSize /\ blks[c].empty = Object(b, 1)
      BY <1>4, <1>6, <2>1
    <3>2. \A i \in 1 .. PoolSize : Object(c, i) \notin held
      <4> SUFFICES ASSUME NEW i \in 1 .. PoolSize, Object(c, i) \in held PROVE FALSE
        OBVIOUS
      <4> QED  BY <1>1, <2>1 DEF Object, IInv, TypeOK
    <3>3. PoolSize - PoolSize = 0 /\ PoolSize # 0 /\ \A i \in 1 .. PoolSize : i > 0
      BY PoolSizeAssumption
    <3> QED  BY <1>9, <2>1, <3>1, <3>2, <3>3
  <2>2. CASE c # b
    <3>1. c \in DOMAIN blocks /\ blks[c] = blocks[c]
      BY <1>1, <1>6, <2>2
    <3> QED  BY <1>1, <1>9, <3>1 DEF IInv, FreeListIntact, OnFreeList
  <2> QED  BY <2>1, <2>2
<1>12. blks[b].free # 0 /\ b \in DOMAIN blks /\ blks[b].empty = Object(b, 1)
  BY <1>1, <1>4, <1>6, PoolSizeAssumption
<1>13. /\ blocks' \in Seq([free: 0 .. PoolSize, empty: Pointer]) /\ DOMAIN blocks' = DOMAIN blks
       /\ Len(blocks') = Len(blks) /\ \A c \in DOMAIN blks : c # b => blocks'[c] = blks[c]
       /\ blks[b].empty \in {b} \X (1 .. PoolSize) /\ blks[b].empty \notin held
       /\ FreeListIntact'
  BY <1>1, <1>5, <1>6, <1>10, <1>11, <1>12, PoppedKeeps
<1>14. TypeOK'
  <2>1. held' \subseteq (DOMAIN blocks') \X (1 .. PoolSize)
    BY <1>1, <1>5, <1>6, <1>12, <1>13
  <2>2. link' \in [(DOMAIN blocks') \X (1 .. PoolSize) -> Pointer] /\ Len(blocks') <= MaxBlocks
    BY <1>1, <1>5, <1>6, <1>10, <1>13
  <2>3. answered' \in Nat /\ cleared' \in BOOLEAN
    BY <1>5 DEF IInv, TypeOK
  <2> QED  BY Zenon, <1>13, <2>1, <2>2, <2>3 DEF TypeOK
<1>15. NoRoomWasted'
  <2> SUFFICES ASSUME NEW c \in DOMAIN blocks', c < Len(blocks') PROVE blocks'[c].free = 0
    BY DEF NoRoomWasted
  <2>1. c \in DOMAIN blocks /\ c # b
    BY <1>1, <1>6, <1>13
  <2>2. blocks'[c] = blocks[c]
    BY <1>6, <1>13, <2>1
  <2> QED  BY <1>2, <2>1, <2>2
<1> QED  BY <1>3, <1>5, <1>12, <1>13, <1>14, <1>15 DEF IInv

LEMMA WriteStep ==
    ASSUME IInv, NEW o \in held, NEW word \in Pointer, Write(o, word) PROVE IInv'
<1>1. /\ held \subseteq (DOMAIN blocks) \X (1 .. PoolSize)
      /\ UNCHANGED <<blocks, held, answered, cleared>> /\ link' = [link EXCEPT ![o] = word]
  BY DEF Write, IInv, TypeOK
<1>2. TypeOK'
  BY <1>1 DEF IInv, TypeOK
<1>3. FreeListIntact'
  <2> SUFFICES ASSUME ~cleared, NEW b \in DOMAIN blocks, NEW i \in 1 .. PoolSize, OnFreeList(b, i)
               PROVE  link'[Object(b, i)] = Threaded(b)[Object(b, i)]
    BY <1>1 DEF IInv, FreeListIntact, OnFreeList
  <2>1. Object(b, i) # o /\ Object(b, i) \in (DOMAIN blocks) \X (1 .. PoolSize)
    BY DEF IInv, FreeListIntact, Object
  <2>2. link'[Object(b, i)] = link[Object(b, i)]
    BY <1>1, <2>1 DEF IInv, TypeOK
  <2> QED  BY <2>2 DEF IInv, FreeListIntact
<1>4. NoRoomWasted'
  BY <1>1 DEF IInv, NoRoomWasted
<1> QED  BY <1>2, <1>3, <1>4 DEF IInv

LEMMA ClearStep ==
    ASSUME IInv, Clear PROVE IInv'
  BY DEF Clear, IInv, TypeOK, FreeListIntact, NoRoomWasted

LEMMA NextIInv == IInv /\ [Next]_vars => IInv'
<1> SUFFICES ASSUME IInv, [Next]_vars PROVE IInv'
  OBVIOUS
<1>1. CASE UNCHANGED vars
  BY <1>1 DEF vars, IInv, TypeOK, FreeListIntact, NoRoomWasted, OnFreeList
<1> QED  BY <1>1, GetFromBlockStep, GetFromNewBlockStep, WriteStep, ClearStep DEF Next

THEOREM Invariance == Spec => []IInv
  BY InitIInv, NextIInv, PTL DEF Spec

\* No free list of a type pool ever runs into memory a caller may have written
\* to: object_pool_get threads each block once and only ever pops it.
THEOREM FreeListsStayIntact == Spec => []FreeListIntact
<1>1. IInv => FreeListIntact
  BY DEF IInv
<1> QED  BY <1>1, Invariance, PTL

\* A block is only ever added when no older block has an object left: the walk
\* of object_pool_get over the chain misses none.
THEOREM NoRoomIsWasted == Spec => []NoRoomWasted
<1>1. IInv => NoRoomWasted
  BY DEF IInv
<1> QED  BY <1>1, Invariance, PTL

\* object_pool_get implements the allocator: every object it returns is one
\* that nobody holds, for every block size and number of blocks.
THEOREM PoolImplementsAllocator == Spec => ImplementsAllocator
<1>1. Init => Alloc!Init
  BY DEF Init, Alloc!Init
<1>2. IInv /\ [Next]_vars => [Alloc!Next]_<<held, answered, cleared>>
  <2> SUFFICES ASSUME IInv, [Next]_vars PROVE [Alloc!Next]_<<held, answered, cleared>>
    OBVIOUS
  <2>1. CASE GetFromBlock
    BY <2>1, GetFromBlockStep DEF GetFromBlock, Alloc!Next, Alloc!Get
  <2>2. CASE GetFromNewBlock
    BY <2>2, GetFromNewBlockStep DEF GetFromNewBlock, Alloc!Next, Alloc!Get
  <2>3. CASE \E o \in held, word \in Pointer : Write(o, word)
    BY <2>3 DEF Write
  <2>4. CASE Clear
    BY <2>4 DEF Clear, Alloc!Next, Alloc!Clear
  <2>5. CASE UNCHANGED vars
    BY <2>5 DEF vars
  <2> QED  BY <2>1, <2>2, <2>3, <2>4, <2>5 DEF Next
<1> QED  BY <1>1, <1>2, Invariance, PTL DEF Spec, ImplementsAllocator, Alloc!Spec

=============================================================================
