---------------------------- MODULE ObjectPool ----------------------------
(***************************************************************************)
(* src/ast/object_pool.c, from which the types of an AST are allocated.    *)
(* The pool is a chain of blocks, the newest first, of PoolSize objects    *)
(* each.  The free objects of a block form a list threaded through their   *)
(* own memory, so whoever holds an object may overwrite the link that was  *)
(* in it.  Nothing is ever put back: the header describes `put', the code  *)
(* has none.                                                               *)
(***************************************************************************)
EXTENDS Naturals, Sequences, FiniteSets

CONSTANTS PoolSize,     \* pool_size: the objects of a block
          MaxBlocks     \* bound on the blocks malloc gives

ASSUME PoolSizeAssumption == PoolSize \in Nat \ {0}
ASSUME MaxBlocksAssumption == MaxBlocks \in Nat

VARIABLES
    blocks,     \* object_block: [free, empty], in the order they were malloced
    link,       \* the first word of every object's memory
    held,       \* objects the callers have
    answered,   \* calls of object_pool_get that have returned
    cleared     \* object_pool_clear has run

vars == <<blocks, link, held, answered, cleared>>

\* The i-th object of the b-th block, and the pointer to none.
Object(b, i) == <<b, i>>
NoObject == <<0, 0>>
Objects == (1 .. MaxBlocks) \X (1 .. PoolSize)
Pointer == Objects \cup {NoObject}

Init == blocks = <<>> /\ link = <<>> /\ held = {} /\ answered = 0 /\ cleared = FALSE

\* The blocks the walk over the chain may stop at; it meets the newest first.
WithRoom_OneLeft == {b \in DOMAIN blocks : blocks[b].free > 1}
WithRoom == {b \in DOMAIN blocks : blocks[b].free # 0}
FirstWithRoom == CHOOSE b \in WithRoom : \A c \in WithRoom : c <= b

\* A new block: its free list runs through all its objects, in order.
Threaded_Reversed(b) ==
    [o \in {b} \X (1 .. PoolSize) |-> IF o[2] > 1 THEN Object(b, o[2] - 1) ELSE NoObject]
Threaded(b) ==
    [o \in {b} \X (1 .. PoolSize) |->
        IF o[2] < PoolSize THEN Object(b, o[2] + 1) ELSE NoObject]

\* The head of the block's free list leaves it.
Popped_KeepsHead(b, blks, lnk) == [blks EXCEPT ![b].free = @ - 1]
Popped(b, blks, lnk) ==
    [blks EXCEPT ![b] = [free |-> @.free - 1, empty |-> lnk[@.empty]]]

\* object_pool_get, from a block that has room.
GetFromBlock ==
    /\ ~cleared /\ WithRoom # {}
    /\ held' = held \cup {blocks[FirstWithRoom].empty} /\ answered' = answered + 1
    /\ blocks' = Popped(FirstWithRoom, blocks, link)
    /\ UNCHANGED <<link, cleared>>

\* object_pool_get when every block is used up.
GetFromNewBlock ==
    /\ ~cleared /\ WithRoom = {} /\ Len(blocks) < MaxBlocks
    /\ LET b == Len(blocks) + 1
           new == Append(blocks, [free |-> PoolSize, empty |-> Object(b, 1)])
           threaded == [o \in DOMAIN link \cup DOMAIN Threaded(b) |->
                           IF o \in DOMAIN link THEN link[o] ELSE Threaded(b)[o]]
       IN  /\ link' = threaded
           /\ held' = held \cup {Object(b, 1)} /\ answered' = answered + 1
           /\ blocks' = Popped(b, new, threaded)
    /\ UNCHANGED cleared

\* The caller's writes reach the word its object's link was in.
Write(o, word) ==
    /\ o \in held
    /\ link' = [link EXCEPT ![o] = word]
    /\ UNCHANGED <<blocks, held, answered, cleared>>

\* object_pool_clear frees every block and leaves pool->head as it was;
\* bcc_ast_clear is the last to use the pool.
Clear ==
    /\ ~cleared
    /\ link' = <<>> /\ held' = {} /\ cleared' = TRUE
    /\ UNCHANGED <<blocks, answered>>

Next ==
    \/ GetFromBlock
    \/ GetFromNewBlock
    \/ \E o \in held, word \in Pointer : Write(o, word)
    \/ Clear

Spec == Init /\ [][Next]_vars

(***************************************************************************)
(* Properties                                                              *)
(***************************************************************************)
TypeOK ==
    /\ Len(blocks) <= MaxBlocks
    /\ blocks \in Seq([free: 0 .. PoolSize, empty: Pointer])
    /\ held \subseteq (DOMAIN blocks) \X (1 .. PoolSize)
    /\ ~cleared => link \in [(DOMAIN blocks) \X (1 .. PoolSize) -> Pointer]
    /\ answered \in Nat /\ cleared \in BOOLEAN

\* The free list of a block never runs into an object a caller holds and may
\* have written to: the count and the list agree, and the list is what is left.
OnFreeList(b, i) == i > PoolSize - blocks[b].free
FreeListIntact ==
    ~cleared =>
        \A b \in DOMAIN blocks :
            /\ blocks[b].empty = IF blocks[b].free = 0 THEN NoObject
                                 ELSE Object(b, PoolSize - blocks[b].free + 1)
            /\ \A i \in 1 .. PoolSize :
                  /\ Object(b, i) \in held <=> ~OnFreeList(b, i)
                  /\ OnFreeList(b, i) => link[Object(b, i)] = Threaded(b)[Object(b, i)]

\* A block is malloced only when no object is left: at most one has room.
NoRoomWasted == \A b \in DOMAIN blocks : b < Len(blocks) => blocks[b].free = 0

\* Every call is answered with an object nobody holds, whatever the holders of
\* the others have written to theirs.
Alloc == INSTANCE Allocator
ImplementsAllocator == Alloc!Spec
=============================================================================
