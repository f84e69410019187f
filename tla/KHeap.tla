------------------------------- MODULE KHeap -------------------------------
(***************************************************************************)
(* kheap.c: the slab heap, as kheap_init leaves it (one slab) and as       *)
(* kheap_alloc and kheap_free change it.                                   *)
(*                                                                         *)
(* expand links the descriptors of the slab's blocks, 0 .. Linked-1, into  *)
(* a doubly linked list; a slab of one block gets a second descriptor all  *)
(* the same.  It writes no start into the last descriptor.  A pointer to a *)
(* block or to its descriptor is the number of the block.                  *)
(*                                                                         *)
(* A page fault ends in page_fault, which halts with interrupts off: the   *)
(* machine stops.  What a heap of two slabs does is not followed.          *)
(***************************************************************************)
EXTENDS Integers, FiniteSets

CONSTANT Linked    \* descriptors that expand links: blocks_per_slab, or 2

ASSUME KHeapAssumption == Linked \in Nat /\ Linked >= 2

Descriptors == 0 .. Linked - 1
Last == Linked - 1
Null == -1
TheSlab == 0
Stray == -2  \* a pointer to memory outside the heap's descriptors
SlabPointers == {Null, TheSlab, Stray}

\* The blocks whose descriptor has a start: all that can be handed out.
HeapBlocks == 0 .. Linked - 2

VARIABLES
    firstFree, lastFree,          \* heap->first_free, heap->last_free
    next, prev,                   \* of each block descriptor
    firstFreeSlab, lastFreeSlab,  \* heap->first_free_slab, last_free_slab
    slab,                         \* the descriptor of the slab
    page0,      \* is page 0 present?  Its entry lies in a page table that
                \* get_page did not clear
    holders,    \* history: how many clients hold each block
    fresh,      \* history: the blocks that were never handed out
    wild,       \* history: a start that was never written has been returned
    status      \* "fault" when the machine has stopped at a page fault,
                \* "grown" when a second slab has been made

links == <<firstFree, lastFree, next, prev>>
slabLinks == <<firstFreeSlab, lastFreeSlab, slab>>
hvars == <<links, slabLinks, page0, holders, fresh, wild, status>>

Running == status = "running"

\* The blocks that clients hold.
used == {b \in HeapBlocks : holders[b] > 0}

-----------------------------------------------------------------------------
(* kheap_init and the call of expand it ends with: first_free_slab is not    *)
(* set by either.                                                            *)

HeapInit ==
    /\ firstFree = 0
    /\ lastFree = Last
    /\ next = [b \in Descriptors |-> IF b = Last THEN Null ELSE b + 1]
    /\ prev = [b \in Descriptors |-> b - 1]
    /\ firstFreeSlab = Null
    /\ lastFreeSlab = TheSlab
    /\ slab = [refcount |-> 0, next |-> Null, prev |-> Null]
    /\ page0 \in BOOLEAN
    /\ holders = [b \in HeapBlocks |-> 0]
    /\ fresh = Descriptors
    /\ wild = FALSE
    /\ status = "running"

-----------------------------------------------------------------------------
(* kheap_alloc *)

\* Mutant: the block is handed out and not counted.
TakeFromSlab_Uncounted ==
    UNCHANGED slabLinks

\* One more block of the slab is in use; the first takes the slab off the list.
TakeFromSlab ==
    /\ slab' = [slab EXCEPT !.refcount = @ + 1]
    /\ IF slab.refcount = 0
       THEN /\ lastFreeSlab' = IF slab.next = Null THEN slab.prev ELSE lastFreeSlab
            /\ firstFreeSlab' = IF slab.prev = Null THEN slab.next ELSE firstFreeSlab
       ELSE UNCHANGED <<firstFreeSlab, lastFreeSlab>>

\* Mutant: first_free is not moved on, and the head stays linked.
Unlink_StaysHead(b) ==
    UNCHANGED <<firstFree, next, prev>>

\* The head of the list leaves it, and the next descriptor becomes the head.
Unlink(b) ==
    /\ firstFree' = next[b]
    /\ next' = [next EXCEPT ![b] = Null]
    /\ prev' = [c \in Descriptors |-> IF c \in {b, next[b]} THEN Null ELSE prev[c]]

\* A block that is not the last of the list.
AllocBlock ==
    /\ Running
    /\ firstFree # Null
    /\ next[firstFree] # Null
    /\ Unlink(firstFree)
    /\ TakeFromSlab
    /\ holders' = [holders EXCEPT ![firstFree] = @ + 1]
    /\ fresh' = fresh \ {firstFree}
    /\ UNCHANGED <<lastFree, page0, wild, status>>

\* The last of the list: first_free becomes NULL and its prev is written.
AllocLastFaults ==
    /\ Running
    /\ firstFree # Null
    /\ next[firstFree] = Null
    /\ ~ page0
    /\ firstFree' = Null
    /\ status' = "fault"
    /\ UNCHANGED <<lastFree, next, prev, slabLinks, page0, holders, fresh, wild>>

\* The reference count at an address outside the heap is counted up, and if it
\* was 0 the links found there become the ends of the slab list.  What a write
\* through those links may hit is not followed.
TakeFromElsewhere ==
    /\ firstFreeSlab' \in {firstFreeSlab, Stray}
    /\ lastFreeSlab' \in {lastFreeSlab, Stray}
    /\ slab' = slab

\* The same with page 0 present: the write lands, and the start of the block
\* is whatever the descriptor's memory held.  The slab's descriptor is looked
\* up from it: at an address that is not mapped, in this slab or anywhere.
AllocLastLands ==
    /\ Running
    /\ firstFree # Null
    /\ next[firstFree] = Null
    /\ page0
    /\ Unlink(firstFree)
    /\ fresh' = fresh \ {firstFree}
    /\ \/ status' = "fault" /\ UNCHANGED <<slabLinks, wild>>
       \/ status' = status /\ wild' = TRUE /\ TakeFromSlab
       \/ status' = status /\ wild' = TRUE /\ TakeFromElsewhere
    /\ UNCHANGED <<lastFree, page0, holders>>

\* No block on the list: expand looks the new slab's descriptor up with
\* slab_size in the place of 1, far beyond the pages of the heap.  There it
\* faults, or finds a page that an entry never cleared makes look present, or
\* the video memory, and goes on to link the blocks of a second slab.
AllocExpands ==
    /\ Running
    /\ firstFree = Null
    /\ status' \in {"fault", "grown"}
    /\ UNCHANGED <<links, slabLinks, page0, holders, fresh, wild>>

Alloc == AllocBlock \/ AllocLastFaults \/ AllocLastLands \/ AllocExpands

-----------------------------------------------------------------------------
(* kheap_free *)

\* Mutant: the block becomes the head, with no link to the one that was.
LinkLast_AsHead(b) ==
    /\ next' = [next EXCEPT ![b] = Null]
    /\ prev' = [prev EXCEPT ![b] = Null]
    /\ firstFree' = b
    /\ lastFree' = lastFree

\* Mutant: the block becomes the last, with no link to the one before.
LinkLast_NoBackLink(b) ==
    /\ next' = [next EXCEPT ![b] = Null]
    /\ prev' = [prev EXCEPT ![b] = Null]
    /\ lastFree' = b
    /\ firstFree' = firstFree

\* The block becomes the last: it points back to the one that was, which does
\* not point to it.
LinkLast(b) ==
    /\ next' = [next EXCEPT ![b] = Null]
    /\ prev' = [prev EXCEPT ![b] = lastFree]
    /\ lastFree' = b
    /\ firstFree' = firstFree

\* Mutant: the reference count is left as it is.
GiveToSlab_NoCount == UNCHANGED slabLinks

\* One block fewer of the slab is in use; with the last the slab is listed.
GiveToSlab ==
    /\ slab' = IF slab.refcount = 1
               THEN [refcount |-> 0, next |-> Null, prev |-> lastFreeSlab]
               ELSE [slab EXCEPT !.refcount = @ - 1]
    /\ lastFreeSlab' = IF slab.refcount = 1 THEN TheSlab ELSE lastFreeSlab
    /\ firstFreeSlab' = firstFreeSlab

Free(b) ==
    /\ Running
    /\ b \in used
    /\ LinkLast(b)
    /\ GiveToSlab
    /\ holders' = [holders EXCEPT ![b] = @ - 1]
    /\ UNCHANGED <<page0, fresh, wild, status>>

-----------------------------------------------------------------------------

HeapNext == Alloc \/ \E b \in HeapBlocks : Free(b)

HeapSpec == HeapInit /\ [][HeapNext]_hvars

-----------------------------------------------------------------------------
(* Properties *)

HeapTypeOK ==
    /\ firstFree \in Descriptors \cup {Null}
    /\ lastFree \in Descriptors
    /\ next \in [Descriptors -> Descriptors \cup {Null}]
    /\ prev \in [Descriptors -> Descriptors \cup {Null}]
    /\ firstFreeSlab \in SlabPointers
    /\ lastFreeSlab \in SlabPointers
    /\ slab \in [refcount : Nat, next : SlabPointers, prev : SlabPointers]
    /\ page0 \in BOOLEAN
    /\ holders \in [HeapBlocks -> Nat]
    /\ fresh \subseteq Descriptors
    /\ wild \in BOOLEAN
    /\ status \in {"running", "fault", "grown"}

\* What follows a descriptor by the links of f, the descriptor included.
Chain(f, b) ==
    LET reach[n \in 0 .. Linked] ==
            IF n = 0 THEN {b} \ {Null}
            ELSE reach[n - 1] \cup ({f[c] : c \in reach[n - 1]} \ {Null})
    IN  reach[Linked]

\* Read backwards from last_free, the list holds exactly the blocks that no
\* client holds: kheap_free keeps the list whole in that direction.
BackwardListIsFreeList ==
    Running /\ ~ wild => Chain(prev, lastFree) = Descriptors \ used

\* Read forwards from first_free, as kheap_alloc reads it, it holds no block
\* that a client holds, and no kheap_free cuts off a block that was not handed
\* out yet.
TakeListIsSound ==
    Running => /\ fresh \subseteq Chain(next, firstFree)
               /\ Chain(next, firstFree) \cap used = {}

\* The reference count of the slab is the number of blocks that clients hold,
\* and the slab is the last on the list of free slabs exactly when it is 0.
SlabCountIsExact ==
    ~ wild => /\ slab.refcount = Cardinality(used)
              /\ lastFreeSlab = TheSlab <=> slab.refcount = 0

\* The heap never hands out a block that a client holds.
Pool == INSTANCE BlockPool WITH Blocks <- HeapBlocks, stopped <- ~ Running
HeapIsAPool == Pool!PoolSpec

\* kheap_free gives a block back to the list that kheap_alloc takes from.
FreedBlocksAreListed ==
    Running => HeapBlocks \ used \subseteq Chain(next, firstFree)

\* "Expand if needed" (kheap.c:207): a request that finds no more free blocks
\* makes some, and does not stop the machine.
RequestsAreServed == status # "fault"
=============================================================================
