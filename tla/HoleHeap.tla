------------------------------ MODULE HoleHeap ------------------------------
(* data_structures/heap.c: a heap of blocks and holes of any size, whose     *)
(* holes are the nodes of a search tree by their lengths (bin_tree.c).  The  *)
(* unit of memory is a word of 4 bytes, and every request a number of words. *)
(* A block or hole at h: header (magic, length, entry), as many words as its *)
(* length, footer (header, magic).                                           *)
EXTENDS TreeOps

CONSTANTS
    Start,      \* heap->start; no length and no slot is as large
    InitSize,   \* the size the heap is created with
    Requests,   \* the sizes that are asked for
    MaxSlots    \* bound on the slots of the index

HoleHeapAssumption == /\ {Start, InitSize, MaxSlots} \subseteq Nat \ {0}
                      /\ Requests \subseteq Nat
                      /\ Start > InitSize /\ Start > MaxSlots
ASSUME HoleHeapAssumption

HeaderWords == 3
FooterWords == 2
HEADER_SIZE == HeaderWords + FooterWords

HEAP_FREE == -2
HEAP_OCCUPIED == -3
Junk == -4     \* a word that the heap has not written

Memory == Start .. Start + InitSize + HEADER_SIZE - 1

VARIABLES
    heap,    \* the index and the words of memory
    held,    \* history: the size of every block that a client holds
    astray,  \* history: the heap has taken another hole than the one it meant
    halted   \* the program has stopped at a fault

holeVars == <<heap, held, astray, halted>>

-----------------------------------------------------------------------------
(* Words of memory *)

Word(hp, a) == IF a \in Memory THEN hp.words[a] ELSE Junk

Length(hp, h) == Word(hp, h + 1)

(* put_block_info: the header, and the footer where the size says it is. *)
PutBlockInfo(hp, h, size, node, magic) ==
    [hp EXCEPT !.words = [a \in Memory |->
        CASE a = h                            -> magic
          [] a = h + 1                        -> size
          [] a = h + 2                        -> node
          [] a = h + HeaderWords + size       -> h
          [] a = h + HeaderWords + size + 1   -> magic
          [] OTHER                            -> hp.words[a]]]

-----------------------------------------------------------------------------
(* The index *)

\* The slot that bin_tree_remove empties for node n, and fills with the last.
Emptied(t, n) == IF HasTwoChildren(t, n) THEN Neighbour(t, n) ELSE n

\* Mutant: the header of the node that moves is not told.
Unlisted_EntryStays(hp, n) ==
    [index |-> Removed(hp.index, n), words |-> hp.words]

(* bin_tree_remove: the node that moves into the slot tells its header. *)
Unlisted(hp, n) ==
    LET t == hp.index
        end == EndOf(t)
        told == t.nodes[end].header + 2
    IN  [index |-> Removed(t, n),
         words |-> [a \in Memory |-> IF a = told /\ end # Emptied(t, n)
                                     THEN Emptied(t, n) ELSE hp.words[a]]]

(* A new hole: bin_tree_insert, whose node goes into the next slot. *)
Listed(hp, h, length) ==
    PutBlockInfo([hp EXCEPT !.index = Inserted(hp.index, length, h)],
                 h, length, EndOf(hp.index) + 1, HEAP_FREE)

Holes == {heap.index.nodes[n].header : n \in Nodes(heap.index)}

Blocks == Holes \cup DOMAIN held

(* Node n is the hole at h, and its removal takes no other hole along. *)
Means(hp, n, h) == /\ n \in Nodes(hp.index)
                   /\ hp.index.nodes[n].header = h
                   /\ ~ HasTwoChildren(hp.index, n)

-----------------------------------------------------------------------------

HoleHeapInit ==
    /\ heap = PutBlockInfo(
                 [index |-> [root |-> 0,
                             nodes |-> [n \in {0} |-> Leaf(InitSize, Start, NULL)]],
                  words |-> [a \in Memory |-> Junk]],
                 Start, InitSize, 0, HEAP_FREE)
    /\ held = [h \in {} |-> 0]
    /\ astray = FALSE
    /\ halted = FALSE

-----------------------------------------------------------------------------
(* heap_alloc *)

Needed(s) == s + HEADER_SIZE

BestFit(s) == BestFitLookup(heap.index, Needed(s))

(* The node is asked for its header after it is removed: by then its slot    *)
(* may hold the node that was the last.                                      *)
HeaderAfter(t, n) ==
    LET u == Removed(t, n)
    IN  IF n \in Nodes(u) THEN u.nodes[n].header ELSE t.nodes[n].header

\* Mutant: the block is cut from the end of the hole's length, not its extent.
Remainder_TooLong(length, size) == length - size + HEADER_SIZE

\* Mutant: the sum has parentheses, and a small remainder is below 0.
Remainder_Parentheses(length, size) == length - size - HEADER_SIZE

(* What is left of a hole: HEADER_SIZE is a sum without parentheses. *)
Remainder(length, size) == length - size - HeaderWords + FooterWords

Alloc(s) ==
    /\ ~ halted /\ ~ astray
    /\ BestFit(s) # NULL
    /\ EndOf(heap.index) < MaxSlots
    /\ LET n == BestFit(s)
           annexee == HeaderAfter(heap.index, n)
           length == Length(heap, annexee)
           taken == PutBlockInfo(Unlisted(heap, n), annexee, s, NULL, HEAP_OCCUPIED)
           rest == Remainder(length, Needed(s))
           splits == Needed(s) < length
       IN  /\ heap' = IF splits
                      THEN Listed(taken, annexee + Needed(s), rest)
                      ELSE taken
           /\ astray' = \/ ~ Means(heap, n, annexee)
                        \/ splits /\ CutsSubtree(taken.index, rest)
           /\ held' = [h \in DOMAIN held \cup {annexee} |->
                         IF h = annexee THEN s ELSE held[h]]
    /\ UNCHANGED halted

(* No hole is large enough: bin_tree_remove reads through NULL. *)
AllocFaults(s) ==
    /\ ~ halted /\ ~ astray
    /\ BestFit(s) = NULL
    /\ halted' = TRUE
    /\ UNCHANGED <<heap, held, astray>>

-----------------------------------------------------------------------------
(* heap_free *)

(* The word in front of a header is taken for the footer of a block. *)
Before(h) == Word(heap, h - FooterWords)

(* The header behind the block is looked for a word too far on. *)
Behind(h) == h + HeaderWords + Length(heap, h) + HeaderWords

IsHole(hp, h) == Word(hp, h) = HEAP_FREE

\* Mutant: the hole in front stays in the index.
Merged_StaysListed(hp, h) == hp

(* A neighbour that is a hole leaves the index. *)
Merged(hp, h) ==
    IF IsHole(hp, h) /\ Word(hp, h + 2) \in Nodes(hp.index)
    THEN Unlisted(hp, Word(hp, h + 2)) ELSE hp

LengthIfHole(hp, h) == IF IsHole(hp, h) THEN Length(hp, h) + HEADER_SIZE ELSE 0

Strays(hp, h) == IsHole(hp, h) /\ ~ Means(hp, Word(hp, h + 2), h)

(* Nothing lies between the hole at k and the block at h behind it: a footer  *)
(* that is left over may lead to a hole far in front of the block.           *)
InFront(k, h) == k < h /\ \A b \in Blocks : ~ (k < b /\ b < h)

Freed(h) == PutBlockInfo(heap, h, Length(heap, h), Word(heap, h + 2), HEAP_FREE)

(* The block joins the hole in front of it.  A word there that is no address *)
(* of the heap leads anywhere but to a hole, if it leads to memory at all.   *)
Free(h) ==
    /\ ~ halted /\ ~ astray
    /\ h \in DOMAIN held
    /\ EndOf(heap.index) < MaxSlots
    /\ LET behind == Behind(h)
           before == Before(h)
           hp1 == Merged(Freed(h), behind)
           hp2 == Merged(hp1, before)
           length == Length(heap, h) + LengthIfHole(Freed(h), behind)
                        + LengthIfHole(hp1, before)
       IN  /\ heap' = Listed(hp2, IF IsHole(hp1, before) THEN before ELSE h, length)
           /\ astray' = \/ Strays(Freed(h), behind)
                        \/ Strays(hp1, before)
                        \/ IsHole(hp1, before) /\ ~ InFront(before, h)
                        \/ CutsSubtree(hp2.index, length)
    /\ held' = [b \in DOMAIN held \ {h} |-> held[b]]
    /\ UNCHANGED halted

FreeFaults(h) ==
    /\ ~ halted /\ ~ astray
    /\ h \in DOMAIN held
    /\ Before(h) \notin Memory
    /\ halted' = TRUE
    /\ heap' = Merged(Freed(h), Behind(h))
    /\ astray' = Strays(Freed(h), Behind(h))
    /\ held' = [b \in DOMAIN held \ {h} |-> held[b]]

(* A client writes its block. *)
Fill(h) ==
    /\ ~ halted /\ ~ astray
    /\ h \in DOMAIN held
    /\ heap' = [heap EXCEPT !.words = [a \in Memory |->
                  IF a - h - HeaderWords \in 0 .. held[h] - 1
                  THEN Junk ELSE heap.words[a]]]
    /\ UNCHANGED <<held, astray, halted>>

HoleHeapNext ==
    \/ \E s \in Requests : Alloc(s)
    \/ \E s \in Requests : AllocFaults(s)
    \/ \E h \in DOMAIN held : Free(h)
    \/ \E h \in DOMAIN held : FreeFaults(h)
    \/ \E h \in DOMAIN held : Fill(h)

HoleHeapSpec == HoleHeapInit /\ [][HoleHeapNext]_holeVars

-----------------------------------------------------------------------------
(* Properties *)

Size(h) == IF h \in DOMAIN held THEN held[h] ELSE Length(heap, h)

Extent(h) == h .. h + Size(h) + HEADER_SIZE - 1

(* The type invariant.  Until the heap goes astray no length underflows and  *)
(* none is more than the heap was created with.                              *)
HoleHeapTypeOK ==
    /\ heap.words \in [Memory -> Int]
    /\ Nodes(heap.index) = 0 .. EndOf(heap.index)
    /\ EndOf(heap.index) <= MaxSlots
    /\ ~ astray => \A n \in Nodes(heap.index) :
                      heap.index.nodes[n].value \in 0 .. InitSize
    /\ DOMAIN held \subseteq Memory
    /\ \A h \in DOMAIN held : held[h] \in Requests
    /\ {astray, halted} \subseteq BOOLEAN

(* Until the heap goes astray, and whatever was split, joined and moved in   *)
(* the array of the index meanwhile: a hole in the index and the hole in     *)
(* memory agree on its length and lead to each other.                        *)
HolesAreIndexed ==
    ~ astray => \A n \in Nodes(heap.index) :
       LET h == heap.index.nodes[n].header
           footer == h + HeaderWords + heap.index.nodes[n].value
       IN  /\ IsHole(heap, h)
           /\ Length(heap, h) = heap.index.nodes[n].value
           /\ Word(heap, h + 2) = n
           /\ Word(heap, footer) = h /\ Word(heap, footer + 1) = HEAP_FREE

(* Until then no two blocks or holes overlap, each keeps its header and      *)
(* footer whatever the clients write, and all lie in the memory that the     *)
(* heap was given.                                                           *)
BlocksAreApart ==
    ~ astray /\ ~ halted =>
       /\ \A h \in Blocks : /\ Extent(h) \subseteq Memory
                            /\ Length(heap, h) = Size(h)
                            /\ Word(heap, h + HeaderWords + Size(h)) = h
       /\ \A h, k \in Blocks : h # k => Extent(h) \cap Extent(k) = {}

(* A block right behind a hole becomes one hole with it when it is freed,    *)
(* and so does one behind the words that an exact fit has left between them, *)
(* for the footer of the old hole still stands there: those words are lost.  *)
(* A hole right behind the block is not noticed, and stays as it is.  No     *)
(* other hole changes, or leaves or joins the index.                         *)
FreedJoinsTheHoleBefore ==
    [][ \A h \in DOMAIN held :
          h \notin DOMAIN held' /\ ~ astray' /\ ~ halted' =>
             LET adjacent == {k \in Holes : k + Size(k) + HEADER_SIZE = h}
                 front == Holes \cap {Before(h)}
             IN  /\ adjacent \subseteq front
                 /\ Holes' = Holes \cup (IF front = {} THEN {h} ELSE {})
                 /\ \A k \in Holes : Length(heap, k)' =
                       Size(k) + IF k \in front THEN Size(h) + HEADER_SIZE ELSE 0
      ]_holeVars
=============================================================================
