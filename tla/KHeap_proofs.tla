---------------------------- MODULE KHeap_proofs ----------------------------
(***************************************************************************)
(* The slab heap never hands out a block that is held, whatever the size   *)
(* of its slab.  The list that kheap_alloc takes from is, from its head    *)
(* on, still the list that expand linked: kheap_free writes only the       *)
(* descriptor of a block that is held, and those lie before the head.      *)
(***************************************************************************)
EXTENDS KHeap, Recursion, FiniteSetTheorems, FunctionTheorems

\* The descriptors from the head of the list on.
Ahead == {b \in Descriptors : firstFree # Null /\ b >= firstFree}

\* They are linked as expand linked them.
AheadIsLinked ==
    \A b \in Ahead : next[b] = IF b = Last THEN Null ELSE b + 1

\* None of them is held.
AheadIsFree == \A b \in HeapBlocks : b \in Ahead => holders[b] = 0

\* No block is held twice.
AtMostOneHolder == \A b \in HeapBlocks : holders[b] \in {0, 1}

\* They are the blocks that were never handed out.
FreshIsAhead == Running => fresh = Ahead

\* The slab has no neighbours on the list of free slabs.
SlabIsAlone == ~ wild => /\ slab.next = Null /\ slab.prev = Null
                         /\ lastFreeSlab \in {Null, TheSlab}

\* A wild hand-out is counted too, if the start lies in the slab.
SlabCountsUsed == slab.refcount >= Cardinality(used)

\* A start that was never written is that of the last block of the list.
WildIsLast == wild => firstFree = Null

HeapInv ==
    /\ HeapTypeOK
    /\ AheadIsLinked
    /\ AheadIsFree
    /\ AtMostOneHolder
    /\ FreshIsAhead
    /\ SlabIsAlone
    /\ SlabCountsUsed
    /\ WildIsLast
    /\ SlabCountIsExact

-----------------------------------------------------------------------------

LEMMA DescriptorFacts ==
    /\ Last \in Nat /\ Last >= 1
    /\ Null \notin Descriptors
    /\ Last \in Descriptors
    /\ HeapBlocks = Descriptors \ {Last}
    /\ \A b \in HeapBlocks : b + 1 \in Descriptors
BY KHeapAssumption DEF Descriptors, Last, HeapBlocks, Null

LEMMA UsedIsFinite == IsFiniteSet(used) /\ Cardinality(used) \in Nat
<1>1. IsFiniteSet(HeapBlocks)
  BY KHeapAssumption, FS_Interval, 0 \in Int, Linked - 2 \in Int DEF HeapBlocks
<1>2. used \subseteq HeapBlocks
  BY DEF used
<1>. QED BY <1>1, <1>2, FS_Subset, FS_CardinalityType

\* A block that is linked to another is a block of the heap that nobody holds.
LEMMA HeadIsFree ==
    ASSUME HeapInv, firstFree # Null, next[firstFree] # Null
    PROVE  /\ firstFree \in HeapBlocks
           /\ firstFree \notin used
           /\ next[firstFree] = firstFree + 1
           /\ holders[firstFree] = 0
<1>1. firstFree \in Ahead /\ firstFree \in Int
  BY DEF HeapInv, HeapTypeOK, Ahead, Descriptors
<1>2. firstFree # Last
  BY <1>1 DEF HeapInv, AheadIsLinked
<1>3. firstFree \in HeapBlocks /\ next[firstFree] = firstFree + 1
  BY <1>1, <1>2, DescriptorFacts DEF HeapInv, AheadIsLinked, Ahead
<1>4. holders[firstFree] = 0
  BY <1>1, <1>3 DEF HeapInv, AheadIsFree
<1>. QED BY <1>3, <1>4 DEF used

-----------------------------------------------------------------------------

LEMMA HeapInitInv == HeapInit => HeapInv
<1> SUFFICES ASSUME HeapInit PROVE HeapInv
  OBVIOUS
<1> USE DEF HeapInit
<1>1. HeapTypeOK
  <2>1. 0 \in Descriptors /\ \A b \in Descriptors : b - 1 \in Descriptors \cup {Null}
    BY KHeapAssumption DEF Descriptors, Null
  <2>2. \A b \in Descriptors : b # Last => b + 1 \in Descriptors
    BY DescriptorFacts
  <2>. QED BY <2>1, <2>2, DescriptorFacts DEF HeapTypeOK, SlabPointers, TheSlab, Null
<1>2. AheadIsLinked /\ AheadIsFree /\ AtMostOneHolder /\ SlabIsAlone /\ WildIsLast
  BY DEF AheadIsLinked, Ahead, AheadIsFree, AtMostOneHolder, SlabIsAlone, WildIsLast
<1>3. SlabCountIsExact /\ SlabCountsUsed
  <2>1. used = {}
    BY DEF used
  <2>. QED BY <2>1, FS_EmptySet DEF SlabCountIsExact, SlabCountsUsed
<1>4. FreshIsAhead
  BY DEF FreshIsAhead, Ahead, Descriptors, Null
<1>. QED BY <1>1, <1>2, <1>3, <1>4 DEF HeapInv

-----------------------------------------------------------------------------
(* One lemma per kind of step *)

LEMMA AllocBlockInv == HeapInv /\ AllocBlock => HeapInv'
<1> SUFFICES ASSUME HeapInv, AllocBlock PROVE HeapInv'
  OBVIOUS
<1> DEFINE h == firstFree
<1>1. /\ h \in HeapBlocks /\ h \notin used /\ next[h] = h + 1 /\ holders[h] = 0
      /\ firstFree # Null
  BY HeadIsFree DEF AllocBlock
<1>2. /\ h \in Descriptors /\ h \in Int /\ h + 1 \in Descriptors
      /\ firstFree' = h + 1
  BY <1>1, DescriptorFacts DEF AllocBlock, Unlink, HeapBlocks
<1>3. HeapTypeOK'
  <2>1. next' \in [Descriptors -> Descriptors \cup {Null}]
        /\ prev' \in [Descriptors -> Descriptors \cup {Null}]
    BY <1>1, <1>2 DEF AllocBlock, Unlink, HeapInv, HeapTypeOK
  <2>2. /\ firstFreeSlab' \in SlabPointers
        /\ lastFreeSlab' \in SlabPointers
        /\ slab' \in [refcount : Nat, next : SlabPointers, prev : SlabPointers]
    BY DEF AllocBlock, TakeFromSlab, HeapInv, HeapTypeOK
  <2>3. holders' \in [HeapBlocks -> Nat]
    BY <1>1 DEF AllocBlock, HeapInv, HeapTypeOK
  <2>. QED BY <1>2, <2>1, <2>2, <2>3 DEF HeapTypeOK, HeapInv, AllocBlock
<1>4. Ahead' = Ahead \ {h}
  BY <1>1, <1>2, DescriptorFacts DEF Ahead, Descriptors, Null
<1>5. AheadIsLinked'
  <2>1. \A b \in Ahead' : next'[b] = next[b]
    BY <1>2, <1>4 DEF AllocBlock, Unlink, HeapInv, HeapTypeOK, Ahead
  <2>. QED BY <2>1, <1>4 DEF AheadIsLinked, HeapInv
<1>6. holders' = [holders EXCEPT ![h] = 1]
  BY <1>1 DEF AllocBlock
<1>7. AheadIsFree' /\ AtMostOneHolder'
  BY <1>1, <1>4, <1>6 DEF AheadIsFree, AtMostOneHolder, HeapInv, HeapTypeOK
<1>7a. ~ wild /\ wild' = wild
  BY <1>1 DEF AllocBlock, HeapInv, WildIsLast
<1>8. SlabIsAlone' /\ WildIsLast'
  BY <1>7a DEF AllocBlock, TakeFromSlab, SlabIsAlone, WildIsLast, HeapInv, HeapTypeOK
<1>8a. FreshIsAhead'
  BY <1>4 DEF AllocBlock, FreshIsAhead, Running, HeapInv
<1>9. SlabCountIsExact' /\ SlabCountsUsed'
  <2>1. used' = used \cup {h}
    BY <1>1, <1>6 DEF used, HeapInv, HeapTypeOK
  <2>2. Cardinality(used') = Cardinality(used) + 1
    BY <2>1, <1>1, UsedIsFinite, FS_AddElement
  <2>3. slab'.refcount = slab.refcount + 1
    BY DEF AllocBlock, TakeFromSlab, HeapInv, HeapTypeOK
  <2>4. slab'.refcount = Cardinality(used')
    BY <1>7a, <2>2, <2>3 DEF HeapInv, SlabCountIsExact
  <2>5. slab'.refcount # 0 /\ slab'.refcount \in Nat
    BY <2>3 DEF HeapInv, HeapTypeOK
  <2>6. lastFreeSlab' # TheSlab
    BY <1>7a
    DEF AllocBlock, TakeFromSlab, SlabIsAlone, HeapInv, SlabCountIsExact, TheSlab, Null
  <2>. QED BY <2>4, <2>5, <2>6 DEF SlabCountIsExact, SlabCountsUsed
<1>. QED BY <1>3, <1>5, <1>7, <1>8, <1>8a, <1>9 DEF HeapInv

\* The head leaves the list by the last descriptor: nothing lies ahead of it.
LEMMA AllocLastInv == HeapInv /\ (AllocLastFaults \/ AllocLastLands) => HeapInv'
<1> SUFFICES ASSUME HeapInv, AllocLastFaults \/ AllocLastLands PROVE HeapInv'
  OBVIOUS
<1>1. firstFree' = Null /\ UNCHANGED <<holders, page0, lastFree>>
  BY DEF AllocLastFaults, AllocLastLands, Unlink
<1>2. ~ wild
  BY DEF AllocLastFaults, AllocLastLands, HeapInv, WildIsLast
<1>3. slab.refcount \in Nat /\ slab \in [refcount : Nat, next : SlabPointers, prev : SlabPointers]
  BY DEF HeapInv, HeapTypeOK
<1>4. /\ firstFreeSlab' \in SlabPointers /\ lastFreeSlab' \in SlabPointers
      /\ slab' \in [refcount : Nat, next : SlabPointers, prev : SlabPointers]
      /\ slab'.refcount >= slab.refcount
  <2>1. CASE UNCHANGED slabLinks
    BY <1>3, <2>1 DEF slabLinks, HeapInv, HeapTypeOK
  <2>2. CASE TakeFromSlab
    BY <1>3, <2>2 DEF TakeFromSlab, HeapInv, HeapTypeOK
  <2>3. CASE TakeFromElsewhere
    BY <1>3, <2>3 DEF TakeFromElsewhere, HeapInv, HeapTypeOK, SlabPointers
  <2>. QED BY <2>1, <2>2, <2>3 DEF AllocLastFaults, AllocLastLands
<1>5. HeapTypeOK'
  <2>1. next' \in [Descriptors -> Descriptors \cup {Null}]
        /\ prev' \in [Descriptors -> Descriptors \cup {Null}]
    BY DEF AllocLastFaults, AllocLastLands, Unlink, HeapInv, HeapTypeOK
  <2>2. wild' \in BOOLEAN /\ status' \in {"running", "fault", "grown"}
        /\ fresh' \subseteq Descriptors
    BY DEF AllocLastFaults, AllocLastLands, HeapInv, HeapTypeOK
  <2>. QED BY <1>1, <1>4, <2>1, <2>2 DEF HeapTypeOK, HeapInv
<1>6. Ahead' = {}
  BY <1>1 DEF Ahead
<1>7. used' = used /\ Cardinality(used) \in Nat
  BY <1>1, UsedIsFinite DEF used
<1>8. FreshIsAhead'
  <2>1. CASE AllocLastFaults
    BY <2>1 DEF AllocLastFaults, FreshIsAhead, Running
  <2>2. CASE AllocLastLands
    <3>1. firstFree = Last /\ Running
      BY <2>2, DescriptorFacts
      DEF AllocLastLands, HeapInv, AheadIsLinked, Ahead, HeapTypeOK, Descriptors, Null
    <3>2. Ahead = {Last}
      BY <3>1, DescriptorFacts DEF Ahead, Descriptors, Last
    <3>. QED BY <1>6, <2>2, <3>1, <3>2 DEF AllocLastLands, FreshIsAhead, HeapInv
  <2>. QED BY <2>1, <2>2
<1>9. SlabCountsUsed'
  BY <1>3, <1>4, <1>7 DEF HeapInv, SlabCountsUsed
<1>10. (SlabIsAlone /\ SlabCountIsExact /\ WildIsLast)'
  <2>1. ~ wild' => UNCHANGED slabLinks
    BY DEF AllocLastFaults, AllocLastLands
  <2>. QED BY <1>1, <1>2, <1>7, <2>1
       DEF HeapInv, SlabIsAlone, SlabCountIsExact, WildIsLast, slabLinks
<1>. QED BY <1>1, <1>5, <1>6, <1>8, <1>9, <1>10
     DEF HeapInv, AheadIsLinked, AheadIsFree, AtMostOneHolder

LEMMA FreeInv == ASSUME HeapInv, NEW b \in HeapBlocks, Free(b) PROVE HeapInv'
<1>1. /\ b \in used /\ holders[b] = 1 /\ b \in Descriptors
      /\ b \notin Ahead
  BY DescriptorFacts DEF Free, used, HeapInv, AheadIsFree, AtMostOneHolder
<1>2. Cardinality(used \ {b}) = Cardinality(used) - 1 /\ Cardinality(used) >= 1
  <2>1. Cardinality(used \ {b}) = Cardinality(used) - 1
    BY <1>1, UsedIsFinite, FS_RemoveElement
  <2>2. Cardinality(used \ {b}) \in Nat
    BY UsedIsFinite, FS_Subset, FS_CardinalityType
  <2>. QED BY <2>1, <2>2, UsedIsFinite
<1>3. /\ slab.refcount \in Nat /\ slab.refcount >= 1
      /\ Cardinality(used) \in Nat /\ slab.refcount >= Cardinality(used)
  BY <1>2, UsedIsFinite DEF HeapInv, HeapTypeOK, SlabCountsUsed
<1>4. ASSUME ~ wild PROVE lastFreeSlab = Null
  BY <1>3, <1>4 DEF HeapInv, SlabIsAlone, SlabCountIsExact
<1>5. /\ slab'.refcount = slab.refcount - 1
      /\ slab' \in [refcount : Nat, next : SlabPointers, prev : SlabPointers]
      /\ lastFreeSlab' = IF slab.refcount = 1 THEN TheSlab ELSE lastFreeSlab
      /\ firstFreeSlab' = firstFreeSlab
  BY <1>3 DEF Free, GiveToSlab, HeapInv, HeapTypeOK, SlabPointers
<1>6. /\ firstFree' = firstFree /\ lastFree' = b
      /\ next' = [next EXCEPT ![b] = Null]
      /\ prev' = [prev EXCEPT ![b] = lastFree]
      /\ holders' = [holders EXCEPT ![b] = 0]
      /\ UNCHANGED <<page0, fresh, wild, status>>
  BY <1>1 DEF Free, LinkLast
<1>7. HeapTypeOK'
  BY <1>1, <1>3, <1>5, <1>6 DEF HeapTypeOK, HeapInv, SlabPointers
<1>8. Ahead' = Ahead
  BY <1>6 DEF Ahead
<1>9. AheadIsLinked' /\ AheadIsFree' /\ AtMostOneHolder' /\ WildIsLast' /\ FreshIsAhead'
  BY <1>1, <1>6, <1>8
     DEF AheadIsLinked, AheadIsFree, AtMostOneHolder, WildIsLast, FreshIsAhead, Running,
         HeapInv, HeapTypeOK, Ahead
<1>9a. SlabIsAlone'
  BY <1>3, <1>4, <1>6 DEF Free, GiveToSlab, SlabIsAlone, HeapInv, HeapTypeOK
<1>10. SlabCountIsExact' /\ SlabCountsUsed'
  <2>1. used' = used \ {b}
    BY <1>1, <1>6 DEF used, HeapInv, HeapTypeOK
  <2>2. ~ wild => slab'.refcount = Cardinality(used')
    BY <1>2, <1>5, <2>1 DEF HeapInv, SlabCountIsExact
  <2>3. ~ wild => (lastFreeSlab' = TheSlab <=> slab'.refcount = 0)
    BY <1>3, <1>4, <1>5 DEF TheSlab, Null
  <2>4. slab'.refcount >= Cardinality(used')
    BY <1>2, <1>3, <1>5, <2>1
  <2>. QED BY <1>6, <2>2, <2>3, <2>4 DEF SlabCountIsExact, SlabCountsUsed
<1>. QED BY <1>7, <1>9, <1>9a, <1>10 DEF HeapInv

LEMMA HeapStepInv == HeapInv /\ [HeapNext]_hvars => HeapInv'
<1> SUFFICES ASSUME HeapInv, [HeapNext]_hvars PROVE HeapInv'
  OBVIOUS
<1>1. CASE AllocBlock
  BY <1>1, AllocBlockInv
<1>2. CASE AllocLastFaults \/ AllocLastLands
  BY <1>2, AllocLastInv
<1>3. CASE AllocExpands
  BY <1>3 DEF AllocExpands, links, slabLinks, HeapInv, HeapTypeOK, AheadIsLinked,
              Ahead, AheadIsFree, AtMostOneHolder, SlabIsAlone, SlabCountIsExact, used,
              FreshIsAhead, Running, SlabCountsUsed, WildIsLast
<1>4. ASSUME NEW b \in HeapBlocks, Free(b) PROVE HeapInv'
  BY <1>4, FreeInv
<1>5. CASE UNCHANGED hvars
  BY <1>5 DEF hvars, links, slabLinks, HeapInv, HeapTypeOK, AheadIsLinked,
              Ahead, AheadIsFree, AtMostOneHolder, SlabIsAlone, SlabCountIsExact, used,
              FreshIsAhead, Running, SlabCountsUsed, WildIsLast
<1>. QED BY <1>1, <1>2, <1>3, <1>4, <1>5 DEF HeapNext, Alloc

THEOREM HeapInvariant == HeapSpec => []HeapInv
<1>. QED BY HeapInitInv, HeapStepInv, PTL DEF HeapSpec

-----------------------------------------------------------------------------

\* The variables of kheap.c keep their types: links name descriptors of the
\* slab and the reference count never goes below 0.
THEOREM HeapTypeCorrect == HeapSpec => []HeapTypeOK
<1>1. HeapInv => HeapTypeOK
  BY DEF HeapInv
<1>. QED BY <1>1, HeapInvariant, PTL

\* The reference count that kheap_alloc and kheap_free keep is exact, and the
\* slab is listed as free exactly when it is 0, for slabs of every size.
THEOREM SlabCountExact == HeapSpec => []SlabCountIsExact
<1>1. HeapInv => SlabCountIsExact
  BY DEF HeapInv
<1>. QED BY <1>1, HeapInvariant, PTL

LEMMA HeapInitRefines == HeapInit => Pool!PoolInit
BY DEF HeapInit, Pool!PoolInit, Running

LEMMA HeapStepRefines ==
    HeapInv /\ [HeapNext]_hvars => [Pool!PoolNext]_(Pool!poolVars)
<1> SUFFICES ASSUME HeapInv, [HeapNext]_hvars PROVE [Pool!PoolNext]_(Pool!poolVars)
  OBVIOUS
<1>1. CASE AllocBlock
  <2>1. firstFree \in HeapBlocks /\ holders[firstFree] = 0
    BY <1>1, HeadIsFree DEF AllocBlock
  <2>2. Pool!Take(firstFree)
    BY <1>1, <2>1 DEF AllocBlock, Pool!Take, HeapInv, HeapTypeOK, Running
  <2>. QED BY <2>1, <2>2 DEF Pool!PoolNext
<1>2. CASE AllocLastFaults \/ AllocLastLands \/ AllocExpands
  <2>1. Pool!Stop \/ UNCHANGED Pool!poolVars
    BY <1>2 DEF AllocLastFaults, AllocLastLands, AllocExpands, Pool!Stop, Pool!poolVars, Running
  <2>. QED BY <2>1 DEF Pool!PoolNext
<1>3. ASSUME NEW b \in HeapBlocks, Free(b) PROVE Pool!PoolNext
  <2>1. holders[b] = 1
    BY <1>3 DEF Free, used, HeapInv, AtMostOneHolder
  <2>2. Pool!Give(b)
    BY <1>3, <2>1 DEF Free, Pool!Give, Running
  <2>. QED BY <2>2 DEF Pool!PoolNext
<1>4. CASE UNCHANGED hvars
  BY <1>4 DEF hvars, Pool!poolVars, Running
<1>. QED BY <1>1, <1>2, <1>3, <1>4 DEF HeapNext, Alloc

\* A heap of any number of blocks implements the pool of blocks: kheap_alloc
\* never returns a block that some client still holds.
THEOREM HeapImplementsPool == HeapSpec => HeapIsAPool
<1>. QED BY HeapInitRefines, HeapStepRefines, HeapInvariant, PTL
     DEF HeapSpec, HeapIsAPool, Pool!PoolSpec

-----------------------------------------------------------------------------
(* The list, read in either direction *)

DescLinks == [Descriptors -> Descriptors \cup {Null}]

\* What Chain computes, step by step.
LEMMA ChainSteps ==
    ASSUME NEW f \in DescLinks, NEW b \in Descriptors \cup {Null}
    PROVE  \E r :
              /\ r[0] = {b} \ {Null}
              /\ \A n \in 1 .. Linked :
                    r[n] = r[n - 1] \cup ({f[c] : c \in r[n - 1]} \ {Null})
              /\ Chain(f, b) = r[Linked]
<1> DEFINE X == SUBSET Descriptors
           x0 == {b} \ {Null}
           step == [t \in (1 .. Linked) \X X |->
                      t[2] \cup ({f[c] : c \in t[2]} \ {Null})]
           reach == CHOOSE g : g = [n \in 0 .. Linked |->
                        IF n = 0 THEN {b} \ {Null}
                        ELSE g[n - 1] \cup ({f[c] : c \in g[n - 1]} \ {Null})]
<1>1. x0 \in X /\ Linked \in Nat
  BY KHeapAssumption
<1>2. step \in [(1 .. Linked) \X X -> X]
  BY DEF DescLinks
<1>3. \A n \in 1 .. Linked, x \in X :
         step[<<n, x>>] = x \cup ({f[c] : c \in x} \ {Null})
  OBVIOUS
<1>4. Chain(f, b) = reach[Linked]
  BY Zenon DEF Chain
<1>. HIDE DEF step, x0, X
<1>5. PICK g \in [0 .. Linked -> X] : SolvesDown(g, Linked, x0, step)
  BY <1>1, <1>2, DownRecursion
<1>6. ASSUME NEW n \in 1 .. Linked
      PROVE  g[n] = g[n - 1] \cup ({f[c] : c \in g[n - 1]} \ {Null})
  <2>1. n - 1 \in 0 .. Linked
    BY <1>1
  <2>2. g[n - 1] \in X
    BY <1>5, <2>1
  <2>. QED BY <1>3, <1>5, <2>2 DEF SolvesDown
<1>7. g = [n \in 0 .. Linked |->
             IF n = 0 THEN {b} \ {Null}
             ELSE g[n - 1] \cup ({f[c] : c \in g[n - 1]} \ {Null})]
  <2>1. \A n \in 0 .. Linked : n # 0 => n \in 1 .. Linked
    BY <1>1
  <2>. QED BY <1>5, <1>6, <2>1 DEF x0, SolvesDown
<1>8. reach = [n \in 0 .. Linked |->
                 IF n = 0 THEN {b} \ {Null}
                 ELSE reach[n - 1] \cup ({f[c] : c \in reach[n - 1]} \ {Null})]
  BY <1>7, Zenon
<1>. HIDE DEF reach
<1>9. reach[0] = {b} \ {Null}
  BY <1>1, <1>8
<1>10. \A n \in 1 .. Linked :
          reach[n] = reach[n - 1] \cup ({f[c] : c \in reach[n - 1]} \ {Null})
  BY <1>1, <1>8
<1>. QED BY <1>4, <1>9, <1>10

\* A chain that ends in Null is made of the descriptors passed.
LEMMA ChainOf ==
    ASSUME NEW f \in DescLinks, NEW m \in 1 .. Linked, NEW q \in [1 .. m -> Descriptors],
           \A i \in 1 .. m : f[q[i]] = IF i = m THEN Null ELSE q[i + 1]
    PROVE  Chain(f, q[1]) = {q[i] : i \in 1 .. m}
<1>0. Linked \in Nat /\ m \in Nat /\ m >= 1 /\ m <= Linked
  BY KHeapAssumption
<1>1. q[1] \in Descriptors /\ Null \notin Descriptors
  BY <1>0, DescriptorFacts
<1>2. PICK r :
         /\ r[0] = {q[1]} \ {Null}
         /\ \A n \in 1 .. Linked :
               r[n] = r[n - 1] \cup ({f[c] : c \in r[n - 1]} \ {Null})
         /\ Chain(f, q[1]) = r[Linked]
  BY <1>1, ChainSteps
<1> DEFINE upto(n) == {q[i] : i \in {k \in 1 .. m : k <= n + 1}}
           P == {n \in Nat : n <= Linked => r[n] = upto(n)}
<1>3. 0 \in P
  <2>1. {k \in 1 .. m : k <= 0 + 1} = {1}
    BY <1>0
  <2>. QED BY <1>1, <1>2, <2>1
<1>4. ASSUME NEW n \in Nat, n \in P PROVE n + 1 \in P
  <2> SUFFICES ASSUME n + 1 <= Linked PROVE r[n + 1] = upto(n + 1)
    OBVIOUS
  <2>1. n + 1 \in 1 .. Linked /\ (n + 1) - 1 = n /\ n <= Linked
    BY <1>0
  <2>2. r[n] = upto(n) /\ r[n + 1] = r[n] \cup ({f[c] : c \in r[n]} \ {Null})
    BY <1>2, <1>4, <2>1
  <2>3. ASSUME NEW c \in r[n + 1] PROVE c \in upto(n + 1)
    <3>1. CASE c \in upto(n)
      BY <3>1
    <3>2. CASE c \notin upto(n)
      <4>1. PICK i \in 1 .. m : i <= n + 1 /\ c = f[q[i]] /\ c # Null
        BY <2>2, <3>2
      <4>2. i # m /\ c = q[i + 1] /\ i + 1 \in 1 .. m /\ i + 1 <= (n + 1) + 1
        BY <1>0, <4>1
      <4>. QED BY <4>2
    <3>. QED BY <3>1, <3>2
  <2>4. ASSUME NEW i \in 1 .. m, i <= (n + 1) + 1 PROVE q[i] \in r[n + 1]
    <3>1. CASE i <= n + 1
      BY <2>2, <3>1
    <3>2. CASE i = n + 2
      <4>1. i - 1 \in 1 .. m /\ i - 1 <= n + 1 /\ i - 1 # m /\ (i - 1) + 1 = i
        BY <1>0, <3>2
      <4>2. f[q[i - 1]] = q[i]
        BY <4>1
      <4>3. q[i - 1] \in upto(n)
        BY <4>1
      <4>4. q[i] # Null
        BY <1>1
      <4>. QED BY <2>2, <4>2, <4>3, <4>4
    <3>. QED BY <2>4, <3>1, <3>2
  <2>. QED BY <2>3, <2>4
<1>5. Linked \in P
  <2>. HIDE DEF P
  <2>. QED BY <1>0, <1>3, <1>4, SetInduction
<1>6. {k \in 1 .. m : k <= Linked + 1} = 1 .. m
  BY <1>0
<1>. QED BY <1>0, <1>2, <1>5, <1>6

LEMMA EmptyChain == ASSUME NEW f \in DescLinks PROVE Chain(f, Null) = {}
<1>0. Linked \in Nat
  BY KHeapAssumption
<1>1. PICK r :
         /\ r[0] = {Null} \ {Null}
         /\ \A n \in 1 .. Linked :
               r[n] = r[n - 1] \cup ({f[c] : c \in r[n - 1]} \ {Null})
         /\ Chain(f, Null) = r[Linked]
  BY ChainSteps
<1> DEFINE P == {n \in Nat : n <= Linked => r[n] = {}}
<1>2. 0 \in P
  BY <1>1
<1>3. ASSUME NEW n \in Nat, n \in P PROVE n + 1 \in P
  <2>1. n + 1 <= Linked => n + 1 \in 1 .. Linked /\ (n + 1) - 1 = n /\ n <= Linked
    BY <1>0
  <2>. QED BY <1>1, <1>3, <2>1
<1>4. Linked \in P
  <2>. HIDE DEF P
  <2>. QED BY <1>0, <1>2, <1>3, SetInduction
<1>. QED BY <1>0, <1>1, <1>4

\* Read forwards from first_free, the list is what lies ahead.
LEMMA ForwardListIsAhead == ASSUME HeapInv PROVE Chain(next, firstFree) = Ahead
<1>1. Chain(next, firstFree) = Ahead
  <2>0. next \in DescLinks /\ firstFree \in Descriptors \cup {Null}
    BY DEF HeapInv, HeapTypeOK, DescLinks
  <2>1. CASE firstFree = Null
    BY <2>0, <2>1, EmptyChain DEF Ahead
  <2>2. CASE firstFree # Null
    <3> DEFINE m == Linked - firstFree
               q == [i \in 1 .. m |-> firstFree + i - 1]
    <3>1. /\ Linked \in Nat /\ firstFree \in 0 .. Linked - 1 /\ Last = Linked - 1
          /\ m \in 1 .. Linked
      BY <2>0, <2>2, KHeapAssumption DEF Descriptors, Last
    <3>2. q \in [1 .. m -> Descriptors]
      BY <3>1 DEF Descriptors
    <3>3. \A i \in 1 .. m : q[i] \in Ahead
      BY <2>2, <3>1 DEF Ahead, Descriptors
    <3>4. \A i \in 1 .. m : next[q[i]] = IF i = m THEN Null ELSE q[i + 1]
      <4>1. \A i \in 1 .. m : next[q[i]] = IF q[i] = Last THEN Null ELSE q[i] + 1
        BY <3>3 DEF HeapInv, AheadIsLinked
      <4>2. \A i \in 1 .. m : q[i] = Last <=> i = m
        BY <3>1
      <4>3. \A i \in 1 .. m : i # m => q[i + 1] = q[i] + 1
        BY <3>1
      <4>. HIDE DEF q, m
      <4>. QED BY <4>1, <4>2, <4>3
    <3>5. q[1] = firstFree
      BY <3>1
    <3>6. {q[i] : i \in 1 .. m} = {b \in Descriptors : b >= firstFree}
      <4>1. \A b \in Descriptors : b >= firstFree =>
               b - firstFree + 1 \in 1 .. m /\ q[b - firstFree + 1] = b
        BY <3>1 DEF Descriptors
      <4>2. \A i \in 1 .. m : q[i] \in Descriptors /\ q[i] >= firstFree
        BY <3>1 DEF Descriptors
      <4>. HIDE DEF q, m
      <4>. QED BY <4>1, <4>2
    <3>. HIDE DEF q, m
    <3>7. Chain(next, firstFree) = {q[i] : i \in 1 .. m}
      BY <2>0, <3>1, <3>2, <3>4, <3>5, ChainOf
    <3>. QED BY <2>2, <3>6, <3>7 DEF Ahead
  <2>. QED BY <2>0, <2>1, <2>2
<1>. QED BY <1>1

\* The list that kheap_alloc reads never loses a block that was not handed out
\* yet and never holds one that a client holds, whatever kheap_free writes: for
\* slabs of any size.
THEOREM TakeListSound == HeapSpec => []TakeListIsSound
<1>1. ASSUME HeapInv PROVE TakeListIsSound
  <2>1. Chain(next, firstFree) = Ahead
    BY <1>1, ForwardListIsAhead
  <2>2. Ahead \cap used = {}
    BY <1>1 DEF HeapInv, AheadIsFree, used
  <2>. QED BY <1>1, <2>1, <2>2 DEF HeapInv, FreshIsAhead, TakeListIsSound
<1>. QED BY <1>1, HeapInvariant, PTL

-----------------------------------------------------------------------------
(* The free list, read backwards *)

\* The descriptors q[1] .. q[m] are the free list from last_free back to
\* first_free, each once.
IsFreeList(m, q) ==
    /\ \A i, k \in 1 .. m : q[i] = q[k] => i = k
    /\ q[1] = lastFree /\ q[m] = firstFree
    /\ \A i \in 1 .. m : prev[q[i]] = IF i = m THEN Null ELSE q[i + 1]
    /\ {q[i] : i \in 1 .. m} = Descriptors \ used

HasFreeList ==
    \E m \in 1 .. Linked : \E q \in [1 .. m -> Descriptors] : IsFreeList(m, q)

\* Backwards too, the fresh blocks are linked as expand linked them.
AheadIsLinkedBack == \A b \in Ahead : b # firstFree => prev[b] = b - 1

BackInv ==
    /\ AheadIsLinkedBack
    /\ Running /\ ~ wild => firstFree # Null /\ HasFreeList

LEMMA BackAtInit == HeapInit => BackInv
<1> SUFFICES ASSUME HeapInit PROVE BackInv
  OBVIOUS
<1> DEFINE q == [i \in 1 .. Linked |-> Linked - i]
<1>0. Linked \in Nat /\ Linked >= 2
  BY KHeapAssumption
<1>1. firstFree = 0 /\ lastFree = Last /\ prev = [b \in Descriptors |-> b - 1]
  BY DEF HeapInit
<1>2. used = {}
  BY DEF HeapInit, used
<1>3. q \in [1 .. Linked -> Descriptors]
  BY <1>0 DEF Descriptors
<1>4. IsFreeList(Linked, q)
  <2>1. \A i, k \in 1 .. Linked : q[i] = q[k] => i = k
    BY <1>0
  <2>2. q[1] = lastFree /\ q[Linked] = firstFree
    BY <1>0, <1>1 DEF Last
  <2>3. \A i \in 1 .. Linked : prev[q[i]] = IF i = Linked THEN Null ELSE q[i + 1]
    <3>1. \A i \in 1 .. Linked : prev[q[i]] = (Linked - i) - 1
      BY <1>1, <1>3
    <3>2. \A i \in 1 .. Linked : i # Linked => q[i + 1] = Linked - (i + 1)
      BY <1>0
    <3>. HIDE DEF q
    <3>. QED BY <1>0, <3>1, <3>2 DEF Null
  <2>4. {q[i] : i \in 1 .. Linked} = Descriptors
    <3>1. \A b \in Descriptors : Linked - b \in 1 .. Linked /\ q[Linked - b] = b
      BY <1>0 DEF Descriptors
    <3>. HIDE DEF q
    <3>. QED BY <1>3, <3>1
  <2>. QED BY <1>2, <2>1, <2>2, <2>3, <2>4 DEF IsFreeList
<1>5. HasFreeList
  BY <1>0, <1>3, <1>4 DEF HasFreeList
<1>6. AheadIsLinkedBack
  BY <1>1 DEF AheadIsLinkedBack, Ahead
<1>. QED BY <1>0, <1>1, <1>5, <1>6 DEF BackInv, Null

\* The head of the list is the end of it backwards: it comes off, and the one
\* before it, the block that follows in memory, is the end now.
LEMMA BackAllocBlock == ASSUME HeapInv, BackInv, AllocBlock PROVE BackInv'
<1> DEFINE h == firstFree
<1>1. /\ h \in HeapBlocks /\ h \notin used /\ next[h] = h + 1 /\ holders[h] = 0
      /\ firstFree # Null
  BY HeadIsFree DEF AllocBlock
<1>2. /\ h \in Descriptors /\ h \in Int /\ h + 1 \in Descriptors
      /\ firstFree' = h + 1 /\ lastFree' = lastFree
      /\ prev' = [c \in Descriptors |-> IF c \in {h, h + 1} THEN Null ELSE prev[c]]
      /\ UNCHANGED <<status, wild>>
  BY <1>1, DescriptorFacts DEF AllocBlock, Unlink, HeapBlocks
<1>3. Ahead' = Ahead \ {h} /\ h + 1 \in Ahead
  BY <1>1, <1>2, DescriptorFacts DEF Ahead, Descriptors, Null
<1>4. used' = used \cup {h}
  BY <1>1 DEF AllocBlock, used, HeapInv, HeapTypeOK
<1>5. AheadIsLinkedBack'
  BY <1>2, <1>3 DEF AheadIsLinkedBack, BackInv, Ahead
<1>6. ASSUME Running, ~ wild PROVE HasFreeList'
  <2>0. PICK m \in 1 .. Linked : \E q \in [1 .. m -> Descriptors] : IsFreeList(m, q)
    BY <1>6 DEF BackInv, HasFreeList
  <2>1. PICK q \in [1 .. m -> Descriptors] : IsFreeList(m, q)
    BY <2>0
  <2>2. /\ \A i, k \in 1 .. m : q[i] = q[k] => i = k
        /\ q[1] = lastFree /\ q[m] = h
        /\ \A i \in 1 .. m : prev[q[i]] = IF i = m THEN Null ELSE q[i + 1]
        /\ {q[i] : i \in 1 .. m} = Descriptors \ used
    BY <2>1 DEF IsFreeList
  <2>3. Linked \in Nat /\ m \in 1 .. Linked /\ m \in Nat /\ Null \notin Descriptors
    BY KHeapAssumption, DescriptorFacts
  <2>4. h + 1 \notin used /\ prev[h + 1] = h
    <3>1. prev[h + 1] = h
      BY <1>2, <1>3 DEF BackInv, AheadIsLinkedBack
    <3>2. h + 1 \in HeapBlocks => holders[h + 1] = 0
      BY <1>3 DEF HeapInv, AheadIsFree
    <3>. QED BY <3>1, <3>2 DEF used
  <2>5. PICK i \in 1 .. m : q[i] = h + 1
    BY <1>2, <2>2, <2>4
  <2>6. i # m /\ q[i + 1] = h
    BY <1>2, <2>2, <2>3, <2>4, <2>5
  <2>7. i = m - 1 /\ m >= 2 /\ m - 1 \in 1 .. Linked
    <3>1. i + 1 \in 1 .. m /\ m \in 1 .. m
      BY <2>3, <2>6
    <3>2. i + 1 = m
      BY <2>2, <2>6, <3>1
    <3>. QED BY <2>3, <3>2
  <2> DEFINE n == m - 1
             r == [k \in 1 .. n |-> q[k]]
  <2>8. /\ n \in 1 .. Linked /\ r \in [1 .. n -> Descriptors]
        /\ \A k \in 1 .. n : k \in 1 .. m /\ k # m /\ r[k] = q[k]
    BY <2>3, <2>7
  <2>. HIDE DEF n, r
  <2>9. n \in 1 .. n /\ q[n] = h + 1 /\ 1 \in 1 .. n /\ n = m - 1 /\ n \in Nat
    BY <2>5, <2>7, <2>3 DEF n
  <2>10. \A k, l \in 1 .. n : r[k] = r[l] => k = l
    BY <2>2, <2>8
  <2>11. r[1] = lastFree' /\ r[n] = firstFree'
    BY <1>2, <2>2, <2>8, <2>9
  <2>12. ASSUME NEW k \in 1 .. n PROVE prev'[r[k]] = IF k = n THEN Null ELSE r[k + 1]
    <3>1. q[k] \in Descriptors /\ q[k] # h
      BY <2>2, <2>3, <2>8
    <3>2. CASE k = n
      BY <1>2, <2>8, <2>9, <3>1, <3>2
    <3>3. CASE k # n
      <4>1. q[k] # h + 1
        BY <2>2, <2>8, <2>9, <3>3
      <4>2. prev'[q[k]] = prev[q[k]] /\ prev[q[k]] = q[k + 1]
        BY <1>2, <2>2, <2>8, <3>1, <4>1
      <4>3. k + 1 \in 1 .. n
        BY <2>9, <3>3
      <4>. QED BY <2>8, <3>3, <4>2, <4>3
    <3>. QED BY <3>2, <3>3
  <2>13. {r[k] : k \in 1 .. n} = Descriptors \ used'
    <3>1. ASSUME NEW c \in Descriptors \ used' PROVE \E k \in 1 .. n : r[k] = c
      <4>1. c # h /\ c \in Descriptors \ used
        BY <1>4
      <4>2. PICK k \in 1 .. m : q[k] = c
        BY <2>2, <4>1
      <4>3. k \in 1 .. n
        BY <2>2, <2>3, <2>9, <4>1, <4>2
      <4>. QED BY <2>8, <4>2, <4>3
    <3>2. ASSUME NEW k \in 1 .. n PROVE r[k] \in Descriptors \ used'
      <4>1. q[k] \in Descriptors \ used /\ q[k] # h
        BY <2>2, <2>3, <2>8
      <4>. QED BY <1>4, <2>8, <4>1
    <3>. QED BY <3>1, <3>2
  <2>14. IsFreeList(n, r)'
    BY <2>10, <2>11, <2>12, <2>13 DEF IsFreeList
  <2>. QED BY <2>8, <2>14 DEF HasFreeList
<1>7. firstFree' # Null
  BY <1>2, DescriptorFacts
<1>. QED BY <1>2, <1>5, <1>6, <1>7 DEF BackInv, Running

\* A block that is given back comes in front of the list read backwards.
LEMMA BackFree == ASSUME HeapInv, BackInv, NEW b \in HeapBlocks, Free(b) PROVE BackInv'
<1>1. /\ b \in used /\ holders[b] = 1 /\ b \in Descriptors
      /\ b \notin Ahead
  BY DescriptorFacts DEF Free, used, HeapInv, AheadIsFree, AtMostOneHolder
<1>2. /\ firstFree' = firstFree /\ lastFree' = b
      /\ prev' = [prev EXCEPT ![b] = lastFree]
      /\ prev \in DescLinks
      /\ UNCHANGED <<wild, status>>
  BY DEF Free, LinkLast, HeapInv, HeapTypeOK, DescLinks
<1>3. used' = used \ {b} /\ Ahead' = Ahead
  BY <1>1, <1>2 DEF Free, used, HeapInv, HeapTypeOK, Ahead
<1>4. AheadIsLinkedBack'
  <2>1. \A c \in Ahead : prev'[c] = prev[c]
    BY <1>1, <1>2 DEF Ahead, DescLinks
  <2>. QED BY <1>2, <1>3, <2>1 DEF AheadIsLinkedBack, BackInv
<1>5. ASSUME Running, ~ wild PROVE HasFreeList'
  <2>0. PICK m \in 1 .. Linked : \E q \in [1 .. m -> Descriptors] : IsFreeList(m, q)
    BY <1>5 DEF BackInv, HasFreeList
  <2>1. PICK q \in [1 .. m -> Descriptors] : IsFreeList(m, q)
    BY <2>0
  <2>2. /\ \A i, k \in 1 .. m : q[i] = q[k] => i = k
        /\ q[1] = lastFree /\ q[m] = firstFree
        /\ \A i \in 1 .. m : prev[q[i]] = IF i = m THEN Null ELSE q[i + 1]
        /\ {q[i] : i \in 1 .. m} = Descriptors \ used
    BY <2>1 DEF IsFreeList
  <2>3. Linked \in Nat /\ m \in 1 .. Linked /\ m \in Nat
    BY KHeapAssumption
  <2>4. \A i \in 1 .. m : q[i] # b
    BY <1>1, <2>2
  <2> DEFINE n == m + 1
             r == [k \in 1 .. n |-> IF k = 1 THEN b ELSE q[k - 1]]
  <2>5. /\ n \in Nat /\ n >= 2 /\ 1 \in 1 .. n /\ n \in 1 .. n
        /\ \A k \in 1 .. n : k # 1 => k - 1 \in 1 .. m
        /\ \A k \in 1 .. m : k + 1 \in 1 .. n /\ k + 1 # 1 /\ (k + 1) - 1 = k
        /\ n - 1 = m
    BY <2>3
  <2>6. r \in [1 .. n -> Descriptors]
    BY <1>1, <2>5
  <2>7. r[1] = b /\ \A k \in 1 .. n : k # 1 => r[k] = q[k - 1]
    BY <2>5
  <2>. HIDE DEF n, r
  <2>8. \A k, l \in 1 .. n : r[k] = r[l] => k = l
    <3> SUFFICES ASSUME NEW k \in 1 .. n, NEW l \in 1 .. n, r[k] = r[l] PROVE k = l
      OBVIOUS
    <3>1. (k = 1) <=> (l = 1)
      BY <2>4, <2>5, <2>7
    <3>2. CASE k # 1
      <4>1. k - 1 = l - 1
        BY <2>2, <2>5, <2>7, <3>1, <3>2
      <4>. QED BY <4>1, <2>5
    <3>. QED BY <3>1, <3>2
  <2>9. n \in 1 .. Linked
    <3>1. r \in Injection(1 .. n, Descriptors)
      BY <2>6, <2>8, Fun_IsInj
    <3>2. /\ IsFiniteSet(1 .. n) /\ Cardinality(1 .. n) = n
          /\ IsFiniteSet(Descriptors) /\ Cardinality(Descriptors) = Linked
      <4>1. 0 \in Int /\ Linked - 1 \in Int /\ 1 \in Int /\ n \in Int
        BY <2>3, <2>5
      <4>2. /\ IsFiniteSet(1 .. n)
            /\ Cardinality(1 .. n) = IF 1 > n THEN 0 ELSE n - 1 + 1
        BY <4>1, FS_Interval
      <4>3. /\ IsFiniteSet(0 .. Linked - 1)
            /\ Cardinality(0 .. Linked - 1)
                 = IF 0 > Linked - 1 THEN 0 ELSE (Linked - 1) - 0 + 1
        BY <4>1, FS_Interval
      <4>. QED BY <2>5, <4>2, <4>3, KHeapAssumption DEF Descriptors
    <3>3. n <= Linked
      BY <3>1, <3>2, FS_Injection
    <3>. QED BY <2>5, <3>3
  <2>10. r[1] = lastFree' /\ r[n] = firstFree'
    BY <1>2, <2>2, <2>5, <2>7
  <2>11. ASSUME NEW k \in 1 .. n PROVE prev'[r[k]] = IF k = n THEN Null ELSE r[k + 1]
    <3>1. CASE k = 1
      <4>1. prev'[b] = lastFree
        BY <1>1, <1>2 DEF DescLinks
      <4>2. 1 # n /\ 1 + 1 \in 1 .. n /\ 1 + 1 # 1 /\ (1 + 1) - 1 = 1
        BY <2>5
      <4>3. r[1 + 1] = q[1]
        BY <2>7, <4>2
      <4>. QED BY <2>2, <2>7, <3>1, <4>1, <4>2, <4>3
    <3>2. CASE k # 1
      <4>1. k - 1 \in 1 .. m /\ r[k] = q[k - 1] /\ q[k - 1] # b /\ q[k - 1] \in Descriptors
        BY <2>4, <2>5, <2>7, <3>2
      <4>2. prev'[r[k]] = IF k - 1 = m THEN Null ELSE q[(k - 1) + 1]
        BY <1>2, <2>2, <4>1 DEF DescLinks
      <4>3. (k - 1 = m) <=> (k = n)
        BY <2>5
      <4>4. k # n => r[k + 1] = q[(k - 1) + 1]
        <5>1. k # n => k + 1 \in 1 .. n /\ k + 1 # 1 /\ (k + 1) - 1 = (k - 1) + 1
          BY <2>5
        <5>. QED BY <2>7, <5>1
      <4>. QED BY <4>2, <4>3, <4>4
    <3>. QED BY <3>1, <3>2
  <2>12. {r[k] : k \in 1 .. n} = Descriptors \ used'
    <3>1. ASSUME NEW c \in Descriptors \ used' PROVE \E k \in 1 .. n : r[k] = c
      <4>1. CASE c = b
        BY <2>5, <2>7, <4>1
      <4>2. CASE c # b
        <5>1. PICK k \in 1 .. m : q[k] = c
          BY <1>3, <2>2, <4>2
        <5>2. k + 1 \in 1 .. n /\ r[k + 1] = c
          BY <2>5, <2>7, <5>1
        <5>. QED BY <5>2
      <4>. QED BY <4>1, <4>2
    <3>2. ASSUME NEW k \in 1 .. n PROVE r[k] \in Descriptors \ used'
      <4>1. CASE k = 1
        BY <1>1, <1>3, <2>7, <4>1
      <4>2. CASE k # 1
        BY <1>3, <2>2, <2>5, <2>7, <4>2
      <4>. QED BY <4>1, <4>2
    <3>. QED BY <3>1, <3>2
  <2>13. IsFreeList(n, r)'
    BY <2>8, <2>10, <2>11, <2>12 DEF IsFreeList
  <2>. QED BY <2>6, <2>9, <2>13 DEF HasFreeList
<1>. QED BY <1>2, <1>4, <1>5 DEF BackInv, Running

LEMMA BackStep == ASSUME HeapInv, BackInv, [HeapNext]_hvars PROVE BackInv'
<1>1. CASE AllocBlock
  BY <1>1, BackAllocBlock
<1>2. CASE AllocLastFaults \/ AllocLastLands
  <2>1. firstFree' = Null /\ (~ Running' \/ wild')
    BY <1>2 DEF AllocLastFaults, AllocLastLands, Unlink, Running
  <2>. QED BY <2>1 DEF BackInv, AheadIsLinkedBack, Ahead
<1>3. CASE AllocExpands
  BY <1>3 DEF AllocExpands, links, BackInv, AheadIsLinkedBack, Ahead
<1>4. ASSUME NEW b \in HeapBlocks, Free(b) PROVE BackInv'
  BY <1>4, BackFree
<1>5. CASE UNCHANGED hvars
  BY <1>5 DEF hvars, links, BackInv, Running, AheadIsLinkedBack, Ahead, HasFreeList, IsFreeList, used
<1>. QED BY <1>1, <1>2, <1>3, <1>4, <1>5 DEF HeapNext, Alloc

\* Read backwards from last_free, the list is exactly the blocks that nobody
\* holds, whatever is handed out and given back, for slabs of any size: the
\* links that kheap_alloc would need are there, in the direction it does not
\* read.
THEOREM BackwardListFree == HeapSpec => []BackwardListIsFreeList
<1>1. ASSUME HeapInv, BackInv PROVE BackwardListIsFreeList
  <2> SUFFICES ASSUME Running, ~ wild PROVE Chain(prev, lastFree) = Descriptors \ used
    BY DEF BackwardListIsFreeList
  <2>0. PICK m \in 1 .. Linked : \E q \in [1 .. m -> Descriptors] : IsFreeList(m, q)
    BY <1>1 DEF BackInv, HasFreeList
  <2>1. PICK q \in [1 .. m -> Descriptors] : IsFreeList(m, q)
    BY <2>0
  <2>2. prev \in DescLinks
    BY <1>1 DEF HeapInv, HeapTypeOK, DescLinks
  <2>3. \A i \in 1 .. m : prev[q[i]] = IF i = m THEN Null ELSE q[i + 1]
    BY <2>1 DEF IsFreeList
  <2>4. Chain(prev, q[1]) = {q[i] : i \in 1 .. m}
    BY <2>2, <2>3, ChainOf
  <2>. QED BY <2>1, <2>4 DEF IsFreeList
<1>2. HeapInit => BackInv
  BY BackAtInit
<1>3. HeapInv /\ BackInv /\ [HeapNext]_hvars => BackInv'
  BY BackStep
<1>. QED BY <1>1, <1>2, <1>3, HeapInvariant, PTL DEF HeapSpec
=============================================================================
