---------------------------- MODULE Paging_proofs ---------------------------
(* For every word size and size of memory, what the kernel's use of the      *)
(* frame map guarantees (KernelSpec of Imap); and for every layout of memory *)
(* and any requests of the kernel, resets of the machine included: no frame  *)
(* is lost, the frames in use are exclusive, every index of kernel space has *)
(* a table of its own, the pages that were asked for are present, and the    *)
(* frames that paging_init claims stay marked as taken.                      *)
EXTENDS Paging, SequenceTheorems, FiniteSetTheorems, WellFoundedInduction, TLAPS

-----------------------------------------------------------------------------
(* Words *)

\* An entry lies in its own word, and the first bit of the word is a number.
LEMMA WordBounds ==
    ASSUME NEW e \in Nat
    PROVE  /\ WordBase(e) \in Nat
           /\ WordBase(e) <= e
           /\ e < WordBase(e) + WordBits
           /\ e \in Word(e)
<1>1. WordBits \in Nat \ {0}
  BY ImapAssumption
<1>2. /\ e \div WordBits \in Nat
      /\ WordBits * (e \div WordBits) <= e
      /\ e < WordBits * (e \div WordBits) + WordBits
  BY <1>1, SMT
<1>3. WordBase(e) \in Nat
  BY <1>1, <1>2, SMT DEF WordBase
<1>4. QED
  BY <1>1, <1>2, <1>3, SMT DEF WordBase, Word

\* All entries of a word have the same word.
LEMMA SameWord ==
    ASSUME NEW e \in Nat, NEW f \in Nat, f \in Word(e)
    PROVE  WordBase(f) = WordBase(e) /\ Word(f) = Word(e)
<1> DEFINE q == e \div WordBits
           r == f \div WordBits
<1>1. WordBits \in Nat \ {0}
  BY ImapAssumption
<1>2. q \in Nat /\ r \in Nat
  BY <1>1, SMT
<1>3. WordBits * r <= f /\ f < WordBits * r + WordBits
  BY WordBounds DEF WordBase
<1>4. WordBits * q <= f /\ f < WordBits * q + WordBits
  <2>1. WordBase(e) <= f /\ f < WordBase(e) + WordBits
    BY <1>1, WordBounds DEF Word
  <2>2. WordBase(e) = WordBits * q
    BY DEF WordBase
  <2>3. QED
    BY <2>1, <2>2
<1> HIDE DEF q, r
<1>5. ~ (q < r)
  <2> SUFFICES ASSUME q < r PROVE FALSE
    OBVIOUS
  <2>1. q + 1 <= r
    BY <1>2
  <2>2. WordBits * (q + 1) <= WordBits * r
    BY <1>1, <1>2, <2>1, SMT
  <2>3. WordBits * (q + 1) = WordBits * q + WordBits
    BY <1>1, <1>2, SMT
  <2> QED
    BY <1>1, <1>2, <1>3, <1>4, <2>2, <2>3, SMT
<1>6. ~ (r < q)
  <2> SUFFICES ASSUME r < q PROVE FALSE
    OBVIOUS
  <2>1. r + 1 <= q
    BY <1>2
  <2>2. WordBits * (r + 1) <= WordBits * q
    BY <1>1, <1>2, <2>1, SMT
  <2>3. WordBits * (r + 1) = WordBits * r + WordBits
    BY <1>1, <1>2, SMT
  <2> QED
    BY <1>1, <1>2, <1>3, <1>4, <2>2, <2>3, SMT
<1>7. q = r
  BY <1>2, <1>5, <1>6
<1>8. WordBase(f) = WordBase(e)
  BY <1>7 DEF WordBase, q, r
<1>9. QED
  BY <1>8 DEF Word

\* A set of numbers that is not empty has a least element.
LEMMA LeastElement ==
    ASSUME NEW S \in SUBSET Nat, S # {}
    PROVE  \E o \in S : \A p \in S : o <= p
<1>1. IsWellFoundedOn(OpToRel(<, Nat), Nat)
  BY NatLessThanWellFounded
<1>2. PICK o \in S : \A p \in S : ~ (<<p, o>> \in OpToRel(<, Nat))
  BY <1>1, WFMin
<1>3. \A p \in S : ~ (p < o)
  BY <1>2 DEF OpToRel
<1>4. \A p \in S : o <= p
  <2> TAKE p \in S
  <2>1. p \in Nat /\ o \in Nat /\ ~ (p < o)
    BY <1>3
  <2>2. QED
    BY <2>1
<1>5. QED
  BY <1>4

\* In a word with room, get_first_set finds a bit that is clear.
LEMMA FirstClearIsClear ==
    ASSUME NEW b, NEW e \in Nat, ~ WordFull(b, e)
    PROVE  /\ FirstClear(b, e) \in 0 .. WordBits - 1
           /\ WordBase(e) + FirstClear(b, e) \notin b
<1>1. ClearOffsets(b, e) \in SUBSET Nat
  BY ImapAssumption DEF ClearOffsets
<1>2. ClearOffsets(b, e) # {}
  <2>1. PICK f \in Word(e) : f \notin b
    BY DEF WordFull
  <2>2. f - WordBase(e) \in 0 .. WordBits - 1 /\ WordBase(e) + (f - WordBase(e)) = f
    BY ImapAssumption, WordBounds, <2>1, SMT DEF Word
  <2>3. QED
    BY <2>1, <2>2 DEF ClearOffsets
<1>3. FirstClear(b, e) \in ClearOffsets(b, e)
  BY <1>1, <1>2, LeastElement DEF FirstClear
<1>4. QED
  BY <1>3 DEF ClearOffsets

\* An index with room, all indices before which are in full words, is the
\* first bit of its word: this is when imap_set_next adds up.
LEMMA FirstIndexWithRoomIsAligned ==
    ASSUME NEW b, NEW k \in Nat,
           \A i \in 0 .. k - 1 : WordFull(b, i),
           ~ WordFull(b, k)
    PROVE  WordBase(k) = k
<1> SUFFICES ASSUME WordBase(k) # k PROVE FALSE
  OBVIOUS
<1>1. WordBase(k) \in 0 .. k - 1
  BY WordBounds
<1>2. WordBase(k) \in Word(k)
  BY WordBounds, ImapAssumption, SMT DEF Word
<1>3. Word(WordBase(k)) = Word(k)
  BY <1>2, SameWord, WordBounds
<1>4. WordFull(b, WordBase(k))
  BY <1>1
<1>5. QED
  BY <1>3, <1>4 DEF WordFull

-----------------------------------------------------------------------------
(* The inductive invariant: the stack is what imap_create left of it, the    *)
(* last elements popped.                                                     *)

StackIsInitialPrefix == \A i \in 1 .. Len(stack) : stack[i] = InitialStack[i]

IInv ==
    /\ TypeOK
    /\ StackIsInitialPrefix
    /\ PassedIndicesAreFull
    /\ FailOnlyWhenScanned
    /\ RepeatsOnlyPastAFullWord

\* What Peek finds in a state of the invariant: nothing, a slot that the
\* claims of the video memory overwrote, or the number of pops so far.
LEMMA PeekIsPopped ==
    ASSUME TypeOK, StackIsInitialPrefix
    PROVE  /\ Popped \in 0 .. Size
           /\ Peek(stack) = Fail =>
                 stack = <<>> \/ (stack # <<>> /\ Len(stack) \in VideoSlots)
           /\ Peek(stack) # Fail =>
                 /\ stack # <<>>
                 /\ Peek(stack) = Popped
                 /\ Popped \in 0 .. Size - 1
<1>1. Len(stack) \in Nat /\ Len(stack) <= Size /\ Size \in Nat
  BY ImapAssumption, LenProperties DEF TypeOK
<1>2. Popped \in 0 .. Size
  BY <1>1 DEF Popped
<1>3. CASE stack = <<>>
  BY <1>2, <1>3 DEF Peek
<1>4. CASE stack # <<>>
  <2>1. Len(stack) \in 1 .. Size
    BY <1>1, <1>4, EmptySeq DEF TypeOK
  <2>2. Peek(stack) = InitialStack[Len(stack)]
    BY <1>1, <1>4, <2>1 DEF Peek, StackIsInitialPrefix
  <2>3. InitialStack[Len(stack)] =
            IF Len(stack) \in VideoSlots THEN Fail ELSE Size - Len(stack)
    BY <2>1 DEF InitialStack
  <2>4. Size - Len(stack) # Fail
    BY <1>1 DEF Fail
  <2>5. QED
    BY <1>1, <1>2, <1>4, <2>1, <2>2, <2>3, <2>4 DEF Popped
<1>5. QED
  BY <1>3, <1>4

-----------------------------------------------------------------------------

LEMMA InitIsInvariant == Init => IInv
<1> SUFFICES ASSUME Init PROVE IInv
  OBVIOUS
<1> USE DEF Init
<1>1. InitialStack \in [1 .. Size -> -1 .. Size - 1]
  BY ImapAssumption DEF InitialStack, Fail
<1>2. stack \in Seq(-1 .. Size - 1) /\ Len(stack) = Size
  BY <1>1, ImapAssumption, IsASeq, LenProperties
<1>3. TypeOK
  <2>1. 0 \in Entries
    BY ImapAssumption, SMT DEF Entries
  <2>2. QED
    BY <1>2, <2>1, ImapAssumption DEF TypeOK
<1>4. Popped = 0
  BY <1>2, ImapAssumption DEF Popped
<1>5. PassedIndicesAreFull
  BY <1>4 DEF PassedIndicesAreFull
<1>6. FailOnlyWhenScanned /\ RepeatsOnlyPastAFullWord /\ StackIsInitialPrefix
  BY DEF FailOnlyWhenScanned, Fail, RepeatsOnlyPastAFullWord, StackIsInitialPrefix
<1>7. QED
  BY <1>3, <1>5, <1>6 DEF IInv

\* What imap_set_next takes: past a full word the entry NoBit bits further on,
\* otherwise a clear bit of the word of the index.
LEMMA NextEntryCases ==
    ASSUME IInv, Peek(stack) # Fail
    PROVE  /\ NextEntry \in Entries
           /\ WordFull(bits, Popped) => NextEntry = Popped + NoBit
           /\ ~ WordFull(bits, Popped) =>
                 NextEntry \notin bits /\ Word(NextEntry) = Word(Popped)
<1> DEFINE k == Popped
<1>1. k \in 0 .. Size - 1 /\ Peek(stack) = k
  BY PeekIsPopped DEF IInv
<1>2. k \in Nat /\ Size \in Nat /\ k <= Size - 1
  BY <1>1, ImapAssumption
<1>3. NextEntry = k + FirstClear(bits, k)
  BY <1>1 DEF NextEntry
<1>4. CASE WordFull(bits, k)
  <2>1. NextEntry = k + NoBit
    BY <1>3, <1>4 DEF FirstClear
  <2>2. Size * Ratio \in Nat
    BY ImapAssumption, SMT
  <2>3. NextEntry \in Entries
    BY <2>1, <2>2, <1>2, ImapAssumption DEF Entries
  <2>4. QED
    BY <1>4, <2>1, <2>3
<1>5. CASE ~ WordFull(bits, k)
  <2>1. WordBase(k) = k
    BY <1>2, <1>5, FirstIndexWithRoomIsAligned DEF IInv, PassedIndicesAreFull
  <2>2. FirstClear(bits, k) \in 0 .. WordBits - 1 /\ NextEntry \notin bits
    BY <1>2, <1>3, <1>5, <2>1, FirstClearIsClear
  <2>3. NextEntry \in Word(k) /\ NextEntry \in Nat
    BY <1>2, <1>3, <2>1, <2>2, ImapAssumption DEF Word
  <2>4. Word(NextEntry) = Word(k)
    BY <1>2, <2>3, SameWord
  <2>5. Size * Ratio \in Nat
    BY ImapAssumption, SMT
  <2>6. NextEntry \in Entries
    BY <1>2, <1>3, <2>2, <2>5, ImapAssumption DEF Entries
  <2>7. QED
    BY <1>5, <2>2, <2>4, <2>6
<1>6. QED
  BY <1>4, <1>5

\* stack_pop removes the top element and leaves the others in place.
LEMMA PopProperties ==
    ASSUME NEW S, NEW s \in Seq(S), s # <<>>
    PROVE  /\ Pop(s) \in Seq(S)
           /\ Len(Pop(s)) = Len(s) - 1
           /\ \A i \in 1 .. Len(Pop(s)) : Pop(s)[i] = s[i]
<1> DEFINE n == Len(s) - 1
<1>1. Len(s) \in Nat /\ Len(s) # 0
  BY EmptySeq, LenProperties
<1>2. n \in Nat /\ n \in Int /\ 1 \in Int /\ \A i \in 1 .. n : i \in 1 .. Len(s)
  BY <1>1
<1>3. \A i \in 1 .. n : s[i] \in S
  BY <1>2, ElementOfSeq
<1> HIDE DEF n
<1>4. /\ SubSeq(s, 1, n) \in Seq(S)
      /\ Len(SubSeq(s, 1, n)) = IF 1 <= n THEN n - 1 + 1 ELSE 0
      /\ \A i \in 1 .. n - 1 + 1 : SubSeq(s, 1, n)[i] = s[1 + i - 1]
  BY <1>2, <1>3, SubSeqProperties
<1>5. Len(SubSeq(s, 1, n)) = n /\ \A i \in 1 .. n : SubSeq(s, 1, n)[i] = s[i]
  BY <1>2, <1>4
<1>6. Pop(s) = SubSeq(s, 1, n)
  BY DEF Pop, n
<1>7. QED
  BY <1>4, <1>5, <1>6 DEF n

\* Taking an entry leaves the stack a prefix, pops at most one index, and that
\* only when its word is full.
LEMMA TakeEntryStack ==
    ASSUME IInv, Peek(stack) # Fail, TakeEntry(NextEntry)
    PROVE  /\ bits' = bits \cup {NextEntry}
           /\ stack' \in Seq(-1 .. Size - 1)
           /\ Len(stack') <= Size
           /\ StackIsInitialPrefix'
           /\ Popped' \in {Popped, Popped + 1}
           /\ Popped' = Popped + 1 => WordFull(bits', Popped)
<1>1. stack # <<>> /\ Popped \in 0 .. Size - 1
  BY PeekIsPopped DEF IInv
<1>2. stack \in Seq(-1 .. Size - 1) /\ Len(stack) \in Nat /\ Len(stack) <= Size
  BY LenProperties DEF IInv, TypeOK
<1>3. Len(stack) \in Nat \ {0}
  BY <1>1, <1>2, EmptySeq
<1>4. bits' = bits \cup {NextEntry}
  BY DEF TakeEntry
<1>5. CASE WordFull(bits', NextEntry)
  <2>1. stack' = Pop(stack)
    BY <1>5 DEF TakeEntry
  <2>2. /\ stack' \in Seq(-1 .. Size - 1)
        /\ Len(stack') = Len(stack) - 1
        /\ \A i \in 1 .. Len(stack') : stack'[i] = stack[i]
    BY <1>1, <1>2, <2>1, PopProperties
  <2>3. StackIsInitialPrefix'
    <3>1. \A i \in 1 .. Len(stack') : i \in 1 .. Len(stack)
      BY <1>2, <1>3, <2>2
    <3>2. \A i \in 1 .. Len(stack') : stack'[i] = InitialStack[i]
      BY <2>2, <3>1 DEF IInv, StackIsInitialPrefix
    <3>3. QED
      BY <3>2 DEF StackIsInitialPrefix, InitialStack
  <2>4. Popped' = Popped + 1
    BY <1>2, <1>3, <2>2, ImapAssumption DEF Popped
  <2>5. WordFull(bits', Popped)
    BY <1>4, <1>5, NextEntryCases DEF WordFull
  <2>6. Len(stack') <= Size
    BY <1>2, <1>3, <2>2, ImapAssumption
  <2>7. QED
    BY <1>4, <2>2, <2>3, <2>4, <2>5, <2>6
<1>6. CASE ~ WordFull(bits', NextEntry)
  <2>1. stack' = stack
    BY <1>6 DEF TakeEntry
  <2>2. Popped' = Popped /\ Popped # Popped + 1
    BY <1>1, <2>1 DEF Popped
  <2>3. QED
    BY <1>2, <1>4, <2>1, <2>2 DEF IInv, StackIsInitialPrefix, InitialStack
<1>7. QED
  BY <1>5, <1>6

\* A full word stays full while bits are only set.
LEMMA FullStaysFull ==
    ASSUME NEW b, NEW c, b \subseteq c, NEW e, WordFull(b, e)
    PROVE  WordFull(c, e)
BY DEF WordFull

-----------------------------------------------------------------------------

LEMMA SetNextEntryStep == IInv /\ SetNextEntry => IInv'
<1> SUFFICES ASSUME IInv, SetNextEntry PROVE IInv'
  OBVIOUS
<1> DEFINE e == NextEntry
<1>1. Peek(stack) # Fail /\ TakeEntry(e) /\ answer' = e
  BY DEF SetNextEntry
<1>2. /\ bits' = bits \cup {e}
      /\ stack' \in Seq(-1 .. Size - 1)
      /\ Len(stack') <= Size
      /\ StackIsInitialPrefix'
      /\ Popped' \in {Popped, Popped + 1}
      /\ Popped' = Popped + 1 => WordFull(bits', Popped)
  BY <1>1, TakeEntryStack
<1>3. Popped \in 0 .. Size - 1
  BY <1>1, PeekIsPopped DEF IInv
<1>4. e \in Entries
  BY <1>1, NextEntryCases
<1>5. TypeOK'
  <2>1. repeats' \subseteq Entries
    BY <1>4 DEF SetNextEntry, IInv, TypeOK
  <2>2. QED
    BY <1>1, <1>2, <1>4, <2>1 DEF IInv, TypeOK
<1>6. PassedIndicesAreFull'
  <2>1. \A i \in 0 .. Popped - 1 : WordFull(bits', i)
    BY <1>2, FullStaysFull DEF IInv, PassedIndicesAreFull
  <2>2. \A i \in 0 .. Popped' - 1 : WordFull(bits', i)
    <3>1. CASE Popped' = Popped
      BY <2>1, <3>1
    <3>2. CASE Popped' = Popped + 1
      <4>1. \A i \in 0 .. Popped' - 1 : i \in 0 .. Popped - 1 \/ i = Popped
        BY <1>3, <3>2
      <4>2. QED
        BY <1>2, <2>1, <3>2, <4>1
    <3>3. QED
      BY <1>2, <3>1, <3>2
  <2>3. QED
    BY <2>2 DEF PassedIndicesAreFull, WordFull, Word, WordBase
<1>7. FailOnlyWhenScanned'
  <2>1. answer' # Fail
    BY <1>1, <1>4, ImapAssumption DEF Entries, Fail
  <2>2. QED
    BY <2>1 DEF FailOnlyWhenScanned, Fail
<1>8. RepeatsOnlyPastAFullWord'
  <2> SUFFICES ASSUME NEW r \in repeats'
               PROVE  /\ r >= NoBit
                      /\ WordFull(bits', r - NoBit)
                      /\ WordFull(bits', 0)
    BY DEF RepeatsOnlyPastAFullWord, WordFull, Word, WordBase
  <2>1. CASE r \in repeats
    BY <1>2, <2>1, FullStaysFull DEF IInv, RepeatsOnlyPastAFullWord
  <2>2. CASE r \notin repeats
    <3>1. r = e /\ e \in bits
      BY <2>2 DEF SetNextEntry
    <3>2. WordFull(bits, Popped) /\ e = Popped + NoBit
      BY <1>1, <3>1, NextEntryCases
    <3>3. e >= NoBit /\ e - NoBit = Popped
      BY <1>3, <3>2, ImapAssumption
    <3>4. WordFull(bits, 0)
      <4>1. CASE Popped = 0
        BY <3>2, <4>1
      <4>2. CASE Popped # 0
        BY <1>3, <4>2 DEF IInv, PassedIndicesAreFull
      <4>3. QED
        BY <4>1, <4>2
    <3>5. QED
      BY <1>2, <3>1, <3>2, <3>3, <3>4, FullStaysFull
  <2>3. QED
    BY <2>1, <2>2
<1>9. QED
  BY <1>2, <1>5, <1>6, <1>7, <1>8 DEF IInv

LEMMA SetNextExhaustedStep == IInv /\ SetNextExhausted => IInv'
<1> SUFFICES ASSUME IInv, SetNextExhausted PROVE IInv'
  OBVIOUS
<1> USE DEF SetNextExhausted
<1>1. Popped \in 0 .. Size
  BY PeekIsPopped DEF IInv
<1>2. \A i \in 0 .. Popped - 1 : i \in bits
  <2> SUFFICES ASSUME NEW i \in 0 .. Popped - 1 PROVE i \in bits
    OBVIOUS
  <2>1. WordFull(bits, i) /\ i \in Nat
    BY <1>1 DEF IInv, PassedIndicesAreFull
  <2>2. QED
    BY <2>1, WordBounds DEF WordFull
<1>3. FailOnlyWhenScanned'
  <2>1. CASE stack = <<>>
    <3>1. Popped = Size
      BY <2>1, ImapAssumption DEF Popped
    <3>2. \A v \in VideoSlots : 0 .. Size - v - 1 \subseteq 0 .. Size - 1
      BY ImapAssumption
    <3>3. 0 .. Size - 1 \subseteq bits
      BY <1>2, <3>1
    <3>4. QED
      BY <3>2, <3>3 DEF FailOnlyWhenScanned
  <2>2. CASE stack # <<>>
    <3>1. Len(stack) \in VideoSlots
      BY <2>2, PeekIsPopped DEF IInv
    <3>2. 0 .. Size - Len(stack) - 1 \subseteq bits
      BY <1>2 DEF Popped
    <3>3. QED
      BY <3>1, <3>2 DEF FailOnlyWhenScanned
  <2>3. QED
    BY <2>1, <2>2
<1>4. TypeOK'
  BY DEF IInv, TypeOK
<1>5. QED
  BY <1>3, <1>4 DEF IInv, StackIsInitialPrefix, InitialStack, PassedIndicesAreFull,
                    Popped, RepeatsOnlyPastAFullWord, WordFull, Word, WordBase

LEMMA ClaimStep ==
    ASSUME IInv, NEW e \in Claimable, Claim(e)
    PROVE  IInv'
<1> USE DEF Claim
<1>1. bits \subseteq bits'
  OBVIOUS
<1>2. Popped' = Popped
  BY DEF Popped
<1>3. TypeOK'
  BY ImapAssumption DEF IInv, TypeOK
<1>4. PassedIndicesAreFull'
  <2>1. \A i \in 0 .. Popped - 1 : WordFull(bits', i)
    BY <1>1, FullStaysFull DEF IInv, PassedIndicesAreFull
  <2>2. QED
    BY <1>2, <2>1 DEF PassedIndicesAreFull, WordFull, Word, WordBase
<1>5. FailOnlyWhenScanned'
  BY DEF IInv, FailOnlyWhenScanned
<1>6. RepeatsOnlyPastAFullWord'
  <2>1. \A r \in repeats : /\ r >= NoBit
                           /\ WordFull(bits', r - NoBit)
                           /\ WordFull(bits', 0)
    BY <1>1, FullStaysFull DEF IInv, RepeatsOnlyPastAFullWord
  <2>2. QED
    BY <2>1 DEF RepeatsOnlyPastAFullWord, WordFull, Word, WordBase
<1>7. QED
  BY <1>3, <1>4, <1>5, <1>6 DEF IInv, StackIsInitialPrefix, InitialStack

\* Every step of a kernel that claims frames and asks for frames, and gives
\* none back, preserves the inductive invariant.
LEMMA KernelStep == IInv /\ [KernelNext]_vars => IInv'
<1> SUFFICES ASSUME IInv, [KernelNext]_vars PROVE IInv'
  OBVIOUS
<1>1. CASE SetNextEntry
  BY <1>1, SetNextEntryStep
<1>2. CASE SetNextExhausted
  BY <1>2, SetNextExhaustedStep
<1>3. ASSUME NEW e \in Claimable, Claim(e) PROVE IInv'
  BY <1>3, ClaimStep
<1>4. CASE UNCHANGED vars
  BY <1>4 DEF vars, IInv, TypeOK, StackIsInitialPrefix, InitialStack,
              PassedIndicesAreFull, FailOnlyWhenScanned, Popped,
              RepeatsOnlyPastAFullWord, WordFull, Word, WordBase
<1>5. QED
  BY <1>1, <1>2, <1>3, <1>4 DEF KernelNext, SetNext

-----------------------------------------------------------------------------

\* In every state the frame map reaches, whatever frames the kernel claims and
\* however many it asks for, the inductive invariant holds.
THEOREM KernelInvariant == KernelSpec => []IInv
<1>1. Init => IInv
  BY InitIsInvariant
<1>2. IInv /\ [KernelNext]_vars => IInv'
  BY KernelStep
<1>3. QED
  BY <1>1, <1>2, PTL DEF KernelSpec

\* The entries of imap_set_next are bits of the bitmap and the stack stays
\* within its array, of Size elements.
THEOREM TypeCorrect == KernelSpec => []TypeOK
<1>1. IInv => TypeOK
  BY DEF IInv
<1>2. QED
  BY <1>1, KernelInvariant, PTL

\* The frame map passes over no free frame below the index it has come to.
THEOREM NothingPassedOver == KernelSpec => []PassedIndicesAreFull
<1>1. IInv => PassedIndicesAreFull
  BY DEF IInv
<1>2. QED
  BY <1>1, KernelInvariant, PTL

\* imap_set_next answers -1 only after it has seen every frame taken.
THEOREM FailureIsExhaustion == KernelSpec => []FailOnlyWhenScanned
<1>1. IInv => FailOnlyWhenScanned
  BY DEF IInv
<1>2. QED
  BY <1>1, KernelInvariant, PTL

\* A frame is handed out twice only past a full word: while the first word of
\* the bitmap has a clear bit, nobody gets a frame that somebody has.
THEOREM RepeatsNeedAFullWord == KernelSpec => []RepeatsOnlyPastAFullWord
<1>1. IInv => RepeatsOnlyPastAFullWord
  BY DEF IInv
<1>2. QED
  BY <1>1, KernelInvariant, PTL

-----------------------------------------------------------------------------
(* Types *)

PageT == [present : BOOLEAN, frame : Nat]

EntryType == [TableIds -> [0 .. TableSize - 1 -> PageT]]

JobType == [op    : {"idle", "claim", "touch", "alloc", "free"},
            dir   : AllDirs,
            pages : Seq(Nat),
            frame : Nat]

PagingShape ==
    /\ bits \subseteq Entries
    /\ stack \in Seq(-1 .. Size - 1)
    /\ Len(stack) <= Size + 1
    /\ tables \in [AllDirs -> [TableIndices -> TableIds \cup {NoTable}]]
    /\ entry \in EntryType
    /\ made \in 0 .. MaxTables
    /\ boot \in 1 .. 7
    /\ job \in JobType
    /\ left \subseteq Nat

(* The slot of the page that the loop is at. *)
Page == Head(job.pages)

Here == <<TableOf(job.dir, Page), Page % TableSize>>

LEMMA SlotAt ==
    ASSUME PagingShape, NEW op, NextPage(op)
    PROVE  /\ Page \in Nat
           /\ Here \in Slots
           /\ EntryOf(job.dir, Page) = entry[Here[1]][Here[2]]
           /\ EntryOf(job.dir, Page) \in PageT
           /\ EntryOf(job.dir, Page).frame = FrameOf(Here)
<1>1. Page \in Nat
  BY HeadTailProperties DEF NextPage, Page, PagingShape, JobType
<1>2. Page % TableSize \in 0 .. TableSize - 1
  BY <1>1, PagingAssumption, SMT
<1>3. TableOf(job.dir, Page) \in TableIds
  BY DEF NextPage, Page
<1>4. Here \in Slots /\ Here[1] = TableOf(job.dir, Page) /\ Here[2] = Page % TableSize
  BY <1>2, <1>3 DEF Here, Slots
<1>5. EntryOf(job.dir, Page) = entry[Here[1]][Here[2]]
  BY <1>4 DEF EntryOf
<1>6. entry[Here[1]][Here[2]] \in PageT
  BY <1>2, <1>3, <1>4 DEF PagingShape, EntryType
<1>. QED BY <1>1, <1>4, <1>5, <1>6 DEF FrameOf

LEMMA SetEntryHere ==
    ASSUME PagingShape, Here \in Slots, NEW e \in PageT,
           SetEntry(job.dir, Page, e)
    PROVE  /\ entry' \in EntryType
           /\ \A s \in Slots : FrameOf(s)' = IF s = Here THEN e.frame ELSE FrameOf(s)
<1>1. /\ Here[1] \in TableIds /\ Here[2] \in 0 .. TableSize - 1
      /\ Here = <<Here[1], Here[2]>>
      /\ entry' = [entry EXCEPT ![Here[1]][Here[2]] = e]
  BY DEF Here, Slots, SetEntry
<1>2. entry \in EntryType
  BY DEF PagingShape
<1>3. entry' \in EntryType
  BY <1>1, <1>2 DEF EntryType
<1>4. \A t \in TableIds, j \in 0 .. TableSize - 1 :
         entry'[t][j] = IF t = Here[1] /\ j = Here[2] THEN e ELSE entry[t][j]
  BY <1>1, <1>2 DEF EntryType
<1>5. \A s \in Slots : /\ s[1] \in TableIds /\ s[2] \in 0 .. TableSize - 1
                       /\ s = Here <=> (s[1] = Here[1] /\ s[2] = Here[2])
  BY <1>1 DEF Slots
<1>. QED BY <1>3, <1>4, <1>5 DEF FrameOf

LEMMA GetPageTables ==
    ASSUME PagingShape, NEW op, NextPage(op)
    PROVE  /\ tables' \in [AllDirs -> [TableIndices -> TableIds \cup {NoTable}]]
           /\ made' \in 0 .. MaxTables
           /\ \A d \in AllDirs, i \in TableIndices :
                 tables'[d][i] = IF d = job.dir /\ i = Page \div TableSize
                                 THEN TableOf(d, Page) ELSE tables[d][i]
<1>1. /\ TableOf(job.dir, Page) \in TableIds
      /\ tables' = [tables EXCEPT ![job.dir][Page \div TableSize] = TableOf(job.dir, Page)]
      /\ made' = IF tables[job.dir][Page \div TableSize] = NoTable THEN made + 1 ELSE made
  BY DEF NextPage, GetPage, Page
<1>2. /\ tables \in [AllDirs -> [TableIndices -> TableIds \cup {NoTable}]]
      /\ made \in 0 .. MaxTables /\ MaxTables \in Nat
      /\ job.dir \in AllDirs
  BY PagingAssumption DEF PagingShape, JobType
<1>3. made' \in 0 .. MaxTables
  BY <1>1, <1>2 DEF TableOf, TableIds
<1>. HIDE DEF Page
<1>4. \A d \in AllDirs, i \in TableIndices :
         tables'[d][i] = IF d = job.dir /\ i = Page \div TableSize
                         THEN TableOf(job.dir, Page) ELSE tables[d][i]
  BY <1>1, <1>2
<1>5. tables' \in [AllDirs -> [TableIndices -> TableIds \cup {NoTable}]]
  BY <1>1, <1>2
<1>. QED BY <1>3, <1>4, <1>5

LEMMA AdvanceJob ==
    ASSUME PagingShape, NEW op, NextPage(op), Advance
    PROVE  /\ job' \in JobType
           /\ job'.op = job.op /\ job'.dir = job.dir
           /\ job'.frame = job.frame + 1
           /\ job'.pages = Tail(job.pages)
           /\ Len(job'.pages) = Len(job.pages) - 1
           /\ \A k \in 1 .. Len(job'.pages) : job'.pages[k] = job.pages[k + 1]
<1>1. job = [op |-> job.op, dir |-> job.dir, pages |-> job.pages, frame |-> job.frame]
  BY DEF PagingShape, JobType
<1>2. job' = [op |-> job.op, dir |-> job.dir, pages |-> Tail(job.pages),
              frame |-> job.frame + 1]
  BY <1>1 DEF Advance
<1>3. /\ Tail(job.pages) \in Seq(Nat)
      /\ Len(Tail(job.pages)) = Len(job.pages) - 1
      /\ \A k \in 1 .. Len(Tail(job.pages)) : Tail(job.pages)[k] = job.pages[k + 1]
  BY HeadTailProperties DEF PagingShape, JobType, NextPage
<1>. QED BY <1>2, <1>3 DEF PagingShape, JobType

-----------------------------------------------------------------------------
(* The frame map, as the loops use it *)

LEMMA NextEntryIsAnEntry ==
    ASSUME PagingShape, Peek(stack) # Fail
    PROVE  stack # <<>> /\ NextEntry \in Entries
<1>1. stack # <<>>
  BY DEF Peek
<1>2. Len(stack) \in 1 .. Len(stack)
  BY <1>1, EmptySeq, LenProperties DEF PagingShape
<1>3. stack[Len(stack)] \in -1 .. Size - 1
  BY <1>2, ElementOfSeq DEF PagingShape
<1>4. Peek(stack) \in 0 .. Size - 1
  BY <1>1, <1>3, ImapAssumption DEF Peek, Fail
<1>5. FirstClear(bits, Peek(stack)) \in 0 .. NoBit
  <2>1. CASE WordFull(bits, Peek(stack))
    BY <2>1, ImapAssumption DEF FirstClear
  <2>2. CASE ~ WordFull(bits, Peek(stack))
    <3>1. FirstClear(bits, Peek(stack)) \in 0 .. WordBits - 1
      BY <1>4, <2>2, FirstClearIsClear
    <3>. QED BY <3>1, ImapAssumption
  <2>. QED BY <2>1, <2>2
<1>6. Peek(stack) + FirstClear(bits, Peek(stack)) \in 0 .. Size - 1 + NoBit
  BY <1>4, <1>5, ImapAssumption
<1>7. Size * Ratio \in Nat
  BY ImapAssumption, SMT
<1>. QED BY <1>1, <1>6, <1>7, ImapAssumption DEF NextEntry, Entries

LEMMA SetNextEffect ==
    ASSUME PagingShape, SetNext
    PROVE  /\ bits' \subseteq Entries
           /\ stack' \in Seq(-1 .. Size - 1) /\ Len(stack') <= Size + 1
           /\ repeats \subseteq repeats'
           /\ \/ answer' = Fail /\ bits' = bits
              \/ /\ answer' \in Entries
                 /\ bits' = bits \cup {answer'}
                 /\ answer' \in bits => answer' \in repeats'
<1>1. CASE SetNextExhausted
  BY <1>1 DEF SetNextExhausted, PagingShape
<1>2. CASE SetNextEntry
  <2>1. stack # <<>> /\ NextEntry \in Entries
    BY <1>2, NextEntryIsAnEntry DEF SetNextEntry
  <2>2. /\ answer' = NextEntry
        /\ bits' = bits \cup {NextEntry}
        /\ repeats' = IF NextEntry \in bits THEN repeats \cup {NextEntry} ELSE repeats
        /\ stack' = stack \/ stack' = Pop(stack)
    BY <1>2 DEF SetNextEntry, TakeEntry
  <2>3. Pop(stack) \in Seq(-1 .. Size - 1) /\ Len(Pop(stack)) = Len(stack) - 1
    BY <2>1, PopProperties DEF PagingShape
  <2>4. Len(stack) \in Nat /\ Len(stack) <= Size + 1
    BY LenProperties DEF PagingShape
  <2>5. stack' \in Seq(-1 .. Size - 1) /\ Len(stack') <= Size + 1
    BY <2>2, <2>3, <2>4, ImapAssumption DEF PagingShape
  <2>6. bits' \subseteq Entries
    BY <2>1, <2>2 DEF PagingShape
  <2>. QED BY <2>1, <2>2, <2>5, <2>6
<1>. QED BY <1>1, <1>2 DEF SetNext

(* The number of the word of an entry is a number of the stack. *)
LEMMA WordNumber ==
    ASSUME NEW e \in Entries
    PROVE  e \div WordBits \in -1 .. Size - 1
<1>1. /\ Size \in Nat \ {0} /\ Ratio \in Nat \ {0} /\ WordBits \in Nat \ {0}
      /\ Ratio <= WordBits
  BY ImapAssumption, PagingAssumption
<1> DEFINE q == e \div WordBits
<1>2. e \in Nat /\ e < Size * Ratio
  BY <1>1, SMT DEF Entries
<1>3. q \in Nat /\ WordBits * q <= e
  BY <1>1, <1>2, SMT
<1>4. Size * Ratio <= Size * WordBits
  BY <1>1, SMT
<1>5. Size * Ratio \in Nat /\ Size * WordBits \in Nat /\ WordBits * q \in Nat
  BY <1>1, <1>3, SMT
<1>6. WordBits * q < Size * WordBits
  BY <1>2, <1>3, <1>4, <1>5, SMT
<1>. HIDE DEF q
<1>7. q < Size
  <2> SUFFICES ASSUME q >= Size PROVE FALSE
    BY <1>1, <1>3
  <2>1. WordBits * q >= WordBits * Size
    BY <1>1, <1>3, SMT
  <2>2. WordBits * Size = Size * WordBits
    BY <1>1, SMT
  <2>. QED BY <1>5, <1>6, <2>1, <2>2
<1>. QED BY <1>1, <1>3, <1>7 DEF q

LEMMA ClearEffect ==
    ASSUME PagingShape, NEW f \in Nat, Clear(f)
    PROVE  /\ bits' = bits \ {f}
           /\ stack' \in Seq(-1 .. Size - 1) /\ Len(stack') <= Size + 1
           /\ UNCHANGED <<answer, repeats>>
<1>1. Len(stack) \in Nat /\ stack \in Seq(-1 .. Size - 1) /\ Len(stack) <= Size + 1
  BY LenProperties DEF PagingShape
<1>2. CASE ~ WordFull(bits, f)
  BY <1>1, <1>2 DEF Clear
<1>3. CASE WordFull(bits, f)
  <2>1. f \in Entries
    BY <1>3, WordBounds DEF WordFull, PagingShape
  <2>2. f \div WordBits \in -1 .. Size - 1
    BY <2>1, WordNumber
  <2> DEFINE w == f \div WordBits
  <2>. HIDE DEF w
  <2>3. /\ Append(stack, w) \in Seq(-1 .. Size - 1)
        /\ Len(Append(stack, w)) = Len(stack) + 1
    BY <1>1, <2>2, AppendProperties DEF w
  <2>4. Push(stack, w) \in Seq(-1 .. Size - 1)
    BY <1>1, <2>3 DEF Push
  <2>5. Len(Push(stack, w)) <= Size + 1
    BY <1>1, <2>3, ImapAssumption DEF Push
  <2>. QED BY <1>3, <2>4, <2>5 DEF Clear, w
<1>. QED BY <1>2, <1>3

-----------------------------------------------------------------------------
(* What the step of a loop does to the frame map and the entries *)

(* The entry that the loop is at gets the frame f; no other changes.         *)
Puts(f) == \A s \in Slots : FrameOf(s)' = IF s = Here THEN f ELSE FrameOf(s)

LEMMA ClaimEffect ==
    ASSUME PagingShape, ClaimPage
    PROVE  /\ PagingShape'
           /\ UNCHANGED <<repeats, left, boot>>
           /\ \/ FrameOf(Here) # 0 /\ UNCHANGED <<bits, entry>>
              \/ /\ FrameOf(Here) = 0
                 /\ bits' = IF job.frame \in Entries THEN bits \cup {job.frame} ELSE bits
                 /\ Puts(job.frame)
<1>1. NextPage("claim") /\ Advance
  BY DEF ClaimPage
<1>2. /\ EntryOf(job.dir, Page).frame = FrameOf(Here)
      /\ Here \in Slots
  BY <1>1, SlotAt
<1>3. /\ tables' \in [AllDirs -> [TableIndices -> TableIds \cup {NoTable}]]
      /\ made' \in 0 .. MaxTables
      /\ job' \in JobType
  BY <1>1, GetPageTables, AdvanceJob
<1>4. job.frame \in Nat
  BY DEF PagingShape, JobType
<1>5. CASE EntryOf(job.dir, Page).frame # 0
  BY <1>2, <1>3, <1>5 DEF ClaimPage, PagingShape, Page
<1>6. CASE EntryOf(job.dir, Page).frame = 0
  <2>1. /\ bits' = IF job.frame \in Entries THEN bits \cup {job.frame} ELSE bits
        /\ SetEntry(job.dir, Page, [present |-> TRUE, frame |-> job.frame])
    BY <1>6 DEF ClaimPage, Page
  <2>2. [present |-> TRUE, frame |-> job.frame] \in PageT
    BY <1>4 DEF PageT
  <2>3. entry' \in EntryType /\ Puts(job.frame)
    BY <1>2, <2>1, <2>2, SetEntryHere DEF Puts
  <2>4. bits' \subseteq Entries
    BY <2>1 DEF PagingShape
  <2>. QED BY <1>2, <1>3, <1>6, <2>1, <2>3, <2>4 DEF ClaimPage, PagingShape
<1>. QED BY <1>5, <1>6

LEMMA AllocEffect ==
    ASSUME PagingShape, AllocPage
    PROVE  /\ PagingShape'
           /\ UNCHANGED <<left, boot>>
           /\ repeats \subseteq repeats'
           /\ \/ UNCHANGED <<bits, entry>>
              \/ \E f \in Entries : /\ FrameOf(Here) = 0
                                    /\ bits' = bits \cup {f}
                                    /\ f \in bits => f \in repeats'
                                    /\ Puts(f)
<1>1. NextPage("alloc") /\ Advance
  BY DEF AllocPage
<1>2. /\ EntryOf(job.dir, Page).frame = FrameOf(Here)
      /\ Here \in Slots
  BY <1>1, SlotAt
<1>3. /\ tables' \in [AllDirs -> [TableIndices -> TableIds \cup {NoTable}]]
      /\ made' \in 0 .. MaxTables
      /\ job' \in JobType
  BY <1>1, GetPageTables, AdvanceJob
<1>4. CASE EntryOf(job.dir, Page).frame # 0
  BY <1>3, <1>4 DEF AllocPage, PagingShape, Page
<1>5. CASE EntryOf(job.dir, Page).frame = 0
  <2>1. SetNext
    BY <1>5 DEF AllocPage, Page
  <2>2. /\ bits' \subseteq Entries
        /\ stack' \in Seq(-1 .. Size - 1) /\ Len(stack') <= Size + 1
        /\ repeats \subseteq repeats'
        /\ \/ answer' = Fail /\ bits' = bits
           \/ /\ answer' \in Entries
              /\ bits' = bits \cup {answer'}
              /\ answer' \in bits => answer' \in repeats'
    BY <2>1, SetNextEffect
  <2>3. CASE answer' = Fail
    <3>1. Fail \notin Entries
      BY DEF Fail, Entries
    <3>2. UNCHANGED <<bits, entry>>
      BY <1>5, <2>2, <2>3, <3>1 DEF AllocPage, Page
    <3>. QED BY <1>3, <2>2, <3>2 DEF AllocPage, PagingShape
  <2>4. CASE answer' # Fail
    <3>1. /\ answer' \in Entries
          /\ bits' = bits \cup {answer'}
          /\ answer' \in bits => answer' \in repeats'
      BY <2>2, <2>4
    <3>2. SetEntry(job.dir, Page, [present |-> TRUE, frame |-> answer'])
      BY <1>5, <2>4 DEF AllocPage, Page
    <3>3. [present |-> TRUE, frame |-> answer'] \in PageT
      BY <3>1 DEF PageT, Entries
    <3>4. entry' \in EntryType /\ Puts(answer')
      BY <1>2, <3>2, <3>3, SetEntryHere DEF Puts
    <3>. QED BY <1>2, <1>3, <1>5, <2>2, <3>1, <3>4 DEF AllocPage, PagingShape
  <2>. QED BY <2>3, <2>4
<1>. QED BY <1>4, <1>5

LEMMA FreeEffect ==
    ASSUME PagingShape, FreePage
    PROVE  /\ PagingShape'
           /\ UNCHANGED <<repeats, left, boot>>
           /\ \/ UNCHANGED <<bits, entry>>
              \/ FrameOf(Here) # 0 /\ bits' = bits \ {FrameOf(Here)} /\ Puts(0)
<1>1. NextPage("free") /\ Advance
  BY DEF FreePage
<1>2. /\ EntryOf(job.dir, Page).frame = FrameOf(Here)
      /\ EntryOf(job.dir, Page) \in PageT
      /\ Here \in Slots
  BY <1>1, SlotAt
<1>3. /\ tables' \in [AllDirs -> [TableIndices -> TableIds \cup {NoTable}]]
      /\ made' \in 0 .. MaxTables
      /\ job' \in JobType
  BY <1>1, GetPageTables, AdvanceJob
<1>4. CASE EntryOf(job.dir, Page).frame = 0
  BY <1>3, <1>4 DEF FreePage, PagingShape, Page
<1>5. CASE EntryOf(job.dir, Page).frame # 0
  <2> DEFINE e == EntryOf(job.dir, Page)
  <2>1. Clear(e.frame) /\ SetEntry(job.dir, Page, [e EXCEPT !.frame = 0])
    BY <1>5 DEF FreePage, Page
  <2>. HIDE DEF e
  <2>2. e \in PageT /\ e.frame = FrameOf(Here)
    BY <1>2 DEF e
  <2>3. e.frame \in Nat /\ [e EXCEPT !.frame = 0] \in PageT /\ [e EXCEPT !.frame = 0].frame = 0
    BY <2>2 DEF PageT
  <2>4. /\ bits' = bits \ {FrameOf(Here)}
        /\ stack' \in Seq(-1 .. Size - 1) /\ Len(stack') <= Size + 1
        /\ UNCHANGED <<answer, repeats>>
    BY <2>1, <2>2, <2>3, ClearEffect
  <2>5. entry' \in EntryType /\ Puts(0)
    BY <1>2, <2>1, <2>3, SetEntryHere DEF Puts
  <2>6. bits' \subseteq Entries
    BY <2>4 DEF PagingShape
  <2>7. FrameOf(Here) # 0
    BY <1>2, <1>5
  <2>. QED BY <1>3, <2>4, <2>5, <2>6, <2>7 DEF FreePage, PagingShape
<1>. QED BY <1>4, <1>5

LEMMA TouchEffect ==
    ASSUME PagingShape, TouchPage
    PROVE  PagingShape' /\ UNCHANGED <<bits, entry, repeats, left, boot>>
<1>1. NextPage("touch") /\ Advance
  BY DEF TouchPage
<1>2. /\ tables' \in [AllDirs -> [TableIndices -> TableIds \cup {NoTable}]]
      /\ made' \in 0 .. MaxTables
      /\ job' \in JobType
  BY <1>1, GetPageTables, AdvanceJob
<1>. QED BY <1>2 DEF TouchPage, PagingShape

-----------------------------------------------------------------------------
(* The jobs *)

LEMMA PagesAreASequence ==
    ASSUME NEW p \in Nat, NEW n \in Nat
    PROVE  /\ PagesFrom(p, n) \in Seq(Nat)
           /\ Len(PagesFrom(p, n)) = n
<1>1. PagesFrom(p, n) \in [1 .. n -> Nat]
  BY DEF PagesFrom
<1>. QED BY <1>1, SeqDef

(* The tables that the last loop of paging_init makes are those of kernel    *)
(* space.                                                                    *)
LEMMA KernelTables ==
    /\ KernelTablePages \in Seq(Nat)
    /\ \A i \in KernelSpace : \E k \in 1 .. Len(KernelTablePages) :
          KernelTablePages[k] \div TableSize = i
    /\ \A k \in 1 .. Len(KernelTablePages) :
          KernelTablePages[k] \div TableSize \in KernelSpace
<1>1. PICK first \in KernelSpace, last \in KernelSpace : KernelSpace = first .. last
  BY PagingAssumption
<1>2. first \in Nat /\ last \in Nat /\ first <= last /\ TableSize \in Nat \ {0}
  BY <1>1, PagingAssumption
<1> DEFINE least == CHOOSE i \in KernelSpace : \A k \in KernelSpace : i <= k
           n == last - first + 1
<1>3. least = first
  <2>1. \A k \in KernelSpace : first <= k
    BY <1>1, <1>2
  <2>2. \A i \in KernelSpace : (\A k \in KernelSpace : i <= k) => i = first
    BY <1>1, <1>2
  <2>. QED BY <1>1, <2>1, <2>2
<1>4. Cardinality(KernelSpace) = n
  BY <1>1, <1>2, FS_Interval
<1>5. KernelTablePages = [i \in 1 .. Cardinality(KernelSpace) |->
                            (least + i - 1) * TableSize]
  BY Zenon DEF KernelTablePages
<1>. HIDE DEF least, n
<1>6. KernelTablePages = [i \in 1 .. n |-> (first + i - 1) * TableSize]
  BY <1>3, <1>4, <1>5
<1>7. n \in Nat
  BY <1>2 DEF n
<1>8. \A i \in 1 .. n : (first + i - 1) * TableSize \in Nat
  BY <1>2, <1>7, SMT
<1>9. KernelTablePages \in [1 .. n -> Nat]
  BY <1>6, <1>8
<1>10. KernelTablePages \in Seq(Nat) /\ Len(KernelTablePages) = n
  BY <1>7, <1>9, SeqDef
<1>11. ASSUME NEW i \in KernelSpace
       PROVE  \E k \in 1 .. n : KernelTablePages[k] \div TableSize = i
  <2>1. i \in Nat /\ i - first + 1 \in 1 .. n /\ first + (i - first + 1) - 1 = i
    BY <1>1, <1>2 DEF n
  <2>2. KernelTablePages[i - first + 1] = i * TableSize
    BY <1>6, <2>1
  <2>3. (i * TableSize) \div TableSize = i
    BY <1>2, <2>1, SMT
  <2>. QED BY <2>1, <2>2, <2>3
<1>12. ASSUME NEW k \in 1 .. n PROVE KernelTablePages[k] \div TableSize \in KernelSpace
  <2>1. first + k - 1 \in KernelSpace /\ first + k - 1 \in Nat
    BY <1>1, <1>2 DEF n
  <2>2. KernelTablePages[k] = (first + k - 1) * TableSize
    BY <1>6
  <2>3. ((first + k - 1) * TableSize) \div TableSize = first + k - 1
    BY <1>2, <2>1, SMT
  <2>. QED BY <2>1, <2>2, <2>3
<1>. QED BY <1>10, <1>11, <1>12

LEMMA JobsOfBoot ==
    /\ Len(BootJobs) = 6
    /\ \A i \in 1 .. 5 : BootJobs[i] = Claiming(BootRanges[i])
    /\ BootJobs[6] = [op |-> "touch", dir |-> KernelDir,
                      pages |-> KernelTablePages, frame |-> 0]
    /\ DOMAIN BootRanges = 1 .. 5
<1>1. DOMAIN BootRanges = 1 .. 5
  BY DEF BootRanges
<1>2. \A i \in 1 .. 5 : i = 1 \/ i = 2 \/ i = 3 \/ i = 4 \/ i = 5
  BY SMT
<1>3. /\ BootJobs[1] = Claiming(BootRanges[1])
      /\ BootJobs[2] = Claiming(BootRanges[2])
      /\ BootJobs[3] = Claiming(BootRanges[3])
      /\ BootJobs[4] = Claiming(BootRanges[4])
      /\ BootJobs[5] = Claiming(BootRanges[5])
  BY DEF BootJobs, BootRanges
<1>4. Len(BootJobs) = 6
  BY DEF BootJobs
<1>5. BootJobs[6] = [op |-> "touch", dir |-> KernelDir,
                     pages |-> KernelTablePages, frame |-> 0]
  BY DEF BootJobs
<1>. QED BY <1>1, <1>2, <1>3, <1>4, <1>5

LEMMA ClaimingIsAJob ==
    ASSUME NEW i \in 1 .. 5
    PROVE  /\ Claiming(BootRanges[i]) \in JobType
           /\ Claiming(BootRanges[i]).op = "claim"
           /\ Claiming(BootRanges[i]).dir = KernelDir
           /\ Claiming(BootRanges[i]).frame = BootRanges[i].frame
           /\ Len(Claiming(BootRanges[i]).pages) = BootRanges[i].size
<1> DEFINE r == BootRanges[i]
<1>1. r \in [frame : Nat, page : Nat, size : Nat]
  BY JobsOfBoot, PagingAssumption
<1>. HIDE DEF r
<1>2. r.frame \in Nat /\ r.page \in Nat /\ r.size \in Nat
  BY <1>1
<1>3. PagesFrom(r.page, r.size) \in Seq(Nat) /\ Len(PagesFrom(r.page, r.size)) = r.size
  BY <1>2, PagesAreASequence
<1>4. KernelDir \in AllDirs
  BY DEF AllDirs
<1>5. Claiming(r) = [op |-> "claim", dir |-> KernelDir,
                     pages |-> PagesFrom(r.page, r.size), frame |-> r.frame]
  BY DEF Claiming
<1>6. Claiming(r) \in JobType
  BY <1>2, <1>3, <1>4, <1>5 DEF JobType
<1>. QED BY <1>3, <1>5, <1>6 DEF r

LEMMA BootNextEffect ==
    ASSUME PagingShape, BootNext
    PROVE  /\ PagingShape'
           /\ boot \in 1 .. 6 /\ boot' = boot + 1
           /\ UNCHANGED <<bits, repeats, entry, left, tables>>
           /\ job.pages = <<>>
           /\ job'.dir = KernelDir
           /\ boot \in 1 .. 5 => job' = Claiming(BootRanges[boot])
           /\ boot = 6 => job' = BootJobs[6]
<1>1. /\ job.pages = <<>> /\ boot <= 6
      /\ job' = BootJobs[boot]
      /\ boot' = boot + 1
      /\ UNCHANGED <<bits, stack, answer, repeats, tables, entry, made, mapped, left>>
  BY JobsOfBoot DEF BootNext
<1>2. boot \in 1 .. 6
  BY <1>1 DEF PagingShape
<1>3. CASE boot = 6
  <2>1. job' = [op |-> "touch", dir |-> KernelDir,
                pages |-> KernelTablePages, frame |-> 0]
    BY <1>1, <1>3, JobsOfBoot
  <2>2. job' \in JobType
    BY <2>1, KernelTables DEF JobType, AllDirs
  <2>. QED BY <1>1, <1>2, <1>3, <2>1, <2>2 DEF PagingShape
<1>4. CASE boot \in 1 .. 5
  <2>1. job' = Claiming(BootRanges[boot])
    BY <1>1, <1>4, JobsOfBoot
  <2>2. job' \in JobType /\ job'.dir = KernelDir
    BY <1>4, <2>1, ClaimingIsAJob
  <2>. QED BY <1>1, <1>2, <1>4, <2>1, <2>2 DEF PagingShape
<1>. QED BY <1>2, <1>3, <1>4

LEMMA StartEffect ==
    ASSUME PagingShape, NEW op \in {"alloc", "free"}, NEW d \in AllDirs, NEW r \in Ranges,
           Start(op, d, r)
    PROVE  /\ PagingShape'
           /\ boot = 7 /\ job.pages = <<>>
           /\ job'.op = op /\ job'.dir = d
           /\ UNCHANGED <<bits, repeats, entry, left, boot, tables>>
<1>1. r \in [page : Nat, size : Nat, dirs : SUBSET AllDirs]
  BY PagingAssumption
<1>2. PagesFrom(r.page, r.size) \in Seq(Nat)
  BY <1>1, PagesAreASequence
<1>3. /\ Booted
      /\ job' = [op |-> op, dir |-> d, pages |-> PagesFrom(r.page, r.size), frame |-> 0]
      /\ UNCHANGED <<bits, stack, answer, repeats, tables, entry, made, boot, mapped, left>>
  BY DEF Start
<1>4. job' \in JobType
  BY <1>2, <1>3 DEF JobType
<1>5. boot = 7 /\ job.pages = <<>>
  BY <1>3, JobsOfBoot DEF Booted, PagingShape
<1>. QED BY <1>3, <1>4, <1>5 DEF PagingShape

LEMMA FramesAreNumbers ==
    ASSUME entry \in EntryType PROVE FramesInMemory \subseteq Nat
<1>1. \A t \in TableIds, j \in 0 .. TableSize - 1 : entry[t][j] \in PageT
  BY DEF EntryType
<1>2. \A t \in TableIds, j \in 0 .. TableSize - 1 : entry[t][j].frame \in Nat
  BY <1>1 DEF PageT
<1>. QED BY <1>2 DEF FramesInMemory

LEMMA ClearedIsMemory ==
    ASSUME NEW e \in EntryType
    PROVE  /\ ClearedMemory(e) \in EntryType
           /\ \A t \in TableIds, j \in 0 .. TableSize - 1 :
                 ClearedMemory(e)[t][j] \in {Blank, e[t][j]}
<1>1. Blank \in PageT
  BY DEF Blank, PageT
<1>2. [j \in 0 .. TableSize - 1 |-> Blank] \in [0 .. TableSize - 1 -> PageT]
  BY <1>1
<1>3. ASSUME NEW t \in TableIds
      PROVE  /\ ClearedMemory(e)[t] \in [0 .. TableSize - 1 -> PageT]
             /\ \A j \in 0 .. TableSize - 1 : ClearedMemory(e)[t][j] \in {Blank, e[t][j]}
  BY <1>2 DEF ClearedMemory, EntryType
<1>4. ClearedMemory(e) = [t \in TableIds |-> ClearedMemory(e)[t]]
  BY DEF ClearedMemory
<1>5. ClearedMemory(e) \in EntryType
  BY <1>3, <1>4 DEF EntryType
<1>. QED BY <1>3, <1>5

LEMMA InitialStackIsAStack ==
    /\ InitialStack \in Seq(-1 .. Size - 1)
    /\ Len(InitialStack) = Size
<1>1. InitialStack \in [1 .. Size -> -1 .. Size - 1]
  BY ImapAssumption DEF InitialStack, Fail
<1>2. Size \in Nat
  BY ImapAssumption
<1>. QED BY <1>1, <1>2, SeqDef

LEMMA IdleIsAJob == Idle \in JobType /\ Idle.op = "idle" /\ Idle.dir = KernelDir
  BY EmptySeq DEF Idle, JobType, AllDirs

LEMMA NoTablesIsADirectory ==
    /\ NoTables \in [TableIndices -> TableIds \cup {NoTable}]
    /\ \A i \in TableIndices : NoTables[i] = NoTable
  BY DEF NoTables

LEMMA ResetEffect ==
    ASSUME PagingShape, Reset
    PROVE  /\ PagingShape'
           /\ left' = FramesInMemory'
           /\ bits' = {} /\ boot' = 1 /\ made' = 0 /\ job' = Idle /\ mapped' = {}
           /\ entry' = ClearedMemory(entry)
           /\ \A i \in TableIndices : tables'[KernelDir][i] = NoTable
           /\ \A d \in Dirs, i \in TableIndices : tables'[d][i] = tables[d][i]
<1>1. /\ bits' = {} /\ stack' = InitialStack /\ made' = 0 /\ boot' = 1 /\ job' = Idle
      /\ left' = FramesInMemory' /\ entry' = ClearedMemory(entry) /\ mapped' = {}
      /\ tables' = [tables EXCEPT ![KernelDir] = NoTables]
  BY DEF Reset
<1>2. KernelDir \in AllDirs /\ KernelDir \notin Dirs /\ Dirs \subseteq AllDirs
  BY PagingAssumption DEF AllDirs
<1>3. /\ tables' \in [AllDirs -> [TableIndices -> TableIds \cup {NoTable}]]
      /\ \A i \in TableIndices : tables'[KernelDir][i] = NoTable
      /\ \A d \in Dirs, i \in TableIndices : tables'[d][i] = tables[d][i]
  BY <1>1, <1>2, NoTablesIsADirectory DEF PagingShape
<1>4. /\ stack' \in Seq(-1 .. Size - 1) /\ Len(stack') <= Size + 1
      /\ made' \in 0 .. MaxTables
  BY <1>1, InitialStackIsAStack, ImapAssumption, PagingAssumption
<1>5. entry' \in EntryType
  BY <1>1, ClearedIsMemory DEF PagingShape
<1>6. left' \subseteq Nat
  <2>1. (entry \in EntryType => FramesInMemory \subseteq Nat)'
    BY FramesAreNumbers, PTL
  <2>. QED BY <1>1, <1>5, <2>1
<1>. QED BY <1>1, <1>3, <1>4, <1>5, <1>6, IdleIsAJob DEF PagingShape

LEMMA ShapeAtInit ==
    ASSUME PagingInit
    PROVE  /\ PagingShape
           /\ \E words \in [TableIds -> [0 .. TableSize - 1 -> RamContents]] :
                 words \in EntryType /\ entry = ClearedMemory(words)
           /\ \A i \in TableIndices : tables[KernelDir][i] = NoTable
           /\ \A d \in Dirs, i \in TableIndices : tables[d][i] \in DirContents
<1>1. /\ bits = {} /\ stack = InitialStack /\ made = 0 /\ boot = 1 /\ job = Idle
      /\ left = FramesInMemory
  BY DEF PagingInit, Init
<1>2. PICK words \in [TableIds -> [0 .. TableSize - 1 -> RamContents]] :
             entry = ClearedMemory(words)
  BY DEF PagingInit
<1>3. words \in EntryType
  BY <1>2, PagingAssumption DEF EntryType, PageT
<1>4. entry \in EntryType
  BY <1>2, <1>3, ClearedIsMemory
<1>5. PICK contents \in [Dirs -> [TableIndices -> DirContents]] :
             tables = [d \in AllDirs |-> IF d = KernelDir THEN NoTables ELSE contents[d]]
  BY DEF PagingInit
<1>6. KernelDir \in AllDirs /\ KernelDir \notin Dirs /\ AllDirs = Dirs \cup {KernelDir}
  BY PagingAssumption DEF AllDirs
<1>7. \A d \in Dirs : contents[d] \in [TableIndices -> TableIds \cup {NoTable}]
  BY PagingAssumption
<1>8. /\ tables \in [AllDirs -> [TableIndices -> TableIds \cup {NoTable}]]
      /\ \A i \in TableIndices : tables[KernelDir][i] = NoTable
      /\ \A d \in Dirs, i \in TableIndices : tables[d][i] \in DirContents
  BY <1>5, <1>6, <1>7, NoTablesIsADirectory
<1>9. left \subseteq Nat
  BY <1>1, <1>4, FramesAreNumbers
<1>10. /\ stack \in Seq(-1 .. Size - 1) /\ Len(stack) <= Size + 1
       /\ made \in 0 .. MaxTables
  BY <1>1, InitialStackIsAStack, ImapAssumption, PagingAssumption
<1>. QED BY <1>1, <1>2, <1>3, <1>4, <1>8, <1>9, <1>10, IdleIsAJob DEF PagingShape

LEMMA ShapeStep == ASSUME PagingShape, [PagingNext]_pvars PROVE PagingShape'
<1>1. CASE BootNext
  BY <1>1, BootNextEffect
<1>2. CASE ClaimPage
  BY <1>2, ClaimEffect
<1>3. CASE AllocPage
  BY <1>3, AllocEffect
<1>4. CASE FreePage
  BY <1>4, FreeEffect
<1>5. CASE TouchPage
  BY <1>5, TouchEffect
<1>6. ASSUME NEW d \in AllDirs, NEW r \in Ranges, AllocPagesFor(d, r) PROVE PagingShape'
  BY <1>6, StartEffect DEF AllocPagesFor
<1>7. ASSUME NEW d \in AllDirs, NEW r \in Ranges, FreePages(d, r) PROVE PagingShape'
  BY <1>7, StartEffect DEF FreePages
<1>8. CASE Reset
  BY <1>8, ResetEffect
<1>9. CASE UNCHANGED pvars
  BY <1>9 DEF pvars, PagingShape
<1>. QED
  BY <1>1, <1>2, <1>3, <1>4, <1>5, <1>6, <1>7, <1>8, <1>9 DEF PagingNext

-----------------------------------------------------------------------------
(* Frames *)

(* What paging_init is still to claim: in the loop under way, and after it.  *)
JobFrames == IF job.op = "claim"
             THEN job.frame .. job.frame + Len(job.pages) - 1 ELSE {}

LaterFrames == UNION {FramesOf(BootRanges[i]) : i \in {k \in 1 .. 5 : k >= boot}}

LEMMA RangesAreApart ==
    ASSUME NEW i \in 1 .. 5, NEW k \in 1 .. 5, i # k
    PROVE  FramesOf(BootRanges[i]) \cap FramesOf(BootRanges[k]) = {}
  BY JobsOfBoot, PagingAssumption

(* No entry has such a frame yet, but for those that a reset left; and when  *)
(* pages are asked for, paging_init is over.                                 *)
ClaimsAreFresh ==
    /\ job.op \in {"alloc", "free"} => boot = 7
    /\ \A s \in Slots : FrameOf(s) \in JobFrames \cup LaterFrames =>
          FrameOf(s) \in {0} \cup left
    /\ JobFrames \cap LaterFrames = {}

FrameInv == PagingShape /\ ClaimsAreFresh /\ FramesAreExclusive /\ NoFrameLost

(* Right after the start every entry in memory is one that was left.         *)
LEMMA FramesAtStart ==
    ASSUME bits = {}, left = FramesInMemory, job = Idle
    PROVE  ClaimsAreFresh /\ FramesAreExclusive /\ NoFrameLost
<1>1. \A s \in Slots : FrameOf(s) \in {0} \cup left
  BY DEF Slots, FrameOf, FramesInMemory
<1>2. JobFrames = {} /\ job.op = "idle"
  BY IdleIsAJob DEF JobFrames
<1>. QED BY <1>1, <1>2 DEF ClaimsAreFresh, FramesAreExclusive, NoFrameLost

(* A step that touches neither bits nor entries keeps what is said of them.  *)
LEMMA FramesUnchanged ==
    ASSUME FramesAreExclusive, NoFrameLost,
           UNCHANGED <<bits, entry, left>>, repeats \subseteq repeats'
    PROVE  FramesAreExclusive' /\ NoFrameLost'
<1>1. \A s \in Slots : FrameOf(s)' = FrameOf(s)
  BY DEF FrameOf
<1>. QED BY <1>1 DEF FramesAreExclusive, NoFrameLost

(* The entry that had no frame gets one that no other has, or whose double   *)
(* use is known.                                                             *)
LEMMA FrameTaken ==
    ASSUME FramesAreExclusive, NoFrameLost, Here \in Slots,
           NEW f \in Nat, FrameOf(Here) = 0, Puts(f),
           bits' = IF f \in Entries THEN bits \cup {f} ELSE bits,
           UNCHANGED left, repeats \subseteq repeats',
           \A s \in Slots : FrameOf(s) = f => f \in {0} \cup left \cup repeats'
    PROVE  FramesAreExclusive' /\ NoFrameLost'
<1>1. ASSUME NEW s \in Slots,
             FrameOf(s)' \in Entries \ ({0} \cup left' \cup repeats')
      PROVE  /\ FrameOf(s)' \in bits'
             /\ \A q \in Slots : FrameOf(q)' = FrameOf(s)' => q = s
  <2>1. CASE s = Here
    BY <1>1, <2>1 DEF Puts
  <2>2. CASE s # Here
    BY <1>1, <2>2 DEF Puts, FramesAreExclusive
  <2>. QED BY <2>1, <2>2
<1>2. FramesAreExclusive'
  BY <1>1 DEF FramesAreExclusive
<1>3. ASSUME NEW b \in bits' PROVE b \in {0} \cup {FrameOf(s)' : s \in Slots}
  <2>1. CASE b = f
    BY <2>1 DEF Puts
  <2>2. CASE b # f
    <3>1. b = 0 \/ \E s \in Slots : FrameOf(s) = b
      BY <2>2 DEF NoFrameLost
    <3>. QED BY <3>1 DEF Puts
  <2>. QED BY <2>1, <2>2
<1>4. NoFrameLost'
  BY <1>3 DEF NoFrameLost
<1>. QED BY <1>2, <1>4

(* The entry gives its frame back.                                           *)
LEMMA FrameGivenBack ==
    ASSUME FramesAreExclusive, NoFrameLost, Here \in Slots, Puts(0),
           bits' = bits \ {FrameOf(Here)}, UNCHANGED <<left, repeats>>
    PROVE  FramesAreExclusive' /\ NoFrameLost'
<1>1. ASSUME NEW s \in Slots,
             FrameOf(s)' \in Entries \ ({0} \cup left' \cup repeats')
      PROVE  /\ FrameOf(s)' \in bits'
             /\ \A q \in Slots : FrameOf(q)' = FrameOf(s)' => q = s
  <2>1. s # Here /\ FrameOf(s)' = FrameOf(s)
    BY <1>1 DEF Puts
  <2>2. /\ FrameOf(s) \in bits
        /\ \A q \in Slots : FrameOf(q) = FrameOf(s) => q = s
    BY <1>1, <2>1 DEF FramesAreExclusive
  <2>3. FrameOf(s) # FrameOf(Here)
    BY <2>1, <2>2
  <2>4. \A q \in Slots : FrameOf(q)' = FrameOf(s)' => q = s
    BY <1>1, <2>1, <2>2 DEF Puts
  <2>. QED BY <2>1, <2>2, <2>3, <2>4
<1>2. FramesAreExclusive'
  BY <1>1 DEF FramesAreExclusive
<1>3. ASSUME NEW b \in bits' PROVE b \in {0} \cup {FrameOf(s)' : s \in Slots}
  BY DEF NoFrameLost, Puts
<1>4. NoFrameLost'
  BY <1>3 DEF NoFrameLost
<1>. QED BY <1>2, <1>4

LEMMA FramesBootNext == ASSUME FrameInv, BootNext PROVE FrameInv'
<1>1. /\ PagingShape /\ PagingShape'
      /\ boot \in 1 .. 6 /\ boot' = boot + 1
      /\ UNCHANGED <<bits, repeats, entry, left>>
      /\ boot \in 1 .. 5 => job' = Claiming(BootRanges[boot])
      /\ boot = 6 => job' = BootJobs[6]
  BY BootNextEffect DEF FrameInv
<1>2. FramesAreExclusive' /\ NoFrameLost'
  BY <1>1, FramesUnchanged DEF FrameInv
<1>3. \A s \in Slots : FrameOf(s)' = FrameOf(s)
  BY <1>1 DEF FrameOf
<1>4. LaterFrames' \subseteq LaterFrames
  BY <1>1 DEF LaterFrames
<1>5. CASE boot = 6
  <2>1. JobFrames' = {} /\ job'.op = "touch"
    BY <1>1, <1>5, JobsOfBoot DEF JobFrames
  <2>. QED BY <1>1, <1>2, <1>3, <1>4, <2>1 DEF FrameInv, ClaimsAreFresh
<1>6. CASE boot \in 1 .. 5
  <2>1. JobFrames' = FramesOf(BootRanges[boot]) /\ job'.op = "claim"
    BY <1>1, <1>6, ClaimingIsAJob DEF JobFrames, FramesOf
  <2>2. JobFrames' \subseteq LaterFrames
    BY <1>6, <2>1 DEF LaterFrames
  <2>3. JobFrames' \cap LaterFrames' = {}
    <3> SUFFICES ASSUME NEW x \in LaterFrames' PROVE x \notin FramesOf(BootRanges[boot])
      BY <2>1
    <3>1. PICK i \in 1 .. 5 : i >= boot' /\ x \in FramesOf(BootRanges[i])
      BY DEF LaterFrames
    <3>2. i # boot
      BY <1>1, <1>6, <3>1
    <3>. QED BY <1>6, <3>1, <3>2, RangesAreApart
  <2>. QED BY <1>1, <1>2, <1>3, <1>4, <2>1, <2>2, <2>3 DEF FrameInv, ClaimsAreFresh
<1>. QED BY <1>1, <1>5, <1>6

LEMMA FramesClaimPage == ASSUME FrameInv, ClaimPage PROVE FrameInv'
<1>1. /\ PagingShape /\ NextPage("claim") /\ Advance /\ job.op = "claim"
      /\ job.pages # <<>>
  BY DEF FrameInv, ClaimPage, NextPage
<1>2. /\ PagingShape'
      /\ UNCHANGED <<repeats, left, boot>>
      /\ \/ UNCHANGED <<bits, entry>>
         \/ /\ FrameOf(Here) = 0
            /\ bits' = IF job.frame \in Entries THEN bits \cup {job.frame} ELSE bits
            /\ Puts(job.frame)
  BY <1>1, ClaimEffect
<1>3. Here \in Slots
  BY <1>1, SlotAt
<1>4. job.frame \in Nat /\ Len(job.pages) \in Nat \ {0}
  BY <1>1, EmptySeq DEF PagingShape, JobType
<1>5. job'.op = "claim" /\ job'.frame = job.frame + 1 /\ Len(job'.pages) = Len(job.pages) - 1
  BY <1>1, AdvanceJob
<1>6. /\ job.frame \in JobFrames
      /\ JobFrames' = JobFrames \ {job.frame}
      /\ LaterFrames' = LaterFrames
  <2>1. JobFrames = job.frame .. job.frame + Len(job.pages) - 1
    BY <1>1 DEF JobFrames
  <2>2. JobFrames' = job.frame + 1 .. job.frame + 1 + (Len(job.pages) - 1) - 1
    BY <1>5 DEF JobFrames
  <2>3. LaterFrames' = LaterFrames
    BY <1>2 DEF LaterFrames
  <2>. QED BY <1>4, <2>1, <2>2, <2>3
<1>7. \A s \in Slots : FrameOf(s) = job.frame => job.frame \in {0} \cup left
  BY <1>6 DEF FrameInv, ClaimsAreFresh
<1>8. CASE UNCHANGED <<bits, entry>>
  <2>1. FramesAreExclusive' /\ NoFrameLost'
    BY <1>2, <1>8, FramesUnchanged DEF FrameInv
  <2>2. \A s \in Slots : FrameOf(s)' = FrameOf(s)
    BY <1>8 DEF FrameOf
  <2>3. ClaimsAreFresh'
    BY <1>2, <1>5, <1>6, <2>2 DEF FrameInv, ClaimsAreFresh
  <2>. QED BY <1>2, <2>1, <2>3 DEF FrameInv
<1>9. CASE /\ FrameOf(Here) = 0
           /\ bits' = IF job.frame \in Entries THEN bits \cup {job.frame} ELSE bits
           /\ Puts(job.frame)
  <2>1. FramesAreExclusive' /\ NoFrameLost'
    BY <1>2, <1>3, <1>4, <1>7, <1>9, FrameTaken DEF FrameInv
  <2>2. \A s \in Slots : FrameOf(s)' \in JobFrames' \cup LaterFrames' =>
           FrameOf(s)' \in {0} \cup left'
    BY <1>2, <1>6, <1>9 DEF FrameInv, ClaimsAreFresh, Puts
  <2>3. JobFrames' \cap LaterFrames' = {}
    BY <1>6 DEF FrameInv, ClaimsAreFresh
  <2>. QED BY <1>2, <1>5, <2>1, <2>2, <2>3 DEF FrameInv, ClaimsAreFresh
<1>. QED BY <1>2, <1>8, <1>9

(* While pages are asked for and given back, nothing is still to be claimed. *)
LEMMA NothingToClaim ==
    ASSUME ClaimsAreFresh, job.op \in {"alloc", "free"}, job'.op = job.op, boot' = boot
    PROVE  ClaimsAreFresh'
<1>1. boot' = 7
  BY DEF ClaimsAreFresh
<1>2. LaterFrames' = {} /\ JobFrames' = {}
  BY <1>1 DEF LaterFrames, JobFrames
<1>. QED BY <1>1, <1>2 DEF ClaimsAreFresh

LEMMA FramesAllocPage == ASSUME FrameInv, AllocPage PROVE FrameInv'
<1>1. PagingShape /\ NextPage("alloc") /\ Advance /\ job.op = "alloc"
  BY DEF FrameInv, AllocPage, NextPage
<1>2. /\ PagingShape'
      /\ UNCHANGED <<left, boot>>
      /\ repeats \subseteq repeats'
      /\ \/ UNCHANGED <<bits, entry>>
         \/ \E f \in Entries : /\ FrameOf(Here) = 0
                               /\ bits' = bits \cup {f}
                               /\ f \in bits => f \in repeats'
                               /\ Puts(f)
  BY <1>1, AllocEffect
<1>3. ClaimsAreFresh'
  BY <1>1, <1>2, AdvanceJob, NothingToClaim DEF FrameInv
<1>4. CASE UNCHANGED <<bits, entry>>
  BY <1>2, <1>3, <1>4, FramesUnchanged DEF FrameInv
<1>5. ASSUME NEW f \in Entries, FrameOf(Here) = 0, bits' = bits \cup {f},
             f \in bits => f \in repeats', Puts(f)
      PROVE  FrameInv'
  <2>1. f \in Nat /\ Here \in Slots
    BY <1>1, SlotAt DEF Entries
  <2>2. bits' = IF f \in Entries THEN bits \cup {f} ELSE bits
    BY <1>5
  <2>3. \A s \in Slots : FrameOf(s) = f => f \in {0} \cup left \cup repeats'
    BY <1>2, <1>5 DEF FrameInv, FramesAreExclusive
  <2>4. FramesAreExclusive' /\ NoFrameLost'
    BY <1>2, <1>5, <2>1, <2>2, <2>3, FrameTaken DEF FrameInv
  <2>. QED BY <1>2, <1>3, <2>4 DEF FrameInv
<1>. QED BY <1>2, <1>4, <1>5

LEMMA FramesFreePage == ASSUME FrameInv, FreePage PROVE FrameInv'
<1>1. PagingShape /\ NextPage("free") /\ Advance /\ job.op = "free"
  BY DEF FrameInv, FreePage, NextPage
<1>2. /\ PagingShape'
      /\ UNCHANGED <<repeats, left, boot>>
      /\ \/ UNCHANGED <<bits, entry>>
         \/ bits' = bits \ {FrameOf(Here)} /\ Puts(0)
  BY <1>1, FreeEffect
<1>3. ClaimsAreFresh'
  BY <1>1, <1>2, AdvanceJob, NothingToClaim DEF FrameInv
<1>4. Here \in Slots
  BY <1>1, SlotAt
<1>5. FramesAreExclusive' /\ NoFrameLost'
  BY <1>2, <1>4, FramesUnchanged, FrameGivenBack DEF FrameInv
<1>. QED BY <1>2, <1>3, <1>5 DEF FrameInv

(* Steps that leave bits and entries alone, after paging_init or at its end. *)
LEMMA FramesOtherwise ==
    ASSUME FrameInv, PagingShape',
           UNCHANGED <<bits, repeats, entry, left, boot>>,
           job' = job \/ job'.op = "touch" \/ (boot = 7 /\ job'.op # "claim")
    PROVE  FrameInv'
<1>1. FramesAreExclusive' /\ NoFrameLost'
  BY FramesUnchanged DEF FrameInv
<1>2. /\ LaterFrames' = LaterFrames
      /\ JobFrames' \subseteq JobFrames
      /\ job'.op \in {"alloc", "free"} => boot' = 7
  BY DEF LaterFrames, JobFrames, FrameInv, ClaimsAreFresh
<1>3. \A s \in Slots : FrameOf(s)' = FrameOf(s)
  BY DEF FrameOf
<1>4. ClaimsAreFresh'
  BY <1>2, <1>3 DEF FrameInv, ClaimsAreFresh
<1>. QED BY <1>1, <1>4 DEF FrameInv

LEMMA FrameStep == ASSUME FrameInv, [PagingNext]_pvars PROVE FrameInv'
<1>0. PagingShape /\ PagingShape'
  BY ShapeStep DEF FrameInv
<1>1. CASE BootNext
  BY <1>1, FramesBootNext
<1>2. CASE ClaimPage
  BY <1>2, FramesClaimPage
<1>3. CASE AllocPage
  BY <1>3, FramesAllocPage
<1>4. CASE FreePage
  BY <1>4, FramesFreePage
<1>5. CASE TouchPage
  <2>1. job'.op = "touch"
    BY <1>0, <1>5, AdvanceJob DEF TouchPage, NextPage
  <2>. QED BY <1>0, <1>5, <2>1, TouchEffect, FramesOtherwise
<1>6. ASSUME NEW d \in AllDirs, NEW r \in Ranges, NEW op \in {"alloc", "free"},
             Start(op, d, r)
      PROVE  FrameInv'
  BY <1>0, <1>6, StartEffect, FramesOtherwise
<1>7. CASE Reset
  <2>1. bits' = {} /\ left' = FramesInMemory' /\ job' = Idle
    BY <1>0, <1>7, ResetEffect
  <2>2. (ClaimsAreFresh /\ FramesAreExclusive /\ NoFrameLost)'
    <3>1. (bits = {} /\ left = FramesInMemory /\ job = Idle)'
      BY <2>1
    <3>. QED BY <3>1, FramesAtStart, PTL
  <2>. QED BY <1>0, <2>2 DEF FrameInv
<1>8. CASE UNCHANGED pvars
  BY <1>0, <1>8, FramesOtherwise DEF pvars
<1>. QED
  BY <1>1, <1>2, <1>3, <1>4, <1>5, <1>6, <1>7, <1>8
  DEF PagingNext, AllocPagesFor, FreePages

LEMMA FrameStart == ASSUME PagingInit PROVE FrameInv
<1>1. bits = {} /\ left = FramesInMemory /\ job = Idle
  BY DEF PagingInit, Init
<1>. QED BY <1>1, ShapeAtInit, FramesAtStart DEF FrameInv

-----------------------------------------------------------------------------
(* Kernel space *)

LEMMA TablesStay ==
    ASSUME PagingShape, NEW op, NextPage(op)
    PROVE  /\ \A d \in AllDirs, i \in TableIndices :
                 tables[d][i] # NoTable => tables'[d][i] = tables[d][i]
           /\ Page \div TableSize \in TableIndices =>
                 /\ tables'[job.dir][Page \div TableSize] = TableOf(job.dir, Page)
                 /\ TableOf(job.dir, Page) # NoTable
<1>1. \A d \in AllDirs, i \in TableIndices :
         tables'[d][i] = IF d = job.dir /\ i = Page \div TableSize
                         THEN TableOf(d, Page) ELSE tables[d][i]
  BY GetPageTables
<1>2. job.dir \in AllDirs /\ TableOf(job.dir, Page) \in TableIds
  BY DEF PagingShape, JobType, NextPage, Page
<1>3. 0 \notin TableIds
  BY DEF TableIds
<1>4. \A d \in AllDirs, i \in TableIndices :
         tables[d][i] # NoTable => tables'[d][i] = tables[d][i]
  BY <1>1 DEF TableOf
<1>. QED BY <1>1, <1>2, <1>3, <1>4 DEF NoTable

(* The kernel's directory has each table once, and all of them are made.     *)
TablesApart ==
    \A i \in TableIndices : tables[KernelDir][i] # NoTable =>
        /\ tables[KernelDir][i] <= made
        /\ \A k \in TableIndices : tables[KernelDir][k] = tables[KernelDir][i] => k = i

(* A table of kernel space is made, or the last loop still comes to it.      *)
SpaceInv ==
    /\ PagingShape
    /\ job.op \in {"claim", "touch"} => job.dir = KernelDir
    /\ job.op \in {"alloc", "free"} => boot = 7
    /\ TablesApart
    /\ boot = 7 => \A i \in KernelSpace :
          \/ tables[KernelDir][i] # NoTable
          \/ /\ job.op = "touch"
             /\ \E k \in 1 .. Len(job.pages) : job.pages[k] \div TableSize = i

LEMMA SpaceAtStart ==
    ASSUME PagingShape, boot = 1, job = Idle,
           \A i \in TableIndices : tables[KernelDir][i] = NoTable
    PROVE  SpaceInv
  BY IdleIsAJob DEF SpaceInv, TablesApart

(* A table that is made is the next one, whichever directory it is for.      *)
LEMMA TablesStayApart ==
    ASSUME PagingShape, TablesApart, NEW op, NextPage(op)
    PROVE  TablesApart'
<1> DEFINE i == Page \div TableSize
           K(k) == tables[KernelDir][k]
<1>1. /\ \A k \in TableIndices :
            tables'[KernelDir][k] = IF KernelDir = job.dir /\ k = i
                                    THEN TableOf(KernelDir, Page) ELSE K(k)
      /\ KernelDir \in AllDirs
  BY GetPageTables DEF AllDirs
<1>2. /\ made' = IF tables[job.dir][i] = NoTable THEN made + 1 ELSE made
      /\ made \in Nat
  BY PagingAssumption DEF NextPage, GetPage, Page, PagingShape
<1>3. \A k \in TableIndices : K(k) \in Nat
  BY <1>1 DEF PagingShape, TableIds, NoTable
<1>4. made <= made'
  BY <1>2
<1>5. TableOf(KernelDir, Page) = IF K(i) # NoTable THEN K(i) ELSE made + 1
  BY DEF TableOf
<1>6. \A k \in TableIndices : K(k) # NoTable =>
         K(k) <= made /\ \A m \in TableIndices : K(m) = K(k) => m = k
  BY DEF TablesApart
<1>. HIDE DEF i, K
<1>7. CASE KernelDir = job.dir /\ i \in TableIndices /\ K(i) = NoTable
  <2>1. made' = made + 1
    BY <1>2, <1>7 DEF K
  <2>2. \A k \in TableIndices :
           tables'[KernelDir][k] = IF k = i THEN made + 1 ELSE K(k)
    BY <1>1, <1>5, <1>7
  <2>3. \A k \in TableIndices : K(k) # made + 1
    BY <1>2, <1>3, <1>6 DEF NoTable
  <2>. QED BY <1>2, <1>3, <1>6, <2>1, <2>2, <2>3 DEF TablesApart
<1>8. CASE ~ (KernelDir = job.dir /\ i \in TableIndices /\ K(i) = NoTable)
  <2>1. \A k \in TableIndices : tables'[KernelDir][k] = K(k)
    BY <1>1, <1>5, <1>8
  <2>. QED BY <1>2, <1>3, <1>4, <1>6, <2>1 DEF TablesApart
<1>. QED BY <1>7, <1>8

(* The step of a loop: a table stays, and once the last loop of paging_init  *)
(* is over all those of kernel space are there.                              *)
LEMMA SpacePage ==
    ASSUME SpaceInv, PagingShape', UNCHANGED boot, NEW op, NextPage(op), Advance
    PROVE  SpaceInv'
<1>1. job.op = op /\ job.pages # <<>> /\ PagingShape /\ TablesApart
  BY DEF SpaceInv, NextPage
<1>2. /\ job'.op = op /\ job'.dir = job.dir
      /\ Len(job'.pages) = Len(job.pages) - 1
      /\ \A k \in 1 .. Len(job'.pages) : job'.pages[k] = job.pages[k + 1]
  BY <1>1, AdvanceJob
<1>3. /\ \A d \in AllDirs, i \in TableIndices :
            tables[d][i] # NoTable => tables'[d][i] = tables[d][i]
      /\ Page \div TableSize \in TableIndices =>
            tables'[job.dir][Page \div TableSize] # NoTable
  BY <1>1, TablesStay
<1>4. KernelDir \in AllDirs /\ KernelSpace \subseteq TableIndices
  BY PagingAssumption DEF AllDirs
<1>5. Page = job.pages[1] /\ Len(job.pages) \in Nat \ {0}
  BY <1>1, EmptySeq DEF Page, PagingShape, JobType
<1>6. ASSUME boot' = 7, NEW i \in KernelSpace
      PROVE  \/ tables'[KernelDir][i] # NoTable
             \/ /\ job'.op = "touch"
                /\ \E k \in 1 .. Len(job'.pages) : job'.pages[k] \div TableSize = i
  <2>1. CASE tables[KernelDir][i] # NoTable
    BY <1>3, <1>4, <2>1
  <2>2. CASE tables[KernelDir][i] = NoTable
    <3>1. job.op = "touch" /\ job.dir = KernelDir
      BY <1>6, <2>2 DEF SpaceInv
    <3>2. PICK k \in 1 .. Len(job.pages) : job.pages[k] \div TableSize = i
      BY <1>6, <2>2 DEF SpaceInv
    <3>3. CASE k = 1
      BY <1>3, <1>4, <1>5, <3>1, <3>2, <3>3
    <3>4. CASE k # 1
      <4>1. k - 1 \in 1 .. Len(job'.pages) /\ (k - 1) + 1 = k
        BY <1>2, <1>5, <3>4
      <4>. QED BY <1>1, <1>2, <3>1, <3>2, <4>1
    <3>. QED BY <3>3, <3>4
  <2>. QED BY <2>1, <2>2
<1>7. TablesApart'
  BY <1>1, TablesStayApart
<1>. QED BY <1>1, <1>2, <1>6, <1>7 DEF SpaceInv

LEMMA SpaceBootNext == ASSUME SpaceInv, BootNext PROVE SpaceInv'
<1>1. /\ PagingShape'
      /\ boot \in 1 .. 6 /\ boot' = boot + 1
      /\ tables' = tables
      /\ job'.dir = KernelDir
      /\ boot \in 1 .. 5 => job' = Claiming(BootRanges[boot])
      /\ boot = 6 => job' = BootJobs[6]
  BY BootNextEffect DEF SpaceInv
<1>2. TablesApart'
  BY <1>1 DEF BootNext, SpaceInv, TablesApart
<1>3. CASE boot \in 1 .. 5
  <2>1. job'.op = "claim" /\ boot' # 7
    BY <1>1, <1>3, ClaimingIsAJob
  <2>. QED BY <1>1, <1>2, <2>1 DEF SpaceInv
<1>4. CASE boot = 6
  <2>1. job'.op = "touch" /\ job'.pages = KernelTablePages
    BY <1>1, <1>4, JobsOfBoot
  <2>. QED BY <1>1, <1>2, <2>1, KernelTables DEF SpaceInv
<1>. QED BY <1>1, <1>3, <1>4

LEMMA SpaceStarts ==
    ASSUME SpaceInv, NEW op \in {"alloc", "free"}, NEW d \in AllDirs, NEW r \in Ranges,
           Start(op, d, r)
    PROVE  SpaceInv'
<1>1. /\ PagingShape' /\ PagingShape
      /\ boot = 7 /\ job.pages = <<>>
      /\ job'.op = op
      /\ boot' = boot /\ tables' = tables
  BY StartEffect DEF SpaceInv
<1>2. \A i \in KernelSpace : tables[KernelDir][i] # NoTable
  BY <1>1 DEF SpaceInv
<1>3. TablesApart'
  BY DEF Start, SpaceInv, TablesApart
<1>. QED BY <1>1, <1>2, <1>3 DEF SpaceInv

LEMMA SpaceStep == ASSUME SpaceInv, [PagingNext]_pvars PROVE SpaceInv'
<1>0. PagingShape /\ PagingShape'
  BY ShapeStep DEF SpaceInv
<1>1. CASE BootNext
  BY <1>1, SpaceBootNext
<1>2. CASE ClaimPage \/ TouchPage
  BY <1>0, <1>2, SpacePage DEF ClaimPage, TouchPage
<1>3. CASE AllocPage \/ FreePage
  BY <1>0, <1>3, SpacePage DEF AllocPage, FreePage
<1>4. ASSUME NEW d \in AllDirs, NEW r \in Ranges, NEW op \in {"alloc", "free"},
             Start(op, d, r)
      PROVE  SpaceInv'
  BY <1>4, SpaceStarts
<1>5. CASE Reset
  <2>1. /\ boot' = 1 /\ job' = Idle
        /\ \A i \in TableIndices : tables'[KernelDir][i] = NoTable
    BY <1>0, <1>5, ResetEffect
  <2>. QED BY <1>0, <2>1, IdleIsAJob DEF SpaceInv, TablesApart
<1>6. CASE UNCHANGED pvars
  BY <1>0, <1>6 DEF pvars, SpaceInv, TablesApart
<1>. QED
  BY <1>1, <1>2, <1>3, <1>4, <1>5, <1>6 DEF PagingNext, AllocPagesFor, FreePages

-----------------------------------------------------------------------------
(* The theorems *)

(* The inductive invariants of the frames and of kernel space.               *)
THEOREM PagingInvariant == PagingSpec => [](FrameInv /\ SpaceInv)
<1>1. PagingInit => FrameInv /\ SpaceInv
  <2>1. ASSUME PagingInit PROVE boot = 1 /\ job = Idle
    BY <2>1 DEF PagingInit
  <2>. QED BY <2>1, FrameStart, ShapeAtInit, SpaceAtStart
<1>2. FrameInv /\ SpaceInv /\ [PagingNext]_pvars => (FrameInv /\ SpaceInv)'
  BY FrameStep, SpaceStep
<1>. QED BY <1>1, <1>2, PTL DEF PagingSpec

(* Types: the page tables in use stay in the room there is for them, the     *)
(* stack of the frame map in its array and the word that follows it.         *)
THEOREM PagingTypeCorrect == PagingSpec => []PagingTypeOK
<1>1. PagingShape => PagingTypeOK
  <2> SUFFICES ASSUME PagingShape PROVE PagingTypeOK
    OBVIOUS
  <2>1. \A t \in TableIds, j \in 0 .. TableSize - 1 : entry[t][j] \in PageT
    BY DEF PagingShape, EntryType
  <2>2. \A t \in TableIds, j \in 0 .. TableSize - 1 :
           entry[t][j].present \in BOOLEAN /\ entry[t][j].frame \in Nat
    BY <2>1 DEF PageT
  <2>. QED BY <2>2, JobsOfBoot DEF PagingShape, PagingTypeOK
<1>. QED BY <1>1, PagingInvariant, PTL DEF FrameInv

(* A frame is never lost: while it is marked as taken an entry has it, for   *)
(* any ranges asked for and given back, and resets in between.               *)
THEOREM FramesAreKept == PagingSpec => []NoFrameLost
<1>. QED BY PagingInvariant, PTL DEF FrameInv

(* No two entries have the same frame, but for the frames that the frame map *)
(* hands out while they are taken and those of entries that a reset left.    *)
THEOREM FramesStayExclusive == PagingSpec => []FramesAreExclusive
<1>. QED BY PagingInvariant, PTL DEF FrameInv

(* Once paging_init is over every index of kernel space has a table of its   *)
(* own, whatever any directory is asked for, and after every reset again.    *)
THEOREM KernelSpaceStaysComplete == PagingSpec => []KernelSpaceIsComplete
<1>1. ASSUME SpaceInv PROVE KernelSpaceIsComplete
  <2>1. KernelSpace \subseteq TableIndices
    BY PagingAssumption
  <2> SUFFICES ASSUME boot > 6, job.op = "touch" => job.pages = <<>>
               PROVE  \A i \in KernelSpace : tables[KernelDir][i] # NoTable
    BY <1>1, <2>1, JobsOfBoot DEF SpaceInv, TablesApart, KernelSpaceIsComplete
  <2>2. boot = 7
    BY <1>1 DEF SpaceInv, PagingShape
  <2>3. job.op = "touch" => 1 .. Len(job.pages) = {}
    OBVIOUS
  <2>. QED BY <1>1, <2>2, <2>3 DEF SpaceInv
<1>. QED BY <1>1, PagingInvariant, PTL

-----------------------------------------------------------------------------
(* Every page that was asked for is present, if memory holds no entry with a *)
(* frame that is not present: whichever directory it was asked through, and  *)
(* whatever is mapped and given back meanwhile.                              *)

(* What a page table is made over may look like an entry, but not like one   *)
(* that has a frame and is not present.                                      *)
MemoryIsClean == \A e \in RamContents : e.frame # 0 => e.present

PresentOf(s) == entry[s[1]][s[2]].present

SlotOf(m) == <<tables[m.dir][m.page \div TableSize], m.page % TableSize>>

RequestKept(m) ==
    /\ m.dir \in AllDirs
    /\ m.page \in Nat /\ m.page \div TableSize \in TableIndices
    /\ tables[m.dir][m.page \div TableSize] # NoTable
    /\ m.got => PresentOf(SlotOf(m))

PresenceInv ==
    /\ \A s \in Slots : FrameOf(s) # 0 => PresentOf(s)
    /\ job.op \in {"alloc", "free"} => \A k \in 1 .. Len(job.pages) :
          job.pages[k] \div TableSize \in TableIndices
    /\ \A m \in mapped : RequestKept(m)

-----------------------------------------------------------------------------

LEMMA SetEntryPresent ==
    ASSUME PagingShape, Here \in Slots, NEW e \in PageT,
           SetEntry(job.dir, Page, e)
    PROVE  \A s \in Slots : entry'[s[1]][s[2]] = IF s = Here THEN e ELSE entry[s[1]][s[2]]
<1>1. /\ Here[1] \in TableIds /\ Here[2] \in 0 .. TableSize - 1
      /\ Here = <<Here[1], Here[2]>>
      /\ entry' = [entry EXCEPT ![Here[1]][Here[2]] = e]
  BY DEF Here, Slots, SetEntry
<1>2. entry \in EntryType
  BY DEF PagingShape
<1>3. \A t \in TableIds, j \in 0 .. TableSize - 1 :
         entry'[t][j] = IF t = Here[1] /\ j = Here[2] THEN e ELSE entry[t][j]
  BY <1>1, <1>2 DEF EntryType
<1>4. \A s \in Slots : /\ s[1] \in TableIds /\ s[2] \in 0 .. TableSize - 1
                       /\ s = Here <=> (s[1] = Here[1] /\ s[2] = Here[2])
  BY <1>1 DEF Slots
<1>. QED BY <1>3, <1>4

(* An entry that is written is present, or was before.                       *)
Present == \A s \in Slots : PresentOf(s) => PresentOf(s)'

Framed == \A s \in Slots : FrameOf(s) # 0 => PresentOf(s)

LEMMA EntryPresent ==
    ASSUME PagingShape, Framed, Here \in Slots, NEW e \in PageT,
           SetEntry(job.dir, Page, e), e.frame # 0 => e.present,
           PresentOf(Here) => e.present
    PROVE  /\ Framed' /\ Present
           /\ e.present => \A s \in Slots : s = Here => PresentOf(s)'
<1>1. \A s \in Slots : entry'[s[1]][s[2]] = IF s = Here THEN e ELSE entry[s[1]][s[2]]
  BY SetEntryPresent
<1>2. ASSUME NEW s \in Slots, s # Here
      PROVE  FrameOf(s)' = FrameOf(s) /\ (PresentOf(s) => PresentOf(s)')
                                      /\ (PresentOf(s)' => PresentOf(s))
  BY <1>1, <1>2 DEF FrameOf, PresentOf
<1>3. ASSUME NEW s \in Slots, s = Here
      PROVE  /\ FrameOf(s)' = e.frame
             /\ e.present => PresentOf(s)'
             /\ PresentOf(s) => PresentOf(Here)
  BY <1>1, <1>3 DEF FrameOf, PresentOf
<1>4. ASSUME NEW s \in Slots, PresentOf(s) PROVE PresentOf(s)'
  BY <1>2, <1>3, <1>4
<1>5. ASSUME NEW s \in Slots, FrameOf(s)' # 0 PROVE PresentOf(s)'
  <2>1. CASE s = Here
    BY <1>3, <1>5, <2>1
  <2>2. CASE s # Here
    <3>1. FrameOf(s) # 0
      BY <1>2, <1>5, <2>2
    <3>. QED BY <1>2, <2>2, <3>1 DEF Framed
  <2>. QED BY <2>1, <2>2
<1>6. Framed'
  BY <1>5 DEF Framed, Slots
<1>7. Present
  BY <1>4 DEF Present
<1>. QED BY <1>3, <1>6, <1>7

-----------------------------------------------------------------------------
(* The tables *)

(* A request stays kept: directories only gain tables.                       *)
LEMMA RequestsStay ==
    ASSUME PagingShape, Present,
           \A d \in AllDirs, i \in TableIndices :
              tables[d][i] # NoTable => tables'[d][i] = tables[d][i],
           NEW m, RequestKept(m)
    PROVE  RequestKept(m)'
<1> DEFINE i == m.page \div TableSize
           t == tables[m.dir][i]
           j == m.page % TableSize
<1>1. /\ m.dir \in AllDirs
      /\ m.page \in Nat /\ i \in TableIndices
      /\ t # NoTable
  BY DEF RequestKept
<1>2. t \in TableIds /\ tables'[m.dir][i] = t
  BY <1>1 DEF PagingShape
<1>3. j \in 0 .. TableSize - 1
  BY <1>1, PagingAssumption, SMT
<1>5. m.got => entry[t][j].present
  BY DEF RequestKept, PresentOf, SlotOf
<1>. HIDE DEF i, t, j
<1>6. entry[t][j].present => entry'[t][j].present
  <2>1. <<t, j>> \in Slots /\ <<t, j>>[1] = t /\ <<t, j>>[2] = j
    BY <1>2, <1>3 DEF Slots
  <2>. QED BY <2>1 DEF Present, PresentOf
<1>7. m.got => entry'[tables'[m.dir][i]][j].present
  BY <1>2, <1>5, <1>6
<1>8. tables'[m.dir][i] # NoTable
  BY <1>1, <1>2
<1>. QED BY <1>1, <1>7, <1>8 DEF RequestKept, PresentOf, SlotOf, i, j

-----------------------------------------------------------------------------
(* The steps *)

LEMMA PresenceUnchanged ==
    ASSUME PagingShape, PresenceInv, entry' = entry,
           \A d \in AllDirs, i \in TableIndices :
              tables[d][i] # NoTable => tables'[d][i] = tables[d][i],
           mapped' \subseteq mapped
    PROVE  /\ \A s \in Slots : FrameOf(s)' # 0 => PresentOf(s)'
           /\ \A m \in mapped' : RequestKept(m)'
<1>2. Present
  BY DEF Present, PresentOf
<1>3. \A s \in Slots : FrameOf(s) # 0 => PresentOf(s)
  BY DEF PresenceInv
<1>4. \A s \in Slots : FrameOf(s)' # 0 => PresentOf(s)'
  BY <1>3 DEF FrameOf, PresentOf
<1>5. ASSUME NEW m \in mapped' PROVE RequestKept(m)'
  <2>1. RequestKept(m)
    BY DEF PresenceInv
  <2>. QED BY <1>2, <2>1, RequestsStay
<1>. QED BY <1>4, <1>5

(* The pages still to come have a place in the directory.                    *)
PagesFit == job.op \in {"alloc", "free"} => \A k \in 1 .. Len(job.pages) :
               job.pages[k] \div TableSize \in TableIndices

LEMMA PagesStayFit ==
    ASSUME PagingShape, PagesFit, NEW op, NextPage(op), Advance
    PROVE  /\ PagesFit'
           /\ op \in {"alloc", "free"} => Page \div TableSize \in TableIndices
<1>1. job.op = op /\ job.pages # <<>> /\ job.pages \in Seq(Nat)
  BY DEF NextPage, PagingShape, JobType
<1>2. Page = job.pages[1] /\ Len(job.pages) \in Nat \ {0}
  BY <1>1, EmptySeq DEF Page
<1>3. /\ job'.op = job.op
      /\ Len(job'.pages) = Len(job.pages) - 1
      /\ \A k \in 1 .. Len(job'.pages) : job'.pages[k] = job.pages[k + 1]
  BY AdvanceJob
<1>4. ASSUME op \in {"alloc", "free"} PROVE Page \div TableSize \in TableIndices
  BY <1>1, <1>2, <1>4 DEF PagesFit
<1>5. ASSUME job'.op \in {"alloc", "free"}, NEW k \in 1 .. Len(job'.pages)
      PROVE  job'.pages[k] \div TableSize \in TableIndices
  <2>1. k + 1 \in 1 .. Len(job.pages) /\ job'.pages[k] = job.pages[k + 1]
    BY <1>2, <1>3
  <2>2. job.op \in {"alloc", "free"}
    BY <1>3, <1>5
  <2>. QED BY <2>1, <2>2 DEF PagesFit
<1>. QED BY <1>4, <1>5 DEF PagesFit

LEMMA PresenceParts ==
    ASSUME Framed', PagesFit', \A m \in mapped' : RequestKept(m)'
    PROVE  PresenceInv'
  BY DEF PresenceInv, Framed, PagesFit

LEMMA PresenceClaimPage ==
    ASSUME PagingShape, PresenceInv, ClaimPage PROVE PresenceInv'
<1>1. NextPage("claim") /\ Advance /\ mapped' = mapped
  BY DEF ClaimPage
<1>2. Framed /\ PagesFit /\ Here \in Slots
  BY <1>1, SlotAt DEF PresenceInv, Framed, PagesFit
<1>3. Framed' /\ Present
  <2>1. CASE entry' = entry
    BY <1>2, <2>1 DEF Framed, Present, FrameOf, PresentOf
  <2>2. CASE entry' # entry
    <3>1. SetEntry(job.dir, Page, [present |-> TRUE, frame |-> job.frame])
      BY <2>2 DEF ClaimPage, Page
    <3>2. [present |-> TRUE, frame |-> job.frame] \in PageT
      BY DEF PageT, PagingShape, JobType
    <3>. QED BY <1>2, <3>1, <3>2, EntryPresent
  <2>. QED BY <2>1, <2>2
<1>4. \A d \in AllDirs, i \in TableIndices :
         tables[d][i] # NoTable => tables'[d][i] = tables[d][i]
  BY <1>1, TablesStay
<1>5. \A m \in mapped' : RequestKept(m)'
  BY <1>1, <1>3, <1>4, RequestsStay DEF PresenceInv
<1>6. PagesFit'
  BY <1>1, <1>2, PagesStayFit
<1>. QED BY <1>3, <1>5, <1>6, PresenceParts

LEMMA PresenceTouchPage ==
    ASSUME PagingShape, PresenceInv, TouchPage PROVE PresenceInv'
<1>1. NextPage("touch") /\ Advance /\ mapped' = mapped /\ entry' = entry
  BY DEF TouchPage
<1>2. \A d \in AllDirs, i \in TableIndices :
         tables[d][i] # NoTable => tables'[d][i] = tables[d][i]
  BY <1>1, TablesStay
<1>3. PagesFit'
  BY <1>1, PagesStayFit DEF PresenceInv, PagesFit
<1>4. Framed' /\ \A m \in mapped' : RequestKept(m)'
  BY <1>1, <1>2, PresenceUnchanged DEF Framed
<1>. QED BY <1>3, <1>4, PresenceParts

LEMMA PresenceFreePage ==
    ASSUME PagingShape, PresenceInv, FreePage PROVE PresenceInv'
<1>1. NextPage("free") /\ Advance /\ mapped' \subseteq mapped
  BY DEF FreePage
<1>2. Framed /\ PagesFit /\ Here \in Slots
  BY <1>1, SlotAt DEF PresenceInv, Framed, PagesFit
<1>3. Framed' /\ Present
  <2> DEFINE e == EntryOf(job.dir, Page)
  <2>1. CASE entry' = entry
    BY <1>2, <2>1 DEF Framed, Present, FrameOf, PresentOf
  <2>2. CASE entry' # entry
    <3>1. SetEntry(job.dir, Page, [e EXCEPT !.frame = 0])
      BY <2>2 DEF FreePage, Page
    <3>2. e \in PageT /\ e = entry[Here[1]][Here[2]]
      BY <1>1, SlotAt
    <3>. HIDE DEF e
    <3>3. /\ [e EXCEPT !.frame = 0] \in PageT
          /\ [e EXCEPT !.frame = 0].frame = 0
          /\ [e EXCEPT !.frame = 0].present = e.present
      BY <3>2 DEF PageT
    <3>4. PresentOf(Here) => [e EXCEPT !.frame = 0].present
      BY <3>2, <3>3 DEF PresentOf
    <3>. QED BY <1>2, <3>1, <3>3, <3>4, EntryPresent
  <2>. QED BY <2>1, <2>2
<1>4. \A d \in AllDirs, i \in TableIndices :
         tables[d][i] # NoTable => tables'[d][i] = tables[d][i]
  BY <1>1, TablesStay
<1>5. \A m \in mapped' : RequestKept(m)'
  BY <1>1, <1>3, <1>4, RequestsStay DEF PresenceInv
<1>6. PagesFit'
  BY <1>1, <1>2, PagesStayFit
<1>. QED BY <1>3, <1>5, <1>6, PresenceParts

(* The page that was asked for has a table, and is present if there was a    *)
(* frame for it.                                                             *)
LEMMA PageIsPresent ==
    ASSUME PagingShape, Framed, AllocPage
    PROVE  /\ Framed' /\ Present
           /\ EntryOf(job.dir, Page).frame # 0 \/ answer' # Fail =>
                 entry'[TableOf(job.dir, Page)][Page % TableSize].present
<1>1. NextPage("alloc")
  BY DEF AllocPage
<1>2. /\ Here \in Slots /\ Here[1] = TableOf(job.dir, Page) /\ Here[2] = Page % TableSize
      /\ EntryOf(job.dir, Page).frame = FrameOf(Here)
  BY <1>1, SlotAt DEF Here
<1>3. CASE EntryOf(job.dir, Page).frame # 0
  <2>1. entry' = entry
    BY <1>3 DEF AllocPage, Page
  <2>2. Framed' /\ Present
    BY <2>1 DEF Framed, Present, FrameOf, PresentOf
  <2>3. PresentOf(Here)
    BY <1>2, <1>3 DEF Framed
  <2>. QED BY <1>2, <2>1, <2>2, <2>3 DEF PresentOf
<1>4. CASE EntryOf(job.dir, Page).frame = 0 /\ answer' = Fail
  <2>1. entry' = entry
    BY <1>4 DEF AllocPage, Page
  <2>2. Framed' /\ Present
    BY <2>1 DEF Framed, Present, FrameOf, PresentOf
  <2>. QED BY <1>4, <2>2
<1>5. CASE EntryOf(job.dir, Page).frame = 0 /\ answer' # Fail
  <2> DEFINE e == [present |-> TRUE, frame |-> answer']
  <2>1. SetNext /\ SetEntry(job.dir, Page, e)
    BY <1>5 DEF AllocPage, Page
  <2>2. answer' \in Entries
    BY <1>5, <2>1, SetNextEffect
  <2>3. e \in PageT /\ e.present
    BY <2>2 DEF PageT, Entries
  <2>. HIDE DEF e
  <2>4. Framed' /\ Present /\ \A s \in Slots : s = Here => PresentOf(s)'
    BY <1>2, <2>1, <2>3, EntryPresent
  <2>5. PICK s \in Slots : s = Here
    BY <1>2
  <2>6. entry'[s[1]][s[2]].present
    BY <2>4, <2>5 DEF PresentOf
  <2>7. s[1] = TableOf(job.dir, Page) /\ s[2] = Page % TableSize
    BY <1>2, <2>5
  <2>. QED BY <2>4, <2>6, <2>7
<1>. QED BY <1>3, <1>4, <1>5

LEMMA PresenceAllocPage ==
    ASSUME PagingShape, PresenceInv, AllocPage PROVE PresenceInv'
<1>1. /\ PagingShape /\ NextPage("alloc") /\ Advance
      /\ job.op = "alloc" /\ job.dir \in AllDirs
      /\ mapped' = WithRequest(job.dir, Page,
                       EntryOf(job.dir, Page).frame # 0 \/ answer' # Fail)
  BY DEF AllocPage, NextPage, PagingShape, JobType, Page
<1>2. Framed /\ PagesFit
  BY DEF PresenceInv, Framed, PagesFit
<1>3. /\ Framed' /\ Present
      /\ EntryOf(job.dir, Page).frame # 0 \/ answer' # Fail =>
            entry'[TableOf(job.dir, Page)][Page % TableSize].present
  BY <1>1, <1>2, PageIsPresent
<1>4. PagesFit' /\ Page \div TableSize \in TableIndices /\ Page \in Nat
  BY <1>1, <1>2, PagesStayFit, SlotAt
<1>5. /\ \A d \in AllDirs, i \in TableIndices :
            tables[d][i] # NoTable => tables'[d][i] = tables[d][i]
      /\ tables'[job.dir][Page \div TableSize] = TableOf(job.dir, Page)
      /\ TableOf(job.dir, Page) # NoTable
  BY <1>1, <1>4, TablesStay
<1>6. ASSUME NEW m \in mapped' PROVE RequestKept(m)'
  <2>1. CASE m \in mapped
    BY <1>1, <1>3, <1>5, <2>1, RequestsStay DEF PresenceInv
  <2>2. CASE m \notin mapped
    <3> DEFINE got == EntryOf(job.dir, Page).frame # 0 \/ answer' # Fail
    <3>. HIDE DEF got
    <3>0. m \in (mapped \ RequestsOf(job.dir, Page))
                  \cup {[dir |-> job.dir, page |-> Page, got |-> got]}
      BY <1>1 DEF WithRequest, got
    <3>1. m = [dir |-> job.dir, page |-> Page, got |-> got]
      BY <2>2, <3>0
    <3>2. m.got => entry'[tables'[m.dir][m.page \div TableSize]][m.page % TableSize].present
      BY <1>3, <1>5, <3>1 DEF got
    <3>. QED BY <1>1, <1>4, <1>5, <3>1, <3>2 DEF RequestKept, PresentOf, SlotOf
  <2>. QED BY <2>1, <2>2
<1>. QED BY <1>3, <1>4, <1>6, PresenceParts

LEMMA PresenceBootNext ==
    ASSUME PagingShape, PresenceInv, BootNext PROVE PresenceInv'
<1>1. /\ entry' = entry /\ tables' = tables /\ mapped' = mapped
      /\ boot \in 1 .. 5 => job' = Claiming(BootRanges[boot])
      /\ boot = 6 => job' = BootJobs[6]
      /\ boot \in 1 .. 6
  BY BootNextEffect DEF BootNext
<1>2. job'.op \in {"claim", "touch"}
  BY <1>1, ClaimingIsAJob, JobsOfBoot
<1>3. PagesFit'
  BY <1>2 DEF PagesFit
<1>. QED BY <1>1, <1>3, PresenceUnchanged, PresenceParts DEF Framed

LEMMA PresenceStart ==
    ASSUME PagingShape, PresenceInv, NEW op \in {"alloc", "free"}, NEW d \in AllDirs,
           NEW r \in Ranges, Start(op, d, r)
    PROVE  PresenceInv'
<1>1. /\ job' = [op |-> op, dir |-> d, pages |-> PagesFrom(r.page, r.size), frame |-> 0]
      /\ UNCHANGED <<tables, entry, mapped>>
  BY DEF Start
<1>2. /\ r.page \in Nat /\ r.size \in Nat
      /\ \A p \in r.page .. r.page + r.size - 1 : p \div TableSize \in TableIndices
  BY PagingAssumption
<1>3. ASSUME NEW k \in 1 .. Len(job'.pages)
      PROVE  job'.pages[k] \div TableSize \in TableIndices
  <2>1. k \in 1 .. r.size
    BY <1>1, <1>2, <1>3, PagesAreASequence
  <2>2. job'.pages[k] = r.page + k - 1
    BY <1>1, <2>1 DEF PagesFrom
  <2>3. r.page + k - 1 \in r.page .. r.page + r.size - 1
    BY <1>2, <2>1
  <2>. QED BY <1>2, <2>2, <2>3
<1>4. PagesFit'
  BY <1>3 DEF PagesFit
<1>. QED BY <1>1, <1>4, PresenceUnchanged, PresenceParts DEF Framed

(* A cleared entry has no frame.                                             *)
LEMMA FramedWhenCleared ==
    ASSUME NEW e \in EntryType,
           \A t \in TableIds, j \in 0 .. TableSize - 1 :
              e[t][j].frame # 0 => e[t][j].present
    PROVE  \A t \in TableIds, j \in 0 .. TableSize - 1 :
              ClearedMemory(e)[t][j].frame # 0 => ClearedMemory(e)[t][j].present
  BY ClearedIsMemory DEF Blank

LEMMA PresenceReset == ASSUME PagingShape, PresenceInv, Reset PROVE PresenceInv'
<1>1. entry' = ClearedMemory(entry) /\ job' = Idle /\ mapped' = {}
  BY DEF Reset
<1>2. PagesFit'
  BY <1>1, IdleIsAJob DEF PagesFit
<1>3. \A t \in TableIds, j \in 0 .. TableSize - 1 :
         entry[t][j].frame # 0 => entry[t][j].present
  <2> TAKE t \in TableIds, j \in 0 .. TableSize - 1
  <2>1. <<t, j>> \in Slots /\ <<t, j>>[1] = t /\ <<t, j>>[2] = j
    BY DEF Slots
  <2>. QED BY <2>1 DEF PresenceInv, FrameOf, PresentOf
<1>4. \A t \in TableIds, j \in 0 .. TableSize - 1 :
         entry'[t][j].frame # 0 => entry'[t][j].present
  BY <1>1, <1>3, FramedWhenCleared DEF PagingShape
<1>5. Framed'
  BY <1>4 DEF Framed, FrameOf, PresentOf, Slots
<1>. QED BY <1>1, <1>2, <1>5, PresenceParts

LEMMA PresenceStep ==
    ASSUME SpaceInv, PresenceInv, [PagingNext]_pvars PROVE PresenceInv'
<1>0. PagingShape
  BY DEF SpaceInv
<1>1. CASE BootNext
  BY <1>0, <1>1, PresenceBootNext
<1>2. CASE ClaimPage
  BY <1>0, <1>2, PresenceClaimPage
<1>3. CASE AllocPage
  BY <1>0, <1>3, PresenceAllocPage
<1>4. CASE FreePage
  BY <1>0, <1>4, PresenceFreePage
<1>5. CASE TouchPage
  BY <1>0, <1>5, PresenceTouchPage
<1>6. ASSUME NEW d \in AllDirs, NEW r \in Ranges, NEW op \in {"alloc", "free"},
             Start(op, d, r)
      PROVE  PresenceInv'
  BY <1>0, <1>6, PresenceStart
<1>7. CASE Reset
  BY <1>0, <1>7, PresenceReset
<1>8. CASE UNCHANGED pvars
  <2>1. UNCHANGED <<entry, tables, mapped, job>>
    BY <1>8 DEF pvars
  <2>2. PagesFit'
    BY <2>1 DEF PresenceInv, PagesFit
  <2>. QED BY <1>0, <2>1, <2>2, PresenceUnchanged, PresenceParts DEF Framed
<1>. QED
  BY <1>1, <1>2, <1>3, <1>4, <1>5, <1>6, <1>7, <1>8
  DEF PagingNext, AllocPagesFor, FreePages

LEMMA PresenceAtInit == ASSUME MemoryIsClean, PagingInit PROVE PresenceInv
<1>1. mapped = {} /\ job = Idle
  BY DEF PagingInit
<1>2. PICK words \in [TableIds -> [0 .. TableSize - 1 -> RamContents]] :
             words \in EntryType /\ entry = ClearedMemory(words)
  BY ShapeAtInit
<1>3. \A t \in TableIds, j \in 0 .. TableSize - 1 :
         words[t][j].frame # 0 => words[t][j].present
  BY <1>2 DEF MemoryIsClean
<1>4. \A t \in TableIds, j \in 0 .. TableSize - 1 :
         entry[t][j].frame # 0 => entry[t][j].present
  BY <1>2, <1>3, FramedWhenCleared
<1>5. \A s \in Slots : FrameOf(s) # 0 => PresentOf(s)
  BY <1>4 DEF FrameOf, PresentOf, Slots
<1>. QED BY <1>1, <1>5, IdleIsAJob DEF PresenceInv

(* When alloc_pages_for is over, its pages have a table and are present,     *)
(* but for those that imap_set_next had no frame for: for any ranges, mapped *)
(* through any directory and given back in any order, and machines that are  *)
(* reset, as long as memory held no entry with a frame and not present.      *)
THEOREM RequestedPagesArePresent ==
    ASSUME MemoryIsClean PROVE PagingSpec => []MappedPagesArePresent
<1>1. PagingInit => PresenceInv
  BY PresenceAtInit
<1>2. SpaceInv /\ PresenceInv /\ [PagingNext]_pvars => PresenceInv'
  BY PresenceStep
<1>3. PresenceInv => MappedPagesArePresent
  BY DEF PresenceInv, RequestKept, PresentOf, SlotOf, MappedPagesArePresent
<1>. QED BY <1>1, <1>2, <1>3, PagingInvariant, PTL DEF PagingSpec

-----------------------------------------------------------------------------
(* The frames that paging_init claims stay marked as taken, in a machine     *)
(* just switched on and in one that was reset: the page tables of            *)
(* paging_init are then made in the same places as before, so that every     *)
(* page it maps finds an empty entry, one that was cleared with the          *)
(* directory, or the one it had.                                             *)

(* The pages that the loops of paging_init visit, a visit being the number   *)
(* of the loop and the number of the page in it.                             *)
Visits == {q \in (1 .. 6) \X Nat : q[2] \in 1 .. Len(BootJobs[q[1]].pages)}

PageAt(q) == BootJobs[q[1]].pages[q[2]]
IndexAt(q) == PageAt(q) \div TableSize

(* The visits that claim a frame, and the frame they claim.                  *)
Claims == {q \in Visits : q[1] \in 1 .. 5}
FrameAt(q) == BootRanges[q[1]].frame + q[2] - 1

(* Those whose frame has a bit; the video memory may lie where no frame has. *)
BitClaims == {q \in Claims : FrameAt(q) \in Entries}

NoLater(p, q) == p[1] < q[1] \/ (p[1] = q[1] /\ p[2] <= q[2])

IndicesOf(V) == {IndexAt(q) : q \in V}

(* The tables that are made up to the one for index i; its number is how     *)
(* many they are.                                                            *)
UpTo(i) == IndicesOf({p \in Visits : \A q \in Visits : IndexAt(q) = i => NoLater(p, q)})

TableNumber(i) == Cardinality(UpTo(i))

(* Where in memory the entry is that a visit of paging_init comes to.        *)
PlaceOf(q) == <<TableNumber(IndexAt(q)), PageAt(q) % TableSize>>

(* The visits that have been made.                                           *)
Visited ==
    {q \in Visits :
        \/ q[1] < boot - 1
        \/ /\ q[1] = boot - 1
           /\ \/ job.op \in {"alloc", "free"}
              \/ q[2] + Len(job.pages) <= Len(BootJobs[q[1]].pages)}

Starting == job.op \notin {"alloc", "free"}

(* How many visits of its loop paging_init has made, and the next one.       *)
Done == Len(BootJobs[boot - 1].pages) - Len(job.pages)
NextVisit == <<boot - 1, Done + 1>>

(* The loop under way is at the page and the frame of the next visit.        *)
WalkInv ==
    /\ boot = 1 => job = Idle
    /\ boot > 1 /\ Starting =>
          /\ job.op = BootJobs[boot - 1].op
          /\ Done \in Nat
          /\ \A k \in 1 .. Len(job.pages) :
                job.pages[k] = BootJobs[boot - 1].pages[Done + k]
          /\ job.op = "claim" => job.frame = BootJobs[boot - 1].frame + Done
    /\ ~ Starting =>
          /\ boot = 7
          /\ \A k \in 1 .. Len(job.pages) : \E r \in Ranges :
                job.pages[k] \in PagesOf(r) /\ job.dir \in r.dirs

(* Tables are made in the order of the first visits, the others after them.  *)
OrderInv ==
    /\ \A q \in Visited : tables[KernelDir][IndexAt(q)] = TableNumber(IndexAt(q))
    /\ Starting =>
          /\ \A i \in TableIndices \ IndicesOf(Visited) : tables[KernelDir][i] = NoTable
          /\ made = Cardinality(IndicesOf(Visited))
    /\ ~ Starting => made >= Cardinality(IndicesOf(Visits))
    /\ \A d \in AllDirs, i \in TableIndices :
          \/ d = KernelDir /\ i \in IndicesOf(Visits)
          \/ tables[d][i] = NoTable
          \/ tables[d][i] > Cardinality(IndicesOf(Visits))

(* The entry that a visit comes to has the frame that it claims, or none.    *)
PlaceInv ==
    /\ \A q \in BitClaims : PlaceOf(q) \in Slots => FrameOf(PlaceOf(q)) \in {0, FrameAt(q)}
    /\ \A q \in BitClaims \cap Visited :
          /\ PlaceOf(q) \in Slots
          /\ FrameOf(PlaceOf(q)) = FrameAt(q)
          /\ FrameAt(q) = 0 => 0 \in bits

-----------------------------------------------------------------------------
(* Visits *)

LEMMA LoopPages ==
    ASSUME NEW b \in 1 .. 6
    PROVE  /\ BootJobs[b].pages \in Seq(Nat)
           /\ BootJobs[b].dir = KernelDir
           /\ BootJobs[b].op = IF b = 6 THEN "touch" ELSE "claim"
           /\ b # 6 => /\ BootRanges[b] \in [frame : Nat, page : Nat, size : Nat]
                       /\ Len(BootJobs[b].pages) = BootRanges[b].size
                       /\ BootJobs[b].frame = BootRanges[b].frame
                       /\ \A k \in 1 .. BootRanges[b].size :
                             BootJobs[b].pages[k] = BootRanges[b].page + k - 1
<1>1. CASE b = 6
  BY <1>1, JobsOfBoot, KernelTables
<1>2. CASE b # 6
  <2>1. b \in 1 .. 5
    BY <1>2
  <2>2. BootJobs[b] = Claiming(BootRanges[b])
    BY <2>1, JobsOfBoot
  <2>3. /\ Claiming(BootRanges[b]) \in JobType
        /\ Claiming(BootRanges[b]).op = "claim"
        /\ Claiming(BootRanges[b]).dir = KernelDir
        /\ Claiming(BootRanges[b]).frame = BootRanges[b].frame
        /\ Len(Claiming(BootRanges[b]).pages) = BootRanges[b].size
    BY <2>1, ClaimingIsAJob
  <2>4. BootRanges[b] \in [frame : Nat, page : Nat, size : Nat]
    BY <2>1, JobsOfBoot, PagingAssumption
  <2>5. Claiming(BootRanges[b]).pages = PagesFrom(BootRanges[b].page, BootRanges[b].size)
    BY DEF Claiming
  <2>6. \A k \in 1 .. BootRanges[b].size :
           Claiming(BootRanges[b]).pages[k] = BootRanges[b].page + k - 1
    BY <2>5 DEF PagesFrom
  <2>. QED BY <1>2, <2>2, <2>3, <2>4, <2>6 DEF JobType
<1>. QED BY <1>1, <1>2

LEMMA VisitFacts ==
    ASSUME NEW q \in Visits
    PROVE  /\ q[1] \in 1 .. 6 /\ q[2] \in Nat \ {0} /\ q = <<q[1], q[2]>>
           /\ q[2] <= Len(BootJobs[q[1]].pages)
           /\ PageAt(q) \in Nat
           /\ IndexAt(q) \in TableIndices
           /\ q[1] # 6 => /\ q \in Claims
                          /\ FrameAt(q) \in Nat
                          /\ PageAt(q) \in PagesOf(BootRanges[q[1]])
                          /\ PageAt(q) = BootRanges[q[1]].page + q[2] - 1
<1>1. /\ q[1] \in 1 .. 6 /\ q[2] \in Nat /\ q = <<q[1], q[2]>>
      /\ q[2] \in 1 .. Len(BootJobs[q[1]].pages)
  BY DEF Visits
<1> DEFINE b == q[1]
           k == q[2]
           P == BootJobs[b].pages
           r == BootRanges[b]
<1>0. b \in 1 .. 6
  BY <1>1
<1>. HIDE DEF b, k
<1>2. /\ P \in Seq(Nat) /\ b \in 1 .. 6
      /\ b = 6 => P = KernelTablePages
      /\ b # 6 => /\ r \in [frame : Nat, page : Nat, size : Nat]
                  /\ Len(P) = r.size
                  /\ \A j \in 1 .. r.size : P[j] = r.page + j - 1
  <2>1. b = 6 => P = KernelTablePages
    BY JobsOfBoot
  <2>2. /\ P \in Seq(Nat)
        /\ b # 6 => /\ r \in [frame : Nat, page : Nat, size : Nat]
                    /\ Len(P) = r.size
                    /\ \A j \in 1 .. r.size : P[j] = r.page + j - 1
    BY ONLY <1>0, LoopPages
  <2>. QED BY <1>0, <2>1, <2>2
<1>. HIDE DEF P, r
<1>3. k \in Nat \ {0} /\ k <= Len(P) /\ k \in 1 .. Len(P)
  BY <1>1, <1>2, LenProperties DEF b, k, P
<1>4. P[k] \in Nat
  BY <1>2, <1>3, ElementOfSeq
<1>5. PageAt(q) = P[k] /\ IndexAt(q) = P[k] \div TableSize
  BY DEF PageAt, IndexAt, P, b, k
<1>6. CASE b = 6
  <2>1. P[k] \div TableSize \in KernelSpace
    BY <1>2, <1>3, <1>6, KernelTables
  <2>. QED BY <1>1, <1>3, <1>4, <1>5, <1>6, <2>1, PagingAssumption DEF b, k, P
<1>7. CASE b # 6
  <2>1. /\ r.page \in Nat /\ r.size \in Nat /\ r.frame \in Nat
        /\ P[k] = r.page + k - 1 /\ k <= r.size
    BY <1>2, <1>3, <1>7
  <2>2. P[k] \in r.page .. r.page + r.size - 1
    BY <1>3, <2>1
  <2>3. P[k] \in PagesOf(BootRanges[b]) /\ b \in DOMAIN BootRanges
    BY <1>2, <1>7, <2>2, JobsOfBoot DEF PagesOf, r
  <2>4. P[k] \div TableSize \in TableIndices
    BY <2>3, BootPagesAssumption
  <2>5. r.frame + k - 1 \in Nat /\ FrameAt(q) = r.frame + k - 1
    BY <1>3, <2>1 DEF FrameAt, r, b, k
  <2>6. b \in 1 .. 5
    BY <1>2, <1>7
  <2>7. q \in Claims
    BY <2>6 DEF Claims, b
  <2>8. PageAt(q) = BootRanges[q[1]].page + q[2] - 1
    BY <1>5, <2>1 DEF r, b, k
  <2>. QED BY <1>1, <1>3, <1>4, <1>5, <2>3, <2>4, <2>5, <2>7, <2>8 DEF b, k, P
<1>. QED BY <1>6, <1>7

LEMMA VisitNumbers == \A q \in Visits : q[1] \in Nat /\ q[2] \in Nat
  BY VisitFacts

(* A page is claimed once.                                                   *)
LEMMA ClaimsAreApart ==
    ASSUME NEW q \in Claims, NEW r \in Claims, PageAt(q) = PageAt(r)
    PROVE  q = r
<1>1. q \in Visits /\ r \in Visits /\ q[1] \in 1 .. 5 /\ r[1] \in 1 .. 5
  BY DEF Claims
<1>2. PageAt(q) \in PagesOf(BootRanges[q[1]]) \cap PagesOf(BootRanges[r[1]])
  BY <1>1, VisitFacts
<1>3. q[1] = r[1]
  BY <1>1, <1>2, BootPagesAssumption, JobsOfBoot
<1>4. /\ q[2] \in Nat /\ r[2] \in Nat /\ q = <<q[1], q[2]>> /\ r = <<r[1], r[2]>>
      /\ BootRanges[q[1]].page + q[2] - 1 = BootRanges[q[1]].page + r[2] - 1
  BY <1>1, <1>3, VisitFacts
<1>5. BootRanges[q[1]] \in [frame : Nat, page : Nat, size : Nat]
  BY <1>1, JobsOfBoot, PagingAssumption
<1>6. BootRanges[q[1]].page \in Nat
  BY <1>5
<1>7. q[2] = r[2]
  BY <1>4, <1>6
<1>. QED BY <1>3, <1>4, <1>7

LEMMA VisitsAreOrdered ==
    ASSUME NEW p \in Visits, NEW q \in Visits
    PROVE  /\ NoLater(p, q) \/ NoLater(q, p)
           /\ NoLater(p, q) /\ NoLater(q, p) => p = q
           /\ \A r \in Visits : NoLater(p, q) /\ NoLater(q, r) => NoLater(p, r)
<1>1. \A r \in Visits : /\ r[1] \in Nat /\ r[2] \in Nat /\ r = <<r[1], r[2]>>
  BY VisitFacts
<1>2. NoLater(p, q) \/ NoLater(q, p)
  BY <1>1 DEF NoLater
<1>3. NoLater(p, q) /\ NoLater(q, p) => p[1] = q[1] /\ p[2] = q[2]
  BY <1>1 DEF NoLater
<1>4. \A r \in Visits : NoLater(p, q) /\ NoLater(q, r) => NoLater(p, r)
  BY <1>1 DEF NoLater
<1>. QED BY <1>1, <1>2, <1>3, <1>4

(* The first visit to a table is the one that makes it.                      *)
LEMMA FirstVisit ==
    ASSUME NEW i \in IndicesOf(Visits)
    PROVE  \E p \in Visits : /\ IndexAt(p) = i
                             /\ \A q \in Visits : IndexAt(q) = i => NoLater(p, q)
<1> DEFINE V == {q \in Visits : IndexAt(q) = i}
           B == {q[1] : q \in V}
<1>1. \A q \in V : q[1] \in Nat /\ q[2] \in Nat
  BY VisitFacts
<1>2. V # {}
  BY DEF IndicesOf
<1>3. B \in SUBSET Nat /\ B # {}
  BY <1>1, <1>2
<1>. HIDE DEF B
<1>4. PICK b \in B : \A c \in B : b <= c
  BY <1>3, LeastElement
<1> DEFINE K == {q[2] : q \in {r \in V : r[1] = b}}
<1>5. K \in SUBSET Nat /\ K # {}
  BY <1>1, <1>4 DEF B
<1>. HIDE DEF K
<1>6. PICK k \in K : \A j \in K : k <= j
  BY <1>5, LeastElement
<1>7. PICK p \in V : p[1] = b /\ p[2] = k
  BY <1>6 DEF K
<1>8. ASSUME NEW q \in V PROVE NoLater(p, q)
  <2>1. b <= q[1] /\ b \in Nat /\ q[1] \in Nat
    BY <1>1, <1>3, <1>4 DEF B
  <2>2. q[1] = b => k <= q[2]
    BY <1>6 DEF K
  <2>. QED BY <1>7, <2>1, <2>2 DEF NoLater
<1>. QED BY <1>7, <1>8

LEMMA IndicesAreFinite ==
    ASSUME NEW V \in SUBSET Visits
    PROVE  /\ IndicesOf(V) \subseteq IndicesOf(Visits)
           /\ IndicesOf(V) \subseteq TableIndices
           /\ IsFiniteSet(IndicesOf(V)) /\ IsFiniteSet(IndicesOf(Visits))
           /\ Cardinality(IndicesOf(V)) \in Nat
           /\ Cardinality(IndicesOf(Visits)) \in Nat
           /\ Cardinality(IndicesOf(V)) <= Cardinality(IndicesOf(Visits))
<1>1. IndicesOf(V) \subseteq IndicesOf(Visits)
  BY DEF IndicesOf
<1>2. IndicesOf(Visits) \subseteq TableIndices
  BY VisitFacts DEF IndicesOf
<1>3. IsFiniteSet(IndicesOf(Visits))
  BY <1>2, BootPagesAssumption, FS_Subset
<1>4. IsFiniteSet(IndicesOf(V))
  BY <1>1, <1>3, FS_Subset
<1>5. Cardinality(IndicesOf(V)) <= Cardinality(IndicesOf(Visits))
  BY <1>1, <1>3, FS_Subset
<1>. QED BY <1>1, <1>2, <1>3, <1>4, <1>5, FS_CardinalityType

LEMMA UpToFacts ==
    ASSUME NEW i \in IndicesOf(Visits)
    PROVE  /\ UpTo(i) \subseteq IndicesOf(Visits)
           /\ IsFiniteSet(UpTo(i))
           /\ i \in UpTo(i)
           /\ TableNumber(i) \in Nat \ {0}
           /\ TableNumber(i) <= Cardinality(IndicesOf(Visits))
<1> DEFINE V == {p \in Visits : \A q \in Visits : IndexAt(q) = i => NoLater(p, q)}
<1>1. V \in SUBSET Visits /\ UpTo(i) = IndicesOf(V)
  BY DEF UpTo
<1>2. i \in IndicesOf(V)
  BY FirstVisit DEF IndicesOf
<1>. HIDE DEF V
<1>3. /\ UpTo(i) \subseteq IndicesOf(Visits) /\ IsFiniteSet(UpTo(i))
      /\ TableNumber(i) \in Nat
      /\ TableNumber(i) <= Cardinality(IndicesOf(Visits))
  BY <1>1, IndicesAreFinite DEF TableNumber
<1>4. TableNumber(i) # 0
  BY <1>1, <1>2, <1>3, FS_EmptySet DEF TableNumber
<1>. QED BY <1>1, <1>2, <1>3, <1>4

(* If the first visit to i is no later than that to j, then the tables made  *)
(* up to the one for i are among those up to the one for j.                  *)
LEMMA UpToGrows ==
    ASSUME NEW a \in Visits, NEW b \in Visits, NoLater(a, b),
           \A q \in Visits : IndexAt(q) = IndexAt(b) => NoLater(b, q)
    PROVE  UpTo(IndexAt(a)) \subseteq UpTo(IndexAt(b))
<1>1. ASSUME NEW p \in Visits, \A q \in Visits : IndexAt(q) = IndexAt(a) => NoLater(p, q),
             NEW q \in Visits, IndexAt(q) = IndexAt(b)
      PROVE  NoLater(p, q)
  BY <1>1, VisitsAreOrdered
<1>. QED BY <1>1 DEF UpTo, IndicesOf

LEMMA SameNumberSameTable ==
    ASSUME NEW i \in IndicesOf(Visits), NEW j \in IndicesOf(Visits),
           TableNumber(i) = TableNumber(j)
    PROVE  i = j
<1>1. PICK a \in Visits : /\ IndexAt(a) = i
                          /\ \A q \in Visits : IndexAt(q) = i => NoLater(a, q)
  BY FirstVisit
<1>2. PICK b \in Visits : /\ IndexAt(b) = j
                          /\ \A q \in Visits : IndexAt(q) = j => NoLater(b, q)
  BY FirstVisit
<1>3. UpTo(i) \subseteq UpTo(j) \/ UpTo(j) \subseteq UpTo(i)
  BY <1>1, <1>2, VisitsAreOrdered, UpToGrows
<1>4. UpTo(i) = UpTo(j)
  BY <1>3, UpToFacts, FS_Subset DEF TableNumber
<1>5. j \in UpTo(i) /\ i \in UpTo(j)
  BY <1>4, UpToFacts
<1>6. NoLater(b, a)
  <2>1. PICK p \in Visits : IndexAt(p) = j /\ NoLater(p, a)
    BY <1>1, <1>5 DEF UpTo, IndicesOf
  <2>. QED BY <1>2, <2>1, VisitsAreOrdered
<1>7. NoLater(a, b)
  <2>1. PICK p \in Visits : IndexAt(p) = i /\ NoLater(p, b)
    BY <1>2, <1>5 DEF UpTo, IndicesOf
  <2>. QED BY <1>1, <2>1, VisitsAreOrdered
<1>. QED BY <1>1, <1>2, <1>6, <1>7, VisitsAreOrdered

LEMMA PageFromIndex ==
    ASSUME NEW p \in Nat
    PROVE  /\ p = TableSize * (p \div TableSize) + (p % TableSize)
           /\ p % TableSize \in 0 .. TableSize - 1
<1>1. TableSize \in Nat \ {0}
  BY PagingAssumption
<1>. QED BY ONLY <1>1, p \in Nat, SMT

(* Two pages with the same place are the same page.                          *)
LEMMA PlacesAreApart ==
    ASSUME NEW q \in Visits, NEW p \in Nat,
           p \div TableSize \in IndicesOf(Visits),
           PlaceOf(q) = <<TableNumber(p \div TableSize), p % TableSize>>
    PROVE  PageAt(q) = p
<1>1. /\ TableNumber(IndexAt(q)) = TableNumber(p \div TableSize)
      /\ PageAt(q) % TableSize = p % TableSize
  BY DEF PlaceOf
<1>2. IndexAt(q) = p \div TableSize
  BY <1>1, SameNumberSameTable DEF IndicesOf
<1>3. PageAt(q) \in Nat
  BY VisitFacts
<1>4. PageAt(q) \div TableSize = p \div TableSize
  BY <1>2 DEF IndexAt
<1>5. /\ PageAt(q) = TableSize * (PageAt(q) \div TableSize) + (PageAt(q) % TableSize)
      /\ p = TableSize * (p \div TableSize) + (p % TableSize)
  BY ONLY <1>3, p \in Nat, PageFromIndex
<1>. QED BY ONLY <1>1, <1>4, <1>5

-----------------------------------------------------------------------------
(* The loops of paging_init *)

LEMMA AtNextVisit ==
    ASSUME PagingShape, WalkInv, NEW op \in {"claim", "touch"}, NextPage(op)
    PROVE  /\ boot \in 2 .. 7 /\ job.op = op /\ Starting
           /\ job.op = BootJobs[boot - 1].op
           /\ Done \in Nat /\ Done + Len(job.pages) = Len(BootJobs[boot - 1].pages)
           /\ Len(job.pages) \in Nat \ {0}
           /\ NextVisit \in Visits \ Visited
           /\ NextVisit[1] = boot - 1 /\ NextVisit[2] = Done + 1
           /\ PageAt(NextVisit) = Page
           /\ op = "claim" <=> NextVisit \in Claims
           /\ op = "claim" => job.frame = FrameAt(NextVisit)
<1>1. job.op = op /\ Starting /\ job.pages \in Seq(Nat) /\ job.pages # <<>>
  BY DEF NextPage, Starting, PagingShape, JobType
<1>2. Len(job.pages) \in Nat \ {0} /\ Page = job.pages[1]
  BY <1>1, EmptySeq DEF Page
<1>3. boot \in 2 .. 7
  BY <1>1, IdleIsAJob DEF WalkInv, PagingShape, Idle
<1> DEFINE b == boot - 1
           P == BootJobs[b].pages
           f == BootJobs[b].frame
<1>4. /\ b \in 1 .. 6 /\ b \in Nat
      /\ Done = Len(P) - Len(job.pages)
      /\ NextVisit = <<b, Done + 1>>
  BY <1>3 DEF Done, NextVisit
<1>5. P \in Seq(Nat) /\ Len(P) \in Nat
  BY <1>4, LoopPages, LenProperties
<1>6. /\ job.op = BootJobs[b].op
      /\ Done \in Nat
      /\ \A k \in 1 .. Len(job.pages) : job.pages[k] = P[Done + k]
      /\ op = "claim" => job.frame = f + Done
  BY <1>1, <1>3 DEF WalkInv
<1>7. op = "claim" <=> b # 6
  BY <1>1, <1>4, <1>6, LoopPages
<1>8. op = "claim" => f = BootRanges[b].frame /\ BootRanges[b].frame \in Nat
  BY <1>4, <1>7, LoopPages
<1>. HIDE DEF b, P, f
<1>9. Done + 1 \in 1 .. Len(P) /\ Done + Len(job.pages) = Len(P)
  BY <1>2, <1>4, <1>5, <1>6
<1>10. NextVisit[1] = b /\ NextVisit[2] = Done + 1
  BY <1>4
<1>11. NextVisit \in Visits /\ BootJobs[NextVisit[1]].pages = P
  <2>0. b \in 1 .. 6 /\ Done + 1 \in Nat
    BY <1>4, <1>6
  <2>1. <<b, Done + 1>> \in (1 .. 6) \X Nat
    BY ONLY <2>0
  <2>2. BootJobs[NextVisit[1]].pages = P
    BY <1>10 DEF P
  <2>3. NextVisit[2] \in 1 .. Len(BootJobs[NextVisit[1]].pages)
    BY <1>9, <1>10, <2>2
  <2>. QED BY <1>4, <2>1, <2>2, <2>3 DEF Visits
<1>12. NextVisit \notin Visited
  <2>1. ~ (NextVisit[1] < boot - 1)
    BY <1>4, <1>10 DEF b
  <2>2. ~ (NextVisit[2] + Len(job.pages) <= Len(BootJobs[NextVisit[1]].pages))
    <3>1. Done \in Nat /\ Done + Len(job.pages) = Len(P) /\ Len(P) \in Nat
      BY <1>5, <1>6, <1>9
    <3>2. Len(job.pages) \in Nat
      BY <1>2
    <3>3. ~ (Done + 1 + Len(job.pages) <= Done + Len(job.pages))
      BY ONLY <3>1, <3>2
    <3>. QED BY ONLY <1>10, <1>11, <3>1, <3>3
  <2>. QED BY <1>1, <2>1, <2>2 DEF Visited
<1>13. PageAt(NextVisit) = Page
  <2>1. job.pages[1] = P[Done + 1]
    BY <1>2, <1>6
  <2>. QED BY <1>2, <1>10, <2>1 DEF PageAt, P
<1>14. op = "claim" <=> NextVisit \in Claims
  BY <1>4, <1>7, <1>10, <1>11 DEF Claims
<1>15. op = "claim" => job.frame = FrameAt(NextVisit)
  <2>1. op = "claim" => f + Done = f + (Done + 1) - 1
    BY <1>6, <1>8
  <2>. QED BY <1>6, <1>8, <1>10, <2>1 DEF FrameAt
<1>. QED
  BY <1>1, <1>2, <1>3, <1>6, <1>9, <1>10, <1>11, <1>12, <1>13, <1>14, <1>15 DEF b, P

LEMMA VisitMade ==
    ASSUME PagingShape, WalkInv, NEW op \in {"claim", "touch"}, NextPage(op),
           Advance, boot' = boot
    PROVE  WalkInv' /\ Visited' = Visited \cup {NextVisit}
<1>1. /\ boot \in 2 .. 7 /\ job.op = op /\ Starting
      /\ Done \in Nat /\ Done + Len(job.pages) = Len(BootJobs[boot - 1].pages)
      /\ Len(job.pages) \in Nat \ {0}
      /\ NextVisit \in Visits
      /\ NextVisit[1] = boot - 1 /\ NextVisit[2] = Done + 1
  BY AtNextVisit
<1>2. /\ job'.op = job.op
      /\ job'.frame = job.frame + 1
      /\ Len(job'.pages) = Len(job.pages) - 1
      /\ \A k \in 1 .. Len(job'.pages) : job'.pages[k] = job.pages[k + 1]
  BY AdvanceJob
<1> DEFINE P == BootJobs[boot - 1].pages
<1>3. Starting' /\ Done' = Done + 1 /\ Done' \in Nat
  BY <1>1, <1>2 DEF Starting, Done
<1>4. /\ job.op = BootJobs[boot - 1].op
      /\ \A k \in 1 .. Len(job.pages) : job.pages[k] = P[Done + k]
      /\ job.op = "claim" => job.frame = BootJobs[boot - 1].frame + Done
  BY <1>1 DEF WalkInv
<1>5. ASSUME NEW k \in 1 .. Len(job'.pages) PROVE job'.pages[k] = P[Done' + k]
  <2>1. k + 1 \in 1 .. Len(job.pages) /\ job'.pages[k] = job.pages[k + 1]
    BY <1>1, <1>2
  <2>2. Done + (k + 1) = Done' + k
    BY <1>1, <1>3
  <2>. QED BY <1>4, <2>1, <2>2
<1>6. job.op = "claim" => job'.frame = BootJobs[boot - 1].frame + Done'
  <2>1. job.op = "claim" => BootJobs[boot - 1].frame \in Nat
    <3>1. boot - 1 \in 1 .. 6
      BY <1>1
    <3>2. /\ BootJobs[boot - 1].op = IF boot - 1 = 6 THEN "touch" ELSE "claim"
          /\ boot - 1 # 6 =>
                /\ BootRanges[boot - 1] \in [frame : Nat, page : Nat, size : Nat]
                /\ BootJobs[boot - 1].frame = BootRanges[boot - 1].frame
      BY ONLY <3>1, LoopPages
    <3>. QED BY <1>4, <3>2
  <2>. QED BY <1>1, <1>2, <1>3, <1>4, <2>1
<1>7. WalkInv'
  BY <1>1, <1>2, <1>3, <1>4, <1>5, <1>6 DEF WalkInv
<1>8. ASSUME NEW q \in Visits
      PROVE  q \in Visited' <=> q \in Visited \cup {NextVisit}
  <2>1. /\ q[1] \in Nat /\ q[2] \in Nat /\ q = <<q[1], q[2]>>
        /\ NextVisit = <<NextVisit[1], NextVisit[2]>>
    <3>1. \A v \in Visits : v[1] \in Nat /\ v[2] \in Nat /\ v = <<v[1], v[2]>>
      BY VisitFacts
    <3>. QED BY <1>1, <3>1
  <2>2. q = NextVisit <=> q[1] = boot - 1 /\ q[2] = Done + 1
    BY <1>1, <2>1
  <2>3. q[1] = boot - 1 =>
           /\ q[2] + Len(job.pages) <= Len(BootJobs[q[1]].pages) <=> q[2] <= Done
           /\ q[2] + Len(job'.pages) <= Len(BootJobs[q[1]].pages) <=> q[2] <= Done + 1
    BY <1>1, <1>2, <2>1
  <2>4. q[2] <= Done + 1 <=> q[2] <= Done \/ q[2] = Done + 1
    BY <1>1, <2>1
  <2>. QED BY <1>1, <1>2, <1>3, <2>2, <2>3, <2>4 DEF Visited, Starting
<1>. QED BY <1>1, <1>7, <1>8 DEF Visited

(* What has been visited comes before what has not, and all that comes       *)
(* before the next visit has been.                                           *)
LEMMA VisitsInOrder ==
    ASSUME PagingShape, WalkInv, NEW op \in {"claim", "touch"}, NextPage(op)
    PROVE  /\ \A p \in Visited, q \in Visits \ Visited : NoLater(p, q)
           /\ \A p \in Visits : NoLater(p, NextVisit) => p \in Visited \cup {NextVisit}
<1>1. /\ boot \in 2 .. 7 /\ Starting
      /\ Done \in Nat /\ Done + Len(job.pages) = Len(BootJobs[boot - 1].pages)
      /\ Len(job.pages) \in Nat \ {0}
      /\ NextVisit \in Visits
      /\ NextVisit[1] = boot - 1 /\ NextVisit[2] = Done + 1
  BY AtNextVisit
<1>2. ASSUME NEW p \in Visits
      PROVE  p \in Visited <=> p[1] < boot - 1 \/ (p[1] = boot - 1 /\ p[2] <= Done)
  <2>1. p[1] \in Nat /\ p[2] \in Nat
    BY VisitFacts
  <2>2. p[1] = boot - 1 =>
           (p[2] + Len(job.pages) <= Len(BootJobs[p[1]].pages) <=> p[2] <= Done)
    BY <1>1, <2>1
  <2>. QED BY <1>1, <2>2 DEF Visited, Starting
<1>3. ASSUME NEW p \in Visited, NEW q \in Visits \ Visited PROVE NoLater(p, q)
  <2>1. p \in Visits
    BY DEF Visited
  <2>2. /\ p[1] \in Nat /\ p[2] \in Nat /\ q[1] \in Nat /\ q[2] \in Nat
        /\ p[1] < boot - 1 \/ (p[1] = boot - 1 /\ p[2] <= Done)
        /\ ~ (q[1] < boot - 1 \/ (q[1] = boot - 1 /\ q[2] <= Done))
    <3>1. /\ p[1] \in Nat /\ p[2] \in Nat /\ q[1] \in Nat /\ q[2] \in Nat
      BY <2>1, VisitNumbers
    <3>2. p[1] < boot - 1 \/ (p[1] = boot - 1 /\ p[2] <= Done)
      BY <1>2, <2>1
    <3>3. ~ (q[1] < boot - 1 \/ (q[1] = boot - 1 /\ q[2] <= Done))
      BY <1>2
    <3>. QED BY <3>1, <3>2, <3>3
  <2>. QED BY <1>1, <2>2 DEF NoLater
<1>4. ASSUME NEW p \in Visits, NoLater(p, NextVisit)
      PROVE  p \in Visited \cup {NextVisit}
  <2>1. /\ p[1] \in Nat /\ p[2] \in Nat /\ p = <<p[1], p[2]>>
        /\ NextVisit = <<NextVisit[1], NextVisit[2]>>
        /\ p[1] < boot - 1 \/ (p[1] = boot - 1 /\ p[2] <= Done + 1)
    BY <1>1, <1>4, VisitFacts DEF NoLater
  <2>2. p[2] <= Done + 1 <=> p[2] <= Done \/ p[2] = Done + 1
    BY <1>1, <2>1
  <2>. QED BY <1>1, <1>2, <2>1, <2>2
<1>. QED BY <1>3, <1>4

LEMMA WalkBootNext ==
    ASSUME PagingShape, WalkInv, BootNext PROVE WalkInv' /\ Visited' = Visited
<1>1. /\ boot \in 1 .. 6 /\ boot' = boot + 1 /\ job.pages = <<>>
      /\ job' = BootJobs[boot]
  BY JobsOfBoot DEF BootNext, PagingShape
<1>2. /\ BootJobs[boot].op \in {"claim", "touch"}
      /\ BootJobs[boot].pages \in Seq(Nat)
  BY <1>1, LoopPages
<1> DEFINE P == BootJobs[boot].pages
<1>3. Len(P) \in Nat /\ Len(job.pages) = 0 /\ boot' - 1 = boot
  BY <1>1, <1>2, EmptySeq, LenProperties
<1>4. Starting /\ Starting'
  BY <1>1, <1>2 DEF Starting, WalkInv
<1>5. Done' = 0 /\ job'.pages = P
  BY <1>1, <1>3 DEF Done
<1>6. boot > 0 /\ boot' > 1 /\ boot' # 1
  BY <1>1
<1>7. job'.op = "claim" => BootJobs[boot].frame \in Nat
  <2>1. /\ BootJobs[boot].op = IF boot = 6 THEN "touch" ELSE "claim"
        /\ boot # 6 => /\ BootRanges[boot] \in [frame : Nat, page : Nat, size : Nat]
                       /\ BootJobs[boot].frame = BootRanges[boot].frame
    BY ONLY <1>1, LoopPages
  <2>. QED BY <1>1, <2>1
<1>8. WalkInv'
  BY <1>1, <1>3, <1>4, <1>5, <1>6, <1>7 DEF WalkInv
<1>9. ASSUME NEW q \in Visits PROVE q \in Visited' <=> q \in Visited
  <2>1. /\ q[1] \in Nat /\ q[2] \in Nat \ {0}
        /\ q[2] <= Len(BootJobs[q[1]].pages)
    BY VisitFacts
  <2>2. q \in Visited <=> q[1] < boot
    <3>1. q[1] = boot - 1 => q[2] + Len(job.pages) <= Len(BootJobs[q[1]].pages)
      BY <1>3, <2>1
    <3>2. q[1] < boot <=> q[1] < boot - 1 \/ q[1] = boot - 1
      BY <1>1, <2>1
    <3>. QED BY <1>4, <3>1, <3>2 DEF Visited, Starting
  <2>3. q \in Visited' <=> q[1] < boot
    <3>1. q[1] = boot => ~ (q[2] + Len(job'.pages) <= Len(BootJobs[q[1]].pages))
      BY <1>3, <1>5, <2>1
    <3>. QED BY <1>3, <1>4, <3>1 DEF Visited, Starting
  <2>. QED BY <2>2, <2>3
<1>. QED BY <1>8, <1>9 DEF Visited

(* When paging_init is over every visit has been made.                       *)
LEMMA AllVisited ==
    ASSUME WalkInv, boot = 7, ~ Starting \/ job.pages = <<>>
    PROVE  Visited = Visits
<1>1. ASSUME NEW q \in Visits PROVE q \in Visited
  <2>1. /\ q[1] \in 1 .. 6 /\ q[2] \in Nat
        /\ q[2] <= Len(BootJobs[q[1]].pages)
    BY VisitFacts
  <2>2. q[1] < boot - 1 \/ q[1] = boot - 1
    BY <2>1
  <2>3. job.pages = <<>> => q[2] + Len(job.pages) <= Len(BootJobs[q[1]].pages)
    BY <2>1, EmptySeq
  <2>. QED BY <2>2, <2>3 DEF Visited, Starting
<1>. QED BY <1>1 DEF Visited

LEMMA WalkStart ==
    ASSUME PagingShape, WalkInv, NEW op \in {"alloc", "free"}, NEW d \in AllDirs,
           NEW r \in Ranges, Start(op, d, r)
    PROVE  WalkInv' /\ Visited' = Visited
<1>1. /\ boot = 7 /\ job.pages = <<>> /\ boot' = boot
      /\ job' = [op |-> op, dir |-> d, pages |-> PagesFrom(r.page, r.size), frame |-> 0]
      /\ d \in r.dirs
  BY StartEffect DEF Start
<1>2. ~ Starting'
  BY <1>1 DEF Starting
<1>3. r.page \in Nat /\ r.size \in Nat
  BY PagingAssumption
<1>4. ASSUME NEW k \in 1 .. Len(job'.pages)
      PROVE  job'.pages[k] \in PagesOf(r) /\ job'.dir \in r.dirs
  <2>1. k \in 1 .. r.size
    BY <1>1, <1>3, <1>4, PagesAreASequence
  <2>2. job'.pages[k] = r.page + k - 1
    BY <1>1, <2>1 DEF PagesFrom
  <2>3. r.page + k - 1 \in r.page .. r.page + r.size - 1
    BY <1>3, <2>1
  <2>. QED BY <1>1, <2>2, <2>3 DEF PagesOf
<1>5. WalkInv'
  BY <1>1, <1>2, <1>4 DEF WalkInv
<1>6. (WalkInv /\ boot = 7 /\ (~ Starting \/ job.pages = <<>>))'
  BY <1>1, <1>2, <1>5
<1>7. Visited' = Visits
  BY <1>1, <1>2, VisitFacts DEF Visited, Starting
<1>. QED BY <1>1, <1>5, <1>7, AllVisited

LEMMA WalkPage ==
    ASSUME PagingShape, WalkInv, NEW op \in {"alloc", "free"}, NextPage(op),
           Advance, boot' = boot
    PROVE  /\ WalkInv' /\ Visited' = Visits /\ Visited = Visits
           /\ ~ Starting /\ ~ Starting' /\ boot = 7
           /\ \E r \in Ranges : Page \in PagesOf(r) /\ job.dir \in r.dirs
<1>1. job.op = op /\ ~ Starting /\ job.pages # <<>> /\ job.pages \in Seq(Nat)
  BY DEF NextPage, Starting, PagingShape, JobType
<1>2. Len(job.pages) \in Nat \ {0} /\ Page = job.pages[1]
  BY <1>1, EmptySeq DEF Page
<1>3. /\ boot = 7
      /\ \A k \in 1 .. Len(job.pages) : \E r \in Ranges :
            job.pages[k] \in PagesOf(r) /\ job.dir \in r.dirs
  BY <1>1 DEF WalkInv
<1>4. /\ job'.op = job.op /\ job'.dir = job.dir
      /\ Len(job'.pages) = Len(job.pages) - 1
      /\ \A k \in 1 .. Len(job'.pages) : job'.pages[k] = job.pages[k + 1]
  BY AdvanceJob
<1>5. ~ Starting'
  BY <1>1, <1>4 DEF Starting
<1>6. ASSUME NEW k \in 1 .. Len(job'.pages)
      PROVE  \E r \in Ranges : job'.pages[k] \in PagesOf(r) /\ job'.dir \in r.dirs
  <2>1. k + 1 \in 1 .. Len(job.pages) /\ job'.pages[k] = job.pages[k + 1]
    BY <1>2, <1>4
  <2>. QED BY <1>3, <1>4, <2>1
<1>7. WalkInv'
  BY <1>3, <1>5, <1>6 DEF WalkInv
<1>8. Visited = Visits
  BY <1>1, <1>3, AllVisited
<1>9. Visited' = Visits
  <2>1. \A q \in Visits : q[1] < boot' - 1 \/ q[1] = boot' - 1
    BY <1>3, VisitFacts
  <2>. QED BY <1>5, <2>1 DEF Visited, Starting
<1>10. 1 \in 1 .. Len(job.pages)
  BY <1>2
<1>. QED BY <1>1, <1>2, <1>3, <1>5, <1>7, <1>8, <1>9, <1>10

LEMMA WalkUnchanged ==
    ASSUME WalkInv, job' = job, boot' = boot PROVE WalkInv' /\ Visited' = Visited
  BY DEF WalkInv, Visited, Starting, Done

LEMMA WalkAtStart ==
    ASSUME boot = 1, job = Idle PROVE WalkInv /\ Visited = {} /\ Starting
<1>1. Starting
  BY IdleIsAJob DEF Starting
<1>2. WalkInv
  BY <1>1 DEF WalkInv
<1>3. \A q \in Visits : ~ (q[1] < boot - 1) /\ q[1] # boot - 1
  BY VisitFacts
<1>4. Visited = {}
  BY <1>3 DEF Visited
<1>. QED BY <1>1, <1>2, <1>4

-----------------------------------------------------------------------------
(* The order of the tables *)

(* The table of an index that is visited for the first time is made next.    *)
LEMMA NextNumber ==
    ASSUME PagingShape, WalkInv, NEW op \in {"claim", "touch"}, NextPage(op),
           IndexAt(NextVisit) \notin IndicesOf(Visited)
    PROVE  TableNumber(IndexAt(NextVisit)) = Cardinality(IndicesOf(Visited)) + 1
<1> DEFINE n == NextVisit
           i == IndexAt(NextVisit)
           V == {p \in Visits : \A q \in Visits : IndexAt(q) = i => NoLater(p, q)}
<1>1. n \in Visits \ Visited /\ Visited \subseteq Visits
  BY AtNextVisit DEF Visited
<1>2. /\ \A p \in Visited, q \in Visits \ Visited : NoLater(p, q)
      /\ \A p \in Visits : NoLater(p, n) => p \in Visited \cup {n}
  BY VisitsInOrder
<1>3. ASSUME NEW p \in V PROVE p \in Visited \cup {n}
  BY <1>1, <1>2
<1>4. ASSUME NEW p \in Visited PROVE p \in V
  <2>1. \A q \in Visits : IndexAt(q) = i => q \notin Visited
    BY DEF IndicesOf
  <2>. QED BY <1>1, <1>2, <2>1
<1>5. UpTo(i) = IndicesOf(Visited) \cup {i}
  <2>1. i \in UpTo(i)
    BY <1>1, UpToFacts DEF IndicesOf
  <2>2. UpTo(i) = IndicesOf(V)
    BY DEF UpTo
  <2>3. IndicesOf(Visited) \subseteq IndicesOf(V)
    BY <1>4 DEF IndicesOf
  <2>4. IndicesOf(V) \subseteq IndicesOf(Visited) \cup {i}
    BY <1>3 DEF IndicesOf
  <2>. QED BY <2>1, <2>2, <2>3, <2>4
<1>6. IsFiniteSet(IndicesOf(Visited))
  BY <1>1, IndicesAreFinite
<1>. QED BY <1>5, <1>6, FS_AddElement DEF TableNumber

LEMMA OrderBootPage ==
    ASSUME SpaceInv, WalkInv, OrderInv, NEW op \in {"claim", "touch"}, NextPage(op),
           Advance, boot' = boot
    PROVE  OrderInv' /\ Here = PlaceOf(NextVisit)
<1> DEFINE i == IndexAt(NextVisit)
           V == IndicesOf(Visited)
           N == Cardinality(IndicesOf(Visits))
<1>1. PagingShape /\ job.dir = KernelDir /\ Starting
  BY AtNextVisit DEF SpaceInv, NextPage
<1>2. /\ NextVisit \in Visits \ Visited /\ PageAt(NextVisit) = Page
      /\ i = Page \div TableSize
      /\ Visited \subseteq Visits
  BY <1>1, AtNextVisit DEF IndexAt, Visited
<1>3. i \in TableIndices /\ i \in IndicesOf(Visits)
  BY <1>2, VisitFacts DEF IndicesOf
<1>4. Visited' = Visited \cup {NextVisit} /\ IndicesOf(Visited') = V \cup {i}
  BY <1>1, VisitMade DEF IndicesOf
<1>5. /\ tables \in [AllDirs -> [TableIndices -> TableIds \cup {NoTable}]]
      /\ KernelDir \in AllDirs
  BY <1>1 DEF PagingShape, AllDirs
<1>6. \A q \in Visited : /\ IndexAt(q) \in IndicesOf(Visits) /\ IndexAt(q) \in TableIndices
                         /\ tables[KernelDir][IndexAt(q)] = TableNumber(IndexAt(q))
                         /\ TableNumber(IndexAt(q)) \in Nat \ {0}
  BY <1>2, VisitFacts, UpToFacts DEF OrderInv, IndicesOf
<1>7. /\ \A j \in TableIndices \ V : tables[KernelDir][j] = NoTable
      /\ made = Cardinality(V)
  BY <1>1 DEF OrderInv
<1>8. /\ IsFiniteSet(V) /\ Cardinality(V) \in Nat
      /\ Cardinality(V \cup {i}) = IF i \in V THEN Cardinality(V) ELSE Cardinality(V) + 1
  BY <1>2, IndicesAreFinite, FS_AddElement
<1>9. TableOf(KernelDir, Page) = TableNumber(i)
  <2>1. CASE i \in V
    <3>1. PICK q \in Visited : IndexAt(q) = i
      BY <2>1 DEF IndicesOf
    <3>2. tables[KernelDir][i] = TableNumber(i) /\ TableNumber(i) # 0
      BY <1>6, <3>1
    <3>. QED BY <1>2, <3>2 DEF TableOf, NoTable
  <2>2. CASE i \notin V
    <3>1. tables[KernelDir][i] = NoTable /\ TableNumber(i) = made + 1
      BY <1>1, <1>3, <1>7, <2>2, NextNumber
    <3>. QED BY <1>2, <3>1 DEF TableOf
  <2>. QED BY <2>1, <2>2
<1>10. Here = PlaceOf(NextVisit)
  BY <1>1, <1>2, <1>9 DEF Here, PlaceOf
<1>11. \A d \in AllDirs, j \in TableIndices :
          tables'[d][j] = IF d = KernelDir /\ j = i THEN TableNumber(i) ELSE tables[d][j]
  BY <1>1, <1>2, <1>9, GetPageTables
<1>12. made' = Cardinality(V \cup {i})
  <2>1. made' = IF tables[KernelDir][i] = NoTable THEN made + 1 ELSE made
    BY <1>1, <1>2 DEF NextPage, GetPage, Page
  <2>2. i \in V <=> tables[KernelDir][i] # NoTable
    <3>1. i \in V => tables[KernelDir][i] # NoTable
      BY <1>6 DEF IndicesOf, NoTable
    <3>. QED BY <1>3, <1>7, <3>1
  <2>. QED BY <1>7, <1>8, <2>1, <2>2
<1>13. Starting'
  BY <1>1, AdvanceJob DEF Starting
<1>14. \A q \in Visited' : tables'[KernelDir][IndexAt(q)] = TableNumber(IndexAt(q))
  BY <1>3, <1>4, <1>5, <1>6, <1>11
<1>15. \A j \in TableIndices \ IndicesOf(Visited') : tables'[KernelDir][j] = NoTable
  BY <1>4, <1>5, <1>7, <1>11
<1>16. ASSUME NEW d \in AllDirs, NEW j \in TableIndices
       PROVE  \/ d = KernelDir /\ j \in IndicesOf(Visits)
              \/ tables'[d][j] = NoTable
              \/ tables'[d][j] > N
  BY <1>3, <1>11 DEF OrderInv
<1>17. OrderInv'
  BY <1>4, <1>12, <1>13, <1>14, <1>15, <1>16 DEF OrderInv
<1>. QED BY <1>10, <1>17

(* Once paging_init is over, a new table comes after all of its tables; and  *)
(* no page that is asked for is one that paging_init mapped to a frame that  *)
(* has a bit.                                                                *)
LEMMA OrderPage ==
    ASSUME SpaceInv, WalkInv, OrderInv, NEW op \in {"alloc", "free"}, NextPage(op),
           Advance, boot' = boot
    PROVE  OrderInv' /\ \A q \in BitClaims : PlaceOf(q) # Here
<1> DEFINE N == Cardinality(IndicesOf(Visits))
           i == Page \div TableSize
           d == job.dir
<1>1. /\ PagingShape /\ job.op = op /\ boot = 7 /\ d \in AllDirs
      /\ made \in 0 .. MaxTables
      /\ tables \in [AllDirs -> [TableIndices -> TableIds \cup {NoTable}]]
      /\ KernelDir \in AllDirs
  BY DEF SpaceInv, NextPage, PagingShape, JobType, AllDirs
<1>2. /\ Visited = Visits /\ Visited' = Visits /\ ~ Starting /\ ~ Starting'
      /\ \E r \in Ranges : Page \in PagesOf(r) /\ d \in r.dirs
  BY <1>1, WalkPage
<1>3. PICK r \in Ranges : Page \in PagesOf(r) /\ d \in r.dirs
  BY <1>2
<1>4. i \in TableIndices /\ Page \in Nat
  BY <1>1, <1>3, SlotAt, PagingAssumption DEF PagesOf
<1>5. /\ N \in Nat /\ made >= N /\ MaxTables \in Nat
      /\ \A q \in Visits : tables[KernelDir][IndexAt(q)] = TableNumber(IndexAt(q))
  BY <1>2, IndicesAreFinite, PagingAssumption DEF OrderInv
<1>6. \A q \in Visits : /\ IndexAt(q) \in TableIndices
                        /\ TableNumber(IndexAt(q)) \in Nat \ {0}
                        /\ TableNumber(IndexAt(q)) <= N
  BY VisitFacts, UpToFacts DEF IndicesOf
<1>7. \A c \in AllDirs, j \in TableIndices :
         tables'[c][j] = IF c = d /\ j = i THEN TableOf(d, Page) ELSE tables[c][j]
  BY <1>1, GetPageTables
<1>8. TableOf(d, Page) = IF tables[d][i] # NoTable THEN tables[d][i] ELSE made + 1
  BY DEF TableOf
<1>9. made' >= N
  <2>1. made' \in {made, made + 1}
    BY DEF NextPage, GetPage
  <2>. QED BY <1>1, <1>5, <2>1
<1>10. \A q \in Visits : tables'[KernelDir][IndexAt(q)] = TableNumber(IndexAt(q))
  BY <1>1, <1>5, <1>6, <1>7, <1>8 DEF NoTable
<1>. HIDE DEF N, i, d
<1>11. made + 1 > N
  BY <1>1, <1>5
<1>12. ASSUME NEW c \in AllDirs, NEW j \in TableIndices
       PROVE  \/ c = KernelDir /\ j \in IndicesOf(Visits)
              \/ tables'[c][j] = NoTable
              \/ tables'[c][j] > N
  BY <1>7, <1>8, <1>11 DEF OrderInv, N
<1>13. OrderInv'
  BY <1>2, <1>9, <1>10, <1>12 DEF OrderInv, N
<1>14. ASSUME NEW q \in BitClaims, PlaceOf(q) = Here PROVE FALSE
  <2>1. q \in Visits /\ q[1] \in 1 .. 5 /\ FrameAt(q) \in Entries
    BY DEF BitClaims, Claims
  <2>2. TableOf(d, Page) = TableNumber(IndexAt(q))
    BY <1>14 DEF PlaceOf, Here, d
  <2>3. TableOf(d, Page) <= N /\ TableOf(d, Page) \in Nat
    BY <1>6, <2>1, <2>2
  <2>4. tables[d][i] # NoTable /\ tables[d][i] = TableNumber(IndexAt(q))
    BY <1>5, <1>8, <1>11, <2>2, <2>3, <1>1
  <2>5. ~ (tables[d][i] > N)
    BY <1>5, <2>2, <2>3, <2>4
  <2>6. d = KernelDir /\ i \in IndicesOf(Visits)
    BY <1>1, <1>4, <2>4, <2>5 DEF OrderInv, N
  <2>7. tables[KernelDir][i] = TableNumber(i)
    BY <1>5, <2>6 DEF IndicesOf
  <2>8. PlaceOf(q) = <<TableNumber(i), Page % TableSize>>
    BY <1>14, <2>2, <2>4, <2>6, <2>7 DEF Here, d
  <2>9. PageAt(q) = Page
    BY <1>4, <2>1, <2>6, <2>8, PlacesAreApart DEF i
  <2>10. /\ Page \in PagesOf(BootRanges[q[1]]) /\ q[1] \in DOMAIN BootRanges
         /\ Page = BootRanges[q[1]].page + q[2] - 1 /\ q[2] \in Nat
         /\ BootRanges[q[1]] \in [frame : Nat, page : Nat, size : Nat]
    <3>1. /\ PageAt(q) \in PagesOf(BootRanges[q[1]]) /\ q[2] \in Nat
          /\ PageAt(q) = BootRanges[q[1]].page + q[2] - 1
      BY <2>1, VisitFacts
    <3>2. /\ q[1] \in DOMAIN BootRanges
          /\ BootRanges[q[1]] \in [frame : Nat, page : Nat, size : Nat]
      BY <2>1, JobsOfBoot, PagingAssumption
    <3>. QED BY <2>9, <3>1, <3>2
  <2>11. BootRanges[q[1]].frame + (Page - BootRanges[q[1]].page) \in Entries
    <3>1. BootRanges[q[1]].frame \in Nat /\ BootRanges[q[1]].page \in Nat
      BY <2>10
    <3>2. BootRanges[q[1]].frame + (Page - BootRanges[q[1]].page)
             = BootRanges[q[1]].frame + q[2] - 1
      BY <2>10, <3>1
    <3>. QED BY <2>1, <3>2 DEF FrameAt
  <2>12. KernelDir \notin r.dirs
    BY <1>3, <2>10, <2>11, BootPagesAssumption
  <2>. QED BY <1>3, <2>6, <2>12
<1>. QED BY <1>13, <1>14

LEMMA OrderUnchanged ==
    ASSUME OrderInv, Visited' = Visited, Starting' <=> Starting,
           tables' = tables, made' = made
    PROVE  OrderInv'
  BY DEF OrderInv

LEMMA OrderStart ==
    ASSUME PagingShape, WalkInv, OrderInv, NEW op \in {"alloc", "free"}, NEW d \in AllDirs,
           NEW r \in Ranges, Start(op, d, r)
    PROVE  OrderInv'
<1>1. /\ boot = 7 /\ job.pages = <<>> /\ Visited' = Visited /\ job'.op = op
      /\ tables' = tables /\ made' = made
  BY StartEffect, WalkStart DEF Start
<1>2. Visited = Visits /\ ~ Starting'
  BY <1>1, AllVisited DEF Starting
<1>3. made >= Cardinality(IndicesOf(Visits))
  <2>1. Cardinality(IndicesOf(Visits)) \in Nat
    BY IndicesAreFinite
  <2>. QED BY <1>2, <2>1 DEF OrderInv
<1>. QED BY <1>1, <1>2, <1>3 DEF OrderInv

LEMMA OrderReset ==
    ASSUME PagingShape, OrderInv, Reset PROVE OrderInv'
<1>1. /\ boot' = 1 /\ job' = Idle /\ made' = 0
      /\ \A i \in TableIndices : tables'[KernelDir][i] = NoTable
      /\ \A d \in Dirs, i \in TableIndices : tables'[d][i] = tables[d][i]
  BY ResetEffect
<1>2. Visited' = {} /\ Starting'
  <2>1. (boot = 1 /\ job = Idle)'
    BY <1>1
  <2>2. (WalkInv /\ Visited = {} /\ Starting)'
    BY <2>1, WalkAtStart, PTL
  <2>. QED BY <2>2
<1>3. IndicesOf(Visited') = {} /\ Cardinality({}) = 0
  BY <1>2, FS_EmptySet DEF IndicesOf
<1>4. AllDirs = Dirs \cup {KernelDir} /\ KernelDir \notin Dirs
  BY PagingAssumption DEF AllDirs
<1>. QED BY <1>1, <1>2, <1>3, <1>4 DEF OrderInv

(* The memory of a machine that was just switched on names no frame, and no  *)
(* page table.                                                               *)
MemoryIsBlank ==
    /\ \A e \in RamContents : e.frame = 0
    /\ DirContents \subseteq {NoTable}

LEMMA OrderAtStart ==
    ASSUME MemoryIsBlank, PagingInit PROVE WalkInv /\ OrderInv /\ Visited = {}
<1>1. boot = 1 /\ job = Idle /\ made = 0
  BY DEF PagingInit
<1>2. WalkInv /\ Visited = {} /\ Starting
  BY <1>1, WalkAtStart
<1>3. IndicesOf(Visited) = {} /\ Cardinality({}) = 0
  BY <1>2, FS_EmptySet DEF IndicesOf
<1>4. \A d \in AllDirs, i \in TableIndices : tables[d][i] = NoTable
  BY ShapeAtInit DEF MemoryIsBlank, AllDirs
<1>5. KernelDir \in AllDirs
  BY DEF AllDirs
<1>. QED BY <1>1, <1>2, <1>3, <1>4, <1>5 DEF OrderInv

-----------------------------------------------------------------------------
(* The entries that paging_init comes to *)

(* A step that leaves these entries alone, and keeps frame 0 if it was       *)
(* claimed.                                                                  *)
LEMMA PlacesKept ==
    ASSUME PlaceInv, Visited' \cap BitClaims \subseteq Visited,
           \A q \in BitClaims : PlaceOf(q) \in Slots =>
              FrameOf(PlaceOf(q))' = FrameOf(PlaceOf(q)),
           0 \in bits => 0 \in bits' \/ Visited' = {}
    PROVE  PlaceInv'
<1>1. \A q \in BitClaims \cap Visited' : q \in BitClaims \cap Visited
  OBVIOUS
<1>2. \A q \in BitClaims : PlaceOf(q) \in Slots => FrameOf(PlaceOf(q))' \in {0, FrameAt(q)}
  BY DEF PlaceInv
<1>3. ASSUME NEW q \in BitClaims \cap Visited'
      PROVE  /\ PlaceOf(q) \in Slots
             /\ FrameOf(PlaceOf(q))' = FrameAt(q)
             /\ FrameAt(q) = 0 => 0 \in bits'
  BY <1>1 DEF PlaceInv
<1>. QED BY <1>2, <1>3 DEF PlaceInv, Slots

LEMMA PlacesClaimPage ==
    ASSUME SpaceInv, WalkInv, OrderInv, PlaceInv, ClaimPage PROVE PlaceInv'
<1>1. NextPage("claim") /\ Advance /\ boot' = boot /\ PagingShape
  BY DEF ClaimPage, SpaceInv
<1>2. PICK n \in Claims : /\ n = NextVisit
                          /\ Here = PlaceOf(n) /\ PlaceOf(n) \in Slots
                          /\ job.frame = FrameAt(n) /\ FrameAt(n) \in Nat
                          /\ Visited' = Visited \cup {n}
  <2>1. NextVisit \in Claims /\ job.frame = FrameAt(NextVisit)
    BY <1>1, AtNextVisit
  <2>2. Here = PlaceOf(NextVisit)
    BY <1>1, OrderBootPage
  <2>3. Here \in Slots
    BY <1>1, SlotAt
  <2>4. Visited' = Visited \cup {NextVisit}
    BY <1>1, VisitMade
  <2>5. job.frame \in Nat
    BY <1>1 DEF PagingShape, JobType
  <2>. QED BY <2>1, <2>2, <2>3, <2>4, <2>5
<1>3. \/ FrameOf(PlaceOf(n)) # 0 /\ UNCHANGED <<bits, entry>>
      \/ /\ FrameOf(PlaceOf(n)) = 0
         /\ bits' = IF FrameAt(n) \in Entries THEN bits \cup {FrameAt(n)} ELSE bits
         /\ \A s \in Slots :
               FrameOf(s)' = IF s = PlaceOf(n) THEN FrameAt(n) ELSE FrameOf(s)
  BY <1>1, <1>2, ClaimEffect DEF Puts
<1>4. n \in BitClaims => FrameOf(PlaceOf(n)) \in {0, FrameAt(n)}
  BY <1>2 DEF PlaceInv
<1>5. ASSUME NEW q \in Claims, q # n, PlaceOf(q) = PlaceOf(n) PROVE FALSE
  <2>1. q \in Visits /\ n \in Visits
    BY DEF Claims
  <2>2. PageAt(n) \in Nat /\ PageAt(n) \div TableSize \in IndicesOf(Visits)
    BY <2>1, VisitFacts DEF IndicesOf, IndexAt
  <2>3. PageAt(q) = PageAt(n)
    BY <1>5, <2>1, <2>2, PlacesAreApart DEF PlaceOf, IndexAt
  <2>. QED BY <1>5, <2>3, ClaimsAreApart
<1>6. /\ bits \subseteq bits'
      /\ \A q \in Claims : q # n /\ PlaceOf(q) \in Slots =>
            FrameOf(PlaceOf(q))' = FrameOf(PlaceOf(q))
      /\ n \in BitClaims => FrameOf(PlaceOf(n))' = FrameAt(n)
      /\ n \in BitClaims /\ FrameAt(n) = 0 => 0 \in bits'
  <2>1. CASE FrameOf(PlaceOf(n)) # 0
    <3>1. /\ UNCHANGED <<bits, entry>>
          /\ n \in BitClaims => /\ FrameOf(PlaceOf(n)) = FrameAt(n)
                                /\ FrameAt(n) # 0
      BY <1>3, <1>4, <2>1
    <3>2. \A s \in Slots : FrameOf(s)' = FrameOf(s)
      BY <3>1 DEF FrameOf
    <3>. QED BY <1>2, <2>1, <3>1, <3>2
  <2>2. CASE FrameOf(PlaceOf(n)) = 0
    <3>1. 0 \in Entries
      BY ImapAssumption, SMT DEF Entries
    <3>2. /\ bits' = IF FrameAt(n) \in Entries THEN bits \cup {FrameAt(n)} ELSE bits
          /\ \A s \in Slots :
                FrameOf(s)' = IF s = PlaceOf(n) THEN FrameAt(n) ELSE FrameOf(s)
      BY <1>3, <2>2
    <3>3. \A q \in Claims : q # n /\ PlaceOf(q) \in Slots =>
             FrameOf(PlaceOf(q))' = FrameOf(PlaceOf(q))
      BY <1>5, <3>2
    <3>. QED BY <1>2, <3>1, <3>2, <3>3
  <2>. QED BY <2>1, <2>2
<1>7. ASSUME NEW q \in BitClaims, PlaceOf(q) \in Slots
      PROVE  FrameOf(PlaceOf(q))' \in {0, FrameAt(q)}
  BY <1>6, <1>7 DEF PlaceInv, BitClaims
<1>8. ASSUME NEW q \in BitClaims \cap Visited'
      PROVE  /\ PlaceOf(q) \in Slots
             /\ FrameOf(PlaceOf(q))' = FrameAt(q)
             /\ FrameAt(q) = 0 => 0 \in bits'
  <2>1. CASE q = n
    BY <1>2, <1>6, <2>1
  <2>2. CASE q # n
    <3>1. q \in BitClaims \cap Visited /\ q \in Claims
      BY <1>2, <2>2 DEF BitClaims
    <3>. QED BY <1>6, <2>2, <3>1 DEF PlaceInv
  <2>. QED BY <2>1, <2>2
<1>. QED BY <1>7, <1>8 DEF PlaceInv, Slots

LEMMA PlacesPage ==
    ASSUME SpaceInv, WalkInv, OrderInv, PlaceInv, AllocPage \/ FreePage PROVE PlaceInv'
<1>1. PagingShape /\ boot' = boot
  BY DEF SpaceInv, AllocPage, FreePage
<1>2. PICK op \in {"alloc", "free"} : NextPage(op) /\ Advance
  BY DEF AllocPage, FreePage
<1>3. Visited' = Visited /\ \A q \in BitClaims : PlaceOf(q) # Here
  BY <1>1, <1>2, WalkPage, OrderPage
<1>4. /\ 0 \in bits => 0 \in bits'
      /\ entry' = entry \/ \E f : Puts(f)
  <2>1. CASE AllocPage
    BY <1>1, <2>1, AllocEffect
  <2>2. CASE FreePage
    BY <1>1, <2>2, FreeEffect
  <2>. QED BY <2>1, <2>2
<1>5. \A q \in BitClaims : PlaceOf(q) \in Slots =>
         FrameOf(PlaceOf(q))' = FrameOf(PlaceOf(q))
  <2>1. CASE entry' = entry
    BY <2>1 DEF FrameOf
  <2>2. CASE \E f : Puts(f)
    BY <1>3, <2>2 DEF Puts
  <2>. QED BY <1>4, <2>1, <2>2
<1>. QED BY <1>3, <1>4, <1>5, PlacesKept

LEMMA PlacesOtherwise ==
    ASSUME PlaceInv, entry' = entry, Visited' \cap BitClaims \subseteq Visited,
           bits' = bits \/ Visited' = {}
    PROVE  PlaceInv'
  BY PlacesKept DEF FrameOf

(* A reset clears an entry or leaves it, and nothing has been visited.       *)
LEMMA PlacesReset ==
    ASSUME PagingShape, PlaceInv, Reset, Visited' = {} PROVE PlaceInv'
<1>1. entry' = ClearedMemory(entry) /\ entry \in EntryType
  BY DEF Reset, PagingShape
<1>2. \A t \in TableIds, j \in 0 .. TableSize - 1 : entry'[t][j] \in {Blank, entry[t][j]}
  BY <1>1, ClearedIsMemory
<1>3. \A s \in Slots : FrameOf(s)' \in {0, FrameOf(s)}
  BY <1>2 DEF Slots, FrameOf, Blank
<1>4. \A q \in BitClaims : PlaceOf(q) \in Slots => FrameOf(PlaceOf(q))' \in {0, FrameAt(q)}
  BY <1>3 DEF PlaceInv
<1>. QED BY <1>4 DEF PlaceInv, Slots

MarkInv == WalkInv /\ OrderInv /\ PlaceInv

LEMMA MarkStep ==
    ASSUME SpaceInv, MarkInv, [PagingNext]_pvars PROVE MarkInv'
<1>0. PagingShape /\ WalkInv /\ OrderInv /\ PlaceInv
  BY DEF SpaceInv, MarkInv
<1>1. CASE BootNext
  <2>1. /\ WalkInv' /\ Visited' = Visited
        /\ entry' = entry /\ bits' = bits /\ tables' = tables /\ made' = made
    BY <1>0, <1>1, WalkBootNext DEF BootNext
  <2>2. Starting /\ Starting'
    <3>1. boot \in 1 .. 6 /\ boot' = boot + 1 /\ job' = BootJobs[boot]
      BY <1>0, <1>1, JobsOfBoot DEF BootNext, PagingShape
    <3>2. BootJobs[boot].op \in {"claim", "touch"}
      BY ONLY <3>1, LoopPages
    <3>. QED BY <1>0, <3>1, <3>2 DEF WalkInv, Starting
  <2>. QED BY <1>0, <2>1, <2>2, OrderUnchanged, PlacesOtherwise DEF MarkInv
<1>2. CASE ClaimPage
  <2>1. NextPage("claim") /\ Advance /\ boot' = boot
    BY <1>2 DEF ClaimPage
  <2>2. WalkInv' /\ OrderInv'
    BY <1>0, <2>1, VisitMade, OrderBootPage
  <2>. QED BY <1>0, <1>2, <2>2, PlacesClaimPage DEF MarkInv
<1>3. CASE TouchPage
  <2>1. NextPage("touch") /\ Advance /\ boot' = boot /\ entry' = entry /\ bits' = bits
    BY <1>3 DEF TouchPage
  <2>2. WalkInv' /\ OrderInv' /\ Visited' = Visited \cup {NextVisit}
    BY <1>0, <2>1, VisitMade, OrderBootPage
  <2>3. NextVisit \notin BitClaims
    BY <1>0, <2>1, AtNextVisit DEF BitClaims
  <2>. QED BY <1>0, <2>1, <2>2, <2>3, PlacesOtherwise DEF MarkInv
<1>4. CASE AllocPage \/ FreePage
  <2>1. boot' = boot
    BY <1>4 DEF AllocPage, FreePage
  <2>2. PICK op \in {"alloc", "free"} : NextPage(op) /\ Advance
    BY <1>4 DEF AllocPage, FreePage
  <2>3. WalkInv' /\ OrderInv'
    BY <1>0, <2>1, <2>2, WalkPage, OrderPage
  <2>. QED BY <1>0, <1>4, <2>3, PlacesPage DEF MarkInv
<1>5. ASSUME NEW d \in AllDirs, NEW r \in Ranges, NEW op \in {"alloc", "free"},
             Start(op, d, r)
      PROVE  MarkInv'
  <2>1. entry' = entry /\ bits' = bits
    BY <1>5 DEF Start
  <2>2. WalkInv' /\ Visited' = Visited /\ OrderInv'
    BY <1>0, <1>5, WalkStart, OrderStart
  <2>. QED BY <1>0, <2>1, <2>2, PlacesOtherwise DEF MarkInv
<1>6. CASE Reset
  <2>1. (boot = 1 /\ job = Idle)'
    BY <1>6 DEF Reset
  <2>2. (WalkInv /\ Visited = {} /\ Starting)'
    BY <2>1, WalkAtStart, PTL
  <2>3. OrderInv'
    BY <1>0, <1>6, OrderReset
  <2>4. PlaceInv'
    BY <1>0, <1>6, <2>2, PlacesReset
  <2>. QED BY <2>2, <2>3, <2>4 DEF MarkInv
<1>7. CASE UNCHANGED pvars
  <2>1. UNCHANGED <<bits, tables, entry, made, boot, job>>
    BY <1>7 DEF pvars
  <2>2. WalkInv' /\ Visited' = Visited /\ (Starting' <=> Starting)
    BY <1>0, <2>1, WalkUnchanged DEF Starting
  <2>. QED BY <1>0, <2>1, <2>2, OrderUnchanged, PlacesOtherwise DEF MarkInv
<1>. QED
  BY <1>1, <1>2, <1>3, <1>4, <1>5, <1>6, <1>7
  DEF PagingNext, AllocPagesFor, FreePages

LEMMA MarkAtStart == ASSUME MemoryIsBlank, PagingInit PROVE MarkInv
<1>1. PICK words \in [TableIds -> [0 .. TableSize - 1 -> RamContents]] :
             words \in EntryType /\ entry = ClearedMemory(words)
  BY ShapeAtInit
<1>2. \A t \in TableIds, j \in 0 .. TableSize - 1 : words[t][j].frame = 0
  BY <1>1 DEF MemoryIsBlank
<1>3. \A t \in TableIds, j \in 0 .. TableSize - 1 : entry[t][j].frame = 0
  BY <1>1, <1>2, ClearedIsMemory DEF Blank
<1>4. \A s \in Slots : FrameOf(s) = 0
  BY <1>3 DEF Slots, FrameOf
<1>. QED BY <1>4, OrderAtStart DEF MarkInv, PlaceInv

LEMMA MarkedWhenVisited ==
    ASSUME FrameInv, MarkInv, boot = 7 PROVE ReservedFramesAreMarked
<1> SUFFICES ASSUME NEW f \in ReservedFrames \cap Entries
             PROVE  f \in bits \cup left \cup repeats
  BY DEF ReservedFramesAreMarked
<1>1. PICK i \in 1 .. 5 : f \in FramesOf(BootRanges[i])
  BY JobsOfBoot DEF ReservedFrames
<1> DEFINE r == BootRanges[i]
           k == f - r.frame + 1
           q == <<i, k>>
<1>2. /\ r \in [frame : Nat, page : Nat, size : Nat]
      /\ Len(BootJobs[i].pages) = r.size
  <2>1. i \in 1 .. 6 /\ i # 6
    OBVIOUS
  <2>. QED BY ONLY <2>1, LoopPages
<1>. HIDE DEF r
<1>3. r.frame \in Nat /\ r.size \in Nat /\ f \in r.frame .. r.frame + r.size - 1
  BY <1>1, <1>2 DEF FramesOf, r
<1>4. k \in Nat /\ k \in 1 .. r.size /\ r.frame + k - 1 = f
  BY <1>3
<1>. HIDE DEF k
<1>5. q \in Claims /\ FrameAt(q) = f
  <2>1. q \in (1 .. 6) \X Nat /\ q[1] = i /\ q[2] = k
    BY <1>1, <1>4
  <2>. QED BY <1>1, <1>2, <1>4, <2>1 DEF Visits, Claims, FrameAt, r
<1>6. q \in Visited
  <2>1. q[1] < boot - 1 /\ q \in Visits
    BY <1>1, <1>5 DEF Claims
  <2>. QED BY <2>1 DEF Visited
<1>. HIDE DEF q
<1>7. PlaceOf(q) \in Slots /\ FrameOf(PlaceOf(q)) = f /\ (f = 0 => 0 \in bits)
  BY <1>5, <1>6 DEF MarkInv, PlaceInv, BitClaims
<1>. QED BY <1>7 DEF FrameInv, FramesAreExclusive

(* Once paging_init has claimed them, the frames of the video memory, the    *)
(* kernel, its data, its stack and the ramdisk stay marked as taken, but for *)
(* those that the frame map has handed out although they were, and those of  *)
(* the entries that a reset left: for any layout of memory in which the      *)
(* pages of paging_init are apart, wherever the video memory lies, and for   *)
(* any requests and resets, in a machine whose memory was blank.             *)
THEOREM ReservedFramesStayMarked ==
    ASSUME MemoryIsBlank PROVE PagingSpec => []ReservedFramesAreMarked
<1>1. PagingInit => MarkInv
  BY MarkAtStart
<1>2. SpaceInv /\ MarkInv /\ [PagingNext]_pvars => MarkInv'
  BY MarkStep
<1>3. FrameInv /\ MarkInv => ReservedFramesAreMarked
  BY MarkedWhenVisited, JobsOfBoot DEF ReservedFramesAreMarked, FrameInv, PagingShape
<1>. QED BY <1>1, <1>2, <1>3, PagingInvariant, PTL DEF PagingSpec
=============================================================================
