--------------------------- MODULE HoleHeap_proofs --------------------------
(***************************************************************************)
(* The heap of blocks and holes, for memory of any size, any requests and  *)
(* any order of them: until it goes astray the index, the headers and the  *)
(* footers agree, and no two blocks or holes overlap.                      *)
(*                                                                         *)
(* What bin_tree.c does to the index is in the lemmas of BinTree_proofs on *)
(* any tree, which do not speak of the constants and the one tree of       *)
(* BinTree; here an operation is a tree before and one after, and the      *)
(* words that are written meanwhile.                                       *)
(***************************************************************************)
EXTENDS HoleHeap, BinTree_proofs

\* The end of the memory of the heap, and of a block or hole.
MemEnd == Start + InitSize + HEADER_SIZE

EndAt(w, b) == b + w[b + 1] + HEADER_SIZE

HolesOf(t) == {t.nodes[n].header : n \in Nodes(t)}

IsHoleAt(w, h, length, n) ==
    /\ w[h] = HEAP_FREE /\ w[h + 1] = length /\ w[h + 2] = n
    /\ w[h + HeaderWords + length] = h /\ w[h + HeaderWords + length + 1] = HEAP_FREE

IndexAgrees(t, w) ==
    \A n \in Nodes(t) : IsHoleAt(w, t.nodes[n].header, t.nodes[n].value, n)

HeldAgrees(w, hd) ==
    \A h \in DOMAIN hd : /\ w[h] = HEAP_OCCUPIED /\ w[h + 1] = hd[h]
                         /\ w[h + HeaderWords + hd[h]] = h

AreApart(w, B) ==
    /\ \A b \in B : /\ b \in Int /\ Start <= b /\ w[b + 1] \in Nat
                    /\ EndAt(w, b) <= MemEnd
    /\ \A b, c \in B : b < c => EndAt(w, b) <= c

\* Behind a block that is held there is another block or hole, or the words of
\* an old header and footer.  So the header that heap_free looks for one word
\* too far on is never that of a hole.
NoNarrowGap(w, H, B) ==
    \A h \in H, b \in B : EndAt(w, h) < b => EndAt(w, h) + HEADER_SIZE <= b

Layout(t, w, hd) ==
    LET B == HolesOf(t) \cup DOMAIN hd
    IN  /\ w \in [Memory -> Int]
        /\ AreApart(w, B) /\ NoNarrowGap(w, DOMAIN hd, B)
        /\ IndexAgrees(t, w) /\ HeldAgrees(w, hd)

-----------------------------------------------------------------------------
(* Words                                                                     *)

PutWords(w, h, size, node, magic) ==
    [a \in Memory |->
        CASE a = h                            -> magic
          [] a = h + 1                        -> size
          [] a = h + 2                        -> node
          [] a = h + HeaderWords + size       -> h
          [] a = h + HeaderWords + size + 1   -> magic
          [] OTHER                            -> w[a]]

IsHeapRecord(hp) == hp = [index |-> hp.index, words |-> hp.words]

LEMMA MemoryBounds ==
    /\ Start \in Nat /\ InitSize \in Nat /\ MemEnd \in Nat
    /\ \A a : a \in Memory <=> a \in Int /\ Start <= a /\ a < MemEnd
<1>1. Start \in Nat /\ InitSize \in Nat
  BY HoleHeapAssumption DEF HoleHeapAssumption
<1>2. MemEnd = Start + InitSize + 5 /\ Memory = Start .. Start + InitSize + 5 - 1
  BY DEF Memory, MemEnd, HEADER_SIZE, HeaderWords, FooterWords
<1>. QED BY <1>1, <1>2

\* The words that tell of a block or hole.
FrameOf(w, b) == {b, b + 1, b + 2, b + HeaderWords + w[b + 1],
                  b + HeaderWords + w[b + 1] + 1}

\* They lie between its ends.
LEMMA FrameFacts ==
    ASSUME NEW w, NEW B, AreApart(w, B), NEW b \in B
    PROVE  /\ b \in Int /\ w[b + 1] \in Nat /\ EndAt(w, b) \in Int
           /\ EndAt(w, b) = b + w[b + 1] + 5
           /\ FrameOf(w, b) \subseteq {a \in Memory : b <= a /\ a < EndAt(w, b)}
<1>1. /\ b \in Int /\ Start <= b /\ w[b + 1] \in Nat /\ EndAt(w, b) <= MemEnd
      /\ EndAt(w, b) = b + w[b + 1] + 5
  BY DEF AreApart, EndAt, HEADER_SIZE, HeaderWords, FooterWords
<1>2. \A a \in FrameOf(w, b) : a \in Int /\ b <= a /\ a < EndAt(w, b)
  BY <1>1 DEF FrameOf, HeaderWords
<1>3. \A a \in FrameOf(w, b) : a \in Memory
  BY <1>1, <1>2, MemoryBounds
<1>. QED BY <1>1, <1>2, <1>3

\* No block or hole tells of another: the words of a frame are its own.
LEMMA FramesApart ==
    ASSUME NEW w, NEW B, AreApart(w, B), NEW b \in B, NEW c \in B, b # c,
           NEW a \in FrameOf(w, b)
    PROVE  a < c \/ EndAt(w, c) <= a
<1>1. /\ b \in Int /\ c \in Int /\ a \in Int /\ b <= a /\ a < EndAt(w, b)
      /\ EndAt(w, b) \in Int /\ EndAt(w, c) \in Int
  BY FrameFacts, MemoryBounds
<1>2. b < c => EndAt(w, b) <= c
  BY DEF AreApart
<1>3. c < b => EndAt(w, c) <= b
  BY DEF AreApart
<1>. QED BY <1>1, <1>2, <1>3

\* The words that are not those of a frame may be written.
LEMMA SameFrames ==
    ASSUME NEW t, NEW w, NEW hd, Layout(t, w, hd), NEW w2 \in [Memory -> Int],
           \A b \in HolesOf(t) \cup DOMAIN hd : \A a \in FrameOf(w, b) : w2[a] = w[a]
    PROVE  Layout(t, w2, hd)
<1> DEFINE B == HolesOf(t) \cup DOMAIN hd
<1>1. /\ AreApart(w, B) /\ NoNarrowGap(w, DOMAIN hd, B)
      /\ IndexAgrees(t, w) /\ HeldAgrees(w, hd)
  BY DEF Layout
<1>2. \A b \in B : w2[b + 1] = w[b + 1] /\ EndAt(w2, b) = EndAt(w, b)
  BY DEF FrameOf, EndAt
<1>3. AreApart(w2, B) /\ NoNarrowGap(w2, DOMAIN hd, B)
  BY <1>1, <1>2 DEF AreApart, NoNarrowGap
<1>4. IndexAgrees(t, w2)
  <2> SUFFICES ASSUME NEW n \in Nodes(t)
               PROVE  IsHoleAt(w2, t.nodes[n].header, t.nodes[n].value, n)
    BY DEF IndexAgrees
  <2> DEFINE h == t.nodes[n].header
  <2>1. h \in B
    BY DEF HolesOf
  <2>2. IsHoleAt(w, h, t.nodes[n].value, n)
    BY <1>1 DEF IndexAgrees
  <2>3. \A a \in FrameOf(w, h) : w2[a] = w[a]
    BY <2>1
  <2>. HIDE DEF h
  <2>4. IsHoleAt(w2, h, t.nodes[n].value, n)
    BY <2>2, <2>3 DEF IsHoleAt, FrameOf
  <2>. QED BY <2>4 DEF h
<1>5. HeldAgrees(w2, hd)
  BY <1>1 DEF HeldAgrees, FrameOf
<1>. QED BY <1>3, <1>4, <1>5 DEF Layout

Without(hd, h) == [b \in DOMAIN hd \ {h} |-> hd[b]]

\* A block that is given back is no longer told of.
LEMMA OneHeldLess ==
    ASSUME NEW t, NEW w, NEW hd, Layout(t, w, hd), NEW h \in DOMAIN hd
    PROVE  Layout(t, w, Without(hd, h))
<1> DEFINE hd2 == Without(hd, h)
           B == HolesOf(t) \cup DOMAIN hd
           C == HolesOf(t) \cup DOMAIN hd2
<1>1. /\ w \in [Memory -> Int] /\ AreApart(w, B) /\ NoNarrowGap(w, DOMAIN hd, B)
      /\ IndexAgrees(t, w) /\ HeldAgrees(w, hd)
  BY DEF Layout
<1>2. C \subseteq B /\ DOMAIN hd2 \subseteq DOMAIN hd
  BY DEF Without
<1>3. AreApart(w, C) /\ NoNarrowGap(w, DOMAIN hd2, C)
  BY <1>1, <1>2 DEF AreApart, NoNarrowGap
<1>4. HeldAgrees(w, hd2)
  BY <1>1 DEF HeldAgrees, Without
<1>. QED BY <1>1, <1>3, <1>4 DEF Layout

-----------------------------------------------------------------------------
(* put_block_info                                                            *)

LEMMA PutWordsType ==
    ASSUME NEW w \in [Memory -> Int], NEW h \in Int, NEW size \in Int,
           NEW node \in Int, NEW magic \in Int
    PROVE  PutWords(w, h, size, node, magic) \in [Memory -> Int]
BY DEF PutWords

\* There is room for a block of that size at h.
HasRoom(h, size) == /\ h \in Int /\ size \in Nat /\ Start <= h
                 /\ h + size + HEADER_SIZE <= MemEnd

LEMMA PutWordsFacts ==
    ASSUME NEW w \in [Memory -> Int], NEW h, NEW size, HasRoom(h, size), NEW node, NEW magic
    PROVE  LET w2 == PutWords(w, h, size, node, magic)
           IN  /\ w2[h] = magic /\ w2[h + 1] = size /\ w2[h + 2] = node
               /\ w2[h + HeaderWords + size] = h
               /\ w2[h + HeaderWords + size + 1] = magic
               /\ \A a \in Memory : a < h \/ h + size + HEADER_SIZE <= a => w2[a] = w[a]
<1> DEFINE w2 == PutWords(w, h, size, node, magic)
<1>1. h \in Int /\ size \in Nat /\ Start <= h /\ h + size + 5 <= MemEnd
  BY DEF HasRoom, HEADER_SIZE, HeaderWords, FooterWords
<1>2. {h, h + 1, h + 2, h + 3 + size, h + 4 + size} \subseteq Memory
  BY <1>1, MemoryBounds
<1>3. \A a \in Memory : w2[a] =
        CASE a = h                -> magic
          [] a = h + 1            -> size
          [] a = h + 2            -> node
          [] a = h + 3 + size     -> h
          [] a = h + 3 + size + 1 -> magic
          [] OTHER                -> w[a]
  BY DEF PutWords, HeaderWords
<1>. HIDE DEF w2
<1>4. w2[h] = magic /\ w2[h + 1] = size /\ w2[h + 2] = node
  BY <1>1, <1>2, <1>3
<1>5. w2[h + 3 + size] = h
  BY <1>1, <1>2, <1>3
<1>6. w2[h + 3 + size + 1] = magic
  <2>1. h + 3 + size + 1 \in Memory
    BY <1>1, <1>2
  <2>. QED BY <1>1, <1>3, <2>1
<1>7. \A a \in Memory : a < h \/ h + size + 5 <= a => w2[a] = w[a]
  <2> TAKE a \in Memory
  <2>1. a \in Int
    BY MemoryBounds
  <2>. QED BY <1>1, <1>3, <2>1
<1>. QED BY <1>4, <1>5, <1>6, <1>7 DEF w2, HEADER_SIZE, HeaderWords, FooterWords

\* No block or hole of B lies in the words from h on.
Vacant(w, B, h, size) ==
    \A b \in B : EndAt(w, b) <= h \/ h + size + HEADER_SIZE <= b

LEMMA PutInFree ==
    ASSUME NEW t, NEW w, NEW hd, Layout(t, w, hd), NEW h, NEW size, HasRoom(h, size),
           Vacant(w, HolesOf(t) \cup DOMAIN hd, h, size),
           NEW node \in Int, NEW magic \in Int
    PROVE  LET w2 == PutWords(w, h, size, node, magic)
           IN  /\ Layout(t, w2, hd)
               /\ \A b \in HolesOf(t) \cup DOMAIN hd : w2[b + 1] = w[b + 1]
<1> DEFINE w2 == PutWords(w, h, size, node, magic)
           B == HolesOf(t) \cup DOMAIN hd
<1>1. w \in [Memory -> Int] /\ AreApart(w, B)
  BY DEF Layout
<1>2. h \in Int /\ size \in Int
  BY DEF HasRoom
<1>3. w2 \in [Memory -> Int]
  BY <1>1, <1>2, PutWordsType
<1>4. \A a \in Memory : a < h \/ h + size + HEADER_SIZE <= a => w2[a] = w[a]
  BY <1>1, PutWordsFacts
<1>. HIDE DEF w2
<1>5. ASSUME NEW b \in B, NEW a \in FrameOf(w, b) PROVE w2[a] = w[a]
  <2>1. /\ a \in Memory /\ a \in Int /\ b <= a /\ a < EndAt(w, b)
        /\ b \in Int /\ EndAt(w, b) \in Int
    BY <1>1, FrameFacts, MemoryBounds
  <2>2. EndAt(w, b) <= h \/ h + size + 5 <= b
    BY DEF Vacant, HEADER_SIZE, HeaderWords, FooterWords
  <2>3. a < h \/ h + size + 5 <= a
    BY <1>2, <2>1, <2>2
  <2>. QED BY <1>4, <2>1, <2>3 DEF HEADER_SIZE, HeaderWords, FooterWords
<1>6. Layout(t, w2, hd)
  BY <1>3, <1>5, SameFrames
<1>7. \A b \in B : w2[b + 1] = w[b + 1]
  BY <1>5 DEF FrameOf
<1>. QED BY <1>6, <1>7 DEF w2

\* No block that is held ends a few words before h.
NoGapAt(w, H, h) ==
    \A b \in H : EndAt(w, b) < h => EndAt(w, b) + HEADER_SIZE <= h

\* And none of B begins a few words behind the block of s words at h.
NoGapBehind(B, h, s) ==
    \A b \in B : h + s + HEADER_SIZE < b => h + s + HEADER_SIZE + HEADER_SIZE <= b

WithHeld(hd, h, s) == [b \in DOMAIN hd \cup {h} |-> IF b = h THEN s ELSE hd[b]]

\* There is a place for a block of s words at h.
HasPlace(t, w, hd, h, s) ==
    LET B == HolesOf(t) \cup DOMAIN hd
    IN  /\ HasRoom(h, s) /\ Vacant(w, B, h, s)
        /\ NoGapAt(w, DOMAIN hd, h) /\ NoGapBehind(B, h, s)

\* It is held there.
TakesPlace(t, w, hd, h, s, w2) ==
    /\ Layout(t, w2, WithHeld(hd, h, s))
    /\ \A b \in HolesOf(t) \cup DOMAIN hd : w2[b + 1] = w[b + 1]
    /\ w2[h + 1] = s /\ h \notin HolesOf(t) \cup DOMAIN hd

LEMMA OneHeldMore ==
    ASSUME NEW t, NEW w, NEW hd, Layout(t, w, hd), NEW h, NEW s,
           HasPlace(t, w, hd, h, s), NEW node \in Int
    PROVE  TakesPlace(t, w, hd, h, s, PutWords(w, h, s, node, HEAP_OCCUPIED))
<1> DEFINE w2 == PutWords(w, h, s, node, HEAP_OCCUPIED)
           hd2 == WithHeld(hd, h, s)
           B == HolesOf(t) \cup DOMAIN hd
           C == HolesOf(t) \cup DOMAIN hd2
<1>0. HEAP_OCCUPIED \in Int /\ w \in [Memory -> Int]
  BY DEF HEAP_OCCUPIED, Layout
<1>. /\ HasRoom(h, s) /\ Vacant(w, B, h, s)
     /\ NoGapAt(w, DOMAIN hd, h) /\ NoGapBehind(B, h, s)
  BY DEF HasPlace
<1>1. Layout(t, w2, hd) /\ \A b \in B : w2[b + 1] = w[b + 1]
  <2>. HIDE DEF hd2, C
  <2>1. node \in Int /\ HEAP_OCCUPIED \in Int
    BY <1>0
  <2>2. HasRoom(h, s) /\ Vacant(w, HolesOf(t) \cup DOMAIN hd, h, s) /\ Layout(t, w, hd)
    OBVIOUS
  <2>. QED BY ONLY <2>1, <2>2, PutInFree
<1>2. /\ w2[h] = HEAP_OCCUPIED /\ w2[h + 1] = s /\ w2[h + HeaderWords + s] = h
  BY <1>0, PutWordsFacts
<1>3. C = B \cup {h} /\ DOMAIN hd2 = DOMAIN hd \cup {h}
      /\ hd2[h] = s /\ \A b \in DOMAIN hd : b # h => hd2[b] = hd[b]
  BY DEF WithHeld
<1>4. /\ h \in Int /\ s \in Nat /\ Start <= h /\ h + s + 5 <= MemEnd
      /\ HEADER_SIZE = 5 /\ EndAt(w2, h) = h + s + 5
  BY <1>2 DEF HasRoom, EndAt, HEADER_SIZE, HeaderWords, FooterWords
<1>5. /\ w2 \in [Memory -> Int] /\ AreApart(w2, B) /\ NoNarrowGap(w2, DOMAIN hd, B)
      /\ IndexAgrees(t, w2) /\ HeldAgrees(w2, hd)
  BY <1>1 DEF Layout
<1>6. \A b \in B : /\ EndAt(w2, b) = EndAt(w, b) /\ EndAt(w2, b) \in Int /\ b \in Int
                   /\ b + 5 <= EndAt(w2, b)
                   /\ EndAt(w2, b) <= h \/ h + s + 5 <= b
  <2> TAKE b \in B
  <2>1. EndAt(w2, b) = EndAt(w, b)
    BY <1>1 DEF EndAt
  <2>2. /\ b \in Int /\ EndAt(w2, b) \in Int
        /\ EndAt(w2, b) = b + w2[b + 1] + 5 /\ w2[b + 1] \in Nat
    BY <1>5, FrameFacts
  <2>3. EndAt(w, b) <= h \/ h + s + HEADER_SIZE <= b
    BY DEF Vacant
  <2>. HIDE DEF w2, hd2, B, C
  <2>. QED BY <1>4, <2>1, <2>2, <2>3
<1>7. h \notin B
  BY <1>4, <1>6
<1>. HIDE DEF w2, hd2, C
<1>8. AreApart(w2, C)
  <2>1. ASSUME NEW b \in C
        PROVE  /\ b \in Int /\ Start <= b /\ w2[b + 1] \in Nat /\ EndAt(w2, b) <= MemEnd
    BY <1>2, <1>3, <1>4, <1>5 DEF AreApart
  <2>2. ASSUME NEW b \in C, NEW c \in C, b < c PROVE EndAt(w2, b) <= c
    <3>1. CASE b \in B /\ c \in B
      BY <1>5, <2>2, <3>1 DEF AreApart
    <3>2. CASE b = h /\ c \in B
      BY <1>4, <1>6, <2>2, <3>2
    <3>3. CASE b \in B /\ c = h
      BY <1>4, <1>6, <2>2, <3>3
    <3>. QED BY <1>3, <1>4, <2>2, <3>1, <3>2, <3>3
  <2>. QED BY <2>1, <2>2 DEF AreApart
<1>9. NoNarrowGap(w2, DOMAIN hd2, C)
  <2> SUFFICES ASSUME NEW k \in DOMAIN hd2, NEW b \in C, EndAt(w2, k) < b
               PROVE  EndAt(w2, k) + HEADER_SIZE <= b
    BY DEF NoNarrowGap
  <2>1. CASE k = h
    <3>1. b # h
      BY <1>4, <2>1
    <3>. QED BY <1>3, <1>4, <2>1, <3>1 DEF NoGapBehind
  <2>2. CASE k \in DOMAIN hd /\ b = h
    BY <1>6, <2>2 DEF NoGapAt
  <2>3. CASE k \in DOMAIN hd /\ b \in B
    BY <1>5, <2>3 DEF NoNarrowGap
  <2>. QED BY <1>3, <2>1, <2>2, <2>3
<1>10. HeldAgrees(w2, hd2)
  BY <1>2, <1>3, <1>5, <1>7 DEF HeldAgrees
<1>11. Layout(t, w2, hd2)
  BY <1>5, <1>8, <1>9, <1>10 DEF Layout, C
<1>. QED BY <1>1, <1>2, <1>7, <1>11 DEF w2, hd2, TakesPlace

-----------------------------------------------------------------------------
(* The index                                                                 *)

\* The headers of the holes tell them from one another and from the blocks.
LEMMA HeadersDiffer ==
    ASSUME NEW t, WellFormed(t), NEW w, NEW hd, Layout(t, w, hd)
    PROVE  /\ \A n \in Nodes(t) : /\ t.nodes[n].header \in HolesOf(t)
                                  /\ t.nodes[n].header \in Int
                                  /\ t.nodes[n].header \notin DOMAIN hd
                                  /\ t.nodes[n].value \in Nat
                                  /\ t.nodes[n].value = w[t.nodes[n].header + 1]
           /\ \A n, m \in Nodes(t) :
                 t.nodes[n].header = t.nodes[m].header => n = m
<1>1. IndexAgrees(t, w) /\ HeldAgrees(w, hd) /\ AreApart(w, HolesOf(t) \cup DOMAIN hd)
  BY DEF Layout
<1>2. \A n \in Nodes(t) : /\ w[t.nodes[n].header] = HEAP_FREE
                          /\ w[t.nodes[n].header + 1] = t.nodes[n].value
                          /\ w[t.nodes[n].header + 2] = n
  BY <1>1 DEF IndexAgrees, IsHoleAt
<1>3. \A h \in DOMAIN hd : w[h] = HEAP_OCCUPIED
  BY <1>1 DEF HeldAgrees
<1>4. HEAP_OCCUPIED # HEAP_FREE
  BY DEF HEAP_OCCUPIED, HEAP_FREE
<1>5. \A n \in Nodes(t) : t.nodes[n].header \in HolesOf(t)
  BY DEF HolesOf
<1>6. \A b \in HolesOf(t) : b \in Int /\ w[b + 1] \in Nat
  BY <1>1, FrameFacts
<1>. QED BY <1>2, <1>3, <1>4, <1>5, <1>6

LEMMA UnlistedLayout ==
    ASSUME NEW hp, NEW sub, IsSearchTree(hp.index, sub), NEW n \in Nodes(hp.index),
           ~ HasTwoChildren(hp.index, n), NEW hd, Layout(hp.index, hp.words, hd)
    PROVE  LET u == Unlisted(hp, n)
           IN  /\ \E sub2 : IsSearchTree(u.index, sub2)
               /\ HolesOf(u.index) = HolesOf(hp.index) \ {hp.index.nodes[n].header}
               /\ EndOf(u.index) = EndOf(hp.index) - 1
               /\ Layout(u.index, u.words, hd)
               /\ \A b \in HolesOf(hp.index) \cup DOMAIN hd :
                     u.words[b + 1] = hp.words[b + 1]
<1> DEFINE t == hp.index
           w == hp.words
           end == EndOf(t)
           t2 == Unlisted(hp, n).index
           w2 == Unlisted(hp, n).words
           H(k) == t.nodes[k].header
           D == Nodes(t)
           B == HolesOf(t) \cup DOMAIN hd
           C == HolesOf(t2) \cup DOMAIN hd
           told == H(end) + 2
<1>1. /\ t2 = Erased(Detached(t, n), n)
      /\ w2 = [a \in Memory |-> IF a = told /\ end # n THEN n ELSE w[a]]
  BY DEF Unlisted, Removed, Emptied
<1>2. /\ Nodes(t2) = D \ {end} /\ EndOf(t2) = end - 1
      /\ \A k \in Nodes(t2) :
            /\ t2.nodes[k].value = t.nodes[SlotBefore(t, n, k)].value
            /\ t2.nodes[k].header = t.nodes[SlotBefore(t, n, k)].header
      /\ \E sub2 : IsSearchTree(t2, sub2)
  BY <1>1, ErasedTree
<1>3. WellFormed(t) /\ D = 0 .. end /\ end \in Nat \cup {-1}
  BY Slots DEF IsSearchTree
<1>4. end \in D /\ n \in Int
  <2>. HIDE DEF D, end
  <2>1. n \in 0 .. end
    BY <1>3 DEF D
  <2>. QED BY <1>3, <2>1
<1>5. /\ w \in [Memory -> Int] /\ AreApart(w, B) /\ NoNarrowGap(w, DOMAIN hd, B)
      /\ IndexAgrees(t, w) /\ HeldAgrees(w, hd)
  BY DEF Layout
<1>6. /\ \A k \in D : /\ H(k) \in HolesOf(t) /\ H(k) \in Int /\ H(k) \notin DOMAIN hd
                      /\ t.nodes[k].value \in Nat /\ t.nodes[k].value = w[H(k) + 1]
      /\ \A k, m \in D : H(k) = H(m) => k = m
  <2>1. WellFormed(t) /\ Layout(t, w, hd)
    BY <1>3
  <2>. QED BY ONLY <2>1, HeadersDiffer
<1>7. told \in Int
  <2>1. H(end) \in Int
    BY <1>4, <1>6
  <2>. QED BY ONLY <2>1
<1>. HIDE DEF t2, w2, D, end
<1>8. ASSUME NEW b \in B, b # H(end) PROVE \A a \in FrameOf(w, b) : w2[a] = w[a]
  <2> TAKE a \in FrameOf(w, b)
  <2>1. a \in Memory /\ a \in Int
    BY <1>5, FrameFacts, MemoryBounds
  <2>2. a < H(end) \/ EndAt(w, H(end)) <= a
    <3>1. H(end) \in B
      BY <1>4, <1>6
    <3>. QED BY <1>5, <1>8, <3>1, FramesApart
  <2>3. /\ H(end) \in Int /\ w[H(end) + 1] \in Nat
        /\ EndAt(w, H(end)) = H(end) + w[H(end) + 1] + 5
    <3>1. H(end) \in B
      BY <1>4, <1>6
    <3>. QED BY <1>5, <3>1, FrameFacts
  <2>4. a # told
    BY ONLY <2>1, <2>2, <2>3
  <2>. QED BY <1>1, <2>1, <2>4
<1>9. /\ \A a \in FrameOf(w, H(end)) : a # told => w2[a] = w[a]
      /\ end # n => w2[told] = n
  <2>1. H(end) \in B
    BY <1>4, <1>6
  <2>2. FrameOf(w, H(end)) \subseteq Memory
    BY <1>5, <2>1, FrameFacts
  <2>3. told \in FrameOf(w, H(end))
    BY DEF FrameOf
  <2>. QED BY <1>1, <2>2, <2>3
<1>10. \A b \in B : w2[b + 1] = w[b + 1] /\ EndAt(w2, b) = EndAt(w, b)
  <2> TAKE b \in B
  <2>1. b + 1 \in FrameOf(w, b)
    BY DEF FrameOf
  <2>2. CASE b # H(end)
    BY <1>8, <2>1, <2>2 DEF EndAt
  <2>3. CASE b = H(end)
    <3>1. b + 1 # told
      BY <1>4, <1>6, <2>3
    <3>. QED BY <1>9, <2>1, <2>3, <3>1 DEF EndAt
  <2>. QED BY <2>2, <2>3
<1>11. HolesOf(t2) = HolesOf(t) \ {H(n)}
  <2>1. ASSUME NEW k \in Nodes(t2)
        PROVE  t2.nodes[k].header \in HolesOf(t) /\ t2.nodes[k].header # H(n)
    <3>1. SlotBefore(t, n, k) \in D /\ SlotBefore(t, n, k) # n
      BY <1>2, <1>4 DEF SlotBefore, end
    <3>. QED BY <1>2, <1>6, <2>1, <3>1 DEF D
  <2>2. ASSUME NEW m \in D, m # n PROVE \E k \in Nodes(t2) : t2.nodes[k].header = H(m)
    <3>1. CASE m = end
      <4>1. n \in Nodes(t2) /\ SlotBefore(t, n, n) = end
        BY <1>2, <2>2, <3>1 DEF SlotBefore, D, end
      <4>. QED BY <1>2, <3>1, <4>1
    <3>2. CASE m # end
      <4>1. m \in Nodes(t2) /\ SlotBefore(t, n, m) = m
        BY <1>2, <2>2, <3>2 DEF SlotBefore
      <4>. QED BY <1>2, <4>1
    <3>. QED BY <3>1, <3>2
  <2>. QED BY <2>1, <2>2 DEF HolesOf, D
<1>12. C \subseteq B
  BY <1>11
<1>13. w2 \in [Memory -> Int]
  BY <1>1, <1>4, <1>5
<1>14. AreApart(w2, C) /\ NoNarrowGap(w2, DOMAIN hd, C)
  BY <1>5, <1>10, <1>12 DEF AreApart, NoNarrowGap
<1>15. HeldAgrees(w2, hd)
  <2> SUFFICES ASSUME NEW h \in DOMAIN hd
               PROVE  /\ w2[h] = HEAP_OCCUPIED /\ w2[h + 1] = hd[h]
                      /\ w2[h + HeaderWords + hd[h]] = h
    BY DEF HeldAgrees
  <2>1. h \in B /\ h # H(end)
    BY <1>4, <1>6
  <2>2. \A a \in FrameOf(w, h) : w2[a] = w[a]
    BY <1>8, <2>1
  <2>3. w[h] = HEAP_OCCUPIED /\ w[h + 1] = hd[h] /\ w[h + HeaderWords + hd[h]] = h
    BY <1>5 DEF HeldAgrees
  <2>. QED BY <2>2, <2>3 DEF FrameOf
<1>16. IndexAgrees(t2, w2)
  <2> SUFFICES ASSUME NEW k \in Nodes(t2)
               PROVE  IsHoleAt(w2, t2.nodes[k].header, t2.nodes[k].value, k)
    BY DEF IndexAgrees
  <2> DEFINE j == SlotBefore(t, n, k)
             v == t.nodes[j].value
  <2>1. /\ j \in D /\ j # n /\ k \in D /\ k # end
        /\ j = IF k = n THEN end ELSE k
    BY <1>2, <1>4 DEF SlotBefore, end
  <2>2. t2.nodes[k].header = H(j) /\ t2.nodes[k].value = v
    BY <1>2
  <2>3. /\ IsHoleAt(w, H(j), v, j) /\ H(j) \in B /\ v = w[H(j) + 1] /\ v \in Nat
        /\ H(j) \in Int
    BY <1>5, <1>6, <2>1 DEF IndexAgrees, D
  <2>. HIDE DEF j, v, H
  <2>4. CASE k # n
    <3>1. H(j) # H(end) /\ j = k
      BY <1>4, <1>6, <2>1, <2>4
    <3>2. \A a \in FrameOf(w, H(j)) : w2[a] = w[a]
      BY <1>8, <2>3, <3>1
    <3>3. IsHoleAt(w2, H(j), v, k)
      BY <2>3, <3>1, <3>2 DEF IsHoleAt, FrameOf
    <3>. QED BY <2>2, <3>3
  <2>5. CASE k = n
    <3>1. j = end /\ end # n /\ told = H(j) + 2
      BY <2>1, <2>5
    <3>2. w2[H(j) + 2] = k
      BY <1>9, <2>5, <3>1
    <3>3. /\ H(j) # told /\ H(j) + 1 # told /\ H(j) + HeaderWords + v # told
          /\ H(j) + HeaderWords + v + 1 # told
      BY <2>3, <3>1 DEF HeaderWords
    <3>4. /\ w2[H(j)] = w[H(j)] /\ w2[H(j) + 1] = w[H(j) + 1]
          /\ w2[H(j) + HeaderWords + v] = w[H(j) + HeaderWords + v]
          /\ w2[H(j) + HeaderWords + v + 1] = w[H(j) + HeaderWords + v + 1]
      BY <1>9, <2>3, <3>1, <3>3 DEF FrameOf
    <3>5. IsHoleAt(w2, H(j), v, k)
      BY <2>3, <3>2, <3>4 DEF IsHoleAt
    <3>. QED BY <2>2, <3>5
  <2>. QED BY <2>4, <2>5
<1>17. Layout(t2, w2, hd)
  BY <1>13, <1>14, <1>15, <1>16 DEF Layout
<1>. QED BY <1>2, <1>10, <1>11, <1>17 DEF t2, w2, end

LEMMA PutBlock ==
    ASSUME NEW hp, IsHeapRecord(hp), NEW h, NEW size, NEW node, NEW magic
    PROVE  PutBlockInfo(hp, h, size, node, magic)
              = [index |-> hp.index, words |-> PutWords(hp.words, h, size, node, magic)]
BY DEF PutBlockInfo, PutWords, IsHeapRecord

\* What Listed makes of any tree and any words.
ListedAs(hp, h, length, u) ==
    LET t == hp.index
        leaf == EndOf(t) + 1
    IN  /\ IsHeapRecord(u)
        /\ u.words = PutWords(hp.words, h, length, leaf, HEAP_FREE)
        /\ hp.words \in [Memory -> Int] => u.words \in [Memory -> Int]
        /\ WellFormed(u.index) /\ EndOf(u.index) = leaf /\ leaf \in Int
        /\ Nodes(u.index) = Nodes(t) \cup {leaf} /\ leaf \notin Nodes(t)
        /\ u.index.nodes[leaf].value = length /\ u.index.nodes[leaf].header = h
        /\ \A k \in Nodes(t) : /\ u.index.nodes[k].value = t.nodes[k].value
                               /\ u.index.nodes[k].header = t.nodes[k].header
        /\ ~ CutsSubtree(t, length) => \E sub2 : IsSearchTree(u.index, sub2)

LEMMA ListedFields ==
    ASSUME NEW hp, IsHeapRecord(hp), NEW sub, IsSearchTree(hp.index, sub),
           NEW h, h \in Int, NEW length, length \in Int
    PROVE  ListedAs(hp, h, length, Listed(hp, h, length))
<1> DEFINE t == hp.index
           t2 == Inserted(t, length, h)
           leaf == EndOf(t) + 1
           hp1 == [hp EXCEPT !.index = t2]
<1>1. IsHeapRecord(hp1) /\ hp1.index = t2 /\ hp1.words = hp.words
  BY DEF IsHeapRecord
<1>2. Listed(hp, h, length)
         = [index |-> t2, words |-> PutWords(hp.words, h, length, leaf, HEAP_FREE)]
  <2>1. Listed(hp, h, length) = PutBlockInfo(hp1, h, length, leaf, HEAP_FREE)
    BY DEF Listed
  <2>. HIDE DEF hp1, t2, leaf
  <2>. QED BY <1>1, <2>1, PutBlock
<1>3. /\ WellFormed(t2) /\ EndOf(t2) = leaf
      /\ Nodes(t2) = Nodes(t) \cup {leaf} /\ leaf \notin Nodes(t)
      /\ t2.nodes[leaf].value = length /\ t2.nodes[leaf].header = h
      /\ \A k \in Nodes(t) : /\ t2.nodes[k].value = t.nodes[k].value
                             /\ t2.nodes[k].header = t.nodes[k].header
      /\ \E sub2 : InsertedInto(t2, CutsSubtree(t, length), sub2)
  BY InsertedTree
<1>4. leaf \in Int
  BY Slots DEF IsSearchTree
<1>. HIDE DEF t2, leaf
<1>5. ASSUME ~ CutsSubtree(t, length) PROVE \E sub2 : IsSearchTree(t2, sub2)
  <2>1. PICK sub2 : InsertedInto(t2, CutsSubtree(t, length), sub2)
    BY <1>3
  <2>2. IsSearchTree(t2, sub2)
    BY <1>3, <1>5, <2>1 DEF InsertedInto, IsSearchTree, IsTree
  <2>. QED BY <2>2
<1>6. hp.words \in [Memory -> Int] =>
         PutWords(hp.words, h, length, leaf, HEAP_FREE) \in [Memory -> Int]
  <2>1. HEAP_FREE \in Int
    BY DEF HEAP_FREE
  <2>. QED BY <1>4, <2>1, PutWordsType
<1> DEFINE u == Listed(hp, h, length)
<1>7. /\ IsHeapRecord(u) /\ u.index = t2
      /\ u.words = PutWords(hp.words, h, length, leaf, HEAP_FREE)
  BY <1>2 DEF IsHeapRecord
<1>. HIDE DEF u
<1>8. ListedAs(hp, h, length, u)
  BY <1>3, <1>4, <1>5, <1>6, <1>7 DEF ListedAs, leaf
<1>. QED BY <1>8 DEF u

\* There is a place for a hole of that length at h, where nothing is.
CanAdd(t, w, hd, h, length) ==
    LET B == HolesOf(t) \cup DOMAIN hd
    IN  HasRoom(h, length) /\ Vacant(w, B, h, length) /\ NoGapAt(w, DOMAIN hd, h)

\* It is listed there.
Added(t, w, hd, h, length, u) ==
    /\ HolesOf(u.index) = HolesOf(t) \cup {h}
    /\ Layout(u.index, u.words, hd)
    /\ \A b \in HolesOf(t) \cup DOMAIN hd : u.words[b + 1] = w[b + 1]
    /\ u.words[h + 1] = length /\ h \notin HolesOf(t) \cup DOMAIN hd

LEMMA ListedLayout ==
    ASSUME NEW hp, IsHeapRecord(hp), NEW sub, IsSearchTree(hp.index, sub),
           NEW hd, Layout(hp.index, hp.words, hd), NEW h, NEW length,
           CanAdd(hp.index, hp.words, hd, h, length)
    PROVE  Added(hp.index, hp.words, hd, h, length, Listed(hp, h, length))
<1> DEFINE t == hp.index
           w == hp.words
           t2 == Listed(hp, h, length).index
           w2 == Listed(hp, h, length).words
           leaf == EndOf(t) + 1
           B == HolesOf(t) \cup DOMAIN hd
           C == HolesOf(t2) \cup DOMAIN hd
<1>. /\ HasRoom(h, length) /\ Vacant(w, B, h, length) /\ NoGapAt(w, DOMAIN hd, h)
  BY DEF CanAdd
<1>0. HEAP_FREE \in Int /\ w \in [Memory -> Int] /\ h \in Int /\ length \in Int
  BY DEF HEAP_FREE, Layout, HasRoom
<1>1. /\ w2 = PutWords(w, h, length, leaf, HEAP_FREE)
      /\ Nodes(t2) = Nodes(t) \cup {leaf} /\ leaf \notin Nodes(t) /\ leaf \in Int
      /\ t2.nodes[leaf].value = length /\ t2.nodes[leaf].header = h
      /\ \A k \in Nodes(t) : /\ t2.nodes[k].value = t.nodes[k].value
                             /\ t2.nodes[k].header = t.nodes[k].header
  <2> DEFINE u == Listed(hp, h, length)
  <2>1. IsHeapRecord(hp) /\ IsSearchTree(hp.index, sub) /\ h \in Int /\ length \in Int
    BY <1>0
  <2>2. ListedAs(hp, h, length, Listed(hp, h, length))
    BY ONLY <2>1, ListedFields
  <2>. HIDE DEF u
  <2>3. ListedAs(hp, h, length, u)
    BY <2>2 DEF u
  <2>. QED BY <2>3 DEF ListedAs, u
<1>. HIDE DEF t2, w2, leaf
<1>2. Layout(t, w2, hd) /\ \A b \in B : w2[b + 1] = w[b + 1]
  <2>1. leaf \in Int /\ HEAP_FREE \in Int /\ Layout(t, w, hd) /\ HasRoom(h, length)
        /\ Vacant(w, HolesOf(t) \cup DOMAIN hd, h, length)
    BY <1>0, <1>1
  <2>2. /\ Layout(t, PutWords(w, h, length, leaf, HEAP_FREE), hd)
        /\ \A b \in HolesOf(t) \cup DOMAIN hd :
              PutWords(w, h, length, leaf, HEAP_FREE)[b + 1] = w[b + 1]
    BY ONLY <2>1, PutInFree
  <2>. HIDE DEF C
  <2>. QED BY <1>1, <2>2
<1>3. /\ w2[h] = HEAP_FREE /\ w2[h + 1] = length /\ w2[h + 2] = leaf
      /\ w2[h + HeaderWords + length] = h /\ w2[h + HeaderWords + length + 1] = HEAP_FREE
  BY <1>0, <1>1, PutWordsFacts
<1>4. HolesOf(t2) = HolesOf(t) \cup {h} /\ C = B \cup {h}
  <2>1. HolesOf(t2) = HolesOf(t) \cup {h}
    BY <1>1 DEF HolesOf
  <2>. QED BY <2>1
<1>5. /\ h \in Int /\ length \in Nat /\ Start <= h /\ h + length + 5 <= MemEnd
      /\ HEADER_SIZE = 5 /\ EndAt(w2, h) = h + length + 5
  BY <1>3 DEF HasRoom, EndAt, HEADER_SIZE, HeaderWords, FooterWords
<1>6. /\ w2 \in [Memory -> Int] /\ AreApart(w2, B) /\ NoNarrowGap(w2, DOMAIN hd, B)
      /\ IndexAgrees(t, w2) /\ HeldAgrees(w2, hd)
  BY <1>2 DEF Layout
<1>7. \A b \in B : /\ EndAt(w2, b) = EndAt(w, b) /\ EndAt(w2, b) \in Int /\ b \in Int
                   /\ b + 5 <= EndAt(w2, b)
                   /\ EndAt(w2, b) <= h \/ h + length + 5 <= b
  <2> TAKE b \in B
  <2>1. EndAt(w2, b) = EndAt(w, b)
    BY <1>2 DEF EndAt
  <2>2. /\ b \in Int /\ EndAt(w2, b) \in Int
        /\ EndAt(w2, b) = b + w2[b + 1] + 5 /\ w2[b + 1] \in Nat
    BY <1>6, FrameFacts
  <2>3. EndAt(w, b) <= h \/ h + length + HEADER_SIZE <= b
    BY DEF Vacant
  <2>. HIDE DEF B, C
  <2>. QED BY <1>5, <2>1, <2>2, <2>3
<1>8. h \notin B
  BY <1>5, <1>7
<1>. HIDE DEF C
<1>9. AreApart(w2, C)
  <2>1. ASSUME NEW b \in C
        PROVE  /\ b \in Int /\ Start <= b /\ w2[b + 1] \in Nat /\ EndAt(w2, b) <= MemEnd
    BY <1>3, <1>4, <1>5, <1>6 DEF AreApart
  <2>2. ASSUME NEW b \in C, NEW c \in C, b < c PROVE EndAt(w2, b) <= c
    <3>1. CASE b \in B /\ c \in B
      BY <1>6, <2>2, <3>1 DEF AreApart
    <3>2. CASE b = h /\ c \in B
      BY <1>5, <1>7, <2>2, <3>2
    <3>3. CASE b \in B /\ c = h
      BY <1>5, <1>7, <2>2, <3>3
    <3>. QED BY <1>4, <1>5, <2>2, <3>1, <3>2, <3>3
  <2>. QED BY <2>1, <2>2 DEF AreApart
<1>10. NoNarrowGap(w2, DOMAIN hd, C)
  <2> SUFFICES ASSUME NEW k \in DOMAIN hd, NEW b \in C, EndAt(w2, k) < b
               PROVE  EndAt(w2, k) + HEADER_SIZE <= b
    BY DEF NoNarrowGap
  <2>1. CASE b = h
    <3>1. EndAt(w, k) < h => EndAt(w, k) + HEADER_SIZE <= h
      BY DEF NoGapAt
    <3>. QED BY <1>7, <2>1, <3>1
  <2>2. CASE b \in B
    BY <1>6, <2>2 DEF NoNarrowGap
  <2>. QED BY <1>4, <2>1, <2>2
<1>11. IndexAgrees(t2, w2)
  <2> SUFFICES ASSUME NEW k \in Nodes(t2)
               PROVE  IsHoleAt(w2, t2.nodes[k].header, t2.nodes[k].value, k)
    BY DEF IndexAgrees
  <2>1. CASE k = leaf
    BY <1>1, <1>3, <2>1 DEF IsHoleAt
  <2>2. CASE k \in Nodes(t)
    BY <1>1, <1>6, <2>2 DEF IndexAgrees
  <2>. QED BY <1>1, <2>1, <2>2
<1>12. Layout(t2, w2, hd)
  BY <1>6, <1>9, <1>10, <1>11 DEF Layout, C
<1>. QED BY <1>2, <1>3, <1>4, <1>8, <1>12 DEF t2, w2, Added

LEMMA UnlistedFields ==
    ASSUME NEW hp, NEW sub, IsSearchTree(hp.index, sub), NEW n \in Nodes(hp.index),
           hp.words \in [Memory -> Int]
    PROVE  LET u == Unlisted(hp, n)
           IN  /\ IsHeapRecord(u) /\ u.index = Removed(hp.index, n)
               /\ \E sub2 : IsSearchTree(u.index, sub2)
               /\ EndOf(u.index) = EndOf(hp.index) - 1
               /\ u.words \in [Memory -> Int]
<1> DEFINE t == hp.index
           u == Unlisted(hp, n)
           told == t.nodes[EndOf(t)].header + 2
<1>1. /\ IsHeapRecord(u) /\ u.index = Removed(t, n)
      /\ u.words = [a \in Memory |-> IF a = told /\ EndOf(t) # Emptied(t, n)
                                     THEN Emptied(t, n) ELSE hp.words[a]]
  BY DEF Unlisted, IsHeapRecord
<1>2. EndOf(Removed(t, n)) = EndOf(t) - 1 /\ \E sub2 : IsSearchTree(Removed(t, n), sub2)
  BY RemovedTree
<1>3. Emptied(t, n) \in Int
  <2>1. Nodes(t) \subseteq Int
    BY Slots DEF IsSearchTree
  <2>2. HasTwoChildren(t, n) => NextInOrder(t, sub, n, Neighbour(t, n))
    BY NeighbourIsNext
  <2>3. HasTwoChildren(t, n) => Neighbour(t, n) \in Nodes(t)
    <3>1. IsSearchTree(t, sub)
      OBVIOUS
    <3>. QED BY <2>2, <3>1 DEF NextInOrder, IsSearchTree, IsTree, Nested
  <2>. QED BY <2>1, <2>3 DEF Emptied
<1>. HIDE DEF told, u
<1>4. u.words \in [Memory -> Int]
  BY <1>1, <1>3
<1>. QED BY <1>1, <1>2, <1>4 DEF u

-----------------------------------------------------------------------------
(* heap_alloc                                                                *)

\* A block is put where a hole was, and what is left of it is listed.
LEMMA AllocLayout ==
    ASSUME NEW hp, IsHeapRecord(hp), NEW sub, IsSearchTree(hp.index, sub),
           NEW hd, Layout(hp.index, hp.words, hd), NEW n \in Nodes(hp.index),
           ~ HasTwoChildren(hp.index, n), NEW s, s \in Nat,
           s + 5 <= hp.index.nodes[n].value
    PROVE  LET h == hp.index.nodes[n].header
               v == hp.index.nodes[n].value
               taken == PutBlockInfo(Unlisted(hp, n), h, s, NULL, HEAP_OCCUPIED)
               left == Listed(taken, h + (s + 5), v - s - 6)
               hd2 == WithHeld(hd, h, s)
           IN  /\ Layout(taken.index, taken.words, hd2)
               /\ s + 5 < v => Layout(left.index, left.words, hd2)
<1> DEFINE h == hp.index.nodes[n].header
           v == hp.index.nodes[n].value
           w == hp.words
           t1 == Unlisted(hp, n).index
           w1 == Unlisted(hp, n).words
           w2 == PutWords(w1, h, s, NULL, HEAP_OCCUPIED)
           hd2 == WithHeld(hd, h, s)
           p == h + (s + 5)
           B == HolesOf(hp.index) \cup DOMAIN hd
           B1 == HolesOf(t1) \cup DOMAIN hd
           B2 == HolesOf(t1) \cup DOMAIN hd2
<1>1. /\ w \in [Memory -> Int] /\ AreApart(w, B) /\ NoNarrowGap(w, DOMAIN hd, B)
      /\ WellFormed(hp.index)
  BY DEF Layout, IsSearchTree
<1>2. /\ h \in HolesOf(hp.index) /\ h \in Int /\ h \notin DOMAIN hd
      /\ v \in Nat /\ v = w[h + 1]
  <2>. HIDE DEF hd2, B, B1, B2, t1, w1, w2, p
  <2>1. WellFormed(hp.index) /\ Layout(hp.index, w, hd)
    BY <1>1
  <2>2. n \in Nodes(hp.index)
    OBVIOUS
  <2>. QED BY ONLY <2>1, <2>2, HeadersDiffer
<1>3. /\ HolesOf(t1) = HolesOf(hp.index) \ {h} /\ Layout(t1, w1, hd)
      /\ \A b \in B : w1[b + 1] = w[b + 1]
  BY UnlistedLayout
<1>4. /\ IsHeapRecord(Unlisted(hp, n)) /\ \E sub1 : IsSearchTree(t1, sub1)
      /\ w1 \in [Memory -> Int]
  BY <1>1, UnlistedFields
<1>. HIDE DEF h, v, t1, w1, w2, hd2, B, B1, B2
<1>5. B1 = B \ {h} /\ h \in B /\ h \notin B1
  BY <1>2, <1>3 DEF B, B1
<1>6. /\ Start <= h /\ EndAt(w, h) = h + v + 5 /\ h + v + 5 <= MemEnd
      /\ HEADER_SIZE = 5 /\ MemEnd \in Int /\ s + 5 <= v
  <2>1. Start <= h /\ EndAt(w, h) <= MemEnd
    BY <1>1, <1>5 DEF AreApart
  <2>2. EndAt(w, h) = h + v + 5
    BY <1>1, <1>2, <1>5, FrameFacts
  <2>. QED BY <2>1, <2>2, MemoryBounds DEF HEADER_SIZE, HeaderWords, FooterWords, v
<1>7. ASSUME NEW b \in B1
      PROVE  /\ b \in Int /\ EndAt(w1, b) = EndAt(w, b) /\ EndAt(w1, b) \in Int
             /\ b + 5 <= EndAt(w1, b)
             /\ EndAt(w1, b) <= h \/ h + v + 5 <= b
  <2>1. b \in B /\ b # h /\ EndAt(w1, b) = EndAt(w, b)
    BY <1>3, <1>5 DEF EndAt
  <2>2. /\ b \in Int /\ EndAt(w, b) = b + w[b + 1] + 5 /\ w[b + 1] \in Nat
    BY <1>1, <2>1, FrameFacts
  <2>3. (b < h => EndAt(w, b) <= h) /\ (h < b => EndAt(w, h) <= b)
    BY <1>1, <1>5, <2>1 DEF AreApart
  <2>. QED BY <1>2, <1>6, <2>1, <2>2, <2>3
<1>8. HasRoom(h, s)
  BY <1>2, <1>6 DEF HasRoom
<1>9. Vacant(w1, B1, h, s)
  <2> SUFFICES ASSUME NEW b \in B1 PROVE EndAt(w1, b) <= h \/ h + s + HEADER_SIZE <= b
    BY DEF Vacant
  <2>. QED BY <1>2, <1>6, <1>7
<1>10. \A k \in DOMAIN hd : EndAt(w, k) < h => EndAt(w, k) + 5 <= h
  BY <1>1, <1>5, <1>6 DEF NoNarrowGap
<1>11. NoGapAt(w1, DOMAIN hd, h)
  <2>1. \A k \in DOMAIN hd : k \in B1
    BY DEF B1
  <2>. QED BY <1>6, <1>7, <1>10, <2>1 DEF NoGapAt
<1>12. NoGapBehind(B1, h, s)
  BY <1>2, <1>6, <1>7 DEF NoGapBehind
<1>13. /\ Layout(t1, w2, hd2) /\ \A b \in B1 : w2[b + 1] = w1[b + 1]
       /\ w2[h + 1] = s
  <2>1. Layout(t1, w1, hd) /\ HasPlace(t1, w1, hd, h, s)
    BY <1>3, <1>8, <1>9, <1>11, <1>12 DEF B1, HasPlace
  <2>2. NULL \in Int
    BY DEF NULL
  <2>3. TakesPlace(t1, w1, hd, h, s, PutWords(w1, h, s, NULL, HEAP_OCCUPIED))
    BY ONLY <2>1, <2>2, OneHeldMore
  <2>. QED BY <2>3 DEF B1, w2, hd2, TakesPlace
<1> DEFINE taken == [index |-> t1, words |-> w2]
<1>14. PutBlockInfo(Unlisted(hp, n), h, s, NULL, HEAP_OCCUPIED) = taken
  BY <1>4, PutBlock DEF t1, w1, w2
<1>15. IsHeapRecord(taken) /\ taken.index = t1 /\ taken.words = w2
  BY DEF IsHeapRecord
<1>. HIDE DEF taken
<1>16. ASSUME s + 5 < v
       PROVE  LET left == Listed(taken, p, v - s - 6)
              IN  Layout(left.index, left.words, hd2)
  <2> DEFINE rest == v - s - 6
  <2>1. HasRoom(p, rest) /\ p + rest + 5 = h + v + 4 /\ p \in Int
    <3>1. rest \in Nat /\ p \in Int /\ Start <= p /\ p + rest + 5 = h + v + 4
      <4>1. Start \in Nat
        BY MemoryBounds
      <4>. QED BY <1>2, <1>6, <1>16, <4>1
    <3>. HIDE DEF rest, p
    <3>2. p + rest + 5 <= MemEnd
      BY <1>2, <1>6, <3>1
    <3>. QED BY <1>6, <3>1, <3>2 DEF HasRoom
  <2>2. EndAt(w2, h) = p
    BY <1>2, <1>6, <1>13 DEF EndAt
  <2>3. B2 = B1 \cup {h} /\ DOMAIN hd2 = DOMAIN hd \cup {h} /\ DOMAIN hd \subseteq B1
    BY DEF B1, B2, hd2, WithHeld
  <2>4. \A b \in B1 : EndAt(w2, b) = EndAt(w1, b)
    BY <1>13 DEF EndAt
  <2>5. Vacant(w2, B2, p, rest)
    <3> SUFFICES ASSUME NEW b \in B2
                 PROVE  EndAt(w2, b) <= p \/ p + rest + HEADER_SIZE <= b
      BY DEF Vacant
    <3>1. CASE b = h
      BY <1>2, <2>2, <3>1
    <3>2. CASE b \in B1
      <4>1. EndAt(w2, b) = EndAt(w1, b)
        BY <2>4, <3>2
      <4>2. /\ b \in Int /\ EndAt(w1, b) \in Int
            /\ EndAt(w1, b) <= h \/ h + v + 5 <= b
        BY <1>7, <3>2
      <4>. HIDE DEF rest
      <4>. QED BY <1>2, <1>6, <2>1, <4>1, <4>2
    <3>. QED BY <2>3, <3>1, <3>2
  <2>6. NoGapAt(w2, DOMAIN hd2, p)
    <3> SUFFICES ASSUME NEW k \in DOMAIN hd2, EndAt(w2, k) < p
                 PROVE  EndAt(w2, k) + HEADER_SIZE <= p
      BY DEF NoGapAt
    <3>1. k # h
      BY <1>2, <2>2
    <3>2. k \in B1 /\ EndAt(w2, k) = EndAt(w1, k)
      BY <2>3, <2>4, <3>1
    <3>3. /\ k \in Int /\ EndAt(w1, k) \in Int /\ k + 5 <= EndAt(w1, k)
          /\ EndAt(w1, k) <= h \/ h + v + 5 <= k
      BY <1>7, <3>2
    <3>. QED BY <1>2, <1>6, <3>2, <3>3
  <2>7. PICK sub1 : IsSearchTree(t1, sub1)
    BY <1>4
  <2>8. /\ IsHeapRecord(taken) /\ IsSearchTree(taken.index, sub1)
        /\ Layout(taken.index, taken.words, hd2)
        /\ CanAdd(taken.index, taken.words, hd2, p, rest)
    BY <1>13, <1>15, <2>1, <2>5, <2>6, <2>7 DEF B2, CanAdd
  <2>. HIDE DEF rest, p
  <2>9. LET left == Listed(taken, p, rest) IN Layout(left.index, left.words, hd2)
    BY <2>8, ListedLayout DEF Added
  <2>. QED BY <2>9 DEF rest
<1>. QED BY <1>13, <1>14, <1>15, <1>16 DEF h, v, hd2

-----------------------------------------------------------------------------
(* The inductive invariant.  What is said of a heap that is not astray holds *)
(* of every heap that the next step is taken from.                           *)

HoleInv ==
    /\ IsHeapRecord(heap) /\ heap.words \in [Memory -> Int]
    /\ WellFormed(heap.index) /\ EndOf(heap.index) <= MaxSlots
    /\ DOMAIN held \subseteq Memory
    /\ \A h \in DOMAIN held : held[h] \in Requests
    /\ astray \in BOOLEAN /\ halted \in BOOLEAN
    /\ ~ astray => /\ \E sub : IsSearchTree(heap.index, sub)
                   /\ Layout(heap.index, heap.words, held)

\* The holes and blocks begin in the memory of the heap.
LEMMA HeadersInMemory ==
    ASSUME NEW w, NEW B, AreApart(w, B)
    PROVE  B \subseteq Memory
<1> SUFFICES ASSUME NEW b \in B PROVE b \in Memory
  OBVIOUS
<1>1. b \in FrameOf(w, b)
  BY DEF FrameOf
<1>. QED BY <1>1, FrameFacts

LEMMA WordInt ==
    ASSUME NEW hp, hp.words \in [Memory -> Int], NEW a
    PROVE  Word(hp, a) \in Int
BY DEF Word, Junk

LEMMA InitInv == HoleHeapInit => HoleInv
<1> SUFFICES ASSUME HoleHeapInit PROVE HoleInv
  OBVIOUS
<1> DEFINE t == [root |-> 0, nodes |-> [n \in {0} |-> Leaf(InitSize, Start, NULL)]]
           w0 == [a \in Memory |-> Junk]
           w == PutWords(w0, Start, InitSize, 0, HEAP_FREE)
           hp == [index |-> t, words |-> w0]
<1>1. /\ heap = PutBlockInfo(hp, Start, InitSize, 0, HEAP_FREE)
      /\ DOMAIN held = {} /\ astray = FALSE /\ halted = FALSE
  BY DEF HoleHeapInit
<1>2. IsHeapRecord(hp) /\ hp.index = t /\ hp.words = w0
  BY DEF IsHeapRecord
<1>3. /\ Start \in Nat /\ InitSize \in Nat /\ MaxSlots \in Nat /\ MaxSlots > 0
      /\ Start \in Int /\ InitSize \in Int
  BY HoleHeapAssumption DEF HoleHeapAssumption
<1>4. /\ WellFormed(t) /\ Nodes(t) = {0} /\ EndOf(t) = 0
      /\ t.nodes[0].value = InitSize /\ t.nodes[0].header = Start
      /\ \E sub : IsSearchTree(t, sub)
  <2>. HIDE DEF w, w0, hp
  <2>1. t = [root |-> 0, nodes |-> [n \in {0} |-> Leaf(InitSize, Start, NULL)]]
    OBVIOUS
  <2>. HIDE DEF t
  <2>. QED BY <1>3, <2>1, OneNode
<1>5. w0 \in [Memory -> Int] /\ HEAP_FREE \in Int
  BY DEF Junk, HEAP_FREE
<1>. HIDE DEF t, w0, hp
<1>6. heap = [index |-> t, words |-> w]
  BY <1>1, <1>2, PutBlock
<1>7. HasRoom(Start, InitSize)
  BY <1>3 DEF HasRoom, MemEnd, HEADER_SIZE, HeaderWords, FooterWords
<1>8. /\ w[Start] = HEAP_FREE /\ w[Start + 1] = InitSize /\ w[Start + 2] = 0
      /\ w[Start + HeaderWords + InitSize] = Start
      /\ w[Start + HeaderWords + InitSize + 1] = HEAP_FREE
  BY <1>5, <1>7, PutWordsFacts
<1>9. w \in [Memory -> Int]
  BY <1>3, <1>5, PutWordsType
<1>. HIDE DEF w
<1>10. HolesOf(t) \cup DOMAIN held = {Start}
  BY <1>1, <1>4 DEF HolesOf
<1>11. Layout(t, w, held)
  <2>1. AreApart(w, {Start})
    BY <1>3, <1>8
    DEF AreApart, EndAt, MemEnd, HEADER_SIZE, HeaderWords, FooterWords
  <2>2. NoNarrowGap(w, DOMAIN held, {Start}) /\ HeldAgrees(w, held)
    BY <1>1 DEF NoNarrowGap, HeldAgrees
  <2>3. IndexAgrees(t, w)
    BY <1>4, <1>8 DEF IndexAgrees, IsHoleAt
  <2>. QED BY <1>9, <1>10, <2>1, <2>2, <2>3 DEF Layout
<1>12. heap.index = t /\ heap.words = w /\ IsHeapRecord(heap)
  BY <1>6 DEF IsHeapRecord
<1>13. WellFormed(heap.index) /\ EndOf(heap.index) <= MaxSlots
  BY <1>3, <1>4, <1>12
<1>14. \E sub : IsSearchTree(heap.index, sub)
  BY <1>4, <1>12
<1>15. heap.words \in [Memory -> Int] /\ Layout(heap.index, heap.words, held)
  BY <1>9, <1>11, <1>12
<1>. QED BY <1>1, <1>12, <1>13, <1>14, <1>15 DEF HoleInv

\* The headers a tree carries are among those of another one: remove_tree
\* moves the headers of nodes and makes none.
HeadersFrom(u, t) ==
    \A k \in Nodes(u) : \E j \in Nodes(t) :
        u.nodes[k].header = t.nodes[j].header

LEMMA RemovedHeaders ==
    ASSUME NEW t, NEW sub, IsSearchTree(t, sub), NEW n \in Nodes(t)
    PROVE  HeadersFrom(Removed(t, n), t)
<1>1. \A k \in Nodes(Removed(t, n)) : \E j \in Nodes(t) :
         Removed(t, n).nodes[k].header = t.nodes[j].header
  BY ONLY IsSearchTree(t, sub), RemovedTree, ZenonT(90)
<1>. QED BY <1>1 DEF HeadersFrom

LEMMA AllocInv ==
    ASSUME HoleInv, NEW s \in Requests, Alloc(s)
    PROVE  HoleInv'
<1> DEFINE t == heap.index
           n == BestFit(s)
           u == Unlisted(heap, n)
           annexee == HeaderAfter(t, n)
           length == Length(heap, annexee)
           taken == PutBlockInfo(u, annexee, s, NULL, HEAP_OCCUPIED)
           rest == Remainder(length, Needed(s))
           splits == Needed(s) < length
           left == Listed(taken, annexee + Needed(s), rest)
<1>1. /\ ~ astray /\ n # NULL /\ EndOf(t) < MaxSlots
      /\ heap' = IF splits THEN left ELSE taken
      /\ astray' = \/ ~ Means(heap, n, annexee)
                   \/ splits /\ CutsSubtree(taken.index, rest)
      /\ held' = WithHeld(held, annexee, s) /\ halted' = halted
  BY DEF Alloc, WithHeld
<1>2. PICK sub : IsSearchTree(t, sub)
  BY <1>1 DEF HoleInv
<1>3. /\ Layout(t, heap.words, held) /\ IsHeapRecord(heap) /\ WellFormed(t)
      /\ heap.words \in [Memory -> Int]
      /\ DOMAIN held \subseteq Memory /\ halted \in BOOLEAN
      /\ \A h \in DOMAIN held : held[h] \in Requests
  BY <1>1 DEF HoleInv
<1>4. /\ s \in Nat /\ MaxSlots \in Nat /\ Needed(s) = s + 5 /\ Needed(s) \in Int
  BY HoleHeapAssumption
  DEF HoleHeapAssumption, Needed, HEADER_SIZE, HeaderWords, FooterWords
<1>5. EndOf(t) \in Int
  BY <1>3, Slots
<1>6. n \in Nodes(t) /\ s + 5 <= t.nodes[n].value
  <2>1. n \in Nodes(t) /\ ValueOf(t)[n] >= Needed(s)
    BY <1>1, <1>2, <1>4, BestFitFinds DEF BestFit
  <2>2. ValueOf(t)[n] = t.nodes[n].value /\ ValueOf(t)[n] \in Int
    BY <1>3, <2>1, NodeFields
  <2>. QED BY <1>4, <2>1, <2>2
<1>. HIDE DEF n
<1>7. /\ IsHeapRecord(u) /\ u.index = Removed(t, n) /\ u.words \in [Memory -> Int]
      /\ EndOf(u.index) = EndOf(t) - 1 /\ \E sub1 : IsSearchTree(u.index, sub1)
  BY <1>2, <1>3, <1>6, UnlistedFields
<1>8. annexee \in HolesOf(t)
  <2>0. HeadersFrom(Removed(t, n), t)
    BY ONLY <1>2, <1>6, RemovedHeaders
  <2>1. \A k \in Nodes(Removed(t, n)) : \E j \in Nodes(t) :
           Removed(t, n).nodes[k].header = t.nodes[j].header
    BY <2>0 DEF HeadersFrom
  <2>2. annexee = IF n \in Nodes(Removed(t, n)) THEN Removed(t, n).nodes[n].header
                                                ELSE t.nodes[n].header
    BY DEF HeaderAfter
  <2>3. \E j \in Nodes(t) : annexee = t.nodes[j].header
    BY ONLY <1>6, <2>1, <2>2
  <2>. QED BY <2>3 DEF HolesOf
<1>9. annexee \in Memory /\ annexee \in Int
  <2>1. AreApart(heap.words, HolesOf(t) \cup DOMAIN held)
    BY <1>3 DEF Layout
  <2>. QED BY <1>8, <2>1, HeadersInMemory, MemoryBounds
<1>10. length \in Int
  BY <1>3, WordInt DEF Length
<1>11. rest = length - s - 6 /\ rest \in Int
  BY <1>4, <1>10 DEF Remainder, HeaderWords, FooterWords
<1>. HIDE DEF u, annexee, length, rest
<1>12. taken = [index |-> u.index,
                words |-> PutWords(u.words, annexee, s, NULL, HEAP_OCCUPIED)]
  BY <1>7, PutBlock
<1>13. /\ IsHeapRecord(taken) /\ taken.index = u.index /\ taken.words \in [Memory -> Int]
  <2>1. NULL \in Int /\ HEAP_OCCUPIED \in Int
    BY DEF NULL, HEAP_OCCUPIED
  <2>2. u.words \in [Memory -> Int] /\ annexee \in Int /\ s \in Int
    BY <1>4, <1>7, <1>9
  <2>3. PutWords(u.words, annexee, s, NULL, HEAP_OCCUPIED) \in [Memory -> Int]
    BY ONLY <2>1, <2>2, PutWordsType
  <2>. QED BY <1>12, <2>3 DEF IsHeapRecord
<1>. HIDE DEF taken
<1>14. PICK sub1 : IsSearchTree(taken.index, sub1)
  BY <1>7, <1>13
<1>15. /\ IsHeapRecord(left) /\ left.words \in [Memory -> Int]
       /\ WellFormed(left.index) /\ EndOf(left.index) = EndOf(t)
       /\ ~ CutsSubtree(taken.index, rest) => \E sub2 : IsSearchTree(left.index, sub2)
  <2> DEFINE p == annexee + Needed(s)
  <2>1. /\ IsHeapRecord(taken) /\ IsSearchTree(taken.index, sub1)
        /\ p \in Int /\ rest \in Int
    BY <1>4, <1>9, <1>11, <1>13, <1>14
  <2>. HIDE DEF p
  <2>2. ListedAs(taken, p, rest, Listed(taken, p, rest))
    BY ONLY <2>1, ListedFields
  <2>3. EndOf(taken.index) = EndOf(t) - 1
    BY <1>7, <1>13
  <2>4. ListedAs(taken, p, rest, left)
    BY <2>2 DEF p
  <2>. HIDE DEF left
  <2>. QED BY <1>5, <1>13, <2>3, <2>4 DEF ListedAs
<1>. HIDE DEF left
<1>17. /\ IsHeapRecord(heap') /\ heap'.words \in [Memory -> Int]
       /\ WellFormed(heap'.index) /\ EndOf(heap'.index) <= MaxSlots
  <2>1. CASE splits
    BY <1>1, <1>4, <1>5, <1>15, <2>1
  <2>2. CASE ~ splits
    <3>1. WellFormed(taken.index) /\ EndOf(taken.index) = EndOf(t) - 1
      BY <1>7, <1>13, <1>14 DEF IsSearchTree
    <3>. QED BY <1>1, <1>4, <1>5, <1>13, <2>2, <3>1
  <2>. QED BY <2>1, <2>2
<1>18. /\ DOMAIN held' \subseteq Memory
       /\ \A h \in DOMAIN held' : held'[h] \in Requests
       /\ astray' \in BOOLEAN /\ halted' \in BOOLEAN
  BY <1>1, <1>3, <1>9 DEF WithHeld
<1>19. ASSUME ~ astray'
       PROVE  /\ \E sub2 : IsSearchTree(heap'.index, sub2)
              /\ Layout(heap'.index, heap'.words, held')
  <2>1. ~ HasTwoChildren(t, n) /\ annexee = t.nodes[n].header
    BY <1>1, <1>19 DEF Means
  <2>2. length = t.nodes[n].value
    <3>1. t.nodes[n].value = heap.words[annexee + 1]
      BY <1>3, <1>6, <2>1, HeadersDiffer
    <3>2. annexee + 1 \in Memory
      <4>1. AreApart(heap.words, HolesOf(t) \cup DOMAIN held)
        BY <1>3 DEF Layout
      <4>2. annexee + 1 \in FrameOf(heap.words, annexee)
        BY DEF FrameOf
      <4>. QED BY <1>8, <4>1, <4>2, FrameFacts
    <3>. QED BY <3>1, <3>2 DEF length, Length, Word
  <2>3. /\ Layout(taken.index, taken.words, held')
        /\ splits => Layout(left.index, left.words, held')
    <3>1. LET h == heap.index.nodes[n].header
              v == heap.index.nodes[n].value
              taken2 == PutBlockInfo(Unlisted(heap, n), h, s, NULL, HEAP_OCCUPIED)
              left2 == Listed(taken2, h + (s + 5), v - s - 6)
              hd2 == WithHeld(held, h, s)
          IN  /\ Layout(taken2.index, taken2.words, hd2)
              /\ s + 5 < v => Layout(left2.index, left2.words, hd2)
      BY <1>2, <1>3, <1>4, <1>6, <2>1, AllocLayout
    <3>. QED BY <1>1, <1>4, <1>11, <2>1, <2>2, <3>1 DEF taken, left, u
  <2>. QED BY <1>1, <1>14, <1>15, <1>19, <2>3
<1>. QED BY <1>17, <1>18, <1>19 DEF HoleInv

-----------------------------------------------------------------------------
(* heap_free                                                                 *)

\* A neighbour leaves the index, or none does.
LEMMA MergedFields ==
    ASSUME NEW hp, IsHeapRecord(hp), hp.words \in [Memory -> Int],
           NEW sub, IsSearchTree(hp.index, sub), NEW k
    PROVE  LET u == Merged(hp, k)
           IN  /\ IsHeapRecord(u) /\ u.words \in [Memory -> Int]
               /\ \E sub2 : IsSearchTree(u.index, sub2)
               /\ EndOf(u.index) \in Int /\ EndOf(u.index) <= EndOf(hp.index)
<1> DEFINE n == Word(hp, k + 2)
           u == Unlisted(hp, n)
<1>1. EndOf(hp.index) \in Int
  BY Slots DEF IsSearchTree
<1>2. CASE IsHole(hp, k) /\ n \in Nodes(hp.index)
  <2>1. /\ IsHeapRecord(u) /\ u.words \in [Memory -> Int]
        /\ \E sub2 : IsSearchTree(u.index, sub2)
        /\ EndOf(u.index) = EndOf(hp.index) - 1
    <3>. HIDE DEF n
    <3>. QED BY <1>2, UnlistedFields
  <2>2. Merged(hp, k) = u
    BY <1>2 DEF Merged
  <2>. HIDE DEF u
  <2>. QED BY <1>1, <2>1, <2>2
<1>3. CASE ~ (IsHole(hp, k) /\ n \in Nodes(hp.index))
  <2>1. Merged(hp, k) = hp
    BY <1>3 DEF Merged
  <2>. QED BY <1>1, <2>1
<1>. QED BY <1>2, <1>3

\* There is room for the hole that a block of size s at h becomes.
Freeable(t, w, hd, h, s) ==
    /\ h \in Memory /\ h + 1 \in Memory /\ w[h + 1] = s /\ hd[h] = s
    /\ EndAt(w, h) = h + s + 5 /\ EndAt(w, h) \in Int
    /\ h \notin HolesOf(t) /\ HasRoom(h, s)
    /\ Vacant(w, HolesOf(t) \cup DOMAIN Without(hd, h), h, s)

LEMMA FreeableBlock ==
    ASSUME NEW t, WellFormed(t), NEW w, NEW hd, Layout(t, w, hd), NEW h \in DOMAIN hd
    PROVE  Freeable(t, w, hd, h, hd[h])
<1> DEFINE B == HolesOf(t) \cup DOMAIN hd
           C == HolesOf(t) \cup DOMAIN Without(hd, h)
<1>1. AreApart(w, B) /\ HeldAgrees(w, hd) /\ IndexAgrees(t, w)
  BY DEF Layout
<1>2. h \in B /\ w[h] = HEAP_OCCUPIED /\ w[h + 1] = hd[h]
  BY <1>1 DEF HeldAgrees
<1>3. /\ h \in Int /\ hd[h] \in Nat /\ EndAt(w, h) = h + hd[h] + 5 /\ EndAt(w, h) \in Int
      /\ FrameOf(w, h) \subseteq Memory /\ Start <= h /\ EndAt(w, h) <= MemEnd
  <2>1. Start <= h /\ EndAt(w, h) <= MemEnd
    BY <1>1, <1>2 DEF AreApart
  <2>. QED BY <1>1, <1>2, <2>1, FrameFacts
<1>4. h \in Memory /\ h + 1 \in Memory
  BY <1>3 DEF FrameOf
<1>5. h \notin HolesOf(t)
  <2>1. \A b \in HolesOf(t) : w[b] = HEAP_FREE
    BY <1>1 DEF HolesOf, IndexAgrees, IsHoleAt
  <2>. QED BY <1>2, <2>1 DEF HEAP_FREE, HEAP_OCCUPIED
<1>6. HasRoom(h, hd[h])
  BY <1>3 DEF HasRoom, HEADER_SIZE, HeaderWords, FooterWords
<1>7. C \subseteq B /\ h \notin C
  BY <1>5 DEF Without
<1>8. Vacant(w, C, h, hd[h])
  <2> SUFFICES ASSUME NEW b \in C
               PROVE  EndAt(w, b) <= h \/ h + hd[h] + HEADER_SIZE <= b
    BY DEF Vacant
  <2>1. b \in B /\ b # h
    BY <1>7
  <2>2. b \in Int
    BY <1>1, <2>1, FrameFacts
  <2>3. (b < h => EndAt(w, b) <= h) /\ (h < b => EndAt(w, h) <= b)
    BY <1>1, <1>2, <2>1 DEF AreApart
  <2>. QED BY <1>3, <2>1, <2>2, <2>3 DEF HEADER_SIZE, HeaderWords, FooterWords
<1>. QED BY <1>2, <1>3, <1>4, <1>5, <1>6, <1>8 DEF Freeable

\* The block that heap_free writes as a hole, before it is in the index.
LEMMA FreedFields ==
    ASSUME HoleInv, NEW h \in DOMAIN held
    PROVE  /\ IsHeapRecord(Freed(h)) /\ Freed(h).index = heap.index
           /\ Freed(h).words = PutWords(heap.words, h, Length(heap, h),
                                        Word(heap, h + 2), HEAP_FREE)
           /\ Freed(h).words \in [Memory -> Int]
           /\ h \in Int /\ Length(heap, h) \in Int /\ Word(heap, h + 2) \in Int
<1>1. IsHeapRecord(heap) /\ heap.words \in [Memory -> Int] /\ h \in Memory
  BY DEF HoleInv
<1>2. h \in Int /\ Length(heap, h) \in Int /\ Word(heap, h + 2) \in Int /\ HEAP_FREE \in Int
  BY <1>1, MemoryBounds, WordInt DEF Length, HEAP_FREE
<1>3. Freed(h) = [index |-> heap.index,
                  words |-> PutWords(heap.words, h, Length(heap, h),
                                     Word(heap, h + 2), HEAP_FREE)]
  BY <1>1, PutBlock DEF Freed
<1>4. PutWords(heap.words, h, Length(heap, h), Word(heap, h + 2), HEAP_FREE)
         \in [Memory -> Int]
  BY <1>1, <1>2, PutWordsType
<1>. QED BY <1>2, <1>3, <1>4 DEF IsHeapRecord

\* Nothing else is told of it, and no hole is met behind it.
LEMMA FreedLayout ==
    ASSUME HoleInv, ~ astray, NEW h \in DOMAIN held
    PROVE  /\ Length(heap, h) = held[h]
           /\ Layout(heap.index, Freed(h).words, Without(held, h))
           /\ \A b \in HolesOf(heap.index) \cup DOMAIN Without(held, h) :
                 Freed(h).words[b + 1] = heap.words[b + 1]
           /\ ~ Strays(Freed(h), Behind(h)) => ~ IsHole(Freed(h), Behind(h))
<1> DEFINE t == heap.index
           w == heap.words
           s == held[h]
           hd2 == Without(held, h)
           node == Word(heap, h + 2)
<1>1. WellFormed(t) /\ Layout(t, w, held)
  BY DEF HoleInv
<1>2. Freeable(t, w, held, h, s)
  BY <1>1, FreeableBlock
<1>3. Length(heap, h) = s
  BY <1>2 DEF Freeable, Length, Word
<1>4. /\ Freed(h).index = t /\ Freed(h).words = PutWords(w, h, s, node, HEAP_FREE)
      /\ node \in Int /\ h \in Int
  BY <1>3, FreedFields
<1>5. /\ Layout(t, Freed(h).words, hd2)
      /\ \A b \in HolesOf(t) \cup DOMAIN hd2 : Freed(h).words[b + 1] = w[b + 1]
  <2>. HIDE DEF hd2, s, node, t, w
  <2>1. Layout(t, w, hd2)
    BY <1>1, OneHeldLess DEF hd2
  <2>2. HasRoom(h, s) /\ Vacant(w, HolesOf(t) \cup DOMAIN hd2, h, s)
    BY <1>2 DEF Freeable, hd2
  <2>3. HEAP_FREE \in Int /\ node \in Int
    BY <1>4 DEF HEAP_FREE
  <2>4. LET w2 == PutWords(w, h, s, node, HEAP_FREE)
        IN  /\ Layout(t, w2, hd2)
            /\ \A b \in HolesOf(t) \cup DOMAIN hd2 : w2[b + 1] = w[b + 1]
    BY ONLY <2>1, <2>2, <2>3, PutInFree
  <2>. QED BY <1>4, <2>4
<1>6. ASSUME IsHole(Freed(h), Behind(h)), ~ Strays(Freed(h), Behind(h)) PROVE FALSE
  <2>1. Behind(h) \in HolesOf(t)
    BY <1>4, <1>6 DEF Strays, Means, HolesOf
  <2>2. Behind(h) = EndAt(w, h) + 1 /\ EndAt(w, h) \in Int
    <3>1. EndAt(w, h) = h + s + 5 /\ s \in Nat /\ h \in Int /\ EndAt(w, h) \in Int
      BY <1>2, <1>4 DEF Freeable, HasRoom
    <3>. QED BY <1>3, <3>1 DEF Behind, HeaderWords
  <2>3. EndAt(w, h) < Behind(h) => EndAt(w, h) + 5 <= Behind(h)
    BY <1>1, <2>1 DEF Layout, NoNarrowGap, HEADER_SIZE, HeaderWords, FooterWords
  <2>. QED BY <2>2, <2>3
<1>. QED BY <1>3, <1>5, <1>6

\* There is room for a hole of that length at k, where a hole is already.
CanGrow(t, w, hd, k, length) ==
    /\ HasRoom(k, length) /\ NoGapAt(w, DOMAIN hd, k)
    /\ Vacant(w, (HolesOf(t) \ {k}) \cup DOMAIN hd, k, length)

\* The hole leaves the index and comes back with another length.
Grown(t, w, hd, k, length, u) ==
    /\ Layout(u.index, u.words, hd) /\ HolesOf(u.index) = HolesOf(t)
    /\ u.words[k + 1] = length
    /\ \A b \in HolesOf(t) \ {k} : u.words[b + 1] = w[b + 1]

LEMMA HoleGrows ==
    ASSUME NEW hp, NEW sub, IsSearchTree(hp.index, sub), NEW n \in Nodes(hp.index),
           ~ HasTwoChildren(hp.index, n), NEW hd, Layout(hp.index, hp.words, hd),
           NEW k, k = hp.index.nodes[n].header, NEW length,
           CanGrow(hp.index, hp.words, hd, k, length)
    PROVE  Grown(hp.index, hp.words, hd, k, length, Listed(Unlisted(hp, n), k, length))
<1> DEFINE t == hp.index
           w == hp.words
           u == Unlisted(hp, n)
           B == HolesOf(t) \cup DOMAIN hd
           C == (HolesOf(t) \ {k}) \cup DOMAIN hd
<1>1. /\ HolesOf(u.index) = HolesOf(t) \ {k} /\ Layout(u.index, u.words, hd)
      /\ \A b \in B : u.words[b + 1] = w[b + 1]
      /\ k \in HolesOf(t)
  BY UnlistedLayout DEF HolesOf
<1>2. IsHeapRecord(u) /\ \E sub1 : IsSearchTree(u.index, sub1)
  BY UnlistedFields DEF Layout
<1>3. PICK sub1 : IsSearchTree(u.index, sub1)
  BY <1>2
<1>4. HasRoom(k, length) /\ NoGapAt(w, DOMAIN hd, k) /\ Vacant(w, C, k, length)
  BY DEF CanGrow
<1>. HIDE DEF u, t, w
<1>5. \A b \in B : EndAt(u.words, b) = EndAt(w, b)
  BY <1>1 DEF EndAt
<1>6. NoGapAt(u.words, DOMAIN hd, k)
  BY <1>4, <1>5 DEF NoGapAt
<1>7. Vacant(u.words, HolesOf(u.index) \cup DOMAIN hd, k, length)
  BY <1>1, <1>4, <1>5 DEF Vacant
<1>8. Added(u.index, u.words, hd, k, length, Listed(u, k, length))
  <2>. HIDE DEF B, C
  <2>1. /\ IsHeapRecord(u) /\ IsSearchTree(u.index, sub1) /\ Layout(u.index, u.words, hd)
        /\ CanAdd(u.index, u.words, hd, k, length)
    BY <1>1, <1>2, <1>3, <1>4, <1>6, <1>7 DEF CanAdd
  <2>. QED BY ONLY <2>1, ListedLayout
<1> DEFINE v == Listed(u, k, length)
<1>. HIDE DEF v
<1>9. /\ Layout(v.index, v.words, hd) /\ HolesOf(v.index) = HolesOf(t)
      /\ v.words[k + 1] = length
      /\ \A b \in HolesOf(t) \ {k} : v.words[b + 1] = w[b + 1]
  <2>1. Added(u.index, u.words, hd, k, length, v)
    BY <1>8 DEF v
  <2>2. /\ Layout(v.index, v.words, hd) /\ HolesOf(v.index) = HolesOf(u.index) \cup {k}
        /\ v.words[k + 1] = length
        /\ \A b \in HolesOf(u.index) : v.words[b + 1] = u.words[b + 1]
    BY ONLY <2>1 DEF Added
  <2>3. \A b \in HolesOf(t) \ {k} : v.words[b + 1] = w[b + 1]
    BY <1>1, <2>2
  <2>. QED BY <1>1, <2>2, <2>3
<1>. QED BY <1>9 DEF Grown, v, u, t, w

\* What heap_free makes of the holes, if it does not go astray.
Joined(h, hp) ==
    LET front == HolesOf(heap.index) \cap {Before(h)}
    IN  /\ HolesOf(hp.index) = HolesOf(heap.index) \cup IF front = {} THEN {h} ELSE {}
        /\ \A k \in HolesOf(heap.index) : hp.words[k + 1] = heap.words[k + 1] +
              IF k \in front THEN held[h] + HEADER_SIZE ELSE 0

LEMMA FreeSound ==
    ASSUME HoleInv, NEW h \in DOMAIN held, Free(h), ~ astray'
    PROVE  Layout(heap'.index, heap'.words, held') /\ Joined(h, heap')
<1> DEFINE t == heap.index
           w == heap.words
           f == Freed(h)
           hd2 == Without(held, h)
           s == held[h]
           k == Before(h)
           B == HolesOf(t) \cup DOMAIN held
           C == HolesOf(t) \cup DOMAIN hd2
<1>1. /\ ~ astray /\ Length(heap, h) = s
      /\ IsHeapRecord(f) /\ f.index = t /\ Layout(t, f.words, hd2)
      /\ \A b \in C : f.words[b + 1] = w[b + 1]
  <2>1. ~ astray
    BY DEF Free
  <2>. QED BY <2>1, FreedFields, FreedLayout
<1>2. ~ IsHole(f, Behind(h)) /\ Merged(f, Behind(h)) = f /\ LengthIfHole(f, Behind(h)) = 0
  <2>1. ~ Strays(f, Behind(h))
    BY DEF Free
  <2>2. ~ IsHole(f, Behind(h))
    BY <1>1, <2>1, FreedLayout
  <2>. QED BY <2>2 DEF Merged, LengthIfHole
<1>3. /\ WellFormed(t) /\ Layout(t, w, held) /\ (\E sub : IsSearchTree(t, sub))
      /\ w \in [Memory -> Int]
  BY <1>1 DEF HoleInv
<1>4. PICK sub : IsSearchTree(t, sub)
  BY <1>3
<1>5. /\ Freeable(t, w, held, h, s) /\ h \in Int /\ s \in Nat
      /\ EndAt(w, h) = h + s + 5 /\ HasRoom(h, s) /\ Vacant(w, C, h, s)
      /\ h \notin HolesOf(t) /\ h + s + 5 <= MemEnd
  <2>1. Freeable(t, w, held, h, s)
    BY <1>3, FreeableBlock
  <2>. QED BY <2>1 DEF Freeable, HasRoom, HEADER_SIZE, HeaderWords, FooterWords
<1>6. /\ AreApart(w, B) /\ NoNarrowGap(w, DOMAIN held, B)
      /\ \A b \in B : /\ b \in Int /\ w[b + 1] \in Nat /\ EndAt(w, b) = b + w[b + 1] + 5
                      /\ EndAt(w, b) \in Int
  <2>1. AreApart(w, B) /\ NoNarrowGap(w, DOMAIN held, B)
    BY <1>3 DEF Layout
  <2>. QED BY <2>1, FrameFacts
<1>7. C \subseteq B /\ h \in B /\ h \notin C /\ B = C \cup {h}
  BY <1>5 DEF Without
<1>8. \A b \in C : EndAt(f.words, b) = EndAt(w, b)
  BY <1>1 DEF EndAt
<1>9. held' = hd2
  BY DEF Free, Without
<1>10. HEADER_SIZE = 5 /\ MemEnd \in Int
  BY MemoryBounds DEF HEADER_SIZE, HeaderWords, FooterWords
<1>11. DOMAIN hd2 \subseteq DOMAIN held
  BY DEF Without
<1>. HIDE DEF t, w, f, hd2, s, k, B, C
<1>12. CASE IsHole(f, k)
  <2> DEFINE n == Word(f, k + 2)
             lb == w[k + 1]
             length == s + (lb + 5)
  <2>1. /\ n \in Nodes(t) /\ t.nodes[n].header = k /\ ~ HasTwoChildren(t, n)
        /\ InFront(k, h)
    BY <1>1, <1>2, <1>12 DEF Free, Strays, Means, f, k
  <2>2. k \in HolesOf(t) /\ k \in C /\ k \in B
    BY <1>7, <2>1 DEF HolesOf, C
  <2>3. k \in Int /\ lb \in Nat /\ EndAt(w, k) = k + lb + 5 /\ k < h
        /\ k + lb + 5 <= h
    BY <1>6, <1>7, <2>1, <2>2 DEF InFront, AreApart
  <2>4. Length(f, k) = lb
    <3>1. k + 1 \in Memory
      <4>1. k + 1 \in FrameOf(w, k)
        BY DEF FrameOf
      <4>. QED BY <1>6, <2>2, <4>1, FrameFacts
    <3>. QED BY <1>1, <2>2, <3>1 DEF Length, Word
  <2>5. heap' = Listed(Unlisted(f, n), k, length)
    <3>1. LengthIfHole(f, k) = lb + 5
      BY <1>10, <1>12, <2>4 DEF LengthIfHole
    <3>2. Merged(f, k) = Unlisted(f, n)
      BY <1>1, <1>12, <2>1 DEF Merged
    <3>3. heap' = Listed(Merged(f, k), k, s + 0 + LengthIfHole(f, k))
      BY <1>1, <1>2, <1>12 DEF Free, f, k
    <3>4. s + 0 + LengthIfHole(f, k) = length
      BY <1>5, <2>3, <3>1
    <3>. QED BY <3>2, <3>3, <3>4
  <2>6. CanGrow(t, f.words, hd2, k, length)
    <3>1. HasRoom(k, length)
      <4>1. Start <= k
        BY <1>6, <2>2 DEF AreApart
      <4>2. length \in Nat /\ k + length + 5 <= MemEnd
        BY <1>5, <1>10, <2>3
      <4>. QED BY <1>10, <2>3, <4>1, <4>2 DEF HasRoom
    <3>2. NoGapAt(f.words, DOMAIN hd2, k)
      <4>1. \A b \in DOMAIN hd2 : b \in C /\ b \in DOMAIN held
        BY <1>11 DEF C
      <4>. QED BY <1>6, <1>8, <2>2, <4>1 DEF NoGapAt, NoNarrowGap
    <3>3. ASSUME NEW b \in (HolesOf(t) \ {k}) \cup DOMAIN hd2
          PROVE  EndAt(f.words, b) <= k \/ k + length + HEADER_SIZE <= b
      <4>1. b \in C /\ b \in B /\ b # h
        BY <1>7, <3>3 DEF C
      <4>2. b # k
        <5>1. DOMAIN hd2 \cap HolesOf(t) = {}
          BY <1>3, <1>11, HeadersDiffer DEF HolesOf
        <5>. QED BY <2>2, <3>3, <5>1
      <4>3. ~ (k < b /\ b < h)
        <5>1. b \in Blocks
          BY <4>1 DEF Blocks, Holes, B, HolesOf, t
        <5>. QED BY <2>1, <5>1 DEF InFront
      <4>4. /\ b \in Int /\ EndAt(f.words, b) = EndAt(w, b) /\ EndAt(w, b) \in Int
            /\ b < k => EndAt(w, b) <= k
            /\ h < b => EndAt(w, h) <= b
        BY <1>6, <1>7, <1>8, <2>2, <4>1 DEF AreApart
      <4>. QED BY <1>5, <1>10, <2>3, <4>1, <4>2, <4>3, <4>4
    <3>. QED BY <3>1, <3>2, <3>3 DEF CanGrow, Vacant
  <2>. HIDE DEF length, lb, n
  <2>7. Grown(t, f.words, hd2, k, length, heap')
    <3>1. /\ IsSearchTree(f.index, sub) /\ n \in Nodes(f.index)
          /\ ~ HasTwoChildren(f.index, n) /\ Layout(f.index, f.words, hd2)
          /\ k = f.index.nodes[n].header /\ CanGrow(f.index, f.words, hd2, k, length)
      BY <1>1, <1>4, <2>1, <2>6
    <3>2. Grown(f.index, f.words, hd2, k, length, Listed(Unlisted(f, n), k, length))
      BY ONLY <3>1, HoleGrows
    <3>. QED BY <1>1, <2>5, <3>2
  <2>8. Joined(h, heap')
    <3>1. HolesOf(heap.index) \cap {Before(h)} = {k}
      BY <2>2 DEF k, t
    <3>2. HolesOf(heap'.index) = HolesOf(t)
      BY <2>7 DEF Grown
    <3>3. ASSUME NEW b \in HolesOf(t)
          PROVE  heap'.words[b + 1] = w[b + 1] + IF b = k THEN s + HEADER_SIZE ELSE 0
      <4>1. CASE b = k
        <5>1. heap'.words[k + 1] = length
          BY <2>7 DEF Grown
        <5>. QED BY <1>5, <1>10, <2>3, <4>1, <5>1 DEF length, lb
      <4>2. CASE b # k
        <5>1. heap'.words[b + 1] = f.words[b + 1]
          BY <2>7, <4>2 DEF Grown
        <5>2. f.words[b + 1] = w[b + 1] /\ w[b + 1] \in Nat
          BY <1>1, <1>6, <1>7 DEF C
        <5>. QED BY <4>2, <5>1, <5>2
      <4>. QED BY <4>1, <4>2
    <3>. QED BY <3>1, <3>2, <3>3 DEF Joined, t, w, s
  <2>. QED BY <1>9, <2>7, <2>8 DEF Grown
<1>13. CASE ~ IsHole(f, k)
  <2>1. heap' = Listed(f, h, s)
    <3>1. heap' = Listed(f, h, s + 0 + 0)
      BY <1>1, <1>2, <1>13 DEF Free, Merged, LengthIfHole, f, k
    <3>. QED BY <1>5, <3>1
  <2>2. Vacant(f.words, C, h, s)
    BY <1>5, <1>8 DEF Vacant
  <2>3. NoGapAt(f.words, DOMAIN hd2, h)
    <3>1. \A b \in DOMAIN hd2 : b \in C /\ b \in DOMAIN held
      BY <1>11 DEF C
    <3>2. \A b \in DOMAIN hd2 : EndAt(w, b) < h => EndAt(w, b) + HEADER_SIZE <= h
      BY ONLY <1>6, <1>7, <3>1 DEF NoNarrowGap
    <3>3. \A b \in DOMAIN hd2 : EndAt(f.words, b) = EndAt(w, b)
      BY ONLY <1>8, <3>1
    <3>. QED BY ONLY <3>2, <3>3 DEF NoGapAt
  <2>4. Added(f.index, f.words, hd2, h, s, Listed(f, h, s))
    <3>1. /\ IsHeapRecord(f) /\ IsSearchTree(f.index, sub)
          /\ Layout(f.index, f.words, hd2) /\ CanAdd(f.index, f.words, hd2, h, s)
      BY <1>1, <1>4, <1>5, <2>2, <2>3 DEF C, CanAdd
    <3>. QED BY ONLY <3>1, ListedLayout
  <2>5. k \notin HolesOf(t)
    <3> SUFFICES ASSUME k \in HolesOf(t) PROVE FALSE
      OBVIOUS
    <3>1. f.words[k] = HEAP_FREE
      BY <1>1 DEF HolesOf, Layout, IndexAgrees, IsHoleAt
    <3>2. k \in Memory
      BY <1>6, HeadersInMemory DEF B
    <3>. QED BY <1>13, <3>1, <3>2 DEF IsHole, Word
  <2>6. Joined(h, heap')
    <3>1. HolesOf(heap.index) \cap {Before(h)} = {}
      BY <2>5 DEF k, t
    <3>2. HolesOf(heap'.index) = HolesOf(t) \cup {h}
      BY <1>1, <2>1, <2>4 DEF Added
    <3>3. \A b \in HolesOf(t) : heap'.words[b + 1] = w[b + 1] /\ w[b + 1] \in Nat
      BY <1>1, <1>6, <1>7, <2>1, <2>4 DEF C, Added
    <3>. QED BY <3>1, <3>2, <3>3 DEF Joined, t, w
  <2>. QED BY <1>9, <2>1, <2>4, <2>6 DEF Added
<1>. QED BY <1>12, <1>13

LEMMA FreeInv ==
    ASSUME HoleInv, NEW h \in DOMAIN held, Free(h)
    PROVE  HoleInv'
<1> DEFINE t == heap.index
           f == Freed(h)
           k == Before(h)
           hp1 == Merged(f, Behind(h))
           hp2 == Merged(hp1, k)
           length == Length(heap, h) + LengthIfHole(f, Behind(h)) + LengthIfHole(hp1, k)
           at == IF IsHole(hp1, k) THEN k ELSE h
           u == Listed(hp2, at, length)
<1>1. /\ ~ astray /\ EndOf(t) < MaxSlots /\ heap' = u /\ halted' = halted
      /\ held' = Without(held, h) /\ astray' \in BOOLEAN
      /\ ~ astray' => ~ CutsSubtree(hp2.index, length)
  BY DEF Free, Without
<1>2. /\ IsHeapRecord(f) /\ f.words \in [Memory -> Int] /\ f.index = t
      /\ h \in Int /\ Length(heap, h) \in Int
  BY FreedFields
<1>3. /\ heap.words \in [Memory -> Int] /\ (\E sub : IsSearchTree(t, sub))
      /\ DOMAIN held \subseteq Memory /\ halted \in BOOLEAN
      /\ \A b \in DOMAIN held : held[b] \in Requests
  BY <1>1 DEF HoleInv
<1>4. PICK sub : IsSearchTree(t, sub)
  BY <1>3
<1>. HIDE DEF f, t
<1>5. /\ IsHeapRecord(hp1) /\ hp1.words \in [Memory -> Int]
      /\ \E sub1 : IsSearchTree(hp1.index, sub1)
      /\ EndOf(hp1.index) \in Int /\ EndOf(hp1.index) <= EndOf(t)
  BY <1>2, <1>4, MergedFields
<1>6. PICK sub1 : IsSearchTree(hp1.index, sub1)
  BY <1>5
<1>7. LengthIfHole(f, Behind(h)) \in Int
  BY <1>2, WordInt
  DEF LengthIfHole, Length, HEADER_SIZE, HeaderWords, FooterWords
<1>. HIDE DEF hp1
<1>8. /\ IsHeapRecord(hp2) /\ hp2.words \in [Memory -> Int]
      /\ \E sub2 : IsSearchTree(hp2.index, sub2)
      /\ EndOf(hp2.index) \in Int /\ EndOf(hp2.index) <= EndOf(hp1.index)
  BY <1>5, <1>6, MergedFields
<1>9. PICK sub2 : IsSearchTree(hp2.index, sub2)
  BY <1>8
<1>10. LengthIfHole(hp1, k) \in Int
  BY <1>5, WordInt
  DEF LengthIfHole, Length, HEADER_SIZE, HeaderWords, FooterWords
<1>11. length \in Int /\ at \in Int
  <2>1. k \in Int
    BY <1>3, WordInt DEF Before
  <2>. QED BY <1>2, <1>7, <1>10, <2>1
<1>. HIDE DEF hp2, length, at
<1>12. ListedAs(hp2, at, length, u)
  <2>1. /\ IsHeapRecord(hp2) /\ IsSearchTree(hp2.index, sub2)
        /\ at \in Int /\ length \in Int
    BY <1>8, <1>9, <1>11
  <2>. QED BY ONLY <2>1, ListedFields
<1>. HIDE DEF u
<1>13. /\ IsHeapRecord(u) /\ WellFormed(u.index) /\ u.words \in [Memory -> Int]
       /\ EndOf(u.index) = EndOf(hp2.index) + 1
       /\ ~ CutsSubtree(hp2.index, length) => \E sub3 : IsSearchTree(u.index, sub3)
  BY <1>8, <1>12 DEF ListedAs
<1>14. EndOf(u.index) <= MaxSlots
  <2>1. MaxSlots \in Int
    BY HoleHeapAssumption DEF HoleHeapAssumption
  <2>2. EndOf(t) \in Int
    BY <1>4, Slots DEF IsSearchTree
  <2>. QED BY ONLY <1>1, <1>5, <1>8, <1>13, <2>1, <2>2
<1>16. /\ DOMAIN held' \subseteq Memory
       /\ \A b \in DOMAIN held' : held'[b] \in Requests
  BY <1>1, <1>3 DEF Without
<1>17. ~ astray' => Layout(heap'.index, heap'.words, held')
  BY FreeSound
<1>. QED BY <1>1, <1>3, <1>13, <1>14, <1>16, <1>17 DEF HoleInv

LEMMA FreeFaultsInv ==
    ASSUME HoleInv, NEW h \in DOMAIN held, FreeFaults(h)
    PROVE  HoleInv'
<1> DEFINE t == heap.index
           f == Freed(h)
           u == Merged(f, Behind(h))
<1>1. /\ ~ astray /\ heap' = u /\ halted' = TRUE /\ held' = Without(held, h)
      /\ astray' = Strays(f, Behind(h)) /\ astray' \in BOOLEAN
  BY DEF FreeFaults, Strays, Without
<1>2. /\ IsHeapRecord(f) /\ f.words \in [Memory -> Int] /\ f.index = t
  BY FreedFields
<1>3. /\ (\E sub : IsSearchTree(t, sub)) /\ EndOf(t) <= MaxSlots
      /\ DOMAIN held \subseteq Memory
      /\ \A b \in DOMAIN held : held[b] \in Requests
  BY <1>1 DEF HoleInv
<1>4. PICK sub : IsSearchTree(t, sub)
  BY <1>3
<1>5. ASSUME ~ astray'
      PROVE  /\ u = f
             /\ Layout(t, f.words, held')
  <2>1. /\ Layout(t, f.words, Without(held, h)) /\ ~ IsHole(f, Behind(h))
    BY <1>1, <1>5, FreedLayout
  <2>. QED BY <1>1, <2>1 DEF Merged
<1>. HIDE DEF f, t
<1>6. /\ IsHeapRecord(u) /\ u.words \in [Memory -> Int]
      /\ \E sub1 : IsSearchTree(u.index, sub1)
      /\ EndOf(u.index) \in Int /\ EndOf(u.index) <= EndOf(t)
  BY <1>2, <1>4, MergedFields
<1>. HIDE DEF u
<1>7. WellFormed(u.index)
  BY <1>6 DEF IsSearchTree
<1>8. EndOf(u.index) <= MaxSlots
  <2>1. MaxSlots \in Int
    BY HoleHeapAssumption DEF HoleHeapAssumption
  <2>2. EndOf(t) \in Int
    BY <1>4, Slots DEF IsSearchTree
  <2>. QED BY <1>3, <1>6, <2>1, <2>2
<1>9. /\ DOMAIN held' \subseteq Memory
      /\ \A b \in DOMAIN held' : held'[b] \in Requests
  BY <1>1, <1>3 DEF Without
<1>10. ~ astray' => Layout(heap'.index, heap'.words, held')
  BY <1>1, <1>2, <1>5
<1>. QED BY <1>1, <1>6, <1>7, <1>8, <1>9, <1>10 DEF HoleInv

\* The words that a client writes are of no header and no footer.
LEMMA FillInv ==
    ASSUME HoleInv, NEW h \in DOMAIN held, Fill(h)
    PROVE  HoleInv'
<1> DEFINE t == heap.index
           w == heap.words
           s == held[h]
           w2 == [a \in Memory |-> IF a - h - HeaderWords \in 0 .. s - 1
                                   THEN Junk ELSE w[a]]
           B == HolesOf(t) \cup DOMAIN held
<1>1. /\ ~ astray /\ heap' = [heap EXCEPT !.words = w2]
      /\ held' = held /\ astray' = astray /\ halted' = halted
  BY DEF Fill
<1>2. /\ IsHeapRecord(heap) /\ w \in [Memory -> Int] /\ WellFormed(t)
      /\ EndOf(t) <= MaxSlots /\ DOMAIN held \subseteq Memory
      /\ \A b \in DOMAIN held : held[b] \in Requests
      /\ astray \in BOOLEAN /\ halted \in BOOLEAN
      /\ (\E sub : IsSearchTree(t, sub)) /\ Layout(t, w, held)
  BY <1>1 DEF HoleInv
<1>3. w2 \in [Memory -> Int]
  BY <1>2 DEF Junk
<1>4. heap'.index = t /\ heap'.words = w2 /\ IsHeapRecord(heap')
  BY <1>1, <1>2 DEF IsHeapRecord
<1>5. AreApart(w, B) /\ h \in B /\ w[h + 1] = s
  BY <1>2 DEF Layout, HeldAgrees
<1>6. h \in Int /\ s \in Nat /\ EndAt(w, h) = h + s + 5
  BY <1>5, FrameFacts
<1>7. ASSUME NEW b \in B, NEW a \in FrameOf(w, b) PROVE w2[a] = w[a]
  <2>1. a \in Memory /\ a \in Int
    BY <1>5, FrameFacts, MemoryBounds
  <2>2. a < h + 3 \/ h + s + 3 <= a
    <3>1. CASE b = h
      BY <1>5, <1>6, <1>7, <3>1 DEF FrameOf, HeaderWords
    <3>2. CASE b # h
      <4>1. a < h \/ EndAt(w, h) <= a
        BY <1>5, <1>7, <3>2, FramesApart
      <4>. QED BY <1>6, <2>1, <4>1
    <3>. QED BY <3>1, <3>2
  <2>3. ~ (a - h - HeaderWords \in 0 .. s - 1)
    BY <1>6, <2>1, <2>2 DEF HeaderWords
  <2>. QED BY <2>1, <2>3
<1>. HIDE DEF w2, t, w
<1>8. Layout(t, w2, held)
  BY <1>2, <1>3, <1>7, SameFrames
<1>. QED BY <1>1, <1>2, <1>3, <1>4, <1>8 DEF HoleInv, t, w

-----------------------------------------------------------------------------
(* The theorems                                                              *)

LEMMA HoleStep == HoleInv /\ [HoleHeapNext]_holeVars => HoleInv'
<1> SUFFICES ASSUME HoleInv, [HoleHeapNext]_holeVars PROVE HoleInv'
  OBVIOUS
<1>1. ASSUME NEW s \in Requests, Alloc(s) PROVE HoleInv'
  BY <1>1, AllocInv
<1>2. ASSUME NEW s \in Requests, AllocFaults(s) PROVE HoleInv'
  <2>1. heap' = heap /\ held' = held /\ astray' = astray /\ halted' = TRUE
    BY <1>2 DEF AllocFaults
  <2>. QED BY <2>1 DEF HoleInv
<1>3. ASSUME NEW h \in DOMAIN held, Free(h) PROVE HoleInv'
  BY <1>3, FreeInv
<1>4. ASSUME NEW h \in DOMAIN held, FreeFaults(h) PROVE HoleInv'
  BY <1>4, FreeFaultsInv
<1>5. ASSUME NEW h \in DOMAIN held, Fill(h) PROVE HoleInv'
  BY <1>5, FillInv
<1>6. CASE UNCHANGED holeVars
  BY <1>6 DEF holeVars, HoleInv
<1>. QED BY <1>1, <1>2, <1>3, <1>4, <1>5, <1>6 DEF HoleHeapNext

\* Whatever is allocated, freed and written: the heap is a record of an index
\* and of words, and until it goes astray the index is a search tree of the
\* holes, which with the blocks lie apart in memory as Layout says.
THEOREM HoleHeapInvariant == HoleHeapSpec => []HoleInv
<1>1. HoleHeapInit => HoleInv
  BY InitInv
<1>2. HoleInv /\ [HoleHeapNext]_holeVars => HoleInv'
  BY HoleStep
<1>. QED BY <1>1, <1>2, PTL DEF HoleHeapSpec

\* What Layout says of one block or hole b.
LEMMA BlockFacts ==
    ASSUME HoleInv, ~ astray, NEW b \in Blocks
    PROVE  /\ b \in Int /\ Size(b) \in Nat /\ Length(heap, b) = Size(b)
           /\ EndAt(heap.words, b) = b + Size(b) + 5
           /\ Start <= b /\ b + Size(b) + 5 <= MemEnd
           /\ Word(heap, b + HeaderWords + Size(b)) = b
           /\ heap.words[b + 1] = Size(b)
<1> DEFINE t == heap.index
           w == heap.words
           B == HolesOf(t) \cup DOMAIN held
<1>1. /\ b \in B /\ AreApart(w, B) /\ IndexAgrees(t, w) /\ HeldAgrees(w, held)
  <2>1. Layout(t, w, held)
    BY DEF HoleInv
  <2>2. Holes = HolesOf(t)
    BY DEF Holes, HolesOf
  <2>. QED BY <2>1, <2>2 DEF Layout, Blocks
<1>2. /\ b \in Int /\ w[b + 1] \in Nat /\ EndAt(w, b) = b + w[b + 1] + 5
      /\ FrameOf(w, b) \subseteq Memory /\ Start <= b /\ EndAt(w, b) <= MemEnd
  <2>1. Start <= b /\ EndAt(w, b) <= MemEnd
    BY <1>1 DEF AreApart
  <2>. QED BY <1>1, <2>1, FrameFacts
<1>3. Length(heap, b) = w[b + 1]
  BY <1>2 DEF Length, Word, FrameOf
<1>4. Size(b) = w[b + 1]
  BY <1>1, <1>3 DEF Size, HeldAgrees
<1>5. w[b + HeaderWords + w[b + 1]] = b
  <2>1. CASE b \in HolesOf(t)
    <3>1. PICK n \in Nodes(t) : b = t.nodes[n].header
      BY <2>1 DEF HolesOf
    <3>2. IsHoleAt(w, b, t.nodes[n].value, n)
      BY <1>1, <3>1 DEF IndexAgrees
    <3>. QED BY ONLY <3>2 DEF IsHoleAt
  <2>2. CASE b \in DOMAIN held
    BY <1>1, <2>2 DEF HeldAgrees
  <2>. QED BY <1>1, <2>1, <2>2
<1>6. b + HeaderWords + w[b + 1] \in Memory
  BY <1>2 DEF FrameOf
<1>. QED BY <1>2, <1>3, <1>4, <1>5, <1>6 DEF Word

\* HoleHeapTypeOK for memory of any size, any requests and any bound on the
\* index: no length underflows, and none is more than the heap was given.
THEOREM HoleHeapTypeCorrect == HoleHeapSpec => []HoleHeapTypeOK
<1>1. HoleInv => HoleHeapTypeOK
  <2> SUFFICES ASSUME HoleInv PROVE HoleHeapTypeOK
    OBVIOUS
  <2>1. /\ heap.words \in [Memory -> Int] /\ WellFormed(heap.index)
        /\ EndOf(heap.index) <= MaxSlots /\ DOMAIN held \subseteq Memory
        /\ \A h \in DOMAIN held : held[h] \in Requests
        /\ {astray, halted} \subseteq BOOLEAN
    BY DEF HoleInv
  <2>2. Nodes(heap.index) = 0 .. EndOf(heap.index)
    BY <2>1, Slots
  <2>3. ASSUME ~ astray, NEW n \in Nodes(heap.index)
        PROVE  heap.index.nodes[n].value \in 0 .. InitSize
    <3> DEFINE h == heap.index.nodes[n].header
    <3>1. h \in Blocks
      BY DEF Blocks, Holes
    <3>2. heap.index.nodes[n].value = heap.words[h + 1]
      BY <2>1, <2>3, HeadersDiffer DEF HoleInv
    <3>3. /\ h \in Int /\ Size(h) \in Nat /\ heap.words[h + 1] = Size(h)
          /\ Start <= h /\ h + Size(h) + 5 <= MemEnd
      BY <2>3, <3>1, BlockFacts
    <3>. HIDE DEF h
    <3>4. MemEnd = Start + InitSize + 5 /\ Start \in Nat /\ InitSize \in Nat
      BY MemoryBounds DEF MemEnd, HEADER_SIZE, HeaderWords, FooterWords
    <3>. QED BY <3>2, <3>3, <3>4
  <2>. QED BY <2>1, <2>2, <2>3 DEF HoleHeapTypeOK
<1>. QED BY <1>1, HoleHeapInvariant, PTL

\* HolesAreIndexed for every heap: bin_tree_remove moves nodes from slot to
\* slot and heap_free lengthens holes, and still the index and the memory lead
\* to each other until the heap takes another hole than the one it meant.
THEOREM HolesStayIndexed == HoleHeapSpec => []HolesAreIndexed
<1>1. HoleInv => HolesAreIndexed
  <2> SUFFICES ASSUME HoleInv, ~ astray, NEW n \in Nodes(heap.index)
               PROVE  LET h == heap.index.nodes[n].header
                          footer == h + HeaderWords + heap.index.nodes[n].value
                      IN  /\ IsHole(heap, h)
                          /\ Length(heap, h) = heap.index.nodes[n].value
                          /\ Word(heap, h + 2) = n
                          /\ Word(heap, footer) = h /\ Word(heap, footer + 1) = HEAP_FREE
    BY DEF HolesAreIndexed
  <2> DEFINE h == heap.index.nodes[n].header
             v == heap.index.nodes[n].value
             w == heap.words
  <2>1. Layout(heap.index, w, held)
    BY DEF HoleInv
  <2>2. h \in HolesOf(heap.index) \cup DOMAIN held /\ IsHoleAt(w, h, v, n)
    BY <2>1 DEF HolesOf, Layout, IndexAgrees
  <2>3. FrameOf(w, h) \subseteq Memory
    BY <2>1, <2>2, FrameFacts DEF Layout
  <2>. HIDE DEF h, v, w
  <2>4. /\ h \in Memory /\ h + 1 \in Memory /\ h + 2 \in Memory
        /\ h + HeaderWords + v \in Memory /\ h + HeaderWords + v + 1 \in Memory
    BY <2>2, <2>3 DEF FrameOf, IsHoleAt
  <2>. QED BY <2>2, <2>4 DEF IsHoleAt, IsHole, Length, Word, h, v, w
<1>. QED BY <1>1, HoleHeapInvariant, PTL

\* BlocksAreApart for every heap: splitting, joining and exact fits leave no
\* two blocks or holes that overlap, and no client's words reach a header.
THEOREM BlocksStayApart == HoleHeapSpec => []BlocksAreApart
<1>1. HoleInv => BlocksAreApart
  <2> SUFFICES ASSUME HoleInv, ~ astray PROVE BlocksAreApart
    BY DEF BlocksAreApart
  <2> DEFINE w == heap.words
             B == HolesOf(heap.index) \cup DOMAIN held
  <2>1. HEADER_SIZE = 5
    BY DEF HEADER_SIZE, HeaderWords, FooterWords
  <2>2. ASSUME NEW b \in Blocks
        PROVE  \A a \in Extent(b) : a \in Int /\ b <= a /\ a < EndAt(w, b)
    BY <2>1, BlockFacts DEF Extent
  <2>3. ASSUME NEW b \in Blocks PROVE Extent(b) \subseteq Memory
    BY <2>2, BlockFacts, MemoryBounds
  <2>4. ASSUME NEW b \in Blocks, NEW c \in Blocks, b < c
        PROVE  Extent(b) \cap Extent(c) = {}
    <3>1. EndAt(w, b) <= c
      BY <2>4 DEF HoleInv, Layout, AreApart, Blocks, Holes, HolesOf
    <3>2. c \in Int /\ EndAt(w, b) \in Int
      BY BlockFacts
    <3>. HIDE DEF w
    <3>. QED BY <2>2, <3>1, <3>2
  <2>5. ASSUME NEW b \in Blocks, NEW c \in Blocks, b # c
        PROVE  Extent(b) \cap Extent(c) = {}
    <3>1. b < c \/ c < b
      BY <2>5, BlockFacts
    <3>. QED BY <2>4, <3>1
  <2>. QED BY <2>3, <2>5, BlockFacts DEF BlocksAreApart
<1>. QED BY <1>1, HoleHeapInvariant, PTL

\* FreedJoinsTheHoleBefore for every heap: a freed block becomes one with the
\* hole right in front of it, or with the one whose old footer still stands
\* there, and nothing else about the holes changes.
THEOREM FreedBlocksJoin == HoleHeapSpec => FreedJoinsTheHoleBefore
<1> DEFINE Joins ==
      \A h \in DOMAIN held :
          h \notin DOMAIN held' /\ ~ astray' /\ ~ halted' =>
             LET adjacent == {k \in Holes : k + Size(k) + HEADER_SIZE = h}
                 front == Holes \cap {Before(h)}
             IN  /\ adjacent \subseteq front
                 /\ Holes' = Holes \cup (IF front = {} THEN {h} ELSE {})
                 /\ \A k \in Holes : Length(heap, k)' =
                       Size(k) + IF k \in front THEN Size(h) + HEADER_SIZE ELSE 0
<1>1. HoleInv /\ HoleInv' /\ [HoleHeapNext]_holeVars => [Joins]_holeVars
  <2> SUFFICES ASSUME HoleInv, HoleInv', [HoleHeapNext]_holeVars,
                      NEW h \in DOMAIN held, h \notin DOMAIN held', ~ astray', ~ halted'
               PROVE  LET adjacent == {k \in Holes : k + Size(k) + HEADER_SIZE = h}
                          front == Holes \cap {Before(h)}
                      IN  /\ adjacent \subseteq front
                          /\ Holes' = Holes \cup (IF front = {} THEN {h} ELSE {})
                          /\ \A k \in Holes : Length(heap, k)' =
                                Size(k) + IF k \in front THEN Size(h) + HEADER_SIZE ELSE 0
    OBVIOUS
  <2>1. Free(h)
    <3>1. ASSUME NEW s \in Requests, Alloc(s) PROVE FALSE
      <4>1. DOMAIN held \subseteq DOMAIN held'
        BY <3>1 DEF Alloc
      <4>. QED BY <4>1
    <3>2. ASSUME NEW s \in Requests, AllocFaults(s) PROVE FALSE
      BY <3>2 DEF AllocFaults
    <3>3. ASSUME NEW b \in DOMAIN held, Free(b) PROVE b = h
      BY <3>3 DEF Free
    <3>4. ASSUME NEW b \in DOMAIN held, FreeFaults(b) PROVE FALSE
      BY <3>4 DEF FreeFaults
    <3>5. ASSUME NEW b \in DOMAIN held, Fill(b) PROVE FALSE
      BY <3>5 DEF Fill
    <3>6. CASE UNCHANGED holeVars
      BY <3>6 DEF holeVars
    <3>. QED BY <3>1, <3>2, <3>3, <3>4, <3>5, <3>6 DEF HoleHeapNext
  <2>2. ~ astray /\ Joined(h, heap')
    BY <2>1, FreeSound DEF Free
  <2>3. Holes = HolesOf(heap.index) /\ Holes' = HolesOf(heap'.index)
    BY DEF Holes, HolesOf
  <2>4. Size(h) = held[h] /\ HEADER_SIZE = 5 /\ h \in Int /\ h \in Blocks
    <3>1. Size(h) = held[h] /\ HEADER_SIZE = 5 /\ h \in Blocks
      BY DEF Size, Blocks, HEADER_SIZE, HeaderWords, FooterWords
    <3>. QED BY <2>2, <3>1, BlockFacts
  <2>5. ASSUME NEW k \in Holes, k + Size(k) + HEADER_SIZE = h PROVE k = Before(h)
    <3>1. /\ k \in Int /\ Size(k) \in Nat
          /\ Word(heap, k + HeaderWords + Size(k)) = k
      BY <2>2, BlockFacts DEF Blocks
    <3>2. k + HeaderWords + Size(k) = h - FooterWords
      BY <2>4, <2>5, <3>1 DEF HeaderWords, FooterWords
    <3>. QED BY <3>1, <3>2 DEF Before
  <2>6. ASSUME NEW k \in Holes PROVE heap.words[k + 1] = Size(k)
    BY <2>2, BlockFacts DEF Blocks
  <2>7. ASSUME NEW k \in Holes PROVE Length(heap, k)' = heap'.words[k + 1]
    <3>1. k \in Holes'
      BY <2>2, <2>3 DEF Joined
    <3>2. k \in HolesOf(heap'.index) \cup DOMAIN held'
      BY <2>3, <3>1
    <3>3. AreApart(heap'.words, HolesOf(heap'.index) \cup DOMAIN held')
      BY DEF HoleInv, Layout
    <3>4. k + 1 \in Memory
      <4>1. k + 1 \in FrameOf(heap'.words, k)
        BY DEF FrameOf
      <4>. QED BY <3>2, <3>3, <4>1, FrameFacts
    <3>. QED BY <3>4 DEF Length, Word
  <2>8. /\ Holes' = Holes \cup (IF Holes \cap {Before(h)} = {} THEN {h} ELSE {})
        /\ \A k \in Holes : heap'.words[k + 1] = heap.words[k + 1] +
              IF k \in Holes \cap {Before(h)} THEN Size(h) + HEADER_SIZE ELSE 0
    BY <2>2, <2>3, <2>4 DEF Joined
  <2>. QED BY <2>5, <2>6, <2>7, <2>8
<1>. QED BY <1>1, HoleHeapInvariant, PTL DEF HoleHeapSpec, FreedJoinsTheHoleBefore
=============================================================================
