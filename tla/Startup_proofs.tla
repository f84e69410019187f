--------------------------- MODULE Startup_proofs ---------------------------
(* For any ramdisk, any number of slots and any cards: kmain's calls are a   *)
(* use of the ramdisk, and each card is configured once.                     *)
EXTENDS Startup, Recursion, SequenceTheorems, TLAPS

-----------------------------------------------------------------------------
(* The ramdisk: kmain calls nothing of it but rd_init, rd_find and rd_read   *)

LEMMA StepUsesRamdisk ==
    ASSUME [StartupNext]_startupVars PROVE [RdNext]_rdVars
<1>1. CASE InitRamdisk
  BY <1>1 DEF InitRamdisk, RdNext
<1>2. CASE ScanSlot
  BY <1>2 DEF ScanSlot
<1>3. CASE Wake
  BY <1>3 DEF Wake
<1>4. CASE RdTest
  BY <1>4 DEF RdTest, RdNext
<1>5. CASE TaskingTest
  BY <1>5 DEF TaskingTest
<1>6. ASSUME NEW name \in Names, FindProgram(name) PROVE RdNext
  BY <1>6 DEF FindProgram, RdNext
<1>7. CASE MakeNode \/ MakeNodeFaults
  BY <1>7 DEF MakeNode, MakeNodeFaults
<1>8. CASE LoadProgram \/ LoadProgramFaults
  BY <1>8 DEF LoadProgram, LoadProgramFaults
<1>9. CASE UNCHANGED startupVars
  BY <1>9 DEF startupVars
<1>. QED
  BY <1>1, <1>2, <1>3, <1>4, <1>5, <1>6, <1>7, <1>8, <1>9 DEF StartupNext

\* kmain with its tests implements the ramdisk: it calls rd_init before any
\* other function, and once; whatever holds of every use of the ramdisk holds
\* while the kernel starts.
THEOREM StartupImplementsRamdisk == StartupSpec => RdSpec
<1>1. StartupInit => RdStart
  BY DEF StartupInit
<1>2. [StartupNext]_startupVars => [RdNext]_rdVars
  BY StepUsesRamdisk
<1>. QED BY <1>1, <1>2, PTL DEF StartupSpec, RdSpec

-----------------------------------------------------------------------------
(* The scan: two slots are never asked of the same place *)

LEMMA SlotOfPlace ==
    ASSUME NEW j \in Nat
    PROVE  j = SlotsPerBus * (j \div SlotsPerBus) + (j % SlotsPerBus)
  BY StartupAssumption, SMT DEF StartupAssumption

LEMMA PlacesAreApart ==
    ASSUME NEW i \in Nat, NEW j \in Nat, Answering(i) = Answering(j)
    PROVE  i = j
<1>1. i \div SlotsPerBus = j \div SlotsPerBus /\ i % SlotsPerBus = j % SlotsPerBus
  BY DEF Answering
<1>. QED BY <1>1, SlotOfPlace

Answers(j) == CardAt(Answering(j)) = "rtl8029"

LEMMA AnsweringCards == ASSUME NEW j PROVE Answers(j) <=> Answering(j) \in Cards
  BY DEF Answers, CardAt, Cards

(* Each slot of an RTL8029 that was passed is in devs, and no other is; once. *)
ScanInv == /\ slot \in Nat
           /\ devs \in Seq(Nat)
           /\ \A i \in DOMAIN devs : devs[i] < slot /\ Answers(devs[i])
           /\ \A j \in Scanned : Answers(j) => \E i \in DOMAIN devs : devs[i] = j
           /\ \A i, m \in DOMAIN devs : devs[i] = devs[m] => i = m

LEMMA ScanInit == StartupInit => ScanInv
  BY DEF StartupInit, ScanInv, Scanned

LEMMA ScanUnchanged ==
    ASSUME ScanInv, UNCHANGED <<cards, slot, devs>> PROVE ScanInv'
  BY DEF ScanInv, Scanned, Answers, CardAt

LEMMA ScanSlotKeepsScan == ASSUME ScanInv, ScanSlot PROVE ScanInv'
<1>1. /\ slot' = slot + 1
      /\ slot \in Nat
      /\ devs \in Seq(Nat)
      /\ devs' = IF Answers(slot) THEN Append(devs, slot) ELSE devs
  BY DEF ScanInv, ScanSlot, Answers
<1>2. cards' = cards
  BY DEF ScanSlot
<1>3. Scanned' = Scanned \cup {slot}
  BY <1>1 DEF Scanned
<1>4. CASE ~ Answers(slot)
  <2>1. devs' = devs
    BY <1>1, <1>4
  <2>. QED BY <1>1, <1>2, <1>3, <1>4, <2>1 DEF ScanInv, Answers, CardAt
<1>5. CASE Answers(slot)
  <2>1. devs' = Append(devs, slot)
    BY <1>1, <1>5
  <2>2. /\ devs' \in Seq(Nat)
        /\ DOMAIN devs' = DOMAIN devs \cup {Len(devs) + 1}
        /\ devs'[Len(devs) + 1] = slot
        /\ \A i \in DOMAIN devs : devs'[i] = devs[i]
    BY <1>1, <2>1
  <2>3. \A i \in DOMAIN devs' : devs'[i] < slot' /\ Answers(devs'[i])
    BY <1>1, <1>5, <2>2 DEF ScanInv
  <2>4. \A j \in Scanned' : Answers(j) => \E i \in DOMAIN devs' : devs'[i] = j
    BY <1>3, <2>2 DEF ScanInv
  <2>5. \A i, m \in DOMAIN devs' : devs'[i] = devs'[m] => i = m
    BY <1>1, <2>2 DEF ScanInv
  <2>. QED BY <1>1, <1>2, <2>2, <2>3, <2>4, <2>5 DEF ScanInv, Answers, CardAt
<1>. QED BY <1>4, <1>5

LEMMA ScanStep == ASSUME ScanInv, [StartupNext]_startupVars PROVE ScanInv'
<1>1. ScanSlot \/ UNCHANGED <<cards, slot, devs>>
  BY DEF StartupNext, InitRamdisk, ScanSlot, Wake, RdTest, TaskingTest, FindProgram,
         MakeNode, MakeNodeFaults, LoadProgram, LoadProgramFaults, startupVars,
         kmainVars
<1>. QED BY <1>1, ScanSlotKeepsScan, ScanUnchanged

\* For any number of slots scanned and of slots to a bus: an RTL8029 is
\* configured once, for the slot it answers for, however far the scan goes.
THEOREM EachCardOnce == StartupSpec => []CardsAreConfiguredOnce
<1>1. ScanInv => CardsAreConfiguredOnce
  <2> SUFFICES ASSUME ScanInv PROVE CardsAreConfiguredOnce
    OBVIOUS
  <2>1. \A i \in DOMAIN devs : devs[i] \in Nat
    BY DEF ScanInv
  <2>2. \A i \in DOMAIN devs : Answering(devs[i]) \in Cards
    BY AnsweringCards DEF ScanInv
  <2>3. \A j \in Scanned : Answering(j) \in Cards =>
           \E i \in DOMAIN devs : Answering(devs[i]) = Answering(j)
    BY AnsweringCards DEF ScanInv
  <2>4. \A i, m \in DOMAIN devs : Answering(devs[i]) = Answering(devs[m]) => i = m
    BY <2>1, PlacesAreApart DEF ScanInv
  <2>. QED BY <2>2, <2>3, <2>4 DEF CardsAreConfiguredOnce
<1>. QED BY <1>1, ScanInit, ScanStep, PTL DEF StartupSpec

-----------------------------------------------------------------------------
(* The image of a list of files                                              *)

File == [name : Names, data : Contents]

LEMMA FileFacts ==
    ASSUME NEW given \in FileLists
    PROVE  /\ given \in Seq(File) /\ DOMAIN given = 1 .. Len(given)
           /\ Len(given) \in Nat /\ Len(given) \in 1 .. MaxFiles
           /\ \A i \in 1 .. Len(given) :
                 /\ given[i].name \in Names /\ given[i].name \in Seq(Nat \ {0})
                 /\ Len(given[i].name) \in 0 .. NameSize - 1
                 /\ given[i].data \in Seq(Nat) /\ Len(given[i].data) \in Nat
<1>1. MaxFiles \in Nat /\ NameSize \in Nat
  BY RamdiskAssumption DEF RamdiskAssumption
<1>2. PICK n \in 1 .. MaxFiles : given \in [1 .. n -> File]
  BY DEF FileLists, File
<1>3. n \in Nat /\ given \in Seq(File) /\ Len(given) = n /\ DOMAIN given = 1 .. n
  BY <1>1, <1>2
<1>4. ASSUME NEW i \in 1 .. n
      PROVE  /\ given[i].name \in Names /\ given[i].name \in Seq(Nat \ {0})
             /\ Len(given[i].name) \in 0 .. NameSize - 1
             /\ given[i].data \in Seq(Nat) /\ Len(given[i].data) \in Nat
  <2>1. given[i].name \in Names /\ given[i].data \in Contents
    BY <1>2 DEF File
  <2>2. given[i].name \in Seq(Nat \ {0}) /\ given[i].data \in Seq(Nat)
    BY <2>1, RamdiskAssumption DEF RamdiskAssumption
  <2>3. Len(given[i].name) < NameSize
    BY <2>1, RamdiskAssumption DEF RamdiskAssumption
  <2>4. Len(given[i].name) \in Nat /\ Len(given[i].data) \in Nat
    BY <2>2
  <2>. QED BY <1>1, <2>1, <2>2, <2>3, <2>4
<1>. QED BY <1>2, <1>3, <1>4

\* Each file starts where the one before it ends.
LEMMA StartSteps ==
    ASSUME NEW given \in FileLists
    PROVE  /\ StartOf(given, 0) = 0
           /\ \A k \in 1 .. Len(given) - 1 :
                 StartOf(given, k) = StartOf(given, k - 1) + Len(given[k].data)
           /\ \A k \in 0 .. Len(given) - 1 : StartOf(given, k) \in Nat
<1> DEFINE top == Len(given) - 1
           step == [t \in (1 .. top) \X Nat |-> t[2] + Len(given[t[1]].data)]
           start == CHOOSE g : g = [k \in 0 .. Len(given) - 1 |->
                        IF k = 0 THEN 0 ELSE g[k - 1] + Len(given[k].data)]
<1>1. /\ Len(given) \in Nat /\ Len(given) >= 1 /\ top \in Nat
      /\ \A k \in 1 .. top : Len(given[k].data) \in Nat
  BY FileFacts
<1>2. step \in [(1 .. top) \X Nat -> Nat]
  BY <1>1
<1>3. \A k \in 1 .. top, x \in Nat : step[<<k, x>>] = x + Len(given[k].data)
  OBVIOUS
<1>4. \A k : StartOf(given, k) = start[k]
  BY Zenon DEF StartOf
<1>. HIDE DEF step
<1>5. PICK g \in [0 .. top -> Nat] : SolvesDown(g, top, 0, step)
  BY <1>1, <1>2, DownRecursion
<1>6. ASSUME NEW k \in 1 .. top PROVE g[k] = g[k - 1] + Len(given[k].data)
  <2>1. k - 1 \in 0 .. top
    BY <1>1
  <2>2. g[k - 1] \in Nat
    BY <1>5, <2>1
  <2>. QED BY <1>3, <1>5, <2>2 DEF SolvesDown
<1>7. g = [k \in 0 .. Len(given) - 1 |->
             IF k = 0 THEN 0 ELSE g[k - 1] + Len(given[k].data)]
  <2>1. \A k \in 0 .. top : k # 0 => k \in 1 .. top
    BY <1>1
  <2>. QED BY <1>5, <1>6, <2>1 DEF SolvesDown
<1>8. start = [k \in 0 .. Len(given) - 1 |->
                 IF k = 0 THEN 0 ELSE start[k - 1] + Len(given[k].data)]
  BY <1>7, Zenon
<1>. HIDE DEF start
<1>9. start[0] = 0 /\ \A k \in 1 .. top : start[k] = start[k - 1] + Len(given[k].data)
  BY <1>1, <1>8
<1> DEFINE P == {k \in Nat : k <= top => start[k] \in Nat}
<1>10. 0 \in P
  BY <1>9
<1>11. ASSUME NEW k \in Nat, k \in P PROVE k + 1 \in P
  <2>1. k + 1 <= top => k + 1 \in 1 .. top /\ (k + 1) - 1 = k /\ k <= top
    BY <1>1
  <2>2. k + 1 <= top => start[k + 1] = start[k] + Len(given[k + 1].data)
    BY <1>9, <2>1
  <2>. QED BY <1>1, <1>11, <2>1, <2>2
<1>12. Nat \subseteq P
  <2>. HIDE DEF P
  <2>. QED BY <1>10, <1>11, SetInduction
<1>13. \A k \in 0 .. top : start[k] \in Nat
  BY <1>1, <1>12
<1>. QED BY <1>1, <1>4, <1>9, <1>13

\* The cells of an entry.
LEMMA EntryCells ==
    ASSUME NEW given \in FileLists, NEW i \in 0 .. Len(given) - 1
    PROVE  LET name == given[i + 1].name
               e == Entry(given, i)
           IN  /\ e \in Seq(Int) /\ Len(e) = EntrySize
               /\ \A k \in 1 .. Len(name) : e[k] = name[k]
               /\ e[Len(name) + 1] = 0
               /\ e[NameSize + 1] = StartOf(given, i)
               /\ e[NameSize + 2] = Len(given[i + 1].data)
<1> DEFINE name == given[i + 1].name
           e == Entry(given, i)
<1>1. /\ i + 1 \in 1 .. Len(given) /\ NameSize \in Nat
      /\ name \in Seq(Nat \ {0}) /\ Len(name) \in 0 .. NameSize - 1
      /\ Len(given[i + 1].data) \in Nat /\ StartOf(given, i) \in Nat
  BY FileFacts, StartSteps, RamdiskAssumption DEF RamdiskAssumption
<1>. HIDE DEF name
<1>2. e = [k \in 1 .. EntrySize |->
             CASE k <= Len(name)     -> name[k]
               [] k = Len(name) + 1  -> 0
               [] k = NameSize + 1   -> StartOf(given, i)
               [] k = NameSize + 2   -> Len(given[i + 1].data)
               [] OTHER              -> Junk]
  BY Zenon DEF Entry, name
<1>3. EntrySize \in Nat /\ EntrySize = NameSize + 2
  BY <1>1 DEF EntrySize
<1>. HIDE DEF e
<1>4. \A k \in 1 .. Len(name) : e[k] = name[k] /\ name[k] \in Nat
  BY <1>1, <1>2, <1>3
<1>5. /\ e[Len(name) + 1] = 0
      /\ e[NameSize + 1] = StartOf(given, i)
      /\ e[NameSize + 2] = Len(given[i + 1].data)
  BY <1>1, <1>2, <1>3
<1>6. \A k \in 1 .. EntrySize : e[k] \in Int
  BY <1>1, <1>2, <1>3, <1>4 DEF Junk
<1>7. e \in Seq(Int) /\ Len(e) = EntrySize
  BY <1>2, <1>3, <1>6
<1>. QED BY <1>4, <1>5, <1>7 DEF e, name

\* What Image writes, file by file.
LEMMA ImageSteps ==
    ASSUME NEW given \in FileLists
    PROVE  \E entries, data :
              /\ entries[0] = <<Len(given)>> /\ data[0] = <<>>
              /\ \A i \in 1 .. Len(given) :
                    /\ entries[i] = entries[i - 1] \o Entry(given, i - 1)
                    /\ data[i] = data[i - 1] \o given[i].data
              /\ Image(given) = entries[Len(given)] \o data[Len(given)]
<1> DEFINE n == Len(given)
           X == Seq(Int)
           stepE == [t \in (1 .. n) \X X |-> t[2] \o Entry(given, t[1] - 1)]
           stepD == [t \in (1 .. n) \X X |-> t[2] \o given[t[1]].data]
           entries == CHOOSE g : g = [i \in 0 .. Len(given) |->
                        IF i = 0 THEN <<Len(given)>> ELSE g[i - 1] \o Entry(given, i - 1)]
           data == CHOOSE g : g = [i \in 0 .. Len(given) |->
                        IF i = 0 THEN <<>> ELSE g[i - 1] \o given[i].data]
<1>1. n \in Nat /\ <<n>> \in X /\ <<>> \in X
  BY FileFacts
<1>2. \A i \in 1 .. n : Entry(given, i - 1) \in X
  <2> TAKE i \in 1 .. n
  <2>1. i - 1 \in 0 .. Len(given) - 1
    BY <1>1
  <2>. QED BY <2>1, EntryCells
<1>3. \A i \in 1 .. n : given[i].data \in X
  BY FileFacts
<1>4. stepE \in [(1 .. n) \X X -> X] /\ stepD \in [(1 .. n) \X X -> X]
  <2>1. \A i \in 1 .. n, x \in X : x \o Entry(given, i - 1) \in X
    BY <1>2
  <2>2. \A i \in 1 .. n, x \in X : x \o given[i].data \in X
    BY <1>3
  <2>. HIDE DEF X
  <2>. QED BY <2>1, <2>2
<1>5. \A i \in 1 .. n, x \in X : /\ stepE[<<i, x>>] = x \o Entry(given, i - 1)
                                 /\ stepD[<<i, x>>] = x \o given[i].data
  OBVIOUS
<1>6. Image(given) = entries[n] \o data[n]
  BY Zenon DEF Image
<1>. HIDE DEF stepE, stepD, X
<1>7. PICK g \in [0 .. n -> X] : SolvesDown(g, n, <<n>>, stepE)
  BY <1>1, <1>4, DownRecursion
<1>8. PICK h \in [0 .. n -> X] : SolvesDown(h, n, <<>>, stepD)
  BY <1>1, <1>4, DownRecursion
<1>9. \A i \in 1 .. n : i - 1 \in 0 .. n
  BY <1>1
<1>10. \A i \in 1 .. n : g[i] = g[i - 1] \o Entry(given, i - 1)
  <2> TAKE i \in 1 .. n
  <2>1. g[i - 1] \in X
    BY <1>7, <1>9
  <2>. QED BY <1>5, <1>7, <2>1 DEF SolvesDown
<1>11. \A i \in 1 .. n : h[i] = h[i - 1] \o given[i].data
  <2> TAKE i \in 1 .. n
  <2>1. h[i - 1] \in X
    BY <1>8, <1>9
  <2>. QED BY <1>5, <1>8, <2>1 DEF SolvesDown
<1>12. \A i \in 0 .. n : i # 0 => i \in 1 .. n
  BY <1>1
<1>13. g = [i \in 0 .. Len(given) |->
              IF i = 0 THEN <<Len(given)>> ELSE g[i - 1] \o Entry(given, i - 1)]
  BY <1>7, <1>10, <1>12 DEF SolvesDown
<1>14. h = [i \in 0 .. Len(given) |-> IF i = 0 THEN <<>> ELSE h[i - 1] \o given[i].data]
  BY <1>8, <1>11, <1>12 DEF SolvesDown
<1>15. entries = [i \in 0 .. Len(given) |->
                    IF i = 0 THEN <<Len(given)>>
                    ELSE entries[i - 1] \o Entry(given, i - 1)]
  BY <1>13, Zenon
<1>16. data = [i \in 0 .. Len(given) |->
                 IF i = 0 THEN <<>> ELSE data[i - 1] \o given[i].data]
  BY <1>14, Zenon
<1>. HIDE DEF entries, data
<1>17. entries[0] = <<Len(given)>> /\ data[0] = <<>>
  BY <1>1, <1>15, <1>16
<1>18. \A i \in 1 .. n : i \in 0 .. Len(given) /\ i # 0
  BY <1>1
<1>19. \A i \in 1 .. n : entries[i] = entries[i - 1] \o Entry(given, i - 1)
  BY <1>15, <1>18
<1>20. \A i \in 1 .. n : data[i] = data[i - 1] \o given[i].data
  BY <1>16, <1>18
<1>. QED BY <1>6, <1>17, <1>19, <1>20

LEMMA TwoParts ==
    ASSUME NEW s \in Seq(Int), NEW t \in Seq(Int)
    PROVE  /\ s \o t \in Seq(Int) /\ Len(s \o t) = Len(s) + Len(t)
           /\ Len(s) \in Nat /\ Len(t) \in Nat
           /\ \A c \in 1 .. Len(s) : (s \o t)[c] = s[c]
           /\ \A k \in 1 .. Len(t) : (s \o t)[Len(s) + k] = t[k]
<1>1. /\ s \o t \in Seq(Int) /\ Len(s \o t) = Len(s) + Len(t)
      /\ \A c \in 1 .. Len(s) + Len(t) :
            (s \o t)[c] = IF c <= Len(s) THEN s[c] ELSE t[c - Len(s)]
  BY ConcatProperties
<1>2. Len(s) \in Nat /\ Len(t) \in Nat
  BY LenProperties
<1>3. \A c \in 1 .. Len(s) : c \in 1 .. Len(s) + Len(t) /\ c <= Len(s)
  BY <1>2
<1>4. \A k \in 1 .. Len(t) : /\ Len(s) + k \in 1 .. Len(s) + Len(t)
                             /\ ~ Len(s) + k <= Len(s)
                             /\ (Len(s) + k) - Len(s) = k
  BY <1>2
<1>5. \A c \in 1 .. Len(s) : (s \o t)[c] = s[c]
  BY <1>1, <1>3
<1>6. \A k \in 1 .. Len(t) : (s \o t)[Len(s) + k] = t[k]
  BY <1>1, <1>4
<1>. QED BY <1>1, <1>2, <1>5, <1>6

\* g[i] is g[0] with the first i of the n parts behind it.
Joins(g, part, n) ==
    /\ n \in Nat
    /\ g[0] \in Seq(Int)
    /\ \A i \in 1 .. n : part[i] \in Seq(Int) /\ g[i] = g[i - 1] \o part[i]

\* Each of the first i parts is where those before it end, for all its length.
Joined(g, part, i) ==
    /\ \A j \in 0 .. i : g[j] \in Seq(Int) /\ Len(g[j]) \in Nat
    /\ \A j \in 1 .. i : Len(g[j]) = Len(g[j - 1]) + Len(part[j])
    /\ \A c \in 1 .. Len(g[0]) : c <= Len(g[i]) /\ g[i][c] = g[0][c]
    /\ \A j \in 1 .. i : \A k \in 1 .. Len(part[j]) :
          /\ Len(g[j - 1]) + k <= Len(g[i])
          /\ g[i][Len(g[j - 1]) + k] = part[j][k]

LEMMA JoinOneMore ==
    ASSUME NEW g, NEW part, NEW i \in Nat, Joined(g, part, i),
           part[i + 1] \in Seq(Int), g[i + 1] = g[i] \o part[i + 1]
    PROVE  Joined(g, part, i + 1)
<1> DEFINE s == g[i]
           t == part[i + 1]
           st == g[i + 1]
<1>1. s \in Seq(Int)
  <2>1. i \in 0 .. i
    OBVIOUS
  <2>. QED BY <2>1 DEF Joined
<1>2. t \in Seq(Int) /\ st = s \o t
  OBVIOUS
<1>3. /\ st \in Seq(Int) /\ Len(st) = Len(s) + Len(t) /\ Len(st) \in Nat
      /\ Len(s) \in Nat /\ Len(t) \in Nat
      /\ \A c \in 1 .. Len(s) : st[c] = s[c] /\ c <= Len(st)
      /\ \A k \in 1 .. Len(t) : st[Len(s) + k] = t[k] /\ Len(s) + k <= Len(st)
  <2>. HIDE DEF s, t, st
  <2>1. /\ st \in Seq(Int) /\ Len(st) = Len(s) + Len(t)
        /\ Len(s) \in Nat /\ Len(t) \in Nat
        /\ \A c \in 1 .. Len(s) : st[c] = s[c]
        /\ \A k \in 1 .. Len(t) : st[Len(s) + k] = t[k]
    BY <1>1, <1>2, TwoParts
  <2>. QED BY <2>1
<1>4. \A j \in 0 .. i + 1 : j \in 0 .. i \/ j = i + 1
  OBVIOUS
<1>5. \A j \in 1 .. i + 1 : j \in 1 .. i \/ (j = i + 1 /\ j - 1 = i)
  OBVIOUS
<1>6. \A j \in 0 .. i + 1 : g[j] \in Seq(Int) /\ Len(g[j]) \in Nat
  BY <1>3, <1>4 DEF Joined
<1>7. \A j \in 1 .. i + 1 : Len(g[j]) = Len(g[j - 1]) + Len(part[j])
  BY <1>3, <1>5 DEF Joined
<1>8. ASSUME NEW c \in 1 .. Len(g[0]) PROVE c <= Len(st) /\ st[c] = g[0][c]
  <2>1. c \in Nat /\ c >= 1 /\ c <= Len(s) /\ s[c] = g[0][c]
    <3>1. 0 \in 0 .. i
      OBVIOUS
    <3>. QED BY <3>1 DEF Joined
  <2>. HIDE DEF s, t, st
  <2>. QED BY <1>3, <2>1
<1>9. ASSUME NEW j \in 1 .. i + 1, NEW k \in 1 .. Len(part[j])
      PROVE  Len(g[j - 1]) + k <= Len(st) /\ st[Len(g[j - 1]) + k] = part[j][k]
  <2>1. CASE j \in 1 .. i
    <3> DEFINE c == Len(g[j - 1]) + k
    <3>1. c <= Len(s) /\ s[c] = part[j][k]
      BY <2>1 DEF Joined
    <3>2. Len(g[j - 1]) \in Nat /\ Len(part[j]) \in Nat
      <4>1. j - 1 \in 0 .. i /\ j \in 0 .. i
        BY <2>1
      <4>2. Len(g[j - 1]) \in Nat /\ Len(g[j]) \in Nat
        BY <4>1 DEF Joined
      <4>3. Len(g[j]) = Len(g[j - 1]) + Len(part[j])
        BY <2>1 DEF Joined
      <4>. QED BY <4>2
    <3>3. c \in Nat /\ c >= 1
      BY <3>2
    <3>. HIDE DEF s, t, st, c
    <3>4. c \in 1 .. Len(s)
      BY <1>3, <3>1, <3>3
    <3>. QED BY <1>3, <3>1, <3>4 DEF c
  <2>2. CASE j = i + 1 /\ j - 1 = i
    <3>1. Len(g[j - 1]) = Len(s) /\ part[j] = t
      BY <2>2
    <3>. HIDE DEF s, t, st
    <3>. QED BY <1>3, <3>1
  <2>. QED BY <1>5, <2>1, <2>2
<1>. QED BY <1>6, <1>7, <1>8, <1>9 DEF Joined

LEMMA JoinedParts ==
    ASSUME NEW g, NEW part, NEW n, Joins(g, part, n) PROVE Joined(g, part, n)
<1> DEFINE P == {i \in Nat : i <= n => Joined(g, part, i)}
<1>1. n \in Nat /\ g[0] \in Seq(Int)
  BY DEF Joins
<1>2. 0 \in P
  <2>1. Len(g[0]) \in Nat
    BY <1>1
  <2>2. \A c \in 1 .. Len(g[0]) : c <= Len(g[0])
    BY <2>1
  <2>3. 0 .. 0 = {0} /\ 1 .. 0 = {}
    OBVIOUS
  <2>. QED BY <1>1, <2>1, <2>2, <2>3 DEF Joined
<1>3. ASSUME NEW i \in Nat, i \in P PROVE i + 1 \in P
  <2>1. i + 1 <= n => i <= n /\ i + 1 \in 1 .. n /\ (i + 1) - 1 = i
    BY <1>1
  <2>2. i + 1 <= n => /\ Joined(g, part, i)
                      /\ part[i + 1] \in Seq(Int) /\ g[i + 1] = g[i] \o part[i + 1]
    BY <1>3, <2>1 DEF Joins
  <2>3. i + 1 <= n => Joined(g, part, i + 1)
    BY <2>2, JoinOneMore
  <2>. QED BY <2>3
<1>4. Nat \subseteq P
  <2>. HIDE DEF P
  <2>. QED BY <1>2, <1>3, SetInduction
<1>. QED BY <1>1, <1>4

LEMMA EntryPlaces ==
    /\ EntrySize \in Nat /\ EntrySize = NameSize + 2 /\ NameSize \in Nat
    /\ EntryAt(0) = 1
    /\ \A i \in Nat : /\ EntryAt(i) \in Nat /\ EntryAt(i) >= 1
                      /\ EntryAt(i + 1) = EntryAt(i) + EntrySize
<1>1. NameSize \in Nat
  BY RamdiskAssumption DEF RamdiskAssumption
<1>2. EntrySize \in Nat /\ EntrySize = NameSize + 2
  BY <1>1 DEF EntrySize
<1>3. \A i \in Nat : /\ i * EntrySize \in Nat
                     /\ (i + 1) * EntrySize = i * EntrySize + EntrySize
  BY <1>2
<1>4. 0 * EntrySize = 0
  BY <1>2
<1>. QED BY <1>1, <1>2, <1>3, <1>4 DEF EntryAt

\* The entries of an image are one behind the other, and so are the data.
LEMMA ImageCells ==
    ASSUME NEW given \in FileLists
    PROVE  LET n == Len(given)
               image == Image(given)
           IN  /\ image \in Seq(Int) /\ image[1] = n
               /\ Len(image) = EntryAt(n) + StartOf(given, n - 1) + Len(given[n].data)
               /\ \A i \in 0 .. n - 1, k \in 1 .. EntrySize :
                     /\ EntryAt(i) + k <= EntryAt(n)
                     /\ image[EntryAt(i) + k] = Entry(given, i)[k]
               /\ \A i \in 0 .. n - 1 : \A k \in 1 .. Len(given[i + 1].data) :
                     /\ EntryAt(n) + StartOf(given, i) + k <= Len(image)
                     /\ image[EntryAt(n) + StartOf(given, i) + k] = given[i + 1].data[k]
<1> DEFINE n == Len(given)
           image == Image(given)
           partE == [i \in 1 .. n |-> Entry(given, i - 1)]
           partD == [i \in 1 .. n |-> given[i].data]
<1>1. PICK E, D :
         /\ E[0] = <<n>> /\ D[0] = <<>>
         /\ \A i \in 1 .. n : /\ E[i] = E[i - 1] \o Entry(given, i - 1)
                              /\ D[i] = D[i - 1] \o given[i].data
         /\ image = E[n] \o D[n]
  BY ImageSteps
<1>2. /\ n \in Nat /\ n >= 1
      /\ \A i \in 0 .. n - 1 : i + 1 \in 1 .. n /\ (i + 1) - 1 = i /\ i \in Nat
      /\ \A i \in 1 .. n : i - 1 \in 0 .. n - 1
  BY FileFacts
<1>3. \A i \in 0 .. n - 1 : /\ Entry(given, i) \in Seq(Int)
                            /\ Len(Entry(given, i)) = EntrySize
  BY EntryCells
<1>4. \A i \in 1 .. n : /\ given[i].data \in Seq(Nat) /\ given[i].data \in Seq(Int)
                        /\ Len(given[i].data) \in Nat
  BY FileFacts
<1>5. /\ \A i \in 1 .. n : partE[i] = Entry(given, i - 1)
      /\ \A i \in 0 .. n - 1 : partE[i + 1] = Entry(given, i)
      /\ \A i \in 1 .. n : partD[i] = given[i].data
  BY <1>2
<1>. HIDE DEF n, image, partE, partD
<1>6. Joined(E, partE, n)
  <2>1. \A i \in 1 .. n : partE[i] \in Seq(Int) /\ E[i] = E[i - 1] \o partE[i]
    BY <1>1, <1>2, <1>3, <1>5
  <2>2. E[0] \in Seq(Int)
    BY <1>1, <1>2
  <2>3. Joins(E, partE, n)
    BY <1>2, <2>1, <2>2 DEF Joins
  <2>. QED BY <2>3, JoinedParts
<1>7. Joined(D, partD, n)
  <2>1. \A i \in 1 .. n : partD[i] \in Seq(Int) /\ D[i] = D[i - 1] \o partD[i]
    BY <1>1, <1>4, <1>5
  <2>2. D[0] \in Seq(Int)
    BY <1>1
  <2>3. Joins(D, partD, n)
    BY <1>2, <2>1, <2>2 DEF Joins
  <2>. QED BY <2>3, JoinedParts
<1>8. \A i \in 0 .. n : Len(E[i]) = EntryAt(i)
  <2> DEFINE P == {i \in Nat : i <= n => Len(E[i]) = EntryAt(i)}
  <2>1. 0 \in P
    BY <1>1, EntryPlaces
  <2>2. ASSUME NEW i \in Nat, i \in P PROVE i + 1 \in P
    <3>1. i + 1 <= n => i \in 0 .. n - 1 /\ i + 1 \in 1 .. n /\ (i + 1) - 1 = i
      BY <1>2
    <3>2. i + 1 <= n => Len(E[i + 1]) = Len(E[i]) + Len(partE[i + 1])
      BY <1>6, <3>1 DEF Joined
    <3>3. i + 1 <= n => Len(partE[i + 1]) = EntrySize
      BY <1>3, <1>5, <3>1
    <3>4. EntryAt(i + 1) = EntryAt(i) + EntrySize
      BY EntryPlaces
    <3>5. i + 1 <= n => Len(E[i]) = EntryAt(i)
      BY <1>2, <2>2
    <3>6. i + 1 <= n => Len(E[i + 1]) = EntryAt(i + 1)
      BY <3>2, <3>3, <3>4, <3>5
    <3>. QED BY <3>6
  <2>3. Nat \subseteq P
    <3>. HIDE DEF P
    <3>. QED BY <2>1, <2>2, SetInduction
  <2>. QED BY <1>2, <2>3
<1>9. \A i \in 0 .. n - 1 : Len(D[i]) = StartOf(given, i) /\ StartOf(given, i) \in Nat
  <2> DEFINE P == {i \in Nat : i < n => Len(D[i]) = StartOf(given, i)}
  <2>1. 0 \in P
    BY <1>1, StartSteps
  <2>2. ASSUME NEW i \in Nat, i \in P PROVE i + 1 \in P
    <3>1. i + 1 < n => /\ i + 1 \in 1 .. n - 1 /\ i + 1 \in 1 .. n
                       /\ (i + 1) - 1 = i /\ i < n
      BY <1>2
    <3>2. i + 1 < n => Len(D[i + 1]) = Len(D[i]) + Len(given[i + 1].data)
      BY <1>5, <1>7, <3>1 DEF Joined
    <3>3. i + 1 < n => StartOf(given, i + 1) = StartOf(given, i) + Len(given[i + 1].data)
      BY <3>1, StartSteps DEF n
    <3>4. i + 1 < n => Len(D[i]) = StartOf(given, i)
      BY <2>2, <3>1
    <3>5. i + 1 < n => Len(D[i + 1]) = StartOf(given, i + 1)
      BY <3>2, <3>3, <3>4
    <3>. QED BY <3>5
  <2>3. Nat \subseteq P
    <3>. HIDE DEF P
    <3>. QED BY <2>1, <2>2, SetInduction
  <2>4. \A i \in 0 .. n - 1 : StartOf(given, i) \in Nat
    BY StartSteps DEF n
  <2>. QED BY <1>2, <2>3, <2>4
<1> DEFINE s == E[n]
           d == D[n]
<1>10. n \in 0 .. n /\ n \in 1 .. n /\ n - 1 \in 0 .. n - 1 /\ EntryAt(n) \in Nat
  BY <1>2, EntryPlaces
<1>11. s \in Seq(Int) /\ d \in Seq(Int) /\ image = s \o d /\ Len(s) = EntryAt(n)
  BY <1>1, <1>6, <1>7, <1>8, <1>10 DEF Joined
<1>12. s[1] = n /\ 1 <= EntryAt(n)
  <2>1. 1 \in 1 .. Len(E[0]) /\ E[0][1] = n
    BY <1>1, <1>2
  <2>. QED BY <1>2, <1>6, <2>1, EntryPlaces DEF Joined
<1>13. Len(d) = StartOf(given, n - 1) + Len(given[n].data)
  BY <1>5, <1>7, <1>9, <1>10 DEF Joined
<1>14. ASSUME NEW i \in 0 .. n - 1, NEW k \in 1 .. EntrySize
       PROVE  /\ EntryAt(i) + k \in 1 .. EntryAt(n)
              /\ s[EntryAt(i) + k] = Entry(given, i)[k]
  <2>1. i + 1 \in 1 .. n /\ (i + 1) - 1 = i /\ i \in 0 .. n
    BY <1>2
  <2>2. Len(E[i]) = EntryAt(i) /\ EntryAt(i) \in Nat
    <3>1. i \in Nat
      BY <1>2
    <3>. QED BY <1>8, <2>1, <3>1, EntryPlaces
  <2>3. partE[i + 1] = Entry(given, i) /\ k \in 1 .. Len(partE[i + 1])
    BY <1>3, <1>5
  <2>4. /\ Len(E[i]) + k <= Len(E[n])
        /\ E[n][Len(E[i]) + k] = partE[i + 1][k]
    BY <1>6, <2>1, <2>3 DEF Joined
  <2>5. EntryAt(i) + k <= EntryAt(n) /\ s[EntryAt(i) + k] = Entry(given, i)[k]
    BY <1>11, <2>2, <2>3, <2>4
  <2>6. k \in Nat /\ k >= 1
    BY EntryPlaces
  <2>. QED BY <1>10, <2>2, <2>5, <2>6
<1>15. ASSUME NEW i \in 0 .. n - 1, NEW k \in 1 .. Len(given[i + 1].data)
       PROVE  /\ StartOf(given, i) + k \in 1 .. Len(d)
              /\ d[StartOf(given, i) + k] = given[i + 1].data[k]
  <2>1. i + 1 \in 1 .. n /\ (i + 1) - 1 = i
    BY <1>2
  <2>2. Len(D[i]) = StartOf(given, i) /\ StartOf(given, i) \in Nat
    BY <1>9
  <2>3. partD[i + 1] = given[i + 1].data
    BY <1>5, <2>1
  <2>4. /\ Len(D[i]) + k <= Len(D[n])
        /\ D[n][Len(D[i]) + k] = partD[i + 1][k]
    BY <1>7, <2>1, <2>3 DEF Joined
  <2>. QED BY <1>4, <2>1, <2>2, <2>3, <2>4
<1>. HIDE DEF s, d
<1>16. /\ image \in Seq(Int) /\ Len(image) = EntryAt(n) + Len(d) /\ Len(d) \in Nat
       /\ \A c \in 1 .. EntryAt(n) : image[c] = s[c]
       /\ \A k \in 1 .. Len(d) : image[EntryAt(n) + k] = d[k]
  <2>1. /\ s \o d \in Seq(Int) /\ Len(s \o d) = Len(s) + Len(d) /\ Len(d) \in Nat
        /\ \A c \in 1 .. Len(s) : (s \o d)[c] = s[c]
        /\ \A k \in 1 .. Len(d) : (s \o d)[Len(s) + k] = d[k]
    BY <1>11, TwoParts
  <2>. QED BY <1>11, <2>1
<1>17. image[1] = n
  BY <1>10, <1>12, <1>16
<1>18. Len(image) = EntryAt(n) + StartOf(given, n - 1) + Len(given[n].data)
  BY <1>4, <1>9, <1>10, <1>13, <1>16
<1>19. ASSUME NEW i \in 0 .. n - 1, NEW k \in 1 .. EntrySize
       PROVE  /\ EntryAt(i) + k <= EntryAt(n)
              /\ image[EntryAt(i) + k] = Entry(given, i)[k]
  <2>1. EntryAt(i) + k \in 1 .. EntryAt(n) /\ s[EntryAt(i) + k] = Entry(given, i)[k]
    BY <1>14
  <2>. QED BY <1>10, <1>16, <2>1
<1>20. ASSUME NEW i \in 0 .. n - 1, NEW k \in 1 .. Len(given[i + 1].data)
       PROVE  /\ EntryAt(n) + StartOf(given, i) + k <= Len(image)
              /\ image[EntryAt(n) + StartOf(given, i) + k] = given[i + 1].data[k]
  <2>1. EntryAt(n) + (StartOf(given, i) + k) = EntryAt(n) + StartOf(given, i) + k
    BY <1>9, <1>10
  <2>2. /\ StartOf(given, i) + k \in 1 .. Len(d)
        /\ d[StartOf(given, i) + k] = given[i + 1].data[k]
    BY <1>15
  <2> DEFINE c == StartOf(given, i) + k
  <2>3. c \in 1 .. Len(d) /\ image[EntryAt(n) + c] = given[i + 1].data[k]
    BY <1>16, <2>2
  <2>4. EntryAt(n) + c <= Len(image)
    <3>. HIDE DEF c
    <3>. QED BY <1>10, <1>16, <2>3
  <2>. QED BY <2>1, <2>3, <2>4
<1>. QED BY <1>16, <1>17, <1>18, <1>19, <1>20 DEF n, image

-----------------------------------------------------------------------------
(* The ramdisk in use                                                        *)

\* What rd_init has set the globals to.
Ready == [num_files |-> Len(files), data |-> EntryAt(Len(files))]

RdInv ==
    /\ files \in FileLists
    /\ \A i, j \in DOMAIN files : files[i].name = files[j].name => i = j
    /\ ram = LoadedImage(files)
    /\ disk = Unset \/ disk = Ready
    /\ answer.op \in {"none", "find", "read", "fault"}
    /\ answer.op # "none" => disk = Ready
    /\ answer.op = "find" => answer.entry = NULL \/ answer.entry \in Nat

LEMMA RdReady ==
    ASSUME RdInv
    PROVE  /\ Ready # Unset
           /\ Ready.num_files = Len(files) /\ Ready.data = EntryAt(Len(files))
           /\ Byte(0) = Len(files)
<1>1. Len(files) \in Nat /\ files \in FileLists
  BY FileFacts DEF RdInv
<1>2. Ready.num_files = Len(files) /\ Ready.data = EntryAt(Len(files))
  BY DEF Ready
<1>3. Ready # Unset
  <2>1. Unset.num_files = -1
    BY DEF Unset, NULL
  <2>. QED BY <1>1, <1>2, <2>1
<1>4. Loaded \in Nat /\ 0 \in 0 .. Loaded - 1
  BY RamdiskAssumption DEF RamdiskAssumption
<1>5. 0 < Len(Image(files)) /\ Image(files)[0 + 1] = Len(files)
  <2>1. /\ Image(files)[1] = Len(files)
        /\ Len(Image(files)) = EntryAt(Len(files)) + StartOf(files, Len(files) - 1)
                                 + Len(files[Len(files)].data)
    BY <1>1, ImageCells
  <2>2. Len(files) \in 1 .. Len(files) /\ Len(files) - 1 \in 0 .. Len(files) - 1
    BY <1>1, FileFacts
  <2>3. Len(files[Len(files)].data) \in Nat /\ StartOf(files, Len(files) - 1) \in Nat
    BY <1>1, <2>2, FileFacts, StartSteps
  <2>4. EntryAt(Len(files)) \in Nat /\ EntryAt(Len(files)) >= 1
    BY <1>1, EntryPlaces
  <2>. QED BY <2>1, <2>3, <2>4
<1>6. Byte(0) = Len(files)
  BY <1>4, <1>5 DEF Byte, RdInv, LoadedImage
<1>. QED BY <1>2, <1>3, <1>6

LEMMA RdAtStart == RdStart => RdInv
  BY DEF RdStart, RdInv, Nothing

\* A search answers that there is no entry, or an entry.
LEMMA FindAnswersAnEntry ==
    ASSUME RdInv, NEW name \in Names, Find(name)
    PROVE  answer'.entry = NULL \/ answer'.entry \in Nat
<1> DEFINE matching == {i \in Searched : NameMatches(i, name)}
           first == CHOOSE i \in matching : \A j \in matching : i <= j
<1>1. /\ disk # Unset
      /\ answer' = [op |-> "find", name |-> name,
                    entry |-> IF matching = {} THEN NULL ELSE first]
  BY DEF Find
<1>2. matching \in SUBSET Nat
  <2>1. disk = Ready /\ Len(files) \in Nat
    BY <1>1, FileFacts DEF RdInv
  <2>. QED BY <2>1, RdReady DEF Searched
<1>. HIDE DEF matching
<1>3. matching # {} => first \in matching
  <2>1. matching # {} => \E i \in matching : \A j \in matching : i <= j
    BY <1>2, LeastElement
  <2>. QED BY <2>1
<1>. QED BY <1>1, <1>2, <1>3

LEMMA RdKept == ASSUME RdInv, [RdNext]_rdVars PROVE RdInv'
<1>1. CASE RdInit
  <2>1. answer.op = "none" /\ answer' = answer
    BY <1>1, RdReady DEF RdInit, RdInv
  <2>. QED BY <1>1, <2>1, RdReady DEF RdInit, RdInv, Ready
<1>2. ASSUME NEW name \in Names, Find(name) PROVE RdInv'
  <2>1. /\ UNCHANGED <<files, ram, disk>> /\ disk # Unset /\ answer'.op = "find"
    BY <1>2 DEF Find
  <2>2. answer'.entry = NULL \/ answer'.entry \in Nat
    BY <1>2, FindAnswersAnEntry
  <2>. QED BY <2>1, <2>2 DEF RdInv, Ready
<1>3. ASSUME NEW offset, NEW size, Read(offset, size) PROVE RdInv'
  <2>1. /\ answer.op = "find" /\ answer'.op = "read"
        /\ UNCHANGED <<files, ram, disk>>
    BY <1>3 DEF Read, Reads
  <2>. QED BY <2>1 DEF RdInv, Ready
<1>4. ASSUME NEW offset, NEW size, ReadFaults(offset, size) PROVE RdInv'
  <2>1. /\ answer.op = "find" /\ answer'.op = "fault"
        /\ UNCHANGED <<files, ram, disk>>
    BY <1>4 DEF ReadFaults, Reads
  <2>. QED BY <2>1 DEF RdInv, Ready
<1>5. CASE UNCHANGED rdVars
  BY <1>5 DEF rdVars, RdInv, Ready
<1>. QED BY <1>1, <1>2, <1>3, <1>4, <1>5 DEF RdNext

THEOREM RamdiskInvariant == RdSpec => []RdInv
<1>. QED BY RdAtStart, RdKept, PTL DEF RdSpec

\* For any files: the functions see as many as rdgen wrote, and find the data
\* behind their entries.
THEOREM RamdiskTypeCorrect == RdSpec => []RamdiskTypeOK
<1>1. ASSUME RdInv PROVE RamdiskTypeOK
  <2>1. DOMAIN ram = 0 .. Loaded - 1
    BY <1>1 DEF RdInv, LoadedImage
  <2>2. /\ Len(Image(files)) = EntryAt(Len(files)) + StartOf(files, Len(files) - 1)
                                 + Len(files[Len(files)].data)
        /\ files \in FileLists
    BY <1>1, ImageCells DEF RdInv
  <2>3. Len(files) \in 1 .. Len(files) /\ Len(files) - 1 \in 0 .. Len(files) - 1
    BY <2>2, FileFacts
  <2>4. /\ Len(files[Len(files)].data) \in Nat /\ StartOf(files, Len(files) - 1) \in Nat
        /\ EntryAt(Len(files)) \in Nat
    BY <2>2, <2>3, FileFacts, StartSteps, EntryPlaces
  <2>5. disk = Unset \/ (disk.num_files = Len(files) /\ disk.data = EntryAt(Len(files)))
    BY <1>1, RdReady DEF RdInv
  <2>6. EntryAt(Len(files)) = Len(Image(files)) - StartOf(files, Len(files) - 1)
                                - Len(files[Len(files)].data)
    BY <2>2, <2>4
  <2>. QED BY <1>1, <2>1, <2>5, <2>6 DEF RamdiskTypeOK, RdInv
<1>. QED BY <1>1, RamdiskInvariant, PTL

-----------------------------------------------------------------------------
(* What rd_find and rd_read answer.  The sector that stage 2 loads has room  *)
(* for 21 entries: a file whose entry lies beyond it would not be found.     *)

EntriesAreLoaded == EntryAt(MaxFiles) <= Loaded

LEMMA LoadedCells ==
    ASSUME RdInv, EntriesAreLoaded
    PROVE  LET n == Len(files)
           IN  /\ \A i \in 0 .. n - 1, k \in 1 .. EntrySize :
                     Byte(EntryAt(i) + k - 1) = Entry(files, i)[k]
               /\ \A i \in 0 .. n - 1 : \A k \in 1 .. Len(files[i + 1].data) :
                     EntryAt(n) + StartOf(files, i) + k <= Loaded =>
                        Byte(EntryAt(n) + StartOf(files, i) + k - 1)
                          = files[i + 1].data[k]
               /\ \A c \in Nat : Byte(c) # Junk =>
                     c + 1 <= Len(Image(files)) /\ Byte(c) = Image(files)[c + 1]
<1> DEFINE n == Len(files)
           image == Image(files)
<1>1. /\ n \in Nat /\ n \in 1 .. MaxFiles /\ files \in FileLists
      /\ Loaded \in Nat /\ MaxFiles \in Nat
  BY FileFacts, RamdiskAssumption DEF RdInv, RamdiskAssumption
<1>2. /\ image \in Seq(Int) /\ Len(image) \in Nat
      /\ Len(image) = EntryAt(n) + StartOf(files, n - 1) + Len(files[n].data)
      /\ \A i \in 0 .. n - 1, k \in 1 .. EntrySize :
            /\ EntryAt(i) + k <= EntryAt(n)
            /\ image[EntryAt(i) + k] = Entry(files, i)[k]
      /\ \A i \in 0 .. n - 1 : \A k \in 1 .. Len(files[i + 1].data) :
            /\ EntryAt(n) + StartOf(files, i) + k <= Len(image)
            /\ image[EntryAt(n) + StartOf(files, i) + k] = files[i + 1].data[k]
  BY <1>1, ImageCells, LenProperties
<1>3. EntryAt(n) <= Loaded /\ EntryAt(n) <= Len(image) /\ EntryAt(n) \in Nat
  <2>0. MaxFiles - n \in Nat /\ EntrySize \in Nat /\ \A a, b \in Nat : a * b >= 0
    BY <1>1, EntryPlaces
  <2>1. (MaxFiles - n) * EntrySize >= 0
    BY <2>0
  <2>2. MaxFiles * EntrySize = n * EntrySize + (MaxFiles - n) * EntrySize
    BY <1>1, EntryPlaces
  <2>3. /\ n * EntrySize \in Nat /\ (MaxFiles - n) * EntrySize \in Int
        /\ EntryAt(n) = 1 + n * EntrySize
    BY <1>1, EntryPlaces DEF EntryAt
  <2>4. EntryAt(n) <= EntryAt(MaxFiles)
    BY <2>1, <2>2, <2>3 DEF EntryAt
  <2>5. n \in 1 .. n /\ n - 1 \in 0 .. n - 1
    BY <1>1
  <2>6. StartOf(files, n - 1) \in Nat /\ Len(files[n].data) \in Nat
    BY <1>1, <2>5, FileFacts, StartSteps
  <2>. HIDE DEF n
  <2>7. EntryAt(n) \in Nat /\ EntryAt(MaxFiles) \in Nat
    BY <1>1, EntryPlaces
  <2>. QED BY <1>1, <1>2, <2>4, <2>6, <2>7 DEF EntriesAreLoaded
<1>. HIDE DEF n, image
<1>4. \A c \in Nat : Byte(c) = IF c < Loaded /\ c < Len(image) THEN image[c + 1] ELSE Junk
  <2>1. ram = [c \in 0 .. Loaded - 1 |->
                 IF c < Len(image) THEN image[c + 1] ELSE Junk]
    BY DEF RdInv, LoadedImage, image
  <2>2. \A c \in Nat : c \in 0 .. Loaded - 1 <=> c < Loaded
    BY <1>1
  <2>. QED BY <2>1, <2>2 DEF Byte
<1>5. ASSUME NEW i \in 0 .. n - 1, NEW k \in 1 .. EntrySize
      PROVE  Byte(EntryAt(i) + k - 1) = Entry(files, i)[k]
  <2> DEFINE c == EntryAt(i) + k - 1
  <2>1. EntryAt(i) \in Nat /\ k \in Nat /\ k >= 1
    BY <1>1, EntryPlaces
  <2>2. c \in Nat /\ c + 1 = EntryAt(i) + k
    BY <2>1
  <2>3. EntryAt(i) + k <= EntryAt(n) /\ image[EntryAt(i) + k] = Entry(files, i)[k]
    BY <1>2
  <2>4. c < Loaded /\ c < Len(image)
    BY <1>1, <1>2, <1>3, <2>1, <2>3
  <2>. HIDE DEF c
  <2>5. Byte(c) = image[c + 1]
    BY <1>4, <2>2, <2>4
  <2>. QED BY <2>2, <2>3, <2>5 DEF c
<1>6. ASSUME NEW i \in 0 .. n - 1, NEW k \in 1 .. Len(files[i + 1].data),
             EntryAt(n) + StartOf(files, i) + k <= Loaded
      PROVE  Byte(EntryAt(n) + StartOf(files, i) + k - 1) = files[i + 1].data[k]
  <2> DEFINE c == EntryAt(n) + StartOf(files, i) + k - 1
  <2>1. StartOf(files, i) \in Nat /\ k \in Nat /\ k >= 1
    <3>1. i + 1 \in 1 .. n
      BY <1>1
    <3>. QED BY <1>1, <3>1, FileFacts, StartSteps DEF n
  <2>2. c \in Nat /\ c + 1 = EntryAt(n) + StartOf(files, i) + k
    BY <1>3, <2>1
  <2>3. /\ EntryAt(n) + StartOf(files, i) + k <= Len(image)
        /\ image[EntryAt(n) + StartOf(files, i) + k] = files[i + 1].data[k]
    BY <1>2
  <2>4. c + 1 <= Loaded /\ c + 1 <= Len(image)
    BY <1>6, <2>2, <2>3
  <2>. HIDE DEF c
  <2>5. Byte(c) = image[c + 1]
    BY <1>1, <1>2, <1>4, <2>2, <2>4
  <2>. QED BY <2>2, <2>3, <2>5 DEF c
<1>7. \A c \in Nat : Byte(c) # Junk => c + 1 <= Len(image) /\ Byte(c) = image[c + 1]
  BY <1>2, <1>4
<1>. QED BY <1>5, <1>6, <1>7 DEF n, image

\* The entry of a file matches the file's name and no other.
LEMMA EntryMatches ==
    ASSUME RdInv, EntriesAreLoaded, NEW name \in Names, NEW i \in 0 .. Len(files) - 1
    PROVE  NameMatches(i, name) <=> files[i + 1].name = name
<1> DEFINE own == files[i + 1].name
           e == Entry(files, i)
<1>0. files \in FileLists /\ Len(files) \in Nat
  BY FileFacts DEF RdInv
<1>1. i + 1 \in 1 .. Len(files) /\ i \in Nat /\ EntryAt(i) \in Nat
  <2>1. i + 1 \in 1 .. Len(files) /\ i \in Nat
    BY <1>0
  <2>. QED BY <2>1, EntryPlaces
<1>2. /\ own \in Seq(Nat \ {0}) /\ Len(own) \in Nat /\ Len(own) < NameSize
  <2>1. own \in Seq(Nat \ {0}) /\ Len(own) \in 0 .. NameSize - 1
    BY <1>0, <1>1, FileFacts
  <2>. HIDE DEF own
  <2>. QED BY <2>1, EntryPlaces
<1>3. name \in Seq(Nat \ {0}) /\ Len(name) \in Nat /\ Len(name) < NameSize
  BY RamdiskAssumption DEF RamdiskAssumption
<1>4. /\ \A k \in 1 .. Len(own) : e[k] = own[k]
      /\ e[Len(own) + 1] = 0
  BY <1>0, EntryCells
<1>5. \A k \in 1 .. EntrySize : Byte(EntryAt(i) + k - 1) = e[k]
  BY LoadedCells
<1>. HIDE DEF e, own
<1>6. \A k \in 1 .. Len(name) : Byte(EntryAt(i) + k - 1) = e[k]
  BY <1>3, <1>5, EntryPlaces
<1>7. Byte(EntryAt(i) + Len(name)) = e[Len(name) + 1]
  <2>1. Len(name) + 1 \in 1 .. EntrySize
    <3>1. EntrySize = NameSize + 2 /\ NameSize \in Nat
      BY EntryPlaces
    <3>. QED BY <1>3, <3>1
  <2>2. EntryAt(i) + (Len(name) + 1) - 1 = EntryAt(i) + Len(name)
    BY <1>1, <1>3
  <2>. QED BY <1>5, <2>1, <2>2
<1>8. NameMatches(i, name) <=> /\ \A k \in 1 .. Len(name) : e[k] = name[k]
                               /\ e[Len(name) + 1] = 0
  BY <1>6, <1>7 DEF NameMatches
<1>9. own = name => NameMatches(i, name)
  BY <1>4, <1>8
<1>10. ASSUME NameMatches(i, name) PROVE own = name
  <2>1. /\ \A k \in 1 .. Len(name) : e[k] = name[k]
        /\ e[Len(name) + 1] = 0
    BY <1>8, <1>10
  <2>2. ~ Len(own) < Len(name)
    <3>1. Len(own) < Len(name) => Len(own) + 1 \in 1 .. Len(name)
      BY <1>2, <1>3
    <3>. QED BY <1>3, <1>4, <2>1, <3>1
  <2>3. ~ Len(name) < Len(own)
    <3>1. Len(name) < Len(own) => Len(name) + 1 \in 1 .. Len(own)
      BY <1>2, <1>3
    <3>. QED BY <1>2, <1>4, <2>1, <3>1
  <2>4. Len(own) = Len(name)
    BY <1>2, <1>3, <2>2, <2>3
  <2>5. \A k \in 1 .. Len(own) : own[k] = name[k]
    BY <1>4, <2>1, <2>4
  <2>. QED BY <1>2, <1>3, <2>4, <2>5, SeqEqual
<1>. QED BY <1>9, <1>10 DEF own

\* The entry behind the last, which is the data, matches what the data begin
\* with.
LEMMA DataMatch ==
    ASSUME RdInv, EntriesAreLoaded, NEW name \in Names, NameMatches(Len(files), name)
    PROVE  LET all == SubSeq(Image(files), EntryAt(Len(files)) + 1, Len(Image(files)))
           IN  /\ Len(all) > Len(name)
               /\ SubSeq(all, 1, Len(name) + 1) = name \o <<0>>
<1> DEFINE n == Len(files)
           at0 == EntryAt(n)
           image == Image(files)
           all == SubSeq(image, at0 + 1, Len(image))
           named == name \o <<0>>
<1>1. n \in Nat /\ files \in FileLists /\ at0 \in Nat
  BY FileFacts, EntryPlaces DEF RdInv
<1>2. image \in Seq(Int) /\ Len(image) \in Nat
  BY <1>1, ImageCells, LenProperties
<1>3. name \in Seq(Nat \ {0}) /\ Len(name) \in Nat
  BY RamdiskAssumption DEF RamdiskAssumption
<1>4. /\ \A k \in 1 .. Len(name) : Byte(at0 + k - 1) = name[k]
      /\ Byte(at0 + Len(name)) = 0
  BY DEF NameMatches
<1>5. \A c \in Nat : Byte(c) # Junk => c + 1 <= Len(image) /\ Byte(c) = image[c + 1]
  BY LoadedCells
<1>. HIDE DEF at0, image, n, all, named
<1>6. at0 + Len(name) + 1 <= Len(image) /\ image[at0 + Len(name) + 1] = 0
  <2>1. at0 + Len(name) \in Nat /\ 0 # Junk
    BY <1>1, <1>3 DEF Junk
  <2>. QED BY <1>4, <1>5, <2>1
<1>7. ASSUME NEW k \in 1 .. Len(name) PROVE image[at0 + k] = name[k]
  <2>1. name[k] \in Nat /\ name[k] # Junk
    BY <1>3 DEF Junk
  <2>2. at0 + k - 1 \in Nat /\ (at0 + k - 1) + 1 = at0 + k
    BY <1>1
  <2>. QED BY <1>4, <1>5, <2>1, <2>2
<1>8. /\ all \in Seq(Int) /\ Len(all) = Len(image) - at0
      /\ \A k \in 1 .. Len(image) - at0 : all[k] = image[at0 + k]
  <2>1. \A i \in at0 + 1 .. Len(image) : image[i] \in Int
    BY <1>1, <1>2
  <2>2. at0 + 1 \in Int /\ Len(image) \in Int
    BY <1>1, <1>2
  <2>3. /\ all \in Seq(Int)
        /\ Len(all) = IF at0 + 1 <= Len(image) THEN Len(image) - (at0 + 1) + 1 ELSE 0
        /\ \A k \in 1 .. Len(image) - (at0 + 1) + 1 : all[k] = image[(at0 + 1) + k - 1]
    BY <2>1, <2>2, SubSeqProperties DEF all
  <2>4. at0 + 1 <= Len(image)
    BY <1>1, <1>2, <1>3, <1>6
  <2>5. Len(image) - (at0 + 1) + 1 = Len(image) - at0
    BY <1>1, <1>2
  <2>6. \A k \in Int : (at0 + 1) + k - 1 = at0 + k
    BY <1>1
  <2>7. \A k \in 1 .. Len(image) - at0 : all[k] = image[at0 + k]
    <3> TAKE k \in 1 .. Len(image) - at0
    <3>1. k \in Int /\ k \in 1 .. Len(image) - (at0 + 1) + 1
      BY <1>1, <1>2
    <3>2. all[k] = image[(at0 + 1) + k - 1]
      BY <2>3, <3>1
    <3>. QED BY <2>6, <3>1, <3>2
  <2>. QED BY <2>3, <2>4, <2>5, <2>7
<1>9. Len(all) > Len(name)
  BY <1>1, <1>2, <1>3, <1>6, <1>8
<1>10. /\ named \in Seq(Int) /\ Len(named) = Len(name) + 1
       /\ \A k \in 1 .. Len(name) : named[k] = name[k]
       /\ named[Len(name) + 1] = 0
  BY <1>3 DEF named
<1> DEFINE begin == SubSeq(all, 1, Len(name) + 1)
<1>11. /\ begin \in Seq(Int) /\ Len(begin) = Len(name) + 1
       /\ \A k \in 1 .. Len(name) + 1 : begin[k] = all[k]
  <2>1. \A i \in 1 .. Len(name) + 1 : all[i] \in Int
    BY <1>3, <1>8, <1>9
  <2>2. 1 \in Int /\ Len(name) + 1 \in Int /\ 1 <= Len(name) + 1
    BY <1>3
  <2>3. /\ begin \in Seq(Int)
        /\ Len(begin) = IF 1 <= Len(name) + 1 THEN (Len(name) + 1) - 1 + 1 ELSE 0
        /\ \A k \in 1 .. (Len(name) + 1) - 1 + 1 : begin[k] = all[1 + k - 1]
    BY <2>1, <2>2, SubSeqProperties
  <2>4. (Len(name) + 1) - 1 + 1 = Len(name) + 1
    BY <1>3
  <2>5. \A k \in Int : 1 + k - 1 = k
    OBVIOUS
  <2>. QED BY <2>2, <2>3, <2>4, <2>5
<1>. HIDE DEF begin
<1>12. ASSUME NEW k \in 1 .. Len(name) + 1 PROVE begin[k] = named[k]
  <2>1. begin[k] = image[at0 + k]
    <3>1. k \in 1 .. Len(image) - at0
      BY <1>1, <1>2, <1>3, <1>6
    <3>. QED BY <1>8, <1>11, <3>1
  <2>2. CASE k = Len(name) + 1
    <3>1. at0 + (Len(name) + 1) = at0 + Len(name) + 1
      BY <1>1, <1>3
    <3>. QED BY <1>6, <1>10, <2>1, <2>2, <3>1
  <2>3. CASE k # Len(name) + 1
    <3>1. k \in 1 .. Len(name)
      BY <1>3, <2>3
    <3>. QED BY <1>7, <1>10, <2>1, <3>1
  <2>. QED BY <2>2, <2>3
<1>13. begin = named
  BY <1>10, <1>11, <1>12, SeqEqual
<1>. QED BY <1>9, <1>13 DEF begin, named, all, image, at0, n

LEMMA FindAnswers ==
    ASSUME RdInv, EntriesAreLoaded, NEW name \in Names, Find(name)
    PROVE  FindAnswersByName'
<1> DEFINE n == Len(files)
           matching == {i \in Searched : NameMatches(i, name)}
           first == CHOOSE i \in matching : \A j \in matching : i <= j
           named == {i \in DOMAIN files : files[i].name = name}
<1>1. /\ UNCHANGED <<files, ram, disk>> /\ disk # Unset
      /\ answer' = [op |-> "find", name |-> name,
                    entry |-> IF matching = {} THEN NULL ELSE first]
  BY DEF Find
<1>2. /\ n \in Nat /\ DOMAIN files = 1 .. n
      /\ disk.num_files = n /\ disk.data = EntryAt(n) /\ Searched = 0 .. n
  <2>1. disk = Ready
    BY <1>1 DEF RdInv
  <2>. QED BY <2>1, FileFacts, RdReady DEF RdInv, Searched
<1>3. matching \in SUBSET Nat
  BY <1>2
<1>4. \A i \in 0 .. n - 1 : i \in matching <=> i + 1 \in named
  <2> TAKE i \in 0 .. n - 1
  <2>1. i \in Searched /\ i + 1 \in DOMAIN files
    BY <1>2
  <2>. QED BY <2>1, EntryMatches
<1>5. matching # {} => first \in matching /\ \A j \in matching : first <= j
  <2>. HIDE DEF matching
  <2>1. matching # {} => \E i \in matching : \A j \in matching : i <= j
    BY <1>3, LeastElement
  <2>. QED BY <2>1
<1>. HIDE DEF first
<1>6. /\ answer'.op = "find" /\ answer'.name = name
      /\ answer'.entry = IF matching = {} THEN NULL ELSE first
  BY <1>1
<1>7. CASE named # {}
  <2>1. PICK j \in 1 .. n : j \in named
    BY <1>2, <1>7
  <2>2. j - 1 \in 0 .. n - 1 /\ (j - 1) + 1 = j
    BY <1>2
  <2>3. j - 1 \in matching
    BY <1>4, <2>1, <2>2
  <2>4. first \in matching /\ first <= j - 1
    BY <1>5, <2>3
  <2>5. first \in 0 .. n - 1
    BY <1>2, <1>3, <2>2, <2>4
  <2>6. answer'.entry + 1 \in named
    BY <1>4, <1>6, <2>4, <2>5
  <2>. HIDE DEF matching
  <2>. QED BY <1>1, <1>6, <1>7, <2>6 DEF FindAnswersByName
<1>8. CASE named = {}
  <2>1. ASSUME matching # {} PROVE first = n /\ NameMatches(n, name)
    <3>1. first \in 0 .. n /\ first \notin 0 .. n - 1
      BY <1>2, <1>4, <1>5, <1>8, <2>1
    <3>2. first = n
      <4>. HIDE DEF n, matching, named
      <4>. QED BY <1>2, <3>1
    <3>. QED BY <1>5, <2>1, <3>2
  <2>2. matching # {} =>
           LET all == SubSeq(Image(files), disk.data + 1, Len(Image(files)))
           IN  /\ Len(all) > Len(name)
               /\ SubSeq(all, 1, Len(name) + 1) = name \o <<0>>
    BY <1>2, <2>1, DataMatch
  <2>3. answer'.entry = NULL \/ (matching # {} /\ answer'.entry = n)
    <3>. HIDE DEF matching, named
    <3>. QED BY <1>6, <2>1
  <2>. HIDE DEF matching
  <2>. QED BY <1>1, <1>6, <1>8, <2>2, <2>3 DEF FindAnswersByName
<1>. QED BY <1>7, <1>8

\* For any files: rd_find answers the entry of the file of a name, and for a
\* name that no file has, that there is none, unless the data begins with it.
THEOREM NamesAreFound == ASSUME EntriesAreLoaded PROVE RdSpec => []FindAnswersByName
<1>1. RdStart => FindAnswersByName
  BY DEF RdStart, Nothing, FindAnswersByName
<1>2. ASSUME RdInv, FindAnswersByName, [RdNext]_rdVars PROVE FindAnswersByName'
  <2>1. CASE RdInit
    <3>1. answer.op # "find" /\ answer' = answer
      BY <1>2, <2>1, RdReady DEF RdInit, RdInv
    <3>. QED BY <3>1 DEF FindAnswersByName
  <2>2. ASSUME NEW name \in Names, Find(name) PROVE FindAnswersByName'
    BY <1>2, <2>2, FindAnswers
  <2>3. ASSUME NEW offset, NEW size, Read(offset, size) PROVE FindAnswersByName'
    <3>1. answer'.op = "read"
      BY <2>3 DEF Read
    <3>. QED BY <3>1 DEF FindAnswersByName
  <2>4. ASSUME NEW offset, NEW size, ReadFaults(offset, size) PROVE FindAnswersByName'
    <3>1. answer'.op = "fault"
      BY <2>4 DEF ReadFaults
    <3>. QED BY <3>1 DEF FindAnswersByName
  <2>5. CASE UNCHANGED rdVars
    BY <1>2, <2>5 DEF rdVars, FindAnswersByName
  <2>. QED BY <1>2, <2>1, <2>2, <2>3, <2>4, <2>5 DEF RdNext
<1>. QED BY <1>1, <1>2, RamdiskInvariant, PTL DEF RdSpec

LEMMA ReadAnswers ==
    ASSUME RdInv, EntriesAreLoaded,
           NEW offset \in 0 .. MaxRead, NEW size \in 0 .. MaxRead, Read(offset, size)
    PROVE  FilesReadBack'
<1> DEFINE n == Len(files)
           i == answer.entry
           data == files[i + 1].data
           start == StartOf(files, i)
           last == offset + size
           buffer == [k \in 1 .. size |-> Byte(ReadFrom(i, offset) + k - 1)]
<1>1. /\ UNCHANGED <<files, ram, disk>>
      /\ answer.op = "find" /\ i # NULL
  BY DEF Read, Reads
<1> DEFINE outcome(past) ==
              IF past
              THEN [op |-> "read", file |-> i, offset |-> offset,
                    size |-> size, status |-> 1]
              ELSE [op |-> "read", file |-> i, offset |-> offset,
                    size |-> size, status |-> 0, buffer |-> BytesAt(i, offset, size)]
<1>1a. PICK past \in PastTheEnd(i, offset, size) : answer' = outcome(past)
  BY DEF Read
<1>1b. answer'.op = "read" /\ answer'.file = i
  BY <1>1a
<1>1c. SUFFICES ASSUME i < Len(files) PROVE FilesReadBack'
  BY <1>1, <1>1b DEF FilesReadBack
<1>2. n \in Nat /\ files \in FileLists
  BY FileFacts DEF RdInv
<1>3. disk.num_files = n /\ disk.data = EntryAt(n) /\ i \in 0 .. n - 1
  <2>1. disk = Ready /\ i \in Nat
    BY <1>1 DEF RdInv
  <2>. QED BY <1>2, <1>1c, <2>1, RdReady
<1>4. /\ i + 1 \in 1 .. n /\ i \in Nat
      /\ data \in Seq(Nat) /\ Len(data) \in Nat /\ start \in Nat
  <2>1. i + 1 \in 1 .. n /\ i \in Nat
    BY <1>2, <1>3
  <2>. QED BY <1>2, <1>3, <2>1, FileFacts, StartSteps
<1>5. /\ offset \in Nat /\ size \in Nat /\ last \in Nat /\ ByteSize \in Nat /\ ByteSize > 0
      /\ MaxRead \in Nat /\ Loaded \in Nat
  BY RamdiskAssumption DEF RamdiskAssumption
<1>6. Byte(EntryAt(i) + NameSize) = start /\ Byte(EntryAt(i) + NameSize + 1) = Len(data)
  <2>1. /\ Entry(files, i)[NameSize + 1] = start
        /\ Entry(files, i)[NameSize + 2] = Len(data)
    BY <1>2, <1>3, EntryCells
  <2>2. /\ NameSize + 1 \in 1 .. EntrySize /\ NameSize + 2 \in 1 .. EntrySize
        /\ EntryAt(i) \in Nat /\ NameSize \in Nat
    <3>1. EntryAt(i) \in Nat /\ NameSize \in Nat /\ EntrySize = NameSize + 2
      BY <1>4, EntryPlaces
    <3>. QED BY <3>1
  <2>3. /\ Byte(EntryAt(i) + (NameSize + 1) - 1) = start
        /\ Byte(EntryAt(i) + (NameSize + 2) - 1) = Len(data)
    BY <1>3, <2>1, <2>2, LoadedCells
  <2>4. /\ EntryAt(i) + (NameSize + 1) - 1 = EntryAt(i) + NameSize
        /\ EntryAt(i) + (NameSize + 2) - 1 = EntryAt(i) + NameSize + 1
    BY <2>2
  <2>. QED BY <2>3, <2>4
<1>7. ASSUME offset < ByteSize PROVE Truncated(offset) = offset
  BY <1>5, <1>7 DEF Truncated
<1>6a. /\ StartByte(i) = start /\ SizeByte(i) = Len(data)
      /\ StartByte(i) # Junk /\ SizeByte(i) # Junk
  BY <1>4, <1>6 DEF StartByte, SizeByte, Junk
<1>6b. BytesAt(i, offset, size) = buffer
  BY <1>6a DEF BytesAt
<1>8. ASSUME offset < ByteSize
      PROVE  /\ past <=> last > Len(data)
             /\ ReadFrom(i, offset) = EntryAt(n) + start + offset
  BY <1>3, <1>1a, <1>6a, <1>7, <1>8 DEF PastTheEnd, ReadFrom
<1> DEFINE part == SubSeq(data, offset + 1, last)
           place == EntryAt(n) + start
<1>9. ASSUME offset < ByteSize, ~ past, place + last <= Loaded PROVE buffer = part
  <2>0. EntryAt(n) \in Nat /\ place \in Nat
    <3>1. EntryAt(n) \in Nat
      BY <1>2, EntryPlaces
    <3>. QED BY <1>4, <3>1
  <2>1. last <= Len(data) /\ ReadFrom(i, offset) = place + offset
    BY <1>4, <1>5, <1>8, <1>9
  <2>2. /\ part \in Seq(Nat) /\ Len(part) = size
        /\ \A k \in 1 .. size : part[k] = data[offset + k]
    <3>1. \A k \in offset + 1 .. last : data[k] \in Nat
      <4>1. \A k \in offset + 1 .. last : k \in 1 .. Len(data)
        BY <1>4, <1>5, <2>1
      <4>. HIDE DEF data, last
      <4>. QED BY <1>4, <4>1, ElementOfSeq
    <3>2. /\ offset + 1 \in Int /\ last \in Int
          /\ last - (offset + 1) + 1 = size /\ (offset + 1 <= last <=> size # 0)
      BY <1>5
    <3>. HIDE DEF last, data
    <3>3. /\ part \in Seq(Nat)
          /\ Len(part) = IF offset + 1 <= last THEN last - (offset + 1) + 1 ELSE 0
          /\ \A k \in 1 .. last - (offset + 1) + 1 : part[k] = data[(offset + 1) + k - 1]
      BY <3>1, <3>2, SubSeqProperties
    <3>4. \A k \in Int : (offset + 1) + k - 1 = offset + k
      BY <1>5
    <3>5. \A k \in 1 .. size : k \in Int
      BY <1>5
    <3>. HIDE DEF part
    <3>. QED BY <3>2, <3>3, <3>4, <3>5
  <2>3. ASSUME NEW k \in 1 .. size
        PROVE  Byte(ReadFrom(i, offset) + k - 1) = data[offset + k]
    <3> DEFINE c == offset + k
    <3>1. c \in 1 .. Len(data) /\ place + c <= Loaded
      <4>. HIDE DEF data, place
      <4>. QED BY <1>4, <1>5, <1>9, <2>0, <2>1
    <3>2. Byte(place + c - 1) = data[c]
      <4>. HIDE DEF c
      <4>. QED BY <1>3, <3>1, LoadedCells
    <3>3. ReadFrom(i, offset) + k - 1 = place + c - 1
      <4>. HIDE DEF place
      <4>. QED BY <1>5, <2>0, <2>1
    <3>. QED BY <3>2, <3>3
  <2>4. buffer \in Seq(Nat) /\ Len(buffer) = size /\ \A k \in 1 .. size : buffer[k] = data[offset + k]
    <3>1. \A k \in 1 .. size : buffer[k] = data[offset + k]
      BY <2>3
    <3>2. \A k \in 1 .. size : buffer[k] \in Nat
      <4>. HIDE DEF part, buffer
      <4>. QED BY <2>2, <3>1, <1>5, ElementOfSeq
    <3>. QED BY <1>5, <3>1, <3>2
  <2>. HIDE DEF part, buffer
  <2>. QED BY <1>5, <2>2, <2>4, SeqEqual
<1>10. /\ answer'.op = "read" /\ answer'.file = i /\ answer'.offset = offset
       /\ answer'.size = size /\ answer'.status = (IF past THEN 1 ELSE 0)
       /\ ~ past => answer'.buffer = buffer
  <2>1. past \in BOOLEAN
    BY <1>1a, <1>6a DEF PastTheEnd
  <2>. HIDE DEF buffer, i
  <2>. QED BY <1>1a, <1>6b, <2>1
<1>. HIDE DEF buffer
<1>11. (answer'.status = 1 <=> past) /\ (answer'.status = 0 <=> ~ past)
  BY <1>10
<1>12. SUFFICES ASSUME offset < ByteSize
       PROVE  /\ (answer'.status = 1) <=> last > Len(data)
              /\ answer'.status = 0 /\ place + last <= Loaded =>
                    answer'.buffer = part
  BY <1>1, <1>3, <1>10 DEF FilesReadBack
<1>. QED BY <1>8, <1>9, <1>10, <1>11, <1>12

\* For any files: what is read is what rdgen was given, and a read beyond the
\* end of a file is refused.
THEOREM ReadsReturnTheFile == ASSUME EntriesAreLoaded PROVE RdSpec => []FilesReadBack
<1>1. RdStart => FilesReadBack
  BY DEF RdStart, Nothing, FilesReadBack
<1>2. ASSUME RdInv, FilesReadBack, [RdNext]_rdVars PROVE FilesReadBack'
  <2>1. CASE RdInit
    <3>1. answer.op # "read" /\ answer' = answer
      BY <1>2, <2>1, RdReady DEF RdInit, RdInv
    <3>. QED BY <3>1 DEF FilesReadBack
  <2>2. ASSUME NEW name \in Names, Find(name) PROVE FilesReadBack'
    <3>1. answer'.op = "find"
      BY <2>2 DEF Find
    <3>. QED BY <3>1 DEF FilesReadBack
  <2>3. ASSUME NEW offset \in 0 .. MaxRead, NEW size \in 0 .. MaxRead, Read(offset, size)
        PROVE  FilesReadBack'
    BY <1>2, <2>3, ReadAnswers
  <2>4. ASSUME NEW offset, NEW size, ReadFaults(offset, size) PROVE FilesReadBack'
    <3>1. answer'.op = "fault"
      BY <2>4 DEF ReadFaults
    <3>. QED BY <3>1 DEF FilesReadBack
  <2>5. CASE UNCHANGED rdVars
    BY <1>2, <2>5 DEF rdVars, FilesReadBack
  <2>. QED BY <1>2, <2>1, <2>2, <2>3, <2>4, <2>5 DEF RdNext
<1>. QED BY <1>1, <1>2, RamdiskInvariant, PTL DEF RdSpec
=============================================================================
