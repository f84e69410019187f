----------------------------- MODULE Boot_proofs ----------------------------
(* For any number of unreadable sectors and any address of the video memory: *)
(* stage 2 stays intact while it runs, the kernel and the ramdisk are in     *)
(* place when the kernel is entered, and mapped when paging is switched on.  *)
EXTENDS Boot, TLAPS

-----------------------------------------------------------------------------
(* The numbers of the layout *)

LEMMA LayoutNumbers ==
    /\ LoadStage2 = [to |-> 64, sector |-> 1, left |-> 9]
    /\ LoadRamdisk = [to |-> 512, sector |-> 80, left |-> 1]
    /\ LoadKernel = [to |-> 128, sector |-> 10, left |-> 48]
    /\ PageDirectory = 9
    /\ StackUnit = 511
    /\ Unit(65536) = 128
    /\ Unit(262144) = 512
<1>1. /\ 32768 \div 512 = 64 /\ 262144 \div 512 = 512 /\ 65536 \div 512 = 128
      /\ 32768 \div 4096 = 8
  BY SMT
<1> QED
  BY <1>1 DEF LoadStage2, LoadRamdisk, LoadKernel, PageDirectory, StackUnit, Unit, Page

(* The BIOS finds the sector that lba_to_chs was asked for. *)
LEMMA ChsIsInverse == ASSUME NEW lba \in Nat PROVE SectorAt(Chs(lba)) = lba
<1> DEFINE track == lba \div 18
<1>1. /\ track \in Nat /\ lba % 18 \in 0 .. 17 /\ lba = 18 * track + (lba % 18)
  BY SMT
<1>2. /\ track = 2 * (track \div 2) + (track % 2)
      /\ track \div 2 \in Nat /\ track % 2 \in 0 .. 1
  BY <1>1, SMT
<1>3. SectorAt(Chs(lba)) = ((track \div 2) * 2 + (track % 2)) * 18 + ((lba % 18) + 1) - 1
  BY DEF SectorAt, Chs
<1> HIDE DEF track
<1> QED
  BY <1>1, <1>2, <1>3, SMT

(* The units that matter exist, and no page table covers one. *)
LEMMA UnitsAreApart ==
    /\ 64 .. 71 \subseteq Units
    /\ 128 .. 175 \subseteq Units
    /\ 511 \in Units
    /\ 512 \in Units
    /\ UnitsOfPage(PageDirectory) \subseteq 72 .. 79
    /\ \A k \in 1 .. 4 : UnitsOfPage(Tables[k].table) \subseteq 80 .. 111
<1>1. 64 .. 71 \subseteq Units
  <2>1. \A u \in 64 .. 71 : u - 64 \in 0 .. 8 /\ u = 64 + (u - 64)
    BY SMT
  <2> QED BY <2>1, LayoutNumbers, SMT DEF Units
<1>2. 128 .. 175 \subseteq Units
  <2>1. \A u \in 128 .. 175 : u - 128 \in 0 .. 47 /\ u = 128 + (u - 128)
    BY SMT
  <2> QED BY <2>1, LayoutNumbers, SMT DEF Units
<1>3. 512 \in Units /\ 511 \in Units
  BY LayoutNumbers, SMT DEF Units
<1>4. UnitsOfPage(PageDirectory) \subseteq 72 .. 79
  BY LayoutNumbers, SMT DEF UnitsOfPage
<1>5. \A k \in 1 .. 4 : Tables[k].table = 9 + k
  BY LayoutNumbers, SMT DEF Tables
<1>6. \A k \in 1 .. 4 : UnitsOfPage(9 + k) \subseteq 80 .. 111
  BY SMT DEF UnitsOfPage
<1> QED BY <1>1, <1>2, <1>3, <1>4, <1>5, <1>6

-----------------------------------------------------------------------------
(* The invariant *)

KernelLoaded == {"flush", "map1", "map2", "map3", "map4", "enter", "kernel"}

RamdiskLoaded == {"load_kernel", "read_kernel"} \cup KernelLoaded

(* Memory holds n sectors from first on, but for those that failed. *)
Holds(first, n, unit) ==
    \A i \in 0 .. n - 1 :
       first + i \notin failed => ram[unit + i] = <<"disk", first + i>>

(* The kernel is being loaded, and n of its sectors have been read. *)
KernelRead(n) ==
    /\ load = [to |-> 128 + n, sector |-> 10 + n, left |-> 48 - n]
    /\ Holds(10, n, 128)

BootInv ==
    /\ ram = [u \in Units |-> ram[u]]
    /\ pc = "read_ramdisk" => load = LoadRamdisk
    /\ pc = "read_kernel" => \E n \in 0 .. 47 : KernelRead(n)
    /\ pc \in RamdiskLoaded => Holds(80, 1, 512)
    /\ pc \in KernelLoaded => Holds(10, 48, 128)
    /\ pc \in InStage2 => Stage2Intact

(* What a step leaves of memory and of the failed sectors is enough for what *)
(* memory held before.                                                       *)
LEMMA HoldsOn ==
    ASSUME NEW first \in Nat, NEW n \in Nat, NEW unit \in Nat,
           Holds(first, n, unit),
           failed \subseteq failed',
           \A u \in unit .. unit + n - 1 : ram'[u] = ram[u]
    PROVE  Holds(first, n, unit)'
<1> SUFFICES ASSUME NEW i \in 0 .. n - 1, first + i \notin failed'
             PROVE  ram'[unit + i] = <<"disk", first + i>>
  BY DEF Holds
<1>1. unit + i \in unit .. unit + n - 1
  BY SMT
<1> QED BY <1>1 DEF Holds

LEMMA IntactOn ==
    ASSUME Stage2Intact, \A u \in 64 .. 71 : ram'[u] = ram[u]
    PROVE  Stage2Intact'
<1> SUFFICES ASSUME NEW s \in 1 .. 8 PROVE ram'[64 + s - 1] = <<"disk", s>>
  BY LayoutNumbers DEF Stage2Intact, Stage2Sectors
<1>1. 64 + s - 1 \in 64 .. 71
  BY SMT
<1>2. ram[64 + s - 1] = <<"disk", s>>
  BY LayoutNumbers DEF Stage2Intact, Stage2Sectors
<1> QED BY <1>1, <1>2

(* The parts of the kernel, the ramdisk and stage 2. *)
Kept == (64 .. 71) \cup (128 .. 175) \cup {512}

(* A step that touches none of them keeps what memory held. *)
LEMMA KeptOn ==
    ASSUME \A u \in Kept : ram'[u] = ram[u], failed \subseteq failed'
    PROVE  /\ Holds(80, 1, 512) => Holds(80, 1, 512)'
           /\ Holds(10, 48, 128) => Holds(10, 48, 128)'
           /\ Stage2Intact => Stage2Intact'
<1>1. \A u \in 512 .. 512 + 1 - 1 : ram'[u] = ram[u]
  BY SMT DEF Kept
<1>2. \A u \in 128 .. 128 + 48 - 1 : ram'[u] = ram[u]
  BY SMT DEF Kept
<1>3. \A u \in 64 .. 71 : ram'[u] = ram[u]
  BY DEF Kept
<1>4. Holds(80, 1, 512) => Holds(80, 1, 512)'
  BY <1>1, HoldsOn
<1>5. Holds(10, 48, 128) => Holds(10, 48, 128)'
  BY <1>2, HoldsOn
<1>6. Stage2Intact => Stage2Intact'
  BY <1>3, IntactOn
<1> QED BY <1>4, <1>5, <1>6

(* One more sector is read behind those there are; nothing else changes. *)
LEMMA OneMoreRead ==
    ASSUME ram = [u \in Units |-> ram[u]],
           NEW first \in Nat, NEW n \in Nat, NEW unit \in Nat,
           \A i \in 0 .. n : unit + i \in Units,
           Holds(first, n, unit),
           ReadSector(unit + n, first + n)
    PROVE  /\ Holds(first, n + 1, unit)'
           /\ failed \subseteq failed'
           /\ ram' = [u \in Units |-> ram'[u]]
           /\ \A u \in Units : u # unit + n => ram'[u] = ram[u]
<1>1. SectorAt(Chs(first + n)) = first + n
  BY ChsIsInverse
<1>2. CASE /\ ram' = [ram EXCEPT ![unit + n] = <<"disk", first + n>>]
           /\ failed' = failed
  <2>1. unit + n \in Units /\ ram'[unit + n] = <<"disk", first + n>>
    BY <1>2, SMT
  <2>2. \A i \in 0 .. n - 1 : /\ unit + i # unit + n
                              /\ first + i \notin failed => ram[unit + i] = <<"disk", first + i>>
    BY SMT DEF Holds
  <2>3. \A u \in Units : u # unit + n => ram'[u] = ram[u]
    BY <1>2
  <2>4. ram' = [u \in Units |-> ram'[u]]
    BY <1>2
  <2>5. \A i \in 0 .. (n + 1) - 1 : i = n \/ (i \in 0 .. n - 1 /\ unit + i \in Units)
    BY SMT
  <2>6. Holds(first, n + 1, unit)'
    BY <1>2, <2>1, <2>2, <2>3, <2>5 DEF Holds
  <2> QED BY <1>2, <2>3, <2>4, <2>6
<1>3. CASE ram' = ram /\ failed' = failed \cup {first + n}
  <2>1. \A i \in 0 .. (n + 1) - 1 : i = n \/ i \in 0 .. n - 1
    BY SMT
  <2>2. Holds(first, n + 1, unit)'
    BY <1>3, <2>1 DEF Holds
  <2> QED BY <1>3, <2>2
<1> QED BY <1>1, <1>2, <1>3 DEF ReadSector

-----------------------------------------------------------------------------
(* One lemma per kind of step *)

LEMMA InitBoot == BootInit => BootInv
<1> SUFFICES ASSUME BootInit PROVE BootInv
  OBVIOUS
<1>1. pc = "reset"
  BY DEF BootInit
<1>2. /\ pc \notin RamdiskLoaded /\ pc \notin KernelLoaded /\ pc \notin InStage2
      /\ pc # "read_ramdisk" /\ pc # "read_kernel"
  BY <1>1 DEF RamdiskLoaded, KernelLoaded, InStage2, MapPoints
<1>3. ram = [u \in Units |-> ram[u]]
  BY DEF BootInit
<1> QED BY <1>2, <1>3 DEF BootInv

(* Steps that write no memory of the three parts, and do not load. *)
LEMMA KeepsBootInv ==
    ASSUME BootInv,
           ram' = [u \in Units |-> ram'[u]],
           \A u \in Kept : ram'[u] = ram[u],
           failed \subseteq failed',
           pc' = "read_ramdisk" => load' = LoadRamdisk,
           pc' = "read_kernel" => load' = LoadKernel,
           pc' \in RamdiskLoaded => pc \in RamdiskLoaded,
           pc' \in KernelLoaded => pc \in KernelLoaded,
           pc' \in InStage2 => pc \in InStage2 \/ Stage2Intact
    PROVE  BootInv'
<1>1. /\ Holds(80, 1, 512) => Holds(80, 1, 512)'
      /\ Holds(10, 48, 128) => Holds(10, 48, 128)'
      /\ Stage2Intact => Stage2Intact'
  BY KeptOn
<1>2. (pc \in RamdiskLoaded => Holds(80, 1, 512))'
  BY <1>1 DEF BootInv, RamdiskLoaded, KernelLoaded
<1>3. (pc \in KernelLoaded => Holds(10, 48, 128))'
  BY <1>1 DEF BootInv, KernelLoaded
<1>4. (pc \in InStage2 => Stage2Intact)'
  BY <1>1 DEF BootInv, InStage2, MapPoints
<1>5. (pc = "read_ramdisk" => load = LoadRamdisk)'
  BY DEF LoadRamdisk
<1>6. (pc = "read_kernel" => \E n \in 0 .. 47 : KernelRead(n))'
  <2> SUFFICES ASSUME pc' = "read_kernel" PROVE KernelRead(0)'
    OBVIOUS
  <2>1. load' = [to |-> 128 + 0, sector |-> 10 + 0, left |-> 48 - 0]
    BY LayoutNumbers, SMT
  <2>2. Holds(10, 0, 128)'
    BY SMT DEF Holds
  <2> QED BY <2>1, <2>2 DEF KernelRead
<1> QED BY <1>2, <1>3, <1>4, <1>5, <1>6 DEF BootInv

(* Until stage 2 runs, nothing is promised of memory. *)
LEMMA BeforeStage2 ==
    ASSUME ram' = [u \in Units |-> ram'[u]],
           pc' \in {"reset", "read_stage2", "hello", "lost"}
    PROVE  BootInv'
<1>1. /\ pc' \notin RamdiskLoaded /\ pc' \notin KernelLoaded /\ pc' \notin InStage2
      /\ pc' # "read_ramdisk" /\ pc' # "read_kernel"
  BY DEF RamdiskLoaded, KernelLoaded, InStage2, MapPoints
<1> QED BY <1>1 DEF BootInv

LEMMA RamShape ==
    ASSUME BootInv, NEW to, NEW lba, ReadSector(to, lba)
    PROVE  ram' = [u \in Units |-> ram'[u]]
<1>1. ram = [u \in Units |-> ram[u]]
  BY DEF BootInv
<1> QED BY <1>1 DEF ReadSector

LEMMA StepStage2 ==
    ASSUME BootInv, ReadLoop("read_stage2", "hello") PROVE BootInv'
<1>1. ram' = [u \in Units |-> ram'[u]]
  BY RamShape DEF ReadLoop
<1>2. pc' \in {"read_stage2", "hello"}
  BY DEF ReadLoop
<1> QED BY <1>1, <1>2, BeforeStage2

LEMMA StepJump ==
    ASSUME BootInv, JumpToStage2 PROVE BootInv'
<1>1. /\ ram' = ram /\ failed' = failed
      /\ ram' = [u \in Units |-> ram'[u]]
      /\ pc' = (IF Stage2Intact THEN "vesa" ELSE "lost")
  BY DEF JumpToStage2, BootInv
<1>2. CASE Stage2Intact
  <2>1. pc' = "vesa"
    BY <1>1, <1>2
  <2>2. pc' \notin RamdiskLoaded /\ pc' \notin KernelLoaded
    BY <2>1 DEF RamdiskLoaded, KernelLoaded
  <2> QED BY <1>1, <1>2, <2>1, <2>2, KeepsBootInv
<1>3. CASE ~Stage2Intact
  BY <1>1, <1>3, BeforeStage2
<1> QED BY <1>2, <1>3

LEMMA StepVesa ==
    ASSUME BootInv, InitVesa PROVE BootInv'
<1>1. /\ pc = "vesa" /\ pc' \in {"NoVesa2", "load_ramdisk"}
      /\ ram' = ram /\ failed' = failed
      /\ ram' = [u \in Units |-> ram'[u]]
  BY DEF InitVesa, BootInv
<1>2. pc \in InStage2 /\ pc' \notin RamdiskLoaded /\ pc' \notin KernelLoaded
  BY <1>1 DEF InStage2, RamdiskLoaded, KernelLoaded
<1> QED BY <1>1, <1>2, KeepsBootInv

LEMMA StepStartRamdisk ==
    ASSUME BootInv, StartLoad("load_ramdisk", "read_ramdisk", LoadRamdisk)
    PROVE  BootInv'
<1>1. /\ pc = "load_ramdisk" /\ pc' = "read_ramdisk" /\ load' = LoadRamdisk
      /\ ram' = ram /\ failed' = failed
      /\ ram' = [u \in Units |-> ram'[u]]
  BY DEF StartLoad, BootInv
<1>2. pc \in InStage2 /\ pc' \notin RamdiskLoaded /\ pc' \notin KernelLoaded
  BY <1>1 DEF InStage2, RamdiskLoaded, KernelLoaded
<1> QED BY <1>1, <1>2, KeepsBootInv

LEMMA StepStartKernel ==
    ASSUME BootInv, StartLoad("load_kernel", "read_kernel", LoadKernel)
    PROVE  BootInv'
<1>1. /\ pc = "load_kernel" /\ pc' = "read_kernel" /\ load' = LoadKernel
      /\ ram' = ram /\ failed' = failed
      /\ ram' = [u \in Units |-> ram'[u]]
  BY DEF StartLoad, BootInv
<1>2. pc \in InStage2 /\ pc \in RamdiskLoaded /\ pc' \notin KernelLoaded
  BY <1>1 DEF InStage2, RamdiskLoaded, KernelLoaded
<1> QED BY <1>1, <1>2, KeepsBootInv

LEMMA StepReadRamdisk ==
    ASSUME BootInv, ReadLoop("read_ramdisk", "load_kernel") PROVE BootInv'
<1>1. /\ pc = "read_ramdisk" /\ load = LoadRamdisk
      /\ ram = [u \in Units |-> ram[u]] /\ Stage2Intact
  BY DEF ReadLoop, BootInv, InStage2, ReadPoints
<1>2. load.to = 512 /\ load.sector = 80 /\ load.left = 1
  BY <1>1, LayoutNumbers
<1>3. ReadSector(512 + 0, 80 + 0) /\ pc' = "load_kernel"
  BY <1>2, SMT DEF ReadLoop
<1>4. Holds(80, 0, 512) /\ \A i \in 0 .. 0 : 512 + i \in Units
  BY UnitsAreApart, SMT DEF Holds
<1>5. /\ Holds(80, 0 + 1, 512)'
      /\ ram' = [u \in Units |-> ram'[u]]
      /\ \A u \in Units : u # 512 + 0 => ram'[u] = ram[u]
  BY <1>1, <1>3, <1>4, OneMoreRead, SMT
<1>6. Holds(80, 1, 512)'
  BY <1>5, SMT DEF Holds
<1>7. \A u \in 64 .. 71 : ram'[u] = ram[u]
  <2>1. \A u \in 64 .. 71 : u \in Units /\ u # 512 + 0
    BY UnitsAreApart, SMT
  <2> QED BY <1>5, <2>1
<1>8. Stage2Intact'
  BY <1>1, <1>7, IntactOn
<1>9. pc' \notin KernelLoaded
  BY <1>3 DEF KernelLoaded
<1> QED BY <1>3, <1>5, <1>6, <1>8, <1>9 DEF BootInv

LEMMA StepReadKernel ==
    ASSUME BootInv, ReadLoop("read_kernel", "flush") PROVE BootInv'
<1>1. /\ pc = "read_kernel" /\ ram = [u \in Units |-> ram[u]]
      /\ Stage2Intact /\ Holds(80, 1, 512)
  BY DEF ReadLoop, BootInv, InStage2, RamdiskLoaded
<1>2. PICK n \in 0 .. 47 : KernelRead(n)
  BY <1>1 DEF BootInv
<1>3. load.to = 128 + n /\ load.sector = 10 + n /\ load.left = 48 - n
  BY <1>2 DEF KernelRead
<1>4. /\ ReadSector(128 + n, 10 + n)
      /\ load' = [to |-> (128 + n) + 1, sector |-> (10 + n) + 1,
                  left |-> (48 - n) - 1]
      /\ pc' = (IF (48 - n) - 1 = 0 THEN "flush" ELSE "read_kernel")
  BY <1>3 DEF ReadLoop
<1>5. \A i \in 0 .. n : 128 + i \in Units
  <2>1. \A i \in 0 .. n : 128 + i \in 128 .. 175
    BY SMT
  <2> QED BY <2>1, UnitsAreApart
<1>6. n \in Nat /\ Holds(10, n, 128)
  BY <1>2 DEF KernelRead
<1>7. /\ Holds(10, n + 1, 128)'
      /\ failed \subseteq failed'
      /\ ram' = [u \in Units |-> ram'[u]]
      /\ \A u \in Units : u # 128 + n => ram'[u] = ram[u]
  BY <1>1, <1>4, <1>5, <1>6, OneMoreRead
<1>8. Stage2Intact'
  <2>1. \A u \in 64 .. 71 : u \in Units /\ u # 128 + n
    BY UnitsAreApart, SMT
  <2> QED BY <1>1, <1>7, <2>1, IntactOn
<1>9. Holds(80, 1, 512)'
  <2>1. \A i \in 0 .. 1 - 1 : 512 + i = 512 /\ 512 # 128 + n
    BY SMT
  <2>2. ram'[512] = ram[512]
    BY <1>7, <2>1, UnitsAreApart
  <2> QED BY <1>1, <1>7, <2>1, <2>2 DEF Holds
<1>10. CASE n = 47
  <2>1. pc' = "flush"
    BY <1>4, <1>10, SMT
  <2>2. Holds(10, 48, 128)'
    BY <1>7, <1>10, SMT DEF Holds
  <2> QED BY <1>7, <1>8, <1>9, <2>1, <2>2 DEF BootInv
<1>11. CASE n # 47
  <2>1. n + 1 \in 0 .. 47 /\ pc' = "read_kernel"
    BY <1>4, <1>11, SMT
  <2>2. load' = [to |-> 128 + (n + 1), sector |-> 10 + (n + 1), left |-> 48 - (n + 1)]
    BY <1>4, SMT
  <2>3. KernelRead(n + 1)'
    BY <1>7, <2>2 DEF KernelRead
  <2>4. pc' \notin KernelLoaded
    BY <2>1 DEF KernelLoaded
  <2> QED BY <1>7, <1>8, <1>9, <2>1, <2>3, <2>4 DEF BootInv
<1> QED BY <1>10, <1>11

LEMMA PartsKept ==
    /\ Kept \subseteq Units
    /\ \A u \in Kept : /\ u \notin UnitsOfPage(PageDirectory)
                       /\ \A k \in 1 .. 4 : u \notin UnitsOfPage(Tables[k].table)
                       /\ u # StackUnit
<1>1. Kept \subseteq Units
  BY UnitsAreApart DEF Kept
<1>2. \A u \in Kept : u \notin 72 .. 79 /\ u \notin 80 .. 111 /\ u # 511
  BY SMT DEF Kept
<1> QED BY <1>1, <1>2, UnitsAreApart, LayoutNumbers

LEMMA StepClear ==
    ASSUME BootInv, ClearPagedir PROVE BootInv'
<1>1. /\ pc = "flush" /\ pc' = "map1" /\ failed' = failed
      /\ ram' = [u \in Units |-> IF u \in UnitsOfPage(PageDirectory)
                                 THEN <<"pagedir", 0>> ELSE ram[u]]
  BY DEF ClearPagedir
<1>2. ram' = [u \in Units |-> ram'[u]]
  BY <1>1
<1>3. \A u \in Kept : ram'[u] = ram[u]
  BY <1>1, PartsKept
<1>4. pc \in InStage2 /\ pc \in RamdiskLoaded /\ pc \in KernelLoaded
  BY <1>1 DEF InStage2, RamdiskLoaded, KernelLoaded
<1> QED BY <1>1, <1>2, <1>3, <1>4, KeepsBootInv

LEMMA StepMap ==
    ASSUME BootInv, NEW k \in 1 .. 4,
           NEW at \in MapPoints, NEW next \in MapPoints \cup {"enter"},
           MapTable(at, k, next)
    PROVE  BootInv'
<1>1. /\ pc = at /\ pc' = next /\ failed' = failed
      /\ ram' = [u \in Units |-> IF u \in UnitsOfPage(Tables[k].table)
                                 THEN <<"table", k>> ELSE ram[u]]
  BY DEF MapTable
<1>2. ram' = [u \in Units |-> ram'[u]]
  BY <1>1
<1>3. \A u \in Kept : ram'[u] = ram[u]
  BY <1>1, PartsKept
<1>4. /\ pc \in InStage2 /\ pc \in RamdiskLoaded /\ pc \in KernelLoaded
      /\ pc' # "read_ramdisk" /\ pc' # "read_kernel"
  BY <1>1 DEF InStage2, RamdiskLoaded, KernelLoaded, MapPoints
<1> QED BY <1>1, <1>2, <1>3, <1>4, KeepsBootInv

LEMMA StepEnter ==
    ASSUME BootInv, EnterKernel PROVE BootInv'
<1>1. /\ pc = "enter" /\ pc' \in {"kernel", "lost"} /\ failed' = failed
      /\ ram = [u \in Units |-> ram[u]]
      /\ \/ ram' = [ram EXCEPT ![StackUnit] = <<"vidmem", video>>]
         \/ ram' = ram
  BY DEF EnterKernel, BootInv
<1>2. ram' = [u \in Units |-> ram'[u]]
  BY <1>1
<1>3. \A u \in Kept : ram'[u] = ram[u]
  BY <1>1, PartsKept
<1>4. pc \in InStage2 /\ pc \in RamdiskLoaded /\ pc \in KernelLoaded
  BY <1>1 DEF InStage2, RamdiskLoaded, KernelLoaded
<1> QED BY <1>1, <1>2, <1>3, <1>4, KeepsBootInv

LEMMA StepReset ==
    ASSUME BootInv, Reset PROVE BootInv'
<1>1. ram' = [u \in Units |-> ram'[u]] /\ pc' \in {"reset", "read_stage2"}
  BY DEF Reset, BootInv
<1> QED BY <1>1, BeforeStage2

LEMMA StepBoot == BootInv /\ [BootNext]_bootVars => BootInv'
<1> SUFFICES ASSUME BootInv, [BootNext]_bootVars PROVE BootInv'
  OBVIOUS
<1>1. CASE Reset
  BY <1>1, StepReset
<1>2. CASE ReadLoop("read_stage2", "hello")
  BY <1>2, StepStage2
<1>3. CASE JumpToStage2
  BY <1>3, StepJump
<1>4. CASE InitVesa
  BY <1>4, StepVesa
<1>5. CASE StartLoad("load_ramdisk", "read_ramdisk", LoadRamdisk)
  BY <1>5, StepStartRamdisk
<1>6. CASE ReadLoop("read_ramdisk", "load_kernel")
  BY <1>6, StepReadRamdisk
<1>7. CASE StartLoad("load_kernel", "read_kernel", LoadKernel)
  BY <1>7, StepStartKernel
<1>8. CASE ReadLoop("read_kernel", "flush")
  BY <1>8, StepReadKernel
<1>9. CASE ClearPagedir
  BY <1>9, StepClear
<1>10. CASE \/ MapTable("map1", 1, "map2")
            \/ MapTable("map2", 2, "map3")
            \/ MapTable("map3", 3, "map4")
            \/ MapTable("map4", 4, "enter")
  <2>1. 1 \in 1 .. 4 /\ 2 \in 1 .. 4 /\ 3 \in 1 .. 4 /\ 4 \in 1 .. 4
    BY SMT
  <2> QED BY <1>10, <2>1, StepMap DEF MapPoints
<1>11. CASE EnterKernel
  BY <1>11, StepEnter
<1>12. CASE UNCHANGED bootVars
  <2>1. /\ ram' = ram /\ failed' = failed /\ load' = load /\ pc' = pc
    BY <1>12 DEF bootVars
  <2> QED
    BY <2>1 DEF BootInv, KernelRead, Holds, Stage2Intact
<1> QED
  BY <1>1, <1>2, <1>3, <1>4, <1>5, <1>6, <1>7, <1>8, <1>9, <1>10, <1>11, <1>12
  DEF BootNext

-----------------------------------------------------------------------------
(* The theorems *)

(* From the moment a sector is read to its place, memory holds it there.     *)
THEOREM BootInvariant == BootSpec => []BootInv
<1> QED BY InitBoot, StepBoot, PTL DEF BootSpec

(* Stage 2 never overwrites its own code, whatever it reads and maps.        *)
THEOREM Stage2Stays == BootSpec => []Stage2StaysIntact
<1>1. BootInv => Stage2StaysIntact
  BY DEF BootInv, Stage2StaysIntact
<1> QED BY <1>1, BootInvariant, PTL

(* The kernel is entered with every sector that could be read in its place.  *)
THEOREM ImageStaysInPlace == BootSpec => []ImageInPlace
<1>1. BootInv => ImageInPlace
  <2> SUFFICES ASSUME BootInv, pc = "kernel" PROVE ImageInPlace
    BY DEF ImageInPlace
  <2>1. Holds(10, 48, 128) /\ Holds(80, 1, 512)
    BY DEF BootInv, RamdiskLoaded, KernelLoaded
  <2>2. \A i \in 0 .. 47 : 10 + i \notin failed => ram[128 + i] = <<"disk", 10 + i>>
    BY <2>1, SMT DEF Holds
  <2>3. 80 \notin failed => ram[512] = <<"disk", 80>>
    <3>1. 0 \in 0 .. 1 - 1 /\ 80 + 0 = 80 /\ 512 + 0 = 512
      BY SMT
    <3> QED BY <2>1, <3>1 DEF Holds
  <2> QED BY <2>2, <2>3, LayoutNumbers DEF ImageInPlace
<1> QED BY <1>1, BootInvariant, PTL

-----------------------------------------------------------------------------
(* The directory *)

FromMap3 == {"map4", "enter"}
FromMap2 == {"map3"} \cup FromMap3
FromMap1 == {"map2"} \cup FromMap2

AfterVesa == {"load_ramdisk", "read_ramdisk"} \cup RamdiskLoaded

(* An entry that the video memory's is not written to, or not yet.           *)
Whole(i) == pc = "enter" => i \notin EntriesAt(video)

EntryIs(dir, i, base) == i \in DOMAIN dir /\ dir[i] = base

(* Each entry is there from its write on, if the video memory's is not       *)
(* written over it.                                                          *)
MapInv ==
    /\ pagedir = [i \in DOMAIN pagedir |-> pagedir[i]]
    /\ DOMAIN pagedir \subseteq 0 .. 1023
    /\ pc \in AfterVesa => video \in VideoBases
    /\ pc \in FromMap1 /\ Whole(0) => EntryIs(pagedir, 0, 0)
    /\ pc \in FromMap2 /\ Whole(768) => EntryIs(pagedir, 768, 16)
    /\ pc \in FromMap3 /\ Whole(772) => EntryIs(pagedir, 772, 256)
    /\ pc = "enter" /\ video % 4 = 0 => EntryIs(pagedir, video \div 4, 256 * video)

LEMMA TableEntries ==
    /\ Tables[1].offset = 4 * 0 /\ Tables[1].base = 0
    /\ Tables[2].offset = 4 * 768 /\ Tables[2].base = 16
    /\ Tables[3].offset = 4 * 772 /\ Tables[3].base = 256
    /\ Tables[4].offset = video /\ Tables[4].base = 256 * video
<1>1. 65536 \div 4096 = 16 /\ 1048576 \div 4096 = 256 /\ 4 * 0 = 0
  BY SMT
<1>. QED BY <1>1 DEF Tables, Page

LEMMA MapTableEffect ==
    ASSUME NEW at, NEW k, NEW next, MapTable(at, k, next)
    PROVE  pc = at /\ pc' = next /\ video' = video
  BY DEF MapTable

EntryWritten(index, base) ==
    pagedir' = [i \in DOMAIN pagedir \cup {index} |->
                  IF i = index THEN base ELSE pagedir[i]]

EntryScattered(index) ==
    pagedir' = [i \in DOMAIN pagedir \ {index + 1} |->
                  IF i = index THEN Stray ELSE pagedir[i]]

LEMMA MapTableWrites ==
    ASSUME NEW at, NEW k, NEW next, MapTable(at, k, next)
    PROVE  LET t == Tables[k]
           IN  IF t.offset % 4 = 0 THEN EntryWritten(t.offset \div 4, t.base)
                                   ELSE EntryScattered(t.offset \div 4)
  BY DEF MapTable, EntryWritten, EntryScattered

LEMMA AlignedTableWrites ==
    ASSUME NEW at, NEW k, NEW next, MapTable(at, k, next),
           NEW index \in Nat, Tables[k].offset = 4 * index
    PROVE  EntryWritten(index, Tables[k].base)
<1>1. (4 * index) % 4 = 0 /\ (4 * index) \div 4 = index
  BY SMT
<1>. QED BY <1>1, MapTableWrites

\* What a write of a whole entry does.
OneEntryChanged(index, base) ==
    /\ pagedir' = [i \in DOMAIN pagedir' |-> pagedir'[i]]
    /\ DOMAIN pagedir' \subseteq 0 .. 1023
    /\ EntryIs(pagedir', index, base)
    /\ \A i, to : i # index /\ EntryIs(pagedir, i, to) => EntryIs(pagedir', i, to)

LEMMA WrittenEntries ==
    ASSUME MapInv, NEW index \in 0 .. 1023, NEW base, EntryWritten(index, base)
    PROVE  OneEntryChanged(index, base)
<1>1. /\ DOMAIN pagedir' = DOMAIN pagedir \cup {index}
      /\ pagedir' = [i \in DOMAIN pagedir' |-> pagedir'[i]]
      /\ pagedir'[index] = base
      /\ \A i \in DOMAIN pagedir : i # index => pagedir'[i] = pagedir[i]
  BY DEF EntryWritten
<1>. QED BY <1>1 DEF MapInv, EntryIs, OneEntryChanged

LEMMA ScatteredEntries ==
    ASSUME MapInv, NEW index \in Nat, EntryScattered(index)
    PROVE  /\ pagedir' = [i \in DOMAIN pagedir' |-> pagedir'[i]]
           /\ DOMAIN pagedir' \subseteq 0 .. 1023
           /\ \A i, to : i \notin {index, index + 1} /\ EntryIs(pagedir, i, to)
                            => EntryIs(pagedir', i, to)
<1>1. /\ DOMAIN pagedir' = DOMAIN pagedir \ {index + 1}
      /\ pagedir' = [i \in DOMAIN pagedir' |-> pagedir'[i]]
      /\ \A i \in DOMAIN pagedir : i \notin {index, index + 1} => pagedir'[i] = pagedir[i]
  BY DEF EntryScattered
<1>. QED BY <1>1 DEF MapInv, EntryIs

LEMMA MapStepTable ==
    ASSUME MapInv,
           \/ MapTable("map1", 1, "map2")
           \/ MapTable("map2", 2, "map3")
           \/ MapTable("map3", 3, "map4")
           \/ MapTable("map4", 4, "enter")
    PROVE  MapInv'
<1>1. CASE MapTable("map1", 1, "map2")
  <2>1. pc = "map1" /\ pc' = "map2" /\ video' = video /\ EntryWritten(0, 0)
    BY <1>1, MapTableEffect, AlignedTableWrites, TableEntries
  <2>2. video \in VideoBases
    BY <2>1 DEF MapInv, AfterVesa, RamdiskLoaded, KernelLoaded
  <2>3. OneEntryChanged(0, 0)
    BY <2>1, WrittenEntries
  <2>. QED BY <2>1, <2>2, <2>3 DEF OneEntryChanged, MapInv, FromMap1, FromMap2,
           FromMap3
<1>2. CASE MapTable("map2", 2, "map3")
  <2>1. pc = "map2" /\ pc' = "map3" /\ video' = video /\ EntryWritten(768, 16)
    BY <1>2, MapTableEffect, AlignedTableWrites, TableEntries
  <2>2. video \in VideoBases /\ EntryIs(pagedir, 0, 0)
    BY <2>1 DEF MapInv, AfterVesa, RamdiskLoaded, KernelLoaded, FromMap1, Whole
  <2>3. OneEntryChanged(768, 16)
    BY <2>1, WrittenEntries
  <2>. QED BY <2>1, <2>2, <2>3 DEF OneEntryChanged, MapInv, FromMap1, FromMap2,
           FromMap3
<1>3. CASE MapTable("map3", 3, "map4")
  <2>1. pc = "map3" /\ pc' = "map4" /\ video' = video /\ EntryWritten(772, 256)
    BY <1>3, MapTableEffect, AlignedTableWrites, TableEntries
  <2>2. video \in VideoBases /\ EntryIs(pagedir, 0, 0) /\ EntryIs(pagedir, 768, 16)
    BY <2>1 DEF MapInv, AfterVesa, RamdiskLoaded, KernelLoaded, FromMap1, FromMap2,
                Whole
  <2>3. OneEntryChanged(772, 256)
    BY <2>1, WrittenEntries
  <2>. QED BY <2>1, <2>2, <2>3 DEF OneEntryChanged, MapInv, FromMap1, FromMap2,
           FromMap3
<1>4. CASE MapTable("map4", 4, "enter")
  <2> DEFINE v == video \div 4
  <2>1. /\ pc = "map4" /\ pc' = "enter" /\ video' = video
        /\ IF video % 4 = 0 THEN EntryWritten(v, 256 * video) ELSE EntryScattered(v)
    BY <1>4, MapTableEffect, MapTableWrites, TableEntries
  <2>2. /\ video \in VideoBases
        /\ EntryIs(pagedir, 0, 0) /\ EntryIs(pagedir, 768, 16) /\ EntryIs(pagedir, 772, 256)
    BY <2>1 DEF MapInv, AfterVesa, RamdiskLoaded, KernelLoaded, FromMap1, FromMap2,
                FromMap3, Whole
  <2>3. v \in 0 .. 1023
    <3>1. video \in 0 .. 4095
      BY <2>2, BootAssumption DEF BootAssumption
    <3>. QED BY <3>1, SMT
  <2>4. EntriesAt(video)' = {v} \cup (IF video % 4 = 0 THEN {} ELSE {v + 1})
    BY <2>1 DEF EntriesAt
  <2>5. (video \div 4)' = v
    BY <2>1
  <2>. HIDE DEF v
  <2>6. CASE video % 4 = 0
    <3>1. EntriesAt(video)' = {v}
      BY <2>4, <2>6
    <3>2. OneEntryChanged(v, 256 * video)
      BY <2>1, <2>3, <2>6, WrittenEntries
    <3>3. EntryIs(pagedir', video' \div 4, 256 * video')
      BY <2>1, <2>5, <3>2 DEF OneEntryChanged
    <3>. QED BY <2>1, <2>2, <3>1, <3>2, <3>3
             DEF OneEntryChanged, MapInv, Whole, FromMap1, FromMap2, FromMap3
  <2>7. CASE video % 4 # 0
    <3>1. EntriesAt(video)' = {v, v + 1}
      BY <2>4, <2>7
    <3>. QED BY <2>1, <2>2, <2>3, <2>7, <3>1, ScatteredEntries DEF MapInv, Whole
  <2>. QED BY <2>6, <2>7
<1>. QED BY <1>1, <1>2, <1>3, <1>4

(* Every other step leaves the directory alone, or clears it.                *)
LEMMA MapStepOther ==
    ASSUME MapInv,
           pagedir' = pagedir \/ pagedir' = [i \in {} |-> 0],
           pc' \in FromMap1 => UNCHANGED <<pc, pagedir, video>>,
           pc' \in AfterVesa => video' \in VideoBases
    PROVE  MapInv'
<1>1. CASE pc' \in FromMap1
  BY <1>1 DEF MapInv, Whole, EntryIs, EntriesAt
<1>2. CASE pc' \notin FromMap1
  <2>1. pc' \notin FromMap2 /\ pc' \notin FromMap3 /\ pc' # "enter"
    BY <1>2 DEF FromMap1, FromMap2, FromMap3
  <2>2. /\ pagedir' = [i \in DOMAIN pagedir' |-> pagedir'[i]]
        /\ DOMAIN pagedir' \subseteq 0 .. 1023
    <3>1. CASE pagedir' = pagedir
      BY <3>1 DEF MapInv
    <3>2. CASE pagedir' = [i \in {} |-> 0]
      BY <3>2
    <3>. QED BY <3>1, <3>2
  <2>. QED BY <1>2, <2>1, <2>2 DEF MapInv
<1>. QED BY <1>1, <1>2

LEMMA MapStep ==
    ASSUME MapInv, [BootNext]_bootVars PROVE MapInv'
<1>1. CASE \/ MapTable("map1", 1, "map2")
           \/ MapTable("map2", 2, "map3")
           \/ MapTable("map3", 3, "map4")
           \/ MapTable("map4", 4, "enter")
  BY <1>1, MapStepTable
<1>0. pc \in AfterVesa => video \in VideoBases
  BY DEF MapInv
<1>. USE DEF FromMap1, FromMap2, FromMap3, AfterVesa, RamdiskLoaded, KernelLoaded
<1>2. CASE Reset \/ ReadLoop("read_stage2", "hello") \/ JumpToStage2
  BY <1>2, MapStepOther DEF Reset, ReadLoop, JumpToStage2
<1>3. CASE InitVesa
  BY <1>3, MapStepOther DEF InitVesa
<1>4. CASE StartLoad("load_ramdisk", "read_ramdisk", LoadRamdisk)
  BY <1>0, <1>4, MapStepOther DEF StartLoad
<1>5. CASE StartLoad("load_kernel", "read_kernel", LoadKernel)
  BY <1>0, <1>5, MapStepOther DEF StartLoad
<1>9. CASE ReadLoop("read_ramdisk", "load_kernel")
  BY <1>0, <1>9, MapStepOther DEF ReadLoop
<1>10. CASE ReadLoop("read_kernel", "flush")
  BY <1>0, <1>10, MapStepOther DEF ReadLoop
<1>6. CASE ClearPagedir
  BY <1>0, <1>6, MapStepOther DEF ClearPagedir
<1>7. CASE EnterKernel
  BY <1>0, <1>7, MapStepOther DEF EnterKernel
<1>8. CASE UNCHANGED bootVars
  BY <1>0, <1>8, MapStepOther DEF bootVars
<1>. QED BY <1>1, <1>2, <1>3, <1>4, <1>5, <1>6, <1>7, <1>8, <1>9, <1>10 DEF BootNext

LEMMA MapStart == ASSUME BootInit PROVE MapInv
<1>1. pc = "reset" /\ pagedir = [i \in {} |-> 0]
  BY DEF BootInit
<1>. QED BY <1>1 DEF MapInv, FromMap1, FromMap2, FromMap3, AfterVesa, RamdiskLoaded,
                     KernelLoaded

(* What the entries amount to when paging is switched on.                    *)
LEMMA MappedByEntries ==
    ASSUME MapInv, pc = "enter"
    PROVE  MappedOnEntry
<1>1. /\ video \in VideoBases
      /\ 0 \notin EntriesAt(video) => EntryIs(pagedir, 0, 0)
      /\ 768 \notin EntriesAt(video) => EntryIs(pagedir, 768, 16)
      /\ 772 \notin EntriesAt(video) => EntryIs(pagedir, 772, 256)
      /\ video % 4 = 0 => EntryIs(pagedir, video \div 4, 256 * video)
  BY DEF MapInv, Whole, FromMap1, FromMap2, FromMap3, AfterVesa, RamdiskLoaded,
         KernelLoaded
<1>2. /\ Page(32768) = 8 /\ Page(262144) = 64 /\ Page(65536) = 16
      /\ Page(1048576) = 256 /\ KernelPage = 786432 /\ PageDirectory = 9
  BY LayoutNumbers, SMT DEF Page, KernelPage
<1>3. ASSUME 0 \notin EntriesAt(video), NEW page \in 0 .. 1023 PROVE MapsTo(page, page)
  <2>1. page \div 1024 = 0 /\ page % 1024 = page
    BY SMT
  <2>. QED BY <1>1, <1>3, <2>1 DEF MapsTo, EntryIs, Stray
<1>4. ASSUME 768 \notin EntriesAt(video), NEW i \in 0 .. 1023
      PROVE  MapsTo(786432 + i, 16 + i)
  <2>1. (786432 + i) \div 1024 = 768 /\ (786432 + i) % 1024 = i
    BY SMT
  <2>. QED BY <1>1, <1>4, <2>1 DEF MapsTo, EntryIs, Stray
<1>5. ASSUME 772 \notin EntriesAt(video), NEW i \in 0 .. 1023
      PROVE  MapsTo(786432 + 4096 + i, 256 + i)
  <2>1. (786432 + 4096 + i) \div 1024 = 772 /\ (786432 + 4096 + i) % 1024 = i
    BY SMT
  <2>. QED BY <1>1, <1>5, <2>1 DEF MapsTo, EntryIs, Stray
<1>6. ASSUME video % 4 = 0, NEW i \in 0 .. 1023
      PROVE  MapsTo(256 * video + i, 256 * video + i)
  <2> DEFINE v == video \div 4
  <2>1. video \in Nat
    BY <1>1, BootAssumption DEF BootAssumption
  <2>2. v \in Nat /\ video = 4 * v
    BY <1>6, <2>1, SMT
  <2>3. v \in DOMAIN pagedir /\ pagedir[v] = 256 * video
    BY <1>1, <1>6 DEF EntryIs
  <2>. HIDE DEF v
  <2>4. 256 * video = 1024 * v /\ 256 * video \in Nat
    BY <2>1, <2>2, SMT
  <2>5. (1024 * v + i) \div 1024 = v /\ (1024 * v + i) % 1024 = i
    BY <2>2, SMT
  <2>. QED BY <2>3, <2>4, <2>5 DEF MapsTo, Stray
<1>8. /\ {8, 64 - 1, 64} \cup (9 .. 9 + 4) \subseteq 0 .. 1023
      /\ {0, 1, 1023} \cup (0 .. 5) \subseteq 0 .. 1023
  BY SMT
<1>. QED BY <1>2, <1>3, <1>4, <1>5, <1>6, <1>8 DEF MappedOnEntry

-----------------------------------------------------------------------------
(* Types *)

(* The loop that reads stage 2 is at its n-th sector.                        *)
LoadInv ==
    /\ pc \in {"reset", "hello", "lost", "kernel"} \cup ReadPoints \cup InStage2
    /\ DOMAIN ram = Units
    /\ pc = "read_stage2" => \E n \in 0 .. 8 :
          load = [to |-> 64 + n, sector |-> 1 + n, left |-> 9 - n]

LEMMA LoadStart == ASSUME BootInit PROVE LoadInv
  BY DEF BootInit, LoadInv

LEMMA LoadOther ==
    ASSUME pc' \in {"reset", "hello", "lost", "kernel", "read_ramdisk", "read_kernel"}
                   \cup InStage2,
           pc' # "read_stage2", DOMAIN ram' = Units
    PROVE  LoadInv'
  BY DEF LoadInv, ReadPoints

LEMMA LoadStep ==
    ASSUME LoadInv, [BootNext]_bootVars PROVE LoadInv'
<1>. USE DEF InStage2, MapPoints
<1>0. DOMAIN ram = Units
  BY DEF LoadInv
<1>1. CASE Reset
  <2>1. /\ pc' \in {"reset", "read_stage2"} /\ ram' = ram
        /\ load' = [to |-> 64, sector |-> 1, left |-> 9]
    BY <1>1, LayoutNumbers DEF Reset
  <2>2. load' = [to |-> 64 + 0, sector |-> 1 + 0, left |-> 9 - 0] /\ 0 \in 0 .. 8
    BY <2>1, SMT
  <2>. QED BY <1>0, <2>1, <2>2 DEF LoadInv, ReadPoints
<1>2. CASE ReadLoop("read_stage2", "hello")
  <2>1. /\ pc = "read_stage2" /\ DOMAIN ram' = Units
        /\ load' = [to |-> load.to + 1, sector |-> load.sector + 1, left |-> load.left - 1]
        /\ pc' = IF load.left - 1 = 0 THEN "hello" ELSE "read_stage2"
    BY <1>0, <1>2 DEF ReadLoop, ReadSector
  <2>2. PICK n \in 0 .. 8 : load = [to |-> 64 + n, sector |-> 1 + n, left |-> 9 - n]
    BY <2>1 DEF LoadInv
  <2>3. load' = [to |-> 64 + (n + 1), sector |-> 1 + (n + 1), left |-> 9 - (n + 1)]
    BY <2>1, <2>2
  <2>4. CASE n = 8
    <3>1. pc' = "hello"
      BY <2>1, <2>2, <2>4
    <3>. QED BY <2>1, <3>1, LoadOther
  <2>5. CASE n # 8
    <3>1. pc' = "read_stage2" /\ n + 1 \in 0 .. 8
      BY <2>1, <2>2, <2>5
    <3>. QED BY <2>1, <2>3, <3>1 DEF LoadInv, ReadPoints
  <2>. QED BY <2>4, <2>5
<1>3. CASE JumpToStage2 \/ InitVesa \/ EnterKernel
  BY <1>0, <1>3, LoadOther DEF JumpToStage2, InitVesa, EnterKernel
<1>4. CASE \/ StartLoad("load_ramdisk", "read_ramdisk", LoadRamdisk)
           \/ StartLoad("load_kernel", "read_kernel", LoadKernel)
  BY <1>0, <1>4, LoadOther DEF StartLoad
<1>5. CASE \/ ReadLoop("read_ramdisk", "load_kernel")
           \/ ReadLoop("read_kernel", "flush")
  BY <1>0, <1>5, LoadOther DEF ReadLoop, ReadSector
<1>6. CASE ClearPagedir
  BY <1>6, LoadOther DEF ClearPagedir
<1>7. CASE \/ MapTable("map1", 1, "map2")
           \/ MapTable("map2", 2, "map3")
           \/ MapTable("map3", 3, "map4")
           \/ MapTable("map4", 4, "enter")
  BY <1>7, LoadOther DEF MapTable
<1>8. CASE UNCHANGED bootVars
  BY <1>8 DEF bootVars, LoadInv
<1>. QED BY <1>1, <1>2, <1>3, <1>4, <1>5, <1>6, <1>7, <1>8 DEF BootNext

LEMMA ReadsInLayout ==
    ASSUME BootInv, LoadInv, pc \in ReadPoints
    PROVE  load.to \in Units /\ load.left > 0 /\ load.sector \in 1 .. 80
<1>1. CASE pc = "read_stage2"
  <2>1. PICK n \in 0 .. 8 : load = [to |-> 64 + n, sector |-> 1 + n, left |-> 9 - n]
    BY <1>1 DEF LoadInv
  <2>2. load.to = 64 + n
    BY <2>1
  <2>3. 64 + n \in Units
    BY LayoutNumbers DEF Units
  <2>. QED BY <2>1, <2>2, <2>3
<1>2. CASE pc = "read_ramdisk"
  BY <1>2, LayoutNumbers, UnitsAreApart DEF BootInv
<1>3. CASE pc = "read_kernel"
  <2>1. PICK n \in 0 .. 47 : KernelRead(n)
    BY <1>3 DEF BootInv
  <2>2. load.to = 128 + n /\ load.sector = 10 + n /\ load.left = 48 - n
    BY <2>1 DEF KernelRead
  <2>3. 128 + n \in Units
    BY LayoutNumbers DEF Units
  <2>. QED BY <2>2, <2>3
<1>. QED BY <1>1, <1>2, <1>3 DEF ReadPoints

-----------------------------------------------------------------------------

(* The boot chain writes only where the layout has room, and reads only      *)
(* sectors of the image, whichever reads fail and wherever the video memory  *)
(* is.                                                                       *)
THEOREM BootTypeCorrect == BootSpec => []BootTypeOK
<1>1. BootInit => MapInv /\ LoadInv
  BY MapStart, LoadStart
<1>2. MapInv /\ LoadInv /\ [BootNext]_bootVars => (MapInv /\ LoadInv)'
  BY MapStep, LoadStep
<1>3. BootInv /\ MapInv /\ LoadInv => BootTypeOK
  BY ReadsInLayout DEF BootTypeOK, MapInv, LoadInv
<1>. QED BY <1>1, <1>2, <1>3, BootInvariant, PTL DEF BootSpec

(* Wherever the video memory is: when paging is switched on, the code that   *)
(* runs, the stack, the ramdisk, the tables, the kernel and its data are     *)
(* mapped, each unless the video memory's entry is written to its own.       *)
THEOREM MappedAtEntry == BootSpec => []MappedOnEntry
<1>1. BootInit => MapInv
  BY MapStart
<1>2. MapInv /\ [BootNext]_bootVars => MapInv'
  BY MapStep
<1>3. MapInv => MappedOnEntry
  BY MappedByEntries DEF MappedOnEntry
<1>. QED BY <1>1, <1>2, <1>3, PTL DEF BootSpec
=============================================================================
