-------------------------------- MODULE Boot --------------------------------
(* boot.asm and stage2.asm: the sectors of the image are read through the    *)
(* BIOS, the page tables of the start are written, and the kernel entered.   *)
(* Memory is counted in units of a sector, 512 bytes, page tables in pages   *)
(* of 4 KB, and the address of the video memory in MB.  The A20 gate, the    *)
(* GDT and what is printed are left out.                                     *)
EXTENDS Integers, Sequences, FiniteSets

CONSTANTS
    MaxFailures,   \* bound on the sectors that the drive fails to read
    VideoBases     \* the addresses the video memory may have, in MB

BootAssumption == /\ MaxFailures \in Nat
                  /\ VideoBases \subseteq (0 .. 4095)
ASSUME BootAssumption

VARIABLES
    pc,        \* the part of the code that runs
    load,      \* es:bx, ax and cx of read_loop
    ram,       \* what each unit of memory that is written holds
    pagedir,   \* the directory's present entries: the page that entry 0 of
               \* their table, whose entries follow one another, maps, or Stray
    video,     \* t_vidmem
    failed     \* history: the sectors whose reading failed

bootVars == <<pc, load, ram, pagedir, video, failed>>

-----------------------------------------------------------------------------
(* The layout *)

Unit(address) == address \div 512

Page(address) == address \div 4096

Stray == -1    \* a present entry that names no table

(* The three calls of read_loop: to a unit, from a sector, so many.  cx is   *)
(* counted down before it is tested.                                         *)
LoadStage2  == [to |-> Unit(32768), sector |-> 1, left |-> 9]

LoadRamdisk == [to |-> Unit(262144), sector |-> 80, left |-> 1]

\* Mutant: the sectors are counted from 1.
LoadKernel_FromNine == [to |-> Unit(65536), sector |-> 9, left |-> 48]

\* Mutant: as many sectors as the older loader reads.
LoadKernel_BootSize == [to |-> Unit(65536), sector |-> 10, left |-> 85]

LoadKernel  == [to |-> Unit(65536), sector |-> 10, left |-> 48]

(* stage2.bin is one page, as it is aligned after its code: sectors 1 to 8.  *)
(* Its end is the label pd.                                                  *)
Stage2Sectors == 1 .. 8

\* Mutant: stage 2 is not padded to a page.
PageDirectory_Unaligned == Page(32768)

PageDirectory == Page(32768) + 1

\* Mutant: the entry's number is taken for its offset.
Tables_ShiftedBy22 ==
    << [offset |-> 0,          table |-> PageDirectory + 1, base |-> 0],
       [offset |-> 4 * 768,    table |-> PageDirectory + 2, base |-> Page(65536)],
       [offset |-> 4 * 772,    table |-> PageDirectory + 3, base |-> Page(1048576)],
       [offset |-> video \div 4, table |-> PageDirectory + 4, base |-> 256 * video] >>

(* The directory entries written, in order: the page of the table, and the   *)
(* page that its first entry maps.  An entry for the video memory is written *)
(* at the byte (address >> 20): at an entry, if that is divisible by 4.      *)
Tables ==
    << [offset |-> 0,          table |-> PageDirectory + 1, base |-> 0],
       [offset |-> 4 * 768,    table |-> PageDirectory + 2, base |-> Page(65536)],
       [offset |-> 4 * 772,    table |-> PageDirectory + 3, base |-> Page(1048576)],
       [offset |-> video,      table |-> PageDirectory + 4, base |-> 256 * video] >>

(* kinit.asm is linked at K_BASE, page 0xC0000, and takes t_vidmem from the  *)
(* stack below stackTopPhys.                                                 *)
KernelPage == 768 * 1024

StackUnit == Unit(262144) - 1

UnitsOfPage(page) == 8 * page .. 8 * page + 7

Units == {LoadStage2.to + i : i \in 0 .. LoadStage2.left - 1}
         \cup {LoadRamdisk.to + i : i \in 0 .. LoadRamdisk.left - 1}
         \cup {LoadKernel.to + i : i \in 0 .. LoadKernel.left - 1}
         \cup (UNION {UnitsOfPage(PageDirectory + i) : i \in 0 .. 4})
         \cup {StackUnit}

-----------------------------------------------------------------------------
(* Reading *)

(* lba_to_chs: cylinder, head and sector, which the BIOS counts from 1. *)
Chs(lba) == [ch |-> (lba \div 18) \div 2, dh |-> (lba \div 18) % 2,
             cl |-> (lba % 18) + 1]

(* The sector of a floppy disk that the BIOS finds there. *)
SectorAt(chs) == (chs.ch * 2 + chs.dh) * 18 + chs.cl - 1

(* One sector.  Neither the carry flag after the reset nor the one after the *)
(* reading is tested: a sector that cannot be read leaves what was there.    *)
ReadSector(to, lba) ==
    \/ /\ ram' = [ram EXCEPT ![to] = <<"disk", SectorAt(Chs(lba))>>]
       /\ failed' = failed
    \/ /\ Cardinality(failed) < MaxFailures
       /\ ram' = ram
       /\ failed' = failed \cup {lba}

(* An iteration of read_loop; when it ends the code at next goes on. *)
ReadLoop(at, next) ==
    /\ pc = at
    /\ ReadSector(load.to, load.sector)
    /\ load' = [to |-> load.to + 1, sector |-> load.sector + 1,
                left |-> load.left - 1]
    /\ pc' = IF load.left - 1 = 0 THEN next ELSE at
    /\ UNCHANGED <<pagedir, video>>

StartLoad(at, next, what) ==
    /\ pc = at
    /\ pc' = next
    /\ load' = what
    /\ UNCHANGED <<ram, pagedir, video, failed>>

-----------------------------------------------------------------------------
(* The chain *)

BootInit == /\ pc = "reset"
            /\ load = LoadStage2
            /\ ram = [u \in Units |-> <<"other", 0>>]
            /\ pagedir = [i \in {} |-> 0]
            /\ video = 0
            /\ failed = {}

(* The reset of the drive is repeated until it succeeds. *)
Reset == /\ pc = "reset"
         /\ pc' \in {"reset", "read_stage2"}
         /\ load' = LoadStage2
         /\ UNCHANGED <<ram, pagedir, video, failed>>

(* What runs at stage2Base is stage 2 if its sectors are there; if not, the  *)
(* machine runs whatever there is.                                           *)
Stage2Intact ==
    \A s \in Stage2Sectors : ram[LoadStage2.to + s - 1] = <<"disk", s>>

JumpToStage2 == /\ pc = "hello"
                /\ pc' = IF Stage2Intact THEN "vesa" ELSE "lost"
                /\ UNCHANGED <<load, ram, pagedir, video, failed>>

(* initizeVESA prints NO VESA for ever, or answers where video memory is. *)
InitVesa == /\ pc = "vesa"
            /\ \/ pc' = "NoVesa2" /\ video' = video
               \/ pc' = "load_ramdisk" /\ video' \in VideoBases
            /\ UNCHANGED <<load, ram, pagedir, failed>>

(* Protected mode, and the directory cleared. *)
ClearPagedir ==
    /\ pc = "flush"
    /\ pc' = "map1"
    /\ pagedir' = [i \in {} |-> 0]
    /\ ram' = [u \in Units |-> IF u \in UnitsOfPage(PageDirectory)
                               THEN <<"pagedir", 0>> ELSE ram[u]]
    /\ UNCHANGED <<load, video, failed>>

(* The entries that hold a byte of the entry written at that byte.  Of the   *)
(* last entry, the rest goes to page 0 of the first table, which is unused.  *)
EntriesAt(offset) ==
    {offset \div 4} \cup (IF offset % 4 = 0 THEN {} ELSE {offset \div 4 + 1})

(* A directory entry and its table.  Written across two entries it keeps the *)
(* low byte of the first, which if present names another table, and makes    *)
(* that of the second even: it is not present.                               *)
MapTable(at, k, next) ==
    LET t == Tables[k]
        index == t.offset \div 4
    IN  /\ pc = at
        /\ pc' = next
        /\ pagedir' =
              IF t.offset % 4 = 0
              THEN [i \in DOMAIN pagedir \cup {index} |->
                      IF i = index THEN t.base ELSE pagedir[i]]
              ELSE [i \in DOMAIN pagedir \ {index + 1} |->
                      IF i = index THEN Stray ELSE pagedir[i]]
        /\ ram' = [u \in Units |-> IF u \in UnitsOfPage(t.table)
                                   THEN <<"table", k>> ELSE ram[u]]
        /\ UNCHANGED <<load, video, failed>>

(* Does the directory map a page, and the others of its table, to that page? *)
MapsTo(page, to) ==
    LET index == page \div 1024
    IN  /\ index \in DOMAIN pagedir
        /\ pagedir[index] # Stray
        /\ pagedir[index] + (page % 1024) = to

(* Paging is switched on, t_vidmem pushed and the kernel entered, if the     *)
(* video memory has left the code, the stack and the kernel mapped.          *)
EnterKernel ==
    LET running == MapsTo(Page(32768), Page(32768))
    IN  /\ pc = "enter"
        /\ pc' = IF running /\ MapsTo(KernelPage, Page(65536))
                 THEN "kernel" ELSE "lost"
        /\ ram' = IF running THEN [ram EXCEPT ![StackUnit] = <<"vidmem", video>>]
                             ELSE ram
        /\ UNCHANGED <<load, pagedir, video, failed>>

BootNext ==
    \/ Reset
    \/ ReadLoop("read_stage2", "hello")
    \/ JumpToStage2
    \/ InitVesa
    \/ StartLoad("load_ramdisk", "read_ramdisk", LoadRamdisk)
    \/ ReadLoop("read_ramdisk", "load_kernel")
    \/ StartLoad("load_kernel", "read_kernel", LoadKernel)
    \/ ReadLoop("read_kernel", "flush")
    \/ ClearPagedir
    \/ MapTable("map1", 1, "map2")
    \/ MapTable("map2", 2, "map3")
    \/ MapTable("map3", 3, "map4")
    \/ MapTable("map4", 4, "enter")
    \/ EnterKernel

BootSpec == BootInit /\ [][BootNext]_bootVars

-----------------------------------------------------------------------------
(* Properties *)

ReadPoints == {"read_stage2", "read_ramdisk", "read_kernel"}

MapPoints == {"map1", "map2", "map3", "map4"}

InStage2 == {"vesa", "NoVesa2", "load_ramdisk", "read_ramdisk", "load_kernel",
             "read_kernel", "flush", "enter"} \cup MapPoints

(* Units of memory are only written where the layout has room for them, and  *)
(* no sector is read that the image does not have.                           *)
BootTypeOK ==
    /\ pc \in {"reset", "hello", "lost", "kernel"} \cup ReadPoints \cup InStage2
    /\ pc \in ReadPoints => /\ load.to \in Units
                            /\ load.left > 0
                            /\ load.sector \in 1 .. 80
    /\ DOMAIN ram = Units
    /\ DOMAIN pagedir \subseteq 0 .. 1023

(* Stage 2 reads and writes the memory around itself: the kernel above it,   *)
(* the ramdisk, the page tables behind it.  Its own code stays as it was     *)
(* loaded.                                                                   *)
Stage2StaysIntact == pc \in InStage2 => Stage2Intact

(* When the kernel is entered, each sector that could be read is where the   *)
(* kernel and rd_init look for it: no later load, page table or push has     *)
(* gone over it.                                                             *)
ImageInPlace ==
    pc = "kernel" =>
       /\ \A i \in 0 .. 47 : 10 + i \notin failed =>
             ram[Unit(65536) + i] = <<"disk", 10 + i>>
       /\ 80 \notin failed => ram[Unit(262144)] = <<"disk", 80>>

(* When paging is switched on, the code that runs, the stack, the ramdisk    *)
(* and the tables are where they were, the kernel is at K_BASE and its data  *)
(* 16 MB above, but for what lies in the 4 MB, or the two times 4 MB, that   *)
(* the video memory's entry is written to; and the video memory is at its    *)
(* own address, if that is a multiple of 4 MB.                               *)
MappedOnEntry ==
    pc = "enter" =>
       LET Spared(i) == i \notin EntriesAt(video)
       IN  /\ Spared(0) =>
                 \A page \in {Page(32768), Page(262144) - 1, Page(262144)}
                                \cup (PageDirectory .. PageDirectory + 4) :
                    MapsTo(page, page)
           /\ Spared(768) =>
                 \A i \in 0 .. 5 : MapsTo(KernelPage + i, Page(65536) + i)
           /\ Spared(772) =>
                 \A i \in {0, 1023} :
                    MapsTo(KernelPage + 4096 + i, Page(1048576) + i)
           /\ video % 4 = 0 =>
                 \A i \in {0, 1, 1023} : MapsTo(256 * video + i, 256 * video + i)

(* "Error. Retrying..." (boot.asm:16): a sector that could not be read is    *)
(* read again before the code that needs it is run.                          *)
FailedReadsAreRetried == pc = "kernel" => failed = {}
=============================================================================
