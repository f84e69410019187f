------------------------------- MODULE Paging -------------------------------
(***************************************************************************)
(* init/paging.c: page directories and page tables over the frame map of   *)
(* Imap, from paging_init to the requests of the heaps and the tasks.      *)
(*                                                                         *)
(* A page is the number of a virtual page, a frame the number of a         *)
(* physical one.  A loop of the code over a range of pages is a job: the   *)
(* sequence of the pages it still has to visit, one iteration a step.      *)
(* Page tables are numbered in the order in which kmalloc_ap makes them.   *)
(***************************************************************************)
EXTENDS Imap, FiniteSets

CONSTANTS
    TableSize,    \* pages of a page table: 1024
    TableIndices, \* indices of a page directory: 0 .. 1023
    KernelSpace,  \* the indices of kernel space: 0x300 .. 0x3ff
    Dirs,         \* the page directories besides the kernel's
    MaxTables,    \* bound: how many page tables are made
    Cleared,      \* the page tables that lie in the memory that paging_init
                  \* clears behind the kernel's directory: the first 3
    RamContents,  \* what a word of memory nobody has written may hold
    DirContents,  \* what it may hold where a directory is put
    Video, KernelImage, KernelData, Ramdisk, KernelStack,
                  \* the ranges of paging_init: [frame, page, size]
    Ranges        \* the ranges that the kernel asks for, and the directories
                  \* it asks through: [page, size, dirs]

KernelDir == "kernel_node"
AllDirs == Dirs \cup {KernelDir}
NoTable == 0
TableIds == 1 .. MaxTables

\* In the order of paging_init.
BootRanges == <<Video, KernelImage, KernelData, Ramdisk, KernelStack>>

FramesOf(r) == r.frame .. r.frame + r.size - 1

\* A word has more bits than the bitmap has for a frame; kernel space is a range
\* of indices; the frames that paging_init claims are in disjoint ranges; the
\* kernel asks for pages that an address has.
ASSUME PagingAssumption ==
    /\ Ratio <= WordBits
    /\ TableSize \in Nat \ {0}
    /\ {MaxTables, Cleared} \subseteq Nat
    /\ TableIndices \subseteq Nat
    /\ KernelSpace \subseteq TableIndices
    /\ \E first, last \in KernelSpace : KernelSpace = first .. last
    /\ KernelDir \notin Dirs
    /\ RamContents \subseteq [present : BOOLEAN, frame : Nat]
    /\ DirContents \subseteq TableIds \cup {NoTable}
    /\ \A i \in DOMAIN BootRanges :
          BootRanges[i] \in [frame : Nat, page : Nat, size : Nat]
    /\ \A i, k \in DOMAIN BootRanges :
          FramesOf(BootRanges[i]) \cap FramesOf(BootRanges[k]) # {} => i = k
    /\ Ranges \subseteq [page : Nat, size : Nat, dirs : SUBSET AllDirs]
    /\ \A r \in Ranges : \A p \in r.page .. r.page + r.size - 1 :
          p \div TableSize \in TableIndices

PagesOf(r) == r.page .. r.page + r.size - 1

\* Every page that paging_init maps has a place in the page directory, and is
\* mapped to one frame; what the kernel's directory is asked for afterwards lies
\* elsewhere, but for what has no frame of the bitmap: the video memory may be
\* where a heap is.
ASSUME BootPagesAssumption ==
    /\ IsFiniteSet(TableIndices)
    /\ \A i, k \in DOMAIN BootRanges :
          PagesOf(BootRanges[i]) \cap PagesOf(BootRanges[k]) # {} => i = k
    /\ \A i \in DOMAIN BootRanges : \A p \in PagesOf(BootRanges[i]) :
          /\ p \div TableSize \in TableIndices
          /\ BootRanges[i].frame + (p - BootRanges[i].page) \in Entries =>
                \A r \in Ranges : p \in PagesOf(r) => KernelDir \notin r.dirs

Blank == [present |-> FALSE, frame |-> 0]

VARIABLES
    tables,  \* tables[d][i]: the page table of directory d at index i
    entry,   \* entry[t][j]: the j-th page_t of page table t
    made,    \* how many page tables have been made
    boot,    \* the statement paging_init is at
    job,     \* the loop under way: [op, dir, pages, frame]
    mapped,  \* history: the [dir, page, got] that alloc_pages_for was called
             \* for and free_pages was not; got says that there was a frame
    left     \* history: the frames of the entries that were in memory when
             \* the kernel started

pvars == <<bits, stack, answer, repeats,
           tables, entry, made, boot, job, mapped, left>>

Idle == [op |-> "idle", dir |-> KernelDir, pages |-> <<>>, frame |-> 0]

PagesFrom(p, n) == [i \in 1 .. n |-> p + i - 1]

-----------------------------------------------------------------------------
(* get_page with make = 1.  The new table is not cleared: the arguments of   *)
(* setm are in the wrong order, so it writes no word.  What the table holds  *)
(* is what that memory held.                                                 *)

\* The table get_page finds or makes for page p of directory d.
TableOf(d, p) ==
    IF tables[d][p \div TableSize] # NoTable
    THEN tables[d][p \div TableSize]
    ELSE made + 1

\* Mutant: a table takes the place of two.
GetPage_CountsTwice(d, p) ==
    /\ tables' = [tables EXCEPT ![d][p \div TableSize] = TableOf(d, p)]
    /\ made' = IF tables[d][p \div TableSize] = NoTable THEN made + 2 ELSE made

GetPage(d, p) ==
    /\ tables' = [tables EXCEPT ![d][p \div TableSize] = TableOf(d, p)]
    /\ made' = IF tables[d][p \div TableSize] = NoTable THEN made + 1 ELSE made

EntryOf(d, p) == entry[TableOf(d, p)][p % TableSize]

SetEntry(d, p, e) ==
    entry' = [entry EXCEPT ![TableOf(d, p)][p % TableSize] = e]

RequestsOf(d, p) == {m \in mapped : m.dir = d /\ m.page = p}

WithRequest(d, p, got) ==
    (mapped \ RequestsOf(d, p)) \cup {[dir |-> d, page |-> p, got |-> got]}

-----------------------------------------------------------------------------
(* One page of a loop *)

NextPage(op) ==
    /\ job.op = op
    /\ job.pages # <<>>
    /\ TableOf(job.dir, Head(job.pages)) \in TableIds
    /\ GetPage(job.dir, Head(job.pages))

Advance ==
    job' = [job EXCEPT !.pages = Tail(job.pages), !.frame = job.frame + 1]

\* Mutant: the frame is not marked as taken.
ClaimPage_KeepsBit ==
    /\ NextPage("claim")
    /\ Advance
    /\ IF EntryOf(job.dir, Head(job.pages)).frame # 0
       THEN UNCHANGED entry
       ELSE SetEntry(job.dir, Head(job.pages), [present |-> TRUE, frame |-> job.frame])
    /\ UNCHANGED <<bits, stack, answer, repeats, boot, mapped, left>>

\* paging_idmap and paging_mapto, one page: get_specific_frame.
ClaimPage ==
    /\ NextPage("claim")
    /\ Advance
    /\ LET p == Head(job.pages)
       IN  IF EntryOf(job.dir, p).frame # 0
           THEN UNCHANGED <<bits, entry>>
           ELSE /\ bits' = IF job.frame \in Entries
                           THEN bits \cup {job.frame} ELSE bits
                /\ SetEntry(job.dir, p, [present |-> TRUE, frame |-> job.frame])
    /\ UNCHANGED <<stack, answer, repeats, boot, mapped, left>>

\* Mutant: gives up, leaving the page as it is, when the frame is number 0.
AllocPage_ZeroIsNone ==
    /\ NextPage("alloc")
    /\ Advance
    /\ IF EntryOf(job.dir, Head(job.pages)).frame # 0
       THEN UNCHANGED <<bits, stack, answer, repeats, entry>>
       ELSE /\ SetNext
            /\ IF answer' \in {Fail, 0}
               THEN UNCHANGED entry
               ELSE SetEntry(job.dir, Head(job.pages),
                             [present |-> TRUE, frame |-> answer'])
    /\ mapped' = WithRequest(job.dir, Head(job.pages),
                   EntryOf(job.dir, Head(job.pages)).frame # 0 \/ answer' # Fail)
    /\ UNCHANGED <<boot, left>>

\* alloc_pages_for, one page: get_a_frame.
AllocPage ==
    /\ NextPage("alloc")
    /\ Advance
    /\ IF EntryOf(job.dir, Head(job.pages)).frame # 0
       THEN UNCHANGED <<bits, stack, answer, repeats, entry>>
       ELSE /\ SetNext
            /\ IF answer' = Fail
               THEN UNCHANGED entry
               ELSE SetEntry(job.dir, Head(job.pages),
                             [present |-> TRUE, frame |-> answer'])
    /\ mapped' = WithRequest(job.dir, Head(job.pages),
                   EntryOf(job.dir, Head(job.pages)).frame # 0 \/ answer' # Fail)
    /\ UNCHANGED <<boot, left>>

\* Mutant: the frame is not given back to the frame map.
FreePage_KeepsBit ==
    /\ NextPage("free")
    /\ Advance
    /\ SetEntry(job.dir, Head(job.pages),
                [EntryOf(job.dir, Head(job.pages)) EXCEPT !.frame = 0])
    /\ mapped' = mapped \ RequestsOf(job.dir, Head(job.pages))
    /\ UNCHANGED <<bits, stack, answer, repeats, boot, left>>

\* Mutant: the bit is cleared, and the page keeps the number of the frame.
FreePage_KeepsFrame ==
    /\ NextPage("free")
    /\ Advance
    /\ IF EntryOf(job.dir, Head(job.pages)).frame = 0
       THEN UNCHANGED <<bits, stack, answer, repeats>>
       ELSE Clear(EntryOf(job.dir, Head(job.pages)).frame)
    /\ mapped' = mapped \ RequestsOf(job.dir, Head(job.pages))
    /\ UNCHANGED <<entry, boot, left>>

\* free_pages, one page: release_frame.  The page stays present.
FreePage ==
    /\ NextPage("free")
    /\ Advance
    /\ LET e == EntryOf(job.dir, Head(job.pages))
       IN  IF e.frame = 0
           THEN UNCHANGED <<bits, stack, answer, repeats, entry>>
           ELSE /\ Clear(e.frame)
                /\ SetEntry(job.dir, Head(job.pages), [e EXCEPT !.frame = 0])
    /\ mapped' = mapped \ RequestsOf(job.dir, Head(job.pages))
    /\ UNCHANGED <<boot, left>>

\* The last loop of paging_init: get_page alone.
TouchPage ==
    /\ NextPage("touch")
    /\ Advance
    /\ UNCHANGED <<bits, stack, answer, repeats, entry, boot, mapped, left>>

-----------------------------------------------------------------------------
(* paging_init *)

Claiming(r) == [op |-> "claim", dir |-> KernelDir,
                pages |-> PagesFrom(r.page, r.size), frame |-> r.frame]

\* One page of each table of kernel space, in the order of the indices.
KernelTablePages ==
    LET first == CHOOSE i \in KernelSpace : \A k \in KernelSpace : i <= k
    IN  [i \in 1 .. Cardinality(KernelSpace) |-> (first + i - 1) * TableSize]

\* Mutant: the tables of kernel space are not made beforehand.
BootJobs_NoTables ==
    <<Claiming(Video), Claiming(KernelImage), Claiming(KernelData),
      Claiming(Ramdisk), Claiming(KernelStack)>>

BootJobs ==
    <<Claiming(Video), Claiming(KernelImage), Claiming(KernelData),
      Claiming(Ramdisk), Claiming(KernelStack),
      [op |-> "touch", dir |-> KernelDir, pages |-> KernelTablePages, frame |-> 0]>>

Booted == boot > Len(BootJobs) /\ job.pages = <<>>

BootNext ==
    /\ job.pages = <<>>
    /\ boot <= Len(BootJobs)
    /\ job' = BootJobs[boot]
    /\ boot' = boot + 1
    /\ UNCHANGED <<bits, stack, answer, repeats, tables, entry, made, mapped, left>>

-----------------------------------------------------------------------------
(* Requests, once paging_init is over *)

Start(op, d, r) ==
    /\ Booted
    /\ d \in r.dirs
    /\ job' = [op |-> op, dir |-> d, pages |-> PagesFrom(r.page, r.size), frame |-> 0]
    /\ UNCHANGED <<bits, stack, answer, repeats, tables, entry, made, boot, mapped, left>>

AllocPagesFor(d, r) == Start("alloc", d, r)

\* Only what was asked for is given back, and no frame that has no bit.
FreePages(d, r) ==
    /\ \A p \in PagesOf(r) : /\ RequestsOf(d, p) # {}
                             /\ EntryOf(d, p).frame \in {0} \cup Entries
    /\ Start("free", d, r)

-----------------------------------------------------------------------------

\* The frames that the entries in memory name: none names frame 0.
FramesInMemory ==
    {entry[t][j].frame : t \in TableIds, j \in 0 .. TableSize - 1} \ {0}

NoTables == [i \in TableIndices |-> NoTable]

\* paging_init clears the kernel's directory, and as setm counts words, four
\* times as much memory as it has: also that of the first page tables.
ClearedMemory(e) ==
    [t \in TableIds |-> IF t <= Cleared THEN [j \in 0 .. TableSize - 1 |-> Blank]
                        ELSE e[t]]

\* Nobody writes a node's directory before its first request: kheap_alloc calls
\* no constructor.  A word of it that names no memory ends the run.
PagingInit ==
    /\ Init
    /\ \E words \in [Dirs -> [TableIndices -> DirContents]] :
          tables = [d \in AllDirs |-> IF d = KernelDir THEN NoTables ELSE words[d]]
    /\ \E words \in [TableIds -> [0 .. TableSize - 1 -> RamContents]] :
          entry = ClearedMemory(words)
    /\ made = 0
    /\ boot = 1
    /\ job = Idle
    /\ mapped = {}
    /\ left = FramesInMemory

\* The machine is reset, as it must be after any page fault, and the kernel
\* starts again: imap_create makes a fresh frame map and the kernel's directory
\* is cleared.  Nothing clears the memory that the other page tables will be
\* put in again, nor a node's directory.  Bound: of two resets the second is
\* followed only if the first left no entry.
Reset ==
    /\ left = {}
    /\ bits' = {}
    /\ stack' = InitialStack
    /\ answer' = 0
    /\ repeats' = {}
    /\ tables' = [tables EXCEPT ![KernelDir] = NoTables]
    /\ entry' = ClearedMemory(entry)
    /\ made' = 0
    /\ boot' = 1
    /\ job' = Idle
    /\ mapped' = {}
    /\ left' = FramesInMemory'

PagingNext ==
    \/ BootNext
    \/ ClaimPage
    \/ AllocPage
    \/ FreePage
    \/ TouchPage
    \/ \E d \in AllDirs, r \in Ranges : AllocPagesFor(d, r)
    \/ \E d \in AllDirs, r \in Ranges : FreePages(d, r)
    \/ Reset

PagingSpec == PagingInit /\ [][PagingNext]_pvars

-----------------------------------------------------------------------------
(* Properties *)

PagingTypeOK ==
    /\ bits \subseteq Entries
    /\ stack \in Seq(-1 .. Size - 1) /\ Len(stack) <= Size + 1
    /\ tables \in [AllDirs -> [TableIndices -> TableIds \cup {NoTable}]]
    /\ \A t \in TableIds, j \in 0 .. TableSize - 1 :
           /\ entry[t][j].present \in BOOLEAN
           /\ entry[t][j].frame \in Nat
    /\ made \in 0 .. MaxTables
    /\ boot \in 1 .. Len(BootJobs) + 1
    /\ left \subseteq Nat

Slots == TableIds \X (0 .. TableSize - 1)
FrameOf(s) == entry[s[1]][s[2]].frame

\* Every frame marked as taken is the frame of some page table entry: nothing
\* that the kernel does loses a frame for good, but for frame 0, whose number
\* is also the number of no frame.
NoFrameLost == bits \subseteq {0} \cup {FrameOf(s) : s \in Slots}

\* Whatever is mapped and unmapped meanwhile, in this run of the kernel or in
\* the one before the reset: a frame is the frame of one entry at most, and
\* then marked as taken, but for the frames that imap_set_next has handed out
\* while they were taken, and those of the entries the reset left in memory.
FramesAreExclusive ==
    \A s \in Slots : FrameOf(s) \in Entries \ ({0} \cup left \cup repeats) =>
        /\ FrameOf(s) \in bits
        /\ \A q \in Slots : FrameOf(q) = FrameOf(s) => q = s

\* "Allocate the remainder of the pagetables for kernel space" (paging.c:185):
\* once paging_init is over, every index of kernel space has a table, no two
\* the same one; so none is made for a heap that grows, which a directory with
\* a copy of the kernel's part would not have.
KernelSpaceIsComplete ==
    boot > Len(BootJobs) /\ (job.op = "touch" => job.pages = <<>>) =>
        \A i \in KernelSpace :
            /\ tables[KernelDir][i] # NoTable
            /\ \A k \in TableIndices :
                  tables[KernelDir][k] = tables[KernelDir][i] => k = i

\* When alloc_pages_for is over every page of its range is present, whatever
\* page was mapped before and whatever frame it got, but for the pages at which
\* imap_set_next found no frame left: alloc_pages_for goes on without a word.
MappedPagesArePresent ==
    \A m \in mapped : LET t == tables[m.dir][m.page \div TableSize]
                      IN  /\ t # NoTable
                          /\ m.got => entry[t][m.page % TableSize].present

ReservedFrames == UNION {FramesOf(BootRanges[i]) : i \in DOMAIN BootRanges}

\* Once paging_init has claimed them, the frames of the kernel, its data, its
\* stack and the ramdisk stay marked as taken, but for the same two kinds of
\* frames: get_specific_frame returns early where an entry was left, and
\* a page that got a taken frame gives it back to the frame map.
ReservedFramesAreMarked ==
    boot > Len(BootJobs) =>
        ReservedFrames \cap Entries \subseteq bits \cup left \cup repeats

\* A frame that holds the kernel, its data, its stack or the ramdisk is never
\* handed out to a page.
ReservedFramesStayReserved == repeats \cap ReservedFrames = {}
=============================================================================
