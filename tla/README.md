# A TLA+ verification of the toast kernel

toast is a small kernel for 32-bit PCs: a boot chain, a console, a keyboard
interrupt, paging over a map of physical frames, slab heaps, nodes (tasks), a
ramdisk and two drivers.  It is one image, `kernel.c`, which includes the other
files; there is one processor, one kernel thread of control, and the interrupts.

This directory holds models of its parts, what TLC checks about them on small
machines, and theorems about them that TLAPS checks for machines of every size.
Paths below are relative to `src/source/`.

## The system

| part | state | operations | used by |
| --- | --- | --- | --- |
| frame map: `data_structures/bitmap.c`, `stack.c`, `imap.c`, `util.c` | a bitmap of frames, a stack of indices | `imap_create`, `imap_set_next`, `imap_clear`, `imap_stack_reset`, `bitmap_set` | paging |
| paging: `init/paging.c` | page directories, page tables, the frame map, the bump pointer of `kmalloc` | `paging_init`, `get_page`, `get_a_frame`, `get_specific_frame`, `release_frame`, `alloc_pages_for`, `free_pages`, `new_pagedir`, `switch_pagedir` | heaps, nodes |
| slab heap: `kheap.c` | descriptors of blocks and slabs, two lists | `kheap_init`, `expand`, `contract`, `kheap_alloc`, `kheap_free` | nodes, `kheap_test` |
| nodes: `tasking/task.c` | nodes, four heaps, `current_node`, `pid` | `make_node`, `load_node`, `switch_node`, `dump_node` | `tasking_test` |
| console: `gui/monitor.c` | `cursor_x`, `cursor_y`, the frame buffer | `putch`, `newline`, `scroll`, `cls` | everything that prints |
| keyboard: `keybd/keyboard.c` | `shift_down` | `keyboard_handler` | interrupt 0x21 |
| interrupts: `init/isr.asm`, `idt.asm`, `pic.asm`, `kernel.c` | processor tables | `isr_handler`, `page_fault` | the machine |
| ramdisk: `initrd/initrd.c`, written by `initrd/rdgen.c` | the image, read only | `rd_init`, `rd_find`, `rd_read` | nodes, `rd_test` |
| PCI and network: `pci/pci.c`, `net/rtl8029.c` | the devices' registers | `pci_init`, `rtl8029_init`, `rtl8029_send` | startup |
| tree and hole heap: `data_structures/bin_tree.c`, `heap.c` | nodes in an array, holes in memory | insert, lookup, remove; `heap_alloc`, `heap_free` | `data_structures/test.c` |
| round robin: `tasking/tasking.c` | a list of tasks | `advance_task`, `load_task` | nothing any more |
| boot chain: `boot.asm`, `stage2.asm`, `init/loader.asm`, `init/vesa.asm` | memory, the first page directory and its tables | `read_loop`, `initizeVESA`, `flush` | the BIOS |

How they interact.  `paging_init` claims the frames of the kernel behind the
frame map's back (`bitmap_set`), then every page that a heap or a node asks for
comes from `imap_set_next`.  A heap asks paging for its pages and hands out
blocks.  A node is a block of each of three heaps.  A key arrives as an
interrupt at any instruction of the kernel that runs with interrupts on, and is
echoed with the same `putch` the kernel itself may be in.  A page fault prints
and halts with interrupts off: the machine has stopped.

What is hard about it.  Two actors and one cursor (keyboard and kernel).  Two
records of the same thing, bitmap and stack, of which one is changed alone.
Lists linked in two directions and mended in one.  Frame 0, block 0 and page 0,
which are legal and also mean "none".  Memory that is used before it is written.
Requests at the end of a resource.  Code that writes the memory around itself.
Nodes that move when another is removed.  The list of these places, each with the
properties that are about it, is under "hazards" in `PROJECT.json`.

What makes each part correct:

- frame map: no frame is handed out twice, none is passed over, failure means
  that nothing is left, and asking comes to an end;
- paging: no frame is lost or shared, what was asked for is mapped, kernel
  space has all its tables before anything is asked for, the kernel's own frames
  are never handed out;
- slab heap: no block is handed out while it is held, counts are exact, the
  free blocks are the blocks on the list, and a heap that is used up grows;
- console: the cursor and every glyph stay on the screen, whatever a key does
  in the middle of a `putch`;
- boot chain: what has been loaded stays in place until the kernel needs it,
  and is mapped there;
- tree: a search tree over a dense array, whatever is removed;
- ramdisk: a file is found by its name and reads back as it was written;
- hole heap: blocks and holes that do not overlap, an index that agrees with the
  headers in memory, and a freed block that joins the hole in front of it;
- startup and nodes: each network card is configured once; a node should have a
  stack of its own and find its program in its own directory, which the code
  does not achieve (see "hazards") and no property claims.

## The modules

### Imap, MC_ImapKernel, Paging_proofs

`Imap` is the bitmap and the stack of `imap.c`.  `bits` is the set of set bits,
`stack` the stack from base to top; one action per operation.  `SetNext` is
`imap_set_next`, which pushes numbers `0 .. size-1`, takes the top one for the
number of a *bit*, and adds to it the offset of the first clear bit of its
word: the answer is the frame meant only if the number is the first of its word
and the word has room.  `FirstClear` is `get_first_set`, which answers 255
(`NoBit`) for a full word.  `VideoSlots` are the stack's slots that claims of
the video memory, far beyond the bitmap, overwrite.

Run `imap_kernel`: the kernel as it runs, which claims frames and asks for more
and gives none back.  Words of 2 bits and 6 indices are enough for an index in
the middle of a word, a word filled by claims alone, an answer that falls into a
later word, an overwritten slot and the exhausted stack.
`RepeatsOnlyPastAFullWord` is the exact extent of the trouble: as long as the
first word has a clear bit every frame handed out is new.
`EventuallyOneAnswer` assumes that the kernel keeps asking (`WF(SetNext)`),
which is the only thing it is about.

### Paging, MC_Paging, Paging_proofs

`Paging` extends `Imap` with directories and tables.  A loop over pages
(`paging_idmap`, `alloc_pages_for`, `free_pages`) is a job with one iteration a
step.  `paging_init` is the list `BootJobs`, in its order.  Two things that the
code does without meaning to are kept: a new page table is not cleared
(`setm`'s arguments are swapped), so that its entries are `RamContents`; and
frame 0 is both a frame and the mark of an empty page.

`Reset` is the machine started again, which is all that is left to do after a
page fault.  `paging_init` begins with a fresh frame map and clears the kernel's
directory.  It clears more: `setm` counts words, so that four times the size of
a directory is cleared, and in the memory behind it the first three page tables
(`Cleared`; `kmalloc_ap` always leaves a page between two).  Nobody clears the
memory in which the other tables are made again: `left` records the frames that
the entries in it name.  The second reset is followed only if the first left
nothing, and `MaxTables` bounds the tables (seven: no page of the run's ranges is
stopped by it).

The directories other than the kernel's (`Dirs`) are those of nodes.  Nobody
prepares them: `new_pagedir` is the constructor of their heap, and `kheap_alloc`
calls no constructor.  A request through one (`load_node`) finds in it whatever
the memory held (`DirContents`); a word that names no page table ends the run,
as a page fault.  `Ranges` says which pages are asked for through which
directories: programs through a node's, the heaps through the kernel's.

`PagingAssumption` says what of the layout matters: the ranges that
`paging_init` claims are disjoint, kernel space is a range of indices, a word
has at least as many bits as the bitmap has for a frame, and the pages that the
kernel asks for have a place in the directory.  `BootPagesAssumption` is of the
pages that `paging_init` maps: they are mapped once each, they have a place in
the directory, and what the kernel's directory is asked for afterwards lies
elsewhere, but for pages whose frame has no bit in the frame map.  The video
memory, whose address the machine decides, is such a range: it may lie where a
heap is, at `STACK_HEAP_START` say.

`mapped` records what was asked for, and whether a frame was got: when the
stack is exhausted `get_a_frame` returns and `alloc_pages_for` goes on with the
next page.

Run `paging`: ten frames in words of two, a machine laid out as the kernel
lays out the real one (free frames in the first word, then kernel, stack,
ramdisk, data), the directory of a node with a range at page 0, and in the
kernel's directory two ranges that overlap and one at the video memory.  The
slot of the stack that the video memory overwrites comes early enough for
requests to fail.  Three tables are cleared by a reset, the others are not, and
the kernel's data has pages in both.  `RamContents` and `DirContents` are blank
there, a machine just switched on; what a previous run of the kernel left comes
from `Reset`, and memory with any contents is left to the theorems.  Run
`paging_reserved` (a violation): see the findings.

### BlockPool, KHeap, MC_KHeap, KHeap_proofs

`BlockPool` is what a heap promises: a block it hands out is held by nobody.
`KHeap` is one slab of `kheap.c` at the level of its pointers: the block
descriptors' `next` and `prev`, `first_free`, `last_free`, the slab's
descriptor and its own list.  `expand` writes no start into the last descriptor
of a slab, and taking the last block of the list writes through NULL: the
machine stops, or, should page 0 look present in its uncleared table (`page0`),
hands out whatever the descriptor held (`wild`), after counting a block more of
the slab that this start leads to: this one, or any memory
(`TakeFromElsewhere`).  The request after that calls `expand`, which looks the
descriptor of the new slab up far beyond the pages of the heap; it faults, or
goes on there (the status `grown`), which is not followed.

Run `kheap`, six blocks: requests and frees in every order down to the last
descriptor.  `BackwardListIsFreeList` says that the list read backwards is the
free blocks, all and only those, whatever was freed; `TakeListIsSound` that the
list as requests read it never leads to a block that is held and never loses one
that was not handed out yet; `HeapIsAPool` is the refinement of `BlockPool`.
Deadlock is not checked: the machine does stop.  Runs `kheap_reuse` and
`kheap_grow` (violations): see the findings.

### Console, MC_Console, Console_proofs

A scancode of 84 or more is looked up behind the table of scancodes.  With shift
down that is memory of another table, in which there are a line feed and a
carriage return: `BehindTheTable` lets a key with shift down do what those do,
which no key of the table does.

`Console` is `putch` twice: in one step (`PutchAtOnce`) for the keyboard's echo
and the software interrupts, whose stubs run with interrupts off, and one step
per load or store of `cursor_x` and `cursor_y` for the kernel's own printing,
as the build (`make`: gcc without optimisation) compiles it; a tab loads
`cursor_x` twice (`TabLoad`, `TabReload`).  A key may be echoed between any two
of them.  `edge` and `drawn` are history: whether the
column comes from a tab past the edge, and where the last glyph was drawn.

Run `console`: four columns with tab stops every three (as with 100 and 8 the
last stop lies past the edge), three rows, glyphs of two pixel rows, two shift
keys.  Tabs stop at `MaxColumn`, which is twice past the edge.

### KeyBag, TreeOps, BinTree, MC_BinTree, BinTree_proofs

`KeyBag` is what a search tree promises: an insertion adds one copy of a key, a
removal takes one away.  `TreeOps` is `bin_tree.c` as operators on a tree, the
record of its root and its array: the nodes are the slots `0 .. EndOf`, their
links slots or `NULL`.  `Inserted` is `bin_tree_insert` with
`bin_tree_put_leaf`; `Removed` is `bin_tree_remove` as a whole, which detaches a
node (`Detached`), fills its slot with the node of the last one (`NodeCopy`,
`Relinked`, `Erased`), and before that, for a node with two children, takes over
the neighbour's value.  `BinTree` is a tree under insertions and removals; a
`header` is told there by the value it was inserted with.  `ExactLookup` tests
the nodes it goes on to and not the root, as the code does: asked in a tree that
removals have emptied, it reads the value of a NULL root (`Fault`), and
`LookupsFindTheirValue` asks it in other trees only.  `bin_tree_rotate` and
`rebalance` have no live caller and are not modelled; `level` is only printed.

Run `bin_tree`, four slots and three values: the smallest tree in which a
neighbour is not a child of the node removed, and in which the node removed,
its neighbour and the node of the last slot are three.  Equal values occur, and
`cut` records the one insertion that loses nodes: `LinksAgree` says that the
tree loses nodes there and nowhere else.  Nothing is followed after that, so
deadlock is not checked.  `moved` records a removal of a node with two
children: up to the first one `HeadersStayWithValues`, from then on the headers
are not those of their values.  `MaxBalance` bounds the balance, which
insertions change and removals do not.

### HoleHeap, MC_HoleHeap, HoleHeap_proofs

`HoleHeap` is `heap.c` on the words of memory, over `TreeOps`: headers and
footers are words at addresses, the index is a tree whose headers are addresses,
and a client may write every word of its block (`Fill`).  A word is 4 bytes, so
that a header is three words and a footer two.  Kept as they are: the sum
without parentheses (`Remainder`), by which a remainder is four bytes shorter
than what is left, or, as `Needed` counts a header and a footer already, a
header is put where there is room for it alone; the header that is read after
its node has been removed (`HeaderAfter`); the next header that is looked for a
word too far on (`Behind`); the words in front of a block that are taken for a
footer whatever they are (`Before`).

Three things make the heap take a hole that it did not mean: a header or a footer
that is read where there is none, a node with two children that is removed (its
value goes and its header stays), and a footer that is left over.  An exact fit
leaves one at the end of the hole that it took; if the hole is joined with
others and split again, the words in front of a block may still name a hole that
now ends long before it, with blocks between them (`InFront`), and `heap_free`
makes one hole of all of it.  `astray` records these, and the insertion that
loses nodes of the tree, and nothing is followed after it; a read through NULL or
outside the memory of the heap stops the program (`halted`).  Deadlock is not
checked.

Run `hole_heap`: 36 words for blocks of 0, 5 and 12, up to six slots in the
index (`MaxSlots` is its last): exact fits, splits, holes with nothing left
for a client, joins in front, holes that lie behind one another without
joining, and the footer that outlasts its hole, which takes these three sizes.  `HolesAreIndexed` and `BlocksAreApart` hold up to the step that goes
astray; `FreedJoinsTheHoleBefore` is what `heap_free` does to the holes, which
is less than it sets out to do.

### Boot, MC_Boot, Boot_proofs

`Boot` is the chain from the reset of the drive to the jump into the kernel,
with the addresses and sizes of the source and not a small instance of them:
memory in units of a sector, and the reading loop one sector a step.  `ram` says
what each unit holds: a sector of the disk, a part of the page directory or of a
table, the argument pushed for the kernel.  A sector may be unreadable
(`MaxFailures`), and is then left as it was, as the code never tests for it.
When stage 2 is not what was loaded, the machine runs something else (`lost`),
which is not followed: deadlock is not checked.

The entry of the video memory is written at its address shifted by 20, into the
entry of that address only if it is a multiple of 4 MB.  Otherwise it is written
across two entries: the first, if present, then names some other memory
(`Stray`), the second is not present any more (`EntriesAt`, `MapTable`).  If
these are the entries of the code that runs or of the kernel, the machine is
`lost` too.

Run `boot`: up to two unreadable sectors, so that one may be missing in each of
two parts, and video memory at seven addresses: two multiples of 4 MB, one that
is not, the kernel's own 0xC0000000, two whose entry is written across those
of the kernel or its data, and one across that of the code.  `MappedOnEntry`
says of each part that it is mapped unless the video memory's entry is written
where its own is, which is the extent of the trouble.
`BootTypeOK` includes that a sector is read only into memory the layout names.
Run `boot_retry` (a violation): see the findings.

### Ramdisk, Startup, MC_Startup, Startup_proofs

`Ramdisk` writes an image as `rdgen.c` does (`Image`), keeps of it what stage 2
loads (`Loaded`), and finds and reads files as `initrd.c` does.  A byte nobody
wrote is `Junk`.  `Truncated` is the `u8` of `rd_read`'s offset, with a byte of
four values in the run.  `rd_find` looks at one entry more than there are, and
reads go through whatever entry it answered, that one too: its start and size
may be bytes of the data, or bytes nobody wrote, and then a read may be refused
or not (`PastTheEnd`), and may end in a page fault (`ReadFaults`).

`Startup` is `kernel.c` over it, from `rd_init` in `init` to the stop of
`tasking_test`: `ScanSlot` is one slot of `pci_init`'s loop, `Wake` the key that
ends `hlt`, `MakeNode` and `LoadProgram` are `task.c`.  Its requests are those
that `Ramdisk` allows.  `Answering` is the card that answers for a slot: the
address that `pci_config_read` makes carries what is beyond the 32 slots of a bus
into the bus.  `make_node` takes the stack from a heap of one block with two descriptors: the
second node runs into `AllocLastFaults` or `AllocLastLands` of `KHeap`.
`load_node` reads the size of an entry that may be NULL, and lets `rd_read` write
the program, at page 0, which no range of `paging_init` maps and whose entry
nobody has cleared: it may look present (`page0`) and then goes on, with the
program in the kernel's directory and not in the node's, whose pages it has asked
for (`copied`).  Where the machine stops at a page fault, deadlock is not checked.

Run `startup`: up to two files, names of which one begins like another, files
whose end is not loaded, and reads at every offset; five slots scanned, two to a bus, with up to three cards on the first three buses.

## What is proved

For all values of the constants, under the assumptions named in the modules
(`ImapAssumption`, `PagingAssumption`, `BootPagesAssumption`, `KHeapAssumption`, `ConsoleAssumption`,
`BootAssumption`, `RamdiskAssumption`, `StartupAssumption`, `TreeAssumption`,
`HoleHeapAssumption`):

- `Paging_proofs`, of the frame map: `TypeOK`, `PassedIndicesAreFull`, `FailOnlyWhenScanned` and
  `RepeatsOnlyPastAFullWord` hold of `KernelSpec`.  The invariant that carries
  them says what the stack is: the initial stack with its top popped, so that
  the index on top is the number popped; every index popped has a full word;
  and the repeated entries lie `NoBit` past such an index.
- `Paging_proofs`, of paging: `PagingTypeOK`, `NoFrameLost`, `FramesAreExclusive` and
  `KernelSpaceIsComplete` hold of `PagingSpec`, whatever memory held before the
  start, in the page tables and in the nodes' directories, and through every
  reset.  `FramesAreExclusive` alone is not inductive: a
  claim of `paging_init` would break it if the frame had an entry already.
  `FrameInv` adds `ClaimsAreFresh`: no frame still to be claimed, by the loop
  under way or a later one, is named by an entry, but for those in `left`; here
  it is used that the ranges are disjoint.  A reset clears some of the tables and
  leaves the others, whose frames are then in `left` (`ClearedIsMemory`,
  `ResetEffect`).  `SpaceInv` says that each index of kernel space has a table or
  is still among the pages of `paging_init`'s last loop, so that from then on
  `get_page` makes no table there, and (`TablesApart`) that the kernel's
  directory has each of its tables once and that all of them have been made, so
  that a table made later is another one.
- `Paging_proofs` too: `MappedPagesArePresent` holds of `PagingSpec` if
  `MemoryIsClean`: no word that memory held reads as an entry with a frame that
  is not present.  `get_a_frame` returns at once for such an entry, and the page
  asked for stays as it is.  `PresenceInv` says that no entry ever has a frame
  without being present, which clearing a table keeps, and that every request has
  its table and, if it got a frame, is present.
- `Paging_proofs`, last: `ReservedFramesAreMarked` holds of `PagingSpec` if
  `MemoryIsBlank`, the memory of a machine just switched on, in which no entry
  names a frame and no word of a directory a table; this is the theorem
  that uses `BootPagesAssumption`.  After a reset `get_specific_frame` does
  nothing for an entry that names a frame.  That the frame is then the one to be
  claimed, and not that of a page that was asked for before the reset, takes
  `MarkInv`: `paging_init` makes its tables in the order of its first visits to
  them (`OrderInv`), hence in the same memory each time (`TableNumber`), every
  other table lies behind them, and so the entry that a visit comes to has the
  frame of that visit or none (`PlaceInv`), also after some of these tables were
  cleared.  This is said of frames that have a bit (`BitClaims`): the video
  memory's pages may be given back and asked for again.  With `FramesAreExclusive`
  the frame is marked.  In memory of other contents the entry may name any frame.
- `KHeap_proofs`: `HeapTypeOK` and `SlabCountIsExact` hold of `HeapSpec`, and
  `HeapSpec` implements `BlockPool`.  That a block at the head of the list is
  held by nobody is not inductive: the invariant adds that the links from
  `first_free` on are the ones `expand` made, that no block there is held, and
  that the count of the slab is the number of blocks held.
  `TakeListIsSound` follows from it.  For `BackwardListIsFreeList` the
  invariant (`BackInv`) carries the whole list along, as a sequence whose
  elements are the free blocks, each once, each the `prev` of the one in front
  of it: a block that is freed comes to its head, and the block that is handed
  out is its last.
- `Console_proofs`: `ConsoleTypeOK`, `CursorAtRest`, `GlyphsInFrame` and
  `ShiftIsHeld` hold of `ConsoleSpec`, for screens of every size.  The invariant
  says at which points of `putch` the cursor may be out of place: past the last column between the store of
  `cursor_x` and the wrap, on the last line between newline and scroll; that
  what `putch` has loaded is in place; and that a key echoed at such a moment
  puts the cursor back in place.
- `Boot_proofs`: `Stage2StaysIntact` and `ImageInPlace` hold of `BootSpec`, for
  any number of unreadable sectors and any address of the video memory.  The
  invariant says which part of the image is in place at which point of the
  code, and how far the loading of the kernel has come; a step keeps it if it
  writes none of the units in `Kept`, and that the directory, the tables and
  the stack are not among them is arithmetic on the layout (`PartsKept`).
  `ChsIsInverse` shows that `lba_to_chs` finds the sector it was given.
  `BootTypeOK` and `MappedOnEntry` hold too, for every address of the video
  memory.  `MapInv` says which entries of the directory are
  there from which point on, unless the video memory's is written over them, `LoadInv` at which sector the loop is that reads
  stage 2.
- `Startup_proofs`: `CardsAreConfiguredOnce` holds of `StartupSpec`, for any number of slots, buses and cards and any ramdisk, and
  `StartupSpec` implements `RdSpec` of `Ramdisk`.  `RamdiskTypeOK` holds of
  `RdSpec`, so of `StartupSpec`, for any files; `FindAnswersByName` and
  `FilesReadBack` if `EntriesAreLoaded`: the sector that stage 2 loads has room
  for the entries of all the files (21 of them), for `rd_find` cannot see an
  entry that was not loaded, and `rd_read` takes a file's place from its entry.
  The invariant says only that `ram` is the image of the files as far as it is
  loaded and that `rd_init` has read its head; the work is in the lemmas on the
  image, which is a fold over the files: where each entry and each file lies,
  and that a name followed by a 0 is matched by one entry at most.
- `BinTree_proofs`: `TreeTypeOK`, `LinksAgree`, `SearchOrder`,
  `LookupsFindTheirValue` and `HeadersStayWithValues` hold of `TreeSpec`, and
  `TreeSpec` implements `KeyBag`, for any keys and an array of any size.  That
  the links agree is not inductive: a ring of nodes would pass.  `TreeInv`
  carries along a set of nodes for each node, `sub`: it is the node itself and
  the sets of its two children, which are apart and do not have it; the root's is
  all the slots in use.  Values are in order if they are between a node and the
  sets of its children.  Each operation then has the sets of its result given
  outright: `NodeTakenOut` for `Detached`, `TreeRenamed` for the node of the last
  slot that moves into the free one, `LeafAdded` for an insertion, and `Revalued`
  with `NeighbourIsNext` for the value that takes the place of the one removed.
  After the insertion that `cut` records, all of this still holds but for the
  nodes lost, and that is what the theorems say.  No copy of a value is lost
  (`TreeImplementsBag`) because a removal comes with a bijection between the
  nodes after it and all the nodes before it but the one it was given.
- `HoleHeap_proofs`: `HoleHeapTypeOK`, `HolesAreIndexed`, `BlocksAreApart` and
  the action property `FreedJoinsTheHoleBefore` hold of `HoleHeapSpec`, for
  memory of any size, any requests and any order of them.  The invariants are not
  inductive: a best fit is large enough only in a search tree, and a hole leaves
  the index whole only if the links agree.  The invariant (`HoleInv`) has the tree
  of `BinTree_proofs`, and in `Layout` the words that tell of each hole and
  block.  For the action property it also says that behind a block that is held
  another block or hole follows at once, or after at least the five words of an
  old header and footer (`NoNarrowGap`): `heap_free` looks for the next header a
  word too far on, and by this that is never the header of a hole, so that the
  only hole a block joins is in front of it.
  An operation writes the words of one block (`PutWords`); no other
  block notices, for the words that tell of a block are its own (`FramesApart`,
  `SameFrames`).  Then there is one lemma each for a block that is held
  (`OneHeldMore`), given back (`OneHeldLess`), and for a hole that joins the
  index (`ListedLayout`), leaves it (`UnlistedLayout`) or comes back longer
  (`HoleGrows`).  What the index is after each is in the lemmas of `BinTree_proofs`.

Recursive functions (`Chain`, `Subtree`, the descents of the lookups and of the
insertion, the folds of the image) are taken for what TLA+ says they are: a
function chosen to satisfy its equation.  That there is one is proved
in `Recursion`, for recursion down to a number and over a binary tree, from a
rank that falls with every step; `NestedIsForest` gives the nodes of a tree such
a rank, the size of `sub`.

Only model-checked: the liveness property (`EventuallyOneAnswer`), for which the
prover has no rules.

## Findings

- `paging_reserved`: once the first word of the frame map is full,
  `imap_set_next` answers frame 256, which is the kernel's data, and it is
  mapped into the page asked for.
- `kheap_reuse`: a block given to `kheap_free` is not on the list from which
  `kheap_alloc` takes.
- `kheap_grow`: a request that takes the last block of the list writes through
  NULL and stops the machine, before the expansion that the comment and the
  design speak of; where page 0 is present the next request does expand, and
  looks the new slab's descriptor up at the wrong address.
- `boot_retry`: there is a message for a read that failed and is tried again,
  and no code that tries again: the kernel is entered with a sector missing.

## Not modelled

- The A20 gate, the GDT, IDT and PIC setup, the choice of a video mode:
  straight-line programming of the machine, once.
- The processor's translation buffer, the `rw` and `user` bits, and the
  addresses of `kmalloc`, which only grows.
- What is drawn: pixels, fonts, the digits of numbers.
- The registers of the network card: `rtl8029_init` writes them once, and
  `rtl8029_send`, which waits for the card, has no caller.
- `new_pagedir`, the constructor of a heap that calls none: no code runs it.
- `switch_node` and `dump_node`, which `tasking_test` calls after both programs
  are loaded, where `Startup` ends; `contract`, `bin_tree_rotate` and `rebalance`,
  which have no live caller.
- A heap of two slabs, and what a write through a wild address may hit.
- `tasking/tasking.c`, which `kernel.c` no longer includes and which does not fit
  the present `task.c`; `debug.c` (prints only), `usermode.c` (not called), and
  the superseded files listed in `PROJECT.json`.

## Plan

What would be worth adding, in this order:

1. `get_first_set` and `get_first_set_alt` against the definition `FirstClear`.
