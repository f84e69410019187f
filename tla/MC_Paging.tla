----------------------------- MODULE MC_Paging -----------------------------
(* A machine of 10 frames in words of 2: the first word has the free frames  *)
(* 0 and 1, the kernel is in 2..3, its stack in 4..5, the ramdisk in 6, its  *)
(* data in 8..9, and the video memory lies beyond the bitmap.  As in the     *)
(* kernel, the answer of a full first word falls into the kernel's data, and *)
(* the data has two page tables, of which paging_init clears the first.      *)
EXTENDS Paging

MCTableIndices == 0 .. 7
MCKernelSpace == 3 .. 7
MCVideoSlots == {7}
MCVideo == [frame |-> 28, page |-> 28, size |-> 1]
MCKernelImage == [frame |-> 2, page |-> 12, size |-> 2]
MCKernelData == [frame |-> 8, page |-> 19, size |-> 2]
MCRamdisk == [frame |-> 6, page |-> 6, size |-> 1]
MCKernelStack == [frame |-> 4, page |-> 4, size |-> 2]
MCRamContents == {Blank}
MCDirContents == {NoTable}

\* A node's program is loaded through its own directory; the heaps extend
\* through the kernel's: two of them overlap, and one is at the video memory.
MCRanges == {[page |-> 0, size |-> 2, dirs |-> Dirs],
             [page |-> 24, size |-> 2, dirs |-> {KernelDir}],
             [page |-> 25, size |-> 1, dirs |-> {KernelDir}],
             [page |-> 28, size |-> 1, dirs |-> {KernelDir}]}
=============================================================================
