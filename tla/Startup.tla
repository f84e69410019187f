------------------------------ MODULE Startup -------------------------------
(* kernel.c from init to tasking_test, over the ramdisk: rd_init, the scan   *)
(* of pci.c, the wait for a key, rd_test, and the nodes that task.c makes    *)
(* and loads.  paging_init and the heaps have modules of their own.          *)
EXTENDS Ramdisk

CONSTANTS
    SlotsScanned,      \* the slots of pci_init's loop: 100
    SlotsPerBus,       \* what the slot's field of an address holds: 32
    CardPlaces,        \* where a card may be: <<bus, slot>>
    StackDescriptors   \* the descriptors that expand links for stack_heap

StartupAssumption == /\ {SlotsScanned, SlotsPerBus, StackDescriptors} \subseteq Nat \ {0}
                     /\ CardPlaces \subseteq Nat \X (0 .. SlotsPerBus - 1)
ASSUME StartupAssumption

VARIABLES
    at,      \* the statement that kmain is at
    cards,   \* the cards of the machine
    slot,    \* pci_init's loop variable j
    devs,    \* history: the slots for which rtl8029_init was called
    page0,   \* is page 0 present in the kernel's directory?
    nodes    \* the nodes made: the descriptor of the stack, the entry of the
             \* program, and the directory that the program was copied to

kmainVars == <<at, cards, slot, devs, page0, nodes>>
startupVars == <<rdVars, kmainVars>>

CardKinds == {"none", "rtl8029", "other"}

(* Page 0 lies in none of the ranges that paging_init maps: its entry is     *)
(* what the memory of its table held, which get_page does not clear.         *)

StartupInit == /\ RdStart
               /\ at = "init"
               /\ cards \in [CardPlaces -> CardKinds]
               /\ slot = 0
               /\ devs = <<>>
               /\ page0 \in BOOLEAN
               /\ nodes = <<>>

-----------------------------------------------------------------------------
(* init *)

InitRamdisk == /\ at = "init"
               /\ at' = "pci_init"
               /\ RdInit
               /\ UNCHANGED <<cards, slot, devs, page0, nodes>>

\* Mutant: the bus is left as it was asked for.
Answering_Bus0(j) == <<0, j % SlotsPerBus>>

(* pci_config_read: what of the slot does not fit its field of the address   *)
(* goes to the field of the bus, which is 0 in the only round of the loop.   *)
Answering(j) == <<j \div SlotsPerBus, j % SlotsPerBus>>

CardAt(place) == IF place \in CardPlaces THEN cards[place] ELSE "none"

(* pci_init, one slot, with pci_configure_device. *)
ScanSlot == /\ at = "pci_init"
            /\ slot < SlotsScanned
            /\ slot' = slot + 1
            /\ devs' = IF CardAt(Answering(slot)) = "rtl8029"
                       THEN Append(devs, slot) ELSE devs
            /\ at' = IF slot + 1 = SlotsScanned THEN "hlt" ELSE at
            /\ UNCHANGED <<rdVars, cards, page0, nodes>>

(* hlt, until a key: the only interrupt that kinit.asm lets through. *)
Wake == /\ at = "hlt"
        /\ at' = "rd_test"
        /\ UNCHANGED <<rdVars, cards, slot, devs, page0, nodes>>

-----------------------------------------------------------------------------
(* The tests of kmain *)

(* rd_test, for any name and any part of the file. *)
RdTest == /\ at = "rd_test"
          /\ \/ \E name \in Names : Find(name)
             \/ \E offset, size \in 0 .. MaxRead :
                   Read(offset, size) \/ ReadFaults(offset, size)
          /\ at' = IF answer'.op = "fault" THEN "page_fault" ELSE at
          /\ UNCHANGED <<cards, slot, devs, page0, nodes>>

TaskingTest == /\ at = "rd_test"
               /\ at' = "rd_find"
               /\ UNCHANGED <<rdVars, cards, slot, devs, page0, nodes>>

FindProgram(name) == /\ at = "rd_find"
                     /\ at' = "make_node"
                     /\ Find(name)
                     /\ UNCHANGED <<cards, slot, devs, page0, nodes>>

(* make_node.  For a stack there is one block: the second request takes the  *)
(* last descriptor of stack_heap, writes through NULL, and with page 0       *)
(* present may come by a start that was never written.                       *)
MakeNode ==
    LET taken == Len(nodes) + 1
    IN  /\ at = "make_node"
        /\ taken < StackDescriptors \/ page0
        /\ nodes' = Append(nodes, [stack  |-> IF taken < StackDescriptors
                                              THEN taken ELSE NULL,
                                   entry  |-> answer.entry,
                                   copied |-> "nowhere"])
        /\ at' = "load_node"
        /\ UNCHANGED <<rdVars, cards, slot, devs, page0>>

MakeNodeFaults ==
    /\ at = "make_node"
    /\ Len(nodes) + 1 >= StackDescriptors
    /\ at' = "page_fault"
    /\ UNCHANGED <<rdVars, cards, slot, devs, page0, nodes>>

\* What load_node takes for the size of a program, and is not 0: for an entry
\* that is not there, what lies on page 0.
HasSize(i) == IF i = NULL \/ SizeByte(i) = Junk THEN BOOLEAN ELSE {SizeByte(i) # 0}

(* load_node reads the size, lets alloc_pages_for fill pages of the node's   *)
(* own directory, which nobody has prepared, and has rd_read copy the        *)
(* program to page 0 of the directory in use, the kernel's.                  *)
LoadProgram ==
    LET this == Len(nodes)
        i == nodes[this].entry
    IN  /\ at = "load_node"
        /\ i = NULL => page0
        /\ \E copies \in HasSize(i) :
              /\ copies => page0
              /\ nodes' = [nodes EXCEPT ![this].copied =
                              IF copies THEN "kernel_node" ELSE "nowhere"]
        /\ at' = IF this = 2 THEN "switch_node" ELSE "rd_find"
        /\ UNCHANGED <<rdVars, cards, slot, devs, page0>>

(* The table that get_page finds in a directory never written may be no      *)
(* memory, whatever the entry; a program may be longer than what is mapped.  *)
LoadProgramFaults ==
    /\ at = "load_node"
    /\ at' = "page_fault"
    /\ UNCHANGED <<rdVars, cards, slot, devs, page0, nodes>>

StartupNext ==
    \/ InitRamdisk
    \/ ScanSlot
    \/ Wake
    \/ RdTest
    \/ TaskingTest
    \/ \E name \in Names : FindProgram(name)
    \/ MakeNode \/ MakeNodeFaults
    \/ LoadProgram \/ LoadProgramFaults

StartupSpec == StartupInit /\ [][StartupNext]_startupVars

-----------------------------------------------------------------------------
(* Properties *)

Scanned == 0 .. slot - 1

Cards == {place \in CardPlaces : cards[place] = "rtl8029"}

(* Although the slots that are asked for go beyond those of a bus, each card *)
(* is configured once: a card of another bus answers for one slot of bus 0,  *)
(* which is asked by that number again when its base is read.                *)
CardsAreConfiguredOnce ==
    /\ \A i \in DOMAIN devs : Answering(devs[i]) \in Cards
    /\ \A j \in Scanned : Answering(j) \in Cards =>
          \E i \in DOMAIN devs : Answering(devs[i]) = Answering(j)
    /\ \A i, m \in DOMAIN devs : Answering(devs[i]) = Answering(devs[m]) => i = m
=============================================================================
