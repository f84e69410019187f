-------------------------------- MODULE Imap --------------------------------
(***************************************************************************)
(* The index map of data_structures/: a bitmap of entries and a stack of   *)
(* indices, which the kernel uses as its allocator of physical frames      *)
(* (frames_map of init/paging.c).                                          *)
(*                                                                         *)
(* imap_create pushes the numbers 0 .. Size-1, 0 on top, over a bitmap of  *)
(* Size * Ratio bits.  imap_set_next reads a number from the stack as the  *)
(* number of a BIT, and answers that number plus the offset of the first   *)
(* clear bit of the word the bit is in.  The two agree only when the       *)
(* number is the first bit of its word and the word has room.              *)
(*                                                                         *)
(* The bitmap is the set of its set bits.  The stack is a sequence with    *)
(* its top at the end; slot i of the code's array is element i + 1.        *)
(***************************************************************************)
EXTENDS Integers, Sequences

CONSTANTS
    WordBits,    \* bits of a word of the bitmap: 32
    Size,        \* the argument of imap_create: frames of memory
    Ratio,       \* bits of the bitmap per unit of Size: 8
    NoBit,       \* what get_first_set answers for 0: (u8)(-1) = 255
    VideoSlots,  \* slots of the stack that claims beyond the bitmap overwrite
    Claimable    \* entries that bitmap_set may be called for directly

Entries == 0 .. (Size * Ratio - 1)

\* get_first_set answers no bit of a word for 0, and the entry computed from
\* that answer still falls inside the bitmap (255 + 0xFFFF < 8 * 0x10000).
ASSUME ImapAssumption ==
    /\ WordBits \in Nat \ {0}
    /\ Size \in Nat \ {0}
    /\ Ratio \in Nat \ {0}
    /\ NoBit \in Nat
    /\ NoBit >= WordBits
    /\ Size - 1 + NoBit < Size * Ratio
    /\ VideoSlots \subseteq 1 .. Size
    /\ Claimable \subseteq Entries

VARIABLES
    bits,     \* the set bits of imap->bitmap
    stack,    \* imap->stack from base to top
    answer,   \* what the last imap_set_next returned
    repeats   \* history: the entries answered while they were set already

vars == <<bits, stack, answer, repeats>>

Fail == -1

-----------------------------------------------------------------------------
(* Words of the bitmap *)

\* The first bit of the word an entry is in.
WordBase(e) == WordBits * (e \div WordBits)

\* The bits of the word that bitmap_get_context reads for an entry.
Word(e) == WordBase(e) .. (WordBase(e) + WordBits - 1)

WordFull(b, e) == Word(e) \subseteq b

ClearOffsets(b, e) == {o \in 0 .. WordBits - 1 : WordBase(e) + o \notin b}

\* get_first_set of the complement of the word of entry e.
FirstClear(b, e) ==
    IF WordFull(b, e)
    THEN NoBit
    ELSE CHOOSE o \in ClearOffsets(b, e) :
            \A p \in ClearOffsets(b, e) : o <= p

-----------------------------------------------------------------------------
(* The stack *)

\* stack_peek: the element at top, -1 when the stack is empty.
Peek(s) == IF s = <<>> THEN Fail ELSE s[Len(s)]

\* stack_pop, as its only caller uses it: the value it returns is dropped.
Pop(s) == SubSeq(s, 1, Len(s) - 1)

\* The guard compares top - base with max and so lets Size + 1 elements in:
\* the last of them lies past the end of the array.
Push(s, x) == IF Len(s) <= Size THEN Append(s, x) ELSE s

-----------------------------------------------------------------------------
(* imap_create: Size - 1 first, 0 last.  Claiming the frames of the video  *)
(* memory sets bits beyond the end of the bitmap, in whole words, and      *)
(* these words are slots of the stack's array: they become 0xFFFFFFFF.     *)

\* Mutant: the loop of imap_create runs once more.
InitialStack_OneMore == [i \in 1 .. Size + 1 |-> Size + 1 - i]

InitialStack ==
    [i \in 1 .. Size |-> IF i \in VideoSlots THEN Fail ELSE Size - i]

Init ==
    /\ bits = {}
    /\ stack = InitialStack
    /\ answer = 0
    /\ repeats = {}

-----------------------------------------------------------------------------
(* imap_set_next *)

\* The entry imap_set_next computes from the index on top of the stack.
NextEntry == Peek(stack) + FirstClear(bits, Peek(stack))

SetNextExhausted ==
    /\ Peek(stack) = Fail
    /\ answer' = Fail
    /\ UNCHANGED <<bits, stack, repeats>>

\* Mutant: the index is popped whenever an entry is taken.
TakeEntry_PopsAlways(e) ==
    /\ bits' = bits \cup {e}
    /\ stack' = Pop(stack)

\* Mutant: pops when the word has one bit left.
TakeEntry_PopsEarly(e) ==
    /\ bits' = bits \cup {e}
    /\ stack' = IF \E f \in Entries : WordFull(bits \cup {e, f}, e)
                THEN Pop(stack) ELSE stack

\* Mutant: each request leaves the two topmost indices swapped.
TakeEntry_Swaps(e) ==
    LET n == Len(stack)
    IN  /\ bits' = bits \cup {e}
        /\ stack' = IF n > 1 THEN [stack EXCEPT ![n] = stack[n-1], ![n-1] = stack[n]]
                             ELSE stack

\* bitmap_set of the entry, and stack_pop when its word is full with it.
TakeEntry(e) ==
    /\ bits' = bits \cup {e}
    /\ stack' = IF WordFull(bits', e) THEN Pop(stack) ELSE stack

SetNextEntry ==
    /\ Peek(stack) # Fail
    /\ TakeEntry(NextEntry)
    /\ answer' = NextEntry
    /\ repeats' = IF NextEntry \in bits THEN repeats \cup {NextEntry} ELSE repeats

SetNext == SetNextEntry \/ SetNextExhausted

-----------------------------------------------------------------------------
(* The other operations *)

\* bitmap_set by get_specific_frame: the stack does not hear of it.
Claim(e) ==
    /\ bits' = bits \cup {e}
    /\ UNCHANGED <<stack, answer, repeats>>

\* imap_clear: the word's number goes back on the stack if the word was full.
Clear(e) ==
    /\ stack' = IF WordFull(bits, e) THEN Push(stack, e \div WordBits) ELSE stack
    /\ bits' = bits \ {e}
    /\ UNCHANGED <<answer, repeats>>

\* imap_stack_reset: the numbers of the words with room, the last one on top.
StackReset ==
    /\ stack' = SelectSeq([i \in 1 .. (Size * Ratio) \div WordBits |-> i - 1],
                          LAMBDA w : ~ WordFull(bits, w * WordBits))
    /\ UNCHANGED <<bits, answer, repeats>>

-----------------------------------------------------------------------------
(* The kernel as it runs: paging_init claims frames, get_a_frame asks for   *)
(* more, and nothing gives a frame back (free_pages has no live caller).    *)

KernelNext == SetNext \/ \E e \in Claimable : Claim(e)

KernelSpec == Init /\ [][KernelNext]_vars

FairKernelSpec == KernelSpec /\ WF_vars(SetNext)

-----------------------------------------------------------------------------
(* Properties of the kernel's use *)

\* How many indices have been popped: the index on top, as nothing is pushed.
Popped == Size - Len(stack)

TypeOK ==
    /\ bits \subseteq Entries
    /\ stack \in Seq(-1 .. Size - 1)
    /\ Len(stack) <= Size
    /\ answer \in Entries \cup {Fail}
    /\ repeats \subseteq Entries

\* imap_set_next never passes over an index before the word of that index is
\* full: no frame below the index on top of the stack is ever left behind.
PassedIndicesAreFull == \A i \in 0 .. Popped - 1 : WordFull(bits, i)

\* imap_set_next reports that nothing is left only if every frame below the
\* last index it tried is taken; with no slot overwritten, every frame.
FailOnlyWhenScanned ==
    answer = Fail =>
        /\ (VideoSlots = {} => 0 .. Size - 1 \subseteq bits)
        /\ (VideoSlots # {} => \E v \in VideoSlots : 0 .. Size - v - 1 \subseteq bits)

\* A frame is handed out twice only as the answer NoBit bits beyond an index
\* whose word is full.  So as long as the first word has a clear bit, every
\* frame that imap_set_next hands out is a frame nobody had.
RepeatsOnlyPastAFullWord ==
    \A e \in repeats : /\ e >= NoBit
                       /\ WordFull(bits, e - NoBit)
                       /\ WordFull(bits, 0)

\* A kernel that only asks for frames comes to a state in which every further
\* request gets the same answer: the failure, or one frame for ever.
EventuallyOneAnswer == \E a \in Entries \cup {Fail} : <>[](answer = a)
=============================================================================
