------------------------------ MODULE Ramdisk -------------------------------
(* The ramdisk: the image that initrd/rdgen.c writes, of which stage2.asm    *)
(* loads one sector, and the functions of initrd/initrd.c that find and read *)
(* its files.  A cell of memory is a byte; the numbers of an entry take one. *)
EXTENDS Integers, Sequences, FiniteSets

CONSTANTS
    Names,      \* the names of files: sequences of characters, none of them 0
    Contents,   \* the contents of files: sequences of bytes
    MaxFiles,   \* bound on the number of files
    NameSize,   \* FN_SIZE
    Loaded,     \* the bytes of the image that are loaded: rdSize sectors
    ByteSize,   \* the numbers that fit a u8
    MaxRead     \* bound on the offsets and sizes of reads

RamdiskAssumption ==
    /\ Names # {} /\ Names \subseteq Seq(Nat \ {0})
    /\ \A name \in Names : Len(name) < NameSize
    /\ Contents \subseteq Seq(Nat)
    /\ {MaxFiles, NameSize, Loaded, ByteSize, MaxRead} \subseteq Nat \ {0}
ASSUME RamdiskAssumption

NULL == -1

Junk == -2    \* a byte that nobody has written

VARIABLES
    files,    \* the files that rdgen was given, in the manifest's order
    ram,      \* the memory from rdBase on
    disk,     \* rd_num_files, and rd_data as an offset from rdBase
    answer    \* what the last call gave back

rdVars == <<files, ram, disk, answer>>

-----------------------------------------------------------------------------
(* initrd/rdgen.c *)

EntrySize == NameSize + 2

\* Mutant: the start is counted from the image's begin.
StartOf_InImage(given, i) ==
    LET start[k \in 0 .. Len(given) - 1] ==
            IF k = 0 THEN 1 + Len(given) * EntrySize
            ELSE start[k - 1] + Len(given[k].data)
    IN  start[i]

(* Where a file starts in the data: behind the files before it. *)
StartOf(given, i) ==
    LET start[k \in 0 .. Len(given) - 1] ==
            IF k = 0 THEN 0 ELSE start[k - 1] + Len(given[k].data)
    IN  start[i]

(* An entry: the name with its 0 and what was behind it, start and size. *)
Entry(given, i) ==
    LET name == given[i + 1].name
    IN  [k \in 1 .. EntrySize |->
           CASE k <= Len(name)     -> name[k]
             [] k = Len(name) + 1  -> 0
             [] k = NameSize + 1   -> StartOf(given, i)
             [] k = NameSize + 2   -> Len(given[i + 1].data)
             [] OTHER              -> Junk]

Image(given) ==
    LET entries[i \in 0 .. Len(given)] ==
            IF i = 0 THEN <<Len(given)>> ELSE entries[i - 1] \o Entry(given, i - 1)
        data[i \in 0 .. Len(given)] ==
            IF i = 0 THEN <<>> ELSE data[i - 1] \o given[i].data
    IN  entries[Len(given)] \o data[Len(given)]

(* read_loop of stage 2: only so much of the image reaches memory. *)
LoadedImage(given) ==
    [c \in 0 .. Loaded - 1 |->
       IF c < Len(Image(given)) THEN Image(given)[c + 1] ELSE Junk]

-----------------------------------------------------------------------------
(* initrd/initrd.c *)

Byte(c) == IF c \in DOMAIN ram THEN ram[c] ELSE Junk

\* Mutant: the number of files is not skipped.
EntryAt_NoCount(i) == i * EntrySize

EntryAt(i) == 1 + i * EntrySize

(* Unset is what the globals are before rd_init. *)
Unset == [num_files |-> NULL, data |-> NULL]

Nothing == [op |-> "none"]

FileLists ==
    UNION {[1 .. n -> [name : Names, data : Contents]] : n \in 1 .. MaxFiles}

RdStart == /\ files \in {given \in FileLists :
                           \A i, j \in DOMAIN given :
                              given[i].name = given[j].name => i = j}
           /\ ram = LoadedImage(files)
           /\ disk = Unset
           /\ answer = Nothing

RdInit == /\ disk = Unset
          /\ disk' = [num_files |-> Byte(0), data |-> EntryAt(Byte(0))]
          /\ UNCHANGED <<files, ram, answer>>

\* Mutant: the end of the name is not compared.
NameMatches_Prefix(i, name) ==
    \A k \in 1 .. Len(name) : Byte(EntryAt(i) + k - 1) = name[k]

(* The loop of rd_find over the characters: they agree up to the 0. *)
NameMatches(i, name) ==
    /\ \A k \in 1 .. Len(name) : Byte(EntryAt(i) + k - 1) = name[k]
    /\ Byte(EntryAt(i) + Len(name)) = 0

(* rd_find looks at the entries 0 to rd_num_files, one more than there are. *)
Searched == 0 .. disk.num_files

Find(name) ==
    LET matching == {i \in Searched : NameMatches(i, name)}
        first == CHOOSE i \in matching : \A j \in matching : i <= j
    IN  /\ disk # Unset
        /\ answer' = [op |-> "find", name |-> name,
                      entry |-> IF matching = {} THEN NULL ELSE first]
        /\ UNCHANGED <<files, ram, disk>>

(* rd_read: the offset is a u8. *)
Truncated(offset) == offset % ByteSize

StartByte(i) == Byte(EntryAt(i) + NameSize)
SizeByte(i)  == Byte(EntryAt(i) + NameSize + 1)

(* Whether a read goes past the end of its file: of the entry behind the     *)
(* last the size may be one that nobody has written, and any.                *)
PastTheEnd(i, offset, size) ==
    IF SizeByte(i) = Junk THEN BOOLEAN
                          ELSE {Truncated(offset) + size > SizeByte(i)}

ReadFrom(i, offset) == disk.data + StartByte(i) + Truncated(offset)

BytesAt(i, offset, size) ==
    [k \in 1 .. size |-> IF StartByte(i) = Junk THEN Junk
                         ELSE Byte(ReadFrom(i, offset) + k - 1)]

(* The callers read through the entry that rd_find has answered: one of a    *)
(* file, or the one behind the last.                                         *)
Reads == answer.op = "find" /\ answer.entry # NULL

Read(offset, size) ==
    /\ Reads
    /\ \E past \in PastTheEnd(answer.entry, offset, size) :
          answer' =
             IF past
             THEN [op |-> "read", file |-> answer.entry, offset |-> offset,
                   size |-> size, status |-> 1]
             ELSE [op |-> "read", file |-> answer.entry, offset |-> offset,
                   size |-> size, status |-> 0,
                   buffer |-> BytesAt(answer.entry, offset, size)]
    /\ UNCHANGED <<files, ram, disk>>

(* A byte that was not loaded may lie on a page that is not mapped. *)
ReadFaults(offset, size) ==
    /\ Reads
    /\ FALSE \in PastTheEnd(answer.entry, offset, size)
    /\ \E k \in 1 .. size : \/ StartByte(answer.entry) = Junk
                            \/ ReadFrom(answer.entry, offset) + k - 1 \notin DOMAIN ram
    /\ answer' = [op |-> "fault"]
    /\ UNCHANGED <<files, ram, disk>>

RdNext == \/ RdInit
          \/ \E name \in Names : Find(name)
          \/ \E offset, size \in 0 .. MaxRead :
                Read(offset, size) \/ ReadFaults(offset, size)

RdSpec == RdStart /\ [][RdNext]_rdVars

-----------------------------------------------------------------------------
(* Properties *)

(* The functions see as many files as rdgen wrote, and behind their entries  *)
(* the data.                                                                 *)
RamdiskTypeOK ==
    /\ DOMAIN ram = 0 .. Loaded - 1
    /\ disk = Unset \/ /\ disk.num_files = Len(files)
                       /\ disk.data = Len(Image(files)) - StartOf(files, Len(files) - 1)
                                      - Len(files[Len(files)].data)
    /\ answer.op \in {"none", "find", "read", "fault"}

(* rd_find answers the entry of the file of that name.  For any other name   *)
(* it answers that there is none, unless the data begins with the name and a *)
(* 0: the entry behind the last is not one.                                  *)
FindAnswersByName ==
    answer.op = "find" =>
       LET named == {i \in DOMAIN files : files[i].name = answer.name}
           Starts(data) == /\ Len(data) > Len(answer.name)
                           /\ SubSeq(data, 1, Len(answer.name) + 1)
                                = answer.name \o <<0>>
           all == SubSeq(Image(files), disk.data + 1, Len(Image(files)))
       IN  IF named # {} THEN answer.entry + 1 \in named
           ELSE \/ answer.entry = NULL
                \/ answer.entry = Len(files) /\ Starts(all)

(* A file reads back as it was written, byte for byte, as far as the image   *)
(* is loaded and the offset fits a byte; a read beyond its end is refused.   *)
(* What is read through the entry behind the last is no file.                *)
FilesReadBack ==
    answer.op = "read" /\ answer.file < Len(files) /\ answer.offset < ByteSize =>
       LET data == files[answer.file + 1].data
           last == answer.offset + answer.size
           place == disk.data + StartOf(files, answer.file)
       IN  /\ (answer.status = 1) <=> last > Len(data)
           /\ answer.status = 0 /\ place + last <= Loaded =>
                 answer.buffer = SubSeq(data, answer.offset + 1, last)
=============================================================================
