----------------------------- MODULE FlashImage -----------------------------
(***************************************************************************)
(* What the flasher makes of its ELF files (client/src/flash.c): program   *)
(* headers become block aligned segments (build_segs_from_phdrs), these    *)
(* are checked (check_segs), and when every file has passed, flash_pm3     *)
(* writes them block by block.  Erasing is part of writing a block, so a   *)
(* block written twice keeps only what came last.  Byte values are the     *)
(* file and header they come from; an ELF file is the headers read so far. *)
(***************************************************************************)
EXTENDS Integers, Sequences

CONSTANTS
    BLOCK_SIZE, FLASH_START, BOOTLOADER_END, FlashEnd,
    PhdrAddrs,      \* physical addresses in program headers
    PhdrSizes,      \* file sizes in program headers
    FLASH_MAX_FILES,
    MaxPhdrs        \* bound: program headers in all files together

ASSUME ImageAssumption ==
    /\ BLOCK_SIZE \in Nat \ {0}
    /\ \A a \in {FLASH_START, BOOTLOADER_END, FlashEnd} :
          a \in Nat /\ a % BLOCK_SIZE = 0
    /\ FLASH_START < BOOTLOADER_END /\ BOOTLOADER_END < FlashEnd
    /\ PhdrAddrs \subseteq Nat /\ PhdrSizes \subseteq Nat
    /\ FLASH_MAX_FILES \in Nat \ {0} /\ MaxPhdrs \in Nat

\* A header: PT_LOAD or not, p_paddr, p_filesz, and whether the two tests on
\* the other fields (memory size, writable flash address) pass.
Phdrs == [load : BOOLEAN, paddr : PhdrAddrs, filesz : PhdrSizes, sane : BOOLEAN]

VARIABLES
    pc,
    can_write_bl,
    queue,          \* the segments of the files loaded, file after file
    segments,       \* those of the file being loaded: [start, data]
    last_end,
    phdrs,          \* headers read in all
    image,          \* history: what each address holds in the file loaded
    images,         \* history: the same for the files loaded before it
    flash,
    seg, off        \* flash_write: the next segment of all, bytes written of it

vars == <<pc, can_write_bl, queue, segments, last_end, phdrs, image, images,
          flash, seg, off>>

Addresses == FLASH_START .. FlashEnd - 1
Old == <<"old", 0>>
FF == <<"FF", 0>>
Zero == <<"00", 0>>
None == <<"none", 0>>
Values == {Old, FF, Zero} \cup ({"phdr"} \X (1 .. MaxPhdrs))
Block(a) == BLOCK_SIZE * (a \div BLOCK_SIZE)
End(s) == s.start + Len(s.data)
LastBlock(s) == Block(End(s) - 1)
Fill(n, v) == [i \in 1 .. n |-> v]
Nothing == [a \in Addresses |-> None]

Bytes == Values \ {Old}
Segments == [start : Nat, data : Seq(Bytes)]
Images == [Addresses -> {None} \cup ({"phdr"} \X (1 .. MaxPhdrs))]

\* A segment starts with a block, is not empty and lies in flash.
SegmentOK(s) ==
    /\ s.start % BLOCK_SIZE = 0 /\ Len(s.data) > 0
    /\ s.start >= FLASH_START /\ End(s) <= FlashEnd

FilesOK ==
    /\ segments \in Seq(Segments) /\ queue \in Seq(Segments)
    /\ \A i \in DOMAIN segments : SegmentOK(segments[i])
    /\ \A i \in DOMAIN queue : SegmentOK(queue[i])
    /\ last_end \in 0 .. FlashEnd /\ phdrs \in 0 .. MaxPhdrs
    /\ image \in Images
    /\ images \in Seq(Images) /\ Len(images) <= FLASH_MAX_FILES

WriterOK ==
    /\ pc \in {"build", "write", "done", "failed"}
    /\ can_write_bl \in BOOLEAN
    /\ flash \in [Addresses -> Values]
    /\ seg \in 1 .. Len(queue) + 1
    /\ off \in Nat /\ off % BLOCK_SIZE = 0
    /\ IF seg <= Len(queue) THEN off < Len(queue[seg].data) ELSE off = 0

TypeOK == FilesOK /\ WriterOK

Init ==
    /\ pc = "build" /\ can_write_bl \in BOOLEAN
    /\ queue = <<>> /\ segments = <<>> /\ last_end = 0 /\ phdrs = 0
    /\ image = Nothing /\ images = <<>>
    /\ flash = [a \in Addresses |-> Old]
    /\ seg = 1 /\ off = 0

Content == <<"phdr", phdrs + 1>>

Loads(h) ==
    image' = [a \in Addresses |-> IF a \in h.paddr .. h.paddr + h.filesz - 1
                                  THEN Content ELSE image[a]]

\* The checks of build_segs_from_phdrs, in any order: all are fatal.
Acceptable(h) ==
    /\ h.sane
    /\ h.paddr >= last_end
    /\ h.paddr >= FLASH_START /\ h.paddr + h.filesz <= FlashEnd

BuggyMerges(h) == FALSE

\* The header begins inside the block in which the last segment ends.
Merges(h) ==
    /\ h.paddr % BLOCK_SIZE # 0 /\ segments # <<>>
    /\ Block(h.paddr) = Block(last_end - 1)

BuggyExtended(s, h) == [s EXCEPT !.data = @ \o Fill(h.filesz, Content)]

\* The last segment, extended by the hole and the new data.
Extended(s, h) ==
    [s EXCEPT !.data = @ \o Fill(h.paddr - End(s), FF)
                         \o Fill(h.filesz, Content)]

BuggyPadded(h) == [start |-> h.paddr, data |-> Fill(h.filesz, Content)]

\* A segment of its own, padded at the front to a block boundary.
Padded(h) ==
    [start |-> Block(h.paddr),
     data |-> Fill(h.paddr % BLOCK_SIZE, FF) \o Fill(h.filesz, Content)]

Fail == pc' = "failed" /\ UNCHANGED <<queue, segments, last_end, image>>

\* One turn of the loop of build_segs_from_phdrs.
BuildSeg(h) ==
    /\ pc = "build" /\ Len(images) < FLASH_MAX_FILES /\ phdrs < MaxPhdrs
    /\ phdrs' = phdrs + 1
    /\ \/ /\ ~h.load \/ h.filesz = 0
          /\ UNCHANGED <<pc, queue, segments, last_end, image>>
       \/ h.load /\ h.filesz > 0 /\ ~Acceptable(h) /\ Fail
       \/ /\ h.load /\ h.filesz > 0 /\ Acceptable(h)
          /\ segments' = IF Merges(h)
                         THEN [segments EXCEPT ![Len(segments)] = Extended(@, h)]
                         ELSE Append(segments, Padded(h))
          /\ last_end' = h.paddr + h.filesz
          /\ Loads(h)
          /\ UNCHANGED <<pc, queue>>
    /\ UNCHANGED <<can_write_bl, images, flash, seg, off>>

BuggyPermitted(s) ==
    /\ s.start % BLOCK_SIZE = 0 /\ s.start >= FLASH_START /\ End(s) <= FlashEnd
    /\ can_write_bl \/ End(s) > BOOTLOADER_END

\* check_segs
Permitted(s) ==
    /\ s.start % BLOCK_SIZE = 0 /\ s.start >= FLASH_START /\ End(s) <= FlashEnd
    /\ can_write_bl \/ s.start >= BOOTLOADER_END
    /\ s.start >= BOOTLOADER_END \/ End(s) <= BOOTLOADER_END

\* The end of flash_load: the file's headers have all been read.
CheckSegs ==
    /\ pc = "build" /\ Len(images) < FLASH_MAX_FILES
    /\ \/ /\ \A i \in DOMAIN segments : Permitted(segments[i])
          /\ queue' = queue \o segments /\ images' = Append(images, image)
          /\ segments' = <<>> /\ last_end' = 0 /\ image' = Nothing
          /\ UNCHANGED pc
       \/ /\ \E i \in DOMAIN segments : ~Permitted(segments[i])
          /\ Fail /\ UNCHANGED images
    /\ UNCHANGED <<can_write_bl, phdrs, flash, seg, off>>

\* A file that cannot be opened, read or is no ARM executable.
BadFile ==
    /\ pc = "build" /\ Len(images) < FLASH_MAX_FILES
    /\ Fail
    /\ UNCHANGED <<can_write_bl, phdrs, images, flash, seg, off>>

\* flash_pm3 has loaded all files.
StartWriting ==
    /\ pc = "build" /\ segments = <<>> /\ images # <<>>
    /\ pc' = "write"
    /\ UNCHANGED <<can_write_bl, queue, segments, last_end, phdrs, image, images,
                   flash, seg, off>>

(***************************************************************************)
(* write_block: the length bytes of data that are left, at most a block,   *)
(* go to the boot ROM.  block_buf is filled with 0xFF first, but only      *)
(* length bytes of it are sent: the packet is zero behind them.            *)
(***************************************************************************)
WriteBlock ==
    /\ pc = "write" /\ seg <= Len(queue)
    /\ LET s == queue[seg]
           n == IF Len(s.data) - off > BLOCK_SIZE THEN BLOCK_SIZE
                ELSE Len(s.data) - off
           base == s.start + off
       IN /\ flash' = [a \in Addresses |->
                         IF a \notin base .. base + BLOCK_SIZE - 1 THEN flash[a]
                         ELSE IF a < base + n THEN s.data[a - s.start + 1]
                         ELSE Zero]
          /\ \/ off + n = Len(s.data) /\ seg' = seg + 1 /\ off' = 0
             \/ off + n < Len(s.data) /\ off' = off + n /\ UNCHANGED seg
    /\ UNCHANGED <<pc, can_write_bl, queue, segments, last_end, phdrs, image, images>>

\* The boot ROM refuses a block, or the user stops the flasher.
WriteFails ==
    /\ pc = "write" /\ seg <= Len(queue)
    /\ pc' = "failed"
    /\ UNCHANGED <<can_write_bl, queue, segments, last_end, phdrs, image, images,
                   flash, seg, off>>

AllWritten ==
    /\ pc = "write" /\ seg > Len(queue) /\ pc' = "done"
    /\ UNCHANGED <<can_write_bl, queue, segments, last_end, phdrs, image, images,
                   flash, seg, off>>

Ended == pc \in {"done", "failed"} /\ UNCHANGED vars

Next ==
    \/ \E h \in Phdrs : BuildSeg(h)
    \/ CheckSegs \/ BadFile \/ StartWriting
    \/ WriteBlock \/ WriteFails \/ AllWritten \/ Ended

Spec == Init /\ [][Next]_vars

-----------------------------------------------------------------------------
InBlock(a, b) == Block(a) = Block(b)

(***************************************************************************)
(* After a complete run every byte of every program header is in flash at  *)
(* its physical address, merged, padded and split as it was; except where  *)
(* a later file has data in the same block, which no check rules out.      *)
(***************************************************************************)
ImageWritten ==
    pc = "done" =>
        \A f \in DOMAIN images : \A a \in Addresses :
            images[f][a] = None \/ flash[a] = images[f][a]
            \/ \E g \in f + 1 .. Len(images) : \E b \in Addresses :
                  InBlock(a, b) /\ images[g][b] # None

(***************************************************************************)
(* At every moment, flash outside the blocks that hold image data is as it *)
(* was, and so is the boot ROM when can_write_bl is not set.               *)
(***************************************************************************)
NothingElseTouched ==
    \A a \in Addresses :
        \/ flash[a] = Old
        \/ /\ can_write_bl \/ a >= BOOTLOADER_END
           /\ \E f \in DOMAIN images : \E b \in Addresses :
                 InBlock(a, b) /\ images[f][b] # None

(***************************************************************************)
(* No two segments of one file share a block: writing the later one would  *)
(* erase the end of the earlier.                                           *)
(***************************************************************************)
SegmentsShareNoBlock ==
    \A i, j \in DOMAIN segments :
        i < j => LastBlock(segments[i]) < segments[j].start
=============================================================================
