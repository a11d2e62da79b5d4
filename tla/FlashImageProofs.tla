-------------------------- MODULE FlashImageProofs --------------------------
(***************************************************************************)
(* Proofs about FlashImage, for ELF files with any number of headers.  One *)
(* invariant carries all theorems: a segment holds the image of its file   *)
(* where the image has data and 0xFF in the holes, none of its blocks is   *)
(* without data (SegmentFits), segments of one file share no block, and    *)
(* what lies before the writer's position is in flash or was overwritten   *)
(* by a later file (WrittenOK).                                            *)
(***************************************************************************)
EXTENDS FlashImage, TLAPS

Span(s) == s.start .. End(s) - 1

\* img is what the headers put at each address: the segment holds it.
SegmentFits(s, img) ==
    /\ \A a \in Span(s) : s.data[a - s.start + 1] = IF img[a] = None THEN FF ELSE img[a]
    /\ \A a \in Span(s) : \E b \in Span(s) : InBlock(a, b) /\ img[b] # None

\* The file that is being loaded.
BuildOK ==
    /\ IF segments = <<>> THEN last_end = 0 ELSE last_end = End(segments[Len(segments)])
    /\ \A i \in DOMAIN segments : End(segments[i]) <= last_end
    /\ \A i \in DOMAIN segments : SegmentFits(segments[i], image)
    /\ \A a \in Addresses : image[a] # None => \E i \in DOMAIN segments : a \in Span(segments[i])
    /\ SegmentsShareNoBlock

\* The files loaded; own[i] is the file queue[i] comes from.
QueueOK(own) ==
    /\ own \in [1 .. Len(queue) -> 1 .. Len(images)]
    /\ \A i, j \in DOMAIN queue : i < j => own[i] <= own[j]
    /\ \A i, j \in DOMAIN queue :
          i < j /\ own[i] = own[j] => LastBlock(queue[i]) < queue[j].start
    /\ \A i \in DOMAIN queue : SegmentFits(queue[i], images[own[i]])
    /\ \A i \in DOMAIN queue : can_write_bl \/ queue[i].start >= BOOTLOADER_END
    /\ \A f \in DOMAIN images : \A a \in Addresses :
          images[f][a] # None => \E i \in DOMAIN queue : own[i] = f /\ a \in Span(queue[i])

\* A later file has data in the block of a.
Covered(f, a) ==
    \E g \in f + 1 .. Len(images) : \E b \in Addresses : InBlock(a, b) /\ images[g][b] # None

Passed(i, a) == i < seg \/ (i = seg /\ a < queue[i].start + off)

\* What the writer has passed is in flash.
WrittenOK(own) ==
    \A i \in DOMAIN queue : \A a \in Span(queue[i]) :
        Passed(i, a) /\ images[own[i]][a] # None =>
            flash[a] = images[own[i]][a] \/ Covered(own[i], a)

PhaseOK ==
    /\ pc = "build" => seg = 1 /\ off = 0
    /\ pc = "done" => seg = Len(queue) + 1

LoadedOK == \E own : QueueOK(own) /\ WrittenOK(own)

ImageInv == TypeOK /\ BuildOK /\ PhaseOK /\ NothingElseTouched /\ LoadedOK

-----------------------------------------------------------------------------
(* Blocks *)

LEMMA Division ==
    ASSUME NEW a \in Nat
    PROVE  /\ a \div BLOCK_SIZE \in Nat /\ (a % BLOCK_SIZE) \in 0 .. BLOCK_SIZE - 1
           /\ a = BLOCK_SIZE * (a \div BLOCK_SIZE) + (a % BLOCK_SIZE)
  BY ImageAssumption

LEMMA Multiple ==
    ASSUME NEW q \in Nat, NEW r \in 0 .. BLOCK_SIZE - 1
    PROVE  /\ BLOCK_SIZE * q + r \in Nat
           /\ (BLOCK_SIZE * q + r) % BLOCK_SIZE = r
           /\ (BLOCK_SIZE * q + r) \div BLOCK_SIZE = q
  BY ImageAssumption

LEMMA BlockFacts ==
    ASSUME NEW a \in Nat
    PROVE  /\ Block(a) \in Nat /\ Block(a) <= a /\ a < Block(a) + BLOCK_SIZE
           /\ (a % BLOCK_SIZE) = a - Block(a) /\ Block(a) % BLOCK_SIZE = 0
<1> DEFINE q == a \div BLOCK_SIZE
           r == a % BLOCK_SIZE
<1>1. q \in Nat /\ r \in 0 .. BLOCK_SIZE - 1 /\ a = BLOCK_SIZE * q + r /\ Block(a) = BLOCK_SIZE * q
  BY Division DEF Block
<1>2. 0 \in 0 .. BLOCK_SIZE - 1 /\ BLOCK_SIZE * q \in Nat /\ BLOCK_SIZE * q + 0 = BLOCK_SIZE * q
  BY <1>1, ImageAssumption
<1>3. (BLOCK_SIZE * q) % BLOCK_SIZE = 0
  BY <1>1, <1>2, Multiple
<1> HIDE DEF q, r
<1>4. Block(a) \in Nat /\ Block(a) <= a /\ a < Block(a) + BLOCK_SIZE /\ r = a - Block(a)
  BY <1>1, <1>2, ImageAssumption
<1> QED
  BY <1>1, <1>3, <1>4 DEF r

LEMMA BlockNat == \A a \in Nat : Block(a) \in Nat
  BY BlockFacts

LEMMA AlignedBlock ==
    ASSUME NEW a \in Nat, a % BLOCK_SIZE = 0
    PROVE  Block(a) = a
<1>1. Block(a) \in Nat /\ (a % BLOCK_SIZE) = a - Block(a)
  BY BlockFacts
<1> QED
  BY <1>1

LEMMA BlockMonotone ==
    ASSUME NEW a \in Nat, NEW b \in Nat, a <= b
    PROVE  Block(a) <= Block(b)
  BY ImageAssumption DEF Block

\* A block that starts later starts where the other has ended.
LEMMA BlocksApart ==
    ASSUME NEW a \in Nat, NEW b \in Nat, Block(a) < Block(b)
    PROVE  Block(a) + BLOCK_SIZE <= Block(b)
  BY ImageAssumption DEF Block

LEMMA SameBlock ==
    ASSUME NEW a \in Nat, NEW b \in Nat, b % BLOCK_SIZE = 0, b <= a, a < b + BLOCK_SIZE
    PROVE  Block(a) = b
<1>1. Block(b) = b /\ Block(b) <= Block(a)
  BY AlignedBlock, BlockMonotone
<1>2. Block(a) \in Nat /\ Block(a) <= a
  BY BlockFacts
<1>3. ~(Block(b) < Block(a))
  BY <1>1, <1>2, BlocksApart, ImageAssumption
<1> QED
  BY <1>1, <1>2, <1>3

LEMMA SumAligned ==
    ASSUME NEW a \in Nat, NEW b \in Nat, a % BLOCK_SIZE = 0, b % BLOCK_SIZE = 0
    PROVE  (a + b) % BLOCK_SIZE = 0
<1> DEFINE q == a \div BLOCK_SIZE
           p == b \div BLOCK_SIZE
<1>1. q \in Nat /\ p \in Nat /\ a = BLOCK_SIZE * q /\ b = BLOCK_SIZE * p
  BY Division, ImageAssumption
<1> HIDE DEF q, p
<1>2. q + p \in Nat /\ a + b = BLOCK_SIZE * (q + p) + 0 /\ 0 \in 0 .. BLOCK_SIZE - 1
  BY <1>1, ImageAssumption
<1> QED
  BY <1>2, Multiple

-----------------------------------------------------------------------------
(* Numbers and sequences *)

LEMMA Sizes ==
    /\ BLOCK_SIZE \in Nat /\ BLOCK_SIZE > 0
    /\ FLASH_START \in Nat /\ BOOTLOADER_END \in Nat /\ FlashEnd \in Nat
    /\ Block(FLASH_START) = FLASH_START /\ Block(BOOTLOADER_END) = BOOTLOADER_END
    /\ Block(FlashEnd) = FlashEnd
    /\ FLASH_START < BOOTLOADER_END /\ BOOTLOADER_END < FlashEnd
    /\ FLASH_MAX_FILES \in Nat /\ MaxPhdrs \in Nat
  BY ImageAssumption, AlignedBlock

LEMMA HeaderNumbers ==
    ASSUME NEW h \in Phdrs
    PROVE  h.paddr \in Nat /\ h.filesz \in Nat
  BY ImageAssumption DEF Phdrs

LEMMA Tags ==
    /\ None # FF /\ FF \in Bytes /\ Zero \in Values /\ Old \in Values
    /\ \A n \in 1 .. MaxPhdrs :
          /\ <<"phdr", n>> # None /\ <<"phdr", n>> \in Bytes
  BY Zenon DEF None, FF, Zero, Old, Values, Bytes

LEMMA FillFacts ==
    ASSUME NEW v \in Bytes, NEW n \in Nat
    PROVE  Fill(n, v) \in Seq(Bytes) /\ Len(Fill(n, v)) = n /\ \A i \in 1 .. n : Fill(n, v)[i] = v
  BY DEF Fill

\* e is d with n times v behind it.
Longer(e, d, n, v) ==
    /\ e \in Seq(Bytes) /\ Len(e) = Len(d) + n
    /\ \A i \in 1 .. Len(d) : e[i] = d[i]
    /\ \A i \in Len(d) + 1 .. Len(d) + n : e[i] = v

LEMMA JoinFill ==
    ASSUME NEW d \in Seq(Bytes), NEW v \in Bytes, NEW n \in Nat
    PROVE  Longer(d \o Fill(n, v), d, n, v)
<1> DEFINE F == Fill(n, v)
<1>1. F \in Seq(Bytes) /\ Len(F) = n /\ \A i \in 1 .. n : F[i] = v
  BY FillFacts
<1> HIDE DEF F
<1>2. /\ d \o F \in Seq(Bytes) /\ Len(d \o F) = Len(d) + n
      /\ \A i \in 1 .. Len(d) : (d \o F)[i] = d[i]
      /\ \A i \in Len(d) + 1 .. Len(d) + n : (d \o F)[i] = v
  BY <1>1
<1> QED
  BY <1>2 DEF Longer, F

\* What build_segs_from_phdrs puts together: data d, a hole, more data.
Patched(e, d, n, v, m, w) ==
    /\ e \in Seq(Bytes) /\ Len(e) = Len(d) + n + m
    /\ \A i \in 1 .. Len(d) : e[i] = d[i]
    /\ \A i \in Len(d) + 1 .. Len(d) + n : e[i] = v
    /\ \A i \in Len(d) + n + 1 .. Len(d) + n + m : e[i] = w

LEMMA Patch ==
    ASSUME NEW d \in Seq(Bytes), NEW v \in Bytes, NEW w \in Bytes, NEW n \in Nat, NEW m \in Nat
    PROVE  Patched(d \o Fill(n, v) \o Fill(m, w), d, n, v, m, w)
<1> DEFINE c == d \o Fill(n, v)
           e == c \o Fill(m, w)
<1>1. Longer(c, d, n, v)
  BY JoinFill
<1>2. c \in Seq(Bytes)
  BY <1>1 DEF Longer
<1> HIDE DEF c
<1>3. Longer(e, c, m, w)
  BY <1>2, JoinFill
<1> HIDE DEF e
<1>4. Len(d) \in Nat
  OBVIOUS
<1>5. Patched(e, d, n, v, m, w)
  BY <1>1, <1>3, <1>4 DEF Longer, Patched
<1> QED
  BY <1>5 DEF c, e

\* The same without data in front.
LEMMA Front ==
    ASSUME NEW v \in Bytes, NEW w \in Bytes, NEW n \in Nat, NEW m \in Nat
    PROVE  Patched(Fill(n, v) \o Fill(m, w), <<>>, n, v, m, w)
<1> DEFINE c == Fill(n, v)
<1>1. c \in Seq(Bytes) /\ Len(c) = n /\ \A i \in 1 .. n : c[i] = v
  BY FillFacts
<1> HIDE DEF c
<1>2. Longer(c \o Fill(m, w), c, m, w)
  BY <1>1, JoinFill
<1>3. Patched(c \o Fill(m, w), <<>>, n, v, m, w)
  BY <1>1, <1>2 DEF Longer, Patched
<1> QED
  BY <1>3 DEF c

LEMMA AddressNat == Addresses \subseteq Nat
  BY Sizes DEF Addresses

\* What a well formed segment is in numbers.
LEMMA SegmentNumbers ==
    ASSUME NEW s \in Segments, SegmentOK(s)
    PROVE  /\ s.start \in Nat /\ Block(s.start) = s.start /\ s.start % BLOCK_SIZE = 0
           /\ s.data \in Seq(Bytes) /\ Len(s.data) \in Nat /\ Len(s.data) > 0
           /\ End(s) \in Nat /\ End(s) = s.start + Len(s.data) /\ s.start < End(s)
           /\ FLASH_START <= s.start /\ End(s) <= FlashEnd
           /\ Span(s) \subseteq Addresses /\ Span(s) \subseteq Nat
           /\ LastBlock(s) \in Nat /\ s.start <= LastBlock(s)
           /\ \A a \in Span(s) : Block(a) <= LastBlock(s) /\ s.start <= Block(a)
<1>1. /\ s.start \in Nat /\ s.start % BLOCK_SIZE = 0 /\ s.data \in Seq(Bytes)
      /\ FLASH_START <= s.start /\ End(s) <= FlashEnd /\ Len(s.data) > 0
  BY Sizes DEF Segments, SegmentOK, Bytes
<1>2. Block(s.start) = s.start
  BY <1>1, AlignedBlock
<1>3. Len(s.data) \in Nat /\ End(s) \in Nat /\ End(s) = s.start + Len(s.data) /\ s.start < End(s)
  BY <1>1 DEF End
<1>4. Span(s) \subseteq Addresses /\ Span(s) \subseteq Nat
  BY <1>1, <1>3, Sizes DEF Span, Addresses
<1>5. ASSUME NEW a \in Span(s) PROVE Block(a) <= LastBlock(s) /\ s.start <= Block(a)
  <2>1. a \in Nat /\ s.start <= a /\ a <= End(s) - 1 /\ End(s) - 1 \in Nat
    BY <1>1, <1>3 DEF Span
  <2> QED
    BY <1>1, <1>2, <2>1, BlockMonotone DEF LastBlock
<1>6. LastBlock(s) \in Nat /\ s.start <= LastBlock(s)
  <2>1. End(s) - 1 \in Nat /\ s.start <= End(s) - 1
    BY <1>1, <1>3
  <2> QED
    BY <1>1, <1>2, <2>1, BlockFacts, BlockMonotone DEF LastBlock
<1> QED
  BY <1>1, <1>2, <1>3, <1>4, <1>5, <1>6


-----------------------------------------------------------------------------
(* One header: the segment it makes, and what that holds *)

\* A header that build_segs_from_phdrs turns into data.
Usable(h) ==
    /\ h \in Phdrs /\ h.filesz > 0
    /\ h.paddr >= FLASH_START /\ h.paddr + h.filesz <= FlashEnd
    /\ phdrs \in 0 .. MaxPhdrs /\ phdrs < MaxPhdrs

LEMMA UsableNumbers ==
    ASSUME NEW h, Usable(h)
    PROVE  /\ h.paddr \in Nat /\ h.filesz \in Nat /\ h.filesz > 0
           /\ FLASH_START <= h.paddr /\ h.paddr + h.filesz <= FlashEnd
           /\ h.paddr .. h.paddr + h.filesz - 1 \subseteq Addresses
           /\ h.paddr \in Addresses
           /\ Content \in Bytes /\ Content # None /\ Content \in {"phdr"} \X (1 .. MaxPhdrs)
           /\ phdrs + 1 \in 0 .. MaxPhdrs
<1>1. h.paddr \in Nat /\ h.filesz \in Nat /\ h.filesz > 0
  BY HeaderNumbers DEF Usable
<1>2. FLASH_START <= h.paddr /\ h.paddr + h.filesz <= FlashEnd
  BY <1>1, Sizes DEF Usable
<1>3. h.paddr .. h.paddr + h.filesz - 1 \subseteq Addresses /\ h.paddr \in Addresses
  BY <1>1, <1>2, Sizes DEF Addresses
<1>4. phdrs + 1 \in 0 .. MaxPhdrs /\ phdrs + 1 \in 1 .. MaxPhdrs
  BY Sizes DEF Usable
<1>5. Content \in Bytes /\ Content # None /\ Content \in {"phdr"} \X (1 .. MaxPhdrs)
  BY <1>4, Tags, Zenon DEF Content
<1> QED
  BY <1>1, <1>2, <1>3, <1>4, <1>5

\* From one address up to another, a segment holds v.
Holds(e, from, to, v) == \A a \in from .. to - 1 : e.data[a - e.start + 1] = v

LEMMA WithData ==
    ASSUME NEW s \in Segments, NEW d
    PROVE  [s EXCEPT !.data = d] = [start |-> s.start, data |-> d]
  BY DEF Segments

LEMMA ExtendedSegment ==
    ASSUME NEW s \in Segments, SegmentOK(s), NEW h, Usable(h), End(s) <= h.paddr
    PROVE  /\ Extended(s, h) \in Segments /\ SegmentOK(Extended(s, h))
           /\ Extended(s, h).start = s.start
           /\ End(Extended(s, h)) = h.paddr + h.filesz
           /\ \A a \in Span(s) : Extended(s, h).data[a - s.start + 1] = s.data[a - s.start + 1]
           /\ Holds(Extended(s, h), End(s), h.paddr, FF)
           /\ Holds(Extended(s, h), h.paddr, h.paddr + h.filesz, Content)
<1> DEFINE e == Extended(s, h)
           st == s.start
           len == Len(s.data)
           end == End(s)
           p == h.paddr
           z == h.filesz
           hole == p - end
           d == s.data \o Fill(hole, FF) \o Fill(z, Content)
<1>1. st % BLOCK_SIZE = 0 /\ FLASH_START <= st /\ s.data \in Seq(Bytes) /\ Content \in Bytes
  BY SegmentNumbers, UsableNumbers
<1>2. st \in Nat /\ len \in Nat /\ len > 0 /\ end = st + len
  BY SegmentNumbers
<1>3. p \in Nat /\ z \in Nat /\ z > 0 /\ p + z <= FlashEnd /\ end <= p
  BY UsableNumbers
<1>4. e = [start |-> st, data |-> d]
  BY WithData DEF Extended
<1> HIDE DEF e, st, len, end, p, z
<1>5. hole \in Nat /\ p = st + len + hole /\ end = st + len
  BY <1>2, <1>3
<1>6. Patched(d, s.data, hole, FF, z, Content)
  BY <1>1, <1>3, <1>5, Patch, Tags
<1> HIDE DEF d, hole
<1>7. e.start = st /\ e.data = d /\ d \in Seq(Bytes)
  BY <1>4, <1>6 DEF Patched
<1>8. /\ Len(d) = len + hole + z
      /\ \A i \in 1 .. len : d[i] = s.data[i]
      /\ \A i \in len + 1 .. len + hole : d[i] = FF
      /\ \A i \in len + hole + 1 .. len + hole + z : d[i] = Content
  BY <1>6 DEF Patched, len
<1>9. e \in Segments
  BY <1>2, <1>4, <1>7 DEF Segments
<1>10. End(e) = p + z
  BY <1>2, <1>3, <1>5, <1>7, <1>8 DEF End
<1>11. SegmentOK(e)
  BY <1>1, <1>2, <1>3, <1>5, <1>7, <1>8, <1>10, Sizes DEF SegmentOK
<1>12. ASSUME NEW a \in Span(s) PROVE e.data[a - s.start + 1] = s.data[a - s.start + 1]
  <2>1. a - st + 1 \in 1 .. len
    BY <1>2 DEF Span, st, end
  <2> QED
    BY <1>7, <1>8, <2>1 DEF st
<1>13. Holds(e, end, p, FF)
  <2> SUFFICES ASSUME NEW a \in end .. p - 1 PROVE d[a - st + 1] = FF
    BY <1>7 DEF Holds
  <2>1. a - st + 1 \in len + 1 .. len + hole
    BY <1>2, <1>5
  <2> QED
    BY <1>8, <2>1
<1>14. Holds(e, p, p + z, Content)
  <2> SUFFICES ASSUME NEW a \in p .. (p + z) - 1 PROVE d[a - st + 1] = Content
    BY <1>7 DEF Holds
  <2>1. a - st + 1 \in len + hole + 1 .. len + hole + z
    BY <1>2, <1>3, <1>5
  <2> QED
    BY <1>8, <2>1
<1> QED
  BY <1>7, <1>9, <1>10, <1>11, <1>12, <1>13, <1>14 DEF e, st, end, p, z

LEMMA PaddedSegment ==
    ASSUME NEW h, Usable(h)
    PROVE  /\ Padded(h) \in Segments /\ SegmentOK(Padded(h))
           /\ Padded(h).start = Block(h.paddr)
           /\ End(Padded(h)) = h.paddr + h.filesz
           /\ Holds(Padded(h), Block(h.paddr), h.paddr, FF)
           /\ Holds(Padded(h), h.paddr, h.paddr + h.filesz, Content)
<1> DEFINE e == Padded(h)
           hole == h.paddr % BLOCK_SIZE
           d == Fill(hole, FF) \o Fill(h.filesz, Content)
           b == Block(h.paddr)
<1>2. /\ h.paddr \in Nat /\ h.filesz \in Nat /\ h.filesz > 0 /\ h.paddr + h.filesz <= FlashEnd
      /\ FLASH_START <= h.paddr /\ Content \in Bytes
  BY UsableNumbers
<1>3. b \in Nat /\ b <= h.paddr /\ hole = h.paddr - b /\ b % BLOCK_SIZE = 0
  BY <1>2, BlockFacts
<1>4. FLASH_START <= b
  BY <1>2, BlockMonotone, Sizes
<1>5. hole \in Nat
  BY <1>2, <1>3
<1>6. Patched(d, <<>>, hole, FF, h.filesz, Content)
  BY <1>2, <1>5, Front, Tags
<1>7. e = [start |-> b, data |-> d]
  BY DEF Padded
<1> HIDE DEF e, d, hole, b
<1>8. e.start = b /\ e.data = d /\ d \in Seq(Bytes)
  BY <1>6, <1>7 DEF Patched
<1>9. /\ Len(d) = hole + h.filesz
      /\ \A i \in 1 .. hole : d[i] = FF
      /\ \A i \in hole + 1 .. hole + h.filesz : d[i] = Content
  BY <1>2, <1>5, <1>6 DEF Patched
<1>10. e \in Segments
  BY <1>3, <1>7, <1>8 DEF Segments
<1>11. End(e) = h.paddr + h.filesz
  BY <1>2, <1>3, <1>5, <1>8, <1>9 DEF End
<1>12. SegmentOK(e)
  BY <1>2, <1>3, <1>4, <1>5, <1>8, <1>9, <1>11, Sizes DEF SegmentOK
<1>13. Holds(e, b, h.paddr, FF)
  <2>1. \A a \in b .. h.paddr - 1 : a - b + 1 \in 1 .. hole
    BY <1>2, <1>3
  <2> QED
    BY <1>8, <1>9, <2>1 DEF Holds
<1>14. Holds(e, h.paddr, h.paddr + h.filesz, Content)
  <2> DEFINE z == h.filesz
             p == h.paddr
  <2>0. p \in Nat /\ z \in Nat /\ \A i \in hole + 1 .. hole + z : d[i] = Content
    BY <1>2, <1>9
  <2>1. b \in Nat /\ hole \in Nat /\ p = b + hole
    BY <1>2, <1>3, <1>5
  <2> HIDE DEF p, z
  <2> SUFFICES ASSUME NEW a \in p .. (p + z) - 1 PROVE d[a - b + 1] = Content
    BY <1>8 DEF Holds, p, z
  <2>2. a - b + 1 \in hole + 1 .. hole + z
    BY <2>0, <2>1
  <2> QED
    BY <2>0, <2>2
<1> QED
  BY <1>8, <1>10, <1>11, <1>12, <1>13, <1>14 DEF e, b


\* Loads puts the header's content into the image.
LEMMA LoadsFacts ==
    ASSUME image \in Images, NEW h, Usable(h), Loads(h)
    PROVE  /\ image' \in Images
           /\ \A a \in h.paddr .. (h.paddr + h.filesz) - 1 : image'[a] = Content
           /\ \A a \in Addresses : a < h.paddr \/ a >= h.paddr + h.filesz => image'[a] = image[a]
<1> DEFINE p == h.paddr
           q == h.paddr + h.filesz
<1>1. p \in Nat /\ q \in Nat /\ p .. q - 1 \subseteq Addresses
  BY UsableNumbers DEF Addresses
<1>2. Content \in {"phdr"} \X (1 .. MaxPhdrs)
  BY UsableNumbers
<1>3. image' = [a \in Addresses |-> IF a \in p .. q - 1 THEN Content ELSE image[a]]
  BY UsableNumbers DEF Loads
<1> HIDE DEF p, q
<1>4. image' \in Images
  BY <1>2, <1>3 DEF Images
<1>5. \A a \in p .. q - 1 : image'[a] = Content
  BY <1>1, <1>3
<1>6. \A a \in Addresses : a < p \/ a >= q => image'[a] = image[a]
  BY <1>1, <1>3, AddressNat
<1> QED
  BY <1>4, <1>5, <1>6 DEF p, q

\* A segment that ends before the header's data is not concerned.
LEMMA OthersFit ==
    ASSUME image \in Images, NEW h, Usable(h), Loads(h),
           NEW s \in Segments, SegmentOK(s), End(s) <= h.paddr, SegmentFits(s, image)
    PROVE  SegmentFits(s, image')
<1>1. \A a \in Span(s) : a \in Addresses /\ a < h.paddr
  BY SegmentNumbers, UsableNumbers DEF Span
<1>2. \A a \in Span(s) : image'[a] = image[a]
  BY <1>1, LoadsFacts
<1> QED
  BY <1>2, Zenon DEF SegmentFits

\* The segment of its own that a header gets fits, if nothing else is in its
\* first block.
LEMMA PaddedFits ==
    ASSUME image \in Images, NEW h, Usable(h), Loads(h),
           \A a \in Addresses : Block(h.paddr) <= a => image[a] = None
    PROVE  SegmentFits(Padded(h), image')
<1> DEFINE e == Padded(h)
           p == h.paddr
           q == h.paddr + h.filesz
           b == Block(h.paddr)
<1>1. /\ e \in Segments /\ SegmentOK(e) /\ e.start = b /\ End(e) = q
      /\ Holds(e, b, p, FF) /\ Holds(e, p, q, Content)
  BY PaddedSegment
<1>2. p \in Nat /\ q \in Nat /\ p < q /\ Content # None
  BY UsableNumbers
<1>3. b \in Nat /\ b <= p /\ p < b + BLOCK_SIZE /\ b % BLOCK_SIZE = 0
  BY <1>2, BlockFacts
<1>4. \A a \in p .. q - 1 : image'[a] = Content
  BY LoadsFacts
<1>5. \A a \in Addresses : a < p \/ a >= q => image'[a] = image[a]
  BY LoadsFacts
<1>6. Span(e) = b .. q - 1 /\ Span(e) \subseteq Addresses
  <2>1. Span(e) \subseteq Addresses
    BY <1>1, SegmentNumbers
  <2> QED
    BY <1>1, <2>1 DEF Span
<1>7. \A a \in Addresses : b <= a => image[a] = None
  OBVIOUS
<1> HIDE DEF e, p, q, b
<1>8. ASSUME NEW a \in Span(e)
      PROVE  /\ e.data[a - e.start + 1] = IF image'[a] = None THEN FF ELSE image'[a]
             /\ \E c \in Span(e) : InBlock(a, c) /\ image'[c] # None
  <2>1. a \in Nat /\ b <= a /\ a < q /\ a \in Addresses
    BY <1>2, <1>3, <1>6
  <2>2. CASE a < p
    <3>1. image'[a] = None /\ e.data[a - e.start + 1] = FF
      <4>1. a \in b .. p - 1
        BY <1>2, <1>3, <2>1, <2>2
      <4>2. image'[a] = image[a] /\ image[a] = None
        BY <1>5, <1>7, <2>1, <2>2
      <4> QED
        BY <1>1, <4>1, <4>2 DEF Holds
    <3>2. Block(a) = b /\ Block(p) = b
      BY <1>2, <1>3, <2>1, <2>2, SameBlock, Sizes
    <3>3. p \in Span(e) /\ image'[p] = Content
      BY <1>2, <1>3, <1>4, <1>6
    <3> QED
      BY <1>2, <3>1, <3>2, <3>3 DEF InBlock
  <2>3. CASE ~(a < p)
    <3>1. a \in p .. q - 1
      BY <1>2, <2>1, <2>3
    <3>2. image'[a] = Content /\ e.data[a - e.start + 1] = Content
      BY <1>1, <1>4, <3>1 DEF Holds
    <3> QED
      BY <1>2, <3>2 DEF InBlock
  <2> QED
    BY <2>2, <2>3
<1> QED
  BY <1>8 DEF SegmentFits, e

\* The extended segment fits, if its data ended in the block in which the
\* header's data begins.
LEMMA ExtendedFits ==
    ASSUME image \in Images, NEW h, Usable(h), Loads(h),
           NEW s \in Segments, SegmentOK(s), End(s) <= h.paddr, SegmentFits(s, image),
           Block(h.paddr) = LastBlock(s),
           \A a \in Addresses : End(s) <= a => image[a] = None
    PROVE  SegmentFits(Extended(s, h), image')
<1> DEFINE e == Extended(s, h)
           p == h.paddr
           q == h.paddr + h.filesz
           n == End(s)
<1>1. /\ e \in Segments /\ SegmentOK(e) /\ e.start = s.start /\ End(e) = q
      /\ Holds(e, n, p, FF) /\ Holds(e, p, q, Content)
      /\ \A a \in Span(s) : e.data[a - s.start + 1] = s.data[a - s.start + 1]
  BY ExtendedSegment
<1>2. p \in Nat /\ q \in Nat /\ p < q /\ Content # None
  BY UsableNumbers
<1>3. n \in Nat /\ s.start \in Nat /\ s.start < n /\ n <= p /\ Span(s) = s.start .. n - 1
  BY SegmentNumbers DEF Span
<1>4. \A a \in p .. q - 1 : image'[a] = Content
  BY LoadsFacts
<1>5. \A a \in Addresses : a < p \/ a >= q => image'[a] = image[a]
  BY LoadsFacts
<1>6. Span(e) = s.start .. q - 1 /\ Span(e) \subseteq Addresses
  <2>1. Span(e) \subseteq Addresses
    BY <1>1, SegmentNumbers
  <2> QED
    BY <1>1, <2>1 DEF Span
<1>7. \A a \in Addresses : n <= a => image[a] = None
  OBVIOUS
<1>8. SegmentFits(s, image')
  BY OthersFit
<1>9. n - 1 \in Nat /\ Block(p) = Block(n - 1)
  BY <1>3 DEF LastBlock
<1>10. Span(s) \subseteq Span(e)
  BY <1>2, <1>3, <1>6
<1> HIDE DEF e, p, q, n
<1>11. ASSUME NEW a \in Span(e)
      PROVE  /\ e.data[a - e.start + 1] = IF image'[a] = None THEN FF ELSE image'[a]
             /\ \E c \in Span(e) : InBlock(a, c) /\ image'[c] # None
  <2>1. a \in Nat /\ s.start <= a /\ a < q /\ a \in Addresses
    BY <1>2, <1>3, <1>6
  <2>2. CASE a < n
    <3>1. a \in Span(s)
      BY <1>3, <2>1, <2>2
    <3>2. e.data[a - e.start + 1] = s.data[a - s.start + 1]
      BY <1>1, <3>1
    <3> QED
      BY <1>8, <1>10, <3>1, <3>2, Zenon DEF SegmentFits
  <2>3. CASE n <= a /\ a < p
    <3>1. image'[a] = None /\ e.data[a - e.start + 1] = FF
      <4>1. a \in n .. p - 1
        BY <1>2, <1>3, <2>1, <2>3
      <4>2. image'[a] = image[a] /\ image[a] = None
        BY <1>5, <1>7, <2>1, <2>3
      <4> QED
        BY <1>1, <4>1, <4>2 DEF Holds
    <3>2. Block(n - 1) <= Block(a) /\ Block(a) <= Block(p)
      BY <1>2, <1>3, <1>9, <2>1, <2>3, BlockMonotone
    <3>3. Block(a) = Block(n - 1)
      BY <1>2, <1>9, <2>1, <3>2, BlockNat
    <3>4. n - 1 \in Span(s)
      BY <1>3
    <3>5. PICK c \in Span(s) : InBlock(n - 1, c) /\ image'[c] # None
      BY <1>8, <3>4, Zenon DEF SegmentFits
    <3> QED
      BY <1>10, <3>1, <3>3, <3>5 DEF InBlock
  <2>4. CASE ~(a < p)
    <3>1. a \in p .. q - 1
      BY <1>2, <2>1, <2>4
    <3>2. image'[a] = Content /\ e.data[a - e.start + 1] = Content
      BY <1>1, <1>4, <3>1 DEF Holds
    <3> QED
      BY <1>2, <3>2 DEF InBlock
  <2> QED
    BY <1>2, <1>3, <2>1, <2>2, <2>3, <2>4
<1> QED
  BY <1>11 DEF SegmentFits, e


-----------------------------------------------------------------------------
(* Building the segments of a file *)

LEMMA TypeNumbers ==
    ASSUME TypeOK
    PROVE  /\ FilesOK /\ WriterOK
           /\ Len(segments) \in Nat /\ Len(queue) \in Nat /\ Len(images) \in Nat
           /\ DOMAIN segments = 1 .. Len(segments) /\ DOMAIN queue = 1 .. Len(queue)
           /\ DOMAIN images = 1 .. Len(images)
           /\ last_end \in Nat
           /\ \A i \in DOMAIN segments : segments[i] \in Segments /\ SegmentOK(segments[i])
           /\ \A i \in DOMAIN queue : queue[i] \in Segments /\ SegmentOK(queue[i])
           /\ \A f \in DOMAIN images : images[f] \in Images
  BY Sizes DEF TypeOK, FilesOK, WriterOK

\* The case of BuildSeg in which a header becomes data.
TakesData(h) ==
    /\ pc = "build" /\ Len(images) < FLASH_MAX_FILES /\ phdrs < MaxPhdrs
    /\ phdrs' = phdrs + 1 /\ h \in Phdrs
    /\ h.load /\ h.filesz > 0 /\ Acceptable(h)
    /\ segments' = IF Merges(h)
                   THEN [segments EXCEPT ![Len(segments)] = Extended(@, h)]
                   ELSE Append(segments, Padded(h))
    /\ last_end' = h.paddr + h.filesz
    /\ Loads(h)
    /\ UNCHANGED <<pc, queue, can_write_bl, images, flash, seg, off>>

LEMMA TakesDataUsable ==
    ASSUME TypeOK, NEW h, TakesData(h)
    PROVE  Usable(h) /\ h.paddr >= last_end
  BY DEF TakesData, Acceptable, Usable, TypeOK, FilesOK

\* A header that does not begin in the last block used begins behind it.
LEMMA NextBlockFree ==
    ASSUME TypeOK, BuildOK, NEW h, Usable(h), h.paddr >= last_end, ~Merges(h),
           NEW i \in DOMAIN segments
    PROVE  LastBlock(segments[i]) < Block(h.paddr)
<1> DEFINE n == Len(segments)
           s == segments[n]
           p == h.paddr
<1>1. n \in Nat /\ i \in 1 .. n /\ n \in DOMAIN segments /\ segments # <<>>
  BY TypeNumbers
<1>2. /\ s \in Segments /\ SegmentOK(s) /\ segments[i] \in Segments /\ SegmentOK(segments[i])
  BY <1>1, TypeNumbers
<1>3. /\ LastBlock(s) \in Nat /\ s.start \in Nat /\ s.start <= LastBlock(s)
      /\ End(s) \in Nat /\ s.start < End(s) /\ LastBlock(segments[i]) \in Nat
  BY <1>2, SegmentNumbers
<1>4. End(s) = last_end /\ p \in Nat /\ last_end <= p
  BY <1>1, UsableNumbers DEF BuildOK
<1>5. LastBlock(s) = Block(last_end - 1) /\ last_end - 1 \in Nat /\ last_end - 1 < p
  BY <1>3, <1>4 DEF LastBlock
<1>6. LastBlock(s) < Block(p)
  <2>0. last_end - 1 <= p
    BY <1>3, <1>4
  <2>1. Block(p) \in Nat
    BY <1>4, BlockNat
  <2>4. LastBlock(s) <= Block(p)
    BY <1>4, <1>5, <2>0, BlockMonotone
  <2>2. CASE p % BLOCK_SIZE = 0
    <3>1. Block(p) = p /\ Block(last_end - 1) <= last_end - 1
      BY <1>4, <1>5, <2>2, AlignedBlock, BlockFacts
    <3> QED
      BY <1>3, <1>4, <1>5, <3>1
  <2>3. CASE Block(p) # Block(last_end - 1)
    BY <1>3, <1>5, <2>1, <2>3, <2>4
  <2> QED
    BY <1>1, <2>2, <2>3 DEF Merges
<1>7. CASE i < n
  <2>1. LastBlock(segments[i]) < s.start
    BY <1>1, <1>7 DEF BuildOK, SegmentsShareNoBlock
  <2>2. Block(p) \in Nat
    BY <1>4, BlockNat
  <2> QED
    BY <1>3, <1>6, <2>1, <2>2
<1>8. CASE i = n
  BY <1>6, <1>8
<1> QED
  BY <1>1, <1>7, <1>8

\* A new segment of its own.
LEMMA AppendKeeps ==
    ASSUME TypeOK, BuildOK, NEW h, TakesData(h), ~Merges(h)
    PROVE  FilesOK' /\ BuildOK'
<1> DEFINE n == Len(segments)
           e == Padded(h)
<1>1. Usable(h) /\ h.paddr >= last_end
  BY TakesDataUsable
<1>2. /\ h.paddr \in Nat /\ h.filesz \in Nat /\ h.filesz > 0 /\ h.paddr + h.filesz <= FlashEnd
      /\ phdrs + 1 \in 0 .. MaxPhdrs
  BY <1>1, UsableNumbers
<1>3. /\ e \in Segments /\ SegmentOK(e) /\ e.start = Block(h.paddr) /\ End(e) = h.paddr + h.filesz
  BY <1>1, PaddedSegment
<1>4. n \in Nat /\ segments \in Seq(Segments) /\ segments' = Append(segments, e)
  BY TypeNumbers DEF TakesData, FilesOK
<1> HIDE DEF e
<1>5. /\ segments' \in Seq(Segments) /\ Len(segments') = n + 1
      /\ DOMAIN segments' = 1 .. n + 1 /\ DOMAIN segments = 1 .. n /\ segments' # <<>>
      /\ segments'[n + 1] = e /\ \A i \in 1 .. n : segments'[i] = segments[i]
  BY <1>3, <1>4
<1>6. image \in Images /\ image' \in Images /\ Loads(h)
  BY <1>1, TypeNumbers, LoadsFacts DEF TakesData, FilesOK
<1>7. last_end' = h.paddr + h.filesz /\ last_end' \in 0 .. FlashEnd /\ last_end \in Nat /\ last_end <= last_end'
  BY <1>1, <1>2, TypeNumbers, Sizes DEF TakesData
<1>8. ASSUME NEW i \in 1 .. n
      PROVE  /\ segments[i] \in Segments /\ SegmentOK(segments[i])
             /\ End(segments[i]) \in Nat /\ End(segments[i]) <= last_end
             /\ SegmentFits(segments[i], image)
  BY <1>5, TypeNumbers, SegmentNumbers DEF BuildOK
<1>9. FilesOK'
  <2>1. \A i \in DOMAIN segments' : SegmentOK(segments'[i])
    BY <1>3, <1>4, <1>5, <1>8
  <2> QED
    BY <1>2, <1>5, <1>6, <1>7, <2>1, TypeNumbers DEF FilesOK, TakesData
<1>10. \A i \in DOMAIN segments' : End(segments'[i]) <= last_end'
  <2>1. ASSUME NEW i \in 1 .. n PROVE End(segments'[i]) <= last_end'
    BY <1>5, <1>7, <1>8
  <2> QED
    BY <1>2, <1>3, <1>4, <1>5, <1>7, <2>1
<1>11. \A i \in DOMAIN segments' : SegmentFits(segments'[i], image')
  <2>1. ASSUME NEW i \in 1 .. n PROVE SegmentFits(segments'[i], image')
    <3>1. End(segments[i]) <= h.paddr
      BY <1>1, <1>2, <1>7, <1>8
    <3>2. SegmentFits(segments[i], image')
      BY <1>1, <1>6, <1>8, <3>1, OthersFit
    <3> QED
      BY <1>5, <3>2
  <2>2. SegmentFits(e, image')
    <3>1. ASSUME NEW a \in Addresses, Block(h.paddr) <= a, image[a] # None PROVE FALSE
      <4>1. PICK i \in DOMAIN segments : a \in Span(segments[i])
        BY <3>1 DEF BuildOK
      <4>2. Block(a) <= LastBlock(segments[i]) /\ LastBlock(segments[i]) \in Nat
        BY <1>5, <1>8, <4>1, SegmentNumbers
      <4>3. LastBlock(segments[i]) < Block(h.paddr)
        BY <1>1, <4>1, NextBlockFree
      <4>4. a \in Nat /\ Block(h.paddr) \in Nat /\ Block(Block(h.paddr)) = Block(h.paddr)
        BY <1>2, AddressNat, BlockFacts, AlignedBlock
      <4>5. Block(h.paddr) <= Block(a) /\ Block(a) \in Nat
        BY <3>1, <4>4, BlockMonotone, BlockNat
      <4> QED
        BY <4>2, <4>3, <4>4, <4>5
    <3> QED
      BY <1>1, <1>6, <3>1, PaddedFits DEF e
  <2> QED
    BY <1>4, <1>5, <2>1, <2>2
<1>12. \A a \in Addresses : image'[a] # None => \E i \in DOMAIN segments' : a \in Span(segments'[i])
  <2> SUFFICES ASSUME NEW a \in Addresses, image'[a] # None
               PROVE  \E i \in DOMAIN segments' : a \in Span(segments'[i])
    OBVIOUS
  <2>1. CASE a \in h.paddr .. (h.paddr + h.filesz) - 1
    <3>1. Block(h.paddr) \in Nat /\ Block(h.paddr) <= h.paddr
      BY <1>2, BlockFacts
    <3>2. a \in Span(e)
      BY <1>2, <1>3, <2>1, <3>1 DEF Span
    <3> QED
      BY <1>4, <1>5, <3>2
  <2>2. CASE ~(a \in h.paddr .. (h.paddr + h.filesz) - 1)
    <3>1. image'[a] = image[a]
      BY <1>1, <1>2, <1>6, <2>2, LoadsFacts, AddressNat
    <3>2. PICK i \in DOMAIN segments : a \in Span(segments[i])
      BY <3>1 DEF BuildOK
    <3> QED
      BY <1>4, <1>5, <3>2
  <2> QED
    BY <2>1, <2>2
<1>13. SegmentsShareNoBlock'
  <2> SUFFICES ASSUME NEW i \in 1 .. n + 1, NEW j \in 1 .. n + 1, i < j
               PROVE  LastBlock(segments'[i]) < segments'[j].start
    BY <1>5 DEF SegmentsShareNoBlock, LastBlock, End, Block
  <2>1. i \in 1 .. n /\ i \in DOMAIN segments /\ segments'[i] = segments[i]
    BY <1>4, <1>5
  <2>2. CASE j = n + 1
    BY <1>1, <1>3, <1>5, <2>1, <2>2, NextBlockFree
  <2>3. CASE j \in 1 .. n
    BY <1>5, <2>1, <2>3 DEF BuildOK, SegmentsShareNoBlock
  <2> QED
    BY <1>4, <2>2, <2>3
<1> QED
  BY <1>3, <1>5, <1>7, <1>9, <1>10, <1>11, <1>12, <1>13 DEF BuildOK


LEMMA ReplaceAt ==
    ASSUME NEW q \in Seq(Segments), NEW k \in 1 .. Len(q), NEW e \in Segments
    PROVE  /\ [q EXCEPT ![k] = e] \in Seq(Segments) /\ Len([q EXCEPT ![k] = e]) = Len(q)
           /\ [q EXCEPT ![k] = e][k] = e
           /\ \A i \in 1 .. Len(q) : i # k => [q EXCEPT ![k] = e][i] = q[i]
  OBVIOUS

\* The last segment, extended.
LEMMA MergeKeeps ==
    ASSUME TypeOK, BuildOK, NEW h, TakesData(h), Merges(h)
    PROVE  FilesOK' /\ BuildOK'
<1> DEFINE n == Len(segments)
           s == segments[n]
           e == Extended(s, h)
<1>1. Usable(h) /\ h.paddr >= last_end
  BY TakesDataUsable
<1>2. /\ h.paddr \in Nat /\ h.filesz \in Nat /\ h.filesz > 0 /\ h.paddr + h.filesz <= FlashEnd
      /\ phdrs + 1 \in 0 .. MaxPhdrs
  BY <1>1, UsableNumbers
<1>3. /\ n \in Nat /\ n \in 1 .. n /\ DOMAIN segments = 1 .. n /\ segments \in Seq(Segments)
      /\ s \in Segments /\ SegmentOK(s)
  <2>1. n \in Nat /\ DOMAIN segments = 1 .. n /\ segments \in Seq(Segments) /\ n # 0
    BY TypeNumbers DEF Merges, FilesOK
  <2> QED
    BY <2>1, TypeNumbers
<1>4. End(s) = last_end /\ End(s) \in Nat /\ End(s) <= h.paddr
  BY <1>1, <1>3, SegmentNumbers DEF BuildOK, Merges
<1>5. e \in Segments /\ SegmentOK(e) /\ e.start = s.start /\ End(e) = h.paddr + h.filesz
  BY <1>1, <1>3, <1>4, ExtendedSegment
<1>6. segments' = [segments EXCEPT ![n] = e] /\ n = Len(segments)
  BY DEF TakesData
<1> HIDE DEF e, n, s
<1>11. \A i \in 1 .. n : i = n \/ i \in 1 .. n - 1
  BY <1>3
<1>7. /\ segments' \in Seq(Segments) /\ Len(segments') = n /\ DOMAIN segments' = 1 .. n
      /\ segments' # <<>> /\ segments'[n] = e /\ \A i \in 1 .. n - 1 : segments'[i] = segments[i]
  <2>1. /\ segments' \in Seq(Segments) /\ Len(segments') = n /\ segments'[n] = e
        /\ \A i \in 1 .. n : i # n => segments'[i] = segments[i]
    BY <1>3, <1>5, <1>6, ReplaceAt
  <2>2. \A i \in 1 .. n - 1 : i \in 1 .. n /\ i # n
    BY <1>3
  <2> QED
    BY <1>3, <2>1, <2>2
<1>8. image \in Images /\ image' \in Images /\ Loads(h)
  BY <1>1, TypeNumbers, LoadsFacts DEF TakesData, FilesOK
<1>9. last_end' = h.paddr + h.filesz /\ last_end' \in 0 .. FlashEnd /\ last_end \in Nat /\ last_end <= last_end'
  BY <1>1, <1>2, TypeNumbers, Sizes DEF TakesData
<1>10. ASSUME NEW i \in 1 .. n
      PROVE  /\ segments[i] \in Segments /\ SegmentOK(segments[i])
             /\ End(segments[i]) \in Nat /\ End(segments[i]) <= last_end
             /\ SegmentFits(segments[i], image)
  BY <1>3, TypeNumbers, SegmentNumbers DEF BuildOK
<1>12. FilesOK'
  <2>1. \A i \in DOMAIN segments' : SegmentOK(segments'[i])
    BY <1>5, <1>7, <1>10, <1>11
  <2> QED
    BY <1>2, <1>7, <1>8, <1>9, <2>1, TypeNumbers DEF FilesOK, TakesData
<1>13. \A i \in DOMAIN segments' : End(segments'[i]) <= last_end'
  <2>1. ASSUME NEW i \in 1 .. n - 1 PROVE End(segments'[i]) <= last_end'
    BY <1>3, <1>7, <1>9, <1>10
  <2> QED
    BY <1>2, <1>5, <1>7, <1>9, <1>11, <2>1
<1>14. \A i \in DOMAIN segments' : SegmentFits(segments'[i], image')
  <2>1. ASSUME NEW i \in 1 .. n - 1 PROVE SegmentFits(segments'[i], image')
    <3>1. i \in 1 .. n /\ End(segments[i]) <= h.paddr
      BY <1>1, <1>2, <1>3, <1>9, <1>10
    <3>2. SegmentFits(segments[i], image')
      BY <1>1, <1>8, <1>10, <3>1, OthersFit
    <3> QED
      BY <1>7, <3>2
  <2>2. SegmentFits(e, image')
    <3>1. ASSUME NEW a \in Addresses, End(s) <= a, image[a] # None PROVE FALSE
      <4>1. PICK i \in DOMAIN segments : a \in Span(segments[i])
        BY <3>1 DEF BuildOK
      <4>2. segments[i] \in Segments /\ SegmentOK(segments[i]) /\ End(segments[i]) \in Nat
            /\ End(segments[i]) <= last_end
        BY <1>3, <1>10, <4>1
      <4>3. a \in Nat /\ a < End(segments[i])
        BY <4>1, <4>2, SegmentNumbers DEF Span
      <4> QED
        BY <1>4, <3>1, <4>2, <4>3
    <3>2. Block(h.paddr) = LastBlock(s) /\ SegmentFits(s, image)
      BY <1>3, <1>4, <1>10 DEF Merges, LastBlock, s
    <3> QED
      BY <1>1, <1>3, <1>4, <1>8, <3>1, <3>2, ExtendedFits DEF e
  <2> QED
    BY <1>7, <1>11, <2>1, <2>2
<1>15. \A a \in Addresses : image'[a] # None => \E i \in DOMAIN segments' : a \in Span(segments'[i])
  <2> SUFFICES ASSUME NEW a \in Addresses, image'[a] # None
               PROVE  \E i \in DOMAIN segments' : a \in Span(segments'[i])
    OBVIOUS
  <2>0. s.start \in Nat /\ Span(s) \subseteq Span(e) /\ \A x \in h.paddr .. (h.paddr + h.filesz) - 1 : x \in Span(e)
    BY <1>2, <1>3, <1>4, <1>5, SegmentNumbers DEF Span
  <2>1. CASE a \in h.paddr .. (h.paddr + h.filesz) - 1
    BY <1>3, <1>7, <2>0, <2>1
  <2>2. CASE ~(a \in h.paddr .. (h.paddr + h.filesz) - 1)
    <3>1. image'[a] = image[a]
      BY <1>1, <1>2, <1>8, <2>2, LoadsFacts, AddressNat
    <3>2. PICK i \in DOMAIN segments : a \in Span(segments[i])
      BY <3>1 DEF BuildOK
    <3> QED
      BY <1>3, <1>7, <1>11, <2>0, <3>2 DEF s
  <2> QED
    BY <2>1, <2>2
<1>16. SegmentsShareNoBlock'
  <2> SUFFICES ASSUME NEW i \in 1 .. n, NEW j \in 1 .. n, i < j
               PROVE  LastBlock(segments'[i]) < segments'[j].start
    BY <1>7 DEF SegmentsShareNoBlock, LastBlock, End, Block
  <2>1. segments'[i] = segments[i] /\ segments'[j].start = segments[j].start
    BY <1>3, <1>5, <1>7, <1>11 DEF s
  <2> QED
    BY <1>3, <2>1 DEF BuildOK, SegmentsShareNoBlock
<1> QED
  BY <1>5, <1>7, <1>9, <1>12, <1>13, <1>14, <1>15, <1>16 DEF BuildOK


-----------------------------------------------------------------------------
(* Writing a block *)

Cur == queue[seg]
Piece == IF Len(Cur.data) - off > BLOCK_SIZE THEN BLOCK_SIZE ELSE Len(Cur.data) - off
Base == Cur.start + off

LEMMA WriteNumbers ==
    ASSUME TypeOK, WriteBlock
    PROVE  /\ seg \in DOMAIN queue /\ seg \in Nat /\ Cur \in Segments /\ SegmentOK(Cur)
           /\ off \in Nat /\ Piece \in Nat /\ Piece > 0 /\ Piece <= BLOCK_SIZE
           /\ Base \in Nat /\ Base % BLOCK_SIZE = 0 /\ Block(Base) = Base
           /\ Base = Cur.start + off /\ Base \in Span(Cur) /\ Base + Piece <= End(Cur)
           /\ \/ Base + Piece = End(Cur) /\ seg' = seg + 1 /\ off' = 0
              \/ /\ Base + Piece < End(Cur) /\ Piece = BLOCK_SIZE
                 /\ seg' = seg /\ off' = off + BLOCK_SIZE /\ off' < Len(Cur.data)
<1> DEFINE st == Cur.start
           len == Len(Cur.data)
<1>1. seg \in DOMAIN queue /\ seg \in Nat
  BY TypeNumbers DEF WriteBlock, WriterOK
<1>2. Cur \in Segments /\ SegmentOK(Cur)
  BY <1>1, TypeNumbers DEF Cur
<1>3. off \in Nat /\ off % BLOCK_SIZE = 0 /\ off < len
  BY TypeNumbers DEF WriteBlock, WriterOK, Cur
<1>4. st \in Nat /\ len \in Nat /\ End(Cur) = st + len /\ st % BLOCK_SIZE = 0
  BY <1>2, SegmentNumbers
<1>5. Base \in Nat /\ Base % BLOCK_SIZE = 0 /\ Base = st + off
  <2>1. (st + off) % BLOCK_SIZE = 0
    BY <1>3, <1>4, SumAligned, Zenon
  <2> QED
    BY <1>3, <1>4, <2>1 DEF Base
<1>6. Block(Base) = Base
  BY <1>5, AlignedBlock
<1>7. \/ off + Piece = len /\ seg' = seg + 1 /\ off' = 0
      \/ off + Piece < len /\ off' = off + Piece /\ seg' = seg
  BY DEF WriteBlock, Piece, Cur
<1>8. Piece = IF len - off > BLOCK_SIZE THEN BLOCK_SIZE ELSE len - off
  BY DEF Piece
<1> HIDE DEF st, len
<1>9. off \in Nat /\ off < len
  BY <1>3
<1>10. /\ Piece \in Nat /\ Piece > 0 /\ Piece <= BLOCK_SIZE /\ off + Piece <= len
       /\ off + Piece < len => Piece = BLOCK_SIZE
  BY <1>4, <1>8, <1>9, Sizes
<1>11. Base \in Span(Cur) /\ Base + Piece <= End(Cur)
  BY <1>4, <1>5, <1>9, <1>10 DEF Span, st
<1>12. \/ Base + Piece = End(Cur) /\ seg' = seg + 1 /\ off' = 0
       \/ /\ Base + Piece < End(Cur) /\ Piece = BLOCK_SIZE
          /\ seg' = seg /\ off' = off + BLOCK_SIZE /\ off' < len
  BY <1>4, <1>5, <1>7, <1>9, <1>10
<1> QED
  BY <1>1, <1>2, <1>5, <1>6, <1>9, <1>10, <1>11, <1>12 DEF st, len

\* What a block write leaves in flash.
LEMMA WriteEffect ==
    ASSUME TypeOK, WriteBlock, NEW a \in Addresses
    PROVE  /\ Block(a) # Base => flash'[a] = flash[a]
           /\ Block(a) = Base /\ a < Base + Piece => flash'[a] = Cur.data[a - Cur.start + 1]
           /\ flash'[a] \in {flash[a], Zero} \cup Bytes
           /\ Block(a) = Base => Base <= a
<1>1. a \in Nat /\ Base \in Nat /\ Base % BLOCK_SIZE = 0 /\ Base = Cur.start + off
  BY AddressNat, WriteNumbers
<1>2. Block(a) = Base <=> a \in Base .. Base + BLOCK_SIZE - 1
  <2>1. Block(a) \in Nat /\ Block(a) <= a /\ a < Block(a) + BLOCK_SIZE
    BY <1>1, BlockFacts
  <2>2. Base <= a /\ a < Base + BLOCK_SIZE => Block(a) = Base
    BY <1>1, SameBlock
  <2> QED
    BY <1>1, <2>1, <2>2, Sizes
<1>3. flash'[a] = IF a \notin Base .. Base + BLOCK_SIZE - 1 THEN flash[a]
                  ELSE IF a < Base + Piece THEN Cur.data[a - Cur.start + 1] ELSE Zero
  BY DEF WriteBlock, Base, Piece, Cur
<1>4. ASSUME Block(a) = Base, a < Base + Piece PROVE Cur.data[a - Cur.start + 1] \in Bytes
  <2> DEFINE st == Cur.start
             len == Len(Cur.data)
  <2>1. st \in Nat /\ len \in Nat /\ Cur.data \in Seq(Bytes) /\ End(Cur) = st + len
    BY SegmentNumbers, WriteNumbers
  <2>2. off \in Nat /\ Base + Piece <= End(Cur) /\ Base = st + off /\ Piece \in Nat /\ Base <= a
    BY <1>1, <1>2, <1>4, WriteNumbers
  <2> HIDE DEF st, len
  <2>3. a - st + 1 \in 1 .. len
    BY <1>1, <1>4, <2>1, <2>2
  <2> QED
    BY <2>1, <2>3 DEF st, len
<1>5. Block(a) = Base => Base <= a
  BY <1>1, <1>2
<1> QED
  BY <1>2, <1>3, <1>4, <1>5

LEMMA WriteKeepsType ==
    ASSUME TypeOK, BuildOK, WriteBlock
    PROVE  TypeOK' /\ BuildOK'
<1>1. FilesOK' /\ BuildOK'
  BY DEF WriteBlock, TypeOK, FilesOK, BuildOK, SegmentsShareNoBlock, SegmentFits, SegmentOK, InBlock,
         Span, End, LastBlock, Block
<1>2. flash' \in [Addresses -> Values]
  <2>1. flash \in [Addresses -> Values] /\ Zero \in Values /\ Bytes \subseteq Values
    BY Tags, TypeNumbers DEF WriterOK, Bytes
  <2>2. DOMAIN flash' = Addresses /\ flash' = [a \in Addresses |-> flash'[a]]
    BY DEF WriteBlock
  <2>3. \A a \in Addresses : flash'[a] \in Values
    BY <2>1, WriteEffect
  <2> QED
    BY <2>2, <2>3
<1>3. /\ seg' \in 1 .. Len(queue) + 1 /\ off' \in Nat /\ off' % BLOCK_SIZE = 0
      /\ IF seg' <= Len(queue) THEN off' < Len(queue[seg'].data) ELSE off' = 0
  <2>1. Len(queue) \in Nat /\ seg \in 1 .. Len(queue) /\ off \in Nat /\ off % BLOCK_SIZE = 0
    BY WriteNumbers, TypeNumbers DEF WriterOK
  <2>2. CASE seg' = seg + 1 /\ off' = 0
    <3>1. 0 % BLOCK_SIZE = 0
      BY ImageAssumption
    <3>2. ASSUME seg + 1 <= Len(queue) PROVE Len(queue[seg + 1].data) > 0
      <4>1. seg + 1 \in DOMAIN queue
        BY <2>1, <3>2, TypeNumbers
      <4> QED
        BY <4>1, TypeNumbers, SegmentNumbers
    <3>3. seg + 1 \in 1 .. Len(queue) + 1
      BY <2>1
    <3> QED
      BY <2>1, <2>2, <3>1, <3>2, <3>3
  <2>3. CASE seg' = seg /\ off' = off + BLOCK_SIZE /\ off' < Len(Cur.data)
    <3>1. BLOCK_SIZE \in Nat /\ BLOCK_SIZE % BLOCK_SIZE = 0
      BY ImageAssumption
    <3>2. (off + BLOCK_SIZE) % BLOCK_SIZE = 0
      BY <2>1, <3>1, SumAligned
    <3>3. seg \in 1 .. Len(queue) + 1 /\ seg <= Len(queue) /\ off + BLOCK_SIZE \in Nat
      BY <2>1, <3>1
    <3> QED
      BY <2>3, <3>2, <3>3 DEF Cur
  <2> QED
    BY <2>2, <2>3, WriteNumbers
<1>4. pc' = pc /\ can_write_bl' = can_write_bl /\ queue' = queue
  BY DEF WriteBlock
<1>5. WriterOK'
  BY <1>2, <1>3, <1>4, TypeNumbers DEF WriterOK
<1> QED
  BY <1>1, <1>5 DEF TypeOK


\* The block written belongs to a file, and not to a protected boot ROM.
LEMMA WriteTouches ==
    ASSUME TypeOK, NothingElseTouched, LoadedOK, WriteBlock
    PROVE  NothingElseTouched'
<1> SUFFICES ASSUME NEW a \in Addresses
             PROVE  \/ flash'[a] = Old
                    \/ /\ can_write_bl \/ a >= BOOTLOADER_END
                       /\ \E f \in DOMAIN images : \E b \in Addresses :
                             InBlock(a, b) /\ images[f][b] # None
  <2>1. can_write_bl' = can_write_bl /\ images' = images
    BY DEF WriteBlock
  <2> QED
    BY <2>1 DEF NothingElseTouched, InBlock, Block
<1>1. CASE Block(a) # Base
  BY <1>1, WriteEffect DEF NothingElseTouched
<1>2. CASE Block(a) = Base
  <2>1. PICK own : QueueOK(own)
    BY DEF LoadedOK
  <2>2. /\ seg \in DOMAIN queue /\ Cur \in Segments /\ SegmentOK(Cur) /\ off \in Nat
        /\ Base \in Nat /\ Block(Base) = Base /\ Base \in Span(Cur) /\ Base = Cur.start + off
    BY WriteNumbers
  <2>3. /\ SegmentFits(Cur, images[own[seg]]) /\ own[seg] \in DOMAIN images
        /\ can_write_bl \/ Cur.start >= BOOTLOADER_END
    BY <2>1, <2>2, TypeNumbers DEF QueueOK, Cur
  <2>4. PICK b \in Span(Cur) : InBlock(Base, b) /\ images[own[seg]][b] # None
    BY <2>2, <2>3, Zenon DEF SegmentFits
  <2>5. b \in Addresses /\ InBlock(a, b) /\ Cur.start \in Nat
    BY <1>2, <2>2, <2>4, SegmentNumbers DEF InBlock
  <2>6. a \in Nat /\ Base <= a
    BY <1>2, AddressNat, WriteEffect
  <2>7. can_write_bl \/ a >= BOOTLOADER_END
    BY <2>2, <2>3, <2>5, <2>6, Sizes
  <2> QED
    BY <2>3, <2>4, <2>5, <2>7
<1> QED
  BY <1>1, <1>2

\* The block is in flash, and what it overwrites is of an earlier file.
LEMMA WriteKeepsLoaded ==
    ASSUME TypeOK, LoadedOK, WriteBlock
    PROVE  LoadedOK'
<1>0. PICK own : QueueOK(own) /\ WrittenOK(own)
  BY DEF LoadedOK
<1>1. can_write_bl' = can_write_bl /\ images' = images /\ queue' = queue
  BY DEF WriteBlock
<1>2. QueueOK(own)'
  BY <1>0, <1>1 DEF QueueOK, SegmentFits, InBlock, Span, End, LastBlock, Block
<1>3. /\ seg \in DOMAIN queue /\ seg \in Nat /\ Cur \in Segments /\ SegmentOK(Cur) /\ off \in Nat
      /\ Base \in Nat /\ Block(Base) = Base /\ Base \in Span(Cur) /\ Base = Cur.start + off
      /\ Piece \in Nat /\ Piece <= BLOCK_SIZE
  BY WriteNumbers
<1>4. \/ Base + Piece = End(Cur) /\ seg' = seg + 1 /\ off' = 0
      \/ /\ Base + Piece < End(Cur) /\ Piece = BLOCK_SIZE
         /\ seg' = seg /\ off' = off + BLOCK_SIZE
  BY WriteNumbers
<1>5. ASSUME NEW i \in DOMAIN queue, NEW a \in Span(queue[i]), Passed(i, a)',
             images[own[i]][a] # None
      PROVE  flash'[a] = images[own[i]][a] \/ Covered(own[i], a)
  <2>1. /\ queue[i] \in Segments /\ SegmentOK(queue[i]) /\ i \in Nat
    BY TypeNumbers
  <2>2. /\ a \in Addresses /\ a \in Nat /\ queue[i].start \in Nat /\ End(queue[i]) \in Nat
        /\ queue[i].start <= a /\ a < End(queue[i])
        /\ Block(a) <= LastBlock(queue[i]) /\ LastBlock(queue[i]) \in Nat
    BY <2>1, SegmentNumbers DEF Span
  <2>3. i < seg \/ (i = seg /\ a < Base + Piece)
    <3>1. i < seg' \/ (i = seg' /\ a < queue[i].start + off')
      BY <1>1, <1>5 DEF Passed
    <3>2. CASE seg' = seg + 1 /\ off' = 0 /\ Base + Piece = End(Cur)
      <4>1. ~(i = seg')
        BY <2>2, <3>1, <3>2, <1>3, <2>1
      <4>2. i < seg \/ i = seg
        BY <1>3, <2>1, <3>1, <3>2, <4>1
      <4> QED
        BY <2>2, <3>2, <4>2 DEF Cur
    <3>3. CASE seg' = seg /\ off' = off + BLOCK_SIZE /\ Piece = BLOCK_SIZE
      <4>1. CASE i = seg
        <5>1. a < Cur.start + (off + BLOCK_SIZE) /\ Cur.start \in Nat
          BY <1>3, <2>2, <3>1, <3>3, <4>1 DEF Cur
        <5> QED
          BY <1>3, <3>3, <4>1, <5>1, Sizes
      <4> QED
        BY <3>1, <3>3, <4>1
    <3> QED
      BY <1>4, <3>2, <3>3
  <2>4. CASE Block(a) # Base
    <3>1. flash'[a] = flash[a]
      BY <2>2, <2>4, WriteEffect
    <3>2. i = seg => a < Base
      <4> SUFFICES ASSUME i = seg, Base <= a PROVE FALSE
        BY <1>3, <2>2
      <4>1. a < Base + BLOCK_SIZE
        BY <1>3, <2>2, <2>3, Sizes
      <4>2. Base % BLOCK_SIZE = 0
        BY WriteNumbers
      <4> QED
        BY <1>3, <2>2, <2>4, <4>1, <4>2, SameBlock
    <3>3. Passed(i, a)
      BY <1>3, <2>3, <3>2 DEF Passed, Cur
    <3> QED
      BY <1>0, <1>5, <3>1, <3>3 DEF WrittenOK
  <2>5. CASE Block(a) = Base /\ i = seg
    <3>1. flash'[a] = Cur.data[a - Cur.start + 1]
      BY <1>3, <2>2, <2>3, <2>5, WriteEffect
    <3>2. Cur.data[a - Cur.start + 1] = images[own[seg]][a]
      <4>1. SegmentFits(Cur, images[own[seg]]) /\ a \in Span(Cur) /\ images[own[seg]][a] # None
        BY <1>0, <1>3, <1>5, <2>5 DEF QueueOK, Cur
      <4> QED
        BY <4>1 DEF SegmentFits
    <3> QED
      BY <2>5, <3>1, <3>2
  <2>6. CASE Block(a) = Base /\ i < seg
    <3>1. own[i] <= own[seg] /\ own[i] \in 1 .. Len(images) /\ own[seg] \in 1 .. Len(images)
      BY <1>0, <1>3, <2>6, TypeNumbers DEF QueueOK
    <3>2. own[i] # own[seg]
      <4>1. ASSUME own[i] = own[seg] PROVE FALSE
        <5>1. LastBlock(queue[i]) < Cur.start
          BY <1>0, <1>3, <2>6, <4>1 DEF QueueOK, Cur
        <5>2. Cur.start \in Nat
          BY <1>3, SegmentNumbers
        <5> QED
          BY <1>3, <2>2, <2>6, <5>1, <5>2
      <4> QED
        BY <4>1
    <3>3. own[seg] \in own[i] + 1 .. Len(images)
      BY <3>1, <3>2, TypeNumbers
    <3>4. SegmentFits(Cur, images[own[seg]])
      BY <1>0, <1>3 DEF QueueOK, Cur
    <3>5. PICK b \in Span(Cur) : InBlock(Base, b) /\ images[own[seg]][b] # None
      BY <1>3, <3>4, Zenon DEF SegmentFits
    <3>6. b \in Addresses /\ InBlock(a, b)
      BY <1>3, <2>6, <3>5, SegmentNumbers DEF InBlock
    <3> QED
      BY <3>3, <3>5, <3>6 DEF Covered
  <2> QED
    BY <2>3, <2>4, <2>5, <2>6
<1>6. WrittenOK(own)'
  BY <1>1, <1>5 DEF WrittenOK, Covered, Span, End, InBlock, Block
<1> QED
  BY <1>2, <1>6 DEF LoadedOK


-----------------------------------------------------------------------------
(* The end of a file, and the steps that only move pc *)

LEMMA SameLoaded ==
    ASSUME UNCHANGED <<can_write_bl, queue, images, flash, seg, off>>
    PROVE  (LoadedOK => LoadedOK') /\ (NothingElseTouched => NothingElseTouched')
  BY DEF LoadedOK, QueueOK, WrittenOK, Passed, Covered, NothingElseTouched, SegmentFits, InBlock,
         Span, End, LastBlock, Block

LEMMA SameBuild ==
    ASSUME UNCHANGED <<segments, last_end, image>>
    PROVE  BuildOK => BuildOK'
  BY DEF BuildOK, SegmentsShareNoBlock, SegmentFits, InBlock, Span, End, LastBlock, Block

\* The segments of the file join those of the files before it.
LEMMA CheckSegsKeeps ==
    ASSUME ImageInv, CheckSegs, pc' = pc
    PROVE  ImageInv'
<1> DEFINE n == Len(queue)
           m == Len(segments)
           k == Len(images)
<1>1. /\ queue' = queue \o segments /\ images' = Append(images, image)
      /\ segments' = <<>> /\ last_end' = 0 /\ image' = Nothing
      /\ pc = "build" /\ Len(images) < FLASH_MAX_FILES
      /\ \A i \in DOMAIN segments : Permitted(segments[i])
      /\ UNCHANGED <<pc, can_write_bl, phdrs, flash, seg, off>>
  BY DEF CheckSegs, Fail
<1>2. TypeOK /\ BuildOK /\ PhaseOK /\ NothingElseTouched /\ seg = 1 /\ off = 0
  BY <1>1 DEF ImageInv, PhaseOK
<1>3. PICK own : QueueOK(own)
  BY DEF ImageInv, LoadedOK
<1>4. /\ n \in Nat /\ m \in Nat /\ k \in Nat /\ DOMAIN queue = 1 .. n /\ DOMAIN segments = 1 .. m
      /\ DOMAIN images = 1 .. k
      /\ queue \in Seq(Segments) /\ segments \in Seq(Segments) /\ images \in Seq(Images)
      /\ image \in Images
  BY <1>2, TypeNumbers DEF FilesOK
<1>5. /\ Len(queue') = n + m /\ queue' \in Seq(Segments) /\ DOMAIN queue' = 1 .. n + m
      /\ \A i \in 1 .. n : queue'[i] = queue[i]
      /\ \A i \in n + 1 .. n + m : queue'[i] = segments[i - n]
  BY <1>1, <1>4
<1>6. /\ Len(images') = k + 1 /\ images' \in Seq(Images) /\ DOMAIN images' = 1 .. k + 1
      /\ images'[k + 1] = image /\ \A f \in 1 .. k : images'[f] = images[f]
  BY <1>1, <1>4
<1>7. \A i \in 1 .. n + m : i \in 1 .. n \/ (i \in n + 1 .. n + m /\ i - n \in 1 .. m)
  BY <1>4
<1> HIDE DEF n, m, k
<1>0. \A i \in DOMAIN queue' : SegmentOK(queue'[i])
  BY <1>2, <1>4, <1>5, <1>7, TypeNumbers
<1>8. FilesOK'
  <2>2. image' \in Images
    BY <1>1 DEF Images, Nothing
  <2>3. Len(images') <= FLASH_MAX_FILES
    BY <1>1, <1>4, <1>6, Sizes DEF k
  <2>4. 0 \in 0 .. FlashEnd /\ phdrs' \in 0 .. MaxPhdrs
    BY <1>1, <1>2, Sizes, TypeNumbers DEF FilesOK
  <2> QED
    BY <1>0, <1>1, <1>5, <1>6, <2>2, <2>3, <2>4 DEF FilesOK
<1>9. WriterOK'
  <2>1. WriterOK /\ 0 % BLOCK_SIZE = 0
    BY <1>2, TypeNumbers, ImageAssumption
  <2>2. 1 \in 1 .. Len(queue') + 1
    BY <1>4, <1>5
  <2>3. 1 <= Len(queue') => 0 < Len(queue'[1].data)
    <3>1. ASSUME 1 <= Len(queue') PROVE queue'[1] \in Segments /\ SegmentOK(queue'[1])
      BY <1>0, <1>4, <1>5, <3>1
    <3> QED
      BY <3>1, SegmentNumbers
  <2> QED
    BY <1>1, <1>2, <2>1, <2>2, <2>3 DEF WriterOK
<1>10. BuildOK'
  <2>1. \A a \in Addresses : image'[a] = None
    BY <1>1 DEF Nothing
  <2> QED
    BY <1>1, <2>1 DEF BuildOK, SegmentsShareNoBlock
<1>11. PhaseOK'
  BY <1>1, <1>2 DEF PhaseOK
<1>12. NothingElseTouched'
  <2>1. \A f \in DOMAIN images : f \in DOMAIN images' /\ images'[f] = images[f]
    BY <1>4, <1>6
  <2> QED
    BY <1>1, <1>2, <2>1 DEF NothingElseTouched, InBlock, Block
<1>13. LoadedOK'
  <2> DEFINE join == [i \in 1 .. n + m |-> IF i \in 1 .. n THEN own[i] ELSE k + 1]
  <2>0. own \in [1 .. n -> 1 .. k]
    BY <1>3 DEF QueueOK, n, k
  <2>a. join \in [1 .. Len(queue') -> 1 .. Len(images')]
    BY <1>4, <1>5, <1>6, <2>0
  <2>b. /\ \A i \in 1 .. n : join[i] = own[i] /\ own[i] \in 1 .. k
        /\ \A i \in n + 1 .. n + m : join[i] = k + 1
    BY <1>4, <2>0
  <2> HIDE DEF join
  <2>c. PICK new : new = join
    OBVIOUS
  <2>1. new \in [1 .. Len(queue') -> 1 .. Len(images')]
    BY <2>a, <2>c
  <2>2. /\ \A i \in 1 .. n : new[i] = own[i] /\ own[i] \in 1 .. k
        /\ \A i \in n + 1 .. n + m : new[i] = k + 1
    BY <2>b, <2>c
  <2>3. \A i, j \in DOMAIN queue' : i < j => new[i] <= new[j]
    <3> SUFFICES ASSUME NEW i \in 1 .. n + m, NEW j \in 1 .. n + m, i < j PROVE new[i] <= new[j]
      BY <1>5
    <3>1. CASE j \in 1 .. n
      <4>1. i \in 1 .. n
        BY <1>4, <3>1
      <4> QED
        BY <1>3, <1>4, <2>2, <3>1, <4>1 DEF QueueOK
    <3>2. CASE j \in n + 1 .. n + m
      BY <1>4, <1>7, <2>2, <3>2
    <3> QED
      BY <1>7, <3>1, <3>2
  <2>4. \A i, j \in DOMAIN queue' :
           i < j /\ new[i] = new[j] => LastBlock(queue'[i]) < queue'[j].start
    <3> SUFFICES ASSUME NEW i \in 1 .. n + m, NEW j \in 1 .. n + m, i < j, new[i] = new[j]
                 PROVE  LastBlock(queue'[i]) < queue'[j].start
      BY <1>5
    <3>1. CASE j \in 1 .. n
      <4>1. i \in 1 .. n
        BY <1>4, <3>1
      <4> QED
        BY <1>3, <1>4, <1>5, <2>2, <3>1, <4>1 DEF QueueOK
    <3>2. CASE j \in n + 1 .. n + m
      <4>1. i \in n + 1 .. n + m
        BY <1>4, <1>7, <2>2, <3>2
      <4>2. i - n \in DOMAIN segments /\ j - n \in DOMAIN segments /\ i - n < j - n
        BY <1>4, <3>2, <4>1
      <4> QED
        BY <1>2, <1>5, <3>2, <4>1, <4>2 DEF BuildOK, SegmentsShareNoBlock
    <3> QED
      BY <1>7, <3>1, <3>2
  <2>5. \A i \in DOMAIN queue' : SegmentFits(queue'[i], images'[new[i]])
    <3> SUFFICES ASSUME NEW i \in 1 .. n + m PROVE SegmentFits(queue'[i], images'[new[i]])
      BY <1>5
    <3>1. CASE i \in 1 .. n
      BY <1>3, <1>4, <1>5, <1>6, <2>2, <3>1 DEF QueueOK
    <3>2. CASE i \in n + 1 .. n + m /\ i - n \in 1 .. m
      BY <1>2, <1>4, <1>5, <1>6, <2>2, <3>2 DEF BuildOK
    <3> QED
      BY <1>7, <3>1, <3>2
  <2>6. \A i \in DOMAIN queue' : can_write_bl \/ queue'[i].start >= BOOTLOADER_END
    <3> SUFFICES ASSUME NEW i \in 1 .. n + m PROVE can_write_bl \/ queue'[i].start >= BOOTLOADER_END
      BY <1>5
    <3>1. CASE i \in 1 .. n
      BY <1>3, <1>4, <1>5, <3>1 DEF QueueOK
    <3>2. CASE i \in n + 1 .. n + m /\ i - n \in 1 .. m
      BY <1>1, <1>4, <1>5, <3>2 DEF Permitted
    <3> QED
      BY <1>7, <3>1, <3>2
  <2>7. ASSUME NEW f \in DOMAIN images', NEW a \in Addresses, images'[f][a] # None
        PROVE  \E i \in DOMAIN queue' : new[i] = f /\ a \in Span(queue'[i])
    <3>1. CASE f \in 1 .. k
      <4>1. PICK i \in DOMAIN queue : own[i] = f /\ a \in Span(queue[i])
        BY <1>3, <1>4, <1>6, <2>7, <3>1 DEF QueueOK
      <4>2. i \in 1 .. n /\ i \in 1 .. n + m
        BY <1>4, <4>1
      <4> QED
        BY <1>5, <2>2, <4>1, <4>2
    <3>2. CASE f = k + 1
      <4>1. PICK j \in DOMAIN segments : a \in Span(segments[j])
        BY <1>2, <1>6, <2>7, <3>2 DEF BuildOK
      <4>2. n + j \in n + 1 .. n + m /\ (n + j) - n = j /\ n + j \in 1 .. n + m
        BY <1>4, <4>1
      <4>3. queue'[n + j] = segments[j] /\ new[n + j] = k + 1
        BY <1>5, <2>2, <4>2
      <4> QED
        BY <1>5, <3>2, <4>1, <4>2, <4>3
    <3> QED
      BY <1>4, <1>6, <2>7, <3>1, <3>2
  <2>8. QueueOK(new)'
    BY <1>1, <2>1, <2>3, <2>4, <2>5, <2>6, <2>7 DEF QueueOK
  <2>9. WrittenOK(new)'
    <3>1. ASSUME NEW i \in DOMAIN queue', NEW a \in Span(queue'[i]), Passed(i, a)' PROVE FALSE
      <4>1. i \in Nat /\ i >= 1 /\ queue'[i] \in Segments
        BY <1>4, <1>5
      <4>2. queue'[i].start \in Nat /\ a >= queue'[i].start /\ a \in Int
        BY <3>1, <4>1 DEF Segments, Span
      <4>3. i < 1 \/ a < queue'[i].start + 0
        BY <1>1, <1>2, <3>1 DEF Passed
      <4> QED
        BY <4>1, <4>2, <4>3
    <3> QED
      BY <3>1 DEF WrittenOK, Span, End
  <2> QED
    BY <2>8, <2>9 DEF LoadedOK
<1> QED
  BY <1>8, <1>9, <1>10, <1>11, <1>12, <1>13 DEF ImageInv, TypeOK


\* A header: skipped, refused or turned into data.
LEMMA BuildSegKeeps ==
    ASSUME ImageInv, NEW h \in Phdrs, BuildSeg(h)
    PROVE  ImageInv'
<1>1. TypeOK /\ BuildOK /\ PhaseOK /\ NothingElseTouched /\ LoadedOK
  BY DEF ImageInv
<1>2. LoadedOK' /\ NothingElseTouched'
  BY <1>1, SameLoaded DEF BuildSeg, Fail
<1>3. WriterOK' /\ PhaseOK'
  BY <1>1 DEF BuildSeg, Fail, TypeOK, WriterOK, PhaseOK
<1>4. FilesOK' /\ BuildOK'
  <2>1. CASE UNCHANGED <<queue, segments, last_end, image>>
    <3>1. phdrs' \in 0 .. MaxPhdrs
      BY <1>1, Sizes DEF BuildSeg, TypeOK, FilesOK
    <3>2. FilesOK'
      BY <1>1, <2>1, <3>1 DEF BuildSeg, TypeOK, FilesOK, SegmentOK, End
    <3> QED
      BY <1>1, <2>1, <3>2, SameBuild
  <2>2. CASE TakesData(h) /\ Merges(h)
    BY <1>1, <2>2, MergeKeeps
  <2>3. CASE TakesData(h) /\ ~Merges(h)
    BY <1>1, <2>3, AppendKeeps
  <2> QED
    BY <2>1, <2>2, <2>3 DEF BuildSeg, TakesData, Fail
<1> QED
  BY <1>1, <1>2, <1>3, <1>4 DEF ImageInv, TypeOK

\* Steps that leave files and flash alone: failures, and the writer's start
\* and end.
LEMMA MovesKeep ==
    ASSUME ImageInv,
           UNCHANGED <<can_write_bl, queue, segments, last_end, phdrs, image, images, flash, seg, off>>,
           pc' \in {pc, "failed", "write"} \/ (pc' = "done" /\ seg > Len(queue))
    PROVE  ImageInv'
<1>1. TypeOK /\ BuildOK /\ PhaseOK /\ NothingElseTouched /\ LoadedOK
  BY DEF ImageInv
<1>2. LoadedOK' /\ NothingElseTouched' /\ BuildOK'
  BY <1>1, SameLoaded, SameBuild
<1>3. FilesOK'
  BY <1>1 DEF TypeOK, FilesOK, SegmentOK, End
<1>4. WriterOK'
  BY <1>1 DEF TypeOK, WriterOK
<1>5. PhaseOK'
  <2>1. Len(queue) \in Nat /\ seg \in 1 .. Len(queue) + 1
    BY <1>1, TypeNumbers DEF WriterOK
  <2>2. seg > Len(queue) => seg = Len(queue) + 1
    BY <2>1
  <2> QED
    BY <1>1, <2>2 DEF PhaseOK
<1> QED
  BY <1>2, <1>3, <1>4, <1>5 DEF ImageInv, TypeOK

LEMMA ImageStep == ImageInv /\ [Next]_vars => ImageInv'
<1> SUFFICES ASSUME ImageInv, [Next]_vars PROVE ImageInv'
  OBVIOUS
<1>1. ASSUME NEW h \in Phdrs, BuildSeg(h) PROVE ImageInv'
  BY <1>1, BuildSegKeeps
<1>2. CASE CheckSegs
  <2>1. CASE pc' = pc
    BY <1>2, <2>1, CheckSegsKeeps
  <2>2. CASE Fail /\ UNCHANGED <<images, can_write_bl, phdrs, flash, seg, off>>
    BY <2>2, MovesKeep DEF Fail
  <2> QED
    BY <1>2, <2>1, <2>2 DEF CheckSegs
<1>3. CASE BadFile
  BY <1>3, MovesKeep DEF BadFile, Fail
<1>4. CASE StartWriting
  BY <1>4, MovesKeep DEF StartWriting
<1>5. CASE WriteBlock
  <2>1. TypeOK' /\ BuildOK' /\ NothingElseTouched' /\ LoadedOK'
    BY <1>5, WriteKeepsType, WriteTouches, WriteKeepsLoaded DEF ImageInv
  <2>2. PhaseOK'
    BY <1>5 DEF WriteBlock, PhaseOK
  <2> QED
    BY <2>1, <2>2 DEF ImageInv
<1>6. CASE WriteFails
  BY <1>6, MovesKeep DEF WriteFails
<1>7. CASE AllWritten
  BY <1>7, MovesKeep DEF AllWritten
<1>8. CASE Ended \/ UNCHANGED vars
  BY <1>8, MovesKeep DEF Ended, vars
<1> QED
  BY <1>1, <1>2, <1>3, <1>4, <1>5, <1>6, <1>7, <1>8 DEF Next

LEMMA ImageStart == Init => ImageInv
<1> SUFFICES ASSUME Init PROVE ImageInv
  OBVIOUS
<1>1. Len(queue) = 0 /\ Len(segments) = 0 /\ Len(images) = 0
  BY DEF Init
<1>2. TypeOK
  <2>1. image \in Images /\ flash \in [Addresses -> Values]
    BY Tags DEF Init, Nothing, Images
  <2>2. 0 % BLOCK_SIZE = 0
    BY ImageAssumption
  <2> QED
    BY <1>1, <2>1, <2>2, Sizes DEF Init, TypeOK, FilesOK, WriterOK
<1>3. BuildOK /\ PhaseOK
  BY DEF Init, BuildOK, PhaseOK, SegmentsShareNoBlock, Nothing
<1>4. NothingElseTouched
  BY DEF Init, NothingElseTouched
<1>5. LoadedOK
  <2>1. QueueOK(<<>>) /\ WrittenOK(<<>>)
    BY <1>1 DEF Init, QueueOK, WrittenOK
  <2> QED
    BY <2>1 DEF LoadedOK
<1> QED
  BY <1>2, <1>3, <1>4, <1>5 DEF ImageInv

\* ImageInv holds in every state, from build_segs_from_phdrs to the last block.
THEOREM ImageSound == Spec => []ImageInv
  BY ImageStart, ImageStep, PTL DEF Spec

\* The segments that build_segs_from_phdrs makes are aligned, not empty and
\* inside flash, and the position of flash_write stays inside its segment.
THEOREM ImageTypeCorrect == Spec => []TypeOK
  BY ImageSound, PTL DEF ImageInv

\* build_segs_from_phdrs never makes two segments of one file that share a
\* block, however the headers lie: what would begin in the block in which the
\* last segment ends is merged into it.
THEOREM SegmentsNeverShareBlock == Spec => []SegmentsShareNoBlock
<1>1. ImageInv => SegmentsShareNoBlock
  BY DEF ImageInv, BuildOK
<1> QED
  BY <1>1, ImageSound, PTL

\* flash_write changes blocks with image data only, and the boot ROM's only if
\* check_segs was told that it may.
THEOREM OnlyImageBlocksTouched == Spec => []NothingElseTouched
  BY ImageSound, PTL DEF ImageInv

\* When flash_pm3 is through, each byte of each program header is at its
\* address, or a later file has data in that block.
THEOREM WholeImageWritten == Spec => []ImageWritten
<1>1. ImageInv => ImageWritten
  <2> SUFFICES ASSUME ImageInv, pc = "done", NEW f \in DOMAIN images, NEW a \in Addresses,
                      images[f][a] # None
               PROVE  \/ flash[a] = images[f][a]
                      \/ \E g \in f + 1 .. Len(images) : \E b \in Addresses :
                            InBlock(a, b) /\ images[g][b] # None
    BY DEF ImageWritten
  <2>1. PICK own : QueueOK(own) /\ WrittenOK(own)
    BY DEF ImageInv, LoadedOK
  <2>2. PICK i \in DOMAIN queue : own[i] = f /\ a \in Span(queue[i])
    BY <2>1 DEF QueueOK
  <2>3. i < seg
    <3>1. seg = Len(queue) + 1 /\ Len(queue) \in Nat /\ i \in 1 .. Len(queue)
      BY <2>2, TypeNumbers DEF ImageInv, PhaseOK
    <3> QED
      BY <3>1
  <2> QED
    BY <2>1, <2>2, <2>3 DEF WrittenOK, Passed, Covered
<1> QED
  BY <1>1, ImageSound, PTL
=============================================================================
