--------------------------- MODULE FlashingProofs ---------------------------
(***************************************************************************)
(* First the boot ROM: it keeps its types and its own pages, for every     *)
(* size and layout of the flash memory and every host.  Then the flasher:  *)
(* it is a host of the boot ROM like any other, a block it counts as       *)
(* written is written, for every set of images and any number of runs, and *)
(* it does not get at the boot ROM's pages without the magic number.       *)
(* Last the runs that nobody disturbs: none of their waits is in vain, and *)
(* every step brings their end nearer.                                     *)
(***************************************************************************)
EXTENDS Flashing, FiniteSetTheorems, SequenceTheorems, WellFoundedInduction, TLAPS

-----------------------------------------------------------------------------
(* The boot ROM *)

\* What a packet of each command carries (the union in Packet, taken apart).
LEMMA PacketFields ==
    ASSUME NEW c \in Packet
    PROVE  /\ c.cmd = "START_FLASH" => c.start \in Nat /\ c.end \in Nat /\ c.magic \in BOOLEAN
           /\ c.cmd = "FINISH_WRITE" => c.addr \in Nat /\ c.data \in Data
  BY DEF Packet

\* The pages of the boot ROM lie between FLASH_START and bootrom_end.
LEMMA BootromPagesBelow ==
    ASSUME NEW a \in BootromPages
    PROVE  a \in Nat /\ FLASH_START <= a /\ a + PAGE - 1 < bootrom_end
<1>1. PICK p \in 0 .. BOOTROM_PAGES - 1 : a = FLASH_START + PAGE * p
  BY DEF BootromPages, Address
<1>2. PAGE \in Nat /\ FLASH_START \in Nat /\ BOOTROM_PAGES \in Nat
  BY FlashAssumption
<1>3. \A m, n, k \in Nat : m + 1 <= n => k * m \in Nat /\ k * m + k <= k * n
  OBVIOUS
<1>4. PAGE * p \in Nat /\ PAGE * p + PAGE <= PAGE * BOOTROM_PAGES
  BY <1>1, <1>2, <1>3
<1>5. PAGE * BOOTROM_PAGES \in Nat
  BY <1>2
<1> QED
  BY <1>1, <1>2, <1>4, <1>5, SMT DEF bootrom_end, Address

LEMMA PagesAreNat == PageAddress \subseteq Nat /\ bootrom_end \in Nat
  BY FlashAssumption DEF PageAddress, bootrom_end, Address

\* The flash memory lies in the lower half of the address space.
LEMMA Layout ==
    /\ FLASH_START \in Nat /\ PAGE \in Nat \ {0} /\ Half \in Nat \ {0}
    /\ bootrom_end \in Nat /\ flash_end \in Nat /\ SignBit \in Nat /\ WORD \in Nat
    /\ flash_end < SignBit /\ SignBit < WORD /\ FLASH_START < bootrom_end
    /\ bootrom_end + PAGE <= flash_end
<1>1. /\ FLASH_START \in Nat /\ PAGE \in Nat \ {0} /\ Half \in Nat \ {0}
      /\ BOOTROM_PAGES \in Nat \ {0} /\ FLASH_PAGES \in Nat
      /\ BOOTROM_PAGES + 1 <= FLASH_PAGES
  BY FlashAssumption DEF Half
<1>2. \A m, n, k \in Nat : m + 1 <= n => k * m \in Nat /\ k * n \in Nat /\ k * m + k <= k * n
  OBVIOUS
<1>3. /\ PAGE * BOOTROM_PAGES \in Nat /\ PAGE * FLASH_PAGES \in Nat
      /\ PAGE * BOOTROM_PAGES + PAGE <= PAGE * FLASH_PAGES
  BY <1>1, <1>2
<1>4. PAGE * BOOTROM_PAGES > 0
  BY <1>1
<1>5. bootrom_end \in Nat /\ flash_end \in Nat /\ FLASH_START < bootrom_end
        /\ bootrom_end + PAGE <= flash_end
  BY <1>1, <1>3, <1>4 DEF bootrom_end, flash_end, Address
<1>6. WORD \in Nat /\ flash_end < SignBit
  BY FlashAssumption
<1>7. SignBit \in Nat /\ 2 * SignBit <= WORD
  BY <1>6 DEF SignBit
<1> QED
  BY <1>1, <1>5, <1>6, <1>7

LEMMA UnsignedIsWord == \A x \in Int : Unsigned(x) \in 0 .. WORD - 1
  BY Layout DEF Unsigned

\* A number below WORD is its own low word.
LEMMA SmallIsWord == \A x \in Nat : x < WORD => Unsigned(x) = x
<1>1. \A x, w \in Nat : x < w => x % w = x
  OBVIOUS
<1> QED
  BY <1>1, Layout DEF Unsigned

\* How an argument looks to the signed comparisons.
LEMMA SignedCases ==
    ASSUME NEW x \in Nat
    PROVE  /\ Signed(x) \in Int
           /\ Signed(x) >= 0 => Signed(x) = Unsigned(x)
           /\ x < SignBit => Signed(x) = x
<1>1. Unsigned(x) \in 0 .. WORD - 1
  BY UnsignedIsWord
<1>2. x < SignBit => Unsigned(x) = x
  BY SmallIsWord, Layout
<1> QED
  BY <1>1, <1>2, Layout DEF Signed

\* An address programs the page that contains it.
LEMMA PageNumber ==
    ASSUME NEW d \in Nat, FLASH_START <= d, d < WORD
    PROVE  \E n \in Nat :
              /\ PAGE * n \in Nat /\ PAGE * n <= d - FLASH_START
              /\ d - FLASH_START < PAGE * n + PAGE
              /\ n < Half => PageOf(d) = Address(n)
              /\ ~(n < Half) => \E m \in 0 .. Half - 1 : PageOf(d) = Address(Half + m)
<1> DEFINE x == d - FLASH_START
           n == x \div PAGE
           m == (n - Half) % Half
<1>1. x \in Nat /\ x < WORD
  BY Layout
<1>2. Unsigned(x) = x
  BY <1>1, SmallIsWord
<1>3. /\ n \in Nat /\ (x % PAGE) \in 0 .. PAGE - 1 /\ PAGE * n \in Nat
      /\ x = PAGE * n + (x % PAGE)
  BY <1>1, Layout
<1>4. m \in 0 .. Half - 1
  BY <1>3, Layout
<1>5. PageOf(d) = Address(IF n < Half THEN n ELSE Half + m)
  BY <1>2 DEF PageOf
<1> HIDE DEF m, n
<1>6. PAGE * n <= x /\ x < PAGE * n + PAGE
  BY <1>1, <1>3, Layout
<1>7. /\ n < Half => PageOf(d) = Address(n)
      /\ ~(n < Half) => \E k \in 0 .. Half - 1 : PageOf(d) = Address(Half + k)
  BY <1>4, <1>5
<1> QED
  BY <1>3, <1>6, <1>7

\* Two pages with one address are one page.
LEMMA SamePage == \A i, j \in Nat : Address(i) = Address(j) => i = j
<1>1. \A k, i, j \in Nat : k # 0 /\ k * i = k * j => i = j
  OBVIOUS
<1>2. \A k, i \in Nat : k * i \in Nat
  OBVIOUS
<1> QED
  BY <1>1, <1>2, Layout DEF Address

\* A page of the boot ROM is programmed only for an address inside of it.
LEMMA BootromReached ==
    ASSUME NEW d \in Nat, FLASH_START <= d, d < WORD, PageOf(d) \in BootromPages
    PROVE  d < bootrom_end
<1>1. PICK p \in 0 .. BOOTROM_PAGES - 1 : PageOf(d) = Address(p)
  BY DEF BootromPages
<1>2. PICK n \in Nat :
              /\ PAGE * n \in Nat /\ PAGE * n <= d - FLASH_START
              /\ d - FLASH_START < PAGE * n + PAGE
              /\ n < Half => PageOf(d) = Address(n)
              /\ ~(n < Half) => \E m \in 0 .. Half - 1 : PageOf(d) = Address(Half + m)
  BY PageNumber
<1>3. p \in Nat /\ p + 1 <= BOOTROM_PAGES /\ BOOTROM_PAGES \in Nat /\ p < Half
  BY <1>1, FlashAssumption, Layout
<1>4. n < Half
  <2> SUFFICES ASSUME ~(n < Half) PROVE FALSE
    OBVIOUS
  <2>1. PICK m \in 0 .. Half - 1 : PageOf(d) = Address(Half + m)
    BY <1>2
  <2>2. Half + m \in Nat /\ Half + m # p
    BY <1>3, Layout
  <2> QED
    BY <1>1, <1>3, <2>1, <2>2, SamePage
<1>5. n = p
  BY <1>1, <1>2, <1>3, <1>4, SamePage
<1>6. \A m, j, k \in Nat : m + 1 <= j => k * m \in Nat /\ k * j \in Nat /\ k * m + k <= k * j
  OBVIOUS
<1>7. PAGE * n + PAGE <= PAGE * BOOTROM_PAGES /\ PAGE * BOOTROM_PAGES \in Nat
  BY <1>3, <1>5, <1>6, Layout
<1> QED
  BY <1>2, <1>7, Layout DEF bootrom_end, Address

\* The address of a page is that page's.
LEMMA PageOfPage ==
    ASSUME NEW a \in PageAddress
    PROVE  PageOf(a) = a /\ a < WORD /\ a + PAGE <= flash_end
<1>1. PICK p \in 0 .. FLASH_PAGES - 1 : a = Address(p)
  BY DEF PageAddress
<1>2. p \in Nat /\ p + 1 <= FLASH_PAGES /\ FLASH_PAGES = 2 * Half /\ FLASH_PAGES \in Nat
  BY <1>1, FlashAssumption
<1>3. \A m, j, k \in Nat : m + 1 <= j => k * m \in Nat /\ k * j \in Nat /\ k * m + k <= k * j
  OBVIOUS
<1>4. PAGE * p \in Nat /\ PAGE * p + PAGE <= PAGE * FLASH_PAGES /\ PAGE * FLASH_PAGES \in Nat
  BY <1>2, <1>3, Layout
<1>5. a \in Nat /\ FLASH_START <= a /\ a + PAGE <= flash_end
  BY <1>1, <1>4, Layout DEF Address, flash_end
<1>6. a < WORD
  BY <1>5, Layout
<1>7. Unsigned(a - FLASH_START) = a - FLASH_START
  BY <1>5, <1>6, SmallIsWord, Layout
<1>8. Unsigned(a - FLASH_START) \div PAGE = p
  <2>1. \A i, j \in Nat : i # 0 => (i * j) \div i = j
    OBVIOUS
  <2>2. a - FLASH_START = PAGE * p
    BY <1>1, <1>4, Layout DEF Address
  <2> QED
    BY <1>2, <1>7, <2>1, <2>2, Layout
<1>9. ~(p < Half) => Half + ((p - Half) % Half) = p
  <2>1. \A x, w \in Nat : x < w => x % w = x
    OBVIOUS
  <2> QED
    BY <1>2, <2>1, Layout
<1> QED
  BY <1>1, <1>5, <1>6, <1>8, <1>9 DEF PageOf

-----------------------------------------------------------------------------
(* Type correctness *)

\* Handling a packet leaves well-formed queues.
LEMMA AnswersType ==
    ASSUME UsbOK, toDev # <<>>, NEW rs \in Seq(Response), Answers(rs)
    PROVE  UsbOK'
  BY DEF UsbOK, Answers

LEMMA HeadIsPacket ==
    ASSUME UsbOK, NEW c, Received(c)
    PROVE  toDev # <<>> /\ Head(toDev) \in Packet /\ Head(toDev).cmd = c
  BY DEF UsbOK, Received

LEMMA ReplyType ==
    \A c \in {"DEVICE_INFO", "CHIP_INFO", "BL_VERSION", "ACK", "NACK"} :
        Reply(c) \in Response /\ <<Reply(c)>> \in Seq(Response)
  BY DEF Reply, Response

LEMMA WriteRepliesType == \A n \in Nat : WriteReplies(n) \in Seq(Response)
<1> SUFFICES ASSUME NEW n \in Nat PROVE WriteReplies(n) \in Seq(Response)
  OBVIOUS
<1>1. CASE n = 0
  BY <1>1, ReplyType DEF WriteReplies
<1>2. CASE n # 0
  <2>1. WriteReplies(n) = [i \in 1 .. n |-> Reply("NACK")]
    BY <1>2 DEF WriteReplies
  <2>2. [i \in 1 .. n |-> Reply("NACK")] \in Seq(Response)
    BY ReplyType
  <2> QED
    BY <2>1, <2>2
<1> QED
  BY <1>1, <1>2

\* A reset and a rising link keep the USB state well-formed.
LEMMA LinkType == UsbOK /\ LinkUp => UsbOK'
  BY DEF UsbOK, LinkUp

LEMMA ResetType ==
    ASSUME UsbOK, NEW w \in {"power", "handover", "button", "reset", "watchdog"}, Reset(w)
    PROVE  UsbOK' /\ CpuOK'
  BY DEF UsbOK, Reset, CpuOK

LEMMA TypeInit == BootInit => BootTypeOK
<1> SUFFICES ASSUME BootInit PROVE BootTypeOK
  OBVIOUS
<1>1. CpuOK /\ FlagsOK
  BY DEF BootInit, CpuOK, FlagsOK
<1>2. UsbOK
  <2>1. <<>> \in Seq(Packet) /\ <<>> \in Seq(Response)
    OBVIOUS
  <2> QED
    BY <2>1 DEF BootInit, UsbOK
<1>3. MemoryOK
  BY FlashAssumption, Layout DEF BootInit, MemoryOK, Content
<1> QED
  BY <1>1, <1>2, <1>3 DEF BootTypeOK

\* A block has a finite number of pages left over.
LEMMA LeftOverIsNat ==
    \A c, done : Cardinality(BlockPages(c) \ done) \in Nat
<1> SUFFICES ASSUME NEW c, NEW done PROVE Cardinality(BlockPages(c) \ done) \in Nat
  OBVIOUS
<1>1. IsFiniteSet({Unsigned(c.addr)})
  BY FS_Singleton
<1>2. IsFiniteSet({Unsigned(c.addr)} \cup {Unsigned(c.addr + PAGE)})
  BY <1>1, FS_Singleton, FS_Union
<1>3. {Unsigned(c.addr)} \cup {Unsigned(c.addr + PAGE)} = BlockPages(c)
  BY DEF BlockPages
<1>4. IsFiniteSet(BlockPages(c) \ done)
  BY <1>2, <1>3, FS_Subset
<1> QED
  BY <1>4, FS_CardinalityType

\* The parts of the type invariant that no step of a kind touches.
LEMMA FlagsKept ==
    ASSUME FlagsOK, UNCHANGED <<area, bootrom_unlocked, button, unlocks>>
    PROVE  FlagsOK'
  BY DEF FlagsOK, area

LEMMA MemoryKept == MemoryOK /\ UNCHANGED <<range, flash>> => MemoryOK'
  BY DEF MemoryOK, range

LEMMA CpuKept == CpuOK /\ UNCHANGED <<mode, why>> => CpuOK'
  BY DEF CpuOK

\* The device's own steps.
LEMMA BootStepType ==
    ASSUME BootTypeOK, BootDevice
    PROVE  BootTypeOK'
<1> USE DEF BootTypeOK
<1>1. CASE EnterFlashMode
  <2>1. CpuOK' /\ MemoryOK'
    BY <1>1, Layout DEF EnterFlashMode, NoRange, CpuOK, MemoryOK
  <2>2. FlagsOK'
    BY <1>1, Zenon DEF EnterFlashMode, NoRange, FlagsOK
  <2>3. UsbOK'
    BY <1>1, LinkType DEF EnterFlashMode
  <2> QED
    BY <2>1, <2>2, <2>3
<1>2. CASE JumpToOs
  <2>1. CpuOK' /\ MemoryOK'
    BY <1>2 DEF JumpToOs, CpuOK, MemoryOK, range
  <2>2. FlagsOK'
    BY <1>2, Zenon DEF JumpToOs, FlagsOK, range
  <2>3. UsbOK'
    BY <1>2, LinkType DEF JumpToOs, UsbOK, usb
  <2> QED
    BY <2>1, <2>2, <2>3
<1>3. CASE Identify
  <2>1. UNCHANGED <<mode, area, range, flash, button, why, unlocks>>
    BY <1>3 DEF Identify
  <2>2. UsbOK'
    BY <1>3, AnswersType, HeadIsPacket, ReplyType DEF Identify
  <2> QED
    BY <2>1, <2>2, FlagsKept, MemoryKept, CpuKept DEF range
<1>4. CASE StartFlash
  <2> DEFINE c == Head(toDev)
  <2>1. toDev # <<>> /\ c \in Packet /\ c.cmd = "START_FLASH"
    BY <1>4, HeadIsPacket DEF StartFlash
  <2>2. c.start \in Nat /\ c.end \in Nat /\ c.magic \in BOOLEAN
    BY <2>1, PacketFields
  <2>3. /\ bootrom_unlocked' = c.magic /\ unlocks' \in {unlocks, unlocks \cup Unlocks(c)}
        /\ UNCHANGED <<mode, area, flash, button, why>>
    BY <1>4 DEF StartFlash
  <2>4. \/ /\ start_addr' = Unsigned(c.start) /\ end_addr' = Unsigned(c.end)
           /\ granted' = link /\ Answers(<<Reply("ACK")>>)
        \/ start_addr' = 0 /\ end_addr' = 0 /\ granted' = 0 /\ Answers(<<Reply("NACK")>>)
    BY <1>4 DEF StartFlash
  <2>5. FlagsOK'
    <3>1. unlocks' \subseteq {"magic", "sign"}
      BY <2>3 DEF FlagsOK, Unlocks
    <3> QED
      BY <2>2, <2>3, <3>1, Zenon DEF FlagsOK, area
  <2>6. MemoryOK'
    <3>1. Unsigned(c.start) \in 0 .. WORD - 1 /\ Unsigned(c.end) \in 0 .. WORD - 1
            /\ 0 \in 0 .. WORD - 1
      BY <2>2, UnsignedIsWord, Layout
    <3> QED
      BY <2>3, <2>4, <3>1 DEF MemoryOK, UsbOK
  <2>7. UsbOK'
    BY <2>1, <2>4, AnswersType, ReplyType
  <2> QED
    BY <2>3, <2>5, <2>6, <2>7, CpuKept
<1>5. CASE FinishWrite
  <2> DEFINE c == Head(toDev)
  <2>1. toDev # <<>> /\ c \in Packet /\ c.cmd = "FINISH_WRITE"
    BY <1>5, HeadIsPacket DEF FinishWrite
  <2>2. c.data \in Content
    BY <2>1, PacketFields DEF Content
  <2>3. PICK done \in SUBSET Programmable(c) :
          /\ flash' = [a \in PageAddress |-> IF \E d \in done : PageOf(d) = a THEN c.data ELSE flash[a]]
          /\ Answers(WriteReplies(Cardinality(BlockPages(c) \ done)))
    BY <1>5 DEF FinishWrite
  <2>4. UNCHANGED <<mode, area, range, button, why, unlocks>>
    BY <1>5 DEF FinishWrite
  <2>5. MemoryOK'
    BY <2>2, <2>3, <2>4 DEF MemoryOK, range
  <2>6. UsbOK'
    BY <2>1, <2>3, LeftOverIsNat, WriteRepliesType, AnswersType
  <2> QED
    BY <2>4, <2>5, <2>6, FlagsKept, CpuKept DEF range
<1>6. CASE HardwareReset \/ Watchdog \/ OsReset
  <2>1. UsbOK' /\ CpuOK'
    BY <1>6, ResetType DEF HardwareReset, Watchdog, OsReset
  <2>2. UNCHANGED <<area, range, flash, button, unlocks>>
    BY <1>6 DEF HardwareReset, Watchdog, OsReset
  <2> QED
    BY <2>1, <2>2, FlagsKept, MemoryKept DEF range
<1>7. CASE UnknownPacket
  <2>1. CpuOK' /\ UsbOK' /\ UNCHANGED <<area, range, flash, button, unlocks>>
    BY <1>7 DEF UnknownPacket, CpuOK, UsbOK, usb
  <2> QED
    BY <2>1, FlagsKept, MemoryKept DEF range
<1>8. CASE ButtonSeenUp
  <2>1. FlagsOK'
    BY <1>8, Zenon DEF ButtonSeenUp, FlagsOK, range
  <2> QED
    BY <1>8, <2>1, MemoryKept, CpuKept DEF ButtonSeenUp, UsbOK, usb
<1>9. CASE OsDeviceInfo
  <2>1. <<[cmd |-> "DEVICE_INFO", mode |-> "os"]>> \in Seq(Response)
    BY DEF Response
  <2>2. UsbOK'
    BY <1>9, <2>1, AnswersType, HeadIsPacket DEF OsDeviceInfo
  <2> QED
    BY <1>9, <2>2, FlagsKept, MemoryKept, CpuKept DEF OsDeviceInfo, range
<1>10. CASE OsStartFlash
  <2>1. UsbOK' /\ CpuOK'
    BY <1>10, ResetType DEF OsStartFlash
  <2>2. FlagsOK'
    BY <1>10, Zenon DEF OsStartFlash, FlagsOK, range
  <2> QED
    BY <1>10, <2>1, <2>2, MemoryKept DEF OsStartFlash
<1>11. CASE OsOther
  <2>1. <<>> \in Seq(Response)
    OBVIOUS
  <2>2. UsbOK'
    BY <1>11, <2>1, AnswersType, HeadIsPacket DEF OsOther
  <2> QED
    BY <1>11, <2>2, FlagsKept, MemoryKept, CpuKept DEF OsOther, range
<1> QED
  BY <1>1, <1>2, <1>3, <1>4, <1>5, <1>6, <1>7, <1>8, <1>9, <1>10, <1>11 DEF BootDevice

\* A button press in flash mode, and the world around the device.
LEMMA WorldStepType ==
    ASSUME BootTypeOK, ButtonLeaves \/ ToggleButton \/ PowerCycle \/ HostSends \/ HostTakes
    PROVE  BootTypeOK'
<1> USE DEF BootTypeOK
<1>1. CASE ButtonLeaves
  <2>1. UsbOK' /\ CpuOK'
    BY <1>1, ResetType DEF ButtonLeaves
  <2>2. FlagsOK'
    BY <1>1, Zenon DEF ButtonLeaves, FlagsOK, range
  <2> QED
    BY <1>1, <2>1, <2>2, MemoryKept DEF ButtonLeaves
<1>2. CASE ToggleButton
  <2>1. FlagsOK'
    BY <1>2, Zenon DEF ToggleButton, FlagsOK, range, area
  <2>2. UsbOK'
    BY <1>2 DEF ToggleButton, UsbOK, usb
  <2> QED
    BY <1>2, <2>1, <2>2, MemoryKept, CpuKept DEF ToggleButton
<1>3. CASE PowerCycle
  <2>1. CpuOK'
    BY <1>3 DEF PowerCycle, CpuOK
  <2>2. FlagsOK'
    BY <1>3, Zenon DEF PowerCycle, FlagsOK, range
  <2>3. UsbOK'
    <3>1. <<>> \in Seq(Packet) /\ <<>> \in Seq(Response)
      OBVIOUS
    <3> QED
      BY <1>3, <3>1 DEF PowerCycle, UsbOK
  <2>4. MemoryOK'
    <3> DEFINE c == Head(toDev)
    <3>1. UNCHANGED range
      BY <1>3 DEF PowerCycle
    <3>2. CASE UNCHANGED flash
      BY <3>1, <3>2, MemoryKept
    <3>3. CASE ~UNCHANGED flash
      <4>1. Received("FINISH_WRITE")
        BY <1>3, <3>3 DEF PowerCycle
      <4>2. c.data \in Content
        BY <4>1, HeadIsPacket, PacketFields DEF Content
      <4>3. PICK p \in Programmable(c) :
              flash' = [a \in PageAddress |->
                          IF a = PageOf(p) THEN Torn
                          ELSE IF \E d \in Programmable(c) \ {p} :
                                    d = Unsigned(c.addr) /\ PageOf(d) = a THEN c.data
                          ELSE flash[a]]
        BY <1>3, <3>3 DEF PowerCycle
      <4> QED
        BY <3>1, <4>2, <4>3 DEF MemoryOK, range, Content
    <3> QED
      BY <3>2, <3>3
  <2> QED
    BY <2>1, <2>2, <2>3, <2>4
<1>4. CASE HostSends
  <2>1. UsbOK'
    BY <1>4 DEF HostSends, UsbOK
  <2> QED
    BY <1>4, <2>1, FlagsKept, MemoryKept, CpuKept DEF HostSends, range
<1>5. CASE HostTakes
  <2>1. UsbOK'
    <3>1. <<>> \in Seq(Response)
      OBVIOUS
    <3>2. fromDev # <<>> /\ (fromDev' = <<>> \/ fromDev' = Tail(fromDev))
      BY <1>5 DEF HostTakes
    <3>3. Tail(fromDev) \in Seq(Response)
      BY <3>2 DEF UsbOK
    <3> QED
      BY <1>5, <3>1, <3>2, <3>3 DEF HostTakes, UsbOK
  <2> QED
    BY <1>5, <2>1, FlagsKept, MemoryKept, CpuKept DEF HostTakes, range
<1> QED
  BY <1>1, <1>2, <1>3, <1>4, <1>5

\* A stuttering step changes nothing.
LEMMA StutterType == BootTypeOK /\ UNCHANGED bootvars => BootTypeOK'
<1> SUFFICES ASSUME BootTypeOK, UNCHANGED bootvars PROVE BootTypeOK'
  OBVIOUS
<1>1. UsbOK'
  BY DEF BootTypeOK, bootvars, usb, UsbOK
<1> QED
  BY <1>1, FlagsKept, MemoryKept, CpuKept DEF BootTypeOK, bootvars, range

(***************************************************************************)
(* The boot ROM and the firmware's way back to it keep their types, for    *)
(* every layout of the flash memory, every host and every failure of the   *)
(* power.                                                                  *)
(***************************************************************************)
THEOREM BootTypeCorrect == BootSpec => []BootTypeOK
<1>1. BootTypeOK /\ [BootNext]_bootvars => BootTypeOK'
  BY BootStepType, WorldStepType, StutterType DEF BootNext
<1> QED
  BY TypeInit, <1>1, PTL DEF BootSpec

-----------------------------------------------------------------------------
(* The boot ROM's own pages *)

(***************************************************************************)
(* The inductive invariant: a range begins in the flash memory, and one    *)
(* that meets the boot ROM's pages was granted with the magic number or    *)
(* with a negative end.                                                    *)
(***************************************************************************)
MeetsBootrom == start_addr < bootrom_end /\ end_addr > FLASH_START

LockInv ==
    /\ end_addr # 0 => start_addr >= FLASH_START
    /\ MeetsBootrom => unlocks # {}
    /\ BootromLocked

\* A page of the boot ROM that is programmed is in such a range, although the
\* addresses wrap in the test of the range and in the page number.
LEMMA OpenRange ==
    ASSUME BootTypeOK, LockInv, NEW d \in 0 .. WORD - 1, InRange(d), PageOf(d) \in BootromPages
    PROVE  MeetsBootrom
<1>1. start_addr \in Nat /\ end_addr \in Nat /\ d \in Nat /\ d < WORD
  BY Layout DEF BootTypeOK, MemoryOK
<1>2. Unsigned(d + PAGE - 1) < end_addr /\ start_addr <= d
  <2>1. Unsigned(d + PAGE - 1) \in Nat
    BY <1>1, UnsignedIsWord, Layout
  <2> QED
    BY <1>1, <2>1 DEF InRange
<1>3. start_addr >= FLASH_START
  BY <1>1, <1>2, UnsignedIsWord, Layout DEF LockInv
<1>4. FLASH_START <= d
  BY <1>1, <1>2, <1>3, Layout
<1>5. d < bootrom_end
  BY <1>1, <1>4, BootromReached
<1>6. Unsigned(d + PAGE - 1) = d + PAGE - 1
  BY <1>1, <1>5, SmallIsWord, Layout
<1> QED
  BY <1>1, <1>2, <1>4, <1>5, <1>6, Layout DEF MeetsBootrom

LEMMA BlockPagesAreWords ==
    ASSUME BootTypeOK, Received("FINISH_WRITE")
    PROVE  BlockPages(Head(toDev)) \subseteq 0 .. WORD - 1
<1>1. Head(toDev).addr \in Nat
  BY HeadIsPacket, PacketFields DEF BootTypeOK
<1> QED
  BY <1>1, UnsignedIsWord, Layout DEF BlockPages

LEMMA BootromInFlash == BootromPages \subseteq PageAddress
<1>1. 0 .. BOOTROM_PAGES - 1 \subseteq 0 .. FLASH_PAGES - 1
  BY FlashAssumption, Layout
<1> QED
  BY <1>1 DEF BootromPages, PageAddress

\* A step that changes only pages of addresses within the range keeps the lock.
LEMMA WriteKeepsLock ==
    ASSUME BootTypeOK, LockInv, UNCHANGED <<range, unlocks>>, Received("FINISH_WRITE"),
           \A a \in BootromPages :
             flash'[a] # flash[a] => \E d \in Programmable(Head(toDev)) : PageOf(d) = a
    PROVE  LockInv'
<1>1. CASE unlocks # {}
  BY <1>1 DEF LockInv, MeetsBootrom, range, BootromLocked, BootromChanged
<1>2. CASE unlocks = {}
  <2>1. ASSUME NEW a \in BootromPages PROVE flash'[a] = flash[a]
    <3> SUFFICES ASSUME flash'[a] # flash[a] PROVE FALSE
      OBVIOUS
    <3>1. PICK d \in Programmable(Head(toDev)) : PageOf(d) = a
      BY <2>1
    <3>2. d \in 0 .. WORD - 1 /\ InRange(d)
      BY <3>1, BlockPagesAreWords DEF Programmable
    <3> QED
      BY <1>2, <3>1, <3>2, OpenRange DEF LockInv
  <2> QED
    BY <1>2, <2>1 DEF LockInv, MeetsBootrom, range, BootromLocked, BootromChanged
<1> QED
  BY <1>1, <1>2

\* Steps that touch neither the range nor the flash.
LEMMA LockKept ==
    ASSUME LockInv, UNCHANGED <<range, flash, unlocks>>
    PROVE  LockInv'
  BY DEF LockInv, MeetsBootrom, range, BootromLocked, BootromChanged

LEMMA LockStep ==
    ASSUME BootTypeOK, LockInv, [BootNext]_bootvars
    PROVE  LockInv'
<1>1. CASE EnterFlashMode
  <2>1. end_addr' = 0 /\ UNCHANGED <<flash, unlocks>>
    BY <1>1 DEF EnterFlashMode, NoRange
  <2>2. ~(0 > FLASH_START)
    BY Layout
  <2> QED
    BY <2>1, <2>2 DEF LockInv, MeetsBootrom, BootromLocked, BootromChanged
<1>2. CASE StartFlash
  <2> DEFINE c == Head(toDev)
  <2>1. c \in Packet /\ c.cmd = "START_FLASH"
    BY <1>2, HeadIsPacket DEF StartFlash, BootTypeOK
  <2>2. c.start \in Nat /\ c.end \in Nat
    BY <2>1, PacketFields
  <2>3. UNCHANGED flash
    BY <1>2 DEF StartFlash
  <2>4. CASE Permitted(c.magic, c)
    <3>1. /\ start_addr' = Unsigned(c.start) /\ end_addr' = Unsigned(c.end)
          /\ unlocks' = unlocks \cup Unlocks(c)
      BY <1>2, <2>4 DEF StartFlash
    <3>2. /\ c.magic \/ Signed(c.start) >= bootrom_end \/ Signed(c.end) < FLASH_START
          /\ Signed(c.start) >= FLASH_START
      BY <2>4 DEF Permitted
    <3>3. Signed(c.start) = Unsigned(c.start) /\ Unsigned(c.start) \in Nat
      BY <2>2, <3>2, SignedCases, UnsignedIsWord, Layout
    <3>4. start_addr' >= FLASH_START
      BY <3>1, <3>2, <3>3
    <3>5. ASSUME ~c.magic, Signed(c.end) >= 0 PROVE ~MeetsBootrom'
      <4>1. Signed(c.end) = Unsigned(c.end) /\ Signed(c.end) \in Int
        BY <2>2, <3>5, SignedCases
      <4> QED
        BY <3>1, <3>2, <3>3, <3>5, <4>1, Layout DEF MeetsBootrom
    <3>6. c.magic \/ Signed(c.end) < 0 => unlocks' # {}
      <4>1. CASE c.magic
        BY <3>1, <4>1 DEF Unlocks
      <4>2. CASE Signed(c.end) < 0
        <5>1. "sign" \in Unlocks(c)
          BY <4>2 DEF Unlocks
        <5> QED
          BY <3>1, <5>1
      <4> QED
        BY <4>1, <4>2
    <3>7. Signed(c.end) \in Int
      BY <2>2, SignedCases
    <3>8. MeetsBootrom' => unlocks' # {}
      <4>1. Signed(c.end) < 0 \/ Signed(c.end) >= 0
        BY <3>7
      <4> QED
        BY <3>5, <3>6, <4>1
    <3>9. BootromLocked'
      BY <2>3, <3>1 DEF LockInv, BootromLocked, BootromChanged
    <3> QED
      BY <3>4, <3>8, <3>9 DEF LockInv
  <2>5. CASE ~Permitted(c.magic, c)
    <3>1. end_addr' = 0 /\ UNCHANGED unlocks
      BY <1>2, <2>5 DEF StartFlash
    <3>2. ~(0 > FLASH_START)
      BY Layout
    <3> QED
      BY <2>3, <3>1, <3>2 DEF LockInv, MeetsBootrom, BootromLocked, BootromChanged
  <2> QED
    BY <2>4, <2>5
<1>3. CASE FinishWrite
  <2> DEFINE c == Head(toDev)
  <2>1. UNCHANGED <<range, unlocks>> /\ Received("FINISH_WRITE")
    BY <1>3 DEF FinishWrite
  <2>2. PICK done \in SUBSET Programmable(c) :
          flash' = [a \in PageAddress |-> IF \E d \in done : PageOf(d) = a THEN c.data ELSE flash[a]]
    BY <1>3 DEF FinishWrite
  <2>3. \A a \in BootromPages :
          flash'[a] # flash[a] => \E d \in Programmable(c) : PageOf(d) = a
    BY <2>2, BootromInFlash
  <2> QED
    BY <2>1, <2>3, WriteKeepsLock
<1>4. CASE PowerCycle
  <2> DEFINE c == Head(toDev)
  <2>1. UNCHANGED <<range, unlocks>>
    BY <1>4 DEF PowerCycle
  <2>2. CASE UNCHANGED flash
    BY <2>1, <2>2, LockKept
  <2>3. CASE ~UNCHANGED flash
    <3>1. Received("FINISH_WRITE")
      BY <1>4, <2>3 DEF PowerCycle
    <3>2. PICK p \in Programmable(c) :
            flash' = [a \in PageAddress |->
                        IF a = PageOf(p) THEN Torn
                        ELSE IF \E d \in Programmable(c) \ {p} :
                                  d = Unsigned(c.addr) /\ PageOf(d) = a THEN c.data
                        ELSE flash[a]]
      BY <1>4, <2>3 DEF PowerCycle
    <3>3. \A a \in BootromPages :
            flash'[a] # flash[a] => \E d \in Programmable(c) : PageOf(d) = a
      BY <3>2, BootromInFlash
    <3> QED
      BY <2>1, <3>1, <3>3, WriteKeepsLock
  <2> QED
    BY <2>2, <2>3
<1>5. CASE JumpToOs \/ Identify \/ HardwareReset \/ UnknownPacket \/ Watchdog
           \/ ButtonSeenUp \/ ButtonLeaves
  BY <1>5, LockKept DEF JumpToOs, Identify, HardwareReset, UnknownPacket, Watchdog,
                        ButtonSeenUp, ButtonLeaves
<1>6. CASE OsDeviceInfo \/ OsStartFlash \/ OsReset \/ OsOther
           \/ ToggleButton \/ HostSends \/ HostTakes
  BY <1>6, LockKept DEF OsDeviceInfo, OsStartFlash, OsReset, OsOther,
                        ToggleButton, HostSends, HostTakes
<1>7. CASE UNCHANGED bootvars
  BY <1>7, LockKept DEF bootvars
<1> QED
  BY <1>1, <1>2, <1>3, <1>4, <1>5, <1>6, <1>7 DEF BootNext, BootDevice

LEMMA LockInit == BootInit => LockInv
<1> SUFFICES ASSUME BootInit PROVE LockInv
  OBVIOUS
<1>1. ~(end_addr > FLASH_START) /\ end_addr = 0
  BY Layout DEF BootInit
<1>2. \A a \in BootromPages : flash[a] = Factory
  BY BootromInFlash DEF BootInit
<1> QED
  BY <1>1, <1>2 DEF LockInv, MeetsBootrom, BootromLocked, BootromChanged

(***************************************************************************)
(* The boot ROM's pages keep their content until some host was granted a   *)
(* range with the magic number, or with an end that is negative as an int, *)
(* whatever else it asks for, wherever it writes, and whenever the power   *)
(* fails.                                                                  *)
(***************************************************************************)
THEOREM BootromStaysLocked == BootSpec => []BootromLocked
<1>1. LockInv => BootromLocked
  BY DEF LockInv
<1> QED
  BY BootTypeCorrect, LockInit, LockStep, <1>1, PTL DEF BootSpec

-----------------------------------------------------------------------------
(***************************************************************************)
(* Why a reset goes where it was meant to: a request for flash mode is set *)
(* only by the handover and forgotten when it is followed, and the press   *)
(* that left flash mode is remembered until the next jump.                 *)
(***************************************************************************)
RequestInv ==
    /\ command = "ENTER_FLASH_MODE" => mode = "boot" /\ why \notin {"button", "reset"}
    /\ mode = "boot" /\ why = "handover" => command = "ENTER_FLASH_MODE"
    /\ mode = "boot" /\ why = "button" => button_pressed

LEMMA RequestStep ==
    ASSUME FlagsOK, RequestInv, [BootNext]_bootvars
    PROVE  RequestInv'
<1> USE DEF RequestInv, Reset, area
<1>1. CASE EnterFlashMode
  BY <1>1 DEF EnterFlashMode
<1>2. CASE JumpToOs
  BY <1>2 DEF JumpToOs, StaysInFlashMode
<1>3. CASE Identify \/ StartFlash \/ FinishWrite \/ OsDeviceInfo \/ OsOther
  BY <1>3 DEF Identify, StartFlash, FinishWrite, OsDeviceInfo, OsOther
<1>4. CASE HardwareReset
  BY <1>4 DEF HardwareReset
<1>5. CASE UnknownPacket
  BY <1>5 DEF UnknownPacket
<1>6. CASE Watchdog
  BY <1>6 DEF Watchdog
<1>7. CASE ButtonSeenUp
  BY <1>7 DEF ButtonSeenUp
<1>8. CASE ButtonLeaves
  BY <1>8 DEF ButtonLeaves
<1>9. CASE OsStartFlash
  BY <1>9 DEF OsStartFlash
<1>10. CASE OsReset
  BY <1>10 DEF OsReset
<1>11. CASE ToggleButton \/ HostSends \/ HostTakes
  BY <1>11 DEF ToggleButton, HostSends, HostTakes
<1>12. CASE PowerCycle
  BY <1>12 DEF PowerCycle
<1>13. CASE UNCHANGED bootvars
  BY <1>13 DEF bootvars
<1> QED
  BY <1>1, <1>2, <1>3, <1>4, <1>5, <1>6, <1>7, <1>8, <1>9, <1>10, <1>11, <1>12, <1>13
     DEF BootNext, BootDevice

(***************************************************************************)
(* A handover ends in flash mode, a press of the button or a reset command *)
(* outside of it unless the firmware is erased, through every interleaving *)
(* of packets, buttons, watchdog and power failures.                       *)
(***************************************************************************)
THEOREM ResetsAreFollowed == BootSpec => ResetGoesWhereMeant
<1> DEFINE A == mode = "boot" /\ mode' # "boot" =>
                  /\ why = "handover" => mode' = "flash"
                  /\ why = "button" /\ flash[osimage_entry] # Erased => mode' # "flash"
                  /\ why = "reset" /\ ~button /\ flash[osimage_entry] # Erased
                       => mode' # "flash"
<1>1. BootInit => RequestInv
  BY DEF BootInit, RequestInv
<1>2. BootTypeOK /\ RequestInv /\ [BootNext]_bootvars => RequestInv'
  BY RequestStep DEF BootTypeOK
<1>3. ASSUME BootTypeOK, RequestInv, BootNext PROVE A
  <2> SUFFICES ASSUME mode = "boot", mode' # "boot"
               PROVE  /\ why = "handover" => mode' = "flash"
                      /\ why = "button" /\ flash[osimage_entry] # Erased => mode' # "flash"
                      /\ why = "reset" /\ ~button /\ flash[osimage_entry] # Erased
                           => mode' # "flash"
    OBVIOUS
  <2>1. EnterFlashMode \/ JumpToOs
    BY <1>3 DEF BootNext, BootDevice, Identify, StartFlash, FinishWrite, HardwareReset,
                UnknownPacket, Watchdog, ButtonSeenUp, ButtonLeaves, OsDeviceInfo,
                OsStartFlash, OsReset, OsOther, ToggleButton, PowerCycle, HostSends,
                HostTakes, Reset
  <2> QED
    BY <1>3, <2>1 DEF EnterFlashMode, JumpToOs, StaysInFlashMode, RequestInv, BootTypeOK,
                      FlagsOK
<1>4. BootTypeOK /\ RequestInv /\ [BootNext]_bootvars => [A]_bootvars
  BY <1>3
<1> QED
  BY <1>1, <1>2, <1>4, BootTypeCorrect, PTL DEF BootSpec, ResetGoesWhereMeant


-----------------------------------------------------------------------------
(***************************************************************************)
(* Why no page is written under an old range: flash mode runs on a link of *)
(* its own, and a range that is open in it was granted on that link.  RAM  *)
(* survives a reset, but flash_mode closes the range before it listens.    *)
(***************************************************************************)
RangeInv == mode = "flash" => link # 0 /\ (end_addr # 0 => granted = link)

LEMMA RangeStep ==
    ASSUME BootTypeOK, RangeInv, [BootNext]_bootvars
    PROVE  RangeInv'
<1> USE DEF RangeInv, Reset
<1>1. CASE EnterFlashMode
  <2>1. links \in Nat /\ link' = links + 1 /\ end_addr' = 0
    BY <1>1 DEF EnterFlashMode, NoRange, LinkUp, BootTypeOK, UsbOK
  <2> QED
    BY <2>1
<1>2. CASE JumpToOs
  BY <1>2 DEF JumpToOs
<1>3. CASE StartFlash
  BY <1>3 DEF StartFlash, Answers
<1>4. CASE Identify \/ FinishWrite \/ ButtonSeenUp
  BY <1>4 DEF Identify, FinishWrite, ButtonSeenUp, Answers, range, usb
<1>5. CASE HardwareReset \/ UnknownPacket \/ Watchdog \/ ButtonLeaves \/ OsStartFlash \/ OsReset
  BY <1>5 DEF HardwareReset, UnknownPacket, Watchdog, ButtonLeaves, OsStartFlash, OsReset
<1>6. CASE OsDeviceInfo \/ OsOther \/ PowerCycle
  BY <1>6 DEF OsDeviceInfo, OsOther, PowerCycle
<1>7. CASE ToggleButton \/ HostSends \/ HostTakes
  BY <1>7 DEF ToggleButton, HostSends, HostTakes, range, usb
<1>8. CASE UNCHANGED bootvars
  BY <1>8 DEF bootvars, range, usb
<1> QED
  BY <1>1, <1>2, <1>3, <1>4, <1>5, <1>6, <1>7, <1>8 DEF BootNext, BootDevice

\* A page that may be programmed lies in an open range.
LEMMA ProgrammableNeedsRange ==
    ASSUME BootTypeOK, Received("FINISH_WRITE"), Programmable(Head(toDev)) # {}
    PROVE  end_addr # 0
<1> DEFINE c == Head(toDev)
<1>1. c \in Packet /\ c.cmd = "FINISH_WRITE"
  BY HeadIsPacket DEF BootTypeOK
<1>2. c.addr \in Nat /\ PAGE \in Nat \ {0} /\ end_addr \in Nat
  BY <1>1, PacketFields, Layout DEF BootTypeOK, MemoryOK
<1>3. PICK a \in BlockPages(c) : InRange(a)
  BY DEF Programmable
<1>4. a \in 0 .. WORD - 1
  BY <1>3, BlockPagesAreWords
<1>5. Unsigned(a + PAGE - 1) \in Nat
  BY <1>2, <1>4, UnsignedIsWord, Layout
<1> QED
  BY <1>2, <1>3, <1>5 DEF InRange

(***************************************************************************)
(* Whatever a host sends, whenever the device is reset or loses power: a   *)
(* page is written or torn only under a range granted on the present link. *)
(***************************************************************************)
THEOREM WritesNeedAGrant == BootSpec => WritesUnderCurrentRange
<1> DEFINE A == flash' # flash => granted # 0 /\ granted = link
<1>1. BootInit => RangeInv
  BY DEF BootInit, RangeInv
<1>2. BootTypeOK /\ RangeInv /\ [BootNext]_bootvars => RangeInv'
  BY RangeStep
<1>3. ASSUME BootTypeOK, RangeInv, BootNext PROVE A
  <2> SUFFICES ASSUME flash' # flash PROVE granted # 0 /\ granted = link
    OBVIOUS
  <2>1. FinishWrite \/ PowerCycle
    BY <1>3 DEF BootNext, BootDevice, EnterFlashMode, JumpToOs, Identify, StartFlash,
                HardwareReset, UnknownPacket, Watchdog, ButtonSeenUp, ButtonLeaves, OsDeviceInfo,
                OsStartFlash, OsReset, OsOther, ToggleButton, HostSends, HostTakes
  <2>2. mode = "flash" /\ Received("FINISH_WRITE")
    BY <2>1 DEF FinishWrite, PowerCycle
  <2>3. Programmable(Head(toDev)) # {}
    <3>1. flash \in [PageAddress -> Content]
      BY <1>3 DEF BootTypeOK, MemoryOK
    <3>2. CASE FinishWrite
      <4>1. PICK done \in SUBSET Programmable(Head(toDev)) :
              flash' = [a \in PageAddress |-> 
                         IF \E d \in done : PageOf(d) = a THEN Head(toDev).data ELSE flash[a]]
        BY <3>2 DEF FinishWrite
      <4>2. done # {}
        BY <3>1, <4>1
      <4> QED
        BY <4>1, <4>2
    <3>3. CASE PowerCycle
      BY <3>3 DEF PowerCycle
    <3> QED
      BY <2>1, <3>2, <3>3
  <2> QED
    BY <1>3, <2>2, <2>3, ProgrammableNeedsRange DEF RangeInv
<1>4. BootTypeOK /\ RangeInv /\ [BootNext]_bootvars => [A]_bootvars
  BY <1>3 DEF bootvars
<1> QED
  BY <1>1, <1>2, <1>4, BootTypeCorrect, PTL DEF BootSpec, WritesUnderCurrentRange

-----------------------------------------------------------------------------
(* To the device, the flasher is a host. *)

(***************************************************************************)
(* A process that has no port open has no replies either, and a run has a  *)
(* number.                                                                 *)
(***************************************************************************)
PortInv ==
    /\ fpc \in {"idle", "open", "reopen"} => conn = 0
    /\ fpc \in {"idle", "open"} => replies = <<>>
    /\ fpc # "idle" => job.id # 0

\* What the flasher sends is a packet.
LEMMA SimpleIsPacket ==
    \A c \in {"DEVICE_INFO", "CHIP_INFO", "BL_VERSION", "HARDWARE_RESET", "OTHER"} :
        Simple(c) \in Packet
  BY DEF Simple, Packet

LEMMA StartFlashIsPacket ==
    \A s, e \in Nat : \A m \in BOOLEAN : StartFlashCmd(s, e, m) \in Packet
  BY DEF StartFlashCmd, Packet

LEMMA AddressIsNat ==
    /\ Half \in Nat /\ 2 * Half <= FLASH_PAGES
    /\ \A n \in Nat : Address(n) \in Nat /\ BlockAddress(n) = Address(2 * n)
<1>1. /\ FLASH_START \in Nat /\ PAGE \in Nat /\ FLASH_PAGES \in Nat
  BY FlashAssumption
<1>2. Half \in Nat /\ 2 * Half <= FLASH_PAGES
  BY <1>1 DEF Half
<1>3. ASSUME NEW n \in Nat PROVE Address(n) \in Nat /\ BlockAddress(n) = Address(2 * n)
  <2>1. PAGE * n \in Nat /\ 2 * PAGE * n = PAGE * (2 * n)
    BY <1>1
  <2> QED
    BY <1>1, <2>1 DEF Address, BlockAddress
<1> QED
  BY <1>2, <1>3

LEMMA WriteIsPacket ==
    ASSUME ClientOK, PortInv, fpc # "idle", NEW b \in todo
    PROVE  /\ b \in Nat
           /\ [cmd |-> "FINISH_WRITE", addr |-> BlockAddress(b), data |-> job.id] \in Packet
<1>1. job.image \subseteq Nat /\ job.id \in 0 .. MaxRuns /\ MaxRuns \in Nat
  BY RunsAssumption DEF ClientOK, JobOK
<1>2. b \in Nat
  BY <1>1 DEF ClientOK, JobOK
<1>3. BlockAddress(b) \in Nat
  BY <1>2, AddressIsNat
<1>4. job.id \in 1 .. MaxRuns
  BY <1>1 DEF PortInv
<1>5. job.id \in Data
  BY <1>4, RunsAssumption
<1> QED
  BY <1>2, <1>3, <1>5 DEF Packet

\* Sending is a step of a host, or none if the link is down.
LEMMA AppendIsSent ==
    ASSUME UsbOK, NEW c \in Packet, link # 0, toDev' = Append(toDev, c),
           UNCHANGED <<Device, link, links, fromDev>>
    PROVE  HostSends
<1>1. toDev \in Seq(Packet) /\ toDev' \in Seq(Packet) /\ Len(toDev') = Len(toDev) + 1
  BY AppendProperties DEF UsbOK
<1>2. SubSeq(toDev', 1, Len(toDev)) = toDev
  BY <1>1
<1> QED
  BY <1>1, <1>2 DEF HostSends, Device

LEMMA SendIsHost ==
    ASSUME UsbOK, NEW c \in Packet, Send(c), UNCHANGED Device
    PROVE  [BootNext]_bootvars
<1>1. CASE Connected
  BY <1>1, AppendIsSent DEF Send, Connected, BootNext
<1>2. CASE ~Connected
  BY <1>2 DEF Send, bootvars, Device, usb
<1> QED
  BY <1>1, <1>2

LEMMA SilenceIsHost ==
    ASSUME Silent, UNCHANGED Device
    PROVE  [BootNext]_bootvars
  BY DEF Silent, bootvars, Device

\* Each step of the system is a step of the boot ROM and its host, or leaves
\* them alone.
LEMMA EveryStepIsBootStep ==
    ASSUME TypeOK, PortInv, [Next]_vars
    PROVE  [BootNext]_bootvars
<1>0. UsbOK /\ ClientOK
  BY DEF TypeOK, BootTypeOK
<1> USE SimpleIsPacket
<1>1. ASSUME NEW bl \in BOOLEAN, NEW image \in Images, Run(bl, image) PROVE [BootNext]_bootvars
  BY <1>1 DEF Run
<1>2. CASE OpenProxmark
  <2>1. CASE fromDev = <<>>
    BY <1>2, <2>1 DEF OpenProxmark, bootvars, Device, usb
  <2>2. CASE fromDev # <<>>
    BY <1>2, <2>2 DEF OpenProxmark, BootNext, HostTakes, Device
  <2> QED
    BY <2>1, <2>2
<1>3. CASE OpenTimeout \/ SkipReply \/ AllWritten \/ Close \/ Kill
  BY <1>3 DEF OpenTimeout, SkipReply, AllWritten, Close, Kill
<1>4. CASE Receive
  BY <1>4 DEF Receive, BootNext, HostTakes, Device
<1>5. CASE AskState
  BY <1>0, <1>5, SendIsHost DEF AskState
<1>6. CASE EnterBootloader
  <2>1. UNCHANGED Device /\ (Silent \/ Send(StartFlashCmd(0, 0, FALSE)))
    BY <1>6 DEF EnterBootloader, Fails
  <2> QED
    BY <1>0, <2>1, SendIsHost, SilenceIsHost, StartFlashIsPacket
<1>7. CASE GotState
  <2>1. UNCHANGED Device /\ (Silent \/ Send(Simple("CHIP_INFO")))
    BY <1>7 DEF GotState, Fails
  <2> QED
    BY <1>0, <2>1, SendIsHost, SilenceIsHost
<1>8. CASE GotChipInfo
  BY <1>0, <1>8, SendIsHost DEF GotChipInfo
<1>9. CASE GotVersion
  <2> DEFINE start == IF job.bl THEN FLASH_START ELSE bootrom_end
  <2>1. start \in Nat /\ Address(max_allowed) \in Nat /\ job.bl \in BOOLEAN
    <3>1. max_allowed \in Nat
      BY <1>0, AddressIsNat, FlashAssumption DEF ClientOK, ProgressOK
    <3> QED
      BY <1>0, <3>1, AddressIsNat, FlashAssumption, PagesAreNat DEF ClientOK, JobOK
  <2>2. StartFlashCmd(start, Address(max_allowed), job.bl) \in Packet
    BY <2>1, StartFlashIsPacket
  <2> QED
    BY <1>0, <1>9, <2>2, SendIsHost DEF GotVersion
<1>10. CASE GotRange \/ FlashLoad \/ GotBlockReply
  BY <1>10, SilenceIsHost DEF GotRange, FlashLoad, GotBlockReply, Fails
<1>11. CASE WriteBlock
  <2>1. PICK b \in todo :
          Send([cmd |-> "FINISH_WRITE", addr |-> BlockAddress(b), data |-> job.id])
    BY <1>11 DEF WriteBlock
  <2>2. fpc # "idle" /\ UNCHANGED Device
    BY <1>11 DEF WriteBlock
  <2> QED
    BY <1>0, <2>1, <2>2, WriteIsPacket, SendIsHost
<1>12. CASE Stop
  BY <1>0, <1>12, SendIsHost DEF Stop
<1>13. CASE Interference
  BY <1>0, <1>13, AppendIsSent DEF Interference, BootNext
<1>14. CASE DeviceStep \/ Disturbance
  BY <1>3, <1>13, <1>14 DEF DeviceStep, Disturbance, BootNext
<1>15. CASE UNCHANGED vars
  BY <1>15 DEF vars
<1> QED
  BY <1>1, <1>2, <1>3, <1>4, <1>5, <1>6, <1>7, <1>8, <1>9, <1>10, <1>11, <1>12,
     <1>13, <1>14, <1>15 DEF Next, Flasher

(***************************************************************************)
(* The flasher's own state keeps its types.                                *)
(***************************************************************************)
LEMMA HistoryKept ==
    ASSUME HistoryOK, crowded' = crowded, disturbed' \in {disturbed, TRUE}
    PROVE  HistoryOK'
  BY Zenon DEF HistoryOK

LEMMA JobKept == JobOK /\ UNCHANGED job /\ todo' \subseteq todo => JobOK'
  BY DEF JobOK

LEMMA RepliesType ==
    ASSUME ClientOK, replies # <<>>, replies' = Tail(replies)
    PROVE  replies' \in Seq(Response) /\ Head(replies) \in Response
  BY HeadTailProperties DEF ClientOK

LEMMA ClientStep == ASSUME TypeOK, PortInv, [Next]_vars PROVE ClientOK' /\ PortInv'
<1>0. ClientOK /\ UsbOK
  BY DEF TypeOK, BootTypeOK
<1>a. ASSUME UNCHANGED <<job, history>>, todo' \subseteq todo, ProgressOK',
             replies' \in Seq(Response)
      PROVE  ClientOK'
  BY <1>0, <1>a, HistoryKept, JobKept DEF ClientOK, history
<1>1. ASSUME NEW bl \in BOOLEAN, NEW image \in Images, Run(bl, image)
      PROVE  ClientOK' /\ PortInv'
  <2>1. job.id \in 0 .. MaxRuns /\ job.id < MaxRuns /\ MaxRuns \in Nat
    BY <1>0, <1>1, RunsAssumption DEF Run, ClientOK, JobOK
  <2>2. job.id + 1 \in 0 .. MaxRuns /\ job.id + 1 # 0
    BY <2>1
  <2>3. job' = [id |-> job.id + 1, bl |-> bl, image |-> image] /\ todo' = image
    BY <1>1 DEF Run
  <2>4. JobOK'
    BY <2>2, <2>3 DEF JobOK
  <2>5. HistoryOK'
    <3>1. disturbed' = (toDev # <<>>) /\ crowded' = (Len(toDev) > 1)
      BY <1>1 DEF Run
    <3>2. disturbed' \in BOOLEAN
      BY <3>1
    <3>3. crowded' \in BOOLEAN
      BY <3>1
    <3> QED
      BY <3>2, <3>3 DEF HistoryOK
  <2>6. ProgressOK' /\ UNCHANGED replies
    BY <1>0, <1>1 DEF Run, ClientOK, ProgressOK
  <2>7. PortInv'
    BY <1>1, <2>2, <2>3 DEF Run, PortInv
  <2> QED
    BY <1>0, <2>4, <2>5, <2>6, <2>7 DEF ClientOK
<1>2. CASE OpenProxmark
  <2>1. ProgressOK' /\ PortInv'
    BY <1>0, <1>2 DEF OpenProxmark, ClientOK, ProgressOK, PortInv, UsbOK
  <2> QED
    BY <1>0, <1>2, <1>a, <2>1 DEF OpenProxmark, ClientOK
<1>3. CASE OpenTimeout
  <2>1. ProgressOK' /\ PortInv'
    BY <1>0, <1>3 DEF OpenTimeout, ClientOK, ProgressOK, PortInv
  <2> QED
    BY <1>0, <1>3, <1>a, <2>1 DEF OpenTimeout, ClientOK
<1>4. CASE Receive
  <2>1. Head(fromDev) \in Response
    BY <1>0, <1>4, HeadTailProperties DEF Receive, UsbOK
  <2>2. replies' \in Seq(Response)
    BY <1>0, <1>4, <2>1, AppendProperties DEF Receive, ClientOK
  <2>3. ProgressOK' /\ PortInv'
    BY <1>0, <1>4 DEF Receive, ClientOK, ProgressOK, PortInv, Connected
  <2> QED
    BY <1>4, <1>a, <2>2, <2>3 DEF Receive
<1>5. CASE AskState
  <2>1. ProgressOK' /\ PortInv'
    BY <1>0, <1>5 DEF AskState, ClientOK, ProgressOK, PortInv
  <2> QED
    BY <1>0, <1>5, <1>a, <2>1 DEF AskState, ClientOK
<1>6. CASE EnterBootloader \/ GotState \/ GotChipInfo \/ GotVersion \/ GotRange
  <2>1. replies # <<>> /\ replies' = Tail(replies) /\ fpc \notin {"idle", "open", "reopen"}
    BY <1>6 DEF EnterBootloader, GotState, GotChipInfo, GotVersion, GotRange, Takes
  <2>2. /\ UNCHANGED <<chip, job, todo, report, history>> /\ ret' \in {ret, "error"}
        /\ conn' \in {conn, 0} /\ max_allowed' \in {max_allowed, Half, chip}
        /\ fpc' \in {"reopen", "ask2", "chip", "version", "start", "load", "stop"}
        /\ fpc' = "reopen" => conn' = 0
    BY <1>6 DEF EnterBootloader, GotState, GotChipInfo, GotVersion, GotRange, Fails
  <2>3. PortInv'
    BY <2>1, <2>2 DEF PortInv
  <2>4. conn' \in Nat
    <3>1. conn \in Nat
      BY <1>0 DEF ClientOK, ProgressOK
    <3>2. conn' = conn \/ conn' = 0
      BY <2>2, Zenon
    <3> QED
      BY <3>1, <3>2
  <2>5. ProgressOK'
    BY <1>0, <2>2, <2>4 DEF ClientOK, ProgressOK
  <2> QED
    BY <1>0, <1>a, <2>1, <2>2, <2>3, <2>5, RepliesType
<1>7. CASE SkipReply
  <2>1. replies # <<>> /\ replies' = Tail(replies) /\ fpc \in {"chip", "version"}
    BY <1>7 DEF SkipReply, Takes
  <2>2. ProgressOK' /\ PortInv'
    BY <1>0, <1>7, <2>1 DEF SkipReply, ClientOK, ProgressOK, PortInv
  <2> QED
    BY <1>0, <1>7, <1>a, <2>1, <2>2, RepliesType DEF SkipReply
<1>8. CASE FlashLoad \/ WriteBlock \/ AllWritten \/ Stop
  <2>1. /\ UNCHANGED <<chip, conn, replies, job, max_allowed, todo, report, history>>
        /\ ret' \in {ret, "error", "PM3_SUCCESS"}
        /\ fpc \in {"load", "write", "stop"} /\ fpc' \in {"write", "stop", "ack", "close"}
    BY <1>8 DEF FlashLoad, WriteBlock, AllWritten, Stop, Fails
  <2>2. ProgressOK' /\ PortInv'
    BY <1>0, <2>1 DEF ClientOK, ProgressOK, PortInv
  <2> QED
    BY <1>0, <1>a, <2>1, <2>2 DEF ClientOK
<1>9. CASE GotBlockReply
  <2>1. replies # <<>> /\ replies' = Tail(replies) /\ fpc = "ack"
    BY <1>9 DEF GotBlockReply, Takes
  <2>2. /\ UNCHANGED <<chip, conn, job, max_allowed, report, history>>
        /\ ret' \in {ret, "error"} /\ fpc' \in {"write", "stop"} /\ todo' \subseteq todo
    BY <1>9 DEF GotBlockReply, Fails
  <2>3. ProgressOK' /\ PortInv'
    BY <1>0, <2>1, <2>2 DEF ClientOK, ProgressOK, PortInv
  <2> QED
    BY <1>0, <1>a, <2>1, <2>2, <2>3, RepliesType
<1>10. CASE Close \/ Kill
  <2>1. /\ fpc' = "idle" /\ conn' = 0 /\ replies' = <<>> /\ max_allowed' = Half
        /\ UNCHANGED <<chip, job, todo, ret, crowded>>
        /\ report' \in {report, "All done", "Aborted on error"}
        /\ disturbed' \in {disturbed, TRUE}
    BY <1>10 DEF Close, Kill, Ends, history
  <2>2. ProgressOK' /\ PortInv'
    BY <1>0, <2>1 DEF ClientOK, ProgressOK, PortInv
  <2>3. replies' \in Seq(Response)
    <3>1. <<>> \in Seq(Response)
      OBVIOUS
    <3> QED
      BY <2>1, <3>1
  <2> QED
    BY <1>0, <2>1, <2>2, <2>3, HistoryKept, JobKept DEF ClientOK
<1>11. CASE UNCHANGED <<client, crowded>> /\ disturbed' \in {disturbed, TRUE}
  <2>1. ProgressOK' /\ PortInv'
    BY <1>0, <1>11 DEF ClientOK, ProgressOK, PortInv, client
  <2> QED
    BY <1>0, <1>11, <2>1, HistoryKept, JobKept DEF ClientOK, client
<1>12. CASE Interference \/ DeviceStep \/ UNCHANGED vars
  BY <1>11, <1>12 DEF Interference, DeviceStep, vars, history
<1>13. CASE Disturbance
  BY <1>10, <1>11, <1>12, <1>13 DEF Disturbance, history
<1> QED
  BY <1>1, <1>2, <1>3, <1>4, <1>5, <1>6, <1>7, <1>8, <1>9, <1>10, <1>12, <1>13
     DEF Next, Flasher

LEMMA FlashingInit == Init => TypeOK /\ PortInv
<1> SUFFICES ASSUME Init PROVE TypeOK /\ PortInv
  OBVIOUS
<1>1. JobOK
  <2>1. 0 \in 0 .. MaxRuns
    BY RunsAssumption
  <2> QED
    BY <2>1 DEF Init, JobOK
<1>2. ProgressOK
  BY DEF Init, ProgressOK
<1>3. HistoryOK
  BY Zenon DEF Init, HistoryOK
<1>4. replies \in Seq(Response)
  <2>1. <<>> \in Seq(Response)
    OBVIOUS
  <2> QED
    BY <2>1 DEF Init
<1> QED
  BY <1>1, <1>2, <1>3, <1>4, TypeInit DEF Init, TypeOK, ClientOK, PortInv

LEMMA FlashingStep ==
    ASSUME TypeOK, PortInv, [Next]_vars
    PROVE  TypeOK' /\ PortInv' /\ [BootNext]_bootvars
  BY EveryStepIsBootStep, ClientStep, BootStepType, WorldStepType, StutterType
     DEF BootNext, TypeOK

(***************************************************************************)
(* Type correctness of the flasher and the device together.                *)
(***************************************************************************)
THEOREM FlashingTypeCorrect == Spec => [](TypeOK /\ PortInv)
  BY FlashingInit, FlashingStep, PTL DEF Spec

(***************************************************************************)
(* The flasher acts on the device as any host does, by packets on a link   *)
(* that is up and by taking replies: all that is proved of the boot ROM    *)
(* with an arbitrary host holds under the flasher.                         *)
(***************************************************************************)
THEOREM FlasherRefinesHost == Spec => FlasherIsAHost
<1>1. Init => BootInit
  BY DEF Init
<1>2. TypeOK /\ PortInv /\ [Next]_vars => [BootNext]_bootvars
  BY FlashingStep
<1> QED
  BY <1>1, <1>2, FlashingTypeCorrect, PTL DEF Spec, FlasherIsAHost, BootSpec

(***************************************************************************)
(* So, with the flasher at work, no page of the boot ROM is touched before *)
(* a range that may hold it was granted.                                   *)
(***************************************************************************)
THEOREM FlasherKeepsBootrom == Spec => []BootromLocked
  BY FlasherRefinesHost, BootromStaysLocked, PTL DEF FlasherIsAHost

(***************************************************************************)
(* And every reset ends where it was meant to: a handover in flash mode,   *)
(* the reset after flashing in the firmware.                               *)
(***************************************************************************)
THEOREM FlasherResetsFollowed == Spec => ResetGoesWhereMeant
  BY FlasherRefinesHost, ResetsAreFollowed, PTL DEF FlasherIsAHost

(***************************************************************************)
(* And the flasher's blocks, too, are written only under a range that was  *)
(* granted on the link they came by, also when a killed run left a range.  *)
(***************************************************************************)
THEOREM FlasherWritesNeedAGrant == Spec => WritesUnderCurrentRange
  BY FlasherRefinesHost, WritesNeedAGrant, PTL DEF FlasherIsAHost

-----------------------------------------------------------------------------
(***************************************************************************)
(* Acknowledged blocks.  wait_for_ack takes any reply, so what matters is  *)
(* how many acknowledgements can be under way: ACKs among the replies      *)
(* received or on the link, and packets on the link that the boot ROM      *)
(* answers with one.                                                       *)
(***************************************************************************)
Acks == {"ACK"}
Sources == {"START_FLASH", "FINISH_WRITE"}

\* The sequence s has none of the commands K; none after its first element;
\* at most one.
None(s, K) == \A i \in 1 .. Len(s) : s[i].cmd \notin K
AfterFirst(s, K) == \A i \in 2 .. Len(s) : s[i].cmd \notin K
One(s, K) == \A i, j \in 1 .. Len(s) : s[i].cmd \in K /\ s[j].cmd \in K => i = j

\* No acknowledgement is under way; only what will be taken next may be one;
\* there is at most one.
Clean == None(replies, Acks) /\ None(fromDev, Acks) /\ None(toDev, Sources)

OnlyFirst ==
    /\ AfterFirst(replies, Acks) /\ AfterFirst(fromDev, Acks) /\ AfterFirst(toDev, Sources)
    /\ replies # <<>> => None(fromDev, Acks)
    /\ replies # <<>> \/ fromDev # <<>> => None(toDev, Sources)

OnlyOne ==
    /\ One(replies, Acks) /\ One(fromDev, Acks) /\ One(toDev, Sources)
    /\ None(replies, Acks) \/ None(fromDev, Acks)
    /\ None(replies, Acks) \/ None(toDev, Sources)
    /\ None(fromDev, Acks) \/ None(toDev, Sources)

(***************************************************************************)
(* The one packet an earlier run may have left is the first to be          *)
(* answered, and its answer is taken by the first look at the state; from  *)
(* then on acknowledgements are the answers to this run's own requests,    *)
(* one at a time.                                                          *)
(***************************************************************************)
StreamInv ==
    /\ fpc = "open" => AfterFirst(toDev, Sources)
    /\ fpc \in {"ask", "info"} => OnlyFirst
    /\ fpc = "reopen" => None(replies, Acks)
    /\ fpc \in {"ask2", "info2", "chip", "version", "load", "write"} => Clean
    /\ fpc \in {"start", "ack"} => OnlyOne

IsFirst(b) == b \in todo /\ \A d \in todo : b <= d
WriteOf(b) == [cmd |-> "FINISH_WRITE", addr |-> BlockAddress(b), data |-> job.id]
Written(b) == \A a \in PagesOf(b) : a \in PageAddress /\ flash[a] = job.id

(***************************************************************************)
(* While the flasher waits for a block to be acknowledged, the request on  *)
(* the link is the one for that block; once a block has been acknowledged, *)
(* the only requests to write are for blocks that have not, and all blocks *)
(* lie in the flash memory.                                                *)
(***************************************************************************)
RequestsInv ==
    /\ fpc \in {"write", "ack"} => Loadable
    /\ fpc = "ack" => \A i \in 1 .. Len(toDev) : toDev[i].cmd \in Sources
                        => \E b \in todo : IsFirst(b) /\ toDev[i] = WriteOf(b)
    /\ todo # job.image => \A i \in 1 .. Len(toDev) : toDev[i].cmd = "FINISH_WRITE"
                        => \E b \in todo : toDev[i] = WriteOf(b)
    /\ todo # job.image => \A b \in todo : PagesOf(b) \subseteq PageAddress

(***************************************************************************)
(* Acknowledged blocks are written, and so is the one whose ACK is under   *)
(* way.                                                                    *)
(***************************************************************************)
BlocksInv ==
    /\ \A b \in job.image \ todo : Written(b)
    /\ fpc = "ack" /\ ~(None(replies, Acks) /\ None(fromDev, Acks))
         => \A b \in todo : IsFirst(b) => Written(b)

FlashInv == ~crowded => StreamInv /\ RequestsInv /\ BlocksInv

-----------------------------------------------------------------------------
(* Sequences *)

LEMMA NoneIsLess ==
    ASSUME NEW s, NEW K, None(s, K)
    PROVE  One(s, K) /\ AfterFirst(s, K)
<1>1. One(s, K)
  BY DEF None, One
<1>2. AfterFirst(s, K)
  <2>1. \A i \in 2 .. Len(s) : i \in 1 .. Len(s)
    OBVIOUS
  <2> QED
    BY <2>1 DEF None, AfterFirst
<1> QED
  BY <1>1, <1>2

LEMMA EmptyHasNone == \A K : None(<<>>, K) /\ One(<<>>, K) /\ AfterFirst(<<>>, K)
  BY DEF None, One, AfterFirst

LEMMA TailKeeps ==
    ASSUME NEW S, NEW s \in Seq(S), s # <<>>, NEW K
    PROVE  /\ None(s, K) => None(Tail(s), K) /\ Head(s).cmd \notin K
           /\ AfterFirst(s, K) => None(Tail(s), K)
           /\ One(s, K) => One(Tail(s), K)
           /\ One(s, K) /\ Head(s).cmd \in K => None(Tail(s), K)
<1> DEFINE t == Tail(s)
<1>1. /\ Len(s) \in Nat /\ Len(t) = Len(s) - 1 /\ 1 \in 1 .. Len(s) /\ Head(s) = s[1]
      /\ \A i \in 1 .. Len(t) : i + 1 \in 2 .. Len(s) /\ i + 1 \in 1 .. Len(s) /\ t[i] = s[i + 1]
  BY HeadTailProperties
<1> HIDE DEF t
<1>2. None(s, K) => None(t, K) /\ Head(s).cmd \notin K
  BY <1>1 DEF None
<1>3. AfterFirst(s, K) => None(t, K)
  BY <1>1 DEF None, AfterFirst
<1>4. ASSUME One(s, K), NEW i \in 1 .. Len(t), NEW j \in 1 .. Len(t), t[i].cmd \in K, t[j].cmd \in K
      PROVE  i = j
  <2>1. i + 1 = j + 1
    BY <1>1, <1>4 DEF One
  <2> QED
    BY <2>1
<1>5. ASSUME One(s, K), Head(s).cmd \in K, NEW i \in 1 .. Len(t) PROVE t[i].cmd \notin K
  <2>1. t[i].cmd \in K => i + 1 = 1
    BY <1>1, <1>5 DEF One
  <2> QED
    BY <2>1
<1> QED
  BY <1>2, <1>3, <1>4, <1>5 DEF One, None, t

LEMMA ConcatKeeps ==
    ASSUME NEW S, NEW s \in Seq(S), NEW r \in Seq(S), NEW K
    PROVE  /\ None(s, K) /\ None(r, K) => None(s \o r, K)
           /\ None(s, K) /\ Len(r) <= 1 => One(s \o r, K)
           /\ One(s, K) /\ None(r, K) => One(s \o r, K)
           /\ s = <<>> /\ Len(r) <= 1 => AfterFirst(s \o r, K)
           /\ AfterFirst(s, K) /\ None(r, K) => AfterFirst(s \o r, K)
<1> DEFINE t == s \o r
<1>1. /\ Len(s) \in Nat /\ Len(r) \in Nat /\ Len(t) = Len(s) + Len(r)
      /\ \A i \in 1 .. Len(s) : t[i] = s[i]
      /\ \A i \in 1 .. Len(t) : i \in 1 .. Len(s)
            \/ (i > Len(s) /\ i - Len(s) \in 1 .. Len(r) /\ t[i] = r[i - Len(s)])
  OBVIOUS
<1> HIDE DEF t
<1>2. None(s, K) /\ None(r, K) => None(t, K)
  BY <1>1 DEF None
<1>3. None(s, K) /\ Len(r) <= 1 => One(t, K)
  <2> SUFFICES ASSUME None(s, K), Len(r) <= 1, NEW i \in 1 .. Len(t), NEW j \in 1 .. Len(t),
                      t[i].cmd \in K, t[j].cmd \in K
               PROVE  i = j
    BY DEF One
  <2>1. i \notin 1 .. Len(s) /\ j \notin 1 .. Len(s)
    BY <1>1 DEF None
  <2> QED
    BY <1>1, <2>1
<1>4. One(s, K) /\ None(r, K) => One(t, K)
  <2> SUFFICES ASSUME One(s, K), None(r, K), NEW i \in 1 .. Len(t), NEW j \in 1 .. Len(t),
                      t[i].cmd \in K, t[j].cmd \in K
               PROVE  i = j
    BY DEF One
  <2>1. i \in 1 .. Len(s) /\ j \in 1 .. Len(s)
    BY <1>1 DEF None
  <2> QED
    BY <1>1, <2>1 DEF One
<1>5. s = <<>> /\ Len(r) <= 1 => AfterFirst(t, K)
  BY <1>1 DEF AfterFirst
<1>6. AfterFirst(s, K) /\ None(r, K) => AfterFirst(t, K)
  <2> SUFFICES ASSUME AfterFirst(s, K), None(r, K), NEW i \in 2 .. Len(t)
               PROVE  t[i].cmd \notin K
    BY DEF AfterFirst
  <2>1. i \in 1 .. Len(t) /\ (i \in 1 .. Len(s) => i \in 2 .. Len(s))
    BY <1>1
  <2> QED
    BY <1>1, <2>1 DEF AfterFirst, None
<1> QED
  BY <1>2, <1>3, <1>4, <1>5, <1>6 DEF t

LEMMA AppendKeeps ==
    ASSUME NEW S, NEW s \in Seq(S), NEW m \in S, NEW K
    PROVE  /\ None(s, K) /\ m.cmd \notin K => None(Append(s, m), K)
           /\ None(s, K) => One(Append(s, m), K)
           /\ One(s, K) /\ m.cmd \notin K => One(Append(s, m), K)
           /\ s = <<>> => AfterFirst(Append(s, m), K)
           /\ AfterFirst(s, K) /\ m.cmd \notin K => AfterFirst(Append(s, m), K)
<1> DEFINE r == <<m>>
<1>1. r \in Seq(S) /\ Len(r) = 1 /\ Len(r) <= 1 /\ r[1] = m /\ Append(s, m) = s \o r
  BY AppendIsConcat
<1> HIDE DEF r
<1>2. m.cmd \notin K => None(r, K)
  BY <1>1 DEF None
<1>3. /\ None(s, K) /\ None(r, K) => None(s \o r, K)
      /\ None(s, K) /\ Len(r) <= 1 => One(s \o r, K)
      /\ One(s, K) /\ None(r, K) => One(s \o r, K)
      /\ s = <<>> /\ Len(r) <= 1 => AfterFirst(s \o r, K)
      /\ AfterFirst(s, K) /\ None(r, K) => AfterFirst(s \o r, K)
  BY <1>1, ConcatKeeps
<1> QED
  BY <1>1, <1>2, <1>3, Zenon


-----------------------------------------------------------------------------
(* The layout of the blocks *)

LEMMA PagesApart ==
    ASSUME NEW b \in Nat, NEW d \in Nat, b # d
    PROVE  PagesOf(b) \cap PagesOf(d) = {}
<1>1. FLASH_START \in Nat /\ PAGE \in Nat /\ PAGE > 0
  BY FlashAssumption
<1>2. \A m, n \in Nat : m < n => /\ 2 * PAGE * m \in Nat /\ 2 * PAGE * n \in Nat
                                 /\ 2 * PAGE * m + 2 * PAGE <= 2 * PAGE * n
  <2> SUFFICES ASSUME NEW m \in Nat, NEW n \in Nat, m < n
               PROVE  /\ 2 * PAGE * m \in Nat /\ 2 * PAGE * n \in Nat
                      /\ 2 * PAGE * m + 2 * PAGE <= 2 * PAGE * n
    OBVIOUS
  <2>1. PICK k \in Nat : n = m + 1 + k
    <3>1. n - m - 1 \in Nat /\ n = m + 1 + (n - m - 1)
      OBVIOUS
    <3> QED
      BY <3>1
  <2>2. /\ PAGE * m \in Nat /\ PAGE * k \in Nat /\ PAGE * n = PAGE * m + PAGE + PAGE * k
        /\ 2 * PAGE * m = 2 * (PAGE * m) /\ 2 * PAGE * n = 2 * (PAGE * n)
    BY <1>1, <2>1
  <2> QED
    BY <1>1, <2>2
<1>3. b < d \/ d < b
  OBVIOUS
<1> QED
  BY <1>1, <1>2, <1>3 DEF PagesOf, BlockAddress

LEMMA LoadablePages ==
    ASSUME ClientOK, Loadable, NEW b \in job.image
    PROVE  b \in Nat /\ PagesOf(b) \subseteq PageAddress
<1>1. /\ FLASH_START \in Nat /\ PAGE \in Nat /\ PAGE > 0 /\ FLASH_PAGES \in Nat
      /\ b \in Nat /\ max_allowed \in Nat /\ max_allowed <= FLASH_PAGES
  <2>1. FLASH_START \in Nat /\ PAGE \in Nat /\ PAGE > 0 /\ FLASH_PAGES \in Nat
    BY FlashAssumption
  <2>2. b \in Nat
    BY RunsAssumption DEF ClientOK, JobOK
  <2>3. max_allowed = Half \/ max_allowed = FLASH_PAGES
    BY DEF ClientOK, ProgressOK
  <2>4. Half \in Nat /\ Half <= FLASH_PAGES
    BY <2>1, AddressIsNat
  <2> QED
    BY <2>1, <2>2, <2>3, <2>4
<1>2. FLASH_START + 2 * PAGE * (b + 1) <= FLASH_START + PAGE * max_allowed
  BY DEF Loadable, BlockAddress, Address
<1>3. 2 * PAGE * (b + 1) = PAGE * (2 * b + 2) /\ PAGE * (2 * b + 2) \in Nat /\ PAGE * max_allowed \in Nat
  BY <1>1
<1>4. PAGE * (2 * b + 2) <= PAGE * max_allowed
  BY <1>1, <1>2, <1>3
<1>5. 2 * b + 2 <= max_allowed
  <2> SUFFICES ASSUME max_allowed < 2 * b + 2 PROVE FALSE
    BY <1>1
  <2>1. PICK k \in Nat : 2 * b + 2 = max_allowed + 1 + k
    <3>1. /\ 2 * b + 2 - max_allowed - 1 \in Nat
          /\ 2 * b + 2 = max_allowed + 1 + (2 * b + 2 - max_allowed - 1)
      BY <1>1
    <3> QED
      BY <3>1
  <2>2. PAGE * (2 * b + 2) = PAGE * max_allowed + PAGE + PAGE * k /\ PAGE * k \in Nat
    BY <1>1, <2>1
  <2> QED
    BY <1>1, <1>3, <1>4, <2>2
<1>6. 2 * b \in 0 .. FLASH_PAGES - 1 /\ 2 * b + 1 \in 0 .. FLASH_PAGES - 1
  BY <1>1, <1>5
<1>7. BlockAddress(b) = Address(2 * b) /\ BlockAddress(b) + PAGE = Address(2 * b + 1)
  <2>1. PAGE * (2 * b + 1) = PAGE * (2 * b) + PAGE /\ PAGE * (2 * b) \in Nat
    BY <1>1
  <2> QED
    BY <1>1, <2>1, AddressIsNat DEF Address
<1> QED
  BY <1>1, <1>6, <1>7 DEF PagesOf, PageAddress

-----------------------------------------------------------------------------
(* What the device does to the link and to the flash memory *)

\* Nothing; all is wiped by a reset, a page perhaps torn; or the packet at the
\* head is answered, by an ACK only if it is a request and has been done.
QuietStep == UNCHANGED <<toDev, fromDev, flash>>

\* The pages that are programmed for a block.
Hit(c) == {PageOf(d) : d \in BlockPages(c)}

WipedStep ==
    /\ toDev' = <<>> /\ fromDev' = <<>>
    /\ \/ UNCHANGED flash
       \/ /\ toDev # <<>> /\ Head(toDev).cmd = "FINISH_WRITE"
          /\ \A a \in PageAddress \ Hit(Head(toDev)) : flash'[a] = flash[a]

AnsweredStep(rs) ==
    /\ toDev # <<>> /\ toDev' = Tail(toDev) /\ fromDev' = fromDev \o rs
    /\ None(rs, Acks) \/ (Len(rs) <= 1 /\ Head(toDev).cmd \in Sources)
    /\ \/ UNCHANGED flash /\ (Head(toDev).cmd = "FINISH_WRITE" => None(rs, Acks))
       \/ /\ Head(toDev).cmd = "FINISH_WRITE"
          /\ \A a \in PageAddress : flash'[a] \in {flash[a], Head(toDev).data}
          /\ ~None(rs, Acks) =>
               \A a \in PageAddress \cap Hit(Head(toDev)) : flash'[a] = Head(toDev).data

DeviceEffect == QuietStep \/ WipedStep \/ \E rs \in Seq(Response) : AnsweredStep(rs)

LEMMA OneReply ==
    \A c \in {"DEVICE_INFO", "CHIP_INFO", "BL_VERSION", "NACK"}, m \in {"flash", "os"} :
        /\ <<[cmd |-> c, mode |-> m]>> \in Seq(Response)
        /\ None(<<[cmd |-> c, mode |-> m]>>, Acks)
  BY DEF Response, None, Acks

LEMMA WriteRepliesAcks ==
    ASSUME NEW n \in Nat
    PROVE  IF n = 0 THEN Len(WriteReplies(n)) = 1 ELSE None(WriteReplies(n), Acks)
<1>1. CASE n = 0
  BY <1>1 DEF WriteReplies
<1>2. CASE n # 0
  <2>1. WriteReplies(n) = [i \in 1 .. n |-> Reply("NACK")]
    BY <1>2 DEF WriteReplies
  <2>2. Len([i \in 1 .. n |-> Reply("NACK")]) = n
    OBVIOUS
  <2> QED
    BY <1>2, <2>1, <2>2 DEF None, Acks, Reply
<1> QED
  BY <1>1, <1>2

LEMMA StepHasEffect ==
    ASSUME BootTypeOK, BootDevice \/ ButtonLeaves \/ PowerCycle \/ ToggleButton
    PROVE  DeviceEffect
<1> USE DEF DeviceEffect
<1>0. UsbOK /\ MemoryOK
  BY DEF BootTypeOK
<1>1. CASE EnterFlashMode \/ JumpToOs \/ UnknownPacket \/ ButtonSeenUp \/ ToggleButton
  BY <1>1 DEF EnterFlashMode, JumpToOs, UnknownPacket, ButtonSeenUp, ToggleButton,
              LinkUp, QuietStep, usb
<1>2. CASE HardwareReset \/ Watchdog \/ ButtonLeaves \/ OsStartFlash \/ OsReset
  BY <1>2 DEF HardwareReset, Watchdog, ButtonLeaves, OsStartFlash, OsReset, Reset, WipedStep
<1>3. CASE PowerCycle
  <2>1. CASE UNCHANGED flash
    BY <1>3, <2>1 DEF PowerCycle, WipedStep
  <2>2. CASE ~UNCHANGED flash
    <3>1. Received("FINISH_WRITE") /\ \A a \in PageAddress \ Hit(Head(toDev)) : flash'[a] = flash[a]
      BY <1>3, <2>2 DEF PowerCycle, Programmable, Hit
    <3> QED
      BY <1>3, <3>1 DEF PowerCycle, WipedStep, Received
  <2> QED
    BY <2>1, <2>2
<1>4. CASE Identify
  <2>1. PICK c \in {"DEVICE_INFO", "CHIP_INFO", "BL_VERSION"} :
          Received(c) /\ Answers(<<Reply(c)>>)
    BY <1>4 DEF Identify
  <2>2. <<Reply(c)>> \in Seq(Response) /\ None(<<Reply(c)>>, Acks)
    BY OneReply DEF Reply
  <2>3. AnsweredStep(<<Reply(c)>>)
    BY <1>4, <2>1, <2>2 DEF Identify, Answers, AnsweredStep, Received
  <2> QED
    BY <2>2, <2>3
<1>5. CASE StartFlash
  <2>1. PICK c \in {"ACK", "NACK"} : Answers(<<Reply(c)>>)
    BY <1>5 DEF StartFlash
  <2>2. <<Reply(c)>> \in Seq(Response) /\ Len(<<Reply(c)>>) <= 1
    BY ReplyType
  <2>3. AnsweredStep(<<Reply(c)>>)
    BY <1>5, <2>1, <2>2 DEF StartFlash, Answers, AnsweredStep, Received, Sources
  <2> QED
    BY <2>2, <2>3
<1>6. CASE FinishWrite
  <2> DEFINE c == Head(toDev)
  <2>1. PICK done \in SUBSET Programmable(c) :
          /\ flash' = [a \in PageAddress |-> IF \E d \in done : PageOf(d) = a THEN c.data ELSE flash[a]]
          /\ Answers(WriteReplies(Cardinality(BlockPages(c) \ done)))
    BY <1>6 DEF FinishWrite
  <2> DEFINE n == Cardinality(BlockPages(c) \ done)
  <2>2. n \in Nat
    BY LeftOverIsNat
  <2>3. WriteReplies(n) \in Seq(Response)
    BY <2>2, WriteRepliesType
  <2>4. n = 0 => BlockPages(c) \subseteq done
    <3>1. IsFiniteSet(BlockPages(c) \ done)
      <4>1. IsFiniteSet({Unsigned(c.addr)} \cup {Unsigned(c.addr + PAGE)})
        BY FS_Singleton, FS_Union
      <4>2. {Unsigned(c.addr)} \cup {Unsigned(c.addr + PAGE)} = BlockPages(c)
        BY DEF BlockPages
      <4> QED
        BY <4>1, <4>2, FS_Subset
    <3>2. n = 0 => BlockPages(c) \ done = {}
      BY <3>1, FS_EmptySet
    <3> QED
      BY <3>2
  <2>5. ~None(WriteReplies(n), Acks) => n = 0
    BY <2>2, WriteRepliesAcks
  <2>6. None(WriteReplies(n), Acks) \/ Len(WriteReplies(n)) <= 1
    <3>1. n = 0 => Len(WriteReplies(n)) = 1
      BY <2>2, WriteRepliesAcks
    <3>2. \A k : k = 1 => k <= 1
      OBVIOUS
    <3> HIDE DEF n
    <3> QED
      BY <2>5, <3>1, <3>2, Zenon
  <2>7. \A a \in PageAddress : flash'[a] \in {flash[a], c.data}
    BY <2>1
  <2>8. ~None(WriteReplies(n), Acks) =>
          \A a \in PageAddress \cap Hit(c) : flash'[a] = c.data
    BY <2>1, <2>4, <2>5 DEF Hit
  <2>9. c.cmd = "FINISH_WRITE" /\ toDev # <<>>
    BY <1>6 DEF FinishWrite, Received
  <2>10. toDev' = Tail(toDev) /\ fromDev' = fromDev \o WriteReplies(n)
    BY <2>1 DEF Answers
  <2> HIDE DEF n, c
  <2>11. AnsweredStep(WriteReplies(n))
    BY <2>6, <2>7, <2>8, <2>9, <2>10 DEF AnsweredStep, Sources, c
  <2> QED
    BY <2>3, <2>11
<1>7. CASE OsDeviceInfo
  <2> DEFINE rs == <<[cmd |-> "DEVICE_INFO", mode |-> "os"]>>
  <2>1. rs \in Seq(Response) /\ None(rs, Acks)
    BY OneReply
  <2>2. AnsweredStep(rs)
    BY <1>7, <2>1 DEF OsDeviceInfo, Answers, AnsweredStep, Received
  <2> QED
    BY <2>1, <2>2
<1>8. CASE OsOther
  <2>1. <<>> \in Seq(Response) /\ None(<<>>, Acks)
    BY EmptyHasNone
  <2>2. AnsweredStep(<<>>)
    BY <1>8, <2>1 DEF OsOther, Answers, AnsweredStep, Received
  <2> QED
    BY <2>1, <2>2
<1> QED
  BY <1>1, <1>2, <1>3, <1>4, <1>5, <1>6, <1>7, <1>8 DEF BootDevice


-----------------------------------------------------------------------------
(* Acknowledgements under way *)

(***************************************************************************)
(* No step of the device makes more acknowledgements of what was there.    *)
(***************************************************************************)
LEMMA DeviceKeepsStream ==
    ASSUME TypeOK, DeviceEffect, UNCHANGED replies
    PROVE  /\ AfterFirst(toDev, Sources) => AfterFirst(toDev', Sources)
           /\ Clean => Clean'
           /\ OnlyFirst => OnlyFirst'
           /\ OnlyOne => OnlyOne'
<1>0. /\ toDev \in Seq(Packet) /\ fromDev \in Seq(Response) /\ replies \in Seq(Response)
  BY DEF TypeOK, BootTypeOK, UsbOK, ClientOK
<1>1. CASE QuietStep
  BY <1>1 DEF QuietStep, Clean, OnlyFirst, OnlyOne
<1>2. CASE WipedStep
  BY <1>2, EmptyHasNone DEF WipedStep, Clean, OnlyFirst, OnlyOne
<1>3. ASSUME NEW rs \in Seq(Response), AnsweredStep(rs)
      PROVE  /\ AfterFirst(toDev, Sources) => AfterFirst(toDev', Sources)
             /\ Clean => Clean'
             /\ OnlyFirst => OnlyFirst'
             /\ OnlyOne => OnlyOne'
  <2>1. toDev # <<>> /\ toDev' = Tail(toDev) /\ fromDev' = fromDev \o rs
    BY <1>3 DEF AnsweredStep
  <2>2. None(rs, Acks) \/ (Len(rs) <= 1 /\ Head(toDev).cmd \in Sources)
    BY <1>3 DEF AnsweredStep
  <2>3. /\ None(toDev, Sources) => None(toDev', Sources) /\ Head(toDev).cmd \notin Sources
        /\ AfterFirst(toDev, Sources) => None(toDev', Sources)
        /\ One(toDev, Sources) => One(toDev', Sources)
        /\ One(toDev, Sources) /\ Head(toDev).cmd \in Sources => None(toDev', Sources)
    BY <1>0, <2>1, TailKeeps
  <2>4. None(toDev', Sources) => AfterFirst(toDev', Sources) /\ One(toDev', Sources)
    BY NoneIsLess
  <2>5. /\ None(fromDev, Acks) /\ None(rs, Acks) => None(fromDev', Acks)
        /\ None(fromDev, Acks) /\ Len(rs) <= 1 => One(fromDev', Acks)
        /\ One(fromDev, Acks) /\ None(rs, Acks) => One(fromDev', Acks)
        /\ fromDev = <<>> /\ Len(rs) <= 1 => AfterFirst(fromDev', Acks)
        /\ AfterFirst(fromDev, Acks) /\ None(rs, Acks) => AfterFirst(fromDev', Acks)
    BY <1>0, <1>3, <2>1, ConcatKeeps
  <2>6. Clean => Clean'
    BY <2>2, <2>3, <2>5 DEF Clean
  <2>7. OnlyFirst => OnlyFirst'
    <3> SUFFICES ASSUME OnlyFirst PROVE OnlyFirst'
      OBVIOUS
    <3>1. CASE None(rs, Acks)
      BY <2>3, <2>4, <2>5, <3>1 DEF OnlyFirst
    <3>2. CASE Len(rs) <= 1 /\ Head(toDev).cmd \in Sources
      <4>1. replies = <<>> /\ fromDev = <<>>
        BY <2>3, <3>2 DEF OnlyFirst
      <4> QED
        BY <2>3, <2>4, <2>5, <3>2, <4>1 DEF OnlyFirst
    <3> QED
      BY <2>2, <3>1, <3>2
  <2>8. OnlyOne => OnlyOne'
    <3> SUFFICES ASSUME OnlyOne PROVE OnlyOne'
      OBVIOUS
    <3>1. CASE None(rs, Acks)
      BY <2>3, <2>5, <3>1 DEF OnlyOne
    <3>2. CASE Len(rs) <= 1 /\ Head(toDev).cmd \in Sources
      <4>1. None(replies, Acks) /\ None(fromDev, Acks) /\ None(toDev', Sources)
        BY <2>3, <3>2 DEF OnlyOne
      <4> QED
        BY <2>3, <2>5, <3>2, <4>1 DEF OnlyOne
    <3> QED
      BY <2>2, <3>1, <3>2
  <2> QED
    BY <2>3, <2>4, <2>6, <2>7, <2>8
<1> QED
  BY <1>1, <1>2, <1>3 DEF DeviceEffect

(***************************************************************************)
(* Nor does receiving a reply.                                             *)
(***************************************************************************)
LEMMA ReceiveKeepsStream ==
    ASSUME TypeOK, Receive
    PROVE  /\ Clean => Clean'
           /\ OnlyFirst => OnlyFirst'
           /\ OnlyOne => OnlyOne'
           /\ OnlyOne /\ None(replies, Acks) /\ None(fromDev, Acks)
                => None(replies', Acks) /\ None(fromDev', Acks)
<1> DEFINE m == Head(fromDev)
<1>0. /\ fromDev \in Seq(Response) /\ replies \in Seq(Response) /\ fromDev # <<>>
      /\ m \in Response /\ fromDev' = Tail(fromDev) /\ replies' = Append(replies, m)
      /\ UNCHANGED toDev /\ replies' # <<>>
  <2>1. fromDev \in Seq(Response) /\ replies \in Seq(Response) /\ fromDev # <<>>
    BY DEF TypeOK, BootTypeOK, UsbOK, ClientOK, Receive
  <2>2. m \in Response
    BY <2>1, HeadTailProperties
  <2>3. Append(replies, m) # <<>>
    BY <2>1, <2>2, AppendProperties
  <2> QED
    BY <2>1, <2>2, <2>3 DEF Receive
<1>1. /\ None(fromDev, Acks) => None(fromDev', Acks) /\ m.cmd \notin Acks
      /\ AfterFirst(fromDev, Acks) => None(fromDev', Acks)
      /\ One(fromDev, Acks) => One(fromDev', Acks)
      /\ One(fromDev, Acks) /\ m.cmd \in Acks => None(fromDev', Acks)
  BY <1>0, TailKeeps
<1>2. /\ None(replies, Acks) /\ m.cmd \notin Acks => None(replies', Acks)
      /\ None(replies, Acks) => One(replies', Acks)
      /\ One(replies, Acks) /\ m.cmd \notin Acks => One(replies', Acks)
      /\ replies = <<>> => AfterFirst(replies', Acks)
      /\ AfterFirst(replies, Acks) /\ m.cmd \notin Acks => AfterFirst(replies', Acks)
  BY <1>0, AppendKeeps
<1>3. None(fromDev', Acks) => AfterFirst(fromDev', Acks) /\ One(fromDev', Acks)
  BY NoneIsLess
<1> HIDE DEF m
<1>4. Clean => Clean'
  BY <1>0, <1>1, <1>2 DEF Clean
<1>5. OnlyFirst => OnlyFirst'
  BY <1>0, <1>1, <1>2, <1>3 DEF OnlyFirst
<1>6. OnlyOne => OnlyOne'
  <2> SUFFICES ASSUME OnlyOne PROVE OnlyOne'
    OBVIOUS
  <2>1. CASE m.cmd \in Acks
    <3>1. None(replies, Acks) /\ None(toDev, Sources) /\ None(fromDev', Acks)
      BY <1>1, <2>1 DEF OnlyOne
    <3> QED
      BY <1>0, <1>2, <1>3, <3>1 DEF OnlyOne
  <2>2. CASE m.cmd \notin Acks
    BY <1>0, <1>1, <1>2, <2>2 DEF OnlyOne
  <2> QED
    BY <2>1, <2>2
<1> QED
  BY <1>1, <1>2, <1>4, <1>5, <1>6

(***************************************************************************)
(* Sending a packet that is not answered with an ACK.                      *)
(***************************************************************************)
LEMMA HarmlessKeepsStream ==
    ASSUME TypeOK, UNCHANGED <<replies, fromDev>>, NEW c \in Packet, c.cmd \notin Sources,
           toDev' \in {toDev, Append(toDev, c)}
    PROVE  /\ AfterFirst(toDev, Sources) => AfterFirst(toDev', Sources)
           /\ Clean => Clean'
           /\ OnlyFirst => OnlyFirst'
           /\ OnlyOne => OnlyOne'
<1>0. toDev \in Seq(Packet)
  BY DEF TypeOK, BootTypeOK, UsbOK
<1>1. /\ None(toDev, Sources) => None(toDev', Sources)
      /\ One(toDev, Sources) => One(toDev', Sources)
      /\ AfterFirst(toDev, Sources) => AfterFirst(toDev', Sources)
  BY <1>0, AppendKeeps
<1> QED
  BY <1>1 DEF Clean, OnlyFirst, OnlyOne

(***************************************************************************)
(* Sending a request when no acknowledgement is under way.                 *)
(***************************************************************************)
LEMMA RequestMakesOne ==
    ASSUME TypeOK, UNCHANGED fromDev, replies' = replies \/ (replies # <<>> /\ replies' = Tail(replies)),
           NEW c \in Packet, toDev' \in {toDev, Append(toDev, c)}, Clean
    PROVE  OnlyOne' /\ None(replies', Acks) /\ None(fromDev', Acks)
<1>0. toDev \in Seq(Packet) /\ replies \in Seq(Response)
  BY DEF TypeOK, BootTypeOK, UsbOK, ClientOK
<1>1. None(replies', Acks) /\ None(fromDev', Acks)
  <2>1. CASE replies' = replies
    BY <2>1 DEF Clean
  <2>2. CASE replies # <<>> /\ replies' = Tail(replies)
    <3>1. None(replies, Acks) => None(Tail(replies), Acks)
      BY <1>0, <2>2, TailKeeps
    <3> QED
      BY <2>2, <3>1 DEF Clean
  <2> QED
    BY <2>1, <2>2
<1>2. One(toDev', Sources)
  BY <1>0, AppendKeeps, NoneIsLess DEF Clean
<1> QED
  BY <1>1, <1>2, NoneIsLess DEF OnlyOne

(***************************************************************************)
(* Taking a reply.                                                         *)
(***************************************************************************)
LEMMA TakingKeepsStream ==
    ASSUME TypeOK, replies # <<>>, replies' = Tail(replies), fromDev' = fromDev
    PROVE  Clean \/ OnlyFirst \/ (OnlyOne /\ Acked)
             => None(replies', Acks) /\ None(fromDev', Acks) /\ None(toDev, Sources)
<1>0. replies \in Seq(Response)
  BY DEF TypeOK, ClientOK
<1>1. /\ None(replies, Acks) => None(replies', Acks)
      /\ AfterFirst(replies, Acks) => None(replies', Acks)
      /\ One(replies, Acks) /\ Head(replies).cmd \in Acks => None(replies', Acks)
      /\ Head(replies).cmd \in Acks => ~None(replies, Acks)
  BY <1>0, TailKeeps
<1>2. Acked => Head(replies).cmd \in Acks
  BY DEF Acked, Acks
<1> QED
  BY <1>1, <1>2 DEF Clean, OnlyFirst, OnlyOne


(***************************************************************************)
(* The stream of acknowledgements under each step but the start of a run.  *)
(***************************************************************************)
LEMMA StreamStep ==
    ASSUME TypeOK, PortInv, StreamInv, Flasher \/ Receive \/ DeviceStep \/ Disturbance \/ UNCHANGED vars
    PROVE  StreamInv'
<1>0. toDev \in Seq(Packet) /\ replies \in Seq(Response) /\ ClientOK
  BY DEF TypeOK, BootTypeOK, UsbOK, ClientOK
<1> USE SimpleIsPacket
<1>a. ASSUME NEW c, Send(c) PROVE fromDev' = fromDev /\ toDev' \in {toDev, Append(toDev, c)}
  BY <1>a DEF Send
<1>b. ASSUME NEW k \in {"DEVICE_INFO", "CHIP_INFO", "BL_VERSION", "HARDWARE_RESET", "OTHER"}
      PROVE  Simple(k) \in Packet /\ Simple(k).cmd \notin Sources
  BY DEF Simple, Sources
<1>c. ASSUME Clean, NEW k \in {"DEVICE_INFO", "CHIP_INFO", "BL_VERSION", "HARDWARE_RESET", "OTHER"},
             Send(Simple(k)), replies # <<>>, replies' = Tail(replies)
      PROVE  Clean'
  <2>1. fromDev' = fromDev /\ toDev' \in {toDev, Append(toDev, Simple(k))}
    BY <1>a, <1>c
  <2>2. None(replies', Acks) /\ None(fromDev', Acks) /\ None(toDev, Sources)
    BY <1>c, <2>1, TakingKeepsStream
  <2>3. None(toDev, Sources) => None(Append(toDev, Simple(k)), Sources)
    BY <1>0, <1>b, AppendKeeps
  <2> QED
    BY <2>1, <2>2, <2>3 DEF Clean
<1>1. CASE OpenProxmark
  <2>1. CASE fpc = "open"
    <3>1. replies' = <<>> /\ fromDev' = <<>> /\ toDev' = toDev /\ fpc' = "ask"
          /\ AfterFirst(toDev, Sources)
      BY <1>1, <2>1 DEF OpenProxmark, PortInv, StreamInv
    <3> QED
      BY <3>1, EmptyHasNone DEF StreamInv, OnlyFirst
  <2>2. CASE fpc = "reopen"
    <3>1. None(replies', Acks) /\ fromDev' = <<>> /\ toDev' = <<>> /\ fpc' = "ask2"
      BY <1>1, <2>2 DEF OpenProxmark, StreamInv
    <3> QED
      BY <3>1, EmptyHasNone DEF StreamInv, Clean
  <2> QED
    BY <1>1, <2>1, <2>2 DEF OpenProxmark
<1>2. CASE AskState
  <2>1. /\ fromDev' = fromDev /\ replies' = replies
        /\ toDev' \in {toDev, Append(toDev, Simple("DEVICE_INFO"))}
    BY <1>2, <1>a DEF AskState
  <2>2. (OnlyFirst => OnlyFirst') /\ (Clean => Clean')
    BY <1>b, <2>1, HarmlessKeepsStream
  <2> QED
    BY <1>2, <2>2 DEF AskState, StreamInv
<1>3. CASE EnterBootloader
  <2>1. fpc = "info" /\ replies # <<>> /\ replies' = Tail(replies) /\ OnlyFirst
    BY <1>3 DEF EnterBootloader, Takes, StreamInv
  <2>2. fromDev' = fromDev
    BY <1>3 DEF EnterBootloader, Fails, Silent, Send, usb
  <2>3. None(replies', Acks) /\ None(fromDev', Acks) /\ None(toDev, Sources)
    BY <2>1, <2>2, TakingKeepsStream
  <2>4. fpc' \in {"reopen", "stop"} \/ (fpc' = "ask2" /\ toDev' = toDev)
    BY <1>3 DEF EnterBootloader, Fails, Silent, usb
  <2> QED
    BY <2>3, <2>4 DEF StreamInv, Clean
<1>4. CASE GotState
  <2>1. fpc = "info2" /\ replies # <<>> /\ replies' = Tail(replies) /\ Clean
    BY <1>4 DEF GotState, Takes, StreamInv
  <2>2. CASE fpc' = "chip" /\ Send(Simple("CHIP_INFO"))
    BY <1>c, <2>1, <2>2 DEF StreamInv
  <2>3. CASE fpc' = "load" /\ Silent
    <3>1. fromDev' = fromDev /\ toDev' = toDev
      BY <2>3 DEF Silent, usb
    <3> QED
      BY <2>1, <2>3, <3>1, TakingKeepsStream DEF StreamInv, Clean
  <2>4. CASE fpc' = "stop"
    BY <2>4 DEF StreamInv
  <2> QED
    BY <1>4, <2>2, <2>3, <2>4 DEF GotState, Fails
<1>5. CASE SkipReply
  <2>1. /\ fpc \in {"chip", "version"} /\ fpc' = fpc /\ replies # <<>> /\ replies' = Tail(replies)
        /\ fromDev' = fromDev /\ toDev' = toDev /\ Clean
    BY <1>5 DEF SkipReply, Takes, StreamInv, bootvars, usb
  <2> QED
    BY <2>1, TakingKeepsStream DEF StreamInv, Clean
<1>6. CASE GotChipInfo
  BY <1>c, <1>6 DEF GotChipInfo, Takes, StreamInv
<1>7. CASE GotVersion
  <2> DEFINE c == StartFlashCmd(IF job.bl THEN FLASH_START ELSE bootrom_end,
                                Address(max_allowed), job.bl)
  <2>1. c \in Packet
    <3>1. max_allowed \in Nat /\ job.bl \in BOOLEAN
      BY <1>0, AddressIsNat, FlashAssumption DEF ClientOK, ProgressOK, JobOK
    <3> QED
      BY <3>1, AddressIsNat, FlashAssumption, PagesAreNat, StartFlashIsPacket
  <2>2. /\ fpc' = "start" /\ fromDev' = fromDev /\ toDev' \in {toDev, Append(toDev, c)}
        /\ replies # <<>> /\ replies' = Tail(replies) /\ Clean
    BY <1>7, <1>a DEF GotVersion, Takes, StreamInv
  <2> QED
    BY <2>1, <2>2, RequestMakesOne DEF StreamInv
<1>8. CASE GotRange \/ GotBlockReply
  <2>1. /\ fpc \in {"start", "ack"} /\ replies # <<>> /\ replies' = Tail(replies)
        /\ fromDev' = fromDev /\ toDev' = toDev /\ OnlyOne
        /\ (Acked /\ fpc' \in {"load", "write"}) \/ fpc' = "stop"
    BY <1>8 DEF GotRange, GotBlockReply, Takes, Fails, Silent, usb, StreamInv
  <2>2. CASE Acked /\ fpc' \in {"load", "write"}
    BY <2>1, <2>2, TakingKeepsStream DEF StreamInv, Clean
  <2>3. CASE fpc' = "stop"
    BY <2>3 DEF StreamInv
  <2> QED
    BY <2>1, <2>2, <2>3
<1>9. CASE FlashLoad
  <2>1. Clean /\ UNCHANGED <<replies, fromDev, toDev>> /\ fpc' \in {"write", "stop"}
    BY <1>9 DEF FlashLoad, Fails, Silent, usb, StreamInv
  <2> QED
    BY <2>1 DEF StreamInv, Clean
<1>10. CASE WriteBlock
  <2>1. PICK b \in todo :
          Send([cmd |-> "FINISH_WRITE", addr |-> BlockAddress(b), data |-> job.id])
    BY <1>10 DEF WriteBlock
  <2> DEFINE c == [cmd |-> "FINISH_WRITE", addr |-> BlockAddress(b), data |-> job.id]
  <2>2. fpc = "write" /\ fpc' = "ack" /\ replies' = replies /\ Clean
    BY <1>10 DEF WriteBlock, StreamInv
  <2>3. c \in Packet
    BY <1>0, <2>2, WriteIsPacket
  <2>4. fromDev' = fromDev /\ toDev' \in {toDev, Append(toDev, c)}
    BY <1>a, <2>1
  <2> HIDE DEF c
  <2> QED
    BY <2>2, <2>3, <2>4, RequestMakesOne DEF StreamInv
<1>11. CASE OpenTimeout \/ AllWritten \/ Stop \/ Close \/ Kill
  <2>1. fpc' \in {"idle", "stop", "close"}
    BY <1>11 DEF OpenTimeout, AllWritten, Stop, Close, Kill, Ends
  <2> QED
    BY <2>1 DEF StreamInv
<1>12. CASE Receive
  <2>1. fpc' = fpc /\ fpc \notin {"open", "reopen"}
    BY <1>12 DEF Receive, Connected, PortInv
  <2> QED
    BY <1>12, <2>1, ReceiveKeepsStream DEF StreamInv
<1>13. CASE Interference
  <2>1. /\ UNCHANGED <<fpc, replies, fromDev>>
        /\ toDev' \in {toDev, Append(toDev, Simple("OTHER"))}
    BY <1>13 DEF Interference, client
  <2> QED
    BY <1>b, <2>1, HarmlessKeepsStream DEF StreamInv
<1>14. CASE DeviceEffect /\ UNCHANGED client
  <2>1. UNCHANGED <<fpc, replies>>
    BY <1>14 DEF client
  <2> QED
    BY <1>14, <2>1, DeviceKeepsStream DEF StreamInv
<1>15. CASE DeviceStep \/ Disturbance
  <2>1. BootTypeOK
    BY DEF TypeOK
  <2> QED
    BY <1>11, <1>13, <1>14, <1>15, <2>1, StepHasEffect DEF DeviceStep, Disturbance
<1>16. CASE UNCHANGED vars
  BY <1>16 DEF vars, bootvars, client, usb, StreamInv, Clean, OnlyFirst, OnlyOne
<1> QED
  BY <1>1, <1>2, <1>3, <1>4, <1>5, <1>6, <1>7, <1>8, <1>9, <1>10, <1>11, <1>12,
     <1>15, <1>16 DEF Flasher

-----------------------------------------------------------------------------
(* Requests on the link and blocks in the flash memory *)

\* Packets of these kinds on the link now were there before.
From(K) == \A i \in 1 .. Len(toDev') : toDev'[i].cmd \in K
                => \E j \in 1 .. Len(toDev) : toDev'[i] = toDev[j]

LEMMA FromIsSmaller ==
    ASSUME From(Sources)
    PROVE  From({"FINISH_WRITE"})
  BY DEF From, Sources

LEMMA SendingIsFrom ==
    ASSUME TypeOK, NEW c \in Packet, toDev' \in {toDev, Append(toDev, c)}, NEW K, c.cmd \notin K
    PROVE  From(K)
<1>1. toDev \in Seq(Packet)
  BY DEF TypeOK, BootTypeOK, UsbOK
<1>2. CASE toDev' = toDev
  BY <1>2 DEF From
<1>3. CASE toDev' = Append(toDev, c)
  <2>1. /\ Len(toDev) \in Nat /\ Len(toDev') = Len(toDev) + 1 /\ toDev'[Len(toDev) + 1] = c
        /\ \A i \in 1 .. Len(toDev) : toDev'[i] = toDev[i]
    BY <1>1, <1>3, AppendProperties
  <2> QED
    BY <2>1 DEF From
<1> QED
  BY <1>2, <1>3

LEMMA DeviceIsFrom ==
    ASSUME TypeOK, DeviceEffect, NEW K
    PROVE  From(K)
<1>1. toDev \in Seq(Packet)
  BY DEF TypeOK, BootTypeOK, UsbOK
<1>2. CASE toDev' = toDev
  BY <1>2 DEF From
<1>3. CASE toDev' = <<>>
  BY <1>3 DEF From
<1>4. CASE toDev # <<>> /\ toDev' = Tail(toDev)
  <2>1. /\ Len(toDev) \in Nat /\ Len(toDev') = Len(toDev) - 1
        /\ \A i \in 1 .. Len(toDev') : i + 1 \in 1 .. Len(toDev) /\ toDev'[i] = toDev[i + 1]
    BY <1>1, <1>4, HeadTailProperties
  <2> QED
    BY <2>1 DEF From
<1> QED
  BY <1>2, <1>3, <1>4 DEF DeviceEffect, QuietStep, WipedStep, AnsweredStep

LEMMA RequestsKept ==
    ASSUME RequestsInv, UNCHANGED <<job, todo>>, From({"FINISH_WRITE"}),
           fpc' = "ack" => fpc = "ack" /\ From(Sources),
           fpc' \in {"write", "ack"} => fpc \in {"write", "ack"} /\ UNCHANGED max_allowed
    PROVE  RequestsInv'
<1>1. fpc' \in {"write", "ack"} => Loadable'
  BY DEF RequestsInv, Loadable
<1>2. \A b : WriteOf(b)' = WriteOf(b) /\ IsFirst(b)' = IsFirst(b)
  BY DEF WriteOf, IsFirst
<1>3. ASSUME fpc' = "ack", NEW i \in 1 .. Len(toDev'), toDev'[i].cmd \in Sources
      PROVE  \E b \in todo' : IsFirst(b)' /\ toDev'[i] = WriteOf(b)'
  <2>1. PICK j \in 1 .. Len(toDev) : toDev'[i] = toDev[j]
    BY <1>3 DEF From
  <2> QED
    BY <1>2, <1>3, <2>1 DEF RequestsInv
<1>4. ASSUME todo' # job'.image, NEW i \in 1 .. Len(toDev'), toDev'[i].cmd = "FINISH_WRITE"
      PROVE  \E b \in todo' : toDev'[i] = WriteOf(b)'
  <2>1. PICK j \in 1 .. Len(toDev) : toDev'[i] = toDev[j]
    BY <1>4 DEF From
  <2> QED
    BY <1>2, <1>4, <2>1 DEF RequestsInv
<1> QED
  BY <1>1, <1>3, <1>4 DEF RequestsInv

LEMMA BlocksKept ==
    ASSUME BlocksInv, UNCHANGED <<flash, job, todo>>,
           fpc' = "ack" =>
             /\ fpc = "ack"
             /\ None(replies, Acks) /\ None(fromDev, Acks) => None(replies', Acks) /\ None(fromDev', Acks)
    PROVE  BlocksInv'
<1>1. \A b : Written(b)' = Written(b) /\ IsFirst(b)' = IsFirst(b)
  BY DEF Written, IsFirst
<1> QED
  BY <1>1 DEF BlocksInv

LEMMA HeadOfLink ==
    ASSUME TypeOK, toDev # <<>>
    PROVE  1 \in 1 .. Len(toDev) /\ Head(toDev) = toDev[1]
<1>1. toDev \in Seq(Packet)
  BY DEF TypeOK, BootTypeOK, UsbOK
<1> QED
  BY <1>1, HeadTailProperties

\* A block in the flash memory is programmed where it belongs.
LEMMA BlockIsItsPages ==
    ASSUME NEW b \in Nat, PagesOf(b) \subseteq PageAddress
    PROVE  BlockPages(WriteOf(b)) = PagesOf(b) /\ Hit(WriteOf(b)) = PagesOf(b)
<1>1. \A a \in PagesOf(b) : Unsigned(a) = a /\ PageOf(a) = a
  BY PageOfPage, PagesAreNat, SmallIsWord
<1>2. BlockPages(WriteOf(b)) = PagesOf(b)
  BY <1>1 DEF BlockPages, WriteOf, PagesOf
<1> QED
  BY <1>1, <1>2 DEF Hit

LEMMA BlockNumbers ==
    ASSUME TypeOK
    PROVE  /\ todo \subseteq job.image /\ job.image \subseteq Nat
           /\ \A b, d \in todo : IsFirst(b) /\ IsFirst(d) => b = d
<1>1. todo \subseteq job.image /\ job.image \subseteq Nat
  BY RunsAssumption DEF TypeOK, ClientOK, JobOK
<1> QED
  BY <1>1 DEF IsFirst

(***************************************************************************)
(* The device writes, or tears, pages of the block that is asked for and   *)
(* of no other.                                                            *)
(***************************************************************************)
LEMMA DeviceKeepsBlocks ==
    ASSUME TypeOK, StreamInv, RequestsInv, BlocksInv, DeviceEffect, UNCHANGED client
    PROVE  BlocksInv'
<1>0. UNCHANGED <<job, todo, fpc, replies>>
  BY DEF client
<1>1. \A b : IsFirst(b)' = IsFirst(b) /\ Written(b)' = \A a \in PagesOf(b) : a \in PageAddress /\ flash'[a] = job.id
  BY <1>0 DEF IsFirst, Written
<1>2. /\ todo \subseteq job.image /\ job.image \subseteq Nat
      /\ \A b, d \in todo : IsFirst(b) /\ IsFirst(d) => b = d
  BY BlockNumbers
<1>3. fpc = "ack" => OnlyOne
  BY DEF StreamInv
<1>4. CASE QuietStep
  BY <1>0, <1>4, BlocksKept DEF QuietStep
<1>5. CASE WipedStep
  <2>1. None(fromDev', Acks)
    BY <1>5, EmptyHasNone DEF WipedStep
  <2>2. CASE UNCHANGED flash
    BY <1>0, <2>1, <2>2, BlocksKept
  <2>3. CASE /\ toDev # <<>> /\ Head(toDev).cmd = "FINISH_WRITE"
             /\ \A a \in PageAddress \ Hit(Head(toDev)) : flash'[a] = flash[a]
    <3>1. ASSUME NEW b \in job.image \ todo PROVE Written(b)'
      <4>1. PICK d \in todo : Head(toDev) = WriteOf(d)
        BY <2>3, HeadOfLink DEF RequestsInv
      <4>2. Hit(Head(toDev)) = PagesOf(d)
        BY <1>2, <3>1, <4>1, BlockIsItsPages DEF RequestsInv
      <4>3. PagesOf(b) \cap PagesOf(d) = {}
        BY <1>2, <3>1, PagesApart
      <4>4. Written(b)
        BY <3>1 DEF BlocksInv
      <4> QED
        BY <1>1, <2>3, <4>2, <4>3, <4>4 DEF Written
    <3>2. fpc = "ack" => None(replies, Acks)
      <4>1. ~None(toDev, Sources)
        BY <2>3, HeadOfLink DEF None, Sources
      <4> QED
        BY <1>3, <4>1 DEF OnlyOne
    <3> QED
      BY <1>0, <2>1, <3>1, <3>2 DEF BlocksInv
  <2> QED
    BY <1>5, <2>2, <2>3 DEF WipedStep
<1>6. ASSUME NEW rs \in Seq(Response), AnsweredStep(rs) PROVE BlocksInv'
  <2> DEFINE c == Head(toDev)
  <2>0. toDev # <<>> /\ fromDev' = fromDev \o rs /\ fromDev \in Seq(Response)
    BY <1>6 DEF AnsweredStep, TypeOK, BootTypeOK, UsbOK
  <2>1. 1 \in 1 .. Len(toDev) /\ c = toDev[1]
    BY <2>0, HeadOfLink
  <2> HIDE DEF c
  <2>2. /\ None(rs, Acks) \/ c.cmd \in Sources
        /\ \/ UNCHANGED flash /\ (c.cmd = "FINISH_WRITE" => None(rs, Acks))
           \/ /\ c.cmd = "FINISH_WRITE"
              /\ \A a \in PageAddress : flash'[a] \in {flash[a], c.data}
              /\ ~None(rs, Acks) => \A a \in PageAddress \cap Hit(c) : flash'[a] = c.data
    BY <1>6 DEF AnsweredStep, c
  <2>3. None(fromDev, Acks) /\ None(rs, Acks) => None(fromDev', Acks)
    BY <2>0, <1>6, ConcatKeeps
  <2>4. ASSUME NEW b \in job.image \ todo PROVE Written(b)'
    <3>1. Written(b)
      BY <2>4 DEF BlocksInv
    <3>2. CASE UNCHANGED flash
      BY <1>1, <3>1, <3>2 DEF Written
    <3>3. CASE c.cmd = "FINISH_WRITE" /\ \A a \in PageAddress : flash'[a] \in {flash[a], c.data}
      <4>1. PICK d \in todo : c = WriteOf(d)
        BY <2>1, <3>3 DEF RequestsInv
      <4>2. c.data = job.id
        BY <4>1 DEF WriteOf
      <4> QED
        BY <1>1, <3>1, <3>3, <4>2 DEF Written
    <3> QED
      BY <2>2, <3>2, <3>3
  <2>5. ASSUME fpc = "ack", ~(None(replies, Acks) /\ None(fromDev', Acks)),
               NEW b \in todo, IsFirst(b)
        PROVE  Written(b)'
    <3>1. CASE c.cmd \notin Sources
      <4>1. UNCHANGED flash /\ None(rs, Acks)
        BY <2>2, <3>1 DEF Sources
      <4>2. ~(None(replies, Acks) /\ None(fromDev, Acks))
        BY <2>3, <2>5, <4>1
      <4>3. Written(b)
        BY <2>5, <4>2 DEF BlocksInv
      <4> QED
        BY <1>1, <4>1, <4>3 DEF Written
    <3>2. CASE c.cmd \in Sources
      <4>1. ~None(toDev, Sources)
        BY <2>1, <3>2 DEF None
      <4>2. None(replies, Acks) /\ None(fromDev, Acks)
        BY <1>3, <2>5, <4>1 DEF OnlyOne
      <4>3. ~None(rs, Acks)
        BY <2>3, <2>5, <4>2
      <4>4. PICK d \in todo : IsFirst(d) /\ c = WriteOf(d)
        BY <2>1, <2>5, <3>2 DEF RequestsInv
      <4>5. d = b
        BY <1>2, <2>5, <4>4
      <4>6. c.cmd = "FINISH_WRITE" /\ c.data = job.id /\ c = WriteOf(b)
        BY <4>4, <4>5 DEF WriteOf
      <4>7. PagesOf(b) \subseteq PageAddress
        <5>1. Loadable /\ ClientOK
          BY <2>5 DEF RequestsInv, TypeOK
        <5> QED
          BY <1>2, <5>1, LoadablePages
      <4>8. Hit(c) = PagesOf(b)
        BY <1>2, <4>6, <4>7, BlockIsItsPages
      <4> QED
        BY <1>1, <2>2, <4>3, <4>6, <4>7, <4>8
    <3> QED
      BY <3>1, <3>2
  <2> QED
    BY <1>0, <1>1, <2>4, <2>5 DEF BlocksInv
<1> QED
  BY <1>4, <1>5, <1>6 DEF DeviceEffect

(***************************************************************************)
(* Requests and blocks under each step but the start of a run.             *)
(***************************************************************************)
LEMMA BlocksStep ==
    ASSUME TypeOK, PortInv, StreamInv, RequestsInv, BlocksInv,
           Flasher \/ Receive \/ DeviceStep \/ Disturbance \/ UNCHANGED vars
    PROVE  RequestsInv' /\ BlocksInv'
<1>0. /\ toDev \in Seq(Packet) /\ replies \in Seq(Response) /\ ClientOK
      /\ todo \subseteq job.image /\ job.image \subseteq Nat
  BY BlockNumbers DEF TypeOK, BootTypeOK, UsbOK, ClientOK
<1>a. ASSUME UNCHANGED <<flash, job, todo>>, fpc' \notin {"write", "ack"}, From({"FINISH_WRITE"})
      PROVE  RequestsInv' /\ BlocksInv'
  BY <1>a, RequestsKept, BlocksKept
<1>b. ASSUME NEW c \in Packet, c.cmd # "FINISH_WRITE", Send(c) PROVE From({"FINISH_WRITE"})
  <2>1. toDev' \in {toDev, Append(toDev, c)}
    BY <1>b DEF Send
  <2> QED
    BY <1>b, <2>1, SendingIsFrom
<1>c. toDev' = toDev => From({"FINISH_WRITE"}) /\ From(Sources)
  BY DEF From
<1>d. ASSUME NEW k \in {"DEVICE_INFO", "CHIP_INFO", "BL_VERSION", "HARDWARE_RESET", "OTHER"}
      PROVE  Simple(k) \in Packet /\ Simple(k).cmd = k
  BY SimpleIsPacket DEF Simple
<1>1. CASE OpenProxmark \/ OpenTimeout \/ SkipReply \/ GotRange \/ AllWritten \/ Close \/ Kill
  <2>1. UNCHANGED <<flash, job, todo, toDev>> /\ fpc' \notin {"write", "ack"}
    BY <1>1 DEF OpenProxmark, OpenTimeout, SkipReply, GotRange, AllWritten, Close, Kill, Ends,
                Fails, Silent, bootvars, usb, Device
  <2> QED
    BY <1>a, <1>c, <2>1
<1>2. CASE AskState \/ GotChipInfo \/ Stop
  <2>1. UNCHANGED <<flash, job, todo>> /\ fpc' \notin {"write", "ack"}
    BY <1>2 DEF AskState, GotChipInfo, Stop, Device
  <2>2. \E k \in {"DEVICE_INFO", "BL_VERSION", "HARDWARE_RESET"} : Send(Simple(k))
    BY <1>2 DEF AskState, GotChipInfo, Stop
  <2> QED
    BY <1>a, <1>b, <1>d, <2>1, <2>2
<1>3. CASE EnterBootloader
  <2>1. UNCHANGED <<flash, job, todo>> /\ fpc' \notin {"write", "ack"}
    BY <1>3 DEF EnterBootloader, Fails, Device
  <2>2. toDev' = toDev \/ Send(StartFlashCmd(0, 0, FALSE))
    BY <1>3 DEF EnterBootloader, Fails, Silent, usb
  <2>3. StartFlashCmd(0, 0, FALSE) \in Packet /\ StartFlashCmd(0, 0, FALSE).cmd # "FINISH_WRITE"
    BY StartFlashIsPacket DEF StartFlashCmd
  <2> QED
    BY <1>a, <1>b, <1>c, <2>1, <2>2, <2>3
<1>4. CASE GotState
  <2>1. UNCHANGED <<flash, job, todo>> /\ fpc' \notin {"write", "ack"}
    BY <1>4 DEF GotState, Fails, Device
  <2>2. toDev' = toDev \/ Send(Simple("CHIP_INFO"))
    BY <1>4 DEF GotState, Fails, Silent, usb
  <2> QED
    BY <1>a, <1>b, <1>c, <1>d, <2>1, <2>2
<1>5. CASE GotVersion
  <2> DEFINE c == StartFlashCmd(IF job.bl THEN FLASH_START ELSE bootrom_end,
                                Address(max_allowed), job.bl)
  <2>1. UNCHANGED <<flash, job, todo>> /\ fpc' \notin {"write", "ack"} /\ Send(c)
    BY <1>5 DEF GotVersion, Device
  <2>2. c \in Packet /\ c.cmd # "FINISH_WRITE"
    <3>1. max_allowed \in Nat /\ job.bl \in BOOLEAN
      BY <1>0, AddressIsNat, FlashAssumption DEF ClientOK, ProgressOK, JobOK
    <3>2. c \in Packet
      BY <3>1, AddressIsNat, FlashAssumption, PagesAreNat, StartFlashIsPacket
    <3> QED
      BY <3>2 DEF StartFlashCmd
  <2> HIDE DEF c
  <2> QED
    BY <1>a, <1>b, <2>1, <2>2
<1>6. CASE FlashLoad
  <2>1. UNCHANGED <<flash, job, todo, toDev, max_allowed>> /\ Clean
    BY <1>6 DEF FlashLoad, Fails, Silent, usb, Device, StreamInv
  <2>2. CASE fpc' = "stop"
    BY <1>a, <1>c, <2>1, <2>2
  <2>3. CASE Loadable /\ fpc' = "write"
    <3>1. Loadable'
      BY <2>1, <2>3 DEF Loadable
    <3>2. None(toDev', Sources)
      BY <2>1 DEF Clean
    <3>3. RequestsInv'
      BY <2>1, <2>3, <3>1, <3>2 DEF RequestsInv, None, Sources
    <3> QED
      BY <2>1, <2>3, <3>3, BlocksKept
  <2> QED
    BY <1>6, <2>2, <2>3 DEF FlashLoad, Fails
<1>7. CASE WriteBlock
  <2>1. PICK b \in todo :
          /\ \A d \in todo : b <= d
          /\ Send([cmd |-> "FINISH_WRITE", addr |-> BlockAddress(b), data |-> job.id])
    BY <1>7 DEF WriteBlock
  <2>2. /\ UNCHANGED <<flash, job, todo, max_allowed, replies>> /\ fpc' = "ack" /\ fpc = "write"
        /\ Clean /\ Loadable
    BY <1>7 DEF WriteBlock, Device, StreamInv, RequestsInv
  <2>3. fromDev' = fromDev /\ toDev' \in {toDev, Append(toDev, WriteOf(b))}
    BY <2>1 DEF Send, WriteOf
  <2>4. Loadable'
    BY <2>2 DEF Loadable
  <2>5. IsFirst(b)' /\ WriteOf(b)' = WriteOf(b)
    BY <2>1, <2>2 DEF IsFirst, WriteOf
  <2>6. ASSUME NEW i \in 1 .. Len(toDev'), toDev'[i].cmd \in Sources PROVE toDev'[i] = WriteOf(b)
    <3>1. CASE toDev' = toDev
      BY <2>2, <2>6, <3>1 DEF Clean, None
    <3>2. CASE toDev' = Append(toDev, WriteOf(b))
      <4>1. /\ Len(toDev) \in Nat /\ Len(toDev') = Len(toDev) + 1
            /\ toDev'[Len(toDev) + 1] = WriteOf(b)
            /\ \A j \in 1 .. Len(toDev) : toDev'[j] = toDev[j]
        BY <1>0, <3>2
      <4>2. i \notin 1 .. Len(toDev)
        BY <2>2, <2>6, <4>1 DEF Clean, None
      <4>3. i = Len(toDev) + 1
        BY <4>1, <4>2
      <4> QED
        BY <4>1, <4>3
    <3> QED
      BY <2>3, <3>1, <3>2
  <2>7. RequestsInv'
    BY <2>2, <2>4, <2>5, <2>6 DEF RequestsInv, Sources
  <2>8. BlocksInv'
    <3>1. None(replies', Acks) /\ None(fromDev', Acks)
      BY <2>2, <2>3 DEF Clean
    <3>2. \A d : Written(d)' = Written(d)
      BY <2>2 DEF Written
    <3> QED
      BY <2>2, <3>1, <3>2 DEF BlocksInv
  <2> QED
    BY <2>7, <2>8
<1>8. CASE GotBlockReply
  <2>1. /\ fpc = "ack" /\ replies # <<>> /\ replies' = Tail(replies) /\ OnlyOne
        /\ UNCHANGED <<flash, job, max_allowed, toDev, fromDev>>
    BY <1>8 DEF GotBlockReply, Takes, Silent, usb, Device, StreamInv
  <2>2. CASE fpc' = "stop" /\ UNCHANGED todo
    BY <1>a, <1>c, <2>1, <2>2
  <2>3. CASE Acked /\ fpc' = "write" /\ todo' = {b \in todo : \E d \in todo : d < b}
    <3>1. Loadable'
      BY <2>1 DEF RequestsInv, Loadable
    <3>2. None(toDev', Sources)
      BY <2>1, <2>3, TakingKeepsStream
    <3>a. \A b \in todo' : PagesOf(b) \subseteq PageAddress
      <4>1. Loadable
        BY <2>1 DEF RequestsInv
      <4> QED
        BY <1>0, <2>3, <4>1, LoadablePages
    <3>3. RequestsInv'
      BY <2>3, <3>a, <3>1, <3>2 DEF RequestsInv, None, Sources
    <3>4. \A b \in todo : IsFirst(b) => Written(b)
      <4>1. ~None(replies, Acks)
        <5>1. 1 \in 1 .. Len(replies) /\ Head(replies) = replies[1]
          BY <1>0, <2>1, HeadTailProperties
        <5> QED
          BY <2>3, <5>1 DEF None, Acked, Acks
      <4> QED
        BY <2>1, <4>1 DEF BlocksInv
    <3>5. \A b \in todo : b \in todo' \/ IsFirst(b)
      BY <1>0, <2>3 DEF IsFirst
    <3>6. \A b : Written(b)' = Written(b)
      BY <2>1 DEF Written
    <3> QED
      BY <2>1, <2>3, <3>3, <3>4, <3>5, <3>6 DEF BlocksInv
  <2> QED
    BY <1>8, <2>2, <2>3 DEF GotBlockReply, Fails
<1>9. CASE Receive
  <2>1. UNCHANGED <<flash, job, todo, max_allowed, toDev, fpc>>
    BY <1>9 DEF Receive, Device
  <2>2. fpc = "ack" => OnlyOne
    BY DEF StreamInv
  <2>3. RequestsInv'
    BY <1>c, <2>1, RequestsKept
  <2>4. BlocksInv'
    BY <1>9, <2>1, <2>2, ReceiveKeepsStream, BlocksKept
  <2> QED
    BY <2>3, <2>4
<1>10. CASE Interference
  <2>1. /\ UNCHANGED <<flash, job, todo, max_allowed, fpc, replies, fromDev>>
        /\ toDev' \in {toDev, Append(toDev, Simple("OTHER"))}
    BY <1>10 DEF Interference, client, Device
  <2>2. From(Sources) /\ From({"FINISH_WRITE"})
    <3>1. Simple("OTHER").cmd \notin Sources
      BY <1>d DEF Sources
    <3> QED
      BY <1>d, <2>1, <3>1, SendingIsFrom, FromIsSmaller
  <2> QED
    BY <2>1, <2>2, RequestsKept, BlocksKept
<1>11. CASE DeviceEffect /\ UNCHANGED client
  <2>1. UNCHANGED <<job, todo, max_allowed, fpc>>
    BY <1>11 DEF client
  <2> QED
    BY <1>11, <2>1, DeviceIsFrom, RequestsKept, DeviceKeepsBlocks
<1>12. CASE DeviceStep \/ Disturbance
  <2>1. BootTypeOK
    BY DEF TypeOK
  <2> QED
    BY <1>1, <1>10, <1>11, <1>12, <2>1, StepHasEffect DEF DeviceStep, Disturbance
<1>13. CASE UNCHANGED vars
  <2>1. UNCHANGED <<flash, job, todo, max_allowed, toDev, fpc, replies, fromDev>>
    BY <1>13 DEF vars, bootvars, client, usb
  <2> QED
    BY <1>c, <2>1, RequestsKept, BlocksKept
<1> QED
  BY <1>1, <1>2, <1>3, <1>4, <1>5, <1>6, <1>7, <1>8, <1>9, <1>12, <1>13 DEF Flasher

LEMMA RunStep ==
    ASSUME TypeOK, PortInv, NEW bl \in BOOLEAN, NEW image \in Images, Run(bl, image)
    PROVE  FlashInv'
<1> SUFFICES ASSUME ~crowded' PROVE (StreamInv /\ RequestsInv /\ BlocksInv)'
  BY DEF FlashInv
<1>1. /\ toDev' = toDev /\ toDev \in Seq(Packet) /\ fpc' = "open"
      /\ todo' = image /\ job'.image = image /\ ~(Len(toDev) > 1)
  BY DEF Run, bootvars, usb, TypeOK, BootTypeOK, UsbOK
<1>2. AfterFirst(toDev', Sources)
  BY <1>1 DEF AfterFirst
<1> QED
  BY <1>1, <1>2 DEF StreamInv, RequestsInv, BlocksInv

(***************************************************************************)
(* A block the flasher counts as written is in the flash memory with this  *)
(* run's data, in every run that begins with at most one packet on its way *)
(* to the device: for all images, layouts of the flash memory and numbers  *)
(* of runs, and wherever runs are killed, the device reset or powered off. *)
(***************************************************************************)
THEOREM AcknowledgedBlocksWritten == Spec => []AckedBlocksAreWritten
<1>1. Init => FlashInv
  BY DEF Init, FlashInv, StreamInv, RequestsInv, BlocksInv
<1>2. TypeOK /\ PortInv /\ FlashInv /\ [Next]_vars => FlashInv'
  <2> SUFFICES ASSUME TypeOK, PortInv, FlashInv, [Next]_vars PROVE FlashInv'
    OBVIOUS
  <2>1. CASE \E bl \in BOOLEAN, image \in Images : Run(bl, image)
    BY <2>1, RunStep
  <2>2. CASE Flasher \/ Receive \/ DeviceStep \/ Disturbance \/ UNCHANGED vars
    <3>1. crowded' = crowded
      BY <2>2 DEF Flasher, Receive, DeviceStep, Disturbance, vars, history, OpenProxmark,
                  OpenTimeout, AskState, EnterBootloader, GotState, SkipReply, GotChipInfo,
                  GotVersion, GotRange, FlashLoad, WriteBlock, GotBlockReply, AllWritten, Stop,
                  Close, Kill, Interference
    <3> QED
      BY <2>2, <3>1, StreamStep, BlocksStep DEF FlashInv
  <2> QED
    BY <2>1, <2>2 DEF Next
<1>3. FlashInv => AckedBlocksAreWritten
  BY DEF FlashInv, BlocksInv, Written, AckedBlocksAreWritten
<1> QED
  BY <1>1, <1>2, <1>3, FlashingTypeCorrect, PTL DEF Spec

-----------------------------------------------------------------------------
(* The magic number *)

LEMMA EndInFlash ==
    ASSUME TypeOK
    PROVE  Address(max_allowed) \in Nat /\ Address(max_allowed) <= flash_end
<1>1. max_allowed \in {Half, FLASH_PAGES}
  BY DEF TypeOK, ClientOK, ProgressOK
<1>2. FLASH_PAGES \in Nat /\ Half \in Nat /\ Half <= FLASH_PAGES /\ PAGE \in Nat /\ FLASH_START \in Nat
  BY FlashAssumption, AddressIsNat
<1>3. max_allowed \in Nat /\ max_allowed <= FLASH_PAGES
  BY <1>1, <1>2
<1>4. \A m, n, k \in Nat : m <= n => k * m \in Nat /\ k * n \in Nat /\ k * m <= k * n
  OBVIOUS
<1>5. /\ PAGE * max_allowed \in Nat /\ PAGE * FLASH_PAGES \in Nat
      /\ PAGE * max_allowed <= PAGE * FLASH_PAGES
  BY <1>2, <1>3, <1>4
<1> QED
  BY <1>2, <1>5 DEF Address, flash_end

(***************************************************************************)
(* No end that the flasher has sent is negative as an int, so no range was *)
(* ever granted for that.                                                  *)
(***************************************************************************)
EndsInv ==
    /\ \A i \in 1 .. Len(toDev) : toDev[i].cmd = "START_FLASH" => toDev[i].end <= flash_end
    /\ "sign" \notin unlocks

LEMMA EndsKept ==
    ASSUME EndsInv, From({"START_FLASH"}), UNCHANGED unlocks
    PROVE  EndsInv'
<1>1. ASSUME NEW i \in 1 .. Len(toDev'), toDev'[i].cmd = "START_FLASH"
      PROVE  toDev'[i].end <= flash_end
  <2>1. PICK j \in 1 .. Len(toDev) : toDev'[i] = toDev[j]
    BY <1>1 DEF From
  <2> QED
    BY <1>1, <2>1 DEF EndsInv
<1> QED
  BY <1>1 DEF EndsInv

LEMMA EndSent ==
    ASSUME TypeOK, EndsInv, NEW c \in Packet, c.cmd = "START_FLASH" => c.end <= flash_end,
           toDev' \in {toDev, Append(toDev, c)}, UNCHANGED unlocks
    PROVE  EndsInv'
<1>1. toDev \in Seq(Packet)
  BY DEF TypeOK, BootTypeOK, UsbOK
<1>2. CASE toDev' = toDev
  BY <1>2 DEF EndsInv
<1>3. CASE toDev' = Append(toDev, c)
  <2>1. /\ Len(toDev) \in Nat /\ Len(toDev') = Len(toDev) + 1 /\ toDev'[Len(toDev) + 1] = c
        /\ \A i \in 1 .. Len(toDev) : toDev'[i] = toDev[i]
    BY <1>1, <1>3, AppendProperties
  <2>2. \A i \in 1 .. Len(toDev') : i \in 1 .. Len(toDev) \/ toDev'[i] = c
    BY <2>1
  <2> QED
    BY <2>1, <2>2 DEF EndsInv
<1> QED
  BY <1>2, <1>3

LEMMA EndsStep ==
    ASSUME TypeOK, PortInv, EndsInv, [Next]_vars
    PROVE  EndsInv'
<1>0. BootTypeOK /\ ClientOK
  BY DEF TypeOK
<1>a. toDev' = toDev => From({"START_FLASH"})
  BY DEF From
<1>1. CASE \/ \E bl \in BOOLEAN, image \in Images : Run(bl, image)
           \/ OpenProxmark \/ OpenTimeout \/ SkipReply \/ GotRange \/ FlashLoad \/ GotBlockReply
           \/ AllWritten \/ Close \/ Kill \/ Receive \/ UNCHANGED vars
  <2>1. UNCHANGED <<toDev, unlocks>>
    BY <1>1 DEF Run, OpenProxmark, OpenTimeout, SkipReply, GotRange, FlashLoad, GotBlockReply,
                AllWritten, Close, Kill, Receive, vars, Fails, Silent, bootvars, usb, Device
  <2> QED
    BY <1>a, <2>1, EndsKept
<1>2. CASE AskState \/ GotState \/ GotChipInfo \/ Stop \/ Interference
  <2>1. /\ UNCHANGED unlocks
        /\ \/ UNCHANGED toDev
           \/ \E k \in {"DEVICE_INFO", "CHIP_INFO", "BL_VERSION", "HARDWARE_RESET", "OTHER"} :
                toDev' \in {toDev, Append(toDev, Simple(k))}
    BY <1>2 DEF AskState, GotState, GotChipInfo, Stop, Interference, Send, Fails, Silent, usb, Device
  <2>2. ASSUME NEW k \in {"DEVICE_INFO", "CHIP_INFO", "BL_VERSION", "HARDWARE_RESET", "OTHER"}
        PROVE  Simple(k) \in Packet /\ Simple(k).cmd # "START_FLASH"
    BY SimpleIsPacket DEF Simple
  <2> QED
    BY <1>a, <2>1, <2>2, EndsKept, EndSent
<1>3. CASE EnterBootloader
  <2> DEFINE c == StartFlashCmd(0, 0, FALSE)
  <2>1. UNCHANGED unlocks /\ toDev' \in {toDev, Append(toDev, c)}
    BY <1>3 DEF EnterBootloader, Send, Fails, Silent, usb, Device
  <2>2. c \in Packet
    BY StartFlashIsPacket
  <2>3. c.end <= flash_end
    BY Layout DEF StartFlashCmd
  <2> HIDE DEF c
  <2> QED
    BY <2>1, <2>2, <2>3, EndSent
<1>4. CASE GotVersion
  <2> DEFINE s == IF job.bl THEN FLASH_START ELSE bootrom_end
             c == StartFlashCmd(s, Address(max_allowed), job.bl)
  <2>1. UNCHANGED unlocks /\ toDev' \in {toDev, Append(toDev, c)}
    BY <1>4 DEF GotVersion, Send, Device
  <2>2. s \in Nat /\ job.bl \in BOOLEAN
    BY <1>0, Layout DEF ClientOK, JobOK
  <2>3. c.end = Address(max_allowed)
    BY DEF StartFlashCmd
  <2>4. c \in Packet /\ c.end <= flash_end
    BY <2>2, <2>3, EndInFlash, StartFlashIsPacket
  <2> HIDE DEF c
  <2> QED
    BY <2>1, <2>4, EndSent
<1>5. CASE WriteBlock
  <2>1. PICK b \in todo : Send(WriteOf(b))
    BY <1>5 DEF WriteBlock, WriteOf
  <2>2. UNCHANGED unlocks /\ toDev' \in {toDev, Append(toDev, WriteOf(b))} /\ fpc # "idle"
    BY <1>5, <2>1 DEF WriteBlock, Send, Device
  <2>3. WriteOf(b) \in Packet /\ WriteOf(b).cmd # "START_FLASH"
    BY <1>0, <2>2, WriteIsPacket DEF WriteOf
  <2> QED
    BY <2>2, <2>3, EndSent
<1>6. CASE BootDevice \/ ButtonLeaves \/ PowerCycle \/ ToggleButton
  <2>1. From({"START_FLASH"})
    BY <1>0, <1>6, StepHasEffect, DeviceIsFrom
  <2>2. CASE ~StartFlash
    <3>1. UNCHANGED unlocks
      BY <1>6, <2>2 DEF BootDevice, ButtonLeaves, PowerCycle, ToggleButton, EnterFlashMode, JumpToOs,
         Identify, FinishWrite, HardwareReset, UnknownPacket, Watchdog, ButtonSeenUp, OsDeviceInfo,
         OsStartFlash, OsReset, OsOther
    <3> QED
      BY <2>1, <3>1, EndsKept
  <2>3. CASE StartFlash
    <3> DEFINE c == Head(toDev)
    <3>1. c.cmd = "START_FLASH" /\ toDev # <<>> /\ unlocks' \in {unlocks, unlocks \cup Unlocks(c)}
      BY <2>3 DEF StartFlash, Received
    <3>2. c.end \in Nat /\ c.end <= flash_end
      <4>1. UsbOK /\ Received("START_FLASH")
        BY <1>0, <2>3 DEF StartFlash, BootTypeOK
      <4>2. c \in Packet
        BY <4>1, HeadIsPacket
      <4>3. 1 \in 1 .. Len(toDev) /\ c = toDev[1]
        BY <3>1, HeadOfLink
      <4> QED
        BY <3>1, <4>2, <4>3, PacketFields DEF EndsInv
    <3> HIDE DEF c
    <3>3. ~(Signed(c.end) < 0)
      BY <3>2, SignedCases, Layout
    <3>4. "sign" \notin unlocks'
      BY <3>1, <3>3 DEF Unlocks, EndsInv
    <3>5. ASSUME NEW i \in 1 .. Len(toDev'), toDev'[i].cmd = "START_FLASH"
          PROVE  toDev'[i].end <= flash_end
      <4>1. PICK j \in 1 .. Len(toDev) : toDev'[i] = toDev[j]
        BY <2>1, <3>5 DEF From
      <4> QED
        BY <3>5, <4>1 DEF EndsInv
    <3> QED
      BY <3>4, <3>5 DEF EndsInv
  <2> QED
    BY <2>2, <2>3
<1> QED
  BY <1>1, <1>2, <1>3, <1>4, <1>5, <1>6 DEF Next, Flasher, DeviceStep, Disturbance

(***************************************************************************)
(* With the flasher at work, no page of the boot ROM is touched before a   *)
(* run that was allowed to has sent the magic number: what START_FLASH     *)
(* promises by its comment, and keeps for a host whose ends are addresses  *)
(* of the flash memory.                                                    *)
(***************************************************************************)
THEOREM FlasherNeedsMagic == Spec => []MagicNeeded
<1>1. Init => EndsInv
  BY DEF Init, BootInit, EndsInv
<1>2. TypeOK /\ PortInv /\ EndsInv /\ [Next]_vars => EndsInv'
  BY EndsStep
<1>3. TypeOK /\ EndsInv /\ BootromLocked => MagicNeeded
  BY DEF TypeOK, BootTypeOK, FlagsOK, EndsInv, BootromLocked, MagicNeeded
<1> QED
  BY <1>1, <1>2, <1>3, FlashingTypeCorrect, FlasherKeepsBootrom, PTL DEF Spec

-----------------------------------------------------------------------------
(***************************************************************************)
(* The waits of an undisturbed run.  None has a timeout, so each must have *)
(* its answer under way.                                                   *)
(***************************************************************************)

\* The link and the processor: down during a reset; a processor that hangs
\* with the link up has a packet before it that it did not know.
LinkInv ==
    /\ mode = "boot" => link = 0
    /\ mode \in {"flash", "os"} => link # 0
    /\ link # 0 /\ toDev = <<>> => mode # "hung"
    /\ link = 0 => toDev = <<>>
    /\ link <= links /\ conn <= links

Clear == toDev = <<>> /\ fromDev = <<>> /\ replies = <<>>

\* One packet p is on its way to the device, or its one answer r on its way
\* back.
Exchange(p, r) ==
    \/ toDev = <<p>> /\ fromDev = <<>> /\ replies = <<>>
    \/ toDev = <<>> /\ fromDev = <<r>> /\ replies = <<>>
    \/ toDev = <<>> /\ fromDev = <<>> /\ replies = <<r>>

\* The answer to a block on its way back begins with a NACK.
Refused ==
    /\ toDev = <<>>
    /\ \/ replies # <<>> /\ Head(replies).cmd = "NACK"
       \/ replies = <<>> /\ fromDev # <<>> /\ Head(fromDev).cmd = "NACK"

AskedStart == IF job.bl THEN FLASH_START ELSE bootrom_end
AskedRange == StartFlashCmd(AskedStart, Address(max_allowed), job.bl)
RangeGranted == start_addr = AskedStart /\ end_addr = Address(max_allowed) /\ granted = link

Running == Connected /\ mode \in {"flash", "os"}
InFlash == Connected /\ mode = "flash"

OnHandover ==
    \/ mode = "os" /\ toDev = <<StartFlashCmd(0, 0, FALSE)>>
    \/ mode = "boot" /\ command = "ENTER_FLASH_MODE" /\ toDev = <<>>
    \/ mode = "flash" /\ toDev = <<>>

\* What holds at each place of an undisturbed run.
Stage ==
    /\ fpc = "open" => toDev = <<>>
    /\ fpc = "ask" => Clear /\ Running
    /\ fpc = "info" => Running /\ Exchange(Simple("DEVICE_INFO"), [cmd |-> "DEVICE_INFO", mode |-> mode])
    /\ fpc = "reopen" => replies = <<>> /\ OnHandover
    /\ fpc = "ask2" => Clear /\ InFlash
    /\ fpc = "info2" => InFlash /\ Exchange(Simple("DEVICE_INFO"), Reply("DEVICE_INFO"))
    /\ fpc = "chip" => InFlash /\ Exchange(Simple("CHIP_INFO"), Reply("CHIP_INFO"))
    /\ fpc = "version" => InFlash /\ Exchange(Simple("BL_VERSION"), Reply("BL_VERSION"))
    /\ fpc = "start" => InFlash /\ Exchange(AskedRange, Reply("ACK")) /\ (toDev = <<>> => RangeGranted)
    /\ fpc \in {"load", "write"} => Clear
    /\ fpc \in {"load", "write", "ack"} => InFlash /\ RangeGranted
    /\ fpc \in {"write", "ack"} => Loadable
    /\ fpc = "ack" => todo # {} /\ (Refused \/ \E b \in todo : Exchange(WriteOf(b), Reply("ACK")))
    /\ fpc = "stop" /\ Connected => mode = "flash" /\ toDev = <<>>
    /\ fpc = "close" /\ Connected =>
         mode = "flash" /\ toDev \in {<<>>, <<Simple("HARDWARE_RESET")>>}

StageInv == ~disturbed => Stage

-----------------------------------------------------------------------------
LEMMA Singles ==
    \A p : /\ Head(<<p>>) = p /\ Tail(<<p>>) = <<>> /\ <<p>> # <<>> /\ Len(<<p>>) = 1
           /\ Append(<<>>, p) = <<p>> /\ <<>> \o <<p>> = <<p>>
  OBVIOUS

\* What no device step does.
LEMMA DeviceKeeps ==
    ASSUME DeviceStep
    PROVE  /\ UNCHANGED <<client, history, button>>
           /\ UNCHANGED links \/ (links' = links + 1 /\ link' = links + 1)
           /\ link' \in {link, 0, links + 1}
  BY DEF DeviceStep, BootDevice, EnterFlashMode, JumpToOs, Identify, StartFlash, FinishWrite,
         HardwareReset, UnknownPacket, Watchdog, ButtonSeenUp, OsDeviceInfo, OsStartFlash,
         OsReset, OsOther, LinkUp, Reset, Answers, usb

\* A device that runs and has no packet to handle only looks at the button.
IdleStep == UNCHANGED <<mode, command, range, flash, usb>>

LEMMA NothingToHandle ==
    ASSUME DeviceStep, toDev = <<>>, mode \in {"flash", "os"}
    PROVE  IdleStep
  BY DEF DeviceStep, BootDevice, EnterFlashMode, JumpToOs, Identify, StartFlash, FinishWrite,
         HardwareReset, UnknownPacket, Watchdog, ButtonSeenUp, OsDeviceInfo, OsStartFlash,
         OsReset, OsOther, Received, IdleStep

\* And one with a packet before it looks at the button or handles it.
LEMMA HandlesInFlash ==
    ASSUME DeviceStep, NEW p, toDev = <<p>>, mode = "flash"
    PROVE  \/ IdleStep
           \/ p.cmd \in {"DEVICE_INFO", "CHIP_INFO", "BL_VERSION"} /\ Identify
           \/ p.cmd = "START_FLASH" /\ StartFlash
           \/ p.cmd = "FINISH_WRITE" /\ FinishWrite
           \/ p.cmd = "HARDWARE_RESET" /\ HardwareReset
           \/ p.cmd = "OTHER" /\ UnknownPacket
<1>1. Head(toDev) = p
  BY Singles
<1> QED
  BY <1>1 DEF DeviceStep, BootDevice, EnterFlashMode, JumpToOs, Identify, StartFlash, FinishWrite,
         HardwareReset, UnknownPacket, Watchdog, ButtonSeenUp, OsDeviceInfo, OsStartFlash,
         OsReset, OsOther, Received, IdleStep

LEMMA AnswersInfo ==
    ASSUME DeviceStep, NEW c \in {"DEVICE_INFO", "CHIP_INFO", "BL_VERSION"},
           toDev = <<Simple(c)>>, fromDev = <<>>,
           mode = "flash" \/ (mode = "os" /\ c = "DEVICE_INFO")
    PROVE  \/ IdleStep
           \/ /\ toDev' = <<>> /\ fromDev' = <<[cmd |-> c, mode |-> mode]>>
              /\ UNCHANGED <<mode, link, links, range>>
<1>1. Head(toDev) = Simple(c) /\ Simple(c).cmd = c /\ Tail(toDev) = <<>>
  BY Singles DEF Simple
<1>2. CASE mode = "flash"
  <2>1. IdleStep \/ Identify
    BY <1>1, <1>2, HandlesInFlash
  <2>2. ASSUME Identify PROVE /\ toDev' = <<>> /\ fromDev' = <<[cmd |-> c, mode |-> mode]>>
                              /\ UNCHANGED <<mode, link, links, range>>
    <3>1. PICK d : d = Head(toDev).cmd /\ Answers(<<Reply(d)>>)
      BY <2>2 DEF Identify, Received
    <3>2. Answers(<<Reply(c)>>)
      BY <1>1, <3>1
    <3> QED
      BY <1>1, <1>2, <2>2, <3>2, Singles DEF Answers, Reply, Identify
  <2> QED
    BY <2>1, <2>2
<1>3. CASE mode = "os" /\ c = "DEVICE_INFO"
  <2>1. OsDeviceInfo
    BY <1>1, <1>3 DEF DeviceStep, BootDevice, EnterFlashMode, JumpToOs, Identify, StartFlash,
         FinishWrite, HardwareReset, UnknownPacket, Watchdog, ButtonSeenUp, OsStartFlash,
         OsReset, OsOther, Received
  <2> QED
    BY <1>1, <1>3, <2>1, Singles DEF OsDeviceInfo, Answers
<1> QED
  BY <1>2, <1>3

\* The range the flasher asks for is within the flash memory.
LEMMA RangeIsSmall ==
    ASSUME TypeOK
    PROVE  /\ AskedStart \in Nat /\ AskedStart <= flash_end
           /\ Address(max_allowed) \in Nat /\ Address(max_allowed) <= flash_end
  BY EndInFlash, Layout DEF AskedStart

\* And it is granted.
LEMMA AnswersRange ==
    ASSUME TypeOK, DeviceStep, toDev = <<AskedRange>>, fromDev = <<>>, mode = "flash"
    PROVE  \/ IdleStep
           \/ /\ toDev' = <<>> /\ fromDev' = <<Reply("ACK")>> /\ UNCHANGED <<mode, link, links>>
              /\ start_addr' = AskedStart /\ end_addr' = Address(max_allowed) /\ granted' = link
<1> DEFINE c == AskedRange
<1>1. /\ Head(toDev) = c /\ Tail(toDev) = <<>> /\ c.cmd = "START_FLASH" /\ c.start = AskedStart
      /\ c.end = Address(max_allowed) /\ c.magic = job.bl
  BY Singles DEF AskedRange, StartFlashCmd
<1>2. IdleStep \/ StartFlash
  BY <1>1, HandlesInFlash
<1>a. /\ Signed(AskedStart) = AskedStart /\ Unsigned(AskedStart) = AskedStart
      /\ Signed(Address(max_allowed)) = Address(max_allowed)
      /\ Unsigned(Address(max_allowed)) = Address(max_allowed)
  BY RangeIsSmall, SignedCases, SmallIsWord, Layout
<1>3. Permitted(job.bl, c)
  <2>1. Address(max_allowed) <= flash_end
    BY EndInFlash
  <2>2. AskedStart >= FLASH_START /\ (~job.bl => AskedStart >= bootrom_end)
    BY Layout DEF AskedStart
  <2> HIDE DEF c
  <2> QED
    BY <1>1, <1>a, <2>1, <2>2 DEF Permitted
<1>4. ASSUME StartFlash
      PROVE  /\ toDev' = <<>> /\ fromDev' = <<Reply("ACK")>> /\ UNCHANGED <<mode, link, links>>
             /\ start_addr' = AskedStart /\ end_addr' = Address(max_allowed) /\ granted' = link
  <2> HIDE DEF c
  <2>1. /\ start_addr' = c.start /\ end_addr' = c.end /\ granted' = link
        /\ Answers(<<Reply("ACK")>>) /\ UNCHANGED mode
    BY <1>1, <1>a, <1>3, <1>4 DEF StartFlash
  <2> QED
    BY <1>1, <2>1, Singles DEF Answers
<1> QED
  BY <1>2, <1>4

LEMMA AnswersWrite ==
    ASSUME TypeOK, DeviceStep, NEW b, toDev = <<WriteOf(b)>>, fromDev = <<>>, mode = "flash"
    PROVE  \/ IdleStep
           \/ /\ toDev' = <<>> /\ UNCHANGED <<mode, link, links, range>>
              /\ \/ fromDev' = <<Reply("ACK")>>
                 \/ fromDev' # <<>> /\ Head(fromDev').cmd = "NACK"
<1> DEFINE c == WriteOf(b)
<1>1. Head(toDev) = c /\ Tail(toDev) = <<>> /\ c.cmd = "FINISH_WRITE"
  BY Singles DEF WriteOf
<1>2. IdleStep \/ FinishWrite
  BY <1>1, HandlesInFlash
<1> HIDE DEF c
<1>3. ASSUME FinishWrite
      PROVE  /\ toDev' = <<>> /\ UNCHANGED <<mode, link, links, range>>
             /\ \/ fromDev' = <<Reply("ACK")>>
                \/ fromDev' # <<>> /\ Head(fromDev').cmd = "NACK"
  <2>1. PICK done \in SUBSET Programmable(c) : Answers(WriteReplies(Cardinality(BlockPages(c) \ done)))
    BY <1>1, <1>3 DEF FinishWrite
  <2> DEFINE n == Cardinality(BlockPages(c) \ done)
             w == WriteReplies(n)
  <2>2. n \in Nat /\ w \in Seq(Response)
    BY LeftOverIsNat, WriteRepliesType
  <2>3. toDev' = <<>> /\ UNCHANGED <<mode, link, links, range>> /\ fromDev' = w
    <3>1. toDev' = Tail(toDev) /\ fromDev' = fromDev \o w /\ UNCHANGED <<link, links>>
      BY <2>1 DEF Answers
    <3>2. <<>> \o w = w
      BY <2>2
    <3> QED
      BY <1>1, <1>3, <3>1, <3>2 DEF FinishWrite
  <2> HIDE DEF n
  <2>4. CASE n = 0
    BY <2>3, <2>4 DEF WriteReplies
  <2>5. CASE n # 0
    <3>1. w = [i \in 1 .. n |-> Reply("NACK")]
      BY <2>5 DEF WriteReplies
    <3>2. Len(w) = n /\ w[1] = Reply("NACK") /\ w # <<>> /\ Head(w) = w[1]
      BY <2>2, <2>5, <3>1
    <3> QED
      BY <2>3, <3>2 DEF Reply
  <2> QED
    BY <2>3, <2>4, <2>5
<1> QED
  BY <1>2, <1>3

LEMMA AnswersReset ==
    ASSUME DeviceStep, toDev = <<Simple("HARDWARE_RESET")>>, mode = "flash"
    PROVE  IdleStep \/ link' = 0
<1>1. Simple("HARDWARE_RESET").cmd = "HARDWARE_RESET"
  BY DEF Simple
<1> QED
  BY <1>1, HandlesInFlash DEF HardwareReset, Reset

\* The handover: the firmware resets the device, which comes back in flash mode.
LEMMA AnswersHandover ==
    ASSUME DeviceStep, OnHandover
    PROVE  OnHandover'
<1>1. CASE mode = "os" /\ toDev = <<StartFlashCmd(0, 0, FALSE)>>
  <2>1. Head(toDev).cmd = "START_FLASH"
    BY <1>1, Singles DEF StartFlashCmd
  <2>2. OsStartFlash
    BY <1>1, <2>1 DEF DeviceStep, BootDevice, EnterFlashMode, JumpToOs, Identify, StartFlash,
         FinishWrite, HardwareReset, UnknownPacket, Watchdog, ButtonSeenUp, OsDeviceInfo,
         OsReset, OsOther, Received
  <2> QED
    BY <2>2 DEF OsStartFlash, Reset, OnHandover
<1>2. CASE mode = "boot" /\ command = "ENTER_FLASH_MODE" /\ toDev = <<>>
  <2>1. EnterFlashMode
    BY <1>2 DEF DeviceStep, BootDevice, JumpToOs, Identify, StartFlash, StaysInFlashMode,
         FinishWrite, HardwareReset, UnknownPacket, Watchdog, ButtonSeenUp, OsDeviceInfo,
         OsStartFlash, OsReset, OsOther
  <2> QED
    BY <1>2, <2>1 DEF EnterFlashMode, LinkUp, OnHandover
<1>3. CASE mode = "flash" /\ toDev = <<>>
  BY <1>3, NothingToHandle DEF IdleStep, usb, OnHandover
<1> QED
  BY <1>1, <1>2, <1>3 DEF OnHandover

-----------------------------------------------------------------------------
LEMMA LinkStart == Init => LinkInv /\ StageInv
  BY DEF Init, BootInit, LinkInv, StageInv, Stage

LEMMA DeviceKeepsLink ==
    ASSUME TypeOK, LinkInv, BootDevice \/ ButtonLeaves \/ PowerCycle \/ ToggleButton, UNCHANGED conn
    PROVE  LinkInv'
<1>0. link \in Nat /\ links \in Nat /\ conn \in Nat /\ link <= links /\ conn <= links
      /\ toDev \in Seq(Packet)
  BY DEF TypeOK, BootTypeOK, UsbOK, ClientOK, ProgressOK, LinkInv
<1>1. CASE EnterFlashMode \/ (JumpToOs /\ mode' = "os")
  <2>1. /\ links' = links + 1 /\ link' = links + 1 /\ UNCHANGED conn /\ mode' \in {"flash", "os"}
    BY <1>1 DEF EnterFlashMode, JumpToOs, LinkUp
  <2> QED
    BY <1>0, <2>1 DEF LinkInv
<1>2. CASE (JumpToOs /\ mode' # "os")
  <2>1. mode' = "hung" /\ UNCHANGED <<link, links, toDev, conn>> /\ mode = "boot"
    BY <1>2 DEF JumpToOs, usb
  <2> QED
    BY <2>1 DEF LinkInv
<1>3. CASE HardwareReset \/ Watchdog \/ ButtonLeaves \/ OsStartFlash \/ OsReset \/ PowerCycle
  <2>1. mode' = "boot" /\ link' = 0 /\ toDev' = <<>> /\ UNCHANGED <<links, conn>>
    BY <1>3 DEF HardwareReset, Watchdog, ButtonLeaves, OsStartFlash, OsReset, PowerCycle, Reset
  <2> QED
    BY <1>0, <2>1 DEF LinkInv
<1>4. CASE ButtonSeenUp \/ ToggleButton
  <2>1. UNCHANGED <<mode, link, links, toDev, conn>>
    BY <1>4 DEF ButtonSeenUp, ToggleButton, usb
  <2> QED
    BY <2>1 DEF LinkInv
<1>5. CASE UnknownPacket
  <2>1. UNCHANGED <<link, links, toDev, conn>> /\ toDev # <<>> /\ mode' = "hung"
    BY <1>5 DEF UnknownPacket, usb, Received
  <2> QED
    BY <2>1 DEF LinkInv
<1>6. CASE Identify \/ StartFlash \/ FinishWrite \/ OsDeviceInfo \/ OsOther
  <2>1. UNCHANGED <<link, links, mode, conn>> /\ mode \in {"flash", "os"}
    BY <1>6 DEF Identify, StartFlash, FinishWrite, OsDeviceInfo, OsOther, Answers
  <2> QED
    BY <2>1 DEF LinkInv
<1> QED
  BY <1>1, <1>2, <1>3, <1>4, <1>5, <1>6 DEF BootDevice

\* The flasher touches the link only by sending on it.
LEMMA SendKeepsLink ==
    ASSUME TypeOK, LinkInv, UNCHANGED <<mode, link, links>>, conn' \in {conn, 0, link},
           \/ UNCHANGED toDev
           \/ link # 0 /\ \E c : toDev' = Append(toDev, c)
    PROVE  LinkInv'
<1>0. link \in Nat /\ links \in Nat /\ conn \in Nat /\ link <= links /\ conn <= links
      /\ toDev \in Seq(Packet)
  BY DEF TypeOK, BootTypeOK, UsbOK, ClientOK, ProgressOK, LinkInv
<1>1. conn' <= links
  BY <1>0
<1>2. link # 0 /\ toDev' # toDev => toDev' # <<>>
  <2>1. ASSUME NEW c, toDev' = Append(toDev, c) PROVE toDev' # <<>>
    BY <1>0, <2>1
  <2> QED
    BY <2>1
<1> QED
  BY <1>0, <1>1, <1>2 DEF LinkInv

LEMMA SendIsAppend ==
    ASSUME NEW c, Send(c)
    PROVE  /\ UNCHANGED <<link, links, fromDev>>
           /\ toDev' = IF Connected THEN Append(toDev, c) ELSE toDev
           /\ UNCHANGED toDev \/ (link # 0 /\ \E d : toDev' = Append(toDev, d))
  BY DEF Send, Connected

LEMMA LinkStep ==
    ASSUME TypeOK, LinkInv, [Next]_vars
    PROVE  LinkInv'
<1> DEFINE Talk == \/ UNCHANGED toDev
                   \/ link # 0 /\ \E c : toDev' = Append(toDev, c)
<1>a. ASSUME UNCHANGED Device, UNCHANGED <<link, links>>, Talk, conn' \in {conn, 0, link} PROVE LinkInv'
  BY <1>a, SendKeepsLink DEF Device
<1>b. ASSUME NEW c, Send(c) PROVE UNCHANGED <<link, links>> /\ Talk
  BY <1>b, SendIsAppend
<1>c. ASSUME Silent PROVE UNCHANGED <<link, links>> /\ Talk
  BY <1>c DEF Silent, usb
<1>d. ASSUME UNCHANGED bootvars PROVE UNCHANGED Device /\ UNCHANGED <<link, links>> /\ Talk
  BY <1>d DEF bootvars, Device, usb
<1> HIDE DEF Talk
<1>1. ASSUME NEW bl, NEW image, Run(bl, image) PROVE LinkInv'
  BY <1>1, <1>a, <1>d DEF Run
<1>2. CASE OpenProxmark
  BY <1>2, <1>a DEF OpenProxmark, Talk
<1>3. CASE OpenTimeout \/ SkipReply \/ AllWritten \/ Close \/ Kill \/ UNCHANGED vars
  BY <1>3, <1>a, <1>d DEF OpenTimeout, SkipReply, AllWritten, Close, Kill, Ends, vars, client
<1>4. CASE Receive
  BY <1>4, <1>a DEF Receive, Talk
<1>5. CASE AskState \/ GotChipInfo \/ GotVersion \/ Stop
  <2>1. \E c : Send(c)
    BY <1>5 DEF AskState, GotChipInfo, GotVersion, Stop
  <2> QED
    BY <1>5, <1>a, <1>b, <2>1 DEF AskState, GotChipInfo, GotVersion, Stop
<1>6. CASE EnterBootloader \/ GotState \/ GotRange \/ FlashLoad \/ WriteBlock \/ GotBlockReply
  <2>1. Silent \/ \E c : Send(c)
    BY <1>6 DEF EnterBootloader, GotState, GotRange, FlashLoad, WriteBlock, GotBlockReply, Fails
  <2>2. UNCHANGED Device /\ conn' \in {conn, 0}
    BY <1>6 DEF EnterBootloader, GotState, GotRange, FlashLoad, WriteBlock, GotBlockReply
  <2> QED
    BY <1>a, <1>b, <1>c, <2>1, <2>2
<1>7. CASE Interference
  BY <1>7, <1>a DEF Interference, Talk, client
<1>8. CASE (BootDevice \/ ButtonLeaves \/ PowerCycle \/ ToggleButton) /\ UNCHANGED client
  BY <1>8, DeviceKeepsLink DEF client
<1>9. CASE DeviceStep \/ Disturbance
  BY <1>3, <1>7, <1>8, <1>9 DEF DeviceStep, Disturbance
<1> QED
  BY <1>1, <1>2, <1>3, <1>4, <1>5, <1>6, <1>9 DEF Next, Flasher

\* Nothing that Stage looks at changes.
LEMMA SameKeepsStage ==
    ASSUME Stage, UNCHANGED <<mode, command, range, usb, client>>
    PROVE  Stage'
<1>1. UNCHANGED <<mode, command, start_addr, end_addr, granted, link, toDev, fromDev,
                  fpc, conn, replies, job, max_allowed, todo>>
  BY DEF range, usb, client
<1>2. (Clear' <=> Clear) /\ (Refused' <=> Refused) /\ (OnHandover' <=> OnHandover)
  BY <1>1 DEF Clear, Refused, OnHandover
<1>3. (Connected' <=> Connected) /\ (Running' <=> Running) /\ (InFlash' <=> InFlash)
  BY <1>1 DEF Connected, Running, InFlash
<1>4. AskedRange' = AskedRange /\ (RangeGranted' <=> RangeGranted) /\ (Loadable' <=> Loadable)
  BY <1>1 DEF AskedRange, AskedStart, RangeGranted, Loadable
<1>5. \A p, r : Exchange(p, r)' <=> Exchange(p, r)
  BY <1>1 DEF Exchange
<1>6. \A b : WriteOf(b)' = WriteOf(b)
  BY <1>1 DEF WriteOf
<1> QED
  BY <1>1, <1>2, <1>3, <1>4, <1>5, <1>6 DEF Stage

LEMMA NoPacketsComeUp ==
    ASSUME DeviceStep, toDev = <<>>
    PROVE  toDev' = <<>>
  BY DEF DeviceStep, BootDevice, EnterFlashMode, JumpToOs, Identify, StartFlash, FinishWrite,
         HardwareReset, UnknownPacket, Watchdog, ButtonSeenUp, OsDeviceInfo, OsStartFlash,
         OsReset, OsOther, Received, LinkUp, Reset, usb

LEMMA DeviceKeepsStage ==
    ASSUME TypeOK, PortInv, LinkInv, Stage, DeviceStep
    PROVE  Stage'
<1>0. /\ UNCHANGED <<client, history>> /\ UNCHANGED <<fpc, conn, replies, job, max_allowed, todo>>
      /\ link' \in {link, 0, links + 1} /\ conn \in Nat /\ links \in Nat /\ conn <= links
  BY DeviceKeeps DEF client, TypeOK, BootTypeOK, UsbOK, ClientOK, ProgressOK, LinkInv
<1>1. IdleStep => Stage'
  BY <1>0, SameKeepsStage DEF IdleStep
<1>2. toDev = <<>> /\ mode \in {"flash", "os"} => Stage'
  BY <1>1, NothingToHandle
<1>3. ~Connected => ~Connected'
  BY <1>0 DEF Connected
<1>4. UNCHANGED <<link, mode>> => (InFlash' <=> InFlash) /\ (Running' <=> Running)
  BY <1>0 DEF InFlash, Running, Connected
<1>5. ASSUME NEW p, NEW r, toDev' = <<>>, fromDev' = <<r>>, replies = <<>> PROVE Exchange(p, r)'
  BY <1>0, <1>5 DEF Exchange
<1>6. ASSUME NEW p, NEW r, Exchange(p, r)
      PROVE  toDev = <<>> \/ (toDev = <<p>> /\ fromDev = <<>> /\ replies = <<>>)
  BY <1>6 DEF Exchange
<1>7. CASE fpc = "open"
  BY <1>0, <1>7, NoPacketsComeUp DEF Stage
<1>8. CASE fpc \in {"ask", "ask2", "load", "write"}
  BY <1>2, <1>8 DEF Stage, Clear, Running, InFlash
<1>9. CASE fpc = "info"
  <2>1. Running /\ mode \in {"flash", "os"}
        /\ Exchange(Simple("DEVICE_INFO"), [cmd |-> "DEVICE_INFO", mode |-> mode])
    BY <1>9 DEF Stage, Running
  <2>2. CASE toDev = <<Simple("DEVICE_INFO")>> /\ fromDev = <<>> /\ replies = <<>>
    <3>1. \/ IdleStep
          \/ /\ toDev' = <<>> /\ fromDev' = <<[cmd |-> "DEVICE_INFO", mode |-> mode]>>
             /\ UNCHANGED <<mode, link, links, range>>
      BY <2>1, <2>2, AnswersInfo
    <3>2. ASSUME toDev' = <<>>, fromDev' = <<[cmd |-> "DEVICE_INFO", mode |-> mode]>>,
                 UNCHANGED <<mode, link>>
          PROVE  Stage'
      <4>1. Running' /\ Exchange(Simple("DEVICE_INFO"), [cmd |-> "DEVICE_INFO", mode |-> mode])'
        BY <1>0, <1>4, <2>1, <2>2, <3>2 DEF Exchange
      <4> QED
        BY <1>0, <1>9, <4>1 DEF Stage
    <3> QED
      BY <1>1, <3>1, <3>2
  <2> QED
    BY <1>2, <1>6, <2>1, <2>2
<1>10. ASSUME NEW c \in {"DEVICE_INFO", "CHIP_INFO", "BL_VERSION"}, InFlash,
              Exchange(Simple(c), Reply(c))
       PROVE  Stage' \/ (InFlash' /\ Exchange(Simple(c), Reply(c))')
  <2>1. mode = "flash"
    BY <1>10 DEF InFlash
  <2>2. CASE toDev = <<Simple(c)>> /\ fromDev = <<>> /\ replies = <<>>
    <3>1. \/ IdleStep
          \/ toDev' = <<>> /\ fromDev' = <<Reply(c)>> /\ UNCHANGED <<mode, link, links, range>>
      BY <2>1, <2>2, AnswersInfo DEF Reply
    <3> QED
      BY <1>1, <1>4, <1>5, <1>10, <2>2, <3>1
  <2> QED
    BY <1>2, <1>6, <1>10, <2>1, <2>2
<1>11. CASE fpc = "info2"
  BY <1>0, <1>10, <1>11 DEF Stage
<1>12. CASE fpc = "chip"
  BY <1>0, <1>10, <1>12 DEF Stage
<1>13. CASE fpc = "version"
  BY <1>0, <1>10, <1>13 DEF Stage
<1>14. CASE fpc = "reopen"
  <2>1. replies = <<>> /\ OnHandover
    BY <1>14 DEF Stage
  <2> QED
    BY <1>0, <1>14, <2>1, AnswersHandover DEF Stage
<1>15. CASE fpc = "start"
  <2>1. InFlash /\ mode = "flash" /\ Exchange(AskedRange, Reply("ACK"))
    BY <1>15 DEF Stage, InFlash
  <2>2. CASE toDev = <<AskedRange>> /\ fromDev = <<>> /\ replies = <<>>
    <3>1. CASE IdleStep
      BY <1>1, <3>1
    <3>2. CASE ~IdleStep
      <4>1. /\ toDev' = <<>> /\ fromDev' = <<Reply("ACK")>> /\ UNCHANGED <<mode, link, links>>
            /\ start_addr' = AskedStart /\ end_addr' = Address(max_allowed) /\ granted' = link
        BY <2>1, <2>2, <3>2, AnswersRange
      <4>2. AskedRange' = AskedRange /\ RangeGranted'
        BY <1>0, <4>1 DEF AskedRange, AskedStart, RangeGranted
      <4>3. InFlash' /\ Exchange(AskedRange, Reply("ACK"))'
        <5>1. InFlash'
          BY <1>4, <2>1, <4>1
        <5> QED
          BY <1>0, <2>2, <4>1, <5>1 DEF Exchange
      <4> QED
        BY <1>0, <1>15, <4>2, <4>3 DEF Stage
    <3> QED
      BY <3>1, <3>2
  <2> QED
    BY <1>2, <1>6, <2>1, <2>2
<1>16. CASE fpc = "ack"
  <2>1. /\ InFlash /\ mode = "flash" /\ RangeGranted /\ Loadable /\ todo # {}
        /\ Refused \/ \E b \in todo : Exchange(WriteOf(b), Reply("ACK"))
    BY <1>16 DEF Stage, InFlash
  <2>2. CASE Refused
    BY <1>2, <2>1, <2>2 DEF Refused
  <2>3. ASSUME NEW b \in todo, Exchange(WriteOf(b), Reply("ACK")) PROVE Stage'
    <3>1. CASE toDev = <<>> \/ IdleStep
      BY <1>1, <1>2, <2>1, <3>1
    <3>2. CASE toDev # <<>> /\ ~IdleStep
      <4>1. toDev = <<WriteOf(b)>> /\ fromDev = <<>> /\ replies = <<>>
        BY <1>6, <2>3, <3>2
      <4>2. /\ toDev' = <<>> /\ UNCHANGED <<mode, link, links, range>>
            /\ \/ fromDev' = <<Reply("ACK")>>
               \/ fromDev' # <<>> /\ Head(fromDev').cmd = "NACK"
        BY <2>1, <3>2, <4>1, AnswersWrite
      <4>3. InFlash' /\ RangeGranted' /\ Loadable'
        <5>1. RangeGranted'
          BY <1>0, <2>1, <4>2 DEF RangeGranted, AskedStart, range
        <5>2. Loadable'
          BY <1>0, <2>1 DEF Loadable
        <5> QED
          BY <1>4, <2>1, <4>2, <5>1, <5>2
      <4>4. Refused' \/ Exchange(WriteOf(b), Reply("ACK"))'
        BY <1>0, <4>1, <4>2 DEF Refused, Exchange
      <4> QED
        BY <1>0, <1>16, <2>1, <4>3, <4>4 DEF Stage
    <3> QED
      BY <3>1, <3>2
  <2> QED
    BY <2>1, <2>2, <2>3
<1>17. CASE fpc \in {"stop", "close"}
  <2>1. CASE ~Connected
    BY <1>0, <1>3, <1>17, <2>1 DEF Stage
  <2>2. CASE Connected /\ toDev = <<>>
    BY <1>2, <1>17, <2>2 DEF Stage
  <2>3. CASE Connected /\ toDev # <<>>
    <3>1. fpc = "close" /\ mode = "flash" /\ toDev = <<Simple("HARDWARE_RESET")>>
      BY <1>17, <2>3 DEF Stage
    <3>2. IdleStep \/ link' = 0
      BY <3>1, AnswersReset
    <3>3. link' = 0 => ~Connected'
      BY DEF Connected
    <3> QED
      BY <1>0, <1>1, <3>1, <3>2, <3>3 DEF Stage
  <2> QED
    BY <2>1, <2>2, <2>3
<1>18. CASE fpc = "idle"
  BY <1>0, <1>18 DEF Stage
<1> QED
  BY <1>7, <1>8, <1>9, <1>11, <1>12, <1>13, <1>14, <1>15, <1>16, <1>17, <1>18
     DEF TypeOK, ClientOK, ProgressOK

\* The communication thread takes the one reply.
LEMMA ReceiveKeepsStage ==
    ASSUME TypeOK, PortInv, Stage, Receive
    PROVE  Stage'
<1>0. /\ Connected /\ fromDev # <<>> /\ replies' = Append(replies, Head(fromDev)) /\ fromDev' = Tail(fromDev)
      /\ UNCHANGED <<mode, command, start_addr, end_addr, granted, link, toDev, fpc, conn, job,
                     max_allowed, todo>>
  BY DEF Receive, Device, area, range
<1>1. (Connected' <=> Connected) /\ (Running' <=> Running) /\ (InFlash' <=> InFlash)
  BY <1>0 DEF Connected, Running, InFlash
<1>2. AskedRange' = AskedRange /\ (RangeGranted' <=> RangeGranted) /\ (Loadable' <=> Loadable)
      /\ \A b : WriteOf(b)' = WriteOf(b)
  BY <1>0 DEF AskedRange, AskedStart, RangeGranted, Loadable, WriteOf
<1>3. ASSUME NEW p, NEW r, Exchange(p, r) PROVE Exchange(p, r)'
  BY <1>0, <1>3, Singles DEF Exchange
<1>4. fpc \notin {"open", "reopen", "ask", "ask2", "load", "write"}
  BY <1>0 DEF PortInv, Connected, Stage, Clear
<1>5. Refused => Refused'
  <2> SUFFICES ASSUME Refused PROVE Refused'
    OBVIOUS
  <2>1. replies \in Seq(Response) /\ Head(fromDev) \in Response
    BY <1>0, HeadTailProperties DEF TypeOK, BootTypeOK, UsbOK, ClientOK
  <2>2. CASE replies # <<>>
    <3>1. replies' # <<>> /\ Head(replies') = Head(replies)
      BY <1>0, <2>1, <2>2, AppendProperties, HeadTailProperties
    <3> QED
      BY <1>0, <2>2, <3>1 DEF Refused
  <2>3. CASE replies = <<>>
    BY <1>0, <2>3, Singles DEF Refused
  <2> QED
    BY <2>2, <2>3
<1> QED
  BY <1>0, <1>1, <1>2, <1>3, <1>4, <1>5 DEF Stage

\* The reply taken is the one that was waited for.
LEMMA TakesTheAnswer ==
    ASSUME NEW p, NEW r, Exchange(p, r), replies # <<>>, replies' = Tail(replies)
    PROVE  Head(replies) = r /\ toDev = <<>> /\ fromDev = <<>> /\ replies' = <<>>
  BY Singles DEF Exchange

\* A request on an empty link begins an exchange.
LEMMA AsksAlone ==
    ASSUME NEW p, NEW r, Send(p), Connected, toDev = <<>>, fromDev = <<>>, replies' = <<>>
    PROVE  Exchange(p, r)' /\ toDev' = <<p>> /\ UNCHANGED link
  BY Singles DEF Send, Exchange

LEMMA FlasherKeepsStage ==
    ASSUME TypeOK, PortInv, LinkInv, Stage, Flasher
    PROVE  Stage'
<1>a. mode \in {"boot", "flash", "os", "hung"}
  BY DEF TypeOK, BootTypeOK, CpuOK
<1>b. ASSUME UNCHANGED Device
      PROVE  UNCHANGED <<mode, command, start_addr, end_addr, granted>>
  BY <1>b DEF Device, area, range
<1>c. ASSUME UNCHANGED <<mode, link, conn>>
      PROVE  (Connected' <=> Connected) /\ (Running' <=> Running) /\ (InFlash' <=> InFlash)
  BY <1>c DEF Connected, Running, InFlash
<1>d. ASSUME Silent PROVE UNCHANGED <<link, toDev, fromDev>>
  BY <1>d DEF Silent, usb
<1>e. ASSUME UNCHANGED <<start_addr, end_addr, granted, link, job, max_allowed>>
      PROVE  (RangeGranted' <=> RangeGranted) /\ (Loadable' <=> Loadable) /\ AskedRange' = AskedRange
  BY <1>e DEF RangeGranted, AskedStart, Loadable, AskedRange
<1>f. InFlash => Connected /\ mode = "flash"
  BY DEF InFlash
<1>1. CASE OpenProxmark
  <2>1. /\ link # 0 /\ conn' = link /\ UNCHANGED <<link, toDev, replies, mode>> /\ fromDev' = <<>>
        /\ fpc \in {"open", "reopen"} /\ (fpc = "reopen" => toDev = <<>>)
        /\ fpc' = IF fpc = "open" THEN "ask" ELSE "ask2"
    BY <1>1, <1>b DEF OpenProxmark
  <2>2. Connected'
    BY <2>1 DEF Connected
  <2>3. CASE fpc = "open"
    <3>1. toDev = <<>> /\ replies = <<>>
      BY <2>3 DEF Stage, PortInv
    <3>2. mode \in {"flash", "os"}
      BY <1>a, <2>1, <3>1 DEF LinkInv
    <3> QED
      BY <2>1, <2>2, <2>3, <3>1, <3>2 DEF Stage, Clear, Running
  <2>4. CASE fpc = "reopen"
    <3>1. toDev = <<>> /\ replies = <<>> /\ OnHandover
      BY <2>1, <2>4 DEF Stage
    <3>2. mode = "flash"
      BY <2>1, <3>1, Singles DEF LinkInv, OnHandover
    <3> QED
      BY <2>1, <2>2, <2>4, <3>1, <3>2 DEF Stage, Clear, InFlash
  <2> QED
    BY <2>1, <2>3, <2>4
<1>2. CASE OpenTimeout
  <2>1. fpc' \in {"idle", "stop"} /\ conn' = 0
    BY <1>2 DEF OpenTimeout, PortInv
  <2> QED
    BY <2>1 DEF Stage, Connected
<1>3. CASE AskState
  <2>1. /\ Send(Simple("DEVICE_INFO")) /\ UNCHANGED <<mode, conn, replies>> /\ fpc \in {"ask", "ask2"}
        /\ fpc' = IF fpc = "ask" THEN "info" ELSE "info2"
    BY <1>3, <1>b DEF AskState
  <2>2. Clear /\ Connected /\ (fpc = "ask" => Running) /\ (fpc = "ask2" => InFlash)
    BY <2>1 DEF Stage, Running, InFlash
  <2>3. toDev' = <<Simple("DEVICE_INFO")>> /\ fromDev' = <<>> /\ replies' = <<>> /\ link' = link
    BY <2>1, <2>2, Singles DEF Clear, Send
  <2>4. (fpc = "ask" => Running') /\ (fpc = "ask2" => InFlash')
    BY <1>c, <2>1, <2>2, <2>3
  <2> QED
    BY <2>1, <2>3, <2>4 DEF Stage, Exchange
<1>4. CASE EnterBootloader
  <2> DEFINE r == Head(replies)
  <2>1. fpc = "info" /\ replies # <<>> /\ replies' = Tail(replies) /\ UNCHANGED mode
    BY <1>4, <1>b DEF EnterBootloader, Takes
  <2>2. Running /\ Exchange(Simple("DEVICE_INFO"), [cmd |-> "DEVICE_INFO", mode |-> mode])
    BY <2>1 DEF Stage
  <2>3. /\ r = [cmd |-> "DEVICE_INFO", mode |-> mode]
        /\ toDev = <<>> /\ fromDev = <<>> /\ replies' = <<>>
    BY <2>1, <2>2, TakesTheAnswer
  <2>4. Connected /\ mode \in {"flash", "os"}
    BY <2>2 DEF Running
  <2>5. CASE mode = "flash"
    <3>1. InBootrom(r) /\ ~InOs(r)
      BY <2>3, <2>5 DEF InBootrom, InOs
    <3>2. fpc' = "ask2" /\ Silent /\ UNCHANGED conn
      BY <1>4, <3>1 DEF EnterBootloader
    <3> QED
      BY <1>c, <1>d, <2>1, <2>3, <2>4, <2>5, <3>2 DEF Stage, Clear, InFlash
  <2>6. CASE mode = "os"
    <3>1. ~OldBootrom(r) /\ ~InBootrom(r) /\ InOs(r)
      BY <2>3, <2>6 DEF InBootrom, InOs, OldBootrom
    <3>2. fpc' = "reopen" /\ Send(StartFlashCmd(0, 0, FALSE))
      BY <1>4, <3>1 DEF EnterBootloader
    <3>3. toDev' = <<StartFlashCmd(0, 0, FALSE)>>
      BY <2>3, <2>4, <3>2, Singles DEF Send
    <3> QED
      BY <2>1, <2>3, <2>6, <3>2, <3>3 DEF Stage, OnHandover
  <2> QED
    BY <2>4, <2>5, <2>6
<1>5. CASE GotState
  <2> DEFINE r == Head(replies)
  <2>1. fpc = "info2" /\ replies # <<>> /\ replies' = Tail(replies) /\ UNCHANGED <<mode, conn>>
    BY <1>5, <1>b DEF GotState, Takes
  <2>2. InFlash /\ Exchange(Simple("DEVICE_INFO"), Reply("DEVICE_INFO"))
    BY <2>1 DEF Stage
  <2>3. r = Reply("DEVICE_INFO") /\ toDev = <<>> /\ fromDev = <<>> /\ replies' = <<>>
    BY <2>1, <2>2, TakesTheAnswer
  <2>4. InBootrom(r) /\ ~OldBootrom(r) /\ ~InOs(r)
    BY <2>3 DEF InBootrom, InOs, OldBootrom, Reply
  <2>5. Send(Simple("CHIP_INFO")) /\ fpc' = "chip"
    BY <1>5, <2>4 DEF GotState
  <2>6. Exchange(Simple("CHIP_INFO"), Reply("CHIP_INFO"))' /\ UNCHANGED link
    BY <1>f, <2>2, <2>3, <2>5, AsksAlone
  <2> QED
    BY <1>c, <2>1, <2>2, <2>5, <2>6 DEF Stage
<1>6. ~SkipReply
  <2> SUFFICES ASSUME SkipReply PROVE FALSE
    OBVIOUS
  <2>1. /\ fpc \in {"chip", "version"} /\ replies # <<>> /\ replies' = Tail(replies)
        /\ Head(replies).cmd # Awaited
    BY DEF SkipReply, Takes
  <2>2. fpc = "chip" => Head(replies) = Reply("CHIP_INFO")
    BY <2>1, TakesTheAnswer DEF Stage
  <2>3. fpc = "version" => Head(replies) = Reply("BL_VERSION")
    BY <2>1, TakesTheAnswer DEF Stage
  <2> QED
    BY <2>1, <2>2, <2>3 DEF Reply, Awaited
<1>7. CASE GotChipInfo
  <2>1. /\ fpc = "chip" /\ replies # <<>> /\ replies' = Tail(replies) /\ UNCHANGED <<mode, conn>>
        /\ Send(Simple("BL_VERSION")) /\ fpc' = "version"
    BY <1>7, <1>b DEF GotChipInfo, Takes
  <2>2. InFlash /\ Exchange(Simple("CHIP_INFO"), Reply("CHIP_INFO"))
    BY <2>1 DEF Stage
  <2>3. toDev = <<>> /\ fromDev = <<>> /\ replies' = <<>>
    BY <2>1, <2>2, TakesTheAnswer
  <2>4. Exchange(Simple("BL_VERSION"), Reply("BL_VERSION"))' /\ UNCHANGED link
    BY <1>f, <2>1, <2>2, <2>3, AsksAlone
  <2> QED
    BY <1>c, <2>1, <2>2, <2>4 DEF Stage
<1>8. CASE GotVersion
  <2>1. /\ fpc = "version" /\ replies # <<>> /\ replies' = Tail(replies) /\ UNCHANGED <<mode, conn>>
        /\ Send(AskedRange) /\ fpc' = "start" /\ UNCHANGED <<job, max_allowed>>
    BY <1>8, <1>b DEF GotVersion, Takes, AskedRange, AskedStart
  <2>2. InFlash /\ Exchange(Simple("BL_VERSION"), Reply("BL_VERSION"))
    BY <2>1 DEF Stage
  <2>3. toDev = <<>> /\ fromDev = <<>> /\ replies' = <<>>
    BY <2>1, <2>2, TakesTheAnswer
  <2>4. toDev' = <<AskedRange>> /\ fromDev' = <<>> /\ UNCHANGED link
    BY <1>f, <2>1, <2>2, <2>3, Singles DEF Send
  <2>5. AskedRange' = AskedRange /\ InFlash'
    BY <1>c, <2>1, <2>2, <2>4 DEF AskedRange, AskedStart
  <2> QED
    BY <2>1, <2>3, <2>4, <2>5, Singles DEF Stage, Exchange
<1>9. CASE GotRange
  <2>1. /\ fpc = "start" /\ replies # <<>> /\ replies' = Tail(replies)
        /\ UNCHANGED <<mode, conn, job, max_allowed, start_addr, end_addr, granted>>
    BY <1>9, <1>b DEF GotRange, Takes
  <2>2. InFlash /\ Exchange(AskedRange, Reply("ACK")) /\ (toDev = <<>> => RangeGranted)
    BY <2>1 DEF Stage
  <2>3. Head(replies) = Reply("ACK") /\ toDev = <<>> /\ fromDev = <<>> /\ replies' = <<>>
    BY <2>1, <2>2, TakesTheAnswer
  <2>4. fpc' = "load" /\ Silent
    BY <1>9, <2>3 DEF GotRange, Acked, Reply
  <2> QED
    BY <1>c, <1>d, <1>e, <2>1, <2>2, <2>3, <2>4 DEF Stage, Clear
<1>10. CASE FlashLoad
  <2>1. /\ fpc = "load" /\ Silent /\ UNCHANGED <<mode, conn, job, max_allowed, start_addr, end_addr,
                                                granted, replies>>
        /\ (fpc' = "write" /\ Loadable) \/ fpc' = "stop"
    BY <1>10, <1>b DEF FlashLoad, Fails
  <2>2. InFlash /\ Clear /\ RangeGranted /\ mode = "flash"
    BY <2>1 DEF Stage, InFlash
  <2> QED
    BY <1>c, <1>d, <1>e, <2>1, <2>2 DEF Stage, Clear
<1>11. CASE WriteBlock
  <2>1. /\ fpc = "write" /\ fpc' = "ack" /\ todo # {}
        /\ UNCHANGED <<mode, conn, job, max_allowed, start_addr, end_addr, granted, replies, todo>>
    BY <1>11, <1>b DEF WriteBlock
  <2>2. PICK b \in todo : Send(WriteOf(b))
    BY <1>11 DEF WriteBlock, WriteOf
  <2>3. InFlash /\ Clear /\ RangeGranted /\ Loadable /\ Connected
    BY <2>1 DEF Stage, InFlash
  <2>4. toDev' = <<WriteOf(b)>> /\ fromDev' = <<>> /\ UNCHANGED link /\ replies' = <<>>
    BY <2>1, <2>2, <2>3, Singles DEF Send, Clear
  <2>5. WriteOf(b)' = WriteOf(b)
    BY <2>1 DEF WriteOf
  <2>6. Exchange(WriteOf(b), Reply("ACK"))'
    BY <2>4, <2>5 DEF Exchange
  <2>7. InFlash' /\ RangeGranted' /\ Loadable'
    BY <1>c, <1>e, <2>1, <2>3, <2>4
  <2> QED
    BY <2>1, <2>6, <2>7 DEF Stage
<1>12. CASE GotBlockReply
  <2>1. /\ fpc = "ack" /\ replies # <<>> /\ replies' = Tail(replies) /\ Silent
        /\ UNCHANGED <<mode, conn, job, max_allowed, start_addr, end_addr, granted>>
    BY <1>12, <1>b DEF GotBlockReply, Takes
  <2>2. /\ InFlash /\ RangeGranted /\ Loadable /\ mode = "flash"
        /\ Refused \/ \E b \in todo : Exchange(WriteOf(b), Reply("ACK"))
    BY <2>1 DEF Stage, InFlash
  <2>3. toDev = <<>>
    BY <2>1, <2>2, TakesTheAnswer DEF Refused
  <2>4. (Connected' <=> Connected) /\ (InFlash' <=> InFlash) /\ (RangeGranted' <=> RangeGranted)
        /\ (Loadable' <=> Loadable) /\ toDev' = <<>> /\ fromDev' = fromDev
    BY <1>c, <1>d, <1>e, <2>1, <2>3
  <2>5. CASE ~Acked
    <3>1. fpc' = "stop"
      BY <1>12, <2>5 DEF GotBlockReply, Fails
    <3> QED
      BY <2>1, <2>2, <2>4, <3>1 DEF Stage
  <2>6. CASE Acked
    <3>1. fpc' = "write"
      BY <1>12, <2>6 DEF GotBlockReply
    <3>2. ~Refused
      BY <2>1, <2>6 DEF Refused, Acked
    <3>3. fromDev = <<>> /\ replies' = <<>>
      BY <2>1, <2>2, <3>2, TakesTheAnswer
    <3> QED
      BY <2>1, <2>2, <2>4, <3>1, <3>3 DEF Stage, Clear
  <2> QED
    BY <2>5, <2>6
<1>13. CASE AllWritten
  <2>1. fpc = "write" /\ fpc' = "stop" /\ UNCHANGED <<mode, toDev>>
    BY <1>13 DEF AllWritten, bootvars, usb
  <2>2. Clear /\ mode = "flash"
    BY <2>1 DEF Stage, InFlash
  <2> QED
    BY <2>1, <2>2 DEF Stage, Clear
<1>14. CASE Stop
  <2>1. /\ fpc = "stop" /\ fpc' = "close" /\ Send(Simple("HARDWARE_RESET"))
        /\ UNCHANGED <<mode, conn>>
    BY <1>14, <1>b DEF Stop
  <2>2. Connected' <=> Connected
    BY <2>1 DEF Connected, Send
  <2>3. Connected => mode = "flash" /\ toDev = <<>>
    BY <2>1 DEF Stage
  <2>4. Connected => toDev' = <<Simple("HARDWARE_RESET")>>
    BY <2>1, <2>3, Singles DEF Send
  <2> QED
    BY <2>1, <2>2, <2>3, <2>4 DEF Stage
<1>15. CASE Close
  BY <1>15 DEF Close, Ends, Stage
<1> QED
  BY <1>1, <1>2, <1>3, <1>4, <1>5, <1>6, <1>7, <1>8, <1>9, <1>10, <1>11, <1>12, <1>13, <1>14, <1>15
     DEF Flasher

LEMMA StageStep ==
    ASSUME TypeOK, PortInv, LinkInv, StageInv, [Next]_vars
    PROVE  StageInv'
<1> SUFFICES ASSUME ~disturbed' PROVE Stage'
  BY DEF StageInv
<1>1. ASSUME NEW bl \in BOOLEAN, NEW image \in Images, Run(bl, image) PROVE Stage'
  <2>1. fpc' = "open" /\ toDev = <<>> /\ UNCHANGED bootvars
    BY <1>1 DEF Run
  <2>2. toDev' = <<>>
    BY <2>1 DEF bootvars, usb
  <2> QED
    BY <2>1, <2>2 DEF Stage
<1>2. CASE Flasher
  <2>1. UNCHANGED disturbed
    BY <1>2 DEF Flasher, history, OpenProxmark, OpenTimeout, AskState, EnterBootloader, GotState,
                SkipReply, GotChipInfo, GotVersion, GotRange, FlashLoad, WriteBlock, GotBlockReply,
                AllWritten, Stop, Close
  <2> QED
    BY <1>2, <2>1, FlasherKeepsStage DEF StageInv
<1>3. CASE Receive
  BY <1>3, ReceiveKeepsStage DEF StageInv, Receive, history
<1>4. CASE DeviceStep
  BY <1>4, DeviceKeepsStage DEF StageInv, DeviceStep, history
<1>5. CASE Disturbance
  <2>1. ToggleButton /\ UNCHANGED <<client, history>>
    BY <1>5 DEF Disturbance, Kill, Interference
  <2> QED
    BY <2>1, SameKeepsStage DEF ToggleButton, StageInv, history, area
<1>6. CASE UNCHANGED vars
  <2>1. UNCHANGED <<mode, command, range, usb, client, disturbed>>
    BY <1>6 DEF vars, bootvars, history, area
  <2> QED
    BY <2>1, SameKeepsStage DEF StageInv
<1> QED
  BY <1>1, <1>2, <1>3, <1>4, <1>5, <1>6 DEF Next

LEMMA StageAlways == Spec => [](TypeOK /\ PortInv /\ LinkInv /\ StageInv)
<1>1. TypeOK /\ PortInv /\ LinkInv /\ StageInv /\ [Next]_vars => LinkInv' /\ StageInv'
  BY LinkStep, StageStep
<1> QED
  BY <1>1, LinkStart, FlashingTypeCorrect, PTL DEF Spec

-----------------------------------------------------------------------------
(* What is proved of undisturbed runs *)

Waits == {"info", "info2", "chip", "version", "start", "ack"}

\* The flasher, its communication thread or the device can take a step: the
\* flasher has something to do, the reply it waits for or its port; a reply is
\* there to be received; or the device has a packet that it knows before it.
CanGoOn ==
    \/ fpc \in {"open", "ask", "ask2", "load", "stop"}
    \/ fpc = "write" /\ (todo # {} => \E b \in todo : \A d \in todo : b <= d)
    \/ fpc = "reopen" /\ (link = 0 \/ toDev = <<>>)
    \/ fpc \in Waits /\ replies # <<>>
    \/ fpc = "close" /\ (Connected => toDev = <<>>)
    \/ Connected /\ fromDev # <<>>
    \/ mode \in {"flash", "os"} /\ toDev # <<>> /\ Head(toDev).cmd # "OTHER"

RunNotStuck == fpc # "idle" /\ ~disturbed => CanGoOn

\* The first of a set of blocks.
LEMMA LeastBlock ==
    ASSUME NEW T, T \subseteq Nat, T # {}
    PROVE  \E x \in T : \A y \in T : x <= y
<1> DEFINE R == OpToRel(<, Nat)
<1>1. IsWellFoundedOn(R, Nat)
  BY NatLessThanWellFounded
<1>2. \A x, y \in Nat : x < y => <<x, y>> \in R
  BY DEF OpToRel
<1> HIDE DEF R
<1>3. PICK x \in T : \A y \in T : ~ (<<y, x>> \in R)
  BY <1>1, WFMin
<1>4. ASSUME NEW y \in T PROVE x <= y
  <2>1. x \in Nat /\ y \in Nat /\ ~(y < x)
    BY <1>2, <1>3
  <2> QED
    BY <2>1
<1> QED
  BY <1>4

LEMMA TodoIsNat ==
    ASSUME TypeOK
    PROVE  todo \subseteq Nat
<1>1. todo \subseteq job.image /\ job.image \in Images \cup {{}}
  BY DEF TypeOK, ClientOK, JobOK
<1> QED
  BY <1>1, RunsAssumption

(***************************************************************************)
(* None of the flasher's waits has a timeout, and in an undisturbed run    *)
(* none is in vain: from whatever earlier runs have left, the flasher can  *)
(* go on, or the reply it waits for is there to be received, or the device *)
(* runs and has the request before it.                                     *)
(***************************************************************************)
THEOREM UndisturbedRunNotStuck == Spec => []RunNotStuck
<1>1. TypeOK /\ PortInv /\ LinkInv /\ StageInv => RunNotStuck
  <2> SUFFICES ASSUME TypeOK, StageInv, fpc # "idle", ~disturbed PROVE CanGoOn
    BY DEF RunNotStuck
  <2>0. Stage
    BY DEF StageInv
  <2>1. CASE fpc \in {"open", "ask", "ask2", "load", "stop"}
    BY <2>1 DEF CanGoOn
  <2>2. CASE fpc = "write"
    BY <2>2, TodoIsNat, LeastBlock DEF CanGoOn
  <2>3. CASE fpc = "reopen"
    <3>1. OnHandover
      BY <2>0, <2>3 DEF Stage
    <3> QED
      BY <2>3, <3>1, Singles DEF OnHandover, StartFlashCmd, CanGoOn
  <2>4. ASSUME NEW p, NEW r, Exchange(p, r), Connected, mode \in {"flash", "os"}, p.cmd # "OTHER",
               fpc \in Waits
        PROVE  CanGoOn
    BY <2>4, Singles DEF Exchange, CanGoOn
  <2>5. CASE fpc = "info"
    BY <2>0, <2>4, <2>5 DEF Stage, Running, Waits, Simple
  <2>6. CASE fpc = "info2"
    BY <2>0, <2>4, <2>6 DEF Stage, InFlash, Waits, Simple
  <2>7. CASE fpc = "chip"
    BY <2>0, <2>4, <2>7 DEF Stage, InFlash, Waits, Simple
  <2>8. CASE fpc = "version"
    BY <2>0, <2>4, <2>8 DEF Stage, InFlash, Waits, Simple
  <2>9. CASE fpc = "start"
    <3>1. InFlash /\ Exchange(AskedRange, Reply("ACK"))
      BY <2>0, <2>9 DEF Stage
    <3>2. AskedRange.cmd # "OTHER"
      BY DEF AskedRange, StartFlashCmd
    <3> QED
      BY <2>4, <2>9, <3>1, <3>2 DEF InFlash, Waits
  <2>10. CASE fpc = "ack"
    <3>1. InFlash /\ (Refused \/ \E b \in todo : Exchange(WriteOf(b), Reply("ACK")))
      BY <2>0, <2>10 DEF Stage
    <3>2. CASE Refused
      BY <2>10, <3>1, <3>2 DEF Refused, InFlash, CanGoOn, Waits
    <3>3. ASSUME NEW b \in todo, Exchange(WriteOf(b), Reply("ACK")) PROVE CanGoOn
      <4>1. WriteOf(b).cmd # "OTHER"
        BY DEF WriteOf
      <4> QED
        BY <2>4, <2>10, <3>1, <3>3, <4>1 DEF InFlash, Waits
    <3> QED
      BY <3>1, <3>2, <3>3
  <2>11. CASE fpc = "close"
    <3>1. Connected /\ toDev # <<>> => mode = "flash" /\ toDev = <<Simple("HARDWARE_RESET")>>
      BY <2>0, <2>11 DEF Stage
    <3> QED
      BY <2>11, <3>1, Singles DEF CanGoOn, Simple
  <2> QED
    BY <2>1, <2>2, <2>3, <2>5, <2>6, <2>7, <2>8, <2>9, <2>10, <2>11
       DEF TypeOK, ClientOK, ProgressOK
<1> QED
  BY <1>1, StageAlways, PTL

\* A block that waits to be handled lies in the range that was granted.
BlocksInRange ==
    ~disturbed /\ fpc = "ack" /\ toDev # <<>> =>
        Programmable(Head(toDev)) = BlockPages(Head(toDev))

LEMMA LoadableInRange ==
    ASSUME TypeOK, Loadable, RangeGranted, NEW b \in job.image
    PROVE  /\ InRange(BlockAddress(b)) /\ InRange(BlockAddress(b) + PAGE)
           /\ BlockPages(WriteOf(b)) = PagesOf(b)
<1>1. /\ FLASH_START \in Nat /\ PAGE \in Nat /\ PAGE > 0 /\ b \in Nat
  <2>1. b \in Nat
    BY LoadablePages DEF TypeOK
  <2> QED
    BY <2>1, FlashAssumption
<1>2. Address(max_allowed) \in Nat /\ bootrom_end \in Nat /\ job.bl \in BOOLEAN
  <2>1. max_allowed \in Nat
    BY AddressIsNat, FlashAssumption DEF TypeOK, ClientOK, ProgressOK
  <2> QED
    BY <2>1, AddressIsNat, PagesAreNat DEF TypeOK, ClientOK, JobOK
<1>3. BlockAddress(b) \in Nat /\ BlockAddress(b) >= FLASH_START
      /\ BlockAddress(b + 1) = BlockAddress(b) + PAGE + PAGE
  <2>1. PAGE * b \in Nat /\ 2 * PAGE * b = 2 * (PAGE * b)
        /\ 2 * PAGE * (b + 1) = 2 * (PAGE * b) + PAGE + PAGE
    BY <1>1
  <2> QED
    BY <1>1, <2>1 DEF BlockAddress
<1>4. BlockAddress(b + 1) <= Address(max_allowed) /\ (job.bl \/ BlockAddress(b) >= bootrom_end)
  BY DEF Loadable
<1>5. BlockAddress(b) >= AskedStart /\ AskedStart \in Nat
  BY <1>1, <1>2, <1>3, <1>4 DEF AskedStart
<1>6. start_addr = AskedStart /\ end_addr = Address(max_allowed)
  BY DEF RangeGranted
<1>7. \A a, e, s, p \in Nat : a >= s /\ a + p + p <= e /\ p > 0 =>
        /\ ~(a + p - 1 >= e \/ a < s) /\ ~((a + p) + p - 1 >= e \/ a + p < s)
  OBVIOUS
<1>8. BlockAddress(b) + PAGE + PAGE <= Address(max_allowed)
  BY <1>3, <1>4
<1>9. /\ Unsigned(BlockAddress(b) + PAGE - 1) = BlockAddress(b) + PAGE - 1
      /\ Unsigned((BlockAddress(b) + PAGE) + PAGE - 1) = (BlockAddress(b) + PAGE) + PAGE - 1
  <2>1. Address(max_allowed) < WORD
    BY <1>2, RangeIsSmall, Layout
  <2> QED
    BY <1>1, <1>2, <1>3, <1>8, <2>1, SmallIsWord, Layout
<1>10. BlockPages(WriteOf(b)) = PagesOf(b)
  BY LoadablePages, BlockIsItsPages DEF TypeOK
<1> QED
  BY <1>1, <1>2, <1>3, <1>5, <1>6, <1>7, <1>8, <1>9, <1>10 DEF InRange

(***************************************************************************)
(* The range that flash_start_flashing asks for covers every block that    *)
(* check_segs lets through: in an undisturbed run the boot ROM refuses no  *)
(* page of a block for being out of range, with the bootloader allowed or  *)
(* not and for either chip.                                                *)
(***************************************************************************)
THEOREM UndisturbedBlocksInRange == Spec => []BlocksInRange
<1>1. TypeOK /\ PortInv /\ LinkInv /\ StageInv => BlocksInRange
  <2> SUFFICES ASSUME TypeOK, StageInv, ~disturbed, fpc = "ack", toDev # <<>>
               PROVE  Programmable(Head(toDev)) = BlockPages(Head(toDev))
    BY DEF BlocksInRange
  <2>1. RangeGranted /\ Loadable /\ (Refused \/ \E b \in todo : Exchange(WriteOf(b), Reply("ACK")))
    BY DEF StageInv, Stage
  <2>2. PICK b \in todo : Exchange(WriteOf(b), Reply("ACK"))
    BY <2>1 DEF Refused
  <2>3. Head(toDev) = WriteOf(b) /\ b \in job.image
    BY <2>2, Singles DEF Exchange, TypeOK, ClientOK, JobOK
  <2>4. /\ InRange(BlockAddress(b)) /\ InRange(BlockAddress(b) + PAGE)
        /\ BlockPages(Head(toDev)) = PagesOf(b)
    BY <2>1, <2>3, LoadableInRange
  <2> QED
    BY <2>4 DEF Programmable, PagesOf
<1> QED
  BY <1>1, StageAlways, PTL

\* Why an undisturbed run gives up: there is no port, the image does not fit,
\* or the boot ROM could not program a page.
GivesUpForAReason ==
    [][~disturbed /\ ret # "error" /\ ret' = "error" =>
         \/ fpc \in {"open", "reopen"} /\ link = 0
         \/ fpc = "load" /\ ~Loadable
         \/ fpc = "ack" /\ Head(replies).cmd # "ACK"]_vars

(***************************************************************************)
(* An undisturbed run gives up for one of these reasons only: the two      *)
(* looks at the state, the handover and the request for the range succeed, *)
(* and the path for a boot ROM without START_FLASH is not taken by mistake.*)
(***************************************************************************)
THEOREM UndisturbedRunGivesUpForAReason == Spec => GivesUpForAReason
<1> DEFINE A == ~disturbed /\ ret # "error" /\ ret' = "error" =>
                  \/ fpc \in {"open", "reopen"} /\ link = 0
                  \/ fpc = "load" /\ ~Loadable
                  \/ fpc = "ack" /\ Head(replies).cmd # "ACK"
<1>1. TypeOK /\ PortInv /\ LinkInv /\ StageInv /\ [Next]_vars => [A]_vars
  <2> SUFFICES ASSUME TypeOK, StageInv, Next, ~disturbed, ret # "error", ret' = "error"
               PROVE  \/ fpc \in {"open", "reopen"} /\ link = 0
                      \/ fpc = "load" /\ ~Loadable
                      \/ fpc = "ack" /\ Head(replies).cmd # "ACK"
    OBVIOUS
  <2>0. Stage
    BY DEF StageInv
  <2>1. \/ OpenTimeout \/ EnterBootloader \/ GotState \/ GotRange \/ FlashLoad \/ GotBlockReply
    BY DEF Next, Run, Flasher, Receive, DeviceStep, Disturbance, client, OpenProxmark,
           AskState, SkipReply, GotChipInfo, GotVersion, WriteBlock, AllWritten, Stop, Close,
           Kill, Interference, Ends
  <2>2. CASE OpenTimeout
    BY <2>2 DEF OpenTimeout
  <2>3. ~EnterBootloader
    <3> SUFFICES ASSUME EnterBootloader PROVE FALSE
      OBVIOUS
    <3>1. fpc = "info" /\ replies # <<>> /\ replies' = Tail(replies)
      BY DEF EnterBootloader, Takes
    <3>2. Head(replies) = [cmd |-> "DEVICE_INFO", mode |-> mode] /\ mode \in {"flash", "os"}
      BY <2>0, <3>1, TakesTheAnswer DEF Stage, Running
    <3>3. InBootrom(Head(replies)) \/ InOs(Head(replies))
      BY <3>2 DEF InBootrom, InOs
    <3> QED
      BY <3>3 DEF EnterBootloader
  <2>4. ~GotState
    <3> SUFFICES ASSUME GotState PROVE FALSE
      OBVIOUS
    <3>1. fpc = "info2" /\ replies # <<>> /\ replies' = Tail(replies)
      BY DEF GotState, Takes
    <3>2. Head(replies) = Reply("DEVICE_INFO")
      BY <2>0, <3>1, TakesTheAnswer DEF Stage
    <3>3. InBootrom(Head(replies))
      BY <3>2 DEF InBootrom, Reply
    <3> QED
      BY <3>3 DEF GotState
  <2>5. ~GotRange
    <3> SUFFICES ASSUME GotRange PROVE FALSE
      OBVIOUS
    <3>1. fpc = "start" /\ replies # <<>> /\ replies' = Tail(replies)
      BY DEF GotRange, Takes
    <3>2. Head(replies) = Reply("ACK")
      BY <2>0, <3>1, TakesTheAnswer DEF Stage
    <3>3. Acked
      BY <3>2 DEF Acked, Reply
    <3> QED
      BY <3>3 DEF GotRange
  <2>6. CASE FlashLoad
    BY <2>6 DEF FlashLoad
  <2>7. CASE GotBlockReply
    BY <2>7 DEF GotBlockReply, Takes, Acked
  <2> QED
    BY <2>1, <2>2, <2>3, <2>4, <2>5, <2>6, <2>7
<1>2. Spec => [][A]_vars
  BY <1>1, StageAlways, PTL DEF Spec
<1> QED
  BY <1>2 DEF GivesUpForAReason

-----------------------------------------------------------------------------
(* How an undisturbed run comes to its end *)

\* The place of a run on its way, in steps of six, more than a packet weighs.
Left(s) ==
    CASE s = "open" -> 78 [] s = "ask" -> 72 [] s = "info" -> 66 [] s = "reopen" -> 60
      [] s = "ask2" -> 54 [] s = "info2" -> 48 [] s = "chip" -> 42 [] s = "version" -> 36
      [] s = "start" -> 30 [] s = "load" -> 24 [] s = "write" -> 18 [] s = "ack" -> 12
      [] s = "stop" -> 6 [] OTHER -> 0

\* A packet has up to two answers, each to be received and to be taken.
Work == Left(fpc) + 5 * Len(toDev) + 2 * Len(fromDev) + Len(replies)

WorkStep == Flasher \/ Receive \/ (DeviceStep /\ toDev' # toDev)

\* One block fewer is left to write, or the work at the present one is less.
Nearer ==
    \/ todo' \subseteq todo /\ todo' # todo
    \/ todo' = todo /\ Work \in Nat /\ Work' \in Nat /\ Work' < Work

RunAdvances == [][~disturbed /\ WorkStep /\ fpc' # "idle" => Nearer]_vars

LEMMA FewPages ==
    ASSUME NEW c, NEW done
    PROVE  Cardinality(BlockPages(c) \ done) \in 0 .. 2
<1>1. IsFiniteSet({Unsigned(c.addr)}) /\ Cardinality({Unsigned(c.addr)}) = 1
  BY FS_Singleton
<1>2. /\ IsFiniteSet({Unsigned(c.addr)} \cup {Unsigned(c.addr + PAGE)})
      /\ Cardinality({Unsigned(c.addr)} \cup {Unsigned(c.addr + PAGE)}) \in {1, 2}
  BY <1>1, FS_AddElement
<1>3. {Unsigned(c.addr)} \cup {Unsigned(c.addr + PAGE)} = BlockPages(c)
  BY DEF BlockPages
<1>4. IsFiniteSet(BlockPages(c)) /\ Cardinality(BlockPages(c)) \in {1, 2}
  BY <1>2, <1>3
<1>5. Cardinality(BlockPages(c) \ done) <= Cardinality(BlockPages(c))
  BY <1>4, FS_Subset
<1>6. Cardinality(BlockPages(c) \ done) \in Nat
  BY LeftOverIsNat
<1> QED
  BY <1>4, <1>5, <1>6

\* Each answer is one reply, or two.
LEMMA AtMostTwoReplies ==
    ASSUME NEW n \in 0 .. 2
    PROVE  WriteReplies(n) \in Seq(Response) /\ Len(WriteReplies(n)) <= 2
<1>1. WriteReplies(n) \in Seq(Response)
  BY WriteRepliesType
<1>2. CASE n = 0
  BY <1>1, <1>2 DEF WriteReplies
<1>3. CASE n # 0
  <2>1. WriteReplies(n) = [i \in 1 .. n |-> Reply("NACK")]
    BY <1>3 DEF WriteReplies
  <2>2. Len([i \in 1 .. n |-> Reply("NACK")]) = n
    OBVIOUS
  <2> QED
    BY <1>1, <2>1, <2>2
<1> QED
  BY <1>2, <1>3

\* A device that handles a packet has one packet fewer, and at most two more
\* replies have been sent; or all are gone.
LEMMA DeviceWorks ==
    ASSUME TypeOK, DeviceStep, toDev' # toDev
    PROVE  /\ toDev # <<>>
           /\ \/ toDev' = <<>> /\ fromDev' = <<>>
              \/ /\ toDev' = Tail(toDev)
                 /\ \E rs \in Seq(Response) : Len(rs) <= 2 /\ fromDev' = fromDev \o rs
<1>1. CASE HardwareReset \/ Watchdog \/ OsStartFlash \/ OsReset
  BY <1>1 DEF HardwareReset, Watchdog, OsStartFlash, OsReset, Reset
<1>2. CASE EnterFlashMode \/ JumpToOs \/ UnknownPacket \/ ButtonSeenUp
  BY <1>2 DEF EnterFlashMode, JumpToOs, UnknownPacket, ButtonSeenUp, LinkUp, usb
<1>3. ASSUME NEW c, Received(c), NEW rs \in Seq(Response), Len(rs) <= 2, Answers(rs)
      PROVE  /\ toDev # <<>> /\ toDev' = Tail(toDev)
             /\ \E s \in Seq(Response) : Len(s) <= 2 /\ fromDev' = fromDev \o s
  BY <1>3 DEF Received, Answers
<1>4. ASSUME NEW r \in Response PROVE <<r>> \in Seq(Response) /\ Len(<<r>>) <= 2
  BY <1>4
<1>5. CASE Identify \/ StartFlash \/ OsDeviceInfo
  <2>1. PICK r \in Response : Answers(<<r>>) /\ \E c : Received(c)
    <3>1. \A c \in {"DEVICE_INFO", "CHIP_INFO", "BL_VERSION", "ACK", "NACK"} : Reply(c) \in Response
      BY ReplyType
    <3>2. [cmd |-> "DEVICE_INFO", mode |-> "os"] \in Response
      BY DEF Response
    <3>3. CASE Identify
      BY <3>1, <3>3 DEF Identify
    <3>4. CASE StartFlash
      BY <3>1, <3>4 DEF StartFlash
    <3>5. CASE OsDeviceInfo
      BY <3>2, <3>5 DEF OsDeviceInfo
    <3> QED
      BY <1>5, <3>3, <3>4, <3>5
  <2> QED
    BY <1>3, <1>4, <2>1
<1>6. CASE FinishWrite
  <2>1. PICK n \in 0 .. 2 : Received("FINISH_WRITE") /\ Answers(WriteReplies(n))
    BY <1>6, FewPages DEF FinishWrite
  <2> QED
    BY <1>3, <2>1, AtMostTwoReplies
<1>7. CASE OsOther
  <2>1. <<>> \in Seq(Response) /\ Len(<<>>) <= 2
    OBVIOUS
  <2>2. PICK c : Received(c) /\ Answers(<<>>)
    BY <1>7 DEF OsOther
  <2> QED
    BY <1>3, <2>1, <2>2
<1> QED
  BY <1>1, <1>2, <1>5, <1>6, <1>7 DEF DeviceStep, BootDevice

LEMMA StepIsNearer ==
    ASSUME TypeOK, StageInv, ~disturbed, WorkStep, fpc' # "idle"
    PROVE  Nearer
<1> DEFINE a == Left(fpc)
           t == Len(toDev)
           f == Len(fromDev)
           r == Len(replies)
<1>0. /\ toDev \in Seq(Packet) /\ fromDev \in Seq(Response) /\ replies \in Seq(Response)
      /\ t \in Nat /\ f \in Nat /\ r \in Nat
  BY LenProperties DEF TypeOK, BootTypeOK, UsbOK, ClientOK
<1>1. \A s : Left(s) \in Nat
  BY DEF Left
<1>2. \A a1, t1, f1, r1, a2, t2, f2, r2 \in Nat :
        a2 + 5 * t2 + 2 * f2 + r2 < a1 + 5 * t1 + 2 * f1 + r1 =>
          /\ a1 + 5 * t1 + 2 * f1 + r1 \in Nat /\ a2 + 5 * t2 + 2 * f2 + r2 \in Nat
  OBVIOUS
<1>3. ASSUME todo' = todo, NEW t2 \in Nat, NEW f2 \in Nat, NEW r2 \in Nat,
             t' = t2, f' = f2, r' = r2,
             Left(fpc') + 5 * t2 + 2 * f2 + r2 < a + 5 * t + 2 * f + r
      PROVE  Nearer
  <2>1. Work = a + 5 * t + 2 * f + r /\ Work' = Left(fpc') + 5 * t2 + 2 * f2 + r2
    BY <1>3 DEF Work
  <2>2. a \in Nat /\ Left(fpc') \in Nat
    BY <1>1
  <2> HIDE DEF a, t, f, r
  <2>3. Work \in Nat /\ Work' \in Nat /\ Work' < Work
    BY <1>0, <1>2, <1>3, <2>1, <2>2
  <2> QED
    BY <1>3, <2>3 DEF Nearer
\* The flasher takes one reply or none, sends one packet or none, and is a
\* place further.
<1>4. ASSUME todo' = todo, UNCHANGED <<toDev, fromDev>> \/ \E c : Send(c),
             UNCHANGED replies \/ (replies # <<>> /\ replies' = Tail(replies)),
             Left(fpc') + 6 <= a
      PROVE  Nearer
  <2>1. f' = f
    BY <1>4 DEF Send
  <2>2. t' \in Nat /\ t' <= t + 1
    <3>1. CASE toDev' = toDev
      BY <1>0, <3>1
    <3>2. ASSUME NEW c, toDev' = Append(toDev, c) PROVE t' = t + 1
      BY <1>0, <3>2
    <3>3. toDev' = toDev \/ \E c : toDev' = Append(toDev, c)
      BY <1>4 DEF Send
    <3>4. t' = t \/ t' = t + 1
      BY <3>2, <3>3
    <3> QED
      <4> HIDE DEF t
      <4> QED
        BY <1>0, <3>4
  <2>3. r' \in Nat /\ r' <= r
    <3>1. r' = r \/ (r' = r - 1 /\ r # 0)
      BY <1>0, <1>4, HeadTailProperties, EmptySeq
    <3> HIDE DEF r
    <3> QED
      BY <1>0, <3>1
  <2>4. PICK t2 \in Nat, r2 \in Nat : t2 = t' /\ r2 = r' /\ t2 <= t + 1 /\ r2 <= r
    BY <2>2, <2>3
  <2>5. a \in Nat /\ Left(fpc') \in Nat
    BY <1>1
  <2>6. \A a1, t1, f1, r1, a2, t3, r3 \in Nat :
          a2 + 6 <= a1 /\ t3 <= t1 + 1 /\ r3 <= r1 =>
            a2 + 5 * t3 + 2 * f1 + r3 < a1 + 5 * t1 + 2 * f1 + r1
    OBVIOUS
  <2>7. Left(fpc') + 5 * t2 + 2 * f + r2 < a + 5 * t + 2 * f + r
    <3> HIDE DEF a, t, f, r
    <3> QED
      BY <1>0, <1>4, <2>4, <2>5, <2>6
  <2> QED
    BY <1>0, <1>3, <1>4, <2>1, <2>4, <2>7
<1>5. CASE OpenProxmark
  <2>1. fpc \in {"open", "reopen"} /\ fpc' = (IF fpc = "open" THEN "ask" ELSE "ask2")
        /\ fromDev' = <<>> /\ UNCHANGED <<toDev, replies, todo>>
    BY <1>5 DEF OpenProxmark
  <2>2. Left(fpc') + 6 <= a /\ a \in Nat /\ Left(fpc') \in Nat
    BY <2>1 DEF Left
  <2>3. t' = t /\ r' = r /\ f' = 0
    BY <2>1
  <2>4. Left(fpc') + 5 * t + 2 * 0 + r < a + 5 * t + 2 * f + r
    <3> HIDE DEF a, t, f, r
    <3> QED
      BY <1>0, <2>2
  <2> QED
    BY <1>0, <1>3, <2>1, <2>3, <2>4
<1>6. CASE OpenTimeout \/ AskState \/ FlashLoad \/ WriteBlock \/ AllWritten \/ Stop
  <2>1. UNCHANGED <<todo, replies>>
    BY <1>6 DEF OpenTimeout, AskState, FlashLoad, WriteBlock, AllWritten, Stop
  <2>2. UNCHANGED <<toDev, fromDev>> \/ \E c : Send(c)
    BY <1>6 DEF OpenTimeout, AskState, FlashLoad, WriteBlock, AllWritten, Stop, Fails, Silent,
                bootvars, usb
  <2>3. \/ fpc \in {"open", "reopen"} /\ fpc' = "stop"
        \/ fpc = "ask" /\ fpc' = "info"
        \/ fpc = "ask2" /\ fpc' = "info2"
        \/ fpc = "load" /\ fpc' \in {"write", "stop"}
        \/ fpc = "write" /\ fpc' \in {"ack", "stop"}
        \/ fpc = "stop" /\ fpc' = "close"
    BY <1>6 DEF OpenTimeout, AskState, FlashLoad, WriteBlock, AllWritten, Stop, Fails
  <2>4. Left(fpc') + 6 <= a
    BY <2>3 DEF Left
  <2> QED
    BY <1>4, <2>1, <2>2, <2>4
<1>7. CASE EnterBootloader \/ GotState \/ GotChipInfo \/ GotVersion \/ GotRange
  <2>1. UNCHANGED todo /\ replies # <<>> /\ replies' = Tail(replies)
    BY <1>7 DEF EnterBootloader, GotState, GotChipInfo, GotVersion, GotRange, Takes
  <2>2. UNCHANGED <<toDev, fromDev>> \/ \E c : Send(c)
    BY <1>7 DEF EnterBootloader, GotState, GotChipInfo, GotVersion, GotRange, Fails, Silent, usb
  <2>3. \/ fpc = "info" /\ fpc' \in {"reopen", "ask2", "stop"}
        \/ fpc = "info2" /\ fpc' \in {"chip", "load", "stop"}
        \/ fpc = "chip" /\ fpc' = "version"
        \/ fpc = "version" /\ fpc' = "start"
        \/ fpc = "start" /\ fpc' \in {"load", "stop"}
    BY <1>7 DEF EnterBootloader, GotState, GotChipInfo, GotVersion, GotRange, Fails, Takes
  <2>4. Left(fpc') + 6 <= a
    BY <2>3 DEF Left
  <2> QED
    BY <1>4, <2>1, <2>2, <2>4
<1>8. CASE SkipReply
  <2>1. UNCHANGED <<todo, fpc, toDev, fromDev>> /\ replies # <<>> /\ replies' = Tail(replies)
    BY <1>8 DEF SkipReply, Takes, bootvars, usb
  <2>2. t' = t /\ f' = f /\ r' = r - 1 /\ r # 0
    BY <1>0, <2>1, HeadTailProperties, EmptySeq
  <2>3. r - 1 \in Nat /\ Left(fpc') + 5 * t + 2 * f + (r - 1) < a + 5 * t + 2 * f + r
    <3>1. Left(fpc') = a /\ a \in Nat
      BY <1>1, <2>1
    <3> HIDE DEF a, t, f, r
    <3> QED
      BY <1>0, <2>2, <3>1
  <2> QED
    BY <1>0, <1>3, <2>1, <2>2, <2>3
<1>9. CASE GotBlockReply
  <2>1. /\ fpc = "ack" /\ replies # <<>> /\ replies' = Tail(replies) /\ UNCHANGED <<toDev, fromDev>>
        /\ \/ todo' = {b \in todo : \E d \in todo : d < b}
           \/ UNCHANGED todo /\ fpc' = "stop"
    BY <1>9 DEF GotBlockReply, Takes, Silent, usb, Fails
  <2>2. CASE todo' = {b \in todo : \E d \in todo : d < b}
    <3>1. todo # {} /\ todo \subseteq Nat
      BY <2>1, TodoIsNat DEF StageInv, Stage
    <3>2. PICK b \in todo : \A d \in todo : b <= d
      BY <3>1, LeastBlock
    <3>3. b \notin todo'
      <4>1. \A d \in todo : ~(d < b)
        BY <3>1, <3>2
      <4> QED
        BY <2>2, <4>1
    <3>4. todo' \subseteq todo
      BY <2>2
    <3> QED
      BY <3>2, <3>3, <3>4 DEF Nearer
  <2>3. CASE UNCHANGED todo /\ fpc' = "stop"
    <3>1. Left(fpc') + 6 <= a
      BY <2>1, <2>3 DEF Left
    <3> QED
      BY <1>4, <2>1, <2>3, <3>1
  <2> QED
    BY <2>1, <2>2, <2>3
<1>10. CASE Receive
  <2>1. /\ fromDev # <<>> /\ fromDev' = Tail(fromDev) /\ replies' = Append(replies, Head(fromDev))
        /\ UNCHANGED <<todo, fpc, toDev>>
    BY <1>10 DEF Receive
  <2>2. Head(fromDev) \in Response /\ f' = f - 1 /\ f # 0
    BY <1>0, <2>1, HeadTailProperties, EmptySeq
  <2>3. r' = r + 1 /\ t' = t
    BY <1>0, <2>1, <2>2, AppendProperties
  <2>4. f - 1 \in Nat /\ r + 1 \in Nat
        /\ Left(fpc') + 5 * t + 2 * (f - 1) + (r + 1) < a + 5 * t + 2 * f + r
    <3>1. Left(fpc') = a /\ a \in Nat
      BY <1>1, <2>1
    <3> HIDE DEF a, t, f, r
    <3> QED
      BY <1>0, <2>2, <3>1
  <2> QED
    BY <1>0, <1>3, <2>1, <2>2, <2>3, <2>4
<1>11. CASE DeviceStep /\ toDev' # toDev
  <2>1. UNCHANGED <<todo, fpc, replies>>
    BY <1>11 DEF DeviceStep, client
  <2>2. toDev # <<>> /\ t # 0
    BY <1>0, <1>11, DeviceWorks, EmptySeq
  <2>3. Left(fpc') = a /\ a \in Nat /\ r' = r
    BY <1>1, <2>1
  <2>4. CASE toDev' = <<>> /\ fromDev' = <<>>
    <3>1. t' = 0 /\ f' = 0
      BY <2>4
    <3>2. Left(fpc') + 5 * 0 + 2 * 0 + r < a + 5 * t + 2 * f + r
      <4> HIDE DEF a, t, f, r
      <4> QED
        BY <1>0, <2>2, <2>3
    <3> QED
      BY <1>0, <1>3, <2>1, <2>3, <3>1, <3>2
  <2>5. ASSUME toDev' = Tail(toDev), NEW rs \in Seq(Response), Len(rs) <= 2, fromDev' = fromDev \o rs
        PROVE  Nearer
    <3> DEFINE n == Len(rs)
    <3>1. t' = t - 1 /\ n \in Nat /\ f' = f + n
      BY <1>0, <2>2, <2>5, HeadTailProperties, ConcatProperties, LenProperties
    <3>2. t - 1 \in Nat /\ f + n \in Nat
          /\ Left(fpc') + 5 * (t - 1) + 2 * (f + n) + r < a + 5 * t + 2 * f + r
      <4>1. n <= 2
        BY <2>5
      <4> HIDE DEF a, t, f, r, n
      <4> QED
        BY <1>0, <2>2, <2>3, <3>1, <4>1
    <3> HIDE DEF n
    <3> QED
      BY <1>0, <1>3, <2>1, <2>3, <3>1, <3>2
  <2> QED
    BY <1>11, <2>4, <2>5, DeviceWorks
<1>12. ~Close
  BY DEF Close, Ends
<1> QED
  BY <1>5, <1>6, <1>7, <1>8, <1>9, <1>10, <1>11, <1>12 DEF WorkStep, Flasher

(***************************************************************************)
(* Every step of the flasher and its communication thread in an            *)
(* undisturbed run, and every packet the device takes, brings the end of   *)
(* the run nearer: there is one block fewer to write, or less left to do   *)
(* for the present one.  So a run on a finite image has finitely many such *)
(* steps, and by UndisturbedRunNotStuck one is always possible; that they  *)
(* are taken is the fairness that UndisturbedRunEnds adds.                 *)
(***************************************************************************)
THEOREM UndisturbedRunAdvances == Spec => RunAdvances
<1> DEFINE A == ~disturbed /\ WorkStep /\ fpc' # "idle" => Nearer
<1>1. TypeOK /\ PortInv /\ LinkInv /\ StageInv /\ [Next]_vars => [A]_vars
  BY StepIsNearer
<1>2. Spec => [][A]_vars
  BY <1>1, StageAlways, PTL DEF Spec
<1> QED
  BY <1>2 DEF RunAdvances
=============================================================================
