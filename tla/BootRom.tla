------------------------------- MODULE BootRom ------------------------------
(***************************************************************************)
(* The device from reset to its main firmware (bootrom/bootrom.c) and the  *)
(* commands of the firmware that lead back (armsrc/appmain.c).  A reset    *)
(* runs BootROM, which either stays in flash mode, where a host programs   *)
(* the flash memory block by block within a range it has asked for, or     *)
(* jumps to the firmware.  The reason for a reset is passed on in          *)
(* common_area, a piece of RAM that only a loss of power clears.           *)
(*                                                                         *)
(* The USB link is a pair of queues; it goes down with every reset and     *)
(* comes back under a new number.  The host, the button, the power supply  *)
(* and the flash controller are external.                                  *)
(*                                                                         *)
(* Addresses are 32-bit words, taken from 64-bit arguments.  A range is    *)
(* granted by signed comparisons and tested by unsigned ones.              *)
(***************************************************************************)
EXTENDS Integers, Sequences, FiniteSets

CONSTANTS FLASH_START,      \* address of the flash memory
          PAGE,             \* size of a page; a block is two pages
          BOOTROM_PAGES,    \* the first pages are the boot ROM's own
          FLASH_PAGES,      \* pages of the flash memory
          WORD,             \* 2^32: unsigned arithmetic wraps here
          Data,             \* what a host can write into a page
          Factory,          \* content of a page as delivered
          Erased, Torn,     \* an erased page; one whose programming was cut off
          Delivered,        \* with firmware (Factory) or without it (Erased)
          MaxLinks          \* bound: times the USB link comes up

Half == FLASH_PAGES \div 2     \* pages of one of the two banks
SignBit == WORD \div 2
Address(p) == FLASH_START + PAGE * p
bootrom_end == Address(BOOTROM_PAGES)
flash_end == Address(FLASH_PAGES)
osimage_entry == Address(BOOTROM_PAGES)

ASSUME FlashAssumption ==
    /\ FLASH_START \in Nat \ {0} /\ PAGE \in Nat \ {0}
    /\ BOOTROM_PAGES \in Nat \ {0} /\ FLASH_PAGES \in Nat
    /\ FLASH_PAGES = 2 * Half /\ BOOTROM_PAGES <= Half
    /\ WORD \in Nat /\ flash_end < SignBit
    /\ Delivered \subseteq {Factory, Erased}
    /\ MaxLinks \in Nat

VARIABLES
    mode,               \* where the program counter is
    command, button_pressed,                    \* common_area
    start_addr, end_addr, bootrom_unlocked,     \* flash_mode
    flash,              \* content of the pages, by address
    button,             \* external: the button is held down
    link, links,        \* external: number of the USB link, 0 when it is down
    toDev, fromDev,     \* external: packets on the link
    granted,            \* history: the link on which the range was granted, or 0
    why,                \* history: what the last reset was for
    unlocks             \* history: how ranges over the boot ROM may have come about

area == <<command, button_pressed>>
range == <<start_addr, end_addr, bootrom_unlocked, granted>>
usb == <<link, links, toDev, fromDev>>
bootvars == <<mode, area, range, flash, button, usb, why, unlocks>>

PageAddress == {Address(p) : p \in 0 .. FLASH_PAGES - 1}
BootromPages == {Address(p) : p \in 0 .. BOOTROM_PAGES - 1}
OsPages == PageAddress \ BootromPages
Content == Data \cup {Factory, Erased, Torn}

Packet ==
    [cmd : {"DEVICE_INFO", "CHIP_INFO", "BL_VERSION", "HARDWARE_RESET", "OTHER"}]
    \cup [cmd : {"START_FLASH"}, start : Nat, end : Nat, magic : BOOLEAN]
    \cup [cmd : {"FINISH_WRITE"}, addr : Nat, data : Data]

\* (START_FLASH and FINISH_WRITE arguments are uint64_t; the boot ROM uses
\* their low word.  A FINISH_WRITE carries its two check words; without them
\* it is answered with an ACK and ignored.)

Response == [cmd : {"DEVICE_INFO", "CHIP_INFO", "BL_VERSION", "ACK", "NACK"},
             mode : {"flash", "os"}]

CpuOK ==
    /\ mode \in {"boot", "flash", "os", "hung"}
    /\ why \in {"power", "handover", "button", "reset", "watchdog"}

FlagsOK ==
    /\ command \in {"NONE", "ENTER_FLASH_MODE"}
    /\ button_pressed \in BOOLEAN /\ button \in BOOLEAN
    /\ bootrom_unlocked \in BOOLEAN /\ unlocks \subseteq {"magic", "sign"}

MemoryOK ==
    /\ start_addr \in 0 .. WORD - 1 /\ end_addr \in 0 .. WORD - 1 /\ granted \in Nat
    /\ flash \in [PageAddress -> Content]

UsbOK ==
    /\ link \in Nat /\ links \in Nat
    /\ toDev \in Seq(Packet) /\ fromDev \in Seq(Response)

BootTypeOK == CpuOK /\ FlagsOK /\ MemoryOK /\ UsbOK

\* A device that has just been plugged in, with or without firmware.
BootInit ==
    /\ mode = "boot"
    /\ command = "NONE" /\ button_pressed = FALSE
    /\ start_addr = 0 /\ end_addr = 0 /\ bootrom_unlocked = FALSE /\ granted = 0
    /\ \E os \in Delivered :
         flash = [a \in PageAddress |-> IF a \in BootromPages THEN Factory ELSE os]
    /\ button = FALSE
    /\ link = 0 /\ links = 0 /\ toDev = <<>> /\ fromDev = <<>>
    /\ why = "power" /\ unlocks = {}

-----------------------------------------------------------------------------
(* Reset and BootROM *)

\* A processor reset: RAM is kept, the USB link is not.
Reset(w) ==
    /\ mode' = "boot" /\ why' = w
    /\ link' = 0 /\ toDev' = <<>> /\ fromDev' = <<>> /\ UNCHANGED links

\* usb_enable.
LinkUp ==
    /\ links < MaxLinks
    /\ links' = links + 1 /\ link' = links + 1 /\ UNCHANGED <<toDev, fromDev>>

StaysInFlashMode ==
    \/ command = "ENTER_FLASH_MODE"
    \/ ~button_pressed /\ button
    \/ flash[osimage_entry] = Erased

BuggyEnterFlashMode ==
    /\ mode = "boot" /\ StaysInFlashMode
    /\ mode' = "flash" /\ start_addr' = 0 /\ end_addr' = 0 /\ bootrom_unlocked' = FALSE
    /\ granted' = 0
    /\ button_pressed' = (button_pressed \/ button)
    /\ LinkUp
    /\ UNCHANGED <<command, flash, button, why, unlocks>>

BuggyRange == UNCHANGED range

\* A range, and the permission that came with it, end with flash mode.
NoRange == start_addr' = 0 /\ end_addr' = 0 /\ bootrom_unlocked' = FALSE /\ granted' = 0

\* BootROM calls flash_mode, which closes the range and forgets the request.
EnterFlashMode ==
    /\ mode = "boot" /\ StaysInFlashMode
    /\ mode' = "flash" /\ NoRange
    /\ command' = "NONE"
    /\ button_pressed' = (button_pressed \/ button)
    /\ LinkUp
    /\ UNCHANGED <<flash, button, why, unlocks>>

\* A firmware written by one flashing is whole; what a mixture of two does is
\* not known.
Whole == \A a, b \in OsPages : flash[a] = flash[b] /\ flash[a] # Torn

\* BootROM jumps to the firmware, which brings up the USB link, or hangs.
JumpToOs ==
    /\ mode = "boot" /\ ~StaysInFlashMode
    /\ button_pressed' = FALSE
    /\ \/ mode' = "os" /\ LinkUp
       \/ ~Whole /\ mode' = "hung" /\ UNCHANGED usb
    /\ UNCHANGED <<command, range, flash, button, why, unlocks>>

-----------------------------------------------------------------------------
(* flash_mode *)

BuggyReply(c) == [cmd |-> c]

Reply(c) == [cmd |-> c, mode |-> "flash"]

Received(c) == toDev # <<>> /\ Head(toDev).cmd = c

\* The packet at the head of the queue is handled and answered.
Answers(rs) ==
    toDev' = Tail(toDev) /\ fromDev' = fromDev \o rs /\ UNCHANGED <<link, links>>

Identify ==
    /\ mode = "flash"
    /\ \E c \in {"DEVICE_INFO", "CHIP_INFO", "BL_VERSION"} :
         Received(c) /\ Answers(<<Reply(c)>>)
    /\ UNCHANGED <<mode, area, range, flash, button, why, unlocks>>

\* An argument as an int and as an unsigned int.
Unsigned(x) == x % WORD
Signed(x) == IF Unsigned(x) < SignBit THEN Unsigned(x) ELSE Unsigned(x) - WORD

BuggyPermitted(unlocked, c) ==
    /\ unlocked \/ Signed(c.end) >= bootrom_end \/ Signed(c.end) < FLASH_START
    /\ Signed(c.start) >= FLASH_START /\ Signed(c.end) <= flash_end

\* The boot ROM's own pages may be in the range only if the magic number came
\* with this very command; but an end that is negative as an int passes both
\* tests for the end.
Permitted(unlocked, c) ==
    /\ unlocked \/ Signed(c.start) >= bootrom_end \/ Signed(c.end) < FLASH_START
    /\ Signed(c.start) >= FLASH_START /\ Signed(c.end) <= flash_end

Unlocks(c) == {u \in {"magic", "sign"} : IF u = "magic" THEN c.magic ELSE Signed(c.end) < 0}

StartFlash ==
    /\ mode = "flash" /\ Received("START_FLASH")
    /\ LET c == Head(toDev) IN
         /\ bootrom_unlocked' = c.magic
         /\ IF Permitted(c.magic, c)
            THEN /\ start_addr' = Unsigned(c.start) /\ end_addr' = Unsigned(c.end)
                 /\ granted' = link /\ unlocks' = unlocks \cup Unlocks(c)
                 /\ Answers(<<Reply("ACK")>>)
            ELSE /\ start_addr' = 0 /\ end_addr' = 0
                 /\ granted' = 0 /\ UNCHANGED unlocks
                 /\ Answers(<<Reply("NACK")>>)
    /\ UNCHANGED <<mode, area, flash, button, why>>

InRange(a) == ~(Unsigned(a + PAGE - 1) >= end_addr \/ a < start_addr)

BlockPages(c) == {Unsigned(c.addr), Unsigned(c.addr + PAGE)}

\* The pages of the block that the range allows.
Programmable(c) == {a \in BlockPages(c) : InRange(a)}

\* The page that is programmed for an address: the one that contains it.  A
\* controller has a page number of as many bits as its bank needs, so that
\* page numbers behind the flash memory are those of the second bank again.
PageOf(a) ==
    LET n == Unsigned(a - FLASH_START) \div PAGE IN
      Address(IF n < Half THEN n ELSE Half + ((n - Half) % Half))

BuggyWriteReplies(n) == <<Reply("ACK")>>

SilentWriteReplies(n) == IF n = 0 THEN <<Reply("ACK")>> ELSE <<>>

\* One NACK for each page that was not programmed; an ACK if both were.
WriteReplies(n) == IF n = 0 THEN <<Reply("ACK")>> ELSE [i \in 1 .. n |-> Reply("NACK")]

\* The flash controller programs the allowed pages or reports an error.
FinishWrite ==
    /\ mode = "flash" /\ Received("FINISH_WRITE")
    /\ LET c == Head(toDev) IN
       \E done \in SUBSET Programmable(c) :
         /\ flash' = [a \in PageAddress |->
                       IF \E d \in done : PageOf(d) = a THEN c.data ELSE flash[a]]
         /\ Answers(WriteReplies(Cardinality(BlockPages(c) \ done)))
    /\ UNCHANGED <<mode, area, range, button, why, unlocks>>

HardwareReset ==
    /\ mode = "flash" /\ Received("HARDWARE_RESET")
    /\ Reset("reset")
    /\ UNCHANGED <<area, range, flash, button, unlocks>>

\* Fatal.
UnknownPacket ==
    /\ mode = "flash" /\ Received("OTHER")
    /\ mode' = "hung" /\ UNCHANGED <<area, range, flash, button, usb, why, unlocks>>

\* Only flash_mode and the firmware's loops keep the watchdog quiet.
Watchdog ==
    /\ mode = "hung"
    /\ Reset("watchdog")
    /\ UNCHANGED <<area, range, flash, button, unlocks>>

\* The button must have been seen up before a press counts.
ButtonSeenUp ==
    /\ mode = "flash" /\ button_pressed /\ ~button
    /\ button_pressed' = FALSE
    /\ UNCHANGED <<mode, command, range, flash, button, usb, why, unlocks>>

\* A press leaves flash mode.
ButtonLeaves ==
    /\ mode = "flash" /\ ~button_pressed /\ button
    /\ button_pressed' = TRUE
    /\ Reset("button")
    /\ UNCHANGED <<command, range, flash, button, unlocks>>

-----------------------------------------------------------------------------
(* The firmware *)

OsDeviceInfo ==
    /\ mode = "os" /\ Received("DEVICE_INFO")
    /\ Answers(<<[cmd |-> "DEVICE_INFO", mode |-> "os"]>>)
    /\ UNCHANGED <<mode, area, range, flash, button, why, unlocks>>

\* The handover to the boot ROM.
OsStartFlash ==
    /\ mode = "os" /\ Received("START_FLASH")
    /\ command' = "ENTER_FLASH_MODE"
    /\ Reset("handover")
    /\ UNCHANGED <<button_pressed, range, flash, button, unlocks>>

\* The firmware takes a block to be flashed for a request to reset.
OsReset ==
    /\ mode = "os" /\ (Received("HARDWARE_RESET") \/ Received("FINISH_WRITE"))
    /\ Reset("reset")
    /\ UNCHANGED <<area, range, flash, button, unlocks>>

\* Other commands do not touch what is modelled here.
OsOther ==
    /\ mode = "os"
    /\ Received("CHIP_INFO") \/ Received("BL_VERSION") \/ Received("OTHER")
    /\ Answers(<<>>)
    /\ UNCHANGED <<mode, area, range, flash, button, why, unlocks>>

BootDevice ==
    \/ EnterFlashMode \/ JumpToOs
    \/ Identify \/ StartFlash \/ FinishWrite \/ HardwareReset \/ UnknownPacket
    \/ Watchdog \/ ButtonSeenUp
    \/ OsDeviceInfo \/ OsStartFlash \/ OsReset \/ OsOther

-----------------------------------------------------------------------------
(* The world around the device (external) *)

ToggleButton ==
    /\ button' = ~button
    /\ UNCHANGED <<mode, area, range, flash, usb, why, unlocks>>

\* The power fails and returns.  A page being programmed is torn; the other
\* one, if it is the first of the block, is done.
PowerCycle ==
    /\ mode' = "boot" /\ why' = "power"
    /\ command' = "NONE" /\ button_pressed' = FALSE
    /\ link' = 0 /\ toDev' = <<>> /\ fromDev' = <<>> /\ UNCHANGED links
    /\ \/ UNCHANGED flash
       \/ /\ mode = "flash" /\ Received("FINISH_WRITE")
          /\ LET c == Head(toDev) IN
             \E p \in Programmable(c) :
               flash' = [a \in PageAddress |->
                           IF a = PageOf(p) THEN Torn
                           ELSE IF \E d \in Programmable(c) \ {p} :
                                     d = Unsigned(c.addr) /\ PageOf(d) = a THEN c.data
                           ELSE flash[a]]
    /\ UNCHANGED <<range, button, unlocks>>

\* Any host: it sends a packet, or takes or discards what the device has sent.
HostSends ==
    /\ link # 0
    /\ toDev' \in Seq(Packet) /\ Len(toDev') = Len(toDev) + 1
    /\ SubSeq(toDev', 1, Len(toDev)) = toDev
    /\ UNCHANGED <<mode, area, range, flash, button, link, links, fromDev, why, unlocks>>

HostTakes ==
    /\ fromDev # <<>> /\ fromDev' \in {<<>>, Tail(fromDev)}
    /\ UNCHANGED <<mode, area, range, flash, button, link, links, toDev, why, unlocks>>

BootNext ==
    \/ BootDevice \/ ButtonLeaves
    \/ ToggleButton \/ PowerCycle \/ HostSends \/ HostTakes

BootSpec == BootInit /\ [][BootNext]_bootvars

-----------------------------------------------------------------------------
BootromChanged == \E a \in BootromPages : flash[a] # Factory

(***************************************************************************)
(* The boot ROM's own pages are only touched after a host was granted a    *)
(* range with the magic number, or one whose end is negative as an int: no *)
(* other sequence of ranges, writes at any address, resets and power       *)
(* failures gets there, although 32-bit addresses wrap in the tests and in *)
(* the page number.  The second way in is the code's own exception: such   *)
(* an end passes the signed tests and is a large unsigned number.          *)
(***************************************************************************)
BootromLocked == BootromChanged => unlocks # {}

(***************************************************************************)
(* What the comment in START_FLASH says: without the magic number the      *)
(* range is outside of the boot ROM.  The boot ROM does not keep this with *)
(* every host; it does with a host that asks for no negative end, and the  *)
(* flasher is one (FlasherNeedsMagic in FlashingProofs).                   *)
(***************************************************************************)
MagicNeeded == BootromChanged => "magic" \in unlocks

(***************************************************************************)
(* A reset ends where it was meant to: a handover from the firmware in     *)
(* flash mode; the button, pressed in flash mode, out of it even while it  *)
(* is held down; a reset command in the firmware if the button is up.  The *)
(* only thing that overrules the last two is an erased firmware.           *)
(***************************************************************************)
ResetGoesWhereMeant ==
    [][mode = "boot" /\ mode' # "boot" =>
         /\ why = "handover" => mode' = "flash"
         /\ why = "button" /\ flash[osimage_entry] # Erased => mode' # "flash"
         /\ why = "reset" /\ ~button /\ flash[osimage_entry] # Erased
              => mode' # "flash"]_bootvars

(***************************************************************************)
(* A page is programmed, or torn, only under a range that the host was     *)
(* granted on the very link on which it wrote: no range outlives the reset *)
(* of a device that keeps its RAM, and a refused request closes the range  *)
(* granted before it.                                                      *)
(***************************************************************************)
WritesUnderCurrentRange == [][flash' # flash => granted # 0 /\ granted = link]_bootvars
=============================================================================
