# A verification of the Proxmark3 core in TLA+

This directory models parts of the Proxmark3 (iCopy-X community edition): the
client's communication threads and downloads, the device's USB and serial
receivers and its memory, the boot ROM, the flasher and what it makes of its
files, and the simulated MIFARE Classic card. TLC checks the models on small
instances; TLAPS proves all of the safety results, and the states and steps that
the liveness results rest on, for every value of the constants. Every definition is translated from the source; `PROJECT.json` maps each one to the lines it
models.

## The system

| Part | Source | State | Operations |
|---|---|---|---|
| reply buffer | `client/src/comms.c` | `rxBuffer`, `cmd_head`, `cmd_tail` | `storeReply`, `getReply`, `clearCommandBuffer` |
| communication threads | `client/src/comms.c` | `txBuffer`, `txBufferNG`, `txBuffer_pending`, `conn`, `comm_thread_dead`, `session.pm3_present`, the port | `SendCommandNG/MIX/OLD`, `WaitForResponse*`, `uart_communication`, `OpenProxmark`, `TestProxmark`, `CloseProxmark`, fast push mode |
| prompt | `client/src/proxmark3.c`, `cmdhw.c` | | `check_comm`, `CmdConnect`, quit |
| downloads | `client/src/comms.c`, `armsrc/appmain.c` | bytes copied, the handler's position | `GetFromDevice`, `dl_it`, `CMD_DOWNLOAD_*` |
| flasher | `client/src/flash.c`, `proxmark3.c` | segments, the permitted range | `flash_load`, `flash_pm3` and what it calls |
| boot ROM | `bootrom/bootrom.c` | `common_area`, `start_addr`, `end_addr`, `bootrom_unlocked`, the flash | `BootROM`, `flash_mode`, `UsbPacketReceived` |
| firmware dispatch | `armsrc/appmain.c` | `common_area` | `PacketReceived` |
| serial receiver | `armsrc/usart.c` | two DMA buffers, a FIFO | `usart_fill_rxfifo`, `usart_rxdata_available`, `usart_read_ng` |
| USB driver, frames | `common_arm/usb_cdc.c`, `armsrc/cmd.c` | two endpoint banks, `btReceiveBank`, the rest of a packet | `usb_read`, `usb_write`, `receive_ng`, `reply_*` |
| memory | `armsrc/BigBuf.c` | high mark, static pointers, trace | `BigBuf_malloc`, the frees, `LogTrace` |
| MIFARE simulation | `armsrc/mifaresim.c`, `mifareutil.c` | `cardSTATE`, the authenticated sector and key, the value register, the emulator memory | `Mifare1ksim` |
| radio protocols | `armsrc/iso14443a.c`, `lfops.c`, ... | sample buffers, card state | sampling, demodulation, emulation |
| client commands | `client/src/cmd*.c` | | one request and reply each |

How they interact. A client command runs in the console thread. It hands a
command to the communication thread through `txBuffer` (mutex and condition
variable `txBufferSig`), which writes it to the port; replies come back through
the reply ring (`rxBufferMutex`). The connection's flags (`conn.run`,
`comm_thread_dead`, `session.pm3_present`) are shared without a lock. On the
device, bytes arrive over USB or over the serial receiver, are framed by
`receive_ng` and dispatched by `PacketReceived`; handlers allocate from BigBuf
and trace into it. Flashing leaves this world: the firmware records a request
in `common_area`, resets, and the boot ROM talks to the flasher in the old
frame format.

What is hard here:

- two threads on one condition variable, flags without a lock, a thread that
  dies on its own, a join while the other thread sleeps;
- replies are matched by command alone, so a timeout shifts later replies, and
  an ACK of anything ends a download;
- two endpoint banks that driver and hardware alternate on independently, reads
  that give up in the middle of a frame;
- images that are merged, padded and split into blocks, where erasing a block
  takes the neighbour's data with it;
- card commands of two frames, of which the first is checked and the second
  acts, and an authentication that is noted before it has succeeded;
- a DMA engine that runs while its counters are read twice;
- indices for which full and empty coincide, 16-bit differences that wrap;
- static pointers that outlive the memory they point to;
- RAM that survives resets, a button that means two things, power failures
  while a page is programmed, waits without timeout on a link that resets
  take away, an error code overwritten by the cleanup.

`PROJECT.json` lists these as hazards at their lines, with the properties that
would notice each going wrong.

## Modules

**ReplyQueue** is the abstract specification of the reply buffer: a queue of at
most `Capacity` replies. **ReplyBuffer** is the ring of `comms.c`;
`ImplementsQueue` is the refinement, with the slots from `cmd_tail` up to
`cmd_head` as the queue. `storeReply` on a full ring moves the head onto the
tail, which then reads as empty: the whole backlog is lost. The code warns
about it ("Command buffer about to overwrite command!"); the queue's `Stored`
states what really happens.

**ClientComms** is the two threads. `mpc` and `cpc` are their program counters.
A critical section is one action unless it sleeps on the condition variable;
`asleep` is the set of threads asleep and not signalled, `Signal` wakes one of
them and `SpuriousWakeup` any. A request has a number, which the code does not
have: the number and `lastEnq`, `lastSent`, `timedOut` are history for the
properties. The reply buffer is the queue of ReplyQueue. The console's jobs are:
a command with a timeout, one that waits forever, an upload in fast push mode
(`CmdFlashMemLoad`), `hw connect`, quit, and `check_comm` at the prompt. The
communication thread's actions follow the loop of `uart_communication`: the top
(`LoopTop`, where a failed connection raises the flag), receiving (nothing, a
frame, a damaged frame), the wait of fast push mode (`AckWait`), transmission,
and the exit that closes the port.

**UsartRx** is the serial receiver against the DMA engine: each read of a DMA
register is a step. A byte is its position in the stream, so loss, duplication
and reordering show. Arithmetic is modulo `WORD` as in `uint16_t`.

**BigBuf** has addresses and not contents. A command runs alone, so each
function is one action. `chunks` is history: who was given which addresses.

**BootRom** is the device from reset to firmware and back. `EnterFlashMode` and
`JumpToOs` are the end of `BootROM` (`bootrom.c:328-338`), the packets of
`UsbPacketReceived` are actions, `ButtonSeenUp` and `ButtonLeaves` the two tests
of `flash_mode`'s loop, `OsStartFlash` and `OsReset` the firmware's way back.
`Reset` keeps the RAM (`common_area` and the range), `PowerCycle` clears
`common_area` and may tear the page being programmed. Only two loops feed the
watchdog, so a device in `Fatal` or in a broken firmware is reset by it
(`Watchdog`). A firmware whose pages do not all come from one flashing may run
or hang. In `BootSpec` the host is anyone: it sends any packet at any time. The
check words of `FINISH_WRITE` are taken to be right. Addresses keep the types of
the code: a range is granted by comparisons of `int` (`Signed`) and kept and
tested as `unsigned int` (`Unsigned`), and the page that is programmed follows
from a 32-bit difference and a page number (`PageOf`), so that an address inside
a page programs that page, and one behind the flash memory a page of the second
bank. `granted` and `unlocks` are history: the link on which the open range was
granted, and whether one was granted with the magic number or with an end that
is negative as an `int`.

**Flashing** EXTENDS BootRom with `flash_pm3`. `fpc` is its program counter, one
action between two waits. A block is two pages; an image is a set of blocks; the
data of a page is the number of the run that wrote it. `Kill`, `Interference`,
`ButtonLeaves` and `PowerCycle` may come at any moment, and the next run starts
from what they left. The communication threads appear as a queue of replies
(`Receive`). `crowded` is history: more than one packet of earlier runs waited
when this one began. When the port does not come back after the handover,
`CloseProxmark` is called twice (`flash.c:373`, `proxmark3.c:668`) and the second
call joins a thread that is not there: the run then ends with or without a word
(`Close`). `FlasherIsAHost` says that the composition implements `BootSpec`,
so what is proved of the boot ROM for any host holds of it here.

**MCBootRom** gives the boot ROM a host with a finite choice of packets.

**Download** EXTENDS ReplyBuffer: the ring carries the frames of a download.
`GetFromDevice` empties the ring and sends the command, `dl_it` is one turn of
its loop, `Deliver` is the communication thread, `DevStart`, `DevChunk` and
`DevAck` the device's handler, `DevFlashBusy` its silent return when the flash
chip does not answer. A byte is the memory and the address it was read from, so
a byte of another download, or at the wrong place, shows. `clean` is history:
nothing of an earlier command was under way when this download began, and since
then no frame was lost and the ring did not overflow.

**FlashImage** is `build_segs_from_phdrs`, `check_segs` and `flash_write`: one
action reads a program header (`BuildSeg`), one ends a file (`CheckSegs`), one
writes a block (`WriteBlock`). The data of a header is its number. Flashing
takes an image as a set of blocks; this module is where the blocks come from.
`image` and `images` are history: what the headers put at which address.

**UsbReceive** is the receive path of both programs of the device. `program`
says which runs: the firmware, whose `usb_read_ng` keeps the rest of a packet
for the next read and whose `receive_ng_internal` tells two frame styles apart,
or the boot ROM, whose `usb_read` fills a packet of fixed size. The preamble,
the postamble and a piece of payload are one unit each; a unit is its frame and
its position, so a command put together from two frames shows. The host and the
endpoint's banks are external, modelled from how the driver uses them. `torn`
and `skewed` are history for what timeouts and resets leave behind.

**MifareSim** is the state machine of `Mifare1ksim` against a reader that sends
any frame in any state. Field, activation and anticollision are actions of
`Session`, the commands of `MFEMUL_WORK` of `Work`, the second frames of
two-step commands of `SecondFrame`. A sector is one data block and its trailer;
the access conditions are those of `IsTrailerAccessAllowed` and
`IsDataAccessAllowed` on the decoded access codes (`AccessCodes`). They come from
the sector's trailer but for one block: `SectorTrailer` takes block 128, the first
of sector 32 of a 4K card, for one of the small sectors, and returns data block
131 (`mifareutil.c:625`). `Block128` is the set of sectors whose data block is
this one; its access codes are any. The cipher is abstracted to
whether a frame is valid and an answer right. `proven` is history: the sector
and key the reader has proved to know since it was selected. **MCMifareSim**
holds its constants.

The theorems are in **BigBufProofs**, **ClientCommsProofs**, **DownloadProofs**
(which holds those about ReplyBuffer too), **FlashImageProofs**,
**FlashingProofs** (with those about BootRom), **MifareSimProofs**,
**UsartRxProofs** and **UsbReceiveProofs**.

## Runs

| Run | Checks | Shows |
|---|---|---|
| `download` | `TypeOK`, `DownloadTypeOK`, `TrueMeansComplete`, `NoWriteBehindDest`, `ImplementsQueue`, `DownloadEnds` | the ring is a bounded queue under the traffic of downloads; true means that every byte is there, at its place, unless something foreign, lost or refused came in between; late frames never reach beyond the caller's buffer; an undisturbed download ends |
| `client_comms` | `TypeOK`, `WaitersAgree`, `PortBelongsToThread`, `DeadThreadIsFlagged`, `CommandsOnceInOrder`, `StaleReplyOnlyAfterTimeout`, `SenderWaitsForLiveThread`, `DeadThreadIsClosed` | no lost wake-up; the port belongs to one thread; a death is flagged although the flag is cleared after the thread starts; commands go out once, in order; a wrong reply needs a timeout; no console thread waits forever behind a living one; a dead one is closed unless the console is in a wait without timeout or behind a command it did not transmit |
| `usart_rx` | `TypeOK`, `StreamIntact`, `NothingLost` | the stream is intact unless the buffers overran, the FIFO was filled to its last byte or a rollover fell between the two reads |
| `big_buf` | `HighMarkAligned`, `ChunksDisjoint`, `NoStalePointer`, `TraceClearOfChunks` | chunks never overlap, no stale pointer, the trace stays below them unless a chunk was taken from below the trace |
| `boot_rom` | `BootTypeOK`, `BootromLocked`, `WritesUnderCurrentRange` | the boot ROM's pages are safe from every order of packets and addresses until a range was granted with the magic number or a negative end; no range outlives its link |
| `flashing` | `AckedBlocksAreWritten`, `ResetGoesWhereMeant`, `FlasherIsAHost` | what the flasher counts as written is written, unless several commands of killed runs were waiting when it began; resets lead where they were meant to |
| `flashing_live` | `UndisturbedRunEnds` | waits without timeout do not hang an undisturbed run that begins with nothing waiting on the link |
| `flash_image` | `TypeOK`, `ImageWritten`, `NothingElseTouched`, `SegmentsShareNoBlock` | every byte of the files ends in flash at its address unless a later file has data in its block; nothing else is touched |
| `usb_receive` | `TypeOK`, `PathIsFifo`, `AcceptedWasSent`, `EveryFrameDispatched` | commands are dispatched whole, once and in order; a frame that was cut does no harm once the link has been quiet |
| `mifare_sim` | `TypeOK`, `AuthBeforeAccess`, `OnlyProvenSector`, `WritesHonourAccessCodes` | the card acts as authenticated only after the key was proved, only in its sector, and stores what a reader writes only where the sector's access codes allow it, block 128 excepted |

Two runs show a disagreement between the code and what is said of it:

| Run | Property | What the code does |
|---|---|---|
| `client_comms_close` | `CloseReturns` | `CloseProxmark`, called by `hw connect`, joins a thread that sleeps in the fast push wait; nothing wakes it |
| `flashing_report` | `DoneMeansWritten` | `flash_pm3` reports "All done" in an undisturbed run whose image does not fit |

A quit is not affected by the first: it sends a command before it closes, which
wakes the thread. The second holds of a refused range and of a block that is not
acknowledged as well; "Aborted on error" is left for what fails before the
connection is made, a file or a device that is not found.

### Bounds, and why they are enough

- download: a ring of 4 slots holds three frames, fewer than the four of a
  download of 5 bytes, so it wraps, fills and overflows. Sizes 0, 2 and 5 with
  two bytes in a frame are nothing, a whole number of frames and one with a
  rest; two downloads of three memories, so that frames of the first, of the
  same memory or another, longer or shorter, come late in the second; one lost
  frame, data or ACK.
- ClientComms: four requests (connect's ping and capabilities, a timed-out
  command and the one that gets its reply, or an upload chunk), two plug-ins (a
  reconnection), two frames in flight (a late reply ahead of the right one).
- UsartRx: DMA buffers of 3, a FIFO of 6 and 12 bytes: each buffer is filled
  twice and the FIFO wraps. `WORD = 16` exceeds every legitimate difference, as
  65536 does in the code.
- BigBuf: 28 bytes hold the emulator memory, toSend and both DMA buffers in
  some orders and not in others; sizes 1 and 8 need rounding or not; a frame of
  9 bytes fills the trace.
- boot_rom: four pages in two banks, one page the boot ROM's. The addresses are
  the beginning of flash, one inside a page, the end of the boot ROM, the end of
  flash, and the last of a word of 5 bits, which is negative as an `int` and from
  which both the end of a page and the second page of a block wrap. Two links, so
  that a range could survive a reset; one packet waiting.
- flashing: eight pages, two of the boot ROM; an image in the boot ROM and one
  of two blocks that reaches beyond half of the chip; chips of both sizes; two
  runs and three links, so that a run can be killed, the device reset, and a
  second run started. `flashing` starts with a firmware, `flashing_live`
  without one, so that flash mode is entered for want of a firmware too, and so
  does `flashing_report`.
- flash_image: blocks of 4 bytes, three of them in flash, the first the boot
  ROM's; three headers in two files. The addresses are every offset in a block
  and one below flash; the sizes stay in a block, end in the next, or reach
  beyond the end.
- usb_receive: three units in a packet and frames of 2, 3, 4 and 6 units, so
  that frames end before, at and after a packet's end and two are in one read;
  three frames for two banks; two timeouts and one reset, so that a timeout
  comes after another and after a reset.
- mifare_sim: two sectors, so that there is a wrong one, the second with block
  128 as its data block; two trailers, one that
  gives key A all rights and one that gives them to key B; words modulo 3 with
  operand 1, so that values wrap both ways; two writes, so that one acts on
  what another left; the simulation may end after one read.

Deadlock checking is off where the bounds, or the user, end a behaviour: all
requests issued, all bytes arrived, all runs made.

### Fairness and time

`ClientComms!FairSpec`: both threads are scheduled (weak fairness), and a wait
with a timeout runs out (strong fairness, because replies that do not match
interrupt it). Nothing is assumed of the user, the device or the cable.
`Flashing!FairSpec`: the flasher, its communication thread and the device keep
going; nothing is assumed of disturbances, and a disturbed run may hang.
`Download!Fairness`: the console thread in `dl_it`, the communication thread and
the device's main loop keep going; losses, refusals and timeouts are not
promised. `UsbReceive!FairSpec`: the bus moves packets into free banks and the
device's main loop runs; the host need not send.

Three sleeps of the flasher are modelled as long enough: before it reopens the
port the firmware has taken the handover command (1.1 s), before it closes the
port the device has taken the reset (100 ms), and a port that is missing is
missed for a minute (`OpenTimeout`).

## Proofs

Every theorem holds for all values of the constants under the named assumptions
of its module; TLC evaluates the assumptions in the runs. They say that sizes
are positive and fit each other (`SizeAssumption`, `SizesAssumption`,
`FlashAssumption`, `ImageAssumption`), that the bounds are numbers
(`BoundsAssumption`, `RunsAssumption`, `DownloadAssumption`, `UsbAssumption`), that the kinds of
frame that only the device sends are not commands (`CommandsAssumption`), that
the ring holds frames of the link (`FramesAssumption`), and that tags which
stand for different origins differ (`SimAssumption`). The inductive invariants
below were checked with TLC before they were proved.

**The reply ring and downloads** (DownloadProofs). `RingTypeCorrect` and
`RingImplementsQueue`: the step lemmas `StoreAppends` and `GetTakesHead` say
what a store and a read do to the backlog, with the two cases of a wrapped and
an unwrapped ring. They are about `ReplyBuffer!Spec`, in which any reply may be
stored at any time. `DownloadUsesQueue` carries them over: every step of
Download is a step of the ring or leaves it alone. `DownloadTypeCorrect` and
`BufferIsNotOverrun` (`NoWriteBehindDest`) follow from the types and the
comparison in `Fits`. `TrueIsComplete` (`TrueMeansComplete`) needs `CleanInv`:
in an undisturbed download the ring's backlog followed by the link is one pipe
(`Pipe`), which holds consecutive chunks from the byte the client has got to up
to the one the device has got to, and then nothing or one ACK. `PipeMoves` says
what a delivery, a read and a new frame do to a pipe.
The same invariant gives the end of an undisturbed download without its
fairness. `CleanDownloadNotStuck`: while the client is in its loop there is a
reply in the ring, a frame on the link, a command before the device or a handler
at work, so that the two never wait for each other. `CleanDownloadAdvances`:
each step but a look at an empty ring makes `ToDo` smaller, which counts three
for a byte not yet sent, two for a frame on the link and one for a frame in the
ring. `CleanDownloadSucceeds`: only its timeout makes such a download fail.

**The client's threads** (ClientCommsProofs).

- `TypeCorrect`, `NoLostWakeup` (`WaitersAgree`), `CommandsSentOnceInOrder`:
  `OrderInv` adds that a pending command is the newest one and is in the buffer
  that `txBufferNGLen` selects, that without one everything has been sent and
  the selector is reset, and that the command the console is about to hand over
  is newer than any before.
- `PortHeldByThread` (`PortBelongsToThread`), `DeadThreadSeenAtPrompt`
  (`DeadThreadIsFlagged`): `PortInv` ties the console's place to whether there
  is a thread and a port. `DeadInv` explains the unlocked flag: a thread that
  stopped by itself and is not flagged lost its flag to `OpenProxmark`, and the
  console is still in the ping of that connection, which nothing can answer.
- `StaleRepliesAreLate` (`StaleReplyOnlyAfterTimeout`): `AnswerInv` says that
  every answer under way is unasked for or belongs to a command that is awaited,
  that timed out or that came after one that did, and that the newest command
  sent is in one place at most: on its way there, on its way back, or in the
  reply buffer.
- `SendNeverStuck` and `SendAdvances`: a sender that waits behind a pending
  command waits for a thread that is awake, and each step of that thread brings
  the command nearer to its transmission, or the thread nearer to its end. Frames
  of the device, a pulled cable and spurious wake-ups put nothing off.
- `DeadThreadNotStuck` and `DeadThreadRunsDown`: once the thread is dead, the
  console has a step towards the close, but in a wait without timeout or behind
  a command that was not transmitted, and every step that is not part of a wait
  leads there (`Nearer`, ordered by whether a command is pending, the console's
  place and the replies left). A user who keeps issuing commands does not prolong
  it: a dead thread is handed one at most. `WaitInv` adds which jobs have a
  timeout and that a joined thread was told to stop.
- `CloseHangsOnlyAsleep` and `ClosingAdvances`: the complement of the run
  `client_comms_close`. The join of `CloseProxmark` hangs in one way only, the
  sleep of the fast push mode after an acknowledgement.

**Memory** (BigBufProofs). `HeapSound`, `ChunksNeverOverlap`,
`PointersNeverStale`, `TraceStaysClear`, `HighMarkStaysAligned`: `HeapInv` adds
that every chunk's address is a multiple of 4, because `BigBuf_free_keep_EM`
sets the high mark from the address of the emulator memory; `RoundedFits` then
shows that a size tested before rounding still fits after it.

**The boot ROM against any host** (the first part of FlashingProofs).

- `BootTypeCorrect`, `BootromStaysLocked`: `LockInv` adds that a range begins in
  the flash memory, and that one that meets the boot ROM's pages (`MeetsBootrom`)
  was granted with the magic number or with a negative end. `BootromReached` says
  that a page of the boot ROM is programmed only for an address inside of it,
  whatever wraps, because page numbers behind the first bank stay in the second
  and the boot ROM is in the first; `OpenRange` gives from it that such an
  address passes the test of the range only if the range meets the boot ROM.
- `ResetsAreFollowed` (`ResetGoesWhereMeant`): `RequestInv` says that a request
  for flash mode is there exactly between the handover and the boot ROM's
  decision, and that the press that left flash mode is remembered until the
  jump.
- `WritesNeedAGrant` (`WritesUnderCurrentRange`): `RangeInv` says that a range
  that is open in flash mode was granted on the present link. RAM survives a
  reset; `flash_mode` closes the range before it listens.

**The flasher** (the second part). `FlasherRefinesHost` shows step by step that
the composition implements `BootSpec` (`FlasherIsAHost`);
`FlasherKeepsBootrom`, `FlasherResetsFollowed` and `FlasherWritesNeedAGrant` are
the boot ROM's theorems carried over by it. `FlasherNeedsMagic` (`MagicNeeded`)
says more than the first: no end that the flasher sends is negative (`EndsInv`),
so that only the magic number opens the boot ROM. `FlashingTypeCorrect` adds `PortInv`,
without which a step of the flasher would not be a packet on a link that is up.
`AcknowledgedBlocksWritten` (`AckedBlocksAreWritten`) rests on `FlashInv`:
`StreamInv` bounds what is under way between flasher and device at each place
of the program (the one packet of an earlier run is answered first, and its answer is taken by
the first look at the state), `RequestsInv` says which block the request on the
link is for and that it lies in the flash memory, where a block is programmed
at its own address (`BlockIsItsPages`), and `BlocksInv` that the block whose acknowledgement is under way
is written. The attempt to prove it without `crowded`
failed for a good reason, see below.

The last part follows an undisturbed run through its waits, none of which has a
timeout. `LinkInv` ties the link to the processor: a device that hangs with its
link up has a packet before it that it did not know. `StageInv` says for each
place of the program what is under way (one packet or its one answer, `Exchange`),
which mode the device is in and which range it has granted. From it:

- `UndisturbedRunNotStuck`: every wait has its answer under way, so that someone
  has a step to take;
- `UndisturbedRunAdvances`: each step leaves fewer blocks to write, or less
  `Work` at the present one, which weighs a packet by the answers it can have;
- `UndisturbedBlocksInRange`: the range asked for covers each block that
  `check_segs` lets through, so that the boot ROM refuses no page;
- `UndisturbedRunGivesUpForAReason`: only a missing port, an image that cannot
  be loaded and a page that was not programmed end a run early.

**Images** (FlashImageProofs). `ImageSound` proves `ImageInv`, from which
`ImageTypeCorrect`, `SegmentsNeverShareBlock` (`SegmentsShareNoBlock`),
`OnlyImageBlocksTouched` (`NothingElseTouched`) and `WholeImageWritten`
(`ImageWritten`) follow. While a file is read (`BuildOK`), each segment holds
the data of the file's headers at their addresses (`SegmentFits`), every byte of
a header is in a segment, and no two segments meet in a block, through padding,
merging and the search for the segment before. Once loaded (`LoadedOK`), each
segment has a file it comes from (`own`, growing along the queue), and what the
writer has passed is in flash or in a block where a later file has data.

**The serial receiver** (UsartRxProofs). `UsartTypeCorrect`, `BytesInOrder`
(`StreamIntact`), `BytesConserved` (`NothingLost`): `StreamInv` says of an
undisturbed receiver which of the two buffers the DMA engine and the CPU are at
(`SidesOK`), which byte of the stream each cell holds that is not yet copied
(`DmaOK`), that the bytes copied and those waiting are the ones that arrived
(`Conserved`) and that the FIFO holds consecutive bytes (`FifoOK`), between any
two reads of the DMA registers.

**The USB receive path** (UsbReceiveProofs). `UsbTypeCorrect` needs that every
unit under way is of a frame that was sent, so that the header it may be taken
for exists, and that a packet is no longer than a bank. `PathSound` proves
`PathInv`: while the banks are in step (`BanksOK`) and nothing has been cut, the
packets in the banks and the host are those from the reader's place to the end
of what was sent (`Chain`), and what the reader has of a frame is the frame's
beginning (`Within`). The places are named by frame and number, since an empty
packet does not show where it belongs; so the proof covers hosts that send
empty packets too. A quiet link satisfies it whatever was cut before, which is
why a cut frame does no lasting harm. `DispatchedWasSent` (`AcceptedWasSent`)
follows: what is dispatched is a whole frame, a later one than any before, and
the very next one while nothing has timed out and no reset came.

`PathIsAQueue` (`PathIsFifo`) says it of the units instead of the packets, for
which the packets under way are flattened. What `FlattenSeq` computes needs an
induction on the length of a sequence; it is done by hand, with the least length
at which the claim would fail (`NatSet`, `FlatCat`). `FifoInv` then adds to
`PathInv` that the flattened packets from the reader's place on are the frames
not yet dispatched. `PathNeverStuck`: on a whole link endpoint and reader do not
wait for each other while anything is under way, except before an empty packet,
which is the deadlock described below. `PathAdvances`: each step of either
increases the frames dispatched, or, with these equal, moves a packet out of the
host, out of a bank, or the reader on in its frame.

**The simulated card** (MifareSimProofs). `SimSound` proves `SimInv`:
`AuthInv` adds that a selected card has forgotten the last key, and that the
block of a two-step command lies in the sector of the key in use; in `AUTH1`,
where the sector is noted before the reader has answered, it says nothing of
what is proven. `StepInv` is what the first frame of a value operation has
checked.
`SimTypeCorrect`, `AuthenticatedMeansProven` (`AuthBeforeAccess`),
`AccessOnlyInProvenSector` (`OnlyProvenSector`) and `WritesArePermitted`
(`WritesHonourAccessCodes`) follow.

Only model-checked are the liveness properties themselves, since the prover does
no fairness and no ENABLED. For each, what does not need fairness is proved: that
nobody is stuck, with the guards of the steps written out, and that every step
counts.

| Property | Never stuck | Every step counts |
|---|---|---|
| `UndisturbedRunEnds` | `UndisturbedRunNotStuck` | `UndisturbedRunAdvances` |
| `DownloadEnds` | `CleanDownloadNotStuck` | `CleanDownloadAdvances` |
| `EveryFrameDispatched` | `PathNeverStuck` | `PathAdvances` |
| `SenderWaitsForLiveThread` | `SendNeverStuck` | `SendAdvances` |
| `DeadThreadIsClosed` | `DeadThreadNotStuck` | `DeadThreadRunsDown` |

What remains to TLC is that a step which stays possible is taken, that the
strongly fair timeout runs out, and that the resets of a device end.

## Behaviour the properties make room for

Some properties have an exception because the code has one:

- `StreamIntact`, `NothingLost`: an overrun; a FIFO filled to its last byte,
  which then reads as empty; a rollover between the two reads of `US_RCR`
  (`usart.c:94`, `101`), after which the copy length wraps.
  `DoubleBufferingKeepsStream` in UsartRx is the statement without the last
  exception; TLC refutes it.
- `TraceClearOfChunks`: a chunk taken from below the trace, after which the room
  for the trace wraps.
- `DeadThreadIsClosed`: waits without timeout, and a command that the dead
  thread left pending, which the next connection sends first.
- `Stored` in ReplyQueue: a full ring empties. `storeReply` warns of it, and a
  download then loses frames.
- `BootromLocked`: `START_FLASH` compares its arguments as `int`
  (`bootrom.c:169-181`), and an end that is negative passes both tests for the
  end; `bootrom.c:133` then compares with it as an unsigned number. The comment
  above the test ("the parameters are outside of the protected bootrom area")
  is `MagicNeeded` in BootRom; TLC refutes it for the host of `boot_rom`, and
  `FlasherNeedsMagic` proves it for the flasher.
- `AckedBlocksAreWritten`: `wait_for_ack` takes any ACK. Two looks at the
  device's state come before the first block and absorb one command that a
  killed run left behind; of several (`crowded`) the later are acknowledged
  when this run's first blocks are on their way.
- `TrueMeansComplete`: `dl_it` takes any ACK for the end and does not compare
  what it has copied with what it asked for.
- `DownloadEnds`: a flash chip that stays busy makes the device return without
  data or ACK (`appmain.c:2041`), and a caller without timeout waits forever.
- `ImageWritten`: two files may have data in one block, and the later one
  erases the earlier.
- `AcceptedWasSent`, `EveryFrameDispatched`: a bus reset returns the endpoint to
  its first bank and leaves `btReceiveBank` as it is (`skewed`); the driver then
  waits at the wrong bank until the device restarts or another reset falls
  right. A boot ROM whose read is cut short runs the packet with the tail of
  the one before it.
- `EveryFrameDispatched`: an empty packet is never taken from its bank between
  frames (`usb_cdc.c:607-619`). `HostZlp = TRUE`, a host that ends a transfer of
  full packets with an empty one, refutes the property; the run has it FALSE. By
  `PathNeverStuck` there is no other way for a whole link to get stuck.
- `UndisturbedRunEnds`: a packet of an earlier run that is still waiting when a
  run begins counts as a disturbance.
- `WritesHonourAccessCodes`: the access codes of block 128 are those of another
  block. A data block that may not be written gets what is
  left in `response` ("don't change anything", `mifaresim.c:1187`), and TRANSFER
  asks for no permission, for a trailer either. Neither stores what the reader
  has sent in a write.

Two deviations have no run of their own. A reply without payload keeps the
length of the one before it, against `doc/new_frame_format.md:55`: that is
`ReplyLengthIsFrameLength` in ClientComms, which TLC refutes with
`PayloadLengths = {0, 2}`. A frame of the wrong length in the second step of an
increment falls into the code of a decrement (`ValueOperandBad` in MifareSim).

## Not modelled

The radio protocols but for the simulated card (signal processing in real time),
the FPGA, the client's command files (parsing around one request and reply),
ciphers and cryptanalysis, EMV and FIDO, scripting, spiffs and other third-party
code, the operating system's serial drivers. `PROJECT.json` gives the reason for
each. Most of the repository's lines are of these kinds, so the map covers a
small share of them: the parts with shared state, failure and ordering.

Within the modelled parts: the FPGA download, which sends a fixed number of
bytes, and the frame that prolongs a download's timeout; a host that puts the
end of one frame and the start of the next into one packet; a host whose frames
have lengths that no command has (`cmd.c:183`, `196`); a client that takes the
middle of a damaged frame for a frame, since it does not resynchronise
(`comms.c:482`); USB enumeration and
the transmitters; the bits of the access codes before they are decoded; the
memory behind `ans` when a longer frame is decrypted into it; the collection of
nonces; the bounds of `toSend`, which the frames of all callers fit.

## Plan

Done: ReplyQueue, ReplyBuffer, ClientComms, UsartRx, BigBuf, BootRom, Flashing,
Download, FlashImage, UsbReceive, MifareSim, and theorems about all of them:
every safety property of the runs is proved, and for every liveness property that
its wait is never in vain. What would come
next: the reply path of the device (`reply_ng`, `usb_write`) composed with
UsbReceive, and the spiffs wrapper of `spiffs.c` with its lazy mount and its
recovery of deleted names.
