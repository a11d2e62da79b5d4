------------------------------- MODULE UsartRx ------------------------------
(***************************************************************************)
(* The device's serial receiver for the FPC connector (armsrc/usart.c).    *)
(* The PDC, a DMA engine of the chip, writes incoming bytes into one of    *)
(* two buffers and rolls over to the other one when it is full; the CPU    *)
(* polls usart_fill_rxfifo, which moves what has arrived to a FIFO, and    *)
(* usart_read_ng takes bytes from the FIFO.  The PDC runs while the CPU    *)
(* reads its registers, so each register read is a step of its own.        *)
(*                                                                         *)
(* A byte is represented by its position in the stream.                    *)
(***************************************************************************)
EXTENDS Integers

CONSTANTS USART_BUFFLEN,    \* size of a DMA buffer
          USART_FIFOLEN,    \* size of the FIFO
          WORD,             \* 2^16: uint16_t arithmetic wraps here
          Garbage,          \* what is read past the end of a DMA buffer
          MaxBytes          \* bound: bytes that arrive

ASSUME SizesAssumption ==
    /\ USART_BUFFLEN \in Nat \ {0}
    /\ USART_FIFOLEN \in Nat /\ USART_FIFOLEN >= USART_BUFFLEN
    /\ WORD \in Nat /\ WORD > USART_BUFFLEN + USART_FIFOLEN
    /\ Garbage \notin Nat
    /\ MaxBytes \in Nat

VARIABLES
    inbuf,               \* us_inbuf1, us_inbuf2
    rpbuf, rcr, rncr,    \* the PDC: buffer being written, counters (external)
    cur, off,            \* usart_cur_inbuf, usart_cur_inbuf_off
    fifo, low, high,     \* us_rxfifo, us_rxfifo_low, us_rxfifo_high
    upc,                 \* where the CPU is
    arrived,             \* history: bytes received by the chip
    nread,               \* history: bytes handed to the caller
    overrun,             \* history: a byte found both buffers full
    filled,              \* history: received bytes filled the FIFO to its end
    split,               \* history: a rollover fell between the two reads of US_RCR
    corrupt              \* history: some byte handed out was not the next one

pdc == <<inbuf, rpbuf, rcr, rncr>>
cpu == <<cur, off, fifo, low, high>>
history == <<nread, filled, corrupt>>
vars == <<pdc, cpu, upc, arrived, overrun, split, history>>

Buf == {1, 2}
Other(b) == 3 - b
BufSlots == 0 .. USART_BUFFLEN - 1
FifoSlots == 0 .. USART_FIFOLEN - 1
Byte == Nat \cup {Garbage}

PdcOK ==
    /\ inbuf \in [Buf -> [BufSlots -> Byte]]
    /\ rpbuf \in Buf
    /\ rcr \in 0 .. USART_BUFFLEN /\ rncr \in {0, USART_BUFFLEN}

CpuOK ==
    /\ cur \in Buf /\ off \in 0 .. WORD - 1
    /\ fifo \in [FifoSlots -> Byte]
    /\ low \in FifoSlots /\ high \in FifoSlots
    /\ upc \in {"next", "current", "copy", "read"}

HistoryOK ==
    /\ arrived \in Nat /\ nread \in Nat
    /\ overrun \in BOOLEAN /\ filled \in BOOLEAN /\ split \in BOOLEAN
    /\ corrupt \in BOOLEAN

TypeOK == PdcOK /\ CpuOK /\ HistoryOK

\* usart_init: the PDC owns both buffers and starts with the first.
Init ==
    /\ inbuf = [b \in Buf |-> [i \in BufSlots |-> Garbage]]
    /\ rpbuf = 1 /\ rcr = USART_BUFFLEN /\ rncr = USART_BUFFLEN
    /\ cur = 1 /\ off = 0
    /\ fifo = [i \in FifoSlots |-> Garbage] /\ low = 0 /\ high = 0
    /\ upc = "next"
    /\ arrived = 0 /\ nread = 0
    /\ overrun = FALSE /\ filled = FALSE /\ split = FALSE /\ corrupt = FALSE

-----------------------------------------------------------------------------
(* The PDC (external) *)

\* A byte arrives.  The next buffer takes over when the current one is full.
Arrive ==
    /\ arrived < MaxBytes
    /\ arrived' = arrived + 1
    /\ IF rcr = 0
       THEN overrun' = TRUE /\ UNCHANGED <<pdc, split>>
       ELSE /\ inbuf' = [inbuf EXCEPT ![rpbuf][USART_BUFFLEN - rcr] = arrived]
            /\ IF rcr = 1 /\ rncr # 0
               THEN /\ rpbuf' = Other(rpbuf) /\ rcr' = rncr /\ rncr' = 0
                    /\ split' = (split \/ upc = "copy")
               ELSE rcr' = rcr - 1 /\ UNCHANGED <<rpbuf, rncr, split>>
            /\ UNCHANGED overrun
    /\ UNCHANGED <<cpu, upc, history>>

-----------------------------------------------------------------------------
(* usart_fill_rxfifo *)

\* The code's free space of the FIFO: an empty FIFO and a full one look the same.
rxfifo_free == IF low > high THEN low - high ELSE USART_FIFOLEN - high + low

BuggyFromBuf(i) == IF i - off \in BufSlots THEN inbuf[cur][i - off] ELSE Garbage

\* The byte at position i of the buffer being emptied.
FromBuf(i) == IF i \in BufSlots THEN inbuf[cur][i] ELSE Garbage

\* Bytes in the DMA buffers that have not been moved to the FIFO yet.
InBuffers == (IF rncr = 0 THEN 2 * USART_BUFFLEN ELSE USART_BUFFLEN) - rcr - off

BuggyFifoIndex(i) == IF i < 0 THEN i + USART_FIFOLEN ELSE i

\* FIFO indices wrap at the end of the array.
FifoIndex(i) == IF i < 0 THEN i + USART_FIFOLEN
                ELSE IF i >= USART_FIFOLEN THEN i - USART_FIFOLEN ELSE i

\* Move n bytes from the current buffer to the FIFO.
CopyToFifo(n) ==
    /\ fifo' = [s \in FifoSlots |->
                  LET i == FifoIndex(s - high)
                  IN  IF i < n THEN FromBuf(off + i) ELSE fifo[s]]
    /\ high' = FifoIndex(high + n)
    /\ filled' = (filled \/ (n > 0 /\ n = rxfifo_free /\ n <= InBuffers))

\* US_RNCR = 0: the PDC has moved on to the next buffer, so the current one
\* is full.  Empty it and give it back as next buffer; a PDC that has run out
\* of space takes it at once.
FullBufferFits ==
    /\ upc = "next" /\ rncr = 0
    /\ LET available == (USART_BUFFLEN - off) % WORD IN
         /\ available <= rxfifo_free
         /\ CopyToFifo(available)
    /\ IF rcr = 0 THEN rpbuf' = cur /\ rcr' = USART_BUFFLEN /\ UNCHANGED rncr
                  ELSE rncr' = USART_BUFFLEN /\ UNCHANGED <<rpbuf, rcr>>
    /\ cur' = Other(cur) /\ off' = 0
    /\ upc' = "current"
    /\ UNCHANGED <<inbuf, low, arrived, overrun, split, nread, corrupt>>

\* The FIFO has not enough room for the rest of the full buffer.
FullBufferTooLong ==
    /\ upc = "next" /\ rncr = 0
    /\ (USART_BUFFLEN - off) % WORD > rxfifo_free
    /\ CopyToFifo(rxfifo_free)
    /\ off' = (off + rxfifo_free) % WORD
    /\ upc' = "read"
    /\ UNCHANGED <<pdc, cur, low, arrived, overrun, split, nread, corrupt>>

NoFullBuffer ==
    /\ upc = "next" /\ rncr # 0 /\ upc' = "current"
    /\ UNCHANGED <<pdc, cpu, arrived, overrun, split, history>>

\* The first read of US_RCR: is there anything new in the current buffer?  The
\* comparison is unsigned: an offset past the end makes it true.
CheckCurrent ==
    /\ upc = "current"
    /\ upc' = IF off > USART_BUFFLEN \/ rcr < USART_BUFFLEN - off
              THEN "copy" ELSE "read"
    /\ UNCHANGED <<pdc, cpu, arrived, overrun, split, history>>

Smaller(m, n) == IF m < n THEN m ELSE n

BuggyCopyCurrent ==
    /\ upc = "copy"
    /\ LET n == Smaller((USART_BUFFLEN - rcr - off) % WORD, rxfifo_free) IN
         /\ CopyToFifo(n)
         /\ off' = n
    /\ upc' = "read"
    /\ UNCHANGED <<pdc, cur, low, arrived, overrun, split, nread, corrupt>>

\* The second read of US_RCR: take what there is.
CopyCurrent ==
    /\ upc = "copy"
    /\ LET n == Smaller((USART_BUFFLEN - rcr - off) % WORD, rxfifo_free) IN
         /\ CopyToFifo(n)
         /\ off' = (off + n) % WORD
    /\ upc' = "read"
    /\ UNCHANGED <<pdc, cur, low, arrived, overrun, split, nread, corrupt>>

-----------------------------------------------------------------------------
\* usart_rxdata_available, after usart_fill_rxfifo.
rxdata_available == IF low <= high THEN high - low ELSE USART_FIFOLEN - low + high

\* usart_read_ng takes up to what is available, or the caller only polled.
usart_read_ng(n) ==
    /\ upc = "read" /\ n <= rxdata_available
    /\ low' = FifoIndex(low + n)
    /\ nread' = nread + n
    /\ corrupt' = (corrupt \/ \E i \in 0 .. n - 1 : fifo[FifoIndex(low + i)] # nread + i)
    /\ upc' = "next"
    /\ UNCHANGED <<pdc, cur, off, fifo, high, arrived, overrun, split, filled>>

Next ==
    \/ Arrive
    \/ FullBufferFits \/ FullBufferTooLong \/ NoFullBuffer
    \/ CheckCurrent \/ CopyCurrent
    \/ \E n \in 0 .. USART_FIFOLEN - 1 : usart_read_ng(n)

Spec == Init /\ [][Next]_vars

-----------------------------------------------------------------------------
(***************************************************************************)
(* The bytes usart_read_ng hands out are the bytes that arrived, in order, *)
(* none lost and none twice, unless one of three things happened: the PDC  *)
(* found both buffers full, the FIFO was filled to its last byte, or a     *)
(* rollover fell between the two reads of US_RCR.                          *)
(***************************************************************************)
StreamIntact == corrupt => overrun \/ filled \/ split

Undisturbed == ~(overrun \/ filled \/ split)

(***************************************************************************)
(* Conservation, at every step of the poll and of the PDC: each byte that  *)
(* arrived was read, is in the FIFO, or is in the part of the DMA buffers  *)
(* that the next polls will copy; and the FIFO holds exactly the bytes     *)
(* that follow the ones read.                                              *)
(***************************************************************************)
NothingLost ==
    Undisturbed =>
        /\ arrived = nread + rxdata_available + InBuffers
        /\ \A i \in 0 .. rxdata_available - 1 : fifo[FifoIndex(low + i)] = nread + i

(***************************************************************************)
(* doc/new_frame_format.md: "if current DMA buffer is partially filled,    *)
(* transfer available data to our FIFO, remember how many bytes we already *)
(* copied": the double buffering alone loses nothing.                      *)
(***************************************************************************)
DoubleBufferingKeepsStream == corrupt => overrun \/ filled
=============================================================================
