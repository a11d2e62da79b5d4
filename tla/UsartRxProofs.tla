---------------------------- MODULE UsartRxProofs ---------------------------
(***************************************************************************)
(* Proofs about the serial receiver, for every size of the DMA buffers and *)
(* of the FIFO, and any number of bytes.                                   *)
(***************************************************************************)
EXTENDS UsartRx, TLAPS

-----------------------------------------------------------------------------
(* Index arithmetic *)

LEMMA Sizes ==
    /\ USART_BUFFLEN \in Nat /\ USART_BUFFLEN > 0
    /\ USART_FIFOLEN \in Nat /\ USART_FIFOLEN > 0
    /\ WORD \in Nat /\ WORD > USART_BUFFLEN
  BY SizesAssumption

LEMMA TwoBuffers ==
    ASSUME NEW b \in Buf
    PROVE  Other(b) \in Buf /\ Other(b) # b /\ Other(Other(b)) = b
  BY DEF Buf, Other

(***************************************************************************)
(* What is in the FIFO and what is free of it add up to its size; free is  *)
(* never zero, since a full FIFO is taken for an empty one.                *)
(***************************************************************************)
LEMMA FifoSpace ==
    ASSUME CpuOK
    PROVE  /\ rxdata_available \in Nat /\ rxdata_available < USART_FIFOLEN
           /\ rxfifo_free \in Nat /\ rxfifo_free > 0
           /\ rxdata_available + rxfifo_free = USART_FIFOLEN
           /\ FifoIndex(low + rxdata_available) = high
  BY Sizes DEF CpuOK, FifoSlots, rxdata_available, rxfifo_free, FifoIndex

LEMMA IndexInFifo ==
    ASSUME NEW h \in FifoSlots, NEW n \in 0 .. USART_FIFOLEN
    PROVE  FifoIndex(h + n) \in FifoSlots
  BY Sizes DEF FifoSlots, FifoIndex

\* Moving n bytes to the FIFO without filling it.
LEMMA FifoGrows ==
    ASSUME CpuOK, NEW n \in Nat, n < rxfifo_free, CopyToFifo(n), low' = low
    PROVE  /\ rxdata_available' = rxdata_available + n
           /\ \A i \in 0 .. rxdata_available - 1 :
                 fifo'[FifoIndex(low + i)] = fifo[FifoIndex(low + i)]
           /\ \A i \in 0 .. n - 1 :
                 fifo'[FifoIndex(low + (rxdata_available + i))] = FromBuf(off + i)
<1>0. low \in 0 .. USART_FIFOLEN - 1 /\ high \in 0 .. USART_FIFOLEN - 1
      /\ USART_FIFOLEN \in Nat /\ USART_FIFOLEN > 0
  BY Sizes DEF CpuOK, FifoSlots
<1>1. high' = FifoIndex(high + n)
  BY DEF CopyToFifo
<1>2. rxdata_available' = rxdata_available + n
  BY <1>0, <1>1 DEF rxdata_available, rxfifo_free, FifoIndex
<1>3. \A s \in FifoSlots : fifo'[s] = IF FifoIndex(s - high) < n THEN FromBuf(off + FifoIndex(s - high))
                                                            ELSE fifo[s]
  BY DEF CopyToFifo
<1>4. ASSUME NEW i \in 0 .. rxdata_available - 1
      PROVE  FifoIndex(low + i) \in FifoSlots /\ ~(FifoIndex(FifoIndex(low + i) - high) < n)
  BY <1>0 DEF rxdata_available, rxfifo_free, FifoIndex, FifoSlots
<1>5. ASSUME NEW i \in 0 .. n - 1
      PROVE  /\ FifoIndex(low + (rxdata_available + i)) \in FifoSlots
             /\ FifoIndex(FifoIndex(low + (rxdata_available + i)) - high) = i
  BY <1>0 DEF rxdata_available, rxfifo_free, FifoIndex, FifoSlots
<1>6. ASSUME NEW i \in 0 .. n - 1
      PROVE  fifo'[FifoIndex(low + (rxdata_available + i))] = FromBuf(off + i)
  <2>1. i < n
    OBVIOUS
  <2> QED
    BY <1>3, <1>5, <2>1
<1> QED
  BY <1>2, <1>3, <1>4, <1>6

-----------------------------------------------------------------------------
(* Types *)

LEMMA InBufferIsByte ==
    ASSUME PdcOK, CpuOK, NEW i
    PROVE  FromBuf(i) \in Byte
  BY DEF PdcOK, CpuOK, FromBuf, Byte

LEMMA CopyType ==
    ASSUME PdcOK, CpuOK, NEW n \in Nat, n <= rxfifo_free, CopyToFifo(n)
    PROVE  fifo' \in [FifoSlots -> Byte] /\ high' \in FifoSlots
<1>1. \A s \in FifoSlots : fifo[s] \in Byte
  BY DEF CpuOK
<1>2. fifo' \in [FifoSlots -> Byte]
  BY <1>1, InBufferIsByte DEF CopyToFifo
<1>3. n \in 0 .. USART_FIFOLEN
  BY FifoSpace, Sizes
<1>4. high' \in FifoSlots
  BY <1>3, IndexInFifo DEF CopyToFifo, CpuOK
<1> QED
  BY <1>2, <1>4

LEMMA WordType == \A i \in Int : i % WORD \in 0 .. WORD - 1
  BY Sizes

LEMMA OffType == CpuOK => off \in Int /\ rxfifo_free \in Int
  BY FifoSpace, Sizes DEF CpuOK

LEMMA PdcTypeStep ==
    ASSUME PdcOK, CpuOK, HistoryOK, [Next]_vars
    PROVE  PdcOK'
<1>1. CASE Arrive
  <2>1. CASE rcr = 0
    BY <1>1, <2>1 DEF Arrive, PdcOK, pdc
  <2>2. CASE rcr # 0
    <3>1. USART_BUFFLEN - rcr \in BufSlots /\ rcr - 1 \in 0 .. USART_BUFFLEN
      BY <2>2, Sizes DEF PdcOK, BufSlots
    <3>2. arrived \in Byte
      BY DEF HistoryOK, Byte
    <3>3. inbuf' \in [Buf -> [BufSlots -> Byte]]
      BY <1>1, <2>2, <3>1, <3>2 DEF Arrive, PdcOK
    <3>4. CASE rcr = 1 /\ rncr # 0
      <4>1. rpbuf' = Other(rpbuf) /\ rcr' = rncr /\ rncr' = 0
        BY <1>1, <2>2, <3>4 DEF Arrive
      <4>2. rcr' \in 0 .. USART_BUFFLEN
        <5>1. rncr = 0 \/ rncr = USART_BUFFLEN
          BY DEF PdcOK
        <5> QED
          BY <4>1, <5>1, Sizes
      <4>3. rpbuf' \in Buf
        BY <4>1, TwoBuffers DEF PdcOK
      <4> QED
        BY <3>3, <4>1, <4>2, <4>3 DEF PdcOK
    <3>5. CASE ~(rcr = 1 /\ rncr # 0)
      <4>1. rpbuf' = rpbuf /\ rcr' = rcr - 1 /\ rncr' = rncr
        BY <1>1, <2>2, <3>5 DEF Arrive
      <4> QED
        BY <3>1, <3>3, <4>1 DEF PdcOK
    <3> QED
      BY <3>4, <3>5
  <2> QED
    BY <2>1, <2>2
<1>2. CASE FullBufferFits
  <2>1. CASE rcr = 0
    BY <1>2, <2>1, Sizes DEF FullBufferFits, PdcOK, CpuOK
  <2>2. CASE rcr # 0
    BY <1>2, <2>2 DEF FullBufferFits, PdcOK
  <2> QED
    BY <2>1, <2>2
<1>3. CASE UNCHANGED pdc
  BY <1>3 DEF pdc, PdcOK
<1>4. CASE FullBufferTooLong \/ NoFullBuffer \/ CheckCurrent \/ CopyCurrent
           \/ (\E n \in 0 .. USART_FIFOLEN - 1 : usart_read_ng(n)) \/ UNCHANGED vars
  BY <1>3, <1>4 DEF FullBufferTooLong, NoFullBuffer, CheckCurrent, CopyCurrent, usart_read_ng, vars
<1> QED
  BY <1>1, <1>2, <1>4 DEF Next

LEMMA CpuTypeStep ==
    ASSUME PdcOK, CpuOK, HistoryOK, [Next]_vars
    PROVE  CpuOK'
<1>1. CASE Arrive \/ NoFullBuffer \/ CheckCurrent \/ UNCHANGED vars
  <2>1. UNCHANGED cpu /\ upc' \in {"next", "current", "copy", "read"}
    BY <1>1 DEF Arrive, NoFullBuffer, CheckCurrent, vars, CpuOK
  <2> QED
    BY <2>1 DEF cpu, CpuOK
<1>2. CASE FullBufferFits
  <2> DEFINE n == (USART_BUFFLEN - off) % WORD
  <2>1. /\ n <= rxfifo_free /\ CopyToFifo(n) /\ cur' = Other(cur) /\ off' = 0
        /\ upc' = "current" /\ low' = low
    BY <1>2 DEF FullBufferFits
  <2>2. n \in Nat
    BY OffType, WordType, Sizes
  <2>3. fifo' \in [FifoSlots -> Byte] /\ high' \in FifoSlots
    BY <2>1, <2>2, CopyType
  <2>4. cur' \in Buf /\ off' \in 0 .. WORD - 1
    BY <2>1, TwoBuffers, Sizes DEF CpuOK
  <2> QED
    BY <2>1, <2>3, <2>4 DEF CpuOK
<1>3. ASSUME NEW n \in Nat, n <= rxfifo_free, CopyToFifo(n), off' = (off + n) % WORD,
             upc' = "read", UNCHANGED <<cur, low>>
      PROVE  CpuOK'
  <2>1. fifo' \in [FifoSlots -> Byte] /\ high' \in FifoSlots
    BY <1>3, CopyType
  <2>2. off' \in 0 .. WORD - 1
    BY <1>3, OffType, WordType
  <2> QED
    BY <1>3, <2>1, <2>2 DEF CpuOK
<1>4. CASE FullBufferTooLong
  <2>1. rxfifo_free \in Nat /\ rxfifo_free <= rxfifo_free
    BY FifoSpace
  <2> QED
    BY <1>3, <1>4, <2>1 DEF FullBufferTooLong
<1>5. CASE CopyCurrent
  <2> DEFINE k == (USART_BUFFLEN - rcr - off) % WORD
             n == Smaller(k, rxfifo_free)
  <2>1. k \in Nat
    <3>1. USART_BUFFLEN - rcr - off \in Int
      BY OffType, Sizes DEF PdcOK
    <3> QED
      BY <3>1, WordType, Sizes
  <2>2. n \in Nat /\ n <= rxfifo_free
    <3> HIDE DEF k
    <3> QED
      BY <2>1, FifoSpace DEF Smaller
  <2>3. CopyToFifo(n) /\ off' = (off + n) % WORD /\ upc' = "read" /\ UNCHANGED <<cur, low>>
    BY <1>5 DEF CopyCurrent
  <2> HIDE DEF n
  <2> QED
    BY <1>3, <2>2, <2>3
<1>6. ASSUME NEW n \in 0 .. USART_FIFOLEN - 1, usart_read_ng(n) PROVE CpuOK'
  <2>1. low' \in FifoSlots
    BY <1>6, IndexInFifo, Sizes DEF usart_read_ng, CpuOK
  <2> QED
    BY <1>6, <2>1 DEF usart_read_ng, CpuOK
<1> QED
  BY <1>1, <1>2, <1>4, <1>5, <1>6 DEF Next

LEMMA HistoryTypeStep ==
    ASSUME PdcOK, CpuOK, HistoryOK, [Next]_vars
    PROVE  HistoryOK'
<1>1. CASE Arrive
  <2>1. arrived' \in Nat /\ nread' = nread
    BY <1>1 DEF Arrive, HistoryOK, history
  <2>2. UNCHANGED <<filled, corrupt>>
    BY <1>1 DEF Arrive, history
  <2>3. overrun' \in BOOLEAN /\ split' \in BOOLEAN
    BY <1>1, Zenon DEF Arrive, HistoryOK
  <2> QED
    BY <2>1, <2>2, <2>3 DEF HistoryOK
<1>2. ASSUME NEW n, CopyToFifo(n) PROVE filled' \in BOOLEAN
  BY <1>2 DEF CopyToFifo, HistoryOK
<1>3. CASE FullBufferFits \/ FullBufferTooLong \/ CopyCurrent
  <2>1. filled' \in BOOLEAN /\ UNCHANGED <<arrived, overrun, split, nread, corrupt>>
    BY <1>2, <1>3 DEF FullBufferFits, FullBufferTooLong, CopyCurrent
  <2> QED
    BY <2>1 DEF HistoryOK
<1>4. ASSUME NEW n \in 0 .. USART_FIFOLEN - 1, usart_read_ng(n) PROVE HistoryOK'
  <2>1. corrupt' \in BOOLEAN /\ UNCHANGED <<arrived, overrun, split, filled>>
    BY <1>4 DEF usart_read_ng, HistoryOK
  <2>2. nread' \in Nat
    BY <1>4 DEF usart_read_ng, HistoryOK
  <2> QED
    BY <2>1, <2>2 DEF HistoryOK
<1>5. CASE NoFullBuffer \/ CheckCurrent \/ UNCHANGED vars
  BY <1>5 DEF NoFullBuffer, CheckCurrent, vars, history, HistoryOK
<1> QED
  BY <1>1, <1>3, <1>4, <1>5 DEF Next

LEMMA UsartStart == Init => TypeOK
<1> SUFFICES ASSUME Init PROVE TypeOK
  OBVIOUS
<1>1. PdcOK
  BY Sizes DEF Init, PdcOK, Buf, Byte
<1>2. CpuOK
  BY Sizes DEF Init, CpuOK, Buf, Byte, FifoSlots
<1>3. HistoryOK
  BY DEF Init, HistoryOK
<1> QED
  BY <1>1, <1>2, <1>3 DEF TypeOK

(***************************************************************************)
(* The receiver keeps its types: the FIFO indices and the DMA counters     *)
(* never leave their arrays, even when usart_cur_inbuf_off runs past the   *)
(* end of a buffer and the 16 bit arithmetic wraps.                        *)
(***************************************************************************)
THEOREM UsartTypeCorrect == Spec => []TypeOK
<1>1. TypeOK /\ [Next]_vars => TypeOK'
  BY PdcTypeStep, CpuTypeStep, HistoryTypeStep DEF TypeOK
<1> QED
  BY <1>1, UsartStart, PTL DEF Spec

-----------------------------------------------------------------------------
(* The stream of bytes *)

\* The position in the stream of the byte that is moved to the FIFO next.
Base == nread + rxdata_available

(***************************************************************************)
(* Who works on which buffer, while nothing has gone wrong: the PDC is on  *)
(* the CPU's buffer, ahead of it, or has filled that and is on the other.  *)
(* Between the two reads of US_RCR the PDC stays ahead of off.             *)
(***************************************************************************)
SidesOK ==
    /\ off <= USART_BUFFLEN
    /\ rncr = 0 => rpbuf = Other(cur)
    /\ rncr # 0 => rpbuf = cur /\ rcr > 0 /\ off + rcr <= USART_BUFFLEN
    /\ upc = "copy" => off + rcr <= USART_BUFFLEN

\* The buffers hold the bytes that follow those in the FIFO.
DmaOK ==
    /\ rncr # 0 => \A j \in off .. USART_BUFFLEN - rcr - 1 : inbuf[cur][j] = Base + (j - off)
    /\ rncr = 0 =>
         /\ \A j \in off .. USART_BUFFLEN - 1 : inbuf[cur][j] = Base + (j - off)
         /\ \A j \in 0 .. USART_BUFFLEN - rcr - 1 :
               inbuf[Other(cur)][j] = Base + (USART_BUFFLEN - off) + j

Conserved == arrived = Base + InBuffers

FifoOK == \A i \in 0 .. rxdata_available - 1 : fifo[FifoIndex(low + i)] = nread + i

StreamInv == Undisturbed => SidesOK /\ DmaOK /\ Conserved /\ FifoOK /\ ~corrupt

LEMMA Numbers ==
    ASSUME TypeOK
    PROVE  /\ PdcOK /\ CpuOK /\ HistoryOK
           /\ USART_BUFFLEN \in Nat /\ USART_BUFFLEN > 0 /\ WORD \in Nat /\ WORD > USART_BUFFLEN
           /\ off \in Nat /\ rcr \in Nat /\ rcr <= USART_BUFFLEN
           /\ rncr = 0 \/ rncr = USART_BUFFLEN
           /\ nread \in Nat /\ arrived \in Nat /\ Base \in Nat
<1>1. PdcOK /\ CpuOK /\ HistoryOK
  BY DEF TypeOK
<1>2. off \in Nat
  BY <1>1, Sizes DEF CpuOK
<1>3. rcr \in Nat /\ rcr <= USART_BUFFLEN /\ (rncr = 0 \/ rncr = USART_BUFFLEN)
  BY <1>1, Sizes DEF PdcOK
<1>4. nread \in Nat /\ arrived \in Nat
  BY <1>1 DEF HistoryOK
<1>5. Base \in Nat
  BY <1>1, <1>4, FifoSpace DEF Base
<1> QED
  BY <1>1, <1>2, <1>3, <1>4, <1>5, Sizes

\* A byte arrives while nothing has gone wrong.
LEMMA ArriveKeeps ==
    ASSUME TypeOK, SidesOK, DmaOK, Conserved, FifoOK, Arrive, Undisturbed'
    PROVE  SidesOK' /\ DmaOK' /\ Conserved' /\ FifoOK'
<1> DEFINE B == USART_BUFFLEN
<1>0. /\ B \in Nat /\ B > 0 /\ off \in Nat /\ rcr \in Nat /\ rcr <= B /\ (rncr = 0 \/ rncr = B)
      /\ nread \in Nat /\ arrived \in Nat /\ Base \in Nat /\ cur \in Buf
      /\ inbuf \in [Buf -> [BufSlots -> Byte]]
  BY Numbers DEF CpuOK, PdcOK
<1>1. /\ rcr # 0 /\ arrived' = arrived + 1
      /\ inbuf' = [inbuf EXCEPT ![rpbuf][B - rcr] = arrived]
      /\ UNCHANGED <<cur, off, fifo, low, high, upc, nread>>
  BY DEF Arrive, Undisturbed, cpu, history
<1>2. Base' = Base /\ FifoOK' /\ rxdata_available' = rxdata_available
  BY <1>1 DEF Base, rxdata_available, FifoOK
<1>3. B - rcr \in BufSlots /\ Other(cur) \in Buf /\ Other(cur) # cur /\ Other(cur)' = Other(cur)
  BY <1>0, <1>1, TwoBuffers DEF BufSlots, Other
<1> HIDE DEF B
<1>4. CASE rncr # 0 /\ rcr = 1
  <2>1. /\ rpbuf' = Other(rpbuf) /\ rcr' = B /\ rncr' = 0 /\ upc # "copy" /\ rpbuf = cur
        /\ off + 1 <= B
    BY <1>0, <1>1, <1>4 DEF Arrive, Undisturbed, SidesOK, B
  <2>2. SidesOK'
    BY <1>0, <1>1, <1>3, <2>1 DEF SidesOK, B
  <2>3. InBuffers = B - 1 - off /\ InBuffers' = B - off /\ arrived = Base + (B - 1 - off)
    BY <1>0, <1>1, <1>4, <2>1 DEF InBuffers, Conserved, B
  <2>4. Conserved'
    BY <1>0, <1>1, <1>2, <2>3 DEF Conserved
  <2>5. ASSUME NEW j \in off .. B - 1 PROVE inbuf'[cur][j] = Base + (j - off)
    <3>1. j \in BufSlots
      BY <1>0 DEF BufSlots, B
    <3>2. CASE j = B - 1
      BY <1>0, <1>1, <1>3, <1>4, <2>1, <2>3, <3>1, <3>2
    <3>3. CASE j # B - 1
      <4>1. j \in off .. B - rcr - 1 /\ j # B - rcr
        BY <1>0, <1>4, <3>3
      <4>2. inbuf'[cur][j] = inbuf[cur][j]
        BY <1>0, <1>1, <1>3, <2>1, <3>1, <4>1
      <4> QED
        BY <1>4, <4>1, <4>2 DEF DmaOK, B
    <3> QED
      BY <3>2, <3>3
  <2>6. DmaOK'
    <3>1. B - rcr' - 1 < 0
      BY <1>0, <2>1
    <3> QED
      BY <1>0, <1>1, <1>2, <2>1, <2>5, <3>1 DEF DmaOK, B
  <2> QED
    BY <1>2, <2>2, <2>4, <2>6
<1>5. CASE rncr # 0 /\ rcr # 1
  <2>1. /\ rpbuf' = rpbuf /\ rcr' = rcr - 1 /\ rncr' = rncr /\ rpbuf = cur /\ off + rcr <= B
    BY <1>0, <1>1, <1>5 DEF Arrive, Undisturbed, SidesOK, B
  <2>2. SidesOK'
    BY <1>0, <1>1, <1>5, <2>1 DEF SidesOK, B
  <2>3. InBuffers = B - rcr - off /\ InBuffers' = B - rcr - off + 1 /\ arrived = Base + (B - rcr - off)
    BY <1>0, <1>1, <1>5, <2>1 DEF InBuffers, Conserved, B
  <2>4. Conserved'
    BY <1>0, <1>1, <1>2, <2>1, <2>3 DEF Conserved
  <2>5. ASSUME NEW j \in off .. B - rcr PROVE inbuf'[cur][j] = Base + (j - off)
    <3>1. j \in BufSlots
      BY <1>0, <1>1 DEF BufSlots, B
    <3>2. CASE j = B - rcr
      BY <1>0, <1>1, <1>3, <2>1, <2>3, <3>1, <3>2
    <3>3. CASE j # B - rcr
      <4>1. j \in off .. B - rcr - 1
        BY <1>0, <3>3
      <4>2. inbuf'[cur][j] = inbuf[cur][j]
        BY <1>0, <1>1, <1>3, <2>1, <3>1, <3>3
      <4> QED
        BY <1>5, <4>1, <4>2 DEF DmaOK, B
    <3> QED
      BY <3>2, <3>3
  <2>6. DmaOK'
    <3>1. B - rcr' - 1 = B - rcr
      BY <1>0, <2>1
    <3> QED
      BY <1>1, <1>2, <1>5, <2>1, <2>5, <3>1 DEF DmaOK, B
  <2> QED
    BY <1>2, <2>2, <2>4, <2>6
<1>6. CASE rncr = 0
  <2>1. /\ rpbuf' = rpbuf /\ rcr' = rcr - 1 /\ rncr' = 0 /\ rpbuf = Other(cur) /\ off <= B
    BY <1>0, <1>1, <1>6 DEF Arrive, Undisturbed, SidesOK, B
  <2>2. SidesOK'
    BY <1>0, <1>1, <1>3, <1>6, <2>1 DEF SidesOK, B
  <2>3. /\ InBuffers = 2 * B - rcr - off /\ InBuffers' = 2 * B - rcr - off + 1
        /\ arrived = Base + (2 * B - rcr - off)
    BY <1>0, <1>1, <1>6, <2>1 DEF InBuffers, Conserved, B
  <2>4. Conserved'
    BY <1>0, <1>1, <1>2, <2>3 DEF Conserved
  <2>5. inbuf'[cur] = inbuf[cur]
    BY <1>0, <1>1, <1>3, <2>1
  <2>6. ASSUME NEW j \in 0 .. B - rcr PROVE inbuf'[Other(cur)][j] = Base + (B - off) + j
    <3>1. j \in BufSlots
      BY <1>0, <1>1 DEF BufSlots, B
    <3>2. CASE j = B - rcr
      <4>1. inbuf'[Other(cur)][j] = arrived
        BY <1>0, <1>1, <1>3, <2>1, <3>1, <3>2
      <4> QED
        BY <1>0, <2>3, <3>2, <4>1
    <3>3. CASE j # B - rcr
      <4>1. j \in 0 .. B - rcr - 1
        BY <1>0, <3>3
      <4>2. inbuf'[Other(cur)][j] = inbuf[Other(cur)][j]
        BY <1>0, <1>1, <1>3, <2>1, <3>1, <3>3
      <4> QED
        BY <1>6, <4>1, <4>2 DEF DmaOK, B
    <3> QED
      BY <3>2, <3>3
  <2>7. DmaOK'
    <3>1. B - rcr' - 1 = B - rcr
      BY <1>0, <2>1
    <3>2. \A j \in off .. B - 1 : inbuf'[cur][j] = Base + (j - off)
      BY <1>6, <2>5 DEF DmaOK, B
    <3> QED
      BY <1>1, <1>2, <1>3, <2>1, <2>6, <3>1, <3>2 DEF DmaOK, B
  <2> QED
    BY <1>2, <2>2, <2>4, <2>7
<1> QED
  BY <1>4, <1>5, <1>6

\* Moving the right bytes to the FIFO.
LEMMA MoveKeepsFifo ==
    ASSUME TypeOK, FifoOK, NEW n \in Nat, n < rxfifo_free, CopyToFifo(n), UNCHANGED <<low, nread>>,
           \A k \in 0 .. n - 1 : FromBuf(off + k) = Base + k
    PROVE  FifoOK' /\ Base' = Base + n
<1> DEFINE m == rxdata_available
<1>0. CpuOK /\ m \in Nat /\ nread \in Nat
  BY Numbers, FifoSpace
<1>1. /\ rxdata_available' = m + n
      /\ \A i \in 0 .. m - 1 : fifo'[FifoIndex(low + i)] = fifo[FifoIndex(low + i)]
      /\ \A i \in 0 .. n - 1 : fifo'[FifoIndex(low + (m + i))] = FromBuf(off + i)
  BY <1>0, FifoGrows
<1>2. Base = nread + m
  BY DEF Base
<1> HIDE DEF m
<1>3. Base' = Base + n
  BY <1>0, <1>1, <1>2 DEF Base
<1>4. ASSUME NEW i \in 0 .. m + n - 1 PROVE fifo'[FifoIndex(low + i)] = nread + i
  <2>1. CASE i < m
    <3>1. i \in 0 .. m - 1
      BY <1>0, <2>1
    <3> QED
      BY <1>1, <3>1 DEF FifoOK, m
  <2>2. CASE i >= m
    <3>1. i - m \in 0 .. n - 1 /\ m + (i - m) = i /\ nread + m + (i - m) = nread + i
      BY <1>0, <2>2
    <3>2. fifo'[FifoIndex(low + (m + (i - m)))] = Base + (i - m)
      BY <1>1, <3>1
    <3> QED
      BY <1>2, <3>1, <3>2
  <2> QED
    BY <1>0, <2>1, <2>2
<1>5. FifoOK'
  <2>1. \A i \in 0 .. m + n - 1 : fifo'[FifoIndex(low' + i)] = nread' + i
    BY <1>4
  <2>2. ASSUME NEW i \in 0 .. rxdata_available' - 1
        PROVE  fifo'[FifoIndex(low' + i)] = nread' + i
    <3>1. i \in 0 .. m + n - 1
      BY <1>0, <1>1
    <3> QED
      BY <2>1, <3>1, Zenon
  <2> QED
    BY <2>2 DEF FifoOK, FifoIndex
<1> QED
  BY <1>3, <1>5

\* The full buffer is emptied into the FIFO and given back to the PDC.
LEMMA FullBufferKeeps ==
    ASSUME TypeOK, SidesOK, DmaOK, Conserved, FifoOK, FullBufferFits, Undisturbed'
    PROVE  SidesOK' /\ DmaOK' /\ Conserved' /\ FifoOK'
<1> DEFINE B == USART_BUFFLEN
           n == B - off
<1>0. /\ B \in Nat /\ B > 0 /\ off \in Nat /\ rcr \in Nat /\ rcr <= B /\ off <= B
      /\ nread \in Nat /\ arrived \in Nat /\ Base \in Nat /\ cur \in Buf
      /\ WORD \in Nat /\ WORD > B /\ n \in Nat
  BY Numbers DEF CpuOK, SidesOK
<1>1. /\ rncr = 0 /\ CopyToFifo((B - off) % WORD) /\ (B - off) % WORD <= rxfifo_free
      /\ cur' = Other(cur) /\ off' = 0 /\ upc' = "current"
      /\ UNCHANGED <<inbuf, low, arrived, nread>>
  BY DEF FullBufferFits
<1>2. (B - off) % WORD = n
  BY <1>0
<1>3. Other(cur) \in Buf /\ Other(cur)' = cur
  BY <1>0, <1>1, TwoBuffers DEF Other
<1>4. InBuffers = 2 * B - rcr - off
  BY <1>1 DEF InBuffers
<1>5. CopyToFifo(n) /\ n < rxfifo_free
  <2>1. rxfifo_free \in Nat /\ rxfifo_free > 0
    BY Numbers, FifoSpace
  <2>2. n <= InBuffers
    BY <1>0, <1>4
  <2>3. ~(n > 0 /\ n = rxfifo_free /\ n <= InBuffers)
    BY <1>1, <1>2 DEF CopyToFifo, Undisturbed
  <2> QED
    BY <1>0, <1>1, <1>2, <2>1, <2>2, <2>3
<1>6. \A k \in 0 .. n - 1 : FromBuf(off + k) = Base + k
  <2> SUFFICES ASSUME NEW k \in 0 .. n - 1 PROVE FromBuf(off + k) = Base + k
    OBVIOUS
  <2>1. off + k \in BufSlots /\ off + k \in off .. B - 1 /\ (off + k) - off = k
    BY <1>0 DEF BufSlots, B
  <2> QED
    BY <1>1, <2>1 DEF FromBuf, DmaOK, B
<1>7. FifoOK' /\ Base' = Base + n
  BY <1>0, <1>1, <1>5, <1>6, MoveKeepsFifo
<1>8. \A j \in 0 .. B - rcr - 1 : inbuf[Other(cur)][j] = Base + n + j
  BY <1>1 DEF DmaOK, B
<1> HIDE DEF B, n
<1>9. arrived = Base + (2 * B - rcr - off)
  BY <1>4 DEF Conserved
<1>10. CASE rcr = 0
  <2>1. rpbuf' = cur /\ rcr' = B /\ rncr' = 0
    BY <1>1, <1>10 DEF FullBufferFits, B
  <2>2. SidesOK'
    BY <1>0, <1>1, <1>3, <2>1 DEF SidesOK, B
  <2>3. Conserved'
    <3>1. InBuffers' = B
      BY <1>0, <1>1, <2>1 DEF InBuffers, B
    <3> QED
      BY <1>0, <1>1, <1>7, <1>9, <1>10, <3>1 DEF Conserved, n
  <2>4. DmaOK'
    <3>1. B - rcr' - 1 < 0 /\ B - rcr - 1 = B - 1
      BY <1>0, <1>10, <2>1
    <3>2. \A j \in 0 .. B - 1 : inbuf'[cur'][j] = Base' + (j - off')
      <4> SUFFICES ASSUME NEW j \in 0 .. B - 1 PROVE inbuf[Other(cur)][j] = Base + n + (j - 0)
        BY <1>1, <1>7
      <4> QED
        BY <1>8, <3>1
    <3> QED
      BY <1>0, <1>1, <2>1, <3>1, <3>2 DEF DmaOK, B
  <2> QED
    BY <1>7, <2>2, <2>3, <2>4
<1>11. CASE rcr # 0
  <2>1. rpbuf' = rpbuf /\ rcr' = rcr /\ rncr' = B /\ rpbuf = Other(cur)
    BY <1>1, <1>11 DEF FullBufferFits, SidesOK, B
  <2>2. SidesOK'
    BY <1>0, <1>1, <1>3, <1>11, <2>1 DEF SidesOK, B
  <2>3. Conserved'
    <3>1. InBuffers' = B - rcr
      BY <1>0, <1>1, <2>1 DEF InBuffers, B
    <3> QED
      BY <1>0, <1>1, <1>7, <1>9, <3>1 DEF Conserved, n
  <2>4. DmaOK'
    <3>1. \A j \in 0 .. B - rcr - 1 : inbuf'[cur'][j] = Base' + (j - off')
      <4> SUFFICES ASSUME NEW j \in 0 .. B - rcr - 1 PROVE inbuf[Other(cur)][j] = Base + n + (j - 0)
        BY <1>1, <1>7
      <4> QED
        BY <1>8
    <3> QED
      BY <1>0, <1>1, <2>1, <3>1 DEF DmaOK, B
  <2> QED
    BY <1>7, <2>2, <2>3, <2>4
<1> QED
  BY <1>10, <1>11

\* What there is in the current buffer is moved to the FIFO.
LEMMA CopyCurrentKeeps ==
    ASSUME TypeOK, SidesOK, DmaOK, Conserved, FifoOK, CopyCurrent, Undisturbed'
    PROVE  SidesOK' /\ DmaOK' /\ Conserved' /\ FifoOK'
<1> DEFINE B == USART_BUFFLEN
           n == B - rcr - off
<1>0. /\ B \in Nat /\ B > 0 /\ off \in Nat /\ rcr \in Nat /\ rcr <= B /\ off <= B
      /\ nread \in Nat /\ arrived \in Nat /\ Base \in Nat /\ cur \in Buf
      /\ WORD \in Nat /\ WORD > B /\ (rncr = 0 \/ rncr = B)
  BY Numbers DEF CpuOK, SidesOK
<1>1. /\ upc = "copy" /\ upc' = "read" /\ UNCHANGED <<inbuf, rpbuf, rcr, rncr, cur, low, arrived, nread>>
      /\ CopyToFifo(Smaller((B - rcr - off) % WORD, rxfifo_free))
      /\ off' = (off + Smaller((B - rcr - off) % WORD, rxfifo_free)) % WORD
  BY DEF CopyCurrent, pdc
<1>2. off + rcr <= B /\ n \in Nat /\ n <= B /\ (B - rcr - off) % WORD = n
  BY <1>0, <1>1 DEF SidesOK
<1>3. InBuffers >= n /\ InBuffers \in Nat
  BY <1>0, <1>2 DEF InBuffers
<1>4. rxfifo_free \in Nat /\ rxfifo_free > 0
  BY Numbers, FifoSpace
<1>5. CopyToFifo(n) /\ n < rxfifo_free /\ off' = off + n
  <2> DEFINE k == Smaller(n, rxfifo_free)
  <2>1. CopyToFifo(k) /\ off' = (off + k) % WORD /\ k \in Nat /\ k <= n /\ k <= rxfifo_free
        /\ (k = n \/ k = rxfifo_free)
    BY <1>1, <1>2, <1>4 DEF Smaller
  <2> HIDE DEF k
  <2>2. ~(k > 0 /\ k = rxfifo_free /\ k <= InBuffers)
    BY <2>1 DEF CopyToFifo, Undisturbed
  <2>3. k = n /\ n < rxfifo_free
    BY <1>2, <1>3, <1>4, <2>1, <2>2
  <2>4. (off + n) % WORD = off + n
    BY <1>0, <1>2
  <2> QED
    BY <2>1, <2>3, <2>4
<1>6. \A k \in 0 .. n - 1 : FromBuf(off + k) = Base + k
  <2> SUFFICES ASSUME NEW k \in 0 .. n - 1 PROVE FromBuf(off + k) = Base + k
    OBVIOUS
  <2>1. /\ off + k \in BufSlots /\ off + k \in off .. B - rcr - 1 /\ off + k \in off .. B - 1
        /\ (off + k) - off = k
    BY <1>0 DEF BufSlots, B
  <2> QED
    BY <2>1 DEF FromBuf, DmaOK, B
<1>7. FifoOK' /\ Base' = Base + n
  BY <1>1, <1>2, <1>5, <1>6, MoveKeepsFifo
<1>8. Other(cur)' = Other(cur) /\ off' = B - rcr
  BY <1>0, <1>1, <1>5 DEF Other
<1>9. SidesOK'
  BY <1>0, <1>1, <1>8 DEF SidesOK, B
<1>10. Conserved'
  <2>1. InBuffers' = InBuffers - n
    BY <1>0, <1>1, <1>8 DEF InBuffers, B
  <2> QED
    BY <1>0, <1>1, <1>2, <1>3, <1>7, <2>1 DEF Conserved
<1>11. DmaOK'
  <2> HIDE DEF n
  <2>1. n = B - rcr - off
    BY DEF n
  <2> HIDE DEF B
  <2>2. ASSUME rncr = 0, NEW j \in B - rcr .. B - 1 PROVE inbuf[cur][j] = Base + n + (j - (B - rcr))
    <3>1. j \in off .. B - 1
      BY <1>0, <1>2, <2>2
    <3>2. inbuf[cur][j] = Base + (j - off)
      BY <2>2, <3>1 DEF DmaOK, B
    <3> QED
      BY <1>0, <2>1, <3>2
  <2>3. ASSUME rncr = 0, NEW j \in 0 .. B - rcr - 1
        PROVE  inbuf[Other(cur)][j] = Base + n + (B - (B - rcr)) + j
    <3>1. inbuf[Other(cur)][j] = Base + (B - off) + j
      BY <2>3 DEF DmaOK, B
    <3> QED
      BY <1>0, <2>1, <3>1
  <2>4. ASSUME NEW j \in B - rcr .. B - rcr - 1 PROVE FALSE
    BY <1>0
  <2> QED
    BY <1>1, <1>7, <1>8, <2>2, <2>3, <2>4 DEF DmaOK, B
<1> QED
  BY <1>7, <1>9, <1>10, <1>11

\* The caller takes bytes from the FIFO: the ones that follow.
LEMMA ReadKeeps ==
    ASSUME TypeOK, SidesOK, DmaOK, Conserved, FifoOK, ~corrupt,
           NEW n \in 0 .. USART_FIFOLEN - 1, usart_read_ng(n)
    PROVE  SidesOK' /\ DmaOK' /\ Conserved' /\ FifoOK' /\ ~corrupt'
<1> DEFINE m == rxdata_available
<1>0. /\ CpuOK /\ m \in Nat /\ m < USART_FIFOLEN /\ USART_FIFOLEN \in Nat /\ nread \in Nat
      /\ low \in FifoSlots /\ high \in FifoSlots
  BY Numbers, FifoSpace, Sizes DEF CpuOK
<1>1. /\ n \in Nat /\ n <= m /\ low' = FifoIndex(low + n) /\ nread' = nread + n /\ upc' = "next"
      /\ UNCHANGED <<inbuf, rpbuf, rcr, rncr, cur, off, fifo, high, arrived>>
      /\ corrupt' = (corrupt \/ \E i \in 0 .. n - 1 : fifo[FifoIndex(low + i)] # nread + i)
  BY DEF usart_read_ng, pdc
<1>2. rxdata_available' = m - n
  BY <1>0, <1>1 DEF rxdata_available, FifoIndex, FifoSlots
<1>3. Base' = Base
  BY <1>0, <1>1, <1>2 DEF Base
<1>4. \A i \in 0 .. m - 1 : fifo[FifoIndex(low + i)] = nread + i
  BY DEF FifoOK
<1> HIDE DEF m
<1>5. ~corrupt'
  <2>1. \A i \in 0 .. n - 1 : i \in 0 .. m - 1
    BY <1>0, <1>1
  <2> QED
    BY <1>1, <1>4, <2>1
<1>6. FifoOK'
  <2> SUFFICES ASSUME NEW i \in 0 .. m - n - 1
               PROVE  fifo[FifoIndex(FifoIndex(low + n) + i)] = nread + n + i
    <3>1. \A i : FifoIndex(i)' = FifoIndex(i)
      BY DEF FifoIndex
    <3> QED
      BY <1>1, <1>2, <3>1 DEF FifoOK
  <2>1. n + i \in 0 .. m - 1 /\ nread + (n + i) = nread + n + i
    BY <1>0, <1>1
  <2>2. FifoIndex(FifoIndex(low + n) + i) = FifoIndex(low + (n + i))
    BY <1>0, <1>1, <2>1 DEF FifoIndex, FifoSlots
  <2> QED
    BY <1>4, <2>1, <2>2
<1>7. SidesOK' /\ DmaOK' /\ Conserved'
  <2>1. Other(cur)' = Other(cur) /\ InBuffers' = InBuffers
    BY <1>1 DEF Other, InBuffers
  <2> QED
    BY <1>1, <1>3, <2>1 DEF SidesOK, DmaOK, Conserved
<1> QED
  BY <1>5, <1>6, <1>7

LEMMA StreamStep ==
    ASSUME TypeOK, StreamInv, [Next]_vars
    PROVE  StreamInv'
<1> SUFFICES ASSUME Undisturbed' PROVE (SidesOK /\ DmaOK /\ Conserved /\ FifoOK /\ ~corrupt)'
  BY DEF StreamInv
<1>0. /\ CpuOK /\ HistoryOK /\ off \in Nat /\ rcr \in Nat /\ USART_BUFFLEN \in Nat
  BY Numbers
<1>1. CASE Arrive
  <2>1. Undisturbed /\ corrupt' = corrupt
    BY <1>1, Zenon DEF Arrive, Undisturbed, history
  <2> QED
    BY <1>1, <2>1, ArriveKeeps DEF StreamInv
<1>2. ASSUME NEW n, CopyToFifo(n), UNCHANGED <<overrun, split, corrupt>>
      PROVE  Undisturbed /\ corrupt' = corrupt
  BY <1>2 DEF CopyToFifo, Undisturbed
<1>3. CASE FullBufferFits
  <2>1. Undisturbed /\ corrupt' = corrupt
    BY <1>2, <1>3 DEF FullBufferFits
  <2> QED
    BY <1>3, <2>1, FullBufferKeeps DEF StreamInv
<1>4. CASE FullBufferTooLong
  <2>1. CopyToFifo(rxfifo_free) /\ Undisturbed /\ rncr = 0 /\ (USART_BUFFLEN - off) % WORD > rxfifo_free
    BY <1>2, <1>4 DEF FullBufferTooLong
  <2>2. off <= USART_BUFFLEN /\ rcr <= USART_BUFFLEN /\ WORD \in Nat /\ WORD > USART_BUFFLEN
    BY <2>1, Numbers DEF StreamInv, SidesOK
  <2>3. rxfifo_free \in Nat /\ rxfifo_free > 0
    BY <1>0, FifoSpace
  <2>4. (USART_BUFFLEN - off) % WORD = USART_BUFFLEN - off
    BY <1>0, <2>2
  <2>5. rxfifo_free <= InBuffers
    BY <1>0, <2>1, <2>2, <2>3, <2>4 DEF InBuffers
  <2> QED
    BY <2>1, <2>3, <2>5 DEF CopyToFifo, Undisturbed
<1>5. CASE CopyCurrent
  <2>1. Undisturbed /\ corrupt' = corrupt
    BY <1>2, <1>5 DEF CopyCurrent
  <2> QED
    BY <1>5, <2>1, CopyCurrentKeeps DEF StreamInv
<1>6. ASSUME NEW n \in 0 .. USART_FIFOLEN - 1, usart_read_ng(n)
      PROVE (SidesOK /\ DmaOK /\ Conserved /\ FifoOK /\ ~corrupt)'
  <2>1. Undisturbed
    BY <1>6 DEF usart_read_ng, Undisturbed
  <2> QED
    BY <1>6, <2>1, ReadKeeps DEF StreamInv
<1>7. CASE NoFullBuffer \/ CheckCurrent \/ UNCHANGED vars
  <2>1. UNCHANGED <<pdc, cpu, arrived, overrun, split, history>>
    BY <1>7 DEF NoFullBuffer, CheckCurrent, vars
  <2>2. UNCHANGED <<inbuf, rpbuf, rcr, rncr, cur, off, fifo, low, high, arrived, overrun, split,
                    nread, filled, corrupt>>
    BY <2>1 DEF pdc, cpu, history
  <2>3. Undisturbed
    BY <2>2 DEF Undisturbed
  <2>4. upc' = "copy" => off + rcr <= USART_BUFFLEN
    <3>1. off <= USART_BUFFLEN /\ (upc = "copy" => off + rcr <= USART_BUFFLEN)
      BY <2>3 DEF StreamInv, SidesOK
    <3>2. CASE CheckCurrent
      <4>1. upc' = "copy" => off > USART_BUFFLEN \/ rcr < USART_BUFFLEN - off
        BY <3>2 DEF CheckCurrent
      <4> QED
        BY <1>0, <3>1, <4>1
    <3>3. CASE NoFullBuffer \/ UNCHANGED vars
      BY <3>1, <3>3 DEF NoFullBuffer, vars
    <3> QED
      BY <1>7, <3>2, <3>3
  <2>5. rxdata_available' = rxdata_available /\ Base' = Base /\ InBuffers' = InBuffers
    BY <2>2 DEF rxdata_available, Base, InBuffers
  <2>6. \A i : FifoIndex(i)' = FifoIndex(i)
    BY DEF FifoIndex
  <2>7. Other(cur)' = Other(cur)
    BY <2>2 DEF Other
  <2>8. SidesOK /\ DmaOK /\ Conserved /\ FifoOK /\ ~corrupt
    BY <2>3 DEF StreamInv
  <2>9. SidesOK' /\ DmaOK'
    BY <2>2, <2>4, <2>5, <2>7, <2>8 DEF SidesOK, DmaOK
  <2>10. Conserved' /\ FifoOK' /\ ~corrupt'
    BY <2>2, <2>5, <2>6, <2>8 DEF Conserved, FifoOK
  <2> QED
    BY <2>9, <2>10
<1> QED
  BY <1>1, <1>3, <1>4, <1>5, <1>6, <1>7 DEF Next

LEMMA StreamStart == Init => StreamInv
<1> SUFFICES ASSUME Init PROVE SidesOK /\ DmaOK /\ Conserved /\ FifoOK /\ ~corrupt
  BY DEF StreamInv
<1>1. rxdata_available = 0 /\ Base = 0 /\ InBuffers = 0
  BY Sizes DEF Init, rxdata_available, Base, InBuffers
<1>2. SidesOK /\ DmaOK
  BY Sizes DEF Init, SidesOK, DmaOK
<1> QED
  BY <1>1, <1>2 DEF Init, Conserved, FifoOK

LEMMA StreamAlways == Spec => []StreamInv
  BY UsartTypeCorrect, StreamStart, StreamStep, PTL DEF Spec

(***************************************************************************)
(* The bytes handed out by usart_read_ng are the bytes that arrived, in    *)
(* order, unless the PDC ran out of buffers, the FIFO was filled to its    *)
(* last byte or a rollover fell between the two reads of US_RCR: no other  *)
(* interleaving of the PDC and the poll does harm.                         *)
(***************************************************************************)
THEOREM BytesInOrder == Spec => []StreamIntact
<1>1. StreamInv => StreamIntact
  BY DEF StreamInv, StreamIntact, Undisturbed
<1> QED
  BY <1>1, StreamAlways, PTL

(***************************************************************************)
(* No byte is lost or counted twice on its way through the DMA buffers and *)
(* the FIFO, at any step of the poll, as long as none of the three things  *)
(* has happened.                                                           *)
(***************************************************************************)
THEOREM BytesConserved == Spec => []NothingLost
<1>1. StreamInv => NothingLost
  BY DEF StreamInv, NothingLost, Conserved, FifoOK, Base
<1> QED
  BY <1>1, StreamAlways, PTL
=============================================================================
