---------------------------- MODULE BigBufProofs ----------------------------
(***************************************************************************)
(* Proofs about the allocator of BigBuf, for every size of BigBuf, of its  *)
(* standing buffers and of the chunks commands ask for.                    *)
(***************************************************************************)
EXTENDS BigBuf, TLAPS

\* All chunks start at a multiple of 4, so that the high mark is one again
\* when BigBuf_free_keep_EM sets it back to the emulator memory.
ChunksAligned == \A c \in chunks : c.lo % 4 = 0

\* The inductive invariant of the allocator.
HeapInv ==
    TypeOK /\ HighMarkAligned /\ ChunksAligned /\ ChunksDisjoint /\ NoStalePointer

(***************************************************************************)
(* The high mark being a multiple of 4, a size that passes the test still  *)
(* fits when it is rounded up.                                             *)
(***************************************************************************)
LEMMA RoundedFits ==
    ASSUME TypeOK, HighMarkAligned, NEW n \in Size, HasRoom(n)
    PROVE  /\ Round4(n) \in Nat /\ n <= Round4(n) /\ Round4(n) <= s_bigbuf_hi
           /\ Round4(n) % 4 = 0
           /\ s_bigbuf_hi - Round4(n) \in Address
           /\ (s_bigbuf_hi - Round4(n)) % 4 = 0
<1> DEFINE q == (n + 3) \div 4
<1>1. PICK k \in Nat : s_bigbuf_hi = 4 * k
  BY SizeAssumption DEF TypeOK, Address, HighMarkAligned
<1>0. n \in Nat /\ n > 0
  BY SizeAssumption DEF Size
<1>2. q \in Nat /\ n <= 4 * q /\ 4 * q <= n + 3
  BY <1>0
<1>3. q <= k
  BY <1>0, <1>1, <1>2 DEF HasRoom
<1>4. 4 * q < WORD
  BY <1>1, <1>3, <1>2, SizeAssumption DEF TypeOK, Address
<1>5. Round4(n) = 4 * q
  BY <1>0, <1>2, <1>4, SizeAssumption DEF Round4
<1> HIDE DEF q
<1>6. (4 * q) % 4 = 0 /\ s_bigbuf_hi - 4 * q = 4 * (k - q) /\ (4 * (k - q)) % 4 = 0
  BY <1>1, <1>2, <1>3
<1> QED
  BY <1>1, <1>2, <1>3, <1>5, <1>6, SizeAssumption DEF TypeOK, Address

(***************************************************************************)
(* BigBuf_malloc preserves the heap: the new chunk lies below all others,  *)
(* and chunks that pointers refer to stay.                                 *)
(***************************************************************************)
LEMMA MallocKeepsHeap ==
    ASSUME HeapInv, NEW n \in Size, BigBuf_malloc(n)
    PROVE  /\ s_bigbuf_hi' \in Address /\ chunks' \subseteq Chunk
           /\ undercut' \in BOOLEAN
           /\ HighMarkAligned' /\ ChunksAligned' /\ ChunksDisjoint'
           /\ chunks \subseteq chunks'
           /\ Allocated(n) \in Pointer
           /\ Allocated(n) # NULL => \E c \in chunks' : c.lo = Allocated(n) /\ c.len = n
<1> USE DEF HeapInv
<1>1. CASE ~HasRoom(n)
  BY <1>1 DEF BigBuf_malloc, Allocated, TypeOK, Pointer, HighMarkAligned,
              ChunksAligned, ChunksDisjoint
<1>2. CASE HasRoom(n)
  <2> DEFINE lo == s_bigbuf_hi - Round4(n)
             new == [lo |-> lo, len |-> n]
  <2>1. /\ Round4(n) \in Nat /\ n <= Round4(n) /\ Round4(n) <= s_bigbuf_hi
        /\ lo \in Address /\ lo % 4 = 0
    BY <1>2, RoundedFits
  <2>2. s_bigbuf_hi' = lo /\ chunks' = chunks \cup {new} /\ Allocated(n) = lo
    BY <1>2 DEF BigBuf_malloc, Allocated
  <2>3. lo + n <= s_bigbuf_hi /\ s_bigbuf_hi \in Address /\ lo <= s_bigbuf_hi
    BY <2>1, SizeAssumption DEF TypeOK, Address, Size
  <2>4. new \in Chunk /\ new.lo = lo /\ new.len = n
    BY <2>1 DEF Chunk
  <2> HIDE DEF lo, new
  <2>5. \A c \in chunks : c.lo \in Int /\ c.len \in Int /\ s_bigbuf_hi <= c.lo
                          /\ c.lo + c.len <= BigBufSize
    BY SizeAssumption DEF TypeOK, Chunk, Address, Size, ChunksDisjoint
  <2>6. ChunksDisjoint'
    <3>1. \A c \in chunks' : s_bigbuf_hi' <= c.lo /\ c.lo + c.len <= BigBufSize
      BY <2>1, <2>2, <2>3, <2>4, <2>5, SizeAssumption DEF Address, Size
    <3>2. ASSUME NEW c \in chunks', NEW d \in chunks', c # d
          PROVE  c.lo + c.len <= d.lo \/ d.lo + d.len <= c.lo
      <4>1. CASE c \in chunks /\ d \in chunks
        BY <3>2, <4>1 DEF ChunksDisjoint
      <4>2. CASE c = new /\ d \in chunks
        BY <4>2, <2>1, <2>3, <2>4, <2>5, SizeAssumption DEF Address, Size
      <4>3. CASE d = new /\ c \in chunks
        BY <4>3, <2>1, <2>3, <2>4, <2>5, SizeAssumption DEF Address, Size
      <4> QED
        BY <3>2, <4>1, <4>2, <4>3, <2>2
    <3> QED
      BY <3>1, <3>2 DEF ChunksDisjoint
  <2>7. HighMarkAligned' /\ ChunksAligned'
    BY <2>1, <2>2, <2>4 DEF HighMarkAligned, ChunksAligned
  <2>8. undercut' \in BOOLEAN
    BY <1>2 DEF BigBuf_malloc
  <2> QED
    BY <2>1, <2>2, <2>4, <2>6, <2>7, <2>8 DEF TypeOK, Pointer
<1> QED
  BY <1>1, <1>2

(***************************************************************************)
(* The heap is sound after any sequence of calls: it is the inductive      *)
(* invariant from which the properties below follow.                       *)
(***************************************************************************)
THEOREM HeapSound == Spec => []HeapInv
<1>1. Init => HeapInv
  <2> SUFFICES ASSUME Init PROVE HeapInv
    OBVIOUS
  <2>1. TypeOK
    <3>1. s_bigbuf_hi \in Address /\ trace_len \in Nat
      BY SizeAssumption DEF Init, Address
    <3>2. tracing \in BOOLEAN /\ undercut \in BOOLEAN /\ chunks \subseteq Chunk
      BY DEF Init
    <3> QED
      BY <3>1, <3>2 DEF Init, TypeOK, Pointer
  <2>2. HighMarkAligned
    BY SizeAssumption DEF Init, HighMarkAligned
  <2>3. ChunksAligned /\ ChunksDisjoint /\ NoStalePointer
    BY DEF Init, ChunksAligned, ChunksDisjoint, NoStalePointer, PointsTo
  <2> QED
    BY <2>1, <2>2, <2>3 DEF HeapInv
<1>2. HeapInv /\ [Next]_vars => HeapInv'
  <2> SUFFICES ASSUME HeapInv, [Next]_vars PROVE HeapInv'
    OBVIOUS
  <2> USE DEF HeapInv
  <2>1. ASSUME NEW n \in ChunkSizes, CommandAllocates(n) PROVE HeapInv'
    <3>1. n \in Size /\ BigBuf_malloc(n) /\ UNCHANGED <<pointers, trace>>
      BY <2>1, SizeAssumption DEF CommandAllocates
    <3> QED
      BY <3>1, MallocKeepsHeap
         DEF pointers, trace, TypeOK, NoStalePointer, PointsTo
  <2>2. CASE BigBuf_Clear_EM
    <3>1. CASE emulator_memory = NULL
      BY <2>2, <3>1, SizeAssumption, MallocKeepsHeap
         DEF BigBuf_Clear_EM, BigBuf_get_EM_addr, trace, TypeOK,
             NoStalePointer, PointsTo
    <3>2. CASE emulator_memory # NULL
      BY <2>2, <3>2 DEF BigBuf_Clear_EM, BigBuf_get_EM_addr, trace, TypeOK,
             HighMarkAligned, ChunksAligned, ChunksDisjoint, NoStalePointer, PointsTo
    <3> QED
      BY <3>1, <3>2
  <2>3. CASE get_tosend
    <3>1. CASE toSend_buf = NULL
      BY <2>3, <3>1, SizeAssumption, MallocKeepsHeap
         DEF get_tosend, trace, TypeOK, NoStalePointer, PointsTo
    <3>2. CASE toSend_buf # NULL
      BY <2>3, <3>2 DEF get_tosend, trace, TypeOK, HighMarkAligned,
             ChunksAligned, ChunksDisjoint, NoStalePointer, PointsTo
    <3> QED
      BY <3>1, <3>2
  <2>4. CASE get_dma16
    <3>1. CASE dma_16 = NULL
      <4>1. 2 * DMA_BUFFER_SIZE \in Size
        BY SizeAssumption
      <4> QED
        BY <2>4, <3>1, <4>1, MallocKeepsHeap
           DEF get_dma16, trace, TypeOK, NoStalePointer, PointsTo
    <3>2. CASE dma_16 # NULL
      BY <2>4, <3>2 DEF get_dma16, trace, TypeOK, HighMarkAligned,
             ChunksAligned, ChunksDisjoint, NoStalePointer, PointsTo
    <3> QED
      BY <3>1, <3>2
  <2>5. CASE get_dma8
    <3>1. CASE dma_8 = NULL
      <4>1. DMA_BUFFER_SIZE \in Size
        BY SizeAssumption
      <4> QED
        BY <2>5, <3>1, <4>1, MallocKeepsHeap
           DEF get_dma8, trace, TypeOK, NoStalePointer, PointsTo
    <3>2. CASE dma_8 # NULL
      BY <2>5, <3>2 DEF get_dma8, trace, TypeOK, HighMarkAligned,
             ChunksAligned, ChunksDisjoint, NoStalePointer, PointsTo
    <3> QED
      BY <3>1, <3>2
  <2>6. CASE BigBuf_free
    BY <2>6, SizeAssumption
       DEF BigBuf_free, trace, TypeOK, Address, Pointer, HighMarkAligned,
           ChunksAligned, ChunksDisjoint, NoStalePointer, PointsTo
  <2>7. CASE BigBuf_free_keep_EM
    <3>1. chunks' = EMChunks /\ EMChunks \subseteq chunks
      BY <2>7 DEF BigBuf_free_keep_EM, EMChunks
    <3>2. CASE emulator_memory = NULL
      <4>1. chunks' = {}
        BY <3>1, <3>2, SizeAssumption DEF EMChunks, TypeOK, Chunk, Address
      <4>2. s_bigbuf_hi' = BigBufSize
        BY <2>7, <3>2 DEF BigBuf_free_keep_EM, HiKeepingEM
      <4> QED
        BY <2>7, <3>2, <4>1, <4>2, SizeAssumption
           DEF BigBuf_free_keep_EM, trace, TypeOK, Address, Pointer,
               HighMarkAligned, ChunksAligned, ChunksDisjoint, NoStalePointer, PointsTo
    <3>3. CASE emulator_memory # NULL
      <4>1. PICK e \in chunks : e.lo = emulator_memory /\ e.len = CARD_MEMORY_SIZE
        BY <3>3 DEF NoStalePointer, PointsTo
      <4>2. e \in chunks' /\ s_bigbuf_hi' = e.lo /\ e.lo % 4 = 0
        BY <2>7, <3>1, <3>3, <4>1
           DEF BigBuf_free_keep_EM, HiKeepingEM, EMChunks, ChunksAligned
      <4>3. \A c \in chunks' : c.lo = e.lo /\ c.lo \in Address
        BY <3>1, <4>1 DEF EMChunks, TypeOK, Chunk
      <4>4. ChunksDisjoint'
        <5>1. \A c \in chunks' : s_bigbuf_hi' <= c.lo
          BY <4>2, <4>3, SizeAssumption DEF Address
        <5> QED
          BY <3>1, <5>1 DEF ChunksDisjoint
      <4>5. HighMarkAligned' /\ ChunksAligned'
        BY <3>1, <4>2 DEF HighMarkAligned, ChunksAligned
      <4>6. TypeOK'
        BY <2>7, <3>1, <4>2, <4>3
           DEF BigBuf_free_keep_EM, trace, TypeOK, Pointer
      <4>7. NoStalePointer'
        BY <2>7, <4>1, <4>2 DEF BigBuf_free_keep_EM, NoStalePointer, PointsTo
      <4> QED
        BY <4>4, <4>5, <4>6, <4>7
    <3> QED
      BY <3>2, <3>3
  <2>8. CASE clear_trace
    BY <2>8 DEF clear_trace, pointers, TypeOK, HighMarkAligned, ChunksAligned,
                ChunksDisjoint, NoStalePointer, PointsTo
  <2>9. ASSUME NEW n \in TraceLengths, set_tracelen(n) PROVE HeapInv'
    BY <2>9, SizeAssumption
       DEF set_tracelen, pointers, TypeOK, HighMarkAligned, ChunksAligned,
           ChunksDisjoint, NoStalePointer, PointsTo
  <2>10. ASSUME NEW on \in BOOLEAN, set_tracing(on) PROVE HeapInv'
    BY <2>10 DEF set_tracing, pointers, TypeOK, HighMarkAligned, ChunksAligned,
                ChunksDisjoint, NoStalePointer, PointsTo
  <2>11. ASSUME NEW iLen \in FrameLengths, LogTrace(iLen) PROVE HeapInv'
    <3>1. EntryLen(iLen) \in Nat
      BY SizeAssumption DEF EntryLen, ParityBytes
    <3>2. UNCHANGED <<s_bigbuf_hi, pointers, chunks, undercut>>
      BY <2>11 DEF LogTrace
    <3>3. trace_len' \in Nat
      <4>1. trace_len' = trace_len \/ trace_len' = trace_len + EntryLen(iLen)
        BY <2>11 DEF LogTrace
      <4>2. trace_len \in Nat
        BY DEF TypeOK
      <4> QED
        BY <3>1, <4>1, <4>2
    <3>4. tracing' \in BOOLEAN
      BY <2>11 DEF LogTrace, TypeOK
    <3>5. TypeOK'
      BY <3>2, <3>3, <3>4 DEF pointers, TypeOK
    <3> QED
      BY <3>2, <3>5 DEF pointers, HighMarkAligned, ChunksAligned,
         ChunksDisjoint, NoStalePointer, PointsTo
  <2>12. CASE UNCHANGED vars
    BY <2>12 DEF vars, pointers, trace, TypeOK, HighMarkAligned, ChunksAligned,
                 ChunksDisjoint, NoStalePointer, PointsTo
  <2> QED
    BY <2>1, <2>2, <2>3, <2>4, <2>5, <2>6, <2>7, <2>8, <2>9, <2>10, <2>11, <2>12
       DEF Next
<1> QED
  BY <1>1, <1>2, PTL DEF Spec

(***************************************************************************)
(* No sequence of BigBuf_malloc, get_tosend, get_dma16, get_dma8,          *)
(* BigBuf_get_EM_addr, BigBuf_free and BigBuf_free_keep_EM makes two       *)
(* chunks in use overlap or leave BigBuf.                                  *)
(***************************************************************************)
THEOREM ChunksNeverOverlap == Spec => []ChunksDisjoint
  BY HeapSound, PTL DEF HeapInv

(***************************************************************************)
(* The high mark of BigBuf stays a multiple of 4, which is what lets       *)
(* BigBuf_malloc test a size before rounding it up.                        *)
(***************************************************************************)
THEOREM HighMarkStaysAligned == Spec => []HighMarkAligned
  BY HeapSound, PTL DEF HeapInv

(***************************************************************************)
(* None of the pointers BigBuf.c keeps across calls dangles.               *)
(***************************************************************************)
THEOREM PointersNeverStale == Spec => []NoStalePointer
  BY HeapSound, PTL DEF HeapInv

(***************************************************************************)
(* LogTrace alone never makes the trace run into the chunks.               *)
(***************************************************************************)
THEOREM TraceStaysClear == Spec => []TraceClearOfChunks
<1>1. Init => TraceClearOfChunks
  BY SizeAssumption DEF Init, TraceClearOfChunks
<1>2. HeapInv /\ HeapInv' /\ TraceClearOfChunks /\ [Next]_vars => TraceClearOfChunks'
  <2> SUFFICES ASSUME HeapInv, HeapInv', TraceClearOfChunks, [Next]_vars
               PROVE  TraceClearOfChunks'
    OBVIOUS
  <2>1. /\ s_bigbuf_hi \in Int /\ s_bigbuf_hi <= BigBufSize /\ BigBufSize \in Int
        /\ s_bigbuf_hi' \in Int /\ trace_len \in Int
    BY SizeAssumption DEF HeapInv, TypeOK, Address
  <2>2. ASSUME NEW n \in Size, BigBuf_malloc(n), trace_len' = trace_len
        PROVE  TraceClearOfChunks'
    <3>1. CASE HasRoom(n)
      <4>1. ~undercut' => ~(s_bigbuf_hi' < trace_len')
        BY <2>2, <3>1, Zenon DEF BigBuf_malloc
      <4> QED
        BY <2>1, <2>2, <4>1 DEF TraceClearOfChunks
    <3>2. CASE ~HasRoom(n)
      BY <2>2, <3>2 DEF BigBuf_malloc, TraceClearOfChunks
    <3> QED
      BY <3>1, <3>2
  <2>3. ASSUME NEW n \in ChunkSizes, CommandAllocates(n) PROVE TraceClearOfChunks'
    BY <2>2, <2>3, SizeAssumption DEF CommandAllocates, trace
  <2>4. CASE BigBuf_Clear_EM
    BY <2>2, <2>4, SizeAssumption
       DEF BigBuf_Clear_EM, BigBuf_get_EM_addr, trace, TraceClearOfChunks
  <2>5. CASE get_tosend
    BY <2>2, <2>5, SizeAssumption DEF get_tosend, trace, TraceClearOfChunks
  <2>6. CASE get_dma16
    <3>1. 2 * DMA_BUFFER_SIZE \in Size
      BY SizeAssumption
    <3> QED
      BY <2>2, <2>6, <3>1 DEF get_dma16, trace, TraceClearOfChunks
  <2>7. CASE get_dma8
    <3>1. DMA_BUFFER_SIZE \in Size
      BY SizeAssumption
    <3> QED
      BY <2>2, <2>7, <3>1 DEF get_dma8, trace, TraceClearOfChunks
  <2>8. CASE BigBuf_free
    BY <2>1, <2>8 DEF BigBuf_free, trace, TraceClearOfChunks
  <2>9. CASE BigBuf_free_keep_EM
    <3>1. HiKeepingEM \in Int /\ s_bigbuf_hi <= HiKeepingEM
      <4>1. CASE emulator_memory = NULL
        BY <2>1, <4>1 DEF HiKeepingEM
      <4>2. CASE emulator_memory # NULL
        <5>1. PICK e \in chunks : e.lo = emulator_memory
          BY <4>2 DEF HeapInv, NoStalePointer, PointsTo
        <5>2. e.lo \in Int /\ s_bigbuf_hi <= e.lo
          BY SizeAssumption DEF HeapInv, ChunksDisjoint, TypeOK, Chunk, Address
        <5> QED
          BY <4>2, <5>1, <5>2 DEF HiKeepingEM
      <4> QED
        BY <4>1, <4>2
    <3> QED
      BY <2>1, <2>9, <3>1 DEF BigBuf_free_keep_EM, trace, TraceClearOfChunks
  <2>10. CASE clear_trace
    BY <2>10, SizeAssumption DEF clear_trace, TraceClearOfChunks, HeapInv, TypeOK, Address
  <2>11. ASSUME NEW n \in TraceLengths, set_tracelen(n) PROVE TraceClearOfChunks'
    BY <2>11 DEF set_tracelen, TraceClearOfChunks
  <2>12. ASSUME NEW on \in BOOLEAN, set_tracing(on) PROVE TraceClearOfChunks'
    BY <2>12 DEF set_tracing, TraceClearOfChunks
  <2>13. ASSUME NEW iLen \in FrameLengths, LogTrace(iLen) PROVE TraceClearOfChunks'
    <3>1. EntryLen(iLen) \in Nat
      BY SizeAssumption DEF EntryLen, ParityBytes
    <3>2. undercut' = undercut /\ s_bigbuf_hi' = s_bigbuf_hi
      BY <2>13 DEF LogTrace
    <3>3. CASE TraceFull(iLen)
      BY <2>13, <3>2, <3>3 DEF LogTrace, TraceClearOfChunks
    <3>4. CASE ~TraceFull(iLen)
      <4>1. trace_len' = trace_len + EntryLen(iLen)
        BY <2>13, <3>4 DEF LogTrace
      <4>2. trace_len <= s_bigbuf_hi => trace_len' <= s_bigbuf_hi'
        BY <2>1, <3>1, <3>2, <3>4, <4>1 DEF TraceFull
      <4> QED
        BY <3>2, <4>2 DEF TraceClearOfChunks
    <3> QED
      BY <3>3, <3>4
  <2>14. CASE UNCHANGED vars
    BY <2>14 DEF vars, trace, TraceClearOfChunks
  <2> QED
    BY <2>3, <2>4, <2>5, <2>6, <2>7, <2>8, <2>9, <2>10, <2>11, <2>12, <2>13, <2>14
       DEF Next
<1> QED
  BY <1>1, <1>2, HeapSound, PTL DEF Spec
=============================================================================
