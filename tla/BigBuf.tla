------------------------------- MODULE BigBuf -------------------------------
(***************************************************************************)
(* The device's only big memory (armsrc/BigBuf.c): chunks are allocated    *)
(* from its top downwards, the trace of a session grows from its bottom    *)
(* upwards.  There is no free of one chunk: a command frees all of them,   *)
(* or all but the emulator memory, which outlives commands.  The device    *)
(* runs one command at a time, so each function is one action.             *)
(* Addresses are offsets from the start of BigBuf.                         *)
(***************************************************************************)
EXTENDS Integers

CONSTANTS BigBufSize,           \* from the end of .bss to the stack
          WORD,                 \* 2^16: chunk sizes and trace room are uint16_t
          CARD_MEMORY_SIZE,     \* size of the emulator memory
          TOSEND_BUFFER_SIZE,
          DMA_BUFFER_SIZE,
          TRACELOG_HDR_LEN,
          ChunkSizes,           \* sizes commands ask for
          FrameLengths,         \* lengths of the frames that are traced
          TraceLengths,         \* lengths felica.c stores
          NULL

Size == 1 .. WORD - 1

ASSUME SizeAssumption ==
    /\ WORD \in Nat
    /\ BigBufSize \in Nat /\ BigBufSize % 4 = 0 /\ BigBufSize < WORD
    /\ CARD_MEMORY_SIZE \in Size /\ TOSEND_BUFFER_SIZE \in Size
    /\ DMA_BUFFER_SIZE \in Size /\ 2 * DMA_BUFFER_SIZE \in Size
    /\ TRACELOG_HDR_LEN \in Nat
    /\ ChunkSizes \subseteq Size
    /\ FrameLengths \subseteq Nat /\ TraceLengths \subseteq Nat
    /\ NULL \notin Nat

VARIABLES
    s_bigbuf_hi,         \* all below it is not allocated
    emulator_memory,     \* address of the emulator memory, or NULL
    toSend_buf, dma_16, dma_8,
    trace_len, tracing,
    chunks,              \* history: the chunks in use, [lo, len]
    undercut             \* history: a chunk was taken from below trace_len

pointers == <<emulator_memory, toSend_buf, dma_16, dma_8>>
trace == <<trace_len, tracing>>
vars == <<s_bigbuf_hi, pointers, trace, chunks, undercut>>

Address == 0 .. BigBufSize
Pointer == Address \cup {NULL}
Chunk == [lo : Address, len : Size]

TypeOK ==
    /\ s_bigbuf_hi \in Address
    /\ emulator_memory \in Pointer /\ toSend_buf \in Pointer
    /\ dma_16 \in Pointer /\ dma_8 \in Pointer
    /\ trace_len \in Nat /\ tracing \in BOOLEAN
    /\ chunks \subseteq Chunk
    /\ undercut \in BOOLEAN

\* BigBuf_initialize, and the static initialisers.
Init ==
    /\ s_bigbuf_hi = BigBufSize
    /\ emulator_memory = NULL /\ toSend_buf = NULL
    /\ dma_16 = NULL /\ dma_8 = NULL
    /\ trace_len = 0 /\ tracing = TRUE
    /\ chunks = {} /\ undercut = FALSE

-----------------------------------------------------------------------------
(* Allocation *)

BuggyRound4(n) == n

\* (chunksize + 3) & 0xfffc, in 16 bits.
Round4(n) == (4 * ((n + 3) \div 4)) % WORD

\* The test is made on the size asked for, before it is rounded up.
HasRoom(n) == s_bigbuf_hi >= n

\* What BigBuf_malloc returns.
Allocated(n) == IF HasRoom(n) THEN s_bigbuf_hi - Round4(n) ELSE NULL

BigBuf_malloc(n) ==
    IF HasRoom(n)
    THEN /\ s_bigbuf_hi' = s_bigbuf_hi - Round4(n)
         /\ chunks' = chunks \cup {[lo |-> s_bigbuf_hi - Round4(n), len |-> n]}
         /\ undercut' = (undercut \/ s_bigbuf_hi - Round4(n) < trace_len)
    ELSE UNCHANGED <<s_bigbuf_hi, chunks, undercut>>

\* A command allocates a buffer of its own.
CommandAllocates(n) == BigBuf_malloc(n) /\ UNCHANGED <<pointers, trace>>

\* BigBuf_get_EM_addr allocates on first use.
BigBuf_get_EM_addr ==
    IF emulator_memory = NULL
    THEN BigBuf_malloc(CARD_MEMORY_SIZE) /\ emulator_memory' = Allocated(CARD_MEMORY_SIZE)
    ELSE UNCHANGED <<s_bigbuf_hi, chunks, undercut, emulator_memory>>

BigBuf_Clear_EM == BigBuf_get_EM_addr /\ UNCHANGED <<toSend_buf, dma_16, dma_8, trace>>

get_tosend ==
    /\ IF toSend_buf = NULL
       THEN /\ BigBuf_malloc(TOSEND_BUFFER_SIZE)
            /\ toSend_buf' = Allocated(TOSEND_BUFFER_SIZE)
       ELSE UNCHANGED <<s_bigbuf_hi, chunks, undercut, toSend_buf>>
    /\ UNCHANGED <<emulator_memory, dma_16, dma_8, trace>>

get_dma16 ==
    /\ IF dma_16 = NULL
       THEN BigBuf_malloc(2 * DMA_BUFFER_SIZE) /\ dma_16' = Allocated(2 * DMA_BUFFER_SIZE)
       ELSE UNCHANGED <<s_bigbuf_hi, chunks, undercut, dma_16>>
    /\ UNCHANGED <<emulator_memory, toSend_buf, dma_8, trace>>

get_dma8 ==
    /\ IF dma_8 = NULL
       THEN BigBuf_malloc(DMA_BUFFER_SIZE) /\ dma_8' = Allocated(DMA_BUFFER_SIZE)
       ELSE UNCHANGED <<s_bigbuf_hi, chunks, undercut, dma_8>>
    /\ UNCHANGED <<emulator_memory, toSend_buf, dma_16, trace>>

BuggyFree ==
    /\ s_bigbuf_hi' = BigBufSize /\ chunks' = {}
    /\ toSend_buf' = NULL /\ dma_16' = NULL /\ dma_8' = NULL
    /\ UNCHANGED <<emulator_memory, trace, undercut>>

BigBuf_free ==
    /\ s_bigbuf_hi' = BigBufSize /\ chunks' = {}
    /\ emulator_memory' = NULL
    /\ toSend_buf' = NULL /\ dma_16' = NULL /\ dma_8' = NULL
    /\ UNCHANGED <<trace, undercut>>

\* The chunk of the emulator memory; the others are given up.
EMChunks == {c \in chunks : c.lo = emulator_memory}

BuggyHiKeepingEM == BigBufSize

HiKeepingEM == IF emulator_memory # NULL THEN emulator_memory ELSE BigBufSize

BigBuf_free_keep_EM ==
    /\ s_bigbuf_hi' = HiKeepingEM /\ chunks' = EMChunks
    /\ toSend_buf' = NULL /\ dma_16' = NULL /\ dma_8' = NULL
    /\ UNCHANGED <<emulator_memory, trace, undercut>>

-----------------------------------------------------------------------------
(* The trace *)

\* clear_trace, and the part of BigBuf_Clear_ext that is not memory content.
clear_trace ==
    /\ trace_len' = 0 /\ undercut' = FALSE
    /\ UNCHANGED <<s_bigbuf_hi, pointers, tracing, chunks>>

\* felica.c counts its own trace and stores the length.
set_tracelen(n) ==
    /\ n <= s_bigbuf_hi /\ trace_len' = n
    /\ UNCHANGED <<s_bigbuf_hi, pointers, tracing, chunks, undercut>>

set_tracing(on) ==
    /\ tracing' = on
    /\ UNCHANGED <<s_bigbuf_hi, pointers, trace_len, chunks, undercut>>

\* (iLen - 1) / 8 + 1 truncates towards zero: one parity byte for no data.
ParityBytes(iLen) == IF iLen = 0 THEN 1 ELSE (iLen - 1) \div 8 + 1

EntryLen(iLen) == TRACELOG_HDR_LEN + iLen + ParityBytes(iLen)

BuggyTraceFull(iLen) == trace_len <= s_bigbuf_hi /\ iLen >= s_bigbuf_hi - trace_len

\* The room left is an unsigned difference: with the trace above s_bigbuf_hi
\* it wraps around and there always seems to be room.
TraceFull(iLen) ==
    trace_len <= s_bigbuf_hi /\ EntryLen(iLen) >= s_bigbuf_hi - trace_len

\* Bound: a trace that has left BigBuf is not followed any further.
LogTrace(iLen) ==
    /\ tracing /\ trace_len <= BigBufSize
    /\ IF TraceFull(iLen)
       THEN tracing' = FALSE /\ UNCHANGED trace_len
       ELSE trace_len' = trace_len + EntryLen(iLen) /\ UNCHANGED tracing
    /\ UNCHANGED <<s_bigbuf_hi, pointers, chunks, undercut>>

-----------------------------------------------------------------------------
Next ==
    \/ \E n \in ChunkSizes : CommandAllocates(n)
    \/ BigBuf_Clear_EM \/ get_tosend \/ get_dma16 \/ get_dma8
    \/ BigBuf_free \/ BigBuf_free_keep_EM
    \/ clear_trace \/ \E n \in TraceLengths : set_tracelen(n)
    \/ \E on \in BOOLEAN : set_tracing(on)
    \/ \E iLen \in FrameLengths : LogTrace(iLen)

Spec == Init /\ [][Next]_vars

-----------------------------------------------------------------------------
(***************************************************************************)
(* BigBuf_malloc tests the size before rounding it up to a multiple of 4.  *)
(* That is safe only because the high mark itself stays a multiple of 4,   *)
(* through every sequence of allocations and of both kinds of free.        *)
(***************************************************************************)
HighMarkAligned == s_bigbuf_hi % 4 = 0

(***************************************************************************)
(* The chunks in use (those of a command, the emulator memory, toSend and  *)
(* the DMA buffers) lie between the high mark and the end of BigBuf and    *)
(* never overlap, whatever was freed in between.                           *)
(***************************************************************************)
ChunksDisjoint ==
    /\ \A c \in chunks : s_bigbuf_hi <= c.lo /\ c.lo + c.len <= BigBufSize
    /\ \A c, d \in chunks : c # d => c.lo + c.len <= d.lo \/ d.lo + d.len <= c.lo

(***************************************************************************)
(* A pointer kept across calls (emulator_memory, toSend, dma_16, dma_8) is *)
(* NULL or the address of a chunk in use that is big enough: no free       *)
(* leaves one behind.                                                      *)
(***************************************************************************)
PointsTo(p, size) == p # NULL => \E c \in chunks : c.lo = p /\ c.len = size

NoStalePointer ==
    /\ PointsTo(emulator_memory, CARD_MEMORY_SIZE)
    /\ PointsTo(toSend_buf, TOSEND_BUFFER_SIZE)
    /\ PointsTo(dma_16, 2 * DMA_BUFFER_SIZE)
    /\ PointsTo(dma_8, DMA_BUFFER_SIZE)

(***************************************************************************)
(* LogTrace stops before the chunks: the trace reaches them only if a      *)
(* chunk was allocated from memory the trace already occupied.             *)
(***************************************************************************)
TraceClearOfChunks == ~undercut => trace_len <= s_bigbuf_hi
=============================================================================
