--------------------------- MODULE DownloadProofs ---------------------------
(***************************************************************************)
(* Proofs about the reply ring (ReplyBuffer) and about memory downloads    *)
(* through it (Download), for every ring size, frame size, set of requests *)
(* and number of downloads.  The first part is about the ring alone and    *)
(* uses SizeAssumption only; in the second, a download is followed from    *)
(* the device through the link and the ring into the caller's buffer.      *)
(***************************************************************************)
EXTENDS Download, SequenceTheorems, TLAPS

-----------------------------------------------------------------------------
(* The ring alone *)

(***************************************************************************)
(* Advance wraps an index of the array to another index of the array.      *)
(***************************************************************************)
LEMMA AdvanceWraps ==
    ASSUME NEW s \in Slots
    PROVE  /\ Advance(s) \in Slots
           /\ Advance(s) = IF s + 1 = CMD_BUFFER_SIZE THEN 0 ELSE s + 1
<1>1. CASE s + 1 = CMD_BUFFER_SIZE
  BY <1>1, SizeAssumption DEF Advance, Slots
<1>2. CASE s + 1 < CMD_BUFFER_SIZE
  BY <1>2, SizeAssumption DEF Advance, Slots
<1> QED
  BY <1>1, <1>2, SizeAssumption DEF Slots

LEMMA RingTypeStep == TypeOK /\ [Next]_bvars => TypeOK'
<1> SUFFICES ASSUME TypeOK, [Next]_bvars PROVE TypeOK'
  OBVIOUS
<1>1. ASSUME NEW p \in Reply, storeReply(p) PROVE TypeOK'
  BY <1>1, AdvanceWraps DEF TypeOK, storeReply
<1>2. CASE getReply
  BY <1>2, AdvanceWraps DEF TypeOK, getReply
<1>3. CASE clearCommandBuffer
  BY <1>3 DEF TypeOK, clearCommandBuffer
<1>4. CASE UNCHANGED bvars
  BY <1>4 DEF TypeOK, bvars
<1> QED
  BY <1>1, <1>2, <1>3, <1>4 DEF Next

(***************************************************************************)
(* The indices of storeReply, getReply and clearCommandBuffer never leave  *)
(* the array and what getReply hands out is a stored reply or nothing.     *)
(***************************************************************************)
THEOREM RingTypeCorrect == Spec => []TypeOK
<1>1. Init => TypeOK
  BY SizeAssumption DEF Init, TypeOK, Slots
<1> QED
  BY <1>1, RingTypeStep, PTL DEF Spec

(***************************************************************************)
(* The backlog as a sequence: its length and its elements.                 *)
(***************************************************************************)
LEMMA BacklogIsSeq ==
    ASSUME TypeOK
    PROVE  /\ BacklogLen \in 0 .. CMD_BUFFER_SIZE - 1
           /\ BacklogLen = 0 <=> cmd_head = cmd_tail
           /\ \A i \in 1 .. BacklogLen : SlotOf(i) \in Slots
           /\ Backlog \in Seq(Reply \cup {NoReply})
           /\ Len(Backlog) = BacklogLen
           /\ Backlog = <<>> <=> cmd_head = cmd_tail
<1>1. /\ BacklogLen \in 0 .. CMD_BUFFER_SIZE - 1
      /\ BacklogLen = 0 <=> cmd_head = cmd_tail
  BY SizeAssumption DEF TypeOK, BacklogLen, Slots
<1>2. \A i \in 1 .. BacklogLen : SlotOf(i) \in Slots
  BY <1>1, SizeAssumption DEF TypeOK, SlotOf, Slots
<1>3. Backlog \in Seq(Reply \cup {NoReply}) /\ Len(Backlog) = BacklogLen
  BY <1>1, <1>2, SizeAssumption DEF TypeOK, Backlog
<1> QED
  BY <1>1, <1>2, <1>3

(***************************************************************************)
(* storeReply appends to the backlog, or empties it when it is full.       *)
(***************************************************************************)
LEMMA StoreAppends ==
    ASSUME TypeOK, NEW p \in Reply, storeReply(p)
    PROVE  Backlog' = Queue!Stored(p)
<1> DEFINE N == CMD_BUFFER_SIZE
<1>1. /\ cmd_head \in 0 .. N - 1 /\ cmd_tail \in 0 .. N - 1
      /\ cmd_head' = IF cmd_head + 1 = N THEN 0 ELSE cmd_head + 1
      /\ cmd_tail' = cmd_tail
  BY AdvanceWraps DEF TypeOK, storeReply, Slots
<1>2. CASE BacklogLen < N - 1
  <2>1. BacklogLen' = BacklogLen + 1
    BY <1>1, <1>2, SizeAssumption DEF BacklogLen
  <2>2. \A i \in 1 .. BacklogLen : SlotOf(i) # cmd_head
    BY <1>1, SizeAssumption DEF BacklogLen, SlotOf
  <2>3. SlotOf(BacklogLen + 1) = cmd_head
    BY <1>1, <1>2, SizeAssumption DEF BacklogLen, SlotOf
  <2>4. Backlog' = [i \in 1 .. BacklogLen + 1 |-> rxBuffer'[SlotOf(i)]]
    BY <1>1, <2>1 DEF Backlog, SlotOf
  <2>5. Append(Backlog, p) = [i \in 1 .. BacklogLen + 1 |->
                               IF i = BacklogLen + 1 THEN p ELSE Backlog[i]]
    <3>1. /\ Append(Backlog, p) \in Seq(Reply \cup {NoReply})
          /\ Len(Append(Backlog, p)) = BacklogLen + 1
          /\ \A i \in 1 .. BacklogLen : Append(Backlog, p)[i] = Backlog[i]
          /\ Append(Backlog, p)[BacklogLen + 1] = p
      BY BacklogIsSeq, AppendProperties
    <3>2. Append(Backlog, p) \in [1 .. BacklogLen + 1 -> Reply \cup {NoReply}]
      BY <3>1, LenProperties
    <3>3. BacklogLen \in Nat
      BY BacklogIsSeq
    <3> DEFINE appended == Append(Backlog, p)
               log == Backlog
               n == BacklogLen
    <3>4. /\ appended \in [1 .. n + 1 -> Reply \cup {NoReply}]
          /\ \A i \in 1 .. n : appended[i] = log[i]
          /\ appended[n + 1] = p
          /\ n \in Nat
      BY <3>1, <3>2, <3>3
    <3> HIDE DEF appended, log, n
    <3>5. appended = [i \in 1 .. n + 1 |-> IF i = n + 1 THEN p ELSE log[i]]
      BY <3>4
    <3> QED
      BY <3>5 DEF appended, log, n
  <2>6. \A i \in 1 .. BacklogLen + 1 :
            rxBuffer'[SlotOf(i)] = IF i = BacklogLen + 1 THEN p ELSE Backlog[i]
    BY <2>2, <2>3, BacklogIsSeq DEF TypeOK, storeReply, Backlog
  <2>7. Backlog' = Append(Backlog, p)
    BY <2>4, <2>5, <2>6
  <2> QED
    BY <1>2, <2>7, BacklogIsSeq DEF Queue!Stored
<1>3. CASE BacklogLen = N - 1
  <2>1. BacklogLen' = 0
    BY <1>1, <1>3, SizeAssumption DEF BacklogLen
  <2>2. Backlog' = <<>>
    BY <2>1 DEF Backlog
  <2> QED
    BY <1>3, <2>2, BacklogIsSeq DEF Queue!Stored
<1> QED
  BY <1>2, <1>3, BacklogIsSeq, SizeAssumption

(***************************************************************************)
(* getReply on a non-empty ring takes the head of the backlog.             *)
(***************************************************************************)
LEMMA GetTakesHead ==
    ASSUME TypeOK, getReply, cmd_head # cmd_tail
    PROVE  Backlog # <<>> /\ packet' = Head(Backlog) /\ Backlog' = Tail(Backlog)
<1> DEFINE N == CMD_BUFFER_SIZE
<1>1. /\ cmd_head \in 0 .. N - 1 /\ cmd_tail \in 0 .. N - 1
      /\ cmd_tail' = IF cmd_tail + 1 = N THEN 0 ELSE cmd_tail + 1
      /\ cmd_head' = cmd_head /\ rxBuffer' = rxBuffer
  BY AdvanceWraps DEF TypeOK, getReply, Slots
<1>2. BacklogLen \in Nat \ {0} /\ Backlog # <<>>
  BY BacklogIsSeq
<1>3. SlotOf(1) = cmd_tail
  BY <1>1, SizeAssumption DEF SlotOf
<1>4. packet' = Head(Backlog)
  BY <1>2, <1>3, BacklogIsSeq DEF getReply, Backlog
<1>5. BacklogLen' = BacklogLen - 1
  BY <1>1, SizeAssumption DEF BacklogLen
<1>6. \A i \in 1 .. BacklogLen - 1 : SlotOf(i)' = SlotOf(i + 1)
  BY <1>1, SizeAssumption DEF BacklogLen, SlotOf
<1>7. Tail(Backlog) = [i \in 1 .. BacklogLen - 1 |-> Backlog[i + 1]]
  <2>1. /\ Tail(Backlog) \in Seq(Reply \cup {NoReply})
        /\ Len(Tail(Backlog)) = BacklogLen - 1
        /\ \A i \in 1 .. BacklogLen - 1 : Tail(Backlog)[i] = Backlog[i + 1]
    BY <1>2, BacklogIsSeq, HeadTailProperties
  <2> QED
    BY <2>1, LenProperties
<1>8. \A i \in 1 .. BacklogLen - 1 : i + 1 \in 1 .. BacklogLen
  BY <1>2
<1>9. Backlog' = Tail(Backlog)
  BY <1>1, <1>5, <1>6, <1>7, <1>8 DEF Backlog
<1> QED
  BY <1>2, <1>4, <1>9

LEMMA ClearEmpties ==
    ASSUME TypeOK, clearCommandBuffer
    PROVE  Backlog' = <<>>
<1>1. BacklogLen' = 0
  BY DEF TypeOK, clearCommandBuffer, BacklogLen, Slots
<1> QED
  BY <1>1 DEF Backlog

LEMMA EmptyGetKeeps ==
    ASSUME getReply, cmd_head = cmd_tail
    PROVE  packet' = NoReply /\ Backlog' = Backlog
  BY DEF getReply, Backlog, BacklogLen, SlotOf

LEMMA SameRingSameBacklog ==
    ASSUME UNCHANGED bvars
    PROVE  Backlog' = Backlog
  BY DEF bvars, Backlog, BacklogLen, SlotOf

LEMMA EmptyAtStart == Init => Backlog = <<>>
<1> SUFFICES ASSUME Init PROVE Backlog = <<>>
  OBVIOUS
<1>1. BacklogLen = 0
  BY DEF Init, BacklogLen
<1> QED
  BY <1>1 DEF Backlog

(***************************************************************************)
(* The ring of comms.c implements the reply queue: replies come out in the *)
(* order they went in, each once, and none is lost but by clearing or by   *)
(* storing into a full ring.                                               *)
(***************************************************************************)
THEOREM RingImplementsQueue == Spec => ImplementsQueue
<1>1. Init => Queue!QueueInit
  BY EmptyAtStart DEF Init, Queue!QueueInit
<1>2. TypeOK /\ TypeOK' /\ [Next]_bvars => [Queue!QueueNext]_(Queue!qvars)
  <2> SUFFICES ASSUME TypeOK, TypeOK', [Next]_bvars
               PROVE  [Queue!QueueNext]_(Queue!qvars)
    OBVIOUS
  <2>1. ASSUME NEW p \in Reply, storeReply(p) PROVE Queue!Store(p)
    BY <2>1, StoreAppends DEF Queue!Store, storeReply
  <2>2. CASE getReply /\ cmd_head = cmd_tail
    BY <2>2, EmptyGetKeeps, BacklogIsSeq DEF Queue!QueueNext, Queue!Get
  <2>3. CASE getReply /\ cmd_head # cmd_tail
    BY <2>3, GetTakesHead DEF Queue!QueueNext, Queue!Get
  <2>4. CASE clearCommandBuffer
    BY <2>4, ClearEmpties DEF clearCommandBuffer, Queue!QueueNext, Queue!Clear
  <2>5. CASE UNCHANGED bvars
    BY <2>5, SameRingSameBacklog DEF bvars, Queue!qvars
  <2> QED
    BY <2>1, <2>2, <2>3, <2>4, <2>5 DEF Next, Queue!QueueNext
<1> QED
  BY <1>1, <1>2, RingTypeCorrect, PTL DEF Spec, ImplementsQueue, Queue!QueueSpec

-----------------------------------------------------------------------------
(* Frames, and the steps of the ring *)

LEMMA FrameFields ==
    ASSUME NEW f \in Frames
    PROVE  /\ f.cmd \in MemTypes \cup {"ACK"} /\ f.off \in Nat /\ f.from \in Nat
           /\ f.len \in 0 .. PM3_CMD_DATA_SIZE
           /\ f.cmd = "ACK" => f = AckFrame
<1>0. PM3_CMD_DATA_SIZE \in Nat /\ Starts \subseteq Nat /\ "ACK" \notin MemTypes /\ MaxSize \in Nat
  BY DownloadAssumption
<1>1. CASE f = AckFrame
  BY <1>0, <1>1 DEF AckFrame
<1>2. CASE \E t \in MemTypes, off \in Reach, len \in 1 .. PM3_CMD_DATA_SIZE, from \in Starts \cup {0} :
             f = DataFrame(t, off, len, from)
  BY <1>0, <1>2 DEF DataFrame, Reach
<1> QED
  BY <1>1, <1>2 DEF Frames

LEMMA DataFrameIsFrame ==
    ASSUME NEW t \in MemTypes, NEW off \in Reach, NEW len \in 1 .. PM3_CMD_DATA_SIZE,
           NEW from \in Starts \cup {0}
    PROVE  DataFrame(t, off, len, from) \in Frames
  BY DEF Frames

\* The unread replies are frames.
RingOK == TypeOK /\ Backlog \in Seq(Frames)

LEMMA RingKeeps ==
    ASSUME RingOK, [Next]_bvars
    PROVE  RingOK'
<1>1. TypeOK'
  BY RingTypeStep DEF RingOK
<1>2. Backlog \in Seq(Frames) /\ TypeOK
  BY DEF RingOK
<1>3. ASSUME NEW p \in Reply, storeReply(p) PROVE Backlog' \in Seq(Frames)
  <2>1. Backlog' = Append(Backlog, p) \/ Backlog' = <<>>
    BY <1>2, <1>3, StoreAppends DEF Queue!Stored
  <2>2. p \in Frames
    BY FramesAssumption
  <2>3. Append(Backlog, p) \in Seq(Frames) /\ <<>> \in Seq(Frames)
    BY <1>2, <2>2
  <2> QED
    BY <2>1, <2>3
<1>4. CASE getReply
  <2>1. CASE cmd_head = cmd_tail
    BY <1>1, <1>2, <1>4, <2>1, EmptyGetKeeps DEF RingOK
  <2>2. CASE cmd_head # cmd_tail
    <3>1. Backlog # <<>> /\ Backlog' = Tail(Backlog)
      BY <1>2, <1>4, <2>2, GetTakesHead
    <3>2. Tail(Backlog) \in Seq(Frames)
      BY <1>2, <3>1, HeadTailProperties
    <3> QED
      BY <1>1, <3>1, <3>2 DEF RingOK
  <2> QED
    BY <1>1, <2>1, <2>2 DEF RingOK
<1>5. CASE clearCommandBuffer
  <2>1. Backlog' = <<>>
    BY <1>2, <1>5, ClearEmpties
  <2> QED
    BY <1>1, <2>1 DEF RingOK
<1>6. CASE UNCHANGED bvars
  BY <1>1, <1>2, <1>6, SameRingSameBacklog DEF RingOK
<1> QED
  BY <1>1, <1>3, <1>4, <1>5, <1>6 DEF Next, RingOK

\* The reply that dl_it looks at.
LEMMA NextReplyIsHead ==
    ASSUME RingOK, cmd_head # cmd_tail
    PROVE  Backlog # <<>> /\ rxBuffer[cmd_tail] = Head(Backlog) /\ rxBuffer[cmd_tail] \in Frames
<1>1. Backlog # <<>> /\ Len(Backlog) = BacklogLen /\ BacklogLen \in Nat /\ BacklogLen # 0
  BY BacklogIsSeq DEF RingOK
<1>2. SlotOf(1) = cmd_tail
  BY SizeAssumption DEF RingOK, TypeOK, SlotOf, Slots
<1>3. Backlog[1] = rxBuffer[cmd_tail]
  BY <1>1, <1>2 DEF Backlog
<1>4. Head(Backlog) = Backlog[1] /\ Head(Backlog) \in Frames
  BY <1>1, HeadTailProperties DEF RingOK
<1> QED
  BY <1>1, <1>3, <1>4

LEMMA StepOfRing ==
    ASSUME DownloadTypeOK, [DownloadNext]_vars
    PROVE  [Next]_bvars
<1>1. ASSUME Deliver PROVE Next
  <2>1. Head(link) \in Reply
    BY <1>1, FramesAssumption, HeadTailProperties DEF Deliver, DownloadTypeOK, DeviceOK
  <2> QED
    BY <1>1, <2>1 DEF Deliver, Next
<1>2. ASSUME NEW r \in Requests, GetFromDevice(r) \/ GetNothing(r) PROVE [Next]_bvars
  BY <1>2 DEF GetFromDevice, GetNothing, Forget, Next
<1> QED
  BY <1>1, <1>2 DEF DownloadNext, dl_it, dl_poll, dl_timeout, DevStart, DevFlashBusy, DevChunk,
                    DevAck, Finished, vars, Next

-----------------------------------------------------------------------------
(* Types *)

LEMMA RequestFields ==
    ASSUME NEW r \in Requests
    PROVE  r.type \in MemTypes /\ r.start \in Starts /\ r.bytes \in Sizes /\ r.bytes \in 0 .. MaxSize
  BY DownloadAssumption DEF Requests

LEMMA TransferFields ==
    ASSUME TransferOK
    PROVE  /\ dl.bytes \in Nat /\ dl.bytes \in 0 .. MaxSize /\ dl.done \in Nat /\ dl.done <= dl.bytes
           /\ dl.start \in Nat /\ dl.type \in MemTypes \cup {"none"}
<1>1. /\ dl.bytes \in Sizes \cup {0} /\ dl.start \in Starts \cup {0} /\ dl.done \in Nat
      /\ dl.type \in MemTypes \cup {"none"} /\ dl.done <= dl.bytes
  BY DEF TransferOK
<1>2. MaxSize \in Nat /\ Sizes \subseteq 0 .. MaxSize /\ Starts \subseteq Nat
  BY DownloadAssumption
<1>3. (dl.bytes \in Sizes \/ dl.bytes = 0) /\ (dl.start \in Starts \/ dl.start = 0)
  BY <1>1, Zenon
<1>4. 0 \in 0 .. MaxSize /\ 0 \in Nat
  BY <1>2
<1>5. dl.bytes \in 0 .. MaxSize /\ dl.start \in Nat
  BY <1>2, <1>3, <1>4, Zenon
<1> QED
  BY <1>1, <1>2, <1>5

\* What dl_it copies of a frame that matches.
LEMMA CopyLenBounds ==
    ASSUME ClientOK, NEW f \in Frames
    PROVE  CopyLen(f) \in Nat /\ CopyLen(f) <= dl.bytes - dl.done /\ dl.done + CopyLen(f) \in Nat
<1>1. dl.bytes \in Nat /\ dl.done \in Nat /\ dl.done <= dl.bytes
  BY TransferFields DEF ClientOK
<1>2. f.len \in Nat /\ PM3_CMD_DATA_SIZE \in Nat
  BY FrameFields, DownloadAssumption
<1> QED
  BY <1>1, <1>2 DEF CopyLen, Min2

LEMMA CopyKeepsClient ==
    ASSUME ClientOK, NEW f \in Frames, f.cmd = dl.type, CopyFrame(f), UNCHANGED clean
    PROVE  ClientOK'
<1>0. f.cmd \in MemTypes /\ f.from \in Nat
  BY FrameFields, TransferFields, DownloadAssumption DEF ClientOK
<1>1. dl' = [dl EXCEPT !.done = dl.done + CopyLen(f)] /\ result' = result
  BY DEF CopyFrame
<1>2. TransferOK'
  <2>1. dl.bytes \in Nat /\ dl.done \in Nat /\ dl.done <= dl.bytes
    BY TransferFields DEF ClientOK
  <2> DEFINE n == CopyLen(f)
  <2>2. n \in Nat /\ n <= dl.bytes - dl.done /\ dl.done + n \in Nat
    BY CopyLenBounds
  <2>3. dl' = [dl EXCEPT !.done = dl.done + n]
    BY <1>1
  <2> HIDE DEF n
  <2> QED
    BY <2>1, <2>2, <2>3 DEF ClientOK, TransferOK
<1>3. dest' \in [Reach -> {Unset} \cup (MemTypes \X Nat)]
  <2>1. \A k \in Reach : <<f.cmd, f.from + k>> \in MemTypes \X Nat
    BY <1>0, DownloadAssumption DEF Reach
  <2>2. \A k \in Reach : dest[k] \in {Unset} \cup (MemTypes \X Nat)
    BY DEF ClientOK
  <2> QED
    BY <2>1, <2>2 DEF CopyFrame
<1> QED
  BY <1>1, <1>2, <1>3 DEF ClientOK

LEMMA ReturnKeepsClient ==
    ASSUME ClientOK, NEW ok \in BOOLEAN, Return(ok), UNCHANGED <<dest, clean>>
    PROVE  ClientOK'
  BY DEF ClientOK, TransferOK, Return

LEMMA ClientTypeStep ==
    ASSUME ClientOK, DeviceOK, RingOK, [DownloadNext]_vars
    PROVE  ClientOK'
<1>1. ASSUME NEW r \in Requests, GetFromDevice(r) PROVE ClientOK'
  <2>1. TransferOK'
    BY <1>1, RequestFields, DownloadAssumption DEF GetFromDevice, TransferOK
  <2>2. dest' \in [Reach -> {Unset} \cup (MemTypes \X Nat)]
    BY <1>1 DEF GetFromDevice
  <2>3. result' \in BOOLEAN /\ clean' \in BOOLEAN
    BY <1>1 DEF GetFromDevice
  <2> QED
    BY <2>1, <2>2, <2>3 DEF ClientOK
<1>2. ASSUME NEW r \in Requests, GetNothing(r) PROVE ClientOK'
  <2>1. TransferOK'
    BY <1>2, RequestFields DEF GetNothing, ClientOK, TransferOK
  <2> QED
    BY <1>2, <2>1 DEF GetNothing, ClientOK
<1>3. CASE dl_it
  <2> DEFINE f == rxBuffer[cmd_tail]
  <2>1. f \in Frames
    BY <1>3, NextReplyIsHead DEF dl_it
  <2>2. UNCHANGED clean
    BY <1>3 DEF dl_it
  <2>3. \/ Return(TRUE) /\ UNCHANGED dest
        \/ f.cmd = dl.type /\ CopyFrame(f)
        \/ Return(FALSE) /\ UNCHANGED dest
        \/ UNCHANGED <<dl, dest, result>>
    BY <1>3 DEF dl_it
  <2> HIDE DEF f
  <2>4. CASE f.cmd = dl.type /\ CopyFrame(f)
    BY <2>1, <2>2, <2>4, CopyKeepsClient
  <2>5. CASE UNCHANGED <<dl, dest, result>>
    BY <2>2, <2>5 DEF ClientOK, TransferOK
  <2> QED
    BY <2>2, <2>3, <2>4, <2>5, ReturnKeepsClient
<1>4. CASE dl_timeout
  BY <1>4, ReturnKeepsClient DEF dl_timeout
<1>5. CASE UNCHANGED <<dl, dest, result>> /\ clean' \in BOOLEAN
  BY <1>5 DEF ClientOK, TransferOK
<1>6. CASE dl_poll \/ Deliver \/ DevStart \/ DevFlashBusy \/ DevChunk \/ DevAck \/ Finished \/ UNCHANGED vars
  <2>1. UNCHANGED <<dl, dest, result>>
    BY <1>6 DEF dl_poll, Deliver, DevStart, DevFlashBusy, DevChunk, DevAck, Finished, vars, dvars
  <2>2. clean' = clean \/ clean' \in BOOLEAN
    BY <1>6 DEF dl_poll, Deliver, DevStart, DevFlashBusy, DevChunk, DevAck, Send, Finished, vars, dvars
  <2> QED
    BY <1>5, <2>1, <2>2 DEF ClientOK
<1> QED
  BY <1>1, <1>2, <1>3, <1>4, <1>6 DEF DownloadNext

LEMMA DeviceTypeStep ==
    ASSUME ClientOK, DeviceOK, [DownloadNext]_vars
    PROVE  DeviceOK'
<1>0. /\ cmds \in Seq(Requests) /\ link \in Seq(Frames)
      /\ started \in 0 .. MaxDownloads /\ lost \in 0 .. MaxLost
      /\ dev = Idle \/ dev \in [type : MemTypes, start : Starts, bytes : Sizes, i : Nat]
      /\ MaxDownloads \in Nat /\ MaxLost \in Nat
  BY DownloadAssumption DEF DeviceOK
<1>1. ASSUME NEW r \in Requests, GetFromDevice(r) PROVE DeviceOK'
  BY <1>0, <1>1 DEF GetFromDevice, DeviceOK
<1>2. ASSUME NEW r \in Requests, GetNothing(r) PROVE DeviceOK'
  BY <1>0, <1>2 DEF GetNothing, DeviceOK
<1>3. CASE Deliver
  <2>1. Tail(link) \in Seq(Frames)
    BY <1>0, <1>3, HeadTailProperties DEF Deliver
  <2> QED
    BY <1>0, <1>3, <2>1 DEF Deliver, DeviceOK
<1>4. CASE DevStart
  <2>1. Head(cmds) \in Requests /\ Tail(cmds) \in Seq(Requests)
    BY <1>0, <1>4, HeadTailProperties DEF DevStart
  <2> QED
    BY <1>0, <1>4, <2>1, RequestFields DEF DevStart, DeviceOK
<1>5. CASE DevFlashBusy
  BY <1>0, <1>5 DEF DevFlashBusy, DeviceOK
<1>6. ASSUME NEW f \in Frames, Send(f) PROVE link' \in Seq(Frames) /\ lost' \in 0 .. MaxLost
  <2>1. Append(link, f) \in Seq(Frames)
    BY <1>0
  <2>2. lost < MaxLost => lost + 1 \in 0 .. MaxLost
    BY <1>0
  <2> QED
    BY <1>0, <1>6, <2>1, <2>2 DEF Send
<1>7. CASE DevChunk
  <2> DEFINE f == DataFrame(dev.type, dev.i, Min2(dev.bytes - dev.i, PM3_CMD_DATA_SIZE), From(dev))
  <2>1. f \in Frames
    <3>1. /\ dev.type \in MemTypes /\ dev.start \in Starts /\ dev.bytes \in 0 .. MaxSize
          /\ dev.i \in Nat /\ dev.i < dev.bytes
      BY <1>0, <1>7, DownloadAssumption DEF DevChunk
    <3>2. dev.i \in Reach /\ Min2(dev.bytes - dev.i, PM3_CMD_DATA_SIZE) \in 1 .. PM3_CMD_DATA_SIZE
      BY <3>1, DownloadAssumption DEF Reach, Min2
    <3>3. From(dev) \in Starts \cup {0}
      BY <3>1 DEF From
    <3> QED
      BY <3>1, <3>2, <3>3, DataFrameIsFrame
  <2>2. Send(f) /\ dev' = [dev EXCEPT !.i = dev.i + PM3_CMD_DATA_SIZE] /\ UNCHANGED <<cmds, started>> /\ dev # Idle
    BY <1>7 DEF DevChunk
  <2> HIDE DEF f
  <2>3. link' \in Seq(Frames) /\ lost' \in 0 .. MaxLost
    BY <1>6, <2>1, <2>2
  <2>4. dev' \in [type : MemTypes, start : Starts, bytes : Sizes, i : Nat]
    BY <1>0, <2>2, DownloadAssumption
  <2> QED
    BY <1>0, <2>2, <2>3, <2>4 DEF DeviceOK
<1>8. CASE DevAck
  <2>1. AckFrame \in Frames
    BY DEF Frames
  <2> QED
    BY <1>0, <1>6, <1>8, <2>1 DEF DevAck, DeviceOK
<1>9. CASE dl_it \/ dl_poll \/ dl_timeout \/ Finished \/ UNCHANGED vars
  BY <1>9 DEF dl_it, dl_poll, dl_timeout, Finished, vars, dvars, DeviceOK
<1> QED
  BY <1>1, <1>2, <1>3, <1>4, <1>5, <1>7, <1>8, <1>9 DEF DownloadNext

DownloadOK == DownloadTypeOK /\ RingOK

LEMMA DownloadStart == DownloadInit => DownloadOK
<1> SUFFICES ASSUME DownloadInit PROVE DownloadOK
  OBVIOUS
<1>1. TypeOK
  BY SizeAssumption DEF DownloadInit, Init, TypeOK, Slots
<1>2. Backlog \in Seq(Frames)
  BY EmptyAtStart DEF DownloadInit
<1>3. ClientOK
  <2>1. TransferOK
    BY DEF DownloadInit, TransferOK
  <2> QED
    BY <2>1 DEF DownloadInit, ClientOK
<1>4. DeviceOK
  BY DownloadAssumption DEF DownloadInit, DeviceOK
<1> QED
  BY <1>1, <1>2, <1>3, <1>4 DEF DownloadOK, DownloadTypeOK, RingOK

LEMMA DownloadStep == DownloadOK /\ [DownloadNext]_vars => DownloadOK'
  BY StepOfRing, RingKeeps, ClientTypeStep, DeviceTypeStep DEF DownloadOK, DownloadTypeOK

(***************************************************************************)
(* The downloader, the ring, the link and the device keep their types: in  *)
(* particular dl_it never copies more than was asked for, and what it      *)
(* reads from the ring was stored there.                                   *)
(***************************************************************************)
THEOREM DownloadTypeCorrect == DownloadSpec => [](DownloadTypeOK /\ TypeOK)
<1>1. DownloadOK => DownloadTypeOK /\ TypeOK
  BY DEF DownloadOK, RingOK
<1> QED
  BY <1>1, DownloadStart, DownloadStep, PTL DEF DownloadSpec

(***************************************************************************)
(* Under downloads the reply ring still is a queue.                        *)
(***************************************************************************)
THEOREM DownloadUsesQueue == DownloadSpec => ImplementsQueue
<1>1. DownloadInit => Init
  BY DEF DownloadInit
<1>2. DownloadOK /\ [DownloadNext]_vars => [Next]_bvars
  BY StepOfRing DEF DownloadOK
<1>3. DownloadSpec => Spec
  BY <1>1, <1>2, DownloadStart, DownloadStep, PTL DEF DownloadSpec, Spec
<1> QED
  BY <1>3, RingImplementsQueue, PTL

(***************************************************************************)
(* dl_it never writes behind the caller's buffer: the frame offset plus    *)
(* the bytes copied never pass the number of bytes asked for, whatever     *)
(* earlier downloads left in the ring, on the link or on the device.       *)
(***************************************************************************)
THEOREM BufferIsNotOverrun == DownloadSpec => []NoWriteBehindDest
<1>1. DownloadInit => NoWriteBehindDest
  BY DEF DownloadInit, NoWriteBehindDest
<1>2. DownloadOK /\ NoWriteBehindDest /\ [DownloadNext]_vars => NoWriteBehindDest'
  <2> SUFFICES ASSUME DownloadOK, NoWriteBehindDest, [DownloadNext]_vars PROVE NoWriteBehindDest'
    OBVIOUS
  <2>0. ClientOK /\ RingOK
    BY DEF DownloadOK, DownloadTypeOK
  <2>1. CASE dest' = dest /\ dl'.bytes = dl.bytes
    BY <2>1 DEF NoWriteBehindDest
  <2>2. CASE dl_it
    <3> DEFINE f == rxBuffer[cmd_tail]
    <3>1. f \in Frames
      BY <2>0, <2>2, NextReplyIsHead DEF dl_it
    <3>2. \/ Return(TRUE) /\ UNCHANGED dest
          \/ Fits(f) /\ CopyFrame(f)
          \/ Return(FALSE) /\ UNCHANGED dest
          \/ UNCHANGED <<dl, dest, result>>
      BY <2>2 DEF dl_it
    <3> HIDE DEF f
    <3>3. CASE Fits(f) /\ CopyFrame(f)
      <4>1. dl'.bytes = dl.bytes
        BY <2>0, <3>3 DEF CopyFrame, ClientOK, TransferOK
      <4>2. f.off + CopyLen(f) <= dl.bytes /\ f.off \in Nat /\ CopyLen(f) \in Nat /\ dl.bytes \in Nat
        BY <2>0, <3>1, <3>3, CopyLenBounds, FrameFields, TransferFields DEF Fits, ClientOK
      <4>3. \A k \in Reach : k >= dl.bytes => k \notin f.off .. f.off + CopyLen(f) - 1
        BY <4>2, DownloadAssumption DEF Reach
      <4>4. \A k \in Reach : k >= dl.bytes => dest'[k] = dest[k]
        BY <3>3, <4>3 DEF CopyFrame
      <4> QED
        BY <4>1, <4>4 DEF NoWriteBehindDest
    <3> QED
      BY <2>0, <2>1, <3>2, <3>3 DEF Return, ClientOK, TransferOK
  <2>3. ASSUME NEW r \in Requests, GetFromDevice(r) PROVE NoWriteBehindDest'
    BY <2>3 DEF GetFromDevice, NoWriteBehindDest
  <2>4. ASSUME NEW r \in Requests, GetNothing(r) PROVE NoWriteBehindDest'
    BY <2>0, <2>4 DEF GetNothing, NoWriteBehindDest, ClientOK, TransferOK
  <2>5. CASE dl_timeout
    BY <2>0, <2>1, <2>5 DEF dl_timeout, Return, ClientOK, TransferOK
  <2>6. CASE dl_poll \/ Deliver \/ DevStart \/ DevFlashBusy \/ DevChunk \/ DevAck \/ Finished \/ UNCHANGED vars
    BY <2>1, <2>6 DEF dl_poll, Deliver, DevStart, DevFlashBusy, DevChunk, DevAck, Finished, vars, dvars
  <2> QED
    BY <2>2, <2>3, <2>4, <2>5, <2>6 DEF DownloadNext
<1> QED
  BY <1>1, <1>2, DownloadStart, DownloadStep, PTL DEF DownloadSpec

-----------------------------------------------------------------------------
(* A download of which nothing is lost and into which nothing foreign comes *)

\* The frames between the device and dl_it, oldest first.
Pipe == Backlog \o link

\* In a sequence p of frames, the offset up to which the first i take a
\* download that has copied d bytes.
EndOf(p, d, i) == IF i = 0 THEN d ELSE p[i].off + p[i].len

\* The frame that a handler working on r sends at offset at.
Chunk(r, f, at) ==
    f = DataFrame(r.type, at, Min2(r.bytes - at, PM3_CMD_DATA_SIZE), From(r))

\* The first n frames of p continue a download of r that has copied d bytes.
Chunks(r, p, d, n) ==
    \A i \in 1 .. n : EndOf(p, d, i - 1) < r.bytes /\ Chunk(r, p[i], EndOf(p, d, i - 1))

Asked(r) == r.type = dl.type /\ r.start = dl.start /\ r.bytes = dl.bytes

(***************************************************************************)
(* The command is on its way; or the handler works on it, and the frames   *)
(* under way lead from what is copied to where the handler is; or it is    *)
(* done, and they lead to the end and are followed by the ACK.             *)
(***************************************************************************)
OnItsWay == Len(cmds) = 1 /\ Asked(cmds[1]) /\ dev = Idle /\ Pipe = <<>> /\ dl.done = 0

Running ==
    /\ cmds = <<>> /\ dev # Idle /\ Asked(dev)
    /\ Chunks(dl, Pipe, dl.done, Len(Pipe))
    /\ EndOf(Pipe, dl.done, Len(Pipe)) = Min2(dev.i, dl.bytes)

Answered ==
    /\ cmds = <<>> /\ dev = Idle /\ Pipe # <<>> /\ Pipe[Len(Pipe)] = AckFrame
    /\ Chunks(dl, Pipe, dl.done, Len(Pipe) - 1)
    /\ EndOf(Pipe, dl.done, Len(Pipe) - 1) = dl.bytes

Copied == \A k \in 0 .. dl.done - 1 : dest[k] = <<dl.type, From(dl) + k>>

CleanInv ==
    dl.pc = "loop" /\ clean =>
        dl.type \in MemTypes /\ Copied /\ (OnItsWay \/ Running \/ Answered)

LEMMA PipeMoves ==
    ASSUME NEW S, NEW b \in Seq(S), NEW l \in Seq(S)
    PROVE  /\ b \o l \in Seq(S) /\ (b \o l = <<>> <=> b = <<>> /\ l = <<>>)
           /\ l # <<>> => Append(b, Head(l)) \o Tail(l) = b \o l
           /\ b # <<>> => Head(b \o l) = Head(b) /\ Tail(b \o l) = Tail(b) \o l
           /\ \A f \in S : b \o Append(l, f) = Append(b \o l, f)
<1>1. b \o l \in Seq(S) /\ (b \o l = <<>> <=> b = <<>> /\ l = <<>>)
  BY ConcatProperties, ConcatEqualIffEmpty
<1>2. ASSUME l # <<>> PROVE Append(b, Head(l)) \o Tail(l) = b \o l
  <2>1. Head(l) \in S /\ Tail(l) \in Seq(S) /\ Len(Tail(l)) = Len(l) - 1 /\ Head(l) = l[1]
        /\ \A i \in 1 .. Len(Tail(l)) : Tail(l)[i] = l[i + 1]
    BY <1>2, HeadTailProperties
  <2>2. /\ Append(b, Head(l)) \in Seq(S) /\ Len(Append(b, Head(l))) = Len(b) + 1
        /\ \A i \in 1 .. Len(b) : Append(b, Head(l))[i] = b[i]
        /\ Append(b, Head(l))[Len(b) + 1] = Head(l)
    BY <2>1, AppendProperties
  <2> DEFINE s == Append(b, Head(l)) \o Tail(l)
             t == b \o l
  <2>3. /\ s \in Seq(S) /\ Len(s) = Len(b) + 1 + (Len(l) - 1)
        /\ \A i \in 1 .. Len(b) + 1 + (Len(l) - 1) :
             s[i] = IF i <= Len(b) + 1 THEN Append(b, Head(l))[i] ELSE Tail(l)[i - (Len(b) + 1)]
    BY <2>1, <2>2, ConcatProperties
  <2>4. /\ t \in Seq(S) /\ Len(t) = Len(b) + Len(l)
        /\ \A i \in 1 .. Len(b) + Len(l) : t[i] = IF i <= Len(b) THEN b[i] ELSE l[i - Len(b)]
    BY ConcatProperties
  <2>5. Len(b) \in Nat /\ Len(l) \in Nat
    OBVIOUS
  <2> HIDE DEF s, t
  <2>6. ASSUME NEW i \in 1 .. Len(t) PROVE s[i] = t[i]
    <3>0. /\ i \in Nat /\ i \in 1 .. Len(b) + Len(l)
          /\ Len(b) + 1 + (Len(l) - 1) = Len(b) + Len(l)
      BY <2>4, <2>5
    <3>1. CASE i <= Len(b)
      <4>1. i \in 1 .. Len(b) /\ i <= Len(b) + 1
        BY <2>5, <3>0, <3>1
      <4>2. s[i] = Append(b, Head(l))[i]
        BY <2>3, <3>0, <4>1
      <4>3. t[i] = b[i]
        BY <2>4, <3>0, <3>1
      <4> QED
        BY <2>2, <4>1, <4>2, <4>3
    <3>2. CASE i = Len(b) + 1
      <4>1. i <= Len(b) + 1 /\ ~(i <= Len(b)) /\ i - Len(b) = 1
        BY <2>5, <3>2
      <4>2. s[i] = Append(b, Head(l))[i] /\ t[i] = l[1]
        BY <2>3, <2>4, <3>0, <4>1
      <4> QED
        BY <2>1, <2>2, <3>2, <4>2
    <3>3. CASE i > Len(b) + 1
      <4>1. /\ i - (Len(b) + 1) \in 1 .. Len(Tail(l)) /\ i - (Len(b) + 1) + 1 = i - Len(b)
            /\ ~(i <= Len(b)) /\ ~(i <= Len(b) + 1)
        BY <2>1, <2>5, <3>0, <3>3
      <4>2. s[i] = Tail(l)[i - (Len(b) + 1)] /\ t[i] = l[i - Len(b)]
        BY <2>3, <2>4, <3>0, <4>1
      <4> QED
        BY <2>1, <4>1, <4>2
    <3> QED
      BY <2>5, <3>0, <3>1, <3>2, <3>3
  <2>7. s = t
    BY <2>3, <2>4, <2>5, <2>6, SeqEqual
  <2> QED
    BY <2>7 DEF s, t
<1>3. ASSUME b # <<>> PROVE Head(b \o l) = Head(b) /\ Tail(b \o l) = Tail(b) \o l
  <2> DEFINE t == b \o l
             s == Tail(b) \o l
  <2>1. /\ Tail(b) \in Seq(S) /\ Len(Tail(b)) = Len(b) - 1 /\ Head(b) = b[1] /\ Len(b) \in Nat /\ Len(b) > 0
        /\ \A i \in 1 .. Len(Tail(b)) : Tail(b)[i] = b[i + 1]
    BY <1>3, HeadTailProperties
  <2>2. /\ t \in Seq(S) /\ t # <<>> /\ Len(t) = Len(b) + Len(l) /\ Len(l) \in Nat
        /\ \A i \in 1 .. Len(b) + Len(l) : t[i] = IF i <= Len(b) THEN b[i] ELSE l[i - Len(b)]
    BY <1>1, <1>3, ConcatProperties
  <2>3. /\ s \in Seq(S) /\ Len(s) = Len(b) - 1 + Len(l)
        /\ \A i \in 1 .. Len(b) - 1 + Len(l) :
             s[i] = IF i <= Len(b) - 1 THEN Tail(b)[i] ELSE l[i - (Len(b) - 1)]
    BY <2>1, ConcatProperties
  <2> HIDE DEF s, t
  <2>4. /\ Tail(t) \in Seq(S) /\ Len(Tail(t)) = Len(t) - 1 /\ Head(t) = t[1]
        /\ \A i \in 1 .. Len(Tail(t)) : Tail(t)[i] = t[i + 1]
    BY <2>2, HeadTailProperties
  <2>5. Head(t) = Head(b)
    BY <2>1, <2>2, <2>4
  <2>6. ASSUME NEW i \in 1 .. Len(s) PROVE s[i] = Tail(t)[i]
    <3>1. Tail(t)[i] = t[i + 1] /\ i + 1 \in 1 .. Len(b) + Len(l)
      BY <2>1, <2>2, <2>3, <2>4
    <3>2. CASE i <= Len(b) - 1
      BY <2>1, <2>2, <2>3, <3>1, <3>2
    <3>3. CASE i > Len(b) - 1
      <4>1. i - (Len(b) - 1) = i + 1 - Len(b)
        BY <2>1
      <4> QED
        BY <2>1, <2>2, <2>3, <3>1, <3>3, <4>1
    <3>4. i \in Nat /\ Len(b) - 1 \in Nat
      BY <2>1, <2>3
    <3>5. i <= Len(b) - 1 \/ i > Len(b) - 1
      BY <3>4
    <3> QED
      BY <3>2, <3>3, <3>5, Zenon
  <2>7. s = Tail(t)
    BY <2>1, <2>2, <2>3, <2>4, <2>6, SeqEqual
  <2> QED
    BY <2>5, <2>7 DEF s, t
<1>4. ASSUME NEW f \in S PROVE b \o Append(l, f) = Append(b \o l, f)
  <2>1. <<f>> \in Seq(S)
    OBVIOUS
  <2> QED
    BY <1>1, <2>1, AppendIsConcat, ConcatAssociative
<1> QED
  BY <1>1, <1>2, <1>3, <1>4

LEMMA PipeIsSeq ==
    ASSUME DownloadOK
    PROVE  /\ Backlog \in Seq(Frames) /\ link \in Seq(Frames) /\ Pipe \in Seq(Frames)
           /\ Len(Pipe) \in Nat
           /\ cmd_head # cmd_tail => Pipe # <<>> /\ Head(Pipe) = rxBuffer[cmd_tail]
<1>1. Backlog \in Seq(Frames) /\ link \in Seq(Frames)
  BY DEF DownloadOK, RingOK, DownloadTypeOK, DeviceOK
<1>2. Pipe \in Seq(Frames)
  BY <1>1, PipeMoves DEF Pipe
<1>3. cmd_head # cmd_tail => Backlog # <<>> /\ Head(Backlog) = rxBuffer[cmd_tail]
  BY NextReplyIsHead DEF DownloadOK
<1>4. cmd_head # cmd_tail => Pipe # <<>> /\ Head(Pipe) = rxBuffer[cmd_tail]
  BY <1>1, <1>3, PipeMoves DEF Pipe
<1> QED
  BY <1>1, <1>2, <1>4

\* Storing into a ring that is not full.
LEMMA DeliverStores ==
    ASSUME DownloadOK, Deliver, clean'
    PROVE  Backlog' = Append(Backlog, Head(link))
<1>1. /\ Backlog \in Seq(Frames) /\ link \in Seq(Frames) /\ link # <<>> /\ link' = Tail(link)
      /\ storeReply(Head(link)) /\ Advance(cmd_head) # cmd_tail
  BY PipeIsSeq DEF Deliver
<1>2. Head(link) \in Reply
  BY <1>1, FramesAssumption, HeadTailProperties
<1>3. TypeOK /\ cmd_head \in Slots /\ cmd_tail \in Slots
  BY DEF DownloadOK, RingOK, TypeOK
<1>4. Advance(cmd_head) = IF cmd_head + 1 = CMD_BUFFER_SIZE THEN 0 ELSE cmd_head + 1
  BY <1>3, AdvanceWraps
<1>5. BacklogLen < CMD_BUFFER_SIZE - 1
  BY <1>1, <1>3, <1>4, SizeAssumption DEF BacklogLen, Slots
<1>6. Backlog' = Queue!Stored(Head(link)) /\ Len(Backlog) = BacklogLen
  BY <1>1, <1>2, <1>3, StoreAppends, BacklogIsSeq
<1> QED
  BY <1>5, <1>6 DEF Queue!Stored

\* It moves a frame within the pipe.
LEMMA DeliverKeepsPipe ==
    ASSUME DownloadOK, Deliver, clean'
    PROVE  Pipe' = Pipe
<1>1. Backlog \in Seq(Frames) /\ link \in Seq(Frames) /\ link # <<>> /\ link' = Tail(link)
  BY PipeIsSeq DEF Deliver
<1>2. Pipe' = Append(Backlog, Head(link)) \o Tail(link)
  BY <1>1, DeliverStores DEF Pipe
<1> QED
  BY <1>1, <1>2, PipeMoves DEF Pipe

LEMMA TakeKeepsPipe ==
    ASSUME DownloadOK, getReply, UNCHANGED link
    PROVE  IF cmd_head = cmd_tail THEN Pipe' = Pipe ELSE Pipe # <<>> /\ Pipe' = Tail(Pipe)
<1>1. CASE cmd_head = cmd_tail
  BY <1>1, EmptyGetKeeps DEF Pipe
<1>2. CASE cmd_head # cmd_tail
  <2>1. Backlog # <<>> /\ Backlog' = Tail(Backlog)
    BY <1>2, GetTakesHead DEF DownloadOK, RingOK
  <2>2. Pipe' = Tail(Backlog) \o link
    BY <2>1 DEF Pipe
  <2> QED
    BY <1>2, <2>1, <2>2, PipeIsSeq, PipeMoves DEF Pipe
<1> QED
  BY <1>1, <1>2

\* Taking the first frame, and sending one more.
LEMMA ChunksOfTail ==
    ASSUME NEW p \in Seq(Frames), p # <<>>, NEW r, NEW d, NEW n \in 1 .. Len(p), Chunks(r, p, d, n)
    PROVE  /\ Chunk(r, p[1], d) /\ d < r.bytes
           /\ Chunks(r, Tail(p), p[1].off + p[1].len, n - 1)
           /\ \A m \in 0 .. Len(p) - 1 : EndOf(Tail(p), p[1].off + p[1].len, m) = EndOf(p, d, m + 1)
<1>1. /\ Len(p) \in Nat /\ Len(Tail(p)) = Len(p) - 1
      /\ \A i \in 1 .. Len(Tail(p)) : Tail(p)[i] = p[i + 1]
  BY HeadTailProperties
<1> DEFINE t == Tail(p)
           e == p[1].off + p[1].len
<1>2. \A i \in 1 .. Len(p) - 1 : t[i] = p[i + 1]
  BY <1>1
<1> HIDE DEF t
<1>3. \A m \in 0 .. Len(p) - 1 : EndOf(t, e, m) = EndOf(p, d, m + 1)
  BY <1>1, <1>2 DEF EndOf
<1>4. Chunk(r, p[1], d) /\ d < r.bytes
  <2>1. 1 \in 1 .. n /\ 1 - 1 = 0
    BY <1>1
  <2> QED
    BY <2>1 DEF Chunks, EndOf
<1>5. ASSUME NEW i \in 1 .. n - 1 PROVE EndOf(t, e, i - 1) < r.bytes /\ Chunk(r, t[i], EndOf(t, e, i - 1))
  <2>1. i + 1 \in 1 .. n /\ i - 1 \in 0 .. Len(p) - 1 /\ i \in 1 .. Len(p) - 1 /\ i - 1 + 1 = i /\ i + 1 - 1 = i
    BY <1>1
  <2>2. EndOf(t, e, i - 1) = EndOf(p, d, i) /\ t[i] = p[i + 1]
    BY <1>2, <1>3, <2>1
  <2>3. EndOf(p, d, i) < r.bytes /\ Chunk(r, p[i + 1], EndOf(p, d, i))
    BY <2>1 DEF Chunks
  <2> QED
    BY <2>2, <2>3
<1> QED
  BY <1>3, <1>4, <1>5 DEF Chunks, t

LEMMA ChunksOfAppend ==
    ASSUME NEW p \in Seq(Frames), NEW f \in Frames, NEW r, NEW d
    PROVE  /\ \A i \in 0 .. Len(p) : EndOf(Append(p, f), d, i) = EndOf(p, d, i)
           /\ Chunks(r, p, d, Len(p)) => Chunks(r, Append(p, f), d, Len(p))
           /\ /\ Chunks(r, p, d, Len(p)) /\ EndOf(p, d, Len(p)) < r.bytes
              /\ Chunk(r, f, EndOf(p, d, Len(p)))
              => Chunks(r, Append(p, f), d, Len(p) + 1)
<1> DEFINE t == Append(p, f)
<1>1. Len(p) \in Nat /\ (\A i \in 1 .. Len(p) : t[i] = p[i]) /\ t[Len(p) + 1] = f
  BY AppendProperties
<1> HIDE DEF t
<1>2. \A i \in 0 .. Len(p) : EndOf(t, d, i) = EndOf(p, d, i)
  BY <1>1 DEF EndOf
<1>3. ASSUME Chunks(r, p, d, Len(p)), NEW i \in 1 .. Len(p)
      PROVE  EndOf(t, d, i - 1) < r.bytes /\ Chunk(r, t[i], EndOf(t, d, i - 1))
  <2>1. i - 1 \in 0 .. Len(p)
    BY <1>1
  <2>2. EndOf(p, d, i - 1) < r.bytes /\ Chunk(r, p[i], EndOf(p, d, i - 1))
    BY <1>3 DEF Chunks
  <2> QED
    BY <1>1, <1>2, <2>1, <2>2
<1>4. ASSUME Chunks(r, p, d, Len(p)), EndOf(p, d, Len(p)) < r.bytes,
             Chunk(r, f, EndOf(p, d, Len(p))), NEW i \in 1 .. Len(p) + 1
      PROVE  EndOf(t, d, i - 1) < r.bytes /\ Chunk(r, t[i], EndOf(t, d, i - 1))
  <2>1. CASE i \in 1 .. Len(p)
    BY <1>3, <1>4, <2>1
  <2>2. CASE i = Len(p) + 1
    <3>1. i - 1 = Len(p) /\ Len(p) \in 0 .. Len(p)
      BY <1>1, <2>2
    <3> QED
      BY <1>1, <1>2, <1>4, <2>2, <3>1
  <2> QED
    BY <1>1, <2>1, <2>2
<1> QED
  BY <1>2, <1>3, <1>4 DEF Chunks, t

LEMMA ChunksOfSame ==
    ASSUME NEW r, NEW s, r.type = s.type, r.start = s.start, r.bytes = s.bytes
    PROVE  \A p, d, n : Chunks(r, p, d, n) => Chunks(s, p, d, n)
<1>1. From(r) = From(s)
  BY DEF From
<1> QED
  BY <1>1 DEF Chunks, Chunk

\* Frames and requests stay what they are when only the frame under way moves.
LEMMA CleanKept ==
    ASSUME CleanInv, UNCHANGED <<dl, dest, cmds, dev>>, Pipe' = Pipe, clean' => clean
    PROVE  CleanInv'
<1>1. (Copied' <=> Copied) /\ (OnItsWay' <=> OnItsWay)
  BY DEF Copied, OnItsWay, Asked
<1>2. Running => Running'
  BY DEF Running, Asked
<1>3. Answered => Answered'
  BY DEF Answered
<1> QED
  BY <1>1, <1>2, <1>3 DEF CleanInv

\* The first frame under way is the next chunk, and it is copied as it is.
LEMMA NextChunk ==
    ASSUME DownloadOK, NEW f \in Frames, Chunk(dl, f, dl.done), dl.done < dl.bytes
    PROVE  /\ f.cmd = dl.type /\ f.off = dl.done /\ f.from = From(dl) /\ f.len \in Nat
           /\ CopyLen(f) = f.len /\ Fits(f) /\ dl.done + f.len <= dl.bytes
<1>1. dl.bytes \in Nat /\ dl.done \in Nat
  BY TransferFields DEF DownloadOK, DownloadTypeOK, ClientOK
<1>2. PM3_CMD_DATA_SIZE \in Nat /\ PM3_CMD_DATA_SIZE # 0
  BY DownloadAssumption
<1>3. /\ f.cmd = dl.type /\ f.off = dl.done /\ f.from = From(dl)
      /\ f.len = Min2(dl.bytes - dl.done, PM3_CMD_DATA_SIZE)
  BY DEF Chunk, DataFrame
<1>4. CopyLen(f) = f.len /\ f.len \in Nat /\ dl.done + f.len <= dl.bytes
  BY <1>1, <1>2, <1>3 DEF CopyLen, Min2
<1> QED
  BY <1>3, <1>4 DEF Fits

(***************************************************************************)
(* One turn of dl_it in a clean download: a chunk is copied to its place,  *)
(* or the ACK comes and everything has been copied.                        *)
(***************************************************************************)
LEMMA TurnIsClean ==
    ASSUME DownloadOK, CleanInv, dl_it, clean
    PROVE  CleanInv' /\ TrueMeansComplete' /\ (dl'.pc = "idle" => result')
<1> DEFINE f == rxBuffer[cmd_tail]
           n == Len(Pipe)
<1>1. /\ dl.pc = "loop" /\ getReply /\ cmd_head # cmd_tail
      /\ UNCHANGED <<cmds, dev, link, clean>>
      /\ \/ f.cmd = "ACK" /\ Return(TRUE) /\ UNCHANGED dest
         \/ f.cmd = dl.type /\ Fits(f) /\ CopyFrame(f)
         \/ f.cmd = dl.type /\ ~Fits(f) /\ Return(FALSE) /\ UNCHANGED dest
         \/ f.cmd \notin {"ACK", dl.type} /\ UNCHANGED <<dl, dest, result>>
  BY DEF dl_it
<1>2. Pipe \in Seq(Frames) /\ n \in Nat /\ Pipe # <<>> /\ f = Head(Pipe) /\ Pipe' = Tail(Pipe)
  BY <1>1, PipeIsSeq, TakeKeepsPipe
<1>3. f = Pipe[1] /\ f \in Frames /\ n \in Nat \ {0}
  BY <1>2, HeadTailProperties
<1>4. /\ Tail(Pipe) \in Seq(Frames) /\ Len(Tail(Pipe)) = n - 1
      /\ \A i \in 1 .. Len(Tail(Pipe)) : Tail(Pipe)[i] = Pipe[i + 1]
  BY <1>2, HeadTailProperties
<1>5. dl.type \in MemTypes /\ dl.type # "ACK" /\ Copied /\ (Running \/ Answered)
  BY <1>1, <1>2, DownloadAssumption DEF CleanInv, OnItsWay
<1>6. /\ TransferOK /\ dl.bytes \in Nat /\ dl.done \in Nat /\ dl.bytes <= MaxSize
      /\ dl.start \in Nat /\ From(dl) \in Nat
  <2>1. TransferOK
    BY DEF DownloadOK, DownloadTypeOK, ClientOK
  <2>2. dl.bytes \in Nat /\ dl.bytes \in 0 .. MaxSize /\ dl.done \in Nat /\ dl.start \in Nat
    BY <2>1, TransferFields
  <2> QED
    BY <2>1, <2>2, DownloadAssumption DEF From
<1> HIDE DEF f, n
<1>7. CASE Answered /\ n = 1
  <2>1. f = AckFrame /\ dl.done = dl.bytes
    BY <1>3, <1>7 DEF Answered, EndOf, n
  <2>2. f.cmd = "ACK"
    BY <2>1 DEF AckFrame
  <2>3. dl' = [dl EXCEPT !.pc = "idle"] /\ dest' = dest /\ result'
    BY <1>1, <1>5, <2>2 DEF Return
  <2>4. /\ dl'.pc = "idle" /\ dl'.bytes = dl.bytes /\ dl'.type = dl.type /\ dl'.start = dl.start
    BY <1>6, <2>3 DEF TransferOK
  <2>5. From(dl') = From(dl)
    BY <2>4 DEF From
  <2>6. TrueMeansComplete'
    BY <1>5, <2>1, <2>3, <2>4, <2>5 DEF TrueMeansComplete, Copied
  <2> QED
    BY <2>3, <2>4, <2>6 DEF CleanInv
<1>8. CASE Running \/ (Answered /\ n # 1)
  <2> DEFINE m == IF Running THEN n ELSE n - 1
             e == f.off + f.len
             t == Tail(Pipe)
  <2>1. m \in 1 .. Len(Pipe) /\ Chunks(dl, Pipe, dl.done, m)
    <3>1. CASE Running
      <4>1. m = n /\ Chunks(dl, Pipe, dl.done, n)
        BY <3>1 DEF Running, n
      <4> QED
        BY <1>3, <4>1 DEF n
    <3>2. CASE ~Running /\ Answered /\ n # 1
      <4>1. m = n - 1 /\ Chunks(dl, Pipe, dl.done, n - 1)
        BY <3>2 DEF Answered, n
      <4> QED
        BY <1>3, <3>2, <4>1 DEF n
    <3> QED
      BY <1>8, <3>1, <3>2
  <2> HIDE DEF m
  <2>2. /\ Chunk(dl, f, dl.done) /\ dl.done < dl.bytes /\ Chunks(dl, t, e, m - 1)
        /\ \A i \in 0 .. n - 1 : EndOf(t, e, i) = EndOf(Pipe, dl.done, i + 1)
    BY <1>2, <1>3, <2>1, ChunksOfTail DEF n
  <2>3. /\ f.cmd = dl.type /\ f.off = dl.done /\ f.from = From(dl) /\ f.len \in Nat
        /\ CopyLen(f) = f.len /\ Fits(f) /\ dl.done + f.len <= dl.bytes
    BY <1>3, <2>2, NextChunk
  <2>4. CopyFrame(f)
    BY <1>1, <1>5, <2>3
  <2>5. /\ dl' = [dl EXCEPT !.done = e] /\ e = dl.done + f.len /\ e \in Nat
        /\ dest' = [k \in Reach |-> IF k \in dl.done .. dl.done + f.len - 1
                                    THEN <<dl.type, From(dl) + k>> ELSE dest[k]]
    BY <1>6, <2>3, <2>4 DEF CopyFrame
  <2>6. /\ dl'.pc = "loop" /\ dl'.type = dl.type /\ dl'.start = dl.start /\ dl'.bytes = dl.bytes
        /\ dl'.done = e
    BY <1>1, <1>6, <2>5 DEF TransferOK
  <2>7. From(dl') = From(dl)
    BY <2>6 DEF From
  <2>8. Copied'
    <3> SUFFICES ASSUME NEW k \in 0 .. e - 1 PROVE dest'[k] = <<dl.type, From(dl) + k>>
      BY <2>6, <2>7 DEF Copied
    <3>1. k \in Reach
      BY <1>6, <2>3, <2>5, DownloadAssumption DEF Reach
    <3>2. CASE k \in dl.done .. dl.done + f.len - 1
      BY <2>5, <3>1, <3>2
    <3>3. CASE k \notin dl.done .. dl.done + f.len - 1
      <4>1. k \in 0 .. dl.done - 1
        BY <1>6, <2>3, <2>5, <3>3
      <4> QED
        BY <1>5, <2>5, <3>1, <3>3, <4>1 DEF Copied
    <3> QED
      BY <3>2, <3>3
  <2>9. Chunks(dl', t, e, m - 1)
    BY <2>2, <2>6, ChunksOfSame
  <2>10. CASE Running
    <3>1. m = n
      BY <2>10 DEF m
    <3>2. EndOf(t, e, n - 1) = EndOf(Pipe, dl.done, n)
      <4>1. n - 1 \in 0 .. n - 1 /\ n - 1 + 1 = n
        BY <1>3
      <4> QED
        BY <2>2, <4>1
    <3>3. Running'
      BY <1>1, <1>2, <1>4, <2>6, <2>9, <2>10, <3>1, <3>2 DEF Running, Asked, n
    <3> QED
      BY <1>5, <2>6, <2>8, <3>3 DEF CleanInv, TrueMeansComplete
  <2>11. CASE ~Running /\ Answered /\ n # 1
    <3>1. m = n - 1
      BY <2>11 DEF m
    <3>2. /\ n - 1 \in 1 .. n - 1 /\ n - 1 + 1 = n /\ n - 2 \in 0 .. n - 1 /\ n - 2 + 1 = n - 1
          /\ n - 1 - 1 = n - 2
      BY <1>3, <2>11
    <3>3. EndOf(t, e, n - 2) = EndOf(Pipe, dl.done, n - 1)
      BY <2>2, <3>2
    <3>4. t[n - 1] = Pipe[n] /\ t # <<>> /\ Len(t) = n - 1
      BY <1>4, <3>2
    <3>5. Answered'
      <4>1. cmds' = <<>> /\ dev' = Idle /\ Pipe[n] = AckFrame /\ EndOf(Pipe, dl.done, n - 1) = dl.bytes
        BY <1>1, <2>11 DEF Answered, n
      <4> HIDE DEF t, e
      <4>2. Pipe' = t
        BY <1>2 DEF t
      <4> QED
        BY <2>6, <2>9, <3>1, <3>2, <3>3, <3>4, <4>1, <4>2 DEF Answered
    <3> QED
      BY <1>5, <2>6, <2>8, <3>5 DEF CleanInv, TrueMeansComplete
  <2> QED
    BY <1>8, <2>10, <2>11
<1> QED
  BY <1>5, <1>7, <1>8

LEMMA CleanStep ==
    ASSUME DownloadOK, CleanInv, TrueMeansComplete, [DownloadNext]_vars
    PROVE  CleanInv' /\ TrueMeansComplete'
<1>0. /\ Pipe \in Seq(Frames) /\ Len(Pipe) \in Nat /\ TransferOK /\ DeviceOK
      /\ Backlog \in Seq(Frames) /\ link \in Seq(Frames) /\ cmds \in Seq(Requests)
  BY PipeIsSeq DEF DownloadOK, DownloadTypeOK, ClientOK, DeviceOK
<1>a. ASSUME UNCHANGED <<dl, dest, result>>, clean' => clean PROVE TrueMeansComplete'
  BY <1>a DEF TrueMeansComplete
<1>b. ASSUME UNCHANGED bvars PROVE Backlog' = Backlog
  BY <1>b, SameRingSameBacklog
<1>1. ASSUME NEW r \in Requests, GetFromDevice(r) PROVE CleanInv' /\ TrueMeansComplete'
  <2>1. /\ dl' = [pc |-> "loop", type |-> r.type, start |-> r.start, bytes |-> r.bytes, done |-> 0]
        /\ cmds' = Append(cmds, r) /\ clean' = (cmds = <<>> /\ dev = Idle /\ link = <<>>)
        /\ UNCHANGED <<dev, link>> /\ clearCommandBuffer
    BY <1>1 DEF GetFromDevice, Forget
  <2>2. Backlog' = <<>>
    BY <2>1, ClearEmpties DEF DownloadOK, RingOK
  <2>3. ASSUME clean' PROVE OnItsWay'
    <3>1. cmds = <<>> /\ dev' = Idle /\ link' = <<>>
      BY <2>1, <2>3
    <3>2. Pipe' = <<>>
      BY <2>2, <3>1 DEF Pipe
    <3>3. Len(cmds') = 1 /\ cmds'[1] = r
      BY <2>1, <3>1
    <3> QED
      BY <2>1, <3>1, <3>2, <3>3 DEF OnItsWay, Asked
  <2>4. Copied'
    BY <2>1 DEF Copied
  <2> QED
    BY <2>1, <2>3, <2>4, RequestFields DEF CleanInv, TrueMeansComplete
<1>2. ASSUME NEW r \in Requests, GetNothing(r) PROVE CleanInv' /\ TrueMeansComplete'
  <2>1. dl'.pc = "idle" /\ dl'.bytes = 0
    BY <1>2 DEF GetNothing
  <2> QED
    BY <2>1 DEF CleanInv, TrueMeansComplete
<1>3. CASE dl_it
  <2>1. CASE clean
    BY <1>3, <2>1, TurnIsClean
  <2>2. CASE ~clean
    BY <1>3, <2>2 DEF dl_it, CleanInv, TrueMeansComplete
  <2> QED
    BY <2>1, <2>2
<1>4. CASE dl_poll
  <2>1. getReply /\ cmd_head = cmd_tail /\ UNCHANGED dvars
    BY <1>4 DEF dl_poll
  <2>2. UNCHANGED <<dl, dest, result, cmds, dev, link, clean>>
    BY <2>1 DEF dvars
  <2>3. Pipe' = Pipe
    BY <2>1, <2>2, EmptyGetKeeps DEF Pipe
  <2> QED
    BY <1>a, <2>2, <2>3, CleanKept
<1>5. CASE dl_timeout
  <2>1. dl' = [dl EXCEPT !.pc = "idle"] /\ ~result'
    BY <1>5 DEF dl_timeout, Return
  <2>2. dl'.pc = "idle"
    BY <1>0, <2>1 DEF TransferOK
  <2> QED
    BY <2>1, <2>2 DEF CleanInv, TrueMeansComplete
<1>6. CASE Deliver
  <2>1. UNCHANGED <<dl, dest, result, cmds, dev>> /\ (clean' => clean)
    BY <1>6 DEF Deliver
  <2>2. CASE clean'
    BY <1>6, <1>a, <2>1, <2>2, DeliverKeepsPipe, CleanKept
  <2>3. CASE ~clean'
    BY <2>3 DEF CleanInv, TrueMeansComplete
  <2> QED
    BY <2>2, <2>3
<1>7. CASE DevStart
  <2>1. /\ UNCHANGED <<bvars, dl, dest, result, link, clean>> /\ cmds # <<>> /\ cmds' = Tail(cmds)
        /\ dev' = [type |-> Head(cmds).type, start |-> Head(cmds).start,
                   bytes |-> Head(cmds).bytes, i |-> 0]
    BY <1>7 DEF DevStart
  <2>2. Pipe' = Pipe
    BY <1>b, <2>1 DEF Pipe
  <2>3. CASE dl.pc = "loop" /\ clean
    <3>1. OnItsWay /\ Copied /\ dl.type \in MemTypes
      BY <2>1, <2>3 DEF CleanInv, Running, Answered
    <3>2. Tail(cmds) = <<>> /\ Head(cmds) = cmds[1]
      <4>1. Len(cmds) = 1
        BY <3>1 DEF OnItsWay
      <4>2. Len(Tail(cmds)) = 0 /\ Tail(cmds) \in Seq(Requests)
        BY <1>0, <2>1, <4>1, HeadTailProperties
      <4>3. Head(cmds) = cmds[1]
        BY <1>0, <2>1
      <4> QED
        BY <4>2, <4>3, EmptySeq
    <3>3. dl.bytes \in Nat /\ dl.done = 0 /\ Pipe = <<>>
      BY <1>0, <3>1, TransferFields DEF OnItsWay
    <3>4. dev' # Idle
      <4>1. dev'.type \in MemTypes
        BY <2>1, <3>1, <3>2 DEF OnItsWay, Asked
      <4> QED
        BY <4>1, DownloadAssumption DEF Idle
    <3>5. Len(Pipe') = 0
      BY <2>2, <3>3
    <3>6. Chunks(dl, Pipe', dl.done, Len(Pipe'))
      BY <3>5 DEF Chunks
    <3>7. EndOf(Pipe', dl.done, Len(Pipe')) = Min2(dev'.i, dl.bytes)
      BY <2>1, <3>3, <3>5 DEF EndOf, Min2
    <3>8. Asked(dev)'
      BY <2>1, <3>1, <3>2 DEF OnItsWay, Asked
    <3>9. Running'
      BY <2>1, <3>2, <3>4, <3>6, <3>7, <3>8 DEF Running
    <3>10. Copied'
      BY <2>1, <3>1 DEF Copied
    <3> QED
      BY <1>a, <2>1, <3>1, <3>9, <3>10 DEF CleanInv
  <2> QED
    BY <1>a, <2>1, <2>3 DEF CleanInv
<1>8. CASE DevFlashBusy
  BY <1>8 DEF DevFlashBusy, CleanInv, TrueMeansComplete
<1>9. ASSUME NEW f \in Frames, Send(f), UNCHANGED <<bvars, dl, dest, result, cmds>>, clean'
      PROVE  clean /\ Pipe' = Append(Pipe, f)
  <2>1. link' = Append(link, f) /\ clean
    BY <1>9 DEF Send
  <2>2. Pipe' = Backlog \o Append(link, f)
    BY <1>b, <1>9, <2>1 DEF Pipe
  <2> QED
    BY <1>0, <2>1, <2>2, PipeMoves DEF Pipe
<1>10. CASE ~clean'
  BY <1>10 DEF CleanInv, TrueMeansComplete
<1>11. CASE DevChunk /\ clean'
  <2> DEFINE f == DataFrame(dev.type, dev.i, Min2(dev.bytes - dev.i, PM3_CMD_DATA_SIZE), From(dev))
             n == Len(Pipe)
             q == Append(Pipe, f)
  <2>1. /\ dev # Idle /\ dev.i < dev.bytes /\ Send(f) /\ dev' = [dev EXCEPT !.i = dev.i + PM3_CMD_DATA_SIZE]
        /\ UNCHANGED <<bvars, dl, dest, result, cmds>>
    BY <1>11 DEF DevChunk
  <2>2. /\ dev \in [type : MemTypes, start : Starts, bytes : Sizes, i : Nat]
        /\ dev.i \in Nat /\ dev.bytes \in 0 .. MaxSize /\ dev.bytes \in Nat
    BY <1>0, <2>1, DownloadAssumption DEF DeviceOK
  <2>3. Min2(dev.bytes - dev.i, PM3_CMD_DATA_SIZE) \in 1 .. PM3_CMD_DATA_SIZE
    BY <2>1, <2>2, DownloadAssumption DEF Min2
  <2>4. f \in Frames
    <3>1. dev.i \in Reach
      BY <2>1, <2>2, DownloadAssumption DEF Reach
    <3>2. From(dev) \in Starts \cup {0} /\ dev.type \in MemTypes
      BY <2>2 DEF From
    <3> QED
      BY <2>3, <3>1, <3>2, DataFrameIsFrame
  <2>5. clean /\ Pipe' = q
    BY <1>9, <1>11, <2>1, <2>4
  <2>6. CASE dl.pc = "loop"
    <3>1. Running /\ Copied /\ dl.type \in MemTypes
      BY <2>1, <2>5, <2>6 DEF CleanInv, OnItsWay, Answered
    <3>2. /\ Asked(dev) /\ From(dev) = From(dl) /\ dev.bytes = dl.bytes /\ cmds = <<>>
          /\ Chunks(dl, Pipe, dl.done, n) /\ EndOf(Pipe, dl.done, n) = Min2(dev.i, dl.bytes)
      BY <3>1 DEF Running, Asked, From
    <3>3. EndOf(Pipe, dl.done, n) = dev.i
      BY <2>1, <2>2, <3>2 DEF Min2
    <3>4. Chunk(dl, f, dev.i)
      BY <3>2 DEF Chunk, Asked
    <3>5. f.off = dev.i /\ f.len = Min2(dl.bytes - dev.i, PM3_CMD_DATA_SIZE)
      BY <3>2 DEF DataFrame
    <3> HIDE DEF f
    <3>6. q \in Seq(Frames) /\ Len(q) = n + 1 /\ q[n + 1] = f
      BY <1>0, <2>4, AppendProperties
    <3>7. Chunks(dl, q, dl.done, n + 1)
      <4>1. EndOf(Pipe, dl.done, n) < dl.bytes /\ Chunk(dl, f, EndOf(Pipe, dl.done, n))
        BY <2>1, <3>2, <3>3, <3>4
      <4> QED
        BY <1>0, <2>4, <3>2, <4>1, ChunksOfAppend
    <3>8. dev'.i = dev.i + PM3_CMD_DATA_SIZE /\ Asked(dev') /\ dev' # Idle
      <4>1. /\ dev'.i = dev.i + PM3_CMD_DATA_SIZE /\ dev'.type = dev.type
            /\ dev'.start = dev.start /\ dev'.bytes = dev.bytes
        BY <2>1, <2>2
      <4> QED
        BY <2>2, <3>2, <4>1, DownloadAssumption DEF Asked, Idle
    <3>9. f.off + f.len = Min2(dev'.i, dl.bytes)
      BY <2>1, <2>2, <3>2, <3>5, <3>8, DownloadAssumption DEF Min2
    <3> HIDE DEF q, n
    <3>10. EndOf(q, dl.done, n + 1) = Min2(dev'.i, dl.bytes)
      BY <1>0, <3>6, <3>9 DEF EndOf, n
    <3>11. Running'
      BY <2>1, <2>5, <3>2, <3>6, <3>7, <3>8, <3>10 DEF Running, Asked
    <3>12. Copied'
      BY <2>1, <3>1 DEF Copied
    <3> QED
      BY <1>a, <2>1, <2>5, <3>1, <3>11, <3>12 DEF CleanInv
  <2> QED
    BY <1>a, <2>1, <2>5, <2>6 DEF CleanInv
<1>12. CASE DevAck /\ clean'
  <2> DEFINE n == Len(Pipe)
             q == Append(Pipe, AckFrame)
  <2>1. dev # Idle /\ dev.i >= dev.bytes /\ Send(AckFrame) /\ dev' = Idle
        /\ UNCHANGED <<bvars, dl, dest, result, cmds>>
    BY <1>12 DEF DevAck
  <2>2. AckFrame \in Frames
    BY DEF Frames
  <2>3. clean /\ Pipe' = q
    BY <1>9, <1>12, <2>1, <2>2
  <2>4. CASE dl.pc = "loop"
    <3>1. Running /\ Copied /\ dl.type \in MemTypes
      BY <2>1, <2>3, <2>4 DEF CleanInv, OnItsWay, Answered
    <3>2. /\ dev.bytes = dl.bytes /\ cmds = <<>>
          /\ Chunks(dl, Pipe, dl.done, n) /\ EndOf(Pipe, dl.done, n) = Min2(dev.i, dl.bytes)
      BY <3>1 DEF Running, Asked
    <3>3. dev.i \in Nat /\ dl.bytes \in Nat
      BY <1>0, <2>1, TransferFields DEF DeviceOK
    <3>4. EndOf(Pipe, dl.done, n) = dl.bytes
      BY <2>1, <3>2, <3>3 DEF Min2
    <3>5. Chunks(dl, q, dl.done, n) /\ EndOf(q, dl.done, n) = dl.bytes
      <4>1. n \in 0 .. n
        BY <1>0
      <4> QED
        BY <1>0, <2>2, <3>2, <3>4, <4>1, ChunksOfAppend
    <3>6. q # <<>> /\ Len(q) = n + 1 /\ q[n + 1] = AckFrame
      BY <1>0, <2>2, AppendProperties
    <3>7. Len(q) - 1 = n
      BY <1>0, <3>6
    <3> HIDE DEF q, n
    <3>8. Answered'
      BY <2>1, <2>3, <3>2, <3>5, <3>6, <3>7 DEF Answered
    <3>9. Copied'
      BY <2>1, <3>1 DEF Copied
    <3> QED
      BY <1>a, <2>1, <2>3, <3>1, <3>8, <3>9 DEF CleanInv
  <2> QED
    BY <1>a, <2>1, <2>3, <2>4 DEF CleanInv
<1>13. CASE Finished \/ UNCHANGED vars
  <2>1. UNCHANGED <<bvars, dl, dest, result, cmds, dev, link, clean>>
    BY <1>13 DEF Finished, vars, dvars
  <2>2. Pipe' = Pipe
    BY <1>b, <2>1 DEF Pipe
  <2> QED
    BY <1>a, <2>1, <2>2, CleanKept
<1> QED
  BY <1>1, <1>2, <1>3, <1>4, <1>5, <1>6, <1>7, <1>8, <1>10, <1>11, <1>12, <1>13 DEF DownloadNext

(***************************************************************************)
(* GetFromDevice returns true on the first ACK, and that is enough: when   *)
(* nothing of an earlier command was under way at the call, no frame was   *)
(* lost and the ring did not overflow, every byte asked for has been       *)
(* copied to its place, for every frame size, ring size and request.       *)
(***************************************************************************)
THEOREM TrueIsComplete == DownloadSpec => []TrueMeansComplete
<1>1. DownloadInit => CleanInv /\ TrueMeansComplete
  BY DEF DownloadInit, CleanInv, TrueMeansComplete
<1>2. DownloadOK /\ CleanInv /\ TrueMeansComplete /\ [DownloadNext]_vars
        => CleanInv' /\ TrueMeansComplete'
  BY CleanStep
<1> QED
  BY <1>1, <1>2, DownloadStart, DownloadStep, PTL DEF DownloadSpec

-----------------------------------------------------------------------------
(* Why a clean download ends: what remains when fairness is taken away      *)

Underway == dl.pc = "loop" /\ clean

\* Some thread or the device has a step to take: dl_it a reply to look at,
\* the communication thread a frame to store, the device a command to start
\* or a handler to go on with.  A turn of dl_it on an empty ring is not one.
StepPossible ==
    \/ cmd_head # cmd_tail
    \/ link # <<>>
    \/ dev = Idle /\ cmds # <<>>
    \/ dev # Idle

\* Never do client and device wait for each other in a clean download.
DownloadNotStuck == Underway => StepPossible

\* Steps of the device that are left; three for each byte bound those of the
\* frame that carries it: sent, stored, looked at.
Ahead ==
    IF cmds # <<>> THEN 3 * dl.bytes + 5
    ELSE IF dev # Idle THEN 3 * (dl.bytes - Min2(dev.i, dl.bytes)) + 4 ELSE 0

ToDo == Ahead + 2 * Len(link) + Len(Backlog)

\* Every step during a clean download brings its end nearer, but for turns
\* of dl_it on an empty ring.
DownloadAdvances ==
    [][Underway /\ Underway' => dl_poll \/ (ToDo \in Nat /\ ToDo' \in Nat /\ ToDo' < ToDo)]_vars

\* A clean download is given up only by its timeout.
CleanSucceeds ==
    [][Underway /\ dl'.pc = "idle" => dl_timeout \/ result']_vars

LEMMA CleanAlways ==
    DownloadSpec => [](DownloadOK /\ CleanInv)
<1>1. DownloadInit => CleanInv /\ TrueMeansComplete
  BY DEF DownloadInit, CleanInv, TrueMeansComplete
<1>2. DownloadOK /\ CleanInv /\ TrueMeansComplete /\ [DownloadNext]_vars
        => CleanInv' /\ TrueMeansComplete'
  BY CleanStep
<1> QED
  BY <1>1, <1>2, DownloadStart, DownloadStep, PTL DEF DownloadSpec

(***************************************************************************)
(* While a download is under way from which nothing was lost, there always *)
(* is a step to take: no state is reached in which dl_it, which may wait   *)
(* without timeout, finds an empty ring for ever because the device sends  *)
(* nothing more.                                                           *)
(***************************************************************************)
THEOREM CleanDownloadNotStuck == DownloadSpec => []DownloadNotStuck
<1>1. DownloadOK /\ CleanInv => DownloadNotStuck
  <2> SUFFICES ASSUME DownloadOK, CleanInv, Underway PROVE StepPossible
    BY DEF DownloadNotStuck
  <2>1. CASE OnItsWay
    BY <2>1 DEF OnItsWay, StepPossible
  <2>2. CASE Running
    BY <2>2 DEF Running, StepPossible
  <2>3. CASE Answered
    <3>1. Backlog \in Seq(Frames) /\ link \in Seq(Frames) /\ Backlog \o link # <<>>
      BY <2>3, PipeIsSeq DEF Answered, Pipe
    <3>2. Backlog # <<>> \/ link # <<>>
      BY <3>1, PipeMoves
    <3>3. Backlog # <<>> => cmd_head # cmd_tail
      BY BacklogIsSeq DEF DownloadOK, RingOK
    <3> QED
      BY <3>2, <3>3 DEF StepPossible
  <2> QED
    BY <2>1, <2>2, <2>3 DEF CleanInv, Underway
<1> QED
  BY <1>1, CleanAlways, PTL

\* The measure in each of the three stages of a clean download.
LEMMA AheadIs ==
    ASSUME DownloadOK, CleanInv, Underway
    PROVE  /\ Ahead \in Nat /\ dl.bytes \in Nat
           /\ cmds # <<>> => dev = Idle /\ Len(cmds) = 1 /\ cmds \in Seq(Requests)
                             /\ Asked(cmds[1]) /\ Ahead = 3 * dl.bytes + 5
           /\ dev # Idle => /\ cmds = <<>> /\ dev.bytes = dl.bytes /\ dev.i \in Nat
                            /\ dev \in [type : MemTypes, start : Starts, bytes : Sizes, i : Nat]
                            /\ Ahead = 3 * (dl.bytes - Min2(dev.i, dl.bytes)) + 4
<1>1. dl.bytes \in Nat /\ DeviceOK
  BY TransferFields DEF DownloadOK, DownloadTypeOK, ClientOK
<1>2. dev # Idle => /\ dev \in [type : MemTypes, start : Starts, bytes : Sizes, i : Nat]
                    /\ dev.i \in Nat
  BY <1>1 DEF DeviceOK
<1>3. CASE OnItsWay
  BY <1>1, <1>3 DEF OnItsWay, Ahead, DeviceOK
<1>4. CASE Running
  BY <1>1, <1>2, <1>4 DEF Running, Asked, Ahead, Min2
<1>5. CASE Answered
  BY <1>1, <1>5 DEF Answered, Ahead
<1> QED
  BY <1>3, <1>4, <1>5 DEF CleanInv, Underway

\* Sending a frame: one more on the link.
LEMMA SendGrowsLink ==
    ASSUME DownloadOK, NEW f, Send(f), clean'
    PROVE  Len(link') = Len(link) + 1 /\ Len(link) \in Nat
<1>1. link' = Append(link, f) /\ link \in Seq(Frames \cup {f})
  BY PipeIsSeq DEF Send
<1> QED
  BY <1>1, AppendProperties, LenProperties

LEMMA ToDoFalls ==
    ASSUME DownloadOK, CleanInv, Underway, Underway', DownloadNext, ~dl_poll
    PROVE  ToDo \in Nat /\ ToDo' \in Nat /\ ToDo' < ToDo
<1> DEFINE a == Ahead
           b == Len(Backlog)
           l == Len(link)
           Falls == ToDo \in Nat /\ ToDo' \in Nat /\ ToDo' < ToDo
<1>1. /\ a \in Nat /\ b \in Nat /\ l \in Nat /\ dl.bytes \in Nat /\ TransferOK
      /\ Backlog \in Seq(Frames) /\ link \in Seq(Frames)
  BY AheadIs, PipeIsSeq, LenProperties DEF DownloadOK, DownloadTypeOK, ClientOK
<1>2. ASSUME NEW x \in Nat, NEW y \in Nat, NEW z \in Nat, a' = x, l' = y, b' = z,
             x + 2 * y + z < a + 2 * l + b
      PROVE  Falls
  <2>1. ToDo = a + 2 * l + b /\ ToDo' = x + 2 * y + z
    BY <1>2 DEF ToDo
  <2> HIDE DEF a, b, l
  <2> QED
    BY <1>1, <1>2, <2>1
<1>b. ASSUME UNCHANGED bvars PROVE b' = b
  BY <1>b, SameRingSameBacklog
<1>3. CASE dl_it
  <2>1. getReply /\ cmd_head # cmd_tail /\ UNCHANGED <<cmds, dev, link>>
    BY <1>3 DEF dl_it
  <2>2. dl'.bytes = dl.bytes
    BY <1>1, <1>3 DEF dl_it, Return, CopyFrame, TransferOK
  <2>3. a' = a /\ l' = l
    BY <2>1, <2>2 DEF Ahead
  <2>4. Backlog # <<>> /\ Backlog' = Tail(Backlog)
    BY <2>1, GetTakesHead DEF DownloadOK, RingOK
  <2>5. b' = b - 1 /\ b # 0
    BY <1>1, <2>4, HeadTailProperties, EmptySeq
  <2>6. b - 1 \in Nat /\ a + 2 * l + (b - 1) < a + 2 * l + b
    <3> HIDE DEF a, b, l
    <3> QED
      BY <1>1, <2>5
  <2> QED
    BY <1>1, <1>2, <2>3, <2>5, <2>6
<1>4. CASE Deliver
  <2>1. UNCHANGED <<dl, cmds, dev>> /\ link # <<>> /\ link' = Tail(link)
    BY <1>4 DEF Deliver
  <2>2. a' = a
    BY <2>1 DEF Ahead
  <2>3. l' = l - 1 /\ l # 0
    BY <1>1, <2>1, HeadTailProperties, EmptySeq
  <2>4. Backlog' = Append(Backlog, Head(link)) /\ Head(link) \in Frames
    BY <1>1, <1>4, <2>1, DeliverStores, HeadTailProperties DEF Underway
  <2>5. b' = b + 1
    BY <1>1, <2>4, AppendProperties
  <2>6. l - 1 \in Nat /\ b + 1 \in Nat /\ a + 2 * (l - 1) + (b + 1) < a + 2 * l + b
    <3> HIDE DEF a, b, l
    <3> QED
      BY <1>1, <2>3
  <2> QED
    BY <1>1, <1>2, <2>2, <2>3, <2>5, <2>6
<1>5. CASE DevStart
  <2>1. /\ cmds # <<>> /\ cmds' = Tail(cmds) /\ UNCHANGED <<bvars, dl, link>>
        /\ dev' = [type |-> Head(cmds).type, start |-> Head(cmds).start,
                   bytes |-> Head(cmds).bytes, i |-> 0]
    BY <1>5 DEF DevStart
  <2>2. /\ Len(cmds) = 1 /\ cmds \in Seq(Requests) /\ a = 3 * dl.bytes + 5
    BY <2>1, AheadIs
  <2>3. cmds' = <<>> /\ Head(cmds) \in Requests
    <3>1. Len(Tail(cmds)) = 0 /\ Tail(cmds) \in Seq(Requests) /\ Head(cmds) \in Requests
      BY <2>1, <2>2, HeadTailProperties
    <3> QED
      BY <2>1, <3>1, EmptySeq
  <2>4. dev' # Idle /\ dev'.i = 0
    <3>1. dev'.type \in MemTypes
      BY <2>1, <2>3, RequestFields
    <3> QED
      BY <2>1, <3>1, DownloadAssumption DEF Idle
  <2>5. a' = 3 * dl.bytes + 4
    <3>1. a' = 3 * (dl.bytes - Min2(0, dl.bytes)) + 4
      BY <2>1, <2>3, <2>4 DEF Ahead
    <3>2. Min2(0, dl.bytes) = 0
      BY <1>1 DEF Min2
    <3> QED
      BY <1>1, <3>1, <3>2
  <2>6. b' = b /\ l' = l
    BY <1>b, <2>1
  <2>7. 3 * dl.bytes + 4 \in Nat /\ 3 * dl.bytes + 4 + 2 * l + b < a + 2 * l + b
    <3>1. \A n, u, v, w \in Nat : u = 3 * n + 5 =>
            3 * n + 4 \in Nat /\ 3 * n + 4 + 2 * v + w < u + 2 * v + w
      OBVIOUS
    <3>2. a \in Nat /\ b \in Nat /\ l \in Nat /\ dl.bytes \in Nat /\ a = 3 * dl.bytes + 5
      BY <1>1, <2>2
    <3> HIDE DEF a, b, l
    <3> QED
      BY <3>1, <3>2
  <2> QED
    BY <1>1, <1>2, <2>5, <2>6, <2>7
<1>6. CASE DevChunk
  <2> DEFINE f == DataFrame(dev.type, dev.i, Min2(dev.bytes - dev.i, PM3_CMD_DATA_SIZE), From(dev))
             D == PM3_CMD_DATA_SIZE
             x == 3 * (dl.bytes - Min2(dev.i + D, dl.bytes)) + 4
  <2>1. /\ dev # Idle /\ dev.i < dev.bytes /\ Send(f) /\ dev' = [dev EXCEPT !.i = dev.i + D]
        /\ UNCHANGED <<bvars, dl, cmds>>
    BY <1>6 DEF DevChunk
  <2>2. /\ cmds = <<>> /\ dev.bytes = dl.bytes /\ dev.i \in Nat
        /\ dev \in [type : MemTypes, start : Starts, bytes : Sizes, i : Nat]
        /\ a = 3 * (dl.bytes - Min2(dev.i, dl.bytes)) + 4
    BY <2>1, AheadIs
  <2>3. l' = l + 1
    BY <2>1, SendGrowsLink DEF Underway
  <2>4. b' = b
    BY <1>b, <2>1
  <2>5. dev' # Idle /\ dev'.i = dev.i + D
    <3>1. dev'.type \in MemTypes /\ dev'.i = dev.i + D
      BY <2>1, <2>2
    <3> QED
      BY <3>1, DownloadAssumption DEF Idle
  <2>6. a' = x
    BY <2>1, <2>2, <2>5 DEF Ahead
  <2>7. x \in Nat /\ x + 3 <= a
    <3>1. D \in Nat \ {0}
      BY DownloadAssumption
    <3>2. \A n, i, d, u \in Nat : d # 0 /\ i < n /\ u = 3 * (n - Min2(i, n)) + 4 =>
            /\ 3 * (n - Min2(i + d, n)) + 4 \in Nat
            /\ 3 * (n - Min2(i + d, n)) + 4 + 3 <= u
      BY DEF Min2
    <3>3. /\ a \in Nat /\ dl.bytes \in Nat /\ dev.i \in Nat /\ dev.i < dl.bytes
          /\ a = 3 * (dl.bytes - Min2(dev.i, dl.bytes)) + 4
      BY <1>1, <2>1, <2>2
    <3> HIDE DEF a, D
    <3> QED
      BY <3>1, <3>2, <3>3
  <2>8. x + 2 * (l + 1) + b < a + 2 * l + b /\ l + 1 \in Nat
    <3> HIDE DEF a, b, l, x
    <3> QED
      BY <1>1, <2>7
  <2> HIDE DEF x
  <2> QED
    BY <1>1, <1>2, <2>3, <2>4, <2>6, <2>7, <2>8
<1>7. CASE DevAck
  <2>1. dev # Idle /\ Send(AckFrame) /\ dev' = Idle /\ UNCHANGED <<bvars, dl, cmds>>
    BY <1>7 DEF DevAck
  <2>2. /\ cmds = <<>> /\ dev.i \in Nat
        /\ a = 3 * (dl.bytes - Min2(dev.i, dl.bytes)) + 4
    BY <2>1, AheadIs
  <2>3. l' = l + 1
    BY <2>1, SendGrowsLink DEF Underway
  <2>4. b' = b
    BY <1>b, <2>1
  <2>5. a' = 0
    BY <2>1, <2>2 DEF Ahead
  <2>6. a >= 4
    <3> HIDE DEF a
    <3> QED
      BY <1>1, <2>2 DEF Min2
  <2>7. 0 + 2 * (l + 1) + b < a + 2 * l + b /\ l + 1 \in Nat /\ 0 \in Nat
    <3> HIDE DEF a, b, l
    <3> QED
      BY <1>1, <2>6
  <2> QED
    BY <1>1, <1>2, <2>3, <2>4, <2>5, <2>7
<1>8. ~dl_timeout
  <2>1. ASSUME dl_timeout PROVE dl'.pc = "idle"
    BY <1>1, <2>1 DEF dl_timeout, Return, TransferOK
  <2> QED
    BY <2>1 DEF Underway
<1>9. ~DevFlashBusy /\ ~Finished /\ \A r \in Requests : ~GetFromDevice(r) /\ ~GetNothing(r)
  BY DEF Underway, DevFlashBusy, Finished, GetFromDevice, GetNothing
<1> QED
  BY <1>3, <1>4, <1>5, <1>6, <1>7, <1>8, <1>9 DEF DownloadNext

(***************************************************************************)
(* Every step of a clean download but a turn on an empty ring brings its   *)
(* end nearer: the frames still to send, to store and to look at become    *)
(* fewer.  A download under way hence takes boundedly many such steps, and *)
(* by CleanDownloadNotStuck one is always possible; that the threads and   *)
(* the device do take it is the fairness that DownloadEnds adds.           *)
(***************************************************************************)
THEOREM CleanDownloadAdvances == DownloadSpec => DownloadAdvances
<1> DEFINE A == Underway /\ Underway' => dl_poll \/ (ToDo \in Nat /\ ToDo' \in Nat /\ ToDo' < ToDo)
<1>1. DownloadOK /\ CleanInv /\ [DownloadNext]_vars => [A]_vars
  BY ToDoFalls
<1>2. DownloadSpec => [][A]_vars
  BY <1>1, CleanAlways, PTL DEF DownloadSpec
<1> QED
  BY <1>2 DEF DownloadAdvances

(***************************************************************************)
(* A clean download succeeds unless its timeout expires: none of its       *)
(* frames fails the bounds check of dl_it, and the ACK comes last.         *)
(***************************************************************************)
THEOREM CleanDownloadSucceeds == DownloadSpec => CleanSucceeds
<1> DEFINE A == Underway /\ dl'.pc = "idle" => dl_timeout \/ result'
<1>1. DownloadOK /\ CleanInv /\ [DownloadNext]_vars => [A]_vars
  <2> SUFFICES ASSUME DownloadOK, CleanInv, DownloadNext, Underway, dl'.pc = "idle"
               PROVE  dl_timeout \/ result'
    OBVIOUS
  <2>1. CASE dl_it
    BY <2>1, TurnIsClean DEF Underway
  <2>2. dl.pc = "loop"
    BY DEF Underway
  <2>3. CASE dl_poll \/ Deliver \/ DevStart \/ DevFlashBusy \/ DevChunk \/ DevAck
    BY <2>2, <2>3 DEF dl_poll, dvars, Deliver, DevStart, DevFlashBusy, DevChunk, DevAck
  <2>4. ~Finished /\ \A r \in Requests : ~GetFromDevice(r) /\ ~GetNothing(r)
    BY <2>2 DEF Finished, GetFromDevice, GetNothing
  <2> QED
    BY <2>1, <2>3, <2>4 DEF DownloadNext
<1>2. DownloadSpec => [][A]_vars
  BY <1>1, CleanAlways, PTL DEF DownloadSpec
<1> QED
  BY <1>2 DEF CleanSucceeds
=============================================================================
