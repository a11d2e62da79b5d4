------------------------------ MODULE Download ------------------------------
(***************************************************************************)
(* Memory downloads, end to end: GetFromDevice and dl_it of the client     *)
(* (client/src/comms.c), the reply ring between its two threads, the link, *)
(* and the download handlers of the device (armsrc/appmain.c).  A command  *)
(* carries no number that its answers repeat, so an answer to an earlier,  *)
(* given up download can be taken for one to the present download.         *)
(* Byte a of memory t is the pair <<t, a>>; replies are records of Frames. *)
(***************************************************************************)
EXTENDS ReplyBuffer

CONSTANTS
    PM3_CMD_DATA_SIZE,  \* bytes of data in one frame
    MemTypes,           \* the memories downloaded in this instance
    Starts,             \* start indices asked for
    Sizes, MaxSize,     \* numbers of bytes asked for, and the largest of them
    MaxDownloads,       \* bound: downloads started
    MaxLost             \* bound: frames that do not reach the client

ASSUME DownloadAssumption ==
    /\ PM3_CMD_DATA_SIZE \in Nat \ {0}
    /\ MemTypes \subseteq
         {"BIG_BUF", "BIG_BUF_EML", "SPIFFS", "FLASH_MEM"}
    /\ Starts \subseteq Nat /\ MaxSize \in Nat /\ Sizes \subseteq 0 .. MaxSize
    /\ MaxDownloads \in Nat /\ MaxLost \in Nat

VARIABLES
    dl,         \* GetFromDevice: where it is, what was asked, what is copied
    dest,       \* the caller's buffer and the memory behind it
    result,     \* what the last GetFromDevice returned
    cmds,       \* download commands on their way to the device
    dev,        \* the handler running on the device, or Idle
    link,       \* frames on their way to the client
    started, lost,
    clean       \* history: nothing foreign, lost or refused in this download

dvars == <<dl, dest, result, cmds, dev, link, started, lost, clean>>
vars == <<bvars, dvars>>

Requests == [type : MemTypes, start : Starts, bytes : Sizes]
Idle == [type |-> "none", start |-> 0, bytes |-> 0, i |-> 0]
Unset == <<"unset", 0>>

\* The largest offset that a frame can carry, and one chunk behind it.
Reach == 0 .. MaxSize + PM3_CMD_DATA_SIZE - 1

Min2(a, b) == IF a <= b THEN a ELSE b

DataFrame(t, off, len, from) ==
    [cmd |-> t, off |-> off, len |-> len, from |-> from]
AckFrame == [cmd |-> "ACK", off |-> 0, len |-> 0, from |-> 0]

Frames == {AckFrame} \cup
          {DataFrame(t, off, len, from) :
              t \in MemTypes, off \in Reach,
              len \in 1 .. PM3_CMD_DATA_SIZE, from \in Starts \cup {0}}

\* What the ring holds are frames of the link.
ASSUME FramesAssumption == Reply = Frames

\* The callers that pass a timeout of -1 wait without end.
Patient == {"SPIFFS", "FLASH_MEM"}

\* The handler for SPIFFS files sends from the beginning, whatever start is.
From(r) == IF r.type = "SPIFFS" THEN 0 ELSE r.start

TransferOK ==
    /\ dl \in [pc : {"idle", "loop"}, type : MemTypes \cup {"none"},
               start : Starts \cup {0}, bytes : Sizes \cup {0}, done : Nat]
    /\ dl.done <= dl.bytes

ClientOK ==
    /\ TransferOK
    /\ dest \in [Reach -> {Unset} \cup (MemTypes \X Nat)]
    /\ result \in BOOLEAN /\ clean \in BOOLEAN

DeviceOK ==
    /\ cmds \in Seq(Requests) /\ link \in Seq(Frames)
    /\ dev = Idle \/ dev \in [type : MemTypes, start : Starts,
                              bytes : Sizes, i : Nat]
    /\ started \in 0 .. MaxDownloads /\ lost \in 0 .. MaxLost

DownloadTypeOK == ClientOK /\ DeviceOK

DownloadInit ==
    /\ Init
    /\ dl = [pc |-> "idle", type |-> "none", start |-> 0, bytes |-> 0,
             done |-> 0]
    /\ dest = [k \in Reach |-> Unset]
    /\ result = FALSE /\ clean = FALSE
    /\ cmds = <<>> /\ dev = Idle /\ link = <<>>
    /\ started = 0 /\ lost = 0

-----------------------------------------------------------------------------
(***************************************************************************)
(* The client's console thread.                                            *)
(***************************************************************************)

BuggyForget == UNCHANGED bvars

\* GetFromDevice first drops the replies nobody has read.
Forget == clearCommandBuffer

\* GetFromDevice with a destination and bytes > 0: the command goes out and
\* dl_it begins.  The new buffer holds nothing yet.
GetFromDevice(r) ==
    /\ dl.pc = "idle" /\ started < MaxDownloads
    /\ r.bytes > 0
    /\ Forget
    /\ cmds' = Append(cmds, r)
    /\ dl' = [pc |-> "loop", type |-> r.type, start |-> r.start,
              bytes |-> r.bytes, done |-> 0]
    /\ dest' = [k \in Reach |-> Unset]
    /\ result' = FALSE
    /\ started' = started + 1
    /\ clean' = (cmds = <<>> /\ dev = Idle /\ link = <<>>)
    /\ UNCHANGED <<dev, link, lost>>

\* bytes = 0: true, nothing sent.
GetNothing(r) ==
    /\ dl.pc = "idle" /\ started < MaxDownloads
    /\ r.bytes = 0
    /\ result' = TRUE
    /\ dl' = [pc |-> "idle", type |-> r.type, start |-> r.start, bytes |-> 0,
              done |-> 0]
    /\ started' = started + 1
    /\ UNCHANGED <<bvars, dest, cmds, dev, link, lost, clean>>

Return(ok) == dl' = [dl EXCEPT !.pc = "idle"] /\ result' = ok

BuggyCopyLen(f) == Min2(f.len, PM3_CMD_DATA_SIZE)

CopyLen(f) == Min2(Min2(dl.bytes - dl.done, f.len), PM3_CMD_DATA_SIZE)

BuggyFits(f) == f.off <= dl.bytes

\* "extended bounds check2"
Fits(f) == f.off + CopyLen(f) <= dl.bytes

CopyFrame(f) ==
    /\ dest' = [k \in Reach |->
                  IF k \in f.off .. f.off + CopyLen(f) - 1
                  THEN <<f.cmd, f.from + k>> ELSE dest[k]]
    /\ dl' = [dl EXCEPT !.done = @ + CopyLen(f)]
    /\ UNCHANGED result

(***************************************************************************)
(* One turn of dl_it's loop that finds a reply: an ACK of anything ends    *)
(* the download, a frame of the right kind is copied, others are skipped.  *)
(***************************************************************************)
dl_it ==
    /\ dl.pc = "loop" /\ cmd_head # cmd_tail
    /\ getReply
    /\ LET f == rxBuffer[cmd_tail] IN
         \/ f.cmd = "ACK" /\ Return(TRUE) /\ UNCHANGED dest
         \/ f.cmd = dl.type /\ Fits(f) /\ CopyFrame(f)
         \/ f.cmd = dl.type /\ ~Fits(f) /\ Return(FALSE) /\ UNCHANGED dest
         \/ f.cmd \notin {"ACK", dl.type} /\ UNCHANGED <<dl, dest, result>>
    /\ UNCHANGED <<cmds, dev, link, started, lost, clean>>

\* A turn that finds the ring empty.
dl_poll ==
    /\ dl.pc = "loop" /\ cmd_head = cmd_tail
    /\ getReply
    /\ UNCHANGED dvars

\* No packet for ms_timeout: any time, as far as the two threads can tell.
dl_timeout ==
    /\ dl.pc = "loop" /\ dl.type \notin Patient
    /\ Return(FALSE)
    /\ UNCHANGED <<bvars, dest, cmds, dev, link, started, lost, clean>>

-----------------------------------------------------------------------------
(***************************************************************************)
(* The client's communication thread hands a frame to the ring.  Storing   *)
(* one frame too many wipes the backlog, unnoticed by the downloader.      *)
(***************************************************************************)
Deliver ==
    /\ link # <<>>
    /\ storeReply(Head(link))
    /\ link' = Tail(link)
    /\ clean' = (clean /\ Advance(cmd_head) # cmd_tail)
    /\ UNCHANGED <<dl, dest, result, cmds, dev, started, lost>>

-----------------------------------------------------------------------------
(***************************************************************************)
(* The device: one command at a time, in the order sent.                   *)
(***************************************************************************)
DevStart ==
    /\ dev = Idle /\ cmds # <<>>
    /\ LET r == Head(cmds) IN
         dev' = [type |-> r.type, start |-> r.start, bytes |-> r.bytes,
                 i |-> 0]
    /\ cmds' = Tail(cmds)
    /\ UNCHANGED <<bvars, dl, dest, result, link, started, lost, clean>>

\* CMD_FLASHMEM_DOWNLOAD when FlashInit fails: back to the main loop with
\* neither data nor ACK.
DevFlashBusy ==
    /\ dev.type = "FLASH_MEM" /\ dev.i = 0
    /\ dev' = Idle
    /\ clean' = FALSE
    /\ UNCHANGED <<bvars, dl, dest, result, cmds, link, started, lost>>

\* A frame that reply_old or the link drops: the handler only prints a line.
Send(f) ==
    \/ link' = Append(link, f) /\ UNCHANGED <<lost, clean>>
    \/ /\ lost < MaxLost
       /\ lost' = lost + 1 /\ clean' = FALSE
       /\ UNCHANGED link

DevChunk ==
    /\ dev # Idle /\ dev.i < dev.bytes
    /\ Send(DataFrame(dev.type, dev.i,
                      Min2(dev.bytes - dev.i, PM3_CMD_DATA_SIZE), From(dev)))
    /\ dev' = [dev EXCEPT !.i = @ + PM3_CMD_DATA_SIZE]
    /\ UNCHANGED <<bvars, dl, dest, result, cmds, started>>

BuggyAck ==
    /\ dev # Idle /\ dev.i >= dev.bytes
    /\ dev.bytes % PM3_CMD_DATA_SIZE # 0
    /\ Send(AckFrame)
    /\ dev' = Idle
    /\ UNCHANGED <<bvars, dl, dest, result, cmds, started>>

\* "Trigger a finish downloading signal with an ACK frame"
DevAck ==
    /\ dev # Idle /\ dev.i >= dev.bytes
    /\ Send(AckFrame)
    /\ dev' = Idle
    /\ UNCHANGED <<bvars, dl, dest, result, cmds, started>>

-----------------------------------------------------------------------------
Finished == dl.pc = "idle" /\ started = MaxDownloads /\ UNCHANGED vars

DownloadNext ==
    \/ \E r \in Requests : GetFromDevice(r) \/ GetNothing(r)
    \/ dl_it \/ dl_poll \/ dl_timeout \/ Deliver
    \/ DevStart \/ DevFlashBusy \/ DevChunk \/ DevAck
    \/ Finished

(***************************************************************************)
(* Both client threads and the device's main loop keep running.  Neither a *)
(* loss, a refusal nor a timeout is promised.                              *)
(***************************************************************************)
Fairness ==
    /\ WF_vars(dl_it) /\ WF_vars(Deliver)
    /\ WF_vars(DevStart) /\ WF_vars(DevChunk) /\ WF_vars(DevAck)

DownloadSpec == DownloadInit /\ [][DownloadNext]_vars /\ Fairness

-----------------------------------------------------------------------------
(***************************************************************************)
(* GetFromDevice returns true on the first CMD_ACK, whatever was copied.   *)
(* When nothing of an earlier command was under way at the call, no frame  *)
(* was lost and the ring did not overflow, true still means that every     *)
(* byte asked for is in the buffer, at its place.                          *)
(***************************************************************************)
TrueMeansComplete ==
    dl.pc = "idle" /\ result /\ clean =>
        \A k \in 0 .. dl.bytes - 1 :
            dest[k] = <<dl.type, From(dl) + k>>

(***************************************************************************)
(* dl_it never writes behind the caller's buffer, not even when frames of  *)
(* an earlier and longer download of the same memory arrive late.          *)
(***************************************************************************)
NoWriteBehindDest ==
    dl.bytes > 0 => \A k \in Reach : k >= dl.bytes => dest[k] = Unset

(***************************************************************************)
(* Every download ends: also those that wait without timeout, once both    *)
(* threads and the device go on, unless one of its frames was lost, the    *)
(* ring overflowed or the device gave up silently.                         *)
(***************************************************************************)
DownloadEnds ==
    (dl.pc = "loop" /\ clean) ~> (dl.pc = "idle" \/ ~clean)
=============================================================================
