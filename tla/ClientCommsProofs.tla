-------------------------- MODULE ClientCommsProofs -------------------------
(***************************************************************************)
(* Proofs about the two threads of the client, for every set of commands   *)
(* and payload lengths, every size of the reply ring and all bounds.       *)
(***************************************************************************)
EXTENDS ClientComms, SequenceTheorems, TLAPS

(***************************************************************************)
(* What a step leaves unchanged keeps its type.                            *)
(***************************************************************************)
LEMMA UnchangedKeepsType ==
    ASSUME TypeOK
    PROVE  /\ UNCHANGED main => MainOK'
           /\ UNCHANGED comm => CommOK'
           /\ UNCHANGED conn => ConnOK'
           /\ UNCHANGED shared => SharedOK'
           /\ UNCHANGED tx => TxOK'
           /\ UNCHANGED rxq => RxOK'
           /\ UNCHANGED device => DeviceOK'
           /\ UNCHANGED history => HistoryOK'
<1>1. UNCHANGED main => MainOK'
  BY DEF TypeOK, MainOK, main
<1>2. UNCHANGED comm => CommOK'
  BY DEF TypeOK, CommOK, comm
<1>3. UNCHANGED conn => ConnOK'
  BY DEF TypeOK, ConnOK, conn
<1>4. UNCHANGED shared => SharedOK'
  BY DEF TypeOK, SharedOK, shared
<1>5. UNCHANGED tx => TxOK'
  BY DEF TypeOK, TxOK, tx
<1>6. UNCHANGED rxq => RxOK'
  BY DEF TypeOK, RxOK, rxq
<1>7. UNCHANGED device => DeviceOK'
  BY DEF TypeOK, DeviceOK, device
<1>8. UNCHANGED history => HistoryOK'
  BY DEF TypeOK, HistoryOK, history
<1> QED
  BY <1>1, <1>2, <1>3, <1>4, <1>5, <1>6, <1>7, <1>8

(***************************************************************************)
(* The operations of the reply queue keep its type.                        *)
(***************************************************************************)
LEMMA QueueKeepsType ==
    ASSUME RxOK
    PROVE  /\ Replies!Get => RxOK'
           /\ Replies!Clear => RxOK'
           /\ \A p \in Reply : Replies!Store(p) => RxOK'
<1>1. Replies!Get => RxOK'
  BY HeadTailProperties DEF RxOK, Replies!Get
<1>2. Replies!Clear => RxOK'
  BY DEF RxOK, Replies!Clear
<1>3. ASSUME NEW p \in Reply, Replies!Store(p) PROVE RxOK'
  <2>1. Append(queue, p) \in Seq(Reply) /\ <<>> \in Seq(Reply)
    BY AppendProperties DEF RxOK
  <2> QED
    BY <1>3, <2>1 DEF RxOK, Replies!Store, Replies!Stored
<1> QED
  BY <1>1, <1>2, <1>3

(***************************************************************************)
(* Issuing a command: the console's state and the history keep their type. *)
(***************************************************************************)
LEMMA IssueKeepsType ==
    ASSUME TypeOK, NEW c \in Cmd, NEW ng \in BOOLEAN,
           NEW j \in {"command", "forever", "upload", "ping", "capabilities", "quit"},
           Issue(c, ng, j)
    PROVE  MainOK' /\ HistoryOK'
<1>1. nreq + 1 \in Nat /\ nreq' = nreq + 1 /\ UNCHANGED <<lastEnq, lastSent, timedOut>>
  BY DEF TypeOK, HistoryOK, Issue
<1>2. req' \in Request
  BY <1>1 DEF Request, Issue
<1> QED
  BY <1>1, <1>2 DEF TypeOK, MainOK, HistoryOK, Issue

(***************************************************************************)
(* pthread_cond_signal only wakes threads.                                 *)
(***************************************************************************)
LEMMA SignalOnlyWakes == ASSUME Signal PROVE asleep' \subseteq asleep
  BY DEF Signal

(***************************************************************************)
(* Each step of the console thread and of the user keeps the types.        *)
(***************************************************************************)
LEMMA ConsoleKeepsType == ASSUME TypeOK, Console \/ User PROVE TypeOK'
<1> USE UnchangedKeepsType, QueueKeepsType, IssueKeepsType
<1>0. RxOK
  BY DEF TypeOK
<1>1. ASSUME NEW c \in Commands, NEW j \in {"command", "forever"}, StartCommand(c, j)
      PROVE  TypeOK'
  BY <1>0, <1>1 DEF StartCommand, TypeOK, Cmd
<1>2. CASE StartUpload
  <2>1. ConnOK'
    BY <1>2 DEF StartUpload, TypeOK, ConnOK
  <2> QED
    BY <1>0, <1>2, <2>1 DEF StartUpload, TypeOK, Cmd
<1>3. CASE NextChunk
  BY <1>0, <1>3 DEF NextChunk, TypeOK, Cmd
<1>4. CASE EndUpload
  <2>1. ConnOK' /\ MainOK'
    BY <1>4 DEF EndUpload, TypeOK, ConnOK, MainOK
  <2> QED
    BY <1>4, <2>1 DEF EndUpload, TypeOK
<1>5. CASE SendWait
  <2>1. TxOK'
    BY <1>5 DEF SendWait, TypeOK, TxOK
  <2> QED
    BY <1>5, <2>1 DEF SendWait, TypeOK
<1>6. CASE SendCommand
  <2>1. TxOK'
    BY <1>6, SignalOnlyWakes DEF SendCommand, FillTxBuffer, TypeOK, TxOK, MainOK
  <2>2. MainOK'
    BY <1>6 DEF SendCommand, TypeOK, MainOK
  <2>3. HistoryOK'
    BY <1>6 DEF SendCommand, TypeOK, MainOK, HistoryOK, Request
  <2> QED
    BY <1>6, <2>1, <2>2, <2>3 DEF SendCommand, TypeOK
<1>7. CASE SkipReply
  BY <1>0, <1>7 DEF SkipReply, TypeOK
<1>8. CASE AcceptReply
  <2>1. MainOK' /\ HistoryOK'
    <3>1. CASE Issue("CAPABILITIES", TRUE, "capabilities")
      BY <3>1 DEF Cmd
    <3>2. CASE UNCHANGED <<req, history>> /\ mpc' \in {"upload", "close", "idle"}
               /\ job' \in {job, "drop", "none"}
      BY <3>2 DEF TypeOK, MainOK
    <3> QED
      BY <1>8, <3>1, <3>2 DEF AcceptReply
  <2> QED
    BY <1>0, <1>8, <2>1 DEF AcceptReply, TypeOK
<1>9. CASE NoReplyYet
  <2>1. MainOK'
    BY <1>9 DEF NoReplyYet, TypeOK, MainOK
  <2> QED
    BY <1>0, <1>9, <2>1 DEF NoReplyYet, TypeOK
<1>10. CASE KeepWaiting
  <2>1. MainOK'
    BY <1>10 DEF KeepWaiting, TypeOK, MainOK
  <2> QED
    BY <1>10, <2>1 DEF KeepWaiting, TypeOK
<1>11. CASE Timeout
  <2>1. MainOK'
    BY <1>11 DEF Timeout, TypeOK, MainOK
  <2>2. ConnOK'
    BY <1>11 DEF Timeout, TypeOK, ConnOK, conn
  <2>3. HistoryOK'
    BY <1>11 DEF Timeout, TypeOK, HistoryOK, MainOK, Request
  <2> QED
    BY <1>11, <2>1, <2>2, <2>3 DEF Timeout, TypeOK
<1>12. CASE check_comm
  <2>1. MainOK'
    BY <1>12 DEF check_comm, TypeOK, MainOK
  <2> QED
    BY <1>12, <2>1 DEF check_comm, TypeOK
<1>13. CASE CmdConnect
  <2>1. MainOK'
    BY <1>13 DEF CmdConnect, TypeOK, MainOK
  <2> QED
    BY <1>13, <2>1 DEF CmdConnect, TypeOK
<1>14. CASE Quit
  <2>1. CASE Replies!Clear /\ Issue("QUIT_SESSION", TRUE, "quit")
    BY <1>0, <1>14, <2>1 DEF Quit, TypeOK, Cmd
  <2>2. CASE mpc' = "done" /\ UNCHANGED <<job, req, rxq, history>>
    <3>1. MainOK'
      BY <2>2 DEF TypeOK, MainOK
    <3> QED
      BY <1>14, <2>2, <3>1 DEF Quit, TypeOK
  <2> QED
    BY <1>14, <2>1, <2>2 DEF Quit
<1>15. CASE CloseProxmark
  <2>1. MainOK' /\ ConnOK'
    BY <1>15 DEF CloseProxmark, TypeOK, MainOK, ConnOK
  <2> QED
    BY <1>15, <2>1 DEF CloseProxmark, TypeOK
<1>16. CASE JoinThread
  <2>1. MainOK'
    BY <1>16 DEF JoinThread, TypeOK, MainOK
  <2>2. CommOK'
    BY <1>16 DEF JoinThread, TypeOK, CommOK
  <2>3. SharedOK'
    <3>1. sp' = 0 /\ 0 \in 0 .. MaxPlugs
      BY <1>16, BoundsAssumption DEF JoinThread
    <3> QED
      BY <1>16, <3>1 DEF JoinThread, TypeOK, SharedOK
  <2>4. DeviceOK'
    BY <1>16 DEF JoinThread, TypeOK, DeviceOK
  <2> QED
    BY <1>16, <2>1, <2>2, <2>3, <2>4 DEF JoinThread, TypeOK
<1>17. CASE OpenProxmark
  <2>1. MainOK'
    BY <1>17 DEF OpenProxmark, TypeOK, MainOK
  <2>2. CommOK'
    BY <1>17 DEF OpenProxmark, TypeOK, CommOK, comm
  <2>3. ConnOK'
    BY <1>17 DEF OpenProxmark, TypeOK, ConnOK, conn
  <2>4. SharedOK' /\ DeviceOK'
    <3>0. /\ sp \in 0 .. MaxPlugs /\ link \in 0 .. MaxPlugs
          /\ fromDev \in Seq(Frame) /\ <<>> \in Seq(Frame)
      BY DEF TypeOK, SharedOK, DeviceOK
    <3>1. sp' \in 0 .. MaxPlugs
      <4>1. sp' = sp \/ sp' = link
        BY <1>17, Zenon DEF OpenProxmark
      <4> QED
        BY <3>0, <4>1
    <3>2. fromDev' \in Seq(Frame)
      <4>1. fromDev' = fromDev \/ fromDev' = <<>>
        BY <1>17, Zenon DEF OpenProxmark
      <4> QED
        BY <3>0, <4>1
    <3> QED
      BY <1>17, <3>1, <3>2 DEF OpenProxmark, TypeOK, SharedOK, DeviceOK
  <2> QED
    BY <1>17, <2>1, <2>2, <2>3, <2>4 DEF OpenProxmark, TypeOK
<1>18. CASE OpenedProxmark
  <2>1. SharedOK'
    BY <1>18 DEF OpenedProxmark, TypeOK, SharedOK
  <2> QED
    BY <1>0, <1>18, <2>1 DEF OpenedProxmark, TypeOK, Cmd
<1> QED
  BY <1>1, <1>2, <1>3, <1>4, <1>5, <1>6, <1>7, <1>8, <1>9, <1>10, <1>11, <1>12,
     <1>13, <1>14, <1>15, <1>16, <1>17, <1>18 DEF Console, User

(***************************************************************************)
(* Each step of the communication thread keeps the types.                  *)
(***************************************************************************)
LEMMA CommThreadKeepsType == ASSUME TypeOK, CommThread PROVE TypeOK'
<1> USE UnchangedKeepsType
<1>1. CASE LoopTop
  <2>1. CommOK'
    BY <1>1 DEF LoopTop, TypeOK, CommOK
  <2>2. SharedOK'
    BY <1>1 DEF LoopTop, TypeOK, SharedOK
  <2> QED
    BY <1>1, <2>1, <2>2 DEF LoopTop, TypeOK
<1>2. CASE ReceiveNothing
  <2>1. CommOK'
    BY <1>2 DEF ReceiveNothing, TypeOK, CommOK
  <2> QED
    BY <1>2, <2>1 DEF ReceiveNothing, TypeOK
<1>3. ASSUME fromDev # <<>>
      PROVE  /\ Head(fromDev) \in Frame /\ Tail(fromDev) \in Seq(Frame)
             /\ RxLength(Head(fromDev)) \in PayloadLengths
             /\ Acks(Head(fromDev)) \subseteq BOOLEAN
  <2>1. Head(fromDev) \in Frame /\ Tail(fromDev) \in Seq(Frame)
    BY <1>3, HeadTailProperties DEF TypeOK, DeviceOK
  <2>2. RxLength(Head(fromDev)) \in PayloadLengths
    BY <2>1 DEF RxLength, Frame, TypeOK, CommOK
  <2>3. Acks(Head(fromDev)) \subseteq BOOLEAN
    BY DEF Acks
  <2> QED
    BY <2>1, <2>2, <2>3
<1>4. CASE ReceiveFrame
  <2> DEFINE f == Head(fromDev)
             reply == [cmd |-> f.cmd, id |-> f.id, len |-> RxLength(f), sent |-> f.len]
  <2>1. reply \in Reply
    BY <1>3, <1>4 DEF ReceiveFrame, Frame, Reply
  <2>2. RxOK'
    <3>1. CASE Stores(f)
      BY <1>4, <2>1, <3>1, QueueKeepsType DEF ReceiveFrame, TypeOK
    <3>2. CASE ~Stores(f)
      BY <1>4, <3>2 DEF ReceiveFrame
    <3> QED
      BY <3>1, <3>2
  <2>3. CommOK'
    BY <1>3, <1>4 DEF ReceiveFrame, TypeOK, CommOK
  <2>4. DeviceOK'
    BY <1>3, <1>4 DEF ReceiveFrame, TypeOK, DeviceOK
  <2> QED
    BY <1>4, <2>2, <2>3, <2>4 DEF ReceiveFrame, TypeOK
<1>5. CASE ReceiveDamaged
  <2>1. CommOK'
    BY <1>3, <1>5 DEF ReceiveDamaged, TypeOK, CommOK
  <2>2. DeviceOK'
    BY <1>3, <1>5 DEF ReceiveDamaged, TypeOK, DeviceOK
  <2> QED
    BY <1>5, <2>1, <2>2 DEF ReceiveDamaged, TypeOK
<1>6. CASE AckWait
  <2>1. CommOK' /\ TxOK'
    BY <1>6 DEF AckWait, TypeOK, CommOK, TxOK
  <2> QED
    BY <1>6, <2>1 DEF AckWait, TypeOK
<1>7. CASE NothingToSend
  <2>1. CommOK'
    BY <1>7 DEF NothingToSend, TypeOK, CommOK
  <2> QED
    BY <1>7, <2>1 DEF NothingToSend, TypeOK
<1>8. CASE Transmit
  <2>1. Outgoing \in Request /\ Outgoing.cmd \in Cmd /\ Outgoing.id \in Nat
    BY DEF Outgoing, TypeOK, TxOK, Request
  <2>2. CommOK'
    BY <1>8 DEF Transmit, TypeOK, CommOK
  <2>3. ConnOK' /\ HistoryOK'
    BY <1>8, <2>1 DEF Transmit, TypeOK, ConnOK, HistoryOK
  <2>4. TxOK'
    BY <1>8, SignalOnlyWakes DEF Transmit, TypeOK, TxOK
  <2>5. DeviceOK'
    BY <1>8, <2>1, AppendProperties DEF Transmit, TypeOK, DeviceOK
  <2> QED
    BY <1>8, <2>2, <2>3, <2>4, <2>5 DEF Transmit, TypeOK
<1>9. CASE ThreadExit
  <2>1. CommOK'
    BY <1>9 DEF ThreadExit, TypeOK, CommOK
  <2>2. SharedOK'
    BY <1>9, BoundsAssumption DEF ThreadExit, TypeOK, SharedOK
  <2>3. DeviceOK'
    BY <1>9 DEF ThreadExit, TypeOK, DeviceOK
  <2> QED
    BY <1>9, <2>1, <2>2, <2>3 DEF ThreadExit, TypeOK
<1> QED
  BY <1>1, <1>2, <1>4, <1>5, <1>6, <1>7, <1>8, <1>9 DEF CommThread

(***************************************************************************)
(* The device, its cable and spurious wake-ups keep the types.             *)
(***************************************************************************)
LEMMA DeviceKeepsType == ASSUME TypeOK, Device PROVE TypeOK'
<1> USE UnchangedKeepsType
<1>1. CASE DeviceServes
  <2>1. Head(toDev) \in Request /\ Tail(toDev) \in Seq(Request)
    BY <1>1, HeadTailProperties DEF DeviceServes, TypeOK, DeviceOK
  <2>2. Answer(Head(toDev)) \subseteq Frame
    BY <2>1 DEF Answer, Frame, Request, ReplyCmd
  <2>3. fromDev' \in Seq(Frame)
    BY <1>1, <2>2, AppendProperties DEF DeviceServes, TypeOK, DeviceOK
  <2>4. DeviceOK'
    BY <1>1, <2>1, <2>3 DEF DeviceServes, TypeOK, DeviceOK
  <2> QED
    BY <1>1, <2>4 DEF DeviceServes, TypeOK
<1>2. CASE DeviceSpeaks
  <2>1. PICK c \in {"WTX", "DEBUG_PRINT"}, n \in PayloadLengths :
          fromDev' = Append(fromDev, [style |-> "NG", cmd |-> c, id |-> 0, len |-> n])
    BY <1>2 DEF DeviceSpeaks
  <2>2. [style |-> "NG", cmd |-> c, id |-> 0, len |-> n] \in Frame
    BY DEF Frame, ReplyCmd
  <2>3. DeviceOK'
    BY <1>2, <2>1, <2>2, AppendProperties DEF DeviceSpeaks, TypeOK, DeviceOK
  <2> QED
    BY <1>2, <2>3 DEF DeviceSpeaks, TypeOK
<1>3. CASE Unplug
  <2>1. link' \in 0 .. MaxPlugs
    BY <1>3, BoundsAssumption DEF Unplug
  <2>2. DeviceOK'
    BY <1>3, <2>1 DEF Unplug, TypeOK, DeviceOK
  <2> QED
    BY <1>3, <2>2 DEF Unplug, TypeOK
<1>4. CASE Plug
  <2>1. plugs + 1 \in 0 .. MaxPlugs
    BY <1>4, BoundsAssumption DEF Plug, TypeOK, DeviceOK
  <2>2. DeviceOK'
    BY <1>4, <2>1 DEF Plug, TypeOK, DeviceOK
  <2> QED
    BY <1>4, <2>2 DEF Plug, TypeOK
<1>5. CASE SpuriousWakeup
  <2>1. TxOK'
    BY <1>5 DEF SpuriousWakeup, TypeOK, TxOK
  <2> QED
    BY <1>5, <2>1 DEF SpuriousWakeup, TypeOK
<1> QED
  BY <1>1, <1>2, <1>3, <1>4, <1>5 DEF Device

(***************************************************************************)
(* Type correctness of the two threads, their shared state and the link.   *)
(***************************************************************************)
THEOREM TypeCorrect == Spec => []TypeOK
<1>1. Init => TypeOK
  <2> SUFFICES ASSUME Init PROVE TypeOK
    OBVIOUS
  <2>1. NoRequest \in Request
    BY DEF NoRequest, Request, Cmd
  <2>2. MainOK /\ TxOK
    BY <2>1 DEF Init, MainOK, TxOK
  <2>3. CommOK /\ ConnOK
    BY DEF Init, CommOK, ConnOK, Cmd
  <2>4. RxOK
    BY DEF Init, RxOK, Replies!QueueInit
  <2>5. 0 \in 0 .. MaxPlugs /\ 1 \in 0 .. MaxPlugs
    BY BoundsAssumption
  <2>6. SharedOK
    BY <2>5 DEF Init, SharedOK
  <2>7. DeviceOK
    BY <2>5 DEF Init, DeviceOK
  <2>8. HistoryOK
    BY DEF Init, HistoryOK
  <2> QED
    BY <2>2, <2>3, <2>4, <2>6, <2>7, <2>8 DEF TypeOK
<1>2. TypeOK /\ [Next]_vars => TypeOK'
  <2>1. ASSUME TypeOK, UNCHANGED vars PROVE TypeOK'
    BY <2>1, UnchangedKeepsType DEF vars, TypeOK
  <2> QED
    BY <2>1, ConsoleKeepsType, CommThreadKeepsType, DeviceKeepsType DEF Next
<1> QED
  BY <1>1, <1>2, PTL DEF Spec

-----------------------------------------------------------------------------
(***************************************************************************)
(* The invariant behind CommandsOnceInOrder.  A pending command is the     *)
(* last one handed over and not sent yet; txBufferNGLen is only set while  *)
(* an NG command is pending, so that Outgoing picks the right buffer; and  *)
(* the command the console is about to hand over is newer than all others. *)
(***************************************************************************)
OrderInv ==
    /\ WaitersAgree
    /\ txBuffer_pending => lastSent < lastEnq /\ Outgoing.id = lastEnq
    /\ ~txBuffer_pending => lastSent = lastEnq /\ ~txBufferNGLen
    /\ lastEnq <= nreq /\ req.id <= nreq
    /\ mpc = "send" => lastEnq < req.id

(***************************************************************************)
(* A step that touches neither the transmit buffers nor the request.       *)
(***************************************************************************)
LEMMA QuietKeepsOrder ==
    ASSUME TypeOK, OrderInv, UNCHANGED <<tx, req, nreq, lastEnq, lastSent>>,
           mpc' = "send" => mpc = "send"
    PROVE  OrderInv'
  BY DEF OrderInv, WaitersAgree, Outgoing, tx

(***************************************************************************)
(* A step by which the console decides on its next command.                *)
(***************************************************************************)
LEMMA IssueKeepsOrder ==
    ASSUME TypeOK, OrderInv, NEW c, NEW ng, NEW j, Issue(c, ng, j), UNCHANGED tx
    PROVE  OrderInv'
<1>1. /\ nreq' = nreq + 1 /\ req'.id = nreq + 1
      /\ lastEnq' = lastEnq /\ lastSent' = lastSent
  BY DEF Issue
<1>2. nreq \in Nat /\ lastEnq \in Nat /\ lastEnq <= nreq
  BY DEF TypeOK, HistoryOK, OrderInv
<1>3. lastEnq' <= nreq' /\ req'.id <= nreq' /\ lastEnq' < req'.id
  BY <1>1, <1>2
<1>4. UNCHANGED <<txBuffer, txBufferNG, txBufferNGLen, txBuffer_pending, asleep>>
  BY DEF tx
<1> QED
  BY <1>1, <1>3, <1>4 DEF OrderInv, WaitersAgree, Outgoing

(***************************************************************************)
(* The invariant is inductive.                                             *)
(***************************************************************************)
LEMMA OrderStep == ASSUME TypeOK, OrderInv, [Next]_vars PROVE OrderInv'
<1>1. ASSUME NEW c \in Commands, NEW j \in {"command", "forever"}, StartCommand(c, j)
      PROVE  OrderInv'
  BY <1>1, IssueKeepsOrder DEF StartCommand
<1>2. CASE StartUpload
  BY <1>2, IssueKeepsOrder DEF StartUpload
<1>3. CASE NextChunk
  BY <1>3, IssueKeepsOrder DEF NextChunk
<1>4. CASE OpenedProxmark
  BY <1>4, IssueKeepsOrder DEF OpenedProxmark
<1>5. CASE AcceptReply
  <2>1. CASE Issue("CAPABILITIES", TRUE, "capabilities")
    BY <1>5, <2>1, IssueKeepsOrder DEF AcceptReply
  <2>2. CASE UNCHANGED <<req, history>> /\ mpc' \in {"upload", "close", "idle"}
    BY <1>5, <2>2, QuietKeepsOrder DEF AcceptReply, history
  <2> QED
    BY <1>5, <2>1, <2>2 DEF AcceptReply
<1>6. CASE Quit
  <2>1. CASE Issue("QUIT_SESSION", TRUE, "quit")
    BY <1>6, <2>1, IssueKeepsOrder DEF Quit
  <2>2. CASE mpc' = "done" /\ UNCHANGED <<job, req, rxq, history>>
    BY <1>6, <2>2, QuietKeepsOrder DEF Quit, history
  <2> QED
    BY <1>6, <2>1, <2>2 DEF Quit
<1>7. CASE SendWait
  BY <1>7 DEF SendWait, OrderInv, WaitersAgree, Outgoing, main, history
<1>8. CASE SendCommand
  <2>1. asleep \subseteq {"comm"} /\ asleep' = {}
    BY <1>8 DEF SendCommand, Signal, TypeOK, TxOK
  <2>2. req \in Request /\ req.id \in Nat /\ req.ng \in BOOLEAN
    BY DEF TypeOK, MainOK, Request
  <2>3. ~txBufferNGLen /\ lastSent = lastEnq /\ lastEnq < req.id /\ req.id <= nreq
    BY <1>8 DEF SendCommand, OrderInv
  <2>4. Outgoing' = req
    BY <1>8, <2>3 DEF SendCommand, FillTxBuffer, Outgoing
  <2>5. /\ lastEnq' = req.id /\ lastSent' = lastSent /\ nreq' = nreq /\ req' = req
        /\ txBuffer_pending' = TRUE /\ mpc' # "send"
    BY <1>8 DEF SendCommand
  <2>6. Outgoing'.id = lastEnq' /\ lastSent' < lastEnq' /\ lastEnq' <= nreq'
    BY <2>2, <2>3, <2>4, <2>5
  <2> QED
    BY <2>1, <2>3, <2>5, <2>6 DEF OrderInv, WaitersAgree
<1>9. CASE Timeout
  <2>1. mpc' # "send"
    BY <1>9 DEF Timeout
  <2> QED
    BY <1>9, <2>1, QuietKeepsOrder DEF Timeout
<1>10. CASE JoinThread
  <2>1. mpc' # "send"
    BY <1>10 DEF JoinThread
  <2> QED
    BY <1>10, <2>1, QuietKeepsOrder DEF JoinThread, history
<1>11. CASE OpenProxmark
  <2>1. mpc' # "send"
    BY <1>11 DEF OpenProxmark
  <2> QED
    BY <1>11, <2>1, QuietKeepsOrder DEF OpenProxmark, history
<1>12. CASE \/ EndUpload \/ SkipReply \/ NoReplyYet \/ KeepWaiting
            \/ check_comm \/ CmdConnect \/ CloseProxmark
  <2>1. UNCHANGED <<tx, req, history>> /\ (mpc' = "send" => mpc = "send")
    BY <1>12 DEF EndUpload, SkipReply, NoReplyYet, KeepWaiting, check_comm,
                 CmdConnect, CloseProxmark, main
  <2> QED
    BY <2>1, QuietKeepsOrder DEF history
<1>13. CASE LoopTop \/ ReceiveNothing \/ ReceiveFrame \/ ReceiveDamaged
            \/ NothingToSend \/ ThreadExit
  <2>1. UNCHANGED <<tx, main, history>>
    BY <1>13 DEF LoopTop, ReceiveNothing, ReceiveFrame, ReceiveDamaged,
                 NothingToSend, ThreadExit
  <2> QED
    BY <2>1, QuietKeepsOrder DEF main, history
<1>14. CASE AckWait
  BY <1>14 DEF AckWait, OrderInv, WaitersAgree, Outgoing, main, history
<1>15. CASE Transmit
  <2>1. asleep \subseteq {"main"} /\ asleep' = {}
    BY <1>15 DEF Transmit, Signal, TypeOK, TxOK
  <2>2. lastSent' = lastEnq /\ lastEnq' = lastEnq
    BY <1>15 DEF Transmit, OrderInv
  <2>3. txBufferNGLen' = FALSE /\ txBuffer_pending' = FALSE
    BY <1>15 DEF Transmit
  <2> QED
    BY <1>15, <2>1, <2>2, <2>3 DEF Transmit, OrderInv, WaitersAgree, main
<1>16. CASE DeviceServes \/ DeviceSpeaks \/ Unplug \/ Plug
  <2>1. UNCHANGED <<tx, main, history>>
    BY <1>16 DEF DeviceServes, DeviceSpeaks, Unplug, Plug
  <2> QED
    BY <2>1, QuietKeepsOrder DEF main, history
<1>17. CASE SpuriousWakeup
  BY <1>17 DEF SpuriousWakeup, OrderInv, WaitersAgree, Outgoing, main, history
<1>18. CASE UNCHANGED vars
  BY <1>18, QuietKeepsOrder DEF vars, main, history
<1> QED
  BY <1>1, <1>2, <1>3, <1>4, <1>5, <1>6, <1>7, <1>8, <1>9, <1>10, <1>11, <1>12,
     <1>13, <1>14, <1>15, <1>16, <1>17, <1>18
     DEF Next, Console, User, CommThread, Device

(***************************************************************************)
(* The invariant holds in every state of every behaviour.                  *)
(***************************************************************************)
THEOREM OrderSound == Spec => [](TypeOK /\ OrderInv)
<1>1. Init => OrderInv
  BY DEF Init, OrderInv, WaitersAgree, NoRequest
<1>2. TypeOK /\ OrderInv /\ [Next]_vars => OrderInv'
  BY OrderStep
<1> QED
  BY <1>1, <1>2, TypeCorrect, PTL DEF Spec

(***************************************************************************)
(* No wake-up on txBufferSig is lost: neither thread sleeps while what it  *)
(* waits for is true.                                                      *)
(***************************************************************************)
THEOREM NoLostWakeup == Spec => []WaitersAgree
  BY OrderSound, PTL DEF OrderInv

(***************************************************************************)
(* uart_communication transmits each command handed over once, in order.   *)
(***************************************************************************)
THEOREM CommandsSentOnceInOrder == Spec => CommandsOnceInOrder
<1> DEFINE Step == /\ lastSent' # lastSent => lastSent' = lastEnq /\ lastSent < lastEnq
                   /\ lastEnq' # lastEnq => lastSent = lastEnq
<1>1. ASSUME TypeOK, OrderInv, Next PROVE Step
  <2>1. CASE SendCommand
    BY <1>1, <2>1 DEF SendCommand, OrderInv
  <2>2. CASE Transmit
    BY <1>1, <2>2 DEF Transmit, OrderInv
  <2>3. CASE UNCHANGED <<lastEnq, lastSent>>
    BY <2>3
  <2>4. SendCommand \/ Transmit \/ UNCHANGED <<lastEnq, lastSent>>
    <3>1. ASSUME NEW c \in Commands, NEW j \in {"command", "forever"}, StartCommand(c, j)
          PROVE  UNCHANGED <<lastEnq, lastSent>>
      BY <3>1 DEF StartCommand, Issue
    <3>2. CASE User \/ Console
      BY <3>1, <3>2
         DEF User, Console, StartUpload, NextChunk, EndUpload, SendWait, SkipReply,
             AcceptReply, NoReplyYet, KeepWaiting, Timeout, check_comm, CmdConnect,
             Quit, CloseProxmark, JoinThread, OpenProxmark, OpenedProxmark, Issue,
             history
    <3>3. CASE CommThread \/ Device
      BY <3>3
         DEF CommThread, Device, LoopTop, ReceiveNothing, ReceiveFrame, ReceiveDamaged,
             AckWait, NothingToSend, ThreadExit, DeviceServes, DeviceSpeaks, Unplug,
             Plug, SpuriousWakeup, history
    <3> QED
      BY <1>1, <3>2, <3>3 DEF Next
  <2> QED
    BY <2>1, <2>2, <2>3, <2>4
<1>2. TypeOK /\ OrderInv /\ [Next]_vars => [Step]_vars
  BY <1>1
<1> QED
  BY <1>2, OrderSound, PTL DEF Spec, CommandsOnceInOrder


-----------------------------------------------------------------------------
(***************************************************************************)
(* The invariant behind PortBelongsToThread.  The communication thread     *)
(* exists from the moment OpenProxmark has created it until CloseProxmark  *)
(* has joined it, which is while the device is reported present; it has    *)
(* the port open until it ends; and the console is in the middle of a      *)
(* command or of a close only while the device is reported present.        *)
(***************************************************************************)
PortInv ==
    /\ pm3_present \/ mpc = "opened" <=> cpc # "none"
    /\ cpc \in {"top", "receive", "transmit", "ackwait", "exit"} => sp # 0
    /\ cpc \in {"none", "exited"} => sp = 0
    /\ mpc \in {"send", "wait", "clock", "upload", "close", "join"} => pm3_present
    /\ mpc \in {"open", "opened", "done"} => ~pm3_present

(***************************************************************************)
(* The invariant behind DeadThreadIsFlagged.  A thread is told to stop     *)
(* only by the console that then joins it.  One that stopped by itself and *)
(* is not flagged lost its flag to OpenProxmark, and the console has not   *)
(* got beyond its ping: nothing is left that could answer it.              *)
(***************************************************************************)
DeadInv ==
    /\ ~run => mpc = "join" \/ cpc = "none"
    /\ cpc \in {"exit", "exited"} /\ run /\ ~comm_thread_dead
         => \/ mpc = "opened"
            \/ mpc \in {"send", "wait", "clock"} /\ job = "ping" /\ queue = <<>>
            \/ mpc = "close" /\ job = "drop"

(***************************************************************************)
(* What a step of the device does not touch.                               *)
(***************************************************************************)
LEMMA DeviceIsApart ==
    ASSUME Device
    PROVE  UNCHANGED <<main, comm, conn, shared, rxq, history>>
  BY DEF Device, DeviceServes, DeviceSpeaks, Unplug, Plug, SpuriousWakeup

(***************************************************************************)
(* The invariant of the port is inductive.                                 *)
(***************************************************************************)
LEMMA PortStep == ASSUME TypeOK, PortInv, [Next]_vars PROVE PortInv'
<1> USE DEF PortInv
<1>1. CASE User
  <2>1. ASSUME NEW c \in Commands, NEW j \in {"command", "forever"}, StartCommand(c, j)
        PROVE  PortInv'
    BY <2>1 DEF StartCommand, Issue, comm, shared
  <2>2. CASE StartUpload
    BY <2>2 DEF StartUpload, Issue, comm, shared
  <2>3. CASE CmdConnect
    BY <2>3 DEF CmdConnect, comm, shared
  <2>4. CASE Quit
    BY <2>4 DEF Quit, Issue, comm, shared
  <2> QED
    BY <1>1, <2>1, <2>2, <2>3, <2>4 DEF User
<1>2. CASE \/ NextChunk \/ EndUpload \/ SendWait \/ SendCommand \/ SkipReply \/ AcceptReply
           \/ NoReplyYet \/ KeepWaiting \/ Timeout \/ check_comm \/ CloseProxmark
  <2>1. /\ UNCHANGED <<comm, shared>>
        /\ mpc' \in {"idle", "send", "wait", "clock", "upload", "close", "join"}
        /\ mpc \in {"send", "wait", "clock", "upload", "close"} \/ pm3_present
    <3>1. CASE NextChunk \/ EndUpload
      BY <3>1 DEF NextChunk, EndUpload, Issue
    <3>2. CASE SendWait \/ SendCommand
      BY <3>2 DEF SendWait, SendCommand, main
    <3>3. CASE SkipReply
      BY <3>3 DEF SkipReply, main
    <3>4. CASE AcceptReply
      BY <3>4 DEF AcceptReply, Issue
    <3>5. CASE NoReplyYet \/ KeepWaiting
      BY <3>5 DEF NoReplyYet, KeepWaiting
    <3>6. CASE Timeout
      BY <3>6 DEF Timeout
    <3>7. CASE check_comm \/ CloseProxmark
      BY <3>7 DEF check_comm, CloseProxmark
    <3> QED
      BY <1>2, <3>1, <3>2, <3>3, <3>4, <3>5, <3>6, <3>7
  <2> QED
    BY <2>1 DEF comm, shared
<1>3. CASE JoinThread
  BY <1>3 DEF JoinThread, Joined
<1>4. CASE OpenProxmark
  <2>1. CASE link = 0
    BY <1>4, <2>1 DEF OpenProxmark, comm
  <2>2. CASE link # 0
    BY <1>4, <2>2 DEF OpenProxmark
  <2> QED
    BY <2>1, <2>2
<1>5. CASE OpenedProxmark
  BY <1>5 DEF OpenedProxmark, Issue, comm
<1>6. CASE LoopTop
  BY <1>6 DEF LoopTop, main
<1>7. CASE \/ ReceiveNothing \/ ReceiveFrame \/ ReceiveDamaged \/ AckWait
           \/ NothingToSend \/ Transmit
  <2>1. /\ UNCHANGED <<main, shared>>
        /\ cpc \in {"receive", "transmit", "ackwait"}
        /\ cpc' \in {"transmit", "ackwait", "top"}
    BY <1>7 DEF ReceiveNothing, ReceiveFrame, ReceiveDamaged, AckWait, NothingToSend,
                Transmit
  <2> QED
    BY <2>1 DEF main, shared
<1>8. CASE ThreadExit
  BY <1>8 DEF ThreadExit, main
<1>9. CASE Device \/ UNCHANGED vars
  <2>1. UNCHANGED <<main, comm, shared>>
    BY <1>9, DeviceIsApart DEF vars
  <2> QED
    BY <2>1 DEF main, comm, shared
<1> QED
  BY <1>1, <1>2, <1>3, <1>4, <1>5, <1>6, <1>7, <1>8, <1>9 DEF Next, Console, CommThread

(***************************************************************************)
(* The invariant of the dead thread is inductive.                          *)
(***************************************************************************)
LEMMA DeadStep == ASSUME TypeOK, PortInv, DeadInv, [Next]_vars PROVE DeadInv'
<1> USE DEF DeadInv
<1>1. CASE User
  <2>0. mpc = "idle" /\ UNCHANGED <<comm, shared, run>>
    BY <1>1 DEF User, StartCommand, StartUpload, CmdConnect, Quit, conn
  <2> QED
    BY <2>0 DEF PortInv, comm, shared
<1>2. CASE NextChunk \/ EndUpload \/ check_comm \/ KeepWaiting
  BY <1>2 DEF NextChunk, EndUpload, check_comm, KeepWaiting, PortInv, comm, shared,
              conn, rxq
<1>3. CASE SendWait \/ SendCommand
  BY <1>3 DEF SendWait, SendCommand, main, comm, shared, conn, rxq
<1>4. CASE SkipReply \/ AcceptReply
  BY <1>4 DEF SkipReply, AcceptReply, PortInv, main, comm, shared, conn
<1>5. CASE NoReplyYet
  BY <1>5 DEF NoReplyYet, Replies!Get, comm, shared, conn
<1>6. CASE Timeout
  BY <1>6 DEF Timeout, comm, shared, conn
<1>7. CASE CloseProxmark
  BY <1>7 DEF CloseProxmark, comm, shared
<1>8. CASE JoinThread
  BY <1>8 DEF JoinThread, Joined
<1>9. CASE OpenProxmark
  <2>1. cpc = "none"
    BY <1>9 DEF OpenProxmark, PortInv
  <2> QED
    BY <1>9, <2>1 DEF OpenProxmark, comm, conn
<1>10. CASE OpenedProxmark
  BY <1>10 DEF OpenedProxmark, Issue, Replies!Clear, comm, conn
<1>11. CASE LoopTop
  BY <1>11 DEF LoopTop, main, conn, rxq
<1>12. CASE \/ ReceiveNothing \/ ReceiveFrame \/ ReceiveDamaged \/ AckWait
            \/ NothingToSend \/ Transmit
  <2>1. /\ UNCHANGED <<main, shared, run>>
        /\ cpc # "none" /\ cpc' \in {"transmit", "ackwait", "top"}
    BY <1>12 DEF ReceiveNothing, ReceiveFrame, ReceiveDamaged, AckWait, NothingToSend,
                 Transmit, conn
  <2> QED
    BY <2>1 DEF main, shared
<1>13. CASE ThreadExit
  BY <1>13 DEF ThreadExit, main, conn, rxq
<1>14. CASE Device \/ UNCHANGED vars
  <2>1. UNCHANGED <<main, comm, conn, shared, rxq>>
    BY <1>14, DeviceIsApart DEF vars
  <2> QED
    BY <2>1 DEF main, comm, conn, shared, rxq
<1> QED
  BY <1>1, <1>2, <1>3, <1>4, <1>5, <1>6, <1>7, <1>8, <1>9, <1>10, <1>11, <1>12,
     <1>13, <1>14 DEF Next, Console, CommThread

(***************************************************************************)
(* Both invariants hold in every state of every behaviour.                 *)
(***************************************************************************)
THEOREM ThreadSound == Spec => [](TypeOK /\ PortInv /\ DeadInv)
<1>1. Init => PortInv /\ DeadInv
  BY DEF Init, PortInv, DeadInv
<1>2. TypeOK /\ PortInv /\ DeadInv /\ [Next]_vars => PortInv' /\ DeadInv'
  BY PortStep, DeadStep
<1> QED
  BY <1>1, <1>2, TypeCorrect, PTL DEF Spec

(***************************************************************************)
(* uart_communication works on an open port, and OpenProxmark and a prompt *)
(* without a device never meet a previous thread that was not joined.      *)
(***************************************************************************)
THEOREM PortHeldByThread == Spec => []PortBelongsToThread
<1>1. TypeOK /\ PortInv => PortBelongsToThread
  BY DEF PortInv, PortBelongsToThread
<1> QED
  BY <1>1, ThreadSound, PTL

(***************************************************************************)
(* Although OpenProxmark may wipe the flag of a thread that has just died, *)
(* the prompt never sees a dead thread without it.                         *)
(***************************************************************************)
THEOREM DeadThreadSeenAtPrompt == Spec => []DeadThreadIsFlagged
<1>1. TypeOK /\ PortInv /\ DeadInv => DeadThreadIsFlagged
  BY DEF DeadInv, DeadThreadIsFlagged
<1> QED
  BY <1>1, ThreadSound, PTL


-----------------------------------------------------------------------------
(***************************************************************************)
(* The invariant behind StaleReplyOnlyAfterTimeout.  A command is expected *)
(* to be answered if the console waits for it, or if it, or one before it, *)
(* timed out.                                                              *)
(***************************************************************************)
AfterTimeout(i) == \E t \in timedOut : t <= i

Awaiting == mpc \in {"wait", "clock", "done"} \/ (job = "quit" /\ mpc \in {"close", "join"})

Expected(i) == (Awaiting /\ i = req.id) \/ AfterTimeout(i)

\* The commands sent that may still be under way.
Live == {i \in 1 .. lastSent : Expected(i)}

\* A message the device sends unasked; all the messages of s that are not
\* belong to the commands I; command n is not in s; it is there once at most.
Unasked(m) == m.id = 0 /\ m.cmd \in {"WTX", "DEBUG_PRINT"}
BelongTo(s, I) == \A i \in 1 .. Len(s) : Unasked(s[i]) \/ s[i].id \in I
Absent(s, n) == \A i \in 1 .. Len(s) : s[i].id # n
Single(s, n) == \A i, j \in 1 .. Len(s) : s[i].id = n /\ s[j].id = n => i = j

(***************************************************************************)
(* A command that was sent is on its way to the device, or its answer is   *)
(* on its way back or in the reply buffer, and the last one is in one      *)
(* place only.                                                             *)
(***************************************************************************)
OnePlace(n) ==
    /\ Single(toDev, n) /\ Single(fromDev, n) /\ Single(queue, n)
    /\ Absent(toDev, n) \/ Absent(fromDev, n)
    /\ Absent(toDev, n) \/ Absent(queue, n)
    /\ Absent(fromDev, n) \/ Absent(queue, n)

AnswerInv ==
    /\ lastSent <= lastEnq
    /\ Awaiting => lastEnq = req.id \/ mpc = "done"
    /\ txBuffer_pending => Expected(lastEnq)
    /\ BelongTo(toDev, Live) /\ BelongTo(fromDev, Live) /\ BelongTo(queue, Live)
    /\ Absent(toDev, 0)
    /\ lastSent # 0 => OnePlace(lastSent)

\* t is s, without its first message, or without any.
Shrunk(s, t) == t = s \/ t = <<>> \/ (s # <<>> /\ t = Tail(s))

(***************************************************************************)
(* Taking messages out of a sequence.                                      *)
(***************************************************************************)
LEMMA ShrunkKeeps ==
    ASSUME NEW S, NEW s \in Seq(S), NEW t, Shrunk(s, t), NEW I, NEW J, I \subseteq J, NEW n
    PROVE  /\ BelongTo(s, I) => BelongTo(t, J)
           /\ Absent(s, n) => Absent(t, n)
           /\ Single(s, n) => Single(t, n)
<1>1. CASE t = s
  BY <1>1 DEF BelongTo, Absent, Single
<1>2. CASE t = <<>>
  BY <1>2 DEF BelongTo, Absent, Single
<1>3. CASE s # <<>> /\ t = Tail(s)
  <2>1. /\ Len(s) \in Nat /\ Len(t) \in Nat /\ Len(t) = Len(s) - 1
        /\ \A i \in 1 .. Len(t) : i + 1 \in 1 .. Len(s) /\ t[i] = s[i + 1]
    BY <1>3, HeadTailProperties
  <2>2. BelongTo(s, I) => BelongTo(t, J)
    BY <2>1 DEF BelongTo
  <2>3. Absent(s, n) => Absent(t, n)
    BY <2>1 DEF Absent
  <2>4. ASSUME Single(s, n), NEW i \in 1 .. Len(t), NEW j \in 1 .. Len(t),
               t[i].id = n, t[j].id = n
        PROVE  i = j
    <3>1. /\ i + 1 \in 1 .. Len(s) /\ s[i + 1].id = n
          /\ j + 1 \in 1 .. Len(s) /\ s[j + 1].id = n
      BY <2>1, <2>4
    <3>2. i + 1 = j + 1
      BY <2>4, <3>1 DEF Single
    <3> QED
      BY <3>2
  <2> QED
    BY <2>2, <2>3, <2>4 DEF Single
<1> QED
  BY <1>1, <1>2, <1>3 DEF Shrunk

(***************************************************************************)
(* Adding a message at the end of a sequence.                              *)
(***************************************************************************)
LEMMA AppendKeeps ==
    ASSUME NEW S, NEW s \in Seq(S), NEW m \in S, NEW I, NEW n
    PROVE  /\ BelongTo(s, I) /\ (Unasked(m) \/ m.id \in I) => BelongTo(Append(s, m), I)
           /\ Absent(s, n) /\ m.id # n => Absent(Append(s, m), n)
           /\ Absent(s, n) => Single(Append(s, m), n)
           /\ Single(s, n) /\ m.id # n => Single(Append(s, m), n)
<1> DEFINE t == Append(s, m)
<1>1. /\ Len(s) \in Nat /\ Len(t) = Len(s) + 1
      /\ \A i \in 1 .. Len(s) : t[i] = s[i]
      /\ t[Len(s) + 1] = m
  BY AppendProperties
<1>2. \A i \in 1 .. Len(t) : i \in 1 .. Len(s) \/ i = Len(s) + 1
  BY <1>1
<1> HIDE DEF t
<1>3. BelongTo(s, I) /\ (Unasked(m) \/ m.id \in I) => BelongTo(t, I)
  BY <1>1, <1>2 DEF BelongTo
<1>4. Absent(s, n) /\ m.id # n => Absent(t, n)
  BY <1>1, <1>2 DEF Absent
<1>5. Absent(s, n) => Single(t, n)
  BY <1>1, <1>2 DEF Absent, Single
<1>6. Single(s, n) /\ m.id # n => Single(t, n)
  BY <1>1, <1>2 DEF Single
<1> QED
  BY <1>3, <1>4, <1>5, <1>6 DEF t

(***************************************************************************)
(* A command outside I is not in a sequence whose messages belong to I.    *)
(***************************************************************************)
LEMMA OutsideIsAbsent ==
    ASSUME NEW s, NEW I, BelongTo(s, I), NEW n \in Nat \ {0}, n \notin I
    PROVE  Absent(s, n)
  BY DEF BelongTo, Absent, Unasked

(***************************************************************************)
(* The command n, if absent, can be left out of I.                         *)
(***************************************************************************)
LEMMA AbsentCanGo ==
    ASSUME NEW s, NEW I, NEW J, NEW n, BelongTo(s, I), Absent(s, n), I \subseteq J \cup {n}
    PROVE  BelongTo(s, J)
  BY DEF BelongTo, Absent

(***************************************************************************)
(* A step that adds no message, neither hands over nor sends a command,    *)
(* and ends the wait for a command only with a timeout.                    *)
(***************************************************************************)
LEMMA QuietKeepsAnswers ==
    ASSUME TypeOK, AnswerInv,
           Shrunk(toDev, toDev'), Shrunk(fromDev, fromDev'), Shrunk(queue, queue'),
           UNCHANGED <<lastSent, lastEnq, txBuffer_pending>>,
           timedOut \subseteq timedOut',
           Awaiting => (Awaiting' /\ req' = req) \/ req.id \in timedOut',
           Awaiting' => (Awaiting /\ req' = req /\ mpc # "done") \/ mpc' = "done"
    PROVE  AnswerInv'
<1>0. /\ toDev \in Seq(Request) /\ fromDev \in Seq(Frame) /\ queue \in Seq(Reply)
      /\ req.id \in Nat /\ lastSent \in Nat
  BY DEF TypeOK, DeviceOK, RxOK, MainOK, HistoryOK, Request
<1>1. ASSUME NEW i, Expected(i) PROVE Expected(i)'
  <2>1. CASE AfterTimeout(i)
    BY <2>1 DEF AfterTimeout, Expected
  <2>2. CASE Awaiting /\ i = req.id
    <3>1. CASE Awaiting' /\ req' = req
      BY <2>2, <3>1 DEF Expected
    <3>2. CASE req.id \in timedOut'
      <4>1. req.id <= req.id
        BY <1>0
      <4> QED
        BY <2>2, <3>2, <4>1 DEF Expected, AfterTimeout
    <3> QED
      BY <2>2, <3>1, <3>2
  <2> QED
    BY <1>1, <2>1, <2>2 DEF Expected
<1>2. Live \subseteq Live'
  BY <1>1 DEF Live
<1>3. BelongTo(toDev', Live') /\ BelongTo(fromDev', Live') /\ BelongTo(queue', Live')
  BY <1>0, <1>2, ShrunkKeeps DEF AnswerInv
<1>4. Absent(toDev', 0)
  BY <1>0, ShrunkKeeps DEF AnswerInv
<1>5. ASSUME NEW n, OnePlace(n)
      PROVE  /\ Single(toDev', n) /\ Single(fromDev', n) /\ Single(queue', n)
             /\ Absent(toDev', n) \/ Absent(fromDev', n)
             /\ Absent(toDev', n) \/ Absent(queue', n)
             /\ Absent(fromDev', n) \/ Absent(queue', n)
  <2>1. /\ Single(toDev, n) => Single(toDev', n)
        /\ Single(fromDev, n) => Single(fromDev', n)
        /\ Single(queue, n) => Single(queue', n)
        /\ Absent(toDev, n) => Absent(toDev', n)
        /\ Absent(fromDev, n) => Absent(fromDev', n)
        /\ Absent(queue, n) => Absent(queue', n)
    BY <1>0, ShrunkKeeps
  <2> QED
    BY <1>5, <2>1 DEF OnePlace
<1>6. (lastSent # 0 => OnePlace(lastSent))'
  BY <1>5 DEF AnswerInv, OnePlace
<1>7. (txBuffer_pending => Expected(lastEnq))'
  BY <1>1 DEF AnswerInv
<1>8. (Awaiting => lastEnq = req.id \/ mpc = "done")'
  BY DEF AnswerInv
<1> QED
  BY <1>3, <1>4, <1>6, <1>7, <1>8 DEF AnswerInv

(***************************************************************************)
(* The reply a wait accepts: with it, either its command was answered, and *)
(* nothing more of it is under way, or the answers are late since an       *)
(* earlier timeout.                                                        *)
(***************************************************************************)
LEMMA AcceptedReply ==
    ASSUME TypeOK, OrderInv, AnswerInv, AcceptReply
    PROVE  /\ Head(queue).id # req.id => AfterTimeout(Head(queue).id)
           /\ AnswerInv'
<1> DEFINE h == Head(queue)
<1>0. /\ toDev \in Seq(Request) /\ fromDev \in Seq(Frame) /\ queue \in Seq(Reply)
      /\ req \in Request /\ req.id \in Nat /\ req.cmd \in Cmd
      /\ lastSent \in Nat /\ lastEnq \in Nat /\ timedOut \subseteq Nat
  BY DEF TypeOK, DeviceOK, RxOK, MainOK, HistoryOK, Request
<1>1. /\ mpc = "wait" /\ queue # <<>> /\ h.cmd = Awaited /\ queue' = Tail(queue)
      /\ UNCHANGED <<toDev, fromDev, txBuffer_pending, lastSent, lastEnq, timedOut>>
  BY DEF AcceptReply, Replies!Get, Issue, tx, device, history
<1>2. /\ ~Awaiting'
      /\ \A i : AfterTimeout(i)' <=> AfterTimeout(i)
  <2>1. /\ mpc' \in {"send", "upload", "idle"} \/ (mpc' = "close" /\ job' = "drop")
    BY DEF AcceptReply, Issue
  <2> QED
    BY <1>1, <2>1 DEF Awaiting, AfterTimeout
<1>3. Awaited \notin {"WTX", "DEBUG_PRINT"}
  BY <1>0, CommandsAssumption DEF Awaited, Cmd
<1>4. /\ Len(queue) \in Nat /\ 1 \in 1 .. Len(queue) /\ h = queue[1]
      /\ Len(queue') = Len(queue) - 1
      /\ \A i \in 1 .. Len(queue') : i + 1 \in 1 .. Len(queue) /\ queue'[i] = queue[i + 1]
  BY <1>0, <1>1, HeadTailProperties
<1>5. h.id \in Live
  BY <1>1, <1>3, <1>4 DEF AnswerInv, BelongTo, Unasked
<1>6. lastEnq = req.id /\ lastSent <= req.id /\ h.id \in 1 .. lastSent /\ Expected(h.id)
  BY <1>1, <1>5 DEF AnswerInv, Awaiting, Live
<1>7. h.id # req.id => AfterTimeout(h.id)
  BY <1>6 DEF Expected
<1>8. CASE h.id # req.id
  <2>1. PICK t \in timedOut : t <= h.id
    BY <1>7, <1>8 DEF AfterTimeout
  <2>2. t <= req.id
    BY <1>0, <1>6, <2>1
  <2>3. Shrunk(toDev, toDev') /\ Shrunk(fromDev, fromDev') /\ Shrunk(queue, queue')
    BY <1>1 DEF Shrunk
  <2>4. \A i : Expected(i) => Expected(i)'
    BY <1>2, <2>2 DEF Expected, AfterTimeout
  <2>5. Live \subseteq Live'
    BY <1>1, <2>4 DEF Live
  <2>6. BelongTo(toDev', Live') /\ BelongTo(fromDev', Live') /\ BelongTo(queue', Live')
    BY <1>0, <2>3, <2>5, ShrunkKeeps DEF AnswerInv
  <2>7. Single(queue, lastSent) => Single(queue', lastSent)
    BY <1>0, <2>3, ShrunkKeeps
  <2>8. Absent(queue, lastSent) => Absent(queue', lastSent)
    BY <1>0, <2>3, ShrunkKeeps
  <2>9. (lastSent # 0 => OnePlace(lastSent))'
    BY <1>1, <2>7, <2>8 DEF AnswerInv, OnePlace
  <2> QED
    BY <1>1, <1>2, <1>7, <2>4, <2>6, <2>9 DEF AnswerInv
<1>9. CASE h.id = req.id
  <2>1. lastSent = req.id /\ lastSent # 0 /\ h.id = lastSent
    BY <1>0, <1>6, <1>9
  <2>2. ~txBuffer_pending
    BY <1>6, <2>1 DEF OrderInv
  <2>3. ~Absent(queue, lastSent)
    BY <1>4, <2>1 DEF Absent
  <2>4. Absent(toDev, lastSent) /\ Absent(fromDev, lastSent) /\ Single(queue, lastSent)
    BY <2>1, <2>3 DEF AnswerInv, OnePlace
  <2>5. Absent(queue', lastSent)
    <3>1. ASSUME NEW i \in 1 .. Len(queue') PROVE queue'[i].id # lastSent
      <4>1. i + 1 \in 1 .. Len(queue) /\ queue'[i] = queue[i + 1] /\ i + 1 # 1
        BY <1>4, <3>1
      <4>2. queue[i + 1].id = lastSent /\ queue[1].id = lastSent => i + 1 = 1
        BY <1>4, <2>4, <4>1 DEF Single
      <4> QED
        BY <1>4, <2>1, <4>1, <4>2
    <3> QED
      BY <3>1 DEF Absent
  <2>6. Live \subseteq Live' \cup {lastSent}
    BY <1>1, <1>2, <2>1 DEF Live, Expected
  <2>7. BelongTo(queue', Live)
    <3>1. Shrunk(queue, queue') /\ Live \subseteq Live
      BY <1>1 DEF Shrunk
    <3> QED
      BY <1>0, <3>1, ShrunkKeeps DEF AnswerInv
  <2>8. BelongTo(toDev', Live') /\ BelongTo(fromDev', Live') /\ BelongTo(queue', Live')
    BY <1>1, <2>4, <2>5, <2>6, <2>7, AbsentCanGo DEF AnswerInv
  <2>9. OnePlace(lastSent)'
    <3>1. Single(toDev', lastSent) /\ Single(fromDev', lastSent) /\ Single(queue', lastSent)
      BY <1>1, <2>4, <2>5 DEF Absent, Single
    <3> QED
      BY <1>1, <2>4, <2>5, <3>1 DEF OnePlace
  <2> QED
    BY <1>1, <1>2, <1>7, <2>2, <2>8, <2>9 DEF AnswerInv
<1> QED
  BY <1>8, <1>9


(***************************************************************************)
(* The device answers a command: the answer takes the command's place.     *)
(***************************************************************************)
LEMMA ServedKeepsAnswers == ASSUME TypeOK, AnswerInv, DeviceServes PROVE AnswerInv'
<1> DEFINE r == Head(toDev)
<1>0. /\ toDev \in Seq(Request) /\ fromDev \in Seq(Frame) /\ toDev # <<>>
      /\ r \in Request /\ toDev' = Tail(toDev)
      /\ Len(toDev) \in Nat /\ 1 \in 1 .. Len(toDev) /\ r = toDev[1]
      /\ Len(toDev') = Len(toDev) - 1
      /\ \A i \in 1 .. Len(toDev') : i + 1 \in 1 .. Len(toDev) /\ toDev'[i] = toDev[i + 1]
  BY HeadTailProperties DEF TypeOK, DeviceOK, DeviceServes
<1>1. /\ UNCHANGED <<mpc, job, req, queue, txBuffer_pending, lastSent, lastEnq, timedOut>>
  BY DEF DeviceServes, main, tx, rxq, history
<1>2. Awaiting' = Awaiting /\ Live' = Live /\ Expected(lastEnq)' = Expected(lastEnq)
  BY <1>1 DEF Awaiting, Live, Expected, AfterTimeout
<1>3. Shrunk(toDev, toDev')
  BY <1>0 DEF Shrunk
<1>4. CASE UNCHANGED fromDev
  <2>1. Shrunk(fromDev, fromDev') /\ Shrunk(queue, queue')
    BY <1>1, <1>4 DEF Shrunk
  <2> QED
    BY <1>1, <1>2, <1>3, <2>1, QuietKeepsAnswers DEF AnswerInv, Awaiting
<1>5. CASE \E f \in Answer(r) : fromDev' = Append(fromDev, f)
  <2>1. PICK f \in Answer(r) : fromDev' = Append(fromDev, f)
    BY <1>5
  <2>2. f \in Frame /\ f.id = r.id
    BY <1>0 DEF Answer, Frame, Request, ReplyCmd
  <2>3. r.id # 0 /\ r.id \in Live
    BY <1>0 DEF AnswerInv, Absent, BelongTo, Unasked
  <2>4. BelongTo(toDev', Live) /\ Absent(toDev', 0)
    BY <1>0, <1>3, ShrunkKeeps DEF AnswerInv
  <2>5. BelongTo(fromDev', Live)
    BY <1>0, <2>1, <2>2, <2>3, AppendKeeps DEF AnswerInv
  <2>6. ASSUME lastSent # 0 PROVE OnePlace(lastSent)'
    <3>1. /\ Absent(toDev, lastSent) => Absent(toDev', lastSent)
          /\ Single(toDev, lastSent) => Single(toDev', lastSent)
      BY <1>0, <1>3, ShrunkKeeps
    <3>2. OnePlace(lastSent)
      BY <2>6 DEF AnswerInv
    <3>3. CASE r.id = lastSent
      <4>1. ~Absent(toDev, lastSent)
        BY <1>0, <3>3 DEF Absent
      <4>2. Absent(fromDev, lastSent) /\ Absent(queue, lastSent)
        BY <3>2, <4>1 DEF OnePlace
      <4>3. Absent(toDev', lastSent)
        <5>1. ASSUME NEW i \in 1 .. Len(toDev') PROVE toDev'[i].id # lastSent
          <6>1. i + 1 \in 1 .. Len(toDev) /\ toDev'[i] = toDev[i + 1] /\ i + 1 # 1
            BY <1>0, <5>1
          <6>2. toDev[i + 1].id = lastSent /\ toDev[1].id = lastSent => i + 1 = 1
            BY <1>0, <3>2, <6>1 DEF Single, OnePlace
          <6> QED
            BY <1>0, <3>3, <6>1, <6>2
        <5> QED
          BY <5>1 DEF Absent
      <4>4. Single(fromDev', lastSent)
        BY <1>0, <2>1, <2>2, <4>2, AppendKeeps
      <4> QED
        BY <1>1, <3>1, <3>2, <4>2, <4>3, <4>4 DEF OnePlace
    <3>4. CASE r.id # lastSent
      <4>1. /\ Absent(fromDev, lastSent) => Absent(fromDev', lastSent)
            /\ Single(fromDev, lastSent) => Single(fromDev', lastSent)
        BY <1>0, <2>1, <2>2, <3>4, AppendKeeps
      <4> QED
        BY <1>1, <3>1, <3>2, <4>1 DEF OnePlace
    <3> QED
      BY <3>3, <3>4
  <2> QED
    BY <1>1, <1>2, <2>4, <2>5, <2>6 DEF AnswerInv
<1> QED
  BY <1>4, <1>5 DEF DeviceServes

(***************************************************************************)
(* The device speaks unasked.                                              *)
(***************************************************************************)
LEMMA SpeaksKeepsAnswers == ASSUME TypeOK, AnswerInv, DeviceSpeaks PROVE AnswerInv'
<1>1. PICK c \in {"WTX", "DEBUG_PRINT"}, n \in PayloadLengths :
        fromDev' = Append(fromDev, [style |-> "NG", cmd |-> c, id |-> 0, len |-> n])
  BY DEF DeviceSpeaks
<1> DEFINE f == [style |-> "NG", cmd |-> c, id |-> 0, len |-> n]
<1>2. f \in Frame /\ f.id = 0 /\ Unasked(f) /\ fromDev \in Seq(Frame)
  BY DEF Frame, ReplyCmd, Unasked, TypeOK, DeviceOK
<1>3. UNCHANGED <<mpc, job, req, queue, txBuffer_pending, lastSent, lastEnq, timedOut, toDev>>
  BY DEF DeviceSpeaks, main, tx, rxq, history
<1>4. Awaiting' = Awaiting /\ Live' = Live /\ Expected(lastEnq)' = Expected(lastEnq)
  BY <1>3 DEF Awaiting, Live, Expected, AfterTimeout
<1>5. BelongTo(fromDev', Live)
  BY <1>1, <1>2, AppendKeeps DEF AnswerInv
<1>6. lastSent # 0 => /\ Absent(fromDev, lastSent) => Absent(fromDev', lastSent)
                      /\ Single(fromDev, lastSent) => Single(fromDev', lastSent)
  BY <1>1, <1>2, AppendKeeps
<1> QED
  BY <1>3, <1>4, <1>5, <1>6 DEF AnswerInv, OnePlace

(***************************************************************************)
(* A frame is received and stored: it takes its own place in the buffer,   *)
(* or the full buffer is wiped.                                            *)
(***************************************************************************)
LEMMA ReceivedKeepsAnswers == ASSUME TypeOK, AnswerInv, ReceiveFrame PROVE AnswerInv'
<1> DEFINE f == Head(fromDev)
           p == [cmd |-> f.cmd, id |-> f.id, len |-> RxLength(f), sent |-> f.len]
<1>0. /\ fromDev \in Seq(Frame) /\ queue \in Seq(Reply) /\ toDev \in Seq(Request)
      /\ fromDev # <<>> /\ f \in Frame /\ fromDev' = Tail(fromDev)
      /\ Len(fromDev) \in Nat /\ 1 \in 1 .. Len(fromDev) /\ f = fromDev[1]
      /\ Len(fromDev') = Len(fromDev) - 1
      /\ \A i \in 1 .. Len(fromDev') : i + 1 \in 1 .. Len(fromDev) /\ fromDev'[i] = fromDev[i + 1]
  BY HeadTailProperties DEF TypeOK, DeviceOK, RxOK, ReceiveFrame
<1>1. UNCHANGED <<mpc, job, req, toDev, txBuffer_pending, lastSent, lastEnq, timedOut>>
  BY DEF ReceiveFrame, main, tx, rxq, history
<1>2. Awaiting' = Awaiting /\ Live' = Live /\ Expected(lastEnq)' = Expected(lastEnq)
  BY <1>1 DEF Awaiting, Live, Expected, AfterTimeout
<1>3. Shrunk(fromDev, fromDev') /\ Shrunk(toDev, toDev')
  BY <1>0, <1>1 DEF Shrunk
<1>4. CASE Shrunk(queue, queue')
  BY <1>1, <1>2, <1>3, <1>4, QuietKeepsAnswers DEF AnswerInv, Awaiting
<1>5. CASE queue' = Append(queue, p)
  <2>1. p \in Reply /\ p.id = f.id
    <3>1. RxLength(f) \in PayloadLengths
      BY <1>0 DEF RxLength, Frame, TypeOK, CommOK
    <3> QED
      BY <1>0, <3>1 DEF Frame, Reply
  <2>2. Unasked(p) \/ p.id \in Live
    BY <1>0 DEF AnswerInv, BelongTo, Unasked
  <2>3. BelongTo(queue', Live)
    BY <1>0, <1>5, <2>1, <2>2, AppendKeeps DEF AnswerInv
  <2>4. BelongTo(fromDev', Live)
    BY <1>0, <1>3, ShrunkKeeps DEF AnswerInv
  <2>5. ASSUME lastSent # 0 PROVE OnePlace(lastSent)'
    <3>1. /\ Absent(fromDev, lastSent) => Absent(fromDev', lastSent)
          /\ Single(fromDev, lastSent) => Single(fromDev', lastSent)
      BY <1>0, <1>3, ShrunkKeeps
    <3>2. OnePlace(lastSent)
      BY <2>5 DEF AnswerInv
    <3>3. CASE f.id = lastSent
      <4>1. ~Absent(fromDev, lastSent)
        BY <1>0, <3>3 DEF Absent
      <4>2. Absent(toDev, lastSent) /\ Absent(queue, lastSent)
        BY <3>2, <4>1 DEF OnePlace
      <4>3. Absent(fromDev', lastSent)
        <5>1. ASSUME NEW i \in 1 .. Len(fromDev') PROVE fromDev'[i].id # lastSent
          <6>1. i + 1 \in 1 .. Len(fromDev) /\ fromDev'[i] = fromDev[i + 1] /\ i + 1 # 1
            BY <1>0, <5>1
          <6>2. fromDev[i + 1].id = lastSent /\ fromDev[1].id = lastSent => i + 1 = 1
            BY <1>0, <3>2, <6>1 DEF Single, OnePlace
          <6> QED
            BY <1>0, <3>3, <6>1, <6>2
        <5> QED
          BY <5>1 DEF Absent
      <4>4. Single(queue', lastSent)
        BY <1>0, <1>5, <2>1, <4>2, AppendKeeps
      <4> QED
        BY <1>1, <3>1, <3>2, <4>2, <4>3, <4>4 DEF OnePlace
    <3>4. CASE f.id # lastSent
      <4>1. /\ Absent(queue, lastSent) => Absent(queue', lastSent)
            /\ Single(queue, lastSent) => Single(queue', lastSent)
        BY <1>0, <1>5, <2>1, <3>4, AppendKeeps
      <4> QED
        BY <1>1, <3>1, <3>2, <4>1 DEF OnePlace
    <3> QED
      BY <3>3, <3>4
  <2> QED
    BY <1>1, <1>2, <2>3, <2>4, <2>5 DEF AnswerInv
<1> QED
  BY <1>4, <1>5 DEF ReceiveFrame, Replies!Store, Replies!Stored, Shrunk, rxq

(***************************************************************************)
(* A command is transmitted: it is newer than all that is under way.       *)
(***************************************************************************)
LEMMA TransmitKeepsAnswers == ASSUME TypeOK, OrderInv, AnswerInv, Transmit PROVE AnswerInv'
<1>0. /\ toDev \in Seq(Request) /\ fromDev \in Seq(Frame) /\ queue \in Seq(Reply)
      /\ lastSent \in Nat /\ lastEnq \in Nat
      /\ Outgoing \in Request /\ Outgoing.id = lastEnq /\ lastSent < lastEnq
      /\ Expected(lastEnq)
  BY DEF TypeOK, DeviceOK, RxOK, HistoryOK, TxOK, Outgoing, OrderInv, AnswerInv, Transmit
<1>1. /\ UNCHANGED <<mpc, job, req, fromDev, queue, lastEnq, timedOut>>
      /\ lastSent' = lastEnq /\ ~txBuffer_pending'
      /\ toDev' \in {toDev, Append(toDev, Outgoing)}
  BY <1>0 DEF Transmit, main, rxq, Outgoing
<1>2. /\ Awaiting' = Awaiting /\ \A i : Expected(i)' = Expected(i)
  BY <1>1 DEF Awaiting, Expected, AfterTimeout
<1>3. Live \subseteq Live' /\ lastEnq \in Live' /\ lastEnq \notin Live /\ lastEnq \in Nat \ {0}
  BY <1>0, <1>1, <1>2 DEF Live
<1>4. Absent(toDev, lastEnq) /\ Absent(fromDev, lastEnq) /\ Absent(queue, lastEnq)
  BY <1>3, OutsideIsAbsent DEF AnswerInv
<1>5. Single(toDev, lastEnq) /\ Single(fromDev, lastEnq) /\ Single(queue, lastEnq)
  BY <1>4 DEF Absent, Single
<1>6. BelongTo(toDev, Live') /\ BelongTo(fromDev', Live') /\ BelongTo(queue', Live')
  BY <1>1, <1>3 DEF AnswerInv, BelongTo
<1>7. BelongTo(Append(toDev, Outgoing), Live')
  BY <1>0, <1>3, <1>6, AppendKeeps
<1>8. Absent(Append(toDev, Outgoing), 0) /\ Single(Append(toDev, Outgoing), lastEnq)
  BY <1>0, <1>3, <1>4, AppendKeeps DEF AnswerInv
<1>9. BelongTo(toDev', Live') /\ Absent(toDev', 0) /\ Single(toDev', lastEnq)
  BY <1>1, <1>5, <1>6, <1>7, <1>8 DEF AnswerInv
<1>10. OnePlace(lastSent)'
  BY <1>1, <1>4, <1>5, <1>9 DEF OnePlace
<1> QED
  BY <1>0, <1>1, <1>2, <1>6, <1>9, <1>10 DEF AnswerInv

(***************************************************************************)
(* The invariant is inductive.                                             *)
(***************************************************************************)
LEMMA AnswerStep == ASSUME TypeOK, OrderInv, AnswerInv, [Next]_vars PROVE AnswerInv'
<1> DEFINE Same == UNCHANGED <<lastSent, lastEnq, txBuffer_pending>>
           Fewer == /\ Shrunk(toDev, toDev') /\ Shrunk(fromDev, fromDev')
                    /\ Shrunk(queue, queue')
           Waits == /\ timedOut \subseteq timedOut'
                    /\ Awaiting => (Awaiting' /\ req' = req) \/ req.id \in timedOut'
                    /\ Awaiting' => (Awaiting /\ req' = req /\ mpc # "done") \/ mpc' = "done"
<1>0. ASSUME Same, Fewer, Waits PROVE AnswerInv'
  BY <1>0, QuietKeepsAnswers
<1>a. ASSUME UNCHANGED <<toDev, fromDev>>, queue' \in {queue, <<>>} \/ Replies!Get PROVE Fewer
  BY <1>a DEF Shrunk, Replies!Get
<1>b. ASSUME UNCHANGED main, timedOut \subseteq timedOut' PROVE Waits
  BY <1>b DEF main, Awaiting
<1>1. CASE User
  <2>1. Fewer /\ Same
    <3>1. /\ UNCHANGED <<toDev, fromDev, txBuffer_pending, lastSent, lastEnq>>
          /\ queue' \in {queue, <<>>}
      BY <1>1 DEF User, StartCommand, StartUpload, CmdConnect, Quit, Issue,
                  Replies!Clear, device, tx, rxq, history
    <3> QED
      BY <3>1, <1>a
  <2>2. Waits
    BY <1>1 DEF User, StartCommand, StartUpload, CmdConnect, Quit, Issue, Awaiting, history
  <2> QED
    BY <1>0, <2>1, <2>2
<1>2. CASE NextChunk \/ EndUpload \/ check_comm \/ CloseProxmark \/ OpenedProxmark
  <2>1. Fewer /\ Same
    <3>1. /\ UNCHANGED <<toDev, fromDev, txBuffer_pending, lastSent, lastEnq>>
          /\ queue' \in {queue, <<>>}
      BY <1>2 DEF NextChunk, EndUpload, check_comm, CloseProxmark, OpenedProxmark, Issue,
                  Replies!Clear, device, tx, rxq, history
    <3> QED
      BY <3>1, <1>a
  <2>2. Waits
    BY <1>2 DEF NextChunk, EndUpload, check_comm, CloseProxmark, OpenedProxmark, Issue,
                Awaiting, history
  <2> QED
    BY <1>0, <2>1, <2>2
<1>3. CASE SendWait
  BY <1>0, <1>a, <1>b, <1>3 DEF SendWait, device, rxq, history
<1>4. CASE SendCommand
  <2>1. /\ UNCHANGED <<job, req, toDev, fromDev, queue, lastSent, timedOut>>
        /\ lastEnq' = req.id /\ mpc = "send"
        /\ mpc' = "wait" \/ (mpc' = "close" /\ job = "quit")
    BY <1>4 DEF SendCommand, device, rxq
  <2>2. ~Awaiting /\ Awaiting'
    BY <2>1 DEF Awaiting
  <2>3. (\A i : Expected(i) => Expected(i)') /\ Expected(req.id)'
    BY <2>1, <2>2 DEF Expected, AfterTimeout
  <2>4. Live \subseteq Live'
    BY <2>1, <2>3 DEF Live
  <2>5. BelongTo(toDev', Live') /\ BelongTo(fromDev', Live') /\ BelongTo(queue', Live')
    BY <2>1, <2>4 DEF AnswerInv, BelongTo
  <2>6. lastSent' <= lastEnq'
    <3>1. lastSent <= lastEnq /\ lastEnq < req.id
      BY <2>1 DEF AnswerInv, OrderInv
    <3>2. lastSent \in Nat /\ lastEnq \in Nat /\ req.id \in Nat
      BY DEF TypeOK, HistoryOK, MainOK, Request
    <3> QED
      BY <2>1, <3>1, <3>2
  <2>7. Absent(toDev', 0) /\ (lastSent # 0 => OnePlace(lastSent))'
    BY <2>1 DEF AnswerInv, OnePlace
  <2> QED
    BY <2>1, <2>3, <2>5, <2>6, <2>7 DEF AnswerInv
<1>5. CASE SkipReply
  BY <1>0, <1>a, <1>b, <1>5 DEF SkipReply, device, tx, history
<1>6. CASE AcceptReply
  BY <1>6, AcceptedReply
<1>7. CASE NoReplyYet \/ KeepWaiting
  <2>1. Waits /\ Same
    BY <1>7 DEF NoReplyYet, KeepWaiting, Awaiting, tx, history
  <2>2. Fewer
    BY <1>7, <1>a DEF NoReplyYet, KeepWaiting, device, rxq
  <2> QED
    BY <1>0, <2>1, <2>2
<1>8. CASE Timeout
  <2>1. Waits /\ Same
    BY <1>8 DEF Timeout, Awaiting, tx
  <2>2. Fewer
    BY <1>8, <1>a DEF Timeout, device, rxq
  <2> QED
    BY <1>0, <2>1, <2>2
<1>9. CASE JoinThread
  <2>1. Same /\ Fewer
    BY <1>9 DEF JoinThread, Shrunk, tx, rxq, history
  <2>2. Waits
    BY <1>9 DEF JoinThread, Awaiting, history
  <2> QED
    BY <1>0, <2>1, <2>2
<1>10. CASE OpenProxmark
  <2>1. Same /\ Fewer
    BY <1>10 DEF OpenProxmark, Shrunk, tx, rxq, history
  <2>2. Waits
    BY <1>10 DEF OpenProxmark, Awaiting, history
  <2> QED
    BY <1>0, <2>1, <2>2
<1>11. CASE \/ LoopTop \/ ReceiveNothing \/ ReceiveDamaged \/ AckWait \/ NothingToSend
            \/ ThreadExit
  <2>1. UNCHANGED main /\ UNCHANGED history /\ UNCHANGED queue /\ Same
    BY <1>11 DEF LoopTop, ReceiveNothing, ReceiveDamaged, AckWait, NothingToSend,
                 ThreadExit, tx, rxq, history
  <2>2. UNCHANGED toDev /\ Shrunk(fromDev, fromDev')
    BY <1>11 DEF LoopTop, ReceiveNothing, ReceiveDamaged, AckWait, NothingToSend,
                 ThreadExit, Shrunk, device
  <2> QED
    BY <1>0, <1>b, <2>1, <2>2 DEF history, Shrunk
<1>12. CASE ReceiveFrame
  BY <1>12, ReceivedKeepsAnswers
<1>13. CASE Transmit
  BY <1>13, TransmitKeepsAnswers
<1>14. CASE DeviceServes \/ DeviceSpeaks
  BY <1>14, ServedKeepsAnswers, SpeaksKeepsAnswers
<1>15. CASE Unplug \/ Plug \/ SpuriousWakeup
  <2>1. UNCHANGED main /\ UNCHANGED history /\ Same /\ Fewer
    BY <1>15 DEF Unplug, Plug, SpuriousWakeup, Shrunk, tx, rxq, device, history
  <2> QED
    BY <1>0, <1>b, <2>1 DEF history
<1>16. CASE UNCHANGED vars
  BY <1>0, <1>a, <1>b, <1>16 DEF vars, tx, rxq, device, history
<1> QED
  BY <1>1, <1>2, <1>3, <1>4, <1>5, <1>6, <1>7, <1>8, <1>9, <1>10, <1>11, <1>12,
     <1>13, <1>14, <1>15, <1>16 DEF Next, Console, CommThread, Device

(***************************************************************************)
(* The invariant holds in every state of every behaviour.                  *)
(***************************************************************************)
THEOREM AnswersSound == Spec => [](TypeOK /\ OrderInv /\ AnswerInv)
<1>1. Init => AnswerInv
  BY DEF Init, AnswerInv, Awaiting, BelongTo, Absent, Replies!QueueInit
<1>2. TypeOK /\ OrderInv /\ AnswerInv /\ [Next]_vars => AnswerInv'
  BY AnswerStep
<1> QED
  BY <1>1, <1>2, OrderSound, PTL DEF Spec

(***************************************************************************)
(* WaitForResponseTimeoutW takes the answer to another command for its own *)
(* only after a timeout, of that command or of one before it.              *)
(***************************************************************************)
THEOREM StaleRepliesAreLate == Spec => StaleReplyOnlyAfterTimeout
<1> DEFINE Step == AcceptReply /\ Head(queue).id # req.id
                     => \E t \in timedOut : t <= Head(queue).id
<1>1. TypeOK /\ OrderInv /\ AnswerInv => Step
  BY AcceptedReply DEF AfterTimeout
<1>2. TypeOK /\ OrderInv /\ AnswerInv => [Step]_vars
  BY <1>1
<1> QED
  BY <1>2, AnswersSound, PTL DEF StaleReplyOnlyAfterTimeout

-----------------------------------------------------------------------------
(***************************************************************************)
(* What the two threads' waits rest on: CloseProxmark joins a thread it    *)
(* has told to stop; the communication thread sleeps only in its wait for  *)
(* a command after an acknowledgement; and the console is in the middle of *)
(* a command only for a job that waits for its reply, or for the last one. *)
(***************************************************************************)
WaitInv ==
    /\ mpc = "join" => ~run
    /\ "comm" \in asleep => cpc = "ackwait"
    /\ cpc = "ackwait" => ACK_received
    /\ mpc = "send" => job \in {"command", "forever", "upload", "ping", "capabilities", "quit"}
    /\ mpc \in {"wait", "clock"}
         => job \in {"command", "forever", "upload", "ping", "capabilities"}

(***************************************************************************)
(* The invariant of the waits is inductive.                                *)
(***************************************************************************)
LEMMA WaitStep == ASSUME TypeOK, PortInv, WaitInv, [Next]_vars PROVE WaitInv'
<1> USE DEF WaitInv
<1>1. CASE User
  <2>1. ASSUME NEW c \in Commands, NEW j \in {"command", "forever"}, StartCommand(c, j)
        PROVE  WaitInv'
    BY <2>1 DEF StartCommand, Issue, comm, tx
  <2>2. CASE StartUpload \/ CmdConnect \/ Quit
    BY <2>2 DEF StartUpload, CmdConnect, Quit, Issue, comm, tx
  <2> QED
    BY <1>1, <2>1, <2>2 DEF User
<1>2. CASE NextChunk \/ EndUpload \/ check_comm \/ CloseProxmark \/ OpenedProxmark
  BY <1>2 DEF NextChunk, EndUpload, check_comm, CloseProxmark, OpenedProxmark, Issue, comm, tx
<1>3. CASE SendWait
  BY <1>3 DEF SendWait, main, comm, conn
<1>4. CASE SendCommand
  BY <1>4, SignalOnlyWakes DEF SendCommand, comm, conn
<1>5. CASE SkipReply \/ NoReplyYet \/ KeepWaiting
  BY <1>5 DEF SkipReply, NoReplyYet, KeepWaiting, main, comm, conn, tx
<1>6. CASE AcceptReply
  BY <1>6 DEF AcceptReply, Issue, comm, conn, tx
<1>7. CASE Timeout
  BY <1>7 DEF Timeout, comm, tx
<1>8. CASE JoinThread
  BY <1>8 DEF JoinThread, Joined, tx
<1>9. CASE OpenProxmark
  <2>1. cpc = "none"
    BY <1>9 DEF OpenProxmark, PortInv
  <2> QED
    BY <1>9, <2>1 DEF OpenProxmark, comm, tx
<1>10. CASE LoopTop \/ ReceiveNothing \/ ReceiveFrame \/ ReceiveDamaged \/ ThreadExit
  <2>1. /\ UNCHANGED <<main, run, asleep>> /\ cpc # "ackwait" /\ cpc' # "ackwait"
    BY <1>10 DEF LoopTop, ReceiveNothing, ReceiveFrame, ReceiveDamaged, ThreadExit, conn, tx
  <2> QED
    BY <2>1 DEF main
<1>11. CASE AckWait
  BY <1>11 DEF AckWait, main, conn
<1>12. CASE NothingToSend
  BY <1>12 DEF NothingToSend, main, conn, tx
<1>13. CASE Transmit
  BY <1>13, SignalOnlyWakes DEF Transmit, main
<1>14. CASE Device \/ UNCHANGED vars
  <2>1. UNCHANGED <<main, comm, conn>>
    BY <1>14, DeviceIsApart DEF vars
  <2>2. asleep' \subseteq asleep
    BY <1>14 DEF vars, Device, DeviceServes, DeviceSpeaks, Unplug, Plug, SpuriousWakeup, tx
  <2> QED
    BY <2>1, <2>2 DEF main, comm, conn
<1> QED
  BY <1>1, <1>2, <1>3, <1>4, <1>5, <1>6, <1>7, <1>8, <1>9, <1>10, <1>11, <1>12,
     <1>13, <1>14 DEF Next, Console, CommThread

(***************************************************************************)
(* The invariant holds in every state of every behaviour.                  *)
(***************************************************************************)
THEOREM WaitsSound == Spec => [](TypeOK /\ OrderInv /\ PortInv /\ DeadInv /\ WaitInv)
<1>1. Init => WaitInv
  BY DEF Init, WaitInv
<1>2. TypeOK /\ PortInv /\ WaitInv /\ [Next]_vars => WaitInv'
  BY WaitStep
<1> QED
  BY <1>1, <1>2, OrderSound, ThreadSound, PTL DEF Spec

-----------------------------------------------------------------------------
(***************************************************************************)
(* A console that has a command to send never waits in vain: it can hand   *)
(* the command over, or the communication thread is awake and has a step   *)
(* to take with the previous one, or that thread has ended with a command  *)
(* it did not transmit.                                                    *)
(***************************************************************************)
SenderNotStuck ==
    mpc = "send" =>
      \/ ~txBuffer_pending /\ "main" \notin asleep /\ pm3_present
      \/ /\ txBuffer_pending /\ "comm" \notin asleep
         /\ cpc \in {"top", "receive", "transmit", "ackwait", "exit"}
      \/ txBuffer_pending /\ cpc = "exited"

(***************************************************************************)
(* SendCommandNG's wait on txBufferSig always has an end in sight, unless  *)
(* the communication thread has ended before it.                           *)
(***************************************************************************)
THEOREM SendNeverStuck == Spec => []SenderNotStuck
<1>1. TypeOK /\ OrderInv /\ PortInv => SenderNotStuck
  BY DEF TypeOK, CommOK, OrderInv, WaitersAgree, PortInv, SenderNotStuck
<1> QED
  BY <1>1, OrderSound, ThreadSound, PTL

\* The steps the communication thread takes at most before a sender goes on.
StepsToSend ==
    IF ~txBuffer_pending THEN 0
    ELSE CASE cpc = "top" -> 5 [] cpc = "receive" -> 4
           [] cpc \in {"transmit", "ackwait"} -> 3 [] cpc = "exit" -> 2 [] OTHER -> 1

(***************************************************************************)
(* While the console has a command to send, every step of the communication*)
(* thread brings the end of the pending one nearer, and no step of anyone  *)
(* puts it off: not the frames that come in, nor a cable pulled out.       *)
(***************************************************************************)
SenderServed ==
    [][mpc = "send" /\ mpc' = "send"
         => /\ UNCHANGED <<req, nreq>>
            /\ StepsToSend' <= StepsToSend
            /\ CommThread /\ txBuffer_pending => StepsToSend' < StepsToSend]_vars

(***************************************************************************)
(* The pending command is transmitted, or the thread has ended, after at   *)
(* most four steps of the communication thread.                            *)
(***************************************************************************)
THEOREM SendAdvances == Spec => SenderServed
<1> DEFINE Step == mpc = "send" /\ mpc' = "send"
                     => /\ UNCHANGED <<req, nreq>>
                        /\ StepsToSend' <= StepsToSend
                        /\ CommThread /\ txBuffer_pending => StepsToSend' < StepsToSend
<1>1. ASSUME TypeOK, PortInv, [Next]_vars PROVE [Step]_vars
  <2> SUFFICES ASSUME mpc = "send", mpc' = "send", Next
               PROVE  Step
    BY <1>1
  <2>0. cpc \in {"none", "top", "receive", "transmit", "ackwait", "exit", "exited"}
    BY <1>1 DEF TypeOK, CommOK
  <2>1. CASE CommThread
    <3>1. UNCHANGED <<req, nreq>>
      BY <2>1 DEF CommThread, LoopTop, ReceiveNothing, ReceiveFrame, ReceiveDamaged, AckWait,
                  NothingToSend, Transmit, ThreadExit, main, history
    <3>2. CASE ~txBuffer_pending
      <4>1. ~txBuffer_pending'
        BY <2>1, <3>2 DEF CommThread, LoopTop, ReceiveNothing, ReceiveFrame, ReceiveDamaged,
                          AckWait, NothingToSend, Transmit, ThreadExit, tx
      <4> QED
        BY <3>1, <3>2, <4>1 DEF StepsToSend
    <3>3. CASE txBuffer_pending
      <4>1. \/ ~txBuffer_pending' /\ cpc \in {"transmit", "ackwait"}
            \/ txBuffer_pending' /\ cpc = "top" /\ cpc' \in {"receive", "exit"}
            \/ txBuffer_pending' /\ cpc = "receive" /\ cpc' = "transmit"
            \/ txBuffer_pending' /\ cpc = "exit" /\ cpc' = "exited"
        BY <2>1, <3>3 DEF CommThread, LoopTop, ReceiveNothing, ReceiveFrame, ReceiveDamaged,
                          AckWait, NothingToSend, Transmit, ThreadExit, tx
      <4>2. StepsToSend' < StepsToSend
        BY <3>3, <4>1 DEF StepsToSend
      <4>3. StepsToSend \in Nat /\ StepsToSend' \in Nat
        BY DEF StepsToSend
      <4> QED
        BY <3>1, <4>2, <4>3
    <3> QED
      BY <3>2, <3>3
  <2>2. CASE ~CommThread
    <3>1. UNCHANGED <<req, nreq, cpc, txBuffer_pending>>
      <4>1. CASE Device
        BY <4>1, DeviceIsApart DEF Device, DeviceServes, DeviceSpeaks, Unplug, Plug,
                                   SpuriousWakeup, main, comm, tx, history
      <4>2. CASE Console
        BY <4>2 DEF Console, NextChunk, EndUpload, SendWait, SendCommand, SkipReply, AcceptReply,
                    NoReplyYet, KeepWaiting, Timeout, check_comm, CloseProxmark, JoinThread,
                    OpenProxmark, OpenedProxmark, main, comm, history
      <4>3. ~User
        BY DEF User, StartCommand, StartUpload, CmdConnect, Quit
      <4> QED
        BY <2>2, <4>1, <4>2, <4>3 DEF Next
    <3>2. StepsToSend' = StepsToSend /\ StepsToSend \in Nat
      BY <3>1 DEF StepsToSend
    <3> QED
      BY <2>2, <3>1, <3>2
  <2> QED
    BY <2>1, <2>2
<1> QED
  BY <1>1, ThreadSound, PTL DEF Spec, SenderServed

-----------------------------------------------------------------------------
(***************************************************************************)
(* With the communication thread gone the console still has a way to the   *)
(* close of the connection: check_comm at the prompt, where the death flag *)
(* is set; the timeout of a wait, whatever the command; the next step of   *)
(* an upload or a close.  The exceptions are a wait without a timeout and  *)
(* a command behind one that was not transmitted.                          *)
(***************************************************************************)
DeadNotStuck ==
    cpc = "exited" =>
      \/ mpc \in {"opened", "upload", "close", "join"}
      \/ mpc = "idle" /\ comm_thread_dead /\ pm3_present
      \/ mpc = "send" /\ ~txBuffer_pending /\ "main" \notin asleep /\ pm3_present
      \/ mpc = "wait"
      \/ mpc = "clock" /\ job \in {"ping", "capabilities", "upload", "command"}
      \/ mpc = "clock" /\ job = "forever"
      \/ mpc = "send" /\ txBuffer_pending

(***************************************************************************)
(* A dead thread never leaves the console without a step, but for the two  *)
(* exceptions.                                                             *)
(***************************************************************************)
THEOREM DeadThreadNotStuck == Spec => []DeadNotStuck
<1>1. TypeOK /\ OrderInv /\ PortInv /\ DeadInv /\ WaitInv => DeadNotStuck
  <2> SUFFICES ASSUME TypeOK, OrderInv, PortInv, DeadInv, WaitInv, cpc = "exited"
               PROVE  DeadNotStuck
    BY DEF DeadNotStuck
  <2>1. mpc \notin {"open", "done"} /\ (mpc = "idle" => pm3_present /\ comm_thread_dead)
    BY DEF PortInv, DeadInv
  <2>2. mpc = "send" /\ ~txBuffer_pending => "main" \notin asleep /\ pm3_present
    BY DEF PortInv, OrderInv, WaitersAgree
  <2> QED
    BY <2>1, <2>2 DEF TypeOK, MainOK, WaitInv, DeadNotStuck
<1> QED
  BY <1>1, WaitsSound, PTL

\* How far the console is from the end of CloseProxmark.
Place ==
    CASE mpc = "opened" -> 6 [] mpc \in {"wait", "clock"} -> 5 [] mpc = "upload" -> 4
      [] mpc = "idle" -> 3 [] mpc = "send" -> 2 [] mpc = "close" -> 1 [] OTHER -> 0

\* A step towards that end: the one command a dead thread can still be given
\* is handed over, or the console moves on, or it takes a reply.
Nearer ==
    \/ ~txBuffer_pending /\ txBuffer_pending'
    \/ /\ txBuffer_pending' = txBuffer_pending
       /\ \/ Place' < Place
          \/ Place' = Place /\ Len(queue') < Len(queue)

(***************************************************************************)
(* Once the thread is dead every step of the console and of the user goes  *)
(* towards the close, except those by which the console waits: a look at   *)
(* the clock, and the sleep behind a command that was not transmitted.     *)
(* Nobody can lengthen the way: however many commands the user issues, one *)
(* at most is handed over.                                                 *)
(***************************************************************************)
DeadRunsDown ==
    [][cpc = "exited" /\ cpc' = "exited"
         => \/ Nearer
            \/ /\ UNCHANGED <<txBuffer_pending, Place, queue>>
               /\ Console \/ User => NoReplyYet \/ KeepWaiting \/ SendWait]_vars

(***************************************************************************)
(* The way from the death of the thread to the close of the connection is  *)
(* finite, whatever the user does.                                         *)
(***************************************************************************)
THEOREM DeadThreadRunsDown == Spec => DeadRunsDown
<1> DEFINE Rest == /\ UNCHANGED <<txBuffer_pending, Place, queue>>
                   /\ Console \/ User => NoReplyYet \/ KeepWaiting \/ SendWait
           Step == cpc = "exited" /\ cpc' = "exited" => Nearer \/ Rest
<1>1. ASSUME TypeOK, OrderInv, PortInv, WaitInv, Next, cpc = "exited", cpc' = "exited"
      PROVE  Nearer \/ Rest
  <2>0. queue \in Seq(Reply)
    BY <1>1 DEF TypeOK, RxOK
  <2>1. CASE User
    <3>1. UNCHANGED txBuffer_pending /\ mpc = "idle" /\ mpc' \in {"send", "close"}
      <4>1. pm3_present
        BY <1>1, <2>1 DEF User, StartCommand, StartUpload, CmdConnect, Quit, PortInv
      <4> QED
        BY <2>1, <4>1 DEF User, StartCommand, StartUpload, CmdConnect, Quit, Issue, tx
    <3> QED
      BY <3>1 DEF Nearer, Place
  <2>2. CASE NextChunk \/ EndUpload \/ check_comm \/ CloseProxmark \/ OpenedProxmark
    <3>1. /\ UNCHANGED txBuffer_pending
          /\ \/ mpc = "upload" /\ mpc' \in {"send", "idle"}
             \/ mpc = "idle" /\ mpc' = "close"
             \/ mpc = "close" /\ mpc' = "join"
             \/ mpc = "opened" /\ mpc' = "send"
      BY <2>2 DEF NextChunk, EndUpload, check_comm, CloseProxmark, OpenedProxmark, Issue, tx
    <3> QED
      BY <3>1 DEF Nearer, Place
  <2>3. CASE SendCommand
    BY <2>3 DEF SendCommand, Nearer
  <2>4. CASE SkipReply
    <3>1. Len(queue') < Len(queue)
      BY <2>0, <2>4, HeadTailProperties DEF SkipReply, Replies!Get
    <3> QED
      BY <2>4, <3>1 DEF SkipReply, Nearer, Place, main, tx
  <2>5. CASE AcceptReply
    <3>1. /\ UNCHANGED txBuffer_pending /\ mpc = "wait"
          /\ mpc' \in {"send", "upload", "close", "idle"}
      BY <2>5 DEF AcceptReply, Issue, tx
    <3> QED
      BY <3>1 DEF Nearer, Place
  <2>6. CASE Timeout
    <3>1. UNCHANGED txBuffer_pending /\ mpc = "clock" /\ mpc' \in {"close", "idle"}
      BY <2>6 DEF Timeout, tx
    <3> QED
      BY <3>1 DEF Nearer, Place
  <2>7. CASE NoReplyYet \/ KeepWaiting \/ SendWait
    <3>1. /\ UNCHANGED <<txBuffer_pending, queue>>
          /\ mpc' = mpc \/ {mpc, mpc'} \subseteq {"wait", "clock"}
      BY <2>7 DEF NoReplyYet, KeepWaiting, SendWait, Replies!Get, main, tx, rxq
    <3> QED
      BY <2>7, <3>1 DEF Place
  <2>8. ~JoinThread /\ ~OpenProxmark
    BY <1>1 DEF JoinThread, OpenProxmark, PortInv
  <2>9. CASE ~(Console \/ User)
    <3>1. UNCHANGED <<mpc, txBuffer_pending, queue>>
      <4>1. ~CommThread
        BY <1>1 DEF CommThread, LoopTop, ReceiveNothing, ReceiveFrame, ReceiveDamaged, AckWait,
                    NothingToSend, Transmit, ThreadExit, WaitInv
      <4>2. Device
        BY <1>1, <2>9, <4>1 DEF Next
      <4> QED
        BY <4>2, DeviceIsApart DEF Device, DeviceServes, DeviceSpeaks, Unplug, Plug,
                                   SpuriousWakeup, main, rxq, tx
    <3> QED
      BY <2>9, <3>1 DEF Place
  <2> QED
    BY <2>1, <2>2, <2>3, <2>4, <2>5, <2>6, <2>7, <2>8, <2>9 DEF Console
<1>2. TypeOK /\ OrderInv /\ PortInv /\ WaitInv /\ [Next]_vars => [Step]_vars
  BY <1>1
<1> QED
  BY <1>2, WaitsSound, PTL DEF Spec, DeadRunsDown

-----------------------------------------------------------------------------
(***************************************************************************)
(* While CloseProxmark waits for the thread to end, that thread has ended, *)
(* or is awake with a step to take, or sleeps in fast push mode's wait for *)
(* a command, with nobody left to send one.                                *)
(***************************************************************************)
CloseNotStuck ==
    mpc = "join" =>
      \/ cpc = "exited"
      \/ cpc \in {"top", "receive", "transmit", "ackwait", "exit"} /\ "comm" \notin asleep
      \/ cpc = "ackwait" /\ ACK_received /\ "comm" \in asleep /\ ~txBuffer_pending

(***************************************************************************)
(* pthread_join in CloseProxmark has one way to hang, the sleep after an   *)
(* acknowledgement.                                                        *)
(***************************************************************************)
THEOREM CloseHangsOnlyAsleep == Spec => []CloseNotStuck
<1>1. TypeOK /\ OrderInv /\ PortInv /\ WaitInv => CloseNotStuck
  BY DEF TypeOK, CommOK, OrderInv, WaitersAgree, PortInv, WaitInv, CloseNotStuck
<1> QED
  BY <1>1, WaitsSound, PTL

\* The steps the communication thread takes at most before it has ended.
StepsToEnd ==
    CASE cpc = "receive" -> 4 [] cpc \in {"transmit", "ackwait"} -> 3
      [] cpc = "top" -> 2 [] cpc = "exit" -> 1 [] OTHER -> 0

(***************************************************************************)
(* Told to stop, the communication thread comes nearer to its end with     *)
(* every step but that into the sleep of the fast push mode, and no frame  *)
(* of the device, no pulled cable and no spurious wake-up takes it back.   *)
(***************************************************************************)
CloseAdvances ==
    [][mpc = "join" /\ mpc' = "join"
         => /\ StepsToEnd' <= StepsToEnd
            /\ CommThread => StepsToEnd' < StepsToEnd \/ AckWait]_vars

(***************************************************************************)
(* Outside of that sleep, CloseProxmark returns after at most four steps   *)
(* of the communication thread.                                            *)
(***************************************************************************)
THEOREM ClosingAdvances == Spec => CloseAdvances
<1> DEFINE Step == mpc = "join" /\ mpc' = "join"
                     => /\ StepsToEnd' <= StepsToEnd
                        /\ CommThread => StepsToEnd' < StepsToEnd \/ AckWait
<1>1. ASSUME PortInv, WaitInv, Next, mpc = "join", mpc' = "join" PROVE Step
  <2>1. CASE CommThread
    <3>1. \/ cpc = "top" /\ cpc' = "exit"
          \/ cpc = "receive" /\ cpc' = "transmit"
          \/ cpc \in {"transmit", "ackwait"} /\ cpc' = "top"
          \/ cpc = "exit" /\ cpc' = "exited"
          \/ AckWait
      BY <1>1, <2>1 DEF CommThread, LoopTop, ReceiveNothing, ReceiveFrame, ReceiveDamaged,
                        NothingToSend, Transmit, ThreadExit, WaitInv
    <3>2. AckWait => cpc \in {"transmit", "ackwait"} /\ cpc' = "ackwait"
      BY DEF AckWait
    <3> QED
      BY <3>1, <3>2 DEF StepsToEnd
  <2>2. CASE ~CommThread
    <3>1. cpc' = cpc
      <4>1. CASE Device
        BY <4>1, DeviceIsApart DEF comm
      <4>2. ~Console /\ ~User
        BY <1>1 DEF Console, NextChunk, EndUpload, SendWait, SendCommand, SkipReply, AcceptReply,
                    NoReplyYet, KeepWaiting, Timeout, check_comm, CloseProxmark, JoinThread,
                    OpenProxmark, OpenedProxmark, User, StartCommand, StartUpload, CmdConnect, Quit
      <4> QED
        BY <1>1, <2>2, <4>1, <4>2 DEF Next
    <3> QED
      BY <2>2, <3>1 DEF StepsToEnd
  <2> QED
    BY <2>1, <2>2
<1>2. PortInv /\ WaitInv /\ [Next]_vars => [Step]_vars
  BY <1>1
<1> QED
  BY <1>2, WaitsSound, PTL DEF Spec, CloseAdvances
=============================================================================
