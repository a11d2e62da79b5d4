----------------------------- MODULE ClientComms ----------------------------
(***************************************************************************)
(* The client's two threads and what they share (client/src/comms.c).      *)
(*                                                                         *)
(* The console thread ("main") runs console commands: it sends a command   *)
(* to the device (SendCommandNG, SendCommandOLD), waits for the reply      *)
(* (WaitForResponseTimeoutW), uploads data in fast push mode, opens,       *)
(* tests and closes the connection (CmdConnect, OpenProxmark, TestProxmark,*)
(* CloseProxmark), and, at the prompt only, notices that the other thread  *)
(* has died (check_comm).  The communication thread ("comm") is            *)
(* uart_communication: it receives a frame, stores it for the console,     *)
(* and transmits the pending command.  A critical section is one action    *)
(* unless it sleeps on the condition variable txBufferSig.  The reply      *)
(* buffer is the queue of ReplyQueue, which the ring of ReplyBuffer is     *)
(* shown to implement.                                                     *)
(*                                                                         *)
(* The device, the cable and the serial driver are external: the device    *)
(* answers a command or ignores it, speaks unasked, and comes and goes.    *)
(***************************************************************************)
EXTENDS Integers, Sequences

CONSTANTS Commands,        \* commands answered by an NG frame of the same name
          PayloadLengths,  \* lengths of a reply's payload
          CMD_BUFFER_SIZE, \* slots of the reply ring
          NoReply,         \* an empty reply slot
          MaxRequests,     \* bound: commands the console issues
          MaxPlugs,        \* bound: times the device is plugged in
          MaxInFlight      \* bound: frames on their way to the client

ASSUME BoundsAssumption ==
    /\ CMD_BUFFER_SIZE \in Nat /\ CMD_BUFFER_SIZE >= 2
    /\ MaxRequests \in Nat /\ MaxPlugs \in Nat \ {0} /\ MaxInFlight \in Nat
    /\ PayloadLengths \subseteq Nat

\* These are only ever sent by the device, and never asked for.
ASSUME CommandsAssumption == Commands \cap {"ACK", "WTX", "DEBUG_PRINT"} = {}

VARIABLES
    mpc, job, req,                                  \* the console thread
    cpc, commfailed, ACK_received, rx_length,       \* the communication thread
    run, block_after_ACK, last_command,             \* conn
    comm_thread_dead, pm3_present, sp,              \* shared, no lock
    txBuffer, txBufferNG, txBufferNGLen, txBuffer_pending,  \* txBufferMutex
    asleep,                 \* threads asleep on txBufferSig and not signalled
    queue, packet,                                  \* rxBufferMutex
    link, plugs, toDev, fromDev,                    \* external
    nreq, lastEnq, lastSent, timedOut               \* history

main == <<mpc, job, req>>
comm == <<cpc, commfailed, ACK_received, rx_length>>
conn == <<run, block_after_ACK, last_command>>
shared == <<comm_thread_dead, pm3_present, sp>>
tx == <<txBuffer, txBufferNG, txBufferNGLen, txBuffer_pending, asleep>>
rxq == <<queue, packet>>
device == <<link, plugs, toDev, fromDev>>
history == <<nreq, lastEnq, lastSent, timedOut>>
vars == <<main, comm, conn, shared, tx, rxq, device, history>>

Cmd == Commands \cup {"PING", "CAPABILITIES", "QUIT_SESSION", "FLASHMEM_WRITE"}
ReplyCmd == Cmd \cup {"ACK", "WTX", "DEBUG_PRINT"}
Request == [id : Nat, cmd : Cmd, ng : BOOLEAN]
Frame == [style : {"NG", "MIX", "OLD"}, cmd : ReplyCmd, id : Nat, len : PayloadLengths]
Reply == [cmd : ReplyCmd, id : Nat, len : PayloadLengths, sent : PayloadLengths]

NoRequest == [id |-> 0, cmd |-> "QUIT_SESSION", ng |-> TRUE]

Replies == INSTANCE ReplyQueue WITH Capacity <- CMD_BUFFER_SIZE - 1

MainOK ==
    /\ mpc \in {"idle", "send", "wait", "clock", "upload", "close", "join",
                "open", "opened", "done"}
    /\ job \in {"none", "command", "forever", "upload", "ping", "capabilities",
                "quit", "drop", "connect"}
    /\ req \in Request

CommOK ==
    /\ cpc \in {"none", "top", "receive", "transmit", "ackwait", "exit", "exited"}
    /\ commfailed \in BOOLEAN /\ ACK_received \in BOOLEAN
    /\ rx_length \in PayloadLengths

ConnOK == run \in BOOLEAN /\ block_after_ACK \in BOOLEAN /\ last_command \in Cmd

SharedOK ==
    comm_thread_dead \in BOOLEAN /\ pm3_present \in BOOLEAN /\ sp \in 0 .. MaxPlugs

TxOK ==
    /\ txBuffer \in Request /\ txBufferNG \in Request
    /\ txBufferNGLen \in BOOLEAN /\ txBuffer_pending \in BOOLEAN
    /\ asleep \subseteq {"main", "comm"}

RxOK == queue \in Seq(Reply) /\ packet \in Reply \cup {NoReply}

DeviceOK ==
    /\ link \in 0 .. MaxPlugs /\ plugs \in 0 .. MaxPlugs
    /\ toDev \in Seq(Request) /\ fromDev \in Seq(Frame)

HistoryOK ==
    nreq \in Nat /\ lastEnq \in Nat /\ lastSent \in Nat /\ timedOut \subseteq Nat

TypeOK ==
    MainOK /\ CommOK /\ ConnOK /\ SharedOK /\ TxOK /\ RxOK /\ DeviceOK /\ HistoryOK

Init ==
    /\ mpc = "idle" /\ job = "none" /\ req = NoRequest
    /\ cpc = "none" /\ commfailed = FALSE /\ ACK_received = FALSE
    /\ rx_length \in PayloadLengths
    /\ run = FALSE /\ block_after_ACK = FALSE /\ last_command = "QUIT_SESSION"
    /\ comm_thread_dead = FALSE /\ pm3_present = FALSE /\ sp = 0
    /\ txBuffer = NoRequest /\ txBufferNG = NoRequest
    /\ txBufferNGLen = FALSE /\ txBuffer_pending = FALSE /\ asleep = {}
    /\ Replies!QueueInit
    /\ link = 1 /\ plugs = 1 /\ toDev = <<>> /\ fromDev = <<>>
    /\ nreq = 0 /\ lastEnq = 0 /\ lastSent = 0 /\ timedOut = {}

BuggySignal == UNCHANGED asleep

\* pthread_cond_signal(&txBufferSig): wakes one sleeper, if there is one.
Signal ==
    \/ asleep = {} /\ UNCHANGED asleep
    \/ \E t \in asleep : asleep' = asleep \ {t}

-----------------------------------------------------------------------------
(* The console thread *)

BuggyAwaited == IF queue = <<>> THEN req.cmd ELSE Head(queue).cmd

\* The reply a command waits for; uploads are answered by a plain CMD_ACK.
Awaited == IF req.cmd = "FLASHMEM_WRITE" THEN "ACK" ELSE req.cmd

\* The console thread is about to send the next command, for job j.
Issue(cmd, ng, j) ==
    /\ nreq' = nreq + 1
    /\ req' = [id |-> nreq + 1, cmd |-> cmd, ng |-> ng]
    /\ job' = j /\ mpc' = "send"
    /\ UNCHANGED <<lastEnq, lastSent, timedOut>>

\* A console command that clears the reply buffer, sends and waits, with a
\* timeout (WaitForResponseTimeout) or without one (WaitForResponse).
StartCommand(c, j) ==
    /\ mpc = "idle" /\ pm3_present /\ nreq < MaxRequests
    /\ Replies!Clear /\ Issue(c, TRUE, j)
    /\ UNCHANGED <<comm, conn, shared, tx, device>>

\* Fast push mode: an upload in chunks, each acknowledged (CmdFlashMemLoad).
StartUpload ==
    /\ mpc = "idle" /\ pm3_present /\ nreq < MaxRequests
    /\ block_after_ACK' = TRUE
    /\ Replies!Clear /\ Issue("FLASHMEM_WRITE", FALSE, "upload")
    /\ UNCHANGED <<comm, run, last_command, shared, tx, device>>

NextChunk ==
    /\ mpc = "upload" /\ nreq < MaxRequests
    /\ Replies!Clear /\ Issue("FLASHMEM_WRITE", FALSE, "upload")
    /\ UNCHANGED <<comm, conn, shared, tx, device>>

EndUpload ==
    /\ mpc = "upload" /\ mpc' = "idle" /\ job' = "none"
    /\ block_after_ACK' = FALSE
    /\ UNCHANGED <<req, comm, run, last_command, shared, tx, rxq, device, history>>

BuggyFillTxBuffer ==
    IF req.ng THEN txBufferNG' = req /\ UNCHANGED <<txBuffer, txBufferNGLen>>
              ELSE txBuffer' = req /\ UNCHANGED <<txBufferNG, txBufferNGLen>>

\* The buffer a command is put in: NG and MIX frames have their own.
FillTxBuffer ==
    IF req.ng THEN /\ txBufferNG' = req /\ txBufferNGLen' = TRUE
                   /\ UNCHANGED txBuffer
              ELSE txBuffer' = req /\ UNCHANGED <<txBufferNG, txBufferNGLen>>

\* SendCommandOLD and SendCommandNG_internal: while the previous command is
\* pending, sleep on txBufferSig ...
SendWait ==
    /\ mpc = "send" /\ "main" \notin asleep /\ txBuffer_pending
    /\ asleep' = asleep \cup {"main"}
    /\ UNCHANGED <<main, comm, conn, shared, txBuffer, txBufferNG,
                   txBufferNGLen, txBuffer_pending, rxq, device, history>>

\* ... else hand the command over.  CMD_QUIT_SESSION is not answered.
SendCommand ==
    /\ mpc = "send" /\ "main" \notin asleep /\ ~txBuffer_pending
    /\ pm3_present
    /\ FillTxBuffer
    /\ txBuffer_pending' = TRUE
    /\ Signal
    /\ lastEnq' = req.id
    /\ mpc' = IF job = "quit" THEN "close" ELSE "wait"
    /\ UNCHANGED <<job, req, comm, conn, shared, rxq, device, nreq, lastSent, timedOut>>

\* WaitForResponseTimeoutW takes replies until one has the awaited command.
SkipReply ==
    /\ mpc = "wait" /\ queue # <<>> /\ Head(queue).cmd # Awaited
    /\ Replies!Get
    /\ UNCHANGED <<main, comm, conn, shared, tx, device, history>>

\* The awaited reply is there.  TestProxmark goes on to its second command,
\* or fails on the content of a reply and the connection is closed.
AcceptReply ==
    /\ mpc = "wait" /\ queue # <<>> /\ Head(queue).cmd = Awaited
    /\ Replies!Get
    /\ \/ /\ job = "ping" /\ Issue("CAPABILITIES", TRUE, "capabilities")
       \/ /\ job = "upload" /\ mpc' = "upload"
          /\ UNCHANGED <<job, req, history>>
       \/ /\ job \in {"ping", "capabilities"} /\ mpc' = "close" /\ job' = "drop"
          /\ UNCHANGED <<req, history>>
       \/ /\ job \notin {"ping", "upload"} /\ mpc' = "idle" /\ job' = "none"
          /\ UNCHANGED <<req, history>>
    /\ UNCHANGED <<comm, conn, shared, tx, device>>

\* The buffer is empty: look at the clock.
NoReplyYet ==
    /\ mpc = "wait" /\ queue = <<>> /\ mpc' = "clock"
    /\ Replies!Get
    /\ UNCHANGED <<job, req, comm, conn, shared, tx, device, history>>

KeepWaiting ==
    /\ mpc = "clock" /\ mpc' = "wait"
    /\ UNCHANGED <<job, req, comm, conn, shared, tx, rxq, device, history>>

\* The wait ends without a reply.  An upload leaves fast push mode; a failed
\* TestProxmark closes the connection.
Timeout ==
    /\ mpc = "clock" /\ job # "forever"
    /\ timedOut' = timedOut \cup {req.id}
    /\ \/ /\ job \in {"ping", "capabilities"}
          /\ mpc' = "close" /\ job' = "drop" /\ UNCHANGED conn
       \/ /\ job = "upload" /\ block_after_ACK' = FALSE
          /\ mpc' = "idle" /\ job' = "none" /\ UNCHANGED <<run, last_command>>
       \/ /\ job = "command"
          /\ mpc' = "idle" /\ job' = "none" /\ UNCHANGED conn
    /\ UNCHANGED <<req, comm, shared, tx, rxq, device, nreq, lastEnq, lastSent>>

\* check_comm, run by the prompt: the communication thread gave up.
check_comm ==
    /\ mpc = "idle" /\ comm_thread_dead /\ pm3_present
    /\ mpc' = "close" /\ job' = "drop"
    /\ UNCHANGED <<req, comm, conn, shared, tx, rxq, device, history>>

\* "hw connect": close the connection if there is one, then open it.
CmdConnect ==
    /\ mpc = "idle" /\ nreq + 2 <= MaxRequests
    /\ mpc' = IF pm3_present THEN "close" ELSE "open"
    /\ job' = "connect"
    /\ UNCHANGED <<req, comm, conn, shared, tx, rxq, device, history>>

\* The end of main_loop.
Quit ==
    /\ mpc = "idle"
    /\ \/ /\ pm3_present /\ Replies!Clear /\ Issue("QUIT_SESSION", TRUE, "quit")
       \/ /\ ~pm3_present /\ mpc' = "done" /\ UNCHANGED <<job, req, rxq, history>>
    /\ UNCHANGED <<comm, conn, shared, tx, device>>

\* CloseProxmark asks the communication thread to stop ...
CloseProxmark ==
    /\ mpc = "close" /\ mpc' = "join"
    /\ run' = FALSE
    /\ UNCHANGED <<job, req, comm, block_after_ACK, last_command, shared, tx,
                   rxq, device, history>>

BuggyJoined == TRUE

\* ... and waits for its end (pthread_join) before it touches the port.
Joined == cpc = "exited"

JoinThread ==
    /\ mpc = "join" /\ Joined
    /\ sp' = 0 /\ pm3_present' = FALSE
    /\ cpc' = IF cpc = "exited" THEN "none" ELSE cpc
    /\ fromDev' = IF sp # 0 THEN <<>> ELSE fromDev
    /\ mpc' = CASE job = "connect" -> "open" [] job = "quit" -> "done" [] OTHER -> "idle"
    /\ job' = IF job = "connect" THEN job ELSE "none"
    /\ UNCHANGED <<req, commfailed, ACK_received, rx_length, conn,
                   comm_thread_dead, tx, rxq, link, plugs, toDev, history>>

\* OpenProxmark: open the port and start the communication thread, whose
\* local reply has not been written yet ...
OpenProxmark ==
    /\ mpc = "open"
    /\ \/ /\ link = 0 /\ mpc' = "idle" /\ job' = "none"
          /\ UNCHANGED <<comm, conn, sp, fromDev>>
       \/ /\ link # 0 /\ sp' = link /\ fromDev' = <<>>
          /\ run' = TRUE /\ block_after_ACK' = FALSE
          /\ cpc' = "top" /\ commfailed' = FALSE /\ ACK_received' = FALSE
          /\ rx_length' \in PayloadLengths
          /\ mpc' = "opened" /\ UNCHANGED <<job, last_command>>
    /\ UNCHANGED <<req, comm_thread_dead, pm3_present, tx, rxq, link, plugs,
                   toDev, history>>

\* ... then, with the thread already running, reset its death flag.
\* TestProxmark follows with its ping.
OpenedProxmark ==
    /\ mpc = "opened"
    /\ comm_thread_dead' = FALSE /\ pm3_present' = TRUE
    /\ Replies!Clear /\ Issue("PING", TRUE, "ping")
    /\ UNCHANGED <<comm, conn, sp, tx, device>>

Console == NextChunk \/ EndUpload \/ SendWait \/ SendCommand \/ SkipReply \/ AcceptReply
           \/ NoReplyYet \/ KeepWaiting \/ Timeout \/ check_comm
           \/ CloseProxmark \/ JoinThread \/ OpenProxmark \/ OpenedProxmark

User == \/ \E c \in Commands, j \in {"command", "forever"} : StartCommand(c, j)
        \/ StartUpload \/ CmdConnect \/ Quit

-----------------------------------------------------------------------------
(* The communication thread *)

PortAlive == sp # 0 /\ sp = link

BuggyLoopTop ==
    /\ cpc = "top"
    /\ cpc' = IF run /\ ~commfailed THEN "receive" ELSE "exit"
    /\ ACK_received' = FALSE
    /\ UNCHANGED <<main, commfailed, rx_length, conn, shared, tx, rxq, device, history>>

\* The head of the loop: stop when told to, report a dead link and stop.
LoopTop ==
    /\ cpc = "top"
    /\ cpc' = IF run /\ ~commfailed THEN "receive" ELSE "exit"
    /\ comm_thread_dead' = (comm_thread_dead \/ (run /\ commfailed))
    /\ ACK_received' = FALSE
    /\ UNCHANGED <<main, commfailed, rx_length, conn, pm3_present, sp, tx, rxq,
                   device, history>>

\* Nothing came in before the port's read timeout, or the port is gone.
ReceiveNothing ==
    /\ cpc = "receive" /\ (PortAlive => fromDev = <<>>)
    /\ commfailed' = ~PortAlive
    /\ cpc' = "transmit"
    /\ UNCHANGED <<main, ACK_received, rx_length, conn, shared, tx, rxq, device, history>>

\* Whether a frame counts as the acknowledgement of the last command; an NG
\* frame does not if its status is an error, which is left open here.
Acks(f) == IF f.style = "NG" THEN {f.cmd = last_command /\ f.len > 0, FALSE}
                             ELSE {f.cmd = "ACK"}

BuggyRxLength(f) == IF f.len > 0 THEN f.len + 2 ELSE rx_length

\* rx.length is only assigned when there is a payload.
RxLength(f) == IF f.len > 0 THEN f.len ELSE rx_length

\* PacketResponseReceived prints debug messages and stores all the rest.
Stores(f) == f.cmd # "DEBUG_PRINT"

ReceiveFrame ==
    /\ cpc = "receive" /\ PortAlive /\ fromDev # <<>>
    /\ LET f == Head(fromDev) IN
         /\ IF Stores(f)
            THEN Replies!Store([cmd |-> f.cmd, id |-> f.id, len |-> RxLength(f), sent |-> f.len])
            ELSE UNCHANGED rxq
         /\ rx_length' = RxLength(f)
         /\ ACK_received' \in Acks(f)
    /\ fromDev' = Tail(fromDev) /\ cpc' = "transmit"
    /\ UNCHANGED <<main, commfailed, conn, shared, tx, link, plugs, toDev, history>>

\* A frame cut short or with a bad CRC is dropped; an NG or MIX frame whose
\* payload was complete has by then been taken for an acknowledgement.  The code
\* does not resynchronise: the frames behind may be lost as well, which is this
\* action again; that a piece of one is taken for a frame is left out.
ReceiveDamaged ==
    /\ cpc = "receive" /\ PortAlive /\ fromDev # <<>>
    /\ LET f == Head(fromDev) IN
         \/ UNCHANGED <<rx_length, ACK_received>>
         \/ /\ f.style # "OLD"
            /\ rx_length' = RxLength(f) /\ ACK_received' \in Acks(f)
    /\ fromDev' = Tail(fromDev) /\ cpc' = "transmit"
    /\ UNCHANGED <<main, commfailed, conn, shared, tx, rxq, link, plugs, toDev, history>>

BuggyAckWait ==
    /\ "comm" \notin asleep
    /\ \/ cpc = "transmit" /\ block_after_ACK /\ ACK_received
       \/ cpc = "ackwait"
    /\ cpc' = "ackwait" /\ asleep' = asleep \cup {"comm"}
    /\ UNCHANGED <<main, commfailed, ACK_received, rx_length, conn, shared,
                   txBuffer, txBufferNG, txBufferNGLen, txBuffer_pending, rxq,
                   device, history>>

\* The fast push mode sleeps after an acknowledgement until there is a
\* command to send.
AckWait ==
    /\ "comm" \notin asleep /\ ~txBuffer_pending
    /\ \/ cpc = "transmit" /\ block_after_ACK /\ ACK_received
       \/ cpc = "ackwait"
    /\ cpc' = "ackwait" /\ asleep' = asleep \cup {"comm"}
    /\ UNCHANGED <<main, commfailed, ACK_received, rx_length, conn, shared,
                   txBuffer, txBufferNG, txBufferNGLen, txBuffer_pending, rxq,
                   device, history>>

NothingToSend ==
    /\ cpc = "transmit" /\ ~txBuffer_pending /\ ~(block_after_ACK /\ ACK_received)
    /\ cpc' = "top"
    /\ UNCHANGED <<main, commfailed, ACK_received, rx_length, conn, shared, tx,
                   rxq, device, history>>

Outgoing == IF txBufferNGLen THEN txBufferNG ELSE txBuffer

\* Transmit the pending command and tell the console thread.
Transmit ==
    /\ cpc \in {"transmit", "ackwait"} /\ "comm" \notin asleep /\ txBuffer_pending
    /\ \/ PortAlive /\ toDev' = Append(toDev, Outgoing) /\ UNCHANGED commfailed
       \/ ~PortAlive /\ commfailed' = TRUE /\ UNCHANGED toDev
    /\ last_command' = Outgoing.cmd /\ lastSent' = Outgoing.id
    /\ txBufferNGLen' = FALSE /\ txBuffer_pending' = FALSE
    /\ Signal
    /\ cpc' = "top"
    /\ UNCHANGED <<main, ACK_received, rx_length, run, block_after_ACK, shared,
                   txBuffer, txBufferNG, rxq, link, plugs, fromDev, nreq,
                   lastEnq, timedOut>>

\* The end of the thread closes the port.
ThreadExit ==
    /\ cpc = "exit" /\ cpc' = "exited"
    /\ sp' = 0 /\ fromDev' = IF PortAlive THEN <<>> ELSE fromDev
    /\ UNCHANGED <<main, commfailed, ACK_received, rx_length, conn,
                   comm_thread_dead, pm3_present, tx, rxq, link, plugs, toDev,
                   history>>

CommThread == LoopTop \/ ReceiveNothing \/ ReceiveFrame \/ ReceiveDamaged
              \/ AckWait \/ NothingToSend \/ Transmit \/ ThreadExit

-----------------------------------------------------------------------------
(* The device and its cable (external) *)

Answer(r) ==
    IF r.cmd = "FLASHMEM_WRITE"
    THEN [style : {"MIX", "OLD"}, cmd : {"ACK"}, id : {r.id}, len : PayloadLengths \ {0}]
    ELSE [style : {"NG"}, cmd : {r.cmd}, id : {r.id}, len : PayloadLengths]

\* The device takes a command and answers it, or does not.
DeviceServes ==
    /\ link # 0 /\ toDev # <<>> /\ Len(fromDev) < MaxInFlight
    /\ toDev' = Tail(toDev)
    /\ \/ \E f \in Answer(Head(toDev)) : fromDev' = Append(fromDev, f)
       \/ UNCHANGED fromDev
    /\ UNCHANGED <<main, comm, conn, shared, tx, rxq, link, plugs, history>>

\* Debug messages and waiting time extensions come unasked.
DeviceSpeaks ==
    /\ link # 0 /\ toDev # <<>> /\ Len(fromDev) < MaxInFlight
    /\ \E c \in {"WTX", "DEBUG_PRINT"}, n \in PayloadLengths \ {0} :
         fromDev' = Append(fromDev, [style |-> "NG", cmd |-> c, id |-> 0, len |-> n])
    /\ UNCHANGED <<main, comm, conn, shared, tx, rxq, link, plugs, toDev, history>>

Unplug ==
    /\ link # 0 /\ link' = 0 /\ toDev' = <<>> /\ fromDev' = <<>>
    /\ UNCHANGED <<main, comm, conn, shared, tx, rxq, plugs, history>>

Plug ==
    /\ link = 0 /\ plugs < MaxPlugs
    /\ link' = plugs + 1 /\ plugs' = plugs + 1
    /\ UNCHANGED <<main, comm, conn, shared, tx, rxq, toDev, fromDev, history>>

\* pthread_cond_wait may return without a signal.
SpuriousWakeup ==
    /\ \E t \in asleep : asleep' = asleep \ {t}
    /\ UNCHANGED <<main, comm, conn, shared, txBuffer, txBufferNG, txBufferNGLen,
                   txBuffer_pending, rxq, device, history>>

Device == DeviceServes \/ DeviceSpeaks \/ Unplug \/ Plug \/ SpuriousWakeup

-----------------------------------------------------------------------------
Next == Console \/ User \/ CommThread \/ Device

Spec == Init /\ [][Next]_vars

(***************************************************************************)
(* Both threads are scheduled, and the clock of a wait with a timeout runs *)
(* out.  Nothing is assumed of the user, the device or its cable.          *)
(***************************************************************************)
Fairness == WF_vars(Console) /\ SF_vars(Timeout) /\ WF_vars(CommThread)

FairSpec == Spec /\ Fairness

-----------------------------------------------------------------------------
(***************************************************************************)
(* The two threads sleep on one condition variable and pthread_cond_signal *)
(* wakes one of them.  No wake-up is lost, because the console sleeps only *)
(* while a command is pending and the communication thread only while none *)
(* is: never both, and never with what they wait for already true.         *)
(***************************************************************************)
WaitersAgree ==
    /\ "main" \in asleep => txBuffer_pending
    /\ "comm" \in asleep => ~txBuffer_pending

(***************************************************************************)
(* Each command handed over by SendCommand is transmitted once, in order,  *)
(* from the buffer it was put in (OLD or NG): what uart_communication sends*)
(* is always the latest command, and there is never a newer one before it  *)
(* is sent.                                                                *)
(***************************************************************************)
CommandsOnceInOrder ==
    [][/\ lastSent' # lastSent => lastSent' = lastEnq /\ lastSent < lastEnq
       /\ lastEnq' # lastEnq => lastSent = lastEnq]_vars

(***************************************************************************)
(* The serial port and its thread: uart_communication only uses an open    *)
(* port, and a connection is only opened, or reported absent at the        *)
(* prompt, once the previous thread has been joined.                       *)
(***************************************************************************)
PortBelongsToThread ==
    /\ cpc \in {"receive", "transmit", "ackwait"} => sp # 0
    /\ mpc = "open" \/ (mpc = "idle" /\ ~pm3_present) => cpc = "none" /\ sp = 0

(***************************************************************************)
(* OpenProxmark clears the death flag after it has started the thread, so  *)
(* a thread that dies at once loses its flag.  The ping of TestProxmark    *)
(* makes up for it: at the prompt, a thread that has ended is flagged, and *)
(* check_comm will close the connection.                                   *)
(***************************************************************************)
DeadThreadIsFlagged == mpc = "idle" /\ cpc = "exited" => comm_thread_dead

(***************************************************************************)
(* A reply carries no request number, only a command.  A wait is answered  *)
(* by the reply to an earlier command only if that one, or one before it,  *)
(* timed out: after a timeout every later reply may be off by one.         *)
(***************************************************************************)
StaleReplyOnlyAfterTimeout ==
    [][AcceptReply /\ Head(queue).id # req.id
         => \E t \in timedOut : t <= Head(queue).id]_vars

(***************************************************************************)
(* A console thread that has a command to send gets to send it, unless the *)
(* communication thread has ended.                                         *)
(***************************************************************************)
SenderWaitsForLiveThread == mpc = "send" ~> mpc # "send" \/ cpc = "exited"

(***************************************************************************)
(* uart_communication leaves a dead link to the main thread, which "will   *)
(* kill and restart this thread".  It does, unless it is in a wait without *)
(* timeout or behind a command the dead thread did not transmit: only the  *)
(* prompt looks at the flag.                                               *)
(***************************************************************************)
DeadThreadIsClosed ==
    cpc = "exited" ~> \/ ~pm3_present
                      \/ mpc = "wait" /\ job = "forever"
                      \/ mpc = "send" /\ txBuffer_pending

-----------------------------------------------------------------------------
(* What the code's documentation says, and the code does not do. *)

(***************************************************************************)
(* "hw connect": "Connects to a Proxmark3 device via specified serial      *)
(* port"; CloseProxmark, its first step, returns.                          *)
(***************************************************************************)
CloseReturns == mpc = "join" ~> mpc # "join"

(***************************************************************************)
(* doc/new_frame_format.md, of a reply: "length of the variable payload, 0 *)
(* if none".  A stored reply has the length its frame had.                 *)
(***************************************************************************)
ReplyLengthIsFrameLength ==
    \A i \in 1 .. Len(queue) : queue[i].len = queue[i].sent
=============================================================================
