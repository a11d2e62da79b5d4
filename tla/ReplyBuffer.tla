---------------------------- MODULE ReplyBuffer -----------------------------
(***************************************************************************)
(* The circular buffer of replies in client/src/comms.c: rxBuffer with its *)
(* cmd_head and cmd_tail indices, shared by the communication thread       *)
(* (storeReply) and the console thread (getReply, clearCommandBuffer).     *)
(* Every operation runs under rxBufferMutex, so each is one action.        *)
(***************************************************************************)
EXTENDS Integers, Sequences

CONSTANTS CMD_BUFFER_SIZE, Reply, NoReply

ASSUME SizeAssumption == CMD_BUFFER_SIZE \in Nat /\ CMD_BUFFER_SIZE >= 2
ASSUME NoReplyAssumption == NoReply \notin Reply

VARIABLES rxBuffer,     \* the slots
          cmd_head,     \* the slot the next reply is written to
          cmd_tail,     \* the slot of the oldest unread reply
          packet        \* the result of the last getReply

bvars == <<rxBuffer, cmd_head, cmd_tail, packet>>

Slots == 0 .. CMD_BUFFER_SIZE - 1

TypeOK ==
    /\ rxBuffer \in [Slots -> Reply \cup {NoReply}]
    /\ cmd_head \in Slots
    /\ cmd_tail \in Slots
    /\ packet \in Reply \cup {NoReply}

Init ==
    /\ rxBuffer = [s \in Slots |-> NoReply]
    /\ cmd_head = 0
    /\ cmd_tail = 0
    /\ packet = NoReply

BuggyAdvance(s) == s + 1

\* The index after s; both indices wrap at the end of the array.
Advance(s) == (s + 1) % CMD_BUFFER_SIZE

(***************************************************************************)
(* storeReply.  When the buffer is full the code prints a warning and goes *)
(* on: there is no guard.                                                  *)
(***************************************************************************)
storeReply(p) ==
    /\ rxBuffer' = [rxBuffer EXCEPT ![cmd_head] = p]
    /\ cmd_head' = Advance(cmd_head)
    /\ UNCHANGED <<cmd_tail, packet>>

\* getReply returns 0 on an empty buffer, else takes the oldest reply.
getReply ==
    \/ /\ cmd_head = cmd_tail
       /\ packet' = NoReply
       /\ UNCHANGED <<rxBuffer, cmd_head, cmd_tail>>
    \/ /\ cmd_head # cmd_tail
       /\ packet' = rxBuffer[cmd_tail]
       /\ cmd_tail' = Advance(cmd_tail)
       /\ UNCHANGED <<rxBuffer, cmd_head>>

clearCommandBuffer ==
    /\ cmd_tail' = cmd_head
    /\ UNCHANGED <<rxBuffer, cmd_head, packet>>

Next == getReply \/ clearCommandBuffer \/ \E p \in Reply : storeReply(p)

Spec == Init /\ [][Next]_bvars

-----------------------------------------------------------------------------
(***************************************************************************)
(* The unread replies, oldest first: from cmd_tail up to, not including,   *)
(* cmd_head.                                                               *)
(***************************************************************************)
BacklogLen == IF cmd_head >= cmd_tail
              THEN cmd_head - cmd_tail
              ELSE cmd_head - cmd_tail + CMD_BUFFER_SIZE

SlotOf(i) == IF cmd_tail + i - 1 < CMD_BUFFER_SIZE
             THEN cmd_tail + i - 1
             ELSE cmd_tail + i - 1 - CMD_BUFFER_SIZE

Backlog == [i \in 1 .. BacklogLen |-> rxBuffer[SlotOf(i)]]

Queue == INSTANCE ReplyQueue WITH
            queue <- Backlog, Capacity <- CMD_BUFFER_SIZE - 1

\* The ring implements the queue of ReplyQueue, in order and without
\* duplicates, whatever the order of stores, reads and clears.
ImplementsQueue == Queue!QueueSpec
=============================================================================
