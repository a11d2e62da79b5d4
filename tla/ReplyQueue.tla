----------------------------- MODULE ReplyQueue -----------------------------
(***************************************************************************)
(* What the client's reply buffer (client/src/comms.c) promises to its two *)
(* users, the communication thread and the console thread: a queue of      *)
(* replies, oldest first.  It holds Capacity replies; a reply that does    *)
(* not fit wipes the queue, itself included, because the ring's head then  *)
(* catches up with its tail and "full" cannot be told from "empty".        *)
(***************************************************************************)
EXTENDS Naturals, Sequences

CONSTANTS Capacity,     \* the most unread replies the queue can hold
          Reply,        \* the replies a device can send
          NoReply       \* what a reader gets from an empty queue

VARIABLES queue,        \* the unread replies, oldest first
          packet        \* the result of the last getReply

qvars == <<queue, packet>>

QueueInit == queue = <<>> /\ packet = NoReply

(***************************************************************************)
(* The queue after storing p: the only way to lose unread replies is to    *)
(* store one more than Capacity.                                           *)
(***************************************************************************)
Stored(p) == IF Len(queue) < Capacity THEN Append(queue, p) ELSE <<>>

Store(p) == queue' = Stored(p) /\ UNCHANGED packet

Get ==
    \/ queue = <<>> /\ packet' = NoReply /\ UNCHANGED queue
    \/ queue # <<>> /\ packet' = Head(queue) /\ queue' = Tail(queue)

Clear == queue' = <<>> /\ UNCHANGED packet

QueueNext == Get \/ Clear \/ \E p \in Reply : Store(p)

QueueSpec == QueueInit /\ [][QueueNext]_qvars
=============================================================================
