----------------------------- MODULE UsbReceive -----------------------------
(***************************************************************************)
(* Commands on their way from the host's USB packets to the device: the    *)
(* two banks of the OUT endpoint, usb_read and usb_read_ng                 *)
(* (common_arm/usb_cdc.c), and the frame parsers on top of them,           *)
(* receive_ng_internal (armsrc/cmd.c) for the firmware and the main loop   *)
(* of the boot ROM (bootrom/bootrom.c).                                    *)
(*                                                                         *)
(* A frame of the new style (NG) is a preamble, a payload whose length the *)
(* preamble holds, and a postamble; one of the old style has a fixed       *)
(* length and nothing to tell it by.  A preamble, a postamble and a piece  *)
(* of payload are one unit each: <<f, i>> is unit i of frame f.            *)
(***************************************************************************)
EXTENDS Integers, SequencesExt

CONSTANTS
    EP_OUT_SIZE,    \* units in a full USB packet
    OldLen,         \* units in a frame of the old style
    Payloads,       \* payload lengths of NG frames, in units
    HostZlp,        \* the host ends a transfer of full packets with an empty one
    MaxFrames,      \* bound: frames sent
    MaxTimeouts,    \* bound: reads that give up
    MaxResets       \* bound: bus resets

ASSUME UsbAssumption ==
    /\ EP_OUT_SIZE \in Nat \ {0} /\ OldLen \in Nat \ {0}
    /\ Payloads \subseteq Nat /\ HostZlp \in BOOLEAN
    /\ MaxFrames \in Nat /\ MaxTimeouts \in Nat /\ MaxResets \in Nat

VARIABLES
    program,        \* which program runs: "os" or "bootrom"
    sent,           \* the frames the host has sent
    out,            \* packets queued in the host
    banks,          \* the endpoint's two banks: no packet, or one (external)
    fill,           \* the bank the next packet goes to (external)
    btReceiveBank,  \* the bank the next packet is read from
    buf,            \* usb_read_ng_buffer, from bufoff on
    stage,          \* what the reader is at
    want,           \* units the current read still lacks
    got,            \* units of the frame read so far
    rx,             \* the boot ROM's packet buffer, which keeps its content
    accepted,       \* the last command handed to the dispatcher
    count,          \* history: commands handed to the dispatcher
    torn,           \* history: a frame was cut and the link not quiet since
    skewed,         \* history: a bus reset has parted fill and btReceiveBank
    timeouts, resets

wire == <<sent, out, banks, fill>>
reader == <<btReceiveBank, buf, stage, want, got, rx, accepted, count>>
vars == <<program, wire, reader, torn, skewed, timeouts, resets>>

Frame == [ng : {TRUE}, len : Payloads] \cup [ng : {FALSE}, len : {OldLen - 2}]
Size(fr) == fr.len + 2
Units(f) == [i \in 1 .. Size(sent[f]) |-> <<f, i>>]
Unit == (0 .. MaxFrames) \X Nat
NoCommand == <<>>
Other(b) == 1 - b
Min2(a, b) == IF a <= b THEN a ELSE b
First(s, n) == SubSeq(s, 1, n)
Rest(s, n) == SubSeq(s, n + 1, Len(s))

TypeOK ==
    /\ program \in {"os", "bootrom"}
    /\ sent \in Seq(Frame) /\ Len(sent) <= MaxFrames
    /\ out \in Seq(Seq(Unit))
    /\ banks \in [{0, 1} -> {s \in Seq(Seq(Unit)) : Len(s) <= 1}]
    /\ fill \in {0, 1} /\ btReceiveBank \in {0, 1}
    /\ buf \in Seq(Unit) /\ Len(buf) < EP_OUT_SIZE
    /\ stage \in {"idle", "pre", "pay", "post", "old", "packet"}
    /\ want \in Nat /\ got \in Seq(Unit)
    /\ rx \in Seq(Unit) /\ Len(rx) = OldLen
    /\ accepted \in Seq(Unit) /\ count \in Nat
    /\ torn \in BOOLEAN /\ skewed \in BOOLEAN
    /\ timeouts \in 0 .. MaxTimeouts /\ resets \in 0 .. MaxResets

Init ==
    /\ program \in {"os", "bootrom"}
    /\ sent = <<>> /\ out = <<>>
    /\ banks = [b \in {0, 1} |-> <<>>] /\ fill = 0
    /\ btReceiveBank = 0 /\ buf = <<>>
    /\ stage = "idle" /\ want = 0 /\ got = <<>>
    /\ rx = [i \in 1 .. OldLen |-> <<0, i>>]
    /\ accepted = NoCommand /\ count = 0
    /\ torn = FALSE /\ skewed = FALSE
    /\ timeouts = 0 /\ resets = 0

-----------------------------------------------------------------------------
(* The host and the endpoint (external) *)

\* The packets of a transfer of n units of frame f: how many, and packet k.
PacketCount(n) ==
    IF HostZlp THEN n \div EP_OUT_SIZE + 1 ELSE (n + EP_OUT_SIZE - 1) \div EP_OUT_SIZE
Piece(f, n, k) ==
    [i \in 1 .. Min2(EP_OUT_SIZE, n - (k - 1) * EP_OUT_SIZE) |-> <<f, (k - 1) * EP_OUT_SIZE + i>>]
Packets(f, n) == [k \in 1 .. PacketCount(n) |-> Piece(f, n, k)]

\* Nothing is under way anywhere.
Quiet ==
    /\ out = <<>> /\ banks[0] = <<>> /\ banks[1] = <<>>
    /\ buf = <<>> /\ stage = "idle"

\* The boot ROM is sent frames of the old style only.
HostSends(fr) ==
    /\ Len(sent) < MaxFrames
    /\ program = "bootrom" => ~fr.ng
    /\ sent' = Append(sent, fr)
    /\ out' = out \o Packets(Len(sent) + 1, Size(fr))
    /\ torn' = (torn /\ ~Quiet)
    /\ UNCHANGED <<program, banks, fill, reader, skewed, timeouts, resets>>

\* The endpoint takes packets into its banks by turns.
Arrives ==
    /\ out # <<>> /\ banks[fill] = <<>>
    /\ banks' = [banks EXCEPT ![fill] = <<Head(out)>>]
    /\ fill' = Other(fill)
    /\ out' = Tail(out)
    /\ UNCHANGED <<program, sent, reader, torn, skewed, timeouts, resets>>

(***************************************************************************)
(* A bus reset, as usb_check sees it: all endpoints are reset and the next *)
(* packet goes to the first bank; the host drops what it had queued.  The  *)
(* driver's own state, btReceiveBank and buf, stays as it is.              *)
(***************************************************************************)
BusReset ==
    /\ resets < MaxResets /\ resets' = resets + 1
    /\ out' = <<>> /\ banks' = [b \in {0, 1} |-> <<>>] /\ fill' = 0
    /\ torn' = (torn \/ ~Quiet)
    /\ skewed' = (btReceiveBank # 0)
    /\ UNCHANGED <<program, sent, reader, timeouts>>

-----------------------------------------------------------------------------
(* usb_read and usb_read_ng *)

\* usb_poll_validate_length: a packet, and not an empty one.
Available == banks[btReceiveBank] # <<>> /\ Head(banks[btReceiveBank]) # <<>>

StartRead ==
    /\ stage = "idle" /\ Available
    /\ stage' = IF program = "os" THEN "pre" ELSE "packet"
    /\ want' = IF program = "os" THEN 1 ELSE OldLen
    /\ got' = <<>>
    /\ UNCHANGED <<program, wire, btReceiveBank, buf, rx, accepted, count, torn,
                   skewed, timeouts, resets>>

Busy == stage # "idle" /\ want > 0

\* What an earlier packet left over goes first.
ReadLocal ==
    /\ Busy /\ buf # <<>>
    /\ LET n == Min2(want, Len(buf)) IN
         /\ got' = got \o First(buf, n)
         /\ buf' = Rest(buf, n)
         /\ want' = want - n
    /\ UNCHANGED <<program, wire, btReceiveBank, stage, rx, accepted, count, torn,
                   skewed, timeouts, resets>>

BuggyKept(s) == <<>>

\* usb_read drops the rest of a packet, usb_read_ng keeps it.
Kept(s) == IF program = "os" THEN s ELSE <<>>

BuggyNextBank(b) == b

NextBank(b) == Other(b)

ReadPacket ==
    /\ Busy /\ buf = <<>> /\ banks[btReceiveBank] # <<>>
    /\ LET p == Head(banks[btReceiveBank])
           n == Min2(want, Len(p))
       IN /\ got' = got \o First(p, n)
          /\ buf' = Kept(Rest(p, n))
          /\ want' = want - n
    /\ banks' = [banks EXCEPT ![btReceiveBank] = <<>>]
    /\ btReceiveBank' = NextBank(btReceiveBank)
    /\ UNCHANGED <<program, sent, out, fill, stage, rx, accepted, count, torn,
                   skewed, timeouts, resets>>

-----------------------------------------------------------------------------
(* The frame parsers *)

IsPreamble(u) == u[1] > 0 /\ sent[u[1]].ng /\ u[2] = 1
IsPostamble(u) == u[1] > 0 /\ sent[u[1]].ng /\ u[2] = Size(sent[u[1]])

Accept(c) == accepted' = c /\ count' = count + 1 /\ stage' = "idle"
Reject == stage' = "idle" /\ UNCHANGED <<accepted, count>>
Reads(s, n) == stage' = s /\ want' = n /\ UNCHANGED <<accepted, count>>

(***************************************************************************)
(* receive_ng_internal after each of its reads.  The client puts a fixed   *)
(* word in place of a CRC on USB, so a postamble is all that is checked.   *)
(* A length that no command has, or that is too short for a MIX frame, is  *)
(* refused by the code; the hosts of this model send none.                 *)
(***************************************************************************)
Parse ==
    /\ program = "os" /\ stage # "idle" /\ want = 0
    /\ \/ /\ stage = "pre" /\ IsPreamble(got[1])
          /\ Reads("pay", sent[got[1][1]].len)
       \/ stage = "pre" /\ ~IsPreamble(got[1]) /\ Reads("old", OldLen - 1)
       \/ stage = "pay" /\ Reads("post", 1)
       \/ stage = "post" /\ IsPostamble(got[Len(got)]) /\ Accept(got) /\ UNCHANGED want
       \/ stage = "post" /\ ~IsPostamble(got[Len(got)]) /\ Reject /\ UNCHANGED want
       \/ stage = "old" /\ Accept(got) /\ UNCHANGED want
    /\ UNCHANGED <<program, wire, btReceiveBank, buf, got, rx, torn, skewed,
                   timeouts, resets>>

\* The boot ROM takes whatever usb_read has put into rx for a command.
TakePacket ==
    /\ program = "bootrom" /\ stage = "packet" /\ want = 0
    /\ rx' = got
    /\ Accept(got)
    /\ UNCHANGED <<program, wire, btReceiveBank, buf, want, got, torn, skewed,
                   timeouts, resets>>

BuggyMixed == got

\* The boot ROM's buffer after a read that was cut short.
Mixed == got \o Rest(rx, Len(got))

(***************************************************************************)
(* A read gives up after 0x1fff turns.  The firmware drops what it has of  *)
(* the frame; the boot ROM runs the packet with the tail of the last one,  *)
(* unless nothing at all was read.                                         *)
(***************************************************************************)
ReadTimeout ==
    /\ Busy /\ buf = <<>>
    /\ timeouts < MaxTimeouts /\ timeouts' = timeouts + 1
    /\ torn' = TRUE
    /\ \/ (program = "os" \/ got = <<>>) /\ Reject /\ UNCHANGED rx
       \/ /\ program = "bootrom" /\ got # <<>>
          /\ rx' = Mixed
          /\ Accept(Mixed)
    /\ want' = 0
    /\ UNCHANGED <<program, wire, btReceiveBank, buf, got, skewed, resets>>

-----------------------------------------------------------------------------
Reader == StartRead \/ ReadLocal \/ ReadPacket \/ Parse \/ TakePacket

Next ==
    \/ \E fr \in Frame : HostSends(fr)
    \/ Arrives \/ BusReset \/ Reader \/ ReadTimeout

Spec == Init /\ [][Next]_vars

\* The bus moves packets and the device's main loop runs.
FairSpec == Spec /\ WF_vars(Arrives) /\ WF_vars(Reader)

-----------------------------------------------------------------------------
Calm == timeouts = 0 /\ resets = 0

(***************************************************************************)
(* What the dispatcher gets is a frame the host sent, whole and after the  *)
(* one it got before: also when frames follow each other without a pause,  *)
(* and again as soon as the link has been quiet after a frame that was cut *)
(* by a timeout or a bus reset.  If none was cut so far, none is left out. *)
(***************************************************************************)
AcceptedWasSent ==
    [][ count' > count /\ ~torn' /\ ~skewed =>
          \E f \in DOMAIN sent :
             /\ accepted' = Units(f)
             /\ \A g \in DOMAIN sent : accepted = Units(g) => g < f
             /\ Calm => f = count' ]_vars

Pending == [i \in 1 .. Len(sent) - count |-> Units(count + i)]

(***************************************************************************)
(* Without timeout and reset the path from the host to the dispatcher is a *)
(* queue: what the reader has, its local buffer, the two banks in reading  *)
(* order and the host's packets are together the frames not yet            *)
(* dispatched, none lost, doubled or overtaken.                            *)
(***************************************************************************)
PathIsFifo ==
    Calm => (IF stage = "idle" THEN <<>> ELSE got) \o buf
              \o FlattenSeq(banks[btReceiveBank])
              \o FlattenSeq(banks[Other(btReceiveBank)])
              \o FlattenSeq(out)
            = FlattenSeq(Pending)

(***************************************************************************)
(* Every frame sent is dispatched, provided no read has timed out and the  *)
(* bus was not reset.                                                      *)
(***************************************************************************)
EveryFrameDispatched ==
    \A n \in 1 .. MaxFrames : Len(sent) >= n ~> count >= n \/ ~Calm
=============================================================================
