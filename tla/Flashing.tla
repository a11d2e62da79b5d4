------------------------------ MODULE Flashing ------------------------------
(***************************************************************************)
(* The flasher (flash_pm3 in client/src/proxmark3.c, client/src/flash.c)   *)
(* at work on the device of BootRom.  A run of it brings the device into   *)
(* flash mode, asks for a range, writes the blocks of an image one by one, *)
(* each acknowledged, and resets the device.  Runs are killed, cables are  *)
(* pulled, buttons are pressed and other programs write to the port; the   *)
(* next run starts from whatever that left behind.                         *)
(*                                                                         *)
(* The threads of the client are those of ClientComms; here a command is   *)
(* on its way once it has been sent, and a reply is available once it has  *)
(* been received.                                                          *)
(***************************************************************************)
EXTENDS BootRom

CONSTANTS Images,       \* sets of blocks that may be written together
          MaxRuns,      \* bound: runs of the flasher
          MaxPending    \* bound: packets waiting when another program writes

ASSUME RunsAssumption ==
    /\ MaxRuns \in Nat /\ 1 .. MaxRuns \subseteq Data /\ MaxPending \in Nat
    /\ Images \subseteq SUBSET Nat

VARIABLES
    chip,           \* pages the chip has, as CHIP_INFO reports it
    fpc,            \* where the flasher is
    conn,           \* the link its port was opened on
    replies,        \* replies received
    job,            \* [id, bl, image]: run number, bootloader writes allowed
    max_allowed,    \* pages that may be written
    todo,           \* blocks not yet acknowledged
    ret,            \* flash_pm3's return code
    report,         \* what the last run told the user
    disturbed,      \* history: something outside interfered with this run
    crowded         \* history: more than one packet was waiting when it began

client == <<chip, fpc, conn, replies, job, max_allowed, todo, ret, report>>
history == <<disturbed, crowded>>
vars == <<bootvars, client, history>>

BlockAddress(b) == FLASH_START + 2 * PAGE * b
PagesOf(b) == {BlockAddress(b), BlockAddress(b) + PAGE}

ProgressOK ==
    /\ chip \in {Half, FLASH_PAGES}
    /\ fpc \in {"idle", "open", "reopen", "ask", "ask2", "info", "info2", "chip",
                "version", "start", "load", "write", "ack", "stop", "close"}
    /\ conn \in Nat
    /\ max_allowed \in {Half, FLASH_PAGES}
    /\ ret \in {"PM3_SUCCESS", "error"}
    /\ report \in {"none", "All done", "Aborted on error"}

JobOK ==
    /\ job \in [id : 0 .. MaxRuns, bl : BOOLEAN, image : Images \cup {{}}]
    /\ todo \subseteq job.image

HistoryOK == disturbed \in BOOLEAN /\ crowded \in BOOLEAN

ClientOK == ProgressOK /\ JobOK /\ replies \in Seq(Response) /\ HistoryOK

TypeOK == BootTypeOK /\ ClientOK

Init ==
    /\ BootInit
    /\ chip \in {Half, FLASH_PAGES}
    /\ fpc = "idle" /\ conn = 0 /\ replies = <<>>
    /\ job = [id |-> 0, bl |-> FALSE, image |-> {}]
    /\ max_allowed = Half /\ todo = {} /\ ret = "PM3_SUCCESS" /\ report = "none"
    /\ disturbed = FALSE /\ crowded = FALSE

-----------------------------------------------------------------------------
(* The flasher *)

Connected == conn # 0 /\ conn = link

BuggySend(c) == toDev' = Append(toDev, c) /\ UNCHANGED <<link, links, fromDev>>

\* SendCommandBL; on a dead link the packet goes nowhere.
Send(c) ==
    /\ toDev' = IF Connected THEN Append(toDev, c) ELSE toDev
    /\ UNCHANGED <<link, links, fromDev>>

Simple(c) == [cmd |-> c]
StartFlashCmd(s, e, m) == [cmd |-> "START_FLASH", start |-> s, end |-> e, magic |-> m]
Silent == UNCHANGED usb
Device == <<mode, area, range, flash, button, why, unlocks>>

\* The process ends, and what it knew is gone.
Ends == fpc' = "idle" /\ conn' = 0 /\ replies' = <<>> /\ max_allowed' = Half

\* The user starts the flasher.
Run(bl, image) ==
    /\ fpc = "idle" /\ job.id < MaxRuns
    /\ fpc' = "open"
    /\ job' = [id |-> job.id + 1, bl |-> bl, image |-> image]
    /\ todo' = image /\ ret' = "PM3_SUCCESS" /\ report' = "none"
    /\ disturbed' = (toDev # <<>>) /\ crowded' = (Len(toDev) > 1)
    /\ UNCHANGED <<bootvars, chip, conn, replies, max_allowed>>

\* OpenProxmark waits for the port; opening it drops what came in before.
\* When it waits for the device to return from the handover, the code sleeps
\* first, long enough for the firmware to take the command and be gone.
OpenProxmark ==
    /\ fpc \in {"open", "reopen"} /\ link # 0
    /\ fpc = "reopen" => toDev = <<>>
    /\ conn' = link /\ fromDev' = <<>>
    /\ fpc' = IF fpc = "open" THEN "ask" ELSE "ask2"
    /\ UNCHANGED <<Device, link, links, toDev, chip, replies, job, max_allowed,
                   todo, ret, report, history>>

\* There is no port for a minute.  A flasher that waits for the device to come
\* back has closed its connection already, and closes it again at the end.
OpenTimeout ==
    /\ fpc \in {"open", "reopen"} /\ link = 0
    /\ ret' = "error"
    /\ \/ fpc = "open" /\ fpc' = "idle" /\ report' = "Aborted on error"
       \/ fpc = "reopen" /\ fpc' = "stop" /\ UNCHANGED report
    /\ UNCHANGED <<bootvars, chip, conn, replies, job, max_allowed, todo, history>>

\* The communication thread receives a reply.
Receive ==
    /\ Connected /\ fromDev # <<>>
    /\ replies' = Append(replies, Head(fromDev)) /\ fromDev' = Tail(fromDev)
    /\ UNCHANGED <<Device, link, links, toDev, chip, fpc, conn, job, max_allowed,
                   todo, ret, report, history>>

\* get_proxmark_state.
AskState ==
    /\ fpc \in {"ask", "ask2"} /\ Send(Simple("DEVICE_INFO"))
    /\ fpc' = IF fpc = "ask" THEN "info" ELSE "info2"
    /\ UNCHANGED <<Device, chip, conn, replies, job, max_allowed, todo, ret,
                   report, history>>

\* At p, the next reply is taken.
Takes(p) == fpc = p /\ replies # <<>> /\ replies' = Tail(replies)

Fails == fpc' = "stop" /\ ret' = "error" /\ Silent

OldBootrom(r) == r.cmd = "ACK"
InBootrom(r) == r.cmd = "DEVICE_INFO" /\ r.mode = "flash"
InOs(r) == r.cmd = "DEVICE_INFO" /\ r.mode = "os"

\* enter_bootloader: ask the firmware for the handover if it is running, and
\* open the port again.
EnterBootloader ==
    /\ Takes("info")
    /\ LET r == Head(replies) IN
         \/ /\ OldBootrom(r) \/ InBootrom(r)
            /\ fpc' = "ask2" /\ Silent /\ UNCHANGED <<conn, ret>>
         \/ /\ InOs(r)
            /\ Send(StartFlashCmd(0, 0, FALSE))
            /\ fpc' = "reopen" /\ conn' = 0 /\ UNCHANGED ret
         \/ /\ ~(OldBootrom(r) \/ InBootrom(r) \/ InOs(r))
            /\ Fails /\ UNCHANGED conn
    /\ UNCHANGED <<Device, chip, job, max_allowed, todo, report, history>>

\* flash_start_flashing, with the second look at the state.  Whatever is not a
\* boot ROM that understands START_FLASH is taken for an old one.
GotState ==
    /\ Takes("info2")
    /\ LET r == Head(replies) IN
         \/ /\ InBootrom(r) /\ Send(Simple("CHIP_INFO"))
            /\ fpc' = "chip" /\ UNCHANGED <<max_allowed, ret>>
         \/ /\ OldBootrom(r) \/ InOs(r)
            /\ fpc' = "load" /\ max_allowed' = Half /\ Silent /\ UNCHANGED ret
         \/ /\ ~(OldBootrom(r) \/ InBootrom(r) \/ InOs(r))
            /\ Fails /\ UNCHANGED max_allowed
    /\ UNCHANGED <<Device, chip, conn, job, todo, report, history>>

\* The next two replies are waited for by name.
Awaited == IF fpc = "chip" THEN "CHIP_INFO" ELSE "BL_VERSION"

SkipReply ==
    /\ fpc \in {"chip", "version"} /\ Takes(fpc) /\ Head(replies).cmd # Awaited
    /\ UNCHANGED <<bootvars, chip, fpc, conn, job, max_allowed, todo, ret, report,
                   history>>

GotChipInfo ==
    /\ Takes("chip") /\ Head(replies).cmd = Awaited
    /\ Send(Simple("BL_VERSION")) /\ fpc' = "version"
    /\ max_allowed' = IF chip > Half THEN chip ELSE Half
    /\ UNCHANGED <<Device, chip, conn, job, todo, ret, report, history>>

\* Ask for the range: without the boot ROM unless the user allowed that.
GotVersion ==
    /\ Takes("version") /\ Head(replies).cmd = Awaited
    /\ Send(StartFlashCmd(IF job.bl THEN FLASH_START ELSE bootrom_end,
                          Address(max_allowed), job.bl))
    /\ fpc' = "start"
    /\ UNCHANGED <<Device, chip, conn, job, max_allowed, todo, ret, report, history>>

\* wait_for_ack.
Acked == Head(replies).cmd = "ACK"

GotRange ==
    /\ Takes("start")
    /\ \/ Acked /\ fpc' = "load" /\ Silent /\ UNCHANGED ret
       \/ ~Acked /\ Fails
    /\ UNCHANGED <<Device, chip, conn, job, max_allowed, todo, report, history>>

\* check_segs.
Loadable ==
    /\ \A b \in job.image : BlockAddress(b + 1) <= Address(max_allowed)
    /\ job.bl \/ \A b \in job.image : BlockAddress(b) >= bootrom_end

FlashLoad ==
    /\ fpc = "load"
    /\ \/ Loadable /\ fpc' = "write" /\ Silent /\ UNCHANGED ret
       \/ ~Loadable /\ Fails
    /\ UNCHANGED <<Device, chip, conn, replies, job, max_allowed, todo, report, history>>

\* write_block: the segments are in ascending order.
WriteBlock ==
    /\ fpc = "write" /\ todo # {}
    /\ \E b \in todo :
         /\ \A d \in todo : b <= d
         /\ Send([cmd |-> "FINISH_WRITE", addr |-> BlockAddress(b), data |-> job.id])
    /\ fpc' = "ack"
    /\ UNCHANGED <<Device, chip, conn, replies, job, max_allowed, todo, ret,
                   report, history>>

GotBlockReply ==
    /\ Takes("ack") /\ Silent
    /\ \/ /\ Acked /\ fpc' = "write" /\ UNCHANGED ret
          /\ todo' = {b \in todo : \E d \in todo : d < b}
       \/ ~Acked /\ Fails /\ UNCHANGED todo
    /\ UNCHANGED <<Device, chip, conn, job, max_allowed, report, history>>

AllWritten ==
    /\ fpc = "write" /\ todo = {} /\ fpc' = "stop"
    /\ UNCHANGED <<bootvars, chip, conn, replies, job, max_allowed, todo, ret,
                   report, history>>

\* finish: flash_stop_flashing, whose return code replaces the one there was.
Stop ==
    /\ fpc = "stop" /\ fpc' = "close"
    /\ Send(Simple("HARDWARE_RESET")) /\ ret' = "PM3_SUCCESS"
    /\ UNCHANGED <<Device, chip, conn, replies, job, max_allowed, todo, report, history>>

\* The port is closed a little later, when the device has taken the command.
\* Without a connection there is no communication thread to join: the process
\* may crash in pthread_join, and says nothing.
Close ==
    /\ fpc = "close" /\ (Connected => toDev = <<>>)
    /\ Ends
    /\ \/ report' = IF ret = "PM3_SUCCESS" THEN "All done" ELSE "Aborted on error"
       \/ conn = 0 /\ UNCHANGED report
    /\ UNCHANGED <<bootvars, chip, job, todo, ret, history>>

Flasher ==
    \/ OpenProxmark \/ OpenTimeout \/ AskState \/ EnterBootloader \/ GotState
    \/ SkipReply \/ GotChipInfo \/ GotVersion \/ GotRange \/ FlashLoad
    \/ WriteBlock \/ GotBlockReply \/ AllWritten \/ Stop \/ Close

-----------------------------------------------------------------------------
(* What comes in between (external) *)

Kill ==
    /\ fpc # "idle" /\ Ends /\ disturbed' = TRUE
    /\ UNCHANGED <<bootvars, chip, job, todo, ret, report, crowded>>

\* Another program writes to the port.
Interference ==
    /\ link # 0 /\ Len(toDev) < MaxPending
    /\ toDev' = Append(toDev, Simple("OTHER")) /\ disturbed' = TRUE
    /\ UNCHANGED <<Device, link, links, fromDev, client, crowded>>

Disturbance ==
    \/ (ButtonLeaves \/ PowerCycle) /\ disturbed' = TRUE /\ UNCHANGED <<client, crowded>>
    \/ ToggleButton /\ UNCHANGED <<client, history>>
    \/ Kill \/ Interference

DeviceStep == BootDevice /\ UNCHANGED <<client, history>>

Next ==
    \/ \E bl \in BOOLEAN, image \in Images : Run(bl, image)
    \/ Flasher \/ Receive \/ DeviceStep \/ Disturbance

Spec == Init /\ [][Next]_vars

\* The flasher, its communication thread and the device keep going.
FairSpec == Spec /\ WF_vars(Flasher) /\ WF_vars(Receive) /\ WF_vars(DeviceStep)

-----------------------------------------------------------------------------
(***************************************************************************)
(* A block the flasher has counted as written is in the flash, both pages, *)
(* with this run's data, although wait_for_ack takes any reply: the answer *)
(* to a killed run is not taken for an acknowledgement of this one.  Two   *)
(* looks at the state come before the first block, and they absorb the one *)
(* command that a killed run leaves behind.  They do not absorb more, which*)
(* several runs leave if each is killed before the device takes what the   *)
(* ones before it have sent.                                               *)
(***************************************************************************)
AckedBlocksAreWritten ==
    ~crowded => \A b \in job.image \ todo : \A a \in PagesOf(b) : flash[a] = job.id

(***************************************************************************)
(* To the device the flasher is a host like any other: it acts on it only  *)
(* by sending packets on a link that is up and by taking replies.          *)
(***************************************************************************)
FlasherIsAHost == BootSpec

(***************************************************************************)
(* None of the flasher's waits for a reply has a timeout.  A run that      *)
(* nobody disturbs ends all the same, from every state of the device that  *)
(* earlier runs can leave; a packet of theirs that is still waiting when   *)
(* the run begins counts as a disturbance.                                 *)
(***************************************************************************)
UndisturbedRunEnds == fpc # "idle" ~> fpc = "idle" \/ disturbed

(***************************************************************************)
(* flash_pm3 has two closing words, "All done" and "Aborted on error": the *)
(* first is for a run that has written its image.  This asks it of runs    *)
(* that nothing disturbed.                                                 *)
(***************************************************************************)
DoneMeansWritten == report = "All done" /\ ~disturbed => todo = {}
=============================================================================
