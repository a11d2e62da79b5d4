----------------------------- MODULE MCBootRom ------------------------------
(***************************************************************************)
(* The boot ROM with a host that sends any of a few packets at any time,   *)
(* whether or not they make sense.                                         *)
(***************************************************************************)
EXTENDS BootRom

CONSTANTS Addresses,    \* where the host's ranges start and end, and its blocks
          MaxPending    \* bound: packets and replies waiting

Packets ==
    [cmd : {"HARDWARE_RESET", "OTHER"}]
    \cup [cmd : {"START_FLASH"}, start : Addresses, end : Addresses, magic : BOOLEAN]
    \cup [cmd : {"FINISH_WRITE"}, addr : Addresses, data : Data]

Sends ==
    /\ link # 0 /\ Len(toDev) < MaxPending /\ Len(fromDev) < MaxPending
    /\ \E p \in Packets : toDev' = Append(toDev, p)
    /\ UNCHANGED <<mode, area, range, flash, button, link, links, fromDev, why, unlocks>>

Next ==
    \/ EnterFlashMode \/ JumpToOs \/ StartFlash \/ FinishWrite \/ HardwareReset
    \/ UnknownPacket \/ Watchdog \/ ButtonSeenUp \/ ButtonLeaves
    \/ OsStartFlash \/ OsReset \/ OsOther
    \/ ToggleButton \/ PowerCycle \/ HostTakes \/ Sends

Spec == BootInit /\ [][Next]_bootvars
=============================================================================
