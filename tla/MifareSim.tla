----------------------------- MODULE MifareSim ------------------------------
(***************************************************************************)
(* The MIFARE Classic card the device simulates (Mifare1ksim in            *)
(* armsrc/mifaresim.c, with the emulator memory of armsrc/mifareutil.c).   *)
(* The reader on the other side is free: it sends any frame in any state,  *)
(* takes the field away, or starts again with REQA or WUPA.  A frame that  *)
(* does not decrypt to a valid CRC is one of the frames it may send.       *)
(*                                                                         *)
(* A sector is one data block and its trailer: key A, key B, the access    *)
(* codes of the data block and of the trailer, as the code decodes them,   *)
(* and the word it holds when it has the form of a value block.  The other *)
(* data blocks of a sector are left out; one of them, block 131 of a card  *)
(* of 4K, matters to the permissions of block 128.                         *)
(* Collecting nonces (FLAG_NR_AR_ATTACK) is left out.                      *)
(***************************************************************************)
EXTENDS Integers

CONSTANTS
    Sectors,
    Block128,       \* sectors whose data block is block 128 (sector 32 of 4K cards)
    Trailers,       \* trailers a card is loaded with or a reader writes
    Plain,          \* contents of data blocks that are not value blocks
    WORD,           \* 2^32: uint32_t arithmetic wraps here
    Operands,       \* operands of increments and decrements
    UidLevels,      \* cascade levels of the UID
    exitAfterNReads,
    MaxWrites       \* bound: writes and transfers to the card

NoValue == -1
Words == 0 .. WORD - 1
TrailerKeys == {t.a : t \in Trailers} \cup {t.b : t \in Trailers}
Trailer(vals) == [a : TrailerKeys, b : TrailerKeys, acd : 0 .. 7, act : 0 .. 7,
                  val : vals]

\* The tag of a content says where it comes from, so that what a reader has
\* written can be told from a register or from what was left in response.
ASSUME SimAssumption ==
    /\ Sectors # {} /\ Block128 \subseteq Sectors /\ WORD \in Nat \ {0} /\ Operands \subseteq Words
    /\ Trailers \subseteq Trailer({NoValue})
    /\ \A c \in Plain : c[1] \notin {"value", "zero", "cipher", "trailer"}
    /\ UidLevels \in 1 .. 3 /\ exitAfterNReads \in Nat /\ MaxWrites \in Nat

VARIABLES
    data,           \* emulator memory: the data blocks
    trailer,        \* emulator memory: the sector trailers
    cardSTATE,
    cardAUTHSC, cardAUTHKEY,
    cardWRBL,       \* the block a two-step command is about
    cardINTREG,     \* the register of the value operations
    ans,            \* scratch word, also the operand of value operations
    response,       \* scratch buffer for answers
    numReads,
    sent,           \* what went out last: a block's content or anything else
    proven,         \* history: sector and key the reader has proved to know
    writes

memory == <<data, trailer>>
card == <<cardSTATE, cardAUTHSC, cardAUTHKEY, cardWRBL>>
scratch == <<cardINTREG, ans, response>>
vars == <<memory, card, scratch, numReads, sent, proven, writes>>

AUTHKEYA == 0
AUTHKEYB == 1
AUTHKEYNONE == 255

Value(w) == <<"value", w>>
Scratch == {<<"zero", 0>>, <<"cipher", 0>>, <<"trailer", 0>>}
Contents == Plain \cup {Value(w) : w \in Words} \cup Scratch
Blocks == Sectors \X {"data", "trailer"}
Keys == {AUTHKEYA, AUTHKEYB}
Nobody == <<-1, AUTHKEYNONE>>
Quiet == <<"none", -1>>

MemoryOK ==
    /\ data \in [Sectors -> Contents]
    /\ trailer \in [Sectors -> Trailer(Words \cup {NoValue})]

CardOK ==
    /\ cardSTATE \in {"NOFIELD", "IDLE", "SELECT", "AUTH1", "WORK", "WRITEBL2",
                      "INTREG_INC", "INTREG_DEC", "INTREG_REST", "HALTED", "off"}
    /\ cardAUTHSC \in Sectors /\ cardAUTHKEY \in Keys \cup {AUTHKEYNONE}
    /\ cardWRBL \in Blocks

ScratchOK == cardINTREG \in Words /\ ans \in Words /\ response \in Scratch

CountsOK ==
    /\ numReads \in 0 .. exitAfterNReads
    /\ proven \in {Nobody} \cup (Sectors \X Keys)
    /\ writes \in 0 .. MaxWrites

TypeOK == MemoryOK /\ CardOK /\ ScratchOK /\ CountsOK

\* The locals of Mifare1ksim; only the emulator memory outlives them.
Fresh ==
    [cardSTATE |-> "NOFIELD", cardAUTHSC |-> CHOOSE s \in Sectors : TRUE,
     cardAUTHKEY |-> AUTHKEYNONE, cardWRBL |-> <<CHOOSE s \in Sectors : TRUE, "data">>]

Init ==
    /\ data \in [Sectors -> {Value(0)} \cup Plain]
    /\ trailer \in [Sectors -> Trailers]
    /\ cardSTATE = Fresh.cardSTATE /\ cardAUTHSC = Fresh.cardAUTHSC
    /\ cardAUTHKEY = Fresh.cardAUTHKEY /\ cardWRBL = Fresh.cardWRBL
    /\ cardINTREG = 0 /\ ans = 0 /\ response = <<"zero", 0>>
    /\ numReads = 0 /\ sent = Quiet /\ proven = Nobody /\ writes = 0

\* The client starts the simulation again.
Start ==
    /\ cardSTATE = "off"
    /\ cardSTATE' = Fresh.cardSTATE /\ cardAUTHSC' = Fresh.cardAUTHSC
    /\ cardAUTHKEY' = Fresh.cardAUTHKEY /\ cardWRBL' = Fresh.cardWRBL
    /\ cardINTREG' = 0 /\ ans' = 0 /\ response' = <<"zero", 0>>
    /\ numReads' = 0 /\ sent' = Quiet /\ proven' = Nobody
    /\ UNCHANGED <<memory, writes>>

-----------------------------------------------------------------------------
(* Access conditions *)

\* IsTrailerAccessAllowed for writing a key (A or B: the same conditions)
\* and for writing the access bits.
KeyWritable(t, key) ==
    \/ key = AUTHKEYA /\ t.act \in {0, 1}
    \/ key = AUTHKEYB /\ t.act \in {3, 4}
BitsWritable(t, key) ==
    \/ key = AUTHKEYA /\ t.act = 1
    \/ key = AUTHKEYB /\ t.act \in {3, 5}

(***************************************************************************)
(* IsDataAccessAllowed.  SectorTrailer takes block 128 for a block of a    *)
(* small sector and names block 131, a data block of the same sector, for  *)
(* its trailer: the access code is whatever bits a reader or the client    *)
(* has put there.                                                          *)
(***************************************************************************)
AccessCodes(s) == IF s \in Block128 THEN 0 .. 7 ELSE {trailer[s].acd}

DataReadable(ac, key) ==
    \/ key = AUTHKEYA /\ ac \notin {3, 5, 7}
    \/ key = AUTHKEYB /\ ac # 7
DataWritable(ac, key) ==
    \/ key = AUTHKEYA /\ ac = 0
    \/ key = AUTHKEYB /\ ac \in {0, 3, 4, 6}

-----------------------------------------------------------------------------
(* Field, activation, anticollision *)

ToIdle == cardSTATE' = "IDLE" /\ UNCHANGED <<cardAUTHSC, cardAUTHKEY, cardWRBL>>
Stays == UNCHANGED card
Says(x) == sent' = <<x, -1>>
Silent == sent' = Quiet

FieldOn ==
    /\ cardSTATE = "NOFIELD" /\ ToIdle
    /\ Silent
    /\ UNCHANGED <<memory, scratch, numReads, proven, writes>>

Listening == cardSTATE \notin {"NOFIELD", "off"}

FieldOff ==
    /\ Listening
    /\ cardSTATE' = "NOFIELD" /\ UNCHANGED <<cardAUTHSC, cardAUTHKEY, cardWRBL>>
    /\ Silent /\ proven' = Nobody
    /\ UNCHANGED <<memory, scratch, numReads, writes>>

\* The button, or a command from the client.
Leave ==
    /\ cardSTATE # "off"
    /\ cardSTATE' = "off" /\ UNCHANGED <<cardAUTHSC, cardAUTHKEY, cardWRBL>>
    /\ Silent /\ proven' = Nobody
    /\ UNCHANGED <<memory, scratch, numReads, writes>>

BuggyKeyAtWakeUp == cardAUTHKEY

KeyAtWakeUp == AUTHKEYNONE

\* WUPA in any state, REQA in any but HALTED.
WakeUp(wupa) ==
    /\ Listening /\ (wupa \/ cardSTATE # "HALTED")
    /\ cardSTATE' = "SELECT" /\ cardAUTHKEY' = KeyAtWakeUp
    /\ UNCHANGED <<cardAUTHSC, cardWRBL>>
    /\ Says("answer") /\ proven' = Nobody
    /\ UNCHANGED <<memory, scratch, numReads, writes>>

\* Other frames in IDLE and HALTED.
Ignore ==
    /\ cardSTATE \in {"IDLE", "HALTED"} /\ Stays
    /\ Silent
    /\ UNCHANGED <<memory, scratch, numReads, proven, writes>>

\* SELECT ALL and anticollision frames that match the UID; others end it.
Anticollision(ours) ==
    /\ cardSTATE = "SELECT"
    /\ \/ ours /\ Stays /\ Says("answer")
       \/ ~ours /\ ToIdle /\ Silent
    /\ UNCHANGED <<memory, scratch, numReads, proven, writes>>

\* SELECT at a cascade level; the last one may come without the others.
Select(level, ours) ==
    /\ cardSTATE = "SELECT"
    /\ \/ ours /\ level # UidLevels /\ Stays /\ Says("answer")
       \/ /\ ours /\ level = UidLevels /\ Says("answer")
          /\ cardSTATE' = "WORK" /\ UNCHANGED <<cardAUTHSC, cardAUTHKEY, cardWRBL>>
       \/ ~ours /\ ToIdle /\ Silent
    /\ UNCHANGED <<memory, scratch, numReads, proven, writes>>

-----------------------------------------------------------------------------
(* MFEMUL_WORK *)

Working == cardSTATE = "WORK"
Encrypted == cardAUTHKEY # AUTHKEYNONE

\* An empty frame, one with a bad CRC, or a command that does not exist.
BadFrame ==
    /\ Working /\ Stays /\ (Silent \/ Says("NACK"))
    /\ UNCHANGED <<memory, scratch, numReads, proven, writes>>

\* MIFARE_AUTH_KEYA, MIFARE_AUTH_KEYB: sector and key are noted before the
\* reader has answered the challenge.
Auth(s, key) ==
    /\ Working
    /\ cardAUTHSC' = s /\ cardAUTHKEY' = key /\ cardSTATE' = "AUTH1"
    /\ response' = IF Encrypted THEN <<"cipher", 0>> ELSE response
    /\ Says("answer")
    /\ UNCHANGED <<memory, cardWRBL, cardINTREG, ans, numReads, proven, writes>>

BuggyRefused(s) == ~Encrypted

Refused(s) == ~Encrypted \/ s # cardAUTHSC

\* READ, WRITE, INC, DEC, RESTORE, TRANSFER without authentication, or for
\* a block of another sector.
Refuse(b) ==
    /\ Working /\ Refused(b[1])
    /\ Stays /\ Says("NACK")
    /\ UNCHANGED <<memory, scratch, numReads, proven, writes>>

\* ISO14443A_CMD_READBLOCK: what may not be read goes out as zeros.
ReadBlock(b) ==
    /\ Working /\ ~Refused(b[1])
    /\ response' = <<"cipher", 0>>
    /\ \E ac \in AccessCodes(b[1]) :
         sent' = IF b[2] = "trailer" \/ DataReadable(ac, cardAUTHKEY)
                 THEN <<"block", b[1]>> ELSE <<"zeros", -1>>
    /\ numReads' = IF exitAfterNReads > 0 THEN numReads + 1 ELSE 0
    /\ cardSTATE' = IF exitAfterNReads > 0 /\ numReads' = exitAfterNReads
                    THEN "off" ELSE "WORK"
    /\ UNCHANGED <<memory, cardAUTHSC, cardAUTHKEY, cardWRBL, cardINTREG, ans,
                   proven, writes>>

WriteBlock(b) ==
    /\ Working /\ ~Refused(b[1])
    /\ cardWRBL' = b /\ cardSTATE' = "WRITEBL2"
    /\ Says("ACK")
    /\ UNCHANGED <<memory, cardAUTHSC, cardAUTHKEY, scratch, numReads, proven, writes>>

\* emlCheckValBl: a trailer has the form of a value block once a register
\* has been transferred to it.
IsValue(b) ==
    \/ b[2] = "data" /\ data[b[1]][1] = "value"
    \/ b[2] = "trailer" /\ trailer[b[1]].val # NoValue

\* The operation's own access condition is not looked up.
ValueCommand(op, b) ==
    /\ Working /\ ~Refused(b[1])
    /\ \/ /\ IsValue(b)
          /\ cardWRBL' = b /\ cardSTATE' = op /\ Says("ACK")
          /\ UNCHANGED <<cardAUTHSC, cardAUTHKEY>>
       \/ ~IsValue(b) /\ Stays /\ Says("NACK")
    /\ UNCHANGED <<memory, scratch, numReads, proven, writes>>

(***************************************************************************)
(* MIFARE_CMD_TRANSFER writes the register to any block of the sector, a   *)
(* trailer too: what keys and access codes that makes depends on the word. *)
(***************************************************************************)
Transfer(b) ==
    /\ Working /\ ~Refused(b[1]) /\ writes < MaxWrites
    /\ \/ /\ b[2] = "data"
          /\ data' = [data EXCEPT ![b[1]] = Value(cardINTREG)]
          /\ UNCHANGED trailer
       \/ /\ b[2] = "trailer"
          /\ \E t \in Trailers :
                trailer' = [trailer EXCEPT ![b[1]] = [t EXCEPT !.val = cardINTREG]]
          /\ UNCHANGED data
    /\ writes' = writes + 1
    /\ Stays /\ Says("ACK")
    /\ UNCHANGED <<scratch, numReads, proven>>

\* ISO14443A_CMD_HALT
Halt ==
    /\ Working
    /\ cardSTATE' = "HALTED" /\ cardAUTHKEY' = AUTHKEYNONE
    /\ UNCHANGED <<cardAUTHSC, cardWRBL>>
    /\ Silent /\ proven' = Nobody
    /\ UNCHANGED <<memory, scratch, numReads, writes>>

\* RATS and DESELECT, answered or refused.
Rats ==
    /\ Working /\ Stays /\ (Says("answer") \/ Says("NACK"))
    /\ response' \in {response} \cup (IF Encrypted THEN {<<"cipher", 0>>} ELSE {})
    /\ UNCHANGED <<memory, cardINTREG, ans, numReads, proven, writes>>

-----------------------------------------------------------------------------
(* The second frame of two-step commands *)

BuggyAuthFails == cardSTATE' = "WORK" /\ UNCHANGED <<cardAUTHSC, cardAUTHKEY, cardWRBL>>

\* "not authenticated": MFEMUL_AUTH1 with a wrong answer.
AuthFails ==
    /\ cardSTATE' = "IDLE" /\ cardAUTHKEY' = AUTHKEYNONE
    /\ UNCHANGED <<cardAUTHSC, cardWRBL>>

\* MFEMUL_AUTH1; a frame of the wrong length only ends the session.
Auth1(answer) ==
    /\ cardSTATE = "AUTH1"
    /\ \/ /\ answer = "right"
          /\ cardSTATE' = "WORK" /\ UNCHANGED <<cardAUTHSC, cardAUTHKEY, cardWRBL>>
          /\ ans' \in Operands /\ response' = <<"cipher", 0>>
          /\ Says("answer") /\ proven' = <<cardAUTHSC, cardAUTHKEY>>
       \/ answer = "wrong" /\ AuthFails /\ Silent /\ proven' = Nobody
            /\ UNCHANGED <<ans, response>>
       \/ answer = "short" /\ ToIdle /\ Silent /\ proven' = Nobody
            /\ UNCHANGED <<ans, response>>
    /\ UNCHANGED <<memory, cardINTREG, numReads, writes>>

(***************************************************************************)
(* MFEMUL_WRITEBL2.  A field of a trailer that may not be written keeps    *)
(* its old value.  A data block that may not be written gets what is in    *)
(* response, into which nothing has been loaded in this branch.            *)
(***************************************************************************)
Write2Trailer(t) ==
    LET s == cardWRBL[1]
        old == trailer[s]
        key == cardAUTHKEY
    IN
      /\ cardWRBL[2] = "trailer"
      /\ trailer' = [trailer EXCEPT ![s] =
            [a |-> IF KeyWritable(old, key) THEN t.a ELSE old.a,
             b |-> IF KeyWritable(old, key) THEN t.b ELSE old.b,
             acd |-> IF BitsWritable(old, key) THEN t.acd ELSE old.acd,
             act |-> IF BitsWritable(old, key) THEN t.act ELSE old.act,
             val |-> IF KeyWritable(old, key) \/ BitsWritable(old, key)
                     THEN NoValue ELSE old.val]]
      /\ response' = <<"trailer", 0>>
      /\ UNCHANGED data

BuggyWrite2Data(c) ==
    /\ cardWRBL[2] = "data"
    /\ \E ac \in AccessCodes(cardWRBL[1]) :
         data' = [data EXCEPT ![cardWRBL[1]] =
            IF DataReadable(ac, cardAUTHKEY) THEN c ELSE response]
    /\ UNCHANGED <<trailer, response>>

Write2Data(c) ==
    LET s == cardWRBL[1] IN
      /\ cardWRBL[2] = "data"
      /\ \E ac \in AccessCodes(s) :
           data' = [data EXCEPT ![s] =
              IF DataWritable(ac, cardAUTHKEY) THEN c ELSE response]
      /\ UNCHANGED <<trailer, response>>

WriteBl2 ==
    /\ cardSTATE = "WRITEBL2" /\ writes < MaxWrites
    /\ \/ \E t \in Trailers : Write2Trailer(t)
       \/ \E c \in Plain : Write2Data(c)
    /\ cardSTATE' = "WORK" /\ UNCHANGED <<cardAUTHSC, cardAUTHKEY, cardWRBL>>
    /\ writes' = writes + 1
    /\ Says("ACK")
    /\ UNCHANGED <<cardINTREG, ans, numReads, proven>>

WriteBl2Bad ==
    /\ cardSTATE = "WRITEBL2" /\ ToIdle
    /\ Silent /\ proven' = Nobody
    /\ UNCHANGED <<memory, scratch, numReads, writes>>

BuggyRegister(w) ==
    /\ cardINTREG' = w
    /\ cardSTATE' = "WORK" /\ UNCHANGED <<cardAUTHSC, cardAUTHKEY, cardWRBL>>

Register(w) ==
    /\ cardINTREG' = w % WORD
    /\ cardSTATE' = "WORK" /\ UNCHANGED <<cardAUTHSC, cardAUTHKEY, cardWRBL>>

\* emlGetValBl: the block was checked when the command came.
Stored == IF cardWRBL[2] = "data" THEN data[cardWRBL[1]][2]
                                  ELSE trailer[cardWRBL[1]].val

(***************************************************************************)
(* MFEMUL_INTREG_INC, _DEC, _REST: the operand arrives.  A frame of the    *)
(* wrong length in state INC runs on into the code for DEC, where it is    *)
(* not decrypted and the last operand is subtracted.                       *)
(***************************************************************************)
ValueOperand(w) ==
    /\ \/ /\ cardSTATE = "INTREG_INC" /\ ans' = w
          /\ Register(Stored + w)
       \/ /\ cardSTATE = "INTREG_DEC" /\ ans' = w
          /\ Register(Stored - w)
       \/ /\ cardSTATE = "INTREG_REST" /\ ans' = w
          /\ Register(Stored)
    /\ Silent
    /\ UNCHANGED <<memory, response, numReads, proven, writes>>

ValueOperandBad ==
    /\ cardSTATE \in {"INTREG_INC", "INTREG_DEC"}
    /\ Register(cardINTREG - ans)
    /\ Silent
    /\ UNCHANGED <<memory, ans, response, numReads, proven, writes>>

-----------------------------------------------------------------------------
Session ==
    \/ Start \/ FieldOn \/ FieldOff \/ Leave \/ Ignore
    \/ \E wupa \in BOOLEAN : WakeUp(wupa)
    \/ \E ours \in BOOLEAN : Anticollision(ours)
    \/ \E level \in 1 .. 3, ours \in BOOLEAN : Select(level, ours)

Work ==
    \/ BadFrame \/ Halt \/ Rats
    \/ \E s \in Sectors, key \in Keys : Auth(s, key)
    \/ \E b \in Blocks : Refuse(b) \/ ReadBlock(b) \/ WriteBlock(b) \/ Transfer(b)
    \/ \E b \in Blocks, op \in {"INTREG_INC", "INTREG_DEC", "INTREG_REST"} :
          ValueCommand(op, b)

SecondFrame ==
    \/ \E answer \in {"right", "wrong", "short"} : Auth1(answer)
    \/ WriteBl2 \/ WriteBl2Bad
    \/ (\E w \in Operands : ValueOperand(w)) \/ ValueOperandBad

Next == Session \/ Work \/ SecondFrame

Spec == Init /\ [][Next]_vars

-----------------------------------------------------------------------------
(***************************************************************************)
(* cardAUTHKEY is set when an authentication begins and stays set when the *)
(* field goes or a frame is malformed; yet whenever commands are accepted  *)
(* as authenticated, the reader has proved that key of that sector since   *)
(* the card was last selected.                                             *)
(***************************************************************************)
AuthBeforeAccess ==
    cardSTATE \in {"WORK", "WRITEBL2", "INTREG_INC", "INTREG_DEC", "INTREG_REST"}
      => proven = IF Encrypted THEN <<cardAUTHSC, cardAUTHKEY>> ELSE Nobody

(***************************************************************************)
(* A block is changed or sent only in the sector whose key the reader has  *)
(* proved, although the block of a two-step command is noted in one frame  *)
(* and written in the next.                                                *)
(***************************************************************************)
OnlyProvenSector ==
    [][ \A s \in Sectors :
          data'[s] # data[s] \/ trailer'[s] # trailer[s] \/ sent' = <<"block", s>>
          => proven[1] = s ]_vars

HonoursAccessCodes(s) ==
    LET old == trailer[s]
        new == trailer'[s]
    IN
      /\ s \notin Block128 /\ data'[s] # data[s] /\ data'[s] \in Plain
           => DataWritable(old.acd, proven[2])
      /\ new.val = NoValue /\ <<new.a, new.b>> # <<old.a, old.b>>
           => KeyWritable(old, proven[2])
      /\ new.val = NoValue /\ <<new.acd, new.act>> # <<old.acd, old.act>>
           => BitsWritable(old, proven[2])

(***************************************************************************)
(* What a reader sends in a write gets into the memory only where the      *)
(* access codes of the sector's trailer allow it to the key the reader has *)
(* proved, whatever the card noted when the two-step command began.  Three *)
(* exceptions are the code's: block 128, whose codes are looked up in the  *)
(* wrong block; a refused data block, which may still change, to what was  *)
(* left in response; and a block that a register was transferred to, as    *)
(* TRANSFER asks for no permission.                                        *)
(***************************************************************************)
WritesHonourAccessCodes == [][\A s \in Sectors : HonoursAccessCodes(s)]_vars
=============================================================================
