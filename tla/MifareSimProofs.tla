-------------------------- MODULE MifareSimProofs ---------------------------
(***************************************************************************)
(* Proofs about the simulated card, for all sets of sectors, trailers and  *)
(* contents, every word size and all bounds.                               *)
(***************************************************************************)
EXTENDS MifareSim, TLAPS

ValueOps == {"INTREG_INC", "INTREG_DEC", "INTREG_REST"}

(***************************************************************************)
(* What makes AuthBeforeAccess inductive: a selected card has forgotten    *)
(* the last key, a challenged one knows which key it asked for, and the    *)
(* block of a two-step command lies in the sector of a key in use.         *)
(***************************************************************************)
AuthInv ==
    /\ AuthBeforeAccess
    /\ cardSTATE = "SELECT" => proven = Nobody /\ cardAUTHKEY = AUTHKEYNONE
    /\ cardSTATE = "AUTH1" => cardAUTHKEY \in Keys
    /\ cardSTATE \in ValueOps \cup {"WRITEBL2"}
         => cardAUTHKEY \in Keys /\ cardWRBL[1] = cardAUTHSC

(***************************************************************************)
(* The block of a value operation is still a value block when the operand  *)
(* comes, and a simulation that runs has reads left.                       *)
(***************************************************************************)
StepInv ==
    /\ cardSTATE \in ValueOps => IsValue(cardWRBL)
    /\ cardSTATE # "off" /\ exitAfterNReads > 0 => numReads < exitAfterNReads

SimInv == TypeOK /\ AuthInv /\ StepInv

-----------------------------------------------------------------------------
(***************************************************************************)
(* The result of uint32_t arithmetic is a word.                            *)
(***************************************************************************)
LEMMA Wraps == ASSUME NEW x \in Int PROVE x % WORD \in Words
  BY SimAssumption DEF Words

LEMMA WordsAreInt == Words \subseteq Int /\ 0 \in Words /\ Operands \subseteq Words
  BY SimAssumption DEF Words

LEMMA FreshOK == /\ Fresh.cardSTATE = "NOFIELD" /\ Fresh.cardAUTHSC \in Sectors
                 /\ Fresh.cardAUTHKEY = AUTHKEYNONE /\ Fresh.cardWRBL \in Blocks
<1>1. (CHOOSE s \in Sectors : TRUE) \in Sectors
  BY SimAssumption
<1> QED
  BY <1>1 DEF Fresh, Blocks

LEMMA SimInit == Init => SimInv
<1> SUFFICES ASSUME Init PROVE SimInv
  OBVIOUS
<1>1. MemoryOK
  BY WordsAreInt, SimAssumption DEF Init, MemoryOK, Contents, Trailer
<1>2. CardOK
  BY FreshOK DEF Init, CardOK
<1>3. ScratchOK /\ CountsOK
  BY WordsAreInt, SimAssumption DEF Init, ScratchOK, CountsOK, Scratch
<1>4. AuthInv
  BY FreshOK DEF Init, AuthInv, AuthBeforeAccess, ValueOps
<1>5. StepInv
  BY FreshOK, SimAssumption DEF Init, StepInv, ValueOps
<1> QED
  BY <1>1, <1>2, <1>3, <1>4, <1>5 DEF SimInv, TypeOK

-----------------------------------------------------------------------------
(***************************************************************************)
(* The value a two-step command works on, read when the operand comes.     *)
(***************************************************************************)
LEMMA StoredIsWord ==
    ASSUME MemoryOK, CardOK, IsValue(cardWRBL)
    PROVE  Stored \in Words
<1>1. CASE cardWRBL[2] = "data"
  <2>1. cardWRBL[1] \in Sectors /\ data[cardWRBL[1]] \in Contents
    BY DEF CardOK, MemoryOK, Blocks
  <2>2. data[cardWRBL[1]][1] = "value"
    BY <1>1 DEF IsValue
  <2>3. data[cardWRBL[1]] \notin Plain
    BY <2>2, SimAssumption
  <2>4. data[cardWRBL[1]] \notin Scratch
    BY <2>2 DEF Scratch
  <2>5. PICK w \in Words : data[cardWRBL[1]] = Value(w)
    BY <2>1, <2>3, <2>4 DEF Contents
  <2> QED
    BY <1>1, <2>5 DEF Value, Stored
<1>2. CASE cardWRBL[2] = "trailer"
  <2>1. trailer[cardWRBL[1]] \in Trailer(Words \cup {NoValue})
    BY DEF CardOK, MemoryOK, Blocks
  <2>2. trailer[cardWRBL[1]].val \in Words
    BY <1>2, <2>1 DEF IsValue, Trailer
  <2> QED
    BY <1>2, <2>2 DEF Stored
<1> QED
  BY <1>1, <1>2 DEF CardOK, Blocks

(***************************************************************************)
(* The memory: only transfers and writes change it.                        *)
(***************************************************************************)
LEMMA MemoryStep == ASSUME TypeOK, [Next]_vars PROVE MemoryOK'
<1>1. CASE UNCHANGED memory
  BY <1>1 DEF TypeOK, MemoryOK, memory
<1>2. ASSUME NEW b \in Blocks, Transfer(b) PROVE MemoryOK'
  <2>1. b[1] \in Sectors /\ Value(cardINTREG) \in Contents
    BY DEF TypeOK, ScratchOK, Contents, Blocks
  <2>2. data' \in [Sectors -> Contents]
    BY <1>2, <2>1 DEF Transfer, TypeOK, MemoryOK
  <2>3. ASSUME NEW t \in Trailers
        PROVE  [t EXCEPT !.val = cardINTREG] \in Trailer(Words \cup {NoValue})
    BY SimAssumption DEF Trailer, TypeOK, ScratchOK
  <2>4. trailer' \in [Sectors -> Trailer(Words \cup {NoValue})]
    BY <1>2, <2>1, <2>3 DEF Transfer, TypeOK, MemoryOK
  <2> QED
    BY <2>2, <2>4 DEF MemoryOK
<1>3. CASE WriteBl2
  <2>1. cardWRBL[1] \in Sectors /\ trailer[cardWRBL[1]] \in Trailer(Words \cup {NoValue})
    BY DEF TypeOK, CardOK, MemoryOK, Blocks
  <2>2. ASSUME NEW t \in Trailers, Write2Trailer(t) PROVE MemoryOK'
    <3>1. PICK r \in Trailer(Words \cup {NoValue}) :
              trailer' = [trailer EXCEPT ![cardWRBL[1]] = r]
      BY <2>1, <2>2, SimAssumption DEF Write2Trailer, Trailer
    <3> QED
      BY <2>1, <2>2, <3>1 DEF Write2Trailer, TypeOK, MemoryOK
  <2>3. ASSUME NEW c \in Plain, Write2Data(c) PROVE MemoryOK'
    <3>1. c \in Contents /\ response \in Contents
      BY DEF Contents, TypeOK, ScratchOK
    <3> QED
      BY <2>1, <2>3, <3>1 DEF Write2Data, TypeOK, MemoryOK
  <2> QED
    BY <1>3, <2>2, <2>3 DEF WriteBl2
<1>4. CASE Session
  BY <1>1, <1>4 DEF Session, Start, FieldOn, FieldOff, Leave, Ignore, WakeUp,
                    Anticollision, Select
<1>5. CASE Work
  BY <1>1, <1>2, <1>5 DEF Work, BadFrame, Halt, Rats, Auth, Refuse, ReadBlock,
                          WriteBlock, ValueCommand
<1>6. CASE SecondFrame
  BY <1>1, <1>3, <1>6 DEF SecondFrame, Auth1, WriteBl2Bad, ValueOperand, ValueOperandBad
<1>7. CASE UNCHANGED vars
  BY <1>1, <1>7 DEF vars
<1> QED
  BY <1>4, <1>5, <1>6, <1>7 DEF Next

(***************************************************************************)
(* The card's own state.                                                   *)
(***************************************************************************)
LEMMA CardStep == ASSUME CardOK, [Next]_vars PROVE CardOK'
<1> USE DEF CardOK
<1>1. CASE UNCHANGED card
  BY <1>1 DEF card
<1>2. CASE /\ cardSTATE' \in {"NOFIELD", "IDLE", "SELECT", "WORK", "HALTED", "off"}
           /\ cardAUTHKEY' \in {cardAUTHKEY, AUTHKEYNONE}
           /\ UNCHANGED <<cardAUTHSC, cardWRBL>>
  BY <1>2
<1>3. CASE Session
  <2>1. CASE Start
    BY <2>1, FreshOK DEF Start
  <2> QED
    BY <1>1, <1>2, <1>3, <2>1
    DEF Session, FieldOn, FieldOff, Leave, Ignore, WakeUp, KeyAtWakeUp, Anticollision,
        Select, ToIdle, Stays
<1>4. CASE Work
  <2>1. ASSUME NEW s \in Sectors, NEW key \in Keys, Auth(s, key) PROVE CardOK'
    BY <2>1 DEF Auth
  <2>2. ASSUME NEW b \in Blocks, WriteBlock(b) PROVE CardOK'
    BY <2>2 DEF WriteBlock
  <2>3. ASSUME NEW b \in Blocks, NEW op \in ValueOps, ValueCommand(op, b) PROVE CardOK'
    BY <2>3 DEF ValueCommand, Stays, card, ValueOps
  <2>4. ASSUME NEW b \in Blocks, ReadBlock(b) PROVE CardOK'
    BY <2>4 DEF ReadBlock
  <2> QED
    BY <1>1, <1>2, <1>4, <2>1, <2>2, <2>3, <2>4
    DEF Work, BadFrame, Halt, Rats, Refuse, Transfer, Stays, ValueOps
<1>5. CASE SecondFrame
  BY <1>2, <1>5 DEF SecondFrame, Auth1, AuthFails, WriteBl2, WriteBl2Bad, ToIdle,
                    ValueOperand, ValueOperandBad, Register
<1>6. CASE UNCHANGED vars
  BY <1>1, <1>6 DEF vars
<1> QED
  BY <1>3, <1>4, <1>5, <1>6 DEF Next

(***************************************************************************)
(* The scratch variables: the register of the value operations stays a     *)
(* word, since the block is a value block when its value is fetched.       *)
(***************************************************************************)
LEMMA ScratchStep == ASSUME TypeOK, StepInv, [Next]_vars PROVE ScratchOK'
<1> USE WordsAreInt DEF ScratchOK
<1>0. ScratchOK
  BY DEF TypeOK
<1>1. CASE UNCHANGED scratch
  BY <1>0, <1>1 DEF scratch
<1>2. CASE UNCHANGED <<cardINTREG, ans>> /\ response' \in Scratch
  BY <1>0, <1>2
<1>3. CASE Session
  <2>1. CASE Start
    BY <2>1 DEF Start, Scratch
  <2> QED
    BY <1>1, <1>3, <2>1 DEF Session, FieldOn, FieldOff, Leave, Ignore, WakeUp,
                            Anticollision, Select
<1>4. CASE Work
  <2>1. CASE Rats
    BY <1>0, <1>2, <2>1 DEF Rats, Scratch
  <2>2. ASSUME NEW s \in Sectors, NEW key \in Keys, Auth(s, key) PROVE ScratchOK'
    BY <1>0, <1>2, <2>2 DEF Auth, Scratch
  <2>3. ASSUME NEW b \in Blocks, ReadBlock(b) PROVE ScratchOK'
    BY <1>2, <2>3 DEF ReadBlock, Scratch
  <2> QED
    BY <1>1, <1>4, <2>1, <2>2, <2>3
    DEF Work, BadFrame, Halt, Refuse, WriteBlock, Transfer, ValueCommand
<1>5. CASE SecondFrame
  <2>1. ASSUME NEW answer, Auth1(answer) PROVE ScratchOK'
    BY <1>0, <2>1 DEF Auth1, Scratch
  <2>2. CASE WriteBl2
    BY <1>0, <2>2 DEF WriteBl2, Write2Trailer, Write2Data, Scratch
  <2>3. ASSUME NEW w \in Operands, ValueOperand(w) PROVE ScratchOK'
    <3>1. cardSTATE \in ValueOps
      BY <2>3 DEF ValueOperand, ValueOps
    <3>2. Stored \in Int /\ w \in Int
      BY <3>1, StoredIsWord DEF TypeOK, StepInv
    <3>3. Stored + w \in Int /\ Stored - w \in Int
      BY <3>2
    <3> QED
      BY <1>0, <2>3, <3>2, <3>3, Wraps DEF ValueOperand, Register
  <2>4. CASE ValueOperandBad
    <3>1. cardINTREG - ans \in Int
      BY <1>0
    <3> QED
      BY <1>0, <2>4, <3>1, Wraps DEF ValueOperandBad, Register
  <2> QED
    BY <1>1, <1>5, <2>1, <2>2, <2>3, <2>4 DEF SecondFrame, WriteBl2Bad
<1>6. CASE UNCHANGED vars
  BY <1>1, <1>6 DEF vars
<1> QED
  BY <1>3, <1>4, <1>5, <1>6 DEF Next

(***************************************************************************)
(* The counters stay in their bounds and the history in its set.           *)
(***************************************************************************)
LEMMA CountsStep ==
    ASSUME TypeOK, AuthInv, StepInv, [Next]_vars
    PROVE  CountsOK'
<1> USE DEF CountsOK
<1>0. CountsOK
  BY DEF TypeOK
<1>1. CASE UNCHANGED <<numReads, writes>> /\ proven' \in {Nobody, proven}
  BY <1>0, <1>1
<1>2. CASE Session
  <2>1. CASE Start
    BY <1>0, <2>1, SimAssumption DEF Start
  <2> QED
    BY <1>1, <1>2, <2>1 DEF Session, FieldOn, FieldOff, Leave, Ignore, WakeUp,
                            Anticollision, Select
<1>3. CASE Work
  <2>1. ASSUME NEW b \in Blocks, ReadBlock(b) PROVE CountsOK'
    <3>1. numReads' \in 0 .. exitAfterNReads
      BY <1>0, <2>1, SimAssumption DEF ReadBlock, Working, StepInv
    <3> QED
      BY <1>0, <2>1, <3>1 DEF ReadBlock
  <2>2. ASSUME NEW b \in Blocks, Transfer(b) PROVE CountsOK'
    BY <1>0, <2>2, SimAssumption DEF Transfer
  <2> QED
    BY <1>1, <1>3, <2>1, <2>2
    DEF Work, BadFrame, Halt, Rats, Auth, Refuse, WriteBlock, ValueCommand
<1>4. CASE SecondFrame
  <2>1. CASE WriteBl2
    BY <1>0, <2>1, SimAssumption DEF WriteBl2
  <2>2. ASSUME NEW answer, Auth1(answer) PROVE CountsOK'
    <3>1. <<cardAUTHSC, cardAUTHKEY>> \in Sectors \X Keys
      BY <2>2 DEF Auth1, AuthInv, TypeOK, CardOK
    <3> QED
      BY <1>0, <2>2, <3>1 DEF Auth1
  <2> QED
    BY <1>1, <1>4, <2>1, <2>2 DEF SecondFrame, WriteBl2Bad, ValueOperand, ValueOperandBad
<1>5. CASE UNCHANGED vars
  BY <1>1, <1>5 DEF vars
<1> QED
  BY <1>2, <1>3, <1>4, <1>5 DEF Next

(***************************************************************************)
(* Authentication: one step per action that the invariant speaks of.       *)
(***************************************************************************)
LEMMA AuthStep == ASSUME CardOK, AuthInv, [Next]_vars PROVE AuthInv'
<1> USE DEF AuthInv, AuthBeforeAccess, ValueOps, Encrypted, Keys, AUTHKEYA, AUTHKEYB,
            AUTHKEYNONE
<1>1. CASE UNCHANGED <<card, proven>>
  BY <1>1 DEF card
<1>2. CASE cardSTATE' \in {"NOFIELD", "IDLE", "HALTED", "off"}
  BY <1>2
<1>3. CASE Session
  <2>1. CASE Start
    BY <1>2, <2>1, FreshOK DEF Start
  <2>2. ASSUME NEW wupa, WakeUp(wupa) PROVE AuthInv'
    BY <2>2 DEF WakeUp, KeyAtWakeUp
  <2>3. ASSUME NEW level, NEW ours, Select(level, ours) PROVE AuthInv'
    BY <1>1, <1>2, <2>3 DEF Select, Stays, ToIdle
  <2> QED
    BY <1>1, <1>2, <1>3, <2>1, <2>2, <2>3
    DEF Session, FieldOn, FieldOff, Leave, Ignore, Anticollision, ToIdle, Stays
<1>4. CASE Work
  <2>1. ASSUME NEW s, NEW key \in Keys, Auth(s, key) PROVE AuthInv'
    BY <2>1 DEF Auth
  <2>2. ASSUME NEW b, WriteBlock(b) PROVE AuthInv'
    BY <2>2 DEF WriteBlock, Working, Refused, CardOK
  <2>3. ASSUME NEW b, NEW op \in ValueOps, ValueCommand(op, b) PROVE AuthInv'
    BY <1>1, <2>3 DEF ValueCommand, Working, Refused, CardOK, Stays
  <2>4. ASSUME NEW b, ReadBlock(b) PROVE AuthInv'
    BY <2>4 DEF ReadBlock, Working
  <2> QED
    BY <1>1, <1>2, <1>4, <2>1, <2>2, <2>3, <2>4
    DEF Work, BadFrame, Halt, Rats, Refuse, Transfer, Stays
<1>5. CASE SecondFrame
  <2>1. ASSUME NEW answer, Auth1(answer) PROVE AuthInv'
    BY <1>2, <2>1 DEF Auth1, AuthFails, ToIdle
  <2>2. CASE WriteBl2
    BY <2>2 DEF WriteBl2
  <2>3. ASSUME NEW w, ValueOperand(w) PROVE AuthInv'
    BY <2>3 DEF ValueOperand, Register
  <2>4. CASE ValueOperandBad
    BY <2>4 DEF ValueOperandBad, Register
  <2> QED
    BY <1>2, <1>5, <2>1, <2>2, <2>3, <2>4 DEF SecondFrame, WriteBl2Bad, ToIdle
<1>6. CASE UNCHANGED vars
  BY <1>1, <1>6 DEF vars
<1> QED
  BY <1>3, <1>4, <1>5, <1>6 DEF Next

(***************************************************************************)
(* Value blocks wait for their operand, reads are counted.                 *)
(***************************************************************************)
LEMMA StepStep == ASSUME TypeOK, StepInv, [Next]_vars PROVE StepInv'
<1> USE DEF StepInv, ValueOps
<1>1. CASE UNCHANGED <<memory, card, numReads>>
  BY <1>1 DEF memory, card, IsValue
<1>2. CASE /\ cardSTATE' \notin ValueOps /\ UNCHANGED numReads
           /\ cardSTATE # "off" \/ cardSTATE' = "off"
  BY <1>2
<1>3. CASE Session
  <2>1. CASE Start
    BY <2>1, FreshOK, SimAssumption DEF Start
  <2> QED
    BY <1>1, <1>2, <1>3, <2>1 DEF Session, FieldOn, FieldOff, Leave, Ignore, WakeUp,
                                  Anticollision, Select, ToIdle, Stays, Listening
<1>4. CASE Work
  <2>1. ASSUME NEW b, NEW op \in ValueOps, ValueCommand(op, b) PROVE StepInv'
    BY <1>1, <2>1 DEF ValueCommand, Working, Stays, IsValue, memory
  <2>2. ASSUME NEW b, ReadBlock(b) PROVE StepInv'
    BY <2>2, SimAssumption DEF ReadBlock, Working, TypeOK, CountsOK
  <2> QED
    BY <1>1, <1>2, <1>4, <2>1, <2>2
    DEF Work, BadFrame, Halt, Rats, Auth, Refuse, WriteBlock, Transfer, Stays, Working, card
<1>5. CASE SecondFrame
  BY <1>2, <1>5 DEF SecondFrame, Auth1, AuthFails, ToIdle, WriteBl2, WriteBl2Bad,
                    ValueOperand, ValueOperandBad, Register
<1>6. CASE UNCHANGED vars
  BY <1>1, <1>6 DEF vars
<1> QED
  BY <1>3, <1>4, <1>5, <1>6 DEF Next

LEMMA SimStep == ASSUME SimInv, [Next]_vars PROVE SimInv'
  BY MemoryStep, CardStep, ScratchStep, CountsStep, AuthStep, StepStep DEF SimInv, TypeOK

(***************************************************************************)
(* The inductive invariant of the simulated card.  Its type part needs the *)
(* rest: the register of the value operations is a word because the block  *)
(* it is loaded from is still a value block when the operand arrives.      *)
(***************************************************************************)
THEOREM SimSound == Spec => []SimInv
  BY SimInit, SimStep, PTL DEF Spec

(***************************************************************************)
(* The variables of Mifare1ksim keep their types: the value register and   *)
(* the emulator memory hold words and blocks whatever the reader sends.    *)
(***************************************************************************)
THEOREM SimTypeCorrect == Spec => []TypeOK
  BY SimSound, PTL DEF SimInv

(***************************************************************************)
(* Mifare1ksim accepts commands as authenticated only after the reader has *)
(* proved the key the card has noted.                                      *)
(***************************************************************************)
THEOREM AuthenticatedMeansProven == Spec => []AuthBeforeAccess
  BY SimSound, PTL DEF SimInv, AuthInv

-----------------------------------------------------------------------------
(***************************************************************************)
(* Each step changes at most the sector in which the card is working, and  *)
(* sends blocks of no other.                                               *)
(***************************************************************************)
LEMMA AccessStep ==
    ASSUME SimInv, Next, NEW s \in Sectors,
           data'[s] # data[s] \/ trailer'[s] # trailer[s] \/ sent' = <<"block", s>>
    PROVE  proven = <<s, cardAUTHKEY>> /\ cardAUTHKEY \in Keys
<1> DEFINE Quietly == UNCHANGED memory /\ sent'[1] # "block"
<1>1. ~Quietly
  BY DEF memory
<1>2. CASE Session
  BY <1>1, <1>2 DEF Session, Start, FieldOn, FieldOff, Leave, Ignore, WakeUp,
                    Anticollision, Select, Silent, Says, Quiet
<1>3. CASE Work
  <2>1. PICK b \in Blocks : ReadBlock(b) \/ Transfer(b)
    BY <1>1, <1>3 DEF Work, BadFrame, Halt, Rats, Auth, Refuse, WriteBlock, ValueCommand,
                      Silent, Says, Quiet
  <2>2. b[1] = s
    <3>1. b[1] \in Sectors /\ s \in DOMAIN data /\ s \in DOMAIN trailer
      BY DEF Blocks, SimInv, TypeOK, MemoryOK
    <3>2. CASE ReadBlock(b)
      BY <3>2 DEF ReadBlock, memory
    <3>3. CASE Transfer(b)
      BY <3>1, <3>3 DEF Transfer, Says
    <3> QED
      BY <2>1, <3>2, <3>3
  <2> QED
    BY <2>1, <2>2 DEF ReadBlock, Transfer, Working, Refused, SimInv, AuthInv,
                      AuthBeforeAccess, Encrypted, TypeOK, CardOK
<1>4. CASE SecondFrame
  <2>1. WriteBl2
    BY <1>1, <1>4 DEF SecondFrame, Auth1, WriteBl2Bad, ValueOperand, ValueOperandBad,
                      Silent, Says, Quiet
  <2>2. cardWRBL[1] = s
    BY <2>1 DEF WriteBl2, Write2Trailer, Write2Data, Says, SimInv, TypeOK, MemoryOK
  <2>3. cardAUTHKEY \in Keys /\ cardAUTHKEY # AUTHKEYNONE /\ s = cardAUTHSC
    BY <2>1, <2>2 DEF WriteBl2, SimInv, AuthInv, Keys, AUTHKEYA, AUTHKEYB, AUTHKEYNONE
  <2> QED
    BY <2>1, <2>3 DEF WriteBl2, SimInv, AuthInv, AuthBeforeAccess, Encrypted
<1> QED
  BY <1>2, <1>3, <1>4 DEF Next

(***************************************************************************)
(* Mifare1ksim changes and sends blocks only in the sector whose key the   *)
(* reader has proved, also when the block was noted in one frame and is    *)
(* written in the next.                                                    *)
(***************************************************************************)
THEOREM AccessOnlyInProvenSector == Spec => OnlyProvenSector
<1> DEFINE A == \A s \in Sectors :
                  data'[s] # data[s] \/ trailer'[s] # trailer[s] \/ sent' = <<"block", s>>
                  => proven[1] = s
<1>1. SimInv /\ [Next]_vars => [A]_vars
  <2> SUFFICES ASSUME SimInv, Next, NEW s \in Sectors,
                      data'[s] # data[s] \/ trailer'[s] # trailer[s]
                        \/ sent' = <<"block", s>>
               PROVE  proven[1] = s
    OBVIOUS
  <2> QED
    BY AccessStep
<1> QED
  BY <1>1, SimSound, PTL DEF Spec, OnlyProvenSector

(***************************************************************************)
(* What the card has made itself is not what a reader has written.         *)
(***************************************************************************)
LEMMA ScratchIsNotPlain == Scratch \cap Plain = {} /\ \A w : Value(w) \notin Plain
  BY SimAssumption DEF Scratch, Value

(***************************************************************************)
(* The permissions that the second frame of a write looks up.              *)
(***************************************************************************)
LEMMA WriteStep ==
    ASSUME SimInv, WriteBl2, NEW s \in Sectors
    PROVE  /\ s \notin Block128 /\ data'[s] # data[s] /\ data'[s] \in Plain
                => DataWritable(trailer[s].acd, cardAUTHKEY)
           /\ <<trailer'[s].a, trailer'[s].b>> # <<trailer[s].a, trailer[s].b>>
                => KeyWritable(trailer[s], cardAUTHKEY)
           /\ <<trailer'[s].acd, trailer'[s].act>> # <<trailer[s].acd, trailer[s].act>>
                => BitsWritable(trailer[s], cardAUTHKEY)
<1>1. s \in DOMAIN trailer /\ s \in DOMAIN data
  BY DEF SimInv, TypeOK, MemoryOK
<1>2. ASSUME NEW t \in Trailers, Write2Trailer(t)
      PROVE  /\ data' = data
             /\ <<trailer'[s].a, trailer'[s].b>> # <<trailer[s].a, trailer[s].b>>
                  => KeyWritable(trailer[s], cardAUTHKEY)
             /\ <<trailer'[s].acd, trailer'[s].act>> # <<trailer[s].acd, trailer[s].act>>
                  => BitsWritable(trailer[s], cardAUTHKEY)
  BY <1>1, <1>2 DEF Write2Trailer
<1>3. ASSUME NEW c \in Plain, Write2Data(c)
      PROVE  /\ trailer' = trailer
             /\ s \notin Block128 /\ data'[s] # data[s] /\ data'[s] \in Plain
                  => DataWritable(trailer[s].acd, cardAUTHKEY)
  <2>1. response \notin Plain
    BY ScratchIsNotPlain DEF SimInv, TypeOK, ScratchOK
  <2> QED
    BY <1>1, <1>3, <2>1 DEF Write2Data, AccessCodes
<1> QED
  BY <1>2, <1>3 DEF WriteBl2

(***************************************************************************)
(* In Mifare1ksim a reader's data, keys and access bits are stored only    *)
(* where the access codes of the sector's own trailer allow it to the key  *)
(* that the reader has proved.  The exceptions are those of the property:  *)
(* block 128, whose codes SectorTrailer looks up in block 131, a refused   *)
(* data block overwritten with response, and TRANSFER.                     *)
(***************************************************************************)
THEOREM WritesArePermitted == Spec => WritesHonourAccessCodes
<1> DEFINE
      NewData(s) == s \notin Block128 /\ data'[s] # data[s] /\ data'[s] \in Plain
      NewKeys(s) == /\ trailer'[s].val = NoValue
                    /\ <<trailer'[s].a, trailer'[s].b>> # <<trailer[s].a, trailer[s].b>>
      NewBits(s) == /\ trailer'[s].val = NoValue
                    /\ <<trailer'[s].acd, trailer'[s].act>>
                         # <<trailer[s].acd, trailer[s].act>>
<1>1. ASSUME SimInv, Next, NEW s \in Sectors, NewData(s) \/ NewKeys(s) \/ NewBits(s)
      PROVE  /\ NewData(s) => DataWritable(trailer[s].acd, proven[2])
             /\ NewKeys(s) => KeyWritable(trailer[s], proven[2])
             /\ NewBits(s) => BitsWritable(trailer[s], proven[2])
  <2>0. data'[s] # data[s] \/ trailer'[s] # trailer[s]
    BY <1>1
  <2>1. proven[2] = cardAUTHKEY
    BY <1>1, <2>0, AccessStep
  <2>2. CASE WriteBl2
    BY <1>1, <2>1, <2>2, WriteStep
  <2>3. ASSUME NEW b \in Blocks, Transfer(b)
        PROVE  FALSE
    <3>1. b[1] \in Sectors /\ s \in DOMAIN data /\ s \in DOMAIN trailer
      BY <1>1 DEF Blocks, SimInv, TypeOK, MemoryOK
    <3>2. CASE b[2] = "data"
      BY <1>1, <2>3, <3>1, <3>2, ScratchIsNotPlain DEF Transfer
    <3>3. CASE b[2] = "trailer"
      <4>1. PICK t \in Trailers :
                trailer' = [trailer EXCEPT ![b[1]] = [t EXCEPT !.val = cardINTREG]]
        BY <2>3, <3>3 DEF Transfer
      <4>2. cardINTREG # NoValue
        BY <1>1, SimAssumption DEF SimInv, TypeOK, ScratchOK, Words, NoValue
      <4>3. [t EXCEPT !.val = cardINTREG].val # NoValue
        BY <4>2, SimAssumption DEF Trailer
      <4> QED
        BY <1>1, <2>3, <3>1, <3>3, <4>1, <4>3 DEF Transfer
    <3> QED
      BY <3>2, <3>3 DEF Blocks
  <2>4. WriteBl2 \/ \E b \in Blocks : Transfer(b)
    BY <1>1, <2>0 DEF Next, Session, Start, FieldOn, FieldOff, Leave, Ignore, WakeUp,
                Anticollision, Select, Work, BadFrame, Halt, Rats, Auth, Refuse, ReadBlock,
                WriteBlock, ValueCommand, SecondFrame, Auth1, WriteBl2Bad, ValueOperand,
                ValueOperandBad, memory
  <2> QED
    BY <2>2, <2>3, <2>4
<1>2. ASSUME SimInv, Next, NEW s \in Sectors PROVE HonoursAccessCodes(s)
  BY <1>1, <1>2 DEF HonoursAccessCodes
<1>3. SimInv /\ [Next]_vars => [\A s \in Sectors : HonoursAccessCodes(s)]_vars
  BY <1>2
<1> QED
  BY <1>3, SimSound, PTL DEF Spec, WritesHonourAccessCodes
=============================================================================
