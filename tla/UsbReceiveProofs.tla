-------------------------- MODULE UsbReceiveProofs --------------------------
(***************************************************************************)
(* The receive path of the device hands whole frames to the dispatcher,    *)
(* for every size of packet and frame and any number of them.              *)
(***************************************************************************)
EXTENDS UsbReceive, SequenceTheorems, WellFoundedInduction, TLAPS

LEMMA Sizes ==
    /\ EP_OUT_SIZE \in Nat /\ EP_OUT_SIZE > 0 /\ OldLen \in Nat /\ OldLen > 0
    /\ \A fr \in Frame : fr.len \in Int /\ Size(fr) \in Nat /\ Size(fr) > 0
    /\ \A fr \in Frame : fr.ng => fr.len \in Nat
    /\ \A fr \in Frame : ~fr.ng => Size(fr) = OldLen
<1>1. /\ EP_OUT_SIZE \in Nat /\ EP_OUT_SIZE > 0 /\ OldLen \in Nat /\ OldLen > 0
      /\ Payloads \subseteq Nat
  BY UsbAssumption
<1>2. ASSUME NEW fr \in Frame
      PROVE  /\ fr.len \in Int /\ Size(fr) \in Nat /\ Size(fr) > 0
             /\ fr.ng => fr.len \in Nat
             /\ ~fr.ng => Size(fr) = OldLen
  <2>1. CASE fr \in [ng : {TRUE}, len : Payloads]
    <3>1. fr.ng = TRUE /\ fr.len \in Nat
      BY <1>1, <2>1
    <3> QED
      BY <3>1 DEF Size
  <2>2. CASE fr \in [ng : {FALSE}, len : {OldLen - 2}]
    <3>1. fr.ng = FALSE /\ fr.len = OldLen - 2
      BY <2>2
    <3> QED
      BY <1>1, <3>1 DEF Size
  <2> QED
    BY <2>1, <2>2 DEF Frame
<1> QED
  BY <1>1, <1>2

\* Cutting a sequence in two.
LEMMA Cut ==
    ASSUME NEW S, NEW s \in Seq(S), NEW n \in 0 .. Len(s)
    PROVE  /\ First(s, n) \in Seq(S) /\ Len(First(s, n)) = n
           /\ Rest(s, n) \in Seq(S) /\ Len(Rest(s, n)) = Len(s) - n
           /\ \A i \in 1 .. n : First(s, n)[i] = s[i]
           /\ \A i \in 1 .. Len(s) - n : Rest(s, n)[i] = s[n + i]
<1>1. Len(s) \in Nat
  BY LenProperties
<1>2. CASE n = 0
  BY <1>1, <1>2, SubSeqProperties DEF First, Rest
<1>3. CASE n # 0
  BY <1>1, <1>3, SubSeqProperties DEF First, Rest
<1> QED
  BY <1>2, <1>3

\* min of a read and what there is.
LEMMA MinOK ==
    ASSUME NEW a \in Nat, NEW b \in Nat
    PROVE  Min2(a, b) \in 0 .. b /\ Min2(a, b) <= a /\ (Min2(a, b) = a \/ Min2(a, b) = b)
  BY DEF Min2

LEMMA SeqGrows ==
    ASSUME NEW S, NEW T, S \subseteq T, NEW s \in Seq(S)
    PROVE  s \in Seq(T)
<1>1. Len(s) \in Nat /\ DOMAIN s = 1 .. Len(s) /\ \A i \in 1 .. Len(s) : s[i] \in T
  BY LenProperties, ElementOfSeq
<1>2. s \in [1 .. Len(s) -> T]
  BY <1>1, LenProperties
<1> QED
  BY <1>1, <1>2, IsASeq

(***************************************************************************)
(* How a transfer of n units is cut into packets: packet k begins with     *)
(* unit (k - 1) * EP_OUT_SIZE + 1, all but the last are full, and only a   *)
(* host that ends transfers with an empty packet sends one.                *)
(***************************************************************************)
LEMMA Counting ==
    ASSUME NEW n \in Nat, n > 0
    PROVE  /\ PacketCount(n) \in Nat /\ PacketCount(n) > 0
           /\ \A k \in 1 .. PacketCount(n) : (k - 1) * EP_OUT_SIZE \in 0 .. n
           /\ \A k \in 1 .. PacketCount(n) - 1 : k * EP_OUT_SIZE <= n
           /\ n <= PacketCount(n) * EP_OUT_SIZE
<1> DEFINE E == EP_OUT_SIZE
<1> DEFINE q == n \div E
<1> DEFINE p == (n + E - 1) \div E
<1>1. E \in Nat /\ E > 0
  BY Sizes
<1>2. \A m \in Nat : m \div E \in Nat /\ E * (m \div E) <= m /\ m < E * (m \div E) + E
  BY <1>1
<1>3. q \in Nat /\ E * q <= n /\ n < E * q + E
  BY <1>2
<1>4. p \in Nat /\ E * p <= n + E - 1 /\ n <= E * p
  BY <1>1, <1>2
<1>5. \A a, b \in Nat : E * a \in Nat /\ a * E = E * a /\ (a <= b => E * a <= E * b)
                        /\ E * (a + 1) = E * a + E
  BY <1>1
<1> HIDE DEF q, p, E
<1>6. PacketCount(n) = IF HostZlp THEN q + 1 ELSE p
  BY DEF PacketCount, q, p, E
<1>7. p > 0
  BY <1>1, <1>4, <1>5
<1>8. PacketCount(n) \in Nat /\ PacketCount(n) > 0
  BY <1>3, <1>4, <1>6, <1>7
<1>9. n <= PacketCount(n) * E
  BY <1>1, <1>3, <1>4, <1>5, <1>6
<1>10. ASSUME NEW k \in 1 .. PacketCount(n)
       PROVE  (k - 1) * E \in 0 .. n
  <2>1. k - 1 \in Nat /\ (k - 1 <= q \/ k <= p)
    BY <1>3, <1>4, <1>6, <1>8
  <2>2. CASE k - 1 <= q
    BY <1>3, <1>5, <2>1, <2>2
  <2>3. CASE k <= p
    <3>1. E * k <= E * p /\ E * (k - 1) + E = E * k
      BY <1>4, <1>5, <2>1, <2>3
    <3> QED
      BY <1>1, <1>4, <1>5, <2>1, <3>1
  <2> QED
    BY <2>1, <2>2, <2>3
<1>11. ASSUME NEW k \in 1 .. PacketCount(n) - 1
       PROVE  k * E <= n
  <2>1. k + 1 \in 1 .. PacketCount(n) /\ k \in Nat
    BY <1>8
  <2>2. ((k + 1) - 1) * E \in 0 .. n /\ (k + 1) - 1 = k
    BY <1>10, <2>1
  <2> QED
    BY <2>2
<1> QED
  BY <1>8, <1>9, <1>10, <1>11 DEF E

LEMMA PacketsOK ==
    ASSUME NEW f \in Nat, NEW n \in Nat, n > 0
    PROVE  /\ Packets(f, n) \in Seq({p \in Seq({f} \X Nat) : Len(p) <= EP_OUT_SIZE})
           /\ Len(Packets(f, n)) = PacketCount(n)
           /\ \A k \in 1 .. PacketCount(n) :
                /\ Packets(f, n)[k] = Piece(f, n, k)
                /\ Len(Piece(f, n, k)) = Min2(EP_OUT_SIZE, n - (k - 1) * EP_OUT_SIZE)
<1> DEFINE P == {p \in Seq({f} \X Nat) : Len(p) <= EP_OUT_SIZE}
<1>1. PacketCount(n) \in Nat /\ EP_OUT_SIZE \in Nat
  BY Counting, Sizes
<1>2. ASSUME NEW k \in 1 .. PacketCount(n)
      PROVE  /\ Piece(f, n, k) \in P
             /\ Len(Piece(f, n, k)) = Min2(EP_OUT_SIZE, n - (k - 1) * EP_OUT_SIZE)
  <2> DEFINE o == (k - 1) * EP_OUT_SIZE
             l == Min2(EP_OUT_SIZE, n - o)
  <2>1. o \in Nat /\ o <= n
    BY Counting
  <2>2. l \in Nat /\ l <= EP_OUT_SIZE
    BY <1>1, <2>1 DEF Min2
  <2> HIDE DEF o, l
  <2>3. Piece(f, n, k) = [i \in 1 .. l |-> <<f, o + i>>]
    BY DEF Piece, o, l
  <2>4. Piece(f, n, k) \in [1 .. l -> {f} \X Nat]
    BY <2>1, <2>2, <2>3
  <2>5. Piece(f, n, k) \in Seq({f} \X Nat)
    BY <2>2, <2>4, IsASeq
  <2>6. Len(Piece(f, n, k)) \in Nat /\ 1 .. Len(Piece(f, n, k)) = 1 .. l
    BY <2>4, <2>5, LenProperties
  <2>7. Len(Piece(f, n, k)) = l
    BY <2>2, <2>6
  <2> QED
    BY <2>2, <2>5, <2>7 DEF l, o
<1>3. Packets(f, n) \in [1 .. PacketCount(n) -> P]
  BY <1>2 DEF Packets
<1>4. Packets(f, n) \in Seq(P)
  BY <1>1, <1>3, IsASeq
<1>5. Len(Packets(f, n)) \in Nat /\ 1 .. Len(Packets(f, n)) = 1 .. PacketCount(n)
  BY <1>3, <1>4, LenProperties
<1>6. Len(Packets(f, n)) = PacketCount(n)
  BY <1>1, <1>5
<1> QED
  BY <1>2, <1>4, <1>6 DEF Packets

-----------------------------------------------------------------------------
(* Types *)

(***************************************************************************)
(* What makes the types inductive: every unit under way is one of a frame  *)
(* the host has sent, so the header it may be taken for exists; a packet   *)
(* is at most EP_OUT_SIZE long, so what is left of one after a read fits   *)
(* into usb_read_ng_buffer; and the boot ROM reads exactly what its buffer *)
(* holds.                                                                  *)
(***************************************************************************)
Carried == (1 .. Len(sent)) \X Nat
Known == (0 .. Len(sent)) \X Nat     \* with what the buffer held at the start
Packet == {p \in Seq(Carried) : Len(p) <= EP_OUT_SIZE}
Bank == {s \in Seq(Packet) : Len(s) <= 1}

HostOK ==
    /\ program \in {"os", "bootrom"}
    /\ sent \in Seq(Frame) /\ Len(sent) <= MaxFrames
    /\ program = "bootrom" => \A f \in 1 .. Len(sent) : ~sent[f].ng

WireOK ==
    /\ out \in Seq(Packet) /\ banks \in [{0, 1} -> Bank]
    /\ fill \in {0, 1} /\ btReceiveBank \in {0, 1}

ReaderOK ==
    /\ buf \in Seq(Carried) /\ Len(buf) < EP_OUT_SIZE
    /\ stage \in {"idle"} \cup (IF program = "os" THEN {"pre", "pay", "post", "old"}
                                                  ELSE {"packet"})
    /\ want \in Nat /\ got \in Seq(Carried)
    /\ stage = "pre" => Len(got) + want = 1
    /\ stage = "packet" => Len(got) + want = OldLen

TakenOK ==
    /\ rx \in Seq(Known) /\ Len(rx) = OldLen
    /\ accepted \in Seq(Known) /\ count \in Nat

HistoryOK ==
    /\ torn \in BOOLEAN /\ skewed \in BOOLEAN
    /\ timeouts \in 0 .. MaxTimeouts /\ resets \in 0 .. MaxResets

TypeInv == HostOK /\ WireOK /\ ReaderOK /\ TakenOK /\ HistoryOK

LEMMA CarriedIsKnown == HostOK => Carried \subseteq Known /\ Known \subseteq Unit
<1> SUFFICES ASSUME HostOK PROVE Carried \subseteq Known /\ Known \subseteq Unit
  OBVIOUS
<1>1. Len(sent) \in Nat /\ MaxFrames \in Nat /\ Len(sent) <= MaxFrames
  BY UsbAssumption, LenProperties DEF HostOK
<1>2. 1 .. Len(sent) \subseteq 0 .. Len(sent) /\ 0 .. Len(sent) \subseteq 0 .. MaxFrames
  BY <1>1
<1> QED
  BY <1>2 DEF Carried, Known, Unit

LEMMA TypeInvIsType == TypeInv => TypeOK
<1> SUFFICES ASSUME TypeInv PROVE TypeOK
  OBVIOUS
<1> USE DEF TypeInv
<1>1. Carried \subseteq Unit /\ Known \subseteq Unit
  BY CarriedIsKnown
<1>2. Packet \subseteq Seq(Unit)
  BY <1>1, SeqGrows DEF Packet
<1>3. out \in Seq(Seq(Unit))
  BY <1>2, SeqGrows DEF WireOK
<1>4. Bank \subseteq {s \in Seq(Seq(Unit)) : Len(s) <= 1}
  BY <1>2, SeqGrows DEF Bank
<1>5. banks \in [{0, 1} -> {s \in Seq(Seq(Unit)) : Len(s) <= 1}]
  BY <1>4 DEF WireOK
<1>6. buf \in Seq(Unit) /\ got \in Seq(Unit) /\ rx \in Seq(Unit) /\ accepted \in Seq(Unit)
  BY <1>1, SeqGrows DEF ReaderOK, TakenOK
<1> QED
  BY <1>3, <1>5, <1>6 DEF TypeOK, HostOK, WireOK, ReaderOK, TakenOK, HistoryOK

LEMMA TypeInit == Init => TypeInv
<1> SUFFICES ASSUME Init PROVE TypeInv
  OBVIOUS
<1> USE DEF Init
<1>1. HostOK
  BY UsbAssumption DEF HostOK
<1>2. WireOK
  <2>1. <<>> \in Seq(Packet) /\ Len(<<>>) = 0
    OBVIOUS
  <2>2. <<>> \in Bank
    BY <2>1 DEF Bank
  <2> QED
    BY <2>1, <2>2 DEF WireOK
<1>3. ReaderOK
  BY Sizes DEF ReaderOK
<1>4. TakenOK
  <2>1. rx \in [1 .. OldLen -> Known]
    BY Sizes DEF Known
  <2>2. rx \in Seq(Known)
    BY <2>1, Sizes, IsASeq
  <2>3. 1 .. Len(rx) = 1 .. OldLen /\ Len(rx) \in Nat
    BY <2>1, <2>2, LenProperties
  <2>4. Len(rx) = OldLen
    BY <2>3, Sizes
  <2>5. accepted \in Seq(Known) /\ count \in Nat
    BY DEF NoCommand
  <2> QED
    BY <2>2, <2>4, <2>5 DEF TakenOK
<1>5. HistoryOK
  <2>1. torn \in BOOLEAN /\ skewed \in BOOLEAN
    OBVIOUS
  <2>2. timeouts \in 0 .. MaxTimeouts /\ resets \in 0 .. MaxResets
    BY UsbAssumption
  <2> QED
    BY <2>1, <2>2 DEF HistoryOK
<1> QED
  BY <1>1, <1>2, <1>3, <1>4, <1>5 DEF TypeInv

\* The host sends a frame: what is under way stays in it.
LEMMA TypeHostSends ==
    ASSUME TypeInv, NEW fr \in Frame, HostSends(fr)
    PROVE  TypeInv'
<1> USE DEF TypeInv
<1> DEFINE n == Len(sent)
<1>1. /\ n \in Nat /\ sent' \in Seq(Frame) /\ Len(sent') = n + 1 /\ n + 1 <= MaxFrames
      /\ sent'[n + 1] = fr /\ \A f \in 1 .. n : sent'[f] = sent[f]
  BY UsbAssumption, LenProperties, AppendProperties DEF HostSends, HostOK
<1>2. Carried \subseteq Carried' /\ ({n + 1} \X Nat) \subseteq Carried'
  BY <1>1 DEF Carried
<1>3. Packet \subseteq Packet'
  BY <1>2, SeqGrows DEF Packet
<1>4. HostOK'
  <2>1. program' = program /\ (program = "bootrom" => ~fr.ng)
    BY DEF HostSends
  <2>2. ASSUME program = "bootrom", NEW f \in 1 .. n + 1
        PROVE  ~sent'[f].ng
    <3>1. f \in 1 .. n \/ f = n + 1
      BY <1>1
    <3> QED
      BY <1>1, <2>1, <2>2, <3>1 DEF HostOK
  <2> QED
    BY <1>1, <2>1, <2>2 DEF HostOK
<1>5. WireOK'
  <2>1. Size(fr) \in Nat /\ Size(fr) > 0
    BY Sizes
  <2>2. Packets(n + 1, Size(fr)) \in Seq({p \in Seq({n + 1} \X Nat) : Len(p) <= EP_OUT_SIZE})
    <3>1. n + 1 \in Nat
      BY <1>1
    <3> HIDE DEF n
    <3> QED
      BY <2>1, <3>1, PacketsOK
  <2>3. {p \in Seq({n + 1} \X Nat) : Len(p) <= EP_OUT_SIZE} \subseteq Packet'
    BY <1>2, SeqGrows DEF Packet
  <2>4. Packets(n + 1, Size(fr)) \in Seq(Packet') /\ out \in Seq(Packet')
    BY <1>3, <2>2, <2>3, SeqGrows DEF WireOK
  <2>5. out' \in Seq(Packet')
    BY <2>4, ConcatProperties DEF HostSends
  <2>6. Bank \subseteq Bank'
    BY <1>3, SeqGrows DEF Bank
  <2>7. UNCHANGED <<banks, fill, btReceiveBank>>
    BY DEF HostSends, reader
  <2> QED
    BY <2>5, <2>6, <2>7 DEF WireOK
<1>6. ReaderOK'
  <2>1. UNCHANGED <<program, buf, stage, want, got>>
    BY DEF HostSends, reader
  <2>2. buf \in Seq(Carried') /\ got \in Seq(Carried')
    BY <1>2, SeqGrows DEF ReaderOK
  <2> QED
    BY <2>1, <2>2 DEF ReaderOK
<1>7. TakenOK'
  <2>1. Known \subseteq Known' /\ UNCHANGED <<rx, accepted, count>>
    BY <1>1 DEF Known, HostSends, reader
  <2>2. rx \in Seq(Known') /\ accepted \in Seq(Known')
    BY <2>1, SeqGrows DEF TakenOK
  <2> QED
    BY <2>1, <2>2 DEF TakenOK
<1>8. HistoryOK'
  BY DEF HostSends, HistoryOK
<1> QED
  BY <1>4, <1>5, <1>6, <1>7, <1>8

LEMMA TypeArrives ==
    ASSUME TypeInv, Arrives
    PROVE  TypeInv'
<1> USE DEF TypeInv
<1>1. HostOK' /\ TakenOK' /\ HistoryOK'
  BY DEF Arrives, reader, HostOK, TakenOK, HistoryOK, Known
<1>2. sent' = sent /\ Carried' = Carried /\ Packet' = Packet /\ Bank' = Bank
  BY DEF Arrives, Carried, Packet, Bank
<1>3. Head(out) \in Packet /\ Tail(out) \in Seq(Packet)
  BY HeadTailProperties DEF Arrives, WireOK
<1>4. <<Head(out)>> \in Bank
  BY <1>3 DEF Bank
<1>5. WireOK'
  BY <1>2, <1>3, <1>4 DEF Arrives, reader, WireOK, Other
<1>6. ReaderOK'
  BY <1>2 DEF Arrives, reader, ReaderOK
<1> QED
  BY <1>1, <1>5, <1>6

LEMMA TypeBusReset ==
    ASSUME TypeInv, BusReset
    PROVE  TypeInv'
<1> USE DEF TypeInv
<1>1. HostOK' /\ TakenOK'
  BY DEF BusReset, reader, HostOK, TakenOK, Known
<1>2. sent' = sent /\ Carried' = Carried /\ Packet' = Packet /\ Bank' = Bank
  BY DEF BusReset, Carried, Packet, Bank
<1>3. <<>> \in Seq(Packet) /\ Len(<<>>) = 0
  OBVIOUS
<1>4. <<>> \in Bank
  BY <1>3 DEF Bank
<1>5. WireOK'
  BY <1>2, <1>3, <1>4 DEF BusReset, reader, WireOK
<1>6. ReaderOK'
  BY <1>2 DEF BusReset, reader, ReaderOK
<1>7. HistoryOK'
  BY UsbAssumption DEF BusReset, HistoryOK
<1> QED
  BY <1>1, <1>5, <1>6, <1>7

\* What a step of the reader that takes nothing from the banks leaves alone.
LEMMA TypeStays ==
    ASSUME TypeInv, UNCHANGED <<program, wire, btReceiveBank>>
    PROVE  HostOK' /\ WireOK' /\ Carried' = Carried /\ Known' = Known
  BY DEF TypeInv, wire, HostOK, WireOK, Carried, Known, Packet, Bank

LEMMA TypeStartRead ==
    ASSUME TypeInv, StartRead
    PROVE  TypeInv'
<1>1. HostOK' /\ WireOK' /\ Carried' = Carried /\ Known' = Known
  BY TypeStays DEF StartRead
<1>2. ReaderOK'
  <2>1. <<>> \in Seq(Carried) /\ Len(<<>>) = 0
    OBVIOUS
  <2> QED
    BY <1>1, <2>1, Sizes DEF StartRead, TypeInv, ReaderOK, HostOK
<1>3. TakenOK' /\ HistoryOK'
  BY <1>1 DEF StartRead, TypeInv, TakenOK, HistoryOK
<1> QED
  BY <1>1, <1>2, <1>3 DEF TypeInv

LEMMA TypeReadLocal ==
    ASSUME TypeInv, ReadLocal
    PROVE  TypeInv'
<1> DEFINE n == Min2(want, Len(buf))
<1>1. HostOK' /\ WireOK' /\ Carried' = Carried /\ Known' = Known
  BY TypeStays DEF ReadLocal
<1>2. want \in Nat /\ buf \in Seq(Carried) /\ got \in Seq(Carried)
  BY DEF TypeInv, ReaderOK
<1>3. Len(buf) \in Nat /\ Len(got) \in Nat /\ n \in 0 .. Len(buf) /\ n <= want
  BY <1>2, LenProperties, MinOK
<1>4. /\ First(buf, n) \in Seq(Carried) /\ Len(First(buf, n)) = n
      /\ Rest(buf, n) \in Seq(Carried) /\ Len(Rest(buf, n)) = Len(buf) - n
  BY <1>2, <1>3, Cut
<1>5. got \o First(buf, n) \in Seq(Carried) /\ Len(got \o First(buf, n)) = Len(got) + n
  BY <1>2, <1>4, ConcatProperties
<1>6. ReaderOK'
  <2>1. got' = got \o First(buf, n) /\ buf' = Rest(buf, n) /\ want' = want - n
        /\ UNCHANGED <<program, stage>>
    BY DEF ReadLocal
  <2> HIDE DEF n
  <2>2. Len(got') + want' = Len(got) + want /\ want' \in Nat /\ Len(buf') < EP_OUT_SIZE
    <3>1. Len(got') = Len(got) + n /\ Len(buf') = Len(buf) - n /\ Len(buf) < EP_OUT_SIZE
      BY <1>4, <1>5, <2>1 DEF TypeInv, ReaderOK
    <3> QED
      BY <1>2, <1>3, <2>1, <3>1, Sizes
  <2>3. got' \in Seq(Carried') /\ buf' \in Seq(Carried')
    BY <1>1, <1>4, <1>5, <2>1
  <2> QED
    BY <2>1, <2>2, <2>3 DEF TypeInv, ReaderOK
<1>7. TakenOK' /\ HistoryOK'
  BY <1>1 DEF ReadLocal, TypeInv, TakenOK, HistoryOK
<1> QED
  BY <1>1, <1>6, <1>7 DEF TypeInv

LEMMA TypeReadPacket ==
    ASSUME TypeInv, ReadPacket
    PROVE  TypeInv'
<1> DEFINE p == Head(banks[btReceiveBank])
           n == Min2(want, Len(p))
<1>1. HostOK' /\ TakenOK' /\ HistoryOK'
  BY DEF ReadPacket, TypeInv, HostOK, TakenOK, HistoryOK, Known
<1>2. sent' = sent /\ Carried' = Carried /\ Packet' = Packet /\ Bank' = Bank
  BY DEF ReadPacket, Carried, Packet, Bank
<1>3. banks[btReceiveBank] \in Seq(Packet) /\ banks[btReceiveBank] # <<>>
  BY DEF ReadPacket, TypeInv, WireOK, Bank
<1>4. p \in Packet
  BY <1>3, HeadTailProperties
<1>5. want \in Nat /\ want > 0 /\ got \in Seq(Carried) /\ p \in Seq(Carried) /\ Len(p) <= EP_OUT_SIZE
  BY <1>4 DEF TypeInv, ReaderOK, ReadPacket, Busy, Packet
<1>6. /\ Len(p) \in Nat /\ Len(got) \in Nat
      /\ n \in 0 .. Len(p) /\ n <= want /\ (n = want \/ n = Len(p))
  BY <1>5, LenProperties, MinOK
<1>7. /\ First(p, n) \in Seq(Carried) /\ Len(First(p, n)) = n
      /\ Rest(p, n) \in Seq(Carried) /\ Len(Rest(p, n)) = Len(p) - n
  BY <1>5, <1>6, Cut
<1>8. got \o First(p, n) \in Seq(Carried) /\ Len(got \o First(p, n)) = Len(got) + n
  BY <1>5, <1>7, ConcatProperties
<1>9. WireOK'
  <2>1. <<>> \in Seq(Packet) /\ Len(<<>>) = 0
    OBVIOUS
  <2>2. <<>> \in Bank
    BY <2>1 DEF Bank
  <2> QED
    BY <1>2, <2>2 DEF ReadPacket, TypeInv, WireOK, NextBank, Other
<1>10. ReaderOK'
  <2>1. /\ got' = got \o First(p, n) /\ buf' = Kept(Rest(p, n)) /\ want' = want - n
        /\ UNCHANGED <<program, stage>>
    BY DEF ReadPacket
  <2> HIDE DEF n, p
  <2>2. Len(got') + want' = Len(got) + want /\ want' \in Nat
    <3>1. Len(got') = Len(got) + n
      BY <1>8, <2>1
    <3> QED
      BY <1>5, <1>6, <2>1, <3>1
  <2>3. buf' \in Seq(Carried) /\ Len(buf') < EP_OUT_SIZE
    BY <1>5, <1>6, <1>7, <2>1, Sizes DEF Kept
  <2>4. got' \in Seq(Carried') /\ buf' \in Seq(Carried')
    BY <1>2, <1>8, <2>1, <2>3
  <2> QED
    BY <2>1, <2>2, <2>3, <2>4 DEF TypeInv, ReaderOK
<1> QED
  BY <1>1, <1>9, <1>10 DEF TypeInv

LEMMA TypeParse ==
    ASSUME TypeInv, Parse
    PROVE  TypeInv'
<1>1. HostOK' /\ WireOK' /\ Carried' = Carried /\ Known' = Known
  BY TypeStays DEF Parse
<1>2. HistoryOK' /\ rx' = rx
  BY DEF Parse, TypeInv, HistoryOK
<1>3. got \in Seq(Known) /\ got \in Seq(Carried)
  BY CarriedIsKnown, SeqGrows DEF TypeInv, ReaderOK
<1>4. TakenOK'
  BY <1>1, <1>2, <1>3 DEF Parse, TypeInv, TakenOK, Accept, Reject, Reads
<1>5. ReaderOK'
  <2>1. UNCHANGED <<program, buf, got>> /\ program = "os" /\ want = 0
    BY DEF Parse
  <2>2. CASE stage = "pre" /\ IsPreamble(got[1]) /\ Reads("pay", sent[got[1][1]].len)
    <3>1. Len(got) = 1
      BY <1>3, <2>1, <2>2, LenProperties DEF TypeInv, ReaderOK
    <3>2. got[1] \in Carried
      BY <1>3, <3>1, 1 \in 1 .. 1, ElementOfSeq
    <3>3. got[1][1] \in 1 .. Len(sent)
      BY <3>2 DEF Carried
    <3>4. sent[got[1][1]] \in Frame
      BY <3>3, ElementOfSeq DEF TypeInv, HostOK
    <3>5. sent[got[1][1]].len \in Nat
      BY <2>2, <3>4, Sizes DEF IsPreamble
    <3> QED
      BY <1>1, <2>1, <2>2, <3>5 DEF TypeInv, ReaderOK, Reads
  <2>3. CASE stage = "pre" /\ ~IsPreamble(got[1]) /\ Reads("old", OldLen - 1)
    <3>1. OldLen - 1 \in Nat
      BY Sizes
    <3> QED
      BY <1>1, <2>1, <2>3, <3>1 DEF TypeInv, ReaderOK, Reads
  <2>4. CASE stage = "pay" /\ Reads("post", 1)
    BY <1>1, <2>1, <2>4 DEF TypeInv, ReaderOK, Reads
  <2>5. CASE stage' = "idle" /\ UNCHANGED want
    BY <1>1, <2>1, <2>5 DEF TypeInv, ReaderOK
  <2> QED
    BY <2>2, <2>3, <2>4, <2>5 DEF Parse, Accept, Reject
<1> QED
  BY <1>1, <1>2, <1>4, <1>5 DEF TypeInv

LEMMA TypeTakePacket ==
    ASSUME TypeInv, TakePacket
    PROVE  TypeInv'
<1>1. HostOK' /\ WireOK' /\ Carried' = Carried /\ Known' = Known
  BY TypeStays DEF TakePacket
<1>2. got \in Seq(Known) /\ Len(got) = OldLen
  BY CarriedIsKnown, SeqGrows, LenProperties DEF TypeInv, ReaderOK, TakePacket
<1>3. TakenOK' /\ HistoryOK'
  BY <1>1, <1>2 DEF TakePacket, TypeInv, TakenOK, HistoryOK, Accept
<1>4. ReaderOK'
  BY <1>1 DEF TakePacket, TypeInv, ReaderOK, Accept
<1> QED
  BY <1>1, <1>3, <1>4 DEF TypeInv

LEMMA TypeReadTimeout ==
    ASSUME TypeInv, ReadTimeout
    PROVE  TypeInv'
<1>1. HostOK' /\ WireOK' /\ Carried' = Carried /\ Known' = Known
  BY TypeStays DEF ReadTimeout
<1>2. got \in Seq(Known) /\ got \in Seq(Carried) /\ Len(got) \in Nat
  BY CarriedIsKnown, SeqGrows, LenProperties DEF TypeInv, ReaderOK
<1>3. HistoryOK'
  BY UsbAssumption DEF ReadTimeout, TypeInv, HistoryOK
<1>4. ReaderOK'
  BY <1>1 DEF ReadTimeout, TypeInv, ReaderOK, Accept, Reject
<1>5. TakenOK'
  <2>1. CASE Reject /\ UNCHANGED rx
    BY <1>1, <2>1 DEF TypeInv, TakenOK, Reject
  <2>2. CASE program = "bootrom" /\ rx' = Mixed /\ Accept(Mixed)
    <3>1. Len(got) \in 0 .. OldLen
      BY <1>2, <2>2, Sizes DEF ReadTimeout, Busy, TypeInv, ReaderOK, HostOK
    <3>2. Rest(rx, Len(got)) \in Seq(Known) /\ Len(Rest(rx, Len(got))) = OldLen - Len(got)
      BY <3>1, Cut DEF TypeInv, TakenOK
    <3>3. Mixed \in Seq(Known) /\ Len(Mixed) = Len(got) + (OldLen - Len(got))
      BY <1>2, <3>2, ConcatProperties DEF Mixed
    <3>4. Len(Mixed) = OldLen
      BY <1>2, <3>3, Sizes
    <3> QED
      BY <1>1, <2>2, <3>3, <3>4 DEF TypeInv, TakenOK, Accept
  <2> QED
    BY <2>1, <2>2 DEF ReadTimeout
<1> QED
  BY <1>1, <1>3, <1>4, <1>5 DEF TypeInv

LEMMA TypeStep == TypeInv /\ [Next]_vars => TypeInv'
<1> SUFFICES ASSUME TypeInv, [Next]_vars PROVE TypeInv'
  OBVIOUS
<1>1. CASE \E fr \in Frame : HostSends(fr)
  BY <1>1, TypeHostSends
<1>2. CASE Arrives
  BY <1>2, TypeArrives
<1>3. CASE BusReset
  BY <1>3, TypeBusReset
<1>4. CASE StartRead
  BY <1>4, TypeStartRead
<1>5. CASE ReadLocal
  BY <1>5, TypeReadLocal
<1>6. CASE ReadPacket
  BY <1>6, TypeReadPacket
<1>7. CASE Parse
  BY <1>7, TypeParse
<1>8. CASE TakePacket
  BY <1>8, TypeTakePacket
<1>9. CASE ReadTimeout
  BY <1>9, TypeReadTimeout
<1>10. CASE UNCHANGED vars
  BY <1>10 DEF vars, wire, reader, TypeInv, HostOK, WireOK, ReaderOK, TakenOK, HistoryOK,
               Carried, Known, Packet, Bank
<1> QED
  BY <1>1, <1>2, <1>3, <1>4, <1>5, <1>6, <1>7, <1>8, <1>9, <1>10 DEF Next, Reader

(***************************************************************************)
(* The receive path keeps its types, whatever the host sends and whenever  *)
(* reads give up or the bus is reset: the local buffer of usb_read_ng is   *)
(* never filled beyond a packet and the boot ROM's packet buffer keeps its *)
(* length.                                                                 *)
(***************************************************************************)
THEOREM UsbTypeCorrect == Spec => []TypeOK
<1>1. TypeInv => TypeOK
  BY TypeInvIsType
<1> QED
  BY <1>1, TypeInit, TypeStep, PTL DEF Spec

-----------------------------------------------------------------------------
(* Concatenation *)

\* Concatenation by a name of its own, which the provers do not rewrite.
Cat(s, t) == s \o t

LEMMA CatAssoc ==
    ASSUME NEW Q, NEW a \in Seq(Q), NEW b \in Seq(Q), NEW c \in Seq(Q)
    PROVE  Cat(Cat(a, b), c) = Cat(a, Cat(b, c))
<1>1. (a \o b) \o c = a \o (b \o c)
  BY ConcatAssociative
<1> QED
  BY <1>1 DEF Cat

LEMMA Regroup ==
    ASSUME NEW Q, NEW a \in Seq(Q), NEW b \in Seq(Q), NEW c \in Seq(Q), NEW d \in Seq(Q)
    PROVE  Cat(a, Cat(b, Cat(c, d))) = Cat(Cat(a, Cat(b, c)), d)
<1>1. b \o c \in Seq(Q)
  BY ConcatProperties
<1>2. b \o (c \o d) = (b \o c) \o d
  BY ConcatAssociative
<1>3. a \o ((b \o c) \o d) = (a \o (b \o c)) \o d
  BY <1>1, ConcatAssociative
<1>4. a \o (b \o (c \o d)) = (a \o (b \o c)) \o d
  BY <1>2, <1>3
<1> QED
  BY <1>4 DEF Cat

-----------------------------------------------------------------------------
(* Joining packets: what FlattenSeq computes, by induction on the number   *)
(* of sequences it joins                                                   *)

\* Induction, from the least number that is not in a set.
LEMMA LeastNat ==
    ASSUME NEW T, T \subseteq Nat, T # {}
    PROVE  \E x \in T : \A y \in T : x <= y
<1> DEFINE R == OpToRel(<, Nat)
<1>1. IsWellFoundedOn(R, Nat)
  BY NatLessThanWellFounded
<1>2. \A x, y \in Nat : x < y => <<x, y>> \in R
  BY DEF OpToRel
<1> HIDE DEF R
<1>3. PICK x \in T : \A y \in T : ~ (<<y, x>> \in R)
  BY <1>1, WFMin
<1>4. ASSUME NEW y \in T PROVE x <= y
  <2>1. x \in Nat /\ y \in Nat /\ ~(y < x)
    BY <1>2, <1>3
  <2> QED
    BY <2>1
<1> QED
  BY <1>4

LEMMA NatSet ==
    ASSUME NEW G, 0 \in G, \A n \in Nat : n \in G => n + 1 \in G
    PROVE  Nat \subseteq G
<1> SUFFICES ASSUME NEW m \in Nat, m \notin G PROVE FALSE
  OBVIOUS
<1> DEFINE T == {n \in Nat : n \notin G}
<1>1. PICK x \in T : \A y \in T : x <= y
  BY LeastNat
<1>2. x \in Nat /\ x # 0 /\ x \notin G
  OBVIOUS
<1>3. x - 1 \in Nat /\ ~(x <= x - 1) /\ (x - 1) + 1 = x
  BY <1>2
<1>4. x - 1 \in G
  BY <1>1, <1>3
<1> QED
  BY <1>2, <1>3, <1>4

\* g holds the first m joins of the sequences s.
IsJoin(g, s, m) == g = [i \in 1 .. m |-> IF i = 1 THEN s[i] ELSE g[i - 1] \o s[i]]

LEMMA JoinAt ==
    ASSUME NEW s, NEW m \in Nat, NEW g, IsJoin(g, s, m), NEW i \in 1 .. m
    PROVE  g[i] = IF i = 1 THEN s[i] ELSE g[i - 1] \o s[i]
  BY DEF IsJoin

LEMMA JoinExists ==
    ASSUME NEW s, NEW n \in Nat
    PROVE  \E g : IsJoin(g, s, n)
<1> DEFINE G == {m \in Nat : \E g : IsJoin(g, s, m)}
<1>1. 0 \in G
  <2> DEFINE g == [i \in 1 .. 0 |-> <<>>]
  <2>1. \A i \in 1 .. 0 : FALSE
    OBVIOUS
  <2>2. IsJoin(g, s, 0)
    BY <2>1 DEF IsJoin
  <2> QED
    BY <2>2
<1>2. ASSUME NEW m \in Nat, m \in G PROVE m + 1 \in G
  <2>1. PICK g : IsJoin(g, s, m)
    BY <1>2
  <2> DEFINE h == [i \in 1 .. m + 1 |->
                     IF i = m + 1 THEN (IF i = 1 THEN s[i] ELSE g[i - 1] \o s[i]) ELSE g[i]]
  <2>2. ASSUME NEW i \in 1 .. m + 1
        PROVE  h[i] = IF i = 1 THEN s[i] ELSE h[i - 1] \o s[i]
    <3>1. CASE i = m + 1
      <4>1. i # 1 => i - 1 \in 1 .. m + 1 /\ i - 1 # m + 1
        BY <3>1
      <4> QED
        BY <3>1, <4>1
    <3>2. CASE i # m + 1
      <4>1. i \in 1 .. m /\ (i # 1 => i - 1 \in 1 .. m + 1 /\ i - 1 # m + 1)
        BY <3>2
      <4>2. g[i] = IF i = 1 THEN s[i] ELSE g[i - 1] \o s[i]
        BY <2>1, <4>1, JoinAt
      <4> QED
        BY <3>2, <4>1, <4>2
    <3> QED
      BY <3>1, <3>2
  <2>3. h = [i \in 1 .. m + 1 |-> h[i]]
    OBVIOUS
  <2> HIDE DEF h
  <2>4. IsJoin(h, s, m + 1)
    BY <2>2, <2>3 DEF IsJoin
  <2> QED
    BY <2>4
<1>3. Nat \subseteq G
  <2> HIDE DEF G
  <2> QED
    BY <1>1, <1>2, NatSet
<1> QED
  BY <1>3

\* Joins depend on nothing but the sequences joined so far.
LEMMA JoinSame ==
    ASSUME NEW s, NEW t, NEW m \in Nat, NEW n \in Nat, m <= n,
           \A i \in 1 .. m : s[i] = t[i],
           NEW g, IsJoin(g, s, m), NEW h, IsJoin(h, t, n)
    PROVE  \A i \in 1 .. m : g[i] = h[i]
<1> DEFINE G == {i \in Nat : i \in 1 .. m => g[i] = h[i]}
<1>1. 0 \in G
  OBVIOUS
<1>2. ASSUME NEW i \in Nat, i \in G PROVE i + 1 \in G
  <2> SUFFICES ASSUME i + 1 \in 1 .. m PROVE g[i + 1] = h[i + 1]
    OBVIOUS
  <2>1. i + 1 \in 1 .. n /\ (i + 1) - 1 = i /\ (i + 1 # 1 => i \in 1 .. m)
    OBVIOUS
  <2>2. g[i + 1] = IF i + 1 = 1 THEN s[i + 1] ELSE g[(i + 1) - 1] \o s[i + 1]
    BY JoinAt
  <2>3. h[i + 1] = IF i + 1 = 1 THEN t[i + 1] ELSE h[(i + 1) - 1] \o t[i + 1]
    BY <2>1, JoinAt
  <2> QED
    BY <1>2, <2>1, <2>2, <2>3
<1>3. Nat \subseteq G
  <2> HIDE DEF G
  <2> QED
    BY <1>1, <1>2, NatSet
<1> QED
  BY <1>3

LEMMA FlatIsJoin ==
    ASSUME NEW s, Len(s) \in Nat \ {0}
    PROVE  \E g : IsJoin(g, s, Len(s)) /\ FlattenSeq(s) = g[Len(s)]
<1>1. FlattenSeq(s) = (CHOOSE g : IsJoin(g, s, Len(s)))[Len(s)]
  BY DEF FlattenSeq, IsJoin
<1>2. \E g : IsJoin(g, s, Len(s))
  BY JoinExists
<1> QED
  BY <1>1, <1>2

LEMMA FlatEmpty == FlattenSeq(<<>>) = <<>>
  BY DEF FlattenSeq

LEMMA FlatAppend ==
    ASSUME NEW Q, NEW s \in Seq(Seq(Q)), NEW e \in Seq(Q)
    PROVE  FlattenSeq(Append(s, e)) = FlattenSeq(s) \o e
<1> DEFINE n == Len(s)
           t == Append(s, e)
<1>1. n \in Nat /\ Len(t) = n + 1 /\ t[n + 1] = e /\ \A i \in 1 .. n : t[i] = s[i]
  BY LenProperties, AppendProperties
<1> HIDE DEF n, t
<1>2. PICK h : IsJoin(h, t, n + 1) /\ FlattenSeq(t) = h[n + 1]
  BY <1>1, FlatIsJoin
<1>3. h[n + 1] = IF n + 1 = 1 THEN t[n + 1] ELSE h[(n + 1) - 1] \o t[n + 1]
  <2>1. n + 1 \in Nat /\ n + 1 \in 1 .. n + 1
    BY <1>1
  <2> QED
    BY <1>2, <2>1, JoinAt
<1>4. CASE n = 0
  <2>1. s = <<>>
    BY <1>4, EmptySeq DEF n
  <2>2. FlattenSeq(s) \o e = e
    BY <2>1, FlatEmpty, ConcatEmptySeq
  <2> QED
    BY <1>1, <1>2, <1>3, <1>4, <2>2 DEF t
<1>5. CASE n # 0
  <2>1. PICK g : IsJoin(g, s, n) /\ FlattenSeq(s) = g[n]
    BY <1>1, <1>5, FlatIsJoin DEF n
  <2>2. n \in 1 .. n /\ n <= n + 1 /\ n + 1 \in Nat /\ (n + 1) - 1 = n /\ n + 1 # 1
    BY <1>1, <1>5
  <2>3. \A i \in 1 .. n : s[i] = t[i]
    BY <1>1
  <2>4. \A i \in 1 .. n : g[i] = h[i]
    BY <1>1, <1>2, <2>1, <2>2, <2>3, JoinSame
  <2> QED
    BY <1>1, <1>2, <1>3, <2>1, <2>2, <2>4 DEF t
<1> QED
  BY <1>4, <1>5

LEMMA FrontLast ==
    ASSUME NEW Q, NEW s \in Seq(Q), NEW m \in Nat, Len(s) = m + 1
    PROVE  \E r \in Seq(Q), e \in Q : s = Append(r, e) /\ Len(r) = m
<1>1. s # <<>> /\ Len(s) \in Nat
  BY EmptySeq, LenProperties
<1> DEFINE r == [i \in 1 .. m |-> s[i]]
<1>2. \A i \in 1 .. m + 1 : s[i] \in Q
  BY ElementOfSeq
<1>3. r \in Seq(Q) /\ Len(r) = m /\ s[m + 1] \in Q
  BY <1>2
<1>4. Append(r, s[m + 1]) \in Seq(Q) /\ Len(Append(r, s[m + 1])) = m + 1
  BY <1>3, AppendProperties
<1>5. ASSUME NEW i \in 1 .. m + 1 PROVE s[i] = Append(r, s[m + 1])[i]
  <2>1. CASE i = m + 1
    BY <1>3, <2>1, AppendProperties
  <2>2. CASE i # m + 1
    BY <1>3, <2>2, AppendProperties
  <2> QED
    BY <2>1, <2>2
<1>6. s = Append(r, s[m + 1])
  BY <1>4, <1>5, SeqEqual
<1> QED
  BY <1>3, <1>6

LEMMA FlatType ==
    ASSUME NEW Q, NEW n \in Nat
    PROVE  \A s \in Seq(Seq(Q)) : Len(s) = n => FlattenSeq(s) \in Seq(Q)
<1> DEFINE G == {m \in Nat : \A s \in Seq(Seq(Q)) : Len(s) = m => FlattenSeq(s) \in Seq(Q)}
<1>1. 0 \in G
  BY EmptySeq, FlatEmpty
<1>2. ASSUME NEW m \in Nat, m \in G PROVE m + 1 \in G
  <2> SUFFICES ASSUME NEW s \in Seq(Seq(Q)), Len(s) = m + 1 PROVE FlattenSeq(s) \in Seq(Q)
    OBVIOUS
  <2>1. PICK r \in Seq(Seq(Q)), e \in Seq(Q) : s = Append(r, e) /\ Len(r) = m
    BY FrontLast
  <2> QED
    BY <1>2, <2>1, FlatAppend, ConcatProperties
<1>3. Nat \subseteq G
  <2> HIDE DEF G
  <2> QED
    BY <1>1, <1>2, NatSet
<1> QED
  BY <1>3

LEMMA FlatSeq ==
    ASSUME NEW Q, NEW s \in Seq(Seq(Q))
    PROVE  FlattenSeq(s) \in Seq(Q)
<1>1. Len(s) \in Nat
  BY LenProperties
<1> QED
  BY <1>1, FlatType

LEMMA FlatOne ==
    ASSUME NEW Q, NEW e \in Seq(Q)
    PROVE  FlattenSeq(<<e>>) = e
<1>1. Append(<<>>, e) = <<e>> /\ <<>> \in Seq(Seq(Q)) /\ <<>> \o e = e
  BY ConcatEmptySeq
<1> QED
  BY <1>1, FlatAppend, FlatEmpty

LEMMA AppendIsCat ==
    ASSUME NEW S, NEW s \in Seq(S), NEW t \in Seq(S), NEW e \in S
    PROVE  Cat(s, Append(t, e)) = Append(Cat(s, t), e)
<1>1. <<e>> \in Seq(S) /\ Append(t, e) = t \o <<e>> /\ s \o t \in Seq(S)
  BY AppendIsConcat, ConcatProperties
<1>2. Append(s \o t, e) = (s \o t) \o <<e>>
  BY <1>1, AppendIsConcat
<1>3. s \o (t \o <<e>>) = (s \o t) \o <<e>>
  BY <1>1, ConcatAssociative
<1> QED
  BY <1>1, <1>2, <1>3 DEF Cat

LEMMA FlatCat ==
    ASSUME NEW Q, NEW s \in Seq(Seq(Q)), NEW t \in Seq(Seq(Q))
    PROVE  FlattenSeq(Cat(s, t)) = Cat(FlattenSeq(s), FlattenSeq(t))
<1> DEFINE G == {m \in Nat : \A r \in Seq(Seq(Q)) :
                   Len(r) = m => FlattenSeq(Cat(s, r)) = Cat(FlattenSeq(s), FlattenSeq(r))}
<1>0. FlattenSeq(s) \in Seq(Q)
  BY FlatSeq
<1>1. 0 \in G
  <2> SUFFICES ASSUME NEW r \in Seq(Seq(Q)), Len(r) = 0
               PROVE  FlattenSeq(Cat(s, r)) = Cat(FlattenSeq(s), FlattenSeq(r))
    OBVIOUS
  <2>1. r = <<>> /\ s \o <<>> = s /\ FlattenSeq(s) \o <<>> = FlattenSeq(s)
    BY <1>0, EmptySeq, ConcatEmptySeq
  <2> QED
    BY <2>1, FlatEmpty DEF Cat
<1>2. ASSUME NEW m \in Nat, m \in G PROVE m + 1 \in G
  <2> SUFFICES ASSUME NEW x \in Seq(Seq(Q)), Len(x) = m + 1
               PROVE  FlattenSeq(Cat(s, x)) = Cat(FlattenSeq(s), FlattenSeq(x))
    OBVIOUS
  <2>1. PICK r \in Seq(Seq(Q)), e \in Seq(Q) : x = Append(r, e) /\ Len(r) = m
    BY FrontLast
  <2>2. FlattenSeq(Cat(s, r)) = Cat(FlattenSeq(s), FlattenSeq(r))
    BY <1>2, <2>1
  <2>3. Cat(s, r) \in Seq(Seq(Q)) /\ Cat(s, x) = Append(Cat(s, r), e)
    BY <2>1, AppendIsCat, ConcatProperties DEF Cat
  <2>4. FlattenSeq(Cat(s, x)) = Cat(FlattenSeq(Cat(s, r)), e)
    BY <2>3, FlatAppend DEF Cat
  <2>5. FlattenSeq(x) = Cat(FlattenSeq(r), e) /\ FlattenSeq(r) \in Seq(Q)
    BY <2>1, FlatAppend, FlatSeq DEF Cat
  <2>6. Cat(Cat(FlattenSeq(s), FlattenSeq(r)), e) = Cat(FlattenSeq(s), Cat(FlattenSeq(r), e))
    BY <1>0, <2>5, CatAssoc
  <2> QED
    BY <2>2, <2>4, <2>5, <2>6
<1>3. Nat \subseteq G
  <2> HIDE DEF G
  <2> QED
    BY <1>1, <1>2, NatSet
<1>4. Len(t) \in Nat
  BY LenProperties
<1> QED
  BY <1>3, <1>4

-----------------------------------------------------------------------------
(* The places of the packets under way *)

\* The packets not yet read, in reading order.
Flow == banks[btReceiveBank] \o (banks[Other(btReceiveBank)] \o out)

\* A place in the stream of the frames S is <<f, k>>, packet k of frame f.
Final(S, f) == PacketCount(Size(S[f]))
Succ(S, h) == IF h[2] < Final(S, h[1]) THEN <<h[1], h[2] + 1>> ELSE <<h[1] + 1, 1>>
IsPlace(S, h) == h[1] \in 1 .. Len(S) /\ h[2] \in 1 .. Final(S, h[1])

(***************************************************************************)
(* The packets F are those from the place at[1] up to the end of the last  *)
(* frame, each at its place.  Empty packets have places too, which is why  *)
(* the places are not read off the packets.                                *)
(***************************************************************************)
Chain(at, F, S) ==
    /\ at \in [1 .. Len(F) + 1 -> Nat \X Nat]
    /\ at[Len(F) + 1] = <<Len(S) + 1, 1>>
    /\ \A j \in 1 .. Len(F) :
         /\ IsPlace(S, at[j])
         /\ at[j + 1] = Succ(S, at[j])
         /\ F[j] = Piece(at[j][1], Size(S[at[j][1]]), at[j][2])

LEMMA NothingUnderWay ==
    ASSUME NEW S \in Seq(Frame)
    PROVE  \E at : Chain(at, <<>>, S) /\ at[1] = <<Len(S) + 1, 1>>
<1> DEFINE at == [j \in 1 .. 1 |-> <<Len(S) + 1, 1>>]
<1>1. Len(S) \in Nat /\ Len(<<>>) = 0
  BY LenProperties
<1>2. at \in [1 .. Len(<<>>) + 1 -> Nat \X Nat] /\ at[1] = <<Len(S) + 1, 1>>
  BY <1>1
<1>3. Chain(at, <<>>, S)
  <2>1. \A j \in 1 .. Len(<<>>) : FALSE
    BY <1>1
  <2>2. at[Len(<<>>) + 1] = <<Len(S) + 1, 1>>
    BY <1>1
  <2> HIDE DEF at
  <2> QED
    BY <1>2, <2>1, <2>2 DEF Chain
<1> QED
  BY <1>2, <1>3

LEMMA FlowTaken ==
    ASSUME NEW S \in Seq(Frame), NEW Q, NEW F \in Seq(Q), F # <<>>, NEW at, Chain(at, F, S)
    PROVE  \E b : Chain(b, Tail(F), S) /\ b[1] = Succ(S, at[1])
<1> DEFINE b == [j \in 1 .. Len(F) |-> at[j + 1]]
<1>1. /\ Len(F) \in Nat /\ Len(F) > 0 /\ Tail(F) \in Seq(Q) /\ Len(Tail(F)) = Len(F) - 1
      /\ \A j \in 1 .. Len(F) - 1 : Tail(F)[j] = F[j + 1]
  BY LenProperties, EmptySeq, HeadTailProperties
<1>2. b \in [1 .. Len(Tail(F)) + 1 -> Nat \X Nat]
  <2> DEFINE D == 1 .. Len(F) + 1
  <2>0. \A j \in 1 .. Len(F) : j + 1 \in D
    BY <1>1
  <2>1. \A j \in 1 .. Len(F) : at[j + 1] \in Nat \X Nat
    <3>1. at \in [D -> Nat \X Nat]
      BY DEF Chain
    <3> HIDE DEF D
    <3> QED
      BY <2>0, <3>1
  <2>2. Len(Tail(F)) + 1 = Len(F)
    BY <1>1
  <2> QED
    BY <2>1, <2>2
<1>3. b[1] = Succ(S, at[1]) /\ b[Len(Tail(F)) + 1] = <<Len(S) + 1, 1>>
  <2>1. 1 \in 1 .. Len(F) /\ Len(Tail(F)) + 1 \in 1 .. Len(F)
        /\ (Len(Tail(F)) + 1) + 1 = Len(F) + 1
    BY <1>1
  <2>2. b[1] = at[1 + 1] /\ b[Len(Tail(F)) + 1] = at[Len(F) + 1]
    BY <2>1
  <2> QED
    BY <2>1, <2>2 DEF Chain
<1>4. ASSUME NEW j \in 1 .. Len(Tail(F))
      PROVE  /\ IsPlace(S, b[j])
             /\ b[j + 1] = Succ(S, b[j])
             /\ Tail(F)[j] = Piece(b[j][1], Size(S[b[j][1]]), b[j][2])
  <2>1. j + 1 \in 1 .. Len(F) /\ j \in 1 .. Len(F) /\ j \in 1 .. Len(F) - 1
    BY <1>1
  <2>2. b[j] = at[j + 1] /\ b[j + 1] = at[(j + 1) + 1] /\ Tail(F)[j] = F[j + 1]
    BY <1>1, <2>1
  <2> QED
    BY <2>1, <2>2 DEF Chain
<1>5. Chain(b, Tail(F), S)
  <2> HIDE DEF b
  <2> QED
    BY <1>2, <1>3, <1>4 DEF Chain
<1> QED
  BY <1>3, <1>5

LEMMA FlowGrows ==
    ASSUME NEW S \in Seq(Frame), NEW fr \in Frame, NEW Q, NEW F \in Seq(Q),
           NEW at, Chain(at, F, S), NEW G, G = Packets(Len(S) + 1, Size(fr)), G \in Seq(Q)
    PROVE  \E b : Chain(b, F \o G, Append(S, fr)) /\ b[1] = at[1]
<1> DEFINE n == Len(S)
           T == Append(S, fr)
           c == PacketCount(Size(fr))
           l == Len(F)
           b == [j \in 1 .. l + c + 1 |->
                    IF j <= l THEN at[j]
                    ELSE IF j <= l + c THEN <<n + 1, j - l>> ELSE <<n + 2, 1>>]
<1>1. /\ n \in Nat /\ T \in Seq(Frame) /\ Len(T) = n + 1 /\ T[n + 1] = fr
      /\ \A f \in 1 .. n : T[f] = S[f]
  BY LenProperties, AppendProperties
<1>2. Size(fr) \in Nat /\ Size(fr) > 0 /\ c \in Nat /\ c > 0
  BY Sizes, Counting
<1>3. Len(G) = c /\ \A k \in 1 .. c : G[k] = Piece(n + 1, Size(fr), k)
  <2>1. n + 1 \in Nat
    BY <1>1
  <2> QED
    BY <1>2, <2>1, PacketsOK
<1>4. /\ l \in Nat /\ Len(F \o G) = l + c
      /\ \A j \in 1 .. l : (F \o G)[j] = F[j]
      /\ \A j \in 1 .. c : (F \o G)[l + j] = G[j]
  <2>1. l \in Nat
    BY LenProperties
  <2>2. Len(F \o G) = l + c
    BY <1>3, ConcatProperties
  <2>3. \A j \in 1 .. l + c : (F \o G)[j] = IF j <= l THEN F[j] ELSE G[j - l]
    BY <1>3, ConcatProperties
  <2> HIDE DEF l, c
  <2>4. \A j \in 1 .. c : l + j \in 1 .. l + c /\ ~(l + j <= l) /\ (l + j) - l = j
    BY <1>2, <2>1
  <2>5. \A j \in 1 .. l : j \in 1 .. l + c /\ j <= l
    BY <1>2, <2>1
  <2> QED
    BY <2>1, <2>2, <2>3, <2>4, <2>5
<1> HIDE DEF n, T, c, l
<1>5. /\ at \in [1 .. l + 1 -> Nat \X Nat] /\ at[l + 1] = <<n + 1, 1>>
      /\ \A j \in 1 .. l : /\ IsPlace(S, at[j])
                           /\ at[j + 1] = Succ(S, at[j])
                           /\ F[j] = Piece(at[j][1], Size(S[at[j][1]]), at[j][2])
  BY DEF Chain, l, n
<1>6. \A j \in 1 .. l : at[j] \in Nat \X Nat
  <2>1. \A j \in 1 .. l : j \in 1 .. l + 1
    BY <1>4
  <2> QED
    BY <1>5, <2>1
<1>7. b \in [1 .. l + c + 1 -> Nat \X Nat]
  BY <1>1, <1>2, <1>4, <1>6
<1>8. \A j \in 1 .. l + 1 : b[j] = at[j]
  <2>1. ASSUME NEW j \in 1 .. l + 1 PROVE b[j] = at[j]
    <3>1. j \in 1 .. l + c + 1 /\ (j <= l \/ (j = l + 1 /\ ~(j <= l) /\ j <= l + c /\ j - l = 1))
      BY <1>2, <1>4
    <3> QED
      BY <1>5, <3>1
  <2> QED
    BY <2>1
<1>9. \A k \in 1 .. c : b[l + k] = <<n + 1, k>>
  <2>1. ASSUME NEW k \in 1 .. c PROVE b[l + k] = <<n + 1, k>>
    <3>1. l + k \in 1 .. l + c + 1 /\ ~(l + k <= l) /\ l + k <= l + c /\ (l + k) - l = k
      BY <1>2, <1>4
    <3> QED
      BY <3>1
  <2> QED
    BY <2>1
<1>10. b[l + c + 1] = <<n + 2, 1>>
  <2>1. l + c + 1 \in 1 .. l + c + 1 /\ ~(l + c + 1 <= l) /\ ~(l + c + 1 <= l + c)
    BY <1>2, <1>4
  <2> QED
    BY <2>1
<1> HIDE DEF b
<1>11. ASSUME NEW j \in 1 .. l
       PROVE  /\ IsPlace(T, b[j]) /\ b[j + 1] = Succ(T, b[j])
              /\ (F \o G)[j] = Piece(b[j][1], Size(T[b[j][1]]), b[j][2])
  <2>1. b[j] = at[j] /\ b[j + 1] = at[j + 1]
    BY <1>4, <1>8
  <2>2. at[j][1] \in 1 .. n /\ at[j][2] \in 1 .. Final(S, at[j][1])
    BY <1>5 DEF IsPlace, n
  <2>3. T[at[j][1]] = S[at[j][1]]
    BY <1>1, <2>2
  <2>4. Final(T, at[j][1]) = Final(S, at[j][1])
    BY <2>3 DEF Final
  <2>5. Succ(T, at[j]) = Succ(S, at[j])
    BY <2>4 DEF Succ
  <2>6. at[j][1] \in 1 .. Len(T)
    BY <1>1, <2>2
  <2> QED
    BY <1>4, <1>5, <2>1, <2>2, <2>3, <2>4, <2>5, <2>6 DEF IsPlace
<1>12. ASSUME NEW k \in 1 .. c
       PROVE  /\ IsPlace(T, b[l + k]) /\ b[(l + k) + 1] = Succ(T, b[l + k])
              /\ (F \o G)[l + k] = Piece(b[l + k][1], Size(T[b[l + k][1]]), b[l + k][2])
  <2>1. b[l + k] = <<n + 1, k>> /\ T[n + 1] = fr /\ Final(T, n + 1) = c
    BY <1>1, <1>9 DEF Final, c
  <2>0. b[l + k][1] = n + 1 /\ b[l + k][2] = k
    BY <2>1
  <2>2. IsPlace(T, <<n + 1, k>>)
    BY <1>1, <2>1 DEF IsPlace
  <2>3. (F \o G)[l + k] = Piece(n + 1, Size(fr), k)
    BY <1>3, <1>4
  <2>4. CASE k < c
    <3>1. k + 1 \in 1 .. c /\ (l + k) + 1 = l + (k + 1)
      BY <1>2, <1>4, <2>4
    <3>2. b[(l + k) + 1] = <<n + 1, k + 1>>
      BY <1>9, <3>1
    <3>3. Succ(T, <<n + 1, k>>) = <<n + 1, k + 1>>
      BY <2>1, <2>4 DEF Succ
    <3> QED
      BY <2>0, <2>1, <2>2, <2>3, <3>2, <3>3
  <2>5. CASE k = c
    <3>1. (l + k) + 1 = l + c + 1 /\ ~(k < c) /\ (n + 1) + 1 = n + 2
      BY <1>1, <1>2, <1>4, <2>5
    <3>2. Succ(T, <<n + 1, k>>) = <<n + 2, 1>>
      BY <2>1, <3>1 DEF Succ
    <3> QED
      BY <1>10, <2>0, <2>1, <2>2, <2>3, <3>1, <3>2
  <2>6. k < c \/ k = c
    BY <1>2
  <2> QED
    BY <2>4, <2>5, <2>6
<1>13. Chain(b, F \o G, T)
  <2>1. ASSUME NEW j \in 1 .. l + c
        PROVE  /\ IsPlace(T, b[j]) /\ b[j + 1] = Succ(T, b[j])
               /\ (F \o G)[j] = Piece(b[j][1], Size(T[b[j][1]]), b[j][2])
    <3>1. j \in 1 .. l \/ (j - l \in 1 .. c /\ j = l + (j - l))
      BY <1>2, <1>4
    <3> QED
      BY <1>11, <1>12, <3>1
  <2>2. Len(F \o G) + 1 = l + c + 1 /\ Len(T) + 1 = n + 2
    <3>1. Len(F \o G) = l + c /\ Len(T) = n + 1
      BY <1>1, <1>4
    <3> QED
      BY <1>1, <3>1
  <2> QED
    BY <1>4, <1>7, <1>10, <2>1, <2>2 DEF Chain
<1>14. b[1] = at[1]
  BY <1>4, <1>8
<1> QED
  BY <1>13, <1>14 DEF T

-----------------------------------------------------------------------------
(* The reader in the stream *)

\* Driver and endpoint agree on the order of the banks.
BanksOK ==
    /\ banks[btReceiveBank] = <<>> => banks[Other(btReceiveBank)] = <<>>
    /\ fill = IF banks[btReceiveBank] = <<>> \/ banks[Other(btReceiveBank)] # <<>>
                THEN btReceiveBank ELSE Other(btReceiveBank)

\* The last command dispatched, if it is a frame, was sent before frame f.
Before(f) == \A g \in 1 .. Len(sent) : accepted = Units(g) => g < f

\* The frame that starts at the place h, or after it.
NextFrame(h) == IF h[2] = 1 THEN h[1] ELSE h[1] + 1

\* Between two frames: the next packet starts one, or is the empty end of one.
Between(h) ==
    /\ buf = <<>> /\ Before(NextFrame(h))
    /\ \/ h[2] = 1
       \/ IsPlace(sent, h) /\ (h[2] - 1) * EP_OUT_SIZE = Size(sent[h[1]])

\* Units of frame f the reader has when the current read is complete.
Due(f) == CASE stage = "pre" -> 1
            [] stage = "pay" -> Size(sent[f]) - 1
            [] OTHER -> Size(sent[f])

\* The units s are those of frame f that follow the first m.
PartOf(f, s, m) == \A i \in 1 .. Len(s) : s[i] = <<f, m + i>>

\* Within frame f: the units read and the rest of the last packet are its
\* beginning, and the next packet continues it.
Within(f, h) ==
    /\ Len(got) + want = Due(f)
    /\ stage \in {"pay", "post"} => sent[f].ng
    /\ stage = "old" => ~sent[f].ng
    /\ Before(f)
    /\ PartOf(f, got, 0) /\ PartOf(f, buf, Len(got))
    /\ \/ /\ h[1] = f /\ IsPlace(sent, h)
          /\ Len(got) + Len(buf) = (h[2] - 1) * EP_OUT_SIZE
       \/ h = <<f + 1, 1>> /\ Len(got) + Len(buf) = Size(sent[f])

ReadsAt(h) == IF stage = "idle" THEN Between(h) ELSE \E f \in 1 .. Len(sent) : Within(f, h)

Whole == \E at : Chain(at, Flow, sent) /\ ReadsAt(at[1])

(***************************************************************************)
(* While the banks are in step and no frame has been cut, all that is      *)
(* under way are the packets from the reader's place to the end of what    *)
(* was sent.  A quiet link is such a state, whatever was cut before.       *)
(***************************************************************************)
PathInv == ~skewed => BanksOK /\ (~torn => Whole)

LEMMA PieceEnds ==
    ASSUME NEW n \in Nat, n > 0, NEW k \in 1 .. PacketCount(n),
           NEW o, o = (k - 1) * EP_OUT_SIZE
    PROVE  /\ o \in Nat /\ Min2(EP_OUT_SIZE, n - o) \in Nat
           /\ o + Min2(EP_OUT_SIZE, n - o)
                = IF k < PacketCount(n) THEN k * EP_OUT_SIZE ELSE n
<1> DEFINE E == EP_OUT_SIZE
<1>1. E \in Nat /\ E > 0
  BY Sizes
<1>2. o \in Nat /\ o <= n
  BY Counting
<1>3. PacketCount(n) \in Nat /\ k \in Nat
  BY Counting
<1>4. k * E = o + E
  <2>1. \A a \in Nat : (a - 1) * E + E = a * E
    BY <1>1
  <2> QED
    BY <1>3, <2>1
<1>5. CASE k < PacketCount(n)
  <2>1. k \in 1 .. PacketCount(n) - 1
    BY <1>3, <1>5
  <2>2. k * E <= n
    BY <2>1, Counting
  <2> HIDE DEF E
  <2>3. Min2(E, n - o) = E
    BY <1>1, <1>2, <1>4, <2>2 DEF Min2
  <2> QED
    BY <1>1, <1>2, <1>4, <1>5, <2>3 DEF E
<1>6. CASE k = PacketCount(n)
  <2>1. n <= k * E
    BY <1>6, Counting
  <2> HIDE DEF E
  <2>2. Min2(E, n - o) = n - o
    BY <1>1, <1>2, <1>4, <2>1 DEF Min2
  <2>3. ~(k < PacketCount(n)) /\ o + (n - o) = n /\ n - o \in Nat
    BY <1>2, <1>3, <1>6
  <2> QED
    BY <1>2, <2>2, <2>3 DEF E
<1>7. k < PacketCount(n) \/ k = PacketCount(n)
  BY <1>3
<1> QED
  BY <1>5, <1>6, <1>7

LEMMA FrameSizes ==
    ASSUME TypeInv, NEW f \in 1 .. Len(sent)
    PROVE  sent[f] \in Frame /\ Size(sent[f]) \in Nat /\ Size(sent[f]) > 0
<1>1. sent[f] \in Frame
  BY ElementOfSeq DEF TypeInv, HostOK
<1> QED
  BY <1>1, Sizes

LEMMA FlowOK ==
    ASSUME TypeInv
    PROVE  /\ Flow \in Seq(Packet) /\ banks[btReceiveBank] \in Seq(Packet)
           /\ banks[Other(btReceiveBank)] \in Seq(Packet) /\ out \in Seq(Packet)
           /\ Other(btReceiveBank) \in {0, 1}
<1>1. Other(btReceiveBank) \in {0, 1} /\ btReceiveBank \in {0, 1}
  BY DEF TypeInv, WireOK, Other
<1>2. /\ banks[btReceiveBank] \in Seq(Packet) /\ banks[Other(btReceiveBank)] \in Seq(Packet)
      /\ out \in Seq(Packet)
  BY <1>1 DEF TypeInv, WireOK, Bank
<1>3. banks[Other(btReceiveBank)] \o out \in Seq(Packet)
  BY <1>2, ConcatProperties
<1> QED
  BY <1>1, <1>2, <1>3, ConcatProperties DEF Flow

\* A frame sent goes to the end of the stream.
LEMMA FlowSends ==
    ASSUME TypeInv, NEW fr \in Frame, HostSends(fr)
    PROVE  /\ Flow \in Seq(Seq(Nat \X Nat))
           /\ Packets(Len(sent) + 1, Size(fr)) \in Seq(Seq(Nat \X Nat))
           /\ Flow' = Flow \o Packets(Len(sent) + 1, Size(fr))
<1> DEFINE n == Len(sent)
           G == Packets(n + 1, Size(fr))
           Q == Seq(Nat \X Nat)
<1>1. n \in Nat /\ UNCHANGED <<banks, btReceiveBank>> /\ out' = out \o G
  BY LenProperties DEF HostSends, TypeInv, HostOK, reader
<1>2. Packet \subseteq Q
  <2>1. Carried \subseteq Nat \X Nat
    BY <1>1 DEF Carried
  <2> QED
    BY <2>1, SeqGrows DEF Packet
<1>3. /\ banks[btReceiveBank] \in Seq(Q) /\ banks[Other(btReceiveBank)] \in Seq(Q)
      /\ out \in Seq(Q) /\ Flow \in Seq(Q)
  BY <1>2, FlowOK, SeqGrows
<1>4. G \in Seq(Q)
  <2>1. Size(fr) \in Nat /\ Size(fr) > 0 /\ n + 1 \in Nat
    BY <1>1, Sizes
  <2>2. G \in Seq({p \in Seq({n + 1} \X Nat) : Len(p) <= EP_OUT_SIZE})
    <3> HIDE DEF n
    <3> QED
      BY <2>1, PacketsOK
  <2>3. ({n + 1} \X Nat) \subseteq Nat \X Nat
    BY <1>1
  <2>4. {p \in Seq({n + 1} \X Nat) : Len(p) <= EP_OUT_SIZE} \subseteq Q
    BY <2>3, SeqGrows
  <2> QED
    BY <2>2, <2>4, SeqGrows
<1> HIDE DEF Q
<1>5. Flow' = Flow \o G
  <2> HIDE DEF G
  <2>1. Flow' = Cat(banks[btReceiveBank], Cat(banks[Other(btReceiveBank)], Cat(out, G)))
    BY <1>1 DEF Flow, Other, Cat
  <2>2. Flow = Cat(banks[btReceiveBank], Cat(banks[Other(btReceiveBank)], out))
    BY DEF Flow, Cat
  <2>3. Flow' = Cat(Flow, G)
    BY <1>3, <1>4, <2>1, <2>2, Regroup
  <2> QED
    BY <2>3 DEF Cat
<1> QED
  BY <1>3, <1>4, <1>5 DEF Q

\* A quiet link is whole, and so is a link that has become quiet.
LEMMA QuietIsWhole ==
    ASSUME TypeInv, Quiet
    PROVE  Whole
<1>1. PICK at : Chain(at, <<>>, sent) /\ at[1] = <<Len(sent) + 1, 1>>
  BY NothingUnderWay DEF TypeInv, HostOK
<1>2. Flow = <<>>
  <2>1. btReceiveBank \in {0, 1} /\ Other(btReceiveBank) \in {0, 1}
    BY DEF TypeInv, WireOK, Other
  <2>2. banks[btReceiveBank] = <<>> /\ banks[Other(btReceiveBank)] = <<>> /\ out = <<>>
    BY <2>1 DEF Quiet
  <2> QED
    BY <2>2 DEF Flow
<1>3. Between(at[1])
  <2>1. NextFrame(at[1]) = Len(sent) + 1 /\ Len(sent) \in Nat
    BY <1>1, LenProperties DEF NextFrame, TypeInv, HostOK
  <2>2. Before(Len(sent) + 1)
    BY <2>1 DEF Before
  <2> QED
    BY <1>1, <2>1, <2>2 DEF Between, Quiet
<1> QED
  BY <1>1, <1>2, <1>3 DEF Whole, ReadsAt, Quiet

\* What was dispatched is of frames sent before, so a new frame changes nothing.
LEMMA BeforeSends ==
    ASSUME TypeInv, NEW fr \in Frame, HostSends(fr), NEW f, Before(f)
    PROVE  Before(f)'
<1> DEFINE n == Len(sent)
<1>1. /\ n \in Nat /\ sent' = Append(sent, fr) /\ Len(sent') = n + 1 /\ accepted' = accepted
      /\ \A g \in 1 .. n : sent'[g] = sent[g]
      /\ sent'[n + 1] = fr
  BY LenProperties, AppendProperties DEF HostSends, TypeInv, HostOK, reader
<1>2. \A g \in 1 .. n : Units(g)' = Units(g)
  BY <1>1 DEF Units
<1>3. ASSUME NEW g, g = n + 1 PROVE accepted # Units(g)'
  <2> SUFFICES ASSUME accepted = Units(g)' PROVE FALSE
    OBVIOUS
  <2>1. Size(fr) \in Nat /\ Size(fr) > 0
    BY Sizes
  <2>2. accepted = [i \in 1 .. Size(fr) |-> <<g, i>>]
    BY <1>1, <1>3 DEF Units
  <2>3. 1 \in DOMAIN accepted /\ accepted[1] = <<g, 1>>
    BY <2>1, <2>2
  <2>4. accepted \in Seq(Known)
    BY DEF TypeInv, TakenOK
  <2>5. accepted[1] \in Known
    BY <2>3, <2>4, LenProperties, ElementOfSeq
  <2>6. g \in 0 .. n
    BY <2>3, <2>5 DEF Known
  <2> HIDE DEF n
  <2> QED
    BY <1>1, <1>3, <2>6
<1>4. ASSUME NEW g \in 1 .. n + 1, accepted' = Units(g)' PROVE g < f
  <2>1. g \in 1 .. n \/ g = n + 1
    BY <1>1
  <2> QED
    BY <1>1, <1>2, <1>3, <1>4, <2>1 DEF Before
<1> QED
  BY <1>1, <1>4 DEF Before

LEMMA PathHostSends ==
    ASSUME TypeInv, TypeInv', PathInv, NEW fr \in Frame, HostSends(fr)
    PROVE  PathInv'
<1> DEFINE n == Len(sent)
           G == Packets(n + 1, Size(fr))
<1>1. /\ n \in Nat /\ sent' = Append(sent, fr) /\ Len(sent') = n + 1
      /\ \A f \in 1 .. n : sent'[f] = sent[f]
  BY LenProperties, AppendProperties DEF HostSends, TypeInv, HostOK
<1>2. UNCHANGED <<banks, fill, btReceiveBank, skewed, buf, stage, want, got>>
  BY DEF HostSends, reader
<1>3. ~skewed => BanksOK'
  BY <1>2 DEF PathInv, BanksOK, Other
<1>4. ASSUME ~skewed, ~torn' PROVE Whole'
  <2>1. Whole
    BY <1>4, QuietIsWhole DEF PathInv, HostSends
  <2>2. PICK at : Chain(at, Flow, sent) /\ ReadsAt(at[1])
    BY <2>1 DEF Whole
  <2> DEFINE Q == Seq(Nat \X Nat)
  <2>6. Flow \in Seq(Q) /\ G \in Seq(Q) /\ Flow' = Flow \o G
    BY FlowSends
  <2> HIDE DEF Q
  <2>7. PICK b : Chain(b, Flow \o G, Append(sent, fr)) /\ b[1] = at[1]
    <3>1. sent \in Seq(Frame)
      BY DEF TypeInv, HostOK
    <3> QED
      BY <2>2, <2>6, <3>1, FlowGrows
  <2>8. ReadsAt(at[1])'
    <3> DEFINE h == at[1]
    <3>1. \A f \in 1 .. n : Final(sent', f) = Final(sent, f) /\ Size(sent'[f]) = Size(sent[f])
      BY <1>1 DEF Final
    <3>2. IsPlace(sent, h) => IsPlace(sent', h)
      BY <1>1, <3>1 DEF IsPlace
    <3> HIDE DEF h
    <3>3. CASE stage = "idle"
      <4>1. Between(h)
        BY <2>2, <3>3 DEF ReadsAt, h
      <4>2. IsPlace(sent, h) => Size(sent'[h[1]]) = Size(sent[h[1]])
        BY <3>1 DEF IsPlace
      <4>3. buf' = <<>> /\ (h[2] = 1 \/ (IsPlace(sent', h)
                               /\ (h[2] - 1) * EP_OUT_SIZE = Size(sent'[h[1]])))
        BY <1>2, <3>2, <4>1, <4>2 DEF Between
      <4>4. Before(NextFrame(h))'
        BY <4>1, BeforeSends DEF Between, NextFrame
      <4> QED
        BY <1>2, <3>3, <4>3, <4>4 DEF ReadsAt, Between, h
    <3>4. CASE stage # "idle"
      <4>1. PICK f \in 1 .. n : Within(f, h)
        BY <2>2, <3>4 DEF ReadsAt, h
      <4>2. f \in 1 .. n + 1 /\ sent'[f] = sent[f]
        BY <1>1
      <4>3. /\ Len(got') + want' = (CASE stage' = "pre" -> 1
                                      [] stage' = "pay" -> Size(sent'[f]) - 1
                                      [] OTHER -> Size(sent'[f]))
            /\ stage' \in {"pay", "post"} => sent'[f].ng
            /\ stage' = "old" => ~sent'[f].ng
            /\ PartOf(f, got', 0) /\ PartOf(f, buf', Len(got'))
        BY <1>2, <4>1, <4>2 DEF Within, Due
      <4>4. \/ /\ h[1] = f /\ IsPlace(sent', h)
               /\ Len(got') + Len(buf') = (h[2] - 1) * EP_OUT_SIZE
            \/ h = <<f + 1, 1>> /\ Len(got') + Len(buf') = Size(sent'[f])
        BY <1>2, <3>2, <4>1, <4>2 DEF Within
      <4>5. Before(f)'
        BY <4>1, BeforeSends DEF Within
      <4> QED
        BY <1>1, <1>2, <3>4, <4>2, <4>3, <4>4, <4>5 DEF ReadsAt, Within, Due, h
    <3> QED
      BY <3>3, <3>4 DEF h
  <2> QED
    BY <1>1, <2>6, <2>7, <2>8 DEF Whole
<1> QED
  BY <1>2, <1>3, <1>4 DEF PathInv

LEMMA BeforeStays ==
    ASSUME UNCHANGED <<sent, accepted>>, NEW f, Before(f)
    PROVE  Before(f)'
<1>1. \A g \in 1 .. Len(sent) : Units(g)' = Units(g)
  BY DEF Units
<1> QED
  BY <1>1 DEF Before

\* What a step leaves alone that does not touch the reader or the frames.
LEMMA ReaderStays ==
    ASSUME UNCHANGED <<sent, buf, stage, want, got, accepted>>, NEW h, ReadsAt(h)
    PROVE  ReadsAt(h)'
  BY BeforeStays DEF ReadsAt, Between, Within, Due, NextFrame

\* A packet that goes into a bank keeps its place in the stream.
LEMMA FlowArrives ==
    ASSUME TypeInv, PathInv, Arrives, ~skewed
    PROVE  BanksOK' /\ Flow' = Flow
<1> DEFINE r == btReceiveBank
           o == Other(btReceiveBank)
<1>1. /\ UNCHANGED <<sent, buf, stage, want, got, btReceiveBank, torn, skewed>>
      /\ banks[fill] = <<>> /\ banks' = [banks EXCEPT ![fill] = <<Head(out)>>]
      /\ fill' = Other(fill) /\ out' = Tail(out) /\ out # <<>>
  BY DEF Arrives, reader
<1>2. r \in {0, 1} /\ o \in {0, 1} /\ o # r /\ Other(o) = r /\ DOMAIN banks = {0, 1}
  BY DEF TypeInv, WireOK, Other
<1>3. out \in Seq(Packet) /\ banks[o] \in Seq(Packet) /\ <<Head(out)>> \o Tail(out) = out
      /\ <<Head(out)>> \in Seq(Packet) /\ <<Head(out)>> # <<>> /\ Tail(out) \in Seq(Packet)
  <2>1. out \in Seq(Packet) /\ banks[o] \in Seq(Packet)
    BY FlowOK
  <2>2. Head(out) \in Packet /\ Tail(out) \in Seq(Packet)
    BY <1>1, <2>1, HeadTailProperties
  <2>3. <<Head(out)>> \in Seq(Packet) /\ <<Head(out)>> # <<>>
    BY <2>2
  <2>4. <<Head(out)>> \o Tail(out) = out
    BY <1>1, <2>1
  <2> QED
    BY <2>1, <2>2, <2>3, <2>4
<1>4. BanksOK' /\ Flow' = Flow
  <2>1. BanksOK
    BY DEF PathInv
  <2>2. CASE banks[r] = <<>>
    <3>1. banks[o] = <<>> /\ fill = r
      BY <2>1, <2>2 DEF BanksOK
    <3>2. banks'[r] = <<Head(out)>> /\ banks'[o] = <<>> /\ fill' = o
      BY <1>1, <1>2, <3>1
    <3>3. Flow = out
      BY <1>3, <2>2, <3>1, ConcatEmptySeq DEF Flow
    <3>4. Flow' = <<Head(out)>> \o (<<>> \o Tail(out))
      BY <1>1, <3>2 DEF Flow, Other
    <3>5. Flow' = out
      BY <1>3, <3>4, ConcatEmptySeq
    <3>6. BanksOK'
      BY <1>1, <1>3, <3>2 DEF BanksOK, Other
    <3> QED
      BY <3>3, <3>5, <3>6
  <2>3. CASE banks[r] # <<>>
    <3>1. banks[o] = <<>> /\ fill = o
      BY <1>1, <2>1, <2>3 DEF BanksOK
    <3>2. banks'[o] = <<Head(out)>> /\ banks'[r] = banks[r] /\ fill' = r
      BY <1>1, <1>2, <3>1
    <3>3. Flow = banks[r] \o out
      BY <1>3, <3>1, ConcatEmptySeq DEF Flow
    <3>4. Flow' = banks[r] \o (<<Head(out)>> \o Tail(out))
      BY <1>1, <3>2 DEF Flow, Other
    <3>5. Flow' = banks[r] \o out
      BY <1>3, <3>4
    <3>6. BanksOK'
      BY <1>1, <1>3, <2>3, <3>2 DEF BanksOK, Other
    <3> QED
      BY <3>3, <3>5, <3>6
  <2> QED
    BY <2>2, <2>3
<1> QED
  BY <1>4

LEMMA PathArrives ==
    ASSUME TypeInv, PathInv, Arrives
    PROVE  PathInv'
<1>1. UNCHANGED <<sent, buf, stage, want, got, accepted, torn, skewed>>
  BY DEF Arrives, reader
<1>2. ~skewed => BanksOK' /\ Flow' = Flow
  BY FlowArrives
<1>3. ASSUME ~skewed, ~torn PROVE Whole'
  <2>1. PICK at : Chain(at, Flow, sent) /\ ReadsAt(at[1])
    BY <1>3 DEF PathInv, Whole
  <2>2. ReadsAt(at[1])'
    BY <1>1, <2>1, ReaderStays
  <2> QED
    BY <1>1, <1>2, <1>3, <2>1, <2>2 DEF Whole
<1> QED
  BY <1>1, <1>2, <1>3 DEF PathInv

LEMMA PathBusReset ==
    ASSUME TypeInv, TypeInv', BusReset
    PROVE  PathInv'
<1>1. ASSUME ~skewed' PROVE BanksOK'
  <2>1. /\ btReceiveBank = 0 /\ btReceiveBank' = 0 /\ fill' = 0
        /\ banks'[0] = <<>> /\ banks'[1] = <<>>
    BY <1>1 DEF BusReset, reader
  <2> QED
    BY <2>1 DEF BanksOK, Other
<1>2. ASSUME ~torn' PROVE Whole'
  <2>1. Quiet /\ sent' = sent /\ buf' = buf /\ stage' = stage
    BY <1>2 DEF BusReset, reader
  <2>2. PICK at : Chain(at, <<>>, sent) /\ at[1] = <<Len(sent) + 1, 1>>
    BY NothingUnderWay DEF TypeInv, HostOK
  <2>3. Flow' = <<>>
    <3>1. btReceiveBank \in {0, 1} /\ Other(btReceiveBank) \in {0, 1}
      BY DEF TypeInv, WireOK, Other
    <3>2. /\ banks'[btReceiveBank] = <<>> /\ banks'[Other(btReceiveBank)] = <<>>
          /\ out' = <<>> /\ btReceiveBank' = btReceiveBank
      BY <3>1 DEF BusReset, reader
    <3> QED
      BY <3>2 DEF Flow, Other
  <2>4. ReadsAt(at[1])'
    <3>1. NextFrame(at[1]) = Len(sent) + 1 /\ Len(sent) \in Nat
      BY <2>2, LenProperties DEF NextFrame, TypeInv, HostOK
    <3>2. Before(NextFrame(at[1]))'
      BY <2>1, <3>1 DEF Before, NextFrame
    <3> QED
      BY <2>1, <2>2, <3>2 DEF Quiet, ReadsAt, Between
  <2> QED
    BY <2>1, <2>2, <2>3, <2>4 DEF Whole
<1> QED
  BY <1>1, <1>2 DEF PathInv

\* A step of the reader that takes nothing from the banks.
LEMMA WireStays ==
    ASSUME PathInv, UNCHANGED <<wire, btReceiveBank, torn, skewed>>,
           \A h : ~skewed /\ ~torn /\ (\E at : Chain(at, Flow, sent) /\ h = at[1]) /\ ReadsAt(h)
                    => ReadsAt(h)'
    PROVE  PathInv'
<1>1. UNCHANGED <<banks, fill, out, sent>>
  BY DEF wire
<1>2. Flow' = Flow
  BY <1>1 DEF Flow, Other
<1>3. ~skewed => BanksOK'
  BY <1>1 DEF PathInv, BanksOK, Other
<1>4. ASSUME ~skewed, ~torn PROVE Whole'
  <2>1. PICK at : Chain(at, Flow, sent) /\ ReadsAt(at[1])
    BY <1>4 DEF PathInv, Whole
  <2>2. ReadsAt(at[1])'
    BY <1>4, <2>1
  <2> QED
    BY <1>1, <1>2, <2>1, <2>2 DEF Whole
<1> QED
  BY <1>3, <1>4 DEF PathInv

\* The first of the packets under way is the one in the bank read next.
LEMMA FlowHead ==
    ASSUME TypeInv, banks[btReceiveBank] # <<>>
    PROVE  /\ Flow # <<>> /\ 1 \in 1 .. Len(Flow)
           /\ Flow[1] = Head(banks[btReceiveBank])
           /\ Tail(Flow) = banks[Other(btReceiveBank)] \o out
           /\ banks[btReceiveBank] = <<Head(banks[btReceiveBank])>>
<1> DEFINE x == banks[btReceiveBank]
           p == Head(banks[btReceiveBank])
           y == banks[Other(btReceiveBank)] \o out
<1>1. x \in Seq(Packet) /\ y \in Seq(Packet) /\ Len(x) = 1
  <2>1. x \in Bank
    BY DEF TypeInv, WireOK
  <2>2. x \in Seq(Packet) /\ Len(x) <= 1 /\ Len(x) \in Nat \ {0}
    BY <2>1, EmptySeq DEF Bank
  <2>3. y \in Seq(Packet)
    BY FlowOK, ConcatProperties
  <2> HIDE DEF x, y
  <2>4. Len(x) = 1
    <3>1. \A n \in Nat \ {0} : n <= 1 => n = 1
      OBVIOUS
    <3> QED
      BY <2>2, <3>1
  <2> QED
    BY <2>2, <2>3, <2>4
<1>2. Flow = x \o y
  BY DEF Flow
<1> HIDE DEF x, y
<1>3. p = x[1] /\ x = <<p>>
  BY <1>1 DEF p, x
<1>4. Len(y) \in Nat /\ Flow \in Seq(Packet) /\ Len(Flow) = 1 + Len(y)
  <2>1. Len(y) \in Nat
    BY <1>1, LenProperties
  <2>2. x \o y \in Seq(Packet) /\ Len(x \o y) = Len(x) + Len(y)
    BY <1>1, ConcatProperties
  <2> QED
    BY <1>1, <1>2, <2>1, <2>2
<1>5. Flow # <<>> /\ 1 \in 1 .. Len(Flow)
  BY <1>4, EmptySeq
<1>6. /\ Flow[1] = x[1]
      /\ \A i \in 1 .. Len(y) : Flow[i + 1] = y[i]
  <2>1. \A i \in 1 .. 1 + Len(y) : (x \o y)[i] = IF i <= 1 THEN x[i] ELSE y[i - 1]
    <3>1. \A i \in 1 .. Len(x) + Len(y) : (x \o y)[i] = IF i <= Len(x) THEN x[i] ELSE y[i - Len(x)]
      BY <1>1, ConcatProperties
    <3> QED
      BY <1>1, <3>1
  <2>2. 1 \in 1 .. 1 + Len(y) /\ 1 <= 1
    BY <1>4
  <2>3. \A i \in 1 .. Len(y) : i + 1 \in 1 .. 1 + Len(y) /\ ~(i + 1 <= 1) /\ (i + 1) - 1 = i
    BY <1>4
  <2> QED
    BY <1>2, <2>1, <2>2, <2>3
<1>7. Tail(Flow) = y
  <2>1. /\ Tail(Flow) \in Seq(Packet) /\ Len(Tail(Flow)) = Len(Flow) - 1
        /\ \A i \in 1 .. Len(Tail(Flow)) : Tail(Flow)[i] = Flow[i + 1]
    BY <1>4, <1>5, HeadTailProperties
  <2>2. Len(Tail(Flow)) = Len(y)
    BY <1>4, <2>1
  <2> QED
    BY <1>1, <1>6, <2>1, <2>2, SeqEqual
<1> QED
  BY <1>3, <1>5, <1>6, <1>7 DEF x, y

LEMMA PathStartRead ==
    ASSUME TypeInv, PathInv, StartRead
    PROVE  PathInv'
<1>1. /\ UNCHANGED <<program, wire, btReceiveBank, torn, skewed, sent, buf, accepted>>
      /\ stage = "idle" /\ stage' \in {"pre", "packet"} /\ got' = <<>>
      /\ want' = IF stage' = "pre" THEN 1 ELSE OldLen
      /\ stage' = "packet" => program = "bootrom"
      /\ banks[btReceiveBank] # <<>> /\ Head(banks[btReceiveBank]) # <<>>
  BY DEF StartRead, wire, Available, TypeInv, HostOK
<1>2. ASSUME NEW at, Chain(at, Flow, sent), ReadsAt(at[1])
      PROVE  ReadsAt(at[1])'
  <2> DEFINE h == at[1]
             f == h[1]
  <2>1. IsPlace(sent, h) /\ Flow[1] = Piece(f, Size(sent[f]), h[2])
    BY <1>1, <1>2, FlowHead DEF Chain
  <2>2. f \in 1 .. Len(sent) /\ h[2] \in 1 .. PacketCount(Size(sent[f]))
    BY <2>1 DEF IsPlace, Final
  <2>3. Size(sent[f]) \in Nat /\ Size(sent[f]) > 0 /\ sent[f] \in Frame
    BY <2>2, FrameSizes
  <2>4. Between(h)
    BY <1>1, <1>2 DEF ReadsAt
  <2> HIDE DEF h, f
  <2>5. h[2] = 1
    <3> SUFFICES ASSUME (h[2] - 1) * EP_OUT_SIZE = Size(sent[f]) PROVE FALSE
      BY <2>4 DEF Between, f
    <3>1. f \in Nat /\ Len(sent) \in Nat
      BY <2>2, LenProperties DEF TypeInv, HostOK
    <3>2. Len(Flow[1]) = Min2(EP_OUT_SIZE, Size(sent[f]) - (h[2] - 1) * EP_OUT_SIZE)
      <4> DEFINE z == Size(sent[f])
                 k == h[2]
      <4>1. z \in Nat /\ z > 0 /\ k \in 1 .. PacketCount(z) /\ Flow[1] = Piece(f, z, k)
        BY <2>1, <2>2, <2>3
      <4> HIDE DEF z, k
      <4>2. Len(Piece(f, z, k)) = Min2(EP_OUT_SIZE, z - (k - 1) * EP_OUT_SIZE)
        BY <3>1, <4>1, PacketsOK
      <4> QED
        BY <4>1, <4>2 DEF z, k
    <3>3. Len(Flow[1]) = 0
      BY <2>3, <3>2, Sizes DEF Min2
    <3>4. Flow[1] \in Seq(Carried)
      BY FlowOK, FlowHead, ElementOfSeq, <1>1 DEF Packet
    <3> QED
      BY <1>1, <3>3, <3>4, EmptySeq, FlowHead
  <2>6. Len(got') = 0 /\ Len(buf') = 0 /\ buf' = <<>>
    BY <1>1, <2>4 DEF Between
  <2>7. stage' = "packet" => Size(sent[f]) = OldLen
    BY <1>1, <2>2, <2>3, Sizes DEF TypeInv, HostOK
  <2>8. Within(f, h)'
    <3>1. Len(got') + want' = Due(f)'
      BY <1>1, <2>3, <2>6, <2>7, Sizes DEF Due
    <3>2. Len(got') + Len(buf') = (h[2] - 1) * EP_OUT_SIZE
      BY <2>5, <2>6, Sizes
    <3>3. IsPlace(sent', h) /\ h[1] = f
      BY <1>1, <2>1 DEF f
    <3>4. stage' \notin {"pay", "post", "old"}
      BY <1>1
    <3>5. PartOf(f, got', 0) /\ PartOf(f, buf', Len(got'))
      BY <2>6 DEF PartOf
    <3>6. Before(f)'
      <4>1. Before(f)
        BY <2>4, <2>5 DEF Between, NextFrame, f
      <4> QED
        BY <1>1, <4>1, BeforeStays
    <3> QED
      BY <3>1, <3>2, <3>3, <3>4, <3>5, <3>6 DEF Within
  <2> QED
    BY <1>1, <2>2, <2>8 DEF ReadsAt, h
<1> QED
  BY <1>1, <1>2, WireStays

(***************************************************************************)
(* Reading on in a frame: got grows by the first n of the units q that     *)
(* come next, and the others stay as the rest of the packet.               *)
(***************************************************************************)
LEMMA ReadsOn ==
    ASSUME NEW S, NEW g \in Seq(S), NEW q \in Seq(S), NEW n \in 0 .. Len(q), NEW f,
           PartOf(f, g, 0), PartOf(f, q, Len(g))
    PROVE  /\ Len(Cat(g, First(q, n))) = Len(g) + n /\ Len(Rest(q, n)) = Len(q) - n
           /\ PartOf(f, Cat(g, First(q, n)), 0)
           /\ PartOf(f, Rest(q, n), Len(Cat(g, First(q, n))))
<1>1. Len(g) \in Nat /\ Len(q) \in Nat /\ n \in Nat
  BY LenProperties
<1>2. /\ First(q, n) \in Seq(S) /\ Len(First(q, n)) = n
      /\ Len(Rest(q, n)) = Len(q) - n
      /\ \A i \in 1 .. n : First(q, n)[i] = q[i]
      /\ \A i \in 1 .. Len(q) - n : Rest(q, n)[i] = q[n + i]
  BY Cut
<1> DEFINE e == First(q, n)
<1>3. /\ Len(g \o e) = Len(g) + n
      /\ \A i \in 1 .. Len(g) + n : (g \o e)[i] = IF i <= Len(g) THEN g[i] ELSE e[i - Len(g)]
  <2>1. /\ Len(g \o e) = Len(g) + Len(e)
        /\ \A i \in 1 .. Len(g) + Len(e) :
              (g \o e)[i] = IF i <= Len(g) THEN g[i] ELSE e[i - Len(g)]
    BY <1>2, ConcatProperties
  <2> QED
    BY <1>2, <2>1
<1>4. ASSUME NEW i \in 1 .. Len(g) + n PROVE (g \o e)[i] = <<f, 0 + i>>
  <2>1. CASE i <= Len(g)
    BY <1>1, <1>3, <2>1 DEF PartOf
  <2>2. CASE ~(i <= Len(g))
    <3>1. i - Len(g) \in 1 .. n /\ i - Len(g) \in 1 .. Len(q) /\ Len(g) + (i - Len(g)) = 0 + i
      BY <1>1, <2>2
    <3>2. (g \o e)[i] = e[i - Len(g)]
      BY <1>3, <2>2
    <3>3. e[i - Len(g)] = q[i - Len(g)]
      BY <1>2, <3>1
    <3> QED
      BY <3>1, <3>2, <3>3 DEF PartOf
  <2> QED
    BY <2>1, <2>2
<1>5. ASSUME NEW i \in 1 .. Len(q) - n PROVE Rest(q, n)[i] = <<f, (Len(g) + n) + i>>
  <2>1. n + i \in 1 .. Len(q) /\ Len(g) + (n + i) = (Len(g) + n) + i
    BY <1>1
  <2>2. Rest(q, n)[i] = q[n + i]
    BY <1>2
  <2> QED
    BY <2>1, <2>2 DEF PartOf
<1>6. PartOf(f, g \o e, 0) /\ PartOf(f, Rest(q, n), Len(g \o e))
  BY <1>2, <1>3, <1>4, <1>5 DEF PartOf
<1> QED
  BY <1>2, <1>3, <1>6 DEF Cat

LEMMA PathReadLocal ==
    ASSUME TypeInv, PathInv, ReadLocal
    PROVE  PathInv'
<1> DEFINE n == Min2(want, Len(buf))
<1>1. /\ UNCHANGED <<wire, btReceiveBank, torn, skewed, sent, stage, accepted>> /\ stage # "idle"
      /\ got' = got \o First(buf, n) /\ buf' = Rest(buf, n) /\ want' = want - n
  BY DEF ReadLocal, wire, Busy
<1>2. want \in Nat /\ buf \in Seq(Carried) /\ got \in Seq(Carried)
  BY DEF TypeInv, ReaderOK
<1>3. Len(buf) \in Nat /\ Len(got) \in Nat /\ n \in 0 .. Len(buf)
  BY <1>2, LenProperties, MinOK
<1> HIDE DEF n
<1>4. ASSUME NEW h, ReadsAt(h) PROVE ReadsAt(h)'
  <2>1. PICK f \in 1 .. Len(sent) : Within(f, h)
    BY <1>1, <1>4 DEF ReadsAt
  <2>2. /\ Len(got') = Len(got) + n /\ Len(buf') = Len(buf) - n
        /\ PartOf(f, got', 0) /\ PartOf(f, buf', Len(got'))
    <3>1. PartOf(f, got, 0) /\ PartOf(f, buf, Len(got))
      BY <2>1 DEF Within
    <3>2. /\ Len(Cat(got, First(buf, n))) = Len(got) + n /\ Len(Rest(buf, n)) = Len(buf) - n
          /\ PartOf(f, Cat(got, First(buf, n)), 0)
          /\ PartOf(f, Rest(buf, n), Len(Cat(got, First(buf, n))))
      BY <1>2, <1>3, <3>1, ReadsOn
    <3>3. got' = Cat(got, First(buf, n)) /\ buf' = Rest(buf, n)
      BY <1>1 DEF Cat
    <3> QED
      BY <3>2, <3>3
  <2>3. Len(got') + want' = Len(got) + want /\ Len(got') + Len(buf') = Len(got) + Len(buf)
    BY <1>1, <1>2, <1>3, <2>2
  <2>4. Due(f)' = Due(f)
    BY <1>1 DEF Due
  <2>5. Before(f)'
    BY <1>1, <2>1, BeforeStays DEF Within
  <2>6. Within(f, h)'
    BY <1>1, <2>1, <2>2, <2>3, <2>4, <2>5 DEF Within
  <2> QED
    BY <1>1, <2>6 DEF ReadsAt
<1> QED
  BY <1>1, <1>4, WireStays

\* The packet at a place continues its frame.
LEMMA PiecePart ==
    ASSUME NEW f \in Nat, NEW z \in Nat, z > 0, NEW k \in 1 .. PacketCount(z)
    PROVE  PartOf(f, Piece(f, z, k), (k - 1) * EP_OUT_SIZE)
<1>1. Len(Piece(f, z, k)) = Min2(EP_OUT_SIZE, z - (k - 1) * EP_OUT_SIZE)
  BY PacketsOK
<1> QED
  BY <1>1 DEF PartOf, Piece

\* The packet read next continues the frame, and usb_read has nothing to
\* drop of it: it holds no more than the frame still lacks.
LEMMA NextPacket ==
    ASSUME TypeInv, ReadPacket, NEW at, Chain(at, Flow, sent),
           NEW f \in 1 .. Len(sent), Within(f, at[1])
    PROVE  LET p == Head(banks[btReceiveBank])
               n == Min2(want, Len(p))
               z == Size(sent[f])
               k == at[1][2]
           IN /\ at[1][1] = f /\ k \in 1 .. PacketCount(z)
              /\ p \in Seq(Carried) /\ PartOf(f, p, Len(got)) /\ Len(p) \in Nat
              /\ Len(got) + Len(p) = IF k < PacketCount(z) THEN k * EP_OUT_SIZE ELSE z
              /\ n \in 0 .. Len(p) /\ n <= want
              /\ Kept(Rest(p, n)) = Rest(p, n)
<1> DEFINE h == at[1]
           p == Head(banks[btReceiveBank])
           n == Min2(want, Len(p))
           z == Size(sent[f])
           k == h[2]
<1>1. stage # "idle" /\ want > 0 /\ buf = <<>> /\ banks[btReceiveBank] # <<>>
  BY DEF ReadPacket, Busy
<1>2. /\ z \in Nat /\ z > 0 /\ sent[f] \in Frame /\ f \in Nat
      /\ want \in Nat /\ got \in Seq(Carried) /\ Len(got) \in Nat /\ Len(buf) = 0
  BY <1>1, FrameSizes, LenProperties DEF TypeInv, ReaderOK, HostOK
<1>3. Len(got) + want = Due(f) /\ Due(f) <= z /\ (stage \notin {"pre", "pay"} => Due(f) = z)
  BY <1>2 DEF Within, Due
<1>4. Len(got) < z
  BY <1>1, <1>2, <1>3
<1>5. h[1] = f /\ IsPlace(sent, h) /\ Len(got) = (k - 1) * EP_OUT_SIZE
  BY <1>2, <1>4 DEF Within
<1>6. k \in 1 .. PacketCount(z)
  BY <1>5 DEF IsPlace, Final
<1>7. p = Piece(f, z, k)
  BY <1>1, <1>5, FlowHead DEF Chain
<1> HIDE DEF h, p, n, z, k
<1>8. PartOf(f, p, Len(got))
  BY <1>2, <1>5, <1>6, <1>7, PiecePart
<1>9. Len(p) = Min2(EP_OUT_SIZE, z - Len(got))
  <2>1. Len(Piece(f, z, k)) = Min2(EP_OUT_SIZE, z - (k - 1) * EP_OUT_SIZE)
    BY <1>2, <1>6, PacketsOK
  <2> QED
    BY <1>5, <1>7, <2>1
<1>10. /\ Len(p) \in Nat
       /\ Len(got) + Len(p) = IF k < PacketCount(z) THEN k * EP_OUT_SIZE ELSE z
  BY <1>2, <1>5, <1>6, <1>9, PieceEnds
<1>11. Len(p) <= z - Len(got)
  BY <1>2, <1>4, <1>9, Sizes DEF Min2
<1>12. n \in 0 .. Len(p) /\ n <= want /\ (n = want \/ n = Len(p))
  BY <1>2, <1>10, MinOK DEF n
<1>13. p \in Seq(Carried)
  <2>1. banks[btReceiveBank] \in Seq(Packet)
    BY FlowOK
  <2> QED
    BY <1>1, <2>1, HeadTailProperties DEF Packet, p
<1>14. Kept(Rest(p, n)) = Rest(p, n)
  <2>1. CASE program = "os"
    BY <2>1 DEF Kept
  <2>2. CASE program # "os"
    <3>1. stage \notin {"pre", "pay"}
      BY <1>1, <2>2 DEF TypeInv, ReaderOK
    <3>2. Len(got) + want = z
      BY <1>3, <3>1
    <3>3. n = Len(p)
      BY <1>2, <1>10, <1>11, <1>12, <3>2
    <3>4. Len(Rest(p, n)) = Len(p) - n /\ Rest(p, n) \in Seq(Carried)
      BY <1>12, <1>13, Cut
    <3>5. Len(p) - n = 0
      BY <1>10, <3>3
    <3> QED
      BY <2>2, <3>4, <3>5, EmptySeq DEF Kept
  <2> QED
    BY <2>1, <2>2
<1> QED
  BY <1>5, <1>6, <1>8, <1>10, <1>12, <1>13, <1>14 DEF h, p, n, z, k

\* A packet read leaves the stream at its head.
LEMMA FlowRead ==
    ASSUME TypeInv, ReadPacket
    PROVE  Flow' = Tail(Flow)
<1> DEFINE r == btReceiveBank
           o == Other(btReceiveBank)
<1>1. /\ out' = out /\ banks[r] # <<>>
      /\ banks' = [banks EXCEPT ![r] = <<>>] /\ btReceiveBank' = o
  BY DEF ReadPacket, NextBank
<1>2. r \in {0, 1} /\ o \in {0, 1} /\ o # r /\ Other(o) = r /\ DOMAIN banks = {0, 1}
  BY DEF TypeInv, WireOK, Other
<1>3. banks'[r] = <<>> /\ banks'[o] = banks[o]
  BY <1>1, <1>2
<1>4. Flow' = banks[o] \o (<<>> \o out)
  BY <1>1, <1>2, <1>3 DEF Flow
<1>5. <<>> \o out = out
  BY FlowOK, ConcatEmptySeq
<1> QED
  BY <1>1, <1>4, <1>5, FlowHead

LEMMA PathReadPacket ==
    ASSUME TypeInv, PathInv, ReadPacket
    PROVE  PathInv'
<1> DEFINE r == btReceiveBank
           o == Other(btReceiveBank)
           p == Head(banks[btReceiveBank])
           n == Min2(want, Len(p))
<1>1. /\ UNCHANGED <<program, sent, out, fill, stage, accepted, torn, skewed>>
      /\ stage # "idle" /\ want > 0 /\ buf = <<>> /\ banks[r] # <<>>
      /\ got' = got \o First(p, n) /\ buf' = Kept(Rest(p, n)) /\ want' = want - n
      /\ banks' = [banks EXCEPT ![r] = <<>>] /\ btReceiveBank' = o
  BY DEF ReadPacket, Busy, NextBank
<1>2. r \in {0, 1} /\ o \in {0, 1} /\ o # r /\ Other(o) = r /\ DOMAIN banks = {0, 1}
  BY DEF TypeInv, WireOK, Other
<1>3. banks'[r] = <<>> /\ banks'[o] = banks[o]
  BY <1>1, <1>2
<1>4. Flow' = Tail(Flow)
  BY FlowRead
<1>5. ASSUME ~skewed PROVE BanksOK'
  <2>1. fill = IF banks[o] # <<>> THEN r ELSE o
    BY <1>1, <1>5 DEF PathInv, BanksOK
  <2>2. fill' = IF banks'[o] = <<>> \/ banks'[r] # <<>> THEN o ELSE r
    BY <1>1, <1>3, <2>1
  <2> QED
    BY <1>1, <1>2, <1>3, <2>2 DEF BanksOK
<1>6. ASSUME NEW at, Chain(at, Flow, sent), NEW f \in 1 .. Len(sent), Within(f, at[1])
      PROVE  Within(f, Succ(sent, at[1]))'
  <2> DEFINE h == at[1]
             z == Size(sent[f])
             k == h[2]
  <2>1. /\ z \in Nat /\ z > 0 /\ f \in Nat
        /\ want \in Nat /\ got \in Seq(Carried) /\ Len(got) \in Nat
    BY <1>1, FrameSizes, LenProperties DEF TypeInv, ReaderOK, HostOK
  <2>2. /\ h[1] = f /\ k \in 1 .. PacketCount(z)
        /\ p \in Seq(Carried) /\ PartOf(f, p, Len(got)) /\ Len(p) \in Nat
        /\ Len(got) + Len(p) = IF k < PacketCount(z) THEN k * EP_OUT_SIZE ELSE z
        /\ n \in 0 .. Len(p) /\ n <= want
        /\ Kept(Rest(p, n)) = Rest(p, n)
    BY <1>6, NextPacket
  <2> HIDE DEF h, z, k, p, n
  <2>3. /\ Len(Cat(got, First(p, n))) = Len(got) + n /\ Len(Rest(p, n)) = Len(p) - n
        /\ PartOf(f, Cat(got, First(p, n)), 0)
        /\ PartOf(f, Rest(p, n), Len(Cat(got, First(p, n))))
    <3>1. PartOf(f, got, 0)
      BY <1>6 DEF Within
    <3> QED
      BY <2>1, <2>2, <3>1, ReadsOn
  <2>4. /\ got' = Cat(got, First(p, n)) /\ buf' = Rest(p, n)
        /\ Len(got') = Len(got) + n /\ Len(buf') = Len(p) - n
        /\ PartOf(f, got', 0) /\ PartOf(f, buf', Len(got'))
    <3>1. got' = Cat(got, First(p, n)) /\ buf' = Rest(p, n)
      BY <1>1, <2>2 DEF Cat, n, p
    <3> QED
      BY <2>3, <3>1
  <2>5. want' = want - n
    BY <1>1 DEF n, p
  <2>6. /\ Len(got') + want' = Len(got) + want
        /\ Len(got') + Len(buf') = Len(got) + Len(p)
    BY <2>1, <2>2, <2>4, <2>5
  <2>7. Due(f)' = Due(f)
    BY <1>1 DEF Due
  <2> DEFINE h2 == Succ(sent, h)
  <2>8. \/ /\ h2[1] = f /\ IsPlace(sent, h2)
           /\ Len(got') + Len(buf') = (h2[2] - 1) * EP_OUT_SIZE
        \/ h2 = <<f + 1, 1>> /\ Len(got') + Len(buf') = z
    <3>1. Final(sent, f) = PacketCount(z) /\ PacketCount(z) \in Nat
      BY <2>1, Counting DEF Final, z
    <3>2. CASE k < PacketCount(z)
      <4>1. h2 = <<f, k + 1>>
        BY <2>2, <3>1, <3>2 DEF Succ, k
      <4>2. k + 1 \in 1 .. PacketCount(z) /\ (k + 1) - 1 = k
        BY <2>2, <3>1, <3>2
      <4>3. IsPlace(sent, h2)
        BY <3>1, <4>1, <4>2 DEF IsPlace
      <4>4. h2[1] = f /\ h2[2] - 1 = k
        BY <4>1, <4>2
      <4> HIDE DEF h2
      <4> QED
        BY <2>2, <2>6, <3>2, <4>3, <4>4
    <3>3. CASE ~(k < PacketCount(z))
      <4>1. h2 = <<f + 1, 1>>
        BY <2>2, <3>1, <3>3 DEF Succ, k
      <4> QED
        BY <2>2, <2>6, <3>3, <4>1
    <3> QED
      BY <3>2, <3>3
  <2>9. h2' = h2 /\ sent' = sent /\ stage' = stage
    BY <1>1 DEF h2
  <2> HIDE DEF h2
  <2>10. Before(f)'
    BY <1>1, <1>6, BeforeStays DEF Within
  <2>11. Within(f, h2)'
    BY <1>6, <2>4, <2>6, <2>7, <2>8, <2>9, <2>10 DEF Within, z
  <2> QED
    BY <2>11 DEF h2, h
<1>7. ASSUME ~skewed, ~torn PROVE Whole'
  <2>1. PICK at : Chain(at, Flow, sent) /\ ReadsAt(at[1])
    BY <1>7 DEF PathInv, Whole
  <2>2. PICK f \in 1 .. Len(sent) : Within(f, at[1])
    BY <1>1, <2>1 DEF ReadsAt
  <2>3. PICK b : Chain(b, Tail(Flow), sent) /\ b[1] = Succ(sent, at[1])
    <3>1. sent \in Seq(Frame)
      BY DEF TypeInv, HostOK
    <3> QED
      BY <1>1, <2>1, <3>1, FlowOK, FlowHead, FlowTaken
  <2>4. Within(f, Succ(sent, at[1]))'
    BY <1>6, <2>1, <2>2
  <2>5. Within(f, b[1])'
    BY <1>1, <2>3, <2>4
  <2> QED
    BY <1>1, <1>4, <2>3, <2>5 DEF Whole, ReadsAt
<1> QED
  BY <1>1, <1>5, <1>7 DEF PathInv

\* A frame read to its end is the frame sent, and nothing of it is left.
LEMMA ReadToTheEnd ==
    ASSUME TypeInv, NEW f \in 1 .. Len(sent), NEW h, Within(f, h), want = 0,
           stage \in {"post", "old", "packet"}
    PROVE  /\ got = Units(f) /\ buf = <<>> /\ NextFrame(h) = f + 1
           /\ h[2] = 1 \/ (IsPlace(sent, h) /\ (h[2] - 1) * EP_OUT_SIZE = Size(sent[h[1]]))
<1> DEFINE z == Size(sent[f])
<1>1. /\ z \in Nat /\ z > 0 /\ got \in Seq(Carried) /\ Len(got) \in Nat
      /\ buf \in Seq(Carried) /\ Len(buf) \in Nat
  BY FrameSizes, LenProperties DEF TypeInv, ReaderOK
<1>2. Len(got) = z
  BY <1>1 DEF Within, Due
<1>3. got = Units(f)
  <2>1. got = [i \in 1 .. z |-> got[i]]
    BY <1>1, <1>2, LenProperties
  <2>2. \A i \in 1 .. z : got[i] = <<f, i>>
    BY <1>1, <1>2 DEF Within, PartOf
  <2> QED
    BY <2>1, <2>2 DEF Units
<1> HIDE DEF z
<1>4. CASE /\ h[1] = f /\ IsPlace(sent, h)
           /\ Len(got) + Len(buf) = (h[2] - 1) * EP_OUT_SIZE
  <2>1. h[2] \in 1 .. PacketCount(z)
    BY <1>4 DEF IsPlace, Final, z
  <2>2. (h[2] - 1) * EP_OUT_SIZE \in 0 .. z
    BY <1>1, <2>1, Counting
  <2>3. Len(buf) = 0 /\ (h[2] - 1) * EP_OUT_SIZE = z
    BY <1>1, <1>2, <1>4, <2>2
  <2>4. buf = <<>>
    BY <1>1, <2>3, EmptySeq
  <2>5. h[2] # 1
    BY <1>1, <2>3, Sizes
  <2> QED
    BY <1>3, <1>4, <2>3, <2>4, <2>5 DEF NextFrame, z
<1>5. CASE h = <<f + 1, 1>> /\ Len(got) + Len(buf) = z
  <2>1. Len(buf) = 0 /\ h[2] = 1
    BY <1>1, <1>2, <1>5
  <2>2. buf = <<>>
    BY <1>1, <2>1, EmptySeq
  <2> QED
    BY <1>3, <1>5, <2>1, <2>2 DEF NextFrame
<1> QED
  BY <1>4, <1>5 DEF Within, z

\* Whether it is dispatched or not, the reader is then before the next frame.
LEMMA FrameRead ==
    ASSUME TypeInv, NEW f \in 1 .. Len(sent), NEW h, Within(f, h), want = 0,
           stage \in {"post", "old", "packet"}, UNCHANGED <<sent, buf>>, stage' = "idle",
           accepted' = got \/ accepted' = accepted
    PROVE  ReadsAt(h)'
<1>1. /\ got = Units(f) /\ buf = <<>> /\ NextFrame(h) = f + 1
      /\ h[2] = 1 \/ (IsPlace(sent, h) /\ (h[2] - 1) * EP_OUT_SIZE = Size(sent[h[1]]))
  BY ReadToTheEnd
<1>2. ASSUME NEW g \in 1 .. Len(sent), accepted' = Units(g) PROVE g < f + 1
  <2>1. f \in Nat /\ g \in Nat
    OBVIOUS
  <2>2. CASE accepted' = got
    <3>1. /\ Size(sent[f]) \in Nat /\ Size(sent[f]) > 0
          /\ Size(sent[g]) \in Nat /\ Size(sent[g]) > 0
      BY FrameSizes
    <3>2. 1 \in 1 .. Size(sent[f]) /\ 1 \in 1 .. Size(sent[g])
      BY <3>1
    <3>3. Units(f)[1] = <<f, 1>> /\ Units(g)[1] = <<g, 1>>
      BY <3>2 DEF Units
    <3>4. f = g
      BY <1>1, <1>2, <2>2, <3>3
    <3> QED
      BY <2>1, <3>4
  <2>3. CASE accepted' = accepted
    <3>1. g < f
      BY <1>2, <2>3 DEF Within, Before
    <3> QED
      BY <2>1, <3>1
  <2> QED
    BY <2>2, <2>3
<1>3. \A g \in 1 .. Len(sent) : Units(g)' = Units(g)
  BY DEF Units
<1>4. Before(NextFrame(h))'
  BY <1>1, <1>2, <1>3 DEF Before, NextFrame
<1> QED
  BY <1>1, <1>4 DEF ReadsAt, Between

LEMMA PathParse ==
    ASSUME TypeInv, PathInv, Parse
    PROVE  PathInv'
<1>1. /\ UNCHANGED <<wire, btReceiveBank, torn, skewed, sent, got, buf, program>>
      /\ program = "os" /\ want = 0 /\ stage # "idle"
  BY DEF Parse, wire
<1>2. ASSUME NEW h, ReadsAt(h) PROVE ReadsAt(h)'
  <2>1. PICK f \in 1 .. Len(sent) : Within(f, h)
    BY <1>1, <1>2 DEF ReadsAt
  <2>2. /\ Size(sent[f]) \in Nat /\ Size(sent[f]) > 0 /\ sent[f] \in Frame /\ f > 0
        /\ got \in Seq(Carried) /\ Len(got) \in Nat /\ sent[f].len \in Int
        /\ Size(sent[f]) = sent[f].len + 2
    BY FrameSizes, Sizes, LenProperties DEF TypeInv, ReaderOK, Size
  <2>3. Len(got) = Due(f)
    BY <1>1, <2>1, <2>2 DEF Within
  <2>4. CASE stage = "pre"
    <3>1. Len(got) = 1 /\ got[1] = <<f, 0 + 1>>
      <4>1. Len(got) = 1
        BY <2>3, <2>4 DEF Due
      <4> QED
        BY <2>1, <4>1 DEF Within, PartOf
    <3>2. got[1][1] = f /\ got[1][2] = 1
      BY <3>1
    <3>3. IsPreamble(got[1]) <=> sent[f].ng
      BY <2>2, <3>2 DEF IsPreamble
    <3>4. \/ stage' = "pay" /\ want' = sent[f].len /\ sent[f].ng
          \/ stage' = "old" /\ want' = OldLen - 1 /\ ~sent[f].ng
      BY <2>4, <3>2, <3>3 DEF Parse, Reads
    <3>5. Len(got') + want' = Due(f)'
      BY <1>1, <2>2, <3>1, <3>4, Sizes DEF Due
    <3>6. Before(f)'
      BY <1>1, <2>1, <2>4, BeforeStays DEF Within, Parse, Reads
    <3>7. Within(f, h)'
      BY <1>1, <2>1, <3>4, <3>5, <3>6 DEF Within
    <3> QED
      BY <1>1, <3>4, <3>7 DEF ReadsAt
  <2>5. CASE stage = "pay"
    <3>1. stage' = "post" /\ want' = 1
      BY <2>5 DEF Parse, Reads
    <3>2. Len(got') + want' = Due(f)'
      BY <1>1, <2>2, <2>3, <2>5, <3>1 DEF Due
    <3>3. Before(f)'
      BY <1>1, <2>1, <2>5, BeforeStays DEF Within, Parse, Reads
    <3>4. Within(f, h)'
      BY <1>1, <2>1, <2>5, <3>1, <3>2, <3>3 DEF Within
    <3> QED
      BY <1>1, <3>1, <3>4 DEF ReadsAt
  <2>6. CASE stage \in {"post", "old"}
    <3>1. stage' = "idle" /\ (accepted' = got \/ accepted' = accepted)
      BY <2>6 DEF Parse, Accept, Reject
    <3> QED
      BY <1>1, <2>1, <2>6, <3>1, FrameRead
  <2> QED
    BY <1>1, <2>4, <2>5, <2>6 DEF TypeInv, ReaderOK
<1> QED
  BY <1>1, <1>2, WireStays

LEMMA PathTakePacket ==
    ASSUME TypeInv, PathInv, TakePacket
    PROVE  PathInv'
<1>1. /\ UNCHANGED <<wire, btReceiveBank, torn, skewed, sent, got, buf>>
      /\ want = 0 /\ stage = "packet" /\ stage' = "idle" /\ accepted' = got
  BY DEF TakePacket, wire, Accept
<1>2. ASSUME NEW h, ReadsAt(h) PROVE ReadsAt(h)'
  <2>1. PICK f \in 1 .. Len(sent) : Within(f, h)
    BY <1>1, <1>2 DEF ReadsAt
  <2> QED
    BY <1>1, <2>1, FrameRead
<1> QED
  BY <1>1, <1>2, WireStays

LEMMA PathReadTimeout ==
    ASSUME PathInv, ReadTimeout
    PROVE  PathInv'
  BY DEF ReadTimeout, PathInv, BanksOK, wire, Other

LEMMA PathInit == Init => PathInv
<1> SUFFICES ASSUME Init PROVE PathInv
  OBVIOUS
<1>1. TypeInv
  BY TypeInit
<1>2. Quiet
  BY DEF Init, Quiet
<1>3. BanksOK
  BY DEF Init, BanksOK, Other
<1> QED
  BY <1>1, <1>2, <1>3, QuietIsWhole DEF PathInv

LEMMA PathStep == TypeInv /\ TypeInv' /\ PathInv /\ [Next]_vars => PathInv'
<1> SUFFICES ASSUME TypeInv, TypeInv', PathInv, [Next]_vars PROVE PathInv'
  OBVIOUS
<1>1. CASE \E fr \in Frame : HostSends(fr)
  BY <1>1, PathHostSends
<1>2. CASE Arrives
  BY <1>2, PathArrives
<1>3. CASE BusReset
  BY <1>3, PathBusReset
<1>4. CASE StartRead
  BY <1>4, PathStartRead
<1>5. CASE ReadLocal
  BY <1>5, PathReadLocal
<1>6. CASE ReadPacket
  BY <1>6, PathReadPacket
<1>7. CASE Parse
  BY <1>7, PathParse
<1>8. CASE TakePacket
  BY <1>8, PathTakePacket
<1>9. CASE ReadTimeout
  BY <1>9, PathReadTimeout
<1>10. CASE UNCHANGED vars
  <2>1. UNCHANGED <<wire, btReceiveBank, torn, skewed, sent, buf, stage, want, got,
                  accepted>>
    BY <1>10 DEF vars, wire, reader
  <2> QED
    BY <2>1, ReaderStays, WireStays
<1> QED
  BY <1>1, <1>2, <1>3, <1>4, <1>5, <1>6, <1>7, <1>8, <1>9, <1>10 DEF Next, Reader

(***************************************************************************)
(* The banks are in step and the stream is whole, unless a bus reset has   *)
(* parted the banks or a frame was cut and the link not quiet since.       *)
(***************************************************************************)
THEOREM PathSound == Spec => [](TypeInv /\ PathInv)
  BY TypeInit, TypeStep, PathInit, PathStep, PTL DEF Spec

-----------------------------------------------------------------------------
(* The path as a queue *)

\* The first m units of frame f.
Upto(f, m) == [i \in 1 .. m |-> <<f, i>>]

LEMMA UptoOK ==
    ASSUME NEW f \in Nat, NEW m \in Nat
    PROVE  /\ Upto(f, m) \in Seq(Nat \X Nat) /\ Len(Upto(f, m)) = m
           /\ \A i \in 1 .. m : Upto(f, m)[i] = <<f, i>>
  BY DEF Upto

LEMMA UptoGrows ==
    ASSUME NEW f \in Nat, NEW m \in Nat, NEW p \in Seq(Nat \X Nat), PartOf(f, p, m)
    PROVE  Cat(Upto(f, m), p) = Upto(f, m + Len(p))
<1> DEFINE u == Upto(f, m)
           l == Len(p)
<1>1. u \in Seq(Nat \X Nat) /\ Len(u) = m /\ \A i \in 1 .. m : u[i] = <<f, i>>
  BY UptoOK
<1>2. l \in Nat /\ m + l \in Nat
  BY LenProperties
<1>3. /\ u \o p \in Seq(Nat \X Nat) /\ Len(u \o p) = m + l
      /\ \A i \in 1 .. m + l : (u \o p)[i] = IF i <= m THEN u[i] ELSE p[i - m]
  <2> HIDE DEF u
  <2>1. /\ u \o p \in Seq(Nat \X Nat) /\ Len(u \o p) = Len(u) + Len(p)
        /\ \A i \in 1 .. Len(u) + Len(p) : (u \o p)[i] = IF i <= Len(u) THEN u[i] ELSE p[i - Len(u)]
    BY <1>1, ConcatProperties
  <2> QED
    BY <1>1, <2>1
<1>4. ASSUME NEW i \in 1 .. m + l PROVE (u \o p)[i] = <<f, i>>
  <2> HIDE DEF u
  <2>1. CASE i <= m
    BY <1>1, <1>2, <1>3, <2>1
  <2>2. CASE ~(i <= m)
    <3>1. i - m \in 1 .. l /\ m + (i - m) = i
      BY <1>2, <2>2
    <3>2. p[i - m] = <<f, m + (i - m)>>
      BY <3>1 DEF PartOf
    <3> QED
      BY <1>3, <2>2, <3>1, <3>2
  <2> QED
    BY <2>1, <2>2
<1>5. /\ Upto(f, m + l) \in Seq(Nat \X Nat) /\ Len(Upto(f, m + l)) = m + l
      /\ \A i \in 1 .. m + l : Upto(f, m + l)[i] = <<f, i>>
  BY <1>2, UptoOK
<1> HIDE DEF u, l
<1>6. u \o p = Upto(f, m + l)
  BY <1>3, <1>4, <1>5, SeqEqual
<1> QED
  BY <1>6 DEF Cat, u, l

\* The packets of a transfer joined are its units: by induction on the packets.
LEMMA FlatPackets ==
    ASSUME NEW f \in Nat, NEW n \in Nat, n > 0
    PROVE  FlattenSeq(Packets(f, n)) = Upto(f, n)
<1> DEFINE c == PacketCount(n)
           End(k) == IF k = 0 THEN 0 ELSE IF k < c THEN k * EP_OUT_SIZE ELSE n
           Start(k) == [j \in 1 .. k |-> Piece(f, n, j)]
           G == {k \in Nat : k <= c => FlattenSeq(Start(k)) = Upto(f, End(k))}
<1>1. c \in Nat /\ c > 0 /\ EP_OUT_SIZE \in Nat
  BY Counting, Sizes
<1>2. ASSUME NEW k \in 1 .. c
      PROVE  Piece(f, n, k) \in Seq(Nat \X Nat) /\ Len(Piece(f, n, k)) \in Nat
  <2> DEFINE P == {p \in Seq({f} \X Nat) : Len(p) <= EP_OUT_SIZE}
  <2>a. /\ Packets(f, n) \in Seq(P) /\ Len(Packets(f, n)) = c
        /\ Packets(f, n)[k] = Piece(f, n, k)
    BY PacketsOK
  <2>b. Packets(f, n)[k] \in P
    <3> HIDE DEF P, c
    <3> QED
      BY <2>a, ElementOfSeq
  <2>1. Packets(f, n)[k] \in Seq({f} \X Nat) /\ Packets(f, n)[k] = Piece(f, n, k)
    BY <2>a, <2>b
  <2>2. ({f} \X Nat) \subseteq Nat \X Nat
    OBVIOUS
  <2> QED
    BY <2>1, <2>2, SeqGrows, LenProperties
<1>3. 0 \in G
  <2>1. Start(0) = <<>> /\ Upto(f, 0) = <<>>
    BY DEF Upto
  <2> QED
    BY <2>1, FlatEmpty
<1>4. ASSUME NEW k \in Nat, k \in G PROVE k + 1 \in G
  <2> SUFFICES ASSUME k + 1 <= c PROVE FlattenSeq(Start(k + 1)) = Upto(f, End(k + 1))
    OBVIOUS
  <2> DEFINE p == Piece(f, n, k + 1)
  <2>1. k + 1 \in 1 .. c /\ k <= c /\ k < c /\ (k + 1) - 1 = k
    BY <1>1
  <2>2. End(k) = k * EP_OUT_SIZE /\ End(k) \in Nat
    BY <1>1, <2>1
  <2>3. p \in Seq(Nat \X Nat) /\ Len(p) \in Nat /\ PartOf(f, p, End(k))
    <3>1. PartOf(f, p, ((k + 1) - 1) * EP_OUT_SIZE)
      BY <2>1, PiecePart
    <3> QED
      BY <1>2, <2>1, <2>2, <3>1
  <2>4. End(k) + Len(p) = End(k + 1)
    <3>1. Len(p) = Min2(EP_OUT_SIZE, n - ((k + 1) - 1) * EP_OUT_SIZE)
      BY <2>1, PacketsOK
    <3>2. ((k + 1) - 1) * EP_OUT_SIZE + Min2(EP_OUT_SIZE, n - ((k + 1) - 1) * EP_OUT_SIZE)
            = IF k + 1 < c THEN (k + 1) * EP_OUT_SIZE ELSE n
      BY <2>1, PieceEnds
    <3>3. k + 1 # 0
      BY <1>4
    <3> QED
      BY <2>1, <2>2, <3>1, <3>2, <3>3
  <2>5. Start(k) \in Seq(Seq(Nat \X Nat)) /\ Start(k + 1) = Append(Start(k), p)
    <3>1. \A j \in 1 .. k : j \in 1 .. c
      BY <1>1, <2>1
    <3>2. Start(k) \in Seq(Seq(Nat \X Nat)) /\ Len(Start(k)) = k
      BY <1>2, <3>1
    <3>3. Start(k + 1) \in Seq(Seq(Nat \X Nat)) /\ Len(Start(k + 1)) = k + 1
      <4>1. \A j \in 1 .. k + 1 : j \in 1 .. c
        BY <1>1, <2>1
      <4> QED
        BY <1>2, <4>1
    <3> DEFINE a == Append(Start(k), p)
    <3>4. /\ a \in Seq(Seq(Nat \X Nat)) /\ Len(a) = k + 1 /\ a[k + 1] = p
          /\ \A j \in 1 .. k : a[j] = Start(k)[j]
      <4> HIDE DEF p, Start
      <4> QED
        BY <2>3, <3>2, AppendProperties
    <3>5. ASSUME NEW j \in 1 .. k + 1 PROVE Start(k + 1)[j] = a[j]
      <4>1. Start(k + 1)[j] = Piece(f, n, j)
        OBVIOUS
      <4>2. j \in 1 .. k \/ j = k + 1
        OBVIOUS
      <4>3. j \in 1 .. k => Start(k)[j] = Piece(f, n, j)
        OBVIOUS
      <4> HIDE DEF a, Start
      <4> QED
        BY <3>4, <4>1, <4>2, <4>3
    <3> HIDE DEF a, Start
    <3>6. Start(k + 1) = a
      BY <3>3, <3>4, <3>5, SeqEqual
    <3> QED
      BY <3>2, <3>6 DEF a
  <2> HIDE DEF p, Start, End
  <2>6. FlattenSeq(Start(k + 1)) = FlattenSeq(Start(k)) \o p
    BY <2>3, <2>5, FlatAppend
  <2>7. FlattenSeq(Start(k)) = Upto(f, End(k))
    BY <1>4, <2>1
  <2>8. Cat(Upto(f, End(k)), p) = Upto(f, End(k) + Len(p))
    BY <2>2, <2>3, UptoGrows
  <2> QED
    BY <2>4, <2>6, <2>7, <2>8 DEF Cat
<1>5. Nat \subseteq G
  <2> HIDE DEF G
  <2> QED
    BY <1>3, <1>4, NatSet
<1>6. FlattenSeq(Start(c)) = Upto(f, End(c))
  BY <1>1, <1>5
<1>7. End(c) = n /\ Start(c) = Packets(f, n)
  BY <1>1 DEF Packets
<1> QED
  BY <1>6, <1>7

\* The frames of S that follow the first c, as Pending has them.
Left(S, c) == [i \in 1 .. Len(S) - c |-> Upto(c + i, Size(S[c + i]))]

LEMMA LeftOK ==
    ASSUME NEW S \in Seq(Frame), NEW c \in Nat, c <= Len(S)
    PROVE  /\ Left(S, c) \in Seq(Seq(Nat \X Nat)) /\ Len(Left(S, c)) = Len(S) - c
           /\ \A i \in 1 .. Len(S) - c : Left(S, c)[i] = Upto(c + i, Size(S[c + i]))
<1>1. Len(S) \in Nat /\ Len(S) - c \in Nat
  BY LenProperties
<1>2. ASSUME NEW i \in 1 .. Len(S) - c PROVE Upto(c + i, Size(S[c + i])) \in Seq(Nat \X Nat)
  <2>1. c + i \in 1 .. Len(S) /\ c + i \in Nat
    BY <1>1
  <2>2. Size(S[c + i]) \in Nat
    BY <2>1, ElementOfSeq, Sizes
  <2> QED
    BY <2>1, <2>2, UptoOK
<1> QED
  BY <1>1, <1>2 DEF Left

LEMMA LeftGrows ==
    ASSUME NEW S \in Seq(Frame), NEW c \in Nat, c <= Len(S), NEW fr \in Frame
    PROVE  Left(Append(S, fr), c) = Append(Left(S, c), Upto(Len(S) + 1, Size(fr)))
<1> DEFINE n == Len(S)
           T == Append(S, fr)
           u == Upto(n + 1, Size(fr))
           l == Left(S, c)
           a == Append(l, u)
<1>1. /\ n \in Nat /\ T \in Seq(Frame) /\ Len(T) = n + 1 /\ T[n + 1] = fr
      /\ \A f \in 1 .. n : T[f] = S[f]
  BY LenProperties, AppendProperties
<1>2. u \in Seq(Nat \X Nat)
  BY <1>1, Sizes, UptoOK
<1>3. /\ l \in Seq(Seq(Nat \X Nat)) /\ Len(l) = n - c
      /\ \A i \in 1 .. n - c : l[i] = Upto(c + i, Size(S[c + i]))
  BY LeftOK
<1> HIDE DEF n, T, u, l
<1>4. /\ a \in Seq(Seq(Nat \X Nat)) /\ Len(a) = (n - c) + 1 /\ a[(n - c) + 1] = u
      /\ \A i \in 1 .. n - c : a[i] = l[i]
  BY <1>2, <1>3, AppendProperties
<1>5. c <= n /\ c <= n + 1
  BY <1>1 DEF n
<1>6. /\ Left(T, c) \in Seq(Seq(Nat \X Nat)) /\ Len(Left(T, c)) = (n + 1) - c
      /\ \A i \in 1 .. (n + 1) - c : Left(T, c)[i] = Upto(c + i, Size(T[c + i]))
  BY <1>1, <1>5, LeftOK
<1> HIDE DEF a
<1>7. (n + 1) - c = (n - c) + 1
  BY <1>1
<1>8. ASSUME NEW i \in 1 .. (n - c) + 1 PROVE Left(T, c)[i] = a[i]
  <2>1. Left(T, c)[i] = Upto(c + i, Size(T[c + i]))
    BY <1>6, <1>7
  <2>2. CASE i = (n - c) + 1
    <3>1. c + i = n + 1
      BY <1>1, <2>2
    <3> QED
      BY <1>1, <1>4, <2>1, <2>2, <3>1 DEF u
  <2>3. CASE i # (n - c) + 1
    <3>1. i \in 1 .. n - c /\ c + i \in 1 .. n
      BY <1>1, <1>5, <2>3
    <3> QED
      BY <1>1, <1>3, <1>4, <2>1, <3>1
  <2> QED
    BY <2>2, <2>3
<1>9. Left(T, c) = a
  BY <1>4, <1>6, <1>7, <1>8, SeqEqual
<1> QED
  BY <1>9 DEF a, T, l, u, n

LEMMA LeftTaken ==
    ASSUME NEW S \in Seq(Frame), NEW c \in Nat, c < Len(S)
    PROVE  FlattenSeq(Left(S, c))
             = Cat(Upto(c + 1, Size(S[c + 1])), FlattenSeq(Left(S, c + 1)))
<1> DEFINE n == Len(S)
           u == Upto(c + 1, Size(S[c + 1]))
           l == Left(S, c + 1)
           a == <<u>> \o l
<1>1. n \in Nat /\ c + 1 \in 1 .. n /\ c <= n /\ c + 1 <= n /\ c + 1 \in Nat
  BY LenProperties
<1>2. u \in Seq(Nat \X Nat)
  <2>1. Size(S[c + 1]) \in Nat
    BY <1>1, ElementOfSeq, Sizes
  <2> QED
    BY <1>1, <2>1, UptoOK
<1>3. /\ l \in Seq(Seq(Nat \X Nat)) /\ Len(l) = n - (c + 1)
      /\ \A i \in 1 .. n - (c + 1) : l[i] = Upto((c + 1) + i, Size(S[(c + 1) + i]))
  BY <1>1, LeftOK
<1>4. /\ Left(S, c) \in Seq(Seq(Nat \X Nat)) /\ Len(Left(S, c)) = n - c
      /\ \A i \in 1 .. n - c : Left(S, c)[i] = Upto(c + i, Size(S[c + i]))
  BY <1>1, LeftOK
<1> HIDE DEF n, l
<1>5. <<u>> \in Seq(Seq(Nat \X Nat)) /\ Len(<<u>>) = 1 /\ <<u>>[1] = u
  <2> HIDE DEF u
  <2> QED
    BY <1>2
<1> HIDE DEF u
<1>6. /\ a \in Seq(Seq(Nat \X Nat)) /\ Len(a) = 1 + (n - (c + 1))
      /\ \A i \in 1 .. 1 + (n - (c + 1)) : a[i] = IF i <= 1 THEN <<u>>[i] ELSE l[i - 1]
  <2> DEFINE v == <<u>>
  <2>1. v \in Seq(Seq(Nat \X Nat)) /\ Len(v) = 1
    BY <1>5
  <2> HIDE DEF v
  <2>2. /\ v \o l \in Seq(Seq(Nat \X Nat)) /\ Len(v \o l) = Len(v) + Len(l)
        /\ \A i \in 1 .. Len(v) + Len(l) : (v \o l)[i] = IF i <= Len(v) THEN v[i] ELSE l[i - Len(v)]
    BY <1>3, <2>1, ConcatProperties
  <2>3. /\ v \o l \in Seq(Seq(Nat \X Nat)) /\ Len(v \o l) = 1 + (n - (c + 1))
        /\ \A i \in 1 .. 1 + (n - (c + 1)) : (v \o l)[i] = IF i <= 1 THEN v[i] ELSE l[i - 1]
    BY <1>3, <2>1, <2>2
  <2> QED
    BY <2>3 DEF v
<1> HIDE DEF a
<1>7. 1 + (n - (c + 1)) = n - c
  BY <1>1
<1>8. ASSUME NEW i \in 1 .. n - c PROVE Left(S, c)[i] = a[i]
  <2>1. Left(S, c)[i] = Upto(c + i, Size(S[c + i]))
    BY <1>4
  <2>2. CASE i = 1
    BY <1>5, <1>6, <1>7, <2>1, <2>2 DEF u
  <2>3. CASE i # 1
    <3>1. i - 1 \in 1 .. n - (c + 1) /\ (c + 1) + (i - 1) = c + i /\ ~(i <= 1)
      BY <1>1, <2>3
    <3> QED
      BY <1>3, <1>6, <1>7, <2>1, <3>1
  <2> QED
    BY <2>2, <2>3
<1>9. Left(S, c) = Cat(<<u>>, l)
  <2>1. Left(S, c) = a
    BY <1>4, <1>6, <1>7, <1>8, SeqEqual
  <2> QED
    BY <2>1 DEF a, Cat
<1>10. FlattenSeq(Cat(<<u>>, l)) = Cat(FlattenSeq(<<u>>), FlattenSeq(l))
  BY <1>3, <1>5, FlatCat
<1>11. FlattenSeq(<<u>>) = u
  BY <1>2, FlatOne
<1> QED
  BY <1>9, <1>10, <1>11 DEF u, l

\* What the reader has of a frame, and all that is under way with it.
Ahead == IF stage = "idle" THEN <<>> ELSE got
Content == Cat(Cat(Ahead, buf), FlattenSeq(Flow))

(***************************************************************************)
(* Before the first timeout and reset nothing is cut or skewed, and what   *)
(* is under way are the frames not yet dispatched.                         *)
(***************************************************************************)
FifoInv ==
    Calm => /\ ~torn /\ ~skewed /\ count <= Len(sent)
            /\ Content = FlattenSeq(Left(sent, count))

LEMMA ContentOK ==
    ASSUME TypeInv
    PROVE  /\ Flow \in Seq(Seq(Nat \X Nat)) /\ FlattenSeq(Flow) \in Seq(Nat \X Nat)
           /\ banks[btReceiveBank] \in Seq(Seq(Nat \X Nat))
           /\ banks[Other(btReceiveBank)] \in Seq(Seq(Nat \X Nat))
           /\ out \in Seq(Seq(Nat \X Nat))
           /\ got \in Seq(Nat \X Nat) /\ buf \in Seq(Nat \X Nat) /\ Ahead \in Seq(Nat \X Nat)
           /\ Cat(Ahead, buf) \in Seq(Nat \X Nat)
           /\ sent \in Seq(Frame) /\ Len(sent) \in Nat /\ count \in Nat
<1>1. Len(sent) \in Nat /\ sent \in Seq(Frame) /\ count \in Nat
  BY LenProperties DEF TypeInv, HostOK, TakenOK
<1>2. Carried \subseteq Nat \X Nat
  BY <1>1 DEF Carried
<1>3. Packet \subseteq Seq(Nat \X Nat)
  BY <1>2, SeqGrows DEF Packet
<1>4. /\ Flow \in Seq(Seq(Nat \X Nat)) /\ banks[btReceiveBank] \in Seq(Seq(Nat \X Nat))
      /\ banks[Other(btReceiveBank)] \in Seq(Seq(Nat \X Nat))
      /\ out \in Seq(Seq(Nat \X Nat))
  BY <1>3, FlowOK, SeqGrows
<1>5. got \in Seq(Nat \X Nat) /\ buf \in Seq(Nat \X Nat)
  BY <1>2, SeqGrows DEF TypeInv, ReaderOK
<1>6. Ahead \in Seq(Nat \X Nat)
  BY <1>5, EmptySeq DEF Ahead
<1>7. Cat(Ahead, buf) \in Seq(Nat \X Nat)
  BY <1>5, <1>6, ConcatProperties DEF Cat
<1> QED
  BY <1>1, <1>4, <1>5, <1>6, <1>7, FlatSeq

\* The queue as PathIsFifo states it.
LEMMA FifoIsPath == TypeInv /\ FifoInv => PathIsFifo
<1> SUFFICES ASSUME TypeInv, FifoInv, Calm PROVE PathIsFifo
  BY DEF PathIsFifo
<1> DEFINE a == Cat(Ahead, buf)
           x == banks[btReceiveBank]
           y == banks[Other(btReceiveBank)]
           X == FlattenSeq(x)
           Y == FlattenSeq(y)
           Z == FlattenSeq(out)
<1>1. /\ a \in Seq(Nat \X Nat)
      /\ x \in Seq(Seq(Nat \X Nat)) /\ y \in Seq(Seq(Nat \X Nat)) /\ out \in Seq(Seq(Nat \X Nat))
  BY ContentOK
<1>2. X \in Seq(Nat \X Nat) /\ Y \in Seq(Nat \X Nat) /\ Z \in Seq(Nat \X Nat)
  BY <1>1, FlatSeq
<1>3. Flow = Cat(x, Cat(y, out)) /\ Cat(y, out) \in Seq(Seq(Nat \X Nat))
  BY <1>1, ConcatProperties DEF Flow, Cat
<1> HIDE DEF a, x, y
<1>4. FlattenSeq(Flow) = Cat(X, Cat(Y, Z))
  BY <1>1, <1>3, FlatCat
<1> HIDE DEF X, Y, Z
<1>5. Cat(a, Cat(X, Cat(Y, Z))) = Cat(Cat(Cat(a, X), Y), Z)
  <2>1. Cat(a, X) \in Seq(Nat \X Nat) /\ Cat(Y, Z) \in Seq(Nat \X Nat)
    BY <1>1, <1>2, ConcatProperties DEF Cat
  <2>2. Cat(a, Cat(X, Cat(Y, Z))) = Cat(Cat(a, X), Cat(Y, Z))
    BY <1>1, <1>2, <2>1, CatAssoc
  <2>3. Cat(Cat(a, X), Cat(Y, Z)) = Cat(Cat(Cat(a, X), Y), Z)
    BY <1>2, <2>1, CatAssoc
  <2> QED
    BY <2>2, <2>3
<1>6. Cat(Cat(Cat(a, X), Y), Z) = FlattenSeq(Left(sent, count))
  BY <1>4, <1>5 DEF FifoInv, Content, a
<1>7. Pending = Left(sent, count)
  BY DEF Pending, Left, Units, Upto
<1> QED
  BY <1>6, <1>7 DEF PathIsFifo, Cat, Ahead, a, X, Y, Z, x, y

LEMMA FifoInit == Init => FifoInv
<1> SUFFICES ASSUME Init PROVE FifoInv
  OBVIOUS
<1>1. Flow = <<>> /\ Ahead = <<>> /\ buf = <<>> /\ count = 0 /\ sent = <<>>
  BY DEF Init, Flow, Ahead, Other
<1>2. Left(sent, count) = <<>>
  BY <1>1 DEF Left
<1>3. Content = <<>>
  BY <1>1, FlatEmpty DEF Content, Cat
<1> QED
  BY <1>1, <1>2, <1>3, FlatEmpty DEF FifoInv, Init

\* A step that only moves units along the path.
LEMMA FifoStays ==
    ASSUME FifoInv, UNCHANGED <<sent, count, torn, skewed, timeouts, resets>>,
           Calm /\ ~torn /\ ~skewed => Content' = Content
    PROVE  FifoInv'
  BY DEF FifoInv, Calm

LEMMA FifoHostSends ==
    ASSUME TypeInv, FifoInv, NEW fr \in Frame, HostSends(fr)
    PROVE  FifoInv'
<1> SUFFICES ASSUME Calm' PROVE FifoInv'
  BY DEF FifoInv
<1> DEFINE n == Len(sent)
           G == Packets(n + 1, Size(fr))
           u == Upto(n + 1, Size(fr))
<1>1. /\ UNCHANGED <<stage, got, buf, count, skewed, timeouts, resets>>
      /\ sent' = Append(sent, fr) /\ (~torn => ~torn')
  BY DEF HostSends, reader
<1>2. Calm
  BY <1>1 DEF Calm
<1>3. /\ Flow \in Seq(Seq(Nat \X Nat)) /\ G \in Seq(Seq(Nat \X Nat)) /\ Flow' = Cat(Flow, G)
  BY FlowSends DEF Cat
<1>4. n \in Nat /\ n + 1 \in Nat /\ Size(fr) \in Nat /\ Size(fr) > 0 /\ count \in Nat
      /\ count <= n /\ sent \in Seq(Frame)
  BY <1>2, ContentOK, Sizes DEF FifoInv
<1>5. FlattenSeq(G) = u /\ u \in Seq(Nat \X Nat)
  <2> HIDE DEF n
  <2> QED
    BY <1>4, FlatPackets, UptoOK
<1>6. Left(sent', count') = Append(Left(sent, count), u)
  BY <1>1, <1>4, LeftGrows
<1>7. FlattenSeq(Left(sent', count')) = Cat(FlattenSeq(Left(sent, count)), u)
  <2>1. Left(sent, count) \in Seq(Seq(Nat \X Nat))
    BY <1>4, LeftOK
  <2> HIDE DEF u
  <2> QED
    BY <1>5, <1>6, <2>1, FlatAppend DEF Cat
<1> HIDE DEF G, u
<1>8. FlattenSeq(Flow') = Cat(FlattenSeq(Flow), u)
  BY <1>3, <1>5, FlatCat
<1>9. Content' = Cat(Content, u)
  <2>1. Content' = Cat(Cat(Ahead, buf), Cat(FlattenSeq(Flow), u))
    BY <1>1, <1>8 DEF Content, Ahead
  <2> QED
    BY <1>5, <2>1, ContentOK, CatAssoc DEF Content
<1>10. count <= Len(sent') /\ ~torn' /\ ~skewed'
  <2>1. Len(sent') = n + 1
    BY <1>1, <1>4, AppendProperties
  <2> QED
    BY <1>1, <1>2, <1>4, <2>1 DEF FifoInv
<1> QED
  BY <1>1, <1>2, <1>7, <1>9, <1>10 DEF FifoInv

LEMMA FifoArrives ==
    ASSUME TypeInv, PathInv, FifoInv, Arrives
    PROVE  FifoInv'
<1>1. UNCHANGED <<sent, count, torn, skewed, timeouts, resets, stage, got, buf>>
  BY DEF Arrives, reader
<1>2. ~skewed => Flow' = Flow
  BY FlowArrives
<1>3. ~skewed => Content' = Content
  BY <1>1, <1>2 DEF Content, Ahead
<1> QED
  BY <1>1, <1>3, FifoStays

LEMMA FifoStartRead ==
    ASSUME FifoInv, StartRead
    PROVE  FifoInv'
<1>1. /\ UNCHANGED <<sent, count, torn, skewed, timeouts, resets, buf, banks, out, btReceiveBank>>
      /\ stage = "idle" /\ stage' # "idle" /\ got' = <<>>
  BY DEF StartRead, wire
<1>2. Flow' = Flow
  BY <1>1 DEF Flow, Other
<1>3. Content' = Content
  BY <1>1, <1>2 DEF Content, Ahead
<1> QED
  BY <1>1, <1>3, FifoStays

\* What a read takes of the units q and what it leaves are q.
LEMMA ReadSplits ==
    ASSUME NEW S, NEW g \in Seq(S), NEW q \in Seq(S), NEW n \in 0 .. Len(q)
    PROVE  Cat(Cat(g, First(q, n)), Rest(q, n)) = Cat(g, q)
<1>1. First(q, n) \in Seq(S) /\ Rest(q, n) \in Seq(S)
  BY Cut
<1>2. First(q, n) \o Rest(q, n) = q
  <2>1. Len(q) \in Nat /\ 1 \in 1 .. Len(q) + 1 /\ n \in 1 - 1 .. Len(q) /\ Len(q) \in n .. Len(q)
    BY LenProperties
  <2>2. SubSeq(q, 1, n) \o SubSeq(q, n + 1, Len(q)) = SubSeq(q, 1, Len(q))
    BY <2>1, ConcatAdjacentSubSeq
  <2>3. SubSeq(q, 1, Len(q)) = q
    BY SubSeqFull
  <2> QED
    BY <2>2, <2>3 DEF First, Rest
<1>3. Cat(Cat(g, First(q, n)), Rest(q, n)) = Cat(g, Cat(First(q, n), Rest(q, n)))
  BY <1>1, CatAssoc
<1> QED
  BY <1>2, <1>3 DEF Cat

LEMMA FifoReadLocal ==
    ASSUME TypeInv, FifoInv, ReadLocal
    PROVE  FifoInv'
<1> DEFINE n == Min2(want, Len(buf))
<1>1. /\ UNCHANGED <<sent, count, torn, skewed, timeouts, resets, stage, banks, out, btReceiveBank>>
      /\ stage # "idle"
      /\ got' = Cat(got, First(buf, n)) /\ buf' = Rest(buf, n)
  BY DEF ReadLocal, wire, Busy, Cat
<1>2. want \in Nat /\ got \in Seq(Nat \X Nat) /\ buf \in Seq(Nat \X Nat) /\ Len(buf) \in Nat
  BY ContentOK, LenProperties DEF TypeInv, ReaderOK
<1>3. n \in 0 .. Len(buf)
  BY <1>2, MinOK
<1> HIDE DEF n
<1>4. Cat(got', buf') = Cat(got, buf)
  BY <1>1, <1>2, <1>3, ReadSplits
<1>5. Flow' = Flow
  BY <1>1 DEF Flow, Other
<1>6. Content' = Content
  BY <1>1, <1>4, <1>5 DEF Content, Ahead
<1> QED
  BY <1>1, <1>6, FifoStays

LEMMA FifoReadPacket ==
    ASSUME TypeInv, PathInv, FifoInv, ReadPacket
    PROVE  FifoInv'
<1> DEFINE r == btReceiveBank
           o == Other(btReceiveBank)
           p == Head(banks[btReceiveBank])
           n == Min2(want, Len(p))
<1>1. /\ UNCHANGED <<sent, count, torn, skewed, timeouts, resets, stage, out>>
      /\ stage # "idle" /\ buf = <<>> /\ banks[r] # <<>>
      /\ got' = Cat(got, First(p, n)) /\ buf' = Kept(Rest(p, n))
  BY DEF ReadPacket, Busy, Cat
<1>2. Flow' = Tail(Flow)
  BY FlowRead
<1>3. ASSUME ~torn, ~skewed PROVE Content' = Content
  <2>1. PICK at : Chain(at, Flow, sent) /\ ReadsAt(at[1])
    BY <1>3 DEF PathInv, Whole
  <2>2. PICK f \in 1 .. Len(sent) : Within(f, at[1])
    BY <1>1, <2>1 DEF ReadsAt
  <2>3. p \in Seq(Carried) /\ n \in 0 .. Len(p) /\ Kept(Rest(p, n)) = Rest(p, n)
    BY <2>1, <2>2, NextPacket
  <2>4. got \in Seq(Nat \X Nat) /\ Flow \in Seq(Seq(Nat \X Nat))
    BY ContentOK
  <2>5. Flow # <<>> /\ Flow[1] = p
    BY <1>1, FlowHead
  <2>6. Tail(Flow) \in Seq(Seq(Nat \X Nat)) /\ Flow = Cat(<<p>>, Tail(Flow))
        /\ p \in Seq(Nat \X Nat) /\ <<p>> \in Seq(Seq(Nat \X Nat))
    <3>1. Tail(Flow) \in Seq(Seq(Nat \X Nat)) /\ Head(Flow) = Flow[1] /\ Head(Flow) \in Seq(Nat \X Nat)
      BY <2>4, <2>5, HeadTailProperties
    <3>2. Flow = <<Head(Flow)>> \o Tail(Flow)
      BY <2>4, <2>5
    <3> HIDE DEF p
    <3>3. p \in Seq(Nat \X Nat)
      BY <2>5, <3>1
    <3> QED
      BY <2>5, <3>1, <3>2, <3>3 DEF Cat
  <2> HIDE DEF p, n
  <2>7. FlattenSeq(Flow) = Cat(p, FlattenSeq(Tail(Flow))) /\ FlattenSeq(Tail(Flow)) \in Seq(Nat \X Nat)
    <3> DEFINE F == Tail(Flow)
               v == <<p>>
    <3>1. v \in Seq(Seq(Nat \X Nat)) /\ F \in Seq(Seq(Nat \X Nat)) /\ Flow = Cat(v, F)
      BY <2>6
    <3>2. FlattenSeq(v) = p
      BY <2>6, FlatOne
    <3> HIDE DEF F, v
    <3>3. FlattenSeq(Flow) = Cat(FlattenSeq(v), FlattenSeq(F)) /\ FlattenSeq(F) \in Seq(Nat \X Nat)
      BY <3>1, FlatCat, FlatSeq
    <3> QED
      BY <3>2, <3>3 DEF F
  <2>8. Cat(got', buf') = Cat(got, p)
    BY <1>1, <2>3, <2>4, <2>6, ReadSplits DEF p, n
  <2>9. Content' = Cat(Cat(got, p), FlattenSeq(Tail(Flow)))
    BY <1>1, <1>2, <2>8 DEF Content, Ahead
  <2>10. Content = Cat(got, FlattenSeq(Flow))
    <3>1. Cat(got, <<>>) = got
      BY <2>4, ConcatEmptySeq DEF Cat
    <3> QED
      BY <1>1, <3>1 DEF Content, Ahead
  <2> QED
    BY <2>4, <2>6, <2>7, <2>9, <2>10, CatAssoc
<1> QED
  BY <1>1, <1>3, FifoStays

\* The frame the reader has is the one dispatched next, and the rest of the
\* path is what follows it.
LEMMA FifoTaken ==
    ASSUME TypeInv, FifoInv, Calm, NEW f \in 1 .. Len(sent), NEW h, Within(f, h), want = 0,
           stage \in {"post", "old", "packet"}
    PROVE  /\ f = count + 1 /\ count < Len(sent) /\ buf = <<>>
           /\ FlattenSeq(Flow) = FlattenSeq(Left(sent, count + 1))
<1> DEFINE n == Len(sent)
           c == count
           z == Size(sent[f])
           F == FlattenSeq(Flow)
           R == FlattenSeq(Left(sent, c + 1))
<1>1. /\ n \in Nat /\ c \in Nat /\ c <= n /\ sent \in Seq(Frame)
      /\ F \in Seq(Nat \X Nat) /\ f \in Nat /\ z \in Nat /\ z > 0
  BY ContentOK, FrameSizes DEF FifoInv
<1>2. got = Upto(f, z) /\ buf = <<>>
  BY ReadToTheEnd DEF Units, Upto
<1>3. /\ Upto(f, z) \in Seq(Nat \X Nat) /\ Len(Upto(f, z)) = z
      /\ 1 \in 1 .. z /\ Upto(f, z)[1] = <<f, 1>>
  <2>1. 1 \in 1 .. z
    BY <1>1
  <2> QED
    BY <1>1, <2>1, UptoOK
<1>4. Cat(Upto(f, z), F) = FlattenSeq(Left(sent, c))
  <2>1. Cat(got, <<>>) = got
    BY ContentOK, ConcatEmptySeq DEF Cat
  <2>2. Content = Cat(got, F)
    BY <1>2, <2>1 DEF Content, Ahead
  <2> QED
    BY <1>2, <2>2 DEF FifoInv
<1> HIDE DEF F, z
<1>5. /\ Len(Cat(Upto(f, z), F)) = z + Len(F) /\ Len(F) \in Nat
      /\ Cat(Upto(f, z), F)[1] = <<f, 1>>
  <2> DEFINE u == Upto(f, z)
  <2>1. u \in Seq(Nat \X Nat) /\ Len(u) = z /\ u[1] = <<f, 1>> /\ Len(F) \in Nat
    BY <1>1, <1>3, LenProperties
  <2> HIDE DEF u
  <2>2. /\ Len(u \o F) = Len(u) + Len(F)
        /\ \A i \in 1 .. Len(u) + Len(F) : (u \o F)[i] = IF i <= Len(u) THEN u[i] ELSE F[i - Len(u)]
    BY <1>1, <2>1, ConcatProperties
  <2>3. 1 \in 1 .. z + Len(F) /\ 1 <= z
    BY <1>1, <2>1
  <2> QED
    BY <2>1, <2>2, <2>3 DEF Cat, u
<1>6. c < n
  <2> SUFFICES ASSUME c = n PROVE FALSE
    BY <1>1
  <2>1. Left(sent, c) = <<>>
    BY <1>1 DEF Left
  <2>2. Len(Cat(Upto(f, z), F)) = 0
    BY <1>4, <2>1, FlatEmpty
  <2> QED
    BY <1>1, <1>5, <2>2
<1> DEFINE w == Size(sent[c + 1])
<1>7. c + 1 \in 1 .. n /\ c + 1 \in Nat /\ c + 1 <= n
  BY <1>1, <1>6
<1>8. w \in Nat /\ w > 0 /\ 1 \in 1 .. w
  BY <1>7, FrameSizes
<1>9. FlattenSeq(Left(sent, c)) = Cat(Upto(c + 1, w), R)
  BY <1>1, <1>6, LeftTaken
<1>10. R \in Seq(Nat \X Nat)
  BY <1>1, <1>7, LeftOK, FlatSeq
<1> HIDE DEF w, R, c
<1>11. Cat(Upto(c + 1, w), R)[1] = <<c + 1, 1>>
  <2> DEFINE u == Upto(c + 1, w)
  <2>1. u \in Seq(Nat \X Nat) /\ Len(u) = w /\ u[1] = <<c + 1, 1>> /\ Len(R) \in Nat
    BY <1>7, <1>8, <1>10, UptoOK, LenProperties
  <2> HIDE DEF u
  <2>2. \A i \in 1 .. Len(u) + Len(R) : (u \o R)[i] = IF i <= Len(u) THEN u[i] ELSE R[i - Len(u)]
    BY <1>10, <2>1, ConcatProperties
  <2>3. 1 \in 1 .. w + Len(R) /\ 1 <= w
    BY <1>8, <2>1
  <2> QED
    BY <2>1, <2>2, <2>3 DEF Cat, u
<1>12. f = c + 1
  BY <1>4, <1>5, <1>9, <1>11
<1>13. w = z
  BY <1>12 DEF w, z, c
<1>14. F = R
  <2>1. Upto(f, z) \o F = Upto(f, z) \o R
    BY <1>4, <1>9, <1>12, <1>13 DEF Cat
  <2> QED
    BY <1>1, <1>3, <1>10, <2>1, ConcatSimplifications
<1> QED
  BY <1>2, <1>6, <1>12, <1>14 DEF F, R, c, n

\* A frame is dispatched.
LEMMA FifoAccept ==
    ASSUME TypeInv, PathInv, FifoInv, want = 0, stage \in {"post", "old", "packet"},
           UNCHANGED <<wire, btReceiveBank, buf, torn, skewed, timeouts, resets>>,
           count' = count + 1, stage' = "idle"
    PROVE  FifoInv'
<1> SUFFICES ASSUME Calm PROVE FifoInv'
  BY DEF FifoInv, Calm
<1>1. UNCHANGED <<sent, out, banks>> /\ ~torn /\ ~skewed
  BY DEF wire, FifoInv
<1>2. PICK at : Chain(at, Flow, sent) /\ ReadsAt(at[1])
  BY <1>1 DEF PathInv, Whole
<1>3. PICK f \in 1 .. Len(sent) : Within(f, at[1])
  BY <1>2 DEF ReadsAt
<1>4. /\ count < Len(sent) /\ buf = <<>>
      /\ FlattenSeq(Flow) = FlattenSeq(Left(sent, count + 1))
  BY <1>3, FifoTaken
<1>5. Flow' = Flow
  BY <1>1 DEF Flow, Other
<1>6. Content' = FlattenSeq(Flow)
  <2>1. Cat(Cat(<<>>, <<>>), FlattenSeq(Flow)) = FlattenSeq(Flow)
    BY ContentOK, ConcatEmptySeq DEF Cat
  <2> QED
    BY <1>4, <1>5, <2>1 DEF Content, Ahead
<1>7. count' <= Len(sent')
  BY <1>1, <1>4, ContentOK
<1> QED
  BY <1>1, <1>4, <1>6, <1>7 DEF FifoInv

\* A frame read whole has the postamble it must have.
LEMMA NeverRejected ==
    ASSUME TypeInv, PathInv, ~torn, ~skewed, stage = "post", want = 0
    PROVE  IsPostamble(got[Len(got)])
<1>1. PICK at : Chain(at, Flow, sent) /\ ReadsAt(at[1])
  BY DEF PathInv, Whole
<1>2. PICK f \in 1 .. Len(sent) : Within(f, at[1])
  BY <1>1 DEF ReadsAt
<1>3. got = Units(f) /\ sent[f].ng
  BY <1>2, ReadToTheEnd DEF Within
<1>4. Size(sent[f]) \in Nat /\ Size(sent[f]) > 0 /\ f > 0
  BY FrameSizes
<1>5. Len(got) = Size(sent[f])
  BY <1>3, <1>4 DEF Units
<1>6. got[Len(got)] = <<f, Size(sent[f])>>
  BY <1>3, <1>4, <1>5 DEF Units
<1> QED
  BY <1>3, <1>4, <1>6 DEF IsPostamble

LEMMA FifoParse ==
    ASSUME TypeInv, PathInv, FifoInv, Parse
    PROVE  FifoInv'
<1>1. /\ UNCHANGED <<wire, btReceiveBank, buf, got, torn, skewed, timeouts, resets>>
      /\ want = 0 /\ stage # "idle"
  BY DEF Parse
<1>2. UNCHANGED <<sent, out, banks>>
  BY <1>1 DEF wire
<1>3. CASE stage' # "idle" /\ count' = count
  <2>1. Content' = Content
    BY <1>1, <1>2, <1>3 DEF Content, Ahead, Flow, Other
  <2> QED
    BY <1>1, <1>2, <1>3, <2>1, FifoStays
<1>4. CASE stage \in {"post", "old"} /\ count' = count + 1 /\ stage' = "idle"
  BY <1>1, <1>4, FifoAccept
<1>5. CASE stage = "post" /\ ~IsPostamble(got[Len(got)])
  BY <1>1, <1>2, <1>5, NeverRejected DEF FifoInv, Calm
<1> QED
  BY <1>3, <1>4, <1>5 DEF Parse, Reads, Accept

LEMMA FifoStep == TypeInv /\ PathInv /\ FifoInv /\ [Next]_vars => FifoInv'
<1> SUFFICES ASSUME TypeInv, PathInv, FifoInv, [Next]_vars PROVE FifoInv'
  OBVIOUS
<1>1. CASE \E fr \in Frame : HostSends(fr)
  BY <1>1, FifoHostSends
<1>2. CASE Arrives
  BY <1>2, FifoArrives
<1>3. CASE BusReset
  <2>1. resets \in Nat /\ resets' = resets + 1
    BY <1>3, UsbAssumption DEF BusReset, TypeInv, HistoryOK
  <2>2. ~Calm'
    BY <2>1 DEF Calm
  <2> QED
    BY <2>2 DEF FifoInv
<1>4. CASE StartRead
  BY <1>4, FifoStartRead
<1>5. CASE ReadLocal
  BY <1>5, FifoReadLocal
<1>6. CASE ReadPacket
  BY <1>6, FifoReadPacket
<1>7. CASE Parse
  BY <1>7, FifoParse
<1>8. CASE TakePacket
  BY <1>8, FifoAccept DEF TakePacket, Accept
<1>9. CASE ReadTimeout
  <2>1. timeouts \in Nat /\ timeouts' = timeouts + 1
    BY <1>9, UsbAssumption DEF ReadTimeout, TypeInv, HistoryOK
  <2>2. ~Calm'
    BY <2>1 DEF Calm
  <2> QED
    BY <2>2 DEF FifoInv
<1>10. CASE UNCHANGED vars
  <2>1. UNCHANGED <<sent, count, torn, skewed, timeouts, resets, stage, got, buf, banks, out,
                    btReceiveBank>>
    BY <1>10 DEF vars, wire, reader
  <2>2. Content' = Content
    BY <2>1 DEF Content, Ahead, Flow, Other
  <2> QED
    BY <2>1, <2>2, FifoStays
<1> QED
  BY <1>1, <1>2, <1>3, <1>4, <1>5, <1>6, <1>7, <1>8, <1>9, <1>10 DEF Next, Reader

LEMMA FifoSound == Spec => [](TypeInv /\ PathInv /\ FifoInv)
  BY TypeInit, TypeStep, PathInit, PathStep, FifoInit, FifoStep, PTL DEF Spec

(***************************************************************************)
(* Without timeout and reset the host's queue, the two banks, the local    *)
(* buffer of usb_read_ng and what the parser has read are one queue of the *)
(* frames not yet dispatched: none is lost, doubled or overtaken, with any *)
(* number of frames and every size of packet and frame.                    *)
(***************************************************************************)
THEOREM PathIsAQueue == Spec => []PathIsFifo
  BY FifoSound, FifoIsPath, PTL

(***************************************************************************)
(* What usb_read, usb_read_ng and receive_ng_internal hand to the          *)
(* dispatcher is a frame the host sent, whole and after the one dispatched *)
(* before it, with every size of packet and frame, and again as soon as    *)
(* the link has been quiet after a frame was cut.  Before the first cut it *)
(* is the very next frame.                                                 *)
(***************************************************************************)
THEOREM DispatchedWasSent == Spec => AcceptedWasSent
<1> DEFINE A == count' > count /\ ~torn' /\ ~skewed =>
                  \E f \in DOMAIN sent :
                     /\ accepted' = Units(f)
                     /\ \A g \in DOMAIN sent : accepted = Units(g) => g < f
                     /\ Calm => f = count'
<1>1. ASSUME TypeInv, PathInv, FifoInv, [Next]_vars, count' > count, ~torn', ~skewed
      PROVE  \E f \in DOMAIN sent :
                /\ accepted' = Units(f)
                /\ \A g \in DOMAIN sent : accepted = Units(g) => g < f
                /\ Calm => f = count'
  <2>1. count \in Nat /\ ~(count > count) /\ DOMAIN sent = 1 .. Len(sent)
    BY <1>1, LenProperties DEF TypeInv, TakenOK, HostOK
  <2>2. Parse \/ TakePacket
    BY <1>1, <2>1 DEF Next, vars, reader, Reader, HostSends, Arrives, BusReset, StartRead,
                      ReadLocal, ReadPacket, ReadTimeout
  <2>3. /\ stage \in {"post", "old", "packet"} /\ want = 0 /\ accepted' = got /\ ~torn
        /\ count' = count + 1
    BY <1>1, <2>1, <2>2 DEF Parse, TakePacket, Accept, Reject, Reads
  <2>4. PICK at : Chain(at, Flow, sent) /\ ReadsAt(at[1])
    BY <1>1, <2>3 DEF PathInv, Whole
  <2>5. PICK f \in 1 .. Len(sent) : Within(f, at[1])
    BY <2>3, <2>4 DEF ReadsAt
  <2>6. got = Units(f)
    BY <1>1, <2>3, <2>5, ReadToTheEnd
  <2>7. \A g \in 1 .. Len(sent) : accepted = Units(g) => g < f
    BY <2>5 DEF Within, Before
  <2>8. Calm => f = count'
    BY <1>1, <2>3, <2>5, FifoTaken
  <2> QED
    BY <2>1, <2>3, <2>6, <2>7, <2>8
<1>2. TypeInv /\ PathInv /\ FifoInv /\ [Next]_vars => [A]_vars
  BY <1>1
<1> QED
  BY <1>2, FifoSound, PTL DEF Spec, AcceptedWasSent

-----------------------------------------------------------------------------
(* Waiting *)

\* Something is under way that the reader has not had yet.
UnderWay == out # <<>> \/ banks[0] # <<>> \/ banks[1] # <<>> \/ stage # "idle"

\* The endpoint can take a packet, or the reader can go on.
CanMove ==
    \/ out # <<>> /\ banks[fill] = <<>>
    \/ stage = "idle" /\ Available
    \/ Busy /\ (buf # <<>> \/ banks[btReceiveBank] # <<>>)
    \/ stage # "idle" /\ want = 0

(***************************************************************************)
(* On a link that is whole, endpoint and reader never wait for each other  *)
(* while something is under way, with one exception: an idle reader does   *)
(* not take an empty packet out of its bank, and only a host that ends     *)
(* transfers with empty packets sends one.                                 *)
(***************************************************************************)
NeverStuck ==
    ~torn /\ ~skewed /\ UnderWay =>
       \/ CanMove
       \/ HostZlp /\ stage = "idle" /\ banks[btReceiveBank] = << <<>> >>

\* A packet is empty only if it ends a transfer of full ones.
LEMMA NotEmpty ==
    ASSUME NEW n \in Nat, n > 0, NEW k \in 1 .. PacketCount(n), ~HostZlp
    PROVE  (k - 1) * EP_OUT_SIZE < n
<1> DEFINE E == EP_OUT_SIZE
           q == (n + E - 1) \div E
<1>1. E \in Nat /\ E > 0
  BY Sizes
<1>2. \A m \in Nat : m \div E \in Nat /\ E * (m \div E) <= m
  BY <1>1
<1>3. n + E - 1 \in Nat
  BY <1>1
<1>4. q \in Nat /\ E * q <= n + E - 1
  BY <1>2, <1>3
<1>5. \A a, b \in Nat : a <= b => E * a <= E * b
  BY <1>1
<1>6. \A a \in Nat : (a - 1) * E + E = E * a /\ E * a \in Nat
  BY <1>1
<1> HIDE DEF q, E
<1>7. PacketCount(n) = q
  BY DEF PacketCount, q, E
<1>8. k \in Nat /\ k <= q
  BY <1>4, <1>7
<1>9. (k - 1) * E + E = E * k /\ E * k <= E * q /\ E * k \in Nat /\ E * q \in Nat
  BY <1>4, <1>5, <1>6, <1>8
<1>10. (k - 1) * E \in Int
  BY <1>1, <1>8
<1>11. (k - 1) * E < n
  BY <1>1, <1>4, <1>9, <1>10
<1> QED
  BY <1>11 DEF E

LEMMA NotStuck == TypeInv /\ PathInv => NeverStuck
<1> SUFFICES ASSUME TypeInv, PathInv, ~torn, ~skewed, UnderWay, ~CanMove
             PROVE  HostZlp /\ stage = "idle" /\ banks[btReceiveBank] = << <<>> >>
  BY DEF NeverStuck
<1> DEFINE r == btReceiveBank
           o == Other(btReceiveBank)
<1>1. BanksOK
  BY DEF PathInv
<1>2. PICK at : Chain(at, Flow, sent) /\ ReadsAt(at[1])
  BY DEF PathInv, Whole
<1>3. r \in {0, 1} /\ o \in {0, 1} /\ o # r
  BY DEF TypeInv, WireOK, Other
<1>4. banks[r] = <<>> => banks[o] = <<>> /\ out = <<>> /\ Flow = <<>>
  BY <1>1 DEF BanksOK, CanMove, Flow
<1>5. sent \in Seq(Frame) /\ Len(sent) \in Nat
  BY LenProperties DEF TypeInv, HostOK
<1>6. stage = "idle"
  <2> SUFFICES ASSUME stage # "idle" PROVE FALSE
    OBVIOUS
  <2>1. want \in Nat /\ want > 0 /\ buf = <<>> /\ banks[r] = <<>> /\ Len(got) \in Nat
    BY LenProperties DEF CanMove, Busy, TypeInv, ReaderOK
  <2>2. PICK f \in 1 .. Len(sent) : Within(f, at[1])
    BY <1>2 DEF ReadsAt
  <2>3. Size(sent[f]) \in Nat /\ Size(sent[f]) > 0 /\ Len(buf) = 0
    BY <2>1, FrameSizes
  <2>4. Len(got) < Size(sent[f])
    BY <2>1, <2>2, <2>3 DEF Within, Due
  <2>5. at[1][1] = f
    BY <2>1, <2>2, <2>3, <2>4 DEF Within
  <2>6. at[1] = <<Len(sent) + 1, 1>>
    <3>1. Flow = <<>> /\ Len(<<>>) = 0
      BY <1>4, <2>1
    <3> QED
      BY <1>2, <3>1 DEF Chain
  <2> QED
    BY <1>5, <2>5, <2>6
<1>7. banks[r] # <<>>
  BY <1>3, <1>4, <1>6 DEF UnderWay
<1>8. banks[r] = << <<>> >>
  BY <1>6, <1>7, FlowHead DEF CanMove, Available
<1>9. HostZlp
  <2> SUFFICES ASSUME ~HostZlp PROVE FALSE
    BY UsbAssumption
  <2> DEFINE f == at[1][1]
             k == at[1][2]
             z == Size(sent[f])
  <2>1. 1 \in 1 .. Len(Flow) /\ Flow[1] = <<>>
    BY <1>6, <1>7, FlowHead DEF CanMove, Available
  <2>2. IsPlace(sent, at[1]) /\ Piece(f, z, k) = <<>>
    BY <1>2, <2>1 DEF Chain
  <2>3. f \in 1 .. Len(sent) /\ k \in 1 .. PacketCount(z)
    BY <2>2 DEF IsPlace, Final
  <2>4. z \in Nat /\ z > 0 /\ f \in Nat
    BY <1>5, <2>3, FrameSizes
  <2> HIDE DEF z, k, f
  <2>5. Len(Piece(f, z, k)) = Min2(EP_OUT_SIZE, z - (k - 1) * EP_OUT_SIZE)
    BY <2>3, <2>4, PacketsOK
  <2>6. (k - 1) * EP_OUT_SIZE \in 0 .. z /\ (k - 1) * EP_OUT_SIZE < z
    BY <2>3, <2>4, Counting, NotEmpty
  <2>7. Min2(EP_OUT_SIZE, z - (k - 1) * EP_OUT_SIZE) > 0
    BY <2>4, <2>6, Sizes DEF Min2
  <2>8. Len(Piece(f, z, k)) = 0
    BY <2>2
  <2> QED
    BY <2>5, <2>7, <2>8
<1> QED
  BY <1>6, <1>8, <1>9

(***************************************************************************)
(* The two banks, usb_read_ng's buffer and the parser never wait in a      *)
(* circle: as long as something is under way on a whole link, a packet can *)
(* arrive or the reader can go on, unless the host has sent an empty       *)
(* packet, which usb_poll_validate_length hides from an idle reader.       *)
(***************************************************************************)
THEOREM PathNeverStuck == Spec => []NeverStuck
  BY PathSound, NotStuck, PTL

\* How far a frame is read, and how many banks are full.
Rank == CASE stage = "idle" -> 0 [] stage = "pre" -> 1 [] stage = "post" -> 3 [] OTHER -> 2
Held == Len(banks[0]) + Len(banks[1])

(***************************************************************************)
(* A measure that every step of the path moves the same way, the first of  *)
(* its parts that changes deciding: a frame more dispatched, a packet less *)
(* queued in the host, a bank less full, the parser further in its frame,  *)
(* its read nearer to the end.                                             *)
(***************************************************************************)
Advances ==
    \/ count' > count
    \/ /\ count' = count
       /\ \/ Len(out') < Len(out)
          \/ /\ out' = out
             /\ \/ Held' < Held
                \/ Held' = Held /\ (Rank' > Rank \/ (Rank' = Rank /\ want' < want))

(***************************************************************************)
(* Endpoint and reader do no step in vain on a whole link.                 *)
(***************************************************************************)
StepsAdvance == [][ ~torn /\ ~skewed /\ (Arrives \/ Reader) => Advances ]_vars

LEMMA AdvancesReadPacket ==
    ASSUME TypeInv, ReadPacket
    PROVE  Advances
<1> DEFINE r == btReceiveBank
           o == Other(btReceiveBank)
<1>1. /\ UNCHANGED <<count, out>> /\ banks[r] # <<>>
      /\ banks' = [banks EXCEPT ![r] = <<>>]
  BY DEF ReadPacket
<1>2. r \in {0, 1} /\ DOMAIN banks = {0, 1} /\ banks[0] \in Bank /\ banks[1] \in Bank
  BY DEF TypeInv, WireOK
<1>3. Len(banks[0]) \in Nat /\ Len(banks[1]) \in Nat /\ (banks[r] # <<>> => Len(banks[r]) > 0)
  BY <1>2, EmptySeq, LenProperties DEF Bank
<1>4. CASE r = 0
  <2>1. banks'[0] = <<>> /\ banks'[1] = banks[1] /\ Len(<<>>) = 0
    BY <1>1, <1>2, <1>4
  <2>2. Held' < Held
    <3>1. Len(banks[0]) > 0
      BY <1>1, <1>3, <1>4
    <3>2. Held = Len(banks[0]) + Len(banks[1]) /\ Held' = Len(banks'[0]) + Len(banks'[1])
      BY DEF Held
    <3>3. Len(banks'[0]) = 0 /\ Len(banks'[1]) = Len(banks[1])
      BY <2>1
    <3>4. \A a, b \in Nat : a > 0 => 0 + b < a + b /\ b + 0 < b + a
      OBVIOUS
    <3> QED
      BY <1>3, <3>1, <3>2, <3>3, <3>4
  <2> QED
    BY <1>1, <2>2 DEF Advances
<1>5. CASE r = 1
  <2>1. banks'[1] = <<>> /\ banks'[0] = banks[0] /\ Len(<<>>) = 0
    BY <1>1, <1>2, <1>5
  <2>2. Held' < Held
    <3>1. Len(banks[1]) > 0
      BY <1>1, <1>3, <1>5
    <3>2. Held = Len(banks[0]) + Len(banks[1]) /\ Held' = Len(banks'[0]) + Len(banks'[1])
      BY DEF Held
    <3>3. Len(banks'[1]) = 0 /\ Len(banks'[0]) = Len(banks[0])
      BY <2>1
    <3>4. \A a, b \in Nat : a > 0 => 0 + b < a + b /\ b + 0 < b + a
      OBVIOUS
    <3> QED
      BY <1>3, <3>1, <3>2, <3>3, <3>4
  <2> QED
    BY <1>1, <2>2 DEF Advances
<1> QED
  BY <1>2, <1>4, <1>5

LEMMA StepAdvances ==
    ASSUME TypeInv, PathInv, ~torn, ~skewed, Arrives \/ Reader
    PROVE  Advances
<1>1. count \in Nat /\ want \in Nat /\ out \in Seq(Packet) /\ Len(out) \in Nat
  BY FlowOK, LenProperties DEF TypeInv, TakenOK, ReaderOK
<1>2. CASE Arrives
  <2>1. count' = count /\ out # <<>> /\ out' = Tail(out)
    BY <1>2 DEF Arrives, reader
  <2>2. Len(out') = Len(out) - 1
    BY <1>1, <2>1, HeadTailProperties
  <2>3. Len(out') < Len(out)
    BY <1>1, <2>2
  <2> QED
    BY <2>1, <2>3 DEF Advances
<1>3. CASE StartRead
  <2>1. UNCHANGED <<count, out, banks>> /\ stage = "idle" /\ stage' \in {"pre", "packet"}
    BY <1>3 DEF StartRead, wire
  <2>2. Rank = 0 /\ Rank' > 0 /\ Held' = Held
    BY <2>1 DEF Rank, Held
  <2> QED
    BY <2>1, <2>2 DEF Advances
<1>4. CASE ReadLocal
  <2> DEFINE n == Min2(want, Len(buf))
  <2>1. UNCHANGED <<count, out, banks, stage>> /\ want > 0 /\ buf # <<>> /\ want' = want - n
    BY <1>4 DEF ReadLocal, wire, Busy
  <2>2. Len(buf) \in Nat /\ Len(buf) > 0
    BY <2>1, EmptySeq DEF TypeInv, ReaderOK
  <2>3. n \in Nat /\ n > 0
    BY <1>1, <2>1, <2>2 DEF Min2
  <2> HIDE DEF n
  <2>4. want' < want
    BY <1>1, <2>1, <2>3
  <2>5. Rank' = Rank /\ Held' = Held
    BY <2>1 DEF Rank, Held
  <2> QED
    BY <2>1, <2>4, <2>5 DEF Advances
<1>5. CASE ReadPacket
  BY <1>5, AdvancesReadPacket
<1>6. CASE Parse
  <2>1. UNCHANGED <<out, banks>> /\ want = 0 /\ Held' = Held
    BY <1>6 DEF Parse, wire, Held
  <2>2. CASE count' = count + 1
    BY <1>1, <2>2 DEF Advances
  <2>3. CASE count' = count /\ (stage = "pre" /\ stage' \in {"pay", "old"})
    BY <2>1, <2>3 DEF Advances, Rank
  <2>4. CASE count' = count /\ (stage = "pay" /\ stage' = "post")
    BY <2>1, <2>4 DEF Advances, Rank
  <2>5. ~(stage = "post" /\ ~IsPostamble(got[Len(got)]))
    BY <2>1, NeverRejected
  <2> QED
    BY <1>6, <2>2, <2>3, <2>4, <2>5 DEF Parse, Accept, Reads
<1>7. CASE TakePacket
  BY <1>1, <1>7 DEF TakePacket, Accept, Advances
<1> QED
  BY <1>2, <1>3, <1>4, <1>5, <1>6, <1>7 DEF Reader

(***************************************************************************)
(* On a whole link usb_read_ng and receive_ng_internal never go back:      *)
(* every step of the endpoint and of the reader brings a frame nearer to   *)
(* the dispatcher.  With PathNeverStuck this is why every frame is         *)
(* dispatched once the bus and the main loop go on.                        *)
(***************************************************************************)
THEOREM PathAdvances == Spec => StepsAdvance
<1>1. TypeInv /\ PathInv /\ [Next]_vars
        => [~torn /\ ~skewed /\ (Arrives \/ Reader) => Advances]_vars
  BY StepAdvances
<1> QED
  BY <1>1, PathSound, PTL DEF Spec, StepsAdvance

=============================================================================
