-------------------------- MODULE IrlapLinkProofs --------------------------
(***************************************************************************)
(* Proofs about IrlapLink, for every value of its constants: its variables *)
(* keep their types; when the device answers with single frames, LinkInv   *)
(* is inductive, and the safety properties of the link follow from it;     *)
(* when it is prompt PromptInv is, and what is sent arrives; and when it   *)
(* is both AnswersInv is, and what the device sends arrives too.           *)
(***************************************************************************)
EXTENDS IrlapLink, TLAPS

-----------------------------------------------------------------------------
(* Sequence numbers. *)

(* Num maps counts to three-bit sequence numbers, and Succ follows it. *)
LEMMA NumSucc ==
  ASSUME NEW n \in Nat
  PROVE  /\ Num(n) \in SeqNum
         /\ Succ(Num(n)) = Num(n + 1)
         /\ Num(n) # Num(n + 1)
  BY DEF Num, Succ, SeqNum, Modulus

(* Succ stays within three bits. *)
LEMMA SuccType ==
  ASSUME NEW n \in SeqNum
  PROVE  Succ(n) \in SeqNum
  BY DEF Succ, SeqNum, Modulus

(* The first numbers are those a left-over UA is compared with. *)
LEMMA NumSmall == Num(0) = 0 /\ Num(1) = 1 /\ Num(2) = 2 /\ Succ(0) = 1
  BY DEF Num, Succ, Modulus

-----------------------------------------------------------------------------
(* Queues. *)

(* Put leaves the queue alone or adds the frame at its end. *)
LEMMA PutCases ==
  ASSUME NEW q \in Seq(Frame), NEW f \in Frame
  PROVE  /\ Put(q, f) \in Seq(Frame)
         /\ \/ Put(q, f) = q
            \/ /\ Len(Put(q, f)) = Len(q) + 1
               /\ \A i \in 1 .. Len(q) : Put(q, f)[i] = q[i]
               /\ Put(q, f)[Len(q) + 1] = f
  BY DEF Put

(* Drop(q, n) is what follows the first n elements. *)
LEMMA DropElements ==
  ASSUME NEW q \in Seq(Frame), NEW n \in 1 .. Len(q)
  PROVE  /\ Drop(q, n) \in Seq(Frame)
         /\ Len(Drop(q, n)) = Len(q) - n
         /\ \A i \in 1 .. Len(q) - n : Drop(q, n)[i] = q[i + n]
  BY DEF Drop

-----------------------------------------------------------------------------
(* Frames have their type. *)
LEMMA FrameType ==
  ASSUME NEW ns \in SeqNum, NEW nr \in SeqNum, NEW k \in Nat
  PROVE  /\ InfoFrame(ns, nr, k, TRUE) \in Frame
         /\ InfoFrame(ns, nr, k, FALSE) \in Frame
         /\ RR(nr) \in Frame
         /\ UA \in Frame
  BY DEF InfoFrame, RR, UA, Frame, SeqNum, Modulus

(* The established link has its types. *)
LEMMA InitType == LinkInit => TypeOK
<1> SUFFICES ASSUME LinkInit PROVE TypeOK
  OBVIOUS
<1> USE LinkAssumption
<1>1. 0 \in SeqNum
  BY DEF SeqNum, Modulus
<1>2. RR(0) \in Frame /\ UA \in Frame
  BY <1>1, FrameType
<1>3. fromDevice \in Seq(Frame)
  <2>1. PICK n \in 0 .. MaxStaleUas : fromDevice = [i \in 1 .. n |-> UA]
    BY DEF LinkInit
  <2> QED
    BY <2>1, <1>2
<1>4. /\ received \in Seq(Nat) /\ accepted \in Seq(Nat)
      /\ toDevice \in Seq(Frame)
  BY DEF LinkInit
<1>5. try \in 0 .. Retries /\ lost \in 0 .. MaxLosses
  BY DEF LinkInit
<1> QED
  BY <1>1, <1>2, <1>3, <1>4, <1>5 DEF LinkInit, TypeOK

(* Begin keeps the types when the frame has its type. *)
LEMMA BeginType ==
  ASSUME TypeOK, NEW f \in Frame, Begin(f), offered' \in Nat
  PROVE  TypeOK'
<1>1. Put(toDevice, f) \in Seq(Frame)
  BY PutCases DEF TypeOK
<1>2. 1 \in 0 .. Retries
  BY LinkAssumption
<1> QED
  BY <1>1, <1>2 DEF TypeOK, Begin, deviceVars

(* Every step of the link keeps them. *)
LEMMA NextType == TypeOK /\ [LinkNext]_linkVars => TypeOK'
<1> SUFFICES ASSUME TypeOK, [LinkNext]_linkVars PROVE TypeOK'
  OBVIOUS
<1> USE LinkAssumption
<1>1. CASE BeginInfo
  <2>1. offered + 1 \in Nat
    BY DEF TypeOK
  <2>2. InfoFrame(vs, vr, offered + 1, TRUE) \in Frame
    BY <2>1, FrameType DEF TypeOK
  <2>3. offered' \in Nat /\ Begin(InfoFrame(vs, vr, offered + 1, TRUE))
    BY <1>1, <2>1 DEF BeginInfo
  <2> QED
    BY <2>2, <2>3, BeginType
<1>2. CASE BeginPoll
  <2>1. RR(vr) \in Frame
    BY FrameType DEF TypeOK
  <2> QED
    BY <1>2, <2>1, BeginType DEF BeginPoll, TypeOK
<1>3. CASE Retransmit
  <2>1. Put(toDevice, Resent(frame)) \in Seq(Frame)
    BY PutCases DEF TypeOK, Resent
  <2> QED
    BY <1>3, <2>1 DEF Retransmit, TriesLeft, TypeOK, deviceVars
<1>4. CASE GiveUp
  BY <1>4 DEF GiveUp, TypeOK, deviceVars, airVars
<1>5. ASSUME NEW f \in Frame, Advance(f)
      PROVE  vs' \in SeqNum /\ vr' \in SeqNum
  BY <1>5, SuccType DEF Advance, Increment, TypeOK
<1>6. CASE ReceiveFinal
  <2>0. Head(fromDevice) \in Frame
    BY <1>6 DEF ReceiveFinal, TypeOK
  <2>1. Head(fromDevice) \in Frame /\ Head(fromDevice).data \in Nat
    BY <2>0 DEF Frame
  <2>2. vs' \in SeqNum /\ vr' \in SeqNum /\ received' \in Seq(Nat)
    BY <1>5, <1>6, <2>1 DEF ReceiveFinal, TypeOK
  <2>3. fromDevice' \in Seq(Frame)
    BY <1>6, DropElements DEF ReceiveFinal, TypeOK
  <2> QED
    BY <1>6, <2>2, <2>3 DEF ReceiveFinal, TypeOK, deviceVars
<1>7. CASE ReceiveNonFinal
  <2>1. Head(fromDevice) \in Frame /\ Tail(fromDevice) \in Seq(Frame)
    BY <1>7 DEF ReceiveNonFinal, TypeOK
  <2>2. vs' \in SeqNum /\ vr' \in SeqNum
    BY <1>5, <1>7, <2>1 DEF ReceiveNonFinal
  <2> QED
    BY <1>7, <2>1, <2>2 DEF ReceiveNonFinal, TypeOK, deviceVars
<1>8. CASE UsbFailure
  BY <1>8 DEF UsbFailure, TypeOK, deviceVars, airVars
<1>9. CASE DeviceAnswers
  <2> DEFINE f == Head(toDevice)
  <2>0. f \in Frame /\ Tail(toDevice) \in Seq(Frame)
    BY <1>9 DEF DeviceAnswers, TypeOK
  <2>1. f \in Frame /\ f.data \in Nat /\ Tail(toDevice) \in Seq(Frame)
    BY <2>0 DEF Frame
  <2>2. dvr' \in SeqNum /\ accepted' \in Seq(Nat)
    BY <1>9, <2>1, SuccType DEF DeviceAnswers, DeviceReads, TypeOK
  <2>3. Succ(dvs) \in SeqNum
    BY SuccType DEF TypeOK
  <2>4. ASSUME NEW ns \in SeqNum, NEW k \in Nat, Answer(fromDevice, ns, dvr', k)
        PROVE  fromDevice' \in Seq(Frame)
    <3>1. /\ InfoFrame(ns, dvr', k, TRUE) \in Frame
          /\ InfoFrame(ns, dvr', k, FALSE) \in Frame
          /\ RR(dvr') \in Frame
      BY <2>2, FrameType
    <3>2. fromDevice \in Seq(Frame)
      BY DEF TypeOK
    <3>3. /\ Put(fromDevice, InfoFrame(ns, dvr', k, TRUE)) \in Seq(Frame)
          /\ Put(fromDevice, InfoFrame(ns, dvr', k, FALSE)) \in Seq(Frame)
      BY <3>1, <3>2, PutCases
    <3>4. Put(Put(fromDevice, InfoFrame(ns, dvr', k, FALSE)), RR(dvr'))
            \in Seq(Frame)
      BY <3>1, <3>3, PutCases
    <3> QED
      BY <2>4, <3>3, <3>4 DEF Answer
  <2>5. /\ dvs' \in SeqNum /\ unacked' \in BOOLEAN /\ sent' \in Nat
        /\ fromDevice' \in Seq(Frame)
    <3>1. CASE DeviceRepeats(f)
      BY <3>1, <2>4 DEF DeviceRepeats, TypeOK
    <3>2. CASE DeviceSendsNew(f)
      BY <3>2, <2>3, <2>4 DEF DeviceSendsNew, TypeOK
    <3>3. CASE DeviceSendsRR(f)
      <4>1. RR(dvr') \in Frame
        BY <2>2, FrameType
      <4> QED
        BY <3>3, <4>1, <2>3, PutCases DEF DeviceSendsRR, TypeOK
    <3> QED
      BY <1>9, <3>1, <3>2, <3>3 DEF DeviceAnswers
  <2> QED
    BY <1>9, <2>1, <2>2, <2>5 DEF DeviceAnswers, TypeOK, primaryVars
<1>10. CASE LoseToDevice
  <2>1. Tail(toDevice) \in Seq(Frame) /\ lost' \in 0 .. MaxLosses
    BY <1>10 DEF LoseToDevice, TypeOK
  <2> QED
    BY <1>10, <2>1 DEF LoseToDevice, TypeOK, primaryVars, deviceVars
<1>11. CASE LoseFromDevice
  <2>1. Tail(fromDevice) \in Seq(Frame) /\ lost' \in 0 .. MaxLosses
    BY <1>11 DEF LoseFromDevice, TypeOK
  <2> QED
    BY <1>11, <2>1 DEF LoseFromDevice, TypeOK, primaryVars, deviceVars
<1>12. CASE UNCHANGED linkVars
  BY <1>12 DEF linkVars, primaryVars, deviceVars, airVars, TypeOK
<1> QED
  BY <1>1, <1>2, <1>3, <1>4, <1>6, <1>7, <1>8, <1>9, <1>10, <1>11, <1>12
     DEF LinkNext, Primary, Environment

(* The variables of the link keep their types, whatever the device, the    *)
(* air and the callers do.                                                 *)
THEOREM LinkTypeCorrect == LinkSpec => []TypeOK
  BY InitType, NextType, PTL DEF LinkSpec

-----------------------------------------------------------------------------
(* LinkInv is inductive. *)

(* What the counters say of the sequence numbers, in the form the steps    *)
(* below use it.                                                           *)
LEMMA CounterNumbers ==
  ASSUME TypeOK, Counters
  PROVE  /\ Taken \in Nat /\ Settled \in Nat /\ Len(received) \in Nat
         /\ Num(Taken) # Num(Taken + 1) /\ Succ(Num(Taken)) = Num(Taken + 1)
         /\ TakenBefore => /\ Taken > 0
                           /\ Num(Taken - 1) # Num(Taken)
                           /\ Succ(Num(Taken - 1)) = Num(Taken)
         /\ Succ(Num(Settled)) = Num(Settled + 1)
         /\ Num(Settled) # Num(Settled + 1)
         /\ Num(sent) # Num(sent + 1)
         /\ Len(received) <= sent
<1>1. Taken \in Nat /\ Settled \in Nat /\ Len(received) \in Nat /\ sent \in Nat
  BY DEF TypeOK, Counters, Taken, Settled
<1>2. TakenBefore => Taken > 0 /\ Taken - 1 \in Nat /\ (Taken - 1) + 1 = Taken
  BY <1>1 DEF TypeOK, Taken, TakenBefore
<1>3. Settled <= sent
  BY <1>1 DEF Settled
<1>4. /\ Num(Taken) # Num(Taken + 1) /\ Succ(Num(Taken)) = Num(Taken + 1)
      /\ Num(Settled) # Num(Settled + 1)
      /\ Succ(Num(Settled)) = Num(Settled + 1)
      /\ Num(sent) # Num(sent + 1)
  BY <1>1, NumSucc
<1>5. TakenBefore => /\ Num(Taken - 1) # Num(Taken)
                     /\ Succ(Num(Taken - 1)) = Num(Taken)
  BY <1>2, NumSucc
<1> QED
  BY <1>1, <1>2, <1>3, <1>4, <1>5 DEF Counters

(* LinkInv holds of a new link: only answers to SNRMs are under way. *)
LEMMA InitInv == LinkInit => LinkInv
<1> SUFFICES ASSUME LinkInit PROVE LinkInv
  OBVIOUS
<1>1. Taken = 0 /\ Settled = 0 /\ Len(received) = 0 /\ Len(toDevice) = 0
  BY DEF LinkInit, Taken, Settled
<1>2. Counters /\ FrameCurrent /\ ToDevice
  BY <1>1, NumSmall DEF LinkInit, Counters, FrameCurrent, ToDevice
<1>3. Histories
  BY <1>1 DEF LinkInit, Histories, AcceptedInOrder
<1>4. PICK n \in 0 .. MaxStaleUas : fromDevice = [i \in 1 .. n |-> UA]
  BY DEF LinkInit
<1>5. n \in Nat
  BY <1>4, LinkAssumption
<1>6. Len(fromDevice) = n /\ \A i \in 1 .. Len(fromDevice) : fromDevice[i] = UA
  BY <1>4, <1>5
<1>7. UA.kind = "U" /\ UA.pf = TRUE /\ UA.nr = 3
  BY DEF UA
<1>8. \A i \in 1 .. Len(fromDevice) : FromDeviceFrame(fromDevice[i])
  BY <1>1, <1>6, <1>7 DEF FromDeviceFrame, LinkInit
<1>9. FromDevice
  BY <1>6, <1>7, <1>8 DEF FromDevice
<1> QED
  BY <1>2, <1>3, <1>9 DEF LinkInv

(* A transmission of the primary, first or repeated. *)
LEMMA Transmission ==
  ASSUME TypeOK, LinkInv, NEW f \in Frame,
         f.kind \in {"I", "S"}, f.nr = vr,
         f.kind = "I" => /\ f.ns = vs /\ f.data \in 1 .. offered'
                         /\ vs = Num(Taken) => f.data > LastTaken,
         offered' \in Nat, offered' >= offered,
         toDevice' = Put(toDevice, f),
         UNCHANGED <<vs, vr, received, deviceVars>>
  PROVE  ToDevice'
<1> USE DEF LinkInv
<1>0. UNCHANGED <<vs, vr, received, dvs, dvr, unacked, sent, accepted>>
  BY DEF deviceVars
<1>1. UNCHANGED <<Taken, TakenBefore, LastTaken, Settled>>
  BY <1>0 DEF Taken, TakenBefore, LastTaken, Settled
<1>2. \A g \in Frame : ToDeviceFrame(g) => ToDeviceFrame(g)'
  BY <1>0, <1>1 DEF ToDeviceFrame, Confirms, Fresh, TypeOK
<1>3. /\ f.nr = Num(Settled) \/ Confirms(f)
      /\ Confirms(f) => Len(received) = sent
      /\ Len(received) = sent => f.nr = Num(sent)
  <2>1. f.nr = Num(Len(received)) /\ Len(received) \in {Settled, sent}
    BY DEF Counters
  <2>2. CASE unacked
    <3>1. Settled + 1 = sent
      BY <2>2 DEF Settled, TypeOK
    <3>2. Num(Settled) # Num(sent)
      BY <3>1, CounterNumbers
    <3> QED
      BY <2>1, <2>2, <3>2 DEF Confirms
  <2>3. CASE ~unacked
    BY <2>1, <2>3 DEF Confirms, Settled
  <2> QED
    BY <2>2, <2>3
<1>4. f.kind = "I" => Fresh(f) \/ (TakenBefore /\ f.ns = Num(Taken - 1))
  BY DEF Counters, Fresh
<1>5. Fresh(f) => vs = Num(Taken) /\ f.data > LastTaken
  BY DEF Fresh
<1>6. ToDeviceFrame(f)'
  BY <1>0, <1>1, <1>3, <1>4, <1>5 DEF ToDeviceFrame, Confirms, Fresh
<1>7. ASSUME NEW i \in 1 .. Len(toDevice)
      PROVE  /\ toDevice[i] \in Frame
             /\ Confirms(toDevice[i]) => Confirms(f)
             /\ Fresh(toDevice[i]) /\ f.kind = "I" => Fresh(f)
  BY <1>3 DEF ToDevice, ToDeviceFrame, Confirms, Fresh, TypeOK
<1>8. CASE toDevice' = toDevice
  BY <1>0, <1>1, <1>2, <1>7, <1>8 DEF ToDevice, Confirms, Fresh
<1>9. CASE /\ Len(toDevice') = Len(toDevice) + 1
           /\ \A i \in 1 .. Len(toDevice) : toDevice'[i] = toDevice[i]
           /\ toDevice'[Len(toDevice) + 1] = f
  <2>1. \A i \in 1 .. Len(toDevice') : ToDeviceFrame(toDevice[i])'
    <3> SUFFICES ASSUME NEW i \in 1 .. Len(toDevice')
                 PROVE  ToDeviceFrame(toDevice[i])'
      BY DEF ToDevice
    <3>1. CASE i \in 1 .. Len(toDevice)
      <4>1. ToDeviceFrame(toDevice[i]) /\ toDevice[i] \in Frame
        BY <3>1, <1>7 DEF ToDevice
      <4>2. toDevice'[i] = toDevice[i]
        BY <3>1, <1>9
      <4> QED
        BY <4>1, <4>2, <1>2 DEF ToDeviceFrame, Confirms, Fresh
    <3>2. CASE i = Len(toDevice) + 1
      BY <3>2, <1>6, <1>9 DEF ToDeviceFrame, Confirms, Fresh
    <3> QED
      BY <3>1, <3>2, <1>9 DEF TypeOK
  <2>2. ASSUME NEW i \in 1 .. Len(toDevice'), NEW j \in 1 .. Len(toDevice'), i < j
        PROVE  /\ Confirms(toDevice[i])' => Confirms(toDevice[j])'
               /\ Fresh(toDevice[i])' /\ (toDevice[j].kind)' = "I"
                    => Fresh(toDevice[j])'
    <3>1. i \in 1 .. Len(toDevice) /\ toDevice'[i] = toDevice[i]
      BY <1>9, <2>2 DEF TypeOK
    <3>2. CASE j \in 1 .. Len(toDevice)
      <4>1. toDevice'[j] = toDevice[j]
        BY <1>9, <3>2
      <4> QED
        BY <1>0, <1>1, <2>2, <3>1, <3>2, <4>1 DEF ToDevice, Confirms, Fresh
    <3>3. CASE j = Len(toDevice) + 1
      BY <1>0, <1>1, <1>7, <1>9, <3>1, <3>3 DEF Confirms, Fresh
    <3>4. j \in 1 .. Len(toDevice) \/ j = Len(toDevice) + 1
      BY <1>9 DEF TypeOK
    <3> QED
      BY <3>2, <3>3, <3>4
  <2> QED
    BY <2>1, <2>2 DEF ToDevice
<1> QED
  BY <1>8, <1>9, PutCases DEF TypeOK

(* A call of transact begins with a current frame. *)
LEMMA BeginInv ==
  ASSUME TypeOK, LinkInv, NEW f \in Frame, Begin(f),
         f.kind \in {"I", "S"}, f.nr = vr,
         f.kind = "I" => f.ns = vs /\ f.data = offered' /\ offered' > offered,
         offered' \in Nat, offered' >= offered
  PROVE  LinkInv'
<1> USE DEF LinkInv
<1>0. UNCHANGED <<vs, vr, received, dvs, dvr, unacked, sent, accepted, fromDevice>>
  BY DEF Begin, deviceVars
<1>1. UNCHANGED <<Taken, TakenBefore, LastTaken, Settled>>
  BY <1>0 DEF Taken, TakenBefore, LastTaken, Settled
<1>2. LastTaken <= offered
  BY DEF Histories, AcceptedInOrder, LastTaken, TypeOK
<1>3. f.kind = "I" => f.data \in 1 .. offered' /\ f.data > LastTaken
  BY <1>2 DEF TypeOK, LastTaken
<1>4. ToDevice'
  BY <1>3, Transmission DEF Begin
<1>5. FrameCurrent'
  BY <1>0, <1>1, <1>3 DEF Begin, FrameCurrent, TypeOK
<1>6. Counters'
  BY <1>0, <1>1 DEF Counters
<1>7. Histories'
  BY <1>0 DEF Histories, AcceptedInOrder, TypeOK
<1>8. FromDevice'
  BY <1>0, <1>1 DEF FromDevice, FromDeviceFrame, Reports
<1> QED
  BY <1>4, <1>5, <1>6, <1>7, <1>8

(* The same frame goes out again. *)
LEMMA RetransmitInv ==
  ASSUME TypeOK, LinkInv, Retransmit
  PROVE  LinkInv'
<1> USE DEF LinkInv
<1>0. /\ UNCHANGED <<vs, vr, pc, frame, offered, received, fromDevice>>
      /\ UNCHANGED <<dvs, dvr, unacked, sent, accepted>>
      /\ UNCHANGED deviceVars
  BY DEF Retransmit, deviceVars
<1>1. UNCHANGED <<Taken, TakenBefore, LastTaken, Settled>>
  BY <1>0 DEF Taken, TakenBefore, LastTaken, Settled
<1>2. /\ frame \in Frame /\ frame.kind \in {"I", "S"} /\ frame.nr = vr
      /\ frame.kind = "I" => /\ frame.ns = vs /\ frame.data \in 1 .. offered'
                             /\ vs = Num(Taken) => frame.data > LastTaken
  BY <1>0 DEF Retransmit, WindowCloses, FrameCurrent, TypeOK
<1>3. ToDevice'
  <2>1. toDevice' = Put(toDevice, frame) /\ offered' \in Nat /\ offered' >= offered
    BY <1>0 DEF Retransmit, Resent, TypeOK
  <2> QED
    BY <1>0, <1>2, <2>1, Transmission
<1>4. FrameCurrent' /\ Counters' /\ Histories'
  BY <1>0, <1>1 DEF FrameCurrent, Counters, Histories, AcceptedInOrder
<1>5. FromDevice'
  BY <1>0, <1>1 DEF FromDevice, FromDeviceFrame, Reports
<1> QED
  BY <1>3, <1>4, <1>5

(* A step that changes nothing LinkInv speaks of. *)
LEMMA QuietInv ==
  ASSUME LinkInv, pc' = "listening" => pc = "listening",
         UNCHANGED <<vs, vr, frame, offered, received, deviceVars,
                     toDevice, fromDevice>>
  PROVE  LinkInv'
<1> USE DEF LinkInv
<1>0. UNCHANGED <<vs, vr, frame, offered, received, dvs, dvr, unacked, sent,
                  accepted, toDevice, fromDevice>>
  BY DEF deviceVars
<1>1. UNCHANGED <<Taken, TakenBefore, LastTaken, Settled>>
  BY <1>0 DEF Taken, TakenBefore, LastTaken, Settled
<1>2. FrameCurrent' /\ Counters' /\ Histories'
  BY <1>0, <1>1 DEF FrameCurrent, Counters, Histories, AcceptedInOrder
<1>3. ToDevice'
  BY <1>0, <1>1 DEF ToDevice, ToDeviceFrame, Confirms, Fresh
<1>4. FromDevice'
  BY <1>0, <1>1 DEF FromDevice, FromDeviceFrame, Reports
<1> QED
  BY <1>2, <1>3, <1>4

(* A frame of either queue is lost. *)
LEMMA LoseInv ==
  ASSUME TypeOK, LinkInv, LoseToDevice \/ LoseFromDevice
  PROVE  LinkInv'
<1> USE DEF LinkInv
<1>0. /\ UNCHANGED <<vs, vr, pc, frame, offered, received>>
      /\ UNCHANGED <<dvs, dvr, unacked, sent, accepted>>
  BY DEF LoseToDevice, LoseFromDevice, primaryVars, deviceVars
<1>1. UNCHANGED <<Taken, TakenBefore, LastTaken, Settled>>
  BY <1>0 DEF Taken, TakenBefore, LastTaken, Settled
<1>2. FrameCurrent' /\ Counters' /\ Histories'
  BY <1>0, <1>1 DEF FrameCurrent, Counters, Histories, AcceptedInOrder
<1>3. CASE LoseToDevice
  <2>1. /\ fromDevice' = fromDevice
        /\ Len(toDevice') = Len(toDevice) - 1
        /\ \A i \in 1 .. Len(toDevice') :
             i + 1 \in 1 .. Len(toDevice) /\ toDevice'[i] = toDevice[i + 1]
    BY <1>3 DEF LoseToDevice, TypeOK
  <2>2. ToDevice'
    <3>1. ASSUME NEW i \in 1 .. Len(toDevice')
          PROVE  ToDeviceFrame(toDevice[i])'
      <4>1. ToDeviceFrame(toDevice[i + 1]) /\ toDevice'[i] = toDevice[i + 1]
        BY <2>1 DEF ToDevice
      <4> QED
        BY <1>0, <1>1, <4>1 DEF ToDeviceFrame, Confirms, Fresh
    <3>2. ASSUME NEW i \in 1 .. Len(toDevice'), NEW j \in 1 .. Len(toDevice'), i < j
          PROVE  /\ Confirms(toDevice[i])' => Confirms(toDevice[j])'
                 /\ Fresh(toDevice[i])' /\ (toDevice[j].kind)' = "I"
                      => Fresh(toDevice[j])'
      <4>1. /\ i + 1 \in 1 .. Len(toDevice) /\ toDevice'[i] = toDevice[i + 1]
            /\ j + 1 \in 1 .. Len(toDevice) /\ toDevice'[j] = toDevice[j + 1]
            /\ i + 1 < j + 1
        BY <2>1, <3>2
      <4> QED
        BY <1>0, <1>1, <4>1 DEF ToDevice, Confirms, Fresh
    <3> QED
      BY <3>1, <3>2 DEF ToDevice
  <2>3. FromDevice'
    BY <1>0, <1>1, <2>1 DEF FromDevice, FromDeviceFrame, Reports
  <2> QED
    BY <1>2, <2>2, <2>3
<1>4. CASE LoseFromDevice
  <2>1. /\ toDevice' = toDevice
        /\ Len(fromDevice') = Len(fromDevice) - 1
        /\ \A i \in 1 .. Len(fromDevice') :
             i + 1 \in 1 .. Len(fromDevice) /\ fromDevice'[i] = fromDevice[i + 1]
    BY <1>4 DEF LoseFromDevice, TypeOK
  <2>2. ToDevice'
    BY <1>0, <1>1, <2>1 DEF ToDevice, ToDeviceFrame, Confirms, Fresh
  <2>3. FromDevice'
    <3>1. ASSUME NEW i \in 1 .. Len(fromDevice')
          PROVE  FromDeviceFrame(fromDevice[i])'
      <4>1. /\ FromDeviceFrame(fromDevice[i + 1])
            /\ fromDevice'[i] = fromDevice[i + 1]
        BY <2>1 DEF FromDevice
      <4> QED
        BY <1>0, <1>1, <4>1 DEF FromDeviceFrame, Reports
    <3>2. ASSUME NEW i \in 1 .. Len(fromDevice'), NEW j \in 1 .. Len(fromDevice'), i < j
          PROVE  /\ (fromDevice[j].kind = "U" => fromDevice[i].kind = "U")'
                 /\ (fromDevice[i].kind = "I" /\ fromDevice[j].kind = "I" =>
                       fromDevice[i].data <= fromDevice[j].data)'
                 /\ (fromDevice[i].kind # "U" /\ Reports(fromDevice[i]) =>
                       Reports(fromDevice[j]))'
      <4>1. /\ i + 1 \in 1 .. Len(fromDevice) /\ fromDevice'[i] = fromDevice[i + 1]
            /\ j + 1 \in 1 .. Len(fromDevice) /\ fromDevice'[j] = fromDevice[j + 1]
            /\ i + 1 < j + 1
        BY <2>1, <3>2
      <4> QED
        BY <1>0, <1>1, <4>1 DEF FromDevice, Reports
    <3> QED
      BY <3>1, <3>2 DEF FromDevice
  <2> QED
    BY <1>2, <2>2, <2>3
<1> QED
  BY <1>3, <1>4

(* What the first frame of the queue may do to V(s) and V(r). *)
LEMMA HeadFacts ==
  ASSUME TypeOK, LinkInv, pc = "listening", fromDevice # <<>>
  PROVE  LET f == fromDevice[1] IN
         /\ f = Head(fromDevice) /\ f \in Frame /\ f.pf /\ 1 \in 1 .. Len(fromDevice)
         /\ Acknowledges(f) => /\ f.kind # "U" /\ Reports(f)
                               /\ vs # Num(Taken) /\ Succ(vs) = Num(Taken)
         /\ InSequence(f) => /\ f.data = Len(received) + 1
                             /\ sent = Len(received) + 1
                             /\ Succ(vr) = Num(sent)
<1> DEFINE f == fromDevice[1]
<1> USE DEF LinkInv
<1>1. /\ f = Head(fromDevice) /\ f \in Frame /\ 1 \in 1 .. Len(fromDevice)
      /\ FromDeviceFrame(f)
  BY DEF TypeOK, FromDevice
<1>2. ASSUME Acknowledges(f)
      PROVE  f.kind # "U" /\ Reports(f) /\ vs # Num(Taken) /\ Succ(vs) = Num(Taken)
  <2>1. f.nr = Succ(vs)
    BY <1>2 DEF Acknowledges, Increment
  <2>2. f.kind # "U"
    BY <1>1, <2>1, NumSmall DEF FromDeviceFrame
  <2>3. f.nr = Num(Taken) \/ (TakenBefore /\ f.nr = Num(Taken - 1) /\ vs = Num(Taken - 1))
    BY <1>1, <2>2 DEF FromDeviceFrame, Reports
  <2>4. f.nr = Num(Taken)
    BY <2>1, <2>3, CounterNumbers
  <2>5. vs # Num(Taken)
    BY <2>1, <2>4, CounterNumbers
  <2> QED
    BY <2>1, <2>2, <2>4, <2>5 DEF Reports
<1>3. ASSUME InSequence(f)
      PROVE  /\ f.data = Len(received) + 1 /\ sent = Len(received) + 1
             /\ Succ(vr) = Num(sent)
  <2>1. /\ f.data \in {Len(received), Len(received) + 1}
        /\ f.data \in 1 .. sent /\ f.ns = Num(f.data - 1) /\ f.ns = vr
        /\ vr = Num(Len(received))
    BY <1>1, <1>3 DEF FromDeviceFrame, InSequence, Counters
  <2>2. f.data # Len(received)
    <3>1. SUFFICES ASSUME f.data = Len(received) PROVE FALSE
      OBVIOUS
    <3>2. f.data - 1 \in Nat /\ (f.data - 1) + 1 = f.data
      BY <2>1 DEF TypeOK
    <3> QED
      BY <2>1, <3>1, <3>2, NumSucc
  <2>3. f.data = Len(received) + 1 /\ sent = Len(received) + 1
    BY <2>1, <2>2, CounterNumbers DEF TypeOK, Counters, Settled
  <2>4. Succ(Num(Len(received))) = Num(Len(received) + 1)
    BY CounterNumbers, NumSucc
  <2> QED
    BY <2>1, <2>3, <2>4
<1> QED
  BY <1>1, <1>2, <1>3 DEF FromDeviceFrame

(* The answer that ends transact. *)
LEMMA ReceiveFinalInv ==
  ASSUME TypeOK, LinkInv, ReceiveFinal
  PROVE  LinkInv'
<1> DEFINE f == fromDevice[1]
<1> USE DEF LinkInv
<1>0. /\ pc = "listening" /\ fromDevice # <<>> /\ pc' = "idle"
      /\ UNCHANGED <<frame, offered, toDevice>>
      /\ UNCHANGED <<dvs, dvr, unacked, sent, accepted>>
  BY DEF ReceiveFinal, deviceVars
<1>1. UNCHANGED <<Taken, TakenBefore, LastTaken, Settled>>
  BY <1>0 DEF Taken, TakenBefore, LastTaken, Settled
<1>2. /\ f = Head(fromDevice) /\ f \in Frame /\ f.pf /\ 1 \in 1 .. Len(fromDevice)
      /\ Acknowledges(f) => /\ f.kind # "U" /\ Reports(f)
                            /\ vs # Num(Taken) /\ Succ(vs) = Num(Taken)
      /\ InSequence(f) => /\ f.data = Len(received) + 1
                          /\ sent = Len(received) + 1
                          /\ Succ(vr) = Num(sent)
  BY <1>0, HeadFacts
<1>3. \/ ~Acknowledges(f) /\ vs' = vs
      \/ /\ vs' = Num(Taken) /\ vs # Num(Taken)
         /\ f.kind # "U" /\ Reports(f)
  BY <1>2 DEF ReceiveFinal, Advance, Increment
<1>4. \/ /\ ~InSequence(f)
         /\ vr' = vr /\ received' = received /\ Len(received') = Len(received)
      \/ /\ InSequence(f) /\ f.kind = "I" /\ f.data = Len(received) + 1
         /\ vr' = Num(sent) /\ received' = Append(received, sent)
         /\ Len(received) + 1 = sent /\ Len(received') = sent
  BY <1>2 DEF ReceiveFinal, Advance, Increment, InSequence, TypeOK
<1>5. Counters'
  BY <1>0, <1>1, <1>3, <1>4 DEF Counters, TypeOK
<1>6. Histories'
  <2>1. AcceptedInOrder'
    BY <1>0 DEF Histories, AcceptedInOrder
  <2>2. ASSUME NEW i \in 1 .. Len(received') PROVE received'[i] = i
    <3>1. CASE received' = received
      BY <3>1 DEF Histories
    <3>2. CASE received' = Append(received, sent) /\ Len(received) + 1 = sent
      <4>1. received \in Seq(Nat) /\ Len(received) \in Nat
        BY DEF TypeOK
      <4>2. CASE i = sent
        BY <3>2, <4>1, <4>2
      <4>3. CASE i \in 1 .. Len(received)
        BY <3>2, <4>1, <4>3 DEF Histories
      <4> QED
        BY <3>2, <4>1, <4>2, <4>3
    <3> QED
      BY <1>4, <3>1, <3>2
  <2> QED
    BY <2>1, <2>2 DEF Histories
<1>7. FrameCurrent'
  BY <1>0 DEF FrameCurrent
<1>8. ToDevice'
  BY <1>0, <1>1, <1>3, <1>4 DEF ToDevice, ToDeviceFrame, Confirms, Fresh
<1>9. FromDevice'
  <2>1. PICK n \in 1 .. Len(fromDevice) : fromDevice' = Drop(fromDevice, n)
    BY DEF ReceiveFinal
  <2>2. /\ Len(fromDevice') = Len(fromDevice) - n
        /\ \A i \in 1 .. Len(fromDevice') :
             /\ i + n \in 1 .. Len(fromDevice) /\ 1 < i + n
             /\ fromDevice'[i] = fromDevice[i + n]
    <3>1. /\ Len(fromDevice') = Len(fromDevice) - n
          /\ \A i \in 1 .. Len(fromDevice) - n : fromDevice'[i] = fromDevice[i + n]
      BY <2>1, DropElements DEF TypeOK
    <3>2. Len(fromDevice) \in Nat
      BY DEF TypeOK
    <3> QED
      BY <3>1, <3>2
  <2>3. ASSUME NEW i \in 1 .. Len(fromDevice')
        PROVE  FromDeviceFrame(fromDevice[i])'
    <3> DEFINE g == fromDevice[i + n]
    <3>1. /\ fromDevice'[i] = g /\ FromDeviceFrame(g) /\ g \in Frame
          /\ g.kind = "U" => f.kind = "U"
          /\ f.kind = "I" /\ g.kind = "I" => f.data <= g.data
          /\ f.kind # "U" /\ Reports(f) => Reports(g)
      <4>1. /\ i + n \in 1 .. Len(fromDevice) /\ 1 < i + n
            /\ 1 \in 1 .. Len(fromDevice) /\ fromDevice'[i] = g
        BY <1>2, <2>2
      <4>2. FromDeviceFrame(g) /\ g \in Frame
        BY <4>1 DEF FromDevice, TypeOK
      <4> QED
        BY <4>1, <4>2 DEF FromDevice
    <3>2. g.kind = "I" => g.data \in {Len(received'), Len(received') + 1}
      <4>1. g.kind = "I" => /\ g.data \in {Len(received), Len(received) + 1}
                            /\ g.data \in 1 .. sent
        BY <3>1 DEF FromDeviceFrame
      <4>2. Len(received) \in Nat /\ sent \in Nat
        BY DEF TypeOK
      <4>3. CASE Len(received') = Len(received)
        BY <4>1, <4>3
      <4>4. CASE f.kind = "I" /\ f.data = sent /\ Len(received') = sent
        BY <3>1, <4>1, <4>2, <4>4
      <4> QED
        BY <1>4, <4>3, <4>4
    <3> QED
      BY <1>0, <1>1, <1>3, <3>1, <3>2 DEF FromDeviceFrame, Reports
  <2>4. ASSUME NEW i \in 1 .. Len(fromDevice'), NEW j \in 1 .. Len(fromDevice'), i < j
        PROVE  /\ (fromDevice[j].kind = "U" => fromDevice[i].kind = "U")'
               /\ (fromDevice[i].kind = "I" /\ fromDevice[j].kind = "I" =>
                     fromDevice[i].data <= fromDevice[j].data)'
               /\ (fromDevice[i].kind # "U" /\ Reports(fromDevice[i]) =>
                     Reports(fromDevice[j]))'
    <3>1. /\ i + n \in 1 .. Len(fromDevice) /\ fromDevice'[i] = fromDevice[i + n]
          /\ j + n \in 1 .. Len(fromDevice) /\ fromDevice'[j] = fromDevice[j + n]
          /\ i + n < j + n
      BY <2>2, <2>4
    <3> QED
      BY <1>1, <3>1 DEF FromDevice, Reports
  <2> QED
    BY <2>3, <2>4 DEF FromDevice
<1> QED
  BY <1>5, <1>6, <1>7, <1>8, <1>9

(* The two halves of the device's answer: what it does with the poll, and  *)
(* the one frame it answers with.                                          *)
LEMMA AnswerFacts ==
  ASSUME TypeOK, LinkInv, ~SplitReplies, DeviceAnswers
  PROVE  LET f == toDevice[1] IN
         /\ ToDeviceFrame(f) /\ 1 \in 1 .. Len(toDevice) /\ f \in Frame
         /\ \/ /\ Fresh(f) /\ dvr' = Num(Taken + 1) /\ vs = Num(Taken)
               /\ accepted' = Append(accepted, f.data)
            \/ /\ ~Fresh(f) /\ dvr' = dvr /\ accepted' = accepted
         /\ \/ /\ unacked /\ ~Confirms(f)
               /\ UNCHANGED <<dvs, unacked, sent>>
            \/ /\ unacked => Confirms(f)
               /\ Len(received) = sent
               /\ dvs' = Num(sent)
               /\ \/ sent' = sent + 1 /\ unacked'
                  \/ sent' = sent /\ unacked' = FALSE
         /\ \E h \in Frame :
              /\ fromDevice' = Put(fromDevice, h)
              /\ h.pf /\ h.kind \in {"I", "S"} /\ h.nr = dvr'
              /\ h.kind = "I" => /\ h.data = sent'
                                 /\ sent' \in {Len(received), Len(received) + 1}
                                 /\ sent' > 0
                                 /\ h.ns = Num(sent' - 1)
<1> DEFINE f == toDevice[1]
<1> USE DEF LinkInv
<1>1. /\ f = Head(toDevice) /\ f \in Frame /\ 1 \in 1 .. Len(toDevice)
      /\ ToDeviceFrame(f) /\ f.data \in Nat
  <2>1. f = Head(toDevice) /\ f \in Frame /\ 1 \in 1 .. Len(toDevice)
    BY DEF DeviceAnswers, TypeOK
  <2> QED
    BY <2>1 DEF ToDevice, Frame
<1>2. DeviceTakes(f) <=> Fresh(f)
  BY DEF DeviceTakes, Fresh, Counters
<1>3. \/ /\ Fresh(f) /\ dvr' = Num(Taken + 1) /\ vs = Num(Taken)
         /\ accepted' = Append(accepted, f.data)
      \/ /\ ~Fresh(f) /\ dvr' = dvr /\ accepted' = accepted
  <2>1. Succ(Num(Taken)) = Num(Taken + 1)
    BY CounterNumbers
  <2> QED
    BY <1>1, <1>2, <2>1 DEF DeviceAnswers, DeviceReads, Counters, ToDeviceFrame
<1>4. dvr' \in SeqNum /\ dvs \in SeqNum /\ Succ(dvs) \in SeqNum
  <2>1. Num(Taken + 1) \in SeqNum
    BY CounterNumbers, NumSucc
  <2> QED
    BY <1>3, <2>1, SuccType DEF TypeOK
<1>5. unacked => /\ Succ(dvs) = Num(sent) /\ dvs = Num(sent - 1) /\ sent > 0
                 /\ Acked(f) <=> Confirms(f)
  <2>1. unacked => sent > 0 /\ Settled = sent - 1 /\ Settled + 1 = sent
    BY DEF Settled, Counters, TypeOK
  <2> QED
    BY <2>1, CounterNumbers DEF Counters, Acked, Confirms
<1>6. ~unacked => dvs = Num(sent) /\ Len(received) = sent
  BY DEF Counters, Settled
<1>7. Free(f) <=> (unacked => Confirms(f))
  BY <1>5 DEF Free
<1>8. Free(f) => Len(received) = sent
  BY <1>1, <1>6, <1>7 DEF ToDeviceFrame
<1>9. ASSUME DeviceRepeats(f) PROVE
        /\ unacked /\ ~Confirms(f) /\ UNCHANGED <<dvs, unacked, sent>>
        /\ fromDevice' = Put(fromDevice, InfoFrame(Num(sent - 1), dvr', sent, TRUE))
        /\ InfoFrame(Num(sent - 1), dvr', sent, TRUE) \in Frame
  <2>1. unacked /\ ~Confirms(f)
    BY <1>7, <1>9 DEF DeviceRepeats
  <2>2. InfoFrame(dvs, dvr', sent, TRUE) \in Frame
    BY <1>4, FrameType DEF TypeOK
  <2> QED
    BY <1>5, <1>9, <2>1, <2>2 DEF DeviceRepeats, Answer
<1>10. ASSUME DeviceSendsNew(f) PROVE
        /\ unacked => Confirms(f)
        /\ Len(received) = sent /\ dvs' = Num(sent)
        /\ sent' = sent + 1 /\ unacked'
        /\ fromDevice' = Put(fromDevice, InfoFrame(Num(sent), dvr', sent + 1, TRUE))
        /\ InfoFrame(Num(sent), dvr', sent + 1, TRUE) \in Frame
  <2>1. (unacked => Confirms(f)) /\ Len(received) = sent
    BY <1>7, <1>8, <1>10 DEF DeviceSendsNew
  <2>2. dvs' = Num(sent)
    BY <1>5, <1>6, <1>10 DEF DeviceSendsNew
  <2>3. sent + 1 \in Nat /\ Num(sent) \in SeqNum
    BY NumSucc DEF TypeOK
  <2>4. InfoFrame(Num(sent), dvr', sent + 1, TRUE) \in Frame
    BY <1>4, <2>3, FrameType
  <2> QED
    BY <1>10, <2>1, <2>2, <2>4 DEF DeviceSendsNew, Answer
<1>11. ASSUME DeviceSendsRR(f) PROVE
        /\ unacked => Confirms(f)
        /\ Len(received) = sent /\ dvs' = Num(sent)
        /\ sent' = sent /\ unacked' = FALSE
        /\ fromDevice' = Put(fromDevice, RR(dvr')) /\ RR(dvr') \in Frame
  <2>1. RR(dvr') \in Frame
    BY <1>4, FrameType DEF TypeOK
  <2> QED
    BY <1>5, <1>6, <1>7, <1>8, <1>11, <2>1 DEF DeviceSendsRR
<1>12. /\ \/ unacked /\ ~Confirms(f) /\ UNCHANGED <<dvs, unacked, sent>>
          \/ /\ unacked => Confirms(f)
             /\ Len(received) = sent
             /\ dvs' = Num(sent)
             /\ \/ sent' = sent + 1 /\ unacked'
                \/ sent' = sent /\ unacked' = FALSE
  BY <1>1, <1>9, <1>10, <1>11 DEF DeviceAnswers
<1>13. \E h \in Frame :
         /\ fromDevice' = Put(fromDevice, h)
         /\ h.pf /\ h.kind \in {"I", "S"} /\ h.nr = dvr'
         /\ h.kind = "I" => /\ h.data = sent'
                            /\ sent' \in {Len(received), Len(received) + 1}
                            /\ sent' > 0
                            /\ h.ns = Num(sent' - 1)
  <2>1. sent \in Nat /\ Len(received) \in Nat
    BY DEF TypeOK
  <2>2. CASE DeviceRepeats(f)
    <3>1. sent' = sent /\ sent > 0 /\ sent \in {Len(received), Len(received) + 1}
      BY <1>5, <1>9, <2>1, <2>2 DEF Counters, Settled
    <3> DEFINE h == InfoFrame(Num(sent - 1), dvr', sent, TRUE)
    <3>2. h.pf /\ h.kind = "I" /\ h.nr = dvr' /\ h.data = sent /\ h.ns = Num(sent - 1)
      BY DEF InfoFrame
    <3> HIDE DEF h
    <3> QED
      BY <1>9, <2>2, <3>1, <3>2 DEF h
  <2>3. CASE DeviceSendsNew(f)
    <3>1. /\ sent' = sent + 1 /\ sent' > 0 /\ sent' - 1 = sent
          /\ sent' = Len(received) + 1
      BY <1>10, <2>1, <2>3
    <3> DEFINE h == InfoFrame(Num(sent), dvr', sent + 1, TRUE)
    <3>2. h.pf /\ h.kind = "I" /\ h.nr = dvr' /\ h.data = sent + 1 /\ h.ns = Num(sent)
      BY DEF InfoFrame
    <3> HIDE DEF h
    <3> QED
      BY <1>10, <2>3, <3>1, <3>2 DEF h
  <2>4. CASE DeviceSendsRR(f)
    <3> DEFINE h == RR(dvr')
    <3>1. h.pf /\ h.kind = "S" /\ h.nr = dvr'
      BY DEF RR
    <3> HIDE DEF h
    <3> QED
      BY <1>11, <2>4, <3>1 DEF h
  <2> QED
    BY <1>1, <2>2, <2>3, <2>4 DEF DeviceAnswers
<1> QED
  BY <1>1, <1>3, <1>12, <1>13

(* The device reads a poll and answers it with one frame. *)
LEMMA DeviceAnswersInv ==
  ASSUME TypeOK, LinkInv, ~SplitReplies, DeviceAnswers
  PROVE  LinkInv'
<1> DEFINE f == toDevice[1]
           tookIt == /\ Fresh(f) /\ dvr' = Num(Taken + 1) /\ vs = Num(Taken)
                     /\ accepted' = Append(accepted, f.data)
           leftIt == ~Fresh(f) /\ dvr' = dvr /\ accepted' = accepted
           repeats == /\ unacked /\ ~Confirms(f)
                      /\ UNCHANGED <<dvs, unacked, sent>>
           goesOn == /\ unacked => Confirms(f)
                     /\ Len(received) = sent
                     /\ dvs' = Num(sent)
                     /\ \/ sent' = sent + 1 /\ unacked'
                        \/ sent' = sent /\ unacked' = FALSE
<1> USE DEF LinkInv
<1>1. /\ ToDeviceFrame(f) /\ 1 \in 1 .. Len(toDevice) /\ f \in Frame
      /\ tookIt \/ leftIt
      /\ repeats \/ goesOn
  BY AnswerFacts
<1>2. PICK h \in Frame :
        /\ fromDevice' = Put(fromDevice, h)
        /\ h.pf /\ h.kind \in {"I", "S"} /\ h.nr = dvr'
        /\ h.kind = "I" => /\ h.data = sent'
                           /\ sent' \in {Len(received), Len(received) + 1}
                           /\ sent' > 0
                           /\ h.ns = Num(sent' - 1)
  BY AnswerFacts
<1>3. UNCHANGED <<vs, vr, pc, frame, offered, received>>
  BY DEF DeviceAnswers, primaryVars
<1>4. /\ Taken \in Nat /\ sent \in Nat /\ Len(received) \in Nat
      /\ accepted \in Seq(Nat) /\ f.data \in Nat
  <2>1. f.data \in Nat
    BY ONLY <1>1 DEF Frame
  <2>2. /\ sent \in Nat /\ accepted \in Seq(Nat) /\ received \in Seq(Nat)
    BY ONLY TypeOK DEF TypeOK
  <2>3. Taken \in Nat /\ Len(received) \in Nat
    BY ONLY <2>2 DEF Taken
  <2> QED
    BY ONLY <2>1, <2>2, <2>3
<1>5. \/ /\ tookIt /\ f.kind = "I" /\ f.data \in 1 .. offered /\ f.data > LastTaken
         /\ Taken' = Taken + 1 /\ TakenBefore' /\ Taken' - 1 = Taken
         /\ LastTaken' = f.data /\ dvr' = Num(Taken')
         /\ Num(Taken) # Num(Taken')
      \/ /\ leftIt /\ dvr' = Num(Taken')
         /\ UNCHANGED <<Taken, TakenBefore, LastTaken>>
  <2>1. CASE tookIt
    <3>1. f.kind = "I" /\ f.data \in 1 .. offered /\ f.data > LastTaken
      BY <1>1, <2>1 DEF ToDeviceFrame, Fresh
    <3>2. Taken' = Taken + 1 /\ TakenBefore' /\ LastTaken' = f.data
      BY <1>4, <2>1 DEF Taken, TakenBefore, LastTaken
    <3>3. Taken' - 1 = Taken
      BY <1>4, <3>2
    <3>4. dvr' = Num(Taken') /\ Num(Taken) # Num(Taken')
      BY <2>1, <3>2, CounterNumbers
    <3> QED
      BY <2>1, <3>1, <3>2, <3>3, <3>4
  <2>2. CASE leftIt
    BY <2>2 DEF Taken, TakenBefore, LastTaken, Counters
  <2> QED
    BY <1>1, <2>1, <2>2
<1>6. \/ repeats /\ Settled' = Settled
      \/ /\ goesOn /\ Settled' = sent
         /\ Num(sent) # Num(sent + 1)
  BY <1>1, <1>4, CounterNumbers DEF Settled
<1> HIDE DEF tookIt, leftIt, repeats, goesOn
<1>7. Counters'
  <2>1. vs = Num(Taken') \/ (TakenBefore' /\ vs = Num(Taken' - 1))
    BY <1>4, <1>5 DEF Counters, tookIt
  <2>2. /\ unacked' => sent' > 0
        /\ Len(received) \in {Settled', sent'}
        /\ dvs' = Num(Settled')
    BY <1>4, <1>6 DEF Counters, repeats, goesOn
  <2> QED
    BY <1>3, <1>5, <2>1, <2>2 DEF Counters
<1>8. Histories'
  <2>1. CASE accepted' = accepted
    BY <1>3, <2>1 DEF Histories, AcceptedInOrder
  <2>2. CASE /\ accepted' = Append(accepted, f.data)
             /\ f.data \in 1 .. offered /\ f.data > LastTaken
    <3>1. ASSUME NEW i \in 1 .. Len(accepted)
          PROVE  accepted[i] <= LastTaken
      <4>1. /\ LastTaken = accepted[Len(accepted)]
            /\ Len(accepted) \in 1 .. Len(accepted)
            /\ accepted[i] \in Nat
        BY <1>4 DEF LastTaken
      <4>2. i < Len(accepted) => accepted[i] < accepted[Len(accepted)]
        BY <4>1 DEF Histories, AcceptedInOrder
      <4> QED
        BY <1>4, <4>1, <4>2
    <3>2. ASSUME NEW i \in 1 .. Len(accepted')
          PROVE  /\ accepted'[i] \in 1 .. offered
                 /\ i \in 1 .. Len(accepted) => accepted'[i] = accepted[i]
                 /\ i \notin 1 .. Len(accepted) =>
                      i = Len(accepted) + 1 /\ accepted'[i] = f.data
      BY <1>4, <2>2 DEF Histories, AcceptedInOrder
    <3>3. ASSUME NEW i \in 1 .. Len(accepted'), NEW j \in 1 .. Len(accepted'), i < j
          PROVE  accepted'[i] < accepted'[j]
      <4>1. i \in 1 .. Len(accepted) /\ Len(accepted') = Len(accepted) + 1
        BY <1>4, <2>2, <3>3
      <4>2. CASE j \in 1 .. Len(accepted)
        BY <3>2, <3>3, <4>1, <4>2 DEF Histories, AcceptedInOrder
      <4>3. CASE j \notin 1 .. Len(accepted)
        <5>1. accepted[i] <= LastTaken /\ accepted[i] \in Nat /\ LastTaken \in Nat
          BY <1>4, <3>1, <4>1 DEF LastTaken
        <5> QED
          BY <1>4, <2>2, <3>2, <4>1, <4>3, <5>1
      <4> QED
        BY <4>2, <4>3
    <3> QED
      BY <1>3, <3>2, <3>3 DEF Histories, AcceptedInOrder
  <2> QED
    BY <1>5, <2>1, <2>2 DEF tookIt, leftIt
<1>9. FrameCurrent'
  BY <1>3, <1>5 DEF FrameCurrent, tookIt
<1>10. ToDevice'
  <2>1. /\ Len(toDevice') = Len(toDevice) - 1
        /\ \A i \in 1 .. Len(toDevice') :
             /\ i + 1 \in 1 .. Len(toDevice) /\ 1 < i + 1
             /\ toDevice'[i] = toDevice[i + 1]
    BY DEF DeviceAnswers, TypeOK
  <2>2. ASSUME NEW i \in 1 .. Len(toDevice')
        PROVE  /\ ToDeviceFrame(toDevice[i])'
               /\ Confirms(toDevice[i])' <=>
                    ~goesOn /\ Confirms(toDevice[i + 1])
               /\ Fresh(toDevice[i])' <=> leftIt /\ Fresh(toDevice[i + 1])
    <3> DEFINE g == toDevice[i + 1]
    <3>1. /\ ToDeviceFrame(g) /\ toDevice'[i] = g
          /\ Confirms(f) => Confirms(g)
          /\ Fresh(f) /\ g.kind = "I" => Fresh(g)
      BY <1>1, <2>1 DEF ToDevice
    <3>2. /\ goesOn => g.nr = Num(sent)
          /\ goesOn => ~(unacked' /\ g.nr = Num(sent'))
      BY <1>6, <3>1 DEF goesOn, repeats, ToDeviceFrame, Confirms, Settled
    <3>3. tookIt /\ g.kind = "I" => g.ns = Num(Taken)
      BY <3>1 DEF tookIt, Fresh
    <3> HIDE DEF g
    <3>4. (Confirms(toDevice[i]))' <=> ~goesOn /\ Confirms(g)
      BY <1>6, <3>1, <3>2 DEF Confirms, repeats
    <3>5. (Fresh(toDevice[i]))' <=> leftIt /\ Fresh(g)
      BY <1>5, <3>1, <3>3 DEF Fresh, tookIt, leftIt
    <3>6. g.nr = Num(Settled') \/ (unacked' /\ g.nr = Num(sent'))
      BY <1>6, <3>1, <3>2 DEF ToDeviceFrame, Confirms, repeats
    <3>7. g.kind = "I" => /\ g.data \in 1 .. offered'
                          /\ \/ g.ns = Num(Taken')
                             \/ TakenBefore' /\ g.ns = Num(Taken' - 1)
      BY <1>3, <1>5, <3>1, <3>3 DEF ToDeviceFrame, Fresh
    <3>8. ToDeviceFrame(toDevice[i])'
      BY <1>3, <1>5, <1>6, <3>1, <3>2, <3>3, <3>6, <3>7
         DEF ToDeviceFrame, Confirms, Fresh, repeats, leftIt
    <3> QED
      BY <3>4, <3>5, <3>8 DEF g
  <2>3. ASSUME NEW i \in 1 .. Len(toDevice'), NEW j \in 1 .. Len(toDevice'), i < j
        PROVE  /\ Confirms(toDevice[i])' => Confirms(toDevice[j])'
               /\ Fresh(toDevice[i])' /\ (toDevice[j].kind)' = "I"
                    => Fresh(toDevice[j])'
    <3>1. /\ i + 1 \in 1 .. Len(toDevice) /\ j + 1 \in 1 .. Len(toDevice)
          /\ i + 1 < j + 1 /\ toDevice'[j] = toDevice[j + 1]
      BY <2>1, <2>3
    <3>2. /\ Confirms(toDevice[i + 1]) => Confirms(toDevice[j + 1])
          /\ Fresh(toDevice[i + 1]) /\ toDevice[j + 1].kind = "I"
               => Fresh(toDevice[j + 1])
      BY <3>1 DEF ToDevice
    <3> QED
      BY <2>2, <3>1, <3>2
  <2> QED
    BY <2>2, <2>3 DEF ToDevice
<1>11. FromDevice'
  <2>1. ASSUME NEW g \in Frame, FromDeviceFrame(g)
        PROVE  /\ g.pf
               /\ g.kind = "I" => /\ g.data \in {Len(received'), Len(received') + 1}
                                  /\ g.data \in 1 .. sent'
                                  /\ g.ns = Num(g.data - 1)
               /\ g.kind # "U" => \/ g.nr = Num(Taken')
                                  \/ /\ TakenBefore' /\ g.nr = Num(Taken' - 1)
                                     /\ vs' = Num(Taken' - 1)
               /\ g.kind = "U" => g.nr = 3 /\ vs' = 0 /\ Taken' < 2
               /\ g.kind # "U" /\ g.nr = Num(Taken') => leftIt /\ Reports(g)
    <3>1. sent' >= sent /\ sent' \in Nat
      BY <1>4, <1>6 DEF repeats, goesOn
    <3>2. g.kind = "I" => g.data \in 1 .. sent'
      BY <1>4, <2>1, <3>1 DEF FromDeviceFrame
    <3>3. tookIt /\ g.kind # "U" => g.nr = Num(Taken) /\ vs = Num(Taken)
      BY <2>1, CounterNumbers DEF FromDeviceFrame, Reports, tookIt
    <3>4. tookIt /\ g.kind = "U" => Taken' < 2
      <4>1. SUFFICES ASSUME tookIt, g.kind = "U" PROVE Taken = 0
        BY <1>4, <1>5 DEF tookIt, leftIt
      <4>2. Taken < 2 /\ vs = 0 /\ vs = Num(Taken)
        BY <2>1, <4>1 DEF FromDeviceFrame, tookIt
      <4> QED
        BY <1>4, <4>2, NumSmall
    <3> QED
      BY <1>3, <1>5, <2>1, <3>2, <3>3, <3>4
         DEF FromDeviceFrame, Reports, tookIt, leftIt
  <2>2. /\ h.kind \in {"I", "S"} /\ h.pf /\ h.nr = Num(Taken')
        /\ h.kind = "I" => /\ h.data = sent' /\ h.data \in 1 .. sent'
                           /\ h.data \in {Len(received'), Len(received') + 1}
                           /\ h.ns = Num(h.data - 1)
    <3>1. h.nr = Num(Taken')
      BY ONLY <1>2, <1>5
    <3>2. sent' \in Nat
      BY ONLY <1>4, <1>6 DEF repeats, goesOn
    <3>3. h.kind = "I" => sent' \in 1 .. sent'
      BY ONLY <1>2, <3>2
    <3> QED
      BY ONLY <1>2, <1>3, <3>1, <3>3
  <2>3. ASSUME NEW i \in 1 .. Len(fromDevice)
        PROVE  fromDevice[i] \in Frame /\ FromDeviceFrame(fromDevice[i])
    BY DEF FromDevice, TypeOK
  <2>4. CASE fromDevice' = fromDevice
    <3>1. ASSUME NEW i \in 1 .. Len(fromDevice')
          PROVE  FromDeviceFrame(fromDevice[i])'
      BY <2>1, <2>3, <2>4 DEF FromDeviceFrame, Reports
    <3>2. ASSUME NEW i \in 1 .. Len(fromDevice'), NEW j \in 1 .. Len(fromDevice'), i < j
          PROVE  /\ (fromDevice[j].kind = "U" => fromDevice[i].kind = "U")'
                 /\ (fromDevice[i].kind = "I" /\ fromDevice[j].kind = "I" =>
                       fromDevice[i].data <= fromDevice[j].data)'
                 /\ (fromDevice[i].kind # "U" /\ Reports(fromDevice[i]) =>
                       Reports(fromDevice[j]))'
      <4>1. (Reports(fromDevice[i]))' /\ fromDevice[i].kind # "U"
              => leftIt /\ Reports(fromDevice[i])
        BY <2>1, <2>3, <2>4 DEF Reports
      <4> QED
        BY <1>5, <2>4, <3>2, <4>1 DEF FromDevice, Reports, leftIt
    <3> QED
      BY <3>1, <3>2 DEF FromDevice
  <2>5. CASE /\ Len(fromDevice') = Len(fromDevice) + 1
             /\ \A i \in 1 .. Len(fromDevice) : fromDevice'[i] = fromDevice[i]
             /\ fromDevice'[Len(fromDevice) + 1] = h
    <3>0. ASSUME NEW i \in 1 .. Len(fromDevice')
          PROVE  i \in 1 .. Len(fromDevice) \/ i = Len(fromDevice) + 1
      BY <2>5 DEF TypeOK
    <3>1. ASSUME NEW i \in 1 .. Len(fromDevice')
          PROVE  FromDeviceFrame(fromDevice[i])'
      <4>1. CASE i \in 1 .. Len(fromDevice)
        BY <2>1, <2>3, <2>5, <4>1 DEF FromDeviceFrame, Reports
      <4>2. CASE i = Len(fromDevice) + 1
        BY <2>2, <2>5, <4>2 DEF FromDeviceFrame, Reports
      <4> QED
        BY <3>0, <4>1, <4>2
    <3>2. ASSUME NEW i \in 1 .. Len(fromDevice'), NEW j \in 1 .. Len(fromDevice'), i < j
          PROVE  /\ (fromDevice[j].kind = "U" => fromDevice[i].kind = "U")'
                 /\ (fromDevice[i].kind = "I" /\ fromDevice[j].kind = "I" =>
                       fromDevice[i].data <= fromDevice[j].data)'
                 /\ (fromDevice[i].kind # "U" /\ Reports(fromDevice[i]) =>
                       Reports(fromDevice[j]))'
      <4>1. i \in 1 .. Len(fromDevice) /\ fromDevice'[i] = fromDevice[i]
        BY <2>5, <3>2 DEF TypeOK
      <4>2. (Reports(fromDevice[i]))' /\ fromDevice[i].kind # "U"
              => leftIt /\ Reports(fromDevice[i])
        BY <2>1, <2>3, <4>1 DEF Reports
      <4>3. CASE j \in 1 .. Len(fromDevice)
        <5>1. fromDevice'[j] = fromDevice[j]
          BY <2>5, <4>3
        <5> QED
          BY <1>5, <3>2, <4>1, <4>2, <4>3, <5>1 DEF FromDevice, Reports, leftIt
      <4>4. CASE j = Len(fromDevice) + 1
        <5>1. fromDevice[i].kind = "I" => fromDevice[i].data <= sent'
          BY <1>4, <2>1, <2>3, <4>1
        <5> QED
          BY <2>2, <2>5, <4>1, <4>4, <5>1 DEF Reports
      <4> QED
        BY <3>0, <4>3, <4>4
    <3> QED
      BY <3>1, <3>2 DEF FromDevice
  <2> QED
    BY <1>2, <2>4, <2>5, PutCases DEF TypeOK
<1> QED
  BY <1>7, <1>8, <1>9, <1>10, <1>11

(* Every step keeps LinkInv, when answers are single frames. *)
LEMMA NextInv ==
  ~SplitReplies /\ TypeOK /\ LinkInv /\ [LinkNext]_linkVars => LinkInv'
<1> SUFFICES ASSUME ~SplitReplies, TypeOK, LinkInv, [LinkNext]_linkVars
             PROVE  LinkInv'
  OBVIOUS
<1>1. CASE BeginInfo
  <2> DEFINE f == InfoFrame(vs, vr, offered + 1, TRUE)
  <2>1. offered + 1 \in Nat /\ offered' = offered + 1 /\ offered' > offered
    BY <1>1 DEF BeginInfo, TypeOK
  <2>2. /\ f \in Frame /\ f.kind = "I" /\ f.nr = vr /\ f.ns = vs
        /\ f.data = offered'
    BY <2>1, FrameType DEF InfoFrame, TypeOK
  <2>3. Begin(f)
    BY <1>1 DEF BeginInfo
  <2> HIDE DEF f
  <2>4. offered' \in Nat /\ offered' >= offered
    BY <2>1 DEF TypeOK
  <2> QED
    BY <2>1, <2>2, <2>3, <2>4, BeginInv
<1>2. CASE BeginPoll
  <2> DEFINE f == RR(vr)
  <2>1. f \in Frame /\ f.kind = "S" /\ f.nr = vr
    BY FrameType DEF RR, TypeOK
  <2>2. Begin(f) /\ offered' \in Nat /\ offered' >= offered
    BY <1>2 DEF BeginPoll, TypeOK
  <2> HIDE DEF f
  <2> QED
    BY <2>1, <2>2, BeginInv
<1>3. CASE Retransmit
  BY <1>3, RetransmitInv
<1>4. CASE GiveUp \/ UsbFailure \/ UNCHANGED linkVars
  <2>1. /\ pc' = "listening" => pc = "listening"
        /\ UNCHANGED <<vs, vr, frame, offered, received, deviceVars,
                       toDevice, fromDevice>>
    BY <1>4 DEF GiveUp, UsbFailure, linkVars, primaryVars, deviceVars, airVars
  <2> QED
    BY <2>1, QuietInv
<1>5. CASE ReceiveFinal
  BY <1>5, ReceiveFinalInv
<1>6. CASE ReceiveNonFinal
  <2>1. fromDevice[1].pf /\ fromDevice[1] = Head(fromDevice)
    BY <1>6, HeadFacts DEF ReceiveNonFinal
  <2> QED
    BY <1>6, <2>1 DEF ReceiveNonFinal
<1>7. CASE DeviceAnswers
  BY <1>7, DeviceAnswersInv
<1>8. CASE LoseToDevice \/ LoseFromDevice
  BY <1>8, LoseInv
<1> QED
  BY <1>1, <1>2, <1>3, <1>4, <1>5, <1>6, <1>7, <1>8
     DEF LinkNext, Primary, Environment

(* LinkInv is an invariant of every link whose device answers with single  *)
(* frames, however many frames are lost, late or dropped with a bulk read. *)
THEOREM LinkInvariant ==
  ASSUME ~SplitReplies
  PROVE  LinkSpec => []LinkInv
<1>1. LinkInit => LinkInv
  BY InitInv
<1>2. TypeOK /\ LinkInv /\ [LinkNext]_linkVars => LinkInv'
  BY NextInv
<1> QED
  BY <1>1, <1>2, LinkTypeCorrect, PTL DEF LinkSpec

(* What LinkInv says of the I-fields taken and of the two counters. *)
LEMMA InvImpliesSafety ==
  TypeOK /\ LinkInv => ReceivedInOrder /\ AcceptedInOrder /\ WindowOfOne
<1> SUFFICES ASSUME TypeOK, LinkInv
             PROVE  ReceivedInOrder /\ AcceptedInOrder /\ WindowOfOne
  OBVIOUS
<1>1. ReceivedInOrder
  BY DEF LinkInv, Histories, Counters, Settled, ReceivedInOrder, TypeOK
<1>2. AcceptedInOrder
  BY DEF LinkInv, Histories
<1>3. WindowOfOne
  <2>1. dvr \in {vs, Succ(vs)}
    BY CounterNumbers DEF LinkInv, Counters
  <2>2. vr \in {dvs, Succ(dvs)}
    <3>1. sent \in {Settled, Settled + 1}
      BY DEF Settled, TypeOK
    <3> QED
      BY <3>1, CounterNumbers DEF LinkInv, Counters
  <2> QED
    BY <2>1, <2>2 DEF WindowOfOne
<1> QED
  BY <1>1, <1>2, <1>3

(* Whatever is lost or late, transact returns the device's I-fields in     *)
(* order, none missing and none twice.                                     *)
THEOREM LinkReceivesInOrder ==
  ASSUME ~SplitReplies
  PROVE  LinkSpec => []ReceivedInOrder
  BY LinkInvariant, LinkTypeCorrect, InvImpliesSafety, PTL

(* The device takes no I-field twice and none out of order.                *)
THEOREM LinkAcceptsInOrder ==
  ASSUME ~SplitReplies
  PROVE  LinkSpec => []AcceptedInOrder
  BY LinkInvariant, LinkTypeCorrect, InvImpliesSafety, PTL

(* The two ends never drift apart by more than the window of one.          *)
THEOREM LinkWindowOfOne ==
  ASSUME ~SplitReplies
  PROVE  LinkSpec => []WindowOfOne
  BY LinkInvariant, LinkTypeCorrect, InvImpliesSafety, PTL

-----------------------------------------------------------------------------
(* A prompt device, and no answer left over from the handshake.            *)
(*                                                                         *)
(* Then there is one exchange at a time, whether answers are split or not: *)
(* what the device sends answers the frame of this transact.  While fewer  *)
(* frames are lost than there are tries, one of the tries is answered, so  *)
(* an I-frame is taken and acknowledged before transact returns.           *)

(* An answer to the frame of this transact. *)
Here(f) ==
  /\ f.kind \in {"I", "S"}
  /\ f.nr = dvr
  /\ f.kind = "I" => unacked /\ f.ns = dvs

OneExchange ==
  /\ pc # "listening" => toDevice = <<>> /\ fromDevice = <<>>
  /\ toDevice # <<>> => toDevice = <<frame>> /\ fromDevice = <<>>
  /\ \A i \in 1 .. Len(fromDevice) :
       /\ Here(fromDevice[i])
       /\ fromDevice[i].pf => i = Len(fromDevice)

(* The frame on its way is behind the counters only if an answer without   *)
(* the final bit has moved them since it was built.                        *)
InWindow ==
  /\ dvr \in {vs, Succ(vs)}
  /\ vr \in {dvs, Succ(dvs)}
  /\ vr # dvs => unacked
  /\ pc = "listening" =>
       /\ frame.kind \in {"I", "S"}
       /\ frame.nr # vr => frame.nr = dvs /\ vr # dvs
       /\ frame.kind = "I" => frame.ns = vs \/ (vs = dvr /\ vs = Succ(frame.ns))

(* The I-field of this transact is on its way, or taken, or acknowledged.  *)
(* Until it is acknowledged every try but one under way has lost a frame.  *)
InAir   == toDevice # <<>> \/ fromDevice # <<>>
Accounted == lost + (IF InAir THEN 1 ELSE 0)
Settles ==
  lost < Retries =>
    /\ pc = "idle" \/ (pc = "listening" /\ frame.kind = "S") => Taken = offered /\ vs = dvr
    /\ pc = "listening" /\ frame.kind = "I" =>
         /\ frame.data = offered
         /\ vs # dvr \/ frame.ns # vs => Taken = offered /\ TakenBefore /\ LastTaken = offered
         /\ vs = dvr /\ frame.ns = vs => Taken = offered - 1 /\ fromDevice = <<>>
         /\ frame.ns = vs => try <= Accounted

PromptInv == OneExchange /\ InWindow /\ Settles

-----------------------------------------------------------------------------
(* Three-bit numbers two or fewer apart are different.                     *)
LEMMA SuccApart ==
  ASSUME NEW m \in SeqNum, NEW n \in SeqNum
  PROVE  /\ Succ(n) # n /\ Succ(Succ(n)) # n /\ Succ(n) \in SeqNum
         /\ Succ(m) = Succ(n) => m = n
  BY DEF Succ, SeqNum, Modulus

LEMMA PutFirst ==
  ASSUME NEW q \in Seq(Frame), q = <<>>, NEW f \in Frame
  PROVE  Put(q, f) = <<f>>
  BY LinkAssumption DEF Put

LEMMA OneFrame ==
  ASSUME NEW f
  PROVE  Head(<<f>>) = f /\ Tail(<<f>>) = <<>> /\ Len(<<f>>) = 1 /\ <<f>>[1] = f
         /\ <<f>> # <<>>
  OBVIOUS

LEMMA PromptInit == MaxStaleUas = 0 /\ LinkInit => PromptInv
<1> SUFFICES ASSUME MaxStaleUas = 0, LinkInit PROVE PromptInv
  OBVIOUS
<1>1. fromDevice = <<>> /\ toDevice = <<>>
  BY DEF LinkInit
<1>2. OneExchange
  BY <1>1 DEF LinkInit, OneExchange
<1>3. InWindow
  BY DEF LinkInit, InWindow
<1>4. Settles
  BY DEF LinkInit, Settles, Taken
<1>5. QED
  BY <1>2, <1>3, <1>4 DEF PromptInv

(* A call begins with nothing in the air. *)
LEMMA PromptBegin ==
  ASSUME TypeOK, PromptInv, NEW f \in Frame, Begin(f),
         f.kind \in {"I", "S"}, f.nr = vr,
         f.kind = "S" => offered' = offered,
         f.kind = "I" => f.ns = vs /\ f.data = offered' /\ offered' = offered + 1
  PROVE  PromptInv'
<1> USE DEF PromptInv
<1>1. /\ pc = "idle" /\ pc' = "listening" /\ frame' = f /\ try' = 1
      /\ UNCHANGED <<vs, vr, dvs, dvr, unacked, accepted, fromDevice, lost>>
      /\ toDevice' = Put(toDevice, f)
  BY DEF Begin, deviceVars
<1>2. toDevice = <<>> /\ fromDevice = <<>>
  BY <1>1 DEF OneExchange
<1>3. toDevice' = <<frame'>> /\ fromDevice' = <<>> /\ toDevice' # <<>>
  BY <1>1, <1>2, PutFirst, OneFrame DEF TypeOK
<1>4. OneExchange'
  BY <1>1, <1>3 DEF OneExchange
<1>5. InWindow'
  BY <1>1 DEF InWindow
<1>6. Settles'
  <2>1. Taken' = Taken /\ LastTaken' = LastTaken /\ Accounted' = lost + 1 /\ lost \in Nat
    BY <1>1, <1>3 DEF Taken, LastTaken, Accounted, InAir, TypeOK
  <2>2. lost < Retries => Taken = offered /\ vs = dvr
    BY <1>1 DEF Settles
  <2>3. offered \in Nat
    BY DEF TypeOK
  <2>4. QED
    BY <1>1, <1>3, <2>1, <2>2, <2>3 DEF Settles
<1>7. QED
  BY <1>4, <1>5, <1>6

(* The window closes on nothing, and the frame goes out again.             *)
LEMMA PromptRetransmit ==
  ASSUME Prompt, TypeOK, PromptInv, Retransmit
  PROVE  PromptInv'
<1> USE DEF PromptInv
<1>1. /\ pc = "listening" /\ toDevice = <<>> /\ fromDevice = <<>> /\ try' = try + 1
      /\ toDevice' = Put(toDevice, frame)
      /\ UNCHANGED <<vs, vr, dvs, dvr, unacked, accepted, fromDevice, lost, pc, frame, offered>>
  BY DEF Retransmit, WindowCloses, Resent, deviceVars
<1>2. toDevice' = <<frame'>> /\ fromDevice' = <<>> /\ toDevice' # <<>>
  BY <1>1, PutFirst, OneFrame DEF TypeOK
<1>3. OneExchange'
  BY <1>1, <1>2 DEF OneExchange
<1>4. InWindow'
  BY <1>1 DEF InWindow
<1>5. Settles'
  <2>1. /\ Taken' = Taken /\ LastTaken' = LastTaken /\ TakenBefore' = TakenBefore
        /\ Accounted = lost /\ Accounted' = lost + 1 /\ lost \in Nat /\ try \in Nat
    BY <1>1, <1>2, LinkAssumption DEF Taken, LastTaken, TakenBefore, Accounted, InAir, TypeOK
  <2>2. QED
    BY <1>1, <1>2, <2>1 DEF Settles
<1>6. QED
  BY <1>3, <1>4, <1>5

(* transact is given up on only when every try has lost a frame.           *)
LEMMA PromptGiveUp ==
  ASSUME Prompt, TypeOK, PromptInv, GiveUp
  PROVE  PromptInv'
<1> USE DEF PromptInv
<1>1. /\ pc = "listening" /\ toDevice = <<>> /\ fromDevice = <<>> /\ ~(try < Retries)
      /\ pc' = "idle"
      /\ UNCHANGED <<vs, vr, dvs, dvr, unacked, accepted, fromDevice, toDevice, lost, frame,
                     offered, try>>
  BY DEF GiveUp, WindowCloses, TriesLeft, deviceVars, airVars
<1>2. OneExchange' /\ InWindow'
  BY <1>1 DEF OneExchange, InWindow
<1>3. Settles'
  <2>1. Accounted = lost /\ lost \in Nat /\ try \in Nat /\ Retries \in Nat
    BY <1>1, LinkAssumption DEF Accounted, InAir, TypeOK
  <2>2. Taken' = Taken
    BY <1>1 DEF Taken
  <2>3. SUFFICES ASSUME lost < Retries PROVE Taken = offered /\ vs = dvr
    BY <1>1, <2>2 DEF Settles
  <2>4. ~(try <= Accounted)
    BY <1>1, <2>1, <2>3
  <2>5. frame.kind \in {"I", "S"} /\ (frame.kind = "I" => frame.ns = vs \/ vs = dvr)
    BY <1>1 DEF InWindow
  <2>6. QED
    BY <1>1, <2>3, <2>4, <2>5 DEF Settles
<1>4. QED
  BY <1>2, <1>3

LEMMA PromptUsbFailure ==
  ASSUME Prompt, TypeOK, PromptInv, UsbFailure
  PROVE  PromptInv'
<1> USE DEF PromptInv
<1>1. /\ toDevice = <<>> /\ fromDevice = <<>> /\ pc' = "failed"
      /\ UNCHANGED <<vs, vr, dvs, dvr, unacked, fromDevice, toDevice>>
  BY DEF UsbFailure, WindowCloses, deviceVars, airVars, OneExchange
<1>2. OneExchange' /\ InWindow' /\ Settles'
  BY <1>1 DEF OneExchange, InWindow, Settles
<1>3. QED
  BY <1>2

(* What a frame from the device does to V(s) and V(r).                     *)
LEMMA PromptAdvance ==
  ASSUME TypeOK, PromptInv, pc = "listening", fromDevice # <<>>, Advance(fromDevice[1])
  PROVE  /\ vr' \in SeqNum /\ vs' \in SeqNum
         /\ vr' # vr => vr = dvs /\ vr' = Succ(dvs) /\ unacked
         /\ vs' # vs => /\ frame.kind = "I" /\ frame.ns = vs /\ vs # dvr /\ vs' = dvr
                        /\ vs' = Succ(frame.ns)
         /\ vs' = vs /\ frame.kind = "I" => vs = dvr
<1> USE DEF PromptInv
<1> DEFINE f == fromDevice[1]
<1>1. 1 \in 1 .. Len(fromDevice)
  BY DEF TypeOK
<1>2. Here(f)
  BY <1>1 DEF OneExchange
<1> HIDE DEF f
<1>3. /\ vs' = (IF Acknowledges(f) THEN Succ(vs) ELSE vs)
      /\ vr' = (IF InSequence(f) THEN Succ(vr) ELSE vr)
  BY DEF Advance, Increment, f
<1>4. vs \in SeqNum /\ vr \in SeqNum /\ dvr \in SeqNum /\ dvs \in SeqNum
  BY DEF TypeOK
<1>5. vr' # vr => vr = dvs /\ vr' = Succ(dvs) /\ unacked
  BY <1>2, <1>3 DEF Here, InSequence
<1>6. Acknowledges(f) <=> frame.kind = "I" /\ dvr = Succ(vs)
  BY <1>2 DEF Here, Acknowledges, Increment
<1>7. dvr \in {vs, Succ(vs)} /\ vs # Succ(vs)
  BY <1>4, SuccApart DEF InWindow
<1>8. frame.kind = "I" => frame.ns = vs \/ vs = dvr
  BY DEF InWindow
<1>9. QED
  BY <1>3, <1>4, <1>5, <1>6, <1>7, <1>8, SuccApart

(* A frame from the device, with the final bit or without.                 *)
LEMMA PromptReceive ==
  ASSUME TypeOK, PromptInv, ReceiveFinal \/ ReceiveNonFinal
  PROVE  PromptInv'
<1> USE DEF PromptInv
<1>1. /\ pc = "listening" /\ fromDevice # <<>> /\ Advance(fromDevice[1])
      /\ UNCHANGED <<try, frame, offered, dvs, dvr, unacked, accepted, toDevice, lost>>
      /\ fromDevice' \in Seq(Frame)
      /\ \/ pc' = "idle" /\ fromDevice' = <<>>
         \/ pc' = "listening" /\ fromDevice' = Tail(fromDevice)
  <2>1. Len(fromDevice) \in Nat /\ fromDevice \in Seq(Frame)
    BY DEF TypeOK
  <2>2. CASE ReceiveFinal
    <3>1. fromDevice # <<>> /\ fromDevice[1].pf /\ Head(fromDevice) = fromDevice[1]
      BY <2>1, <2>2 DEF ReceiveFinal
    <3>2. 1 \in 1 .. Len(fromDevice)
      BY <2>1, <3>1
    <3>3. Len(fromDevice) = 1
      BY <3>1, <3>2 DEF OneExchange
    <3>4. PICK n \in 1 .. Len(fromDevice) : fromDevice' = Drop(fromDevice, n)
      BY <2>2 DEF ReceiveFinal
    <3>5. fromDevice' \in Seq(Frame) /\ Len(fromDevice') = 0
      <4>1. n \in 1 .. Len(fromDevice) /\ n = 1
        BY <3>3, <3>4
      <4>2. /\ Drop(fromDevice, n) \in Seq(Frame)
            /\ Len(Drop(fromDevice, n)) = Len(fromDevice) - n
        BY <2>1, <4>1, DropElements
      <4>3. QED
        BY <3>3, <3>4, <4>1, <4>2
    <3>6. fromDevice' = <<>>
      BY <3>5
    <3>7. QED
      BY <2>2, <3>1, <3>5, <3>6 DEF ReceiveFinal, deviceVars
  <2>3. CASE ReceiveNonFinal
    <3>1. fromDevice # <<>> /\ Head(fromDevice) = fromDevice[1]
      BY <2>1, <2>3 DEF ReceiveNonFinal
    <3>2. Tail(fromDevice) \in Seq(Frame)
      BY <2>1, <3>1
    <3>3. QED
      BY <2>3, <3>1, <3>2 DEF ReceiveNonFinal, deviceVars
  <2>4. QED
    BY <2>2, <2>3
<1>2. toDevice = <<>>
  BY <1>1 DEF OneExchange
<1>3. /\ vr' \in SeqNum /\ vs' \in SeqNum
      /\ vr' # vr => vr = dvs /\ vr' = Succ(dvs) /\ unacked
      /\ vs' # vs => /\ frame.kind = "I" /\ frame.ns = vs /\ vs # dvr /\ vs' = dvr
                     /\ vs' = Succ(frame.ns)
      /\ vs' = vs /\ frame.kind = "I" => vs = dvr
  BY <1>1, PromptAdvance
<1>4. vs \in SeqNum /\ vr \in SeqNum /\ dvr \in SeqNum /\ dvs \in SeqNum
  BY DEF TypeOK
<1>5. OneExchange'
  <2>1. CASE fromDevice' = <<>>
    BY <1>1, <1>2, <2>1 DEF OneExchange
  <2>2. CASE pc' = "listening" /\ fromDevice' = Tail(fromDevice)
    <3>1. fromDevice \in Seq(Frame) /\ fromDevice # <<>>
      BY <1>1 DEF TypeOK
    <3>2. Len(fromDevice') = Len(fromDevice) - 1 /\ Len(fromDevice) \in Nat
      BY <2>2, <3>1
    <3>3. ASSUME NEW i \in 1 .. Len(fromDevice')
          PROVE  fromDevice'[i] = fromDevice[i + 1] /\ i + 1 \in 1 .. Len(fromDevice)
      BY <2>2, <3>1, <3>2
    <3>4. ASSUME NEW i \in 1 .. Len(fromDevice')
          PROVE  /\ Here(fromDevice[i])'
                 /\ fromDevice'[i].pf => i = Len(fromDevice')
      <4>1. Here(fromDevice[i + 1]) /\ (fromDevice[i + 1].pf => i + 1 = Len(fromDevice))
        BY <3>3 DEF OneExchange
      <4>2. (Here(fromDevice[i]))'
        BY <1>1, <3>3, <4>1 DEF Here
      <4>3. i + 1 = Len(fromDevice) => i = Len(fromDevice')
        BY <3>2
      <4>4. QED
        BY <3>3, <4>1, <4>2, <4>3
    <3>5. QED
      BY <1>1, <1>2, <2>2, <3>4 DEF OneExchange
  <2>3. QED
    BY <1>1, <2>1, <2>2
<1>6. InWindow'
  <2>1. dvr' \in {vs', Succ(vs')}
    BY <1>1, <1>3 DEF InWindow
  <2>2. vr' \in {dvs', Succ(dvs')} /\ (vr' # dvs' => unacked')
    BY <1>1, <1>3 DEF InWindow
  <2>3. frame.nr # vr' => frame.nr = dvs /\ vr' # dvs
    BY <1>1, <1>3, <1>4, SuccApart DEF InWindow
  <2>4. frame.kind = "I" => frame.ns = vs' \/ (vs' = dvr /\ vs' = Succ(frame.ns))
    BY <1>1, <1>3 DEF InWindow
  <2>5. QED
    BY <1>1, <2>1, <2>2, <2>3, <2>4 DEF InWindow
<1>7. Settles'
  <2>1. Taken' = Taken /\ LastTaken' = LastTaken /\ TakenBefore' = TakenBefore
    BY <1>1 DEF Taken, LastTaken, TakenBefore
  <2>2. SUFFICES ASSUME lost < Retries PROVE Settles'
    BY <1>1 DEF Settles
  <2>3. frame.kind = "S" => Taken = offered /\ vs = dvr
    BY <1>1, <2>2 DEF Settles
  <2>4. frame.kind = "I" => /\ Taken = offered /\ TakenBefore /\ LastTaken = offered
                            /\ frame.data = offered
    BY <1>1, <2>2 DEF Settles
  <2>5. frame.kind = "I" => vs' = dvr /\ frame.ns # vs'
    <3>1. ASSUME frame.kind = "I", vs = dvr PROVE frame.ns # vs
      BY <1>1, <2>2, <3>1 DEF Settles
    <3>2. ASSUME frame.kind = "I", vs' # vs PROVE vs' = dvr /\ frame.ns # vs'
      BY <1>3, <1>4, <3>2, SuccApart
    <3>3. QED
      BY <1>3, <3>1, <3>2
  <2>6. frame.kind = "S" => vs' = vs
    BY <1>3
  <2>7. frame.kind \in {"I", "S"}
    BY <1>1 DEF InWindow
  <2>8. QED
    BY <1>1, <2>1, <2>2, <2>3, <2>4, <2>5, <2>6, <2>7 DEF Settles
<1>8. QED
  BY <1>5, <1>6, <1>7

(* The answers to one frame: all are frames of this exchange, and only the *)
(* last has the final bit.                                                 *)
LEMMA OneAnswer ==
  ASSUME TypeOK, TypeOK', fromDevice = <<>>, unacked', dvs' \in SeqNum, dvr' \in SeqNum,
         NEW k \in Nat, Answer(fromDevice, dvs', dvr', k)
  PROVE  /\ fromDevice' # <<>>
         /\ \A i \in 1 .. Len(fromDevice') :
              /\ Here(fromDevice[i])'
              /\ fromDevice'[i].pf => i = Len(fromDevice')
<1> DEFINE a == InfoFrame(dvs', dvr', k, TRUE)
           b == InfoFrame(dvs', dvr', k, FALSE)
           c == RR(dvr')
<1>1. /\ a \in Frame /\ b \in Frame /\ c \in Frame
      /\ a.kind = "I" /\ a.nr = dvr' /\ a.ns = dvs'
      /\ b.kind = "I" /\ b.nr = dvr' /\ b.ns = dvs' /\ b.pf = FALSE
      /\ c.kind = "S" /\ c.nr = dvr'
  <2>1. a \in Frame /\ b \in Frame /\ c \in Frame
    BY FrameType
  <2>2. QED
    BY <2>1 DEF InfoFrame, RR
<1>2. Answer(fromDevice, dvs', dvr', k) <=>
        \/ fromDevice' = Put(fromDevice, a)
        \/ SplitReplies /\ fromDevice' = Put(Put(fromDevice, b), c)
  BY DEF Answer
<1> HIDE DEF a, b, c
<1>3. Put(fromDevice, a) = <<a>> /\ Put(fromDevice, b) = <<b>>
  BY <1>1, PutFirst DEF TypeOK
<1>4. <<b>> \in Seq(Frame) /\ Len(<<b>>) = 1 /\ <<b>>[1] = b
  BY <1>1
<1>5. fromDevice' = <<a>> \/ fromDevice' = <<b>> \/ fromDevice' = Append(<<b>>, c)
  <2>1. Put(<<b>>, c) = <<b>> \/ Put(<<b>>, c) = Append(<<b>>, c)
    BY DEF Put
  <2>2. QED
    BY <1>2, <1>3, <2>1
<1>6. CASE fromDevice' = <<a>>
  BY <1>1, <1>6 DEF Here
<1>7. CASE fromDevice' = <<b>>
  BY <1>1, <1>7 DEF Here
<1>8. CASE fromDevice' = Append(<<b>>, c)
  <2>1. fromDevice'[1] = b /\ fromDevice'[2] = c /\ Len(fromDevice') = 2 /\ fromDevice' # <<>>
    BY <1>1, <1>4, <1>8
  <2>2. \A i \in 1 .. 2 : i = 1 \/ i = 2
    OBVIOUS
  <2>3. QED
    BY <1>1, <2>1, <2>2 DEF Here
<1>9. QED
  BY <1>5, <1>6, <1>7, <1>8

(* The device reads the frame of this transact and answers it.             *)
LEMMA PromptDeviceAnswers ==
  ASSUME TypeOK, TypeOK', PromptInv, DeviceAnswers
  PROVE  PromptInv'
<1> USE DEF PromptInv
<1>1. /\ toDevice = <<frame>> /\ fromDevice = <<>> /\ pc = "listening" /\ toDevice # <<>>
      /\ UNCHANGED <<vs, vr, pc, try, frame, offered, received, lost>>
      /\ Head(toDevice) = frame /\ toDevice' = <<>>
  <2>1. toDevice = <<frame>> /\ fromDevice = <<>> /\ pc = "listening" /\ toDevice # <<>>
    BY DEF OneExchange, DeviceAnswers
  <2>2. Head(toDevice) = frame /\ Tail(toDevice) = <<>>
    BY <2>1, OneFrame
  <2>3. QED
    BY <2>1, <2>2 DEF DeviceAnswers, primaryVars
<1>2. /\ DeviceReads(frame)
      /\ DeviceRepeats(frame) \/ DeviceSendsNew(frame) \/ DeviceSendsRR(frame)
  BY <1>1 DEF DeviceAnswers
<1>3. /\ vs \in SeqNum /\ vr \in SeqNum /\ dvr \in SeqNum /\ dvs \in SeqNum
      /\ dvr' \in SeqNum /\ dvs' \in SeqNum /\ sent \in Nat /\ sent' \in Nat
      /\ frame \in Frame /\ frame.ns \in SeqNum
  <2>1. frame \in Frame
    BY DEF TypeOK
  <2>2. frame.ns \in SeqNum
    BY <2>1 DEF Frame
  <2>3. QED
    BY <2>1, <2>2 DEF TypeOK
<1>4. /\ frame.kind \in {"I", "S"}
      /\ frame.nr # vr => frame.nr = dvs /\ vr # dvs
      /\ frame.kind = "I" => frame.ns = vs \/ (vs = dvr /\ vs = Succ(frame.ns))
  BY <1>1 DEF InWindow
<1>5. DeviceTakes(frame) => frame.kind = "I" /\ frame.ns = vs /\ vs = dvr /\ dvr' = Succ(vs)
  BY <1>2, <1>3, <1>4, SuccApart DEF DeviceTakes, DeviceReads, InWindow
<1>6. ~DeviceTakes(frame) => dvr' = dvr /\ accepted' = accepted
  BY <1>2 DEF DeviceReads
<1>7. /\ fromDevice' # <<>> /\ vr' \in {dvs', Succ(dvs')} /\ (vr' # dvs' => unacked')
      /\ frame.nr # vr => frame.nr = dvs' /\ vr # dvs'
      /\ \A i \in 1 .. Len(fromDevice') :
           /\ Here(fromDevice[i])'
           /\ fromDevice'[i].pf => i = Len(fromDevice')
  <2>1. Free(frame) => ~unacked \/ frame.nr = Succ(dvs)
    BY DEF Free, Acked
  <2>2. Free(frame) => /\ vr = (IF unacked THEN Succ(dvs) ELSE dvs)
                       /\ frame.nr = vr
    BY <1>1, <1>3, <1>4, <2>1, SuccApart DEF InWindow
  <2>3. CASE DeviceRepeats(frame)
    <3>1. unacked' /\ dvs' = dvs /\ unacked' = unacked /\ Answer(fromDevice, dvs', dvr', sent)
      BY <2>3 DEF DeviceRepeats, Free
    <3>2. /\ fromDevice' # <<>>
          /\ \A i \in 1 .. Len(fromDevice') :
               /\ Here(fromDevice[i])'
               /\ fromDevice'[i].pf => i = Len(fromDevice')
      BY <1>1, <1>3, <3>1, OneAnswer
    <3>3. QED
      BY <1>1, <1>4, <3>1, <3>2 DEF InWindow
  <2>4. CASE DeviceSendsNew(frame)
    <3>1. /\ unacked' /\ dvs' = (IF unacked THEN Succ(dvs) ELSE dvs) /\ Free(frame)
          /\ Answer(fromDevice, dvs', dvr', sent')
      BY <2>4 DEF DeviceSendsNew
    <3>2. /\ fromDevice' # <<>>
          /\ \A i \in 1 .. Len(fromDevice') :
               /\ Here(fromDevice[i])'
               /\ fromDevice'[i].pf => i = Len(fromDevice')
      BY <1>1, <1>3, <3>1, OneAnswer
    <3>3. QED
      BY <1>1, <2>2, <3>1, <3>2
  <2>5. CASE DeviceSendsRR(frame)
    <3>1. /\ dvs' = (IF unacked THEN Succ(dvs) ELSE dvs) /\ Free(frame)
          /\ fromDevice' = Put(fromDevice, RR(dvr'))
      BY <2>5 DEF DeviceSendsRR
    <3>2. RR(dvr') \in Frame /\ RR(dvr').kind = "S" /\ RR(dvr').nr = dvr'
      BY <1>3, FrameType DEF RR
    <3>3. fromDevice' = <<RR(dvr')>>
      BY <1>1, <3>1, <3>2, PutFirst DEF TypeOK
    <3>4. fromDevice' # <<>> /\ Len(fromDevice') = 1 /\ fromDevice'[1] = RR(dvr')
      BY <3>3
    <3>5. \A i \in 1 .. Len(fromDevice') :
               /\ Here(fromDevice[i])'
               /\ fromDevice'[i].pf => i = Len(fromDevice')
      BY <3>2, <3>4 DEF Here
    <3>6. QED
      BY <1>1, <2>2, <3>1, <3>4, <3>5
  <2>6. QED
    BY <1>2, <2>3, <2>4, <2>5
<1>8. OneExchange'
  BY <1>1, <1>7 DEF OneExchange
<1>9. InWindow'
  <2>1. dvr' \in {vs', Succ(vs')}
    BY <1>1, <1>5, <1>6 DEF InWindow
  <2>2. frame'.kind = "I" => frame'.ns = vs' \/ (vs' = dvr' /\ vs' = Succ(frame'.ns))
    BY <1>1, <1>3, <1>4, <1>5, <1>6, SuccApart
  <2>3. QED
    BY <1>1, <1>4, <1>7, <2>1, <2>2 DEF InWindow
<1>10. Settles'
  <2>1. Accounted' = Accounted
    BY <1>1, <1>7 DEF Accounted, InAir
  <2>2. SUFFICES ASSUME lost < Retries PROVE Settles'
    BY <1>1 DEF Settles
  <2>3. CASE DeviceTakes(frame)
    <3>1. accepted' = Append(accepted, frame.data) /\ accepted \in Seq(Nat) /\ frame.data \in Nat
      BY <1>2, <1>3, <2>3 DEF DeviceReads, TypeOK, Frame
    <3>2. Taken' = Taken + 1 /\ TakenBefore' /\ LastTaken' = frame.data /\ Taken \in Nat
      BY <3>1 DEF Taken, TakenBefore, LastTaken
    <3>3. /\ frame.kind = "I" /\ frame.ns = vs /\ vs' # dvr'
          /\ frame.data = offered /\ Taken = offered - 1 /\ try <= Accounted
      BY <1>1, <1>3, <1>5, <2>2, <2>3, SuccApart DEF Settles
    <3>4. offered \in Nat
      BY DEF TypeOK
    <3>5. QED
      BY <1>1, <2>1, <3>2, <3>3, <3>4 DEF Settles
  <2>4. CASE ~DeviceTakes(frame)
    <3>1. dvr' = dvr /\ Taken' = Taken /\ TakenBefore' = TakenBefore /\ LastTaken' = LastTaken
      BY <1>6, <2>4 DEF Taken, TakenBefore, LastTaken
    <3>2. ~(frame.kind = "I" /\ vs = dvr /\ frame.ns = vs)
      BY <2>4 DEF DeviceTakes
    <3>3. QED
      BY <1>1, <2>1, <2>2, <3>1, <3>2 DEF Settles
  <2>5. QED
    BY <2>3, <2>4
<1>11. QED
  BY <1>8, <1>9, <1>10

(* A lost frame is accounted for. *)
LEMMA PromptLose ==
  ASSUME TypeOK, PromptInv, LoseToDevice \/ LoseFromDevice
  PROVE  PromptInv'
<1> USE DEF PromptInv
<1>1. /\ UNCHANGED <<vs, vr, pc, try, frame, offered, dvs, dvr, unacked, accepted>>
      /\ lost' = lost + 1 /\ pc = "listening" /\ InAir
      /\ \/ toDevice' = <<>> /\ fromDevice' = fromDevice
         \/ toDevice' = toDevice /\ fromDevice # <<>> /\ fromDevice' = Tail(fromDevice)
  <2>1. CASE LoseToDevice
    <3>1. toDevice = <<frame>> /\ toDevice # <<>> /\ pc = "listening"
      BY <2>1 DEF LoseToDevice, OneExchange
    <3>2. Tail(toDevice) = <<>>
      BY <3>1, OneFrame
    <3>3. QED
      BY <2>1, <3>1, <3>2 DEF LoseToDevice, InAir, primaryVars, deviceVars
  <2>2. CASE LoseFromDevice
    BY <2>2 DEF LoseFromDevice, OneExchange, InAir, primaryVars, deviceVars
  <2>3. QED
    BY <2>1, <2>2
<1>2. OneExchange'
  <2>1. CASE toDevice' = <<>> /\ fromDevice' = fromDevice
    BY <1>1, <2>1 DEF OneExchange, Here
  <2>2. CASE toDevice' = toDevice /\ fromDevice # <<>> /\ fromDevice' = Tail(fromDevice)
    <3>1. toDevice' = <<>>
      BY <2>2 DEF OneExchange
    <3>2. fromDevice \in Seq(Frame) /\ fromDevice # <<>>
      BY <2>2 DEF TypeOK
    <3>3. Len(fromDevice') = Len(fromDevice) - 1 /\ Len(fromDevice) \in Nat
      BY <2>2, <3>2
    <3>4. ASSUME NEW i \in 1 .. Len(fromDevice')
          PROVE  fromDevice'[i] = fromDevice[i + 1] /\ i + 1 \in 1 .. Len(fromDevice)
      BY <2>2, <3>2, <3>3
    <3>5. ASSUME NEW i \in 1 .. Len(fromDevice')
          PROVE  /\ Here(fromDevice[i])'
                 /\ fromDevice'[i].pf => i = Len(fromDevice')
      <4>1. Here(fromDevice[i + 1]) /\ (fromDevice[i + 1].pf => i + 1 = Len(fromDevice))
        BY <3>4 DEF OneExchange
      <4>2. (Here(fromDevice[i]))'
        BY <1>1, <3>4, <4>1 DEF Here
      <4>3. i + 1 = Len(fromDevice) => i = Len(fromDevice')
        BY <3>3
      <4>4. QED
        BY <3>4, <4>1, <4>2, <4>3
    <3>6. QED
      BY <1>1, <3>1, <3>5 DEF OneExchange
  <2>3. QED
    BY <1>1, <2>1, <2>2
<1>3. InWindow'
  BY <1>1 DEF InWindow
<1>4. Settles'
  <2>1. Taken' = Taken /\ TakenBefore' = TakenBefore /\ LastTaken' = LastTaken
    BY <1>1 DEF Taken, TakenBefore, LastTaken
  <2>2. Accounted = lost + 1 /\ Accounted' \in {lost + 1, lost + 2} /\ lost \in Nat /\ try \in Nat
    BY <1>1, LinkAssumption DEF Accounted, TypeOK
  <2>3. fromDevice = <<>> => fromDevice' = <<>>
    BY <1>1
  <2>4. SUFFICES ASSUME lost' < Retries PROVE Settles'
    BY DEF Settles
  <2>5. lost < Retries
    BY <1>1, <2>2, <2>4, LinkAssumption
  <2>6. QED
    BY <1>1, <2>1, <2>2, <2>3, <2>4, <2>5 DEF Settles
<1>5. QED
  BY <1>2, <1>3, <1>4

LEMMA PromptNext ==
  ASSUME Prompt, TypeOK, PromptInv, [LinkNext]_linkVars
  PROVE  PromptInv'
<1>1. TypeOK'
  BY NextType
<1>2. CASE BeginInfo
  <2> DEFINE f == InfoFrame(vs, vr, offered + 1, TRUE)
  <2>1. offered + 1 \in Nat /\ offered' = offered + 1
    BY <1>2 DEF BeginInfo, TypeOK
  <2>2. /\ f \in Frame /\ f.kind = "I" /\ f.nr = vr /\ f.ns = vs
        /\ f.data = offered'
    BY <2>1, FrameType DEF InfoFrame, TypeOK
  <2>3. Begin(f)
    BY <1>2 DEF BeginInfo
  <2> HIDE DEF f
  <2>4. QED
    BY <2>1, <2>2, <2>3, PromptBegin
<1>3. CASE BeginPoll
  <2> DEFINE f == RR(vr)
  <2>1. f \in Frame /\ f.kind = "S" /\ f.nr = vr
    BY FrameType DEF RR, TypeOK
  <2>2. Begin(f) /\ offered' = offered
    BY <1>3 DEF BeginPoll
  <2> HIDE DEF f
  <2>3. QED
    BY <2>1, <2>2, PromptBegin
<1>4. CASE UNCHANGED linkVars
  BY <1>4 DEF linkVars, primaryVars, deviceVars, airVars, PromptInv, OneExchange, Here,
     InWindow, Settles, Accounted, InAir, Taken, TakenBefore, LastTaken
<1>5. QED
  BY <1>1, <1>2, <1>3, <1>4, PromptRetransmit, PromptGiveUp, PromptUsbFailure, PromptReceive,
     PromptDeviceAnswers, PromptLose DEF LinkNext, Primary, Environment

(* With a prompt device there is one exchange at a time, in split answers  *)
(* as in single ones, and any number of frames may be lost.                *)
THEOREM LinkPromptInvariant ==
  ASSUME Prompt, MaxStaleUas = 0
  PROVE  LinkSpec => []PromptInv
<1>1. LinkInit => PromptInv
  BY PromptInit
<1>2. TypeOK /\ PromptInv /\ [LinkNext]_linkVars => PromptInv'
  BY PromptNext
<1>3. QED
  BY <1>1, <1>2, LinkTypeCorrect, PTL DEF LinkSpec

(* The two ends never drift apart by more than the window of one: with     *)
(* split answers too, if the device is prompt.                             *)
THEOREM LinkPromptWindowOfOne ==
  ASSUME Prompt, MaxStaleUas = 0
  PROVE  LinkSpec => []WindowOfOne
<1>1. PromptInv => WindowOfOne
  BY DEF PromptInv, InWindow, WindowOfOne
<1>2. QED
  BY <1>1, LinkPromptInvariant, PTL

(* Whatever the callers hand to transact has reached a prompt device when  *)
(* transact returns, if fewer frames are lost than transact tries.         *)
THEOREM LinkOffersArrive ==
  ASSUME Prompt, MaxStaleUas = 0, MaxLosses < Retries
  PROVE  LinkSpec => []OffersArrive
<1>1. TypeOK /\ PromptInv => OffersArrive
  BY LinkAssumption DEF TypeOK, PromptInv, Settles, OffersArrive, Taken
<1>2. QED
  BY <1>1, LinkPromptInvariant, LinkTypeCorrect, PTL

(* V(s) advances only when the device has taken the I-field of this        *)
(* transact, under the same conditions.                                    *)
THEOREM LinkAcknowledgedWasTaken ==
  ASSUME Prompt, MaxStaleUas = 0, MaxLosses < Retries
  PROVE  LinkSpec => AcknowledgedWasTaken
<1> DEFINE Advanced == vs' # vs => accepted # <<>> /\ accepted[Len(accepted)] = frame.data
<1>1. TypeOK /\ PromptInv /\ [LinkNext]_linkVars => [Advanced]_linkVars
  <2>1. SUFFICES ASSUME TypeOK, PromptInv, LinkNext, vs' # vs
                 PROVE  accepted # <<>> /\ accepted[Len(accepted)] = frame.data
    OBVIOUS
  <2>2. ReceiveFinal \/ ReceiveNonFinal
    BY <2>1 DEF LinkNext, Primary, Environment, BeginInfo, BeginPoll, Begin, Retransmit, GiveUp,
       UsbFailure, DeviceAnswers, LoseToDevice, LoseFromDevice, primaryVars
  <2>3. pc = "listening" /\ fromDevice # <<>> /\ Advance(Head(fromDevice))
    BY <2>2 DEF ReceiveFinal, ReceiveNonFinal
  <2>4. Head(fromDevice) = fromDevice[1]
    BY <2>1, <2>3 DEF TypeOK
  <2>5. frame.kind = "I" /\ vs # dvr
    BY <2>1, <2>3, <2>4, PromptAdvance
  <2>6. lost < Retries
    BY <2>1, LinkAssumption DEF TypeOK
  <2>7. TakenBefore /\ LastTaken = offered /\ frame.data = offered
    BY <2>1, <2>3, <2>5, <2>6 DEF PromptInv, Settles
  <2>8. QED
    BY <2>7 DEF TakenBefore, LastTaken
<1>2. QED
  BY <1>1, LinkPromptInvariant, LinkTypeCorrect, PTL DEF LinkSpec, AcknowledgedWasTaken
-----------------------------------------------------------------------------
(* With single answers the other way too: every try but one under way has  *)
(* lost a frame, the answer carries an I-field when one is due, and until  *)
(* too many frames are lost none is due between calls, or before the       *)
(* device has taken the I-field of this one.                               *)
AnswersInv ==
  /\ pc = "listening" => try <= Accounted
  /\ fromDevice # <<>> => (fromDevice[1].kind = "I" <=> Len(received) # sent)
  /\ lost < Retries /\ (pc = "idle" \/ Taken # offered) => Len(received) = sent

(* What the counters say of the I-field the device sent last.              *)
LEMMA LastSdu ==
  ASSUME TypeOK, LinkInv
  PROVE  /\ sent \in Nat /\ Len(received) \in {sent - 1, sent} /\ Len(received) \in Nat
         /\ Len(received) # sent => unacked /\ vr = dvs
         /\ Len(received) = sent => vr = Num(sent)
         /\ unacked => sent > 0 /\ dvs = Num(sent - 1) /\ Succ(dvs) = Num(sent)
                       /\ Num(sent - 1) # Num(sent)
<1>1. sent \in Nat /\ received \in Seq(Nat) /\ unacked \in BOOLEAN
  BY DEF TypeOK
<1>2. /\ unacked => sent > 0
      /\ Len(received) \in {Settled, sent} /\ vr = Num(Len(received)) /\ dvs = Num(Settled)
  BY DEF LinkInv, Counters
<1>3. unacked => sent - 1 \in Nat /\ Settled = sent - 1
  BY <1>1, <1>2 DEF Settled
<1>4. ~unacked => Settled = sent
  BY DEF Settled
<1>5. unacked => Succ(dvs) = Num(sent) /\ Num(sent - 1) # Num(sent)
  <2>1. SUFFICES ASSUME unacked PROVE Succ(dvs) = Num(sent) /\ Num(sent - 1) # Num(sent)
    OBVIOUS
  <2>2. sent - 1 + 1 = sent
    BY <1>1
  <2>3. Succ(Num(sent - 1)) = Num(sent - 1 + 1) /\ Num(sent - 1) # Num(sent - 1 + 1)
    BY <1>3, <2>1, NumSucc
  <2>4. QED
    BY <1>2, <1>3, <2>1, <2>2, <2>3
<1>6. QED
  BY <1>1, <1>2, <1>3, <1>4, <1>5

(* There is one answer in the air at most, and it ends the transact.       *)
LEMMA AnswerAlone ==
  ASSUME ~SplitReplies, TypeOK, LinkInv, PromptInv, fromDevice # <<>>
  PROVE  /\ Len(fromDevice) = 1 /\ Head(fromDevice) = fromDevice[1] /\ Tail(fromDevice) = <<>>
         /\ fromDevice[1].pf /\ Here(fromDevice[1]) /\ pc = "listening" /\ toDevice = <<>>
<1>1. fromDevice \in Seq(Frame) /\ fromDevice # <<>>
  BY DEF TypeOK
<1>2. 1 \in 1 .. Len(fromDevice)
  BY <1>1
<1>3. fromDevice[1].pf
  BY <1>2 DEF LinkInv, FromDevice, FromDeviceFrame
<1>4. 1 = Len(fromDevice) /\ Here(fromDevice[1]) /\ pc = "listening" /\ toDevice = <<>>
  BY <1>2, <1>3 DEF PromptInv, OneExchange
<1>5. Head(fromDevice) = fromDevice[1] /\ Tail(fromDevice) = <<>>
  <2>1. fromDevice = <<fromDevice[1]>>
    BY <1>1, <1>4
  <2>2. QED
    BY <2>1, OneFrame
<1>6. QED
  BY <1>3, <1>4, <1>5

LEMMA AnswersReceive ==
  ASSUME ~SplitReplies, TypeOK, LinkInv, PromptInv, PromptInv', AnswersInv, ReceiveFinal
  PROVE  AnswersInv'
<1> DEFINE f == fromDevice[1]
<1>1. /\ fromDevice # <<>> /\ pc' = "idle" /\ sent' = sent
      /\ received' = IF InSequence(f) THEN Append(received, f.data) ELSE received
  <2>1. fromDevice # <<>>
    BY DEF ReceiveFinal
  <2>2. Head(fromDevice) = f
    BY <2>1, AnswerAlone
  <2>3. QED
    BY <2>1, <2>2 DEF ReceiveFinal, deviceVars
<1>2. Here(f) /\ (f.kind = "I" <=> Len(received) # sent)
  BY <1>1, AnswerAlone DEF AnswersInv
<1>3. fromDevice' = <<>>
  BY <1>1 DEF PromptInv, OneExchange
<1>4. Len(received') = sent'
  <2>1. CASE f.kind = "I"
    <3>1. Len(received) = sent - 1 /\ vr = dvs /\ sent \in Nat
      BY <1>2, <2>1, LastSdu
    <3>2. InSequence(f)
      BY <1>2, <2>1, <3>1 DEF InSequence, Here
    <3>3. received \in Seq(Nat) /\ f.data \in Nat
      <4>1. fromDevice \in Seq(Frame) /\ received \in Seq(Nat)
        BY DEF TypeOK
      <4>2. f \in Frame
        BY <1>1, <4>1
      <4>3. QED
        BY <4>1, <4>2 DEF Frame
    <3>4. Len(received') = Len(received) + 1
      BY <1>1, <3>2, <3>3
    <3>5. QED
      BY <1>1, <3>1, <3>4
  <2>2. CASE f.kind # "I"
    BY <1>1, <1>2, <2>2 DEF InSequence
  <2>3. QED
    BY <2>1, <2>2
<1>5. QED
  BY <1>1, <1>3, <1>4 DEF AnswersInv

(* The device answers a frame that says what transact has returned.        *)
LEMMA AnswersDevice ==
  ASSUME ~SplitReplies, TypeOK, TypeOK', LinkInv, PromptInv, AnswersInv, DeviceAnswers
  PROVE  /\ toDevice = <<frame>> /\ fromDevice = <<>> /\ pc = "listening"
         /\ toDevice[1] = frame /\ Head(toDevice) = frame /\ toDevice # <<>>
         /\ Free(frame) <=> Len(received) = sent
         /\ frame.kind = "S" => ~DeviceTakes(frame)
         /\ lost < Retries => /\ frame.kind = "I" => frame.data = offered
                              /\ DeviceTakes(frame) <=> Taken # offered
                              /\ Taken' = offered'
         /\ AnswersInv'
<1>1. /\ toDevice = <<frame>> /\ fromDevice = <<>> /\ pc = "listening" /\ toDevice # <<>>
      /\ toDevice[1] = frame /\ Head(toDevice) = frame
      /\ UNCHANGED <<pc, try, received, lost>>
  <2>1. toDevice = <<frame>> /\ fromDevice = <<>> /\ pc = "listening" /\ toDevice # <<>>
    BY DEF PromptInv, OneExchange, DeviceAnswers
  <2>2. Head(toDevice) = frame /\ toDevice[1] = frame
    BY <2>1, OneFrame
  <2>3. QED
    BY <2>1, <2>2 DEF DeviceAnswers, primaryVars
<1>2. frame.nr = vr
  BY <1>1 DEF LinkInv, FrameCurrent
<1>3. Free(frame) <=> Len(received) = sent
  <2>1. ASSUME Len(received) = sent PROVE Free(frame)
    BY <1>2, <2>1, LastSdu DEF Free, Acked
  <2>2. ASSUME Len(received) # sent PROVE ~Free(frame)
    BY <1>2, <2>2, LastSdu DEF Free, Acked
  <2>3. QED
    BY <2>1, <2>2
<1>4. DeviceRepeats(frame) \/ DeviceSendsNew(frame) \/ DeviceSendsRR(frame)
  BY <1>1 DEF DeviceAnswers
<1>5. /\ dvs \in SeqNum /\ dvs' \in SeqNum /\ dvr' \in SeqNum /\ sent \in Nat /\ sent' \in Nat
      /\ fromDevice \in Seq(Frame)
  BY DEF TypeOK
<1>6. ASSUME NEW g \in Frame PROVE Put(fromDevice, g) = <<g>>
  BY <1>1, <1>5, PutFirst
<1>7. fromDevice' # <<>> /\ (fromDevice'[1].kind = "I" <=> Len(received) # sent')
  <2>1. CASE DeviceRepeats(frame)
    <3>1. fromDevice' = Put(fromDevice, InfoFrame(dvs, dvr', sent, TRUE)) /\ sent' = sent
          /\ ~Free(frame)
      BY <2>1 DEF DeviceRepeats, Answer
    <3>2. InfoFrame(dvs, dvr', sent, TRUE) \in Frame
      BY <1>5, FrameType
    <3>3. fromDevice' = <<InfoFrame(dvs, dvr', sent, TRUE)>>
      BY <1>6, <3>1, <3>2
    <3>4. fromDevice' # <<>> /\ fromDevice'[1].kind = "I"
      BY <3>3 DEF InfoFrame
    <3>5. QED
      BY <1>3, <3>1, <3>4
  <2>2. CASE DeviceSendsNew(frame)
    <3>1. fromDevice' = Put(fromDevice, InfoFrame(dvs', dvr', sent', TRUE)) /\ sent' = sent + 1
      BY <2>2 DEF DeviceSendsNew, Answer
    <3>2. InfoFrame(dvs', dvr', sent', TRUE) \in Frame
      BY <1>5, FrameType
    <3>3. fromDevice' = <<InfoFrame(dvs', dvr', sent', TRUE)>>
      BY <1>6, <3>1, <3>2
    <3>4. fromDevice' # <<>> /\ fromDevice'[1].kind = "I"
      BY <3>3 DEF InfoFrame
    <3>5. Len(received) # sent'
      BY <3>1, LastSdu
    <3>6. QED
      BY <3>4, <3>5
  <2>3. CASE DeviceSendsRR(frame)
    <3>1. fromDevice' = Put(fromDevice, RR(dvr')) /\ sent' = sent /\ Free(frame)
      BY <2>3 DEF DeviceSendsRR
    <3>2. RR(dvr') \in Frame
      BY <1>5, FrameType
    <3>3. fromDevice' = <<RR(dvr')>>
      BY <1>6, <3>1, <3>2
    <3>4. fromDevice' # <<>> /\ fromDevice'[1].kind = "S"
      BY <3>3 DEF RR
    <3>5. QED
      BY <1>3, <3>1, <3>4
  <2>4. QED
    BY <1>4, <2>1, <2>2, <2>3
<1>8. Accounted' = Accounted
  BY <1>1, <1>7 DEF Accounted, InAir
<1>9. lost < Retries => /\ frame.kind = "I" => frame.data = offered
                        /\ DeviceTakes(frame) <=> Taken # offered
                        /\ Taken' = offered'
  <2>0. SUFFICES ASSUME lost < Retries
                 PROVE  /\ frame.kind = "I" => frame.data = offered
                        /\ DeviceTakes(frame) <=> Taken # offered
                        /\ Taken' = offered'
    OBVIOUS
  <2>1. /\ accepted' = IF DeviceTakes(frame) THEN Append(accepted, frame.data) ELSE accepted
        /\ offered' = offered /\ offered \in Nat /\ accepted \in Seq(Nat) /\ frame.data \in Nat
    BY <1>1 DEF DeviceAnswers, DeviceReads, primaryVars, TypeOK, Frame
  <2>2. frame.kind \in {"I", "S"} /\ (frame.kind = "I" => frame.ns = vs)
    BY <1>1 DEF LinkInv, FrameCurrent
  <2>3. DeviceTakes(frame) <=> frame.kind = "I" /\ vs = dvr
    BY <2>2 DEF DeviceTakes
  <2>4. Taken = (IF DeviceTakes(frame) THEN offered - 1 ELSE offered)
        /\ (frame.kind = "I" => frame.data = offered)
    BY <1>1, <2>0, <2>2, <2>3 DEF PromptInv, Settles
  <2>5. CASE DeviceTakes(frame)
    <3>1. Taken' = Taken + 1
      BY <2>1, <2>5 DEF Taken
    <3>2. QED
      BY <2>1, <2>4, <2>5, <3>1
  <2>6. CASE ~DeviceTakes(frame)
    <3>1. Taken' = Taken
      BY <2>1, <2>6 DEF Taken
    <3>2. QED
      BY <2>1, <2>4, <2>6, <3>1
  <2>7. QED
    BY <2>5, <2>6
<1>10. AnswersInv'
  <2>1. lost' < Retries => Taken' = offered'
    BY <1>1, <1>9
  <2>2. pc' = "listening"
    BY <1>1
  <2>3. QED
    BY <1>1, <1>7, <1>8, <2>1, <2>2 DEF AnswersInv
<1>11. frame.kind = "S" => ~DeviceTakes(frame)
  BY DEF DeviceTakes
<1>12. QED
  BY <1>1, <1>3, <1>9, <1>10, <1>11

LEMMA AnswersNext ==
  ASSUME ~SplitReplies, Prompt, TypeOK, TypeOK', LinkInv, PromptInv, PromptInv', AnswersInv,
         [LinkNext]_linkVars
  PROVE  AnswersInv'
<1>0. /\ Retries \in Nat \ {0} /\ lost \in Nat /\ lost' \in Nat /\ try \in 0 .. Retries
      /\ toDevice \in Seq(Frame) /\ frame \in Frame /\ frame' \in Frame
  BY LinkAssumption DEF TypeOK
<1>1. CASE BeginInfo \/ BeginPoll
  <2>1. PICK f : Begin(f)
    BY <1>1 DEF BeginInfo, BeginPoll
  <2>2. /\ pc = "idle" /\ pc' = "listening" /\ try' = 1 /\ toDevice' = Put(toDevice, frame')
        /\ UNCHANGED <<received, sent, fromDevice, lost>>
    BY <2>1 DEF Begin, deviceVars
  <2>3. toDevice = <<>> /\ fromDevice = <<>>
    BY <2>2 DEF PromptInv, OneExchange
  <2>4. toDevice' = <<frame'>>
    BY <1>0, <2>2, <2>3, PutFirst
  <2>5. InAir'
    BY <2>4 DEF InAir
  <2>6. Accounted' = lost + 1
    BY <2>2, <2>5 DEF Accounted
  <2>7. QED
    BY <1>0, <2>2, <2>3, <2>6 DEF AnswersInv
<1>2. CASE Retransmit \/ GiveUp
  <2>1. /\ pc = "listening" /\ toDevice = <<>> /\ fromDevice = <<>>
        /\ UNCHANGED <<received, sent, fromDevice, lost, Taken, offered>>
    BY <1>2 DEF Retransmit, GiveUp, WindowCloses, deviceVars, airVars, Taken
  <2>2. try <= lost
    BY <1>0, <2>1 DEF AnswersInv, Accounted, InAir
  <2>3. CASE Retransmit
    <3>1. try' = try + 1 /\ toDevice' = Put(toDevice, frame) /\ pc' = pc
      BY <2>3 DEF Retransmit, Resent
    <3>2. toDevice' = <<frame>>
      BY <1>0, <2>1, <3>1, PutFirst
    <3>3. InAir'
      BY <3>2 DEF InAir
    <3>4. Accounted' = lost + 1
      BY <2>1, <3>3 DEF Accounted
    <3>5. QED
      BY <1>0, <2>1, <2>2, <3>1, <3>4 DEF AnswersInv
  <2>4. CASE GiveUp
    <3>1. ~(try < Retries) /\ pc' = "idle"
      BY <2>4 DEF GiveUp, TriesLeft
    <3>2. ~(lost' < Retries)
      BY <1>0, <2>1, <2>2, <3>1
    <3>3. QED
      BY <2>1, <3>1, <3>2 DEF AnswersInv
  <2>5. QED
    BY <1>2, <2>3, <2>4
<1>3. CASE ReceiveFinal
  BY <1>3, AnswersReceive
<1>4. ~ReceiveNonFinal
  <2>1. SUFFICES ASSUME ReceiveNonFinal PROVE FALSE
    OBVIOUS
  <2>2. fromDevice # <<>> /\ ~Head(fromDevice).pf
    BY <2>1 DEF ReceiveNonFinal
  <2>3. QED
    BY <2>2, AnswerAlone
<1>5. CASE UsbFailure
  BY <1>5 DEF UsbFailure, deviceVars, airVars, AnswersInv, Taken
<1>6. CASE DeviceAnswers
  BY <1>6, AnswersDevice
<1>7. CASE LoseToDevice \/ LoseFromDevice
  <2>1. /\ UNCHANGED <<pc, try, received, sent, Taken, offered>> /\ lost' = lost + 1
        /\ fromDevice' = fromDevice \/ (fromDevice # <<>> /\ fromDevice' = Tail(fromDevice))
    BY <1>7 DEF LoseToDevice, LoseFromDevice, primaryVars, deviceVars, Taken
  <2>2. fromDevice' = fromDevice \/ fromDevice' = <<>>
    BY <2>1, AnswerAlone
  <2>3. Accounted \in {lost, lost + 1} /\ Accounted' \in {lost', lost' + 1}
    <3>1. InAir => Accounted = lost + 1
      BY DEF Accounted
    <3>2. ~InAir => Accounted = lost
      BY <1>0 DEF Accounted
    <3>3. InAir' => Accounted' = lost' + 1
      BY DEF Accounted
    <3>4. ~InAir' => Accounted' = lost'
      BY <1>0, <2>1 DEF Accounted
    <3>5. QED
      BY <3>1, <3>2, <3>3, <3>4
  <2>4. Accounted <= Accounted' /\ Accounted \in Nat /\ Accounted' \in Nat
    BY <1>0, <2>1, <2>3
  <2>5. pc' = "listening" => try' <= Accounted'
    BY <1>0, <2>1, <2>4 DEF AnswersInv
  <2>6. lost' < Retries => lost < Retries
    BY <1>0, <2>1
  <2>7. QED
    BY <2>1, <2>2, <2>5, <2>6 DEF AnswersInv
<1>8. CASE UNCHANGED linkVars
  BY <1>8 DEF linkVars, primaryVars, deviceVars, airVars, AnswersInv, Accounted, InAir,
     Taken
<1>9. QED
  BY <1>1, <1>2, <1>3, <1>4, <1>5, <1>6, <1>7, <1>8 DEF LinkNext, Primary, Environment

(* Until as many frames are lost as a transact tries, a transact of a      *)
(* prompt device returns the I-field the device has for it.                *)
THEOREM LinkAnswersInvariant ==
  ASSUME ~SplitReplies, Prompt, MaxStaleUas = 0
  PROVE  LinkSpec => []AnswersInv
<1>1. LinkInit => AnswersInv
  <2>1. SUFFICES ASSUME LinkInit PROVE AnswersInv
    OBVIOUS
  <2>2. fromDevice = <<>> /\ pc = "idle" /\ received = <<>> /\ sent = 0
    BY <2>1 DEF LinkInit
  <2>3. QED
    BY <2>2 DEF AnswersInv
<1>2. TypeOK /\ TypeOK' /\ LinkInv /\ PromptInv /\ PromptInv' /\ AnswersInv /\ [LinkNext]_linkVars
      => AnswersInv'
  BY AnswersNext
<1>3. QED
  BY <1>1, <1>2, LinkTypeCorrect, LinkInvariant, LinkPromptInvariant, PTL DEF LinkSpec
=============================================================================
