----------------------------- MODULE IrlapLink -----------------------------
(***************************************************************************)
(* The established IrLAP connection of src/src/irlap/mod.rs: the program   *)
(* is the primary of a normal-response-mode link with a window of one.     *)
(* Every exchange is a call of IrlapLink::transact, which sends one frame  *)
(* with the poll bit, listens for a frame with the final bit, and sends    *)
(* the same frame again when the response window closes.                   *)
(*                                                                         *)
(* The other station, the dive computer, is external: it is modelled from  *)
(* what transact expects of a secondary.  The two directions of the        *)
(* infrared link are FIFO queues that lose frames.                         *)
(*                                                                         *)
(* An I-field is named by its position: the k-th one handed to transact,   *)
(* or the k-th one the device sends for the first time, is the number k.   *)
(***************************************************************************)
EXTENDS Integers, Sequences

CONSTANTS
  Retries,       \* transmissions of one transact (IrlapLink.retries, 4)
  MaxOffers,     \* bound: I-fields the callers hand to transact
  MaxSdus,       \* bound: I-fields the device has to send
  MaxLosses,     \* bound: frames the infrared link loses
  Capacity,      \* frames held by the chip FIFO and the USB pipe, per direction
  MaxStaleUas,   \* bound: answers to repeated SNRMs, unread when connect returns
  Prompt,        \* TRUE: no response window closes while an answer is coming
  SplitReplies   \* TRUE: the device may send I without F, then RR with F

ASSUME LinkAssumption ==
  /\ Retries \in Nat \ {0}
  /\ MaxOffers \in Nat /\ MaxSdus \in Nat /\ MaxLosses \in Nat
  /\ Capacity \in Nat \ {0} /\ MaxStaleUas \in 0 .. Capacity
  /\ Prompt \in BOOLEAN /\ SplitReplies \in BOOLEAN

VARIABLES
  vs, vr,        \* V(s) and V(r) of the primary
  pc,            \* "idle" between calls, "listening" in transact, "failed"
  try,           \* transmissions made by the current transact
  frame,         \* the frame the current transact sends
  offered,       \* how many I-fields the callers handed to transact
  received,      \* the I-fields transact returned, in order (history)
  dvs, dvr,      \* the device's V(s) (oldest unacknowledged) and V(r)
  unacked,       \* the device's last I-frame is not acknowledged yet
  sent,          \* how many I-fields the device has sent
  accepted,      \* the I-fields the device took, in order (history)
  toDevice, fromDevice,   \* the infrared link
  lost           \* frames lost so far

primaryVars == <<vs, vr, pc, try, frame, offered, received>>
deviceVars  == <<dvs, dvr, unacked, sent, accepted>>
airVars     == <<toDevice, fromDevice, lost>>
linkVars    == <<primaryVars, deviceVars, airVars>>

-----------------------------------------------------------------------------
(* Sequence numbers have three bits: every use in the code is "& 0x07".    *)
Modulus == 8
SeqNum  == 0 .. Modulus - 1

Succ(n) == (n + 1) % Modulus

(* Frames.  "I" carries an I-field; "S" is supervisory; "U" is a UA, which *)
(* transact reads as supervisory because bit 0 of its control byte is set: *)
(* 0x73 then looks like N(r) = 3 with the final bit.                       *)
Frame == [kind : {"I", "S", "U"}, ns : SeqNum, nr : SeqNum,
          data : Nat, pf : BOOLEAN]

InfoFrame(ns, nr, k, pf) ==
  [kind |-> "I", ns |-> ns, nr |-> nr, data |-> k, pf |-> pf]
RR(nr) == [kind |-> "S", ns |-> 0, nr |-> nr, data |-> 0, pf |-> TRUE]
UA     == [kind |-> "U", ns |-> 0, nr |-> 3, data |-> 0, pf |-> TRUE]

(* A frame that finds the receiver's FIFO full is dropped by the hardware. *)
Put(q, f) == IF Len(q) < Capacity THEN Append(q, f) ELSE q

(* All but the first n elements. *)
Drop(q, n) == SubSeq(q, n + 1, Len(q))

-----------------------------------------------------------------------------
(* The state connect leaves behind: V(s) = V(r) = 0 on both sides, and the *)
(* answers to SNRMs that were sent again, if it was one of the earlier     *)
(* answers that ended the handshake.                                       *)
LinkInit ==
  /\ vs = 0 /\ vr = 0
  /\ pc = "idle" /\ try = 0 /\ frame = RR(0)
  /\ offered = 0 /\ received = <<>>
  /\ dvs = 0 /\ dvr = 0 /\ unacked = FALSE
  /\ sent = 0 /\ accepted = <<>>
  /\ toDevice = <<>> /\ lost = 0
  /\ \E n \in 0 .. MaxStaleUas : fromDevice = [i \in 1 .. n |-> UA]

-----------------------------------------------------------------------------
(* The primary: transact.                                                  *)

(* The frame is built once, before the retry loop, from V(s) and V(r).     *)
Begin(f) ==
  /\ pc = "idle"
  /\ pc' = "listening"
  /\ frame' = f
  /\ try' = 1
  /\ toDevice' = Put(toDevice, f)
  /\ UNCHANGED <<vs, vr, received, deviceVars, fromDevice, lost>>

(* transact(stir, Some(data)): an I-frame. *)
BeginInfo ==
  /\ offered < MaxOffers
  /\ offered' = offered + 1
  /\ Begin(InfoFrame(vs, vr, offered + 1, TRUE))

(* transact(stir, None): an RR poll. *)
BeginPoll ==
  /\ Begin(RR(vr))
  /\ UNCHANGED offered

(* The response window closes.  Prompt asks that nothing be in the air.    *)
WindowClosesMut == pc = "listening" /\ fromDevice # <<>>   \* a read that blocks
WindowCloses ==
  /\ pc = "listening"
  /\ Prompt => toDevice = <<>> /\ fromDevice = <<>>

TriesLeftMut == try < Retries - 1       \* one transmission too few
TriesOverMut == try <= Retries          \* one too many
TriesLeft == try < Retries

ResentMut(f) == IF f.kind = "I" THEN [f EXCEPT !.ns = Succ(vs)] ELSE f
Resent(f) == f                          \* the frame goes out unchanged

Retransmit ==
  /\ WindowCloses
  /\ TriesLeft
  /\ try' = try + 1
  /\ toDevice' = Put(toDevice, Resent(frame))
  /\ UNCHANGED <<vs, vr, pc, frame, offered, received, deviceVars,
                 fromDevice, lost>>

(* The retry loop ends: transact returns (false, None). *)
GiveUp ==
  /\ WindowCloses
  /\ ~TriesLeft
  /\ pc' = "idle"
  /\ UNCHANGED <<vs, vr, try, frame, offered, received, deviceVars, airVars>>

(* "(n + 1) & 0x07". *)
IncrementMut(n) == n + 1                \* the mask forgotten
Increment(n) == Succ(n)

(* V(s) advances when an I-frame was sent and N(r) is the number after it. *)
AcknowledgesMut(f) == frame.kind = "I"  \* any answer taken for an acknowledgement
Acknowledges(f) == frame.kind = "I" /\ f.nr = Increment(vs)

(* An I-frame is taken when its N(s) is V(r). *)
InSequenceMut(f) == f.kind = "I"                    \* N(s) not looked at
InSequenceVsMut(f) == f.kind = "I" /\ f.ns = vs     \* the other counter
InSequence(f) == f.kind = "I" /\ f.ns = vr

Advance(f) ==
  /\ vs' = IF Acknowledges(f) THEN Increment(vs) ELSE vs
  /\ vr' = IF InSequence(f) THEN Increment(vr) ELSE vr

(* A frame with the final bit ends transact.  The frames that came in the  *)
(* same bulk read are dropped with the list push_all returned.             *)
ReceiveFinal ==
  /\ pc = "listening"
  /\ fromDevice # <<>>
  /\ LET f == Head(fromDevice) IN
       /\ f.pf
       /\ Advance(f)
       /\ received' = IF InSequence(f) THEN Append(received, f.data)
                      ELSE received
  /\ \E n \in 1 .. Len(fromDevice) : fromDevice' = Drop(fromDevice, n)
  /\ pc' = "idle"
  /\ UNCHANGED <<try, frame, offered, deviceVars, toDevice, lost>>

(* A frame without it updates V(s) and V(r) and is otherwise forgotten:    *)
(* the local "out" of the loop body is not kept.                           *)
ReceiveNonFinal ==
  /\ pc = "listening"
  /\ fromDevice # <<>>
  /\ LET f == Head(fromDevice) IN ~f.pf /\ Advance(f)
  /\ fromDevice' = Tail(fromDevice)
  /\ UNCHANGED <<pc, try, frame, offered, received, deviceVars, toDevice, lost>>

(* send_sir fails at the start of a try: transact returns the error and    *)
(* every caller passes it on to main, which exits.                         *)
UsbFailure ==
  /\ pc = "idle" \/ (WindowCloses /\ TriesLeft)
  /\ pc' = "failed"
  /\ UNCHANGED <<vs, vr, try, frame, offered, received, deviceVars, airVars>>

-----------------------------------------------------------------------------
(* The device, external.  It answers every poll: it takes an I-frame whose *)
(* N(s) is its V(r), it repeats its own I-frame until N(r) acknowledges    *)
(* it, and otherwise sends a new I-field if it has one, or an RR.          *)

DeviceTakes(f) == f.kind = "I" /\ f.ns = dvr

DeviceReads(f) ==
  /\ dvr' = IF DeviceTakes(f) THEN Succ(dvr) ELSE dvr
  /\ accepted' = IF DeviceTakes(f) THEN Append(accepted, f.data) ELSE accepted

Acked(f) == unacked /\ f.nr = Succ(dvs)
Free(f)  == ~unacked \/ Acked(f)

(* The answer is one frame with the final bit, or two when it is split.    *)
Answer(q, ns, nr, k) ==
  \/ q' = Put(q, InfoFrame(ns, nr, k, TRUE))
  \/ SplitReplies /\ q' = Put(Put(q, InfoFrame(ns, nr, k, FALSE)), RR(nr))

DeviceRepeats(f) ==
  /\ ~Free(f)
  /\ Answer(fromDevice, dvs, dvr', sent)
  /\ UNCHANGED <<dvs, unacked, sent>>

DeviceSendsNew(f) ==
  /\ Free(f)
  /\ sent < MaxSdus
  /\ sent' = sent + 1
  /\ unacked' = TRUE
  /\ dvs' = IF unacked THEN Succ(dvs) ELSE dvs
  /\ Answer(fromDevice, dvs', dvr', sent')

DeviceSendsRR(f) ==
  /\ Free(f)
  /\ unacked' = FALSE
  /\ dvs' = IF unacked THEN Succ(dvs) ELSE dvs
  /\ fromDevice' = Put(fromDevice, RR(dvr'))
  /\ UNCHANGED sent

DeviceAnswers ==
  /\ toDevice # <<>>
  /\ LET f == Head(toDevice) IN
       /\ DeviceReads(f)
       /\ DeviceRepeats(f) \/ DeviceSendsNew(f) \/ DeviceSendsRR(f)
  /\ toDevice' = Tail(toDevice)
  /\ UNCHANGED <<primaryVars, lost>>

-----------------------------------------------------------------------------
(* The infrared link loses a frame: its FCS fails and it is dropped.       *)
LoseToDevice ==
  /\ toDevice # <<>> /\ lost < MaxLosses
  /\ toDevice' = Tail(toDevice)
  /\ lost' = lost + 1
  /\ UNCHANGED <<primaryVars, deviceVars, fromDevice>>

LoseFromDevice ==
  /\ fromDevice # <<>> /\ lost < MaxLosses
  /\ fromDevice' = Tail(fromDevice)
  /\ lost' = lost + 1
  /\ UNCHANGED <<primaryVars, deviceVars, toDevice>>

-----------------------------------------------------------------------------
Primary == Retransmit \/ GiveUp \/ ReceiveFinal \/ ReceiveNonFinal
Environment == DeviceAnswers \/ LoseToDevice \/ LoseFromDevice

LinkNext ==
  \/ BeginInfo \/ BeginPoll
  \/ Primary \/ UsbFailure
  \/ Environment

LinkSpec == LinkInit /\ [][LinkNext]_linkVars

(* What the code's loops give: transact runs to its end, the callers poll  *)
(* on (Ttp::recv for 2000 empty answers), and the device answers polls.    *)
LinkFairness ==
  /\ WF_linkVars(Primary)
  /\ WF_linkVars(BeginPoll)
  /\ WF_linkVars(DeviceAnswers)

FairLinkSpec == LinkSpec /\ LinkFairness

-----------------------------------------------------------------------------
(* Properties.                                                             *)

(* Every variable has its type. *)
TypeOK ==
  /\ vs \in SeqNum /\ vr \in SeqNum
  /\ pc \in {"idle", "listening", "failed"}
  /\ try \in 0 .. Retries
  /\ frame \in Frame
  /\ offered \in Nat /\ sent \in Nat
  /\ received \in Seq(Nat) /\ accepted \in Seq(Nat)
  /\ dvs \in SeqNum /\ dvr \in SeqNum
  /\ unacked \in BOOLEAN
  /\ toDevice \in Seq(Frame) /\ fromDevice \in Seq(Frame)
  /\ lost \in 0 .. MaxLosses

(* The I-fields transact returns are the device's, in order, none missing  *)
(* and none twice, whatever is lost, late or dropped with the rest of a    *)
(* bulk read; and the device is never more than one ahead.                 *)
ReceivedInOrder ==
  /\ \A i \in 1 .. Len(received) : received[i] = i
  /\ Len(received) \in {sent, sent - 1}

(* The device takes no I-field twice and none out of order: a frame that   *)
(* is sent again, or reaches it late, is not a new command.                *)
AcceptedInOrder ==
  /\ \A i \in 1 .. Len(accepted) : accepted[i] \in 1 .. offered
  /\ \A i, j \in 1 .. Len(accepted) : i < j => accepted[i] < accepted[j]

(* The two ends never disagree by more than the window of one: the next    *)
(* frame the device takes is the one the primary is sending or the one     *)
(* after it, and likewise the other way.                                   *)
WindowOfOne ==
  /\ dvr \in {vs, Succ(vs)}
  /\ vr \in {dvs, Succ(dvs)}

(* Between calls, everything handed to transact has reached the device.    *)
(* It takes a prompt device, no answer left over from the handshake, and   *)
(* fewer losses than tries.                                                *)
OffersArrive == pc = "idle" => Len(accepted) = offered

(* An I-frame is counted as acknowledged only when the device took the     *)
(* I-field it carries (under the same conditions).                         *)
AcknowledgedWasTaken ==
  [][vs' # vs => /\ accepted # <<>>
                 /\ accepted[Len(accepted)] = frame.data]_linkVars

(* Every transact ends: by an answer, after Retries windows, or by an      *)
(* error.                                                                  *)
TransactEnds == pc = "listening" ~> pc # "listening"

(* Every I-field the device sends, transact returns in the end, if its     *)
(* callers poll on and no answer is split in two.  (Of a split one the     *)
(* I-field is acknowledged and thrown away: see ReceiveNonFinal.)          *)
SingleAnswers == \A i \in DOMAIN fromDevice : fromDevice[i].pf

EverySduReceived ==
  []SingleAnswers =>
    \A k \in 1 .. MaxSdus :
      sent = k ~> pc = "failed" \/ \E i \in DOMAIN received : received[i] = k

-----------------------------------------------------------------------------
(* Why they hold when answers are single frames: LinkInv is inductive (the *)
(* proof is in IrlapLinkProofs).  It counts I-fields without bound, takes  *)
(* sequence numbers as these counts modulo 8, and says of every frame in   *)
(* the air how far from the present it can come from.                      *)

Num(n) == n % Modulus

Taken       == Len(accepted)
TakenBefore == accepted # <<>>
LastTaken   == IF accepted = <<>> THEN 0 ELSE accepted[Len(accepted)]
Settled     == IF unacked THEN sent - 1 ELSE sent    \* known to have arrived

Counters ==
  /\ unacked => sent > 0
  /\ Len(received) \in {Settled, sent}
  /\ vr = Num(Len(received))
  /\ dvs = Num(Settled)
  /\ dvr = Num(Taken)
  /\ vs = Num(Taken) \/ (TakenBefore /\ vs = Num(Taken - 1))

Histories ==
  /\ \A i \in 1 .. Len(received) : received[i] = i
  /\ AcceptedInOrder

(* The transact in progress. *)
FrameCurrent ==
  pc = "listening" =>
    /\ frame.kind \in {"I", "S"} /\ frame.nr = vr
    /\ frame.kind = "I" => /\ frame.ns = vs
                           /\ frame.data = offered
                           /\ offered > 0
                           /\ vs = Num(Taken) => frame.data > LastTaken

(* A frame to the device acknowledges its last I-frame, or what it knows   *)
(* already; it carries the I-field the device expects, or the one before.  *)
Confirms(f) == unacked /\ f.nr = Num(sent)
Fresh(f)    == f.kind = "I" /\ f.ns = Num(Taken)

ToDeviceFrame(f) ==
  /\ f.kind \in {"I", "S"}
  /\ f.nr = Num(Settled) \/ Confirms(f)
  /\ Confirms(f) => Len(received) = sent
  /\ f.kind = "I" => /\ f.data \in 1 .. offered
                     /\ Fresh(f) \/ (TakenBefore /\ f.ns = Num(Taken - 1))
  /\ Fresh(f) => vs = Num(Taken) /\ f.data > LastTaken

ToDevice ==
  /\ \A i \in 1 .. Len(toDevice) : ToDeviceFrame(toDevice[i])
  /\ \A i, j \in 1 .. Len(toDevice) : i < j =>
       /\ Confirms(toDevice[i]) => Confirms(toDevice[j])
       /\ Fresh(toDevice[i]) /\ toDevice[j].kind = "I" => Fresh(toDevice[j])

(* A frame from the device carries its last I-field or the one before; it  *)
(* acknowledges all it took, or all but the last, and then the primary     *)
(* does not know better.  A left-over UA is read before anything else.     *)
Reports(f) == f.nr = Num(Taken)

FromDeviceFrame(f) ==
  /\ f.pf
  /\ f.kind = "I" => /\ f.data \in {Len(received), Len(received) + 1}
                     /\ f.data \in 1 .. sent
                     /\ f.ns = Num(f.data - 1)
  /\ f.kind # "U" => Reports(f) \/ (/\ TakenBefore
                                    /\ f.nr = Num(Taken - 1)
                                    /\ vs = Num(Taken - 1))
  /\ f.kind = "U" => f.nr = 3 /\ vs = 0 /\ Taken < 2

FromDevice ==
  /\ \A i \in 1 .. Len(fromDevice) : FromDeviceFrame(fromDevice[i])
  /\ \A i, j \in 1 .. Len(fromDevice) : i < j =>
       /\ fromDevice[j].kind = "U" => fromDevice[i].kind = "U"
       /\ fromDevice[i].kind = "I" /\ fromDevice[j].kind = "I" =>
            fromDevice[i].data <= fromDevice[j].data
       /\ fromDevice[i].kind # "U" /\ Reports(fromDevice[i]) =>
            Reports(fromDevice[j])

LinkInv == Counters /\ Histories /\ FrameCurrent /\ ToDevice /\ FromDevice
=============================================================================
