----------------------------- MODULE TtpProofs -----------------------------
(***************************************************************************)
(* A session uses its link only as IrlapLink lets a caller: every step of  *)
(* Ttp is a step of the link or leaves it alone.  So what IrlapLinkProofs  *)
(* proves of the link holds in every session, of any length.  With it:     *)
(*                                                                         *)
(*   - the credit the program counts on is credit the device granted       *)
(*     (CreditInv), and the credit given to the device is what the program *)
(*     counts, less what is under way or lost (BoundInv, ExactInv);        *)
(*   - the bytes of a reply reach the caller of the transfer they are for, *)
(*     each once and in order (StreamInv), so that a session is a session of*)
(*     the abstract specification;                                         *)
(*   - a session of a prompt device does not starve (LastsInv).            *)
(***************************************************************************)
EXTENDS Ttp, IrlapLinkProofs, FiniteSetTheorems, SequenceTheorems

-----------------------------------------------------------------------------
LEMMA TtpStepOfLink == [TtpNext]_ttpVars => [LinkNext]_linkVars
<1> SUFFICES ASSUME [TtpNext]_ttpVars PROVE [LinkNext]_linkVars
  OBVIOUS
<1> USE DEF LinkNext
<1>1. CASE Connect
  BY <1>1 DEF Connect, Offer
<1>2. CASE ConfirmPoll
  BY <1>2 DEF ConfirmPoll, Poll
<1>3. CASE NoConfirm
  BY <1>3 DEF NoConfirm
<1>4. CASE NoSendCredit
  BY <1>4 DEF NoSendCredit
<1>5. CASE RecvTurn
  BY <1>5 DEF RecvTurn, Offer, Poll
<1>6. CASE RecvDone
  BY <1>6 DEF RecvDone
<1>7. CASE TransactReturns
  BY <1>7 DEF TransactReturns, Primary
<1>8. CASE TransactGoesOn
  BY <1>8 DEF TransactGoesOn, Primary
<1>9. CASE Send
  BY <1>9 DEF Send, Offer
<1>10. CASE TransactFails
  BY <1>10 DEF TransactFails
<1>11. CASE DeviceTurn
  BY <1>11 DEF DeviceTurn, Environment
<1>12. CASE Air
  BY <1>12 DEF Air, Environment
<1>13. CASE UNCHANGED ttpVars
  BY <1>13 DEF ttpVars
<1>14. QED
  BY <1>1, <1>2, <1>3, <1>4, <1>5, <1>6, <1>7, <1>8, <1>9, <1>10, <1>11, <1>12, <1>13
     DEF TtpNext, Program

(* The session is a user of the link and nothing more.                     *)
THEOREM TtpUsesLink == TtpSpec => LinkSpec
<1>1. TtpInit => LinkInit
  BY DEF TtpInit
<1>2. QED
  BY <1>1, TtpStepOfLink, PTL DEF TtpSpec, LinkSpec
-----------------------------------------------------------------------------
(* Why no command is sent beyond the credit the device granted.  A command *)
(* is paid for when transact returns, whether or not the device took it,   *)
(* and one that was given up on may still be on its way: CreditInv keeps a *)
(* credit for it.  Credit in the device's last I-field counts as granted   *)
(* before transact has returned it.                                        *)

IsSeq(s)     == \E S : s \in Seq(S)
Command(p)   == p.kind = "data" /\ p.cmd # 0
Granted      == IF Len(received) = sent THEN 0 ELSE sdus[sent].credit
PaidLater    == tpc = "sending" /\ LastTaken = offered

(* A command the device would take, other than the one being sent.         *)
Strays == \E i \in 1 .. Len(toDevice) :
            /\ Fresh(toDevice[i]) /\ Command(pdus[toDevice[i].data])
            /\ ~(tpc = "sending" /\ toDevice[i].data = offered)
Kept == IF Strays THEN 1 ELSE 0

Fields == {"state", "credit", "owed", "give", "window"}

SessionTypeOK ==
  /\ send_credit \in Nat /\ IsSeq(requests)
  /\ IsSeq(pdus) /\ Len(pdus) = offered
  /\ \A k \in 1 .. offered : /\ pdus[k].kind \in {"connect", "data"}
                             /\ pdus[k].kind = "connect" => k = 1
  /\ IsSeq(sdus) /\ Len(sdus) = sent
  /\ \A k \in 1 .. sent : sdus[k].credit \in Nat
  /\ DOMAIN dev = Fields
  /\ dev.window \in Int /\ dev.give \in Nat

Stages ==
  /\ dev.state \in {"closed", "confirming"} => sent = 0
  /\ dev.state # "closed" => accepted # <<>>
  /\ received = <<>> => send_credit = 0 /\ \A k \in 1 .. offered : ~Command(pdus[k])
  /\ tpc = "start" => offered = 0
  /\ tpc = "sending" => /\ pc = "listening" /\ frame.kind = "I"
                        /\ Command(pdus[offered]) /\ send_credit >= 1
  /\ pc = "listening" /\ tpc # "sending" /\ frame.kind = "I" => ~Command(pdus[offered])
  /\ pc = "failed" => tpc = "failed"

Balance ==
  /\ pc # "failed" /\ ~PaidLater => send_credit + Granted + Kept <= dev.window
  /\ PaidLater => send_credit + Granted <= dev.window + 1
  /\ pc = "failed" => Kept <= dev.window

CreditInv == SessionTypeOK /\ Stages /\ Balance

-----------------------------------------------------------------------------
LEMMA Appended ==
  ASSUME NEW s, IsSeq(s), NEW x
  PROVE  /\ IsSeq(Append(s, x)) /\ Len(s) \in Nat /\ Len(Append(s, x)) = Len(s) + 1
         /\ Append(s, x)[Len(s) + 1] = x
         /\ \A i \in 1 .. Len(s) : Append(s, x)[i] = s[i]
<1>1. PICK S : s \in Seq(S)
  BY DEF IsSeq
<1>2. s \in Seq(S \cup {x}) /\ x \in S \cup {x}
  BY <1>1
<1>3. Append(s, x) \in Seq(S \cup {x})
  BY <1>2
<1>4. QED
  BY <1>2, <1>3 DEF IsSeq

LEMMA PutElements ==
  ASSUME NEW q \in Seq(Frame), NEW f \in Frame
  PROVE  \A i \in 1 .. Len(Put(q, f)) :
           Put(q, f)[i] = f \/ \E j \in 1 .. Len(q) : Put(q, f)[i] = q[j]
<1>1. CASE Put(q, f) = q
  BY <1>1
<1>2. CASE Put(q, f) # q
  <2>1. /\ Len(Put(q, f)) = Len(q) + 1
        /\ \A i \in 1 .. Len(q) : Put(q, f)[i] = q[i]
        /\ Put(q, f)[Len(q) + 1] = f
    BY <1>2, PutCases, Zenon
  <2>2. Len(q) \in Nat
    OBVIOUS
  <2>3. \A i \in 1 .. Len(q) + 1 : i \in 1 .. Len(q) \/ i = Len(q) + 1
    BY <2>2
  <2>4. QED
    BY <2>1, <2>3
<1>3. QED
  BY <1>1, <1>2

(* What LinkInv says of the I-fields on their way.                         *)
LEMMA OnTheirWay ==
  ASSUME TypeOK, LinkInv
  PROVE  /\ Len(received) \in {sent - 1, sent} /\ Len(received) \in Nat
         /\ sent \in Nat /\ offered \in Nat /\ LastTaken \in 0 .. offered
         /\ \A i \in 1 .. Len(toDevice) :
              Fresh(toDevice[i]) => /\ toDevice[i].data \in 1 .. offered
                                    /\ toDevice[i].data > LastTaken
                                    /\ vs = Num(Taken)
         /\ PaidLater => ~Strays
<1>1. Len(received) \in {sent - 1, sent} /\ Len(received) \in Nat /\ sent \in Nat
      /\ offered \in Nat
  BY DEF TypeOK, LinkInv, Counters, Settled
<1>2. LastTaken \in 0 .. offered
  <2>1. CASE accepted = <<>>
    BY <1>1, <2>1 DEF LastTaken
  <2>2. CASE accepted # <<>>
    <3>1. Len(accepted) \in 1 .. Len(accepted)
      BY <2>2 DEF TypeOK
    <3>2. QED
      BY <1>1, <2>2, <3>1 DEF LastTaken, LinkInv, Histories, AcceptedInOrder
  <2>3. QED
    BY <2>1, <2>2
<1>3. \A i \in 1 .. Len(toDevice) :
        Fresh(toDevice[i]) => /\ toDevice[i].data \in 1 .. offered
                              /\ toDevice[i].data > LastTaken
                              /\ vs = Num(Taken)
  BY DEF LinkInv, ToDevice, ToDeviceFrame, Fresh
<1>4. PaidLater => ~Strays
  BY <1>1, <1>3 DEF PaidLater, Strays
<1>5. QED
  BY <1>1, <1>2, <1>3, <1>4

(* Granted is a number, and Kept is 0 or 1.                                *)
LEMMA Amounts ==
  ASSUME TypeOK, LinkInv, SessionTypeOK
  PROVE  Granted \in Nat /\ Kept \in {0, 1} /\ dev.window \in Int /\ send_credit \in Nat
<1>1. Len(received) # sent => sent \in 1 .. sent
  BY OnTheirWay
<1>2. QED
  BY <1>1 DEF Granted, Kept, SessionTypeOK

(* The device takes nothing: no command becomes one it would take, but for *)
(* "g" if that is sent now, and the one that was being sent.               *)
LEMMA StraysStep ==
  ASSUME TypeOK, LinkInv, accepted' = accepted, NEW g,
         \A i \in 1 .. Len(toDevice') :
           toDevice'[i] = g \/ \E j \in 1 .. Len(toDevice) : toDevice'[i] = toDevice[j],
         g.kind = "I" => ~Command(pdus'[g.data]) \/ (tpc' = "sending" /\ g.data = offered'),
         \A k \in 1 .. offered : pdus'[k] = pdus[k]
  PROVE  Strays' => \/ Strays
                    \/ /\ tpc = "sending" /\ ~PaidLater
                       /\ ~(tpc' = "sending" /\ offered' = offered)
<1> SUFFICES ASSUME Strays'
             PROVE  \/ Strays
                    \/ /\ tpc = "sending" /\ ~PaidLater
                       /\ ~(tpc' = "sending" /\ offered' = offered)
  OBVIOUS
<1>1. PICK i \in 1 .. Len(toDevice') :
        /\ Fresh(toDevice'[i]) /\ Command(pdus'[toDevice'[i].data])
        /\ ~(tpc' = "sending" /\ toDevice'[i].data = offered')
  BY DEF Strays, Fresh, Taken
<1>2. toDevice'[i] # g
  BY <1>1 DEF Fresh
<1>3. PICK j \in 1 .. Len(toDevice) : toDevice'[i] = toDevice[j]
  BY <1>2
<1>4. Fresh(toDevice[j]) /\ toDevice[j].data \in 1 .. offered
      /\ toDevice[j].data > LastTaken
  BY <1>1, <1>3, OnTheirWay
<1>5. Command(pdus[toDevice[j].data])
  BY <1>1, <1>3, <1>4
<1>6. CASE tpc = "sending" /\ toDevice[j].data = offered
  BY <1>1, <1>3, <1>4, <1>6, OnTheirWay DEF PaidLater
<1>7. CASE ~(tpc = "sending" /\ toDevice[j].data = offered)
  BY <1>4, <1>5, <1>7 DEF Strays
<1>8. QED
  BY <1>6, <1>7

-----------------------------------------------------------------------------
(* One step each.  Settle: the balance is kept if the device's side and    *)
(* the credit are, and no further command strays.                          *)
LEMMA Settle ==
  ASSUME TypeOK, LinkInv, SessionTypeOK, SessionTypeOK', Balance, pc # "failed", pc' # "failed",
         UNCHANGED <<dev, sdus, sent, received, send_credit, accepted>>,
         Strays' => Strays,
         PaidLater' <=> PaidLater
  PROVE  Balance'
<1>1. Granted' = Granted /\ dev'.window = dev.window
  BY DEF Granted
<1>2. Kept' <= Kept /\ Kept \in {0, 1} /\ Kept' \in {0, 1}
  BY DEF Kept
<1>3. Granted \in Nat /\ dev.window \in Int /\ send_credit \in Nat
  BY Amounts
<1>4. QED
  BY <1>1, <1>2, <1>3 DEF Balance

(* A call of transact, with the I-field "p" or without.                    *)
LEMMA CallKeeps ==
  ASSUME TypeOK, LinkInv, CreditInv, tpc # "sending", tpc' # "start", IsSeq(requests'),
         pc = "idle", pc' = "listening",
         toDevice' = Put(toDevice, frame'), frame' \in Frame,
         UNCHANGED <<accepted, received, sent, send_credit, sdus, dev>>,
         \/ /\ pdus' = pdus /\ offered' = offered
            /\ frame'.kind # "I" /\ tpc' # "sending"
         \/ \E p :
              /\ pdus' = Append(pdus, p) /\ offered' = offered + 1
              /\ frame'.kind = "I" /\ frame'.data = offered'
              /\ p.kind \in {"connect", "data"} /\ (p.kind = "connect" => offered = 0)
              /\ tpc' = "sending" <=> Command(p)
              /\ tpc' = "sending" => send_credit >= 1
  PROVE  CreditInv'
<1> USE DEF CreditInv
<1>1. /\ offered \in Nat /\ IsSeq(pdus) /\ Len(pdus) = offered /\ LastTaken \in 0 .. offered
      /\ \A k \in 1 .. offered : /\ pdus[k].kind \in {"connect", "data"}
                                 /\ pdus[k].kind = "connect" => k = 1
      /\ send_credit \in Nat
  BY OnTheirWay DEF SessionTypeOK
<1> DEFINE Recorded ==
             /\ IsSeq(pdus') /\ Len(pdus') = offered'
             /\ \A k \in 1 .. offered : pdus'[k] = pdus[k]
             /\ \A k \in 1 .. offered' : /\ pdus'[k].kind \in {"connect", "data"}
                                         /\ pdus'[k].kind = "connect" => k = 1
             /\ frame'.kind = "I" =>
                  /\ offered' = offered + 1 /\ frame'.data = offered'
                  /\ tpc' = "sending" <=> Command(pdus'[offered'])
             /\ tpc' = "sending" => frame'.kind = "I" /\ send_credit >= 1
<1>2. Recorded
  <2>1. CASE pdus' = pdus /\ offered' = offered /\ frame'.kind # "I" /\ tpc' # "sending"
    BY <1>1, <2>1
  <2>2. ASSUME NEW p, pdus' = Append(pdus, p), offered' = offered + 1,
               frame'.kind = "I", frame'.data = offered',
               p.kind \in {"connect", "data"}, p.kind = "connect" => offered = 0,
               tpc' = "sending" <=> Command(p), tpc' = "sending" => send_credit >= 1
        PROVE  Recorded
    <3>1. /\ IsSeq(pdus') /\ Len(pdus') = offered' /\ pdus'[offered'] = p
          /\ \A k \in 1 .. offered : pdus'[k] = pdus[k]
      BY <1>1, <2>2, Appended
    <3>2. \A k \in 1 .. offered' : k \in 1 .. offered \/ k = offered'
      BY <1>1, <2>2
    <3>3. \A k \in 1 .. offered' : /\ pdus'[k].kind \in {"connect", "data"}
                                   /\ pdus'[k].kind = "connect" => k = 1
      BY <1>1, <2>2, <3>1, <3>2
    <3>4. QED
      BY <2>2, <3>1, <3>3
  <2>3. QED
    BY <2>1, <2>2
<1>3. SessionTypeOK'
  BY <1>2 DEF SessionTypeOK
<1>4. Stages'
  <2>1. received = <<>> => send_credit = 0 /\ \A k \in 1 .. offered : ~Command(pdus[k])
    BY DEF Stages
  <2>2. received' = <<>> => \A k \in 1 .. offered' : ~Command(pdus'[k])
    <3>1. SUFFICES ASSUME received = <<>>, NEW k \in 1 .. offered'
                   PROVE  ~Command(pdus'[k])
      OBVIOUS
    <3>2. tpc' # "sending"
      BY <1>2, <2>1, <3>1
    <3>3. CASE k \in 1 .. offered
      BY <1>2, <2>1, <3>1, <3>3
    <3>4. CASE k \notin 1 .. offered
      <4>1. frame'.kind = "I" /\ k = offered'
        BY <1>1, <3>4
      <4>2. QED
        BY <1>2, <3>2, <4>1
    <3>5. QED
      BY <3>3, <3>4
  <2>3. QED
    BY <1>2, <2>1, <2>2 DEF Stages
<1>5. Strays' => Strays
  <2>1. toDevice \in Seq(Frame)
    BY DEF TypeOK
  <2>2. \A i \in 1 .. Len(toDevice') :
           toDevice'[i] = frame' \/ \E j \in 1 .. Len(toDevice) : toDevice'[i] = toDevice[j]
    BY <2>1, PutElements
  <2>3. frame'.kind = "I" => \/ ~Command(pdus'[frame'.data])
                             \/ tpc' = "sending" /\ frame'.data = offered'
    BY <1>2
  <2>4. QED
    BY <1>2, <2>2, <2>3, StraysStep
<1>6. ~PaidLater /\ ~PaidLater'
  <2>1. tpc' = "sending" => LastTaken' # offered'
    <3>1. LastTaken' = LastTaken
      BY DEF LastTaken
    <3>2. tpc' = "sending" => offered' = offered + 1
      BY <1>2
    <3>3. QED
      BY <1>1, <3>1, <3>2
  <2>2. QED
    BY <2>1 DEF PaidLater
<1>7. Balance'
  BY <1>3, <1>5, <1>6, Settle
<1>8. QED
  BY <1>3, <1>4, <1>7

LEMMA CallsKeep ==
  ASSUME TypeOK, TypeOK', LinkInv, CreditInv, Connect \/ ConfirmPoll \/ RecvTurn \/ Send
  PROVE  CreditInv'
<1>1. frame' \in Frame /\ IsSeq(requests) /\ Len(requests) \in Nat
  BY Appended DEF TypeOK, CreditInv, SessionTypeOK
<1>2. ASSUME BeginPoll
      PROVE  /\ pc = "idle" /\ pc' = "listening" /\ toDevice' = Put(toDevice, frame')
             /\ UNCHANGED <<accepted, received, sent, offered>> /\ frame'.kind # "I"
  BY <1>2 DEF BeginPoll, Begin, RR, deviceVars
<1>3. ASSUME BeginInfo
      PROVE  /\ pc = "idle" /\ pc' = "listening" /\ toDevice' = Put(toDevice, frame')
             /\ UNCHANGED <<accepted, received, sent>> /\ frame'.kind = "I"
             /\ offered' = offered + 1 /\ frame'.data = offered'
  BY <1>3 DEF BeginInfo, Begin, InfoFrame, deviceVars
<1>4. CASE Connect
  <2>1. /\ tpc = "start" /\ tpc' = "connecting" /\ BeginInfo
        /\ pdus' = Append(pdus, ToDev("connect", 0, CreditTarget))
        /\ UNCHANGED <<send_credit, sdus, dev, requests>>
    BY <1>4 DEF Connect, Offer, Outside
  <2>2. offered = 0
    BY <2>1 DEF CreditInv, Stages
  <2>3. ToDev("connect", 0, CreditTarget).kind = "connect"
        /\ ~Command(ToDev("connect", 0, CreditTarget))
    BY DEF ToDev, Command
  <2>4. QED
    BY <1>1, <1>3, <2>1, <2>2, <2>3, CallKeeps
<1>5. CASE ConfirmPoll
  <2>1. /\ tpc = "confirming" /\ tpc' = tpc /\ BeginPoll /\ pdus' = pdus
        /\ UNCHANGED <<send_credit, sdus, dev, requests>>
    BY <1>5 DEF ConfirmPoll, Poll, Outside
  <2>2. QED
    BY <1>1, <1>2, <2>1, CallKeeps
<1>6. CASE RecvTurn
  <2>1. /\ tpc = "receiving" /\ tpc' = tpc
        /\ UNCHANGED <<send_credit, sdus, dev, requests>>
        /\ \/ BeginInfo /\ pdus' = Append(pdus, ToDev("data", 0, Grant))
           \/ BeginPoll /\ pdus' = pdus
    BY <1>6 DEF RecvTurn, Offer, Poll, Outside
  <2>2. ToDev("data", 0, Grant).kind = "data" /\ ~Command(ToDev("data", 0, Grant))
    BY DEF ToDev, Command
  <2>3. CASE BeginInfo /\ pdus' = Append(pdus, ToDev("data", 0, Grant))
    BY <1>1, <1>3, <2>1, <2>2, <2>3, CallKeeps
  <2>4. CASE BeginPoll /\ pdus' = pdus
    BY <1>1, <1>2, <2>1, <2>4, CallKeeps
  <2>5. QED
    BY <2>1, <2>3, <2>4
<1>7. CASE Send
  <2> DEFINE p == ToDev("data", Len(requests) + 1, Grant)
  <2>1. /\ tpc = "ready" /\ tpc' = "sending" /\ BeginInfo /\ pdus' = Append(pdus, p)
        /\ send_credit > 0
        /\ UNCHANGED <<send_credit, sdus, dev>>
    BY <1>7 DEF Send, Offer, Outside
  <2>2. IsSeq(requests')
    BY <1>1, <1>7, Appended DEF Send
  <2>3. p.kind = "data" /\ Command(p)
    BY <1>1 DEF ToDev, Command
  <2>4. send_credit >= 1
    BY <2>1 DEF CreditInv, SessionTypeOK
  <2> HIDE DEF p
  <2>5. QED
    BY <1>1, <1>3, <2>1, <2>2, <2>3, <2>4, CallKeeps
<1>8. QED
  BY <1>4, <1>5, <1>6, <1>7

(* No call begins or ends: a loop of a caller, a retry, a lost frame.      *)
LEMMA RestKeep ==
  ASSUME ~SplitReplies, TypeOK, LinkInv, CreditInv,
         \/ NoConfirm \/ NoSendCredit \/ RecvDone \/ TransactGoesOn \/ Air
         \/ UNCHANGED ttpVars
  PROVE  CreditInv'
<1> USE DEF CreditInv
<1> DEFINE Same == /\ UNCHANGED <<sdus, dev, pdus, send_credit, requests>>
                   /\ UNCHANGED <<accepted, received, sent, offered, pc, frame>>
           Stay == \/ tpc' = tpc
                   \/ tpc \notin {"sending", "failed"} /\ tpc' \notin {"start", "sending"}
           Lines == \/ toDevice' = toDevice
                    \/ toDevice' = Put(toDevice, frame) /\ pc = "listening"
                    \/ toDevice # <<>> /\ toDevice' = Tail(toDevice)
<1>1. Same /\ Stay /\ Lines
  <2>1. CASE NoConfirm \/ NoSendCredit \/ RecvDone
    <3>1. Same /\ toDevice' = toDevice
      BY <2>1 DEF NoConfirm, NoSendCredit, RecvDone, Outside, linkVars, primaryVars,
                  deviceVars, airVars
    <3>2. tpc' \in {"failed", "receiving", "ready"}
      BY <2>1 DEF NoConfirm, NoSendCredit, RecvDone
    <3>3. tpc \notin {"sending", "failed"}
      BY <2>1 DEF NoConfirm, NoSendCredit, RecvDone
    <3>4. QED
      BY <3>1, <3>2, <3>3
  <2>2. CASE TransactGoesOn
    <3>1. ~ReceiveNonFinal
      <4>1. fromDevice # <<>> => Head(fromDevice) = fromDevice[1] /\ 1 \in 1 .. Len(fromDevice)
        BY DEF TypeOK
      <4>2. fromDevice # <<>> => Head(fromDevice).pf
        BY <4>1 DEF LinkInv, FromDevice, FromDeviceFrame
      <4>3. QED
        BY <4>2 DEF ReceiveNonFinal
    <3>2. QED
      BY <2>2, <3>1 DEF TransactGoesOn, Retransmit, WindowCloses, Resent, Outside,
                        sessionVars, deviceVars
  <2>3. CASE Air
    <3>1. Same /\ Stay
      BY <2>3 DEF Air, LoseToDevice, LoseFromDevice, Outside, sessionVars, primaryVars,
                  deviceVars
    <3>2. Lines
      BY <2>3 DEF Air, LoseToDevice, LoseFromDevice
    <3>3. QED
      BY <3>1, <3>2
  <2>4. CASE UNCHANGED ttpVars
    BY <2>4 DEF ttpVars, sessionVars, linkVars, primaryVars, deviceVars, airVars
  <2>5. QED
    BY <2>1, <2>2, <2>3, <2>4
<1>2. SessionTypeOK'
  BY <1>1 DEF SessionTypeOK
<1>3. Stages'
  BY <1>1 DEF Stages
<1>4. Strays' => Strays
  <2>1. toDevice \in Seq(Frame) /\ frame \in Frame
    BY DEF TypeOK
  <2>2. \A i \in 1 .. Len(toDevice') :
           \/ toDevice'[i] = frame /\ pc = "listening"
           \/ \E j \in 1 .. Len(toDevice) : toDevice'[i] = toDevice[j]
    <3>1. CASE toDevice' = toDevice
      BY <3>1
    <3>2. CASE toDevice' = Put(toDevice, frame) /\ pc = "listening"
      BY <2>1, <3>2, PutElements
    <3>3. CASE toDevice # <<>> /\ toDevice' = Tail(toDevice)
      <4>1. Len(toDevice') = Len(toDevice) - 1
            /\ \A i \in 1 .. Len(toDevice') : toDevice'[i] = toDevice[i + 1]
        BY <2>1, <3>3
      <4>2. \A i \in 1 .. Len(toDevice') : i + 1 \in 1 .. Len(toDevice)
        BY <2>1, <4>1
      <4>3. QED
        BY <4>1, <4>2
    <3>4. QED
      BY <1>1, <3>1, <3>2, <3>3
  <2>3. pc = "listening" /\ frame.kind = "I" =>
           \/ ~Command(pdus'[frame.data])
           \/ tpc' = "sending" /\ frame.data = offered'
    BY <1>1 DEF Stages, LinkInv, FrameCurrent
  <2>4. tpc = "sending" => tpc' = "sending" /\ offered' = offered
    BY <1>1 DEF Stages
  <2>5. CASE pc = "listening"
    BY <1>1, <2>2, <2>3, <2>4, <2>5, StraysStep
  <2>6. CASE pc # "listening"
    <3>1. RR(0).kind # "I"
      BY DEF RR
    <3>2. QED
      BY <1>1, <2>2, <2>4, <2>6, <3>1, StraysStep
  <2>7. QED
    BY <2>5, <2>6
<1>5. PaidLater' <=> PaidLater
  BY <1>1 DEF PaidLater, LastTaken, Stages
<1>6. Balance'
  <2>1. CASE pc # "failed"
    BY <1>1, <1>2, <1>4, <1>5, <2>1, Settle
  <2>2. CASE pc = "failed"
    <3>1. ~PaidLater
      BY <2>2 DEF PaidLater, Stages
    <3>2. Kept' <= Kept /\ Kept \in {0, 1} /\ Kept' \in {0, 1}
      BY <1>4 DEF Kept
    <3>3. Kept <= dev.window /\ dev.window \in Int /\ dev' = dev /\ pc' = pc
      BY <1>1, <2>2 DEF Balance, SessionTypeOK
    <3>4. Kept' <= dev'.window
      BY <3>2, <3>3
    <3>5. QED
      BY <1>5, <2>2, <3>1, <3>3, <3>4 DEF Balance
  <2>3. QED
    BY <2>1, <2>2
<1>7. QED
  BY <1>2, <1>3, <1>6

(* The program stops with a command on its way.                            *)
LEMMA FailsKeep ==
  ASSUME TypeOK, LinkInv, CreditInv, TransactFails
  PROVE  CreditInv'
<1> USE DEF CreditInv
<1>1. /\ UNCHANGED <<sdus, dev, pdus, send_credit, requests>>
      /\ UNCHANGED <<accepted, received, sent, offered, toDevice>>
      /\ tpc # "failed" /\ tpc' = "failed" /\ pc' = "failed"
  BY DEF TransactFails, UsbFailure, Outside, deviceVars, airVars
<1>2. SessionTypeOK' /\ Stages'
  BY <1>1 DEF SessionTypeOK, Stages
<1>3. Strays' => Strays \/ (tpc = "sending" /\ ~PaidLater)
  <2>1. RR(0).kind # "I"
    BY DEF RR
  <2>2. QED
    BY <1>1, <2>1, StraysStep
<1>4. ~PaidLater' /\ pc # "failed"
  BY <1>1 DEF PaidLater, Stages
<1>5. Granted \in Nat /\ Kept \in {0, 1} /\ Kept' \in {0, 1} /\ dev.window \in Int
      /\ send_credit \in Nat
  BY Amounts DEF Kept
<1>6. Kept' <= dev.window
  <2>1. CASE PaidLater
    <3>1. ~Strays'
      BY <1>3, <2>1, OnTheirWay
    <3>2. send_credit >= 1 /\ send_credit + Granted <= dev.window + 1
      BY <2>1 DEF PaidLater, Stages, Balance
    <3>3. QED
      BY <1>5, <3>1, <3>2 DEF Kept
  <2>2. CASE ~PaidLater
    <3>1. send_credit + Granted + Kept <= dev.window /\ (tpc = "sending" => send_credit >= 1)
      BY <1>4, <2>2 DEF Stages, Balance
    <3>2. Kept' <= Kept \/ tpc = "sending"
      BY <1>3 DEF Kept
    <3>3. QED
      BY <1>5, <3>1, <3>2
  <2>3. QED
    BY <2>1, <2>2
<1>7. Balance'
  <2>1. dev'.window = dev.window
    BY <1>1
  <2>2. QED
    BY <1>1, <1>4, <1>6, <2>1 DEF Balance
<1>8. QED
  BY <1>2, <1>7

(* What transact returns is the device's last I-field, or nothing.         *)
LEMMA ReturnsKeep ==
  ASSUME TypeOK, TypeOK', LinkInv, LinkInv', CreditInv, TransactReturns
  PROVE  CreditInv'
<1> USE DEF CreditInv
<1>1. /\ UNCHANGED <<sdus, dev, pdus, requests>>
      /\ UNCHANGED <<accepted, sent, offered, toDevice>>
      /\ pc = "listening" /\ pc' = "idle"
      /\ tpc \in {"connecting", "confirming", "sending", "receiving"}
      /\ tpc' \in {"ready", "confirming", "receiving", "failed"}
  <2>1. ASSUME NEW pdu, Returns(pdu)
        PROVE  /\ UNCHANGED <<sdus, dev, pdus, requests>>
               /\ tpc \in {"connecting", "confirming", "sending", "receiving"}
               /\ tpc' \in {"ready", "confirming", "receiving", "failed"}
    BY <2>1 DEF Returns, ConnectReturns, ConfirmReturns, SendReturns, RecvReturns, Outside
  <2>2. ReceiveFinal \/ GiveUp => /\ UNCHANGED <<accepted, sent, offered, toDevice>>
                                  /\ pc = "listening" /\ pc' = "idle"
    BY DEF ReceiveFinal, GiveUp, WindowCloses, deviceVars, airVars
  <2>3. (ReceiveFinal \/ GiveUp) /\ \E pdu : Returns(pdu)
    BY DEF TransactReturns
  <2>4. QED
    BY <2>1, <2>2, <2>3
<1>2. Granted \in Nat /\ Kept \in {0, 1} /\ Kept' \in {0, 1} /\ dev.window \in Int
      /\ send_credit \in Nat
  BY Amounts DEF Kept
<1>3. \A pdu : Returns(pdu) =>
        send_credit' = send_credit - Spent
                       + (IF pdu.kind \in {"data", "cnf"} THEN pdu.credit ELSE 0)
  BY DEF Returns, ConnectReturns, ConfirmReturns, SendReturns, RecvReturns, Absorb
<1> DEFINE Brings(c, g) == /\ send_credit' = send_credit - Spent + c
                           /\ Granted' = g /\ c + g <= Granted
                           /\ received' = <<>> => received = <<>> /\ c = 0
<1>4. PICK c \in Nat, g \in Nat : Brings(c, g)
  <2>1. CASE received' = received /\ Returns(Nothing)
    <3>1. Nothing.kind = "none"
      BY DEF Nothing, FromDev
    <3>2. send_credit' = send_credit - Spent + 0
      BY <1>3, <2>1, <3>1
    <3>3. Granted' = Granted
      BY <1>1, <2>1 DEF Granted
    <3>4. Brings(0, Granted)
      BY <1>2, <2>1, <3>2, <3>3
    <3>5. QED
      BY <1>2, <3>4
  <2>2. ASSUME NEW k, received' = Append(received, k), Returns(sdus[k])
        PROVE  \E c \in Nat, g \in Nat : Brings(c, g)
    <3> DEFINE c == IF sdus[k].kind \in {"data", "cnf"} THEN sdus[k].credit ELSE 0
    <3>1. /\ received \in Seq(Nat) /\ received' \in Seq(Nat)
          /\ Len(received) \in {sent - 1, sent} /\ Len(received) \in Nat
          /\ sent \in Nat
      BY OnTheirWay DEF TypeOK
    <3>2. /\ Len(received') \in {sent - 1, sent}
          /\ \A i \in 1 .. Len(received') : received'[i] = i
      BY <1>1 DEF TypeOK, LinkInv, Histories, Counters, Settled
    <3>3. Len(received') = Len(received) + 1 /\ received'[Len(received) + 1] = k
      <4>1. k \in Nat \/ k \notin Nat
        OBVIOUS
      <4>2. QED
        BY <2>2, <3>1
    <3>4. Len(received) = sent - 1 /\ Len(received') = sent /\ k = sent /\ sent \in 1 .. sent
      BY <3>1, <3>2, <3>3
    <3>5. Granted = sdus[k].credit /\ Granted \in Nat /\ Granted' = 0
      BY <1>1, <1>2, <3>1, <3>4 DEF Granted
    <3>6. c \in Nat /\ c <= Granted
      BY <3>5
    <3>7. received' # <<>>
      BY <3>1, <3>4
    <3>8. send_credit' = send_credit - Spent + c
      BY <1>3, <2>2
    <3> HIDE DEF c
    <3>9. Brings(c, 0)
      BY <3>5, <3>6, <3>7, <3>8
    <3>10. QED
      BY <3>6, <3>9
  <2>3. QED
    <3> DEFINE f == Head(fromDevice)
    <3>1. ASSUME ReceiveFinal, Returns(IF InSequence(f) THEN sdus[f.data] ELSE Nothing)
          PROVE  \E c \in Nat, g \in Nat : Brings(c, g)
      <4>1. received' = IF InSequence(f) THEN Append(received, f.data) ELSE received
        BY <3>1 DEF ReceiveFinal
      <4>2. CASE InSequence(f)
        <5>1. received' = Append(received, f.data) /\ Returns(sdus[f.data])
          BY <3>1, <4>1, <4>2
        <5>2. QED
          BY <2>2, <5>1
      <4>3. CASE ~InSequence(f)
        <5>1. received' = received /\ Returns(Nothing)
          BY <3>1, <4>1, <4>3
        <5>2. QED
          BY <2>1, <5>1
      <4>4. QED
        BY <4>2, <4>3
    <3>2. CASE GiveUp /\ Returns(Nothing)
      BY <2>1, <3>2 DEF GiveUp
    <3>3. QED
      BY <3>1, <3>2 DEF TransactReturns
<1>5. Spent \in {0, 1} /\ (Spent = 1 <=> tpc = "sending")
  BY DEF Spent
<1>6. tpc = "sending" => send_credit >= 1
  BY DEF Stages
<1>7. send_credit' \in Nat
  BY <1>2, <1>4, <1>5, <1>6
<1>8. SessionTypeOK'
  BY <1>1, <1>7 DEF SessionTypeOK
<1>9. Stages'
  <2>1. received' = <<>> => send_credit' = 0
    BY <1>2, <1>4, <1>5, <1>6 DEF Stages
  <2>2. received' = <<>> => received = <<>>
    BY <1>4
  <2>3. QED
    BY <1>1, <2>1, <2>2 DEF Stages
<1>10. Strays' => Strays \/ (tpc = "sending" /\ ~PaidLater)
  <2>1. RR(0).kind # "I"
    BY DEF RR
  <2>2. QED
    BY <1>1, <2>1, StraysStep
<1>11. Balance'
  <2>1. ~PaidLater' /\ pc' # "failed" /\ dev'.window = dev.window
    BY <1>1 DEF PaidLater
  <2>2. PICK k : k = Kept'
    OBVIOUS
  <2>3. send_credit' = send_credit - Spent + c /\ c + g <= Granted
    BY <1>4
  <2>4. send_credit' + g + k <= dev.window
    <3>1. CASE PaidLater
      <4>1. ~Strays' /\ tpc = "sending"
        BY <1>10, <3>1, OnTheirWay DEF PaidLater
      <4>2. send_credit + Granted <= dev.window + 1
        BY <3>1 DEF Balance
      <4>3. k = 0
        BY <2>2, <4>1 DEF Kept
      <4>4. QED
        BY <1>2, <1>5, <2>3, <4>1, <4>2, <4>3
    <3>2. CASE ~PaidLater
      <4>1. send_credit + Granted + Kept <= dev.window
        BY <1>1, <3>2 DEF Balance
      <4>2. k = 0 \/ (k = 1 /\ Kept = 1) \/ (k = 1 /\ tpc = "sending")
        BY <1>10, <2>2 DEF Kept
      <4>3. QED
        BY <1>2, <1>5, <2>3, <4>1, <4>2
    <3>3. QED
      BY <3>1, <3>2
  <2>5. QED
    BY <1>4, <2>1, <2>2, <2>4 DEF Balance
<1>12. QED
  BY <1>8, <1>9, <1>11

-----------------------------------------------------------------------------
(* The device.  What reading a PDU does to its side of the session.        *)
LEMMA ReadsEffect ==
  ASSUME NEW d, DOMAIN d = Fields, d.window \in Int, d.give \in Nat,
         NEW p, p.kind \in {"connect", "data"}
  PROVE  /\ DOMAIN Reads(d, p) = Fields /\ Reads(d, p).give \in Nat
         /\ \/ Reads(d, p).window = d.window
            \/ Reads(d, p).window = d.window - 1 /\ Command(p)
         /\ \/ Reads(d, p).state = d.state
            \/ Reads(d, p).state = "confirming" /\ p.kind = "connect"
<1>1. CASE d.state = "gone"
  BY <1>1 DEF Reads
<1>2. CASE d.state # "gone" /\ p.kind = "connect"
  BY <1>2 DEF Reads, Fields
<1>3. CASE d.state # "gone" /\ p.kind = "data" /\ p.cmd = 0
  BY <1>3 DEF Reads, Fields
<1>4. CASE d.state # "gone" /\ p.kind = "data" /\ p.cmd # 0
  <2>1. Reads(d, p) = [d EXCEPT !.credit = @ + p.credit, !.owed = @ \o Reply(p.cmd),
                                !.give = @ + 1, !.window = @ - 1]
    BY <1>4 DEF Reads
  <2>2. DOMAIN Reads(d, p) = Fields /\ Reads(d, p).give = d.give + 1
        /\ Reads(d, p).window = d.window - 1 /\ Reads(d, p).state = d.state
    BY <2>1 DEF Fields
  <2>3. QED
    BY <1>4, <2>2 DEF Command
<1>5. QED
  BY <1>1, <1>2, <1>3, <1>4

(* What it sends: the credit in a PDU is credit it has granted.            *)
LEMMA SendsEffect ==
  ASSUME NEW d, DOMAIN d = Fields, d.window \in Int, d.give \in Nat,
         NEW a \in Pending(d) \cup Disconnects(d)
  PROVE  /\ d.state \in {"confirming", "open"}
         /\ a[1].credit \in Nat
         /\ DOMAIN a[2] = Fields /\ a[2].give \in Nat
         /\ a[2].state \notin {"closed", "confirming"}
         /\ \/ a[2].window = d.window + a[1].credit
            \/ a[2].window = a[1].credit /\ d.state = "confirming"
<1>1. CASE a \in Confirmations(d)
  <2>1. a = <<FromDev("cnf", <<>>, InitialCredit),
              [d EXCEPT !.state = "open", !.window = InitialCredit]>>
        /\ d.state = "confirming"
    BY <1>1 DEF Confirmations
  <2>2. a[1].credit = InitialCredit
    BY <2>1 DEF FromDev
  <2>3. DOMAIN a[2] = Fields /\ a[2].give = d.give /\ a[2].state = "open"
        /\ a[2].window = InitialCredit
    BY <2>1 DEF Fields
  <2>4. QED
    BY <2>1, <2>2, <2>3, TtpAssumption
<1>2. CASE a \in DataPdus(d)
  <2>1. PICK n, g : d.state = "open" /\ g \in Gives(d) /\ a = Data(d, n, g)
    BY <1>2 DEF DataPdus
  <2>2. a[1].credit = g /\ g \in Nat /\ d.give - g \in Nat
    BY <2>1 DEF Data, Gives, FromDev
  <2>3. DOMAIN a[2] = Fields /\ a[2].give = d.give - g /\ a[2].state = d.state
        /\ a[2].window = d.window + g
    BY <2>1 DEF Data, Fields
  <2>4. QED
    BY <2>1, <2>2, <2>3
<1>3. CASE a \in CreditPdus(d)
  <2>1. a = <<FromDev("data", <<>>, d.give), [d EXCEPT !.give = 0, !.window = @ + d.give]>>
        /\ d.state = "open"
    <3>1. CASE d.state # "open" \/ d.give = 0 \/ ~DatalessGrants
      BY <1>3, <3>1, Zenon DEF CreditPdus
    <3>2. CASE ~(d.state # "open" \/ d.give = 0 \/ ~DatalessGrants)
      BY <1>3, <3>2, Zenon DEF CreditPdus
    <3>3. QED
      BY <3>1, <3>2
  <2>2. a[1].credit = d.give
    BY <2>1 DEF FromDev
  <2>3. DOMAIN a[2] = Fields /\ a[2].give = 0 /\ a[2].state = d.state
        /\ a[2].window = d.window + d.give
    BY <2>1 DEF Fields
  <2>4. QED
    BY <2>1, <2>2, <2>3
<1>4. CASE a \in Disconnects(d)
  BY <1>4 DEF Disconnects, FromDev, Fields
<1>5. QED
  BY <1>1, <1>2, <1>3, <1>4 DEF Pending

LEMMA PduKinds ==
  ASSUME SessionTypeOK, NEW n \in 1 .. offered, NEW p, p = pdus[n]
  PROVE  p.kind \in {"connect", "data"} /\ (p.kind = "connect" => n = 1)
BY DEF SessionTypeOK

(* The arithmetic of a device's turn: it reads w commands (0 or 1) and its *)
(* grant under way goes from gr to g.                                      *)
LEMMA Sums ==
  ASSUME NEW v \in Int, NEW win \in Int, NEW w \in Nat, NEW gr \in Nat, NEW g \in Nat,
         NEW kept \in Nat, NEW k \in Nat, NEW s \in Int,
         v = win - w - gr + g, gr <= g, w <= 1
  PROVE  /\ ((w = 0 /\ k <= kept) \/ (w <= kept /\ k = 0)) /\ kept <= win => k <= v
         /\ w = 0 /\ s + gr <= win + 1 => s + g <= v + 1
         /\ s + gr + kept <= win => s + g <= v + 1
         /\ s + gr + kept <= win /\ ((w = 0 /\ k <= kept) \/ (w <= kept /\ k = 0)) => s + g + k <= v
OBVIOUS

(* The device reads a frame, and may send.                                 *)
LEMMA DeviceKeeps ==
  ASSUME TypeOK, TypeOK', LinkInv, LinkInv', CreditInv, DeviceTurn
  PROVE  CreditInv'
<1> USE DEF CreditInv
<1>0. PICK f, p, d : /\ f = toDevice[1] /\ p = pdus[f.data]
                     /\ d = IF DeviceTakes(f) THEN Reads(dev, p) ELSE dev
  OBVIOUS
<1>1. /\ toDevice # <<>> /\ Head(toDevice) = f /\ toDevice' = Tail(toDevice)
      /\ 1 \in 1 .. Len(toDevice)
      /\ UNCHANGED <<vs, pc, frame, offered, received>>
      /\ UNCHANGED <<tpc, send_credit, requests, pdus>>
      /\ accepted' = IF DeviceTakes(f) THEN Append(accepted, f.data) ELSE accepted
  <2>1. toDevice # <<>>
    BY DEF DeviceTurn, DeviceAnswers
  <2>2. Head(toDevice) = f /\ 1 \in 1 .. Len(toDevice)
    BY <1>0, <2>1 DEF TypeOK
  <2>3. QED
    BY <2>1, <2>2
       DEF DeviceTurn, DeviceAnswers, DeviceReads, sessionVars, primaryVars
<1>2. /\ offered \in Nat /\ sent \in Nat /\ LastTaken \in 0 .. offered
      /\ accepted \in Seq(Nat) /\ send_credit \in Nat
      /\ \A i \in 1 .. Len(toDevice) :
           Fresh(toDevice[i]) => /\ toDevice[i].data \in 1 .. offered
                                 /\ toDevice[i].data > LastTaken
                                 /\ vs = Num(Taken)
  BY OnTheirWay DEF TypeOK, SessionTypeOK
<1>3. DeviceTakes(f) => /\ Fresh(f) /\ f.data \in 1 .. offered /\ f.data > LastTaken
                        /\ vs = Num(Taken)
  <2>1. DeviceTakes(f) => Fresh(f)
    BY DEF DeviceTakes, Fresh, LinkInv, Counters
  <2>2. QED
    BY <1>0, <1>1, <1>2, <2>1
<1>4. DeviceTakes(f) => LastTaken' = f.data /\ accepted' # <<>> /\ ~PaidLater /\ ~Strays'
  <2> SUFFICES ASSUME DeviceTakes(f)
               PROVE  LastTaken' = f.data /\ accepted' # <<>> /\ ~PaidLater /\ ~Strays'
    OBVIOUS
  <2>1. accepted' = Append(accepted, f.data) /\ f.data \in Nat
    BY <1>1, <1>2, <1>3
  <2>2. Len(accepted') = Len(accepted) + 1 /\ accepted' # <<>>
        /\ accepted'[Len(accepted) + 1] = f.data /\ Len(accepted) \in Nat
    BY <1>2, <2>1
  <2>3. LastTaken' = f.data
    BY <2>2 DEF LastTaken
  <2>4. ~PaidLater
    BY <1>2, <1>3 DEF PaidLater
  <2>5. vs' = Num(Len(accepted)) /\ Num(Len(accepted)) # Num(Len(accepted) + 1)
    BY <1>1, <1>3, <2>2, NumSucc DEF Taken
  <2>6. \A i \in 1 .. Len(toDevice') :
          ~(toDevice'[i].kind = "I" /\ toDevice'[i].ns = Num(Len(accepted')))
    <3>1. SUFFICES ASSUME NEW i \in 1 .. Len(toDevice'),
                          toDevice'[i].kind = "I", toDevice'[i].ns = Num(Len(accepted'))
                   PROVE  FALSE
      OBVIOUS
    <3>2. vs' = Num(Len(accepted'))
      BY <3>1 DEF LinkInv, ToDevice, ToDeviceFrame, Fresh, Taken
    <3>3. QED
      BY <2>2, <2>5, <3>2
  <2>7. ~Strays'
    BY <2>6 DEF Strays, Fresh, Taken
  <2>8. QED
    BY <2>2, <2>3, <2>4, <2>7
<1>5. ~DeviceTakes(f) => (Strays' => Strays) /\ (PaidLater' <=> PaidLater)
  <2> SUFFICES ASSUME ~DeviceTakes(f)
               PROVE  (Strays' => Strays) /\ (PaidLater' <=> PaidLater)
    OBVIOUS
  <2>1. accepted' = accepted
    BY <1>1
  <2>2. \A i \in 1 .. Len(toDevice') :
           toDevice'[i] = RR(0) \/ \E j \in 1 .. Len(toDevice) : toDevice'[i] = toDevice[j]
    <3>1. toDevice \in Seq(Frame)
      BY DEF TypeOK
    <3>2. Len(toDevice') = Len(toDevice) - 1
          /\ \A i \in 1 .. Len(toDevice') : toDevice'[i] = toDevice[i + 1]
      BY <1>1, <3>1
    <3>3. \A i \in 1 .. Len(toDevice') : i + 1 \in 1 .. Len(toDevice)
      BY <3>1, <3>2
    <3>4. QED
      BY <3>2, <3>3
  <2>3. RR(0).kind # "I"
    BY DEF RR
  <2>4. Strays' => Strays
    BY <1>1, <2>1, <2>2, <2>3, StraysStep
  <2>5. QED
    BY <1>1, <2>1, <2>4 DEF PaidLater, LastTaken
<1>6. PICK w \in {0, 1} :
        /\ w \in Nat /\ w <= 1
        /\ DOMAIN d = Fields /\ d.give \in Nat /\ d.window \in Int
        /\ d.window = dev.window - w /\ (w = 1 => DeviceTakes(f) /\ Command(p))
        /\ d.state \in {"closed", "confirming"} => sent = 0
        /\ d.state # "closed" => accepted' # <<>>
  <2>1. DOMAIN dev = Fields /\ dev.give \in Nat /\ dev.window \in Int
    BY DEF SessionTypeOK
  <2>2. (dev.state \in {"closed", "confirming"} => sent = 0)
        /\ (dev.state # "closed" => accepted # <<>>)
    BY DEF Stages
  <2>3. CASE ~DeviceTakes(f)
    <3>1. d = dev /\ accepted' = accepted
      BY <1>0, <1>1, <2>3
    <3>2. dev.window = dev.window - 0 /\ 0 \in {0, 1} /\ 0 \in Nat /\ 0 <= 1
      BY <2>1
    <3>3. QED
      BY <2>1, <2>2, <2>3, <3>1, <3>2
  <2>4. CASE DeviceTakes(f)
    <3>1. p.kind \in {"connect", "data"} /\ (p.kind = "connect" => f.data = 1)
      <4>1. f.data \in 1 .. offered
        BY <1>3, <2>4
      <4>2. p = pdus[f.data]
        BY <1>0
      <4>3. QED
        BY <4>1, <4>2, PduKinds
    <3>2. d = Reads(dev, p)
      BY <1>0, <2>4
    <3>3. f.data = 1 => accepted = <<>>
      <4>1. SUFFICES ASSUME f.data = 1, accepted # <<>> PROVE FALSE
        OBVIOUS
      <4>2. Len(accepted) \in 1 .. Len(accepted)
        BY <1>2, <4>1
      <4>3. LastTaken >= 1
        BY <1>2, <4>1, <4>2 DEF LastTaken, LinkInv, Histories, AcceptedInOrder
      <4>4. QED
        BY <1>2, <1>3, <2>4, <4>1, <4>3
    <3>4. p.kind = "connect" => sent = 0
      BY <2>2, <3>1, <3>3
    <3>5. /\ DOMAIN d = Fields /\ d.give \in Nat
          /\ \/ d.window = dev.window
             \/ d.window = dev.window - 1 /\ Command(p)
          /\ \/ d.state = dev.state
             \/ d.state = "confirming" /\ p.kind = "connect"
      BY <2>1, <3>1, <3>2, ReadsEffect
    <3>6. \E w \in {0, 1} : w \in Nat /\ w <= 1 /\ d.window = dev.window - w /\ d.window \in Int /\ (w = 1 => Command(p))
      BY <2>1, <3>5
    <3>7. (d.state \in {"closed", "confirming"} => sent = 0)
      BY <2>2, <3>4, <3>5
    <3>8. accepted' # <<>>
      BY <1>4, <2>4
    <3>9. QED
      BY <2>4, <3>5, <3>6, <3>7, <3>8
  <2>5. QED
    BY <2>3, <2>4
<1>7. /\ Granted \in Nat /\ Kept \in {0, 1} /\ dev.window \in Int
      /\ IsSeq(sdus) /\ Len(sdus) = sent /\ \A k \in 1 .. sent : sdus[k].credit \in Nat
  BY Amounts DEF SessionTypeOK
<1> DEFINE Moves(g) ==
             /\ Granted' = g
             /\ \/ dev'.window = dev.window - w - Granted + g /\ Granted <= g
                \/ dev'.window = g /\ received = <<>>
             /\ IsSeq(sdus') /\ Len(sdus') = sent'
             /\ \A k \in 1 .. sent' : sdus'[k].credit \in Nat
             /\ DOMAIN dev' = Fields /\ dev'.give \in Nat
             /\ dev'.state \in {"closed", "confirming"} => sent' = 0
             /\ dev'.state # "closed" => accepted' # <<>>
<1>8. PICK g \in Nat : Moves(g)
  <2>1. CASE sent' = sent /\ dev' = d /\ sdus' = sdus
    <3>1. Granted' = Granted
      BY <1>1, <2>1 DEF Granted
    <3>2. d.window = dev.window - w - Granted + Granted
      BY <1>6, <1>7
    <3>3. Moves(Granted)
      BY <1>6, <1>7, <2>1, <3>1, <3>2
    <3>4. QED
      BY <1>7, <3>3
  <2>2. ASSUME NEW a \in Pending(d) \cup Disconnects(d),
               sent' = sent + 1, sdus' = Append(sdus, a[1]), dev' = a[2]
        PROVE  \E g \in Nat : Moves(g)
    <3>1. /\ d.state \in {"confirming", "open"}
          /\ a[1].credit \in Nat
          /\ DOMAIN a[2] = Fields /\ a[2].give \in Nat
          /\ a[2].state \notin {"closed", "confirming"}
          /\ \/ a[2].window = d.window + a[1].credit
             \/ a[2].window = a[1].credit /\ d.state = "confirming"
      BY <1>6, SendsEffect
    <3>2. /\ IsSeq(sdus') /\ Len(sdus') = sent' /\ sdus'[sent'] = a[1]
          /\ \A k \in 1 .. sent : sdus'[k] = sdus[k]
      BY <1>7, <2>2, Appended
    <3>3. \A k \in 1 .. sent' : k \in 1 .. sent \/ k = sent'
      BY <1>2, <2>2
    <3>4. \A k \in 1 .. sent' : sdus'[k].credit \in Nat
      BY <1>7, <3>1, <3>2, <3>3
    <3>5. Len(received) = sent /\ Len(received') # sent'
      <4>1. Len(received') = Len(received) /\ Len(received') \in {sent' - 1, sent'}
        BY <1>1 DEF TypeOK, LinkInv, Counters, Settled
      <4>2. Len(received) \in {sent - 1, sent} /\ sent \in Nat
        BY OnTheirWay
      <4>3. QED
        BY <2>2, <4>1, <4>2
    <3>6. Granted = 0 /\ Granted' = a[1].credit
      BY <3>2, <3>5 DEF Granted
    <3>7. d.state = "confirming" => received = <<>>
      <4>1. d.state = "confirming" => Len(received) = 0
        BY <1>6, <3>5
      <4>2. QED
        BY <4>1 DEF TypeOK
    <3>8. \/ dev'.window = dev.window - w - Granted + a[1].credit
          \/ dev'.window = a[1].credit /\ received = <<>>
      BY <1>6, <1>7, <2>2, <3>1, <3>6, <3>7
    <3>9. accepted' # <<>>
      BY <1>6, <3>1
    <3>10. Moves(a[1].credit)
      BY <2>2, <3>1, <3>2, <3>4, <3>6, <3>8, <3>9
    <3>11. QED
      BY <3>1, <3>10
  <2>3. \/ sent' = sent /\ dev' = d /\ sdus' = sdus
        \/ /\ sent' = sent + 1
           /\ \E a \in Pending(d) \cup Disconnects(d) : sdus' = Append(sdus, a[1]) /\ dev' = a[2]
    BY <1>0, <1>1 DEF DeviceTurn
  <2>4. QED
    BY <2>1, <2>2, <2>3
<1>9. SessionTypeOK'
  <2>1. dev'.window \in Int
    BY <1>6, <1>7, <1>8
  <2>2. QED
    BY <1>1, <1>8, <2>1 DEF SessionTypeOK
<1>10. Stages'
  BY <1>1, <1>8 DEF Stages
<1>11. received = <<>> => send_credit = 0 /\ ~Strays /\ ~PaidLater
  <2>1. received = <<>> => send_credit = 0 /\ \A k \in 1 .. offered : ~Command(pdus[k])
    BY DEF Stages
  <2>2. tpc = "sending" => received # <<>>
    BY <1>2, <2>1 DEF Stages
  <2>3. received = <<>> => ~Strays
    BY <1>2, <2>1 DEF Strays
  <2>4. QED
    BY <2>1, <2>2, <2>3 DEF PaidLater
<1>12. PICK k : k = Kept' /\ k \in {0, 1}
  BY DEF Kept
<1>13. DeviceTakes(f) => k = 0
  BY <1>4, <1>12 DEF Kept
<1>14. ~DeviceTakes(f) => k <= Kept
  BY <1>5, <1>12, <1>7 DEF Kept
<1>15. w = 1 => Kept = 1 \/ (tpc = "sending" /\ f.data = offered)
  <2>1. w = 1 => Fresh(f) /\ Command(p)
    BY <1>3, <1>6
  <2>2. QED
    BY <1>0, <1>1, <2>1 DEF Kept, Strays
<1>16. DeviceTakes(f) => (PaidLater' <=> tpc = "sending" /\ f.data = offered)
  BY <1>1, <1>4 DEF PaidLater
<1>17. dev'.window = g /\ received = <<>> => Balance'
  <2> SUFFICES ASSUME dev'.window = g, received = <<>> PROVE Balance'
    OBVIOUS
  <2>1. send_credit = 0 /\ ~Strays /\ ~PaidLater /\ tpc # "sending"
    BY <1>11 DEF Stages, PaidLater
  <2>2. k = 0 /\ ~PaidLater'
    BY <1>1, <1>7, <1>12, <1>13, <1>14, <2>1 DEF Kept, PaidLater
  <2>3. send_credit' = 0 /\ Granted' = g
    BY <1>1, <1>8, <2>1
  <2>4. QED
    BY <1>8, <1>12, <2>2, <2>3 DEF Balance
<1>18. dev'.window = dev.window - w - Granted + g /\ Granted <= g => Balance'
  <2> SUFFICES ASSUME dev'.window = dev.window - w - Granted + g, Granted <= g
               PROVE  Balance'
    OBVIOUS
  <2>1. Granted' = g /\ send_credit' = send_credit /\ pc' = pc /\ tpc' = tpc
    BY <1>1, <1>8
  <2>2. PICK v, win, gr, kept :
          /\ v = dev'.window /\ win = dev.window /\ gr = Granted /\ kept = Kept
          /\ v = win - w - gr + g /\ gr <= g
          /\ win \in Int /\ gr \in Nat /\ kept \in {0, 1}
          /\ w \in Nat /\ w <= 1 /\ v \in Int /\ g \in Nat
    <3>1. PICK win, gr, v : win = dev.window /\ gr = Granted /\ v = dev'.window
      OBVIOUS
    <3>2. win \in Int /\ gr \in Nat /\ v = win - w - gr + g /\ w \in Nat /\ w <= 1
      BY <1>6, <1>7, <3>1
    <3>3. v \in Int
      BY <3>2
    <3>4. QED
      BY <1>7, <3>1, <3>2, <3>3
  <2>7. send_credit \in Int /\ v \in Int /\ win \in Int /\ w \in Nat /\ gr \in Nat /\ g \in Nat
        /\ kept \in Nat /\ k \in Nat /\ w <= 1 /\ kept <= 1 /\ k <= 1
        /\ v = win - w - gr + g /\ gr <= g
    <3>1. send_credit \in Int
      BY DEF SessionTypeOK
    <3>2. kept \in Nat /\ k \in Nat /\ kept <= 1 /\ k <= 1
      BY <1>12, <2>2
    <3>3. QED
      BY ONLY <2>2, <3>1, <3>2
  <2>3. CASE pc = "failed"
    <3>1. kept <= win /\ tpc = "failed"
      BY <2>2, <2>3 DEF Balance, Stages
    <3>2. w <= kept
      BY <1>15, <2>2, <3>1
    <3>3. (w = 0 /\ k <= kept) \/ (w <= kept /\ k = 0)
      BY <1>6, <1>13, <1>14, <2>2, <3>2
    <3>4. k <= v
      BY <2>7, <3>1, <3>3, Sums
    <3>5. ~PaidLater'
      BY <2>1, <3>1 DEF PaidLater
    <3>6. QED
      BY <1>12, <2>1, <2>2, <2>3, <3>4, <3>5 DEF Balance
  <2>4. CASE pc # "failed" /\ PaidLater
    <3>1. ~DeviceTakes(f) /\ w = 0
      BY <1>4, <1>6, <2>4
    <3>2. PaidLater' /\ send_credit + gr <= win + 1
      BY <1>5, <2>2, <2>4, <3>1 DEF Balance
    <3>3. send_credit + g <= v + 1
      BY <2>7, <3>1, <3>2, Sums
    <3>4. QED
      BY <2>1, <2>2, <2>4, <3>2, <3>3 DEF Balance
  <2>5. CASE pc # "failed" /\ ~PaidLater
    <3>1. send_credit + gr + kept <= win
      BY <2>2, <2>5 DEF Balance
    <3>2. CASE PaidLater'
      <4>1. send_credit + g <= v + 1
        BY <2>7, <3>1, Sums
      <4>2. QED
        BY <2>1, <2>2, <2>5, <3>2, <4>1 DEF Balance
    <3>3. CASE ~PaidLater'
      <4>1. (w = 0 /\ k <= kept) \/ (w <= kept /\ k = 0)
        <5>1. CASE DeviceTakes(f)
          <6>1. k = 0 /\ (w = 1 => kept = 1)
            BY <1>13, <1>15, <1>16, <2>2, <3>3, <5>1
          <6>2. w <= kept
            BY <2>7, <6>1
          <6>3. QED
            BY <6>1, <6>2
        <5>2. CASE ~DeviceTakes(f)
          <6>1. w = 0 /\ k <= kept
            BY <1>6, <1>14, <2>2, <5>2
          <6>2. QED
            BY <6>1
        <5>3. QED
          BY <5>1, <5>2
      <4>2. send_credit + g + k <= v
        BY <2>7, <3>1, <4>1, Sums
      <4>3. QED
        BY <1>12, <2>1, <2>2, <2>5, <3>3, <4>2 DEF Balance
    <3>4. QED
      BY <3>2, <3>3
  <2>6. QED
    BY <2>3, <2>4, <2>5
<1>19. QED
  BY <1>8, <1>9, <1>10, <1>17, <1>18

-----------------------------------------------------------------------------
LEMMA InitKeeps == TtpInit => CreditInv
<1> SUFFICES ASSUME TtpInit PROVE CreditInv
  OBVIOUS
<1>1. /\ send_credit = 0 /\ requests = <<>> /\ pdus = <<>> /\ sdus = <<>> /\ tpc = "start"
      /\ dev = [state |-> "closed", credit |-> 0, owed |-> <<>>, give |-> 0, window |-> 0]
      /\ offered = 0 /\ sent = 0 /\ accepted = <<>> /\ received = <<>> /\ toDevice = <<>>
      /\ pc = "idle"
  BY DEF TtpInit, LinkInit
<1>2. IsSeq(<<>>) /\ Len(<<>>) = 0
  BY DEF IsSeq
<1>3. SessionTypeOK
  BY <1>1, <1>2 DEF SessionTypeOK, Fields
<1>4. Stages
  BY <1>1, <1>2 DEF Stages
<1>5. Granted = 0 /\ ~Strays /\ ~PaidLater /\ dev.window = 0
  BY <1>1, <1>2 DEF Granted, Strays, PaidLater
<1>6. QED
  BY <1>1, <1>3, <1>4, <1>5 DEF CreditInv, Balance, Kept

LEMMA NextKeeps ==
  ASSUME ~SplitReplies, TypeOK, LinkInv, CreditInv, [TtpNext]_ttpVars
  PROVE  CreditInv'
<1>1. TypeOK' /\ LinkInv'
  BY TtpStepOfLink, NextType, NextInv
<1>2. CASE Connect \/ ConfirmPoll \/ RecvTurn \/ Send
  BY <1>1, <1>2, CallsKeep
<1>3. CASE \/ NoConfirm \/ NoSendCredit \/ RecvDone \/ TransactGoesOn \/ Air
           \/ UNCHANGED ttpVars
  BY <1>3, RestKeep
<1>4. CASE TransactReturns
  BY <1>1, <1>4, ReturnsKeep
<1>5. CASE TransactFails
  BY <1>5, FailsKeep
<1>6. CASE DeviceTurn
  BY <1>1, <1>6, DeviceKeeps
<1>7. QED
  BY <1>2, <1>3, <1>4, <1>5, <1>6 DEF TtpNext, Program

(* The balance of the credit holds throughout a session: what the program  *)
(* counts (send_credit), what is on its way to it (Granted) and what a     *)
(* command given up on may still cost (Kept) add up to no more than the    *)
(* device granted.                                                         *)
THEOREM TtpCreditInvariant ==
  ASSUME ~SplitReplies
  PROVE  TtpSpec => []CreditInv
<1>1. TtpInit => CreditInv
  BY InitKeeps
<1>2. TypeOK /\ LinkInv /\ CreditInv /\ [TtpNext]_ttpVars => CreditInv'
  BY NextKeeps
<1>3. QED
  BY <1>1, <1>2, TtpUsesLink, LinkTypeCorrect, LinkInvariant, PTL DEF TtpSpec

(* SendCreditBacked, for sessions of any length over a link that loses any *)
(* number of frames: send never spends a credit the device did not grant.  *)
THEOREM TtpSendCreditBacked ==
  ASSUME ~SplitReplies
  PROVE  TtpSpec => []SendCreditBacked
<1>1. TypeOK /\ LinkInv /\ CreditInv => SendCreditBacked
  <2> SUFFICES ASSUME TypeOK, LinkInv, CreditInv PROVE SendCreditBacked
    OBVIOUS
  <2>1. Granted \in Nat /\ Kept \in {0, 1} /\ dev.window \in Int /\ send_credit \in Nat
    BY Amounts DEF CreditInv
  <2>2. tpc = "sending" => pc # "idle" /\ send_credit >= 1
    BY DEF CreditInv, Stages
  <2>3. CASE pc = "failed"
    BY <2>1, <2>3 DEF CreditInv, Balance, SendCreditBacked
  <2>4. CASE pc # "failed" /\ PaidLater
    BY <2>1, <2>2, <2>4 DEF CreditInv, Balance, SendCreditBacked, PaidLater
  <2>5. CASE pc # "failed" /\ ~PaidLater
    BY <2>1, <2>5 DEF CreditInv, Balance, SendCreditBacked
  <2>6. QED
    BY <2>3, <2>4, <2>5
<1>2. QED
  BY <1>1, TtpCreditInvariant, TtpUsesLink, LinkTypeCorrect, LinkInvariant, PTL

(* What the link promises, it promises in a session: a session receives    *)
(* what its device sent, in order and nothing twice.                       *)
THEOREM TtpReceivesInOrder ==
  ASSUME ~SplitReplies
  PROVE  TtpSpec => []ReceivedInOrder
BY TtpUsesLink, LinkReceivesInOrder, PTL

-----------------------------------------------------------------------------
(* Every variable of the session has its type.                             *)
Byte       == Nat \X Nat
Request    == [ask : AskSizes, more : MoreSizes]
ToDevPdu   == [kind : {"connect", "data"}, cmd : Nat, credit : Nat]
FromDevPdu == [kind : {"cnf", "disc", "data"}, data : Seq(Byte), credit : Nat]
Device     == [state : {"closed", "confirming", "open", "gone"}, credit : Int,
               owed : Seq(Byte), give : Nat, window : Int]

TtpTypeOK ==
  /\ tpc \in {"start", "connecting", "confirming", "ready", "sending",
              "receiving", "failed"}
  /\ polls \in Nat /\ misses \in Nat /\ dawdled \in Nat
  /\ wanted \in Nat /\ more \in Nat
  /\ remote_credit \in Int /\ send_credit \in Int
  /\ rx \in Seq(Byte) /\ replies \in Seq(Seq(Byte))
  /\ requests \in Seq(Request)
  /\ pdus \in Seq(ToDevPdu)
  /\ \A k \in 1 .. Len(pdus) : pdus[k].cmd <= Len(requests)
  /\ sdus \in Seq(FromDevPdu)
  /\ dev \in Device

LEMMA PduType ==
  ASSUME TtpTypeOK, NEW n \in 1 .. Len(pdus)
  PROVE  pdus[n] \in ToDevPdu /\ pdus[n].cmd <= Len(requests) /\ pdus[n].credit \in Nat
<1>1. pdus \in Seq(ToDevPdu) /\ \A k \in 1 .. Len(pdus) : pdus[k].cmd <= Len(requests)
  BY DEF TtpTypeOK
<1>2. pdus[n] \in ToDevPdu
  BY <1>1
<1>3. QED
  BY <1>1, <1>2 DEF ToDevPdu

LEMMA GrantType ==
  ASSUME TtpTypeOK
  PROVE  /\ Grant \in Nat
         /\ remote_credit <= CreditTarget => remote_credit + Grant <= CreditTarget
BY TtpAssumption DEF TtpTypeOK, Grant, Clamp

LEMMA AppendType ==
  ASSUME NEW S, NEW s \in Seq(S), NEW x \in S
  PROVE  /\ Append(s, x) \in Seq(S) /\ Len(Append(s, x)) = Len(s) + 1 /\ Len(s) \in Nat
         /\ Append(s, x)[Len(s) + 1] = x
         /\ \A i \in 1 .. Len(s) : Append(s, x)[i] = s[i]
OBVIOUS

LEMMA AbsorbType ==
  ASSUME TtpTypeOK, NEW pdu, pdu \in FromDevPdu \/ pdu = Nothing, Absorb(pdu)
  PROVE  remote_credit' \in Int /\ send_credit' \in Int /\ rx' \in Seq(Byte)
<1>1. pdu.data \in Seq(Byte) /\ pdu.credit \in Int
  <2>1. <<>> \in Seq(Byte)
    OBVIOUS
  <2>2. Nothing.data = <<>> /\ Nothing.credit = 0
    BY DEF Nothing, FromDev
  <2>3. CASE pdu \in FromDevPdu
    BY <2>3 DEF FromDevPdu
  <2>4. CASE pdu = Nothing
    <3>1. 0 \in Int
      OBVIOUS
    <3>2. QED
      BY <2>1, <2>2, <2>4, <3>1, Zenon
  <2>5. QED
    BY <2>3, <2>4
<1>2. Cost(pdu) \in Int /\ Spent \in Int
  BY DEF Cost, Spent
<1>3. rx \o pdu.data \in Seq(Byte)
  BY <1>1 DEF TtpTypeOK
<1>4. QED
  BY <1>1, <1>2, <1>3 DEF Absorb, TtpTypeOK

LEMMA RequestType ==
  ASSUME TtpTypeOK, NEW k \in 1 .. Len(requests)
  PROVE  /\ requests[k] \in Request
         /\ requests[k].ask \in Nat \ {0} /\ requests[k].more \in Nat
         /\ Reply(k) \in Seq(Byte) /\ Len(Reply(k)) = requests[k].ask + requests[k].more
<1>1. requests[k] \in Request
  BY DEF TtpTypeOK
<1>2. requests[k].ask \in Nat \ {0} /\ requests[k].more \in Nat
  BY <1>1, TtpAssumption DEF Request
<1>3. PICK n \in Nat : n = requests[k].ask + requests[k].more
  BY <1>2
<1>4. Reply(k) = [i \in 1 .. n |-> <<k, i>>]
  BY <1>3 DEF Reply
<1>5. k \in Nat
  BY DEF TtpTypeOK
<1>6. \A i \in 1 .. n : <<k, i>> \in Byte
  BY <1>5 DEF Byte
<1>7. [i \in 1 .. n |-> <<k, i>>] \in Seq(Byte) /\ Len([i \in 1 .. n |-> <<k, i>>]) = n
  BY <1>6
<1>8. QED
  BY <1>1, <1>2, <1>3, <1>4, <1>7

LEMMA ReadsType ==
  ASSUME TtpTypeOK, NEW d \in Device, NEW p \in ToDevPdu, p.cmd <= Len(requests)
  PROVE  Reads(d, p) \in Device
<1>1. p.kind \in {"connect", "data"} /\ p.credit \in Nat /\ p.cmd \in Nat
  BY DEF ToDevPdu
<1>2. CASE d.state = "gone"
  <2>1. Reads(d, p) = d
    BY <1>2 DEF Reads
  <2>2. QED
    BY <2>1
<1>3. CASE d.state # "gone" /\ p.kind = "connect"
  <2>1. Reads(d, p) = [d EXCEPT !.state = "confirming", !.credit = p.credit]
    BY <1>3 DEF Reads
  <2>2. p.credit \in Int
    BY <1>1
  <2>3. QED
    BY <2>1, <2>2 DEF Device
<1>4. CASE d.state # "gone" /\ p.kind = "data" /\ p.cmd = 0
  <2>1. Reads(d, p) = [d EXCEPT !.credit = @ + p.credit]
    BY <1>4 DEF Reads
  <2>2. d.credit + p.credit \in Int
    BY <1>1 DEF Device
  <2>3. QED
    BY <2>1, <2>2 DEF Device
<1>5. CASE d.state # "gone" /\ p.kind = "data" /\ p.cmd # 0
  <2>1. Reads(d, p) = [d EXCEPT !.credit = @ + p.credit, !.owed = @ \o Reply(p.cmd),
                                !.give = @ + 1, !.window = @ - 1]
    BY <1>5 DEF Reads
  <2>2. p.cmd \in 1 .. Len(requests)
    BY <1>1, <1>5 DEF TtpTypeOK
  <2>3. Reply(p.cmd) \in Seq(Byte)
    BY <2>2, RequestType
  <2>4. d.owed \o Reply(p.cmd) \in Seq(Byte)
    BY <2>3 DEF Device
  <2>5. d.credit + p.credit \in Int /\ d.give + 1 \in Nat /\ d.window - 1 \in Int
    BY <1>1 DEF Device
  <2>6. QED
    BY <2>1, <2>4, <2>5 DEF Device
<1>6. QED
  BY <1>1, <1>2, <1>3, <1>4, <1>5

(* What the device may send, case by case.                                 *)
LEMMA DataSplit ==
  ASSUME NEW d \in Device, NEW n \in Portions(d)
  PROVE  /\ n \in 1 .. Len(d.owed)
         /\ SubSeq(d.owed, 1, n) \in Seq(Byte) /\ Drop(d.owed, n) \in Seq(Byte)
         /\ Len(SubSeq(d.owed, 1, n)) = n /\ SubSeq(d.owed, 1, n) # <<>>
         /\ SubSeq(d.owed, 1, n) \o Drop(d.owed, n) = d.owed
<1>1. PICK q \in Seq(Byte) : q = d.owed
  BY DEF Device
<1>2. n \in 1 .. Len(q)
  BY <1>1, TtpAssumption DEF Portions
<1>3. SubSeq(q, 1, n) \in Seq(Byte) /\ SubSeq(q, n + 1, Len(q)) \in Seq(Byte)
      /\ Len(SubSeq(q, 1, n)) = n
  BY <1>2
<1>4. SubSeq(q, 1, n) \o SubSeq(q, n + 1, Len(q)) = q
  BY <1>2
<1>5. QED
  BY <1>1, <1>2, <1>3, <1>4 DEF Drop

LEMMA SendsCases ==
  ASSUME NEW d \in Device, NEW a \in Pending(d) \cup Disconnects(d)
  PROVE  /\ a[1] \in FromDevPdu /\ a[2] \in Device
         /\ d.state \in {"confirming", "open"}
         /\ a[1].data \o a[2].owed = d.owed
         /\ d.state # "open" => a[1].data = <<>>
         /\ \/ DataPdu(a[1]) /\ a[2].credit = d.credit - 1
            \/ ~DataPdu(a[1]) /\ a[2].credit = d.credit
<1>0. /\ <<>> \in Seq(Byte) /\ d.owed \in Seq(Byte) /\ d.credit \in Int /\ d.give \in Nat
      /\ d.window \in Int /\ InitialCredit \in Int /\ InitialCredit \in Nat /\ 0 \in Nat
      /\ d.window + d.give \in Int
  BY TtpAssumption DEF Device
<1>e. <<>> \o d.owed = d.owed
  BY <1>0
<1>1. CASE a \in Confirmations(d)
  <2>1. a = <<FromDev("cnf", <<>>, InitialCredit),
              [d EXCEPT !.state = "open", !.window = InitialCredit]>>
        /\ d.state = "confirming"
    BY <1>1 DEF Confirmations
  <2>2. a[1] = FromDev("cnf", <<>>, InitialCredit)
        /\ a[2] = [d EXCEPT !.state = "open", !.window = InitialCredit]
    BY <2>1
  <2>3. a[1] \in FromDevPdu /\ ~DataPdu(a[1]) /\ a[1].data = <<>>
    BY <1>0, <2>2 DEF FromDev, FromDevPdu, DataPdu
  <2>4. a[2] \in Device
    BY <1>0, <2>2 DEF Device
  <2>5. a[2].owed = d.owed /\ a[2].credit = d.credit
    BY <2>2 DEF Device
  <2>6. QED
    BY <1>e, <2>1, <2>3, <2>4, <2>5
<1>2. CASE a \in DataPdus(d)
  <2>1. PICK n \in Portions(d), g \in Gives(d) : d.state = "open" /\ a = Data(d, n, g)
    BY <1>2 DEF DataPdus
  <2>2. g \in Nat /\ d.give - g \in Nat
    BY <1>0, <2>1 DEF Gives
  <2>3. a[1] = FromDev("data", SubSeq(d.owed, 1, n), g)
        /\ a[2] = [d EXCEPT !.credit = @ - 1, !.owed = Drop(@, n),
                            !.give = @ - g, !.window = @ + g]
    BY <2>1 DEF Data
  <2>4. /\ SubSeq(d.owed, 1, n) \in Seq(Byte) /\ Drop(d.owed, n) \in Seq(Byte)
        /\ SubSeq(d.owed, 1, n) # <<>>
        /\ SubSeq(d.owed, 1, n) \o Drop(d.owed, n) = d.owed
    BY DataSplit
  <2>5. a[1] \in FromDevPdu /\ DataPdu(a[1]) /\ a[1].data = SubSeq(d.owed, 1, n)
    BY <2>2, <2>3, <2>4 DEF FromDev, FromDevPdu, DataPdu
  <2>6. d.credit - 1 \in Int /\ d.window + g \in Int
    BY <1>0, <2>2
  <2>7. a[2] \in Device /\ a[2].owed = Drop(d.owed, n) /\ a[2].credit = d.credit - 1
    BY <2>2, <2>3, <2>4, <2>6 DEF Device
  <2>8. QED
    BY <2>1, <2>4, <2>5, <2>7
<1>3. CASE a \in CreditPdus(d)
  <2>1. a = <<FromDev("data", <<>>, d.give), [d EXCEPT !.give = 0, !.window = @ + d.give]>>
        /\ d.state = "open"
    <3>1. CASE d.state # "open" \/ d.give = 0 \/ ~DatalessGrants
      BY <1>3, <3>1, Zenon DEF CreditPdus
    <3>2. CASE ~(d.state # "open" \/ d.give = 0 \/ ~DatalessGrants)
      BY <1>3, <3>2, Zenon DEF CreditPdus
    <3>3. QED
      BY <3>1, <3>2
  <2>2. a[1] = FromDev("data", <<>>, d.give)
        /\ a[2] = [d EXCEPT !.give = 0, !.window = @ + d.give]
    BY <2>1
  <2>3. a[1] \in FromDevPdu /\ ~DataPdu(a[1]) /\ a[1].data = <<>>
    BY <1>0, <2>2 DEF FromDev, FromDevPdu, DataPdu
  <2>4. a[2] \in Device
    BY <1>0, <2>2 DEF Device
  <2>5. a[2].owed = d.owed /\ a[2].credit = d.credit
    BY <2>2 DEF Device
  <2>6. QED
    BY <1>e, <2>1, <2>3, <2>4, <2>5
<1>4. CASE a \in Disconnects(d)
  <2>1. a = <<FromDev("disc", <<>>, 0), [d EXCEPT !.state = "gone"]>>
        /\ d.state \in {"confirming", "open"}
    BY <1>4 DEF Disconnects
  <2>2. a[1] = FromDev("disc", <<>>, 0) /\ a[2] = [d EXCEPT !.state = "gone"]
    BY <2>1
  <2>3. a[1] \in FromDevPdu /\ ~DataPdu(a[1]) /\ a[1].data = <<>>
    BY <1>0, <2>2 DEF FromDev, FromDevPdu, DataPdu
  <2>4. a[2] \in Device /\ a[2].owed = d.owed /\ a[2].credit = d.credit
    BY <1>0, <2>2 DEF Device
  <2>5. QED
    BY <1>e, <2>1, <2>3, <2>4
<1>5. QED
  BY <1>1, <1>2, <1>3, <1>4 DEF Pending

-----------------------------------------------------------------------------
(* What transact returns is the next I-field of the device, or nothing.    *)
LEMMA ReturnsWhat ==
  ASSUME TypeOK, TypeOK', LinkInv, LinkInv', SessionTypeOK, TransactReturns
  PROVE  /\ UNCHANGED <<sent, sdus, dev, pdus, requests, replies, wanted, more, polls, dawdled>>
         /\ UNCHANGED <<accepted, offered, toDevice, lost>>
         /\ pc = "listening" /\ pc' = "idle"
         /\ \/ received' = received /\ Returns(Nothing)
            \/ /\ Len(received) = sent - 1 /\ received' = Append(received, sent)
               /\ sent \in 1 .. sent /\ Returns(sdus[sent])
<1>1. ASSUME NEW pdu, Returns(pdu)
      PROVE  UNCHANGED <<sdus, dev, pdus, requests, replies, wanted, more, polls, dawdled>>
  BY <1>1 DEF Returns, Outside
<1>2. ReceiveFinal \/ GiveUp => /\ UNCHANGED <<accepted, sent, offered, toDevice, lost>>
                                /\ pc = "listening" /\ pc' = "idle"
  BY DEF ReceiveFinal, GiveUp, WindowCloses, deviceVars, airVars
<1>3. (ReceiveFinal \/ GiveUp) /\ \E pdu : Returns(pdu)
  BY DEF TransactReturns
<1>4. ASSUME NEW k, received' = Append(received, k), sent' = sent
      PROVE  Len(received) = sent - 1 /\ k = sent /\ sent \in 1 .. sent
  <2>1. /\ received \in Seq(Nat) /\ received' \in Seq(Nat)
        /\ Len(received) \in {sent - 1, sent} /\ Len(received) \in Nat
        /\ sent \in Nat
    BY OnTheirWay DEF TypeOK
  <2>2. /\ Len(received') \in {sent - 1, sent}
        /\ \A i \in 1 .. Len(received') : received'[i] = i
    BY <1>4 DEF TypeOK, LinkInv, Histories, Counters, Settled
  <2>3. Len(received') = Len(received) + 1 /\ received'[Len(received) + 1] = k
    <3>1. k \in Nat \/ k \notin Nat
      OBVIOUS
    <3>2. QED
      BY <1>4, <2>1
  <2>4. QED
    BY <2>1, <2>2, <2>3
<1> DEFINE f == Head(fromDevice)
<1>5. CASE GiveUp /\ Returns(Nothing)
  BY <1>1, <1>2, <1>5 DEF GiveUp
<1>6. CASE ReceiveFinal /\ InSequence(f) /\ Returns(sdus[f.data])
  <2>1. received' = Append(received, f.data)
    BY <1>6 DEF ReceiveFinal
  <2>2. Len(received) = sent - 1 /\ f.data = sent /\ sent \in 1 .. sent
    BY <1>2, <1>6, <1>4, <2>1
  <2>3. received' = Append(received, sent) /\ Returns(sdus[sent])
    BY <1>6, <2>1, <2>2
  <2>4. QED
    BY <1>1, <1>2, <1>6, <2>2, <2>3
<1>7. CASE ReceiveFinal /\ ~InSequence(f) /\ Returns(Nothing)
  <2>1. received' = received
    BY <1>7 DEF ReceiveFinal
  <2>2. QED
    BY <1>1, <1>2, <1>7, <2>1
<1>8. QED
  BY <1>5, <1>6, <1>7 DEF TransactReturns

-----------------------------------------------------------------------------
(* TtpTypeOK is inductive.                                                 *)
LEMMA TtpInitType == TtpInit => TtpTypeOK
<1> SUFFICES ASSUME TtpInit PROVE TtpTypeOK
  OBVIOUS
<1>1. /\ <<>> \in Seq(Byte) /\ <<>> \in Seq(Seq(Byte)) /\ <<>> \in Seq(Request)
      /\ <<>> \in Seq(ToDevPdu) /\ <<>> \in Seq(FromDevPdu) /\ Len(<<>>) = 0
  OBVIOUS
<1>2. [state |-> "closed", credit |-> 0, owed |-> <<>>, give |-> 0, window |-> 0] \in Device
  BY <1>1 DEF Device
<1>3. CreditTarget \in Int
  BY TtpAssumption
<1>4. QED
  BY <1>1, <1>2, <1>3 DEF TtpInit, TtpTypeOK

LEMMA OfferType ==
  ASSUME TtpTypeOK, NEW p \in ToDevPdu, pdus' = Append(pdus, p),
         NEW n, n = Len(requests'), n \in Nat, n >= Len(requests), p.cmd <= n
  PROVE  /\ pdus' \in Seq(ToDevPdu)
         /\ \A k \in 1 .. Len(pdus') : pdus'[k].cmd <= n
<1>1. pdus \in Seq(ToDevPdu) /\ \A k \in 1 .. Len(pdus) : pdus[k].cmd <= Len(requests)
  BY DEF TtpTypeOK
<1>2. /\ pdus' \in Seq(ToDevPdu) /\ Len(pdus') = Len(pdus) + 1 /\ Len(pdus) \in Nat
      /\ pdus'[Len(pdus) + 1] = p
      /\ \A i \in 1 .. Len(pdus) : pdus'[i] = pdus[i]
  BY <1>1, AppendType
<1>3. Len(requests) \in Nat
  BY DEF TtpTypeOK
<1>4. ASSUME NEW k \in 1 .. Len(pdus') PROVE pdus'[k].cmd <= n
  <2>1. CASE k \in 1 .. Len(pdus)
    <3>1. pdus[k] \in ToDevPdu
      BY <1>1, <2>1
    <3>2. pdus[k].cmd \in Nat /\ pdus[k].cmd <= Len(requests) /\ pdus'[k] = pdus[k]
      BY <1>1, <1>2, <2>1, <3>1 DEF ToDevPdu
    <3>3. QED
      BY <1>3, <3>2
  <2>2. CASE k = Len(pdus) + 1
    BY <1>2, <2>2
  <2>3. QED
    BY <1>2, <1>4, <2>1, <2>2
<1>5. QED
  BY <1>2, <1>4

LEMMA TtpNextType ==
  ASSUME ~SplitReplies, TypeOK, LinkInv, TypeOK', LinkInv', SessionTypeOK, SessionTypeOK',
         TtpTypeOK, [TtpNext]_ttpVars
  PROVE  TtpTypeOK'
<1>a. /\ CreditTarget \in Nat /\ AskSizes \subseteq Nat /\ MoreSizes \subseteq Nat
  BY TtpAssumption
<1>b. Len(requests) \in Nat /\ Grant \in Nat
  BY GrantType DEF TtpTypeOK
<1>1. CASE Connect
  <2>1. /\ pdus' = Append(pdus, ToDev("connect", 0, CreditTarget)) /\ tpc' = "connecting"
        /\ UNCHANGED <<sdus, dev, dawdled>>
        /\ UNCHANGED <<polls, misses, remote_credit, send_credit, rx, wanted, more,
                       requests, replies>>
    BY <1>1 DEF Connect, Offer, Outside
  <2>2. ToDev("connect", 0, CreditTarget) \in ToDevPdu
        /\ ToDev("connect", 0, CreditTarget).cmd = 0
    BY <1>a DEF ToDev, ToDevPdu
  <2>3. PICK n : n = Len(requests')
    OBVIOUS
  <2>4. pdus' \in Seq(ToDevPdu) /\ \A k \in 1 .. Len(pdus') : pdus'[k].cmd <= n
    BY <1>b, <2>1, <2>2, <2>3, OfferType
  <2>5. QED
    BY <2>1, <2>3, <2>4 DEF TtpTypeOK
<1>2. CASE ConfirmPoll
  BY <1>2 DEF ConfirmPoll, Poll, Outside, CountPoll, TtpTypeOK
<1>3. CASE NoConfirm \/ NoSendCredit
  BY <1>3 DEF NoConfirm, NoSendCredit, Outside, TtpTypeOK
<1>4. CASE Send
  <2> DEFINE p == ToDev("data", Len(requests) + 1, Grant)
  <2>1. PICK a \in AskSizes, m \in MoreSizes :
          /\ requests' = Append(requests, [ask |-> a, more |-> m])
          /\ wanted' = a /\ more' = m
    BY <1>4 DEF Send
  <2>2. /\ pdus' = Append(pdus, p) /\ tpc' = "sending"
        /\ remote_credit' = remote_credit + Grant
        /\ UNCHANGED <<sdus, dev, dawdled>>
        /\ UNCHANGED <<polls, misses, send_credit, rx, replies>>
    BY <1>4 DEF Send, Offer, Outside
  <2>3. [ask |-> a, more |-> m] \in Request
    BY DEF Request
  <2>4. requests' \in Seq(Request) /\ Len(requests') = Len(requests) + 1
    BY <2>1, <2>3, AppendType DEF TtpTypeOK
  <2>5. p \in ToDevPdu /\ p.cmd = Len(requests) + 1
    BY <1>b DEF ToDev, ToDevPdu
  <2>6. PICK n : n = Len(requests')
    OBVIOUS
  <2> HIDE DEF p
  <2>7. n \in Nat /\ n >= Len(requests) /\ p.cmd <= n
    BY <1>b, <2>4, <2>5, <2>6
  <2>8. pdus' \in Seq(ToDevPdu) /\ \A k \in 1 .. Len(pdus') : pdus'[k].cmd <= n
    BY <2>2, <2>5, <2>6, <2>7, OfferType
  <2>9. wanted' \in Nat /\ more' \in Nat /\ remote_credit' \in Int
    BY <1>a, <1>b, <2>1, <2>2 DEF TtpTypeOK
  <2>10. QED
    BY <2>2, <2>4, <2>6, <2>8, <2>9 DEF TtpTypeOK
<1>5. CASE RecvTurn
  <2> DEFINE p == ToDev("data", 0, Grant)
  <2>1. /\ UNCHANGED <<sdus, dev, dawdled>>
        /\ UNCHANGED <<tpc, polls, misses, send_credit, rx, wanted, more, requests, replies>>
    BY <1>5 DEF RecvTurn, Outside
  <2>2. \/ pdus' = Append(pdus, p) /\ remote_credit' = remote_credit + Grant
        \/ UNCHANGED <<pdus, remote_credit>>
    BY <1>5 DEF RecvTurn, Offer, Poll
  <2>3. p \in ToDevPdu /\ p.cmd = 0
    BY <1>b DEF ToDev, ToDevPdu
  <2>4. PICK n : n = Len(requests')
    OBVIOUS
  <2> HIDE DEF p
  <2>5. CASE pdus' = Append(pdus, p) /\ remote_credit' = remote_credit + Grant
    <3>1. pdus' \in Seq(ToDevPdu) /\ \A k \in 1 .. Len(pdus') : pdus'[k].cmd <= n
      BY <1>b, <2>1, <2>3, <2>4, <2>5, OfferType
    <3>2. remote_credit' \in Int
      BY <1>b, <2>5 DEF TtpTypeOK
    <3>3. QED
      BY <2>1, <2>4, <3>1, <3>2 DEF TtpTypeOK
  <2>6. CASE UNCHANGED <<pdus, remote_credit>>
    BY <2>1, <2>6 DEF TtpTypeOK
  <2>7. QED
    BY <2>2, <2>5, <2>6
<1>6. CASE RecvDone
  <2>1. /\ replies' = Append(replies, SubSeq(rx, 1, wanted)) /\ rx' = Drop(rx, wanted)
        /\ tpc' \in {"receiving", "ready"} /\ wanted' = more /\ more' = 0 /\ misses' = 0
        /\ Len(rx) >= wanted
        /\ UNCHANGED <<sdus, dev, dawdled, polls, remote_credit, send_credit, requests, pdus>>
    BY <1>6 DEF RecvDone, Rest, Outside
  <2>2. SubSeq(rx, 1, wanted) \in Seq(Byte) /\ Drop(rx, wanted) \in Seq(Byte)
    BY <2>1 DEF Drop, TtpTypeOK
  <2>3. replies' \in Seq(Seq(Byte))
    BY <2>1, <2>2, AppendType DEF TtpTypeOK
  <2>4. QED
    BY <2>1, <2>2, <2>3 DEF TtpTypeOK
<1>7. CASE TransactReturns
  <2>1. PICK pdu : (pdu \in FromDevPdu \/ pdu = Nothing) /\ Returns(pdu)
    <3>1. Returns(Nothing) \/ (sent \in 1 .. sent /\ Returns(sdus[sent]))
      BY <1>7, ReturnsWhat
    <3>2. sent \in 1 .. sent => sdus[sent] \in FromDevPdu
      BY DEF TtpTypeOK, SessionTypeOK
    <3>3. QED
      BY <3>1, <3>2
  <2>2. Absorb(pdu) /\ misses' \in {misses, misses + 1, 0}
        /\ tpc' \in {"ready", "confirming", "failed", "receiving"}
        /\ UNCHANGED <<polls, wanted, more, requests, replies, pdus, sdus, dev, dawdled>>
    <3>1. CASE ConnectReturns(pdu)
      BY <2>1, <3>1 DEF Returns, Outside, ConnectReturns
    <3>2. CASE ConfirmReturns(pdu)
      BY <2>1, <3>2 DEF Returns, Outside, ConfirmReturns
    <3>3. CASE SendReturns(pdu)
      BY <2>1, <3>3 DEF Returns, Outside, SendReturns
    <3>4. CASE RecvReturns(pdu)
      BY <2>1, <3>4 DEF Returns, Outside, RecvReturns, Misses
    <3>5. QED
      BY <2>1, <3>1, <3>2, <3>3, <3>4 DEF Returns
  <2>3. remote_credit' \in Int /\ send_credit' \in Int /\ rx' \in Seq(Byte)
    BY <2>1, <2>2, AbsorbType
  <2>4. misses' \in Nat
    BY <2>2 DEF TtpTypeOK
  <2>5. QED
    BY <2>2, <2>3, <2>4 DEF TtpTypeOK
<1>8. CASE TransactGoesOn \/ Air
  BY <1>8 DEF TransactGoesOn, Air, Outside, sessionVars, TtpTypeOK
<1>9. CASE TransactFails
  BY <1>9 DEF TransactFails, Outside, TtpTypeOK
<1>10. CASE DeviceTurn
  <2>1. PICK f, d : /\ f = Head(toDevice)
                    /\ d = IF DeviceTakes(f) THEN Reads(dev, pdus[f.data]) ELSE dev
    OBVIOUS
  <2>2. /\ UNCHANGED <<tpc, polls, misses, remote_credit, send_credit, rx, wanted, more,
                       requests, replies, pdus>>
        /\ toDevice # <<>>
    BY <1>10 DEF DeviceTurn, sessionVars, DeviceAnswers
  <2>3. DeviceTakes(f) => f.data \in 1 .. offered
    <3>1. f = toDevice[1] /\ 1 \in 1 .. Len(toDevice)
      BY <2>1, <2>2 DEF TypeOK
    <3>2. QED
      BY <3>1 DEF DeviceTakes, LinkInv, ToDevice, ToDeviceFrame
  <2>4. d \in Device
    <3>1. CASE DeviceTakes(f)
      <4>1. f.data \in 1 .. Len(pdus)
        BY <2>3, <3>1 DEF SessionTypeOK
      <4>2. pdus[f.data] \in ToDevPdu /\ pdus[f.data].cmd <= Len(requests)
        BY <4>1, PduType
      <4>3. QED
        BY <2>1, <3>1, <4>2, ReadsType DEF TtpTypeOK
    <3>2. CASE ~DeviceTakes(f)
      BY <2>1, <3>2 DEF TtpTypeOK
    <3>3. QED
      BY <3>1, <3>2
  <2>5. CASE dev' = d /\ sdus' = sdus
    <3>1. dawdled' \in Nat
      BY <1>10 DEF DeviceTurn, TtpTypeOK
    <3>2. QED
      BY <2>2, <2>4, <2>5, <3>1 DEF TtpTypeOK
  <2>6. ASSUME NEW a \in Pending(d) \cup Disconnects(d),
               sdus' = Append(sdus, a[1]), dev' = a[2], UNCHANGED dawdled
        PROVE  TtpTypeOK'
    <3>1. a[1] \in FromDevPdu /\ a[2] \in Device
      BY <2>4, <2>6, SendsCases
    <3>2. sdus' \in Seq(FromDevPdu)
      BY <2>6, <3>1, AppendType DEF TtpTypeOK
    <3>3. QED
      BY <2>2, <2>6, <3>1, <3>2 DEF TtpTypeOK
  <2>7. QED
    BY <1>10, <2>1, <2>5, <2>6 DEF DeviceTurn
<1>11. CASE UNCHANGED ttpVars
  BY <1>11 DEF ttpVars, sessionVars, TtpTypeOK
<1>12. QED
  BY <1>1, <1>2, <1>3, <1>4, <1>5, <1>6, <1>7, <1>8, <1>9, <1>10, <1>11 DEF TtpNext, Program

THEOREM TtpTypeCorrect ==
  ASSUME ~SplitReplies
  PROVE  TtpSpec => []TtpTypeOK
<1>1. TtpInit => TtpTypeOK
  BY TtpInitType
<1>2. /\ TypeOK /\ LinkInv /\ TypeOK' /\ LinkInv' /\ CreditInv /\ CreditInv'
      /\ TtpTypeOK /\ [TtpNext]_ttpVars
      => TtpTypeOK'
  BY TtpNextType DEF CreditInv
<1>3. QED
  BY <1>1, <1>2, TtpCreditInvariant, TtpUsesLink, LinkTypeCorrect, LinkInvariant, PTL DEF TtpSpec

-----------------------------------------------------------------------------
(* Why the device never sends on credit the program does not know of.  Gap *)
(* is the credit on the program's side that the device neither holds nor   *)
(* has spent on what the program has not read: credit on its way to the    *)
(* device, or lost on the way.                                             *)
Gap == remote_credit + Charged - dev.credit - Unread

DryPdu(p) == p.kind = "data" /\ ~DataPdu(p)

LEMMA UnreadCount ==
  ASSUME NEW n \in Nat, NEW m \in {n, n + 1}, NEW s
  PROVE  Cardinality({i \in n + 1 .. m : DataPdu(s[i])})
           = IF m # n /\ DataPdu(s[m]) THEN 1 ELSE 0
<1> DEFINE S == {i \in n + 1 .. m : DataPdu(s[i])}
<1>1. CASE m # n /\ DataPdu(s[m])
  <2>1. m = n + 1 /\ m \in Nat
    BY <1>1
  <2>2. \A i \in n + 1 .. m : i = m
    BY <2>1
  <2>3. m \in n + 1 .. m
    BY <2>1
  <2>4. S = {m}
    BY <1>1, <2>2, <2>3
  <2>5. Cardinality({m}) = 1
    BY FS_Singleton
  <2>6. QED
    BY <1>1, <2>4, <2>5
<1>2. CASE ~(m # n /\ DataPdu(s[m]))
  <2>1. S = {}
    BY <1>2
  <2>2. Cardinality({}) = 0
    BY FS_EmptySet
  <2>3. QED
    BY <1>2, <2>1, <2>2
<1>3. QED
  BY <1>1, <1>2

LEMMA ChargedCount ==
  ASSUME NEW n \in Nat, NEW s
  PROVE  /\ Cardinality({i \in 1 .. n : s[i].kind = "data" /\ ~DataPdu(s[i])}) \in Nat
         /\ Cardinality({i \in 1 .. n + 1 : s[i].kind = "data" /\ ~DataPdu(s[i])})
              = Cardinality({i \in 1 .. n : s[i].kind = "data" /\ ~DataPdu(s[i])})
                + IF DryPdu(s[n + 1]) THEN 1 ELSE 0
<1> DEFINE S == {i \in 1 .. n : s[i].kind = "data" /\ ~DataPdu(s[i])}
           T == {i \in 1 .. n + 1 : s[i].kind = "data" /\ ~DataPdu(s[i])}
<1>1. IsFiniteSet(1 .. n)
  BY FS_Interval
<1>2. IsFiniteSet(S)
  BY <1>1, FS_Subset
<1>3. Cardinality(S) \in Nat
  BY <1>2, FS_CardinalityType
<1>4. \A i \in 1 .. n + 1 : i \in 1 .. n \/ i = n + 1
  OBVIOUS
<1>5. n + 1 \notin S /\ n + 1 \in 1 .. n + 1 /\ \A i \in 1 .. n : i \in 1 .. n + 1
  OBVIOUS
<1>6. CASE DryPdu(s[n + 1])
  <2>1. T = S \cup {n + 1}
    BY <1>4, <1>5, <1>6 DEF DryPdu
  <2>2. Cardinality(S \cup {n + 1}) = Cardinality(S) + 1
    BY <1>2, <1>5, FS_AddElement
  <2>3. QED
    BY <1>3, <1>6, <2>1, <2>2
<1>7. CASE ~DryPdu(s[n + 1])
  <2>1. T = S
    BY <1>4, <1>5, <1>7 DEF DryPdu
  <2>2. PICK c \in Nat : c = Cardinality(S) /\ c = Cardinality(T)
    BY <1>3, <2>1
  <2>3. QED
    BY <1>7, <2>2
<1>8. QED
  BY <1>6, <1>7

LEMMA ChargedSame ==
  ASSUME NEW n \in Nat, NEW s, NEW t, \A i \in 1 .. n : s[i] = t[i]
  PROVE  {i \in 1 .. n : s[i].kind = "data" /\ ~DataPdu(s[i])}
           = {i \in 1 .. n : t[i].kind = "data" /\ ~DataPdu(t[i])}
OBVIOUS

LEMMA GapType ==
  ASSUME TypeOK, LinkInv, SessionTypeOK, TtpTypeOK
  PROVE  /\ Unread = IF Len(received) # sent /\ DataPdu(sdus[sent]) THEN 1 ELSE 0
         /\ Charged \in Nat /\ Gap \in Int
<1>1. PICK n \in Nat, m \in {sent} : n = Len(received) /\ m = sent /\ m \in {n, n + 1}
  BY OnTheirWay
<1>2. Unread = IF m # n /\ DataPdu(sdus[m]) THEN 1 ELSE 0
  BY <1>1, UnreadCount DEF Unread
<1>3. Charged \in Nat
  BY <1>1, ChargedCount DEF Charged
<1>4. Unread \in Int /\ dev.credit \in Int /\ remote_credit \in Int
  BY <1>2 DEF TtpTypeOK, Device
<1>5. QED
  BY <1>1, <1>2, <1>3, <1>4 DEF Gap

(* A call that leaves the I-fields of the device alone.                    *)
LEMMA GapQuiet ==
  ASSUME UNCHANGED <<received, sent, sdus, dev>>
  PROVE  Unread' = Unread /\ Charged' = Charged /\ dev'.credit = dev.credit
BY DEF Unread, Charged

(* absorb charges what the device spent, or a grant without data.          *)
LEMMA GapReturns ==
  ASSUME TypeOK, TypeOK', LinkInv, LinkInv', SessionTypeOK, SessionTypeOK',
         TtpTypeOK, TtpTypeOK', TransactReturns
  PROVE  /\ Gap' = Gap
         /\ remote_credit' <= remote_credit
<1>1. /\ UNCHANGED <<sent, sdus, dev>>
      /\ \/ received' = received /\ Returns(Nothing)
         \/ /\ Len(received) = sent - 1 /\ received' = Append(received, sent)
            /\ sent \in 1 .. sent /\ Returns(sdus[sent])
  BY ReturnsWhat
<1>2. \A pdu : Returns(pdu) => remote_credit' = remote_credit - Cost(pdu)
  BY DEF Returns, ConnectReturns, ConfirmReturns, SendReturns, RecvReturns, Absorb
<1>3. remote_credit \in Int
  BY DEF TtpTypeOK
<1>4. CASE received' = received /\ Returns(Nothing)
  <2>1. Cost(Nothing) = 0
    BY DEF Cost, Nothing, FromDev
  <2>2. remote_credit' = remote_credit
    BY <1>2, <1>3, <1>4, <2>1
  <2>3. Unread' = Unread /\ Charged' = Charged /\ dev'.credit = dev.credit
    BY <1>1, <1>4, GapQuiet
  <2>4. QED
    BY <1>3, <2>2, <2>3 DEF Gap
<1>5. CASE /\ Len(received) = sent - 1 /\ received' = Append(received, sent)
           /\ sent \in 1 .. sent /\ Returns(sdus[sent])
  <2>1. PICK n \in Nat, p \in {sdus[sent]} : n = Len(received) /\ p = sdus[sent] /\ sent = n + 1
    BY <1>5, OnTheirWay
  <2>2. received \in Seq(Nat) /\ sent \in Nat
    BY OnTheirWay DEF TypeOK
  <2>3. Len(received') = n + 1
    BY <1>5, <2>1, <2>2
  <2>4. Unread = (IF DataPdu(p) THEN 1 ELSE 0)
    BY <2>1, GapType
  <2>5. Unread' = 0
    <3>1. n + 1 \in Nat /\ sent \in {n + 1, n + 1 + 1}
      BY <2>1
    <3>2. Unread' = Cardinality({i \in n + 1 + 1 .. sent : DataPdu(sdus[i])})
      BY <1>1, <2>3 DEF Unread
    <3>3. QED
      BY <2>1, <3>1, <3>2, UnreadCount
  <2>6. Charged' = Charged + (IF DryPdu(p) THEN 1 ELSE 0)
    <3>1. Charged = Cardinality({i \in 1 .. n : sdus[i].kind = "data" /\ ~DataPdu(sdus[i])})
      BY <2>1 DEF Charged
    <3>2. Charged' = Cardinality({i \in 1 .. n + 1 : sdus[i].kind = "data" /\ ~DataPdu(sdus[i])})
      BY <1>1, <2>3 DEF Charged
    <3>3. QED
      BY <2>1, <3>1, <3>2, ChargedCount
  <2>7. remote_credit' = remote_credit - (IF p.kind = "data" THEN 1 ELSE 0)
    BY <1>2, <1>5, <2>1 DEF Cost
  <2>8. PICK u, c, r, k :
          /\ u = Unread' /\ c = Charged' /\ r = remote_credit' /\ k = dev.credit
          /\ k \in Int
    BY DEF TtpTypeOK, Device
  <2>9. Gap' = r + c - k - u
    BY <1>1, <2>8 DEF Gap
  <2>10. Gap = remote_credit + Charged - k - Unread
    BY <2>8 DEF Gap
  <2>11. Charged \in Nat
    BY GapType
  <2>12. CASE DataPdu(p)
    <3>1. p.kind = "data" /\ ~DryPdu(p)
      BY <2>12 DEF DataPdu, DryPdu
    <3>2. u = 0 /\ c = Charged + 0 /\ r = remote_credit - 1 /\ Unread = 1
      BY <2>12, <3>1, <2>4, <2>5, <2>6, <2>7, <2>8
    <3>3. QED
      BY <1>3, <2>8, <2>9, <2>10, <2>11, <3>2
  <2>13. CASE DryPdu(p)
    <3>1. p.kind = "data" /\ ~DataPdu(p)
      BY <2>13 DEF DryPdu
    <3>2. u = 0 /\ c = Charged + 1 /\ r = remote_credit - 1 /\ Unread = 0
      BY <2>13, <3>1, <2>4, <2>5, <2>6, <2>7, <2>8
    <3>3. QED
      BY <1>3, <2>8, <2>9, <2>10, <2>11, <3>2
  <2>14. CASE ~DataPdu(p) /\ ~DryPdu(p)
    <3>1. p.kind # "data"
      BY <2>14 DEF DryPdu
    <3>2. u = 0 /\ c = Charged + 0 /\ r = remote_credit - 0 /\ Unread = 0
      BY <2>14, <3>1, <2>4, <2>5, <2>6, <2>7, <2>8
    <3>3. QED
      BY <1>3, <2>8, <2>9, <2>10, <2>11, <3>2
  <2>15. QED
    BY <2>12, <2>13, <2>14
<1>6. QED
  BY <1>1, <1>4, <1>5

(* The device takes credit it is given, and spends one on each PDU that    *)
(* carries data.                                                           *)
LEMMA GapDevice ==
  ASSUME TypeOK, TypeOK', LinkInv, LinkInv', CreditInv, CreditInv', TtpTypeOK, TtpTypeOK',
         accepted = <<>> => dev.credit = 0,
         DeviceTurn, NEW f, f = toDevice[1]
  PROVE  /\ Gap' = Gap - (IF DeviceTakes(f) /\ dev.state # "gone"
                          THEN pdus[f.data].credit ELSE 0)
         /\ dev.state = "gone" => dev'.state = "gone"
         /\ accepted' = <<>> => dev'.credit = dev.credit
         /\ DeviceTakes(f) => f.data \in 1 .. Len(pdus) /\ Fresh(f)
<1> USE DEF CreditInv
<1>1. PICK p, d : /\ p = pdus[f.data]
                  /\ d = IF DeviceTakes(f) THEN Reads(dev, p) ELSE dev
  OBVIOUS
<1>2. /\ toDevice # <<>> /\ Head(toDevice) = f /\ toDevice' = Tail(toDevice)
      /\ 1 \in 1 .. Len(toDevice)
      /\ UNCHANGED <<received, remote_credit, pdus, tpc, offered>>
      /\ accepted' = IF DeviceTakes(f) THEN Append(accepted, f.data) ELSE accepted
  <2>1. toDevice # <<>>
    BY DEF DeviceTurn, DeviceAnswers
  <2>2. Head(toDevice) = f /\ 1 \in 1 .. Len(toDevice)
    BY <2>1 DEF TypeOK
  <2>3. QED
    BY <2>1, <2>2
       DEF DeviceTurn, DeviceAnswers, DeviceReads, sessionVars, primaryVars
<1>3. DeviceTakes(f) => /\ f.data \in 1 .. offered /\ f.data \in 1 .. Len(pdus)
                        /\ f.data > LastTaken /\ Fresh(f)
  <2>1. DeviceTakes(f) => Fresh(f)
    BY DEF DeviceTakes, Fresh, LinkInv, Counters
  <2>2. QED
    BY <1>2, <2>1, OnTheirWay DEF SessionTypeOK
<1>4. DeviceTakes(f) => p \in ToDevPdu /\ p.cmd <= Len(requests)
                        /\ (p.kind = "connect" => f.data = 1)
  <2>1. SUFFICES ASSUME DeviceTakes(f)
                 PROVE  /\ p \in ToDevPdu /\ p.cmd <= Len(requests)
                        /\ p.kind = "connect" => f.data = 1
    OBVIOUS
  <2>2. f.data \in 1 .. offered /\ f.data \in 1 .. Len(pdus) /\ p = pdus[f.data]
    BY <1>1, <1>3, <2>1
  <2>3. p \in ToDevPdu /\ p.cmd <= Len(requests)
    <3>1. PICK n \in 1 .. Len(pdus) : p = pdus[n]
      BY <2>2
    <3>2. QED
      BY <3>1, PduType
  <2>4. p.kind = "connect" => f.data = 1
    BY <2>2, PduKinds
  <2>5. QED
    BY <2>3, <2>4
<1>5. accepted # <<>> => LastTaken >= 1
  <2>1. SUFFICES ASSUME accepted # <<>> PROVE LastTaken >= 1
    OBVIOUS
  <2>2. Len(accepted) \in 1 .. Len(accepted)
    BY <2>1 DEF TypeOK
  <2>3. QED
    BY <2>1, <2>2 DEF LastTaken, LinkInv, Histories, AcceptedInOrder, TypeOK
<1>6. d \in Device
  BY <1>1, <1>4, ReadsType DEF TtpTypeOK
<1>7. accepted' # <<>> \/ (~DeviceTakes(f) /\ d = dev)
  <2>1. CASE DeviceTakes(f)
    <3>1. accepted \in Seq(Nat) /\ f.data \in Nat
      <4>1. accepted \in Seq(Nat) /\ offered \in Nat
        BY DEF TypeOK
      <4>2. QED
        BY <1>3, <2>1, <4>1
    <3>2. QED
      BY <1>2, <2>1, <3>1
  <2>2. QED
    BY <1>1, <2>1
<1> DEFINE given == IF DeviceTakes(f) /\ dev.state # "gone" THEN p.credit ELSE 0
<1>8. given \in Int /\ d.credit = dev.credit + given
      /\ (dev.state = "gone" => d.state = "gone")
  <2>0. dev \in Device /\ dev.credit \in Int
    BY DEF TtpTypeOK, Device
  <2>1. CASE ~DeviceTakes(f)
    BY <1>1, <2>0, <2>1
  <2>2. CASE DeviceTakes(f) /\ dev.state = "gone"
    BY <1>1, <2>0, <2>2 DEF Reads
  <2>3. CASE DeviceTakes(f) /\ dev.state # "gone"
    <3>1. p.credit \in Int /\ p.kind \in {"connect", "data"}
      BY <1>4, <2>3 DEF ToDevPdu
    <3>2. d = Reads(dev, p)
      BY <1>1, <2>3
    <3>3. CASE p.kind = "connect"
      <4>1. accepted = <<>>
        BY <1>3, <1>4, <1>5, <2>3, <3>3, OnTheirWay
      <4>2. d = [dev EXCEPT !.state = "confirming", !.credit = p.credit]
        BY <2>3, <3>2, <3>3 DEF Reads
      <4>3. d.credit = p.credit
        BY <2>0, <4>2 DEF Device
      <4>4. QED
        BY <2>3, <3>1, <4>1, <4>3
    <3>4. CASE p.kind = "data" /\ p.cmd = 0
      <4>1. d = [dev EXCEPT !.credit = @ + p.credit]
        BY <2>3, <3>2, <3>4 DEF Reads
      <4>2. d.credit = dev.credit + p.credit
        BY <2>0, <4>1 DEF Device
      <4>3. QED
        BY <2>3, <3>1, <4>2
    <3>5. CASE p.kind = "data" /\ p.cmd # 0
      <4>1. d = [dev EXCEPT !.credit = @ + p.credit, !.owed = @ \o Reply(p.cmd),
                            !.give = @ + 1, !.window = @ - 1]
        BY <2>3, <3>2, <3>5 DEF Reads
      <4>2. d.credit = dev.credit + p.credit
        BY <2>0, <4>1 DEF Device
      <4>3. QED
        BY <2>3, <3>1, <4>2
    <3>6. QED
      BY <3>1, <3>3, <3>4, <3>5
  <2>4. QED
    BY <2>1, <2>2, <2>3
<1> HIDE DEF given
<1> DEFINE spends == IF sent' # sent /\ DataPdu(sdus'[sent']) THEN 1 ELSE 0
<1>9. /\ dev'.credit = d.credit - spends
      /\ Unread' = Unread + spends /\ Charged' = Charged
      /\ d.state = "gone" => dev'.state = "gone"
      /\ accepted' = <<>> => dev'.credit = d.credit
  <2>0. d.credit \in Int
    BY <1>6 DEF Device
  <2>1. PICK n \in Nat : n = Len(received) /\ sent \in {n, n + 1} /\ sent \in Nat
    BY OnTheirWay
  <2>2. CASE sent' = sent /\ dev' = d /\ sdus' = sdus
    <3>1. Unread' = Unread /\ Charged' = Charged
      BY <1>2, <2>2 DEF Unread, Charged
    <3>2. Unread \in Int
      BY GapType
    <3>3. QED
      BY <2>0, <2>2, <3>1, <3>2
  <2>3. ASSUME NEW a \in Pending(d) \cup Disconnects(d),
               sent' = sent + 1, sdus' = Append(sdus, a[1]), dev' = a[2]
        PROVE  <1>9!1 /\ <1>9!2 /\ <1>9!3 /\ <1>9!4
    <3>1. /\ d.state \in {"confirming", "open"}
          /\ \/ DataPdu(a[1]) /\ a[2].credit = d.credit - 1
             \/ ~DataPdu(a[1]) /\ a[2].credit = d.credit
      BY <1>6, SendsCases
    <3>2. /\ Len(sdus) = sent /\ sdus'[sent'] = a[1]
          /\ \A k \in 1 .. sent : sdus'[k] = sdus[k]
      BY <2>3, Appended DEF SessionTypeOK
    <3>3. Len(received') = n /\ sent' \in {n, n + 1} /\ sent = n
      <4>1. Len(received') \in {sent' - 1, sent'}
        BY DEF TypeOK, LinkInv, Counters, Settled
      <4>2. QED
        BY <1>2, <2>1, <2>3, <4>1
    <3>4. Unread = 0
      BY <2>1, <3>3, GapType
    <3>5. Unread' = spends
      <4>1. PICK m, s : m = sent' /\ s = sdus'
        OBVIOUS
      <4>2. Unread' = Cardinality({i \in n + 1 .. m : DataPdu(s[i])})
        BY <3>3, <4>1 DEF Unread
      <4>3. m \in {n, n + 1} /\ (m # n <=> sent' # sent)
        BY <3>3, <4>1
      <4>4. Unread' = IF m # n /\ DataPdu(s[m]) THEN 1 ELSE 0
        BY <4>2, <4>3, UnreadCount
      <4>5. QED
        BY <4>1, <4>3, <4>4
    <3>6. Charged' = Charged
      <4>1. PICK s : s = sdus' /\ \A i \in 1 .. n : sdus[i] = s[i]
        BY <2>1, <3>2, <3>3
      <4>2. Charged' = Cardinality({i \in 1 .. n : s[i].kind = "data" /\ ~DataPdu(s[i])})
        BY <3>3, <4>1 DEF Charged
      <4>3. Charged = Cardinality({i \in 1 .. n : sdus[i].kind = "data" /\ ~DataPdu(sdus[i])})
        BY <2>1 DEF Charged
      <4>4. QED
        BY <4>1, <4>2, <4>3, ChargedSame
    <3>7. spends = IF DataPdu(a[1]) THEN 1 ELSE 0
      BY <2>1, <2>3, <3>2
    <3>8. dev'.credit = d.credit - spends
      <4>1. PICK z, k : z = spends /\ k = dev'.credit /\ k = a[2].credit
        BY <2>3
      <4>2. z = IF DataPdu(a[1]) THEN 1 ELSE 0
        BY <3>7, <4>1
      <4>3. k = d.credit - z
        BY <2>0, <3>1, <4>1, <4>2
      <4>4. QED
        BY <4>1, <4>3
    <3>9. accepted' # <<>>
      <4>1. d.state \notin {"closed", "gone"}
        BY <3>1
      <4>2. d = dev => accepted # <<>>
        BY <4>1 DEF Stages
      <4>3. QED
        BY <1>2, <1>7, <4>2
    <3>10. QED
      BY <3>1, <3>4, <3>5, <3>6, <3>8, <3>9
  <2>4. \/ sent' = sent /\ dev' = d /\ sdus' = sdus
        \/ /\ sent' = sent + 1
           /\ \E a \in Pending(d) \cup Disconnects(d) : sdus' = Append(sdus, a[1]) /\ dev' = a[2]
    BY <1>1, <1>2 DEF DeviceTurn
  <2>5. QED
    BY <2>2, <2>3, <2>4
<1> HIDE DEF spends
<1>10. Gap' = Gap - given
  <2>1. PICK s, r, c, u, k : /\ s = spends /\ r = remote_credit /\ c = Charged /\ u = Unread
                             /\ k = dev.credit
    OBVIOUS
  <2>2. s \in Int /\ r \in Int /\ c \in Int /\ u \in Int /\ k \in Int
    <3>1. r \in Int /\ k \in Int
      BY <2>1 DEF TtpTypeOK, Device
    <3>2. u \in Int /\ c \in Int
      BY <2>1, GapType
    <3>3. s \in Int
      BY <2>1 DEF spends
    <3>4. QED
      BY <3>1, <3>2, <3>3
  <2>3. Gap = r + c - k - u
    BY <2>1 DEF Gap
  <2>4. Gap' = r + c - (k + given - s) - (u + s)
    <3>1. PICK k1, u1, c1, r1 : k1 = dev'.credit /\ u1 = Unread' /\ c1 = Charged'
                                /\ r1 = remote_credit'
      OBVIOUS
    <3>2. Gap' = r1 + c1 - k1 - u1
      BY <3>1 DEF Gap
    <3>3. u1 = u + s /\ c1 = c /\ r1 = r
      BY <1>2, <1>9, <2>1, <3>1
    <3>4. k1 = d.credit - s /\ d.credit = k + given
      BY <1>8, <1>9, <2>1, <3>1
    <3>5. k1 = k + given - s
      <4>1. PICK dc \in Int : dc = d.credit
        BY <1>6 DEF Device
      <4>2. k1 = dc - s /\ dc = k + given /\ k \in Int /\ s \in Int /\ given \in Int
        BY <1>8, <2>2, <3>4, <4>1
      <4>3. QED
        BY ONLY <4>2
    <3>6. r1 + c1 - k1 - u1 = r + c - (k + given - s) - (u + s)
      BY <3>3, <3>5
    <3>7. QED
      BY <3>2, <3>6
  <2>5. QED
    BY <1>8, <2>2, <2>3, <2>4
<1>11. accepted' = <<>> => dev'.credit = dev.credit
  BY <1>7, <1>9
<1>12. QED
  BY <1>1, <1>3, <1>8, <1>9, <1>10, <1>11 DEF given

-----------------------------------------------------------------------------
(* A frame on its way, or the one transact sends again, brings no more     *)
(* credit than the gap has.                                                *)
Brings(f) == pdus[f.data].credit

BoundInv ==
  /\ remote_credit <= CreditTarget
  /\ accepted = <<>> => dev.credit = 0
  /\ tpc = "start" => Gap = CreditTarget
  /\ 0 <= Gap
  /\ \A i \in 1 .. Len(toDevice) : Fresh(toDevice[i]) => Brings(toDevice[i]) <= Gap
  /\ pc = "listening" /\ Fresh(frame) => Brings(frame) <= Gap

(* Once the device has taken a frame, no other is one it would take.       *)
LEMMA NoneFresh ==
  ASSUME TypeOK, TypeOK', LinkInv, LinkInv', DeviceAnswers, DeviceTakes(toDevice[1])
  PROVE  /\ \A i \in 1 .. Len(toDevice') :
              ~(toDevice'[i].kind = "I" /\ toDevice'[i].ns = Num(Len(accepted')))
         /\ ~(pc' = "listening" /\ frame'.kind = "I" /\ frame'.ns = Num(Len(accepted')))
         /\ Len(accepted') = Len(accepted) + 1 /\ Len(accepted) \in Nat /\ accepted' # <<>>
         /\ Fresh(toDevice[1]) /\ toDevice[1].data \in 1 .. offered
<1> DEFINE f == toDevice[1]
<1>1. /\ 1 \in 1 .. Len(toDevice) /\ Head(toDevice) = f
      /\ UNCHANGED <<vs, pc, frame, offered>>
  BY DEF DeviceAnswers, primaryVars, TypeOK
<1>2. accepted' = Append(accepted, f.data)
  BY <1>1 DEF DeviceAnswers, DeviceReads
<1>3. Fresh(f) /\ vs = Num(Taken) /\ f.data \in 1 .. offered
  <2>1. Fresh(f)
    BY DEF DeviceTakes, Fresh, LinkInv, Counters
  <2>2. QED
    BY <1>1, <2>1, OnTheirWay
<1>4. accepted \in Seq(Nat) /\ f.data \in Nat
  <2>1. accepted \in Seq(Nat) /\ offered \in Nat
    BY DEF TypeOK
  <2>2. QED
    BY <1>3, <2>1
<1>5. Len(accepted') = Len(accepted) + 1 /\ Len(accepted) \in Nat /\ accepted' # <<>>
  BY <1>2, <1>4
<1>6. vs' = Num(Len(accepted)) /\ Num(Len(accepted)) # Num(Len(accepted) + 1)
  BY <1>1, <1>3, <1>5, NumSucc DEF Taken
<1>7. ASSUME NEW i \in 1 .. Len(toDevice'),
             toDevice'[i].kind = "I", toDevice'[i].ns = Num(Len(accepted'))
      PROVE  FALSE
  <2>1. vs' = Num(Len(accepted'))
    BY <1>7 DEF LinkInv, ToDevice, ToDeviceFrame, Fresh, Taken
  <2>2. QED
    BY <1>5, <1>6, <2>1
<1>8. ASSUME pc' = "listening", frame'.kind = "I", frame'.ns = Num(Len(accepted'))
      PROVE  FALSE
  <2>1. frame'.ns = vs'
    BY <1>8 DEF LinkInv, FrameCurrent
  <2>2. QED
    BY <1>5, <1>6, <1>8, <2>1
<1>9. QED
  BY <1>3, <1>5, <1>7, <1>8

LEMMA BoundKeeps ==
  ASSUME TypeOK, LinkInv, SessionTypeOK, TtpTypeOK, BoundInv, accepted' = accepted,
         Gap' \in Int, Gap <= Gap', remote_credit' <= CreditTarget, dev'.credit = dev.credit,
         tpc' = "start" => tpc = "start" /\ Gap' = Gap,
         \A k \in 1 .. offered : pdus'[k] = pdus[k],
         NEW g, Fresh(g) => pdus'[g.data].credit <= Gap',
         \A i \in 1 .. Len(toDevice') :
           toDevice'[i] = g \/ \E j \in 1 .. Len(toDevice) : toDevice'[i] = toDevice[j],
         pc' = "listening" => frame' = g
  PROVE  BoundInv'
<1>1. Gap \in Int
  BY GapType
<1>2. ASSUME NEW i \in 1 .. Len(toDevice'), Fresh(toDevice'[i])
      PROVE  pdus'[toDevice'[i].data].credit <= Gap'
  <2>1. CASE toDevice'[i] = g
    BY <1>2, <2>1
  <2>2. ASSUME NEW j \in 1 .. Len(toDevice), toDevice'[i] = toDevice[j]
        PROVE  pdus'[toDevice'[i].data].credit <= Gap'
    <3>1. Fresh(toDevice[j])
      BY <1>2, <2>2
    <3>2. toDevice[j].data \in 1 .. offered /\ Brings(toDevice[j]) <= Gap
      BY <3>1, OnTheirWay DEF BoundInv
    <3>3. pdus[toDevice[j].data].credit \in Nat
      <4>1. PICK k \in 1 .. Len(pdus) : k = toDevice[j].data
        BY <3>2 DEF SessionTypeOK
      <4>2. QED
        BY <4>1, PduType
    <3>4. pdus'[toDevice'[i].data].credit = pdus[toDevice[j].data].credit
      BY <2>2, <3>2
    <3>5. QED
      BY <1>1, <3>2, <3>3, <3>4 DEF Brings
  <2>3. QED
    BY <2>1, <2>2
<1>3. /\ 0 <= Gap' /\ remote_credit' <= CreditTarget
      /\ accepted' = <<>> => dev'.credit = 0
      /\ tpc' = "start" => Gap' = CreditTarget
  BY <1>1 DEF BoundInv
<1>4. pc' = "listening" /\ Fresh(frame') => pdus'[frame'.data].credit <= Gap'
  OBVIOUS
<1>5. QED
  BY <1>2, <1>3, <1>4 DEF BoundInv, Brings, Fresh, Taken

(* A call with an I-field raises the gap by the credit it grants.          *)
LEMMA GapCall ==
  ASSUME TypeOK, LinkInv, SessionTypeOK, SessionTypeOK', TtpTypeOK, Stages, BoundInv,
         Connect \/ ConfirmPoll \/ RecvTurn \/ Send
  PROVE  /\ UNCHANGED <<received, sent, sdus, dev, accepted, lost>>
         /\ tpc # "failed" /\ tpc' \notin {"start", "failed"} /\ pc = "idle" /\ pc' = "listening"
         /\ toDevice' = Put(toDevice, frame') /\ frame' \in Frame
         /\ remote_credit' <= CreditTarget
         /\ \/ /\ pdus' = pdus /\ offered' = offered /\ Gap' = Gap /\ frame'.kind # "I"
               /\ tpc # "start"
            \/ /\ pdus' = Append(pdus, pdus'[offered']) /\ offered' = offered + 1
               /\ frame'.kind = "I" /\ frame'.data = offered'
               /\ pdus'[offered'].credit \in Nat
               /\ \/ tpc # "start" /\ Gap' = Gap + pdus'[offered'].credit
                  \/ /\ tpc = "start" /\ offered = 0 /\ Gap = CreditTarget
                     /\ Gap' = pdus'[offered'].credit
<1>0. offered \in Nat /\ IsSeq(pdus) /\ Len(pdus) = offered
  BY DEF TypeOK, SessionTypeOK
<1>1. ASSUME NEW f, Begin(f)
      PROVE  /\ pc = "idle" /\ pc' = "listening" /\ toDevice' = Put(toDevice, frame')
             /\ frame' = f
             /\ UNCHANGED <<accepted, received, sent, lost>>
  BY <1>1 DEF Begin, deviceVars
<1>2. ASSUME BeginPoll
      PROVE  /\ pc = "idle" /\ pc' = "listening" /\ toDevice' = Put(toDevice, frame')
             /\ UNCHANGED <<accepted, received, sent, lost, offered>>
             /\ frame'.kind # "I" /\ frame' \in Frame
  <2>1. frame' = RR(vr)
    BY <1>2 DEF BeginPoll, Begin
  <2>2. RR(vr).kind # "I" /\ RR(vr) \in Frame
    BY FrameType DEF TypeOK, RR
  <2>3. QED
    BY <1>1, <1>2, <2>1, <2>2 DEF BeginPoll
<1>3. ASSUME BeginInfo
      PROVE  /\ pc = "idle" /\ pc' = "listening" /\ toDevice' = Put(toDevice, frame')
             /\ UNCHANGED <<accepted, received, sent, lost>>
             /\ offered' = offered + 1
             /\ frame'.kind = "I" /\ frame'.data = offered' /\ frame' \in Frame
  <2>1. frame' = InfoFrame(vs, vr, offered + 1, TRUE) /\ offered' = offered + 1
    BY <1>3 DEF BeginInfo, Begin
  <2>2. InfoFrame(vs, vr, offered + 1, TRUE) \in Frame
    <3>1. vs \in SeqNum /\ vr \in SeqNum /\ offered + 1 \in Nat
      BY DEF TypeOK
    <3>2. QED
      BY <3>1, FrameType
  <2>3. InfoFrame(vs, vr, offered + 1, TRUE).kind = "I"
        /\ InfoFrame(vs, vr, offered + 1, TRUE).data = offered + 1
    BY DEF InfoFrame
  <2>4. QED
    BY <1>1, <1>3, <2>1, <2>2, <2>3 DEF BeginInfo
<1>4. ASSUME NEW p, pdus' = Append(pdus, p), offered' = offered + 1
      PROVE  pdus'[offered'] = p
  BY <1>0, <1>4, Appended
<1>5. UNCHANGED <<received, sent, sdus, dev>> =>
        Unread' = Unread /\ Charged' = Charged /\ dev'.credit = dev.credit
  BY GapQuiet
<1>6. /\ remote_credit \in Int /\ Grant \in Nat /\ remote_credit <= CreditTarget
      /\ remote_credit + Grant <= CreditTarget
      /\ Charged \in Int /\ Unread \in Int /\ dev.credit \in Int
  BY GrantType, GapType DEF TtpTypeOK, Device, BoundInv
<1>7. CASE Connect
  <2>1. /\ tpc = "start" /\ tpc' = "connecting" /\ BeginInfo
        /\ pdus' = Append(pdus, ToDev("connect", 0, CreditTarget))
        /\ UNCHANGED <<sdus, dev, remote_credit>>
    BY <1>7 DEF Connect, Offer, Outside
  <2>2. ToDev("connect", 0, CreditTarget).credit = CreditTarget
    BY DEF ToDev
  <2>3. pdus'[offered'] = ToDev("connect", 0, CreditTarget)
    BY <1>3, <1>4, <2>1
  <2>4. Gap' = Gap
    BY <1>3, <1>5, <2>1 DEF Gap
  <2>5. Gap = CreditTarget /\ offered = 0 /\ CreditTarget \in Nat
    <3>1. CreditTarget \in Nat
      BY TtpAssumption
    <3>2. Gap = CreditTarget
      BY <2>1 DEF BoundInv
    <3>3. offered = 0
      BY <2>1 DEF Stages
    <3>4. QED
      BY <3>1, <3>2, <3>3
  <2>6. QED
    BY <1>3, <1>6, <2>1, <2>2, <2>3, <2>4, <2>5
<1>8. CASE ConfirmPoll
  <2>1. /\ tpc = "confirming" /\ tpc' = tpc /\ BeginPoll /\ pdus' = pdus
        /\ UNCHANGED <<sdus, dev, remote_credit>>
    BY <1>8 DEF ConfirmPoll, Poll, Outside
  <2>2. Gap' = Gap
    BY <1>2, <1>5, <2>1 DEF Gap
  <2>3. QED
    BY <1>2, <1>6, <2>1, <2>2
<1>9. ASSUME NEW p, BeginInfo, pdus' = Append(pdus, p), p.credit = Grant,
             remote_credit' = remote_credit + Grant, UNCHANGED <<sdus, dev>>
      PROVE  Gap' = Gap + pdus'[offered'].credit /\ pdus'[offered'] = p
             /\ pdus'[offered'].credit \in Nat /\ remote_credit' <= CreditTarget
  <2>1. pdus'[offered'] = p
    BY <1>3, <1>4, <1>9
  <2>2. PICK r, c, k, u, g : /\ r = remote_credit /\ c = Charged /\ k = dev.credit
                             /\ u = Unread /\ g = Grant
    OBVIOUS
  <2>3. Gap' = r + g + c - k - u /\ Gap = r + c - k - u
    BY <1>3, <1>5, <1>9, <2>2 DEF Gap
  <2>4. r \in Int /\ c \in Int /\ k \in Int /\ u \in Int /\ g \in Nat
    BY <1>6, <2>2
  <2>5. Gap' = Gap + g
    BY <2>3, <2>4
  <2>6. QED
    BY <1>6, <1>9, <2>1, <2>2, <2>5
<1>10. CASE RecvTurn
  <2>1. /\ tpc = "receiving" /\ tpc' = tpc
        /\ UNCHANGED <<sdus, dev>>
        /\ \/ BeginInfo /\ pdus' = Append(pdus, ToDev("data", 0, Grant))
              /\ remote_credit' = remote_credit + Grant
           \/ BeginPoll /\ pdus' = pdus /\ remote_credit' = remote_credit
    BY <1>10 DEF RecvTurn, Offer, Poll, Outside
  <2>2. ToDev("data", 0, Grant).credit = Grant
    BY DEF ToDev
  <2>3. CASE BeginPoll /\ pdus' = pdus /\ remote_credit' = remote_credit
    <3>1. Gap' = Gap
      BY <1>2, <1>5, <2>1, <2>3 DEF Gap
    <3>2. QED
      BY <1>2, <1>6, <2>1, <2>3, <3>1
  <2>4. CASE /\ BeginInfo /\ pdus' = Append(pdus, ToDev("data", 0, Grant))
             /\ remote_credit' = remote_credit + Grant
    BY <1>3, <1>9, <2>1, <2>2, <2>4
  <2>5. QED
    BY <2>1, <2>3, <2>4
<1>11. CASE Send
  <2> DEFINE p == ToDev("data", Len(requests) + 1, Grant)
  <2>1. /\ tpc = "ready" /\ tpc' = "sending" /\ BeginInfo /\ pdus' = Append(pdus, p)
        /\ remote_credit' = remote_credit + Grant
        /\ UNCHANGED <<sdus, dev>>
    BY <1>11 DEF Send, Offer, Outside
  <2>2. p.credit = Grant
    BY DEF ToDev
  <2> HIDE DEF p
  <2>3. QED
    BY <1>3, <1>9, <2>1, <2>2
<1>12. QED
  BY <1>7, <1>8, <1>10, <1>11

-----------------------------------------------------------------------------
(* A step that is neither a call nor a turn of the device leaves the gap,  *)
(* and puts no frame in the air but the one of this transact.              *)
GapSteady ==
  /\ Gap' = Gap /\ remote_credit' <= CreditTarget
  /\ UNCHANGED <<dev, accepted, offered, pdus>>
  /\ lost' >= lost
  /\ tpc \in {"start", "failed"} => tpc' \in {tpc, "failed"}
  /\ tpc' = "start" => tpc = "start"
  /\ pc' = "listening" => pc = "listening" /\ frame' = frame
  /\ \/ toDevice' = toDevice
     \/ toDevice' = Put(toDevice, frame) /\ pc = "listening"
     \/ toDevice # <<>> /\ toDevice' = Tail(toDevice)

LEMMA SteadySteps ==
  ASSUME ~SplitReplies, TypeOK, TypeOK', LinkInv, LinkInv', SessionTypeOK, SessionTypeOK',
         TtpTypeOK, TtpTypeOK', BoundInv,
         \/ NoConfirm \/ NoSendCredit \/ RecvDone \/ TransactReturns \/ TransactGoesOn
         \/ TransactFails \/ Air \/ UNCHANGED ttpVars
  PROVE  GapSteady
<1>1. remote_credit <= CreditTarget /\ remote_credit \in Int /\ lost \in Nat /\ lost <= lost
  BY DEF BoundInv, TtpTypeOK, TypeOK
<1>2. ASSUME UNCHANGED <<received, sent, sdus, dev, remote_credit>>
      PROVE  Gap' = Gap
  BY <1>2, GapQuiet DEF Gap
<1>3. CASE NoConfirm \/ NoSendCredit \/ RecvDone
  <2>1. /\ UNCHANGED <<received, sent, sdus, dev, remote_credit, accepted, offered, pdus>>
        /\ UNCHANGED <<lost, toDevice, pc, frame>>
    BY <1>3 DEF NoConfirm, NoSendCredit, RecvDone, Outside, linkVars, primaryVars,
                deviceVars, airVars
  <2>2. tpc \notin {"start", "failed"} /\ tpc' # "start"
    BY <1>3 DEF NoConfirm, NoSendCredit, RecvDone
  <2>3. QED
    BY <1>1, <1>2, <2>1, <2>2 DEF GapSteady
<1>4. CASE TransactReturns
  <2>1. /\ UNCHANGED <<dev, pdus, accepted, offered, toDevice, lost>> /\ pc' = "idle"
    BY <1>4, ReturnsWhat
  <2>2. Gap' = Gap /\ remote_credit' <= remote_credit /\ remote_credit' \in Int
    BY <1>4, GapReturns DEF TtpTypeOK
  <2>3. \E pdu : Returns(pdu)
    BY <1>4, ReturnsWhat
  <2>4. tpc \notin {"start", "failed"} /\ tpc' # "start"
    BY <2>3 DEF Returns, ConnectReturns, ConfirmReturns, SendReturns, RecvReturns
  <2>5. remote_credit' <= CreditTarget
    BY <1>1, <2>2, TtpAssumption
  <2>6. QED
    BY <1>1, <2>1, <2>2, <2>4, <2>5 DEF GapSteady
<1>5. CASE TransactGoesOn
  <2>1. ~ReceiveNonFinal
    <3>1. fromDevice # <<>> => Head(fromDevice) = fromDevice[1] /\ 1 \in 1 .. Len(fromDevice)
      BY DEF TypeOK
    <3>2. fromDevice # <<>> => Head(fromDevice).pf
      BY <3>1 DEF LinkInv, FromDevice, FromDeviceFrame
    <3>3. QED
      BY <3>2 DEF ReceiveNonFinal
  <2>2. /\ UNCHANGED <<received, sent, sdus, dev, remote_credit, accepted, offered, pdus>>
        /\ UNCHANGED <<tpc, lost, frame, pc>> /\ pc = "listening"
        /\ toDevice' = Put(toDevice, frame)
    BY <1>5, <2>1 DEF TransactGoesOn, Retransmit, WindowCloses, Resent, Outside,
                      sessionVars, deviceVars
  <2>3. QED
    BY <1>1, <1>2, <2>2 DEF GapSteady
<1>6. CASE TransactFails
  <2>1. /\ UNCHANGED <<received, sent, sdus, dev, remote_credit, accepted, offered, pdus>>
        /\ UNCHANGED <<lost, toDevice>> /\ pc' = "failed" /\ tpc' = "failed"
    BY <1>6 DEF TransactFails, UsbFailure, Outside, deviceVars, airVars
  <2>2. QED
    BY <1>1, <1>2, <2>1 DEF GapSteady
<1>7. CASE Air
  <2>1. /\ UNCHANGED <<received, sent, sdus, dev, remote_credit, accepted, offered, pdus>>
        /\ UNCHANGED <<tpc, frame, pc>> /\ lost' = lost + 1
        /\ \/ toDevice' = toDevice
           \/ toDevice # <<>> /\ toDevice' = Tail(toDevice)
    BY <1>7 DEF Air, LoseToDevice, LoseFromDevice, Outside, sessionVars, primaryVars, deviceVars
  <2>2. lost' >= lost
    BY <1>1, <2>1
  <2>3. QED
    BY <1>1, <1>2, <2>1, <2>2 DEF GapSteady
<1>8. CASE UNCHANGED ttpVars
  <2>1. /\ UNCHANGED <<received, sent, sdus, dev, remote_credit, accepted, offered, pdus>>
        /\ UNCHANGED <<tpc, lost, toDevice, pc, frame>>
    BY <1>8 DEF ttpVars, sessionVars, linkVars, primaryVars, deviceVars, airVars
  <2>2. QED
    BY <1>1, <1>2, <2>1 DEF GapSteady
<1>9. QED
  BY <1>3, <1>4, <1>5, <1>6, <1>7, <1>8

LEMMA TailElements ==
  ASSUME NEW q \in Seq(Frame), q # <<>>
  PROVE  \A i \in 1 .. Len(Tail(q)) : \E j \in 1 .. Len(q) : Tail(q)[i] = q[j]
<1>1. Len(Tail(q)) = Len(q) - 1
      /\ \A i \in 1 .. Len(Tail(q)) : Tail(q)[i] = q[i + 1]
  OBVIOUS
<1>2. \A i \in 1 .. Len(Tail(q)) : i + 1 \in 1 .. Len(q)
  BY <1>1
<1>3. QED
  BY <1>1, <1>2

LEMMA BoundNext ==
  ASSUME ~SplitReplies, TypeOK, TypeOK', LinkInv, LinkInv', CreditInv, CreditInv',
         TtpTypeOK, TtpTypeOK', BoundInv, Gap' \in Int, [TtpNext]_ttpVars
  PROVE  BoundInv'
<1> USE DEF CreditInv
<1>a. toDevice \in Seq(Frame) /\ frame \in Frame /\ Gap \in Int
  BY GapType DEF TypeOK
<1>b. ~Fresh(RR(0))
  BY DEF Fresh, RR
<1>1. CASE Connect \/ ConfirmPoll \/ RecvTurn \/ Send
  <2>1. /\ UNCHANGED <<received, sent, sdus, dev, accepted, lost>>
        /\ tpc' # "start" /\ toDevice' = Put(toDevice, frame') /\ frame' \in Frame
        /\ remote_credit' <= CreditTarget
    BY <1>1, GapCall
  <2>2. \A i \in 1 .. Len(toDevice') :
          toDevice'[i] = frame' \/ \E j \in 1 .. Len(toDevice) : toDevice'[i] = toDevice[j]
    BY <1>a, <2>1, PutElements
  <2>3. PICK f : f = frame'
    OBVIOUS
  <2>4. CASE pdus' = pdus /\ Gap' = Gap /\ f.kind # "I"
    <3>1. ~Fresh(f)
      BY <2>4 DEF Fresh
    <3>2. Gap <= Gap' /\ dev'.credit = dev.credit
      BY <1>a, <2>1, <2>4
    <3>3. QED
      BY <2>1, <2>2, <2>3, <2>4, <3>1, <3>2, BoundKeeps
  <2>5. CASE /\ pdus' = Append(pdus, pdus'[offered']) /\ f.data = offered'
             /\ pdus'[offered'].credit \in Nat
             /\ Gap' = Gap + pdus'[offered'].credit
                \/ (tpc = "start" /\ Gap = CreditTarget /\ Gap' = pdus'[offered'].credit
                    /\ offered = 0)
    <3>1. 0 <= Gap
      BY DEF BoundInv
    <3>2. PICK c \in Nat : c = pdus'[offered'].credit
      BY <2>5
    <3>3. Gap' = Gap + c \/ (Gap' = c /\ Gap = CreditTarget /\ offered = 0 /\ tpc = "start")
      BY <2>5, <3>2
    <3>4. pdus'[f.data].credit <= Gap'
      BY <1>a, <2>5, <3>1, <3>2, <3>3
    <3>5. \A k \in 1 .. offered : pdus'[k] = pdus[k]
      <4>1. IsSeq(pdus) /\ Len(pdus) = offered
        BY DEF SessionTypeOK
      <4>2. QED
        BY <2>5, <4>1, Appended
    <3>6. CASE Gap' = Gap + c
      <4>1. Gap <= Gap' /\ dev'.credit = dev.credit
        BY <1>a, <2>1, <3>2, <3>6
      <4>2. QED
        BY <2>1, <2>2, <2>3, <3>4, <3>5, <4>1, BoundKeeps
    <3>7. CASE Gap' = c /\ offered = 0
      <4>1. ASSUME NEW i \in 1 .. Len(toDevice') PROVE toDevice'[i] = f \/ ~Fresh(toDevice'[i])
        <5>1. CASE toDevice'[i] = f
          BY <5>1
        <5>2. ASSUME NEW j \in 1 .. Len(toDevice), toDevice'[i] = toDevice[j]
              PROVE  ~Fresh(toDevice'[i])
          BY <3>7, <5>2, OnTheirWay
        <5>3. QED
          BY <2>2, <2>3, <5>1, <5>2
      <4>2. \A i \in 1 .. Len(toDevice') :
              Fresh(toDevice'[i]) => pdus'[toDevice'[i].data].credit <= Gap'
        BY <3>4, <4>1
      <4>3. 0 <= Gap' /\ (accepted' = <<>> => dev'.credit = 0)
        BY <2>1, <3>7 DEF BoundInv
      <4>4. QED
        BY <2>1, <2>3, <3>4, <4>2, <4>3 DEF BoundInv, Brings, Fresh, Taken
    <3>8. QED
      BY <3>3, <3>6, <3>7
  <2>6. QED
    BY <1>1, <2>3, <2>4, <2>5, GapCall
<1>2. CASE \/ NoConfirm \/ NoSendCredit \/ RecvDone \/ TransactReturns \/ TransactGoesOn
           \/ TransactFails \/ Air \/ UNCHANGED ttpVars
  <2>1. GapSteady
    BY <1>2, SteadySteps
  <2>2. Gap <= Gap' /\ dev'.credit = dev.credit /\ Gap' = Gap
    BY <1>a, <2>1 DEF GapSteady
  <2>3. CASE pc = "listening"
    <3>1. Fresh(frame) => pdus'[frame.data].credit <= Gap'
      BY <2>1, <2>3 DEF BoundInv, Brings, GapSteady
    <3>2. \A i \in 1 .. Len(toDevice') :
            toDevice'[i] = frame \/ \E j \in 1 .. Len(toDevice) : toDevice'[i] = toDevice[j]
      <4>1. CASE toDevice' = toDevice
        BY <4>1
      <4>2. CASE toDevice' = Put(toDevice, frame)
        BY <1>a, <4>2, PutElements
      <4>3. CASE toDevice # <<>> /\ toDevice' = Tail(toDevice)
        BY <1>a, <4>3, TailElements
      <4>4. QED
        BY <2>1, <4>1, <4>2, <4>3 DEF GapSteady
    <3>3. QED
      BY <2>1, <2>2, <3>1, <3>2, BoundKeeps DEF GapSteady
  <2>4. CASE pc # "listening"
    <3>1. \A i \in 1 .. Len(toDevice') :
            toDevice'[i] = RR(0) \/ \E j \in 1 .. Len(toDevice) : toDevice'[i] = toDevice[j]
      <4>1. CASE toDevice' = toDevice
        BY <4>1
      <4>2. CASE toDevice # <<>> /\ toDevice' = Tail(toDevice)
        BY <1>a, <4>2, TailElements
      <4>3. QED
        BY <2>1, <2>4, <4>1, <4>2 DEF GapSteady
    <3>2. pc' # "listening"
      BY <2>1, <2>4 DEF GapSteady
    <3>3. QED
      BY <1>b, <2>1, <2>2, <3>1, <3>2, BoundKeeps DEF GapSteady
  <2>5. QED
    BY <2>3, <2>4
<1>3. CASE DeviceTurn
  <2> DEFINE f == toDevice[1]
  <2>0. /\ DeviceAnswers /\ toDevice # <<>> /\ toDevice' = Tail(toDevice)
        /\ 1 \in 1 .. Len(toDevice)
        /\ UNCHANGED <<pc, frame, remote_credit, pdus, tpc, offered>>
    BY <1>3, <1>a DEF DeviceTurn, DeviceAnswers, sessionVars, primaryVars
  <2>1. accepted = <<>> => dev.credit = 0
    BY DEF BoundInv
  <2>2. /\ Gap' = Gap - (IF DeviceTakes(f) /\ dev.state # "gone"
                         THEN pdus[f.data].credit ELSE 0)
        /\ accepted' = <<>> => dev'.credit = dev.credit
        /\ DeviceTakes(f) => f.data \in 1 .. Len(pdus) /\ Fresh(f)
    BY <1>3, <2>1, GapDevice
  <2>3. remote_credit' <= CreditTarget
    BY <2>0 DEF BoundInv
  <2>4. accepted' = <<>> => accepted = <<>>
    <3>1. DeviceTakes(f) => accepted' # <<>>
      BY <2>0, NoneFresh
    <3>2. Head(toDevice) = f
      BY <1>a, <2>0
    <3>3. ~DeviceTakes(f) => accepted' = accepted
      BY <2>0, <3>2 DEF DeviceAnswers, DeviceReads
    <3>4. QED
      BY <3>1, <3>3
  <2>5. accepted' = <<>> => dev'.credit = 0
    BY <2>1, <2>2, <2>4
  <2>6. CASE DeviceTakes(f)
    <3>1. PICK n \in 1 .. Len(pdus) : n = f.data
      BY <2>2, <2>6
    <3>2. PICK c \in Nat : c = pdus[n].credit
      <4>1. pdus[n].credit \in Nat
        BY PduType
      <4>2. QED
        BY <4>1
    <3>3. c <= Gap /\ 0 <= Gap
      BY <2>0, <2>2, <2>6, <3>1, <3>2 DEF BoundInv, Brings
    <3>4. 0 <= Gap'
      BY <1>a, <2>2, <3>1, <3>2, <3>3
    <3>5. tpc' # "start"
      <4>1. offered # 0
        BY <3>1 DEF SessionTypeOK
      <4>2. QED
        BY <2>0, <4>1 DEF Stages
    <3>6. /\ \A i \in 1 .. Len(toDevice') :
                ~(toDevice'[i].kind = "I" /\ toDevice'[i].ns = Num(Len(accepted')))
          /\ ~(pc' = "listening" /\ frame'.kind = "I" /\ frame'.ns = Num(Len(accepted')))
      BY <2>0, <2>6, NoneFresh
    <3>7. QED
      BY <2>3, <2>5, <3>4, <3>5, <3>6 DEF BoundInv, Fresh, Taken
  <2>7. CASE ~DeviceTakes(f)
    <3>1. Gap' = Gap
      BY <1>a, <2>2, <2>7
    <3>2. accepted' = accepted
      <4>1. Head(toDevice) = f
        BY <1>a, <2>0
      <4>2. QED
        BY <2>0, <2>7, <4>1 DEF DeviceAnswers, DeviceReads
    <3>3. ASSUME NEW i \in 1 .. Len(toDevice'), Fresh(toDevice'[i])
          PROVE  pdus'[toDevice'[i].data].credit <= Gap'
      <4>1. PICK j \in 1 .. Len(toDevice) : toDevice'[i] = toDevice[j]
        BY <1>a, <2>0, TailElements
      <4>2. QED
        BY <2>0, <3>1, <3>3, <4>1 DEF BoundInv, Brings
    <3>4. QED
      BY <2>0, <2>3, <2>5, <3>1, <3>2, <3>3 DEF BoundInv, Brings, Fresh, Taken
  <2>8. QED
    BY <2>6, <2>7
<1>4. QED
  BY <1>1, <1>2, <1>3 DEF TtpNext, Program

LEMMA BoundInit == TtpInit => BoundInv
<1> SUFFICES ASSUME TtpInit PROVE BoundInv
  OBVIOUS
<1>1. /\ remote_credit = CreditTarget /\ received = <<>> /\ sent = 0 /\ toDevice = <<>>
      /\ pc = "idle" /\ sdus = <<>>
      /\ dev = [state |-> "closed", credit |-> 0, owed |-> <<>>, give |-> 0, window |-> 0]
  BY DEF TtpInit, LinkInit
<1>2. Len(<<>>) = 0 /\ dev.credit = 0
  BY <1>1
<1>3. Unread = 0
  <2>1. {i \in 0 + 1 .. 0 : DataPdu(sdus[i])} = {}
    OBVIOUS
  <2>2. QED
    BY <1>1, <1>2, <2>1, FS_EmptySet DEF Unread
<1>4. Charged = 0
  <2>1. {i \in 1 .. 0 : sdus[i].kind = "data" /\ ~DataPdu(sdus[i])} = {}
    OBVIOUS
  <2>2. QED
    BY <1>1, <1>2, <2>1, FS_EmptySet DEF Charged
<1>5. Gap = CreditTarget /\ CreditTarget \in Nat
  BY <1>1, <1>2, <1>3, <1>4, TtpAssumption DEF Gap
<1>6. QED
  BY <1>1, <1>2, <1>5 DEF BoundInv

(* The credit the device holds and has spent unread is what the program    *)
(* counts, less the credit that is on its way or was lost: over any losses *)
(* and late answers, in sessions of any length.                            *)
THEOREM TtpBoundInvariant ==
  ASSUME ~SplitReplies
  PROVE  TtpSpec => []BoundInv
<1>1. TtpInit => BoundInv
  BY BoundInit
<1>2. TypeOK /\ LinkInv /\ CreditInv /\ TtpTypeOK => Gap \in Int
  BY GapType DEF CreditInv
<1>3. /\ TypeOK /\ TypeOK' /\ LinkInv /\ LinkInv' /\ CreditInv /\ CreditInv'
      /\ TtpTypeOK /\ TtpTypeOK' /\ Gap' \in Int /\ BoundInv /\ [TtpNext]_ttpVars
      => BoundInv'
  BY BoundNext
<1>4. (Gap \in Int)' => Gap' \in Int
  OBVIOUS
<1>5. QED
  BY <1>1, <1>2, <1>3, <1>4, TtpTypeCorrect, TtpCreditInvariant, TtpUsesLink, LinkTypeCorrect,
     LinkInvariant, PTL DEF TtpSpec

(* The half of CreditCovered that needs no prompt device: the device never *)
(* sends on credit the program does not count, and the program never       *)
(* counts more than its target, whatever is lost or late.                  *)
THEOREM TtpCreditBounded ==
  ASSUME ~SplitReplies
  PROVE  TtpSpec => []CreditBounded
<1>1. TypeOK /\ LinkInv /\ CreditInv /\ TtpTypeOK /\ BoundInv => CreditBounded
  <2> SUFFICES ASSUME TypeOK, LinkInv, CreditInv, TtpTypeOK, BoundInv PROVE CreditBounded
    OBVIOUS
  <2>1. Unread \in Int /\ Charged \in Int
    BY GapType DEF CreditInv
  <2>2. dev.credit \in Int /\ remote_credit \in Int
    BY DEF TtpTypeOK, Device
  <2>3. 0 <= remote_credit + Charged - dev.credit - Unread /\ remote_credit <= CreditTarget
    BY DEF BoundInv, Gap
  <2>4. dev.credit + Unread <= remote_credit + Charged
    BY <2>1, <2>2, <2>3
  <2>5. QED
    BY <2>3, <2>4 DEF CreditBounded
<1>2. QED
  BY <1>1, TtpBoundInvariant, TtpTypeCorrect, TtpCreditInvariant, TtpUsesLink, LinkTypeCorrect,
     LinkInvariant, PTL

-----------------------------------------------------------------------------
(* With a prompt device, fewer losses than tries and no answer left over   *)
(* from the handshake, the gap is the credit of the I-field under way.     *)
UnderWay == IF Taken = offered THEN 0 ELSE pdus[offered].credit

ExactInv ==
  lost < Retries /\ dev.state # "gone" /\ tpc \notin {"start", "failed"}
  => Gap = UnderWay

LEMMA ExactNext ==
  ASSUME ~SplitReplies, TypeOK, TypeOK', LinkInv, LinkInv', CreditInv, CreditInv',
         TtpTypeOK, TtpTypeOK', BoundInv, PromptInv, ExactInv, [TtpNext]_ttpVars
  PROVE  ExactInv'
<1> USE DEF CreditInv
<1>a. Gap \in Int /\ offered \in Nat /\ accepted \in Seq(Nat) /\ Retries \in Nat
      /\ lost \in Nat /\ lost' \in Nat
  BY GapType, LinkAssumption DEF TypeOK
<1>1. CASE Connect \/ ConfirmPoll \/ RecvTurn \/ Send
  <2>1. /\ UNCHANGED <<dev, accepted, lost>> /\ tpc # "failed" /\ pc = "idle"
        /\ \/ /\ pdus' = pdus /\ offered' = offered /\ Gap' = Gap /\ tpc # "start"
           \/ /\ offered' = offered + 1 /\ pdus'[offered'].credit \in Nat
              /\ \/ tpc # "start" /\ Gap' = Gap + pdus'[offered'].credit
                 \/ tpc = "start" /\ Gap = CreditTarget /\ Gap' = pdus'[offered'].credit
    BY <1>1, GapCall
  <2>2. SUFFICES ASSUME lost < Retries, dev.state # "gone"
                 PROVE  Gap' = UnderWay'
    BY <2>1 DEF ExactInv
  <2>3. Taken = offered
    BY <2>1, <2>2 DEF PromptInv, Settles
  <2>4. tpc # "start" => Gap = 0
    BY <2>1, <2>2, <2>3 DEF ExactInv, UnderWay
  <2>5. Taken' = Taken
    BY <2>1 DEF Taken
  <2>6. CASE pdus' = pdus /\ offered' = offered /\ Gap' = Gap /\ tpc # "start"
    BY <2>3, <2>4, <2>5, <2>6 DEF UnderWay
  <2>7. CASE /\ offered' = offered + 1 /\ pdus'[offered'].credit \in Nat
             /\ \/ tpc # "start" /\ Gap' = Gap + pdus'[offered'].credit
                \/ tpc = "start" /\ Gap = CreditTarget /\ Gap' = pdus'[offered'].credit
    <3>1. Taken' # offered'
      BY <1>a, <2>3, <2>5, <2>7
    <3>2. UnderWay' = pdus'[offered'].credit
      BY <3>1 DEF UnderWay
    <3>4. CASE Gap' = pdus'[offered'].credit
      BY <3>2, <3>4
    <3>5. CASE Gap' = Gap + pdus'[offered'].credit /\ tpc # "start"
      BY <2>4, <2>7, <3>2, <3>5
    <3>6. QED
      BY <2>7, <3>4, <3>5
  <2>8. QED
    BY <2>1, <2>6, <2>7
<1>2. CASE \/ NoConfirm \/ NoSendCredit \/ RecvDone \/ TransactReturns \/ TransactGoesOn
           \/ TransactFails \/ Air \/ UNCHANGED ttpVars
  <2>1. GapSteady
    BY <1>2, SteadySteps
  <2>2. UnderWay' = UnderWay /\ Gap' = Gap /\ dev' = dev
    BY <2>1 DEF GapSteady, UnderWay, Taken
  <2>3. lost' < Retries => lost < Retries
    BY <1>a, <2>1 DEF GapSteady
  <2>4. tpc' \notin {"start", "failed"} => tpc \notin {"start", "failed"}
    BY <2>1 DEF GapSteady
  <2>5. QED
    BY <2>2, <2>3, <2>4 DEF ExactInv
<1>3. CASE DeviceTurn
  <2> DEFINE f == toDevice[1]
  <2>0. /\ DeviceAnswers /\ toDevice # <<>> /\ Head(toDevice) = f
        /\ UNCHANGED <<pc, frame, pdus, tpc, offered, lost>>
        /\ accepted' = IF DeviceTakes(f) THEN Append(accepted, f.data) ELSE accepted
    <3>1. toDevice # <<>> /\ toDevice \in Seq(Frame)
      BY <1>3 DEF DeviceTurn, DeviceAnswers, TypeOK
    <3>2. Head(toDevice) = f
      BY <3>1
    <3>3. QED
      BY <1>3, <3>1, <3>2 DEF DeviceTurn, DeviceAnswers, DeviceReads, sessionVars, primaryVars
  <2>1. accepted = <<>> => dev.credit = 0
    BY DEF BoundInv
  <2>2. /\ Gap' = Gap - (IF DeviceTakes(f) /\ dev.state # "gone"
                         THEN pdus[f.data].credit ELSE 0)
        /\ dev.state = "gone" => dev'.state = "gone"
        /\ DeviceTakes(f) => f.data \in 1 .. Len(pdus)
    BY <1>3, <2>1, GapDevice
  <2>3. SUFFICES ASSUME lost < Retries, dev.state # "gone", tpc \notin {"start", "failed"}
                 PROVE  Gap' = UnderWay'
    BY <2>0, <2>2 DEF ExactInv
  <2>4. Gap = UnderWay
    BY <2>3 DEF ExactInv
  <2>5. CASE DeviceTakes(f)
    <3>1. toDevice = <<frame>> /\ pc = "listening"
      BY <2>0 DEF PromptInv, OneExchange
    <3>2. f = frame
      BY <3>1
    <3>3. frame.kind = "I" /\ frame.ns = dvr /\ frame.ns = vs
      BY <2>5, <3>1, <3>2 DEF DeviceTakes, LinkInv, FrameCurrent
    <3>4. frame.data = offered /\ Taken = offered - 1
      BY <2>3, <3>1, <3>3 DEF PromptInv, Settles
    <3>5. Len(accepted') = Len(accepted) + 1
      BY <2>0, <2>5, NoneFresh
    <3>6. Taken # offered /\ Taken' = offered'
      BY <1>a, <2>0, <3>4, <3>5 DEF Taken
    <3>7. Gap = pdus[offered].credit /\ UnderWay' = 0
      BY <2>4, <3>6 DEF UnderWay
    <3>8. Gap' = Gap - pdus[offered].credit
      BY <2>2, <2>3, <2>5, <3>2, <3>4
    <3>9. QED
      BY <1>a, <3>7, <3>8
  <2>6. CASE ~DeviceTakes(f)
    <3>1. Gap' = Gap
      BY <1>a, <2>2, <2>6
    <3>2. UnderWay' = UnderWay
      BY <2>0, <2>6 DEF UnderWay, Taken
    <3>3. QED
      BY <2>4, <3>1, <3>2
  <2>7. QED
    BY <2>5, <2>6
<1>4. QED
  BY <1>1, <1>2, <1>3 DEF TtpNext, Program

(* So it is in every session with a prompt device.                         *)
THEOREM TtpExactInvariant ==
  ASSUME ~SplitReplies, Prompt, MaxStaleUas = 0
  PROVE  TtpSpec => []ExactInv
<1>1. TtpInit => ExactInv
  BY DEF TtpInit, ExactInv
<1>2. /\ TypeOK /\ TypeOK' /\ LinkInv /\ LinkInv' /\ CreditInv /\ CreditInv'
      /\ TtpTypeOK /\ TtpTypeOK' /\ BoundInv /\ PromptInv /\ ExactInv /\ [TtpNext]_ttpVars
      => ExactInv'
  BY ExactNext
<1>3. QED
  BY <1>1, <1>2, TtpBoundInvariant, TtpTypeCorrect, TtpCreditInvariant, TtpUsesLink,
     LinkPromptInvariant, LinkTypeCorrect, LinkInvariant, PTL DEF TtpSpec

(* CreditCovered, for every session with a prompt device: however many     *)
(* frames are lost, the device never sends on credit the program does not  *)
(* know of; and until as many are lost as a transact tries, the program    *)
(* knows exactly what the device holds.                                    *)
THEOREM TtpCreditCovered ==
  ASSUME ~SplitReplies, Prompt, MaxStaleUas = 0
  PROVE  TtpSpec => []CreditCovered
<1>1. TypeOK /\ LinkInv /\ CreditInv /\ TtpTypeOK /\ PromptInv /\ ExactInv => CreditExact
  <2> SUFFICES ASSUME TypeOK, LinkInv, CreditInv, TtpTypeOK, PromptInv, ExactInv,
                      pc = "idle", tpc \in {"ready", "receiving"}, lost < Retries,
                      dev.state # "gone"
               PROVE  dev.credit + Unread = remote_credit + Charged
    BY DEF CreditExact
  <2>1. Taken = offered
    BY DEF PromptInv, Settles
  <2>2. Gap = 0
    BY <2>1 DEF ExactInv, UnderWay
  <2>3. Unread \in Int /\ Charged \in Int /\ dev.credit \in Int /\ remote_credit \in Int
    BY GapType DEF CreditInv, TtpTypeOK, Device
  <2>4. remote_credit + Charged - dev.credit - Unread = 0
    BY <2>2 DEF Gap
  <2>5. QED
    BY <2>3, <2>4
<1>2. QED
  BY <1>1, TtpExactInvariant, TtpCreditBounded, TtpTypeCorrect, TtpCreditInvariant,
     TtpUsesLink, LinkPromptInvariant, LinkTypeCorrect, LinkInvariant, PTL DEF CreditCovered

-----------------------------------------------------------------------------
(* Why a transfer returns the reply to its own command.  The bytes the     *)
(* program has not returned yet are in rx, in the device's last I-field if *)
(* transact has not returned that, or still owed by the device: together   *)
(* they are the rest of the reply to the transfer in progress, or nothing  *)
(* as long as the device has not taken its command.  The only command the  *)
(* device may still take is then that one, however often it was given up.  *)
Unclaimed == IF Len(received) = sent THEN <<>> ELSE sdus[sent].data
Content   == rx \o (Unclaimed \o dev.owed)

Current == requests[Len(requests)]
Begun   == IF Transfers!Returned = 0 THEN 0 ELSE Current.ask
InTransfer == tpc \in {"sending", "receiving"}

FreshCommand(f) == Fresh(f) /\ Command(pdus[f.data])
OnlyCommand(f) ==
  FreshCommand(f) => InTransfer /\ Content = <<>> /\ pdus[f.data].cmd = Len(requests)
Commands ==
  /\ \A i \in 1 .. Len(toDevice) : OnlyCommand(toDevice[i])
  /\ pc = "listening" => OnlyCommand(frame)

Attributed ==
  /\ replies # <<>> => /\ replies[Len(replies)] # <<>>
                       /\ replies[Len(replies)][1][1] \in 1 .. Len(requests)
  /\ tpc \in {"start", "connecting", "confirming"} => requests = <<>> /\ replies = <<>>

Progress ==
  /\ requests # <<>> /\ wanted > 0
  /\ wanted + more = Current.ask + Current.more - Begun
  /\ Transfers!Returned = 0 => wanted = Current.ask
  /\ Transfers!Returned # 0 => tpc = "receiving" /\ more = 0
  /\ \/ Transfers!Returned = 0 /\ Content = <<>>
     \/ Content = Transfers!Bytes(Len(requests), Begun, Current.ask + Current.more)

StreamInv ==
  tpc # "failed" =>
    /\ Attributed /\ Commands
    /\ IF InTransfer THEN Progress ELSE Content = <<>>

-----------------------------------------------------------------------------
LEMMA BytesType ==
  ASSUME NEW k \in Nat, NEW from \in Nat, NEW to \in Nat, from <= to
  PROVE  /\ Transfers!Bytes(k, from, to) \in Seq(Byte)
         /\ Len(Transfers!Bytes(k, from, to)) = to - from
         /\ \A i \in 1 .. to - from : Transfers!Bytes(k, from, to)[i] = <<k, from + i>>
<1>1. PICK n \in Nat : n = to - from
  OBVIOUS
<1>2. Transfers!Bytes(k, from, to) = [i \in 1 .. n |-> <<k, from + i>>]
  BY <1>1 DEF Transfers!Bytes
<1>3. \A i \in 1 .. n : <<k, from + i>> \in Byte
  BY DEF Byte
<1>4. /\ [i \in 1 .. n |-> <<k, from + i>>] \in Seq(Byte)
      /\ Len([i \in 1 .. n |-> <<k, from + i>>]) = n
      /\ \A i \in 1 .. n : [j \in 1 .. n |-> <<k, from + j>>][i] = <<k, from + i>>
  BY <1>3
<1>5. QED
  BY <1>1, <1>2, <1>4

(* Taking n bytes off the front.                                           *)
Front(s, n)    == SubSeq(s, 1, n)
Joins(s, t, b) == s \o t = b

LEMMA FirstBytes ==
  ASSUME NEW k \in Nat, NEW from \in Nat, NEW to \in Nat, from <= to,
         NEW s \in Seq(Byte), NEW t \in Seq(Byte), NEW n \in 0 .. Len(s),
         Joins(s, t, Transfers!Bytes(k, from, to))
  PROVE  /\ Front(s, n) = Transfers!Bytes(k, from, from + n)
         /\ Joins(Drop(s, n), t, Transfers!Bytes(k, from + n, to))
<1> DEFINE b == Transfers!Bytes(k, from, to)
<1>1. PICK ls \in Nat, lt \in Nat : ls = Len(s) /\ lt = Len(t)
  OBVIOUS
<1>2. ls + lt = to - from /\ n \in 0 .. ls
  <2>1. Len(b) = to - from
    BY BytesType
  <2>2. Len(s \o t) = Len(s) + Len(t)
    BY ConcatProperties
  <2>3. s \o t = b
    BY DEF Joins
  <2>4. QED
    BY <1>1, <2>1, <2>2, <2>3
<1>3. from + n <= to /\ from + n \in Nat
  BY <1>1, <1>2
<1>a. \A i \in 1 .. ls + lt : (s \o t)[i] = IF i <= ls THEN s[i] ELSE t[i - ls]
  <2>1. \A i \in 1 .. Len(s) + Len(t) :
          (s \o t)[i] = IF i <= Len(s) THEN s[i] ELSE t[i - Len(s)]
    BY ConcatProperties
  <2>2. QED
    BY <1>1, <2>1
<1>b. \A i \in 1 .. ls + lt : b[i] = <<k, from + i>>
  <2>1. \A i \in 1 .. to - from : b[i] = <<k, from + i>>
    BY BytesType
  <2>2. QED
    BY <1>2, <2>1
<1> HIDE DEF b
<1>c. \A i \in 1 .. ls + lt : (s \o t)[i] = b[i]
  BY DEF b, Joins
<1>4. \A i \in 1 .. ls : s[i] = <<k, from + i>>
  <2>1. \A i \in 1 .. ls : i \in 1 .. ls + lt /\ i <= ls
    BY <1>1
  <2>2. QED
    BY <1>a, <1>b, <1>c, <2>1
<1>5. \A i \in 1 .. lt : t[i] = <<k, from + ls + i>>
  <2>3. ASSUME NEW i \in 1 .. lt PROVE t[i] = <<k, from + ls + i>>
    <3>1. PICK j \in 1 .. ls + lt : j = ls + i /\ ~(j <= ls) /\ j - ls = i
      <4>1. ls + i \in 1 .. ls + lt /\ ~(ls + i <= ls) /\ (ls + i) - ls = i
        BY <1>1, <2>3
      <4>2. QED
        BY <4>1
    <3>2. (s \o t)[j] = t[i] /\ b[j] = <<k, from + j>>
      BY <1>a, <1>b, <3>1
    <3>3. from + j = from + ls + i
      BY <1>1, <3>1
    <3>4. QED
      BY <1>c, <3>1, <3>2, <3>3
  <2>4. QED
    BY <2>3
<1>6. SubSeq(s, 1, n) = Transfers!Bytes(k, from, from + n)
  <2>1. SubSeq(s, 1, n) \in Seq(Byte) /\ Len(SubSeq(s, 1, n)) = n
        /\ \A i \in 1 .. n : SubSeq(s, 1, n)[i] = s[i]
    BY <1>1
  <2>2. /\ Transfers!Bytes(k, from, from + n) \in Seq(Byte)
        /\ Len(Transfers!Bytes(k, from, from + n)) = n
        /\ \A i \in 1 .. n : Transfers!Bytes(k, from, from + n)[i] = <<k, from + i>>
    <3>1. PICK m \in Nat : m = from + n /\ from <= m /\ m - from = n
      BY <1>1, <1>2, <1>3
    <3>2. /\ Transfers!Bytes(k, from, m) \in Seq(Byte)
          /\ Len(Transfers!Bytes(k, from, m)) = m - from
          /\ \A i \in 1 .. m - from : Transfers!Bytes(k, from, m)[i] = <<k, from + i>>
      <4>1. k \in Nat /\ from \in Nat /\ m \in Nat /\ from <= m
        BY <3>1
      <4>2. QED
        BY ONLY <4>1, BytesType
    <3>3. QED
      BY <3>1, <3>2
  <2>3. \A i \in 1 .. n : i \in 1 .. ls
    BY <1>1, <1>2
  <2>4. QED
    BY <1>4, <2>1, <2>2, <2>3, SeqEqual
<1>7. PICK u : u = Drop(s, n)
  OBVIOUS
<1>8. u \in Seq(Byte) /\ Len(u) = ls - n /\ \A i \in 1 .. ls - n : u[i] = <<k, from + n + i>>
  <2>0. u = SubSeq(s, n + 1, ls)
    BY <1>1, <1>7 DEF Drop
  <2>1. u \in Seq(Byte) /\ Len(u) = ls - n /\ \A i \in 1 .. ls - n : u[i] = s[n + i]
    <3>1. PICK m \in Nat : m = n + 1 /\ ls - m + 1 = ls - n /\ m <= ls + 1
      BY <1>1, <1>2
    <3>2. \A i \in m .. ls : s[i] \in Byte
      BY <1>1, <3>1
    <3>3. /\ SubSeq(s, m, ls) \in Seq(Byte)
          /\ Len(SubSeq(s, m, ls)) = IF m <= ls THEN ls - m + 1 ELSE 0
          /\ \A i \in 1 .. ls - m + 1 : SubSeq(s, m, ls)[i] = s[m + i - 1]
      BY <3>2, SubSeqProperties
    <3>4. u = SubSeq(s, m, ls)
      BY <2>0, <3>1
    <3>5. Len(u) = ls - n
      BY <1>1, <1>2, <3>1, <3>3, <3>4
    <3>6. \A i \in 1 .. ls - n : m + i - 1 = n + i
      BY <1>1, <1>2, <3>1
    <3>7. QED
      BY <3>1, <3>3, <3>4, <3>5, <3>6
  <2>2. \A i \in 1 .. ls - n : n + i \in 1 .. ls /\ from + (n + i) = from + n + i
    BY <1>1, <1>2
  <2>3. QED
    BY <1>4, <2>1, <2>2
<1>9. u \o t = Transfers!Bytes(k, from + n, to)
  <2>1. /\ u \o t \in Seq(Byte) /\ Len(u \o t) = (ls - n) + lt
        /\ \A i \in 1 .. (ls - n) + lt : (u \o t)[i] =
                     IF i <= ls - n THEN u[i] ELSE t[i - (ls - n)]
    <3>1. u \in Seq(Byte) /\ t \in Seq(Byte)
      BY <1>8
    <3>2. /\ u \o t \in Seq(Byte) /\ Len(u \o t) = Len(u) + Len(t)
          /\ \A i \in 1 .. Len(u) + Len(t) : (u \o t)[i] =
                       IF i <= Len(u) THEN u[i] ELSE t[i - Len(u)]
      BY ONLY <3>1, ConcatProperties
    <3>3. Len(u) = ls - n /\ Len(t) = lt
      BY <1>1, <1>8
    <3>4. QED
      BY <3>2, <3>3, Zenon
  <2>2. /\ Transfers!Bytes(k, from + n, to) \in Seq(Byte)
        /\ Len(Transfers!Bytes(k, from + n, to)) = to - (from + n)
        /\ \A i \in 1 .. to - (from + n) :
             Transfers!Bytes(k, from + n, to)[i] = <<k, from + n + i>>
    BY <1>3, BytesType
  <2>3. (ls - n) + lt = to - (from + n)
    BY <1>1, <1>2
  <2>4. ASSUME NEW i \in 1 .. (ls - n) + lt PROVE (u \o t)[i] = <<k, from + n + i>>
    <3>1. CASE i <= ls - n
      <4>1. i \in 1 .. ls - n
        BY <1>1, <1>2, <2>4, <3>1
      <4>2. QED
        BY <1>8, <2>1, <3>1, <4>1
    <3>2. CASE ~(i <= ls - n)
      <4>1. PICK j \in 1 .. lt : j = i - (ls - n) /\ from + ls + j = from + n + i
        <5>1. i - (ls - n) \in 1 .. lt /\ from + ls + (i - (ls - n)) = from + n + i
          BY <1>1, <1>2, <2>4, <3>2
        <5>2. QED
          BY <5>1
      <4>2. (u \o t)[i] = t[j]
        BY <2>1, <3>2, <4>1
      <4>3. QED
        BY <1>5, <4>1, <4>2
    <3>3. QED
      BY <3>1, <3>2
  <2>5. QED
    BY <2>1, <2>2, <2>3, <2>4, SeqEqual
<1>10. QED
  BY <1>6, <1>7, <1>9 DEF Front, Joins

LEMMA BytesConcat == \A s, t, u \in Seq(Byte) : (s \o t) \o u = s \o (t \o u)
BY ConcatAssociative

LEMMA ReplyIsBytes ==
  ASSUME TtpTypeOK, NEW k \in 1 .. Len(requests)
  PROVE  /\ Reply(k) = Transfers!Bytes(k, 0, requests[k].ask + requests[k].more)
         /\ Reply(k) \in Seq(Byte)
<1>1. requests[k].ask \in Nat /\ requests[k].more \in Nat /\ Reply(k) \in Seq(Byte)
  BY RequestType
<1>2. PICK n \in Nat : n = requests[k].ask + requests[k].more /\ n - 0 = n
  BY <1>1
<1>3. Reply(k) = [i \in 1 .. n |-> <<k, i>>]
  BY <1>2 DEF Reply
<1>4. Transfers!Bytes(k, 0, n) = [i \in 1 .. n |-> <<k, 0 + i>>]
  BY <1>2 DEF Transfers!Bytes
<1>5. \A i \in 1 .. n : 0 + i = i
  OBVIOUS
<1>6. [i \in 1 .. n |-> <<k, 0 + i>>] = [i \in 1 .. n |-> <<k, i>>]
  BY <1>5
<1>7. QED
  BY <1>1, <1>2, <1>3, <1>4, <1>6

LEMMA ContentType ==
  ASSUME TypeOK, LinkInv, SessionTypeOK, TtpTypeOK
  PROVE  /\ Unclaimed \in Seq(Byte) /\ dev.owed \in Seq(Byte) /\ rx \in Seq(Byte)
         /\ Unclaimed \o dev.owed \in Seq(Byte)
         /\ Content \in Seq(Byte)
<1>1. <<>> \in Seq(Byte) /\ dev.owed \in Seq(Byte) /\ rx \in Seq(Byte)
  BY DEF TtpTypeOK, Device
<1>2. Unclaimed \in Seq(Byte)
  <2>1. CASE Len(received) = sent
    BY <1>1, <2>1 DEF Unclaimed
  <2>2. CASE Len(received) # sent
    <3>1. sent \in 1 .. Len(sdus)
      BY <2>2, OnTheirWay DEF SessionTypeOK
    <3>2. sdus[sent] \in FromDevPdu
      BY <3>1 DEF TtpTypeOK
    <3>3. QED
      BY <2>2, <3>2 DEF Unclaimed, FromDevPdu
  <2>3. QED
    BY <2>1, <2>2
<1>3. Unclaimed \o dev.owed \in Seq(Byte)
  BY <1>1, <1>2, ConcatProperties
<1>4. QED
  BY <1>1, <1>2, <1>3, ConcatProperties DEF Content

(* absorb moves the bytes of an I-field to rx.                             *)
LEMMA ContentReturns ==
  ASSUME TypeOK, TypeOK', LinkInv, LinkInv', SessionTypeOK, TtpTypeOK, TransactReturns
  PROVE  Content' = Content
<1>1. /\ UNCHANGED <<sent, sdus, dev>>
      /\ \/ received' = received /\ Returns(Nothing)
         \/ /\ Len(received) = sent - 1 /\ received' = Append(received, sent)
            /\ sent \in 1 .. sent /\ Returns(sdus[sent])
  BY ReturnsWhat
<1>2. \A pdu : Returns(pdu) => rx' = rx \o pdu.data
  BY DEF Returns, ConnectReturns, ConfirmReturns, SendReturns, RecvReturns, Absorb
<1>3. Unclaimed \in Seq(Byte) /\ dev.owed \in Seq(Byte) /\ rx \in Seq(Byte)
  BY ContentType
<1>4. CASE received' = received /\ Returns(Nothing)
  <2>1. Nothing.data = <<>>
    BY DEF Nothing, FromDev
  <2>2. rx' = rx
    BY <1>2, <1>3, <1>4, <2>1, ConcatEmptySeq
  <2>3. Unclaimed' = Unclaimed
    BY <1>1, <1>4 DEF Unclaimed
  <2>4. QED
    BY <1>1, <2>2, <2>3 DEF Content
<1>5. CASE /\ Len(received) = sent - 1 /\ received' = Append(received, sent)
           /\ sent \in 1 .. sent /\ Returns(sdus[sent])
  <2>1. Unclaimed = sdus[sent].data
    BY <1>5 DEF Unclaimed
  <2>2. Unclaimed' = <<>>
    <3>1. received \in Seq(Nat) /\ sent \in Nat
      BY DEF TypeOK
    <3>2. Len(received') = sent
      BY <1>5, <3>1
    <3>3. QED
      BY <1>1, <3>2 DEF Unclaimed
  <2>3. rx' = rx \o Unclaimed
    BY <1>2, <1>5, <2>1
  <2>4. Content' = (rx \o Unclaimed) \o (<<>> \o dev.owed)
    BY <1>1, <2>2, <2>3 DEF Content
  <2>5. <<>> \o dev.owed = dev.owed
    BY <1>3, ConcatEmptySeq
  <2>6. (rx \o Unclaimed) \o dev.owed = rx \o (Unclaimed \o dev.owed)
    <3>1. PICK a, u, o : a = rx /\ u = Unclaimed /\ o = dev.owed
      OBVIOUS
    <3>2. a \in Seq(Byte) /\ u \in Seq(Byte) /\ o \in Seq(Byte)
      BY <1>3, <3>1
    <3>3. (a \o u) \o o = a \o (u \o o)
      BY ONLY <3>2, BytesConcat, Zenon
    <3>4. QED
      BY <3>1, <3>3
  <2>7. QED
    BY <2>4, <2>5, <2>6 DEF Content
<1>6. QED
  BY <1>1, <1>4, <1>5

LEMMA ContentQuiet ==
  ASSUME UNCHANGED <<received, sent, sdus, dev, rx>>
  PROVE  Content' = Content
BY DEF Content, Unclaimed

(* A device that takes a command owes the reply; sending moves bytes from  *)
(* what it owes to its last I-field.                                       *)
LEMMA ContentDevice ==
  ASSUME TypeOK, TypeOK', LinkInv, LinkInv', CreditInv, CreditInv', TtpTypeOK,
         DeviceTurn, NEW f, f = toDevice[1]
  PROVE  /\ \/ Content' = Content
            \/ /\ DeviceTakes(f) /\ FreshCommand(f) /\ pdus[f.data].cmd \in 1 .. Len(requests)
               /\ Content' = Content \o Reply(pdus[f.data].cmd)
         /\ \A d : d = (IF DeviceTakes(f) THEN Reads(dev, pdus[f.data]) ELSE dev)
                  => Content' = rx \o (Unclaimed \o d.owed)
<1> USE DEF CreditInv
<1>1. PICK p, d : /\ p = pdus[f.data]
                  /\ d = IF DeviceTakes(f) THEN Reads(dev, p) ELSE dev
  OBVIOUS
<1>2. /\ toDevice # <<>> /\ Head(toDevice) = f /\ 1 \in 1 .. Len(toDevice)
      /\ UNCHANGED <<received, rx>>
  <2>1. toDevice # <<>>
    BY DEF DeviceTurn, DeviceAnswers
  <2>2. Head(toDevice) = f /\ 1 \in 1 .. Len(toDevice)
    BY <2>1 DEF TypeOK
  <2>3. QED
    BY <2>1, <2>2 DEF DeviceTurn, DeviceAnswers, sessionVars, primaryVars
<1>3. DeviceTakes(f) => f.data \in 1 .. offered /\ f.data \in 1 .. Len(pdus) /\ Fresh(f)
  <2>1. DeviceTakes(f) => Fresh(f)
    BY DEF DeviceTakes, Fresh, LinkInv, Counters
  <2>2. QED
    BY <1>2, <2>1, OnTheirWay DEF SessionTypeOK
<1>4. DeviceTakes(f) => p \in ToDevPdu /\ p.cmd <= Len(requests)
  <2>1. SUFFICES ASSUME DeviceTakes(f) PROVE p \in ToDevPdu /\ p.cmd <= Len(requests)
    OBVIOUS
  <2>2. PICK n \in 1 .. Len(pdus) : p = pdus[n]
    BY <1>1, <1>3, <2>1
  <2>3. QED
    BY <2>2, PduType
<1>5. d \in Device
  BY <1>1, <1>4, ReadsType DEF TtpTypeOK
<1>6. Unclaimed \in Seq(Byte) /\ dev.owed \in Seq(Byte) /\ rx \in Seq(Byte)
      /\ d.owed \in Seq(Byte) /\ Unclaimed \o dev.owed \in Seq(Byte)
  BY <1>5, ContentType DEF Device
<1>7. \/ d.owed = dev.owed
      \/ /\ DeviceTakes(f) /\ Command(p) /\ p.cmd \in 1 .. Len(requests)
         /\ d.owed = dev.owed \o Reply(p.cmd)
  <2>0. dev \in Device
    BY DEF TtpTypeOK
  <2>1. CASE ~DeviceTakes(f)
    BY <1>1, <2>1
  <2>2. CASE DeviceTakes(f) /\ dev.state = "gone"
    BY <1>1, <2>2 DEF Reads
  <2>3. CASE DeviceTakes(f) /\ dev.state # "gone"
    <3>1. p.kind \in {"connect", "data"} /\ p.cmd \in Nat /\ d = Reads(dev, p)
      BY <1>1, <1>4, <2>3 DEF ToDevPdu
    <3>2. CASE p.kind = "connect"
      <4>1. d = [dev EXCEPT !.state = "confirming", !.credit = p.credit]
        BY <2>3, <3>1, <3>2 DEF Reads
      <4>2. QED
        BY <2>0, <4>1 DEF Device
    <3>3. CASE p.kind = "data" /\ p.cmd = 0
      <4>1. d = [dev EXCEPT !.credit = @ + p.credit]
        BY <2>3, <3>1, <3>3 DEF Reads
      <4>2. QED
        BY <2>0, <4>1 DEF Device
    <3>4. CASE p.kind = "data" /\ p.cmd # 0
      <4>1. d = [dev EXCEPT !.credit = @ + p.credit, !.owed = @ \o Reply(p.cmd),
                            !.give = @ + 1, !.window = @ - 1]
        BY <2>3, <3>1, <3>4 DEF Reads
      <4>2. d.owed = dev.owed \o Reply(p.cmd)
        BY <2>0, <4>1 DEF Device
      <4>3. Command(p) /\ p.cmd \in 1 .. Len(requests)
        <5>1. Len(requests) \in Nat
          BY DEF TtpTypeOK
        <5>2. QED
          BY <1>4, <2>3, <3>1, <3>4, <5>1 DEF Command
      <4>4. QED
        BY <2>3, <4>2, <4>3
    <3>5. QED
      BY <3>1, <3>2, <3>3, <3>4
  <2>4. QED
    BY <2>1, <2>2, <2>3
<1>8. Unclaimed' \o dev'.owed = Unclaimed \o d.owed
  <2>1. CASE sent' = sent /\ dev' = d /\ sdus' = sdus
    <3>1. Unclaimed' = Unclaimed
      BY <1>2, <2>1 DEF Unclaimed
    <3>2. QED
      BY <2>1, <3>1
  <2>2. ASSUME NEW a \in Pending(d) \cup Disconnects(d),
               sent' = sent + 1, sdus' = Append(sdus, a[1]), dev' = a[2]
        PROVE  Unclaimed' \o dev'.owed = Unclaimed \o d.owed
    <3>1. a[1].data \o a[2].owed = d.owed
      BY <1>5, SendsCases
    <3>2. sdus'[sent'] = a[1]
      BY <2>2, Appended DEF SessionTypeOK
    <3>3. Len(received) = sent /\ Len(received') # sent'
      <4>1. Len(received') = Len(received) /\ Len(received') \in {sent' - 1, sent'}
        BY <1>2 DEF TypeOK, LinkInv, Counters, Settled
      <4>2. Len(received) \in {sent - 1, sent} /\ sent \in Nat
        BY OnTheirWay
      <4>3. QED
        BY <2>2, <4>1, <4>2
    <3>4. Unclaimed' = a[1].data /\ Unclaimed = <<>>
      BY <3>2, <3>3 DEF Unclaimed
    <3>5. <<>> \o d.owed = d.owed
      BY <1>6, ConcatEmptySeq
    <3>6. QED
      BY <2>2, <3>1, <3>4, <3>5
  <2>3. \/ sent' = sent /\ dev' = d /\ sdus' = sdus
        \/ /\ sent' = sent + 1
           /\ \E a \in Pending(d) \cup Disconnects(d) : sdus' = Append(sdus, a[1]) /\ dev' = a[2]
    BY <1>1, <1>2 DEF DeviceTurn
  <2>4. QED
    BY <2>1, <2>2, <2>3
<1>9. Content' = rx \o (Unclaimed \o d.owed)
  BY <1>2, <1>8 DEF Content
<1>10. \A e : e = (IF DeviceTakes(f) THEN Reads(dev, pdus[f.data]) ELSE dev)
               => Content' = rx \o (Unclaimed \o e.owed)
  BY <1>1, <1>9
<1>11. CASE d.owed = dev.owed
  <2>1. Content' = Content
    BY <1>9, <1>11 DEF Content
  <2>2. QED
    BY <1>10, <2>1
<1>12. CASE /\ DeviceTakes(f) /\ Command(p) /\ p.cmd \in 1 .. Len(requests)
            /\ d.owed = dev.owed \o Reply(p.cmd)
  <2>1. PICK a, u, o, r : a = rx /\ u = Unclaimed /\ o = dev.owed /\ r = Reply(p.cmd)
    OBVIOUS
  <2>2. a \in Seq(Byte) /\ r \in Seq(Byte) /\ u \in Seq(Byte) /\ o \in Seq(Byte)
        /\ u \o o \in Seq(Byte)
    BY <1>6, <1>12, <2>1, RequestType
  <2>3. (u \o o) \o r = u \o (o \o r)
    BY ONLY <2>2, BytesConcat, Zenon
  <2>4. (a \o (u \o o)) \o r = a \o ((u \o o) \o r)
    BY ONLY <2>2, BytesConcat, Zenon
  <2>5. Content' = Content \o r
    <3>1. Content' = a \o (u \o (o \o r)) /\ Content = a \o (u \o o)
      BY <1>9, <1>12, <2>1 DEF Content
    <3>2. QED
      BY ONLY <2>3, <2>4, <3>1, Zenon
  <2>6. /\ DeviceTakes(f) /\ FreshCommand(f) /\ pdus[f.data].cmd \in 1 .. Len(requests)
    BY <1>1, <1>3, <1>12 DEF FreshCommand
  <2>7. Content' = Content \o Reply(pdus[f.data].cmd)
    BY <1>1, <2>1, <2>5
  <2>8. QED
    BY <1>10, <2>6, <2>7
<1>13. QED
  BY <1>7, <1>11, <1>12

-----------------------------------------------------------------------------
(* No frame becomes a command but the one this transact sends.             *)
LEMMA CommandsKeep ==
  ASSUME TypeOK, LinkInv, SessionTypeOK, Commands, accepted' = accepted,
         \A k \in 1 .. offered : pdus'[k] = pdus[k],
         InTransfer /\ Content = <<>> =>
           InTransfer' /\ Content' = <<>> /\ Len(requests') = Len(requests),
         NEW g,
         Fresh(g) /\ Command(pdus'[g.data]) =>
           InTransfer' /\ Content' = <<>> /\ pdus'[g.data].cmd = Len(requests'),
         \A i \in 1 .. Len(toDevice') :
           toDevice'[i] = g \/ \E j \in 1 .. Len(toDevice) : toDevice'[i] = toDevice[j],
         pc' = "listening" => frame' = g
  PROVE  Commands'
<1>1. ASSUME NEW i \in 1 .. Len(toDevice'), Fresh(toDevice'[i]),
             Command(pdus'[toDevice'[i].data])
      PROVE  InTransfer' /\ Content' = <<>> /\ pdus'[toDevice'[i].data].cmd = Len(requests')
  <2>1. CASE toDevice'[i] = g
    BY <1>1, <2>1
  <2>2. ASSUME NEW j \in 1 .. Len(toDevice), toDevice'[i] = toDevice[j]
        PROVE  InTransfer' /\ Content' = <<>> /\ pdus'[toDevice'[i].data].cmd = Len(requests')
    <3>1. Fresh(toDevice[j])
      BY <1>1, <2>2
    <3>2. toDevice[j].data \in 1 .. offered
      BY <3>1, OnTheirWay
    <3>3. pdus'[toDevice'[i].data] = pdus[toDevice[j].data]
      BY <2>2, <3>2
    <3>4. FreshCommand(toDevice[j])
      BY <1>1, <3>1, <3>3 DEF FreshCommand
    <3>5. InTransfer /\ Content = <<>> /\ pdus[toDevice[j].data].cmd = Len(requests)
      BY <3>4 DEF Commands, OnlyCommand
    <3>6. QED
      BY <3>3, <3>5
  <2>3. QED
    BY <2>1, <2>2
<1>4. \A i \in 1 .. Len(toDevice') : OnlyCommand(toDevice[i])'
  BY <1>1 DEF OnlyCommand, FreshCommand, Fresh, Taken
<1>5. pc' = "listening" => OnlyCommand(frame)'
  BY DEF OnlyCommand, FreshCommand, Fresh, Taken
<1>6. QED
  BY <1>4, <1>5 DEF Commands

(* A call that is no command.                                              *)
LEMMA StreamCall ==
  ASSUME TypeOK, TypeOK', LinkInv, LinkInv', CreditInv, CreditInv', TtpTypeOK, BoundInv,
         StreamInv, Connect \/ ConfirmPoll \/ RecvTurn
  PROVE  StreamInv'
<1> USE DEF CreditInv
<1>1. /\ UNCHANGED <<received, sent, sdus, dev, accepted, rx, wanted, more, requests, replies>>
      /\ tpc # "failed" /\ pc' = "listening" /\ tpc' # "sending"
      /\ toDevice' = Put(toDevice, frame') /\ frame' \in Frame
      /\ tpc' = tpc \/ (tpc = "start" /\ tpc' = "connecting")
      /\ tpc # "sending"
  <2>1. /\ UNCHANGED <<received, sent, sdus, dev, accepted>>
        /\ tpc # "failed" /\ pc' = "listening"
        /\ toDevice' = Put(toDevice, frame') /\ frame' \in Frame
    BY GapCall
  <2>2. QED
    BY <2>1 DEF Connect, ConfirmPoll, RecvTurn
<1>2. Content' = Content
  BY <1>1, ContentQuiet
<1>3. InTransfer' <=> InTransfer
  BY <1>1 DEF InTransfer
<1>4. UNCHANGED <<Transfers!Returned, Current, Begun>>
  BY <1>1 DEF Transfers!Returned, Current, Begun
<1>5. Commands'
  <2>1. \A k \in 1 .. offered : pdus'[k] = pdus[k]
    <3>1. pdus' = pdus \/ pdus' = Append(pdus, pdus'[offered'])
      BY GapCall
    <3>2. IsSeq(pdus) /\ Len(pdus) = offered
      BY DEF SessionTypeOK
    <3>3. QED
      BY <3>1, <3>2, Appended
  <2>2. ~(Fresh(frame') /\ Command(pdus'[frame'.data]))
    <3>1. frame'.kind # "I" \/ frame'.data = offered'
      BY GapCall
    <3>2. frame'.kind = "I" => ~Command(pdus'[offered'])
      BY <1>1 DEF Stages, Command
    <3>3. QED
      BY <3>1, <3>2 DEF Fresh
  <2>3. \A i \in 1 .. Len(toDevice') :
          toDevice'[i] = frame' \/ \E j \in 1 .. Len(toDevice) : toDevice'[i] = toDevice[j]
    BY <1>1, PutElements DEF TypeOK
  <2>4. Commands /\ Len(requests') = Len(requests)
    BY <1>1 DEF StreamInv
  <2>5. QED
    BY <1>1, <1>2, <1>3, <2>1, <2>2, <2>3, <2>4, CommandsKeep
<1>6. Attributed'
  BY <1>1 DEF StreamInv, Attributed
<1>7. InTransfer => Progress'
  <2>1. InTransfer => Progress /\ tpc' = tpc
    BY <1>1 DEF StreamInv, InTransfer
  <2>2. QED
    BY <1>1, <1>2, <1>4, <2>1 DEF Progress
<1>8. ~InTransfer => Content' = <<>>
  BY <1>1, <1>2 DEF StreamInv
<1>9. QED
  BY <1>3, <1>5, <1>6, <1>7, <1>8 DEF StreamInv

(* A command begins a transfer of which nothing has been returned.         *)
LEMMA StreamSend ==
  ASSUME TypeOK, TypeOK', LinkInv, LinkInv', CreditInv, CreditInv', TtpTypeOK, TtpTypeOK',
         BoundInv, StreamInv, Send
  PROVE  /\ StreamInv'
         /\ \E a \in AskSizes, m \in MoreSizes :
              /\ Len(requests) < MaxTransfers
              /\ requests' = Append(requests, [ask |-> a, more |-> m])
<1> USE DEF CreditInv
<1>1. PICK a \in AskSizes, m \in MoreSizes :
        /\ requests' = Append(requests, [ask |-> a, more |-> m])
        /\ wanted' = a /\ more' = m
  BY DEF Send
<1>2. /\ UNCHANGED <<received, sent, sdus, dev, accepted, rx, replies>>
      /\ tpc = "ready" /\ tpc' = "sending" /\ pc' = "listening"
      /\ toDevice' = Put(toDevice, frame') /\ frame' \in Frame
      /\ Len(requests) < MaxTransfers
      /\ pdus' = Append(pdus, ToDev("data", Len(requests) + 1, Grant))
  <2>1. /\ UNCHANGED <<received, sent, sdus, dev, accepted>>
        /\ pc' = "listening"
        /\ toDevice' = Put(toDevice, frame') /\ frame' \in Frame
    BY GapCall
  <2>2. QED
    BY <2>1 DEF Send, Offer
<1>3. PICK k \in Nat : k = Len(requests)
  BY DEF TtpTypeOK
<1>4. /\ requests' # <<>> /\ Len(requests') = k + 1
      /\ requests'[k + 1] = [ask |-> a, more |-> m]
      /\ a \in Nat \ {0} /\ m \in Nat
  <2>1. IsSeq(requests)
    BY DEF SessionTypeOK
  <2>2. Len(requests') = k + 1 /\ requests'[k + 1] = [ask |-> a, more |-> m]
    BY <1>1, <1>3, <2>1, Appended
  <2>3. requests' # <<>>
    <3>1. Len(<<>>) = 0 /\ k + 1 # 0
      OBVIOUS
    <3>2. QED
      BY <2>2, <3>1
  <2>4. QED
    BY <2>2, <2>3, TtpAssumption
<1>5. Content' = <<>> /\ ~InTransfer /\ InTransfer'
  <2>1. Content' = Content
    BY <1>2, ContentQuiet
  <2>2. QED
    BY <1>2, <2>1 DEF StreamInv, InTransfer
<1>6. Attributed /\ Commands
  BY <1>2 DEF StreamInv
<1>7. Attributed'
  <2>1. \A x : x \in 1 .. Len(requests) => x \in 1 .. Len(requests')
    BY <1>3, <1>4
  <2>2. QED
    BY <1>2, <1>6, <2>1 DEF Attributed
<1>8. Transfers!Returned' = 0
  <2>1. replies # <<>> => replies[Len(replies)][1][1] # k + 1
    BY <1>3, <1>6 DEF Attributed
  <2>2. QED
    BY <1>2, <1>4, <2>1 DEF Transfers!Returned
<1>9. Progress'
  <2>1. Current' = [ask |-> a, more |-> m] /\ Begun' = 0
    BY <1>4, <1>8 DEF Current, Begun
  <2>2. Current'.ask = a /\ Current'.more = m /\ wanted' = a /\ more' = m
    BY <1>1, <2>1
  <2>3. a + m = a + m - 0 /\ a > 0
    BY <1>4
  <2>4. QED
    BY <1>4, <1>5, <1>8, <2>1, <2>2, <2>3 DEF Progress
<1>10. Commands'
  <2>1. \A i \in 1 .. offered : pdus'[i] = pdus[i]
    BY <1>2, Appended DEF SessionTypeOK
  <2>2. Fresh(frame') /\ Command(pdus'[frame'.data]) => pdus'[frame'.data].cmd = Len(requests')
    <3>1. frame'.kind = "I" => frame'.data = offered' /\ offered' = offered + 1
      BY GapCall
    <3>2. pdus'[offered + 1] = ToDev("data", Len(requests) + 1, Grant)
      BY <1>2, Appended DEF SessionTypeOK
    <3>3. pdus'[offered + 1].cmd = k + 1
      BY <1>3, <3>2 DEF ToDev
    <3>4. QED
      BY <1>4, <3>1, <3>3 DEF Fresh
  <2>3. \A i \in 1 .. Len(toDevice') :
          toDevice'[i] = frame' \/ \E j \in 1 .. Len(toDevice) : toDevice'[i] = toDevice[j]
    BY <1>2, PutElements DEF TypeOK
  <2>4. QED
    BY <1>2, <1>5, <1>6, <2>1, <2>2, <2>3, CommandsKeep
<1>11. StreamInv'
  BY <1>5, <1>7, <1>9, <1>10 DEF StreamInv
<1>12. QED
  BY <1>1, <1>2, <1>11

-----------------------------------------------------------------------------
(* A reply that is due is there as soon as recv has as many bytes.         *)
LEMMA BytesEmpty ==
  ASSUME NEW k \in Nat, NEW from \in Nat
  PROVE  Transfers!Bytes(k, from, from) = <<>>
<1>1. Len(Transfers!Bytes(k, from, from)) = 0 /\ Transfers!Bytes(k, from, from) \in Seq(Byte)
  BY BytesType
<1>2. QED
  BY <1>1

LEMMA CurrentType ==
  ASSUME TtpTypeOK, requests # <<>>
  PROVE  /\ Len(requests) \in Nat \ {0}
         /\ Current.ask \in Nat \ {0} /\ Current.more \in Nat
         /\ Begun \in {0, Current.ask} /\ Transfers!Returned \in {0, 1}
<1>1. Len(requests) \in 1 .. Len(requests) /\ Len(requests) \in Nat
  BY DEF TtpTypeOK
<1>2. requests[Len(requests)].ask \in Nat \ {0} /\ requests[Len(requests)].more \in Nat
  BY <1>1, RequestType
<1>3. QED
  BY <1>1, <1>2 DEF Current, Begun, Transfers!Returned

LEMMA StreamAnswers ==
  ASSUME TypeOK, TypeOK', LinkInv, LinkInv', CreditInv, TtpTypeOK, TtpTypeOK', StreamInv,
         RecvDone
  PROVE  StreamInv' /\ Transfers!Answer
<1> USE DEF CreditInv
<1>1. /\ tpc = "receiving" /\ pc = "idle" /\ Len(rx) >= wanted
      /\ replies' = Append(replies, SubSeq(rx, 1, wanted))
      /\ rx' = Drop(rx, wanted)
      /\ tpc' = IF more > 0 THEN "receiving" ELSE "ready"
      /\ wanted' = more /\ more' = 0
      /\ UNCHANGED <<sdus, dev, requests, pdus, received, sent, toDevice, accepted, pc>>
  BY DEF RecvDone, Rest, Outside, linkVars, primaryVars, deviceVars, airVars
<1>2. Progress /\ Commands /\ Attributed
  BY <1>1 DEF StreamInv, InTransfer
<1>3. PICK k, ask, due, from, w : /\ k = Len(requests) /\ ask = Current.ask
                                  /\ due = Current.more /\ from = Begun /\ w = wanted
  OBVIOUS
<1>4. /\ k \in Nat \ {0} /\ ask \in Nat \ {0} /\ due \in Nat /\ from \in {0, ask}
      /\ w \in Nat \ {0} /\ more \in Nat /\ w + more = ask + due - from
      /\ Transfers!Returned \in {0, 1}
  <2>1. requests # <<>> /\ wanted > 0 /\ wanted + more = Current.ask + Current.more - Begun
    BY <1>2 DEF Progress
  <2>2. /\ Len(requests) \in Nat \ {0}
        /\ Current.ask \in Nat \ {0} /\ Current.more \in Nat
        /\ Begun \in {0, Current.ask} /\ Transfers!Returned \in {0, 1}
    BY <2>1, CurrentType
  <2>3. wanted \in Nat \ {0} /\ more \in Nat
    BY <2>1 DEF TtpTypeOK
  <2>4. QED
    BY <1>3, <2>1, <2>2, <2>3
<1>5. /\ Transfers!Returned = 0 => from = 0 /\ w = ask
      /\ Transfers!Returned # 0 => from = ask /\ more = 0
  BY <1>2, <1>3 DEF Progress, Begun
<1>6. PICK t \in Seq(Byte) : t = Unclaimed \o dev.owed
  BY ContentType
<1>7. rx \in Seq(Byte) /\ Content = rx \o t /\ Content' = rx' \o t
  <2>1. Unclaimed' = Unclaimed
    BY <1>1 DEF Unclaimed
  <2>2. QED
    BY <1>1, <1>6, <2>1 DEF TtpTypeOK, Content
<1>8. Content # <<>>
  <2>1. rx # <<>>
    <3>1. Len(<<>>) = 0
      OBVIOUS
    <3>2. Len(rx) > 0
      <4>1. Len(rx) \in Nat
        BY <1>7
      <4>2. QED
        BY <1>1, <1>3, <1>4, <4>1
    <3>3. QED
      BY <3>1, <3>2
  <2>2. QED
    BY <1>7, <2>1, ConcatEqualIffEmpty
<1>9. PICK end \in Nat : end = ask + due /\ from <= end
  BY <1>4
<1>10. rx \o t = Transfers!Bytes(k, from, end)
  BY <1>2, <1>3, <1>7, <1>8, <1>9 DEF Progress
<1>11. PICK mid \in Nat : /\ mid = from + w
                          /\ SubSeq(rx, 1, w) = Transfers!Bytes(k, from, mid)
                          /\ Drop(rx, w) \o t = Transfers!Bytes(k, mid, end)
  <2>1. w \in 0 .. Len(rx) /\ k \in Nat /\ from \in Nat
    BY <1>1, <1>3, <1>4, <1>7
  <2>2. from + w \in Nat
    BY <1>4, <2>1
  <2>3. SubSeq(rx, 1, w) = Transfers!Bytes(k, from, from + w)
        /\ Drop(rx, w) \o t = Transfers!Bytes(k, from + w, end)
    <3>1. PICK x \in Seq(Byte) : x = rx
      BY <1>7
    <3>2. /\ k \in Nat /\ from \in Nat /\ end \in Nat /\ from <= end
          /\ x \in Seq(Byte) /\ t \in Seq(Byte) /\ x \o t = Transfers!Bytes(k, from, end)
          /\ w \in 0 .. Len(x)
      BY <1>9, <1>10, <2>1, <3>1
    <3>3. Joins(x, t, Transfers!Bytes(k, from, end))
      BY <3>2 DEF Joins
    <3>4. Front(x, w) = Transfers!Bytes(k, from, from + w)
          /\ Joins(Drop(x, w), t, Transfers!Bytes(k, from + w, end))
      BY ONLY <3>2, <3>3, FirstBytes
    <3>5. QED
      BY <3>1, <3>4 DEF Front, Joins
  <2>4. QED
    BY <2>2, <2>3
<1>12. replies' = Append(replies, Transfers!Bytes(k, from, mid))
       /\ Content' = Transfers!Bytes(k, mid, end)
  BY <1>1, <1>3, <1>7, <1>11
<1>13. /\ Transfers!Bytes(k, from, mid) # <<>>
       /\ Transfers!Bytes(k, from, mid)[1][1] = k
       /\ Transfers!Bytes(k, from, mid) \in Seq(Byte)
  <2>1. k \in Nat /\ from \in Nat /\ from <= mid /\ 1 \in 1 .. mid - from
    BY <1>4, <1>11
  <2>2. /\ Transfers!Bytes(k, from, mid) \in Seq(Byte)
        /\ Len(Transfers!Bytes(k, from, mid)) = mid - from
        /\ \A i \in 1 .. mid - from : Transfers!Bytes(k, from, mid)[i] = <<k, from + i>>
    BY <2>1, BytesType
  <2>3. QED
    BY <2>1, <2>2
<1>14. /\ replies' # <<>> /\ replies'[Len(replies')] = Transfers!Bytes(k, from, mid)
  <2>1. replies \in Seq(Seq(Byte)) /\ Len(replies) \in Nat
    BY DEF TtpTypeOK
  <2>2. Len(replies') = Len(replies) + 1
        /\ replies'[Len(replies) + 1] = Transfers!Bytes(k, from, mid)
    BY <1>12, <1>13, <2>1, AppendType
  <2>3. Len(<<>>) = 0 /\ Len(replies) + 1 # 0
    BY <2>1
  <2>4. QED
    BY <2>2, <2>3
<1>15. Attributed'
  <2>1. k \in 1 .. k /\ Len(requests') = k
    BY <1>1, <1>3, <1>4
  <2>2. replies'[Len(replies')] # <<>> /\ replies'[Len(replies')][1][1] \in 1 .. Len(requests')
    BY <1>13, <1>14, <2>1
  <2>3. tpc' \in {"receiving", "ready"}
    BY <1>1
  <2>4. QED
    BY <2>2, <2>3 DEF Attributed
<1>16. Transfers!Returned' = 1
  BY <1>1, <1>3, <1>13, <1>14 DEF Transfers!Returned
<1>17. Current' = Current /\ Begun' = ask /\ requests # <<>>
  BY <1>1, <1>2, <1>3, <1>16 DEF Current, Begun, Progress
<1>18. Commands'
  <2>1. \A i \in 1 .. Len(toDevice) : ~FreshCommand(toDevice[i])
    BY <1>2, <1>8 DEF Commands, OnlyCommand
  <2>2. \A i \in 1 .. Len(toDevice') : ~FreshCommand(toDevice[i])'
    BY <1>1, <2>1 DEF FreshCommand, Fresh, Taken
  <2>3. QED
    BY <1>1, <2>2 DEF Commands, OnlyCommand
<1>19. CASE Transfers!Returned = 0 /\ more > 0
  <2>1. /\ from = 0 /\ mid = ask /\ due = more /\ tpc' = "receiving" /\ wanted' = more
    BY <1>1, <1>4, <1>5, <1>11, <1>19
  <2>2. wanted' + more' = Current'.ask + Current'.more - Begun'
    BY <1>1, <1>3, <1>4, <1>17, <2>1
  <2>3. Content' = Transfers!Bytes(Len(requests'), Begun', Current'.ask + Current'.more)
    BY <1>1, <1>3, <1>9, <1>12, <1>17, <2>1
  <2>4. Progress'
    BY <1>1, <1>16, <1>17, <1>19, <2>1, <2>2, <2>3 DEF Progress
  <2>5. StreamInv'
    BY <1>15, <1>18, <2>1, <2>4 DEF StreamInv, InTransfer
  <2>6. Transfers!RepliesOf(Len(requests)) = <<Transfers!Bytes(k, 0, ask),
                                               Transfers!Bytes(k, ask, ask + due)>>
    BY <1>3, <1>19, <2>1 DEF Transfers!RepliesOf, Current
  <2>7. QED
    BY <1>1, <1>12, <1>19, <2>1, <2>5, <2>6 DEF Transfers!Answer
<1>20. CASE more = 0
  <2>1. mid = end /\ tpc' = "ready" /\ mid = ask + due
    BY <1>1, <1>4, <1>9, <1>11, <1>20
  <2>2. Content' = <<>>
    BY <1>4, <1>12, <2>1, BytesEmpty
  <2>3. StreamInv'
    BY <1>15, <1>18, <2>1, <2>2 DEF StreamInv, InTransfer
  <2>4. CASE Transfers!Returned = 0
    <3>1. from = 0 /\ due = 0 /\ mid = ask
      BY <1>4, <1>5, <1>11, <1>20, <2>4
    <3>2. Transfers!RepliesOf(Len(requests)) = <<Transfers!Bytes(k, 0, ask)>>
      BY <1>3, <3>1 DEF Transfers!RepliesOf, Current
    <3>3. QED
      BY <1>1, <1>12, <2>1, <2>3, <2>4, <3>1, <3>2 DEF Transfers!Answer
  <2>5. CASE Transfers!Returned = 1
    <3>1. from = ask /\ due > 0
      BY <1>4, <1>5, <1>20, <2>5
    <3>2. Transfers!RepliesOf(Len(requests)) = <<Transfers!Bytes(k, 0, ask),
                                                 Transfers!Bytes(k, ask, ask + due)>>
      BY <1>3, <3>1 DEF Transfers!RepliesOf, Current
    <3>3. /\ Transfers!RepliesOf(Len(requests))[Transfers!Returned + 1]
                = Transfers!Bytes(k, from, mid)
          /\ Len(Transfers!RepliesOf(Len(requests))) = Transfers!Returned + 1
      BY <2>1, <2>5, <3>1, <3>2
    <3>4. QED
      BY <1>1, <1>12, <2>1, <2>3, <3>3 DEF Transfers!Answer
  <2>6. QED
    BY <1>4, <2>4, <2>5
<1>21. QED
  BY <1>4, <1>5, <1>19, <1>20

(* What transact returns only moves bytes to rx.                           *)
LEMMA StreamReturns ==
  ASSUME TypeOK, TypeOK', LinkInv, LinkInv', CreditInv, TtpTypeOK, StreamInv, TransactReturns
  PROVE  StreamInv'
<1> USE DEF CreditInv
<1>1. /\ UNCHANGED <<pdus, requests, replies, wanted, more, accepted, offered, toDevice>>
      /\ pc' = "idle" /\ \E pdu : Returns(pdu)
  BY ReturnsWhat
<1>2. \/ tpc \in {"connecting", "confirming"} /\ tpc' \in {"ready", "confirming", "failed"}
      \/ InTransfer /\ tpc' \in {"receiving", "failed"}
  BY <1>1 DEF Returns, ConnectReturns, ConfirmReturns, SendReturns, RecvReturns, InTransfer
<1>3. Content' = Content
  BY ContentReturns
<1>4. UNCHANGED <<Transfers!Returned, Current, Begun>>
  BY <1>1 DEF Transfers!Returned, Current, Begun
<1>5. SUFFICES ASSUME tpc' # "failed" PROVE StreamInv'
  BY DEF StreamInv
<1>6. tpc # "failed" /\ (InTransfer' <=> InTransfer)
  BY <1>2, <1>5 DEF InTransfer
<1>7. Commands'
  <2>1. Commands /\ Len(requests') = Len(requests)
    BY <1>1, <1>6 DEF StreamInv
  <2>2. ~Fresh(RR(0))
    BY DEF Fresh, RR
  <2>3. QED
    BY <1>1, <1>3, <1>6, <2>1, <2>2, CommandsKeep
<1>8. Attributed'
  BY <1>1, <1>2, <1>6 DEF StreamInv, Attributed, InTransfer
<1>9. InTransfer => Progress'
  <2>1. InTransfer => Progress /\ tpc' = "receiving"
    BY <1>2, <1>5, <1>6 DEF StreamInv, InTransfer
  <2>2. QED
    BY <1>1, <1>3, <1>4, <2>1 DEF Progress
<1>10. ~InTransfer => Content' = <<>>
  BY <1>3, <1>6 DEF StreamInv
<1>11. QED
  BY <1>6, <1>7, <1>8, <1>9, <1>10 DEF StreamInv

-----------------------------------------------------------------------------
(* A device that takes the command of the transfer owes the whole reply.   *)
LEMMA StreamDevice ==
  ASSUME TypeOK, TypeOK', LinkInv, LinkInv', CreditInv, CreditInv', TtpTypeOK, StreamInv,
         DeviceTurn
  PROVE  StreamInv'
<1> USE DEF CreditInv
<1>1. PICK f : f = toDevice[1]
  OBVIOUS
<1>2. /\ DeviceAnswers /\ toDevice # <<>> /\ toDevice' = Tail(toDevice)
      /\ Head(toDevice) = f /\ 1 \in 1 .. Len(toDevice)
      /\ UNCHANGED <<pc, frame, pdus, tpc, offered, wanted, more, requests, replies>>
  <2>1. DeviceAnswers /\ toDevice # <<>> /\ toDevice \in Seq(Frame)
    BY DEF DeviceTurn, DeviceAnswers, TypeOK
  <2>2. Head(toDevice) = f /\ 1 \in 1 .. Len(toDevice)
    BY <1>1, <2>1
  <2>3. QED
    BY <2>1, <2>2 DEF DeviceTurn, DeviceAnswers, sessionVars, primaryVars
<1>3. \/ Content' = Content
      \/ /\ DeviceTakes(f) /\ FreshCommand(f) /\ pdus[f.data].cmd \in 1 .. Len(requests)
         /\ Content' = Content \o Reply(pdus[f.data].cmd)
  BY <1>1, ContentDevice
<1>4. SUFFICES ASSUME tpc # "failed" PROVE StreamInv'
  BY <1>2 DEF StreamInv
<1>5. /\ Attributed /\ Commands /\ (InTransfer => Progress) /\ (~InTransfer => Content = <<>>)
  BY <1>4 DEF StreamInv
<1>6. /\ InTransfer' <=> InTransfer
      /\ UNCHANGED <<Transfers!Returned, Current, Begun>>
      /\ Attributed'
  BY <1>2, <1>5 DEF InTransfer, Transfers!Returned, Current, Begun, Attributed
<1>7. Commands' \/ (Content' # Content /\ ~DeviceTakes(f))
  <2>1. CASE DeviceTakes(f)
    <3>1. /\ \A i \in 1 .. Len(toDevice') :
                ~(toDevice'[i].kind = "I" /\ toDevice'[i].ns = Num(Len(accepted')))
          /\ ~(pc' = "listening" /\ frame'.kind = "I" /\ frame'.ns = Num(Len(accepted')))
      BY <1>1, <1>2, <2>1, NoneFresh
    <3>2. QED
      BY <3>1 DEF Commands, OnlyCommand, FreshCommand, Fresh, Taken
  <2>2. CASE ~DeviceTakes(f) /\ Content' = Content
    <3>1. accepted' = accepted
      BY <1>2, <2>2 DEF DeviceAnswers, DeviceReads
    <3>2. \A i \in 1 .. Len(toDevice') :
            \E j \in 1 .. Len(toDevice) : toDevice'[i] = toDevice[j]
      BY <1>2, TailElements DEF TypeOK
    <3>3. ASSUME NEW i \in 1 .. Len(toDevice') PROVE OnlyCommand(toDevice[i])'
      <4>1. PICK j \in 1 .. Len(toDevice) : toDevice'[i] = toDevice[j]
        BY <3>2
      <4>2. OnlyCommand(toDevice[j])
        BY <1>5 DEF Commands
      <4>3. QED
        BY <1>2, <1>6, <2>2, <3>1, <4>1, <4>2 DEF OnlyCommand, FreshCommand, Fresh, Taken
    <3>4. pc' = "listening" => OnlyCommand(frame)'
      <4>1. pc = "listening" => OnlyCommand(frame)
        BY <1>5 DEF Commands
      <4>2. QED
        BY <1>2, <1>6, <2>2, <3>1, <4>1 DEF OnlyCommand, FreshCommand, Fresh, Taken
    <3>5. QED
      BY <3>3, <3>4 DEF Commands
  <2>3. QED
    BY <2>1, <2>2
<1>8. CASE Content' = Content
  <2>1. InTransfer => Progress'
    BY <1>2, <1>5, <1>6, <1>8 DEF Progress
  <2>2. QED
    BY <1>5, <1>6, <1>7, <1>8, <2>1 DEF StreamInv
<1>9. CASE /\ DeviceTakes(f) /\ FreshCommand(f) /\ pdus[f.data].cmd \in 1 .. Len(requests)
           /\ Content' = Content \o Reply(pdus[f.data].cmd)
  <2>1. InTransfer /\ Content = <<>> /\ pdus[f.data].cmd = Len(requests)
    BY <1>1, <1>2, <1>5, <1>9 DEF Commands, OnlyCommand
  <2>2. Progress
    BY <1>5, <2>1
  <2>3. PICK k, ask, due : k = Len(requests) /\ ask = Current.ask /\ due = Current.more
    OBVIOUS
  <2>4. /\ k \in Nat \ {0} /\ ask \in Nat \ {0} /\ due \in Nat
        /\ Begun \in {0, ask} /\ Transfers!Returned \in {0, 1}
    BY <2>2, <2>3, CurrentType DEF Progress
  <2>5. Transfers!Returned = 0
    <3>1. SUFFICES ASSUME Transfers!Returned # 0 PROVE FALSE
      OBVIOUS
    <3>2. Begun = ask /\ more = 0 /\ wanted \in Nat \ {0} /\ wanted + more = ask + due - Begun
      BY <2>2, <2>3, <3>1 DEF Progress, Begun, TtpTypeOK
    <3>3. PICK end \in Nat : end = ask + due /\ ask <= end /\ end - ask # 0
      BY <2>4, <3>2
    <3>4. Transfers!Bytes(k, ask, end) = <<>>
      BY <2>1, <2>2, <2>3, <3>1, <3>2, <3>3 DEF Progress
    <3>5. Len(Transfers!Bytes(k, ask, end)) = end - ask
      <4>1. k \in Nat /\ ask \in Nat /\ end \in Nat /\ ask <= end
        BY <2>4, <3>3
      <4>2. QED
        BY ONLY <4>1, BytesType
    <3>6. QED
      BY <3>3, <3>4, <3>5
  <2>6. Content' = Transfers!Bytes(Len(requests), Begun, Current.ask + Current.more)
    <3>1. Reply(k) = Transfers!Bytes(k, 0, ask + due) /\ Reply(k) \in Seq(Byte)
      <4>1. k \in 1 .. Len(requests)
        BY <2>3, <2>4
      <4>2. QED
        BY <2>3, <4>1, ReplyIsBytes DEF Current
    <3>2. <<>> \o Reply(k) = Reply(k)
      BY ONLY <3>1, ConcatEmptySeq
    <3>3. Begun = 0
      BY <2>5 DEF Begun
    <3>4. QED
      BY <1>9, <2>1, <2>3, <3>1, <3>2, <3>3
  <2>7. Progress'
    <3>1. /\ requests' # <<>> /\ wanted' > 0
          /\ wanted' + more' = Current'.ask + Current'.more - Begun'
          /\ Transfers!Returned' = 0 => wanted' = Current'.ask
          /\ Transfers!Returned' # 0 => tpc' = "receiving" /\ more' = 0
      BY <1>2, <1>6, <2>2 DEF Progress
    <3>2. Content' = Transfers!Bytes(Len(requests'), Begun', Current'.ask + Current'.more)
      BY <1>2, <1>6, <2>6
    <3>3. QED
      BY <3>1, <3>2 DEF Progress
  <2>8. QED
    BY <1>6, <1>7, <1>9, <2>1, <2>7 DEF StreamInv
<1>10. QED
  BY <1>3, <1>8, <1>9

(* Sending again, and losing, change nothing of the session.               *)
LEMMA StreamQuiet ==
  ASSUME ~SplitReplies, TypeOK, TypeOK', LinkInv, CreditInv, CreditInv', TtpTypeOK, BoundInv,
         StreamInv, GapSteady, UNCHANGED <<received, sent, sdus, sessionVars>>
  PROVE  StreamInv'
<1> USE DEF CreditInv
<1>1. /\ UNCHANGED <<dev, accepted, offered, pdus, tpc, wanted, more, requests, replies, rx>>
      /\ pc' = "listening" => pc = "listening" /\ frame' = frame
  BY DEF GapSteady, sessionVars
<1>2. Content' = Content
  BY <1>1, ContentQuiet
<1>3. /\ InTransfer' <=> InTransfer
      /\ UNCHANGED <<Transfers!Returned, Current, Begun>>
  BY <1>1 DEF InTransfer, Transfers!Returned, Current, Begun
<1>4. SUFFICES ASSUME tpc # "failed" PROVE StreamInv'
  BY <1>1 DEF StreamInv
<1>5. /\ Attributed /\ Commands /\ (InTransfer => Progress) /\ (~InTransfer => Content = <<>>)
  BY <1>4 DEF StreamInv
<1>6. Commands'
  <2>1. PICK g : g = IF pc = "listening" THEN frame ELSE RR(0)
    OBVIOUS
  <2>2. Fresh(g) /\ Command(pdus'[g.data]) =>
           InTransfer' /\ Content' = <<>> /\ pdus'[g.data].cmd = Len(requests')
    <3>1. CASE pc = "listening"
      BY <1>1, <1>2, <1>3, <1>5, <2>1, <3>1 DEF Commands, OnlyCommand, FreshCommand
    <3>2. CASE pc # "listening"
      BY <2>1, <3>2 DEF Fresh, RR
    <3>3. QED
      BY <3>1, <3>2
  <2>3. \A i \in 1 .. Len(toDevice') :
          toDevice'[i] = g \/ \E j \in 1 .. Len(toDevice) : toDevice'[i] = toDevice[j]
    <3>1. CASE toDevice' = toDevice
      BY <3>1
    <3>2. CASE toDevice' = Put(toDevice, frame) /\ pc = "listening"
      BY <2>1, <3>2, PutElements DEF TypeOK
    <3>3. CASE toDevice # <<>> /\ toDevice' = Tail(toDevice)
      BY <3>3, TailElements DEF TypeOK
    <3>4. QED
      BY <3>1, <3>2, <3>3 DEF GapSteady
  <2>4. pc' = "listening" => frame' = g
    BY <1>1, <2>1
  <2>5. \A k \in 1 .. offered : pdus'[k] = pdus[k]
    BY <1>1
  <2>6. InTransfer /\ Content = <<>> =>
          InTransfer' /\ Content' = <<>> /\ Len(requests') = Len(requests)
    BY <1>1, <1>2, <1>3
  <2>7. QED
    BY <1>1, <1>5, <2>2, <2>3, <2>4, <2>5, <2>6, CommandsKeep
<1>7. Attributed' /\ (InTransfer => Progress')
  BY <1>1, <1>2, <1>3, <1>5 DEF Attributed, Progress
<1>8. QED
  BY <1>2, <1>3, <1>5, <1>6, <1>7 DEF StreamInv

-----------------------------------------------------------------------------
(* Every step of the program keeps StreamInv and is a step of Session, or  *)
(* one Session does not see.                                               *)
LEMMA StreamNext ==
  ASSUME ~SplitReplies, TypeOK, TypeOK', LinkInv, LinkInv', CreditInv, CreditInv',
         TtpTypeOK, TtpTypeOK', BoundInv, StreamInv, [TtpNext]_ttpVars
  PROVE  StreamInv' /\ [Transfers!Next]_(Transfers!sessionState)
<1> USE DEF CreditInv
<1>1. CASE Connect \/ ConfirmPoll \/ RecvTurn
  <2>1. /\ UNCHANGED <<requests, replies>>
        /\ tpc' = tpc \/ (tpc = "start" /\ tpc' = "connecting")
    BY <1>1 DEF Connect, ConfirmPoll, RecvTurn
  <2>2. UNCHANGED Transfers!sessionState
    BY <2>1 DEF Transfers!sessionState
  <2>3. QED
    BY <1>1, <2>2, StreamCall
<1>2. CASE Send
  <2>1. StreamInv' /\ tpc = "ready" /\ tpc' = "sending" /\ replies' = replies
    BY <1>2, StreamSend DEF Send
  <2>2. PICK a \in AskSizes, m \in MoreSizes :
          /\ Len(requests) < MaxTransfers
          /\ requests' = Append(requests, [ask |-> a, more |-> m])
    BY <1>2, StreamSend
  <2>3. Transfers!Ask(a, m)
    BY <2>1, <2>2 DEF Transfers!Ask
  <2>4. QED
    BY <2>1, <2>3 DEF Transfers!Next
<1>3. CASE RecvDone
  BY <1>3, StreamAnswers DEF Transfers!Next
<1>4. CASE TransactReturns
  <2>1. UNCHANGED <<requests, replies>> /\ \E pdu : Returns(pdu)
    BY <1>4, ReturnsWhat
  <2>2. \/ tpc \in {"connecting", "confirming"} /\ tpc' \in {"ready", "confirming", "failed"}
        \/ tpc \in {"sending", "receiving"} /\ tpc' \in {"receiving", "failed"}
    BY <2>1 DEF Returns, ConnectReturns, ConfirmReturns, SendReturns, RecvReturns
  <2>3. [Transfers!Next]_(Transfers!sessionState)
    <3>1. CASE tpc' = "failed"
      <4>1. tpc \in {"connecting", "confirming", "sending", "receiving"}
        BY <2>2
      <4>2. UNCHANGED <<requests, replies>>
        BY <2>1
      <4>3. Transfers!Fail
        BY <3>1, <4>1, <4>2 DEF Transfers!Fail
      <4>4. QED
        BY <4>3 DEF Transfers!Next
    <3>2. CASE tpc' = "ready"
      <4>1. tpc \in {"connecting", "confirming"}
        BY <2>2, <3>2
      <4>2. UNCHANGED <<requests, replies>>
        BY <2>1
      <4>3. Transfers!Connect
        BY <3>2, <4>1, <4>2 DEF Transfers!Connect
      <4>4. QED
        BY <4>3 DEF Transfers!Next
    <3>3. CASE tpc' \in {"confirming", "receiving"}
      <4>1. UNCHANGED <<requests, replies>>
        BY <2>1
      <4>2. CASE tpc \in {"connecting", "confirming"} /\ tpc' = "confirming"
        BY <4>1, <4>2 DEF Transfers!sessionState
      <4>3. CASE tpc \in {"sending", "receiving"} /\ tpc' = "receiving"
        BY <4>1, <4>3 DEF Transfers!sessionState
      <4>4. QED
        BY <2>2, <3>3, <4>2, <4>3
    <3>4. QED
      BY <2>2, <3>1, <3>2, <3>3
  <2>4. QED
    BY <1>4, <2>3, StreamReturns
<1>5. CASE NoConfirm \/ NoSendCredit \/ TransactFails
  <2>1. tpc # "failed" /\ tpc' = "failed" /\ UNCHANGED <<requests, replies>>
    BY <1>5 DEF NoConfirm, NoSendCredit, TransactFails
  <2>2. Transfers!Fail
    <3>1. tpc \in {"start", "connecting", "confirming", "ready", "sending", "receiving", "failed"}
      BY DEF TtpTypeOK
    <3>2. QED
      BY <2>1, <3>1 DEF Transfers!Fail
  <2>3. QED
    BY <2>1, <2>2 DEF StreamInv, Transfers!Next
<1>6. CASE DeviceTurn
  <2>1. UNCHANGED Transfers!sessionState
    BY <1>6 DEF DeviceTurn, sessionVars, Transfers!sessionState
  <2>2. QED
    BY <1>6, <2>1, StreamDevice
<1>7. CASE TransactGoesOn \/ Air \/ UNCHANGED ttpVars
  <2>1. GapSteady
    BY <1>7, SteadySteps
  <2>2. UNCHANGED <<received, sent, sdus, sessionVars>>
    <3>1. ~ReceiveNonFinal
      <4>1. fromDevice # <<>> => Head(fromDevice) = fromDevice[1] /\ 1 \in 1 .. Len(fromDevice)
        BY DEF TypeOK
      <4>2. fromDevice # <<>> => Head(fromDevice).pf
        BY <4>1 DEF LinkInv, FromDevice, FromDeviceFrame
      <4>3. QED
        BY <4>2 DEF ReceiveNonFinal
    <3>2. CASE TransactGoesOn
      BY <3>1, <3>2 DEF TransactGoesOn, Retransmit, WindowCloses, Resent, Outside, deviceVars
    <3>3. CASE Air
      BY <3>3 DEF Air, LoseToDevice, LoseFromDevice, Outside, primaryVars, deviceVars
    <3>4. CASE UNCHANGED ttpVars
      BY <3>4 DEF ttpVars, linkVars, primaryVars, deviceVars
    <3>5. QED
      BY <1>7, <3>2, <3>3, <3>4
  <2>3. UNCHANGED Transfers!sessionState
    BY <2>2 DEF sessionVars, Transfers!sessionState
  <2>4. StreamInv'
    BY <2>1, <2>2, StreamQuiet
  <2>5. QED
    BY <2>3, <2>4
<1>8. QED
  BY <1>1, <1>2, <1>3, <1>4, <1>5, <1>6, <1>7 DEF TtpNext, Program

LEMMA StreamInit == TtpInit => StreamInv
<1> SUFFICES ASSUME TtpInit PROVE StreamInv
  OBVIOUS
<1>1. /\ rx = <<>> /\ sent = 0 /\ received = <<>> /\ toDevice = <<>> /\ pc = "idle"
      /\ tpc = "start" /\ requests = <<>> /\ replies = <<>>
      /\ dev = [state |-> "closed", credit |-> 0, owed |-> <<>>, give |-> 0, window |-> 0]
  BY DEF TtpInit, LinkInit
<1>2. Len(received) = sent /\ Len(toDevice) = 0 /\ dev.owed = <<>>
  BY <1>1
<1>3. <<>> \o (<<>> \o <<>>) = <<>>
  <2>1. <<>> \in Seq(Byte)
    OBVIOUS
  <2>2. <<>> \o <<>> = <<>>
    BY ONLY <2>1, ConcatEmptySeq
  <2>3. QED
    BY <2>2
<1>4. Content = <<>>
  BY <1>1, <1>2, <1>3 DEF Content, Unclaimed
<1>5. Attributed /\ Commands /\ ~InTransfer
  BY <1>1, <1>2 DEF Attributed, Commands, InTransfer
<1>6. QED
  BY <1>4, <1>5 DEF StreamInv

(* What is left of the reply to the transfer in progress is what the       *)
(* program has not returned: nothing is lost, doubled or out of order on   *)
(* its way from the device to the caller, whatever the link loses, and a   *)
(* command the device answered is never answered twice.                    *)
THEOREM TtpStreamInvariant ==
  ASSUME ~SplitReplies
  PROVE  TtpSpec => []StreamInv
<1>1. TtpInit => StreamInv
  BY StreamInit
<1>2. /\ TypeOK /\ TypeOK' /\ LinkInv /\ LinkInv' /\ CreditInv /\ CreditInv'
      /\ TtpTypeOK /\ TtpTypeOK' /\ BoundInv /\ StreamInv /\ [TtpNext]_ttpVars
      => StreamInv'
  BY StreamNext
<1>3. QED
  BY <1>1, <1>2, TtpBoundInvariant, TtpTypeCorrect, TtpCreditInvariant, TtpUsesLink,
     LinkTypeCorrect, LinkInvariant, PTL DEF TtpSpec

(* The safety part of ImplementsSession, for sessions of any length and    *)
(* any losses: every step of the program is a step of Session or leaves it *)
(* alone.  So each recv returns what the device sent for that command,     *)
(* whole and in order, or the session is over.                             *)
THEOREM TtpRefinesSession ==
  ASSUME ~SplitReplies
  PROVE  TtpSpec => Transfers!Init /\ [][Transfers!Next]_(Transfers!sessionState)
<1>1. TtpInit => Transfers!Init
  BY DEF TtpInit, Transfers!Init
<1>2. /\ TypeOK /\ TypeOK' /\ LinkInv /\ LinkInv' /\ CreditInv /\ CreditInv'
      /\ TtpTypeOK /\ TtpTypeOK' /\ BoundInv /\ StreamInv /\ [TtpNext]_ttpVars
      => [Transfers!Next]_(Transfers!sessionState)
  BY StreamNext
<1>3. QED
  BY <1>1, <1>2, TtpStreamInvariant, TtpBoundInvariant, TtpTypeCorrect, TtpCreditInvariant,
     TtpUsesLink, LinkTypeCorrect, LinkInvariant, PTL DEF TtpSpec

-----------------------------------------------------------------------------
(* Why a session of a prompt device ends by USB or by the device alone, as *)
(* long as fewer frames are lost than a transact tries.  Then no transact  *)
(* is given up, and an answer without an I-field is one of three things:   *)
(* a device that dawdles (and it does so MaxDawdles times at most), a      *)
(* device with nothing to send, or one without credit.  The last two do    *)
(* not happen while the program waits for an I-field:                      *)
(*                                                                         *)
(*   - until it confirms the connection the device has that to send        *)
(*     (Opening);                                                          *)
(*   - in a transfer it has taken the command, its bytes are not all here  *)
(*     and the credit is topped up before every turn of recv (Serving), so *)
(*     misses count dawdles, and one PDU of credit alone (Missing);        *)
(*   - the program knows exactly how many commands it may send, so it is   *)
(*     out of credit only if the device holds it back (Windows).           *)
Whole == lost < Retries /\ dev.state # "gone"
Due   == Len(received) # sent           \* an I-field is under way
Bare  == fromDevice # <<>> /\ fromDevice[1].kind = "S"

Opening ==
  tpc \in {"start", "connecting", "confirming"} =>
    /\ remote_credit = CreditTarget /\ send_credit = 0
    /\ tpc = "start" => pc = "idle"
    /\ tpc = "connecting" => /\ pc = "listening" /\ frame.kind = "I"
                             /\ offered = 1 /\ pdus[1].kind = "connect"
    /\ tpc = "confirming" => /\ accepted # <<>>
                             /\ pc = "listening" => frame.kind = "S"
    /\ tpc # "confirming" => polls = 0
    /\ IF Due THEN dev.state = "open" /\ sdus[sent].kind = "cnf"
       ELSE dev.state = IF accepted = <<>> THEN "closed" ELSE "confirming"
    /\ polls <= dawdled
    /\ Bare \/ (tpc = "confirming" /\ pc = "idle") => polls + 1 <= dawdled

Windows ==
  /\ dev.state = "open" => dev.window + dev.give = InitialCredit
  /\ dev.state # "open" => dev.window = 0 /\ dev.give = 0
  /\ Due => sdus[sent].kind # "disc"
  /\ tpc # "failed" =>
       send_credit + Granted = dev.window + (IF PaidLater THEN 1 ELSE 0)

Serving ==
  tpc \in {"ready", "sending", "receiving"} =>
    /\ dev.state = "open" /\ remote_credit \in {CreditTarget - 1, CreditTarget}
    /\ tpc = "ready" => pc = "idle"
    /\ pc = "listening" => remote_credit = CreditTarget
    /\ tpc = "receiving" \/ (tpc = "sending" /\ Taken = offered) => Content # <<>>

Dry == Bare \/ (Due /\ sdus[sent].data = <<>>)      \* the answer brings no data
Missing ==
  tpc = "receiving" =>
    /\ pc = "listening" => Len(rx) < wanted
    /\ misses + (IF Dry THEN 1 ELSE 0) <= dawdled + (IF dev.give = 0 THEN 1 ELSE 0)

Ended == tpc = "failed" /\ pc # "failed" => pc = "idle" /\ dev.give # 0

LastsInv ==
  /\ dawdled <= MaxDawdles
  /\ Whole => Opening /\ Windows /\ Serving /\ Missing /\ Ended

(* What is known of a session from the theorems before.                    *)
Established ==
  /\ TypeOK /\ LinkInv /\ PromptInv /\ AnswersInv
  /\ CreditInv /\ TtpTypeOK /\ BoundInv /\ ExactInv /\ StreamInv

LEMMA IdleFacts ==
  ASSUME Established, pc = "idle"
  PROVE  /\ toDevice = <<>> /\ fromDevice = <<>> /\ ~Bare
         /\ lost < Retries => ~Due /\ Taken = offered
         /\ tpc # "sending" /\ ~PaidLater
<1>1. toDevice = <<>> /\ fromDevice = <<>>
  BY DEF Established, PromptInv, OneExchange
<1>2. lost < Retries => ~Due /\ Taken = offered
  BY DEF Established, PromptInv, Settles, AnswersInv, Due
<1>3. tpc # "sending"
  BY DEF Established, CreditInv, Stages
<1>4. QED
  BY <1>1, <1>2, <1>3 DEF Bare, PaidLater

LEMMA LastsQuiet ==
  ASSUME TtpTypeOK, LastsInv, Bare' => Bare, Whole' => Whole,
         UNCHANGED <<sessionVars, pdus, sdus, dev, dawdled, pc, frame, offered, received, sent,
                     accepted>>
  PROVE  LastsInv'
<1>1. /\ UNCHANGED <<tpc, polls, misses, remote_credit, send_credit, rx, wanted>>
      /\ UNCHANGED <<pdus, sdus, dev, dawdled, pc, frame, offered, received, sent, accepted>>
  BY DEF sessionVars
<1>2. /\ Due' = Due /\ Granted' = Granted /\ PaidLater' = PaidLater /\ Taken' = Taken
      /\ Content' = Content
  BY <1>1 DEF Due, Granted, PaidLater, LastTaken, Taken, Content, Unclaimed
<1>3. dawdled' <= MaxDawdles
  BY <1>1 DEF LastsInv
<1>4. SUFFICES ASSUME Whole' PROVE Opening' /\ Windows' /\ Serving' /\ Missing' /\ Ended'
  BY <1>3 DEF LastsInv
<1>5. Opening /\ Windows /\ Serving /\ Missing /\ Ended
  BY <1>4 DEF LastsInv
<1>6. Opening'
  BY <1>1, <1>2, <1>5 DEF Opening
<1>7. Windows'
  BY <1>1, <1>2, <1>5 DEF Windows
<1>8. Serving'
  BY <1>1, <1>2, <1>5 DEF Serving
<1>9. Missing'
  <2>1. Dry' => Dry
    BY <1>1, <1>2 DEF Dry
  <2>2. misses \in Nat /\ dawdled \in Nat
    BY DEF TtpTypeOK
  <2>3. QED
    BY <1>1, <1>5, <2>1, <2>2 DEF Missing
<1>10. Ended'
  BY <1>1, <1>5 DEF Ended
<1>11. QED
  BY <1>6, <1>7, <1>8, <1>9, <1>10

LEMMA LastsCalls ==
  ASSUME Established, Established', LastsInv, Connect \/ ConfirmPoll \/ RecvTurn \/ Send
  PROVE  LastsInv'
<1>1. /\ UNCHANGED <<received, sent, sdus, dev, accepted, lost>>
      /\ pc = "idle" /\ pc' = "listening"
  BY GapCall DEF Established, CreditInv
<1>2. UNCHANGED <<fromDevice, dawdled, send_credit, rx, misses>>
  BY DEF Connect, ConfirmPoll, RecvTurn, Send, Offer, Poll, BeginInfo, BeginPoll, Begin, Outside
<1>3. /\ fromDevice = <<>> /\ ~Bare /\ ~PaidLater /\ tpc # "sending"
      /\ lost < Retries => ~Due /\ Taken = offered
  BY <1>1, IdleFacts
<1>4. /\ Due' = Due /\ Granted' = Granted /\ Taken' = Taken /\ Content' = Content
      /\ LastTaken' = LastTaken /\ ~Bare' /\ (Whole' => Whole)
  BY <1>1, <1>2, <1>3 DEF Due, Granted, LastTaken, Taken, Content, Unclaimed, Bare, Whole
<1>5. dawdled' <= MaxDawdles
  BY <1>2 DEF LastsInv
<1>6. SUFFICES ASSUME Whole' PROVE Opening' /\ Windows' /\ Serving' /\ Missing' /\ Ended'
  BY <1>5 DEF LastsInv
<1>7. Opening /\ Windows /\ Serving /\ Missing /\ Ended /\ ~Due /\ Taken = offered
  BY <1>3, <1>4, <1>6 DEF LastsInv, Whole
<1>8. /\ offered \in Nat /\ polls \in Nat /\ dawdled \in Nat /\ misses \in Nat
      /\ remote_credit \in Int /\ send_credit \in Nat /\ Len(pdus) = offered
      /\ remote_credit <= CreditTarget /\ CreditTarget \in 1 .. 127
      /\ LastTaken \in 0 .. offered
  <2>1. LastTaken \in 0 .. offered
    BY OnTheirWay DEF Established
  <2>2. QED
    BY <2>1, TtpAssumption DEF Established, TypeOK, TtpTypeOK, CreditInv, SessionTypeOK, BoundInv
<1>9. ~PaidLater' => Windows'
  <2>1. SUFFICES ASSUME ~PaidLater' PROVE Windows'
    OBVIOUS
  <2>2. tpc # "failed"
    BY DEF Connect, ConfirmPoll, RecvTurn, Send
  <2>3. dev.window \in Int
    BY DEF Established, CreditInv, SessionTypeOK
  <2>4. send_credit + Granted = dev.window + 0
    BY <1>3, <1>7, <2>2 DEF Windows
  <2>5. QED
    BY <1>1, <1>2, <1>4, <1>7, <2>1, <2>4 DEF Windows
<1>10. ~Dry'
  BY <1>4, <1>7 DEF Dry
<1>11. CASE Connect
  <2>1. /\ tpc = "start" /\ tpc' = "connecting" /\ offered' = offered + 1 /\ frame'.kind = "I"
        /\ UNCHANGED <<polls, remote_credit>>
        /\ pdus' = Append(pdus, ToDev("connect", 0, CreditTarget))
    BY <1>11 DEF Connect, Offer, BeginInfo, Begin, InfoFrame
  <2>2. offered = 0
    BY <2>1 DEF Established, CreditInv, Stages
  <2>3. pdus'[1].kind = "connect"
    <3>1. pdus'[Len(pdus) + 1] = ToDev("connect", 0, CreditTarget)
      BY <2>1, Appended DEF Established, CreditInv, SessionTypeOK
    <3>2. QED
      BY <1>8, <2>2, <3>1 DEF ToDev
  <2>4. Opening'
    BY <1>1, <1>2, <1>4, <1>7, <1>8, <2>1, <2>2, <2>3 DEF Opening
  <2>5. QED
    BY <1>9, <2>1, <2>4 DEF Serving, Missing, Ended, PaidLater
<1>12. CASE ConfirmPoll
  <2>1. /\ tpc = "confirming" /\ tpc' = "confirming" /\ frame'.kind = "S"
        /\ polls' = polls + 1 /\ UNCHANGED <<remote_credit, pdus, offered>>
    BY <1>12 DEF ConfirmPoll, CountPoll, Poll, BeginPoll, Begin, RR
  <2>2. Opening'
    BY <1>1, <1>2, <1>4, <1>7, <1>8, <2>1 DEF Opening
  <2>3. QED
    BY <1>9, <2>1, <2>2 DEF Serving, Missing, Ended, PaidLater
<1>13. ASSUME RecvTurn \/ Send PROVE remote_credit' = remote_credit + Grant
  <2>1. GiveCredit \/ Grant = 0
    BY GrantType DEF GiveCredit, Established
  <2>2. QED
    BY <1>8, <1>13, <2>1 DEF RecvTurn, Send
<1>14. remote_credit \in {CreditTarget - 1, CreditTarget} => remote_credit + Grant = CreditTarget
  BY <1>8 DEF Grant, Clamp
<1>15. CASE RecvTurn
  <2>1. tpc = "receiving" /\ tpc' = "receiving" /\ Len(rx) < wanted /\ wanted' = wanted
    BY <1>15 DEF RecvTurn
  <2>2. Serving'
    BY <1>1, <1>4, <1>7, <1>8, <1>13, <1>14, <1>15, <2>1 DEF Serving
  <2>3. Missing'
    BY <1>1, <1>2, <1>7, <1>8, <1>10, <2>1 DEF Missing
  <2>4. QED
    BY <1>9, <2>1, <2>2, <2>3 DEF Opening, Ended, PaidLater
<1>16. CASE Send
  <2>1. tpc = "ready" /\ tpc' = "sending" /\ offered' = offered + 1
    BY <1>16 DEF Send, Offer, BeginInfo
  <2>2. ~PaidLater' /\ Taken' # offered'
    BY <1>4, <1>7, <1>8, <2>1 DEF PaidLater
  <2>3. Serving'
    BY <1>1, <1>4, <1>7, <1>8, <1>13, <1>14, <1>16, <2>1, <2>2 DEF Serving
  <2>4. QED
    BY <1>9, <2>1, <2>2, <2>3 DEF Opening, Missing, Ended
<1>17. QED
  BY <1>11, <1>12, <1>15, <1>16

LEMMA LastsRest ==
  ASSUME Established, Established', LastsInv, NoConfirm \/ NoSendCredit \/ RecvDone,
         InitialCredit > 0, ConnectPolls >= MaxDawdles
  PROVE  LastsInv'
<1>0. UNCHANGED <<linkVars, sdus, dev, dawdled, polls, remote_credit, send_credit, requests, pdus>>
  BY DEF NoConfirm, NoSendCredit, RecvDone, Outside
<1>1. /\ UNCHANGED <<pc, frame, offered, received, sent, accepted, lost, fromDevice>>
      /\ UNCHANGED <<sdus, dev, dawdled, polls, remote_credit, send_credit, pdus>>
  BY <1>0 DEF linkVars, primaryVars, deviceVars, airVars
<1>2. /\ Due' = Due /\ Granted' = Granted /\ Taken' = Taken /\ LastTaken' = LastTaken
      /\ Bare' = Bare /\ (Whole' => Whole)
  BY <1>1 DEF Due, Granted, LastTaken, Taken, Bare, Whole
<1>3. dawdled' <= MaxDawdles
  BY <1>1 DEF LastsInv
<1>4. SUFFICES ASSUME Whole' PROVE Opening' /\ Windows' /\ Serving' /\ Missing' /\ Ended'
  BY <1>3 DEF LastsInv
<1>5. Opening /\ Windows /\ Serving /\ Missing /\ Ended /\ dawdled <= MaxDawdles /\ lost < Retries
  BY <1>2, <1>4 DEF LastsInv, Whole
<1>6. pc = "idle"
  BY <1>5 DEF NoConfirm, NoSendCredit, RecvDone, Serving
<1>7. ~Bare /\ ~Due /\ ~PaidLater /\ tpc # "sending"
  BY <1>5, <1>6, IdleFacts
<1>8. /\ polls \in Nat /\ dawdled \in Nat /\ send_credit \in Nat /\ ConnectPolls \in Nat
      /\ MaxDawdles \in Nat /\ InitialCredit \in Nat /\ dev.window \in Int /\ dev.give \in Nat
      /\ remote_credit \in Int
  BY TtpAssumption DEF Established, TtpTypeOK, CreditInv, SessionTypeOK
<1>9. tpc' # "sending" => Windows'
  <2>1. SUFFICES ASSUME tpc' # "sending" PROVE Windows'
    OBVIOUS
  <2>2. ~PaidLater'
    BY <2>1 DEF PaidLater
  <2>3. tpc # "failed"
    BY DEF NoConfirm, NoSendCredit, RecvDone
  <2>4. QED
    BY <1>1, <1>2, <1>5, <1>7, <2>2, <2>3 DEF Windows
<1>10. CASE NoConfirm
  <2>1. tpc = "confirming" /\ polls = ConnectPolls
    BY <1>10 DEF NoConfirm
  <2>2. polls + 1 <= dawdled
    BY <1>5, <1>6, <2>1 DEF Opening
  <2>3. FALSE
    BY <1>5, <1>8, <2>1, <2>2
  <2>4. QED
    BY <2>3
<1>11. CASE NoSendCredit
  <2>1. tpc = "ready" /\ tpc' = "failed" /\ send_credit <= 0
    BY <1>11 DEF NoSendCredit
  <2>2. Granted = 0
    BY <1>7 DEF Due, Granted
  <2>3. dev.state = "open"
    BY <1>5, <2>1 DEF Serving
  <2>4. dev.window + dev.give = InitialCredit /\ send_credit + Granted = dev.window
    BY <1>5, <1>7, <1>8, <2>1, <2>3 DEF Windows
  <2>5. dev.give # 0
    BY <1>8, <2>1, <2>2, <2>4
  <2>6. Ended'
    BY <1>1, <1>6, <2>5 DEF Ended
  <2>7. QED
    BY <1>9, <2>1, <2>6 DEF Opening, Serving, Missing
<1>12. CASE RecvDone
  <2>1. /\ tpc = "receiving" /\ tpc' \in {"receiving", "ready"} /\ misses' = 0
        /\ replies' = Append(replies, SubSeq(rx, 1, wanted)) /\ requests' = requests
    BY <1>12 DEF RecvDone
  <2>2. ~Dry'
    BY <1>2, <1>7 DEF Dry
  <2>3. Missing'
    BY <1>1, <1>6, <1>8, <2>1, <2>2 DEF Missing
  <2>4. tpc' = "receiving" => Content' # <<>>
    <3>1. SUFFICES ASSUME tpc' = "receiving", Content' = <<>> PROVE FALSE
      OBVIOUS
    <3>2. Progress /\ Progress'
      BY <2>1, <3>1 DEF Established, StreamInv, InTransfer
    <3>3. more > 0 /\ wanted' = more /\ more' = 0
      BY <1>12, <3>1 DEF RecvDone
    <3>4. requests # <<>> /\ wanted = Current.ask
          /\ wanted + more = Current.ask + Current.more - 0
      BY <3>2, <3>3 DEF Progress, Begun
    <3>5. /\ Len(requests) \in Nat /\ Current.ask \in Nat /\ Current.more \in Nat
          /\ wanted \in Nat /\ more \in Nat /\ Current' = Current
      BY <2>1, <3>4, CurrentType DEF Established, TtpTypeOK, Current
    <3>6. PICK b : b = Begun'
      OBVIOUS
    <3>7. /\ wanted' > 0 /\ wanted' + more' = Current.ask + Current.more - b
          /\ Transfers!Returned' = 0 => wanted' = Current.ask
          /\ \/ Transfers!Returned' = 0
             \/ Content' = Transfers!Bytes(Len(requests), b, Current.ask + Current.more)
      BY <2>1, <3>2, <3>5, <3>6 DEF Progress
    <3>8. IF Transfers!Returned' = 0 THEN b = 0 ELSE b = Current.ask
      BY <3>5, <3>6 DEF Begun
    <3>9. Transfers!Returned' # 0
      BY <3>3, <3>4, <3>5, <3>7, <3>8
    <3>10. Len(Transfers!Bytes(Len(requests), b, Current.ask + Current.more)) = Current.more
      <4>1. PICK k, t : k = Len(requests) /\ t = Current.ask + Current.more
        OBVIOUS
      <4>2. k \in Nat /\ t \in Nat /\ b \in Nat /\ b <= t /\ t - b = Current.more
        BY <3>5, <3>8, <3>9, <4>1
      <4>3. Len(Transfers!Bytes(k, b, t)) = t - b
        BY ONLY <4>2, BytesType
      <4>4. QED
        BY <4>1, <4>2, <4>3
    <3>11. Current.more > 0
      BY <3>3, <3>4, <3>5
    <3>12. Transfers!Bytes(Len(requests), b, Current.ask + Current.more) = <<>>
      BY <3>1, <3>7, <3>9
    <3>13. QED
      BY <3>10, <3>11, <3>12
  <2>5. Serving'
    BY <1>1, <1>5, <1>6, <2>1, <2>4 DEF Serving
  <2>6. QED
    BY <1>9, <2>1, <2>3, <2>5 DEF Opening, Ended
<1>13. QED
  BY <1>10, <1>11, <1>12

(* A transact that returns has an answer, and what it sent has arrived.    *)
LEMMA AnswerComes ==
  ASSUME Prompt, Established, TransactReturns, lost < Retries
  PROVE  /\ Bare <=> ~Due
         /\ frame.kind = "I" => Taken = offered /\ accepted # <<>> /\ LastTaken = offered
<1>1. (ReceiveFinal \/ GiveUp) /\ pc = "listening"
  BY DEF TransactReturns, ReceiveFinal, GiveUp, WindowCloses
<1>2. fromDevice # <<>>
  <2>1. SUFFICES ASSUME fromDevice = <<>> PROVE FALSE
    OBVIOUS
  <2>2. GiveUp
    BY <1>1, <2>1 DEF ReceiveFinal
  <2>3. toDevice = <<>> /\ ~(try < Retries)
    BY <2>2 DEF GiveUp, WindowCloses, TriesLeft
  <2>4. try <= lost + 0
    BY <1>1, <2>1, <2>3 DEF Established, AnswersInv, Accounted, InAir
  <2>5. lost \in Nat /\ try \in Nat /\ Retries \in Nat
    BY LinkAssumption DEF Established, TypeOK
  <2>6. QED
    BY <2>3, <2>4, <2>5
<1>3. 1 \in 1 .. Len(fromDevice)
  BY <1>2 DEF Established, TypeOK
<1>4. fromDevice[1].kind \in {"I", "S"}
  BY <1>3 DEF Established, PromptInv, OneExchange, Here
<1>5. Bare <=> ~Due
  BY <1>2, <1>4 DEF Bare, Due, Established, AnswersInv
<1>6. frame.kind = "I" => Taken = offered /\ TakenBefore /\ LastTaken = offered
  BY <1>1, <1>2 DEF Established, PromptInv, Settles
<1>7. QED
  BY <1>5, <1>6 DEF TakenBefore

LEMMA LastsReturns ==
  ASSUME Prompt, Established, Established', LastsInv, TransactReturns, MissLimit > MaxDawdles
  PROVE  LastsInv'
<1>1. /\ UNCHANGED <<sent, sdus, dev, pdus, requests, wanted, polls, dawdled>>
      /\ UNCHANGED <<accepted, offered, lost>>
      /\ pc = "listening" /\ pc' = "idle"
      /\ \/ received' = received /\ Returns(Nothing)
         \/ /\ Len(received) = sent - 1 /\ received' = Append(received, sent)
            /\ sent \in 1 .. sent /\ Returns(sdus[sent])
  BY ReturnsWhat DEF Established, CreditInv
<1>2. Whole' => Whole
  BY <1>1 DEF Whole
<1>3. dawdled' <= MaxDawdles
  BY <1>1 DEF LastsInv
<1>4. SUFFICES ASSUME Whole' PROVE Opening' /\ Windows' /\ Serving' /\ Missing' /\ Ended'
  BY <1>3 DEF LastsInv
<1>5. Opening /\ Windows /\ Serving /\ Missing /\ Ended /\ dawdled <= MaxDawdles /\ lost < Retries
  BY <1>2, <1>4 DEF LastsInv, Whole
<1>6. ~Due' /\ ~Bare' /\ tpc' # "sending" /\ ~PaidLater'
  BY <1>1, <1>4, IdleFacts DEF Whole, Due, Bare, PaidLater, Established, PromptInv, OneExchange,
     AnswersInv, CreditInv, Stages
<1>7. /\ polls \in Nat /\ dawdled \in Nat /\ send_credit \in Nat /\ misses \in Nat
      /\ MaxDawdles \in Nat /\ MissLimit \in Nat /\ dev.window \in Int /\ dev.give \in Nat
      /\ remote_credit \in Int /\ sent \in Nat /\ CreditTarget \in Nat
  BY TtpAssumption DEF Established, TtpTypeOK, CreditInv, SessionTypeOK, TypeOK
<1>8. PICK pdu : /\ Returns(pdu)
                 /\ \/ ~Due /\ Bare /\ pdu = Nothing
                    \/ Due /\ ~Bare /\ pdu = sdus[sent] /\ pdu \in FromDevPdu
  <2>1. Bare <=> ~Due
    BY <1>5, AnswerComes
  <2>2. CASE received' = received /\ Returns(Nothing)
    <3>1. ~Due
      BY <1>1, <1>6, <2>2 DEF Due
    <3>2. QED
      BY <2>1, <2>2, <3>1
  <2>3. CASE Len(received) = sent - 1 /\ sent \in 1 .. sent /\ Returns(sdus[sent])
    <3>1. Due
      BY <1>7, <2>3 DEF Due
    <3>2. sdus \in Seq(FromDevPdu) /\ Len(sdus) = sent
      BY DEF Established, TtpTypeOK, CreditInv, SessionTypeOK
    <3>3. sdus[sent] \in FromDevPdu
      BY <2>3, <3>2
    <3>4. QED
      BY <2>1, <2>3, <3>1, <3>3
  <2>4. QED
    BY <1>1, <2>2, <2>3
<1>9. /\ tpc \in {"connecting", "confirming", "sending", "receiving"} /\ Absorb(pdu)
      /\ ConnectReturns(pdu) \/ ConfirmReturns(pdu) \/ SendReturns(pdu) \/ RecvReturns(pdu)
  BY <1>8 DEF Returns, ConnectReturns, ConfirmReturns, SendReturns, RecvReturns
<1>10. pdu.kind \in {"none", "cnf", "data"} /\ pdu.credit \in Nat /\ (pdu.kind = "none" => ~Due)
  BY <1>5, <1>8 DEF Windows, FromDevPdu, Nothing, FromDev
<1>11. (IF pdu.kind \in {"data", "cnf"} THEN pdu.credit ELSE 0) = Granted
  BY <1>8, <1>10 DEF Granted, Due, Nothing, FromDev
<1>12. Spent = IF PaidLater THEN 1 ELSE 0
  <2>1. tpc = "sending" => frame.kind = "I"
    BY DEF Established, CreditInv, Stages
  <2>2. tpc = "sending" => PaidLater
    BY <1>5, <2>1, AnswerComes DEF PaidLater
  <2>3. QED
    BY <2>2 DEF Spent, PaidLater
<1>13. send_credit' = dev.window
  <2>1. send_credit' = send_credit - Spent + Granted
    BY <1>9, <1>11 DEF Absorb
  <2>2. send_credit + Granted = dev.window + Spent
    BY <1>5, <1>9, <1>12 DEF Windows
  <2>3. Granted \in Nat /\ Spent \in Nat
    BY <1>10, <1>11 DEF Spent
  <2>4. QED
    BY <1>7, <2>1, <2>2, <2>3
<1>14. Windows'
  <2>1. Granted' = 0
    BY <1>6 DEF Due, Granted
  <2>2. QED
    BY <1>1, <1>5, <1>6, <1>7, <1>13, <2>1 DEF Windows
<1>15. remote_credit' = remote_credit - Cost(pdu) /\ Cost(pdu) \in {0, 1}
       /\ (pdu.kind # "data" => Cost(pdu) = 0)
  BY <1>9 DEF Absorb, Cost
<1>16. CASE tpc \in {"connecting", "confirming"}
  <2>1. /\ remote_credit = CreditTarget /\ send_credit = 0
        /\ tpc = "confirming" => accepted # <<>>
        /\ tpc = "connecting" => frame.kind = "I" /\ polls = 0
        /\ IF Due THEN dev.state = "open" /\ sdus[sent].kind = "cnf"
           ELSE dev.state = IF accepted = <<>> THEN "closed" ELSE "confirming"
        /\ polls <= dawdled /\ (Bare => polls + 1 <= dawdled)
    BY <1>5, <1>16 DEF Opening
  <2>2. accepted # <<>>
    BY <1>5, <2>1, <1>16, AnswerComes
  <2>3. CASE Due
    <3>1. pdu.kind = "cnf" /\ dev.state = "open"
      BY <1>8, <2>1, <2>3
    <3>2. tpc' = "ready"
      BY <1>9, <1>16, <3>1 DEF ConnectReturns, ConfirmReturns, SendReturns, RecvReturns
    <3>3. Serving'
      BY <1>1, <1>7, <1>15, <2>1, <3>1, <3>2 DEF Serving
    <3>4. QED
      BY <1>14, <3>2, <3>3 DEF Opening, Missing, Ended
  <2>4. CASE ~Due
    <3>1. pdu.kind = "none" /\ Bare
      BY <1>8, <2>4 DEF Nothing, FromDev
    <3>2. tpc' = "confirming"
      BY <1>9, <1>16, <3>1 DEF ConnectReturns, ConfirmReturns, SendReturns, RecvReturns
    <3>3. send_credit' = 0
      <4>1. dev.state # "open"
        BY <2>1, <2>4
      <4>2. QED
        BY <1>5, <1>13, <4>1 DEF Windows
    <3>4. remote_credit' = CreditTarget
      BY <1>7, <1>15, <2>1, <3>1
    <3>5. Opening'
      BY <1>1, <1>6, <2>1, <2>2, <2>4, <3>1, <3>2, <3>3, <3>4 DEF Opening
    <3>6. QED
      BY <1>14, <3>2, <3>5 DEF Serving, Missing, Ended
  <2>5. QED
    BY <2>3, <2>4
<1>17. CASE tpc \in {"sending", "receiving"}
  <2>1. /\ dev.state = "open" /\ remote_credit = CreditTarget
    BY <1>1, <1>5, <1>17 DEF Serving
  <2>2. Content # <<>>
    <3>1. tpc = "sending" => frame.kind = "I"
      BY DEF Established, CreditInv, Stages
    <3>2. tpc = "sending" => Taken = offered
      BY <1>5, <3>1, AnswerComes
    <3>3. QED
      BY <1>5, <1>17, <3>2 DEF Serving
  <2>3. Content' = Content
    BY ContentReturns DEF Established, CreditInv
  <2>4. tpc' = "receiving" => Serving'
    BY <1>1, <1>7, <1>15, <2>1, <2>2, <2>3 DEF Serving
  <2>5. ~Dry'
    BY <1>6 DEF Dry
  <2>6. CASE tpc = "sending"
    <3>1. tpc' = "receiving" /\ misses' = 0
      BY <1>9, <2>6 DEF ConnectReturns, ConfirmReturns, SendReturns, RecvReturns
    <3>2. Missing'
      BY <1>1, <1>7, <2>5, <3>1 DEF Missing
    <3>3. QED
      BY <1>14, <2>4, <3>1, <3>2 DEF Opening, Ended
  <2>7. CASE tpc = "receiving"
    <3>1. RecvReturns(pdu)
      BY <1>9, <2>7 DEF ConnectReturns, ConfirmReturns, SendReturns, RecvReturns
    <3>2. pdu.data = <<>> => Dry
      BY <1>8 DEF Dry
    <3>3. misses' = (IF pdu.data # <<>> THEN 0 ELSE misses + 1)
      BY <3>1 DEF RecvReturns, Misses
    <3>4. misses + (IF Dry THEN 1 ELSE 0) <= dawdled + (IF dev.give = 0 THEN 1 ELSE 0)
      BY <1>5, <2>7 DEF Missing
    <3>5. misses' <= dawdled + (IF dev.give = 0 THEN 1 ELSE 0) /\ misses' \in Nat
      BY <1>7, <3>2, <3>3, <3>4
    <3>6. ~Stops(misses')
      BY <1>5, <1>7, <3>5 DEF Stops
    <3>7. tpc' = "receiving"
      BY <1>10, <3>1, <3>6 DEF RecvReturns
    <3>8. Missing'
      <4>1. PICK m \in Nat : m = misses'
        BY <3>5
      <4>2. m + 0 <= dawdled + (IF dev.give = 0 THEN 1 ELSE 0)
        BY <3>5, <4>1
      <4>3. QED
        BY <1>1, <2>5, <4>1, <4>2 DEF Missing
    <3>9. QED
      BY <1>14, <2>4, <3>7, <3>8 DEF Opening, Ended
  <2>8. QED
    BY <1>17, <2>6, <2>7
<1>18. QED
  BY <1>9, <1>16, <1>17

(* The steps in between: a try again, a lost frame, a failing USB.         *)
LEMMA LastsBetween ==
  ASSUME ~SplitReplies, Established, LastsInv,
         TransactGoesOn \/ Air \/ TransactFails \/ UNCHANGED ttpVars
  PROVE  LastsInv'
<1>0. TtpTypeOK
  BY DEF Established
<1>1. CASE TransactGoesOn
  <2>1. ~ReceiveNonFinal
    <3>1. SUFFICES ASSUME ReceiveNonFinal PROVE FALSE
      OBVIOUS
    <3>2. fromDevice # <<>> /\ ~Head(fromDevice).pf
      BY <3>1 DEF ReceiveNonFinal
    <3>3. QED
      BY <3>2, AnswerAlone DEF Established
  <2>2. /\ UNCHANGED <<sessionVars, pdus, sdus, dev, dawdled, pc, frame, offered, received, sent,
                       accepted>>
        /\ UNCHANGED <<fromDevice, lost>>
    BY <1>1, <2>1 DEF TransactGoesOn, Retransmit, Outside, deviceVars
  <2>3. (Bare' => Bare) /\ (Whole' => Whole)
    BY <2>2 DEF Bare, Whole
  <2>4. QED
    BY <1>0, <2>2, <2>3, LastsQuiet
<1>2. CASE Air
  <2>1. /\ UNCHANGED <<sessionVars, pdus, sdus, dev, dawdled, pc, frame, offered, received, sent,
                       accepted>>
        /\ lost' = lost + 1
        /\ fromDevice' = fromDevice \/ (fromDevice # <<>> /\ fromDevice' = Tail(fromDevice))
    BY <1>2 DEF Air, Outside, LoseToDevice, LoseFromDevice, primaryVars, deviceVars
  <2>2. fromDevice' = fromDevice \/ fromDevice' = <<>>
    BY <2>1, AnswerAlone DEF Established
  <2>3. lost \in Nat /\ Retries \in Nat
    BY LinkAssumption DEF Established, TypeOK
  <2>4. (Bare' => Bare) /\ (Whole' => Whole)
    BY <2>1, <2>2, <2>3 DEF Bare, Whole
  <2>5. QED
    BY <1>0, <2>1, <2>4, LastsQuiet
<1>3. CASE TransactFails
  <2>1. /\ UNCHANGED <<sdus, dev, dawdled, received, sent, lost>>
        /\ tpc' = "failed" /\ pc' = "failed"
    BY <1>3 DEF TransactFails, UsbFailure, Outside, deviceVars, airVars
  <2>2. (Whole' => Whole) /\ Due' = Due
    BY <2>1 DEF Whole, Due
  <2>3. Windows => Windows'
    BY <2>1, <2>2 DEF Windows
  <2>4. QED
    BY <2>1, <2>2, <2>3 DEF LastsInv, Opening, Serving, Missing, Ended
<1>4. CASE UNCHANGED ttpVars
  <2>1. /\ UNCHANGED <<sessionVars, pdus, sdus, dev, dawdled, pc, frame, offered, received, sent,
                       accepted>>
        /\ UNCHANGED <<fromDevice, lost>>
    BY <1>4 DEF ttpVars, linkVars, primaryVars, deviceVars, airVars
  <2>2. (Bare' => Bare) /\ (Whole' => Whole)
    BY <2>1 DEF Bare, Whole
  <2>3. QED
    BY <1>0, <2>1, <2>2, LastsQuiet
<1>5. QED
  BY <1>1, <1>2, <1>3, <1>4

(* What is left of a reply that has begun.                                 *)
LEMMA ContentLeft ==
  ASSUME TtpTypeOK, Progress, Content # <<>>
  PROVE  Len(Content) = wanted + more
<1>1. requests # <<>> /\ wanted + more = Current.ask + Current.more - Begun
      /\ Content = Transfers!Bytes(Len(requests), Begun, Current.ask + Current.more)
  BY DEF Progress
<1>2. PICK k, t, b : k = Len(requests) /\ t = Current.ask + Current.more /\ b = Begun
  OBVIOUS
<1>3. k \in Nat /\ t \in Nat /\ b \in Nat /\ b <= t
  BY <1>1, <1>2, CurrentType
<1>4. Len(Transfers!Bytes(k, b, t)) = t - b
  BY ONLY <1>3, BytesType
<1>5. Len(Content) = t - b
  <2>1. Content = Transfers!Bytes(k, b, t)
    BY <1>1, <1>2, Zenon
  <2>2. QED
    BY ONLY <1>4, <2>1
<1>6. wanted + more = t - b
  <2>1. Current.ask \in Nat /\ Current.more \in Nat
    BY <1>1, CurrentType
  <2>2. QED
    BY <1>1, <1>2, <1>3, <2>1
<1>7. QED
  BY <1>5, <1>6

(* What the device may send, less the disconnect.                          *)
LEMMA SendsWhat ==
  ASSUME NEW d \in Device, NEW a \in Pending(d)
  PROVE  /\ a[1] \in FromDevPdu /\ a[1].kind # "disc" /\ a[2].state = "open"
         /\ d.state = "confirming" =>
              /\ a[1].kind = "cnf" /\ a[1].credit = InitialCredit
              /\ a[2].window = InitialCredit /\ a[2].give = d.give
         /\ d.state = "open" =>
              /\ a[2].window = d.window + a[1].credit
              /\ a[2].window + a[2].give = d.window + d.give
              /\ d.give = 0 => a[2].give = 0
              /\ a[1].data = <<>> => d.give # 0 /\ a[2].give = 0
<1>0. d.window \in Int /\ d.give \in Nat /\ a[1] \in FromDevPdu
  BY SendsCases DEF Device
<1>1. CASE a \in Confirmations(d)
  <2>1. a = <<FromDev("cnf", <<>>, InitialCredit),
              [d EXCEPT !.state = "open", !.window = InitialCredit]>>
        /\ d.state = "confirming"
    BY <1>1 DEF Confirmations
  <2>2. a[1] = FromDev("cnf", <<>>, InitialCredit)
        /\ a[2] = [d EXCEPT !.state = "open", !.window = InitialCredit]
    BY <2>1
  <2>3. a[1].kind = "cnf" /\ a[1].credit = InitialCredit
    BY <2>2 DEF FromDev
  <2>4. a[2].state = "open" /\ a[2].window = InitialCredit /\ a[2].give = d.give
    BY <2>2 DEF Device
  <2>5. QED
    BY <1>0, <2>1, <2>3, <2>4
<1>2. CASE a \in DataPdus(d)
  <2>1. PICK n \in Portions(d), g \in Gives(d) : d.state = "open" /\ a = Data(d, n, g)
    BY <1>2 DEF DataPdus
  <2>2. g \in {0, d.give}
    BY <2>1 DEF Gives
  <2>3. a[1] = FromDev("data", SubSeq(d.owed, 1, n), g)
        /\ a[2] = [d EXCEPT !.credit = @ - 1, !.owed = Drop(@, n),
                            !.give = @ - g, !.window = @ + g]
    BY <2>1 DEF Data
  <2>4. SubSeq(d.owed, 1, n) # <<>>
    BY DataSplit
  <2>5. a[1].kind = "data" /\ a[1].credit = g /\ a[1].data # <<>>
    BY <2>3, <2>4 DEF FromDev
  <2>6. a[2].state = d.state /\ a[2].window = d.window + g /\ a[2].give = d.give - g
    BY <2>3 DEF Device
  <2>7. QED
    BY <1>0, <2>1, <2>2, <2>5, <2>6
<1>3. CASE a \in CreditPdus(d)
  <2>1. a = <<FromDev("data", <<>>, d.give), [d EXCEPT !.give = 0, !.window = @ + d.give]>>
        /\ d.state = "open" /\ d.give # 0
    <3>1. CASE d.state # "open" \/ d.give = 0 \/ ~DatalessGrants
      BY <1>3, <3>1, Zenon DEF CreditPdus
    <3>2. CASE ~(d.state # "open" \/ d.give = 0 \/ ~DatalessGrants)
      BY <1>3, <3>2, Zenon DEF CreditPdus
    <3>3. QED
      BY <3>1, <3>2
  <2>2. a[1] = FromDev("data", <<>>, d.give)
        /\ a[2] = [d EXCEPT !.give = 0, !.window = @ + d.give]
    BY <2>1
  <2>3. a[1].kind = "data" /\ a[1].credit = d.give
    BY <2>2 DEF FromDev
  <2>4. a[2].state = d.state /\ a[2].window = d.window + d.give /\ a[2].give = 0
    BY <2>2 DEF Device
  <2>5. QED
    BY <1>0, <2>1, <2>3, <2>4
<1>4. QED
  BY <1>1, <1>2, <1>3 DEF Pending

(* A device that has something to send is said to be dawdling if it does   *)
(* not: it has when it confirms, and when it owes bytes and has credit.    *)
LEMMA SomethingPending ==
  ASSUME NEW d \in Device,
         \/ d.state = "confirming"
         \/ d.state = "open" /\ d.owed # <<>> /\ d.credit # 0
  PROVE  Pending(d) # {}
<1>1. CASE d.state = "confirming"
  BY <1>1, Zenon DEF Pending, Confirmations
<1>2. CASE d.state = "open" /\ d.owed # <<>> /\ d.credit # 0
  <2>1. d.owed \in Seq(Byte)
    BY DEF Device
  <2>2. Len(d.owed) \in Nat \ {0} /\ SduSize \in Nat \ {0}
    BY <1>2, <2>1, TtpAssumption
  <2>3. 1 \in Portions(d)
    BY <2>2 DEF Portions
  <2>4. d.give \in Gives(d)
    <3>1. CASE DatalessGrants
      BY <3>1, Zenon DEF Gives
    <3>2. CASE ~DatalessGrants
      BY <3>2, Zenon DEF Gives
    <3>3. QED
      BY <3>1, <3>2
  <2>5. Data(d, 1, d.give) \in DataPdus(d)
    <3>1. DataPdus(d) = {Data(d, n, g) : n \in Portions(d), g \in Gives(d)}
      BY <1>2 DEF DataPdus
    <3>2. QED
      BY <2>3, <2>4, <3>1
  <2>6. QED
    BY <2>5 DEF Pending
<1>3. QED
  BY <1>1, <1>2

LEMMA TurnFacts ==
  ASSUME ~SplitReplies, Established, Established', LastsInv, DeviceTurn, Whole'
  PROVE  /\ pc = "listening" /\ ~Bare /\ Head(toDevice) = frame /\ toDevice[1] = frame
         /\ UNCHANGED <<sessionVars, pc, frame, offered, received, pdus>>
         /\ Whole /\ Opening /\ Windows /\ Serving /\ Missing
         /\ tpc \in {"connecting", "confirming", "sending", "receiving"}
         /\ Free(frame) <=> ~Due
         /\ DeviceTakes(frame) => frame.kind = "I" /\ frame.data = offered /\ ~Due
         /\ IF DeviceTakes(frame)
            THEN Taken' = Taken + 1 /\ LastTaken # offered /\ LastTaken' = offered
            ELSE Taken = offered /\ LastTaken' = LastTaken /\ Taken' = Taken
         /\ Taken' = offered' /\ Taken \in Nat /\ accepted' # <<>>
<1>1. DeviceAnswers /\ UNCHANGED <<sessionVars, pdus>>
  BY DEF DeviceTurn
<1>2. /\ toDevice = <<frame>> /\ fromDevice = <<>> /\ pc = "listening"
      /\ toDevice[1] = frame /\ Head(toDevice) = frame /\ toDevice # <<>>
      /\ Free(frame) <=> Len(received) = sent
      /\ frame.kind = "S" => ~DeviceTakes(frame)
      /\ lost < Retries => /\ frame.kind = "I" => frame.data = offered
                           /\ DeviceTakes(frame) <=> Taken # offered
                           /\ Taken' = offered'
  BY <1>1, AnswersDevice DEF Established
<1>3. UNCHANGED <<vs, pc, frame, offered, received, lost>>
  BY <1>1 DEF DeviceAnswers, primaryVars
<1>4. Whole
  <2>1. dev.state = "gone" => dev'.state = "gone"
    BY GapDevice DEF Established, BoundInv
  <2>2. QED
    BY <1>3, <2>1 DEF Whole
<1>5. Opening /\ Windows /\ Serving /\ Missing /\ Ended
  BY <1>4 DEF LastsInv
<1>6. tpc \in {"connecting", "confirming", "sending", "receiving"}
  <2>1. tpc \in {"start", "connecting", "confirming", "ready", "sending", "receiving", "failed"}
    BY DEF Established, TtpTypeOK
  <2>2. QED
    BY <1>2, <1>5, <2>1 DEF Opening, Serving, Ended
<1>7. frame.kind \in {"I", "S"}
  BY <1>2 DEF Established, LinkInv, FrameCurrent
<1>8. Taken # offered => ~Due
  BY <1>4 DEF Established, AnswersInv, Whole, Due
<1>9. accepted' = IF DeviceTakes(frame) THEN Append(accepted, frame.data) ELSE accepted
  BY <1>1, <1>2 DEF DeviceAnswers, DeviceReads
<1>10. accepted \in Seq(Nat) /\ frame.data \in Nat /\ Taken \in Nat /\ offered \in Nat
  BY DEF Established, TypeOK, Frame, Taken
<1>11. CASE DeviceTakes(frame)
  <2>1. Taken' = Taken + 1 /\ LastTaken' = frame.data /\ accepted' # <<>>
    BY <1>9, <1>10, <1>11 DEF Taken, LastTaken
  <2>2. frame.kind = "I" /\ frame.data = offered /\ Taken # offered
    BY <1>2, <1>4, <1>7, <1>11 DEF Whole
  <2>3. LastTaken # offered
    <3>1. Fresh(toDevice[1])
      BY <1>1, <1>2, <1>11, NoneFresh DEF Established
    <3>2. 1 \in 1 .. Len(toDevice)
      BY <1>2 DEF Established, TypeOK
    <3>3. toDevice[1].data > LastTaken /\ LastTaken \in 0 .. offered
      BY <3>1, <3>2, OnTheirWay DEF Established
    <3>4. QED
      BY <1>2, <1>10, <2>2, <3>3
  <2>4. QED
    BY <1>1, <1>2, <1>3, <1>4, <1>5, <1>6, <1>8, <1>10, <1>11, <2>1, <2>2, <2>3
       DEF Bare, Whole, Due
<1>12. CASE ~DeviceTakes(frame)
  <2>1. Taken' = Taken /\ LastTaken' = LastTaken /\ accepted' = accepted
    BY <1>9, <1>12 DEF Taken, LastTaken
  <2>2. Taken = offered
    BY <1>2, <1>4, <1>12 DEF Whole
  <2>3. accepted # <<>>
    <3>1. CASE tpc = "connecting"
      BY <1>5, <2>2, <3>1 DEF Opening, Taken
    <3>2. CASE tpc = "confirming"
      BY <1>5, <3>2 DEF Opening
    <3>3. CASE tpc \in {"sending", "receiving"}
      BY <1>5, <3>3 DEF Serving, Established, CreditInv, Stages
    <3>4. QED
      BY <1>6, <3>1, <3>2, <3>3
  <2>4. QED
    BY <1>1, <1>2, <1>3, <1>4, <1>5, <1>6, <1>10, <1>12, <2>1, <2>2, <2>3 DEF Bare, Whole, Due
<1>13. QED
  BY <1>11, <1>12

LEMMA Joined ==
  \A s, t \in Seq(Byte) : s # <<>> \/ t # <<>> => s \o t # <<>>
<1>1. SUFFICES ASSUME NEW s \in Seq(Byte), NEW t \in Seq(Byte), s # <<>> \/ t # <<>>
               PROVE  s \o t # <<>>
  OBVIOUS
<1>2. Len(s \o t) = Len(s) + Len(t) /\ Len(s) \in Nat /\ Len(t) \in Nat
  OBVIOUS
<1>3. Len(s) # 0 \/ Len(t) # 0
  BY <1>1
<1>4. QED
  BY <1>2, <1>3

LEMMA TakesWhat ==
  ASSUME ~SplitReplies, Established, Established', LastsInv, DeviceTurn, Whole',
         DeviceTakes(frame)
  PROVE  /\ offered \in 1 .. Len(pdus) /\ frame.data = offered
         /\ pdus[offered] \in ToDevPdu /\ pdus[offered].cmd <= Len(requests)
         /\ tpc \in {"connecting", "sending", "receiving"}
         /\ tpc = "connecting" => pdus[offered].kind = "connect"
         /\ tpc = "sending" => Command(pdus[offered])
         /\ tpc = "receiving" => pdus[offered].kind = "data" /\ pdus[offered].cmd = 0
<1>1. /\ pc = "listening" /\ toDevice[1] = frame /\ frame.kind = "I" /\ frame.data = offered
      /\ Opening /\ Serving /\ Taken' = Taken + 1 /\ Taken' = offered' /\ offered' = offered
      /\ tpc \in {"connecting", "confirming", "sending", "receiving"}
      /\ Taken \in Nat
  BY TurnFacts
<1>2. offered \in 1 .. Len(pdus)
  BY <1>1, GapDevice DEF Established, BoundInv
<1>3. pdus[offered] \in ToDevPdu /\ pdus[offered].cmd <= Len(requests)
  BY <1>2, PduType DEF Established
<1>4. CASE tpc = "connecting"
  BY <1>1, <1>2, <1>3, <1>4 DEF Opening
<1>5. CASE tpc = "confirming"
  BY <1>1, <1>5 DEF Opening
<1>6. CASE tpc = "sending"
  BY <1>1, <1>2, <1>3, <1>6 DEF Established, CreditInv, Stages
<1>7. CASE tpc = "receiving"
  <2>1. ~Command(pdus[offered])
    BY <1>1, <1>7 DEF Established, CreditInv, Stages
  <2>2. accepted # <<>> /\ accepted \in Seq(Nat)
    BY <1>1, <1>7 DEF Serving, Established, CreditInv, Stages, TypeOK
  <2>3. Taken # 0 /\ offered # 1
    BY <1>1, <2>2 DEF Taken
  <2>4. pdus[offered].kind \in {"connect", "data"}
        /\ (pdus[offered].kind = "connect" => offered = 1)
    BY <1>2 DEF Established, CreditInv, SessionTypeOK
  <2>5. QED
    BY <1>1, <1>2, <1>3, <1>7, <2>1, <2>3, <2>4 DEF Command
<1>8. QED
  BY <1>1, <1>4, <1>5, <1>6, <1>7

(* What the device is like once it has read, before it sends.              *)
LEMMA ReadsState ==
  ASSUME ~SplitReplies, Established, Established', LastsInv, DeviceTurn, Whole',
         NEW d, d = IF DeviceTakes(frame) THEN Reads(dev, pdus[frame.data]) ELSE dev
  PROVE  /\ d \in Device /\ (Due => d = dev)
         /\ tpc \in {"connecting", "confirming"} /\ ~Due =>
              d.state = "confirming" /\ d.give = 0 /\ d.window = 0
         /\ tpc \in {"sending", "receiving"} =>
              d.state = "open" /\ d.window + d.give = InitialCredit
         /\ send_credit + Granted = d.window + (IF PaidLater' THEN 1 ELSE 0)
         /\ tpc = "sending" => d.owed # <<>> \/ Taken = offered
         /\ tpc = "receiving" => /\ d.give = dev.give /\ d.owed = dev.owed
                                 /\ d.credit = dev.credit + UnderWay
<1>1. /\ pc = "listening" /\ toDevice[1] = frame
      /\ UNCHANGED <<tpc, offered>>
      /\ Whole /\ Opening /\ Windows /\ Serving
      /\ tpc \in {"connecting", "confirming", "sending", "receiving"}
      /\ DeviceTakes(frame) => ~Due
      /\ IF DeviceTakes(frame)
         THEN Taken' = Taken + 1 /\ LastTaken # offered /\ LastTaken' = offered
         ELSE Taken = offered /\ LastTaken' = LastTaken /\ Taken' = Taken
      /\ Taken' = offered' /\ Taken \in Nat
      /\ tpc # "sending" => ~PaidLater' /\ ~PaidLater
  BY TurnFacts DEF sessionVars, PaidLater
<1>2. /\ dev \in Device /\ dev.state # "gone" /\ dev.window \in Int /\ dev.give \in Nat
      /\ dev.credit \in Int /\ dev.owed \in Seq(Byte)
  BY <1>1 DEF Established, TtpTypeOK, Whole, Device
<1>3. tpc # "failed" /\ send_credit + Granted = dev.window + (IF PaidLater THEN 1 ELSE 0)
  BY <1>1 DEF Windows
<1>4. tpc \in {"connecting", "confirming"} =>
        /\ Due \/ dev.state # "open"
        /\ ~Due /\ accepted # <<>> => dev.state = "confirming"
        /\ ~Due => dev.window = 0 /\ dev.give = 0
  BY <1>1 DEF Opening, Windows
<1>5. tpc \in {"sending", "receiving"} =>
        dev.state = "open" /\ dev.window + dev.give = InitialCredit
  BY <1>1 DEF Serving, Windows
<1>6. CASE ~DeviceTakes(frame)
  <2>1. d = dev
    BY <1>6
  <2>2. PaidLater' <=> PaidLater
    BY <1>1, <1>6 DEF PaidLater
  <2>3. UnderWay = 0 /\ dev.credit + 0 = dev.credit
    BY <1>1, <1>2, <1>6 DEF UnderWay
  <2>4. accepted # <<>>
    <3>1. accepted' = accepted
      BY <1>6, TurnFacts DEF DeviceTurn, DeviceAnswers, DeviceReads
    <3>2. QED
      BY <3>1, TurnFacts
  <2>5. QED
    BY <1>1, <1>2, <1>3, <1>4, <1>5, <1>6, <2>1, <2>2, <2>3, <2>4
<1>7. CASE DeviceTakes(frame)
  <2>1. PICK p : p = pdus[offered]
    OBVIOUS
  <2>2. /\ p \in ToDevPdu /\ p.cmd <= Len(requests) /\ d = Reads(dev, p)
        /\ tpc \in {"connecting", "sending", "receiving"}
        /\ tpc = "connecting" => p.kind = "connect"
        /\ tpc = "sending" => Command(p)
        /\ tpc = "receiving" => p.kind = "data" /\ p.cmd = 0
    BY <1>7, <2>1, TakesWhat
  <2>3. d \in Device
    BY <1>2, <2>2, ReadsType DEF Established
  <2>4. p.credit \in Nat /\ p.cmd \in Nat
    BY <2>2 DEF ToDevPdu
  <2>5. ~PaidLater /\ ~Due
    BY <1>1, <1>7 DEF PaidLater
  <2>6. CASE tpc = "connecting"
    <3>1. d = [dev EXCEPT !.state = "confirming", !.credit = p.credit]
      BY <1>2, <2>2, <2>6 DEF Reads
    <3>2. d.state = "confirming" /\ d.give = dev.give /\ d.window = dev.window
      BY <1>2, <3>1 DEF Device
    <3>3. QED
      BY <1>1, <1>3, <1>4, <2>3, <2>5, <2>6, <3>2
  <2>7. CASE tpc = "sending"
    <3>1. d = [dev EXCEPT !.credit = @ + p.credit, !.owed = @ \o Reply(p.cmd),
                          !.give = @ + 1, !.window = @ - 1]
      BY <1>2, <2>2, <2>7 DEF Reads, Command
    <3>2. d.state = dev.state /\ d.give = dev.give + 1 /\ d.window = dev.window - 1
          /\ d.owed = dev.owed \o Reply(p.cmd)
      BY <1>2, <3>1 DEF Device
    <3>3. Reply(p.cmd) \in Seq(Byte) /\ Reply(p.cmd) # <<>>
      <4>1. Len(requests) \in Nat /\ p.cmd # 0
        BY <2>2, <2>7 DEF Command, Established, TtpTypeOK
      <4>2. p.cmd \in 1 .. Len(requests)
        BY <2>2, <2>4, <4>1
      <4>3. requests[p.cmd].ask + requests[p.cmd].more > 0
        BY <4>2, RequestType DEF Established
      <4>4. QED
        BY <4>2, <4>3, RequestType DEF Established
    <3>4. d.owed # <<>>
      BY <1>2, <3>2, <3>3, Joined
    <3>5. PaidLater'
      BY <1>1, <1>7, <2>7 DEF PaidLater
    <3>6. send_credit + Granted = d.window + 1
      BY <1>2, <1>3, <2>5, <3>2
    <3>7. InitialCredit \in Nat
      BY TtpAssumption
    <3>8. QED
      BY <1>2, <1>5, <2>3, <2>5, <2>7, <3>2, <3>4, <3>5, <3>6, <3>7
  <2>8. CASE tpc = "receiving"
    <3>1. d = [dev EXCEPT !.credit = @ + p.credit]
      BY <1>2, <2>2, <2>8 DEF Reads
    <3>2. /\ d.state = dev.state /\ d.give = dev.give /\ d.window = dev.window
          /\ d.owed = dev.owed /\ d.credit = dev.credit + p.credit
      BY <1>2, <3>1 DEF Device
    <3>3. Taken # offered
      BY <1>1, <1>7
    <3>4. UnderWay = p.credit
      BY <2>1, <3>3 DEF UnderWay
    <3>5. QED
      BY <1>1, <1>3, <1>5, <2>3, <2>5, <2>8, <3>2, <3>4
  <2>9. QED
    BY <2>2, <2>6, <2>7, <2>8
<1>8. QED
  BY <1>6, <1>7

(* In a transfer the device has the bytes and the credit to send them.     *)
LEMMA ReadsReady ==
  ASSUME ~SplitReplies, Established, Established', LastsInv, DeviceTurn, Whole',
         NEW d, d = IF DeviceTakes(frame) THEN Reads(dev, pdus[frame.data]) ELSE dev
  PROVE  /\ tpc \in {"sending", "receiving"} => Content' # <<>>
         /\ tpc = "receiving" /\ ~Due => d.owed # <<>> /\ d.credit # 0
<1>1. /\ pc = "listening" /\ toDevice[1] = frame /\ Whole /\ Serving /\ Missing /\ Taken \in Nat
      /\ DeviceTakes(frame) => Taken + 1 = offered
  <2>1. UNCHANGED offered
    BY TurnFacts
  <2>2. QED
    BY <2>1, TurnFacts
<1>2. /\ d \in Device
      /\ tpc = "sending" => d.owed # <<>> \/ Taken = offered
      /\ tpc = "receiving" => d.owed = dev.owed /\ d.credit = dev.credit + UnderWay
  BY ReadsState
<1>3. /\ rx \in Seq(Byte) /\ Unclaimed \in Seq(Byte) /\ d.owed \in Seq(Byte)
      /\ Unclaimed \o d.owed \in Seq(Byte)
  <2>1. d.owed \in Seq(Byte)
    BY <1>2 DEF Device
  <2>2. rx \in Seq(Byte) /\ Unclaimed \in Seq(Byte)
    BY ContentType DEF Established, CreditInv
  <2>3. QED
    BY <2>1, <2>2, ConcatProperties
<1>4. Content' = rx \o (Unclaimed \o d.owed)
  BY <1>1, ContentDevice DEF Established
<1>5. d.owed = dev.owed => Content' = Content
  BY <1>4 DEF Content
<1>6. CASE tpc = "sending"
  <2>1. CASE d.owed # <<>>
    <3>1. Unclaimed \o d.owed # <<>>
      BY <1>3, <2>1, Joined
    <3>2. QED
      BY <1>3, <1>4, <1>6, <3>1, Joined
  <2>2. CASE Taken = offered
    <3>1. d = dev
      BY <1>1, <2>2
    <3>2. QED
      BY <1>1, <1>5, <1>6, <2>2, <3>1 DEF Serving
  <2>3. QED
    BY <1>2, <1>6, <2>1, <2>2
<1>7. CASE tpc = "receiving"
  <2>1. Content # <<>> /\ remote_credit = CreditTarget /\ Len(rx) < wanted
    BY <1>1, <1>7 DEF Serving, Missing
  <2>2. SUFFICES ASSUME ~Due PROVE d.owed # <<>> /\ d.credit # 0
    BY <1>2, <1>5, <1>7, <2>1
  <2>3. d.owed # <<>>
    <3>1. SUFFICES ASSUME d.owed = <<>> PROVE FALSE
      OBVIOUS
    <3>2. Unclaimed = <<>>
      BY <2>2 DEF Due, Unclaimed
    <3>3. Content = rx
      <4>1. <<>> \o <<>> = <<>> /\ rx \o <<>> = rx
        BY <1>3, ConcatEmptySeq
      <4>2. QED
        BY <1>2, <1>7, <3>1, <3>2, <4>1 DEF Content
    <3>4. Len(Content) = wanted + more
      BY <1>7, <2>1, ContentLeft DEF Established, StreamInv, InTransfer
    <3>5. wanted \in Nat /\ more \in Nat /\ Len(rx) \in Nat
      BY <1>3 DEF Established, TtpTypeOK
    <3>6. QED
      BY <2>1, <3>3, <3>4, <3>5
  <2>4. d.credit # 0
    <3>1. Gap = UnderWay
      BY <1>1, <1>7 DEF Established, ExactInv, Whole
    <3>2. /\ Unread = 0 /\ Charged \in Nat
      BY <2>2, GapType DEF Established, CreditInv, Due
    <3>3. dev.credit \in Int /\ remote_credit \in Int /\ CreditTarget \in 1 .. 127 /\ Gap \in Int
      BY GapType, TtpAssumption DEF Established, CreditInv, TtpTypeOK, Device
    <3>4. Gap = remote_credit + Charged - dev.credit - 0
      BY <3>2 DEF Gap
    <3>5. dev.credit + UnderWay = remote_credit + Charged
      BY <3>1, <3>2, <3>3, <3>4
    <3>6. QED
      BY <1>2, <1>7, <2>1, <3>2, <3>3, <3>5
  <2>5. QED
    BY <2>3, <2>4
<1>8. QED
  BY <1>6, <1>7

LEMMA LastsDevice ==
  ASSUME ~SplitReplies, Established, Established', LastsInv, DeviceTurn
  PROVE  LastsInv'
<1>1. dawdled' <= MaxDawdles /\ dawdled \in Nat
  <2>1. dawdled <= MaxDawdles /\ dawdled \in Nat /\ MaxDawdles \in Nat
    BY TtpAssumption DEF LastsInv, Established, TtpTypeOK
  <2>2. dawdled' = dawdled \/ (dawdled < MaxDawdles /\ dawdled' = dawdled + 1)
    BY DEF DeviceTurn
  <2>3. QED
    BY <2>1, <2>2
<1>2. SUFFICES ASSUME Whole' PROVE Opening' /\ Windows' /\ Serving' /\ Missing' /\ Ended'
  BY <1>1 DEF LastsInv
<1>3. /\ pc = "listening" /\ ~Bare /\ Head(toDevice) = frame /\ (Free(frame) <=> ~Due)
      /\ UNCHANGED <<tpc, polls, misses, remote_credit, send_credit, rx, wanted>>
      /\ UNCHANGED <<pc, frame, offered, received, pdus>>
      /\ Opening /\ Windows /\ Serving /\ Missing
      /\ tpc \in {"connecting", "confirming", "sending", "receiving"}
      /\ accepted' # <<>> /\ Taken' = offered'
  BY <1>2, TurnFacts DEF sessionVars
<1>4. PICK d : d = IF DeviceTakes(frame) THEN Reads(dev, pdus[frame.data]) ELSE dev
  OBVIOUS
<1>5. /\ d \in Device /\ (Due => d = dev)
      /\ tpc \in {"connecting", "confirming"} /\ ~Due =>
           d.state = "confirming" /\ d.give = 0 /\ d.window = 0
      /\ tpc \in {"sending", "receiving"} =>
           d.state = "open" /\ d.window + d.give = InitialCredit
      /\ send_credit + Granted = d.window + (IF PaidLater' THEN 1 ELSE 0)
      /\ tpc = "receiving" => d.give = dev.give
  BY <1>2, <1>4, ReadsState
<1>6. /\ tpc \in {"sending", "receiving"} => Content' # <<>>
      /\ tpc = "receiving" /\ ~Due => d.owed # <<>> /\ d.credit # 0
  BY <1>2, <1>4, ReadsReady
<1>7. /\ sent \in Nat /\ received \in Seq(Nat) /\ Len(received) \in Nat
      /\ send_credit \in Nat /\ InitialCredit \in Nat /\ misses \in Nat /\ polls \in Nat
      /\ d.window \in Int /\ d.give \in Nat /\ dev.give \in Nat
  BY <1>5, TtpAssumption
     DEF Established, TypeOK, TtpTypeOK, CreditInv, SessionTypeOK, Device
<1>8. ~Due => Granted = 0
  BY DEF Due, Granted
<1>9. Due' => ~Bare'
  BY DEF Due, Bare, Established, AnswersInv
<1>10. /\ tpc = "receiving" => Len(rx) < wanted
       /\ tpc = "receiving" /\ ~Due => misses <= dawdled + (IF dev.give = 0 THEN 1 ELSE 0)
       /\ tpc \in {"sending", "receiving"} => remote_credit = CreditTarget
       /\ tpc \in {"connecting", "confirming"} =>
            /\ remote_credit = CreditTarget /\ send_credit = 0 /\ polls <= dawdled
            /\ tpc = "connecting" => frame.kind = "I" /\ offered = 1 /\ pdus[1].kind = "connect"
            /\ tpc = "confirming" => frame.kind = "S"
            /\ tpc # "confirming" => polls = 0
            /\ Due => dev.state = "open" /\ sdus[sent].kind = "cnf"
  <2>1. ~Due => ~Dry
    BY <1>3 DEF Dry
  <2>2. QED
    BY <1>1, <1>3, <1>7, <2>1 DEF Opening, Serving, Missing
<1>11. Ended'
  BY <1>3 DEF Ended
<1>12. CASE /\ sent' = sent + 1 /\ dawdled' = dawdled
            /\ \E a \in Pending(d) \cup Disconnects(d) :
                 sdus' = Append(sdus, a[1]) /\ dev' = a[2]
  <2>1. PICK a \in Pending(d) \cup Disconnects(d) : sdus' = Append(sdus, a[1]) /\ dev' = a[2]
    BY <1>12
  <2>2. a \in Pending(d)
    <3>1. a \in Disconnects(d) => a[2].state = "gone"
      BY <1>5 DEF Disconnects, Device
    <3>2. QED
      BY <1>2, <2>1, <3>1 DEF Whole
  <2>3. ~Due
    <3>1. Free(frame)
      BY <1>3, <1>7, <1>12
         DEF DeviceTurn, DeviceAnswers, DeviceRepeats, DeviceSendsNew, DeviceSendsRR
    <3>2. QED
      BY <1>3, <3>1
  <2>4. Due' /\ ~Bare'
    BY <1>3, <1>7, <1>9, <1>12, <2>3 DEF Due
  <2>5. sdus'[sent'] = a[1]
    BY <1>12, <2>1, Appended DEF Established, CreditInv, SessionTypeOK
  <2>6. Granted' = a[1].credit /\ (Dry' <=> a[1].data = <<>>)
    BY <2>4, <2>5 DEF Granted, Due, Dry
  <2>7. /\ a[1] \in FromDevPdu /\ a[1].kind # "disc" /\ dev'.state = "open"
        /\ d.state = "confirming" =>
             /\ a[1].kind = "cnf" /\ a[1].credit = InitialCredit
             /\ dev'.window = InitialCredit /\ dev'.give = d.give
        /\ d.state = "open" =>
             /\ dev'.window = d.window + a[1].credit
             /\ dev'.window + dev'.give = d.window + d.give
             /\ d.give = 0 => dev'.give = 0
             /\ a[1].data = <<>> => d.give # 0 /\ dev'.give = 0
    BY <1>5, <2>1, <2>2, SendsWhat
  <2>8. a[1].credit \in Nat
    BY <2>7 DEF FromDevPdu
  <2>9. d.state \in {"confirming", "open"}
    BY <1>3, <1>5, <2>3
  <2>10. /\ dev'.window + dev'.give = InitialCredit
         /\ send_credit + a[1].credit = dev'.window + (IF PaidLater' THEN 1 ELSE 0)
    <3>1. CASE d.state = "confirming"
      <4>1. tpc \in {"connecting", "confirming"} /\ d.window = 0 /\ d.give = 0
        BY <1>3, <1>5, <2>3, <3>1
      <4>2. QED
        BY <1>3, <1>5, <1>7, <1>8, <2>3, <2>7, <3>1, <4>1
    <3>2. CASE d.state = "open"
      <4>1. tpc \in {"sending", "receiving"}
        BY <1>3, <1>5, <2>3, <3>2
      <4>2. dev'.window + dev'.give = InitialCredit
        BY <1>5, <2>7, <3>2, <4>1
      <4>3. PICK w, c, paid : w = d.window /\ c = a[1].credit
                              /\ paid = IF PaidLater' THEN 1 ELSE 0
        OBVIOUS
      <4>4. w \in Int /\ c \in Nat /\ paid \in Int /\ send_credit + 0 = w + paid
            /\ dev'.window = w + c
        BY <1>5, <1>7, <1>8, <2>3, <2>7, <2>8, <3>2, <4>3
      <4>5. send_credit + c = (w + c) + paid
        BY <1>7, <4>4
      <4>6. QED
        BY <4>2, <4>3, <4>4, <4>5
    <3>3. QED
      BY <2>9, <3>1, <3>2
  <2>11. Windows'
    BY <1>3, <2>5, <2>6, <2>7, <2>10 DEF Windows
  <2>12. Opening'
    BY <1>3, <1>5, <1>10, <1>12, <2>3, <2>4, <2>5, <2>7 DEF Opening
  <2>13. Serving'
    BY <1>3, <1>6, <1>10, <2>7 DEF Serving
  <2>14. Missing'
    <3>1. SUFFICES ASSUME tpc = "receiving" PROVE Missing'
      BY <1>3 DEF Missing
    <3>2. d.state = "open" /\ d.give = dev.give
      BY <1>5, <3>1
    <3>3. misses + (IF a[1].data = <<>> THEN 1 ELSE 0)
          <= dawdled + (IF dev'.give = 0 THEN 1 ELSE 0)
      BY <1>1, <1>7, <1>10, <2>3, <2>7, <3>1, <3>2
    <3>4. QED
      BY <1>3, <1>10, <1>12, <2>6, <3>1, <3>3 DEF Missing
  <2>15. QED
    BY <1>11, <2>11, <2>12, <2>13, <2>14
<1>13. CASE sent' = sent /\ ~Free(frame) /\ dev' = d /\ UNCHANGED <<sdus, dawdled>>
  <2>1. Due /\ d = dev /\ Due' /\ ~Bare'
    BY <1>3, <1>5, <1>9, <1>13 DEF Due
  <2>2. Granted' = Granted /\ (Dry' <=> Dry)
    BY <1>3, <1>13, <2>1 DEF Granted, Due, Dry
  <2>3. Windows'
    BY <1>3, <1>5, <1>13, <2>1, <2>2 DEF Windows
  <2>4. Opening'
    BY <1>3, <1>10, <1>13, <2>1 DEF Opening
  <2>5. Serving'
    BY <1>3, <1>5, <1>6, <1>10, <1>13 DEF Serving
  <2>6. Missing'
    BY <1>3, <1>13, <2>1, <2>2 DEF Missing
  <2>7. QED
    BY <1>11, <2>3, <2>4, <2>5, <2>6
<1>14. CASE /\ sent' = sent /\ Free(frame) /\ dev' = d /\ UNCHANGED sdus
            /\ IF Pending(d) = {} THEN UNCHANGED dawdled
               ELSE dawdled < MaxDawdles /\ dawdled' = dawdled + 1
  <2>1. ~Due /\ ~Due'
    BY <1>3, <1>14 DEF Due
  <2>2. Granted' = 0 /\ Granted = 0
    BY <2>1 DEF Granted, Due
  <2>3. tpc \in {"connecting", "confirming", "receiving"} => dawdled' = dawdled + 1
    <3>1. tpc \in {"connecting", "confirming", "receiving"} => Pending(d) # {}
      BY <1>5, <1>6, <2>1, SomethingPending
    <3>2. QED
      BY <1>14, <3>1
  <2>4. Windows'
    BY <1>3, <1>5, <1>7, <1>14, <2>1, <2>2 DEF Windows
  <2>5. Opening'
    <3>1. SUFFICES ASSUME tpc \in {"connecting", "confirming"} PROVE Opening'
      BY <1>3 DEF Opening
    <3>2. polls <= dawdled + 1 /\ polls + 1 <= dawdled + 1 /\ dawdled' = dawdled + 1
      BY <1>1, <1>7, <1>10, <2>3, <3>1
    <3>3. QED
      BY <1>3, <1>5, <1>10, <1>14, <2>1, <3>1, <3>2 DEF Opening
  <2>6. Serving'
    BY <1>3, <1>5, <1>6, <1>10, <1>14 DEF Serving
  <2>7. Missing'
    <3>1. SUFFICES ASSUME tpc = "receiving" PROVE Missing'
      BY <1>3 DEF Missing
    <3>2. misses + 1 <= (dawdled + 1) + (IF dev.give = 0 THEN 1 ELSE 0)
      BY <1>1, <1>7, <1>10, <2>1, <3>1
    <3>3. misses + (IF Dry' THEN 1 ELSE 0) <= (dawdled + 1) + (IF d.give = 0 THEN 1 ELSE 0)
      BY <1>1, <1>5, <1>7, <3>1, <3>2
    <3>4. dawdled' = dawdled + 1
      BY <2>3, <3>1
    <3>5. QED
      BY <1>3, <1>10, <1>14, <3>1, <3>3, <3>4 DEF Missing
  <2>8. QED
    BY <1>11, <2>4, <2>5, <2>6, <2>7
<1>15. QED
  BY <1>3, <1>4, <1>12, <1>13, <1>14 DEF DeviceTurn

LEMMA LastsInit == TtpInit => LastsInv
<1>1. SUFFICES ASSUME TtpInit, Whole PROVE LastsInv
  BY TtpAssumption DEF TtpInit, LastsInv
<1>2. /\ tpc = "start" /\ pc = "idle" /\ polls = 0 /\ dawdled = 0 /\ accepted = <<>>
      /\ remote_credit = CreditTarget /\ send_credit = 0 /\ received = <<>> /\ sent = 0
      /\ dev = [state |-> "closed", credit |-> 0, owed |-> <<>>, give |-> 0, window |-> 0]
      /\ \E n \in 0 .. MaxStaleUas : fromDevice = [i \in 1 .. n |-> UA]
  BY <1>1 DEF TtpInit, LinkInit
<1>3. ~Due /\ Granted = 0 /\ ~PaidLater
  BY <1>2 DEF Due, Granted, PaidLater
<1>4. ~Bare
  <2>1. PICK n \in 0 .. MaxStaleUas : fromDevice = [i \in 1 .. n |-> UA]
    BY <1>2
  <2>2. fromDevice # <<>> => n # 0
    BY <2>1
  <2>3. fromDevice # <<>> => fromDevice[1] = UA
    BY <2>1, <2>2, LinkAssumption
  <2>4. UA.kind # "S"
    BY DEF UA
  <2>5. QED
    BY <2>3, <2>4 DEF Bare
<1>5. dev.state = "closed" /\ dev.window = 0 /\ dev.give = 0
  BY <1>2
<1>6. Opening /\ Windows
  BY <1>2, <1>3, <1>4, <1>5 DEF Opening, Windows
<1>7. QED
  BY <1>1, <1>2, <1>6, TtpAssumption DEF LastsInv, Serving, Missing, Ended

LEMMA LastsNext ==
  ASSUME ~SplitReplies, Prompt, InitialCredit > 0, ConnectPolls >= MaxDawdles,
         MissLimit > MaxDawdles,
         Established, Established', LastsInv, [TtpNext]_ttpVars
  PROVE  LastsInv'
<1>1. CASE Connect \/ ConfirmPoll \/ RecvTurn \/ Send
  BY <1>1, LastsCalls
<1>2. CASE NoConfirm \/ NoSendCredit \/ RecvDone
  BY <1>2, LastsRest
<1>3. CASE TransactReturns
  BY <1>3, LastsReturns
<1>4. CASE TransactGoesOn \/ Air \/ TransactFails \/ UNCHANGED ttpVars
  BY <1>4, LastsBetween
<1>5. CASE DeviceTurn
  BY <1>5, LastsDevice
<1>6. QED
  BY <1>1, <1>2, <1>3, <1>4, <1>5 DEF TtpNext, Program

(* Every session of a prompt device is as LastsInv says, if connect polls  *)
(* and recv waits longer than the device dawdles, and the device grants    *)
(* credit when it confirms.                                                *)
THEOREM TtpLastsInvariant ==
  ASSUME ~SplitReplies, Prompt, MaxStaleUas = 0, InitialCredit > 0,
         ConnectPolls >= MaxDawdles, MissLimit > MaxDawdles
  PROVE  TtpSpec => []LastsInv
<1>1. TtpInit => LastsInv
  BY LastsInit
<1>2. Established /\ Established' /\ LastsInv /\ [TtpNext]_ttpVars => LastsInv'
  BY LastsNext
<1>3. /\ TypeOK /\ LinkInv /\ PromptInv /\ AnswersInv /\ CreditInv /\ TtpTypeOK /\ BoundInv
      /\ ExactInv /\ StreamInv
      => Established
  BY DEF Established
<1>4. QED
  BY <1>1, <1>2, <1>3, TtpExactInvariant, TtpStreamInvariant, TtpBoundInvariant, TtpTypeCorrect,
     TtpCreditInvariant, TtpUsesLink, LinkAnswersInvariant, LinkPromptInvariant,
     LinkTypeCorrect, LinkInvariant, PTL DEF TtpSpec

(* OnlyUsbFails, whatever the device sends when, and for any losses short  *)
(* of a transact's tries: connect and transfer then fail only by USB, by a *)
(* device that disconnects, or by one that holds credit back.              *)
THEOREM TtpOnlyUsbFails ==
  ASSUME ~SplitReplies, Prompt, MaxStaleUas = 0, InitialCredit > 0,
         ConnectPolls >= MaxDawdles, MissLimit > MaxDawdles
  PROVE  TtpSpec => []OnlyUsbFails
<1>1. LastsInv => OnlyUsbFails
  BY DEF LastsInv, Whole, Ended, OnlyUsbFails
<1>2. QED
  BY <1>1, TtpLastsInvariant, PTL
=============================================================================
