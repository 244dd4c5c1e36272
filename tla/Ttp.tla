-------------------------------- MODULE Ttp --------------------------------
(***************************************************************************)
(* The TinyTP session of src/src/smart/mod.rs over the link of IrlapLink:  *)
(* Ttp::connect, and transfer, which is send followed by recv.  All they   *)
(* do to the link is call transact; what they do with its result belongs   *)
(* to the step in which it returns.                                        *)
(*                                                                         *)
(* A transfer asks the device for some bytes ("ask") and may be followed   *)
(* by a recv of more (as the DATA command is, in run_download).  A byte of *)
(* the device's reply is named <<transfer, position>>.                     *)
(*                                                                         *)
(* The device is external: it confirms the connection, replies to the      *)
(* commands it takes while it holds credit, and gives credit back.         *)
(***************************************************************************)
EXTENDS IrlapLink, FiniteSets

CONSTANTS
  CreditTarget,     \* CREDIT_TARGET (127)
  ConnectPolls,     \* polls for the CONNECT_CNF (20)
  MissLimit,        \* empty answers recv puts up with (2000)
  InitialCredit,    \* credit the device grants when it confirms (1 at M7)
  MaxTransfers,     \* bound: transfers of the session
  AskSizes, MoreSizes,  \* bytes a transfer asks for, and sends after those
  SduSize,          \* bytes of one data PDU of the device
  MaxDawdles,       \* bound: empty answers of a device that has bytes to send
  DatalessGrants,   \* TRUE: the device may give credit in a PDU without data
  MayDisconnect     \* TRUE: the device may send an LMP DISCONNECT

ASSUME TtpAssumption ==
  /\ CreditTarget \in 1 .. 127 /\ InitialCredit \in Nat
  /\ ConnectPolls \in Nat /\ MissLimit \in Nat
  /\ MaxTransfers \in Nat /\ MaxDawdles \in Nat /\ SduSize \in Nat \ {0}
  /\ AskSizes \subseteq Nat \ {0} /\ MoreSizes \subseteq Nat
  /\ DatalessGrants \in BOOLEAN /\ MayDisconnect \in BOOLEAN

VARIABLES
  tpc,              \* "start", "connecting", "confirming", "ready",
                    \* "sending", "receiving" or "failed"
  polls, misses,    \* the loop counters of connect and recv
  remote_credit, send_credit, rx,     \* struct Ttp
  wanted, more,     \* recv's n, and the n of the recv after it
  requests,         \* [ask, more] of every transfer (history)
  replies,          \* what every recv returned (history)
  pdus, sdus,       \* the PDUs in the I-fields offered, and in those sent
  dev,              \* the device's side of the session
  dawdled           \* empty answers of a device that had bytes to send

sessionVars == <<tpc, polls, misses, remote_credit, send_credit, rx,
                 wanted, more, requests, replies>>
ttpVars == <<linkVars, sessionVars, pdus, sdus, dev, dawdled>>

-----------------------------------------------------------------------------
(* PDUs.  To the device: a connect, or data that is a command (cmd > 0) or *)
(* credit alone (cmd = 0).  From it: a confirm, a disconnect or data.      *)
ToDev(kind, cmd, credit)    == [kind |-> kind, cmd |-> cmd, credit |-> credit]
FromDev(kind, data, credit) == [kind |-> kind, data |-> data, credit |-> credit]
Nothing == FromDev("none", <<>>, 0)

(* Credit that tops the device up: (CREDIT_TARGET - remote_credit).clamp(0, 127). *)
Clamp(n) == IF n < 0 THEN 0 ELSE IF n > 127 THEN 127 ELSE n
GrantMut == CreditTarget                  \* the credit it holds not counted
Grant == Clamp(CreditTarget - remote_credit)

(* What the transact of a send costs.                                      *)
SpentMut == 0                             \* the command not paid for
Spent == IF tpc = "sending" THEN 1 ELSE 0

(* absorb.  Every data PDU is taken to have cost the device a credit.      *)
Cost(pdu) == IF pdu.kind = "data" THEN 1 ELSE 0
Absorb(pdu) ==
  /\ remote_credit' = remote_credit - Cost(pdu)
  /\ send_credit' = send_credit - Spent
                    + (IF pdu.kind \in {"data", "cnf"} THEN pdu.credit ELSE 0)
  /\ rx' = rx \o pdu.data

-----------------------------------------------------------------------------
TtpInit ==
  /\ LinkInit
  /\ tpc = "start" /\ polls = 0 /\ misses = 0
  /\ remote_credit = CreditTarget /\ send_credit = 0 /\ rx = <<>>
  /\ wanted = 0 /\ more = 0
  /\ requests = <<>> /\ replies = <<>> /\ pdus = <<>> /\ sdus = <<>>
  /\ dev = [state |-> "closed", credit |-> 0, owed |-> <<>>,
            give |-> 0, window |-> 0]
  /\ dawdled = 0

(* A call of transact with an I-field, and without. *)
Offer(pdu) == BeginInfo /\ pdus' = Append(pdus, pdu)
Poll       == BeginPoll /\ UNCHANGED pdus
Outside    == UNCHANGED <<sdus, dev, dawdled>>    \* what the program cannot touch

(* The LMP CONNECT goes out once; a lost one is not sent again. *)
Connect ==
  /\ tpc = "start"
  /\ tpc' = "connecting"
  /\ Offer(ToDev("connect", 0, CreditTarget))
  /\ Outside
  /\ UNCHANGED <<polls, misses, remote_credit, send_credit, rx, wanted, more,
                 requests, replies>>

CountPoll == polls + 1

ConfirmPoll ==
  /\ tpc = "confirming"
  /\ polls < ConnectPolls
  /\ polls' = CountPoll
  /\ Poll
  /\ Outside
  /\ UNCHANGED <<tpc, misses, remote_credit, send_credit, rx, wanted, more,
                 requests, replies>>

NoConfirm ==
  /\ tpc = "confirming" /\ pc = "idle"
  /\ polls = ConnectPolls
  /\ tpc' = "failed"
  /\ Outside
  /\ UNCHANGED <<linkVars, polls, misses, remote_credit, send_credit, rx,
                 wanted, more, requests, replies, pdus>>

(* transfer: send refuses without credit, and grants some with the command. *)
NoSendCredit ==
  /\ tpc = "ready" /\ Len(requests) < MaxTransfers
  /\ send_credit <= 0
  /\ tpc' = "failed"
  /\ Outside
  /\ UNCHANGED <<linkVars, polls, misses, remote_credit, send_credit, rx,
                 wanted, more, requests, replies, pdus>>

Send ==
  /\ tpc = "ready" /\ Len(requests) < MaxTransfers
  /\ send_credit > 0
  /\ \E a \in AskSizes, m \in MoreSizes :
       /\ requests' = Append(requests, [ask |-> a, more |-> m])
       /\ wanted' = a /\ more' = m
  /\ remote_credit' = remote_credit + Grant
  /\ Offer(ToDev("data", Len(requests) + 1, Grant))
  /\ tpc' = "sending"
  /\ Outside
  /\ UNCHANGED <<polls, misses, send_credit, rx, replies>>

(* recv: one turn of its loop begins with a transact.                      *)
GiveCreditMut == Grant > CreditTarget     \* no credit while receiving (NOTES.md, M7)
GiveCredit == Grant > 0
RecvTurn ==
  /\ tpc = "receiving" /\ Len(rx) < wanted
  /\ IF GiveCredit
     THEN Offer(ToDev("data", 0, Grant)) /\ remote_credit' = remote_credit + Grant
     ELSE Poll /\ UNCHANGED remote_credit
  /\ Outside
  /\ UNCHANGED <<tpc, polls, misses, send_credit, rx, wanted, more, requests,
                 replies>>

RestMut == rx                             \* the bytes copied, not drained
Rest == Drop(rx, wanted)

(* recv has its bytes; the recv of the bytes that follow comes next.       *)
RecvDone ==
  /\ tpc = "receiving" /\ pc = "idle"
  /\ Len(rx) >= wanted
  /\ replies' = Append(replies, SubSeq(rx, 1, wanted))
  /\ rx' = Rest
  /\ tpc' = IF more > 0 THEN "receiving" ELSE "ready"
  /\ wanted' = more /\ more' = 0 /\ misses' = 0
  /\ Outside
  /\ UNCHANGED <<linkVars, polls, remote_credit, send_credit, requests, pdus>>

-----------------------------------------------------------------------------
(* transact returns the I-field "pdu", or Nothing.                         *)

ConnectReturns(pdu) ==
  /\ tpc = "connecting"
  /\ tpc' = IF pdu.kind = "cnf" THEN "ready" ELSE "confirming"
  /\ Absorb(pdu)
  /\ UNCHANGED misses

ConfirmReturns(pdu) ==
  /\ tpc = "confirming"
  /\ tpc' = CASE pdu.kind = "cnf" -> "ready" [] pdu.kind = "disc" -> "failed"
              [] OTHER -> "confirming"
  /\ Absorb(pdu)
  /\ UNCHANGED misses

SendReturns(pdu) ==
  /\ tpc = "sending"
  /\ tpc' = "receiving" /\ misses' = 0
  /\ Absorb(pdu)

Misses(pdu) == IF pdu.data # <<>> THEN 0 ELSE misses + 1

Stops(n) == n > MissLimit

RecvReturns(pdu) ==
  /\ tpc = "receiving"
  /\ misses' = Misses(pdu)
  /\ tpc' = IF pdu.kind = "disc" \/ Stops(misses') THEN "failed"
            ELSE "receiving"
  /\ Absorb(pdu)

Returns(pdu) ==
  /\ ConnectReturns(pdu) \/ ConfirmReturns(pdu) \/ SendReturns(pdu) \/ RecvReturns(pdu)
  /\ Outside
  /\ UNCHANGED <<polls, wanted, more, requests, replies, pdus>>

TransactReturns ==
  \/ /\ ReceiveFinal
     /\ LET f == Head(fromDevice) IN
          Returns(IF InSequence(f) THEN sdus[f.data] ELSE Nothing)
  \/ GiveUp /\ Returns(Nothing)

TransactGoesOn ==
  /\ Retransmit \/ ReceiveNonFinal
  /\ Outside
  /\ UNCHANGED <<sessionVars, pdus>>

TransactFails ==
  /\ tpc # "failed"
  /\ UsbFailure
  /\ tpc' = "failed"
  /\ Outside
  /\ UNCHANGED <<polls, misses, remote_credit, send_credit, rx, wanted, more,
                 requests, replies, pdus>>

-----------------------------------------------------------------------------
(* The device, external.  dev.credit is the credit it holds, dev.owed the  *)
(* bytes it has to send, dev.give the credit it means to give back, and    *)
(* dev.window what it has granted minus the commands it has taken.         *)

Reply(k) == [i \in 1 .. requests[k].ask + requests[k].more |-> <<k, i>>]

Reads(d, p) ==
  IF d.state = "gone" THEN d
  ELSE CASE p.kind = "connect" ->
              [d EXCEPT !.state = "confirming", !.credit = p.credit]
         [] p.kind = "data" /\ p.cmd = 0 -> [d EXCEPT !.credit = @ + p.credit]
         [] OTHER -> [d EXCEPT !.credit = @ + p.credit, !.owed = @ \o Reply(p.cmd),
                               !.give = @ + 1, !.window = @ - 1]

(* The PDUs it may send in state d, each with the state it leaves.         *)
Confirmations(d) ==
  IF d.state # "confirming" THEN {}
  ELSE {<<FromDev("cnf", <<>>, InitialCredit),
          [d EXCEPT !.state = "open", !.window = InitialCredit]>>}

Portions(d) == 1 .. (IF Len(d.owed) < SduSize THEN Len(d.owed) ELSE SduSize)
Gives(d)    == IF DatalessGrants THEN {0, d.give} ELSE {d.give}
Data(d, n, g) == <<FromDev("data", SubSeq(d.owed, 1, n), g),
                   [d EXCEPT !.credit = @ - 1, !.owed = Drop(@, n),
                             !.give = @ - g, !.window = @ + g]>>
DataPdus(d) ==
  IF d.state = "open" /\ d.owed # <<>> /\ d.credit # 0
  THEN {Data(d, n, g) : n \in Portions(d), g \in Gives(d)} ELSE {}

CreditPdus(d) ==
  IF d.state # "open" \/ d.give = 0 \/ ~DatalessGrants THEN {}
  ELSE {<<FromDev("data", <<>>, d.give),
          [d EXCEPT !.give = 0, !.window = @ + d.give]>>}

Disconnects(d) ==
  IF d.state \in {"confirming", "open"} /\ MayDisconnect
  THEN {<<FromDev("disc", <<>>, 0), [d EXCEPT !.state = "gone"]>>} ELSE {}

Pending(d) == Confirmations(d) \cup DataPdus(d) \cup CreditPdus(d)

DeviceTurn ==
  /\ DeviceAnswers
  /\ LET f == Head(toDevice)
         d == IF DeviceTakes(f) THEN Reads(dev, pdus[f.data]) ELSE dev
     IN \/ /\ sent' = sent + 1
           /\ \E a \in Pending(d) \cup Disconnects(d) :
                sdus' = Append(sdus, a[1]) /\ dev' = a[2]
           /\ UNCHANGED dawdled
        \/ /\ sent' = sent /\ ~Free(f)
           /\ dev' = d /\ UNCHANGED <<sdus, dawdled>>
        \/ /\ sent' = sent /\ Free(f)
           /\ dev' = d /\ UNCHANGED sdus
           /\ IF Pending(d) = {} THEN UNCHANGED dawdled
              ELSE dawdled < MaxDawdles /\ dawdled' = dawdled + 1
  /\ UNCHANGED <<sessionVars, pdus>>

Air ==
  /\ LoseToDevice \/ LoseFromDevice
  /\ Outside
  /\ UNCHANGED <<sessionVars, pdus>>

-----------------------------------------------------------------------------
Program == Connect \/ ConfirmPoll \/ NoConfirm \/ NoSendCredit \/ RecvTurn
           \/ RecvDone \/ TransactReturns \/ TransactGoesOn

TtpNext == Program \/ Send \/ TransactFails \/ DeviceTurn \/ Air
TtpSpec == TtpInit /\ [][TtpNext]_ttpVars

(* The program's loops run, and the device answers polls. *)
FairTtpSpec == TtpSpec /\ WF_ttpVars(Program) /\ WF_ttpVars(DeviceTurn)

-----------------------------------------------------------------------------
(* Properties.                                                             *)

(* The session: every connect and transfer ends, and each recv returns the *)
(* bytes the device sent for its own command, all of them and in order.    *)
Transfers == INSTANCE Session
  WITH phase <- CASE tpc \in {"start", "connecting", "confirming"} -> "connecting"
                  [] tpc \in {"sending", "receiving"} -> "busy"
                  [] OTHER -> tpc
ImplementsSession == Transfers!Spec

(* The device never sends on credit the program does not know of: what it  *)
(* holds and what it has sent unread is within remote_credit, and that     *)
(* within the target, however many frames are lost.  absorb also charges   *)
(* it for PDUs that only give credit.  Until more frames are lost than a   *)
(* transact tries, "credits the device holds" is exact but for those.      *)
DataPdu(p) == p.kind = "data" /\ p.data # <<>>
Unread  == Cardinality({i \in Len(received) + 1 .. sent : DataPdu(sdus[i])})
Charged == Cardinality({i \in 1 .. Len(received) :
                          sdus[i].kind = "data" /\ ~DataPdu(sdus[i])})
CreditBounded ==
  /\ dev.credit + Unread <= remote_credit + Charged
  /\ remote_credit <= CreditTarget
CreditExact ==
  pc = "idle" /\ tpc \in {"ready", "receiving"} /\ lost < Retries /\ dev.state # "gone"
  => dev.credit + Unread = remote_credit + Charged
CreditCovered == CreditBounded /\ CreditExact

(* No command is sent beyond the credit the device granted.                *)
SendCreditBacked ==
  /\ dev.window >= 0
  /\ pc = "idle" => 0 <= send_credit /\ send_credit <= dev.window

(* A session of a prompt device fails only by USB or by the device, unless *)
(* an I-field was given up on (more frames lost than a transact tries, or  *)
(* an old UA taken for the answer to a lost frame) or the device holds     *)
(* back the credit it owes: nothing starves for want of credit.            *)
OnlyUsbFails ==
  /\ tpc = "failed" /\ lost < Retries /\ Len(accepted) = offered
  /\ dev.state # "gone" /\ dev.give = 0
  => pc = "failed"
=============================================================================
