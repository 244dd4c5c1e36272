---------------------------- MODULE IrlapConnect ----------------------------
(***************************************************************************)
(* Bringing up the link that IrlapLink starts from, run after run of the   *)
(* program: discover, the SNRM/UA handshake of connect, polls over the     *)
(* link, and the disconnect that ends a good run (src/src/irlap/mod.rs).   *)
(* A run that ends with an error, or is killed, sends no DISC; whatever    *)
(* the chip and the device then hold is there when the next run begins.    *)
(*                                                                         *)
(* The device is external.  Both directions are FIFO queues that lose      *)
(* frames.  A late answer is one that the device gives after the window    *)
(* has closed: what is in fromDevice is read before a window closes.       *)
(***************************************************************************)
EXTENDS Integers, Sequences, FiniteSets

CONSTANTS
  Draws,         \* the bytes weak_rand gives random_caddr, bit 0 cleared
  Passes,        \* discovery passes (4)
  SnrmTries,     \* SNRMs of one connect (6)
  MaxRuns,       \* bound: runs of the program
  MaxPolls,      \* bound: transactions of a run
  MaxLosses,     \* bound: frames lost
  Capacity,      \* frames held per direction
  Behind,        \* frames the device may have to answer when a window closes
  AnswersAgain   \* TRUE: a connected device takes another SNRM as a new one

NullAddress      == 0
BroadcastAddress == 254      \* CBROADCAST 0xfe

ASSUME ConnectAssumption ==
  /\ Draws \subseteq 0 .. 254 /\ Draws \ {NullAddress, BroadcastAddress} # {}
  /\ Passes \in Nat \ {0} /\ SnrmTries \in Nat \ {0}
  /\ MaxRuns \in Nat /\ MaxPolls \in Nat /\ MaxLosses \in Nat
  /\ Capacity \in Nat \ {0}
  /\ Behind \in Nat /\ AnswersAgain \in BOOLEAN

VARIABLES
  run,           \* number of the current or last run
  pc,            \* "off", "slot", "final", "snrm", "up" or "polling"
  pass, found,   \* discovery: pass of connect, whether "found" is not empty
  conn, tries,   \* the connection address, SNRMs sent
  polls,         \* transactions begun
  matched,       \* the frames that passed the address check of transact
                 \* or exchange in this run (history)
  endings,       \* how each run ended: "nodevice", "noua", "disc", "error"
  dev,           \* the device: mode, connection and the run that made it
  toDevice, fromDevice, lost,
  late           \* a window has closed before the device had answered (history)

programVars == <<run, pc, pass, found, conn, tries, polls, matched, endings, late>>
connectVars == <<programVars, dev, toDevice, fromDevice, lost>>

ToDev(kind, c)      == [kind |-> kind, conn |-> c, run |-> run']
FromDev(kind, c, r) == [kind |-> kind, conn |-> c, run |-> r]
Put(q, f) == IF Len(q) < Capacity THEN Append(q, f) ELSE q
Drop(q, n) == SubSeq(q, n + 1, Len(q))

-----------------------------------------------------------------------------
ConnectInit ==
  /\ run = 0 /\ pc = "off" /\ pass = 0 /\ found = FALSE
  /\ conn = NullAddress /\ tries = 0 /\ polls = 0
  /\ matched = <<>> /\ endings = <<>>
  /\ dev = [mode |-> "NDM", conn |-> NullAddress, run |-> 0,
            polled |-> FALSE, refused |-> 0]
  /\ toDevice = <<>> /\ fromDevice = <<>> /\ lost = 0 /\ late = FALSE

(* The program.                                                            *)
SendTo(f) == toDevice' = Put(toDevice, f)
Quiet     == UNCHANGED <<dev, lost>>
Ready     == fromDevice # <<>> /\ UNCHANGED late
ClosesMut == /\ Len(toDevice) <= Behind           \* ends with the first frame read
             /\ late' = (late \/ toDevice # <<>>)
Closes    == /\ fromDevice = <<>> /\ Len(toDevice) <= Behind
             /\ late' = (late \/ toDevice # <<>>)

FewerPassesMut == pass < Passes - 1                 \* one too few
MorePasses == pass < Passes
CountPassMut == pass                                \* a pass not counted
CountPass == pass + 1

(* discover(stir, me, 1, 200 ms): a command for slot 0, and the final one. *)
StartPass(p) ==
  /\ pass' = p /\ found' = FALSE
  /\ pc' = "slot"
  /\ SendTo(ToDev("xid", BroadcastAddress))

(* A run begins; nothing empties the chip or the USB pipe first. *)
Start ==
  /\ pc = "off" /\ run < MaxRuns
  /\ run' = run + 1
  /\ StartPass(1)
  /\ conn' = NullAddress /\ tries' = 0 /\ polls' = 0 /\ matched' = <<>>
  /\ Quiet /\ UNCHANGED <<endings, fromDevice, late>>

(* collect_responses: XID responses are kept, everything else is dropped.  *)
Collect ==
  /\ pc \in {"slot", "final"} /\ Ready
  /\ found' = (found \/ Head(fromDevice).kind = "xid")
  /\ fromDevice' = Tail(fromDevice)
  /\ Quiet
  /\ UNCHANGED <<run, pc, pass, conn, tries, polls, matched, endings, toDevice>>

SlotCloses ==
  /\ pc = "slot" /\ Closes
  /\ pc' = "final"
  /\ UNCHANGED run
  /\ SendTo(ToDev("end", BroadcastAddress))
  /\ Quiet
  /\ UNCHANGED <<pass, found, conn, tries, polls, matched, endings, fromDevice>>

NextPass ==
  /\ pc = "final" /\ Closes /\ ~found /\ MorePasses
  /\ UNCHANGED run
  /\ StartPass(CountPass)
  /\ Quiet
  /\ UNCHANGED <<conn, tries, polls, matched, endings, fromDevice>>

NoDevice ==
  /\ pc = "final" /\ Closes /\ ~found /\ ~MorePasses
  /\ pc' = "off" /\ endings' = Append(endings, "nodevice")
  /\ Quiet
  /\ UNCHANGED <<run, pass, found, conn, tries, polls, matched, toDevice, fromDevice>>

(* random_caddr. *)
random_caddr == Draws \ {NullAddress, BroadcastAddress}

DiscoveredMut == pc \in {"slot", "final"} /\ found  \* without the final slot
Discovered == pc = "final" /\ found

FirstSnrm ==
  /\ Discovered /\ Closes
  /\ pc' = "snrm" /\ tries' = 1
  /\ conn' \in random_caddr
  /\ UNCHANGED run
  /\ SendTo(ToDev("snrm", conn'))
  /\ Quiet
  /\ UNCHANGED <<pass, found, polls, matched, endings, fromDevice>>

MoreSnrms == tries < SnrmTries

NextSnrm ==
  /\ pc = "snrm" /\ Closes /\ MoreSnrms
  /\ tries' = tries + 1
  /\ UNCHANGED run
  /\ SendTo(ToDev("snrm", conn))
  /\ Quiet
  /\ UNCHANGED <<pc, pass, found, conn, polls, matched, endings, fromDevice>>

NoUa ==
  /\ pc = "snrm" /\ Closes /\ ~MoreSnrms
  /\ pc' = "off" /\ endings' = Append(endings, "noua")
  /\ Quiet
  /\ UNCHANGED <<run, pass, found, conn, tries, polls, matched, toDevice, fromDevice>>

(* The check of the connection address. *)
ForUs(f) == f.conn = conn
IsUa(f)  == ForUs(f) /\ f.kind = "ua"             \* ua_match

(* The frame at the head is not for this connection. *)
Ignore ==
  /\ Ready
  /\ \/ pc = "snrm" /\ ~IsUa(Head(fromDevice))
     \/ pc = "polling" /\ ~ForUs(Head(fromDevice))
  /\ fromDevice' = Tail(fromDevice)
  /\ Quiet
  /\ UNCHANGED <<run, pc, pass, found, conn, tries, polls, matched, endings, toDevice>>

(* exchange and transact return with the first frame that matches; those   *)
(* that came in the same bulk read are dropped.  parse_ua would refuse a   *)
(* matching UA of fewer than ten bytes, as a device may answer a DISC, and *)
(* a try would be lost; but what matches is an answer to an SNRM of this   *)
(* run (OwnAnswersOnly), and such a UA bears both device addresses.        *)
Take ==
  /\ Ready
  /\ \/ pc = "snrm" /\ IsUa(Head(fromDevice))
     \/ pc = "polling" /\ ForUs(Head(fromDevice))
  /\ matched' = Append(matched, Head(fromDevice))
  /\ \E n \in 1 .. Len(fromDevice) : fromDevice' = Drop(fromDevice, n)
  /\ pc' = "up"
  /\ Quiet
  /\ UNCHANGED <<run, pass, found, conn, tries, polls, endings, toDevice>>

(* transact, seen from its frames only: IrlapLink has the rest. *)
Poll ==
  /\ pc = "up" /\ polls < MaxPolls
  /\ polls' = polls + 1
  /\ pc' = "polling"
  /\ UNCHANGED run
  /\ SendTo(ToDev("poll", conn))
  /\ Quiet
  /\ UNCHANGED <<pass, found, conn, tries, matched, endings, fromDevice, late>>

Unanswered ==
  /\ pc = "polling" /\ Closes
  /\ pc' = "up"
  /\ Quiet
  /\ UNCHANGED <<run, pass, found, conn, tries, polls, matched, endings, toDevice, fromDevice>>

(* disconnect: the DISC goes out, and nobody waits for its answer.         *)
Disconnect ==
  /\ pc = "up"
  /\ pc' = "off" /\ endings' = Append(endings, "disc")
  /\ UNCHANGED run
  /\ SendTo(ToDev("disc", conn))
  /\ Quiet
  /\ UNCHANGED <<pass, found, conn, tries, polls, matched, fromDevice, late>>

(* An error of USB or of a layer above, or a kill, at any point.           *)
Abort ==
  /\ pc # "off"
  /\ pc' = "off" /\ endings' = Append(endings, "error")
  /\ Quiet
  /\ UNCHANGED <<run, pass, found, conn, tries, polls, matched, toDevice, fromDevice, late>>

-----------------------------------------------------------------------------
(* The device, external; "refused" is the last run whose discovery found   *)
(* it connected (history).  It answers discovery only when it has no link,   *)
(* and drops a link that has been silent for its disconnect time, which is *)
(* longer than the handshake of a run.                                     *)
Reply(f) == fromDevice' = Put(fromDevice, f)
Silent   == UNCHANGED fromDevice

DeviceDiscovered(f) ==
  /\ f.kind \in {"xid", "end"}
  /\ IF f.kind = "xid" /\ dev.mode = "NDM"
     THEN Reply(FromDev("xid", BroadcastAddress, f.run)) ELSE Silent
  /\ dev' = IF f.kind = "xid" /\ dev.mode = "NRM"
            THEN [dev EXCEPT !.refused = f.run] ELSE dev

DeviceConnects(f) ==
  /\ f.kind = "snrm"
  /\ IF dev.mode = "NDM" \/ AnswersAgain
     THEN /\ dev' = [dev EXCEPT !.mode = "NRM", !.conn = f.conn, !.run = f.run,
                                !.polled = FALSE]
          /\ Reply(FromDev("ua", f.conn, f.run))
     ELSE Silent /\ UNCHANGED dev

Connected(f) == dev.mode = "NRM" /\ dev.conn = f.conn

DevicePolled(f) ==
  /\ f.kind = "poll"
  /\ IF Connected(f)
     THEN Reply(FromDev("data", f.conn, dev.run)) /\ dev' = [dev EXCEPT !.polled = TRUE]
     ELSE Silent /\ UNCHANGED dev

DeviceDisconnected(f) ==
  /\ f.kind = "disc"
  /\ IF Connected(f)
     THEN Reply(FromDev("ua", f.conn, dev.run)) /\ dev' = [dev EXCEPT !.mode = "NDM"]
     ELSE Silent /\ UNCHANGED dev

DeviceReads ==
  /\ toDevice # <<>>
  /\ LET f == Head(toDevice) IN
       DeviceDiscovered(f) \/ DeviceConnects(f) \/ DevicePolled(f) \/ DeviceDisconnected(f)
  /\ toDevice' = Tail(toDevice)
  /\ UNCHANGED <<programVars, lost>>

DeviceTimesOut ==
  /\ dev.mode = "NRM" /\ toDevice = <<>>
  /\ pc = "off" \/ dev.run # run
  /\ dev' = [dev EXCEPT !.mode = "NDM"]
  /\ UNCHANGED <<programVars, toDevice, fromDevice, lost>>

Lose ==
  /\ lost < MaxLosses /\ lost' = lost + 1
  /\ \/ toDevice # <<>> /\ toDevice' = Tail(toDevice) /\ UNCHANGED fromDevice
     \/ fromDevice # <<>> /\ fromDevice' = Tail(fromDevice) /\ UNCHANGED toDevice
  /\ UNCHANGED <<programVars, dev>>

-----------------------------------------------------------------------------
Connecting == Collect \/ SlotCloses \/ NextPass \/ NoDevice \/ FirstSnrm
              \/ NextSnrm \/ NoUa \/ Ignore \/ Take \/ Unanswered

ConnectNext ==
  \/ Start \/ Connecting \/ Poll \/ Disconnect \/ Abort
  \/ DeviceReads \/ DeviceTimesOut \/ Lose

ConnectSpec == ConnectInit /\ [][ConnectNext]_connectVars

(* The loops of connect run, and the device reads what reaches it.         *)
FairConnectSpec ==
  ConnectSpec /\ WF_connectVars(Connecting) /\ WF_connectVars(DeviceReads)

-----------------------------------------------------------------------------
(* Properties.                                                             *)

(* What passes the address check was sent over the connection of this run: *)
(* no answer to an earlier run, no answer to its DISC and no discovery     *)
(* response does, even when two runs draw the same address.                *)
OwnAnswersOnly ==
  \A i \in 1 .. Len(matched) : matched[i].run = run /\ matched[i].kind # "xid"

(* connect returns what IrlapLink starts from: the device is connected to  *)
(* this run, has not been polled, and all that can still come from it over *)
(* this connection is the answers to the other SNRMs.                      *)
Stale == Cardinality({i \in 1 .. Len(fromDevice) : fromDevice[i].conn = conn})
         + Cardinality({i \in 1 .. Len(toDevice) : toDevice[i].kind = "snrm"})
HandsOverFreshLink ==
  pc = "up" /\ polls = 0 =>
    /\ dev.mode = "NRM" /\ dev.conn = conn /\ dev.run = run /\ ~dev.polled
    /\ \A i \in 1 .. Len(fromDevice) :
         fromDevice[i].conn = conn => fromDevice[i].kind = "ua" /\ fromDevice[i].run = run
    /\ Stale < SnrmTries

(* While the device is prompt and fewer frames are lost than there are     *)
(* tries, connect fails only when the device was still in the connection   *)
(* of an earlier run, one that sent no DISC or whose DISC was lost.        *)
FailsOnlyIfRefused ==
  /\ pc = "off" /\ endings # <<>> /\ endings[Len(endings)] \in {"nodevice", "noua"}
  /\ ~late /\ lost < Passes /\ lost < SnrmTries
  => dev.refused = run

(* connect ends. *)
ConnectReturns == pc \in {"slot", "final", "snrm"} ~> pc \in {"up", "off"}
=============================================================================
