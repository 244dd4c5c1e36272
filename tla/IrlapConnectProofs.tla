------------------------- MODULE IrlapConnectProofs -------------------------
(***************************************************************************)
(* Proofs about IrlapConnect, for every number of runs, passes and tries:  *)
(* connect takes no answer of an earlier run, and hands over a fresh link, *)
(* if the device is at most two frames behind when a window closes.        *)
(***************************************************************************)
EXTENDS IrlapConnect, FiniteSetTheorems, TLAPS

-----------------------------------------------------------------------------
(* The types. *)

Addresses == 0 .. 254
Commands  == {"xid", "end", "snrm", "poll", "disc"}

ToDevFrame   == [kind : Commands, conn : Addresses, run : Nat]
FromDevFrame == {f \in [kind : {"xid", "ua", "data"}, conn : Addresses, run : Nat] :
                   f.kind = "xid" => f.conn = BroadcastAddress}
Device == [mode : {"NDM", "NRM"}, conn : Addresses, run : Nat, polled : BOOLEAN,
           refused : Nat]

ConnectTypeOK ==
  /\ run \in Nat /\ pc \in {"off", "slot", "final", "snrm", "up", "polling"}
  /\ pass \in Nat /\ found \in BOOLEAN
  /\ conn \in Addresses /\ tries \in Nat /\ polls \in Nat
  /\ matched \in Seq(FromDevFrame) /\ late \in BOOLEAN
  /\ dev \in Device
  /\ toDevice \in Seq(ToDevFrame) /\ fromDevice \in Seq(FromDevFrame) /\ lost \in Nat

-----------------------------------------------------------------------------
(* Queues. *)

LEMMA PutShape ==
  ASSUME NEW T, NEW q \in Seq(T), NEW f \in T
  PROVE  /\ Put(q, f) \in Seq(T) /\ Len(q) \in Nat
         /\ \/ Put(q, f) = q /\ Len(q) >= Capacity
            \/ /\ Len(Put(q, f)) = Len(q) + 1
               /\ \A i \in 1 .. Len(q) : Put(q, f)[i] = q[i]
               /\ Put(q, f)[Len(q) + 1] = f
  BY ConnectAssumption DEF Put

LEMMA TailShape ==
  ASSUME NEW T, NEW q \in Seq(T), q # <<>>
  PROVE  /\ Tail(q) \in Seq(T) /\ Len(q) \in Nat /\ Len(Tail(q)) = Len(q) - 1
         /\ Head(q) = q[1] /\ 1 \in 1 .. Len(q) /\ q[1] \in T
         /\ \A i \in 1 .. Len(Tail(q)) : Tail(q)[i] = q[i + 1] /\ i + 1 \in 1 .. Len(q)
  OBVIOUS

LEMMA DropShape ==
  ASSUME NEW T, NEW q \in Seq(T), NEW n \in 1 .. Len(q)
  PROVE  /\ Drop(q, n) \in Seq(T) /\ Len(Drop(q, n)) = Len(q) - n /\ Len(q) \in Nat
         /\ \A i \in 1 .. Len(Drop(q, n)) : Drop(q, n)[i] = q[i + n] /\ i + n \in 1 .. Len(q)
  BY DEF Drop

(* A queue that changes by a frame put or taken keeps the type of its      *)
(* frames.                                                                 *)
LEMMA FrameTypes ==
  ASSUME ConnectTypeOK, NEW r \in Nat, NEW c \in Addresses
  PROVE  /\ \A k \in Commands : [kind |-> k, conn |-> c, run |-> r] \in ToDevFrame
         /\ FromDev("ua", c, r) \in FromDevFrame
         /\ FromDev("data", c, r) \in FromDevFrame
         /\ FromDev("xid", BroadcastAddress, r) \in FromDevFrame
  BY DEF ToDevFrame, FromDevFrame, FromDev, BroadcastAddress, Addresses

(* How a step of the program leaves the frames to the device. *)
LEMMA SendType ==
  ASSUME ConnectTypeOK, run' \in Nat, NEW k \in Commands, NEW c \in Addresses,
         SendTo(ToDev(k, c))
  PROVE  toDevice' \in Seq(ToDevFrame)
<1>1. ToDev(k, c) \in ToDevFrame
  BY FrameTypes DEF ToDev
<1>2. QED
  BY <1>1, PutShape DEF SendTo, ConnectTypeOK

LEMMA InitTypes == ConnectInit => ConnectTypeOK
<1> SUFFICES ASSUME ConnectInit PROVE ConnectTypeOK
  OBVIOUS
<1>1. 0 \in Addresses
  BY DEF Addresses
<1>2. dev \in Device
  BY <1>1 DEF ConnectInit, Device, NullAddress
<1>3. found \in BOOLEAN /\ late \in BOOLEAN
  BY Zenon DEF ConnectInit
<1>4. /\ matched \in Seq(FromDevFrame) /\ toDevice \in Seq(ToDevFrame)
      /\ fromDevice \in Seq(FromDevFrame)
  BY DEF ConnectInit
<1>5. QED
  BY <1>1, <1>2, <1>3, <1>4 DEF ConnectInit, ConnectTypeOK, NullAddress

(* The actions of the program. *)
LEMMA ProgramTypes ==
  ASSUME ConnectTypeOK, Start \/ Connecting \/ Poll \/ Disconnect \/ Abort
  PROVE  ConnectTypeOK'
<1> USE DEF ConnectTypeOK
<1>1. BroadcastAddress \in Addresses /\ NullAddress \in Addresses
  BY DEF BroadcastAddress, NullAddress, Addresses
<1>2. late' \in BOOLEAN
  BY DEF Start, Connecting, Poll, Disconnect, Abort, Collect, SlotCloses, NextPass, NoDevice,
     FirstSnrm, NextSnrm, NoUa, Ignore, Take, Unanswered, Ready, Closes
<1>3. "xid" \in Commands /\ "end" \in Commands /\ "snrm" \in Commands /\ "poll" \in Commands
      /\ "disc" \in Commands
  BY DEF Commands
<1>4. CASE Start
  <2>1. run' \in Nat /\ toDevice' \in Seq(ToDevFrame)
    BY <1>1, <1>3, <1>4, SendType DEF Start, StartPass
  <2>2. found' \in BOOLEAN
    BY <1>4, Zenon DEF Start, StartPass
  <2>3. QED
    BY <1>1, <1>2, <1>4, <2>1, <2>2 DEF Start, StartPass, Quiet
<1>5. CASE NextPass
  <2>1. run' \in Nat /\ toDevice' \in Seq(ToDevFrame)
    BY <1>1, <1>3, <1>5, SendType DEF NextPass, StartPass
  <2>2. found' \in BOOLEAN
    BY <1>5, Zenon DEF NextPass, StartPass
  <2>3. QED
    BY <1>2, <1>5, <2>1, <2>2 DEF NextPass, StartPass, Quiet, CountPass
<1>6. CASE SlotCloses
  <2>1. run' \in Nat /\ toDevice' \in Seq(ToDevFrame)
    BY <1>1, <1>3, <1>6, SendType DEF SlotCloses
  <2>2. QED
    BY <1>2, <1>6, <2>1 DEF SlotCloses, Quiet
<1>7. CASE FirstSnrm
  <2>1. conn' \in Addresses
    BY <1>7, ConnectAssumption DEF FirstSnrm, random_caddr, Addresses
  <2>2. run' \in Nat /\ toDevice' \in Seq(ToDevFrame)
    BY <1>3, <1>7, <2>1, SendType DEF FirstSnrm
  <2>3. QED
    BY <1>2, <1>7, <2>1, <2>2 DEF FirstSnrm, Quiet
<1>8. CASE NextSnrm
  <2>1. run' \in Nat /\ toDevice' \in Seq(ToDevFrame)
    BY <1>3, <1>8, SendType DEF NextSnrm
  <2>2. QED
    BY <1>2, <1>8, <2>1 DEF NextSnrm, Quiet
<1>9. CASE Poll
  <2>1. run' \in Nat /\ toDevice' \in Seq(ToDevFrame)
    BY <1>3, <1>9, SendType DEF Poll
  <2>2. QED
    BY <1>2, <1>9, <2>1 DEF Poll, Quiet
<1>10. CASE Disconnect
  <2>1. run' \in Nat /\ toDevice' \in Seq(ToDevFrame)
    BY <1>3, <1>10, SendType DEF Disconnect
  <2>2. QED
    BY <1>2, <1>10, <2>1 DEF Disconnect, Quiet
<1>11. CASE Collect
  <2>1. fromDevice' \in Seq(FromDevFrame)
    BY <1>11, TailShape DEF Collect, Ready
  <2>2. QED
    BY <1>2, <1>11, <2>1 DEF Collect, Quiet
<1>12. CASE Ignore
  <2>1. fromDevice' \in Seq(FromDevFrame)
    BY <1>12, TailShape DEF Ignore, Ready
  <2>2. QED
    BY <1>2, <1>12, <2>1 DEF Ignore, Quiet
<1>13. CASE Take
  <2>1. fromDevice # <<>> /\ \E n \in 1 .. Len(fromDevice) : fromDevice' = Drop(fromDevice, n)
    BY <1>13 DEF Take, Ready
  <2>2. Head(fromDevice) \in FromDevFrame
    BY <2>1
  <2>3. fromDevice' \in Seq(FromDevFrame) /\ matched' \in Seq(FromDevFrame)
    BY <1>13, <2>1, <2>2, DropShape DEF Take
  <2>4. QED
    BY <1>2, <1>13, <2>3 DEF Take, Quiet
<1>14. CASE NoDevice \/ NoUa \/ Unanswered \/ Abort
  BY <1>2, <1>14 DEF NoDevice, NoUa, Unanswered, Abort, Quiet
<1>15. QED
  BY <1>4, <1>5, <1>6, <1>7, <1>8, <1>9, <1>10, <1>11, <1>12, <1>13, <1>14 DEF Connecting

LEMMA DeviceReadsType ==
  ASSUME ConnectTypeOK, DeviceReads
  PROVE  ConnectTypeOK'
<1> USE DEF ConnectTypeOK
<1>1. toDevice # <<>> /\ Head(toDevice) \in ToDevFrame /\ toDevice' \in Seq(ToDevFrame)
  BY TailShape DEF DeviceReads
<1>2. PICK f \in ToDevFrame : /\ f = Head(toDevice)
                              /\ \/ DeviceDiscovered(f) \/ DeviceConnects(f)
                                 \/ DevicePolled(f) \/ DeviceDisconnected(f)
  BY <1>1 DEF DeviceReads
<1>3. f.run \in Nat /\ f.conn \in Addresses /\ dev.run \in Nat
  BY DEF ToDevFrame, Device
<1>4. /\ FromDev("ua", f.conn, f.run) \in FromDevFrame
      /\ FromDev("ua", f.conn, dev.run) \in FromDevFrame
      /\ FromDev("data", f.conn, dev.run) \in FromDevFrame
      /\ FromDev("xid", BroadcastAddress, f.run) \in FromDevFrame
  BY <1>3, FrameTypes
<1>5. \A g \in FromDevFrame : Put(fromDevice, g) \in Seq(FromDevFrame)
  BY PutShape
<1>6. fromDevice' \in Seq(FromDevFrame)
  BY <1>2, <1>4, <1>5 DEF DeviceDiscovered, DeviceConnects, DevicePolled, DeviceDisconnected,
     Reply, Silent
<1>7. dev' \in Device
  BY <1>2, <1>3 DEF DeviceDiscovered, DeviceConnects, DevicePolled, DeviceDisconnected, Device
<1>8. QED
  BY <1>1, <1>6, <1>7 DEF DeviceReads, programVars

LEMMA NextTypes == ConnectTypeOK /\ [ConnectNext]_connectVars => ConnectTypeOK'
<1> SUFFICES ASSUME ConnectTypeOK, [ConnectNext]_connectVars PROVE ConnectTypeOK'
  OBVIOUS
<1>1. CASE DeviceTimesOut
  <2>1. dev' \in Device
    BY <1>1 DEF DeviceTimesOut, ConnectTypeOK, Device
  <2>2. QED
    BY <1>1, <2>1 DEF DeviceTimesOut, ConnectTypeOK, programVars
<1>2. CASE Lose
  <2>1. toDevice' \in Seq(ToDevFrame) /\ fromDevice' \in Seq(FromDevFrame) /\ lost' \in Nat
    <3>1. toDevice # <<>> => Tail(toDevice) \in Seq(ToDevFrame)
      BY TailShape DEF ConnectTypeOK
    <3>2. fromDevice # <<>> => Tail(fromDevice) \in Seq(FromDevFrame)
      BY TailShape DEF ConnectTypeOK
    <3>3. lost' \in Nat
      BY <1>2 DEF Lose, ConnectTypeOK
    <3>4. \/ toDevice # <<>> /\ toDevice' = Tail(toDevice) /\ fromDevice' = fromDevice
          \/ fromDevice # <<>> /\ fromDevice' = Tail(fromDevice) /\ toDevice' = toDevice
      BY <1>2 DEF Lose
    <3>5. toDevice \in Seq(ToDevFrame) /\ fromDevice \in Seq(FromDevFrame)
      BY DEF ConnectTypeOK
    <3>6. QED
      BY ONLY <3>1, <3>2, <3>3, <3>4, <3>5, Zenon
  <2>2. QED
    BY <1>2, <2>1 DEF Lose, ConnectTypeOK, programVars
<1>3. CASE UNCHANGED connectVars
  BY <1>3 DEF ConnectTypeOK, connectVars, programVars
<1>4. QED
  BY <1>1, <1>2, <1>3, ProgramTypes, DeviceReadsType DEF ConnectNext

(* The variables keep their types, run after run.                          *)
THEOREM ConnectTypeCorrect == ConnectSpec => []ConnectTypeOK
  BY InitTypes, NextTypes, PTL DEF ConnectSpec

-----------------------------------------------------------------------------
(* Counting the frames of a queue. *)

(* p is what is left of the queue q once n frames have been taken from it. *)
Suffix(q, n, p) ==
  /\ n \in Nat /\ Len(p) \in Nat /\ Len(q) \in Nat /\ Len(p) = Len(q) - n
  /\ \A i \in 1 .. Len(p) : p[i] = q[i + n] /\ i + n \in 1 .. Len(q)

LEMMA SuffixSame ==
  ASSUME NEW T, NEW q \in Seq(T)
  PROVE  Suffix(q, 0, q)
  BY DEF Suffix

LEMMA SuffixTail ==
  ASSUME NEW T, NEW q \in Seq(T), q # <<>>
  PROVE  Suffix(q, 1, Tail(q))
  BY TailShape DEF Suffix

LEMMA SuffixDrop ==
  ASSUME NEW T, NEW q \in Seq(T), NEW n \in 1 .. Len(q)
  PROVE  Suffix(q, n, Drop(q, n))
  BY DropShape DEF Suffix

(* Indices that a shift by n sends into a set are no more than its         *)
(* members, and fewer if the set has one that the shift passes over.       *)
LEMMA ShiftCounts ==
  ASSUME NEW n \in Nat, NEW m \in Nat, NEW S \in SUBSET (1 .. m), NEW R \in SUBSET Nat,
         \A i \in R : i + n \in S
  PROVE  /\ IsFiniteSet(R) /\ IsFiniteSet(S)
         /\ Cardinality(R) \in Nat /\ Cardinality(S) \in Nat
         /\ Cardinality(R) <= Cardinality(S)
         /\ \A x \in S : (\A i \in R : i + n # x) => Cardinality(R) < Cardinality(S)
<1>1. IsFiniteSet(S)
  <2>1. IsFiniteSet(1 .. m)
    BY FS_Interval
  <2>2. QED
    BY <2>1, FS_Subset
<1> DEFINE shift == [i \in R |-> i + n]
<1>2. ASSUME NEW U \in SUBSET S, \A i \in R : i + n \in U
      PROVE  IsFiniteSet(R) /\ IsFiniteSet(U) /\ Cardinality(R) <= Cardinality(U)
  <2>1. IsFiniteSet(U)
    BY <1>1, FS_Subset
  <2>2. shift \in Injection(R, U)
    BY <1>2 DEF Injection, IsInjective
  <2>3. QED
    BY <2>1, <2>2, FS_Injection
<1>3. IsFiniteSet(R) /\ Cardinality(R) <= Cardinality(S)
  BY <1>2
<1>4. Cardinality(R) \in Nat /\ Cardinality(S) \in Nat
  BY <1>1, <1>3, FS_CardinalityType
<1>5. ASSUME NEW x \in S, \A i \in R : i + n # x
      PROVE  Cardinality(R) < Cardinality(S)
  <2>1. \A i \in R : i + n \in S \ {x}
    BY <1>5
  <2>2. Cardinality(R) <= Cardinality(S \ {x})
    BY <1>2, <2>1
  <2>3. Cardinality(S \ {x}) = Cardinality(S) - 1
    BY <1>1, FS_RemoveElement
  <2>4. QED
    BY <1>4, <2>2, <2>3
<1>6. QED
  BY <1>1, <1>3, <1>4, <1>5

(* The two counts of Stale. *)
Answers(q, c) == {i \in 1 .. Len(q) : q[i].conn = c}
Snrms(q)      == {i \in 1 .. Len(q) : q[i].kind = "snrm"}

LEMMA SuffixCounts ==
  ASSUME NEW q, NEW p, NEW n, Suffix(q, n, p), NEW c
  PROVE  /\ Cardinality(Answers(q, c)) \in Nat /\ Cardinality(Answers(p, c)) \in Nat
         /\ Cardinality(Snrms(q)) \in Nat /\ Cardinality(Snrms(p)) \in Nat
         /\ Cardinality(Answers(p, c)) <= Cardinality(Answers(q, c))
         /\ n > 0 /\ q # <<>> /\ 1 \in 1 .. Len(q) /\ q[1].conn = c
            => Cardinality(Answers(p, c)) < Cardinality(Answers(q, c))
         /\ Cardinality(Snrms(p)) <= Cardinality(Snrms(q))
         /\ n > 0 /\ q # <<>> /\ 1 \in 1 .. Len(q) /\ q[1].kind = "snrm"
            => Cardinality(Snrms(p)) < Cardinality(Snrms(q))
<1>1. n \in Nat /\ Len(q) \in Nat /\ Len(p) \in Nat
  BY DEF Suffix
<1>2. /\ Answers(q, c) \in SUBSET (1 .. Len(q)) /\ Answers(p, c) \in SUBSET Nat
      /\ Snrms(q) \in SUBSET (1 .. Len(q)) /\ Snrms(p) \in SUBSET Nat
  BY <1>1 DEF Answers, Snrms
<1>3. \A i \in Answers(p, c) : i + n \in Answers(q, c) /\ i \in 1 .. Len(p)
  BY DEF Answers, Suffix
<1>4. \A i \in Snrms(p) : i + n \in Snrms(q) /\ i \in 1 .. Len(p)
  BY DEF Snrms, Suffix
<1>5. n > 0 => \A i \in 1 .. Len(p) : i + n # 1
  BY <1>1
<1>6. /\ 1 \in 1 .. Len(q) /\ q[1].conn = c => 1 \in Answers(q, c)
      /\ 1 \in 1 .. Len(q) /\ q[1].kind = "snrm" => 1 \in Snrms(q)
  BY DEF Answers, Snrms
<1>7. /\ Cardinality(Answers(q, c)) \in Nat /\ Cardinality(Answers(p, c)) \in Nat
      /\ Cardinality(Answers(p, c)) <= Cardinality(Answers(q, c))
      /\ \A x \in Answers(q, c) : (\A i \in Answers(p, c) : i + n # x)
           => Cardinality(Answers(p, c)) < Cardinality(Answers(q, c))
  BY ONLY <1>1, <1>2, <1>3, ShiftCounts
<1>8. /\ Cardinality(Snrms(q)) \in Nat /\ Cardinality(Snrms(p)) \in Nat
      /\ Cardinality(Snrms(p)) <= Cardinality(Snrms(q))
      /\ \A x \in Snrms(q) : (\A i \in Snrms(p) : i + n # x)
           => Cardinality(Snrms(p)) < Cardinality(Snrms(q))
  BY ONLY <1>1, <1>2, <1>4, ShiftCounts
<1>9. QED
  BY <1>3, <1>4, <1>5, <1>6, <1>7, <1>8

(* A frame put at the end of a queue adds at most one to a count, and      *)
(* nothing to the count of another kind or another connection.             *)
LEMMA PutCounts ==
  ASSUME NEW T, NEW q \in Seq(T), NEW f \in T, NEW c
  PROVE  /\ Cardinality(Answers(q, c)) \in Nat /\ Cardinality(Answers(Put(q, f), c)) \in Nat
         /\ Cardinality(Answers(Put(q, f), c)) <= Cardinality(Answers(q, c)) + 1
         /\ f.conn # c => Cardinality(Answers(Put(q, f), c)) = Cardinality(Answers(q, c))
         /\ Cardinality(Snrms(q)) \in Nat /\ Cardinality(Snrms(Put(q, f))) \in Nat
         /\ Cardinality(Snrms(Put(q, f))) <= Cardinality(Snrms(q)) + 1
         /\ f.kind # "snrm" => Cardinality(Snrms(Put(q, f))) = Cardinality(Snrms(q))
<1>1. Len(q) \in Nat /\ Suffix(q, 0, q)
  BY SuffixSame
<1>2. Cardinality(Answers(q, c)) \in Nat /\ Cardinality(Snrms(q)) \in Nat
  BY <1>1, SuffixCounts
<1>3. CASE Put(q, f) = q
  BY <1>2, <1>3
<1>4. CASE /\ Len(Put(q, f)) = Len(q) + 1 /\ Put(q, f)[Len(q) + 1] = f
           /\ \A i \in 1 .. Len(q) : Put(q, f)[i] = q[i]
  <2>1. IsFiniteSet(Answers(q, c)) /\ IsFiniteSet(Snrms(q))
    <3>1. IsFiniteSet(1 .. Len(q))
      BY <1>1, FS_Interval
    <3>2. Answers(q, c) \in SUBSET (1 .. Len(q)) /\ Snrms(q) \in SUBSET (1 .. Len(q))
      BY DEF Answers, Snrms
    <3>3. QED
      BY <3>1, <3>2, FS_Subset
  <2>2. 1 .. Len(q) + 1 = (1 .. Len(q)) \cup {Len(q) + 1} /\ Len(q) + 1 \notin 1 .. Len(q)
    BY <1>1
  <2>3. Answers(Put(q, f), c) = IF f.conn = c THEN Answers(q, c) \cup {Len(q) + 1}
                                ELSE Answers(q, c)
    BY <1>4, <2>2 DEF Answers
  <2>4. Snrms(Put(q, f)) = IF f.kind = "snrm" THEN Snrms(q) \cup {Len(q) + 1} ELSE Snrms(q)
    BY <1>4, <2>2 DEF Snrms
  <2>5. /\ Cardinality(Answers(q, c) \cup {Len(q) + 1}) \in
             {Cardinality(Answers(q, c)), Cardinality(Answers(q, c)) + 1}
        /\ Cardinality(Snrms(q) \cup {Len(q) + 1}) \in
             {Cardinality(Snrms(q)), Cardinality(Snrms(q)) + 1}
    BY <2>1, FS_AddElement
  <2>6. QED
    BY <1>2, <2>3, <2>4, <2>5
<1>5. QED
  BY <1>3, <1>4, PutShape

-----------------------------------------------------------------------------
(* The inductive invariant of the handshake. *)

Discovery(f) == f.kind \in {"xid", "end"}
Ahead == Len(toDevice) + Len(fromDevice)

(* A window closes with at most two frames before the device and none on   *)
(* the way back: discovery flushes the frames of the runs before.  It puts *)
(* at least two frames of its own behind them, so they are gone when the   *)
(* final slot closes.                                                      *)
Flushing ==
  /\ pc \in {"final", "snrm", "polling"} => Ahead <= 3
  /\ pc = "up" => Ahead <= 2
  /\ pc = "off" /\ Len(toDevice) > 3 => Discovery(toDevice[Len(toDevice)])
  /\ pc = "slot" /\ toDevice # <<>> => Discovery(toDevice[Len(toDevice)])
  /\ pc = "final" =>
       \A i \in 1 .. Len(toDevice) : i + 1 >= Len(toDevice) => Discovery(toDevice[i])

(* From the first SNRM on, what is under way is discovery or of this run.  *)
OwnFrames ==
  pc \in {"snrm", "up", "polling"} =>
    /\ conn \in random_caddr
    /\ \A i \in 1 .. Len(toDevice) :
         \/ Discovery(toDevice[i])
         \/ /\ toDevice[i].kind \in {"snrm", "poll"}
            /\ toDevice[i].run = run /\ toDevice[i].conn = conn
            /\ toDevice[i].kind = "poll" => polls > 0
    /\ \A i \in 1 .. Len(fromDevice) :
         \/ fromDevice[i].kind = "xid"
         \/ fromDevice[i].run = run /\ (fromDevice[i].kind = "data" => polls > 0)

(* A device that answered, or was heard, is connected to this run.         *)
DevIsOurs ==
  /\ dev.mode = "NRM" /\ dev.conn = conn /\ dev.run = run
  /\ polls = 0 => ~dev.polled

Heard == \E i \in 1 .. Len(fromDevice) : fromDevice[i].kind # "xid"

Linked ==
  /\ pc \in {"slot", "final", "snrm"} => polls = 0
  /\ pc = "polling" => polls > 0
  /\ pc \in {"up", "polling"} \/ (pc = "snrm" /\ Heard) => DevIsOurs

(* Every SNRM leaves one frame of its own to come.                         *)
Counted ==
  /\ pc = "snrm" => Stale <= tries /\ tries <= SnrmTries
  /\ pc = "up" /\ polls = 0 => Stale < SnrmTries

ConnectInv == OwnAnswersOnly /\ Flushing /\ OwnFrames /\ Linked /\ Counted

LEMMA StaleNow ==
  ASSUME NEW p, NEW q, NEW c, toDevice = p, fromDevice = q, conn = c
  PROVE  Stale = Cardinality(Answers(q, c)) + Cardinality(Snrms(p))
  BY DEF Stale, Answers, Snrms

LEMMA StaleNext ==
  ASSUME NEW p, NEW q, NEW c, toDevice' = p, fromDevice' = q, conn' = c
  PROVE  Stale' = Cardinality(Answers(q, c)) + Cardinality(Snrms(p))
  BY DEF Stale, Answers, Snrms

LEMMA InitInv == ConnectInit => ConnectInv
  BY DEF ConnectInit, ConnectInv, OwnAnswersOnly, Flushing, OwnFrames, Linked, Counted

(* Outside the handshake and the link only the flushing matters.           *)
LEMMA Elsewhere ==
  ASSUME pc' \in {"off", "slot", "final"}, pc' # "off" => polls' = 0,
         OwnAnswersOnly', Flushing'
  PROVE  ConnectInv'
  BY DEF ConnectInv, OwnFrames, Linked, Counted

LEMMA StillFlushing ==
  ASSUME ConnectTypeOK, ConnectTypeOK', Flushing, NEW m, Suffix(toDevice, m, toDevice'),
         pc' = pc, Ahead \in Nat, Ahead' \in Nat, Ahead' <= Ahead
  PROVE  Flushing'
<1> PICK p : p = toDevice'
  OBVIOUS
<1>1. /\ Len(p) \in Nat /\ Len(toDevice) \in Nat /\ Len(p) = Len(toDevice) - m
      /\ \A i \in 1 .. Len(p) : p[i] = toDevice[i + m] /\ i + m \in 1 .. Len(toDevice)
      /\ m \in Nat
  BY DEF Suffix
<1>2. p # <<>> => Len(p) >= 1
  BY <1>1 DEF ConnectTypeOK
<1>3. Len(p) >= 1 => p[Len(p)] = toDevice[Len(toDevice)] /\ Len(toDevice) >= 1
  BY <1>1
<1>4. Len(p) >= 1 => toDevice # <<>>
  BY <1>3
<1>5. /\ pc' \in {"final", "snrm", "polling"} => Ahead' <= 3
      /\ pc' = "up" => Ahead' <= 2
  BY DEF Flushing
<1>6. pc' = "off" /\ Len(p) > 3 => Discovery(p[Len(p)])
  BY <1>1, <1>3 DEF Flushing
<1>7. pc' = "slot" /\ p # <<>> => Discovery(p[Len(p)])
  BY <1>2, <1>3, <1>4 DEF Flushing
<1>8. ASSUME pc' = "final", NEW i \in 1 .. Len(p), i + 1 >= Len(p)
      PROVE  Discovery(p[i])
  <2>1. p[i] = toDevice[i + m] /\ i + m \in 1 .. Len(toDevice) /\ (i + m) + 1 >= Len(toDevice)
    BY <1>1, <1>8
  <2>2. QED
    BY <1>8, <2>1 DEF Flushing
<1>9. QED
  BY <1>5, <1>6, <1>7, <1>8 DEF Flushing

(* Frames that are only taken, by a reader or by the air, disturb nothing. *)
LEMMA Consumes ==
  ASSUME ConnectTypeOK, ConnectTypeOK', ConnectInv, NEW m, NEW n,
         Suffix(toDevice, m, toDevice'), Suffix(fromDevice, n, fromDevice'),
         UNCHANGED <<run, pc, conn, tries, polls, dev, matched>>
  PROVE  ConnectInv'
<1> PICK p : p = toDevice'
  OBVIOUS
<1> PICK q : q = fromDevice'
  OBVIOUS
<1>1. Suffix(toDevice, m, p) /\ Suffix(fromDevice, n, q)
  OBVIOUS
<1>2. /\ Len(p) \in Nat /\ Len(toDevice) \in Nat /\ Len(p) = Len(toDevice) - m
      /\ \A i \in 1 .. Len(p) : p[i] = toDevice[i + m] /\ i + m \in 1 .. Len(toDevice)
      /\ Len(q) \in Nat /\ Len(fromDevice) \in Nat /\ Len(q) = Len(fromDevice) - n
      /\ \A i \in 1 .. Len(q) : q[i] = fromDevice[i + n] /\ i + n \in 1 .. Len(fromDevice)
      /\ m \in Nat /\ n \in Nat
  BY <1>1 DEF Suffix
<1>3. OwnAnswersOnly'
  BY DEF ConnectInv, OwnAnswersOnly
<1>4. Flushing'
  <2>1. Ahead' <= Ahead /\ Ahead' \in Nat /\ Ahead \in Nat
    BY <1>2 DEF Ahead
  <2>2. QED
    BY <2>1, StillFlushing DEF ConnectInv
<1>5. OwnFrames'
  <2> SUFFICES ASSUME pc \in {"snrm", "up", "polling"}
               PROVE  /\ conn \in random_caddr
                      /\ \A i \in 1 .. Len(p) :
                           \/ Discovery(p[i])
                           \/ /\ p[i].kind \in {"snrm", "poll"}
                              /\ p[i].run = run /\ p[i].conn = conn
                              /\ p[i].kind = "poll" => polls > 0
                      /\ \A i \in 1 .. Len(q) :
                           \/ q[i].kind = "xid"
                           \/ q[i].run = run /\ (q[i].kind = "data" => polls > 0)
    BY DEF OwnFrames, random_caddr
  <2> QED
    BY <1>2 DEF ConnectInv, OwnFrames
<1>6. Linked'
  <2>1. Heard' => Heard
    BY <1>2 DEF Heard
  <2>2. DevIsOurs' <=> DevIsOurs
    BY DEF DevIsOurs
  <2>3. QED
    BY <2>1, <2>2 DEF ConnectInv, Linked
<1>7. Counted'
  <2>1. Stale' <= Stale /\ Stale' \in Nat /\ Stale \in Nat
    <3> PICK c : c = conn
      OBVIOUS
    <3>1. /\ Stale = Cardinality(Answers(fromDevice, c)) + Cardinality(Snrms(toDevice))
          /\ Stale' = Cardinality(Answers(q, c)) + Cardinality(Snrms(p))
      BY StaleNow, StaleNext
    <3>2. /\ Cardinality(Answers(fromDevice, c)) \in Nat /\ Cardinality(Answers(q, c)) \in Nat
          /\ Cardinality(Answers(q, c)) <= Cardinality(Answers(fromDevice, c))
      BY ONLY <1>1, SuffixCounts
    <3>3. /\ Cardinality(Snrms(toDevice)) \in Nat /\ Cardinality(Snrms(p)) \in Nat
          /\ Cardinality(Snrms(p)) <= Cardinality(Snrms(toDevice))
      BY ONLY <1>1, SuffixCounts
    <3>4. QED
      BY ONLY <3>1, <3>2, <3>3
  <2>2. QED
    BY <2>1, ConnectAssumption DEF ConnectInv, Counted, ConnectTypeOK
<1>8. QED
  BY <1>3, <1>4, <1>5, <1>6, <1>7 DEF ConnectInv

(* What SendTo does to a queue that is not full. *)
LEMMA Sends ==
  ASSUME ConnectTypeOK, NEW k \in Commands, NEW c \in Addresses, NEW r \in Nat, run' = r,
         SendTo(ToDev(k, c)), Len(toDevice) < Capacity
  PROVE  /\ Len(toDevice) \in Nat /\ Len(toDevice') = Len(toDevice) + 1
         /\ \A i \in 1 .. Len(toDevice) : toDevice'[i] = toDevice[i]
         /\ toDevice'[Len(toDevice) + 1] = [kind |-> k, conn |-> c, run |-> r]
         /\ toDevice' = Put(toDevice, [kind |-> k, conn |-> c, run |-> r])
         /\ [kind |-> k, conn |-> c, run |-> r] \in ToDevFrame
<1> DEFINE f == [kind |-> k, conn |-> c, run |-> r]
<1>1. f \in ToDevFrame
  BY FrameTypes
<1>2. toDevice' = Put(toDevice, f)
  BY DEF SendTo, ToDev
<1>3. Len(toDevice) \in Nat /\ ~(Len(toDevice) >= Capacity)
  BY ConnectAssumption DEF ConnectTypeOK
<1>4. toDevice \in Seq(ToDevFrame)
  BY DEF ConnectTypeOK
<1> HIDE DEF f
<1>5. /\ Len(Put(toDevice, f)) = Len(toDevice) + 1
      /\ \A i \in 1 .. Len(toDevice) : Put(toDevice, f)[i] = toDevice[i]
      /\ Put(toDevice, f)[Len(toDevice) + 1] = f
  BY ONLY <1>1, <1>3, <1>4, PutShape
<1>6. QED
  BY <1>1, <1>2, <1>3, <1>5 DEF f

(* The command of a pass is last, even if a full queue dropped it. *)
LEMMA StartInv ==
  ASSUME ConnectTypeOK, ConnectTypeOK', ConnectInv, Start, Capacity >= 4
  PROVE  ConnectInv'
<1> DEFINE f == [kind |-> "xid", conn |-> BroadcastAddress, run |-> run']
<1>1. toDevice' = Put(toDevice, f) /\ pc = "off" /\ pc' = "slot" /\ polls' = 0 /\ matched' = <<>>
  BY DEF Start, StartPass, SendTo, ToDev
<1>2. f \in ToDevFrame
  BY DEF ToDevFrame, Commands, Addresses, BroadcastAddress, ConnectTypeOK
<1>3. Discovery(f)
  BY DEF Discovery
<1> HIDE DEF f
<1>4. OwnAnswersOnly'
  BY <1>1 DEF OwnAnswersOnly
<1>5. toDevice \in Seq(ToDevFrame) /\ Len(toDevice) \in Nat
  BY DEF ConnectTypeOK
<1>6. \/ Put(toDevice, f) = toDevice /\ Len(toDevice) >= Capacity
      \/ Len(Put(toDevice, f)) = Len(toDevice) + 1 /\ Put(toDevice, f)[Len(toDevice) + 1] = f
  BY ONLY <1>2, <1>5, PutShape
<1>7. Discovery(toDevice'[Len(toDevice')])
  <2>1. CASE toDevice' = toDevice /\ Len(toDevice) >= Capacity
    <3>1. Len(toDevice) > 3
      BY <1>5, <2>1, ConnectAssumption
    <3>2. QED
      BY <1>1, <2>1, <3>1 DEF ConnectInv, Flushing
  <2>2. CASE Len(toDevice') = Len(toDevice) + 1 /\ toDevice'[Len(toDevice) + 1] = f
    BY <1>3, <2>2
  <2>3. QED
    BY <1>1, <1>6, <2>1, <2>2
<1>8. Flushing'
  BY <1>1, <1>7 DEF Flushing
<1>9. QED
  BY <1>1, <1>4, <1>8, Elsewhere

(* A window closes: little is left before the device, and nothing on the   *)
(* way back.                                                               *)
LEMMA Closed ==
  ASSUME ConnectTypeOK, Closes, Behind <= 2, Capacity >= 4
  PROVE  /\ fromDevice = <<>> /\ Len(fromDevice) = 0
         /\ Len(toDevice) \in 0 .. 2 /\ Len(toDevice) < Capacity
<1>1. Len(toDevice) \in Nat /\ Len(toDevice) <= Behind /\ fromDevice = <<>>
  BY DEF Closes, ConnectTypeOK
<1>2. Behind \in Nat /\ Capacity \in Nat
  BY ConnectAssumption DEF ConnectAssumption
<1>3. Len(toDevice) \in 0 .. 2 /\ Len(toDevice) < Capacity
  <2> PICK n : n = Len(toDevice)
    OBVIOUS
  <2>1. n \in 0 .. 2 /\ n < Capacity
    BY <1>1, <1>2
  <2>2. QED
    BY <2>1
<1>4. QED
  BY <1>1, <1>3

LEMMA DiscoveryInv ==
  ASSUME ConnectTypeOK, ConnectTypeOK', ConnectInv, SlotCloses \/ NextPass,
         Behind <= 2, Capacity >= 4
  PROVE  ConnectInv'
<1>1. PICK k \in {"xid", "end"} : /\ SendTo(ToDev(k, BroadcastAddress))
                                  /\ k = "xid" => pc' = "slot"
                                  /\ k = "end" => pc = "slot" /\ pc' = "final"
  BY DEF SlotCloses, NextPass, StartPass
<1>2. /\ Closes /\ run' = run /\ matched' = matched /\ polls' = polls
      /\ fromDevice' = fromDevice /\ pc \in {"slot", "final"}
  BY DEF SlotCloses, NextPass, StartPass
<1>3. k \in Commands /\ BroadcastAddress \in Addresses /\ run \in Nat
  BY DEF Commands, BroadcastAddress, Addresses, ConnectTypeOK
<1>4. /\ Len(fromDevice) = 0 /\ Len(toDevice) \in 0 .. 2 /\ Len(toDevice) < Capacity
  BY ONLY <1>2, ConnectTypeOK, Behind <= 2, Capacity >= 4, Closed
<1> DEFINE f == [kind |-> k, conn |-> BroadcastAddress, run |-> run]
<1>5. /\ Len(toDevice') = Len(toDevice) + 1
      /\ \A i \in 1 .. Len(toDevice) : toDevice'[i] = toDevice[i]
      /\ toDevice'[Len(toDevice) + 1] = f
  BY ONLY <1>1, <1>2, <1>3, <1>4, ConnectTypeOK, Sends
<1>6. Discovery(f)
  BY DEF Discovery
<1> HIDE DEF f
<1>7. OwnAnswersOnly'
  BY <1>2 DEF ConnectInv, OwnAnswersOnly
<1>8. polls' = 0
  BY <1>2 DEF ConnectInv, Linked
<1>9. Flushing'
  <2>1. Discovery(toDevice'[Len(toDevice')]) /\ Len(toDevice') \in 1 .. 3
    BY <1>4, <1>5, <1>6
  <2>2. Ahead' <= 3
    BY <1>2, <1>4, <2>1 DEF Ahead
  <2>3. ASSUME pc' = "final", NEW i \in 1 .. Len(toDevice'), i + 1 >= Len(toDevice')
        PROVE  Discovery(toDevice'[i])
    <3>1. CASE i = Len(toDevice')
      BY <2>1, <3>1
    <3>2. CASE i # Len(toDevice')
      <4>1. i = Len(toDevice) /\ i \in 1 .. Len(toDevice)
        BY <1>4, <1>5, <2>3, <3>2
      <4>2. toDevice'[i] = toDevice[Len(toDevice)] /\ toDevice # <<>>
        BY <1>5, <4>1
      <4>3. pc = "slot"
        BY <1>1, <2>3
      <4>4. QED
        BY <4>2, <4>3 DEF ConnectInv, Flushing
    <3>3. QED
      BY <3>1, <3>2
  <2>4. pc' \in {"slot", "final"}
    BY <1>1
  <2>5. QED
    BY <2>1, <2>2, <2>3, <2>4 DEF Flushing
<1>10. QED
  BY <1>1, <1>7, <1>8, <1>9, Elsewhere

(* A run that ends leaves its frames where they are.                       *)
LEMMA EndsInv ==
  ASSUME ConnectTypeOK, ConnectTypeOK', ConnectInv, NoDevice \/ NoUa \/ Abort \/ Disconnect,
         Behind <= 2, Capacity >= 4
  PROVE  ConnectInv'
<1>1. OwnAnswersOnly'
  BY DEF ConnectInv, OwnAnswersOnly, NoDevice, NoUa, Abort, Disconnect
<1>2. pc' = "off"
  BY DEF NoDevice, NoUa, Abort, Disconnect
<1>3. Len(toDevice) \in Nat /\ Len(fromDevice) \in Nat /\ toDevice \in Seq(ToDevFrame)
  BY DEF ConnectTypeOK
<1>4. Len(toDevice') > 3 => Discovery(toDevice'[Len(toDevice')])
  <2>1. CASE Disconnect
    <3>1. PICK f \in ToDevFrame : toDevice' = Put(toDevice, f)
      BY <2>1, FrameTypes DEF Disconnect, SendTo, ToDev, ConnectTypeOK, Commands
    <3>2. Len(toDevice) <= 2
      BY <1>3, <2>1 DEF Disconnect, ConnectInv, Flushing, Ahead
    <3>3. Len(toDevice') = Len(toDevice) \/ Len(toDevice') = Len(toDevice) + 1
      BY <1>3, <3>1, PutShape
    <3>4. QED
      BY <1>3, <3>2, <3>3
  <2>2. CASE NoDevice \/ NoUa \/ Abort
    <3>1. toDevice' = toDevice
      BY <2>2 DEF NoDevice, NoUa, Abort
    <3>2. CASE pc \in {"final", "snrm", "polling", "up"}
      BY <1>3, <3>1, <3>2 DEF ConnectInv, Flushing, Ahead
    <3>3. CASE pc = "slot"
      <4>1. Len(toDevice) > 3 => toDevice # <<>>
        BY <1>3
      <4>2. QED
        BY <3>1, <3>3, <4>1 DEF ConnectInv, Flushing
    <3>4. pc # "off"
      BY <2>2 DEF NoDevice, NoUa, Abort
    <3>5. QED
      BY <3>2, <3>3, <3>4 DEF ConnectTypeOK
  <2>3. QED
    BY <2>1, <2>2
<1>5. Flushing'
  BY <1>2, <1>4 DEF Flushing
<1>6. QED
  BY <1>1, <1>2, <1>5, Elsewhere

-----------------------------------------------------------------------------
(* The steps of the handshake and of the link. *)

(* An SNRM goes out through an empty way back. *)
LEMMA SnrmInv ==
  ASSUME ConnectTypeOK, ConnectTypeOK', ConnectInv, FirstSnrm \/ NextSnrm,
         Behind <= 2, Capacity >= 4
  PROVE  ConnectInv'
<1>1. /\ Closes /\ run' = run /\ matched' = matched /\ polls' = polls /\ dev' = dev
      /\ fromDevice' = fromDevice /\ pc' = "snrm" /\ SendTo(ToDev("snrm", conn'))
  BY DEF FirstSnrm, NextSnrm, Quiet
<1> PICK c : c = conn'
  OBVIOUS
<1> PICK p : p = toDevice'
  OBVIOUS
<1>2. /\ fromDevice = <<>> /\ Len(fromDevice) = 0
      /\ Len(toDevice) \in 0 .. 2 /\ Len(toDevice) < Capacity
  BY ONLY <1>1, ConnectTypeOK, Behind <= 2, Capacity >= 4, Closed
<1>3. c \in random_caddr /\ c \in Addresses /\ run \in Nat /\ "snrm" \in Commands
  BY DEF FirstSnrm, NextSnrm, ConnectInv, OwnFrames, ConnectTypeOK, Commands
<1> DEFINE f == [kind |-> "snrm", conn |-> c, run |-> run]
<1>4. /\ Len(p) = Len(toDevice) + 1 /\ Len(toDevice) \in Nat
      /\ \A i \in 1 .. Len(toDevice) : p[i] = toDevice[i]
      /\ p[Len(toDevice) + 1] = f /\ p = Put(toDevice, f) /\ f \in ToDevFrame
  BY <1>1, <1>2, <1>3, Sends
<1>5. f.kind = "snrm" /\ f.conn = c /\ f.run = run
  OBVIOUS
<1> HIDE DEF f
<1>6. \A i \in 1 .. Len(p) : i = Len(toDevice) + 1 \/ i \in 1 .. Len(toDevice)
  BY <1>4
<1>7. OwnAnswersOnly'
  BY <1>1 DEF ConnectInv, OwnAnswersOnly
<1>8. Flushing'
  <2>1. Ahead' <= 3
    BY <1>1, <1>2, <1>4 DEF Ahead
  <2>2. QED
    BY <1>1, <2>1 DEF Flushing
<1>9. pc \in {"final", "snrm"} /\ polls = 0
  BY DEF FirstSnrm, NextSnrm, Discovered, ConnectInv, Linked
<1>10. \A i \in 1 .. Len(toDevice) :
         \/ Discovery(toDevice[i])
         \/ pc = "snrm" /\ toDevice[i].kind = "snrm" /\ toDevice[i].run = run /\ toDevice[i].conn = c
  <2>1. CASE NextSnrm
    <3>1. pc = "snrm" /\ c = conn
      BY <2>1 DEF NextSnrm
    <3>2. QED
      BY <1>9, <3>1 DEF ConnectInv, OwnFrames
  <2>2. CASE FirstSnrm
    <3>1. pc = "final"
      BY <2>2 DEF FirstSnrm, Discovered
    <3>2. \A n \in 0 .. 2 : \A i \in 1 .. n : i + 1 >= n
      OBVIOUS
    <3>3. \A i \in 1 .. Len(toDevice) : i + 1 >= Len(toDevice)
      BY <1>2, <3>2
    <3>4. QED
      BY <3>1, <3>3 DEF ConnectInv, Flushing
  <2>3. QED
    BY <2>1, <2>2
<1>11. OwnFrames'
  <2>1. \A i \in 1 .. Len(p) : \/ Discovery(p[i])
                               \/ p[i].kind = "snrm" /\ p[i].run = run /\ p[i].conn = c
    BY <1>4, <1>5, <1>6, <1>10
  <2>2. fromDevice' = <<>>
    BY <1>1, <1>2
  <2>3. c \in random_caddr'
    BY <1>3 DEF random_caddr
  <2>4. QED
    BY <1>1, <2>1, <2>2, <2>3 DEF OwnFrames
<1>12. Linked'
  <2>1. ~Heard'
    BY <1>1, <1>2 DEF Heard
  <2>2. QED
    BY <1>1, <1>9, <2>1 DEF Linked
<1>13. Counted'
  <2>1. Cardinality(Answers(<<>>, c)) = 0
    BY FS_EmptySet DEF Answers
  <2>2. Stale' = Cardinality(Answers(<<>>, c)) + Cardinality(Snrms(p))
    <3>1. fromDevice' = <<>>
      BY <1>1, <1>2
    <3>2. QED
      BY <3>1, StaleNext
  <2>3. /\ Cardinality(Snrms(toDevice)) \in Nat /\ Cardinality(Snrms(p)) \in Nat
        /\ Cardinality(Snrms(p)) <= Cardinality(Snrms(toDevice)) + 1
    BY <1>4, PutCounts DEF ConnectTypeOK
  <2>4. tries \in Nat /\ SnrmTries \in Nat \ {0}
    BY ConnectAssumption DEF ConnectAssumption, ConnectTypeOK
  <2>5. CASE NextSnrm
    <3>1. Stale = Cardinality(Answers(<<>>, c)) + Cardinality(Snrms(toDevice))
      BY <1>2, <2>5, StaleNow DEF NextSnrm
    <3>2. Stale <= tries /\ tries' = tries + 1 /\ tries < SnrmTries
      BY <2>5 DEF NextSnrm, MoreSnrms, ConnectInv, Counted
    <3>3. Stale' <= tries' /\ tries' <= SnrmTries
      BY ONLY <2>1, <2>2, <2>3, <2>4, <3>1, <3>2
    <3>4. QED
      BY <1>1, <3>3 DEF Counted
  <2>6. CASE FirstSnrm
    <3>1. pc = "final" /\ tries' = 1
      BY <2>6 DEF FirstSnrm, Discovered
    <3>2. Snrms(toDevice) = {}
      BY <1>10, <3>1 DEF Snrms, Discovery
    <3>3. Cardinality(Snrms(toDevice)) = 0
      BY <3>2, FS_EmptySet
    <3>4. Stale' <= tries' /\ tries' <= SnrmTries
      BY ONLY <2>1, <2>2, <2>3, <2>4, <3>1, <3>3
    <3>5. QED
      BY <1>1, <3>4 DEF Counted
  <2>7. QED
    BY <2>5, <2>6
<1>14. QED
  BY <1>7, <1>8, <1>11, <1>12, <1>13 DEF ConnectInv

(* The answer taken leaves room for one poll, and one answer fewer to come. *)
LEMMA TakeInv ==
  ASSUME ConnectTypeOK, ConnectTypeOK', ConnectInv, Take
  PROVE  ConnectInv'
<1>1. /\ fromDevice # <<>> /\ pc \in {"snrm", "polling"} /\ pc' = "up"
      /\ ForUs(Head(fromDevice))
      /\ pc = "snrm" => Head(fromDevice).kind = "ua"
      /\ matched' = Append(matched, Head(fromDevice))
      /\ UNCHANGED <<run, conn, polls, tries, toDevice, dev>>
  BY DEF Take, Ready, Quiet, IsUa
<1>2. PICK n \in 1 .. Len(fromDevice) : fromDevice' = Drop(fromDevice, n)
  BY DEF Take
<1> PICK q : q = fromDevice'
  OBVIOUS
<1>3. fromDevice \in Seq(FromDevFrame) /\ toDevice \in Seq(ToDevFrame)
  BY DEF ConnectTypeOK
<1>4. Suffix(fromDevice, n, q)
  BY <1>2, <1>3, SuffixDrop
<1>5. /\ Len(q) \in Nat /\ Len(fromDevice) \in Nat /\ Len(q) = Len(fromDevice) - n /\ n \in Nat \ {0}
      /\ \A i \in 1 .. Len(q) : q[i] = fromDevice[i + n] /\ i + n \in 1 .. Len(fromDevice)
  BY <1>2, <1>4 DEF Suffix
<1>6. /\ Head(fromDevice) = fromDevice[1] /\ 1 \in 1 .. Len(fromDevice)
      /\ fromDevice[1] \in FromDevFrame
  BY <1>1, <1>3, TailShape
<1>7. fromDevice[1].conn = conn /\ conn # BroadcastAddress
  BY <1>1, <1>6 DEF ForUs, ConnectInv, OwnFrames, random_caddr
<1>8. fromDevice[1].kind # "xid" /\ fromDevice[1].run = run
  BY <1>1, <1>6, <1>7 DEF FromDevFrame, ConnectInv, OwnFrames
<1>9. OwnAnswersOnly'
  <2>1. /\ matched \in Seq(FromDevFrame) /\ matched' = Append(matched, fromDevice[1])
    BY <1>1, <1>6 DEF ConnectTypeOK
  <2>2. \A i \in 1 .. Len(matched') :
          matched'[i] = fromDevice[1] \/ (i \in 1 .. Len(matched) /\ matched'[i] = matched[i])
    BY <1>6, <2>1
  <2>3. QED
    BY <1>1, <1>8, <2>2 DEF ConnectInv, OwnAnswersOnly
<1>10. Flushing'
  <2>1. Ahead' <= Ahead - 1 /\ Ahead \in Nat /\ Ahead <= 3
    BY <1>1, <1>3, <1>5 DEF Ahead, ConnectInv, Flushing
  <2>2. Ahead' \in Int
    BY <1>1, <1>3, <1>5 DEF Ahead
  <2>3. Ahead' <= 2
    BY ONLY <2>1, <2>2
  <2>4. QED
    BY <1>1, <2>3 DEF Flushing
<1>11. OwnFrames'
  <2>1. \A i \in 1 .. Len(q) : \/ q[i].kind = "xid"
                               \/ q[i].run = run /\ (q[i].kind = "data" => polls > 0)
    BY <1>1, <1>5 DEF ConnectInv, OwnFrames
  <2>2. conn \in random_caddr'
    BY <1>1 DEF ConnectInv, OwnFrames, random_caddr
  <2>3. \A i \in 1 .. Len(toDevice) :
          \/ Discovery(toDevice[i])
          \/ /\ toDevice[i].kind \in {"snrm", "poll"}
             /\ toDevice[i].run = run /\ toDevice[i].conn = conn
             /\ toDevice[i].kind = "poll" => polls > 0
    BY <1>1 DEF ConnectInv, OwnFrames
  <2>4. QED
    BY <1>1, <2>1, <2>2, <2>3 DEF OwnFrames
<1>12. Linked'
  <2>1. pc = "snrm" => Heard
    BY <1>6, <1>8 DEF Heard
  <2>2. DevIsOurs
    BY <1>1, <2>1 DEF ConnectInv, Linked
  <2>3. DevIsOurs'
    BY <1>1, <2>2 DEF DevIsOurs
  <2>4. QED
    BY <1>1, <2>3 DEF Linked
<1>13. Counted'
  <2> SUFFICES ASSUME polls = 0
               PROVE  Stale' < SnrmTries
    BY <1>1 DEF Counted
  <2>1. pc = "snrm" /\ Stale <= tries /\ tries <= SnrmTries
    BY <1>1 DEF ConnectInv, Linked, Counted
  <2> PICK c : c = conn
    OBVIOUS
  <2>2. /\ Stale = Cardinality(Answers(fromDevice, c)) + Cardinality(Snrms(toDevice))
        /\ Stale' = Cardinality(Answers(q, c)) + Cardinality(Snrms(toDevice))
    BY <1>1, StaleNow, StaleNext
  <2>3. /\ Cardinality(Answers(fromDevice, c)) \in Nat /\ Cardinality(Answers(q, c)) \in Nat
        /\ Cardinality(Answers(q, c)) < Cardinality(Answers(fromDevice, c))
    <3>1. n > 0 /\ fromDevice[1].conn = c
      BY <1>5, <1>7
    <3>2. QED
      BY ONLY <1>1, <1>4, <1>6, <3>1, SuffixCounts
  <2>4. Cardinality(Snrms(toDevice)) \in Nat
    BY <1>3, SuffixSame, SuffixCounts
  <2>5. SnrmTries \in Nat /\ tries \in Nat
    BY ConnectAssumption DEF ConnectAssumption, ConnectTypeOK
  <2>6. QED
    BY ONLY <2>1, <2>2, <2>3, <2>4, <2>5
<1>14. QED
  BY <1>9, <1>10, <1>11, <1>12, <1>13 DEF ConnectInv

LEMMA PollInv ==
  ASSUME ConnectTypeOK, ConnectTypeOK', ConnectInv, Poll, Capacity >= 4
  PROVE  ConnectInv'
<1>1. /\ pc = "up" /\ pc' = "polling" /\ polls' = polls + 1 /\ SendTo(ToDev("poll", conn))
      /\ UNCHANGED <<run, conn, tries, matched, fromDevice, dev>>
  BY DEF Poll, Quiet
<1> PICK p : p = toDevice'
  OBVIOUS
<1>2. polls \in Nat /\ polls' > 0 /\ polls' # 0
  BY <1>1 DEF ConnectTypeOK
<1>3. /\ Len(toDevice) \in Nat /\ Len(fromDevice) \in Nat
      /\ Len(toDevice) + Len(fromDevice) <= 2
  BY <1>1 DEF ConnectInv, Flushing, Ahead, ConnectTypeOK
<1>4. Len(toDevice) < Capacity
  <2>1. Capacity \in Nat
    BY ConnectAssumption DEF ConnectAssumption
  <2> PICK n, m : n = Len(toDevice) /\ m = Len(fromDevice)
    OBVIOUS
  <2>2. n < Capacity
    BY <1>3, <2>1
  <2>3. QED
    BY <2>2
<1>5. conn \in Addresses /\ run \in Nat /\ "poll" \in Commands
  BY DEF ConnectTypeOK, Commands
<1>6. /\ Len(p) = Len(toDevice) + 1
      /\ \A i \in 1 .. Len(toDevice) : p[i] = toDevice[i]
      /\ p[Len(toDevice) + 1] = [kind |-> "poll", conn |-> conn, run |-> run]
  BY <1>1, <1>4, <1>5, Sends
<1>7. \A i \in 1 .. Len(p) : i = Len(toDevice) + 1 \/ i \in 1 .. Len(toDevice)
  BY <1>3, <1>6
<1>8. OwnAnswersOnly'
  BY <1>1 DEF ConnectInv, OwnAnswersOnly
<1>9. Flushing'
  <2>1. Ahead' <= 3
    BY <1>1, <1>3, <1>6 DEF Ahead
  <2>2. QED
    BY <1>1, <2>1 DEF Flushing
<1>10. OwnFrames'
  <2>1. \A i \in 1 .. Len(p) :
          \/ Discovery(p[i])
          \/ p[i].kind \in {"snrm", "poll"} /\ p[i].run = run /\ p[i].conn = conn
    BY <1>1, <1>6, <1>7 DEF ConnectInv, OwnFrames
  <2>2. \A i \in 1 .. Len(fromDevice) : fromDevice[i].kind = "xid" \/ fromDevice[i].run = run
    BY <1>1 DEF ConnectInv, OwnFrames
  <2>3. conn \in random_caddr'
    BY <1>1 DEF ConnectInv, OwnFrames, random_caddr
  <2>4. QED
    BY <1>1, <1>2, <2>1, <2>2, <2>3 DEF OwnFrames
<1>11. Linked'
  <2>1. DevIsOurs
    BY <1>1 DEF ConnectInv, Linked
  <2>2. DevIsOurs'
    BY <1>1, <1>2, <2>1 DEF DevIsOurs
  <2>3. QED
    BY <1>1, <1>2, <2>2 DEF Linked
<1>12. Counted'
  BY <1>1 DEF Counted
<1>13. QED
  BY <1>8, <1>9, <1>10, <1>11, <1>12 DEF ConnectInv

(* An unanswered poll leaves an empty way back. *)
LEMMA UnansweredInv ==
  ASSUME ConnectTypeOK, ConnectTypeOK', ConnectInv, Unanswered, Behind <= 2, Capacity >= 4
  PROVE  ConnectInv'
<1>1. /\ pc = "polling" /\ pc' = "up" /\ Closes
      /\ UNCHANGED <<run, conn, polls, tries, matched, toDevice, fromDevice, dev>>
  BY DEF Unanswered, Quiet
<1>2. Len(fromDevice) = 0 /\ Len(toDevice) \in 0 .. 2
  BY ONLY <1>1, ConnectTypeOK, Behind <= 2, Capacity >= 4, Closed
<1>3. polls > 0 /\ polls \in Nat /\ polls # 0
  BY <1>1 DEF ConnectInv, Linked, ConnectTypeOK
<1>4. OwnAnswersOnly'
  BY <1>1 DEF ConnectInv, OwnAnswersOnly
<1>5. Flushing'
  <2> PICK n \in 0 .. 2 : n = Len(toDevice)
    BY <1>2
  <2>0. Ahead' = n + 0
    BY <1>1, <1>2 DEF Ahead
  <2>1. Ahead' <= 2
    BY <2>0
  <2>2. QED
    BY <1>1, <2>1 DEF Flushing
<1>6. OwnFrames'
  BY <1>1 DEF ConnectInv, OwnFrames, Discovery, random_caddr
<1>7. Linked'
  BY <1>1 DEF ConnectInv, Linked, DevIsOurs
<1>8. Counted'
  BY <1>1, <1>3 DEF Counted
<1>9. QED
  BY <1>4, <1>5, <1>6, <1>7, <1>8 DEF ConnectInv

-----------------------------------------------------------------------------
(* The device. *)

SameLink == dev'.mode = dev.mode /\ dev'.conn = dev.conn /\ dev'.run = dev.run

(* What reading f has the device send and become, once connect sends SNRMs. *)
LEMMA DeviceReply ==
  ASSUME ConnectTypeOK, ConnectInv, pc \in {"snrm", "up", "polling"},
         NEW f \in ToDevFrame, toDevice # <<>>, f = toDevice[1], 1 \in 1 .. Len(toDevice),
         DeviceDiscovered(f) \/ DeviceConnects(f) \/ DevicePolled(f) \/ DeviceDisconnected(f)
  PROVE  \/ fromDevice' = fromDevice /\ SameLink /\ dev'.polled = dev.polled
         \/ \E g \in FromDevFrame :
              /\ fromDevice' = Put(fromDevice, g)
              /\ \/ g.kind = "xid" /\ SameLink /\ dev'.polled = dev.polled
                 \/ /\ f.kind = "snrm" /\ g.kind = "ua" /\ g.run = run
                    /\ dev'.mode = "NRM" /\ dev'.conn = conn /\ dev'.run = run /\ ~dev'.polled
                 \/ g.kind = "data" /\ g.run = run /\ SameLink /\ polls > 0
<1>1. \/ Discovery(f)
      \/ /\ f.kind \in {"snrm", "poll"} /\ f.run = run /\ f.conn = conn
         /\ f.kind = "poll" => polls > 0
  BY DEF ConnectInv, OwnFrames
<1>2. f.run \in Nat /\ f.conn \in Addresses /\ dev.run \in Nat /\ dev \in Device
  BY DEF ToDevFrame, Device, ConnectTypeOK
<1>3. /\ FromDev("ua", f.conn, f.run) \in FromDevFrame
      /\ FromDev("data", f.conn, dev.run) \in FromDevFrame
      /\ FromDev("xid", BroadcastAddress, f.run) \in FromDevFrame
  BY <1>2, FrameTypes
<1>4. CASE DeviceDiscovered(f)
  <2>1. SameLink /\ dev'.polled = dev.polled
    BY <1>2, <1>4 DEF DeviceDiscovered, SameLink, Device
  <2>2. \/ fromDevice' = fromDevice
        \/ fromDevice' = Put(fromDevice, FromDev("xid", BroadcastAddress, f.run))
    BY <1>4 DEF DeviceDiscovered, Reply, Silent
  <2>3. FromDev("xid", BroadcastAddress, f.run).kind = "xid"
    BY DEF FromDev
  <2>4. QED
    BY <1>3, <2>1, <2>2, <2>3
<1>5. CASE DeviceConnects(f)
  <2>1. f.kind = "snrm" /\ f.run = run /\ f.conn = conn
    BY <1>1, <1>5 DEF DeviceConnects, Discovery
  <2>2. CASE dev.mode = "NDM" \/ AnswersAgain
    <3>1. /\ fromDevice' = Put(fromDevice, FromDev("ua", f.conn, f.run))
          /\ dev'.mode = "NRM" /\ dev'.conn = conn /\ dev'.run = run /\ ~dev'.polled
      BY <1>2, <1>5, <2>1, <2>2 DEF DeviceConnects, Device, Reply
    <3>2. FromDev("ua", f.conn, f.run).kind = "ua" /\ FromDev("ua", f.conn, f.run).run = run
      BY <2>1 DEF FromDev
    <3>3. QED
      BY <1>3, <2>1, <3>1, <3>2
  <2>3. CASE ~(dev.mode = "NDM" \/ AnswersAgain)
    BY <1>5, <2>3 DEF DeviceConnects, Silent, SameLink
  <2>4. QED
    BY <2>2, <2>3
<1>6. CASE DevicePolled(f)
  <2>1. f.kind = "poll" /\ polls > 0 /\ polls # 0
    BY <1>1, <1>6 DEF DevicePolled, Discovery, ConnectTypeOK
  <2>2. dev.run = run
    BY <2>1 DEF ConnectInv, Linked, DevIsOurs
  <2>3. SameLink
    BY <1>2, <1>6 DEF DevicePolled, SameLink, Device
  <2>4. CASE Connected(f)
    <3>1. fromDevice' = Put(fromDevice, FromDev("data", f.conn, dev.run))
      BY <1>6, <2>4 DEF DevicePolled, Reply
    <3>2. /\ FromDev("data", f.conn, dev.run).kind = "data"
          /\ FromDev("data", f.conn, dev.run).run = run
      BY <2>2 DEF FromDev
    <3>3. QED
      BY <1>3, <2>1, <2>3, <3>1, <3>2
  <2>5. CASE ~Connected(f)
    BY <1>6, <2>3, <2>5 DEF DevicePolled, Silent
  <2>6. QED
    BY <2>4, <2>5
<1>7. CASE DeviceDisconnected(f)
  BY <1>1, <1>7 DEF DeviceDisconnected, Discovery
<1>8. QED
  BY <1>4, <1>5, <1>6, <1>7

LEMMA DeviceReadsInv ==
  ASSUME ConnectTypeOK, ConnectTypeOK', ConnectInv, DeviceReads
  PROVE  ConnectInv'
<1>1. /\ toDevice # <<>> /\ toDevice' = Tail(toDevice)
      /\ UNCHANGED <<run, pc, conn, tries, polls, matched>>
  BY DEF DeviceReads, programVars
<1> PICK p : p = toDevice'
  OBVIOUS
<1> PICK q : q = fromDevice'
  OBVIOUS
<1>2. /\ Head(toDevice) = toDevice[1] /\ 1 \in 1 .. Len(toDevice) /\ toDevice[1] \in ToDevFrame
      /\ Suffix(toDevice, 1, p)
  BY <1>1, TailShape, SuffixTail DEF ConnectTypeOK
<1> DEFINE f == toDevice[1]
<1>3. DeviceDiscovered(f) \/ DeviceConnects(f) \/ DevicePolled(f) \/ DeviceDisconnected(f)
  BY <1>2 DEF DeviceReads
<1>4. fromDevice' = fromDevice \/ \E g \in FromDevFrame : fromDevice' = Put(fromDevice, g)
  <2>1. f.run \in Nat /\ f.conn \in Addresses /\ dev.run \in Nat
    BY <1>2 DEF ToDevFrame, Device, ConnectTypeOK
  <2>2. /\ FromDev("ua", f.conn, f.run) \in FromDevFrame
        /\ FromDev("ua", f.conn, dev.run) \in FromDevFrame
        /\ FromDev("data", f.conn, dev.run) \in FromDevFrame
        /\ FromDev("xid", BroadcastAddress, f.run) \in FromDevFrame
    BY <2>1, FrameTypes
  <2>3. QED
    BY <1>3, <2>2 DEF DeviceDiscovered, DeviceConnects, DevicePolled, DeviceDisconnected,
       Reply, Silent
<1>5. /\ Len(p) = Len(toDevice) - 1 /\ Len(p) \in Nat /\ Len(toDevice) \in Nat
      /\ \A i \in 1 .. Len(p) : p[i] = toDevice[i + 1] /\ i + 1 \in 1 .. Len(toDevice)
  BY <1>2 DEF Suffix
<1>6. fromDevice \in Seq(FromDevFrame) /\ Len(fromDevice) \in Nat
  BY DEF ConnectTypeOK
<1>7. Len(q) = Len(fromDevice) \/ Len(q) = Len(fromDevice) + 1
  BY <1>4, <1>6, PutShape
<1>8. OwnAnswersOnly'
  BY <1>1 DEF ConnectInv, OwnAnswersOnly
<1>9. Flushing'
  <2>1. Ahead' <= Ahead /\ Ahead' \in Nat /\ Ahead \in Nat
    BY <1>5, <1>6, <1>7 DEF Ahead
  <2>2. QED
    BY <1>1, <1>2, <2>1, StillFlushing DEF ConnectInv
<1>10. CASE pc \notin {"snrm", "up", "polling"}
  <2>1. pc' \in {"off", "slot", "final"} /\ (pc' # "off" => polls' = 0)
    BY <1>1, <1>10 DEF ConnectTypeOK, ConnectInv, Linked
  <2>2. QED
    BY <1>8, <1>9, <2>1, Elsewhere
<1>11. CASE pc \in {"snrm", "up", "polling"}
  <2> DEFINE Answered(g) ==
        \/ g.kind = "xid" /\ SameLink /\ dev'.polled = dev.polled
        \/ /\ f.kind = "snrm" /\ g.kind = "ua" /\ g.run = run
           /\ dev'.mode = "NRM" /\ dev'.conn = conn /\ dev'.run = run /\ ~dev'.polled
        \/ g.kind = "data" /\ g.run = run /\ SameLink /\ polls > 0
  <2>1. \/ fromDevice' = fromDevice /\ SameLink /\ dev'.polled = dev.polled
        \/ \E g \in FromDevFrame : fromDevice' = Put(fromDevice, g) /\ Answered(g)
    BY <1>1, <1>2, <1>3, <1>11, DeviceReply
  <2>2. \A i \in 1 .. Len(p) :
          \/ Discovery(p[i])
          \/ /\ p[i].kind \in {"snrm", "poll"} /\ p[i].run = run /\ p[i].conn = conn
             /\ p[i].kind = "poll" => polls > 0
    BY <1>5, <1>11 DEF ConnectInv, OwnFrames
  <2>3. conn \in random_caddr /\ conn # BroadcastAddress
    BY <1>11 DEF ConnectInv, OwnFrames, random_caddr
  <2>4. \A i \in 1 .. Len(fromDevice) :
          \/ fromDevice[i].kind = "xid"
          \/ fromDevice[i].run = run /\ (fromDevice[i].kind = "data" => polls > 0)
    BY <1>11 DEF ConnectInv, OwnFrames
  <2>5. polls \in Nat
    BY DEF ConnectTypeOK
  <2> PICK c : c = conn
    OBVIOUS
  <2>6. /\ Cardinality(Snrms(toDevice)) \in Nat /\ Cardinality(Snrms(p)) \in Nat
        /\ Cardinality(Snrms(p)) <= Cardinality(Snrms(toDevice))
        /\ f.kind = "snrm" => Cardinality(Snrms(p)) < Cardinality(Snrms(toDevice))
    <3>1. /\ Cardinality(Answers(p, c)) <= Cardinality(Answers(toDevice, c))
          /\ Cardinality(Snrms(toDevice)) \in Nat /\ Cardinality(Snrms(p)) \in Nat
          /\ Cardinality(Snrms(p)) <= Cardinality(Snrms(toDevice))
          /\ 1 > 0 /\ toDevice # <<>> /\ 1 \in 1 .. Len(toDevice) /\ toDevice[1].kind = "snrm"
             => Cardinality(Snrms(p)) < Cardinality(Snrms(toDevice))
      BY ONLY <1>2, SuffixCounts
    <3>2. QED
      BY <1>1, <1>2, <3>1
  <2>7. /\ Stale = Cardinality(Answers(fromDevice, c)) + Cardinality(Snrms(toDevice))
        /\ Stale' = Cardinality(Answers(q, c)) + Cardinality(Snrms(p))
    BY <1>1, StaleNow, StaleNext
  <2>8. SnrmTries \in Nat /\ tries \in Nat
    BY ConnectAssumption DEF ConnectAssumption, ConnectTypeOK
  <2>9. CASE fromDevice' = fromDevice /\ SameLink /\ dev'.polled = dev.polled
    <3>1. OwnFrames'
      BY <1>1, <2>2, <2>3, <2>4, <2>9 DEF OwnFrames, random_caddr
    <3>2. Linked'
      BY <1>1, <2>9 DEF ConnectInv, Linked, DevIsOurs, SameLink, Heard
    <3>3. Counted'
      <4>1. Cardinality(Answers(fromDevice, c)) \in Nat
        BY <1>6, SuffixSame, SuffixCounts
      <4>2. Stale' <= Stale /\ Stale' \in Nat /\ Stale \in Nat
        BY <2>6, <2>7, <2>9, <4>1
      <4>3. QED
        BY <1>1, <2>8, <4>2 DEF ConnectInv, Counted
    <3>4. QED
      BY <1>8, <1>9, <3>1, <3>2, <3>3 DEF ConnectInv
  <2>10. ASSUME NEW g \in FromDevFrame, fromDevice' = Put(fromDevice, g), Answered(g)
         PROVE  ConnectInv'
    <3>1. \A i \in 1 .. Len(q) : q[i] = g \/ (i \in 1 .. Len(fromDevice) /\ q[i] = fromDevice[i])
      <4>1. \/ Put(fromDevice, g) = fromDevice
            \/ /\ Len(Put(fromDevice, g)) = Len(fromDevice) + 1
               /\ \A i \in 1 .. Len(fromDevice) : Put(fromDevice, g)[i] = fromDevice[i]
               /\ Put(fromDevice, g)[Len(fromDevice) + 1] = g
        BY ONLY <1>6, <2>10, PutShape
      <4>2. q = Put(fromDevice, g)
        BY <2>10
      <4>3. CASE q = fromDevice
        BY <4>3
      <4>4. CASE /\ Len(q) = Len(fromDevice) + 1 /\ q[Len(fromDevice) + 1] = g
                 /\ \A i \in 1 .. Len(fromDevice) : q[i] = fromDevice[i]
        BY <1>6, <4>4
      <4>5. QED
        BY <4>1, <4>2, <4>3, <4>4
    <3>2. \A i \in 1 .. Len(q) :
            q[i].kind = "xid" \/ (q[i].run = run /\ (q[i].kind = "data" => polls > 0))
      BY <2>4, <2>10, <3>1
    <3>3. OwnFrames'
      BY <1>1, <2>2, <2>3, <3>2 DEF OwnFrames, random_caddr
    <3>4. Linked'
      <4>1. g.kind = "xid" => (Heard' => Heard)
        BY <3>1 DEF Heard
      <4>2. CASE g.kind = "xid" /\ SameLink /\ dev'.polled = dev.polled
        BY <1>1, <4>1, <4>2 DEF ConnectInv, Linked, DevIsOurs, SameLink
      <4>3. CASE dev'.mode = "NRM" /\ dev'.conn = conn /\ dev'.run = run /\ ~dev'.polled
        BY <1>1, <4>3 DEF ConnectInv, Linked, DevIsOurs
      <4>4. CASE SameLink /\ polls > 0
        <5>1. polls # 0
          BY <2>5, <4>4
        <5>2. QED
          BY <1>1, <4>4, <5>1 DEF ConnectInv, Linked, DevIsOurs, SameLink
      <4>5. QED
        BY <2>10, <4>2, <4>3, <4>4
    <3>5. Counted'
      <4>1. /\ Cardinality(Answers(fromDevice, c)) \in Nat /\ Cardinality(Answers(q, c)) \in Nat
            /\ Cardinality(Answers(q, c)) <= Cardinality(Answers(fromDevice, c)) + 1
            /\ g.conn # c => Cardinality(Answers(q, c)) = Cardinality(Answers(fromDevice, c))
        BY <1>6, <2>10, PutCounts
      <4>2. g.kind = "xid" => g.conn # c
        BY <2>3 DEF FromDevFrame
      <4>3. CASE g.kind = "xid" \/ f.kind = "snrm"
        <5>1. Stale' <= Stale /\ Stale' \in Nat /\ Stale \in Nat
          BY ONLY <2>6, <2>7, <4>1, <4>2, <4>3
        <5>2. QED
          BY <1>1, <2>8, <5>1 DEF ConnectInv, Counted
      <4>4. CASE polls > 0
        <5>1. polls # 0 /\ pc # "snrm"
          BY <2>5, <4>4 DEF ConnectInv, Linked
        <5>2. QED
          BY <1>1, <5>1 DEF Counted
      <4>5. QED
        BY <2>10, <4>3, <4>4
    <3>6. QED
      BY <1>8, <1>9, <3>3, <3>4, <3>5 DEF ConnectInv
  <2>11. QED
    BY <2>1, <2>9, <2>10
<1>12. QED
  BY <1>10, <1>11

-----------------------------------------------------------------------------
(* The theorems. *)

LEMMA ConsumersInv ==
  ASSUME ConnectTypeOK, ConnectTypeOK', ConnectInv,
         Collect \/ Ignore \/ Lose \/ UNCHANGED connectVars
  PROVE  ConnectInv'
<1>1. toDevice \in Seq(ToDevFrame) /\ fromDevice \in Seq(FromDevFrame)
  BY DEF ConnectTypeOK
<1>2. Suffix(toDevice, 0, toDevice) /\ Suffix(fromDevice, 0, fromDevice)
  BY <1>1, SuffixSame
<1>3. UNCHANGED <<run, pc, conn, tries, polls, dev, matched>>
  BY DEF Collect, Ignore, Lose, Quiet, connectVars, programVars
<1>4. CASE toDevice # <<>> /\ toDevice' = Tail(toDevice) /\ fromDevice' = fromDevice
  <2>1. Suffix(toDevice, 1, toDevice') /\ Suffix(fromDevice, 0, fromDevice')
    BY <1>1, <1>2, <1>4, SuffixTail
  <2>2. QED
    BY <1>3, <2>1, Consumes
<1>5. CASE fromDevice # <<>> /\ fromDevice' = Tail(fromDevice) /\ toDevice' = toDevice
  <2>1. Suffix(fromDevice, 1, fromDevice') /\ Suffix(toDevice, 0, toDevice')
    BY <1>1, <1>2, <1>5, SuffixTail
  <2>2. QED
    BY <1>3, <2>1, Consumes
<1>6. CASE toDevice' = toDevice /\ fromDevice' = fromDevice
  <2>1. Suffix(fromDevice, 0, fromDevice') /\ Suffix(toDevice, 0, toDevice')
    BY <1>2, <1>6
  <2>2. QED
    BY <1>3, <2>1, Consumes
<1>7. QED
  BY <1>4, <1>5, <1>6 DEF Collect, Ignore, Lose, Ready, connectVars

(* A device that has answered this run keeps the link through the run.     *)
LEMMA TimesOutInv ==
  ASSUME ConnectTypeOK, ConnectTypeOK', ConnectInv, DeviceTimesOut
  PROVE  ConnectInv'
<1>1. /\ UNCHANGED <<run, pc, conn, tries, polls, matched, toDevice, fromDevice>>
      /\ pc = "off" \/ dev.run # run
  BY DEF DeviceTimesOut, programVars
<1>2. OwnAnswersOnly' /\ Flushing' /\ OwnFrames' /\ Counted'
  <2>1. OwnAnswersOnly'
    BY <1>1 DEF ConnectInv, OwnAnswersOnly
  <2>2. Flushing'
    BY <1>1 DEF ConnectInv, Flushing, Ahead, Discovery
  <2>3. OwnFrames'
    BY <1>1 DEF ConnectInv, OwnFrames, Discovery, random_caddr
  <2>4. Counted'
    BY <1>1 DEF ConnectInv, Counted, Stale
  <2>5. QED
    BY <2>1, <2>2, <2>3, <2>4
<1>3. Heard' <=> Heard
  BY <1>1 DEF Heard
<1>4. Linked'
  BY <1>1, <1>3 DEF ConnectInv, Linked, DevIsOurs
<1>5. QED
  BY <1>2, <1>4 DEF ConnectInv

LEMMA NextInv ==
  ASSUME Behind <= 2, Capacity >= 4
  PROVE  ConnectTypeOK /\ ConnectInv /\ [ConnectNext]_connectVars => ConnectInv'
<1> SUFFICES ASSUME ConnectTypeOK, ConnectInv, [ConnectNext]_connectVars
             PROVE  ConnectInv'
  OBVIOUS
<1>1. ConnectTypeOK'
  BY NextTypes
<1>2. CASE Start
  BY <1>1, <1>2, StartInv
<1>3. CASE SlotCloses \/ NextPass
  BY <1>1, <1>3, DiscoveryInv
<1>4. CASE NoDevice \/ NoUa \/ Abort \/ Disconnect
  BY <1>1, <1>4, EndsInv
<1>5. CASE FirstSnrm \/ NextSnrm
  BY <1>1, <1>5, SnrmInv
<1>6. CASE Take
  BY <1>1, <1>6, TakeInv
<1>7. CASE Poll
  BY <1>1, <1>7, PollInv
<1>8. CASE Unanswered
  BY <1>1, <1>8, UnansweredInv
<1>9. CASE DeviceReads
  BY <1>1, <1>9, DeviceReadsInv
<1>10. CASE DeviceTimesOut
  BY <1>1, <1>10, TimesOutInv
<1>11. CASE Collect \/ Ignore \/ Lose \/ UNCHANGED connectVars
  BY <1>1, <1>11, ConsumersInv
<1>12. QED
  BY <1>2, <1>3, <1>4, <1>5, <1>6, <1>7, <1>8, <1>9, <1>10, <1>11 DEF ConnectNext, Connecting

(* Discovery pushes out what the runs before left under way, and the       *)
(* frames of the handshake are the only ones that carry the connection.    *)
THEOREM ConnectInvariant ==
  ASSUME Behind <= 2, Capacity >= 4
  PROVE  ConnectSpec => [](ConnectTypeOK /\ ConnectInv)
<1>1. ConnectInit => ConnectTypeOK /\ ConnectInv
  BY InitTypes, InitInv
<1>2. ConnectTypeOK /\ ConnectInv /\ [ConnectNext]_connectVars => (ConnectTypeOK /\ ConnectInv)'
  BY NextTypes, NextInv
<1>3. QED
  BY <1>1, <1>2, PTL DEF ConnectSpec

(* No run takes an answer to an earlier one for its own, even if both draw *)
(* the same connection address: the frames of an earlier run have left the *)
(* queues before the first SNRM.                                           *)
THEOREM ConnectOwnAnswers ==
  ASSUME Behind <= 2, Capacity >= 4
  PROVE  ConnectSpec => []OwnAnswersOnly
<1>1. ConnectInv => OwnAnswersOnly
  BY DEF ConnectInv
<1>2. QED
  BY <1>1, ConnectInvariant, PTL

(* When connect returns, the device is connected to this run and has not   *)
(* been polled, and only the answers to the SNRMs but one can still come:  *)
(* the initial state of IrlapLink, with MaxStaleUas = SnrmTries - 1.       *)
THEOREM ConnectFreshLink ==
  ASSUME Behind <= 2, Capacity >= 4
  PROVE  ConnectSpec => []HandsOverFreshLink
<1>1. ConnectTypeOK /\ ConnectInv => HandsOverFreshLink
  <2> SUFFICES ASSUME ConnectTypeOK, ConnectInv, pc = "up", polls = 0
               PROVE  /\ dev.mode = "NRM" /\ dev.conn = conn /\ dev.run = run /\ ~dev.polled
                      /\ \A i \in 1 .. Len(fromDevice) :
                           fromDevice[i].conn = conn =>
                             fromDevice[i].kind = "ua" /\ fromDevice[i].run = run
                      /\ Stale < SnrmTries
    BY DEF HandsOverFreshLink
  <2>1. DevIsOurs /\ Stale < SnrmTries
    BY DEF ConnectInv, Linked, Counted
  <2>2. ASSUME NEW i \in 1 .. Len(fromDevice), fromDevice[i].conn = conn
        PROVE  fromDevice[i].kind = "ua" /\ fromDevice[i].run = run
    <3>1. conn # BroadcastAddress
      BY DEF ConnectInv, OwnFrames, random_caddr
    <3>2. fromDevice[i] \in FromDevFrame
      BY DEF ConnectTypeOK
    <3>3. fromDevice[i].kind \in {"ua", "data"}
      BY <2>2, <3>1, <3>2 DEF FromDevFrame
    <3>4. fromDevice[i].run = run /\ (fromDevice[i].kind = "data" => polls > 0)
      BY <3>3 DEF ConnectInv, OwnFrames
    <3>5. QED
      BY <3>3, <3>4
  <2>3. QED
    BY <2>1, <2>2 DEF DevIsOurs
<1>2. QED
  BY <1>1, ConnectInvariant, PTL

-----------------------------------------------------------------------------
(* Why connect fails.  While the device is prompt, a window closes on two  *)
(* empty queues, so a pass or a try that failed was paid for with a frame. *)

Bounded ==
  /\ Ahead <= run /\ run <= MaxRuns /\ (pc # "off" => run > 0)
  /\ pc \in {"final", "snrm", "polling"} => Ahead <= 1
  /\ pc = "up" => Ahead = 0

(* The device reads the commands of the runs in the order of the runs.     *)
InOrder ==
  /\ dev.refused <= run
  /\ \A i \in 1 .. Len(toDevice) :
       /\ toDevice[i].run <= run
       /\ dev.refused = run => toDevice[i].run = run
       /\ \A j \in i .. Len(toDevice) : toDevice[i].run <= toDevice[j].run

(* What a pass, or a try, still has under way. *)
Asked  == \E i \in 1 .. Len(toDevice) : toDevice[i].kind = "xid" /\ toDevice[i].run = run
Told   == \E i \in 1 .. Len(fromDevice) : fromDevice[i].kind = "xid"
Called == \E i \in 1 .. Len(toDevice) : toDevice[i].kind = "snrm" /\ toDevice[i].conn = conn
Agreed == \E i \in 1 .. Len(fromDevice) : IsUa(fromDevice[i])

PassesPaid ==
  pc \in {"slot", "final"} /\ dev.refused # run =>
    lost >= pass - 1 /\ (found \/ lost >= pass \/ Asked \/ Told)
TriesPaid ==
  pc = "snrm" => lost >= tries - 1 /\ (lost >= tries \/ Called \/ Agreed)

Failed == pc = "off" /\ endings # <<>> /\ endings[Len(endings)] \in {"nodevice", "noua"}
FailurePaid ==
  Failed => toDevice = <<>> /\ (lost >= Passes \/ lost >= SnrmTries \/ dev.refused = run)

WhyInv == ~late => Bounded /\ InOrder /\ PassesPaid /\ TriesPaid /\ FailurePaid

EndingsOK == endings \in Seq({"nodevice", "noua", "disc", "error"})

LEMMA EndingsNext == EndingsOK /\ [ConnectNext]_connectVars => EndingsOK'
<1> SUFFICES ASSUME EndingsOK, [ConnectNext]_connectVars PROVE EndingsOK'
  OBVIOUS
<1>1. \/ endings' = endings
      \/ endings' = Append(endings, "nodevice") \/ endings' = Append(endings, "noua")
      \/ endings' = Append(endings, "disc") \/ endings' = Append(endings, "error")
  BY DEF ConnectNext, Connecting, connectVars, programVars, Start, Collect, SlotCloses, NextPass,
     NoDevice, FirstSnrm, NextSnrm, NoUa, Ignore, Take, Unanswered, Poll, Disconnect, Abort,
     DeviceReads, DeviceTimesOut, Lose
<1>2. \/ endings' = endings
      \/ \E e \in {"nodevice", "noua", "disc", "error"} : endings' = Append(endings, e)
  BY <1>1
<1>3. QED
  BY <1>2 DEF EndingsOK

LEMMA WhyInit == ConnectInit => WhyInv /\ EndingsOK
<1> SUFFICES ASSUME ConnectInit PROVE WhyInv /\ EndingsOK
  OBVIOUS
<1>1. MaxRuns \in Nat
  BY ConnectAssumption DEF ConnectAssumption
<1>2. Bounded
  BY <1>1 DEF ConnectInit, Bounded, Ahead
<1>3. InOrder
  BY DEF ConnectInit, InOrder
<1>4. QED
  BY <1>2, <1>3 DEF ConnectInit, WhyInv, PassesPaid, TriesPaid, FailurePaid, Failed, EndingsOK

(* Both queues are empty when a prompt device's window closes.             *)
LEMMA ClosedEmpty ==
  ASSUME ConnectTypeOK, Closes, ~late'
  PROVE  ~late /\ toDevice = <<>> /\ fromDevice = <<>> /\ Len(toDevice) = 0 /\ Len(fromDevice) = 0
<1>1. ~late /\ toDevice = <<>> /\ fromDevice = <<>>
  BY DEF Closes, ConnectTypeOK
<1>2. QED
  BY <1>1

(* A command put in an empty queue is alone there.                         *)
LEMMA SendsOne ==
  ASSUME ConnectTypeOK, NEW k \in Commands, NEW c \in Addresses, NEW r \in Nat, run' = r,
         SendTo(ToDev(k, c)), toDevice = <<>>
  PROVE  Len(toDevice') = 1 /\ toDevice'[1] = [kind |-> k, conn |-> c, run |-> r]
<1>1. Len(toDevice) = 0 /\ Len(toDevice) < Capacity
  BY ConnectAssumption DEF ConnectAssumption
<1>2. Len(toDevice') = Len(toDevice) + 1
      /\ toDevice'[Len(toDevice) + 1] = [kind |-> k, conn |-> c, run |-> r]
  BY <1>1, Sends
<1>3. QED
  BY <1>1, <1>2

(* The steps that close a window: both queues hold at most one command     *)
(* after them.                                                             *)
LEMMA WhyCloses ==
  ASSUME ConnectTypeOK, ConnectTypeOK', WhyInv, EndingsOK, ~late', Closes,
         SlotCloses \/ NextPass \/ NoDevice \/ FirstSnrm \/ NextSnrm \/ NoUa \/ Unanswered
  PROVE  WhyInv'
<1>1. /\ ~late /\ toDevice = <<>> /\ fromDevice = <<>>
      /\ Len(toDevice) = 0 /\ Len(fromDevice) = 0
  BY ClosedEmpty
<1>2. /\ Bounded /\ InOrder /\ PassesPaid /\ TriesPaid
      /\ run' = run /\ dev' = dev /\ lost' = lost /\ fromDevice' = fromDevice
      /\ ~Asked /\ ~Told /\ ~Called /\ ~Agreed
  BY <1>1 DEF WhyInv, SlotCloses, NextPass, NoDevice, FirstSnrm, NextSnrm, NoUa, Unanswered,
     Quiet, StartPass, Asked, Told, Called, Agreed
<1>3. /\ run \in Nat /\ dev.refused \in Nat /\ lost \in Nat /\ pass \in Nat /\ tries \in Nat
      /\ run <= MaxRuns /\ MaxRuns \in Nat /\ dev.refused <= run
      /\ Passes \in Nat /\ SnrmTries \in Nat
  BY <1>2, ConnectAssumption DEF ConnectTypeOK, Device, Bounded, InOrder, ConnectAssumption
<1>4. pc # "off" /\ run > 0
  BY <1>2 DEF SlotCloses, NextPass, NoDevice, FirstSnrm, NextSnrm, NoUa, Unanswered, Discovered,
     Bounded
<1>5. CASE SlotCloses \/ NextPass \/ FirstSnrm \/ NextSnrm
  <2>1. PICK k \in {"xid", "end", "snrm"}, c \in Addresses :
          /\ SendTo(ToDev(k, c)) /\ conn' \in Addresses
          /\ NextPass => k = "xid"
          /\ FirstSnrm \/ NextSnrm => k = "snrm" /\ c = conn'
    <3>1. BroadcastAddress \in Addresses /\ conn' \in Addresses
      BY DEF BroadcastAddress, Addresses, ConnectTypeOK
    <3>2. CASE SlotCloses /\ ~(NextPass \/ FirstSnrm \/ NextSnrm)
      BY <3>1, <3>2 DEF SlotCloses
    <3>3. CASE NextPass
      BY <3>1, <3>3 DEF NextPass, StartPass, FirstSnrm, NextSnrm
    <3>4. CASE FirstSnrm \/ NextSnrm
      BY <3>1, <3>4 DEF FirstSnrm, NextSnrm, NextPass, StartPass
    <3>5. QED
      BY <1>5, <3>2, <3>3, <3>4
  <2> PICK p : p = toDevice'
    OBVIOUS
  <2>2. k \in Commands
    BY DEF Commands
  <2>3. Len(p) = 1 /\ p[1] = [kind |-> k, conn |-> c, run |-> run]
    BY <1>1, <1>2, <1>3, <2>1, <2>2, SendsOne
  <2>4. Ahead' = 1
    BY <1>1, <1>2, <2>3 DEF Ahead
  <2>5. pc' \in {"slot", "final", "snrm"}
    BY <1>5 DEF SlotCloses, NextPass, StartPass, FirstSnrm, NextSnrm
  <2>6. Bounded'
    BY <1>2, <1>3, <1>4, <2>4, <2>5 DEF Bounded
  <2>7. InOrder'
    BY <1>2, <1>3, <2>3 DEF InOrder
  <2>8. PassesPaid'
    <3> SUFFICES ASSUME pc' \in {"slot", "final"}, dev.refused # run
                 PROVE  lost >= pass' - 1 /\ (found' \/ lost >= pass' \/ Asked')
      BY <1>2 DEF PassesPaid
    <3>1. pc \in {"slot", "final"} => lost >= pass - 1 /\ (found \/ lost >= pass)
      BY <1>2 DEF PassesPaid
    <3>2. CASE SlotCloses
      BY <3>1, <3>2 DEF SlotCloses
    <3>3. CASE NextPass
      <4>1. Asked'
        BY <1>2, <2>1, <2>3, <3>3 DEF Asked
      <4>2. pc = "final" /\ ~found /\ pass' = pass + 1
        BY <3>3 DEF NextPass, StartPass, CountPass
      <4>3. QED
        BY <1>3, <3>1, <4>1, <4>2
    <3>4. CASE FirstSnrm \/ NextSnrm
      BY <3>4 DEF FirstSnrm, NextSnrm
    <3>5. QED
      BY <1>5, <3>2, <3>3, <3>4
  <2>9. TriesPaid'
    <3> SUFFICES ASSUME pc' = "snrm"
                 PROVE  lost >= tries' - 1 /\ Called'
      BY <1>2 DEF TriesPaid
    <3>1. FirstSnrm \/ NextSnrm
      BY <1>5 DEF SlotCloses, NextPass, StartPass
    <3>2. Called'
      BY <2>1, <2>3, <3>1 DEF Called
    <3>3. CASE FirstSnrm
      BY <1>3, <3>2, <3>3 DEF FirstSnrm
    <3>4. CASE NextSnrm
      <4>1. lost >= tries /\ tries' = tries + 1
        BY <1>2, <3>4 DEF NextSnrm, TriesPaid
      <4>2. QED
        BY <1>3, <3>2, <4>1
    <3>5. QED
      BY <3>1, <3>3, <3>4
  <2>10. FailurePaid'
    BY <2>5 DEF FailurePaid, Failed
  <2>11. QED
    BY <2>6, <2>7, <2>8, <2>9, <2>10 DEF WhyInv
<1>6. CASE NoDevice \/ NoUa \/ Unanswered
  <2>1. toDevice' = <<>> /\ Len(toDevice') = 0 /\ pc' \in {"off", "up"}
    BY <1>1, <1>6 DEF NoDevice, NoUa, Unanswered
  <2>2. Ahead' = 0
    BY <1>1, <1>2, <2>1 DEF Ahead
  <2>3. Bounded'
    BY <1>2, <1>3, <1>4, <2>1, <2>2 DEF Bounded
  <2>4. InOrder'
    BY <1>2, <1>3, <2>1 DEF InOrder
  <2>5. PassesPaid' /\ TriesPaid'
    BY <2>1 DEF PassesPaid, TriesPaid
  <2>6. CASE NoDevice
    <3>1. dev.refused # run => lost >= pass
      BY <1>2, <2>6 DEF NoDevice, PassesPaid
    <3>2. pass >= Passes
      BY <1>3, <2>6 DEF NoDevice, MorePasses
    <3>3. dev.refused # run => lost >= Passes
      BY <1>3, <3>1, <3>2
    <3>4. QED
      BY <1>2, <2>1, <2>3, <2>4, <2>5, <3>3 DEF WhyInv, FailurePaid
  <2>7. CASE NoUa
    <3>1. lost >= tries
      BY <1>2, <2>7 DEF NoUa, TriesPaid
    <3>2. tries >= SnrmTries
      BY <1>3, <2>7 DEF NoUa, MoreSnrms
    <3>3. lost >= SnrmTries
      BY <1>3, <3>1, <3>2
    <3>4. QED
      BY <1>2, <2>1, <2>3, <2>4, <2>5, <3>3 DEF WhyInv, FailurePaid
  <2>8. CASE Unanswered
    <3>1. pc' = "up"
      BY <2>8 DEF Unanswered
    <3>2. QED
      BY <2>3, <2>4, <2>5, <3>1 DEF WhyInv, FailurePaid, Failed
  <2>9. QED
    BY <1>6, <2>6, <2>7, <2>8
<1>7. QED
  BY <1>5, <1>6

(* The command of the first pass is put behind what the runs before left. *)
LEMMA WhyStart ==
  ASSUME ConnectTypeOK, ConnectTypeOK', WhyInv, ~late, Start, Capacity >= MaxRuns
  PROVE  WhyInv'
<1>1. /\ run' = run + 1 /\ run < MaxRuns /\ pc' = "slot" /\ pass' = 1 /\ dev' = dev /\ lost' = lost
      /\ fromDevice' = fromDevice /\ SendTo(ToDev("xid", BroadcastAddress))
      /\ Bounded /\ InOrder
  BY DEF Start, StartPass, Quiet, WhyInv
<1> PICK p : p = toDevice'
  OBVIOUS
<1>2. /\ run \in Nat /\ dev.refused \in Nat /\ lost \in Nat /\ MaxRuns \in Nat /\ Capacity \in Nat
      /\ Len(toDevice) \in Nat /\ Len(fromDevice) \in Nat
      /\ Len(toDevice) + Len(fromDevice) <= run /\ dev.refused <= run
  BY <1>1, ConnectAssumption DEF ConnectTypeOK, Device, Bounded, InOrder, ConnectAssumption, Ahead
<1>3. Len(toDevice) < Capacity
  <2> PICK n, m : n = Len(toDevice) /\ m = Len(fromDevice)
    OBVIOUS
  <2>1. n < Capacity
    BY <1>1, <1>2
  <2>2. QED
    BY <2>1
<1>4. "xid" \in Commands /\ BroadcastAddress \in Addresses /\ run' \in Nat
  BY DEF Commands, BroadcastAddress, Addresses, ConnectTypeOK
<1>5. /\ Len(p) = Len(toDevice) + 1
      /\ \A i \in 1 .. Len(toDevice) : p[i] = toDevice[i]
      /\ p[Len(toDevice) + 1].kind = "xid" /\ p[Len(toDevice) + 1].run = run + 1
  <2> PICK r \in Nat : r = run'
    BY <1>4
  <2>1. /\ Len(p) = Len(toDevice) + 1
        /\ \A i \in 1 .. Len(toDevice) : p[i] = toDevice[i]
        /\ p[Len(toDevice) + 1] = [kind |-> "xid", conn |-> BroadcastAddress, run |-> r]
    BY <1>1, <1>3, <1>4, Sends
  <2>2. QED
    BY <1>1, <2>1
<1>6. \A i \in 1 .. Len(p) : i = Len(toDevice) + 1 \/ i \in 1 .. Len(toDevice)
  BY <1>2, <1>5
<1>7. Bounded'
  <2>1. Ahead' = Len(toDevice) + 1 + Len(fromDevice)
    BY <1>1, <1>2, <1>5 DEF Ahead
  <2>2. QED
    BY <1>1, <1>2, <2>1 DEF Bounded
<1>8. InOrder'
  <2>1. \A i \in 1 .. Len(toDevice) :
          /\ toDevice[i].run \in Nat /\ toDevice[i].run <= run
          /\ \A j \in i .. Len(toDevice) : toDevice[i].run <= toDevice[j].run
    <3>1. \A i \in 1 .. Len(toDevice) : toDevice[i] \in ToDevFrame
      BY DEF ConnectTypeOK
    <3>2. \A f \in ToDevFrame : f.run \in Nat
      BY DEF ToDevFrame
    <3>3. QED
      BY <1>1, <3>1, <3>2 DEF InOrder
  <2>2. ASSUME NEW i \in 1 .. Len(p), NEW j \in i .. Len(p)
        PROVE  p[i].run <= run + 1 /\ p[i].run <= p[j].run
    <3>1. p[i].run <= run + 1
      BY <1>2, <1>5, <1>6, <2>1
    <3>2. CASE j = Len(toDevice) + 1
      BY <1>5, <3>1, <3>2
    <3>3. CASE j # Len(toDevice) + 1
      <4>1. j \in i .. Len(toDevice) /\ i \in 1 .. Len(toDevice) /\ j \in 1 .. Len(toDevice)
        BY <1>2, <1>5, <2>2, <3>3
      <4>2. p[i] = toDevice[i] /\ p[j] = toDevice[j]
        BY <1>5, <4>1
      <4>3. toDevice[i].run <= toDevice[j].run
        BY <2>1, <4>1
      <4>4. QED
        BY <3>1, <4>2, <4>3
    <3>4. QED
      BY <3>1, <3>2, <3>3
  <2>3. dev.refused # run + 1 /\ dev.refused <= run + 1
    BY <1>2
  <2>4. \A i \in 1 .. Len(p) : i \in i .. Len(p)
    BY <1>2, <1>5
  <2>5. QED
    BY <1>1, <2>2, <2>3, <2>4 DEF InOrder
<1>9. PassesPaid'
  <2>1. Asked'
    <3>1. Len(toDevice) + 1 \in 1 .. Len(p)
      BY <1>2, <1>5
    <3>2. QED
      BY <1>1, <1>5, <3>1 DEF Asked
  <2>2. lost' >= pass' - 1
    BY <1>1, <1>2
  <2>3. QED
    BY <2>1, <2>2 DEF PassesPaid
<1>10. QED
  BY <1>1, <1>7, <1>8, <1>9 DEF WhyInv, TriesPaid, FailurePaid, Failed

(* A frame that somebody reads, or that the air loses, leaves the order    *)
(* and the bounds.                                                         *)
LEMMA WhyShorter ==
  ASSUME ConnectTypeOK, ConnectTypeOK', Bounded, InOrder,
         NEW m, NEW n, Suffix(toDevice, m, toDevice'), Suffix(fromDevice, n, fromDevice'),
         UNCHANGED <<run, pc, dev>>
  PROVE  Bounded' /\ InOrder'
<1> PICK p : p = toDevice'
  OBVIOUS
<1> PICK q : q = fromDevice'
  OBVIOUS
<1>1. /\ Len(p) \in Nat /\ Len(toDevice) \in Nat /\ m \in Nat /\ Len(p) = Len(toDevice) - m
      /\ \A i \in 1 .. Len(p) : p[i] = toDevice[i + m] /\ i + m \in 1 .. Len(toDevice)
      /\ Len(q) \in Nat /\ Len(fromDevice) \in Nat /\ n \in Nat /\ Len(q) = Len(fromDevice) - n
  BY DEF Suffix
<1>2. Bounded'
  <2>1. Ahead' <= Ahead /\ Ahead' \in Nat /\ Ahead \in Nat /\ run \in Nat
    BY <1>1 DEF Ahead, ConnectTypeOK
  <2>2. Ahead' <= run /\ (Ahead <= 1 => Ahead' <= 1) /\ (Ahead = 0 => Ahead' = 0)
    BY <2>1 DEF Bounded
  <2>3. QED
    BY <2>2 DEF Bounded
<1>3. InOrder'
  <2>1. \A i \in 1 .. Len(p) : \A j \in i .. Len(p) : j + m \in (i + m) .. Len(toDevice)
    BY <1>1
  <2>2. \A i \in 1 .. Len(p) : \A j \in i .. Len(p) : j \in 1 .. Len(p)
    BY <1>1
  <2>3. QED
    BY <1>1, <2>1, <2>2 DEF InOrder
<1>4. QED
  BY <1>2, <1>3

LEMMA WhyTaken ==
  ASSUME ConnectTypeOK, ConnectTypeOK', WhyInv, ~late,
         Collect \/ Ignore \/ Lose \/ UNCHANGED connectVars
  PROVE  WhyInv'
<1>1. /\ Bounded /\ InOrder /\ PassesPaid /\ TriesPaid /\ FailurePaid
      /\ UNCHANGED <<run, pc, conn, dev, pass, tries, endings>>
  BY DEF WhyInv, Collect, Ignore, Lose, Quiet, connectVars, programVars
<1>2. toDevice \in Seq(ToDevFrame) /\ fromDevice \in Seq(FromDevFrame)
  BY DEF ConnectTypeOK
<1>3. Suffix(toDevice, 0, toDevice) /\ Suffix(fromDevice, 0, fromDevice)
  BY <1>2, SuffixSame
<1>4. lost \in Nat /\ pass \in Nat /\ tries \in Nat
  BY DEF ConnectTypeOK
<1>5. CASE UNCHANGED connectVars
  <2>1. Bounded' /\ InOrder'
    <3>1. toDevice' = toDevice /\ fromDevice' = fromDevice
      BY <1>5 DEF connectVars
    <3>2. QED
      BY <1>1, <1>3, <3>1, WhyShorter
  <2>2. QED
    BY <1>1, <1>5, <2>1 DEF connectVars, programVars, WhyInv, PassesPaid, TriesPaid, FailurePaid,
       Failed, Asked, Told, Called, Agreed, IsUa, ForUs
<1>6. CASE Lose
  <2>1. /\ lost' = lost + 1
        /\ \/ toDevice # <<>> /\ toDevice' = Tail(toDevice) /\ fromDevice' = fromDevice
           \/ fromDevice # <<>> /\ fromDevice' = Tail(fromDevice) /\ toDevice' = toDevice
    BY <1>6 DEF Lose
  <2>2. Bounded' /\ InOrder'
    <3>1. CASE toDevice # <<>> /\ toDevice' = Tail(toDevice) /\ fromDevice' = fromDevice
      <4>1. Suffix(toDevice, 1, toDevice') /\ Suffix(fromDevice, 0, fromDevice')
        BY <1>2, <1>3, <3>1, SuffixTail
      <4>2. QED
        BY <1>1, <4>1, WhyShorter
    <3>2. CASE fromDevice # <<>> /\ fromDevice' = Tail(fromDevice) /\ toDevice' = toDevice
      <4>1. Suffix(toDevice, 0, toDevice') /\ Suffix(fromDevice, 1, fromDevice')
        BY <1>2, <1>3, <3>2, SuffixTail
      <4>2. QED
        BY <1>1, <4>1, WhyShorter
    <3>3. QED
      BY <2>1, <3>1, <3>2
  <2>3. PassesPaid'
    BY <1>1, <1>4, <2>1 DEF PassesPaid
  <2>4. TriesPaid'
    BY <1>1, <1>4, <2>1 DEF TriesPaid
  <2>5. FailurePaid'
    <3>1. toDevice = <<>> => toDevice' = <<>>
      BY <2>1
    <3>2. Passes \in Nat /\ SnrmTries \in Nat
      BY ConnectAssumption DEF ConnectAssumption
    <3>3. (lost >= Passes => lost' >= Passes) /\ (lost >= SnrmTries => lost' >= SnrmTries)
      BY <1>4, <2>1, <3>2
    <3>4. QED
      BY <1>1, <3>1, <3>3 DEF FailurePaid, Failed
  <2>6. QED
    BY <2>2, <2>3, <2>4, <2>5 DEF WhyInv
<1>7. CASE Collect \/ Ignore
  <2>1. /\ fromDevice # <<>> /\ fromDevice' = Tail(fromDevice) /\ toDevice' = toDevice
        /\ lost' = lost /\ pc \in {"slot", "final", "snrm", "polling"}
    BY <1>7 DEF Collect, Ignore, Ready, Quiet
  <2> PICK q : q = fromDevice'
    OBVIOUS
  <2>2. /\ Head(fromDevice) = fromDevice[1] /\ Len(fromDevice) \in Nat /\ Len(q) = Len(fromDevice) - 1
        /\ \A i \in 1 .. Len(q) : q[i] = fromDevice[i + 1]
    BY <1>2, <2>1, TailShape
  <2>3. Suffix(toDevice, 0, toDevice') /\ Suffix(fromDevice, 1, fromDevice')
    BY <1>2, <1>3, <2>1, SuffixTail
  <2>4. Bounded' /\ InOrder'
    BY <1>1, <2>3, WhyShorter
  <2>5. \A i \in 1 .. Len(fromDevice) : i = 1 \/ (i - 1 \in 1 .. Len(q) /\ q[i - 1] = fromDevice[i])
    BY <2>2
  <2>6. PassesPaid'
    <3> SUFFICES ASSUME pc \in {"slot", "final"}, dev.refused # run
                 PROVE  lost >= pass - 1 /\ (found' \/ lost >= pass \/ Asked' \/ Told')
      BY <1>1, <2>1 DEF PassesPaid
    <3>1. lost >= pass - 1 /\ (found \/ lost >= pass \/ Asked \/ Told)
      BY <1>1 DEF PassesPaid
    <3>2. found' = (found \/ fromDevice[1].kind = "xid")
      BY <1>7, <2>2 DEF Collect, Ignore
    <3>3. Asked => Asked'
      BY <1>1, <2>1 DEF Asked
    <3>4. Told => fromDevice[1].kind = "xid" \/ Told'
      BY <2>5 DEF Told
    <3>5. QED
      BY <3>1, <3>2, <3>3, <3>4
  <2>7. TriesPaid'
    <3> SUFFICES ASSUME pc = "snrm"
                 PROVE  lost >= tries - 1 /\ (lost >= tries \/ Called' \/ Agreed')
      BY <1>1, <2>1 DEF TriesPaid
    <3>1. lost >= tries - 1 /\ (lost >= tries \/ Called \/ Agreed)
      BY <1>1 DEF TriesPaid
    <3>2. ~IsUa(fromDevice[1])
      BY <1>7, <2>2 DEF Collect, Ignore
    <3>3. Called => Called'
      BY <1>1, <2>1 DEF Called
    <3>4. Agreed => Agreed'
      BY <1>1, <2>5, <3>2 DEF Agreed, IsUa, ForUs
    <3>5. QED
      BY <3>1, <3>3, <3>4
  <2>8. FailurePaid'
    BY <1>1, <2>1 DEF FailurePaid, Failed
  <2>9. QED
    BY <2>4, <2>6, <2>7, <2>8 DEF WhyInv
<1>8. QED
  BY <1>5, <1>6, <1>7

(* A link that stands, or a run that ends otherwise, owes nothing.         *)
LEMMA WhyLink ==
  ASSUME ConnectTypeOK, ConnectTypeOK', WhyInv, EndingsOK, ~late,
         Take \/ Poll \/ Disconnect \/ Abort
  PROVE  WhyInv'
<1>1. /\ Bounded /\ InOrder
      /\ UNCHANGED <<run, dev, lost>> /\ pc' \in {"up", "polling", "off"} /\ pc # "off"
  BY DEF WhyInv, Take, Poll, Disconnect, Abort, Quiet
<1>2. run > 0
  BY <1>1 DEF Bounded
<1>3. /\ run \in Nat /\ Len(toDevice) \in Nat /\ Len(fromDevice) \in Nat
      /\ toDevice \in Seq(ToDevFrame) /\ fromDevice \in Seq(FromDevFrame)
  BY DEF ConnectTypeOK
<1>4. ~Failed'
  <2>1. CASE Take \/ Poll
    BY <2>1 DEF Take, Poll, Failed
  <2>2. CASE Disconnect \/ Abort
    <3>1. PICK e \in {"disc", "error"} : endings' = Append(endings, e)
      BY <2>2 DEF Disconnect, Abort
    <3>2. endings'[Len(endings')] = e
      BY <3>1 DEF EndingsOK
    <3>3. QED
      BY <3>1, <3>2 DEF Failed
  <2>3. QED
    BY <2>1, <2>2
<1>5. PassesPaid' /\ TriesPaid' /\ FailurePaid'
  BY <1>1, <1>4 DEF PassesPaid, TriesPaid, FailurePaid
<1>6. CASE Take
  <2>1. PICK n \in 1 .. Len(fromDevice) : fromDevice' = Drop(fromDevice, n)
    BY <1>6 DEF Take
  <2>2. pc \in {"snrm", "polling"} /\ pc' = "up" /\ toDevice' = toDevice
    BY <1>6 DEF Take
  <2>3. Len(toDevice) + Len(fromDevice) <= 1
    BY <1>1, <2>2 DEF Bounded, Ahead
  <2>4. Len(toDevice) = 0 /\ Len(fromDevice) = 1 /\ n = 1
    <3> PICK a \in Nat, b \in Nat : a = Len(toDevice) /\ b = Len(fromDevice)
      BY <1>3
    <3>1. a + b <= 1 /\ n \in 1 .. b
      BY <2>3
    <3>2. a = 0 /\ b = 1 /\ n = 1
      BY ONLY <3>1, a \in Nat, b \in Nat
    <3>3. QED
      BY <3>2
  <2>5. Len(fromDevice') = 0
    BY <1>3, <2>1, <2>4, DropShape
  <2>6. Ahead' = 0
    BY <2>2, <2>4, <2>5 DEF Ahead
  <2>7. Bounded'
    BY <1>1, <1>2, <1>3, <2>2, <2>6 DEF Bounded
  <2>8. InOrder'
    BY <1>1, <2>2 DEF InOrder
  <2>9. QED
    BY <1>5, <2>7, <2>8 DEF WhyInv
<1>7. CASE Poll \/ Disconnect
  <2>1. /\ pc = "up" /\ pc' \in {"polling", "off"} /\ fromDevice' = fromDevice
        /\ \E k \in {"poll", "disc"} : SendTo(ToDev(k, conn))
    BY <1>7 DEF Poll, Disconnect
  <2>2. Len(toDevice) + Len(fromDevice) = 0
    BY <1>1, <2>1 DEF Bounded, Ahead
  <2>3. Len(toDevice) = 0 /\ Len(fromDevice) = 0
    BY <1>3, <2>2
  <2>4. toDevice = <<>>
    BY <1>3, <2>3
  <2>5. conn \in Addresses
    BY DEF ConnectTypeOK
  <2>6. PICK k \in {"poll", "disc"} : SendTo(ToDev(k, conn))
    BY <2>1
  <2>7. k \in Commands /\ run' = run
    BY <1>1 DEF Commands
  <2>8. Len(toDevice') = 1 /\ toDevice'[1].run = run
    <3> PICK r \in Nat : r = run
      BY <1>3
    <3>1. Len(toDevice') = 1 /\ toDevice'[1] = [kind |-> k, conn |-> conn, run |-> r]
      BY <2>4, <2>5, <2>6, <2>7, SendsOne
    <3>2. QED
      BY <3>1
  <2>9. Ahead' = 1
    BY <2>1, <2>3, <2>8 DEF Ahead
  <2>10. Bounded'
    BY <1>1, <1>2, <1>3, <2>1, <2>9 DEF Bounded
  <2>11. InOrder'
    BY <1>1, <1>3, <2>8 DEF InOrder
  <2>12. QED
    BY <1>5, <2>10, <2>11 DEF WhyInv
<1>8. CASE Abort
  <2>1. pc' = "off" /\ toDevice' = toDevice /\ fromDevice' = fromDevice
    BY <1>8 DEF Abort
  <2>2. Bounded' /\ InOrder'
    BY <1>1, <2>1 DEF Bounded, InOrder, Ahead
  <2>3. QED
    BY <1>5, <2>2 DEF WhyInv
<1>9. QED
  BY <1>6, <1>7, <1>8

(* A frame put in a queue with room is in it, behind all that was. *)
LEMMA PutThere ==
  ASSUME NEW T, NEW q \in Seq(T), NEW f \in T, Len(q) < Capacity
  PROVE  /\ Len(Put(q, f)) = Len(q) + 1 /\ Len(q) + 1 \in 1 .. Len(Put(q, f))
         /\ \A i \in 1 .. Len(q) : i \in 1 .. Len(Put(q, f)) /\ Put(q, f)[i] = q[i]
         /\ Put(q, f)[Len(q) + 1] = f
<1>1. ~(Len(q) >= Capacity) /\ Len(q) \in Nat
  BY ConnectAssumption DEF ConnectAssumption
<1>2. /\ Len(Put(q, f)) = Len(q) + 1 /\ Put(q, f)[Len(q) + 1] = f
      /\ \A i \in 1 .. Len(q) : Put(q, f)[i] = q[i]
  BY ONLY <1>1, PutShape
<1>3. QED
  BY <1>1, <1>2

(* The device answers a discovery command unless it is connected, and then *)
(* it has refused; an SNRM it always answers.                              *)
LEMMA WhyDevice ==
  ASSUME ConnectTypeOK, ConnectTypeOK', WhyInv, ~late, DeviceReads,
         AnswersAgain, Capacity >= MaxRuns
  PROVE  WhyInv'
<1>1. /\ Bounded /\ InOrder /\ PassesPaid /\ TriesPaid /\ FailurePaid
      /\ toDevice # <<>> /\ toDevice' = Tail(toDevice)
      /\ UNCHANGED <<run, pc, conn, pass, found, tries, endings, lost>>
  BY DEF WhyInv, DeviceReads, programVars
<1>2. /\ toDevice \in Seq(ToDevFrame) /\ fromDevice \in Seq(FromDevFrame)
      /\ Len(fromDevice) \in Nat /\ run \in Nat /\ MaxRuns \in Nat /\ Capacity \in Nat
      /\ dev \in Device /\ dev.refused \in Nat
  BY ConnectAssumption DEF ConnectAssumption, ConnectTypeOK, Device
<1> PICK p : p = toDevice'
  OBVIOUS
<1> PICK q : q = fromDevice'
  OBVIOUS
<1>3. /\ Head(toDevice) = toDevice[1] /\ 1 \in 1 .. Len(toDevice) /\ toDevice[1] \in ToDevFrame
      /\ Len(p) = Len(toDevice) - 1 /\ Len(toDevice) \in Nat /\ Len(p) \in Nat
      /\ \A i \in 1 .. Len(p) : p[i] = toDevice[i + 1] /\ i + 1 \in 1 .. Len(toDevice)
  BY <1>1, <1>2, TailShape
<1> PICK f \in ToDevFrame : f = toDevice[1]
  BY <1>3
<1>4. DeviceDiscovered(f) \/ DeviceConnects(f) \/ DevicePolled(f) \/ DeviceDisconnected(f)
  BY <1>3 DEF DeviceReads
<1>5. f.run \in Nat /\ f.conn \in Addresses /\ dev.run \in Nat /\ f.run <= run
  BY <1>1, <1>2, <1>3 DEF ToDevFrame, Device, InOrder
<1>6. /\ FromDev("ua", f.conn, f.run) \in FromDevFrame
      /\ FromDev("ua", f.conn, dev.run) \in FromDevFrame
      /\ FromDev("data", f.conn, dev.run) \in FromDevFrame
      /\ FromDev("xid", BroadcastAddress, f.run) \in FromDevFrame
  BY <1>5, FrameTypes
<1>7. q = fromDevice \/ \E g \in FromDevFrame : q = Put(fromDevice, g)
  BY <1>4, <1>6 DEF DeviceDiscovered, DeviceConnects, DevicePolled, DeviceDisconnected,
     Reply, Silent
<1>8. Len(fromDevice) < Capacity
  <2>1. Len(toDevice) + Len(fromDevice) <= run /\ run <= MaxRuns /\ Len(toDevice) >= 1
    BY <1>1, <1>3 DEF Bounded, Ahead
  <2> PICK n, m : n = Len(toDevice) /\ m = Len(fromDevice)
    OBVIOUS
  <2>2. m < Capacity
    BY <1>2, <1>3, <2>1
  <2>3. QED
    BY <2>2
<1>9. \A g \in FromDevFrame : q = Put(fromDevice, g) =>
        /\ Len(q) = Len(fromDevice) + 1 /\ q[Len(fromDevice) + 1] = g
        /\ Len(fromDevice) + 1 \in 1 .. Len(q)
        /\ \A i \in 1 .. Len(fromDevice) : i \in 1 .. Len(q) /\ q[i] = fromDevice[i]
  BY <1>2, <1>8, PutThere
<1>10. /\ Len(q) = Len(fromDevice) \/ Len(q) = Len(fromDevice) + 1
       /\ \A i \in 1 .. Len(fromDevice) : i \in 1 .. Len(q) /\ q[i] = fromDevice[i]
  BY <1>7, <1>9
<1>11. Bounded'
  <2>1. Ahead' <= Ahead /\ Ahead' \in Nat /\ Ahead \in Nat
    BY <1>2, <1>3, <1>10 DEF Ahead
  <2>2. Ahead' <= run /\ (Ahead <= 1 => Ahead' <= 1) /\ (Ahead = 0 => Ahead' = 0)
    BY <1>1, <1>2, <2>1 DEF Bounded
  <2>3. QED
    BY <1>1, <2>2 DEF Bounded
<1>12. dev'.refused = dev.refused \/ (f.kind = "xid" /\ dev'.refused = f.run)
  BY <1>2, <1>4 DEF DeviceDiscovered, DeviceConnects, DevicePolled, DeviceDisconnected, Device
<1>13. \A i \in 1 .. Len(p) : f.run <= p[i].run /\ p[i].run <= run /\ p[i].run \in Nat
  <2> SUFFICES ASSUME NEW i \in 1 .. Len(p)
               PROVE  f.run <= p[i].run /\ p[i].run <= run /\ p[i].run \in Nat
    OBVIOUS
  <2>1. p[i] = toDevice[i + 1] /\ i + 1 \in 1 .. Len(toDevice) /\ i + 1 \in 1 .. Len(toDevice)
    BY <1>3
  <2>2. toDevice[i + 1] \in ToDevFrame
    BY <1>2, <2>1
  <2>3. f.run <= toDevice[i + 1].run /\ toDevice[i + 1].run <= run
    BY <1>1, <1>3, <2>1 DEF InOrder
  <2>4. QED
    BY <2>1, <2>2, <2>3 DEF ToDevFrame
<1>14. InOrder'
  <2>1. dev'.refused <= run
    BY <1>1, <1>5, <1>12 DEF InOrder
  <2>2. ASSUME NEW i \in 1 .. Len(p), dev'.refused = run
        PROVE  p[i].run = run
    <3>1. CASE dev'.refused = dev.refused
      BY <1>1, <1>3, <2>2, <3>1 DEF InOrder
    <3>2. CASE dev'.refused = f.run
      BY <1>2, <1>5, <1>13, <2>2, <3>2
    <3>3. QED
      BY <1>12, <3>1, <3>2
  <2>3. ASSUME NEW i \in 1 .. Len(p), NEW j \in i .. Len(p)
        PROVE  p[i].run <= p[j].run
    <3>1. i + 1 \in 1 .. Len(toDevice) /\ j + 1 \in (i + 1) .. Len(toDevice) /\ j \in 1 .. Len(p)
      BY <1>3, <2>3
    <3>2. p[i] = toDevice[i + 1] /\ p[j] = toDevice[j + 1]
      BY <1>3, <3>1
    <3>3. QED
      BY <1>1, <3>1, <3>2 DEF InOrder
  <2>4. QED
    BY <1>1, <1>13, <2>1, <2>2, <2>3 DEF InOrder
<1>15. \A i \in 1 .. Len(toDevice) : i = 1 \/ (i - 1 \in 1 .. Len(p) /\ p[i - 1] = toDevice[i])
  BY <1>3
<1>16. Told => Told'
  BY <1>10 DEF Told
<1>17. PassesPaid'
  <2> SUFFICES ASSUME pc \in {"slot", "final"}, dev'.refused # run
               PROVE  lost >= pass - 1 /\ (found \/ lost >= pass \/ Asked' \/ Told')
    BY <1>1 DEF PassesPaid
  <2>1. CASE dev.refused = run
    <3>1. f.run = run
      BY <1>1, <1>3, <2>1 DEF InOrder
    <3>2. QED
      BY <1>12, <2>1, <3>1
  <2>2. CASE dev.refused # run
    <3>1. lost >= pass - 1 /\ (found \/ lost >= pass \/ Asked \/ Told)
      BY <1>1, <2>2 DEF PassesPaid
    <3>2. CASE f.kind = "xid" /\ f.run = run
      <4>1. DeviceDiscovered(f)
        BY <1>4, <3>2 DEF DeviceConnects, DevicePolled, DeviceDisconnected
      <4>2. dev.mode = "NDM"
        BY <1>2, <3>2, <4>1 DEF DeviceDiscovered, Device
      <4>3. q = Put(fromDevice, FromDev("xid", BroadcastAddress, f.run))
        BY <3>2, <4>1, <4>2 DEF DeviceDiscovered, Reply
      <4>4. q[Len(fromDevice) + 1].kind = "xid" /\ Len(fromDevice) + 1 \in 1 .. Len(q)
        BY <1>6, <1>9, <4>3 DEF FromDev
      <4>5. Told'
        BY <4>4 DEF Told
      <4>6. QED
        BY <3>1, <4>5
    <3>3. CASE ~(f.kind = "xid" /\ f.run = run)
      <4>1. Asked => Asked'
        BY <1>1, <1>15, <3>3 DEF Asked
      <4>2. QED
        BY <1>16, <3>1, <4>1
    <3>4. QED
      BY <3>2, <3>3
  <2>3. QED
    BY <2>1, <2>2
<1>18. TriesPaid'
  <2> SUFFICES ASSUME pc = "snrm"
               PROVE  lost >= tries - 1 /\ (lost >= tries \/ Called' \/ Agreed')
    BY <1>1 DEF TriesPaid
  <2>1. lost >= tries - 1 /\ (lost >= tries \/ Called \/ Agreed)
    BY <1>1 DEF TriesPaid
  <2>2. Agreed => Agreed'
    BY <1>1, <1>10 DEF Agreed, IsUa, ForUs
  <2>3. CASE f.kind = "snrm" /\ f.conn = conn
    <3>1. DeviceConnects(f)
      BY <1>4, <2>3 DEF DeviceDiscovered, DevicePolled, DeviceDisconnected
    <3>2. q = Put(fromDevice, FromDev("ua", f.conn, f.run))
      BY <3>1 DEF DeviceConnects, Reply
    <3>3. /\ q[Len(fromDevice) + 1].kind = "ua" /\ q[Len(fromDevice) + 1].conn = conn
          /\ Len(fromDevice) + 1 \in 1 .. Len(q)
      BY <1>6, <1>9, <2>3, <3>2 DEF FromDev
    <3>4. Agreed'
      BY <1>1, <3>3 DEF Agreed, IsUa, ForUs
    <3>5. QED
      BY <2>1, <3>4
  <2>4. CASE ~(f.kind = "snrm" /\ f.conn = conn)
    <3>1. Called => Called'
      BY <1>1, <1>15, <2>4 DEF Called
    <3>2. QED
      BY <2>1, <2>2, <3>1
  <2>5. QED
    BY <2>3, <2>4
<1>19. FailurePaid'
  BY <1>1 DEF FailurePaid, Failed
<1>20. QED
  BY <1>11, <1>14, <1>17, <1>18, <1>19 DEF WhyInv

LEMMA WhyNext ==
  ASSUME AnswersAgain, Capacity >= MaxRuns
  PROVE  ConnectTypeOK /\ EndingsOK /\ WhyInv /\ [ConnectNext]_connectVars => WhyInv'
<1> SUFFICES ASSUME ConnectTypeOK, EndingsOK, WhyInv, [ConnectNext]_connectVars, ~late'
             PROVE  WhyInv'
  BY DEF WhyInv
<1>1. ConnectTypeOK'
  BY NextTypes
<1>2. CASE SlotCloses \/ NextPass \/ NoDevice \/ FirstSnrm \/ NextSnrm \/ NoUa \/ Unanswered
  <2>1. Closes
    BY <1>2 DEF SlotCloses, NextPass, NoDevice, FirstSnrm, NextSnrm, NoUa, Unanswered
  <2>2. QED
    BY <1>1, <1>2, <2>1, WhyCloses
<1>3. CASE Start \/ Collect \/ Ignore \/ Take \/ Poll \/ Disconnect \/ Abort
           \/ DeviceReads \/ DeviceTimesOut \/ Lose \/ UNCHANGED connectVars
  <2>1. ~late
    BY <1>3 DEF Start, Collect, Ignore, Take, Poll, Disconnect, Abort, DeviceReads,
       DeviceTimesOut, Lose, Ready, programVars, connectVars
  <2>2. CASE Start
    BY <1>1, <2>1, <2>2, WhyStart
  <2>3. CASE Collect \/ Ignore \/ Lose \/ UNCHANGED connectVars
    BY <1>1, <2>1, <2>3, WhyTaken
  <2>4. CASE Take \/ Poll \/ Disconnect \/ Abort
    BY <1>1, <2>1, <2>4, WhyLink
  <2>5. CASE DeviceReads
    BY <1>1, <2>1, <2>5, WhyDevice
  <2>6. CASE DeviceTimesOut
    <3>1. /\ dev'.refused = dev.refused
          /\ UNCHANGED <<run, pc, conn, pass, found, tries, endings, lost, late>>
          /\ UNCHANGED <<toDevice, fromDevice>>
      BY <2>6 DEF DeviceTimesOut, programVars, ConnectTypeOK, Device
    <3>2. /\ Asked' <=> Asked
          /\ Told' <=> Told
          /\ Called' <=> Called
          /\ Agreed' <=> Agreed
      BY <3>1 DEF Asked, Told, Called, Agreed, IsUa, ForUs
    <3>3. QED
      BY <3>1, <3>2 DEF WhyInv, Bounded, Ahead, InOrder, PassesPaid, TriesPaid, FailurePaid, Failed
  <2>7. QED
    BY <1>3, <2>2, <2>3, <2>4, <2>5, <2>6
<1>4. QED
  BY <1>2, <1>3 DEF ConnectNext, Connecting

(* While the device is prompt, and answers a repeated SNRM, connect fails  *)
(* for want of a device or of its UA only if as many frames were lost as   *)
(* there are passes or tries, or if the device refused the discovery of    *)
(* this run.  The queues hold a frame of every run that was killed.        *)
THEOREM ConnectFailsForAReason ==
  ASSUME AnswersAgain, Capacity >= MaxRuns
  PROVE  ConnectSpec => []FailsOnlyIfRefused
<1>1. ConnectInit => ConnectTypeOK /\ EndingsOK /\ WhyInv
  BY InitTypes, WhyInit
<1>2. ConnectTypeOK /\ EndingsOK /\ WhyInv /\ [ConnectNext]_connectVars
      => (ConnectTypeOK /\ EndingsOK /\ WhyInv)'
  BY NextTypes, EndingsNext, WhyNext
<1>3. ConnectTypeOK /\ EndingsOK /\ WhyInv => FailsOnlyIfRefused
  <2>1. ConnectTypeOK => lost \in Nat /\ Passes \in Nat /\ SnrmTries \in Nat
    BY ConnectAssumption DEF ConnectTypeOK, ConnectAssumption
  <2>2. QED
    BY <2>1 DEF WhyInv, FailurePaid, Failed, FailsOnlyIfRefused
<1>4. QED
  BY <1>1, <1>2, <1>3, PTL DEF ConnectSpec
=============================================================================
