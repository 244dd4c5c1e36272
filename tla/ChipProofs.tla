---------------------------- MODULE ChipProofs ----------------------------
(***************************************************************************)
(* The chip under any sequence of runs, for every speed, power, revision   *)
(* and timing: the proofs of ReadyMeansSet, ClockChangesInReset,           *)
(* VerdictTrue and PromptIsHeard of Chip.                                  *)
(***************************************************************************)
EXTENDS Chip, TLAPS

TalkType == [frame : Nat, window : Nat, answer : Nat, left : Nat,
             blind : BOOLEAN, missed : BOOLEAN]

ChipTypeOK ==
  /\ pc \in {"off", "setup", "ready", "reading", "draining", "listening"}
  /\ regs \in [Reg -> Int] /\ deaf \in Deaf
  /\ speed \in Int /\ done \in Nat
  /\ all_ok \in BOOLEAN /\ unread \in BOOLEAN /\ verdict \in {"none", "ok", "partial"}
  /\ fifo \in Nat /\ clock \in Nat /\ talk \in TalkType

Clocked == pdclk_for(speed)
On      == 2 * (Power % 4)
Right(reg) == Masked(reg, regs[reg]) = Expected(reg)
CTRL2OK == Masked("CTRL2", regs["CTRL2"]) = 32 * (Sensitivity % 8)

(* How far the writes have come: each register written so far holds what   *)
(* this run wants, CTRL1 what the last write to it put there.              *)
Progress ==
  pc = "setup" =>
    /\ done \in 0 .. 6
    /\ done \in 1 .. 4 => regs["CTRL1"] = SRESET
    /\ done = 6 => regs["CTRL1"] = On
    /\ done >= 2 => regs["DPLL"] = 21
    /\ done >= 3 /\ "PDCLK" \notin deaf => regs["PDCLK"] = pdclk_for(speed)
    /\ done >= 4 /\ "MODE" \notin deaf => regs["MODE"] = mode_for(speed)

(* run_init has compared the first "done" of the registers.                *)
Compared ==
  pc = "reading" =>
    /\ done \in 0 .. 3
    /\ unread => ~all_ok
    /\ ~unread => (all_ok <=> /\ done >= 1 => Right("PDCLK")
                              /\ done >= 2 => Right("MODE")
                              /\ done >= 3 => Right("CTRL2"))

(* The clock of an exchange against what is left of its frame and answer.  *)
Timed ==
  /\ pc \notin {"draining", "listening"} => fifo = 0
  /\ pc \in {"draining", "listening"} =>
       /\ talk.frame <= talk.window /\ ~talk.missed
       /\ talk.left <= talk.answer /\ (fifo > 0 => talk.left = talk.answer)
  /\ pc = "draining" => clock <= DrainTicks /\ clock + fifo = talk.frame /\ ~talk.blind
                          /\ talk.left = talk.answer
  /\ pc = "listening" =>
       /\ clock + fifo + talk.left - talk.answer <= Overrun
       /\ clock + fifo + talk.left >= talk.answer
  /\ talk.missed => talk.answer > talk.window - Overrun

ChipInv == ChipTypeOK /\ ReadyMeansSet /\ Progress /\ Compared /\ Timed

-----------------------------------------------------------------------------
(* What the chip keeps of a write to CTRL2 has the bits that were written. *)
LEMMA SensitivityKept ==
  /\ Masked("CTRL2", Stored("CTRL2", 32 * (Sensitivity % 8))) = 32 * (Sensitivity % 8)
     \/ "CTRL2" \in deaf
  /\ 32 * (Sensitivity % 8) \in Nat
<1>1. Sensitivity % 8 \in 0 .. 7 /\ Revision \in 0 .. 31
  BY ChipAssumption
<1> DEFINE s == Sensitivity % 8
<1> HIDE DEF s
<1>2. s \in 0 .. 7
  BY <1>1 DEF s
<1>3. (32 * s) % 32 = 0 /\ (32 * s + Revision) % 32 = Revision
  BY <1>1, <1>2
<1>4. ((32 * s) - ((32 * s) % 32) + Revision)
      - (((32 * s) - ((32 * s) % 32) + Revision) % 32) = 32 * s
  BY <1>1, <1>2, <1>3
<1>5. QED
  BY <1>2, <1>4 DEF Masked, Stored, s

(* The seven writes of change_speed.                                       *)
LEMMA WritesAre ==
  ASSUME NEW s
  PROVE  /\ Len(Writes(s)) = 7
         /\ Writes(s)[1] = <<"CTRL1", SRESET>> /\ Writes(s)[2] = <<"DPLL", 21>>
         /\ Writes(s)[3] = <<"PDCLK", pdclk_for(s)>> /\ Writes(s)[4] = <<"MODE", mode_for(s)>>
         /\ Writes(s)[5] = <<"CTRL1", SDMODE + On>> /\ Writes(s)[6] = <<"CTRL1", On>>
         /\ Writes(s)[7] = <<"CTRL2", 32 * (Sensitivity % 8)>>
BY DEF Writes, On

LEMMA WriteTypes ==
  /\ \A s : pdclk_for(s) \in Int /\ mode_for(s) \in Int
  /\ On \in Int /\ SDMODE + On \in Int /\ SRESET \in Int
<1>1. Power % 4 \in 0 .. 3
  BY ChipAssumption
<1>2. QED
  BY <1>1 DEF pdclk_for, mode_for, On, SDMODE, SRESET

(* Only PDCLK, MODE and CTRL2 may be deaf.                                 *)
LEMMA DeafAre == ChipTypeOK => "CTRL1" \notin deaf /\ "DPLL" \notin deaf
BY ChipAssumption DEF ChipTypeOK

LEMMA InitInv == ChipInit => ChipInv
<1> SUFFICES ASSUME ChipInit PROVE ChipInv
  OBVIOUS
<1>1. PowerOn \in [Reg -> Int]
  BY ChipAssumption
<1>2. ChipTypeOK
  <2>1. talk \in TalkType
    BY DEF ChipInit, NoTalk, Talk, TalkType
  <2>2. all_ok \in BOOLEAN /\ unread \in BOOLEAN
    BY DEF ChipInit
  <2>3. QED
    BY <1>1, <2>1, <2>2 DEF ChipInit, ChipTypeOK
<1>3. Timed
  BY ChipAssumption DEF ChipInit, Timed, NoTalk, Talk
<1>4. QED
  BY <1>2, <1>3 DEF ChipInit, ChipInv, ReadyMeansSet, Progress, Compared

(* A write by change_speed, whether it is the program's or one that failed *)
(* and reached the chip all the same.                                      *)
LEMMA WriteStored ==
  ASSUME ChipTypeOK, NEW r \in Reg, NEW v \in Int,
         regs' = [regs EXCEPT ![r] = Stored(r, v)]
  PROVE  /\ regs' \in [Reg -> Int]
         /\ \A q \in Reg : q # r => regs'[q] = regs[q]
         /\ r \notin deaf /\ r # "CTRL2" => regs'[r] = v
         /\ regs'[r] = Stored(r, v)
<1>1. Stored(r, v) \in Int
  <2>1. v % 32 \in Int /\ Revision \in Int
    BY ChipAssumption
  <2>2. QED
    BY <2>1 DEF Stored, ChipTypeOK
<1>2. QED
  BY <1>1 DEF ChipTypeOK, Stored

LEMMA WriteOf ==
  ASSUME NEW s, NEW i \in 1 .. 7
  PROVE  Writes(s)[i][1] \in Reg /\ Writes(s)[i][2] \in Int
<1>1. 32 * (Sensitivity % 8) \in Int
  BY SensitivityKept
<1>2. CASE i = 1
  BY <1>2, WritesAre, WriteTypes DEF Reg
<1>3. CASE i = 2
  BY <1>3, WritesAre, WriteTypes DEF Reg
<1>4. CASE i = 3
  BY <1>4, WritesAre, WriteTypes DEF Reg
<1>5. CASE i = 4
  BY <1>5, WritesAre, WriteTypes DEF Reg
<1>6. CASE i = 5
  BY <1>6, WritesAre, WriteTypes DEF Reg
<1>7. CASE i = 6
  BY <1>7, WritesAre, WriteTypes DEF Reg
<1>8. CASE i = 7
  BY <1>8, <1>1, WritesAre DEF Reg
<1>9. QED
  BY <1>2, <1>3, <1>4, <1>5, <1>6, <1>7, <1>8

(* One write more, in the order of change_speed.                           *)
LEMMA WriteRegStep == ChipInv /\ WriteReg => ChipInv'
<1> SUFFICES ASSUME ChipInv, WriteReg PROVE ChipInv'
  OBVIOUS
<1> DEFINE w == Writes(speed)[done + 1]
<1>1. /\ ChipTypeOK /\ pc = "setup" /\ done \in 0 .. 6 /\ done' = done + 1
      /\ regs' = [regs EXCEPT ![w[1]] = Stored(w[1], w[2])]
      /\ pc' = IF done = 6 THEN "ready" ELSE "setup"
      /\ UNCHANGED <<deaf, speed, all_ok, verdict, unread, fifo, clock, talk>>
  <2>1. pc = "setup" /\ ChipTypeOK /\ done \in 0 .. 6 /\ done' = done + 1
    BY DEF ChipInv, Progress, WriteReg
  <2>2. pc' = IF done' = 7 THEN "ready" ELSE "setup"
    <3>1. Len(Writes(speed)) = 7
      BY WritesAre
    <3>2. QED
      BY <3>1 DEF WriteReg
  <2>3. regs' = [regs EXCEPT ![w[1]] = Stored(w[1], w[2])]
    BY DEF WriteReg
  <2>4. QED
    BY <2>1, <2>2, <2>3 DEF WriteReg
<1>2. w[1] \in Reg /\ w[2] \in Int
  BY <1>1, WriteOf
<1>3. /\ regs' \in [Reg -> Int]
      /\ \A q \in Reg : q # w[1] => regs'[q] = regs[q]
      /\ w[1] \notin deaf /\ w[1] # "CTRL2" => regs'[w[1]] = w[2]
      /\ regs'[w[1]] = Stored(w[1], w[2])
  BY <1>1, <1>2, WriteStored
<1>4. "CTRL1" \notin deaf /\ "DPLL" \notin deaf
  BY <1>1, DeafAre
<1>5. ChipTypeOK'
  BY <1>1, <1>3 DEF ChipTypeOK
<1>6. Progress' /\ ReadyMeansSet'
  <2> HIDE DEF w
  <2>1. CASE done = 0
    BY <2>1, <1>1, <1>3, <1>4, WritesAre DEF w, Progress, ReadyMeansSet, Reg
  <2>2. CASE done = 1
    BY <2>2, <1>1, <1>3, <1>4, WritesAre DEF w, ChipInv, Progress, ReadyMeansSet, Reg
  <2>3. CASE done = 2
    BY <2>3, <1>1, <1>3, <1>4, WritesAre DEF w, ChipInv, Progress, ReadyMeansSet, Reg
  <2>4. CASE done = 3
    BY <2>4, <1>1, <1>3, <1>4, WritesAre DEF w, ChipInv, Progress, ReadyMeansSet, Reg
  <2>5. CASE done = 4
    BY <2>5, <1>1, <1>3, <1>4, WritesAre DEF w, ChipInv, Progress, ReadyMeansSet, Reg
  <2>6. CASE done = 5
    BY <2>6, <1>1, <1>3, <1>4, WritesAre DEF w, ChipInv, Progress, ReadyMeansSet, Reg
  <2>7. CASE done = 6
    <3>1. w[1] = "CTRL2" /\ w[2] = 32 * (Sensitivity % 8)
      BY <2>7, WritesAre DEF w
    <3>2. /\ regs'["CTRL1"] = On /\ regs'["DPLL"] = 21
          /\ "PDCLK" \notin deaf => regs'["PDCLK"] = pdclk_for(speed)
          /\ "MODE" \notin deaf => regs'["MODE"] = mode_for(speed)
      BY <2>7, <1>1, <1>3, <3>1 DEF ChipInv, Progress, Reg
    <3>3. "CTRL2" \notin deaf => Masked("CTRL2", regs'["CTRL2"]) = 32 * (Sensitivity % 8)
      BY <3>1, <1>3, SensitivityKept
    <3>4. QED
      BY <2>7, <1>1, <3>2, <3>3 DEF Progress, ReadyMeansSet, On, Masked, Expected
  <2>8. QED
    BY <1>1, <2>1, <2>2, <2>3, <2>4, <2>5, <2>6, <2>7
<1>7. Compared' /\ Timed'
  BY <1>1 DEF ChipInv, Compared, Timed, Overrun
<1>8. QED
  BY <1>5, <1>6, <1>7 DEF ChipInv
(* A failed write leaves the run, and another begins with the reset.       *)
LEMMA WriteFailsStep == ChipInv /\ WriteFails => ChipInv'
<1> SUFFICES ASSUME ChipInv, WriteFails PROVE ChipInv'
  OBVIOUS
<1> DEFINE w == Writes(speed)[done + 1]
<1>1. /\ ChipTypeOK /\ pc = "setup" /\ done \in 0 .. 6 /\ pc' = "off"
      /\ regs' = regs \/ regs' = [regs EXCEPT ![w[1]] = Stored(w[1], w[2])]
      /\ UNCHANGED <<deaf, speed, done, all_ok, verdict, unread, fifo, clock, talk>>
  BY DEF ChipInv, Progress, WriteFails
<1>2. w[1] \in Reg /\ w[2] \in Int
  BY <1>1, WriteOf
<1>3. regs' \in [Reg -> Int]
  BY <1>1, <1>2, WriteStored DEF ChipTypeOK
<1>4. ChipTypeOK'
  BY <1>1, <1>3 DEF ChipTypeOK
<1>5. QED
  BY <1>1, <1>4 DEF ChipInv, ReadyMeansSet, Progress, Compared, Timed, Overrun

LEMMA StartStep == ChipInv /\ Start => ChipInv'
<1> SUFFICES ASSUME ChipInv, Start PROVE ChipInv'
  OBVIOUS
<1>1. NoTalk \in TalkType /\ ~NoTalk.missed
  BY DEF NoTalk, Talk, TalkType
<1>2. speed' \in Int
  BY ChipAssumption DEF Start
<1>3. ChipTypeOK'
  BY <1>1, <1>2 DEF ChipInv, ChipTypeOK, Start
<1>4. QED
  BY <1>1, <1>3 DEF ChipInv, Start, ReadyMeansSet, Progress, Compared, Timed

(* The registers stand, and so does what they hold for this run.           *)
LEMMA SetStands ==
  ASSUME ChipInv, UNCHANGED <<regs, deaf, speed>>, pc \notin {"off", "setup"}
  PROVE  ReadyMeansSet'
BY DEF ChipInv, ReadyMeansSet, Expected

LEMMA BeginReadingStep == ChipInv /\ BeginReading => ChipInv'
<1> SUFFICES ASSUME ChipInv, BeginReading PROVE ChipInv'
  OBVIOUS
<1>1. ChipTypeOK'
  BY DEF ChipInv, ChipTypeOK, BeginReading
<1>2. ReadyMeansSet'
  BY SetStands DEF BeginReading
<1>3. QED
  BY <1>1, <1>2 DEF ChipInv, BeginReading, Progress, Compared, Timed, Overrun

(* One register compared more.                                             *)
LEMMA ReadRegStep == ChipInv /\ ReadReg => ChipInv'
<1> SUFFICES ASSUME ChipInv, ReadReg PROVE ChipInv'
  OBVIOUS
<1>1. Len(ReadBack) = 3
  BY DEF ReadBack
<1>2. /\ pc = "reading" /\ done \in 0 .. 2 /\ done' = done + 1
      /\ UNCHANGED <<pc, regs, deaf, speed, verdict, fifo, clock, talk>>
  BY <1>1 DEF ChipInv, Compared, ReadReg
<1>3. \/ all_ok' = (all_ok /\ Right(ReadBack[done + 1])) /\ unread' = unread
      \/ all_ok' = FALSE /\ unread' = TRUE
  BY DEF ReadReg, Right
<1>4. all_ok' \in BOOLEAN /\ unread' \in BOOLEAN
  BY <1>3 DEF ChipInv, ChipTypeOK
<1>5. ChipTypeOK'
  BY <1>2, <1>4 DEF ChipInv, ChipTypeOK
<1>6. ReadyMeansSet'
  BY <1>2, SetStands
<1>7. Right("PDCLK")' = Right("PDCLK") /\ Right("MODE")' = Right("MODE")
      /\ Right("CTRL2")' = Right("CTRL2")
  BY <1>2 DEF Right, Expected
<1>8. Compared'
  <2>1. ReadBack[1] = "PDCLK" /\ ReadBack[2] = "MODE" /\ ReadBack[3] = "CTRL2"
    BY DEF ReadBack
  <2>2. unread \in BOOLEAN /\ all_ok \in BOOLEAN
    BY DEF ChipInv, ChipTypeOK
  <2>3. unread' => ~all_ok'
    BY <2>2, <1>2, <1>3 DEF ChipInv, Compared
  <2>4. ~unread' => ~unread /\ (all_ok' <=> all_ok /\ Right(ReadBack[done + 1]))
    BY <2>2, <1>3
  <2>5. ~unread => (all_ok <=> /\ done >= 1 => Right("PDCLK")
                               /\ done >= 2 => Right("MODE")
                               /\ done >= 3 => Right("CTRL2"))
    BY <1>2 DEF ChipInv, Compared
  <2>6. ~unread' => (all_ok' <=> /\ done' >= 1 => Right("PDCLK")
                                 /\ done' >= 2 => Right("MODE")
                                 /\ done' >= 3 => Right("CTRL2"))
    <3> HIDE DEF Right
    <3>1. CASE done = 0
      <4>1. done' = 1 /\ ReadBack[done + 1] = "PDCLK"
        BY <3>1, <2>1, <1>2
      <4>2. QED
        BY <3>1, <4>1, <2>4, <2>5
    <3>2. CASE done = 1
      <4>1. done' = 2 /\ ReadBack[done + 1] = "MODE"
        BY <3>2, <2>1, <1>2
      <4>2. QED
        BY <3>2, <4>1, <2>4, <2>5
    <3>3. CASE done = 2
      <4>1. done' = 3 /\ ReadBack[done + 1] = "CTRL2"
        BY <3>3, <2>1, <1>2
      <4>2. QED
        BY <3>3, <4>1, <2>4, <2>5
    <3>4. QED
      BY <3>1, <3>2, <3>3, <1>2
  <2>7. done' \in 0 .. 3
    BY <1>2
  <2>8. QED
    BY <2>3, <2>6, <2>7, <1>7 DEF Compared
<1>9. QED
  BY <1>2, <1>5, <1>6, <1>8 DEF ChipInv, Progress, Timed, Overrun

LEMMA VerdictStep == ChipInv /\ Verdict => ChipInv'
<1> SUFFICES ASSUME ChipInv, Verdict PROVE ChipInv'
  OBVIOUS
<1>1. ChipTypeOK'
  BY DEF ChipInv, ChipTypeOK, Verdict
<1>2. QED
  BY <1>1 DEF ChipInv, Verdict, ReadyMeansSet, Progress, Compared, Timed, Overrun
-----------------------------------------------------------------------------
(* An exchange leaves the setup alone: what is left of the invariant is    *)
(* types and times.                                                        *)
LEMMA ExchangeStep ==
  ASSUME ChipInv, UNCHANGED setupVars,
         pc \in {"ready", "draining", "listening"}, pc' \in {"ready", "draining", "listening"},
         fifo' \in Nat, clock' \in Nat, talk' \in TalkType, Timed'
  PROVE  ChipInv'
<1>1. ChipTypeOK'
  BY DEF ChipInv, ChipTypeOK, setupVars
<1>2. ReadyMeansSet'
  BY SetStands DEF setupVars
<1>3. QED
  BY <1>1, <1>2 DEF ChipInv, Progress, Compared

LEMMA SendStep == ChipInv /\ Send => ChipInv'
<1> SUFFICES ASSUME ChipInv, Send PROVE ChipInv'
  OBVIOUS
<1>1. PICK e \in Exchanges, a \in AnswerTicks :
         fifo' = e.frame /\ talk' = Talk(e.frame, e.window, a)
  BY DEF Send
<1>2. e.frame \in Nat /\ e.window \in Nat /\ e.frame <= e.window /\ a \in Nat
  BY ChipAssumption
<1>3. talk' \in TalkType
  BY <1>1, <1>2 DEF Talk, TalkType
<1>4. Timed'
  BY <1>1, <1>2, ChipAssumption DEF Send, Talk, Timed
<1>5. QED
  BY <1>1, <1>2, <1>3, <1>4, ExchangeStep DEF Send

LEMMA DrainTurnStep == ChipInv /\ DrainTurn => ChipInv'
<1> SUFFICES ASSUME ChipInv, DrainTurn PROVE ChipInv'
  OBVIOUS
<1>1. fifo \in Nat /\ clock \in Nat /\ talk \in TalkType /\ DrainTicks \in Nat
  BY ChipAssumption DEF ChipInv, ChipTypeOK
<1>2. fifo > 0 /\ clock < DrainTicks /\ clock' = clock + 1 /\ fifo' = fifo - 1
  BY <1>1 DEF DrainTurn, Drained
<1>3. Timed'
  BY <1>1, <1>2 DEF DrainTurn, ChipInv, Timed, Overrun, TalkType
<1>4. QED
  BY <1>1, <1>2, <1>3, ExchangeStep DEF DrainTurn

(* What is left of the frame when the window opens is within Overrun.      *)
LEMMA ListenStep == ChipInv /\ Listen => ChipInv'
<1> SUFFICES ASSUME ChipInv, Listen PROVE ChipInv'
  OBVIOUS
<1>1. fifo \in Nat /\ clock \in Nat /\ talk \in TalkType /\ DrainTicks \in Nat
  BY ChipAssumption DEF ChipInv, ChipTypeOK
<1>2. /\ pc = "draining" /\ pc' = "listening" /\ clock' = 0 /\ fifo' = fifo
      /\ talk.frame <= talk.window /\ ~talk.missed /\ talk.left <= talk.answer
      /\ fifo > 0 => talk.left = talk.answer
      /\ clock <= DrainTicks /\ clock + fifo = talk.frame /\ ~talk.blind
      /\ talk.frame \in Nat /\ talk.window \in Nat /\ talk.answer \in Nat /\ talk.left \in Nat
  BY <1>1 DEF ChipInv, Timed, Listen, TalkType
<1>3. CASE Drained /\ UNCHANGED talk
  <2>1. fifo + talk.left - talk.answer <= Overrun
    <3>1. Overrun = IF talk.frame > DrainTicks THEN talk.frame - DrainTicks ELSE 0
      BY <1>2 DEF Overrun
    <3>2. CASE fifo = 0
      BY <1>1, <1>2, <3>1, <3>2
    <3>3. CASE clock >= DrainTicks
      BY <1>1, <1>2, <3>1, <3>3
    <3>4. QED
      BY <1>3, <3>2, <3>3 DEF Drained
  <2>2. fifo + talk.left >= talk.answer
    BY <1>1, <1>2, <1>3 DEF ChipInv, Timed
  <2>3. Overrun' = Overrun
    BY <1>3 DEF Overrun
  <2>4. Timed'
    BY <1>1, <1>2, <1>3, <2>1, <2>2, <2>3 DEF Timed
  <2>5. QED
    BY <1>1, <1>2, <1>3, <2>4, ExchangeStep DEF Listen
<1>4. CASE talk' = [talk EXCEPT !.blind = TRUE]
  <2>1. talk' \in TalkType /\ talk'.blind /\ ~talk'.missed
        /\ talk'.frame = talk.frame /\ talk'.window = talk.window
        /\ talk'.answer = talk.answer /\ talk'.left = talk.left
    BY <1>1, <1>2, <1>4 DEF TalkType
  <2>2. Overrun' = talk.frame
    BY <2>1 DEF Overrun
  <2>3. fifo + talk.left >= talk.answer
    BY <1>1, <1>2 DEF ChipInv, Timed
  <2>4. fifo + talk.left - talk.answer <= talk.frame
    BY <1>1, <1>2
  <2>5. Timed'
    BY <1>1, <1>2, <2>1, <2>2, <2>3, <2>4 DEF Timed
  <2>6. QED
    BY <1>1, <1>2, <2>1, <2>5, ExchangeStep DEF Listen
<1>5. QED
  BY <1>3, <1>4 DEF Listen

(* A tick of the window is one of the frame, or one of the answer.         *)
LEMMA ListenTurnStep == ChipInv /\ ListenTurn => ChipInv'
<1> SUFFICES ASSUME ChipInv, ListenTurn PROVE ChipInv'
  OBVIOUS
<1>1. fifo \in Nat /\ clock \in Nat /\ talk \in TalkType
  BY DEF ChipInv, ChipTypeOK
<1>2. /\ pc = "listening" /\ pc' = "listening" /\ clock' = clock + 1
      /\ talk.frame <= talk.window /\ ~talk.missed /\ talk.left <= talk.answer
      /\ fifo > 0 => talk.left = talk.answer
      /\ clock + fifo + talk.left - talk.answer <= Overrun
      /\ clock + fifo + talk.left >= talk.answer
      /\ talk.frame \in Nat /\ talk.window \in Nat /\ talk.answer \in Nat /\ talk.left \in Nat
  BY <1>1 DEF ChipInv, Timed, ListenTurn, TalkType
<1>3. CASE fifo > 0
  <2>1. fifo' = fifo - 1 /\ talk' = talk /\ Overrun' = Overrun
    BY <1>3 DEF ListenTurn, Overrun
  <2>2. Timed'
    BY <1>1, <1>2, <1>3, <2>1 DEF Timed, Overrun
  <2>3. QED
    BY <1>1, <1>2, <1>3, <2>1, <2>2, ExchangeStep DEF ListenTurn
<1>4. CASE fifo = 0
  <2>1. talk.left > 0 /\ fifo' = 0 /\ talk' = [talk EXCEPT !.left = @ - 1]
    BY <1>2, <1>4 DEF ListenTurn, Answered
  <2>2. talk' \in TalkType /\ talk'.left = talk.left - 1 /\ (talk'.missed <=> talk.missed)
        /\ talk'.frame = talk.frame /\ talk'.window = talk.window /\ talk'.answer = talk.answer
        /\ (talk'.blind <=> talk.blind)
    BY <1>1, <1>2, <2>1 DEF TalkType
  <2>3. Overrun' = Overrun /\ Overrun \in Int
    BY <1>2, <2>2, ChipAssumption DEF Overrun
  <2>4. Timed'
    BY <1>1, <1>2, <1>4, <2>1, <2>2, <2>3 DEF Timed
  <2>5. QED
    BY <1>1, <1>2, <2>1, <2>2, <2>4, ExchangeStep DEF ListenTurn
<1>5. QED
  BY <1>1, <1>3, <1>4

LEMMA HearStep == ChipInv /\ Hear => ChipInv'
<1> SUFFICES ASSUME ChipInv, Hear PROVE ChipInv'
  OBVIOUS
<1>1. fifo \in Nat /\ clock \in Nat /\ talk \in TalkType
  BY DEF ChipInv, ChipTypeOK
<1>2. Timed'
  BY DEF ChipInv, Hear, Answered, Timed
<1>3. QED
  BY <1>1, <1>2, ExchangeStep DEF Hear, setupVars

(* A window that closes has lasted longer than any frame.                  *)
LEMMA ClosesStep == ChipInv /\ Closes => ChipInv'
<1> SUFFICES ASSUME ChipInv, Closes PROVE ChipInv'
  OBVIOUS
<1>1. fifo \in Nat /\ clock \in Nat /\ talk \in TalkType
  BY DEF ChipInv, ChipTypeOK
<1>2. /\ pc = "listening" /\ pc' = "ready" /\ clock >= talk.window /\ fifo' = fifo
      /\ talk.frame <= talk.window /\ talk.left <= talk.answer
      /\ fifo > 0 => talk.left = talk.answer
      /\ clock + fifo + talk.left - talk.answer <= Overrun
      /\ talk.frame \in Nat /\ talk.window \in Nat /\ talk.answer \in Nat /\ talk.left \in Nat
  BY <1>1 DEF ChipInv, Timed, Closes, TalkType
<1>3. Overrun \in Nat /\ Overrun <= talk.frame
  BY <1>2, ChipAssumption DEF Overrun
<1>4. fifo = 0
  BY <1>1, <1>2, <1>3
<1>5. talk.left > 0
  BY <1>2, <1>4 DEF Closes, Answered
<1>6. talk.answer > talk.window - Overrun
  BY <1>1, <1>2, <1>3, <1>4, <1>5
<1>7. talk' \in TalkType /\ talk'.frame = talk.frame /\ talk'.window = talk.window
      /\ talk'.answer = talk.answer /\ (talk'.blind <=> talk.blind)
  BY <1>1 DEF Closes, TalkType
<1>8. Overrun' = Overrun
  BY <1>7 DEF Overrun
<1>9. Timed'
  BY <1>2, <1>4, <1>6, <1>7, <1>8 DEF Timed
<1>10. QED
  BY <1>1, <1>2, <1>7, <1>9, ExchangeStep DEF Closes

LEMMA EndStep == ChipInv /\ (Stop \/ Unplug) => ChipInv'
<1> SUFFICES ASSUME ChipInv, Stop \/ Unplug PROVE ChipInv'
  OBVIOUS
<1>1. pc' = "off" /\ fifo' = 0 /\ UNCHANGED <<deaf, speed, done, all_ok, verdict, unread, clock, talk>>
  BY DEF Stop, Unplug, setupVars
<1>2. regs' \in [Reg -> Int]
  BY ChipAssumption DEF ChipInv, ChipTypeOK, Stop, Unplug, setupVars
<1>3. ChipTypeOK'
  BY <1>1, <1>2 DEF ChipInv, ChipTypeOK
<1>4. QED
  BY <1>1, <1>3 DEF ChipInv, ReadyMeansSet, Progress, Compared, Timed, Overrun

(* The invariant holds of every reachable state.                           *)
THEOREM ChipInvariant == ChipSpec => []ChipInv
<1>1. ChipInv /\ [ChipNext]_chipVars => ChipInv'
  <2> SUFFICES ASSUME ChipInv, [ChipNext]_chipVars PROVE ChipInv'
    OBVIOUS
  <2>1. CASE UNCHANGED chipVars
    BY <2>1 DEF chipVars, setupVars, ChipInv, ChipTypeOK, ReadyMeansSet, Progress, Compared,
                Timed, Overrun, Right, Expected
  <2>2. CASE ChipNext
    BY <2>2, StartStep, WriteRegStep, WriteFailsStep, BeginReadingStep, ReadRegStep,
       VerdictStep, SendStep, DrainTurnStep, ListenStep, ListenTurnStep, HearStep,
       ClosesStep, EndStep DEF ChipNext
  <2>3. QED
    BY <2>1, <2>2
<1>2. QED
  BY InitInv, <1>1, PTL DEF ChipSpec

(* change_speed returns Ok with the chip set, whatever runs broke off      *)
(* before.                                                                 *)
THEOREM ChipReadyMeansSet == ChipSpec => []ReadyMeansSet
<1>1. ChipInv => ReadyMeansSet
  BY DEF ChipInv
<1>2. QED
  BY <1>1, ChipInvariant, PTL

(* No window closes on an answer that came within it, less what was left   *)
(* of the frame.                                                           *)
THEOREM ChipPromptIsHeard == ChipSpec => []PromptIsHeard
<1>1. ChipInv => PromptIsHeard
  BY DEF ChipInv, Timed, PromptIsHeard
<1>2. QED
  BY <1>1, ChipInvariant, PTL

(* The clock and the mode change only in reset.                            *)
THEOREM ChipClockChangesInReset == ChipSpec => ClockChangesInReset
<1> DEFINE Step == regs' # PowerOn /\ (regs'["PDCLK"] # regs["PDCLK"] \/ regs'["MODE"] # regs["MODE"])
                   => regs["CTRL1"] = SRESET
<1>1. ASSUME ChipInv, pc = "setup", NEW w, w = Writes(speed)[done + 1],
             regs' = [regs EXCEPT ![w[1]] = Stored(w[1], w[2])]
      PROVE  Step
  <2>1. done \in 0 .. 6 /\ (done \in 1 .. 4 => regs["CTRL1"] = SRESET)
    BY <1>1 DEF ChipInv, Progress
  <2>2. done \in {0, 1, 4, 5, 6} => w[1] \notin {"PDCLK", "MODE"}
    BY <2>1, <1>1, WritesAre
  <2>3. w[1] \notin {"PDCLK", "MODE"} =>
          regs'["PDCLK"] = regs["PDCLK"] /\ regs'["MODE"] = regs["MODE"]
    BY <1>1 DEF ChipInv, ChipTypeOK, Reg
  <2>4. QED
    BY <2>1, <2>2, <2>3
<1>2. ChipInv /\ [ChipNext]_chipVars => [Step]_chipVars
  <2> SUFFICES ASSUME ChipInv, ChipNext PROVE Step
    BY DEF Step
  <2>1. CASE WriteReg
    BY <2>1, <1>1 DEF WriteReg
  <2>2. CASE WriteFails
    BY <2>2, <1>1 DEF WriteFails
  <2>3. CASE Unplug
    BY <2>3 DEF Unplug
  <2>4. CASE ~(WriteReg \/ WriteFails \/ Unplug)
    BY <2>4 DEF ChipNext, Start, BeginReading, ReadReg, Verdict, Send, DrainTurn, Listen,
                ListenTurn, Hear, Closes, Stop, setupVars
  <2>5. QED
    BY <2>1, <2>2, <2>3, <2>4
<1>3. QED
  BY <1>2, ChipInvariant, PTL DEF ChipSpec, ClockChangesInReset
(* The bits compared of CTRL2 are the sensitivity.                         *)
LEMMA SensitivityBits ==
  ASSUME NEW v \in Int, NEW k \in 0 .. 7
  PROVE  v - (v % 32) = 32 * k <=> v \div 32 = k
OBVIOUS

(* The verdict of run_init is true.                                        *)
THEOREM ChipVerdictTrue == ChipSpec => VerdictTrue
<1> DEFINE Good == /\ regs["PDCLK"] = pdclk_for(speed) /\ regs["MODE"] = mode_for(speed)
                   /\ regs["CTRL2"] \div 32 = Sensitivity % 8
           Step == verdict = "none" /\ verdict' # "none" =>
                     (verdict' = "ok" <=> ~unread /\ Good)
<1>1. ChipInv /\ Verdict => Step
  <2> SUFFICES ASSUME ChipInv, Verdict PROVE verdict' = "ok" <=> ~unread /\ Good
    OBVIOUS
  <2>1. Len(ReadBack) = 3
    BY DEF ReadBack
  <2>2. pc = "reading" /\ done = 3 /\ verdict' = (IF all_ok THEN "ok" ELSE "partial")
    BY <2>1 DEF Verdict
  <2>3. unread => ~all_ok
    BY <2>2 DEF ChipInv, Compared
  <2>4. ~unread => (all_ok <=> Right("PDCLK") /\ Right("MODE") /\ Right("CTRL2"))
    BY <2>2 DEF ChipInv, Compared
  <2>5. Right("PDCLK") <=> regs["PDCLK"] = pdclk_for(speed)
    BY DEF Right, Masked, Expected
  <2>6. Right("MODE") <=> regs["MODE"] = mode_for(speed)
    BY DEF Right, Masked, Expected
  <2>7. Right("CTRL2") <=> regs["CTRL2"] \div 32 = Sensitivity % 8
    <3>1. regs["CTRL2"] \in Int /\ Sensitivity % 8 \in 0 .. 7
      BY ChipAssumption DEF ChipInv, ChipTypeOK, Reg
    <3>2. Right("CTRL2") <=> regs["CTRL2"] - (regs["CTRL2"] % 32) = 32 * (Sensitivity % 8)
      BY DEF Right, Masked, Expected
    <3>3. QED
      BY <3>1, <3>2, SensitivityBits
  <2>8. QED
    BY <2>2, <2>3, <2>4, <2>5, <2>6, <2>7
<1>2. ChipInv /\ [ChipNext]_chipVars => [Step]_chipVars
  <2> SUFFICES ASSUME ChipInv, ChipNext PROVE Step
    BY DEF Step
  <2>1. CASE Verdict
    BY <2>1, <1>1
  <2>2. CASE ~Verdict
    <3>1. verdict' = verdict \/ verdict' = "none"
      BY <2>2 DEF ChipNext, Start, WriteReg, WriteFails, BeginReading, ReadReg, Send, DrainTurn,
                  Listen, ListenTurn, Hear, Closes, Stop, Unplug, setupVars
    <3>2. QED
      BY <3>1
  <2>3. QED
    BY <2>1, <2>2
<1>3. QED
  BY <1>2, ChipInvariant, PTL DEF ChipSpec, VerdictTrue
=============================================================================
