-------------------------------- MODULE Chip --------------------------------
(***************************************************************************)
(* The STIr4200 under the runs of the program (src/src/chip/mod.rs):       *)
(* change_speed writes its registers one at a time, run_init reads them    *)
(* back, and every exchange sends a frame, waits for the FIFO to drain and *)
(* listens for a while.  A run may fail or be killed at any point; the     *)
(* chip keeps its registers until it is unplugged.                         *)
(*                                                                         *)
(* Time is in ticks, and passes in DrainTurn and ListenTurn.               *)
(***************************************************************************)
EXTENDS Integers, Sequences

CONSTANTS
  Speeds,        \* the speeds the runs ask for
  PowerOn,       \* what the registers hold after plugging in
  Deaf,          \* the sets of registers that may not keep what is written
  Revision,      \* low bits of CTRL2, read-only
  Power, Sensitivity,        \* tx_power (0) and rx_sensitivity (1)
  Exchanges,     \* [frame |-> ticks it takes to send, window |-> to listen for]
  AnswerTicks,   \* from the end of a frame to the end of its answer
  DrainTicks,    \* fifo_drain's bound (60 ms)
  ReadTicks      \* how long a bulk read waits (20 ms)

Reg == {"MODE", "PDCLK", "CTRL1", "CTRL2", "DPLL"}
SRESET == 1
SDMODE == 128

ASSUME ChipAssumption ==
  /\ PowerOn \in [Reg -> 0 .. 255] /\ Deaf \subseteq SUBSET {"PDCLK", "MODE", "CTRL2"}
  /\ Revision \in 0 .. 31 /\ Power \in 0 .. 255 /\ Sensitivity \in 0 .. 255
  /\ Exchanges \subseteq [frame : Nat, window : Nat]
  /\ \A e \in Exchanges : e.frame <= e.window
  /\ AnswerTicks \subseteq Nat /\ DrainTicks \in Nat /\ ReadTicks \in Nat
  /\ Speeds \subseteq Nat

VARIABLES
  pc,            \* "off", "setup", "ready", "reading", "draining", "listening"
  regs, deaf,    \* the chip; which of its registers do not keep what is written
  speed,         \* speed of the run
  done,          \* registers written, or read back, so far
  all_ok, verdict,   \* run_init's: "none", "ok" or "partial"
  unread,        \* a register could not be read back (history)
  fifo,          \* ticks of the frame still in the FIFO
  clock,         \* ticks since the drain began, then since the window opened
  talk           \* the exchange: its times, what is left of the answer's,
                 \* "blind" if fifo_status failed, "missed" if no answer was read

setupVars == <<regs, deaf, speed, done, all_ok, verdict, unread>>
chipVars  == <<pc, setupVars, fifo, clock, talk>>

-----------------------------------------------------------------------------
(* None for a speed the chip does not have. *)
pdclk_for(s) ==
  CASE s = 2400  -> 223 [] s = 9600  -> 119 [] s = 19200  -> 59
    [] s = 38400 -> 29  [] s = 57600 -> 19  [] s = 115200 -> 9
    [] OTHER -> -1
mode_for(s) == IF s = 2400 THEN 43 ELSE 42

(* What change_speed writes, in this order. *)
WritesLateMut(s) ==                       \* the clock before the reset
  << <<"DPLL", 21>>, <<"PDCLK", pdclk_for(s)>>, <<"MODE", mode_for(s)>>,
     <<"CTRL1", SRESET>>, <<"CTRL1", SDMODE + 2 * (Power % 4)>>,
     <<"CTRL1", 2 * (Power % 4)>>, <<"CTRL2", 32 * (Sensitivity % 8)>> >>
WritesShortMut(s) ==                      \* SDMODE not taken back
  << <<"CTRL1", SRESET>>, <<"DPLL", 21>>, <<"PDCLK", pdclk_for(s)>>,
     <<"MODE", mode_for(s)>>, <<"CTRL1", SDMODE + 2 * (Power % 4)>>,
     <<"CTRL2", 32 * (Sensitivity % 8)>> >>
Writes(s) ==
  << <<"CTRL1", SRESET>>, <<"DPLL", 21>>, <<"PDCLK", pdclk_for(s)>>,
     <<"MODE", mode_for(s)>>, <<"CTRL1", SDMODE + 2 * (Power % 4)>>,
     <<"CTRL1", 2 * (Power % 4)>>, <<"CTRL2", 32 * (Sensitivity % 8)>> >>

(* The chip takes a write, except that the low bits of CTRL2 are its own   *)
(* and a deaf register stays as it is.                                     *)
Stored(reg, v) ==
  IF reg \in deaf THEN regs[reg]
  ELSE IF reg = "CTRL2" THEN v - (v % 32) + Revision ELSE v

Talk(f, w, a) == [frame |-> f, window |-> w, answer |-> a, left |-> a,
                  blind |-> FALSE, missed |-> FALSE]
NoTalk == Talk(0, 0, 0)

ChipInit ==
  /\ pc = "off" /\ regs = PowerOn /\ deaf \in Deaf
  /\ speed = 0 /\ done = 0 /\ all_ok = TRUE /\ verdict = "none" /\ unread = FALSE
  /\ fifo = 0 /\ clock = 0 /\ talk = NoTalk

(* A run claims the interface; a speed the chip does not have is refused   *)
(* before anything is written.                                             *)
Start ==
  /\ pc = "off"
  /\ speed' \in {s \in Speeds : pdclk_for(s) # -1}
  /\ pc' = "setup" /\ done' = 0 /\ verdict' = "none" /\ talk' = NoTalk
  /\ UNCHANGED <<regs, deaf, all_ok, unread, fifo, clock>>

WriteReg ==
  /\ pc = "setup" /\ done < Len(Writes(speed))
  /\ LET w == Writes(speed)[done + 1] IN regs' = [regs EXCEPT ![w[1]] = Stored(w[1], w[2])]
  /\ done' = done + 1
  /\ pc' = IF done' = Len(Writes(speed)) THEN "ready" ELSE "setup"
  /\ UNCHANGED <<deaf, speed, all_ok, verdict, unread, fifo, clock, talk>>

(* A control write that fails, by timeout perhaps: the chip may have it.   *)
WriteFails ==
  /\ pc = "setup"
  /\ LET w == Writes(speed)[done + 1] IN
       regs' \in {regs, [regs EXCEPT ![w[1]] = Stored(w[1], w[2])]}
  /\ pc' = "off"
  /\ UNCHANGED <<deaf, speed, done, all_ok, verdict, unread, fifo, clock, talk>>

(* run_init reads three registers back and compares the bits it controls.  *)
ReadBack == <<"PDCLK", "MODE", "CTRL2">>
Expected(reg) == CASE reg = "PDCLK" -> pdclk_for(speed) [] reg = "MODE" -> mode_for(speed)
                   [] reg = "CTRL2" -> 32 * (Sensitivity % 8)
MaskedMut(reg, v) == v                    \* the revision compared too
Masked(reg, v) == IF reg = "CTRL2" THEN v - (v % 32) ELSE v

BeginReading ==
  /\ pc = "ready" /\ verdict = "none" /\ talk = NoTalk
  /\ pc' = "reading" /\ done' = 0 /\ all_ok' = TRUE /\ unread' = FALSE
  /\ UNCHANGED <<regs, deaf, speed, verdict, fifo, clock, talk>>

ReadReg ==
  /\ pc = "reading" /\ done < Len(ReadBack)
  /\ done' = done + 1
  /\ LET reg == ReadBack[done + 1] IN
       \/ all_ok' = (all_ok /\ Masked(reg, regs[reg]) = Expected(reg)) /\ UNCHANGED unread
       \/ all_ok' = FALSE /\ unread' = TRUE
  /\ UNCHANGED <<pc, regs, deaf, speed, verdict, fifo, clock, talk>>

Verdict ==
  /\ pc = "reading" /\ done = Len(ReadBack)
  /\ verdict' = IF all_ok THEN "ok" ELSE "partial"
  /\ pc' = "off"
  /\ UNCHANGED <<regs, deaf, speed, done, all_ok, unread, fifo, clock, talk>>

-----------------------------------------------------------------------------
(* An exchange: discover's slots, the SNRM, and transact all make it so.   *)
Send ==
  /\ pc = "ready"
  /\ \E e \in Exchanges, a \in AnswerTicks :
       fifo' = e.frame /\ talk' = Talk(e.frame, e.window, a)
  /\ pc' = "draining" /\ clock' = 0
  /\ UNCHANGED setupVars

(* One turn of fifo_drain that finds the FIFO sending, and a sleep.        *)
DrainedMut == TRUE                        \* not waited for
Drained == fifo = 0 \/ clock >= DrainTicks
DrainTurn ==
  /\ pc = "draining" /\ ~Drained
  /\ clock' = clock + 1 /\ fifo' = fifo - 1
  /\ UNCHANGED <<pc, setupVars, talk>>

(* fifo_drain returns, also when the status cannot be read: its result is  *)
(* ignored.  The window opens.                                             *)
Listen ==
  /\ pc = "draining"
  /\ \/ Drained /\ UNCHANGED talk
     \/ talk' = [talk EXCEPT !.blind = TRUE]
  /\ pc' = "listening" /\ clock' = 0
  /\ UNCHANGED <<setupVars, fifo>>

(* The device answers when the whole frame is out. *)
Answered == fifo = 0 /\ talk.left = 0

ListenTurn ==
  /\ pc = "listening" /\ ~Answered
  /\ clock < talk.window + ReadTicks
  /\ clock' = clock + 1
  /\ IF fifo > 0 THEN fifo' = fifo - 1 /\ UNCHANGED talk
     ELSE talk' = [talk EXCEPT !.left = @ - 1] /\ UNCHANGED fifo
  /\ UNCHANGED <<pc, setupVars>>

Hear ==
  /\ pc = "listening" /\ Answered
  /\ pc' = "ready"
  /\ UNCHANGED <<setupVars, fifo, clock, talk>>

(* The deadline ends the loop; a read that began before it ends later.     *)
Closes ==
  /\ pc = "listening" /\ ~Answered
  /\ clock >= talk.window
  /\ pc' = "ready" /\ talk' = [talk EXCEPT !.missed = TRUE]
  /\ UNCHANGED <<setupVars, fifo, clock>>

(* The run ends: well, by an error, or killed.  By the time another begins *)
(* the frame is out.                                                       *)
Stop ==
  /\ pc # "off" /\ pc' = "off" /\ fifo' = 0
  /\ UNCHANGED <<setupVars, clock, talk>>

Unplug ==
  /\ regs' = PowerOn /\ pc' = "off" /\ fifo' = 0
  /\ UNCHANGED <<deaf, speed, done, all_ok, verdict, unread, clock, talk>>

ChipNext == Start \/ WriteReg \/ WriteFails \/ BeginReading \/ ReadReg \/ Verdict
            \/ Send \/ DrainTurn \/ Listen \/ ListenTurn \/ Hear \/ Closes \/ Stop \/ Unplug

ChipSpec == ChipInit /\ [][ChipNext]_chipVars

-----------------------------------------------------------------------------
(* Properties.                                                             *)

(* change_speed returns Ok with the chip set to the speed of this run,     *)
(* whatever runs that broke off within the writes have left in it: out of  *)
(* reset, out of SDMODE, the clock and the mode belonging together.        *)
ReadyMeansSet ==
  pc \notin {"off", "setup"} =>
    /\ regs["CTRL1"] = 2 * (Power % 4) /\ regs["DPLL"] = 21
    /\ \A reg \in {"PDCLK", "MODE", "CTRL2"} \ deaf : Masked(reg, regs[reg]) = Expected(reg)

(* "reset modulator": clock and mode never change but with the modulator   *)
(* held in reset, also when an earlier run broke off with it running.      *)
ClockChangesInReset ==
  [][regs' # PowerOn /\ (regs'["PDCLK"] # regs["PDCLK"] \/ regs'["MODE"] # regs["MODE"])
     => regs["CTRL1"] = SRESET]_chipVars

(* "M2 OK: the registers read back the written values" is said exactly if  *)
(* clock, mode and sensitivity are those of this run and could be read.    *)
VerdictTrue ==
  [][verdict = "none" /\ verdict' # "none" =>
       (verdict' = "ok" <=> /\ ~unread
                            /\ regs["PDCLK"] = pdclk_for(speed) /\ regs["MODE"] = mode_for(speed)
                            /\ regs["CTRL2"] \div 32 = Sensitivity % 8)]_chipVars

(* The next frame is not written over the last one; and a window that      *)
(* closed without an answer belonged to one that came later than the       *)
(* window less what fifo_drain left of the frame, or the whole frame if it *)
(* could not read the status.                                              *)
Overrun == IF talk.blind THEN talk.frame
           ELSE IF talk.frame > DrainTicks THEN talk.frame - DrainTicks ELSE 0
PromptIsHeard ==
  pc = "ready" => /\ fifo = 0
                  /\ talk.missed => talk.answer > talk.window - Overrun
=============================================================================
