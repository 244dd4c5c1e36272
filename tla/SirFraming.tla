---------------------------- MODULE SirFraming ----------------------------
(***************************************************************************)
(* The SIR byte stream of src/src/sir: async_wrap, the streaming Unwrapper *)
(* and the frame check sequence.  A byte is the set of its bits that are   *)
(* one, so that exclusive or is symmetric difference and a shift moves the *)
(* members.                                                                *)
(*                                                                         *)
(* The medium is external: it puts garbage between frames, and damages     *)
(* bytes of a frame.                                                       *)
(***************************************************************************)
EXTENDS Integers, Sequences, SequencesExt

CONSTANTS
  Payloads,      \* the payloads a sender wraps
  Xbofs,         \* preamble bytes (DEFAULT_XBOFS, 10)
  Noise,         \* the bytes the medium makes up
  MaxFrames,     \* bound: frames sent
  MaxGarbage,    \* bound: bytes of garbage between frames
  MaxDamage      \* bound: bytes damaged within frames

Byte == SUBSET (0 .. 7)

ASSUME SirAssumption ==
  /\ Payloads \subseteq Seq(Byte) /\ Noise \subseteq Byte
  /\ Xbofs \in Nat /\ MaxFrames \in Nat /\ MaxGarbage \in Nat /\ MaxDamage \in Nat

VARIABLES
  state, buf, crc_errors, short_frames,   \* struct Unwrapper
  wire,        \* bytes on their way
  frames,      \* payloads of the frames push returned (history)
  intact,      \* payloads that were sent and not damaged (history)
  all,         \* payloads that were sent (history)
  ends,        \* EOFs read outside of no frame (history)
  garbage, damage

unwrapperVars == <<state, buf, crc_errors, short_frames, frames, ends>>
mediumVars    == <<wire, intact, all, garbage, damage>>
sirVars       == <<unwrapperVars, mediumVars>>

-----------------------------------------------------------------------------
Xor(a, b)    == (a \ b) \cup (b \ a)
ShiftRight(c) == {i - 1 : i \in c \ {0}}

BOF  == {6, 7}                  \* 0xC0
EOF  == {0, 6, 7}               \* 0xC1
CE   == {0, 2, 3, 4, 5, 6}      \* 0x7D
XBOF == 0 .. 7                  \* 0xFF
IRDA_TRANS == {5}               \* 0x20

(* The frame check sequence: CRC-CCITT, reflected.                         *)
INIT_FCS == 0 .. 15                                \* 0xffff
GOOD_FCS == {3, 4, 5, 7, 12, 13, 14, 15}           \* 0xf0b8
POLY     == {3, 10, 15}                            \* 0x8408

crc_ccitt_byte(crc, byte) ==
  LET step[n \in 0 .. 8] ==
        IF n = 0 THEN Xor(crc, byte)
        ELSE IF 0 \in step[n - 1] THEN Xor(ShiftRight(step[n - 1]), POLY)
        ELSE ShiftRight(step[n - 1])
  IN step[8]

crc_ccitt(data) ==
  LET run[n \in 0 .. Len(data)] ==
        IF n = 0 THEN INIT_FCS ELSE crc_ccitt_byte(run[n - 1], data[n])
  IN run[Len(data)]

fcs_bytes(data) ==
  LET fcs == (0 .. 15) \ crc_ccitt(data)
  IN <<fcs \cap (0 .. 7), {i - 8 : i \in fcs \cap (8 .. 15)}>>

checkMut(frame) == TRUE                            \* the FCS not looked at
check(frame) == crc_ccitt(frame) = GOOD_FCS

(* async_wrap. *)
stuff(b) == IF b \in {BOF, EOF, CE} THEN <<CE, Xor(b, IRDA_TRANS)>> ELSE <<b>>

Stuffed(s) ==
  LET run[n \in 0 .. Len(s)] == IF n = 0 THEN <<>> ELSE run[n - 1] \o stuff(s[n])
  IN run[Len(s)]

async_wrap(payload) ==
  [i \in 1 .. Xbofs |-> XBOF] \o <<BOF>>
  \o Stuffed(payload \o fcs_bytes(payload)) \o <<EOF>>

-----------------------------------------------------------------------------
SirInit ==
  /\ state = "Outside" /\ buf = <<>> /\ crc_errors = 0 /\ short_frames = 0
  /\ wire = <<>> /\ frames = <<>> /\ intact = <<>> /\ all = <<>> /\ ends = 0
  /\ garbage = 0 /\ damage = 0

(* push, one alternative per kind of byte.                                 *)
Quiet == UNCHANGED <<crc_errors, short_frames, frames, ends>>

PushBofMut(byte) ==                         \* a BOF within a frame ignored
  /\ byte = BOF
  /\ state' = IF state = "Outside" THEN "Begin" ELSE state
  /\ UNCHANGED buf
  /\ Quiet

PushBof(byte) ==
  /\ byte = BOF
  /\ state' = "Begin" /\ buf' = <<>>
  /\ Quiet

PushCe(byte) ==
  /\ byte = CE
  /\ state' = IF state = "Outside" THEN state ELSE "Escape"
  /\ UNCHANGED buf
  /\ Quiet

PushData(byte) ==
  /\ byte \notin {BOF, CE, EOF}
  /\ IF state = "Outside" THEN UNCHANGED <<state, buf>>
     ELSE /\ state' = "Inside"
          /\ buf' = Append(buf, IF state = "Escape" THEN Xor(byte, IRDA_TRANS)
                                ELSE byte)
  /\ Quiet

(* finish. *)
finishMut(byte) ==                          \* a bad frame that is not counted
  /\ byte = EOF
  /\ state' = "Outside"
  /\ IF state = "Outside" \/ Len(buf) < 2 \/ ~check(buf)
     THEN UNCHANGED <<crc_errors, short_frames, frames>>
     ELSE /\ frames' = Append(frames, SubSeq(buf, 1, Len(buf) - 2))
          /\ UNCHANGED <<crc_errors, short_frames>>
  /\ ends' = IF state = "Outside" THEN ends ELSE ends + 1
  /\ buf' = IF state = "Outside" THEN buf ELSE <<>>

finish(byte) ==
  /\ byte = EOF
  /\ state' = "Outside"
  /\ \/ state = "Outside" /\ UNCHANGED <<buf, crc_errors, short_frames, frames, ends>>
     \/ /\ state # "Outside" /\ buf' = <<>> /\ ends' = ends + 1
        /\ \/ /\ Len(buf) < 2
              /\ short_frames' = short_frames + 1
              /\ UNCHANGED <<crc_errors, frames>>
           \/ /\ Len(buf) >= 2 /\ check(buf)
              /\ frames' = Append(frames, SubSeq(buf, 1, Len(buf) - 2))
              /\ UNCHANGED <<crc_errors, short_frames>>
           \/ /\ Len(buf) >= 2 /\ ~check(buf)
              /\ crc_errors' = crc_errors + 1
              /\ UNCHANGED <<short_frames, frames>>

Push ==
  /\ wire # <<>>
  /\ LET byte == Head(wire) IN
       PushBof(byte) \/ PushCe(byte) \/ PushData(byte) \/ finish(byte)
  /\ wire' = Tail(wire)
  /\ UNCHANGED <<intact, all, garbage, damage>>

-----------------------------------------------------------------------------
(* The sender and the medium.                                              *)
Send(payload) ==
  /\ wire = <<>> /\ Len(all) < MaxFrames
  /\ wire' = async_wrap(payload)
  /\ all' = Append(all, payload) /\ intact' = Append(intact, payload)
  /\ UNCHANGED <<unwrapperVars, garbage, damage>>

(* A frame whose i-th byte comes out as another, or not at all. *)
Damaged(w) ==
  {ReplaceAt(w, i, b) : i \in Xbofs + 1 .. Len(w), b \in Noise}
  \cup {RemoveAt(w, i) : i \in Xbofs + 1 .. Len(w)}

SendDamaged(payload) ==
  /\ wire = <<>> /\ Len(all) < MaxFrames /\ damage < MaxDamage
  /\ wire' \in Damaged(async_wrap(payload)) \ {async_wrap(payload)}
  /\ damage' = damage + 1
  /\ all' = Append(all, payload)
  /\ UNCHANGED <<unwrapperVars, intact, garbage>>

Garbage ==
  /\ wire = <<>> /\ garbage < MaxGarbage
  /\ \E b \in Noise : wire' = <<b>>
  /\ garbage' = garbage + 1
  /\ UNCHANGED <<unwrapperVars, intact, all, damage>>

SirNext ==
  \/ Push \/ Garbage
  \/ \E p \in Payloads : Send(p) \/ SendDamaged(p)

SirSpec == SirInit /\ [][SirNext]_sirVars

-----------------------------------------------------------------------------
(* Properties.                                                             *)

IsSubsequence(s, t) ==      \* for short s and t
  \E pick \in [1 .. Len(s) -> 1 .. Len(t)] :
    /\ \A i, j \in 1 .. Len(s) : i < j => pick[i] < pick[j]
    /\ \A i \in 1 .. Len(s) : s[i] = t[pick[i]]

(* What push returns was sent, in that order and each once: no garbage     *)
(* and no damaged frame passes for a payload.                              *)
NothingMadeUp == IsSubsequence(frames, all)

(* Every frame that was not damaged arrives, whatever came before it: a    *)
(* BOF starts afresh from any state.                                       *)
IntactArrive == wire = <<>> => IsSubsequence(intact, frames)

(* Every frame that ends is returned or counted as dropped, never both.    *)
EveryEndCounted == ends = Len(frames) + crc_errors + short_frames
=============================================================================
