----------------------------- MODULE DiveParser -----------------------------
(***************************************************************************)
(* parse_dive of src/src/subsurface/mod.rs: the header of a dive record,   *)
(* the stream of samples behind it, and the gas changes.  One action per   *)
(* turn of the sample loop.  Depths, temperatures and pressures stay in    *)
(* the units of the record; offsets count from the end of the header.      *)
(*                                                                         *)
(* For the properties a record also says what was written into it: the     *)
(* samples that are in it in full, and where their bytes are.              *)
(***************************************************************************)
EXTENDS Integers, SequencesExt

CONSTANT Dives
  \* [trimix, freedive |-> flags of the header, header |-> its bytes there,
  \*  o2 |-> its three gas mixes, body |-> the bytes behind it,
  \*  written |-> the samples in them: see Encoded]

Byte == 0 .. 255

ASSUME DiveAssumption ==
  \A d \in Dives :
    /\ d.trimix \in BOOLEAN /\ d.freedive \in BOOLEAN /\ d.header \in Nat
    /\ d.o2 \in [1 .. 3 -> Nat] /\ d.body \in Seq(Byte)

VARIABLES
  dive,                       \* the record parsed
  offset, time,
  depth, calibration,
  temperature, pressure,      \* depth too: [have, v], shown once "have"
  active_gasmix, prev_gasmix, mixes,
  gas_changes, samples, cylinders,
  outcome                     \* "header", "reading", "done", "error" or "panic"

gasVars   == <<active_gasmix, mixes>>
valueVars == <<depth, calibration, temperature, pressure>>
madeVars  == <<time, prev_gasmix, gas_changes, samples>>
parseVars == <<dive, offset, valueVars, gasVars, madeVars, cylinders, outcome>>

-----------------------------------------------------------------------------
(* The sample table: bits of the type, bytes behind the type byte.         *)
SInfo(kind, absolute, index, bits, extra) ==
  [kind |-> kind, absolute |-> absolute, index |-> index, bits |-> bits, extra |-> extra]

GALILEO_SAMPLES == <<
  SInfo("depth", FALSE, 0, 1, 0),        SInfo("rbt", FALSE, 0, 3, 0),
  SInfo("pressure", FALSE, 0, 4, 0),     SInfo("temperature", FALSE, 0, 4, 0),
  SInfo("time", TRUE, 0, 4, 0),          SInfo("heartrate", FALSE, 0, 4, 0),
  SInfo("alarms", TRUE, 0, 4, 0),        SInfo("alarms", TRUE, 1, 8, 1),
  SInfo("depth", TRUE, 0, 8, 2),         SInfo("rbt", TRUE, 0, 8, 1),
  SInfo("temperature", TRUE, 0, 8, 2),   SInfo("pressure", TRUE, 0, 8, 2),
  SInfo("pressure", TRUE, 1, 8, 2),      SInfo("pressure", TRUE, 2, 8, 2),
  SInfo("heartrate", TRUE, 0, 8, 1),     SInfo("bearing", TRUE, 0, 8, 2),
  SInfo("alarms", TRUE, 2, 8, 1),        SInfo("apnea", TRUE, 0, 8, 0),
  SInfo("misc", TRUE, 0, 8, 1) >>

(* 0ddddddd, 100ddddd, 1ttt dddd, 1111 tttt. *)
galileo_identify(byte) ==
  CASE byte < 128                -> 0
    [] byte \in 128 .. 159       -> 1
    [] byte \in 160 .. 239       -> (byte \div 16) - 8
    [] OTHER                     -> (byte - 240) + 7

signextendMut(value, nbits) ==            \* the sign bit alone taken for +
  IF nbits > 0 /\ value > 2 ^ (nbits - 1) THEN value - 2 ^ nbits ELSE value
signextend(value, nbits) ==
  IF nbits > 0 /\ value >= 2 ^ (nbits - 1) THEN value - 2 ^ nbits ELSE value

-----------------------------------------------------------------------------
n == Len(dive.body)
At(p) == dive.body[p + 1]
u16_le(p) == At(p) + 256 * At(p + 1)

Known == galileo_identify(At(offset)) < Len(GALILEO_SAMPLES)
Info  == GALILEO_SAMPLES[galileo_identify(At(offset)) + 1]

(* The value is in what the type leaves of its byte, or in the extra bytes, *)
(* the first the highest.                                                   *)
nbits == IF Info.bits < 8 THEN 8 - Info.bits ELSE 8 * Info.extra
value == CASE Info.bits < 8                    -> At(offset) % 2 ^ (8 - Info.bits)
           [] Info.bits = 8 /\ Info.extra = 0 -> 0
           [] Info.bits = 8 /\ Info.extra = 1 -> At(offset + 1)
           [] OTHER -> 256 * At(offset + 1) + At(offset + 2)
svalue == signextend(value, nbits)

PastMut ==                                \* a byte of type and value not consumed
  offset + (IF Info.bits = 8 THEN 1 ELSE 0) + Info.extra
Past == offset + 1 + Info.extra

Shown(x) == IF x.have THEN <<x.v>> ELSE <<>>
Absolute(v) == [have |-> TRUE, v |-> v]
Plus(x, v)  == [x EXCEPT !.v = @ + v]
Unread      == [have |-> FALSE, v |-> 0]

Interval == IF dive.freedive THEN 1 ELSE 4

(* Before the first of "count" samples the active mix is compared with the *)
(* one seen last; a mix that is not described is seen, and passed over.    *)
Position(ms, id) == {i \in DOMAIN ms : ms[i].id = id}
Change(ms, id) ==
  IF Position(ms, id) = {} THEN <<>> ELSE <<[time |-> time, mix |-> Min(Position(ms, id))]>>
Complete(count) ==
  /\ IF count > 0 /\ mixes' # <<>> /\ active_gasmix' # prev_gasmix
     THEN /\ prev_gasmix' = active_gasmix'
          /\ gas_changes' = gas_changes \o Change(mixes', active_gasmix')
     ELSE UNCHANGED <<prev_gasmix, gas_changes>>
  /\ samples' = samples \o
       [i \in 1 .. count |->
          [time        |-> time + (i - 1) * Interval,
           depth       |-> IF depth'.have THEN depth'.v - calibration' ELSE 0,
           temperature |-> Shown(temperature'),
           pressure    |-> Shown(pressure')]]
  /\ time' = time + count * Interval

-----------------------------------------------------------------------------
HeaderSize == IF dive.trimix THEN 84 ELSE 152

ParseInit ==
  /\ dive \in Dives
  /\ offset = 0 /\ time = 0
  /\ depth = Unread /\ calibration = 0 /\ temperature = Unread /\ pressure = Unread
  /\ active_gasmix = 0 /\ prev_gasmix = -1 /\ mixes = <<>>
  /\ gas_changes = <<>> /\ samples = <<>>
  /\ cylinders = <<>> /\ outcome = "header"

(* The kind of the header is in its byte 43; all of it must be there.      *)
HeaderShort ==
  /\ outcome = "header" /\ dive.header < HeaderSize
  /\ outcome' = "error"
  /\ UNCHANGED <<dive, offset, valueVars, gasVars, madeVars, cylinders>>

(* A header of a Galileo dive describes the mixes, that of a trimix dive   *)
(* leaves them to samples.                                                 *)
HeaderMix(i) == IF ~dive.trimix /\ dive.o2[i] # 0
                THEN <<[id |-> i - 1, o2 |-> dive.o2[i], he |-> 0]>> ELSE <<>>
ReadHeader ==
  /\ outcome = "header" /\ dive.header >= HeaderSize
  /\ mixes' = HeaderMix(1) \o HeaderMix(2) \o HeaderMix(3)
  /\ outcome' = "reading"
  /\ UNCHANGED <<dive, offset, valueVars, active_gasmix, madeVars, cylinders>>

(* A turn of the loop on a whole sample of this kind. *)
Turn(kind) ==
  /\ outcome = "reading" /\ offset < n
  /\ Known /\ Past <= n /\ Info.kind = kind
  /\ UNCHANGED <<dive, cylinders>>

DepthSample ==
  /\ Turn("depth")
  /\ IF Info.absolute
     THEN /\ depth' = Absolute(value)
          /\ calibration' = IF depth.have THEN calibration ELSE value
     ELSE depth' = Plus(depth, svalue) /\ UNCHANGED calibration
  /\ offset' = Past
  /\ UNCHANGED <<temperature, pressure, gasVars, outcome>>
  /\ Complete(1)

TimeSample ==
  /\ Turn("time")
  /\ offset' = Past
  /\ UNCHANGED <<valueVars, gasVars, outcome>>
  /\ Complete(value)

TemperatureSample ==
  /\ Turn("temperature")
  /\ temperature' = IF Info.absolute THEN Absolute(svalue)
                    ELSE Plus(temperature, svalue)
  /\ offset' = Past
  /\ UNCHANGED <<depth, calibration, pressure, gasVars, madeVars, outcome>>

(* An absolute pressure names the tank, and with it the mix: in its upper  *)
(* four bits if the dive is a trimix dive, by its entry in the table if not. *)
PressureSample ==
  /\ Turn("pressure")
  /\ IF ~Info.absolute
     THEN pressure' = Plus(pressure, svalue) /\ UNCHANGED active_gasmix
     ELSE IF dive.trimix
     THEN pressure' = Absolute(value % 4096) /\ active_gasmix' = value \div 4096
     ELSE pressure' = Absolute(value) /\ active_gasmix' = Info.index
  /\ offset' = Past
  /\ UNCHANGED <<depth, calibration, temperature, mixes, madeVars, outcome>>

AlarmSample ==
  /\ Turn("alarms")
  /\ active_gasmix' = CASE Info.index = 1 -> (value \div 32) % 4
                        [] Info.index = 2 /\ dive.trimix -> value \div 16
                        [] OTHER -> active_gasmix
  /\ offset' = Past
  /\ UNCHANGED <<valueVars, mixes, madeVars, outcome>>

(* Passed over: nothing of them is kept. *)
OtherSample ==
  /\ \E kind \in {"rbt", "heartrate", "bearing"} : Turn(kind)
  /\ offset' = Past
  /\ UNCHANGED <<valueVars, gasVars, madeVars, outcome>>

ApneaSample ==
  /\ Turn("apnea")
  /\ offset' = Past + 8
  /\ UNCHANGED <<valueVars, gasVars, madeVars, outcome>>

(* A MISC sample is as long as its value says, the byte of the value among *)
(* it; its subtype says what it holds.                                     *)
MiscCutMut == value < 1 \/ Past + value - 1 > n + 1      \* off by one
MiscCut == value < 1 \/ Past + value - 1 > n

MiscMix ==
  LET mix == [id |-> At(Past) - 32, o2 |-> u16_le(Past + 1), he |-> u16_le(Past + 3)] IN
  IF /\ At(Past) \in 32 .. 41 /\ value >= 16
     /\ mix.o2 # 0 \/ mix.he # 0
     /\ Position(mixes, mix.id) = {}
  THEN <<mix>> ELSE <<>>

MiscSample ==
  /\ Turn("misc")
  /\ ~MiscCut /\ Past < n
  /\ mixes' = mixes \o MiscMix
  /\ offset' = Past + value - 1
  /\ UNCHANGED <<valueVars, active_gasmix, madeVars, outcome>>

(* A MISC sample of nothing but its length, the last of the record.        *)
SubtypeMissing ==
  /\ Turn("misc")
  /\ ~MiscCut /\ Past >= n
  /\ outcome' = "panic"
  /\ UNCHANGED <<offset, valueVars, gasVars, madeVars>>

InvalidType ==
  /\ outcome = "reading" /\ offset < n
  /\ ~Known
  /\ outcome' = "error"
  /\ UNCHANGED <<dive, offset, valueVars, gasVars, madeVars, cylinders>>

(* The end of the record, or a sample that is cut off by it.  The mixes    *)
(* are sorted, and the changes name the cylinders they become.             *)
Nth(S, k) == CHOOSE i \in S : Cardinality({j \in S : j <= i}) = k
Order == [c \in DOMAIN mixes |-> Nth({mixes[i].id : i \in DOMAIN mixes}, c)]
RemapMut(i) == i                          \* the mixes sorted, the changes not
Remap(i) == CHOOSE c \in DOMAIN mixes : Order[c] = mixes[i].id

Finish ==
  /\ outcome = "reading"
  /\ \/ offset >= n
     \/ offset < n /\ Known /\ Past > n
     \/ offset < n /\ Known /\ Past <= n /\ Info.kind = "misc" /\ MiscCut
  /\ cylinders' = [c \in DOMAIN mixes |-> CHOOSE m \in Range(mixes) : m.id = Order[c]]
  /\ gas_changes' = [k \in DOMAIN gas_changes |->
                       [gas_changes[k] EXCEPT !.mix = Remap(gas_changes[k].mix)]]
  /\ outcome' = "done"
  /\ UNCHANGED <<dive, offset, valueVars, gasVars, time, prev_gasmix, samples>>

Parse == HeaderShort \/ ReadHeader \/ DepthSample \/ TimeSample
         \/ TemperatureSample \/ PressureSample \/ AlarmSample \/ OtherSample
         \/ ApneaSample \/ MiscSample \/ SubtypeMissing \/ InvalidType \/ Finish

ParseSpec == ParseInit /\ [][Parse]_parseVars
FairParseSpec == ParseSpec /\ WF_parseVars(Parse)

-----------------------------------------------------------------------------
(* Properties.  What a record says is defined without its bytes, from the  *)
(* samples written into it, d.written: [kind, v, start, len], behind start *)
(* bytes of the body and len bytes long.  An absolute pressure also names  *)
(* its tank; "mix" is a MISC sample that describes its mix, v the id, and  *)
(* "misc" one that does not; nothing is kept of "other".  Their bytes:     *)
MixIn(d, e) == LET b(i) == d.body[e.start + i] IN
  [id |-> b(3) - 32, o2 |-> b(4) + 256 * b(5), he |-> b(6) + 256 * b(7)]
IsMix(d, e) ==
  /\ d.body[e.start + 2] >= 16 /\ d.body[e.start + 3] \in 32 .. 41
  /\ MixIn(d, e).o2 # 0 \/ MixIn(d, e).he # 0

Kinds == {"depth", "absdepth", "time", "temperature", "abstemperature", "pressure",
          "abspressure", "gas", "mix", "misc", "apnea", "other"}
Signed(bits) == -(2 ^ (bits - 1)) .. 2 ^ (bits - 1) - 1
Unsigned(bits) == 0 .. 2 ^ bits - 1
Says(d, e) ==
  LET b(i) == d.body[e.start + i]
      Word == 256 * b(2) + b(3)
  IN /\ e.kind \in Kinds
     /\ e.kind = "depth" => e.len = 1 /\ e.v \in Signed(7) /\ b(1) = e.v % 2 ^ 7
     /\ e.kind = "absdepth" => e.len = 3 /\ b(1) = 241 /\ e.v = Word
     /\ e.kind = "time" => e.len = 1 /\ e.v \in Unsigned(4) /\ b(1) = 192 + e.v
     /\ e.kind = "temperature" => e.len = 1 /\ e.v \in Signed(4) /\ b(1) = 176 + (e.v % 2 ^ 4)
     /\ e.kind = "abstemperature" =>
          e.len = 3 /\ e.v \in Signed(16) /\ b(1) = 243 /\ Word = e.v % 2 ^ 16
     /\ e.kind = "pressure" => e.len = 1 /\ e.v \in Signed(4) /\ b(1) = 160 + (e.v % 2 ^ 4)
     /\ e.kind = "abspressure" =>
          /\ e.len = 3 /\ b(1) \in 244 .. 246
          /\ d.trimix => e.v \in Unsigned(12) /\ e.tank \in Unsigned(4) /\ Word = 4096 * e.tank + e.v
          /\ ~d.trimix => e.tank = b(1) - 244 /\ e.v = Word
     /\ e.kind = "gas" =>
          /\ e.len = 2
          /\ \/ b(1) = 240 /\ e.v = (b(2) \div 32) % 4
             \/ b(1) = 249 /\ d.trimix /\ e.v = b(2) \div 16
     /\ e.kind \in {"mix", "misc"} =>
          /\ e.len >= 2 /\ b(1) = 251 /\ e.len = 1 + b(2)
          /\ e.kind = "mix" <=> IsMix(d, e)
     /\ e.kind = "mix" => e.mix = MixIn(d, e) /\ e.v = e.mix.id
     /\ e.kind = "misc" => e.v = b(2)
     /\ e.kind = "apnea" => e.len = 9 /\ b(1) = 250
     /\ e.kind = "other" =>
          \/ e.len = 1 /\ b(1) \in (128 .. 159) \cup (208 .. 239)
          \/ e.len = 2 /\ (b(1) \in {242, 247} \/ (b(1) = 249 /\ ~d.trimix))
          \/ e.len = 3 /\ b(1) = 248

(* Nothing whole is behind p bytes of the body: it ends there, or there is *)
(* no type, a sample that is cut off, or one of no length.                 *)
Needs(d, p) ==
  LET b == d.body[p + 1] IN
  CASE b < 240                            -> 1
    [] b \in {240, 242, 247, 249}         -> 2
    [] b \in {241, 243, 244, 245, 246, 248} -> 3
    [] b = 250                            -> 9
    [] OTHER -> IF p + 2 <= Len(d.body) THEN 1 + d.body[p + 2] ELSE 2
Broken(d, p) ==
  \/ p = Len(d.body)
  \/ d.body[p + 1] > 251
  \/ p + Needs(d, p) > Len(d.body)
  \/ d.body[p + 1] = 251 /\ d.body[p + 2] = 0

EndOf(d, i) == IF i = 0 THEN 0 ELSE d.written[i].start + d.written[i].len
Encoded(d) ==
  /\ d.written \in Seq(Range(d.written))
  /\ \A i \in 0 .. Len(d.written) : EndOf(d, i) \in 0 .. Len(d.body)
  /\ \A i \in DOMAIN d.written :
       /\ d.written[i].start = EndOf(d, i - 1) /\ d.written[i].len \in Nat
       /\ Says(d, d.written[i])
  /\ Broken(d, EndOf(d, Len(d.written)))

(* The sums of f over the first i samples, for every i.                    *)
Total(d, f) ==
  LET t[i \in 0 .. Len(d.written)] == IF i = 0 THEN 0 ELSE t[i - 1] + f[i] IN t

Emits(d, i) == CASE d.written[i].kind \in {"depth", "absdepth"} -> 1
                 [] d.written[i].kind = "time" -> d.written[i].v
                 [] OTHER -> 0
Emitted(d)    == Total(d, [i \in DOMAIN d.written |-> Emits(d, i)])
Step(d)       == IF d.freedive THEN 1 ELSE 4
TimeBefore(d, i) == Step(d) * Emitted(d)[i - 1]

(* The value after i samples of a kind that has absolute samples and       *)
(* differences: that of the last absolute one, and the differences since.  *)
Entries(d, i, kinds) == {k \in 1 .. i : d.written[k].kind \in kinds}
LastOf(d, i, kinds)  == IF Entries(d, i, kinds) = {} THEN 0 ELSE Max(Entries(d, i, kinds))
Drift(d, delta) == Total(d, [i \in DOMAIN d.written |->
                               IF d.written[i].kind = delta THEN d.written[i].v ELSE 0])
ValueAt(d, i, abs, delta) ==
  LET a == LastOf(d, i, {abs}) IN
  (IF a = 0 THEN 0 ELSE d.written[a].v) + Drift(d, delta)[i] - Drift(d, delta)[a]

(* The j-th profile point of sample i.                                     *)
Surface(d, i) == d.written[Min(Entries(d, i, {"absdepth"}))].v
Meant(d, i, j) ==
  LET known(abs) == Entries(d, i, {abs}) # {}
      Value(abs, delta) == IF known(abs) THEN <<ValueAt(d, i, abs, delta)>> ELSE <<>>
  IN [time        |-> TimeBefore(d, i) + (j - 1) * Step(d),
      depth       |-> IF known("absdepth")
                      THEN ValueAt(d, i, "absdepth", "depth") - Surface(d, i) ELSE 0,
      temperature |-> Value("abstemperature", "temperature"),
      pressure    |-> Value("abspressure", "pressure")]

(* A dive that is parsed has the points that were written, of a record     *)
(* that is cut off those before the cut.                                   *)
SamplesMatch ==
  outcome = "done" =>
    /\ Len(samples) = Emitted(dive)[Len(dive.written)]
    /\ \A i \in DOMAIN dive.written : \A j \in 1 .. Emits(dive, i) :
         samples[Emitted(dive)[i - 1] + j] = Meant(dive, i, j)

(* The mix in use and the mixes described after i samples.                 *)
ActiveAt(d, i) ==
  LET g == LastOf(d, i, {"gas", "abspressure"}) IN
  IF g = 0 THEN 0 ELSE IF d.written[g].kind = "gas" THEN d.written[g].v ELSE d.written[g].tank
InHeader(d)       == {k - 1 : k \in {m \in 1 .. 3 : ~d.trimix /\ d.o2[m] # 0}}
DescribedAt(d, i) == InHeader(d) \cup {d.written[k].v : k \in Entries(d, i, {"mix"})}

(* The samples that lie on another mix than the one with points before.    *)
Emitting(d)  == {i \in DOMAIN d.written : Emits(d, i) > 0}
Before(d, i) == {k \in Emitting(d) : k < i}
Switches(d)  == {i \in Emitting(d) :
                   Before(d, i) = {} \/ ActiveAt(d, Max(Before(d, i))) # ActiveAt(d, i)}
Switched(d)  == Total(d, [i \in DOMAIN d.written |-> IF i \in Switches(d) THEN 1 ELSE 0])

(* The mix as it was described first. *)
FirstMix(d, i, id) ==
  IF id \in InHeader(d) THEN [id |-> id, o2 |-> d.o2[id + 1], he |-> 0]
  ELSE d.written[Min({k \in Entries(d, i, {"mix"}) : d.written[k].v = id})].mix

(* The cylinders are the mixes described, in the order of their ids, each  *)
(* as it was described first.                                              *)
CylindersMatch ==
  /\ Range(cylinders) = LET all == Len(dive.written) IN
                        {FirstMix(dive, all, id) : id \in DescribedAt(dive, all)}
  /\ \A b, c \in DOMAIN cylinders : b < c => cylinders[b].id < cylinders[c].id

(* If every mix is described before it is used, the changes are the        *)
(* switches in their order, each naming the cylinder of its mix.           *)
InOrder(d, i) == \A k \in Emitting(d) : k <= i => ActiveAt(d, k) \in DescribedAt(d, k)
SwitchesMatch ==
  InOrder(dive, Len(dive.written)) =>
    /\ Len(gas_changes) = Switched(dive)[Len(dive.written)]
    /\ \A i \in Switches(dive) :
         LET change == gas_changes[Switched(dive)[i]] IN
         change.time = TimeBefore(dive, i) /\ cylinders[change.mix].id = ActiveAt(dive, i)

(* The gases of a dive that is parsed are those of the record. *)
GasesMatch == outcome = "done" => CylindersMatch /\ SwitchesMatch

(* "Emit a gas-change event when the active mix changes": a sample on a    *)
(* mix that is described by then has a change to it at or before it.       *)
ChangeTo(id, t) == {k \in DOMAIN gas_changes :
                      gas_changes[k].time = t /\ cylinders[gas_changes[k].mix].id = id}
MixInUseRecorded ==
  outcome = "done" =>
    \A i \in Emitting(dive) : ActiveAt(dive, i) \in DescribedAt(dive, i) =>
      \E t \in 0 .. TimeBefore(dive, i) : ChangeTo(ActiveAt(dive, i), t) # {}

(* The one index out of range: a MISC sample of length one at the end.     *)
PanicsOnlyOnEmptyMisc ==
  outcome = "panic" => /\ dive.written # <<>>
                       /\ Last(dive.written).kind = "misc" /\ Last(dive.written).v = 1

(* Every record is parsed to its end, whatever is in it.                   *)
ParseEnds == <>(outcome \in {"done", "error", "panic"})
=============================================================================
