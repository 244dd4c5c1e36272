---------------------------- MODULE MCDiveParser ----------------------------
(* Records of up to MaxSamples samples of every kind, cut off or not, with *)
(* the bytes a Galileo writes for them.                                    *)
EXTENDS DiveParser

CONSTANT MaxSamples

MixOf(id, o2, he) == [kind |-> "mix", v |-> id, mix |-> [id |-> id, o2 |-> o2, he |-> he]]
Sample(kind, v)   == [kind |-> kind, v |-> v]
PressureOf(v, tank) == [kind |-> "abspressure", v |-> v, tank |-> tank]

Entry == {Sample("depth", -64), Sample("depth", 63), Sample("absdepth", 300),
          Sample("time", 0), Sample("time", 2),
          Sample("temperature", -8), Sample("abstemperature", -2),
          Sample("pressure", 7), PressureOf(259, 1),
          Sample("gas", 1), Sample("gas", 0), MixOf(1, 32, 0), MixOf(0, 0, 50),
          Sample("misc", 1), Sample("misc", 2), Sample("apnea", 0), Sample("other", 159),
          Sample("other", 242), Sample("other", 248)}

Zeros(k) == [i \in 1 .. k |-> 0]
Wrap(v, bits) == IF v < 0 THEN v + 2 ^ bits ELSE v
TwoBytes(v) == <<Wrap(v, 16) \div 256, Wrap(v, 16) % 256>>

Encode(e, trimix) ==
  CASE e.kind = "depth"          -> <<Wrap(e.v, 7)>>
    [] e.kind = "absdepth"       -> <<241>> \o TwoBytes(e.v)
    [] e.kind = "time"           -> <<192 + e.v>>
    [] e.kind = "temperature"    -> <<176 + Wrap(e.v, 4)>>
    [] e.kind = "abstemperature" -> <<243>> \o TwoBytes(e.v)
    [] e.kind = "pressure"       -> <<160 + Wrap(e.v, 4)>>
    [] e.kind = "abspressure"    -> IF trimix THEN <<244>> \o TwoBytes(4096 * e.tank + e.v)
                                    ELSE <<244 + e.tank>> \o TwoBytes(e.v)
    [] e.kind = "gas"            -> IF trimix THEN <<249, 16 * e.v + 15>> ELSE <<240, 32 * e.v + 31>>
    [] e.kind = "mix"            -> <<251, 16, 32 + e.v, e.mix.o2, 0, e.mix.he, 0>> \o Zeros(10)
    [] e.kind = "misc"           -> <<251, e.v>> \o Zeros(e.v - 1)
    [] e.kind = "apnea"          -> <<250>> \o [i \in 1 .. 8 |-> 252]
    [] e.kind = "other"          -> <<e.v>> \o Zeros(CASE e.v = 242 -> 1 [] e.v = 248 -> 2 [] OTHER -> 0)

Bytes(es, trimix) == FlattenSeq([i \in DOMAIN es |-> Encode(es[i], trimix)])
Written(es, trimix) ==
  [i \in DOMAIN es |-> es[i] @@ [start |-> Len(Bytes(SubSeq(es, 1, i - 1), trimix)),
                                len   |-> Len(Encode(es[i], trimix))]]

(* What is behind the samples in full: nothing, a byte that is no type, a  *)
(* MISC sample of no length or a sample cut short; behind one sample at    *)
(* most if it is anything.                                                 *)
Cut(b) == {SubSeq(b, 1, k) : k \in {1, 2, Len(b) - 1} \cap 1 .. Len(b) - 1}
Tails  == {<<>>, <<252>>, <<251, 0>>} \cup
          UNION {Cut(Encode(e, trimix)) : e \in Entry, trimix \in BOOLEAN}

Headers == {[trimix |-> TRUE,  freedive |-> FALSE, header |-> 84,  o2 |-> <<0, 0, 0>>],
            [trimix |-> FALSE, freedive |-> TRUE,  header |-> 152, o2 |-> <<21, 0, 0>>],
            [trimix |-> FALSE, freedive |-> FALSE, header |-> 152, o2 |-> <<0, 50, 0>>],
            [trimix |-> FALSE, freedive |-> FALSE, header |-> 84,  o2 |-> <<0, 0, 0>>]}

Contents == {c \in Headers \X BoundedSeq(Entry, MaxSamples) \X Tails :
               /\ c[3] = <<>> \/ Len(c[2]) <= 1
               /\ c[1].header = 84 /\ ~c[1].trimix => c[2] = <<>>}

MCDives == {c[1] @@ [body    |-> Bytes(c[2], c[1].trimix) \o c[3],
                     written |-> Written(c[2], c[1].trimix)] : c \in Contents}

(* They are what the properties are about. *)
ASSUME MCDivesEncoded == \A d \in MCDives : Encoded(d)
=============================================================================
