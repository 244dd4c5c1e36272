------------------------- MODULE SirFramingProofs -------------------------
(***************************************************************************)
(* What async_wrap and push achieve together, for any payloads, garbage    *)
(* and damage.  The check of a payload with its two bytes comes out right  *)
(* whatever the payload; push takes a stuffed frame apart again from any   *)
(* state; so every undamaged frame arrives.  And the check notices any one *)
(* byte that changed.                                                      *)
(*                                                                         *)
(* That no damaged frame passes (NothingMadeUp) has no proof for every     *)
(* value of the constants: sixteen bits of check leave frames that collide.*)
(***************************************************************************)
EXTENDS SirFraming, FiniteSetTheorems, SequenceTheorems, TLAPS

-----------------------------------------------------------------------------
(* Induction without an operator for a parameter, and the runs of the      *)
(* recursive functions of the module.                                      *)

(* A set that holds 0 and with each number the next leaves none out.  The  *)
(* numbers up to m that it left out would be as many as themselves moved   *)
(* down by one, m among neither.                                           *)
LEMMA SetInduction ==
  ASSUME NEW I, 0 \in I, \A n \in Nat : n \in I => n + 1 \in I
  PROVE  \A n \in Nat : n \in I
<1>1. SUFFICES ASSUME NEW m \in Nat, m \notin I PROVE FALSE
  OBVIOUS
<1> DEFINE C == {n \in 0 .. m : n \notin I}
           f == [n \in C |-> n - 1]
<1>2. IsFiniteSet(C)
  <2>1. IsFiniteSet(0 .. m)
    BY FS_Interval
  <2>2. QED
    BY <2>1, FS_Subset
<1>3. \A n \in C : n - 1 \in C
  <2>1. SUFFICES ASSUME NEW n \in C PROVE n - 1 \in C
    OBVIOUS
  <2>2. n \in 0 .. m /\ n \notin I /\ n # 0
    OBVIOUS
  <2>3. n - 1 \in Nat /\ (n - 1) + 1 = n /\ n - 1 \in 0 .. m
    BY <2>2
  <2>4. n - 1 \notin I
    BY <2>2, <2>3
  <2>5. QED
    BY <2>3, <2>4
<1>4. f \in Injection(C, C)
  <2>1. f \in [C -> C]
    BY <1>3
  <2>2. \A a, b \in C : f[a] = f[b] => a = b
    OBVIOUS
  <2>3. QED
    BY <2>1, <2>2 DEF Injection, IsInjective
<1>5. f \in Surjection(C, C)
  <2> HIDE DEF f, C
  <2>1. Cardinality(C) = Cardinality(C) <=> f \in Surjection(C, C)
    BY <1>2, <1>4, FS_Injection
  <2>2. QED
    BY <2>1
<1>6. m \in C
  BY <1>1
<1>7. PICK n \in C : f[n] = m
  BY <1>5, <1>6 DEF Surjection
<1>8. n - 1 = m /\ n \in 0 .. m
  BY <1>7
<1>9. QED
  BY <1>1, <1>8

-----------------------------------------------------------------------------
(* A run of m steps from start by the table next.                          *)
Steps(start, next, m, g) ==
  g[0] = start /\ \A n \in 1 .. m : g[n] = next[<<g[n - 1], n>>]

LEMMA StepsExist ==
  ASSUME NEW S, NEW start \in S, NEW m \in Nat,
         NEW next \in [S \X (1 .. m) -> S]
  PROVE  \E g \in [0 .. m -> S] : Steps(start, next, m, g)
<1> DEFINE I == {k \in Nat : k <= m => \E g \in [0 .. k -> S] : Steps(start, next, k, g)}
<1>1. 0 \in I
  <2> DEFINE g == [n \in 0 .. 0 |-> start]
  <2>1. g \in [0 .. 0 -> S]
    OBVIOUS
  <2>2. Steps(start, next, 0, g)
    BY DEF Steps
  <2> HIDE DEF g
  <2>3. \E h \in [0 .. 0 -> S] : Steps(start, next, 0, h)
    BY <2>1, <2>2
  <2>4. QED
    BY <2>3
<1>2. \A k \in Nat : k \in I => k + 1 \in I
  <2>1. SUFFICES ASSUME NEW k \in Nat, k \in I, k + 1 <= m
                 PROVE  \E g \in [0 .. k + 1 -> S] : Steps(start, next, k + 1, g)
    OBVIOUS
  <2>2. PICK h \in [0 .. k -> S] : Steps(start, next, k, h)
    BY <2>1
  <2> DEFINE g == [n \in 0 .. k + 1 |-> IF n <= k THEN h[n] ELSE next[<<h[k], k + 1>>]]
  <2>3. next[<<h[k], k + 1>>] \in S
    <3>1. h[k] \in S /\ k + 1 \in 1 .. m
      BY <2>1
    <3>2. QED
      BY <3>1
  <2>4. g \in [0 .. k + 1 -> S]
    BY <2>3
  <2>5. g[0] = start
    BY <2>2 DEF Steps
  <2>6. ASSUME NEW n \in 1 .. k + 1 PROVE g[n] = next[<<g[n - 1], n>>]
    <3>1. CASE n <= k
      <4>1. g[n] = h[n] /\ g[n - 1] = h[n - 1] /\ n \in 1 .. k
        BY <3>1
      <4>2. h[n] = next[<<h[n - 1], n>>]
        BY <4>1, <2>2 DEF Steps
      <4>3. QED
        BY <4>1, <4>2
    <3>2. CASE n = k + 1
      <4>1. g[k + 1] = next[<<h[k], k + 1>>] /\ g[k] = h[k] /\ (k + 1) - 1 = k
        OBVIOUS
      <4>2. QED
        BY <3>2, <4>1
    <3>3. QED
      BY <3>1, <3>2
  <2>7. Steps(start, next, k + 1, g)
    BY <2>5, <2>6 DEF Steps
  <2> HIDE DEF g
  <2>8. QED
    BY <2>4, <2>7
<1> HIDE DEF I
<1>3. m \in I
  BY <1>1, <1>2, SetInduction
<1>4. QED
  BY <1>3 DEF I

-----------------------------------------------------------------------------
StuffRun(s) ==
  CHOOSE run : run = [n \in 0 .. Len(s) |->
                        IF n = 0 THEN <<>> ELSE run[n - 1] \o stuff(s[n])]

LEMMA StuffedIsRun == \A s : Stuffed(s) = StuffRun(s)[Len(s)]
BY DEF Stuffed, StuffRun
LEMMA BytesMeant ==
  /\ BOF \in Byte /\ EOF \in Byte /\ CE \in Byte /\ XBOF \in Byte
  /\ IRDA_TRANS \in Byte
BY DEF BOF, EOF, CE, XBOF, IRDA_TRANS, Byte

LEMMA XorByte == \A a, b \in Byte : Xor(a, b) \in Byte
BY DEF Byte, Xor

LEMMA BytesConcatType == \A s, t \in Seq(Byte) : s \o t \in Seq(Byte)
OBVIOUS

LEMMA OneByte == \A b \in Byte : <<b>> \in Seq(Byte)
OBVIOUS

LEMMA StuffType == \A b \in Byte : stuff(b) \in Seq(Byte)
<1> TAKE b \in Byte
<1>1. CE \in Byte /\ Xor(b, IRDA_TRANS) \in Byte
  BY BytesMeant, XorByte
<1>2. <<CE, Xor(b, IRDA_TRANS)>> \in Seq(Byte)
  BY <1>1
<1>3. <<b>> \in Seq(Byte)
  OBVIOUS
<1>4. QED
  BY <1>2, <1>3 DEF stuff
(* The run of Stuffed:                                                     *)
LEMMA StuffRunSteps ==
  ASSUME NEW s \in Seq(Byte)
  PROVE  /\ StuffRun(s)[0] = <<>>
         /\ \A n \in 0 .. Len(s) : StuffRun(s)[n] \in Seq(Byte)
         /\ \A n \in 1 .. Len(s) : StuffRun(s)[n] = StuffRun(s)[n - 1] \o stuff(s[n])
<1> DEFINE S == Seq(Byte)
           next == [x \in S \X (1 .. Len(s)) |-> x[1] \o stuff(s[x[2]])]
           body(g) == [n \in 0 .. Len(s) |-> IF n = 0 THEN <<>> ELSE g[n - 1] \o stuff(s[n])]
<1>1. next \in [S \X (1 .. Len(s)) -> S]
  <2>1. SUFFICES ASSUME NEW x \in S \X (1 .. Len(s)) PROVE x[1] \o stuff(s[x[2]]) \in S
    OBVIOUS
  <2>2. x[1] \in Seq(Byte) /\ s[x[2]] \in Byte
    OBVIOUS
  <2>3. stuff(s[x[2]]) \in Seq(Byte)
    BY <2>2, StuffType
  <2>4. QED
    BY <2>2, <2>3, BytesConcatType
<1>2. <<>> \in S /\ Len(s) \in Nat
  OBVIOUS
<1>3. PICK g \in [0 .. Len(s) -> S] : Steps(<<>>, next, Len(s), g)
  <2> HIDE DEF next, S
  <2>1. QED
    BY <1>1, <1>2, StepsExist
<1>4. ASSUME NEW n \in 0 .. Len(s)
      PROVE  g[n] = IF n = 0 THEN <<>> ELSE g[n - 1] \o stuff(s[n])
  <2>1. CASE n = 0
    BY <2>1, <1>3 DEF Steps
  <2>2. CASE n # 0
    <3>1. n \in 1 .. Len(s) /\ n - 1 \in 0 .. Len(s)
      BY <2>2
    <3>2. g[n] = next[<<g[n - 1], n>>]
      BY <3>1, <1>3 DEF Steps
    <3>3. g[n - 1] \in S
      BY <3>1
    <3>4. <<g[n - 1], n>> \in S \X (1 .. Len(s))
      BY <3>1, <3>3
    <3>5. QED
      BY <2>2, <3>2, <3>4
  <2>3. QED
    BY <2>1, <2>2
<1>5. g = body(g)
  BY <1>4
<1>6. StuffRun(s) = body(StuffRun(s))
  <2>1. StuffRun(s) = CHOOSE run : run = body(run)
    BY DEF StuffRun
  <2> HIDE DEF body
  <2>2. QED
    BY <1>5, <2>1
<1> DEFINE r == StuffRun(s)
<1>7. \A n \in 0 .. Len(s) : r[n] = IF n = 0 THEN <<>> ELSE r[n - 1] \o stuff(s[n])
  BY <1>6
<1> HIDE DEF r
<1>8. r[0] = <<>>
  <2>1. 0 \in 0 .. Len(s)
    BY <1>2
  <2>2. r[0] = IF 0 = 0 THEN <<>> ELSE r[0 - 1] \o stuff(s[0])
    BY ONLY <2>1, <1>7
  <2>3. QED
    BY ONLY <2>2
<1>9. \A n \in 1 .. Len(s) : r[n] = r[n - 1] \o stuff(s[n])
  <2>1. SUFFICES ASSUME NEW n \in 1 .. Len(s) PROVE r[n] = r[n - 1] \o stuff(s[n])
    OBVIOUS
  <2>2. n \in 0 .. Len(s) /\ n # 0
    BY <1>2
  <2>3. r[n] = IF n = 0 THEN <<>> ELSE r[n - 1] \o stuff(s[n])
    BY ONLY <2>2, <1>7
  <2>4. QED
    BY ONLY <2>2, <2>3
<1>10. \A n \in 0 .. Len(s) : r[n] \in Seq(Byte)
  <2> DEFINE I == {n \in Nat : n <= Len(s) => r[n] \in Seq(Byte)}
  <2>1. 0 \in I
    <3>1. r[0] \in Seq(Byte)
      BY <1>8, <1>2
    <3>2. QED
      BY <3>1
  <2>2. \A n \in Nat : n \in I => n + 1 \in I
    <3>1. SUFFICES ASSUME NEW n \in Nat, n \in I, n + 1 <= Len(s) PROVE r[n + 1] \in Seq(Byte)
      OBVIOUS
    <3>2. r[n] \in Seq(Byte)
      BY <3>1, <1>2
    <3>3. n + 1 \in 1 .. Len(s) /\ (n + 1) - 1 = n
      BY <3>1, <1>2
    <3>4. r[n + 1] = r[n] \o stuff(s[n + 1])
      BY <3>3, <1>9
    <3>5. stuff(s[n + 1]) \in Seq(Byte)
      BY <3>3, StuffType
    <3>6. QED
      BY <3>2, <3>4, <3>5, BytesConcatType
  <2> HIDE DEF I
  <2>3. \A n \in Nat : n \in I
    BY <2>1, <2>2, SetInduction
  <2>4. QED
    BY <2>3 DEF I
<1>11. QED
  BY <1>8, <1>9, <1>10 DEF r

-----------------------------------------------------------------------------
(* The frame check sequence, bit by bit.                                   *)

Fcs == SUBSET (0 .. 15)

(* One turn of the loop of crc_ccitt_byte.                                 *)
Shifted(c) == IF 0 \in c THEN Xor(ShiftRight(c), POLY) ELSE ShiftRight(c)

Shifted8(c) ==
  Shifted(Shifted(Shifted(Shifted(Shifted(Shifted(Shifted(Shifted(c))))))))

LEMMA ShiftedType == \A c \in Fcs : Shifted(c) \in Fcs
<1> TAKE c \in Fcs
<1>1. ShiftRight(c) \in Fcs
  BY DEF ShiftRight, Fcs
<1>2. \A a \in Fcs : Xor(a, POLY) \in Fcs
  BY DEF Xor, POLY, Fcs
<1>3. QED
  BY <1>1, <1>2 DEF Shifted

LEMMA CrcByteSteps ==
  \A crc \in Fcs, byte \in Byte : crc_ccitt_byte(crc, byte) = Shifted8(Xor(crc, byte))
<1> TAKE crc \in Fcs, byte \in Byte
<1> DEFINE x == Xor(crc, byte)
           table == [y \in Fcs \X (1 .. 8) |-> Shifted(y[1])]
           body(g) == [n \in 0 .. 8 |->
                         IF n = 0 THEN Xor(crc, byte)
                         ELSE IF 0 \in g[n - 1] THEN Xor(ShiftRight(g[n - 1]), POLY)
                         ELSE ShiftRight(g[n - 1])]
           step == CHOOSE g : g = body(g)
<1>1. x \in Fcs
  BY DEF Xor, Fcs, Byte
<1>2. table \in [Fcs \X (1 .. 8) -> Fcs]
  BY ShiftedType
<1>3. PICK g \in [0 .. 8 -> Fcs] : Steps(x, table, 8, g)
  <2> HIDE DEF table, x
  <2>1. QED
    BY <1>1, <1>2, StepsExist
<1>4. ASSUME NEW n \in 0 .. 8 PROVE g[n] = body(g)[n]
  <2>1. CASE n = 0
    BY <2>1, <1>3 DEF Steps
  <2>2. CASE n # 0
    <3>1. n \in 1 .. 8 /\ n - 1 \in 0 .. 8
      BY <2>2
    <3>2. g[n] = table[<<g[n - 1], n>>] /\ <<g[n - 1], n>> \in Fcs \X (1 .. 8)
      BY <3>1, <1>3 DEF Steps
    <3>3. g[n] = Shifted(g[n - 1])
      BY <3>2
    <3>4. QED
      BY <3>3, <3>1, <2>2 DEF Shifted
  <2>3. QED
    BY <2>1, <2>2
<1>5. g = body(g)
  BY <1>4
<1>6. step = body(step)
  <2> HIDE DEF body
  <2>1. QED
    BY <1>5
<1>7. crc_ccitt_byte(crc, byte) = step[8]
  BY DEF crc_ccitt_byte
<1> HIDE DEF step
<1>8. step[0] = x
  BY <1>6
<1>9. \A n \in 1 .. 8 : step[n] = Shifted(step[n - 1])
  <2>1. TAKE n \in 1 .. 8
  <2>2. n \in 0 .. 8 /\ n # 0
    OBVIOUS
  <2>3. QED
    BY <2>2, <1>6 DEF Shifted
<1> HIDE DEF x
<1>10. /\ step[1] = Shifted(step[0]) /\ step[2] = Shifted(step[1])
       /\ step[3] = Shifted(step[2]) /\ step[4] = Shifted(step[3])
       /\ step[5] = Shifted(step[4]) /\ step[6] = Shifted(step[5])
       /\ step[7] = Shifted(step[6]) /\ step[8] = Shifted(step[7])
  <2>1. \A n \in 1 .. 8 : \A m \in Int : m = n - 1 => step[n] = Shifted(step[m])
    BY <1>9
  <2> HIDE DEF table, body
  <2>2. QED
    BY ONLY <2>1
<1>11. QED
  BY ONLY <1>7, <1>8, <1>10 DEF Shifted8, x

LEMMA CrcByteType ==
  \A crc \in Fcs, byte \in Byte : crc_ccitt_byte(crc, byte) \in Fcs
<1> TAKE crc \in Fcs, byte \in Byte
<1>1. Xor(crc, byte) \in Fcs
  BY DEF Xor, Fcs, Byte
<1>2. QED
  BY <1>1, ShiftedType, CrcByteSteps DEF Shifted8

(* The bits of the upper half, moved down.                                 *)
Moved(H, k) == {i - k : i \in H}

LEMMA ShiftedXor ==
  ASSUME NEW K \in Fcs, NEW H \in SUBSET (8 .. 15), NEW k \in 0 .. 7
  PROVE  Shifted(Xor(K, Moved(H, k))) = Xor(Shifted(K), Moved(H, k + 1))
<1> DEFINE M == Moved(H, k)
<1>1. M \subseteq 1 .. 15
  BY DEF Moved
<1>2. ShiftRight(M) = Moved(H, k + 1)
  <2>1. M \ {0} = M
    BY <1>1
  <2>2. ShiftRight(M) = {i - 1 : i \in M}
    BY <2>1 DEF ShiftRight
  <2>3. {i - 1 : i \in Moved(H, k)} = {(i - k) - 1 : i \in H}
    BY Zenon DEF Moved
  <2>4. \A i \in H : (i - k) - 1 = i - (k + 1)
    OBVIOUS
  <2>5. {(i - k) - 1 : i \in H} = {i - (k + 1) : i \in H}
    BY <2>4, Zenon
  <2>6. QED
    BY <2>2, <2>3, <2>5 DEF M, Moved
<1> HIDE DEF M
<1>3. 0 \in Xor(K, M) <=> 0 \in K
  BY <1>1 DEF Xor
<1>4. ShiftRight(Xor(K, M)) = Xor(ShiftRight(K), ShiftRight(M))
  <2>1. \A S \in SUBSET Int : \A j \in Int : j \in ShiftRight(S) <=> j # -1 /\ j + 1 \in S
    BY DEF ShiftRight
  <2>2. \A S \in SUBSET Int : ShiftRight(S) \subseteq Int
    BY DEF ShiftRight
  <2>3. K \subseteq Int /\ M \subseteq Int /\ Xor(K, M) \subseteq Int
    BY <1>1 DEF Fcs, Xor
  <2>4. Xor(ShiftRight(K), ShiftRight(M)) \subseteq Int
    BY <2>2, <2>3 DEF Xor
  <2>5. \A j \in Int : j \in ShiftRight(Xor(K, M)) <=> j \in Xor(ShiftRight(K), ShiftRight(M))
    BY <2>1, <2>3 DEF Xor
  <2>6. QED
    BY <2>2, <2>3, <2>4, <2>5
<1>5. \A a, b, c : Xor(Xor(a, b), c) = Xor(Xor(a, c), b)
  BY DEF Xor
<1>6. QED
  BY <1>2, <1>3, <1>4, <1>5 DEF Shifted, M

(* The turns of the loop from the constant parts of the state.             *)
LEMMA FirstByteSteps ==
  /\ Shifted({0, 1, 2, 3, 4, 5, 6, 7}) = {0, 1, 2, 4, 5, 6, 10, 15}
  /\ Shifted({0, 1, 2, 4, 5, 6, 10, 15}) = {0, 1, 4, 5, 9, 10, 14, 15}
  /\ Shifted({0, 1, 4, 5, 9, 10, 14, 15}) = {0, 4, 8, 9, 10, 13, 14, 15}
  /\ Shifted({0, 4, 8, 9, 10, 13, 14, 15}) = {7, 8, 9, 10, 12, 13, 14, 15}
  /\ Shifted({7, 8, 9, 10, 12, 13, 14, 15}) = {6, 7, 8, 9, 11, 12, 13, 14}
  /\ Shifted({6, 7, 8, 9, 11, 12, 13, 14}) = {5, 6, 7, 8, 10, 11, 12, 13}
  /\ Shifted({5, 6, 7, 8, 10, 11, 12, 13}) = {4, 5, 6, 7, 9, 10, 11, 12}
  /\ Shifted({4, 5, 6, 7, 9, 10, 11, 12}) = {3, 4, 5, 6, 8, 9, 10, 11}
<1>1. Shifted({0, 1, 2, 3, 4, 5, 6, 7}) = {0, 1, 2, 4, 5, 6, 10, 15}
  <2>1. ShiftRight({0, 1, 2, 3, 4, 5, 6, 7}) = {0, 1, 2, 3, 4, 5, 6}
    BY DEF ShiftRight
  <2>2. Xor({0, 1, 2, 3, 4, 5, 6}, POLY) = {0, 1, 2, 4, 5, 6, 10, 15}
    BY DEF Xor, POLY
  <2>3. 0 \in {0, 1, 2, 3, 4, 5, 6, 7}
    OBVIOUS
  <2>4. QED
    BY <2>1, <2>2, <2>3 DEF Shifted
<1>2. Shifted({0, 1, 2, 4, 5, 6, 10, 15}) = {0, 1, 4, 5, 9, 10, 14, 15}
  <2>1. ShiftRight({0, 1, 2, 4, 5, 6, 10, 15}) = {0, 1, 3, 4, 5, 9, 14}
    BY DEF ShiftRight
  <2>2. Xor({0, 1, 3, 4, 5, 9, 14}, POLY) = {0, 1, 4, 5, 9, 10, 14, 15}
    BY DEF Xor, POLY
  <2>3. 0 \in {0, 1, 2, 4, 5, 6, 10, 15}
    OBVIOUS
  <2>4. QED
    BY <2>1, <2>2, <2>3 DEF Shifted
<1>3. Shifted({0, 1, 4, 5, 9, 10, 14, 15}) = {0, 4, 8, 9, 10, 13, 14, 15}
  <2>1. ShiftRight({0, 1, 4, 5, 9, 10, 14, 15}) = {0, 3, 4, 8, 9, 13, 14}
    BY DEF ShiftRight
  <2>2. Xor({0, 3, 4, 8, 9, 13, 14}, POLY) = {0, 4, 8, 9, 10, 13, 14, 15}
    BY DEF Xor, POLY
  <2>3. 0 \in {0, 1, 4, 5, 9, 10, 14, 15}
    OBVIOUS
  <2>4. QED
    BY <2>1, <2>2, <2>3 DEF Shifted
<1>4. Shifted({0, 4, 8, 9, 10, 13, 14, 15}) = {7, 8, 9, 10, 12, 13, 14, 15}
  <2>1. ShiftRight({0, 4, 8, 9, 10, 13, 14, 15}) = {3, 7, 8, 9, 12, 13, 14}
    BY DEF ShiftRight
  <2>2. Xor({3, 7, 8, 9, 12, 13, 14}, POLY) = {7, 8, 9, 10, 12, 13, 14, 15}
    BY DEF Xor, POLY
  <2>3. 0 \in {0, 4, 8, 9, 10, 13, 14, 15}
    OBVIOUS
  <2>4. QED
    BY <2>1, <2>2, <2>3 DEF Shifted
<1>5. Shifted({7, 8, 9, 10, 12, 13, 14, 15}) = {6, 7, 8, 9, 11, 12, 13, 14}
  <2>1. ShiftRight({7, 8, 9, 10, 12, 13, 14, 15}) = {6, 7, 8, 9, 11, 12, 13, 14}
    BY DEF ShiftRight
  <2>2. 0 \notin {7, 8, 9, 10, 12, 13, 14, 15}
    OBVIOUS
  <2>3. QED
    BY <2>1, <2>2 DEF Shifted
<1>6. Shifted({6, 7, 8, 9, 11, 12, 13, 14}) = {5, 6, 7, 8, 10, 11, 12, 13}
  <2>1. ShiftRight({6, 7, 8, 9, 11, 12, 13, 14}) = {5, 6, 7, 8, 10, 11, 12, 13}
    BY DEF ShiftRight
  <2>2. 0 \notin {6, 7, 8, 9, 11, 12, 13, 14}
    OBVIOUS
  <2>3. QED
    BY <2>1, <2>2 DEF Shifted
<1>7. Shifted({5, 6, 7, 8, 10, 11, 12, 13}) = {4, 5, 6, 7, 9, 10, 11, 12}
  <2>1. ShiftRight({5, 6, 7, 8, 10, 11, 12, 13}) = {4, 5, 6, 7, 9, 10, 11, 12}
    BY DEF ShiftRight
  <2>2. 0 \notin {5, 6, 7, 8, 10, 11, 12, 13}
    OBVIOUS
  <2>3. QED
    BY <2>1, <2>2 DEF Shifted
<1>8. Shifted({4, 5, 6, 7, 9, 10, 11, 12}) = {3, 4, 5, 6, 8, 9, 10, 11}
  <2>1. ShiftRight({4, 5, 6, 7, 9, 10, 11, 12}) = {3, 4, 5, 6, 8, 9, 10, 11}
    BY DEF ShiftRight
  <2>2. 0 \notin {4, 5, 6, 7, 9, 10, 11, 12}
    OBVIOUS
  <2>3. QED
    BY <2>1, <2>2 DEF Shifted
<1>9. QED
  BY ONLY <1>1, <1>2, <1>3, <1>4, <1>5, <1>6, <1>7, <1>8

LEMMA SecondByteSteps ==
  /\ Shifted({0, 1, 2, 7, 8, 9, 10, 11}) = {0, 1, 3, 6, 7, 8, 9, 15}
  /\ Shifted({0, 1, 3, 6, 7, 8, 9, 15}) = {0, 2, 3, 5, 6, 7, 8, 10, 14, 15}
  /\ Shifted({0, 2, 3, 5, 6, 7, 8, 10, 14, 15}) = {1, 2, 3, 4, 5, 6, 7, 9, 10, 13, 14, 15}
  /\ Shifted({1, 2, 3, 4, 5, 6, 7, 9, 10, 13, 14, 15}) = {0, 1, 2, 3, 4, 5, 6, 8, 9, 12, 13, 14}
  /\ Shifted({0, 1, 2, 3, 4, 5, 6, 8, 9, 12, 13, 14}) = {0, 1, 2, 4, 5, 7, 8, 10, 11, 12, 13, 15}
  /\ Shifted({0, 1, 2, 4, 5, 7, 8, 10, 11, 12, 13, 15}) = {0, 1, 4, 6, 7, 9, 11, 12, 14, 15}
  /\ Shifted({0, 1, 4, 6, 7, 9, 11, 12, 14, 15}) = {0, 5, 6, 8, 11, 13, 14, 15}
  /\ Shifted({0, 5, 6, 8, 11, 13, 14, 15}) = {3, 4, 5, 7, 12, 13, 14, 15}
<1>1. Shifted({0, 1, 2, 7, 8, 9, 10, 11}) = {0, 1, 3, 6, 7, 8, 9, 15}
  <2>1. ShiftRight({0, 1, 2, 7, 8, 9, 10, 11}) = {0, 1, 6, 7, 8, 9, 10}
    BY DEF ShiftRight
  <2>2. Xor({0, 1, 6, 7, 8, 9, 10}, POLY) = {0, 1, 3, 6, 7, 8, 9, 15}
    BY DEF Xor, POLY
  <2>3. 0 \in {0, 1, 2, 7, 8, 9, 10, 11}
    OBVIOUS
  <2>4. QED
    BY <2>1, <2>2, <2>3 DEF Shifted
<1>2. Shifted({0, 1, 3, 6, 7, 8, 9, 15}) = {0, 2, 3, 5, 6, 7, 8, 10, 14, 15}
  <2>1. ShiftRight({0, 1, 3, 6, 7, 8, 9, 15}) = {0, 2, 5, 6, 7, 8, 14}
    BY DEF ShiftRight
  <2>2. Xor({0, 2, 5, 6, 7, 8, 14}, POLY) = {0, 2, 3, 5, 6, 7, 8, 10, 14, 15}
    BY DEF Xor, POLY
  <2>3. 0 \in {0, 1, 3, 6, 7, 8, 9, 15}
    OBVIOUS
  <2>4. QED
    BY <2>1, <2>2, <2>3 DEF Shifted
<1>3. Shifted({0, 2, 3, 5, 6, 7, 8, 10, 14, 15}) = {1, 2, 3, 4, 5, 6, 7, 9, 10, 13, 14, 15}
  <2>1. ShiftRight({0, 2, 3, 5, 6, 7, 8, 10, 14, 15}) = {1, 2, 4, 5, 6, 7, 9, 13, 14}
    BY DEF ShiftRight
  <2>2. Xor({1, 2, 4, 5, 6, 7, 9, 13, 14}, POLY) = {1, 2, 3, 4, 5, 6, 7, 9, 10, 13, 14, 15}
    BY DEF Xor, POLY
  <2>3. 0 \in {0, 2, 3, 5, 6, 7, 8, 10, 14, 15}
    OBVIOUS
  <2>4. QED
    BY <2>1, <2>2, <2>3 DEF Shifted
<1>4. Shifted({1, 2, 3, 4, 5, 6, 7, 9, 10, 13, 14, 15}) = {0, 1, 2, 3, 4, 5, 6, 8, 9, 12, 13, 14}
  <2>1. ShiftRight({1, 2, 3, 4, 5, 6, 7, 9, 10, 13, 14, 15}) = {0, 1, 2, 3, 4, 5, 6, 8, 9, 12, 13, 14}
    BY DEF ShiftRight
  <2>2. 0 \notin {1, 2, 3, 4, 5, 6, 7, 9, 10, 13, 14, 15}
    OBVIOUS
  <2>3. QED
    BY <2>1, <2>2 DEF Shifted
<1>5. Shifted({0, 1, 2, 3, 4, 5, 6, 8, 9, 12, 13, 14}) = {0, 1, 2, 4, 5, 7, 8, 10, 11, 12, 13, 15}
  <2>1. ShiftRight({0, 1, 2, 3, 4, 5, 6, 8, 9, 12, 13, 14}) = {0, 1, 2, 3, 4, 5, 7, 8, 11, 12, 13}
    BY DEF ShiftRight
  <2>2. Xor({0, 1, 2, 3, 4, 5, 7, 8, 11, 12, 13}, POLY) = {0, 1, 2, 4, 5, 7, 8, 10, 11, 12, 13, 15}
    BY DEF Xor, POLY
  <2>3. 0 \in {0, 1, 2, 3, 4, 5, 6, 8, 9, 12, 13, 14}
    OBVIOUS
  <2>4. QED
    BY <2>1, <2>2, <2>3 DEF Shifted
<1>6. Shifted({0, 1, 2, 4, 5, 7, 8, 10, 11, 12, 13, 15}) = {0, 1, 4, 6, 7, 9, 11, 12, 14, 15}
  <2>1. ShiftRight({0, 1, 2, 4, 5, 7, 8, 10, 11, 12, 13, 15}) = {0, 1, 3, 4, 6, 7, 9, 10, 11, 12, 14}
    BY DEF ShiftRight
  <2>2. Xor({0, 1, 3, 4, 6, 7, 9, 10, 11, 12, 14}, POLY) = {0, 1, 4, 6, 7, 9, 11, 12, 14, 15}
    BY DEF Xor, POLY
  <2>3. 0 \in {0, 1, 2, 4, 5, 7, 8, 10, 11, 12, 13, 15}
    OBVIOUS
  <2>4. QED
    BY <2>1, <2>2, <2>3 DEF Shifted
<1>7. Shifted({0, 1, 4, 6, 7, 9, 11, 12, 14, 15}) = {0, 5, 6, 8, 11, 13, 14, 15}
  <2>1. ShiftRight({0, 1, 4, 6, 7, 9, 11, 12, 14, 15}) = {0, 3, 5, 6, 8, 10, 11, 13, 14}
    BY DEF ShiftRight
  <2>2. Xor({0, 3, 5, 6, 8, 10, 11, 13, 14}, POLY) = {0, 5, 6, 8, 11, 13, 14, 15}
    BY DEF Xor, POLY
  <2>3. 0 \in {0, 1, 4, 6, 7, 9, 11, 12, 14, 15}
    OBVIOUS
  <2>4. QED
    BY <2>1, <2>2, <2>3 DEF Shifted
<1>8. Shifted({0, 5, 6, 8, 11, 13, 14, 15}) = {3, 4, 5, 7, 12, 13, 14, 15}
  <2>1. ShiftRight({0, 5, 6, 8, 11, 13, 14, 15}) = {4, 5, 7, 10, 12, 13, 14}
    BY DEF ShiftRight
  <2>2. Xor({4, 5, 7, 10, 12, 13, 14}, POLY) = {3, 4, 5, 7, 12, 13, 14, 15}
    BY DEF Xor, POLY
  <2>3. 0 \in {0, 5, 6, 8, 11, 13, 14, 15}
    OBVIOUS
  <2>4. QED
    BY <2>1, <2>2, <2>3 DEF Shifted
<1>9. QED
  BY ONLY <1>1, <1>2, <1>3, <1>4, <1>5, <1>6, <1>7, <1>8

(* The first byte of the check: the low half is all ones, whatever it was. *)
LEMMA FirstByteShifted ==
  ASSUME NEW H \in SUBSET (8 .. 15)
  PROVE  Shifted8(Xor({0, 1, 2, 3, 4, 5, 6, 7}, Moved(H, 0)))
           = Xor({3, 4, 5, 6, 8, 9, 10, 11}, Moved(H, 8))
<1> DEFINE K0 == {0, 1, 2, 3, 4, 5, 6, 7}
           K1 == {0, 1, 2, 4, 5, 6, 10, 15}
           K2 == {0, 1, 4, 5, 9, 10, 14, 15}
           K3 == {0, 4, 8, 9, 10, 13, 14, 15}
           K4 == {7, 8, 9, 10, 12, 13, 14, 15}
           K5 == {6, 7, 8, 9, 11, 12, 13, 14}
           K6 == {5, 6, 7, 8, 10, 11, 12, 13}
           K7 == {4, 5, 6, 7, 9, 10, 11, 12}
           K8 == {3, 4, 5, 6, 8, 9, 10, 11}
<1>1. /\ Shifted(K0) = K1 /\ Shifted(K1) = K2
      /\ Shifted(K2) = K3 /\ Shifted(K3) = K4
      /\ Shifted(K4) = K5 /\ Shifted(K5) = K6
      /\ Shifted(K6) = K7 /\ Shifted(K7) = K8
  BY FirstByteSteps, Zenon
<1>2. K0 \in Fcs /\ K1 \in Fcs /\ K2 \in Fcs /\ K3 \in Fcs
      /\ K4 \in Fcs /\ K5 \in Fcs /\ K6 \in Fcs /\ K7 \in Fcs
  BY DEF Fcs
<1> HIDE DEF K0, K1, K2, K3, K4, K5, K6, K7, K8
<1>3. \A K \in Fcs, k \in 0 .. 7, l \in 1 .. 8 : l = k + 1 =>
        Shifted(Xor(K, Moved(H, k))) = Xor(Shifted(K), Moved(H, l))
  BY ShiftedXor
<1>4. Shifted(Xor(K0, Moved(H, 0))) = Xor(K1, Moved(H, 1))
  BY ONLY <1>1, <1>2, <1>3
<1>5. Shifted(Xor(K1, Moved(H, 1))) = Xor(K2, Moved(H, 2))
  BY ONLY <1>1, <1>2, <1>3
<1>6. Shifted(Xor(K2, Moved(H, 2))) = Xor(K3, Moved(H, 3))
  BY ONLY <1>1, <1>2, <1>3
<1>7. Shifted(Xor(K3, Moved(H, 3))) = Xor(K4, Moved(H, 4))
  BY ONLY <1>1, <1>2, <1>3
<1>8. Shifted(Xor(K4, Moved(H, 4))) = Xor(K5, Moved(H, 5))
  BY ONLY <1>1, <1>2, <1>3
<1>9. Shifted(Xor(K5, Moved(H, 5))) = Xor(K6, Moved(H, 6))
  BY ONLY <1>1, <1>2, <1>3
<1>10. Shifted(Xor(K6, Moved(H, 6))) = Xor(K7, Moved(H, 7))
  BY ONLY <1>1, <1>2, <1>3
<1>11. Shifted(Xor(K7, Moved(H, 7))) = Xor(K8, Moved(H, 8))
  BY ONLY <1>1, <1>2, <1>3
<1>12. Shifted8(Xor(K0, Moved(H, 0))) = Xor(K8, Moved(H, 8))
  BY ONLY <1>4, <1>5, <1>6, <1>7, <1>8, <1>9, <1>10, <1>11 DEF Shifted8
<1>13. QED
  BY <1>12 DEF K0, K8

LEMMA SecondByteShifted ==
  Shifted8({0, 1, 2, 7, 8, 9, 10, 11}) = GOOD_FCS
BY SecondByteSteps DEF Shifted8, GOOD_FCS

(* The two bytes of the check, run on from any state: always the residue.  *)
LEMMA ResidueIsGood ==
  ASSUME NEW c \in Fcs, NEW lo, NEW hi,
         lo = ((0 .. 15) \ c) \cap (0 .. 7),
         hi = {i - 8 : i \in ((0 .. 15) \ c) \cap (8 .. 15)}
  PROVE  /\ lo \in Byte /\ hi \in Byte
         /\ crc_ccitt_byte(crc_ccitt_byte(c, lo), hi) = GOOD_FCS
<1> DEFINE H == c \cap (8 .. 15)
<1>1. lo \in Byte
  BY DEF Byte
<1>2. hi \in Byte
  BY DEF Byte
<1>3. Xor(c, lo) = Xor({0, 1, 2, 3, 4, 5, 6, 7}, Moved(H, 0))
  <2>1. Moved(H, 0) = H
    BY DEF Moved
  <2>2. {0, 1, 2, 3, 4, 5, 6, 7} = 0 .. 7
    OBVIOUS
  <2>3. Xor(c, lo) = (0 .. 7) \cup H
    <3>1. \A j \in c : j \in 0 .. 15
      BY DEF Fcs
    <3>2. \A j : j \in Xor(c, lo) <=> (j \in c /\ j \notin lo) \/ (j \in lo /\ j \notin c)
      BY DEF Xor
    <3>3. \A j : j \in lo <=> j \in 0 .. 7 /\ j \notin c
      OBVIOUS
    <3>4. \A j : j \in Xor(c, lo) <=> j \in 0 .. 7 \/ j \in c
      BY <3>1, <3>2, <3>3
    <3>5. \A j : j \in 0 .. 7 \/ j \in c <=> j \in 0 .. 7 \/ j \in c \cap (8 .. 15)
      BY <3>1
    <3>6. QED
      BY <3>4, <3>5
  <2>4. Xor(0 .. 7, H) = (0 .. 7) \cup H
    BY DEF Xor
  <2>5. QED
    BY <2>1, <2>2, <2>3, <2>4
<1>4. crc_ccitt_byte(c, lo) = Xor({3, 4, 5, 6, 8, 9, 10, 11}, Moved(H, 8))
  BY <1>1, <1>3, CrcByteSteps, FirstByteShifted
<1>5. Xor(crc_ccitt_byte(c, lo), hi) = {0, 1, 2, 7, 8, 9, 10, 11}
  <2>1. \A j \in 0 .. 7 : j \in Moved(H, 8) <=> j + 8 \in c
    BY DEF Moved
  <2>2. \A j \in 0 .. 7 : j \in hi <=> j + 8 \notin c
    OBVIOUS
  <2>3. Moved(H, 8) \subseteq 0 .. 7 /\ hi \subseteq 0 .. 7
    BY DEF Moved
  <2>4. Xor(Moved(H, 8), hi) = 0 .. 7
    BY <2>1, <2>2, <2>3 DEF Xor
  <2>5. \A a, b, d : Xor(Xor(a, b), d) = Xor(a, Xor(b, d))
    BY DEF Xor
  <2> DEFINE K == {3, 4, 5, 6, 8, 9, 10, 11}
  <2>6. Xor(K, 0 .. 7) = {0, 1, 2, 7, 8, 9, 10, 11}
    BY DEF Xor
  <2>7. crc_ccitt_byte(c, lo) = Xor(K, Moved(H, 8))
    BY <1>4
  <2> HIDE DEF K
  <2>8. Xor(Xor(K, Moved(H, 8)), hi) = Xor(K, Xor(Moved(H, 8), hi))
    BY <2>5
  <2>9. QED
    BY ONLY <2>4, <2>6, <2>7, <2>8, Zenon
<1>6. crc_ccitt_byte(c, lo) \in Fcs
  BY <1>1, CrcByteType
<1>7. crc_ccitt_byte(crc_ccitt_byte(c, lo), hi) = Shifted8({0, 1, 2, 7, 8, 9, 10, 11})
  BY <1>2, <1>5, <1>6, CrcByteSteps
<1>8. QED
  BY <1>1, <1>2, <1>7, SecondByteShifted

-----------------------------------------------------------------------------
CrcRun(data) ==
  CHOOSE run : run = [n \in 0 .. Len(data) |->
                        IF n = 0 THEN INIT_FCS
                        ELSE crc_ccitt_byte(run[n - 1], data[n])]

LEMMA CrcIsRun == \A data : crc_ccitt(data) = CrcRun(data)[Len(data)]
BY DEF crc_ccitt, CrcRun

LEMMA CrcRunSteps ==
  ASSUME NEW data \in Seq(Byte)
  PROVE  /\ CrcRun(data)[0] = INIT_FCS
         /\ \A n \in 0 .. Len(data) : CrcRun(data)[n] \in Fcs
         /\ \A n \in 1 .. Len(data) :
              CrcRun(data)[n] = crc_ccitt_byte(CrcRun(data)[n - 1], data[n])
<1> DEFINE next == [x \in Fcs \X (1 .. Len(data)) |-> crc_ccitt_byte(x[1], data[x[2]])]
           body(g) == [n \in 0 .. Len(data) |->
                         IF n = 0 THEN INIT_FCS ELSE crc_ccitt_byte(g[n - 1], data[n])]
<1>1. next \in [Fcs \X (1 .. Len(data)) -> Fcs]
  <2>1. SUFFICES ASSUME NEW x \in Fcs \X (1 .. Len(data))
                 PROVE  crc_ccitt_byte(x[1], data[x[2]]) \in Fcs
    OBVIOUS
  <2>2. x[1] \in Fcs /\ data[x[2]] \in Byte
    OBVIOUS
  <2>3. QED
    BY <2>2, CrcByteType
<1>2. INIT_FCS \in Fcs /\ Len(data) \in Nat
  BY DEF INIT_FCS, Fcs
<1>3. PICK g \in [0 .. Len(data) -> Fcs] : Steps(INIT_FCS, next, Len(data), g)
  <2> HIDE DEF next
  <2>1. QED
    BY <1>1, <1>2, StepsExist
<1>4. ASSUME NEW n \in 0 .. Len(data)
      PROVE  g[n] = IF n = 0 THEN INIT_FCS ELSE crc_ccitt_byte(g[n - 1], data[n])
  <2>1. CASE n = 0
    BY <2>1, <1>3 DEF Steps
  <2>2. CASE n # 0
    <3>1. n \in 1 .. Len(data) /\ n - 1 \in 0 .. Len(data)
      BY <2>2
    <3>2. g[n] = next[<<g[n - 1], n>>]
      BY <3>1, <1>3 DEF Steps
    <3>3. g[n - 1] \in Fcs
      BY <3>1
    <3>4. <<g[n - 1], n>> \in Fcs \X (1 .. Len(data))
      BY <3>1, <3>3
    <3>5. QED
      BY <2>2, <3>2, <3>4
  <2>3. QED
    BY <2>1, <2>2
<1>5. g = body(g)
  BY <1>4
<1>6. CrcRun(data) = body(CrcRun(data))
  <2>1. CrcRun(data) = CHOOSE run : run = body(run)
    BY DEF CrcRun
  <2> HIDE DEF body
  <2>2. QED
    BY <1>5, <2>1
<1> DEFINE r == CrcRun(data)
<1>7. \A n \in 0 .. Len(data) :
        r[n] = IF n = 0 THEN INIT_FCS ELSE crc_ccitt_byte(r[n - 1], data[n])
  BY <1>6
<1> HIDE DEF r
<1>8. r[0] = INIT_FCS
  <2>1. 0 \in 0 .. Len(data)
    BY <1>2
  <2>2. r[0] = IF 0 = 0 THEN INIT_FCS ELSE crc_ccitt_byte(r[0 - 1], data[0])
    BY ONLY <2>1, <1>7
  <2>3. QED
    BY ONLY <2>2
<1>9. \A n \in 1 .. Len(data) : r[n] = crc_ccitt_byte(r[n - 1], data[n])
  <2>1. SUFFICES ASSUME NEW n \in 1 .. Len(data) PROVE r[n] = crc_ccitt_byte(r[n - 1], data[n])
    OBVIOUS
  <2>2. n \in 0 .. Len(data) /\ n # 0
    BY <1>2
  <2>3. r[n] = IF n = 0 THEN INIT_FCS ELSE crc_ccitt_byte(r[n - 1], data[n])
    BY ONLY <2>2, <1>7
  <2>4. QED
    BY ONLY <2>2, <2>3
<1>10. \A n \in 0 .. Len(data) : r[n] \in Fcs
  <2> DEFINE I == {n \in Nat : n <= Len(data) => r[n] \in Fcs}
  <2>1. 0 \in I
    <3>1. r[0] \in Fcs
      BY <1>8, <1>2
    <3>2. QED
      BY <3>1
  <2>2. \A n \in Nat : n \in I => n + 1 \in I
    <3>1. SUFFICES ASSUME NEW n \in Nat, n \in I, n + 1 <= Len(data) PROVE r[n + 1] \in Fcs
      OBVIOUS
    <3>2. r[n] \in Fcs
      BY <3>1, <1>2
    <3>3. n + 1 \in 1 .. Len(data) /\ (n + 1) - 1 = n
      BY <3>1, <1>2
    <3>4. r[n + 1] = crc_ccitt_byte(r[n], data[n + 1])
      BY <3>3, <1>9
    <3>5. data[n + 1] \in Byte
      BY <3>3
    <3>6. QED
      BY <3>2, <3>4, <3>5, CrcByteType
  <2> HIDE DEF I
  <2>3. \A n \in Nat : n \in I
    BY <2>1, <2>2, SetInduction
  <2>4. QED
    BY <2>3 DEF I
<1>11. QED
  BY <1>8, <1>9, <1>10 DEF r

(* The check of a payload with its two bytes comes out right.              *)
Tagged(p) == p \o fcs_bytes(p)

LEMMA FcsOfTagged ==
  ASSUME NEW p \in Seq(Byte)
  PROVE  /\ Tagged(p) \in Seq(Byte) /\ Len(Tagged(p)) = Len(p) + 2
         /\ \A n \in 1 .. Len(p) : Tagged(p)[n] = p[n]
         /\ check(Tagged(p))
<1> DEFINE c  == crc_ccitt(p)
           lo == ((0 .. 15) \ c) \cap (0 .. 7)
           hi == {i - 8 : i \in ((0 .. 15) \ c) \cap (8 .. 15)}
           d  == Tagged(p)
           m  == Len(p)
<1>1. c \in Fcs
  <2>1. Len(p) \in 0 .. Len(p)
    OBVIOUS
  <2>2. QED
    BY <2>1, CrcRunSteps, CrcIsRun
<1>2. lo \in Byte /\ hi \in Byte /\ crc_ccitt_byte(crc_ccitt_byte(c, lo), hi) = GOOD_FCS
  <2> HIDE DEF c
  <2>1. QED
    BY <1>1, ResidueIsGood
<1>3. fcs_bytes(p) = <<lo, hi>>
  BY DEF fcs_bytes
<1> HIDE DEF lo, hi
<1>4. /\ d \in Seq(Byte) /\ Len(d) = m + 2 /\ m \in Nat
      /\ \A n \in 1 .. m : d[n] = p[n]
      /\ d[m + 1] = lo /\ d[m + 2] = hi
  <2>1. <<lo, hi>> \in Seq(Byte)
    BY <1>2
  <2>2. d = p \o <<lo, hi>>
    BY <1>3 DEF Tagged
  <2>3. QED
    BY <2>1, <2>2
<1> HIDE DEF d, c
<1>5. \A n \in 0 .. m : CrcRun(d)[n] = CrcRun(p)[n]
  <2> DEFINE I == {n \in Nat : n <= m => CrcRun(d)[n] = CrcRun(p)[n]}
  <2>1. 0 \in I
    <3>1. CrcRun(d)[0] = CrcRun(p)[0]
      BY <1>4, CrcRunSteps
    <3>2. QED
      BY <3>1
  <2>2. \A n \in Nat : n \in I => n + 1 \in I
    <3>1. SUFFICES ASSUME NEW n \in Nat, n \in I, n + 1 <= m
                   PROVE  CrcRun(d)[n + 1] = CrcRun(p)[n + 1]
      OBVIOUS
    <3>2. CrcRun(d)[n] = CrcRun(p)[n]
      BY <3>1, <1>4
    <3>3. n + 1 \in 1 .. Len(d) /\ n + 1 \in 1 .. Len(p) /\ (n + 1) - 1 = n
      BY <3>1, <1>4
    <3>4. CrcRun(d)[n + 1] = crc_ccitt_byte(CrcRun(d)[n], d[n + 1])
      BY <3>3, <1>4, CrcRunSteps
    <3>5. CrcRun(p)[n + 1] = crc_ccitt_byte(CrcRun(p)[n], p[n + 1])
      BY <3>3, CrcRunSteps
    <3>6. d[n + 1] = p[n + 1]
      BY <3>3, <1>4
    <3>7. QED
      BY ONLY <3>2, <3>4, <3>5, <3>6
  <2> HIDE DEF I
  <2>3. \A n \in Nat : n \in I
    BY <2>1, <2>2, SetInduction
  <2>4. QED
    BY <2>3, <1>4 DEF I
<1>6. CrcRun(d)[m] = c
  <2>1. m \in 0 .. m
    BY <1>4
  <2>2. CrcRun(d)[m] = CrcRun(p)[m]
    BY <2>1, <1>5
  <2>3. QED
    BY <2>2, CrcIsRun DEF c
<1>7. CrcRun(d)[m + 1] = crc_ccitt_byte(c, lo)
  <2>1. m + 1 \in 1 .. Len(d) /\ (m + 1) - 1 = m
    BY <1>4
  <2>2. CrcRun(d)[m + 1] = crc_ccitt_byte(CrcRun(d)[m], d[m + 1])
    BY <2>1, <1>4, CrcRunSteps
  <2>3. QED
    BY <2>2, <1>4, <1>6
<1>8. CrcRun(d)[m + 2] = crc_ccitt_byte(crc_ccitt_byte(c, lo), hi)
  <2>1. m + 2 \in 1 .. Len(d) /\ (m + 2) - 1 = m + 1
    BY <1>4
  <2>2. CrcRun(d)[m + 2] = crc_ccitt_byte(CrcRun(d)[m + 1], d[m + 2])
    BY <2>1, <1>4, CrcRunSteps
  <2>3. QED
    BY <2>2, <1>4, <1>7
<1>9. check(d)
  BY <1>2, <1>4, <1>8, CrcIsRun DEF check
<1>10. QED
  BY <1>4, <1>9 DEF d

(* The two bytes of fcs_bytes are what makes check come out right, for a   *)
(* payload of any length.                                                  *)
THEOREM PayloadChecks ==
  ASSUME NEW p \in Seq(Byte)
  PROVE  check(p \o fcs_bytes(p))
BY FcsOfTagged DEF Tagged

-----------------------------------------------------------------------------
(* Stuffing.                                                               *)

(* Concatenation is associative: opaque, so that one instance is seen.     *)
Regroups(s, t, u) == (s \o t) \o u = s \o (t \o u)

LEMMA BytesAssoc == \A s, t, u \in Seq(Byte) : Regroups(s, t, u)
BY ConcatAssociative DEF Regroups

(* What is left to come of a stuffed frame whose first n bytes came.       *)
Left(d, n, w) ==
  \E x \in Seq(Byte) : Stuffed(d) = StuffRun(d)[n] \o x /\ w = x \o <<EOF>>

Special == {BOF, EOF, CE}

LEMMA BytesCancel == \A s, t, u \in Seq(Byte) : s \o t = s \o u => t = u
BY ONLY ConcatSimplifications, Zenon

LEMMA LeftType == \A d, n, w : Left(d, n, w) => w \in Seq(Byte) /\ w # <<>>
<1> SUFFICES ASSUME NEW d, NEW n, NEW w, NEW x \in Seq(Byte), w = x \o <<EOF>>
             PROVE  w \in Seq(Byte) /\ w # <<>>
  BY DEF Left
<1>1. <<EOF>> \in Seq(Byte) /\ <<EOF>> # <<>>
  BY BytesMeant
<1>2. x \o <<EOF>> \in Seq(Byte) /\ Len(x \o <<EOF>>) = Len(x) + 1
  BY <1>1
<1>3. QED
  BY <1>2

LEMMA StuffedType == \A d \in Seq(Byte) : Stuffed(d) \in Seq(Byte)
<1> TAKE d \in Seq(Byte)
<1>1. Len(d) \in 0 .. Len(d)
  OBVIOUS
<1>2. QED
  BY <1>1, StuffRunSteps, StuffedIsRun

(* From any of its points the stuffing goes on.                            *)
GoesOn(r, n, m) == \E x \in Seq(Byte) : r[m] = r[n] \o x

LEMMA StuffGoesOn ==
  ASSUME NEW d \in Seq(Byte), NEW n \in 0 .. Len(d)
  PROVE  \E x \in Seq(Byte) : Stuffed(d) = StuffRun(d)[n] \o x
<1> DEFINE r == StuffRun(d)
           I == {k \in Nat : n + k <= Len(d) => GoesOn(r, n, n + k)}
<1>0. Len(d) \in Nat /\ n \in Nat
  OBVIOUS
<1>1. /\ \A m \in 0 .. Len(d) : r[m] \in Seq(Byte)
      /\ \A m \in 1 .. Len(d) : r[m] = r[m - 1] \o stuff(d[m])
  BY StuffRunSteps
<1> HIDE DEF r
<1>2. 0 \in I
  <2>1. r[n] \in Seq(Byte) /\ n + 0 = n
    BY <1>1
  <2>2. r[n] = r[n] \o <<>> /\ <<>> \in Seq(Byte)
    BY <2>1, ConcatEmptySeq
  <2>3. GoesOn(r, n, n + 0)
    BY ONLY <2>1, <2>2, Zenon DEF GoesOn
  <2>4. QED
    BY ONLY <2>3, 0 \in Nat
<1>3. \A k \in Nat : k \in I => k + 1 \in I
  <2>1. SUFFICES ASSUME NEW k \in Nat, k \in I, n + (k + 1) <= Len(d)
                 PROVE  GoesOn(r, n, n + (k + 1))
    OBVIOUS
  <2>2. PICK x \in Seq(Byte) : r[n + k] = r[n] \o x
    <3>1. n + k <= Len(d)
      BY ONLY <2>1, <1>0, k \in Nat
    <3>2. GoesOn(r, n, n + k)
      BY <2>1, <3>1
    <3>3. QED
      BY <3>2 DEF GoesOn
  <2>3. n + (k + 1) \in 1 .. Len(d) /\ (n + (k + 1)) - 1 = n + k
    BY <2>1, <1>0
  <2>4. r[n + (k + 1)] = r[n + k] \o stuff(d[n + (k + 1)])
    BY <2>3, <1>1
  <2>5. PICK u \in Seq(Byte) : u = stuff(d[n + (k + 1)])
    BY <2>3, StuffType
  <2>6. r[n] \in Seq(Byte)
    BY <1>1
  <2>7. (r[n] \o x) \o u = r[n] \o (x \o u)
    <3>1. Regroups(r[n], x, u)
      BY ONLY <2>6, BytesAssoc, Zenon
    <3>2. QED
      BY ONLY <3>1 DEF Regroups
  <2>8. x \o u \in Seq(Byte)
    BY BytesConcatType
  <2>9. r[n + (k + 1)] = r[n] \o (x \o u)
    BY ONLY <2>2, <2>4, <2>5, <2>7, Zenon
  <2>10. QED
    BY ONLY <2>8, <2>9, Zenon DEF GoesOn
<1>4. Len(d) - n \in Nat /\ n + (Len(d) - n) = Len(d)
  BY <1>0
<1> HIDE DEF I
<1>5. Len(d) - n \in I
  BY <1>2, <1>3, <1>4, SetInduction
<1>6. GoesOn(r, n, Len(d))
  <2>1. GoesOn(r, n, n + (Len(d) - n))
    BY <1>4, <1>5 DEF I
  <2>2. QED
    BY ONLY <2>1, <1>4
<1>7. QED
  BY ONLY <1>6, StuffedIsRun, Zenon DEF r, GoesOn

LEMMA LeftAtStart == \A d \in Seq(Byte) : Left(d, 0, Stuffed(d) \o <<EOF>>)
<1> TAKE d \in Seq(Byte)
<1>1. StuffRun(d)[0] = <<>> /\ Stuffed(d) \in Seq(Byte)
  BY StuffRunSteps, StuffedType
<1>2. Stuffed(d) = <<>> \o Stuffed(d)
  BY <1>1, ConcatEmptySeq
<1>3. QED
  BY ONLY <1>1, <1>2, Zenon DEF Left

LEMMA LeftAtEnd == \A d \in Seq(Byte) : \A w : Left(d, Len(d), w) => w = <<EOF>>
<1> SUFFICES ASSUME NEW d \in Seq(Byte), NEW w, Left(d, Len(d), w) PROVE w = <<EOF>>
  OBVIOUS
<1>1. PICK x \in Seq(Byte) : Stuffed(d) = StuffRun(d)[Len(d)] \o x /\ w = x \o <<EOF>>
  BY DEF Left
<1>2. Stuffed(d) = Stuffed(d) \o x
  BY ONLY <1>1, StuffedIsRun, Zenon
<1>3. PICK s \in Seq(Byte) : s = Stuffed(d)
  BY StuffedType
<1>4. x = <<>>
  <2>1. s \o x = s
    BY ONLY <1>2, <1>3, Zenon
  <2>2. s \o x = s <=> x = <<>>
    BY ONLY ConcatEqualIffEmpty, s \in Seq(Byte), x \in Seq(Byte)
  <2>3. QED
    BY ONLY <2>1, <2>2
<1>5. <<EOF>> \in Seq(Byte)
  BY BytesMeant
<1>6. <<>> \o <<EOF>> = <<EOF>>
  BY <1>5, ConcatEmptySeq
<1>7. QED
  BY ONLY <1>1, <1>4, <1>6, Zenon

(* One more byte of the frame: as it is, or the escape and then the byte   *)
(* without its bit.                                                        *)
LEMMA LeftNext ==
  ASSUME NEW d \in Seq(Byte), NEW n \in 0 .. Len(d), n # Len(d), NEW w, Left(d, n, w)
  PROVE  \E v : /\ Left(d, n + 1, v)
                /\ w = stuff(d[n + 1]) \o v
<1>1. Len(d) \in Nat /\ n + 1 \in 1 .. Len(d) /\ n + 1 \in 0 .. Len(d) /\ (n + 1) - 1 = n
  OBVIOUS
<1>2. PICK x \in Seq(Byte) : Stuffed(d) = StuffRun(d)[n] \o x /\ w = x \o <<EOF>>
  BY DEF Left
<1>3. PICK y \in Seq(Byte) : Stuffed(d) = StuffRun(d)[n + 1] \o y
  BY <1>1, StuffGoesOn
<1>4. PICK r \in Seq(Byte) : r = StuffRun(d)[n]
  BY StuffRunSteps
<1>5. PICK b \in Seq(Byte) : b = stuff(d[n + 1])
  BY <1>1, StuffType
<1>6. StuffRun(d)[n + 1] = r \o b
  BY <1>1, <1>4, <1>5, StuffRunSteps
<1>7. (r \o b) \o y = r \o (b \o y)
  <2>1. Regroups(r, b, y)
    BY ONLY BytesAssoc, r \in Seq(Byte), b \in Seq(Byte), y \in Seq(Byte), Zenon
  <2>2. QED
    BY ONLY <2>1 DEF Regroups
<1>8. r \o x = r \o (b \o y)
  BY ONLY <1>2, <1>3, <1>4, <1>6, <1>7, Zenon
<1>9. b \o y \in Seq(Byte)
  BY BytesConcatType
<1>10. x = b \o y
  BY ONLY <1>8, <1>9, BytesCancel, r \in Seq(Byte), x \in Seq(Byte), Zenon
<1>11. <<EOF>> \in Seq(Byte)
  BY BytesMeant
<1>12. (b \o y) \o <<EOF>> = b \o (y \o <<EOF>>)
  <2>1. Regroups(b, y, <<EOF>>)
    BY ONLY <1>11, BytesAssoc, b \in Seq(Byte), y \in Seq(Byte), Zenon
  <2>2. QED
    BY ONLY <2>1 DEF Regroups
<1>13. w = stuff(d[n + 1]) \o (y \o <<EOF>>)
  BY ONLY <1>2, <1>5, <1>10, <1>12, Zenon
<1>14. Left(d, n + 1, y \o <<EOF>>)
  BY ONLY <1>3, y \in Seq(Byte), Zenon DEF Left
<1>15. QED
  BY ONLY <1>13, <1>14, Zenon

LEMMA HeadOfOne ==
  ASSUME NEW b \in Byte, NEW v \in Seq(Byte)
  PROVE  Head(<<b>> \o v) = b /\ Tail(<<b>> \o v) = v /\ <<b>> \o v # <<>>
<1>1. <<b>> \o v \in Seq(Byte) /\ Len(<<b>> \o v) = 1 + Len(v)
  OBVIOUS
<1>2. (<<b>> \o v)[1] = b /\ \A i \in 1 .. Len(v) : (<<b>> \o v)[i + 1] = v[i]
  OBVIOUS
<1>3. PICK s \in Seq(Byte) : s = <<b>> \o v
  BY <1>1
<1>4. s # <<>> /\ Head(s) = b
  BY <1>1, <1>2, <1>3
<1>5. Tail(s) \in Seq(Byte) /\ Len(Tail(s)) = Len(v) /\ \A i \in 1 .. Len(v) : Tail(s)[i] = v[i]
  <2>1. Tail(s) \in Seq(Byte) /\ Len(Tail(s)) = Len(s) - 1 /\ \A i \in 1 .. Len(Tail(s)) : Tail(s)[i] = s[i + 1]
    BY <1>4, HeadTailProperties
  <2>2. Len(s) - 1 = Len(v)
    BY <1>1, <1>3
  <2>3. QED
    BY <2>1, <2>2, <1>2, <1>3
<1>6. Tail(s) = v
  BY <1>5, SeqEqual
<1>7. QED
  BY ONLY <1>3, <1>4, <1>6

LEMMA LeftPlain ==
  ASSUME NEW d \in Seq(Byte), NEW n \in 0 .. Len(d), n # Len(d), NEW w, Left(d, n, w),
         d[n + 1] \notin Special
  PROVE  w # <<>> /\ Head(w) = d[n + 1] /\ Left(d, n + 1, Tail(w))
<1>1. PICK v : Left(d, n + 1, v) /\ w = stuff(d[n + 1]) \o v
  BY LeftNext
<1>2. stuff(d[n + 1]) = <<d[n + 1]>>
  BY DEF stuff, Special
<1>3. d[n + 1] \in Byte
  OBVIOUS
<1>4. v \in Seq(Byte)
  BY <1>1, LeftType
<1>5. PICK b \in Byte : b = d[n + 1]
  BY <1>3
<1>6. Head(<<b>> \o v) = b /\ Tail(<<b>> \o v) = v /\ <<b>> \o v # <<>>
  BY <1>4, HeadOfOne
<1>7. QED
  BY ONLY <1>1, <1>2, <1>5, <1>6, Zenon

LEMMA LeftEscaped ==
  ASSUME NEW d \in Seq(Byte), NEW n \in 0 .. Len(d), n # Len(d), NEW w, Left(d, n, w),
         d[n + 1] \in Special
  PROVE  /\ w # <<>> /\ Head(w) = CE
         /\ Tail(w) # <<>> /\ Head(Tail(w)) = Xor(d[n + 1], IRDA_TRANS)
         /\ Left(d, n + 1, Tail(Tail(w)))
<1>1. PICK v : Left(d, n + 1, v) /\ w = stuff(d[n + 1]) \o v
  <2>1. Left(d, n, w) /\ n # Len(d)
    OBVIOUS
  <2>2. QED
    BY ONLY <2>1, LeftNext, d \in Seq(Byte), n \in 0 .. Len(d)
<1>2. stuff(d[n + 1]) = <<CE, Xor(d[n + 1], IRDA_TRANS)>>
  BY DEF stuff, Special
<1>3. d[n + 1] \in Byte
  OBVIOUS
<1>4. v \in Seq(Byte)
  BY <1>1, LeftType
<1>5. PICK b \in Byte : b = Xor(d[n + 1], IRDA_TRANS)
  BY <1>3, XorByte, BytesMeant
<1>6. PICK c \in Byte : c = CE
  BY BytesMeant
<1>7. <<c, b>> \o v = <<c>> \o (<<b>> \o v)
  <2>1. <<c, b>> = <<c>> \o <<b>>
    OBVIOUS
  <2>2. <<c>> \in Seq(Byte) /\ <<b>> \in Seq(Byte)
    OBVIOUS
  <2>3. (<<c>> \o <<b>>) \o v = <<c>> \o (<<b>> \o v)
    <3>1. Regroups(<<c>>, <<b>>, v)
      BY ONLY <1>4, <2>2, BytesAssoc, Zenon
    <3>2. QED
      BY ONLY <3>1 DEF Regroups
  <2>4. QED
    BY ONLY <2>1, <2>3, Zenon
<1>8. <<b>> \o v \in Seq(Byte)
  BY <1>4, OneByte, BytesConcatType
<1>9. Head(<<b>> \o v) = b /\ Tail(<<b>> \o v) = v /\ <<b>> \o v # <<>>
  BY <1>4, HeadOfOne
<1>10. PICK t \in Seq(Byte) : t = <<b>> \o v
  BY <1>8
<1>11. Head(<<c>> \o t) = c /\ Tail(<<c>> \o t) = t /\ <<c>> \o t # <<>>
  BY HeadOfOne
<1>12. w = <<c>> \o t
  BY ONLY <1>1, <1>2, <1>5, <1>6, <1>7, <1>10, Zenon
<1>13. QED
  BY ONLY <1>1, <1>5, <1>6, <1>9, <1>10, <1>11, <1>12, Zenon

-----------------------------------------------------------------------------
(* Subsequences.                                                           *)
LEMMA EmptySubsequence == IsSubsequence(<<>>, <<>>)
<1> DEFINE D == 1 .. Len(<<>>)
<1>1. \A i \in D : FALSE
  OBVIOUS
<1> HIDE DEF D
<1>2. [i \in D |-> i] \in [D -> D]
  OBVIOUS
<1>3. \E pick \in [D -> D] : /\ \A i, j \in D : i < j => pick[i] < pick[j]
                            /\ \A i \in D : <<>>[i] = <<>>[pick[i]]
  BY <1>1, <1>2
<1>4. QED
  BY <1>3 DEF IsSubsequence, D

LEMMA SubsequenceGrows ==
  ASSUME NEW T, NEW s \in Seq(T), NEW t \in Seq(T), NEW e \in T, IsSubsequence(s, t)
  PROVE  IsSubsequence(s, Append(t, e))
<1>1. PICK pick \in [1 .. Len(s) -> 1 .. Len(t)] :
        /\ \A i, j \in 1 .. Len(s) : i < j => pick[i] < pick[j]
        /\ \A i \in 1 .. Len(s) : s[i] = t[pick[i]]
  BY DEF IsSubsequence
<1>2. PICK u \in Seq(T) : u = Append(t, e)
  BY ONLY AppendProperties, t \in Seq(T), e \in T
<1>3. Len(u) = Len(t) + 1 /\ \A i \in 1 .. Len(t) : u[i] = t[i]
  BY <1>2
<1>4. pick \in [1 .. Len(s) -> 1 .. Len(u)]
  BY <1>3
<1>5. \A i \in 1 .. Len(s) : s[i] = u[pick[i]]
  BY <1>1, <1>3
<1>6. IsSubsequence(s, u)
  BY <1>1, <1>4, <1>5 DEF IsSubsequence
<1>7. QED
  BY ONLY <1>2, <1>6

LEMMA SubsequencesGrow ==
  ASSUME NEW T, NEW s \in Seq(T), NEW t \in Seq(T), NEW e \in T, IsSubsequence(s, t)
  PROVE  IsSubsequence(Append(s, e), Append(t, e))
<1>1. PICK pick \in [1 .. Len(s) -> 1 .. Len(t)] :
        /\ \A i, j \in 1 .. Len(s) : i < j => pick[i] < pick[j]
        /\ \A i \in 1 .. Len(s) : s[i] = t[pick[i]]
  BY DEF IsSubsequence
<1>2. PICK u \in Seq(T) : u = Append(t, e)
  BY ONLY AppendProperties, t \in Seq(T), e \in T
<1>3. /\ Len(u) = Len(t) + 1 /\ u[Len(t) + 1] = e
      /\ \A i \in 1 .. Len(t) : u[i] = t[i]
  BY <1>2
<1>4. PICK v \in Seq(T) : v = Append(s, e)
  BY ONLY AppendProperties, s \in Seq(T), e \in T
<1>5. /\ Len(v) = Len(s) + 1 /\ v[Len(s) + 1] = e
      /\ \A i \in 1 .. Len(s) : v[i] = s[i]
  BY <1>4
<1>6. Len(s) \in Nat /\ Len(t) \in Nat
  OBVIOUS
<1> DEFINE more == [i \in 1 .. Len(v) |-> IF i <= Len(s) THEN pick[i] ELSE Len(t) + 1]
<1>7. more \in [1 .. Len(v) -> 1 .. Len(u)]
  <2>1. ASSUME NEW i \in 1 .. Len(v)
        PROVE  (IF i <= Len(s) THEN pick[i] ELSE Len(t) + 1) \in 1 .. Len(u)
    <3>1. CASE i <= Len(s)
      <4>1. i \in 1 .. Len(s)
        BY <3>1, <1>5, <1>6
      <4>2. pick[i] \in 1 .. Len(t)
        BY <4>1
      <4>3. QED
        BY <3>1, <4>2, <1>3, <1>6
    <3>2. CASE ~(i <= Len(s))
      BY <3>2, <1>3, <1>6
    <3>3. QED
      BY <3>1, <3>2
  <2>2. QED
    BY <2>1
<1>8. \A i \in 1 .. Len(s) : more[i] = pick[i] /\ pick[i] \in 1 .. Len(t)
  <2>1. SUFFICES ASSUME NEW i \in 1 .. Len(s) PROVE more[i] = pick[i] /\ pick[i] \in 1 .. Len(t)
    OBVIOUS
  <2>2. i \in 1 .. Len(v) /\ i <= Len(s)
    BY <1>5, <1>6
  <2>3. more[i] = pick[i]
    BY <2>2
  <2>4. pick[i] \in 1 .. Len(t)
    OBVIOUS
  <2>5. QED
    BY <2>3, <2>4
<1>9. more[Len(s) + 1] = Len(t) + 1
  BY <1>5, <1>6
<1> HIDE DEF more
<1>10. ASSUME NEW i \in 1 .. Len(v), NEW j \in 1 .. Len(v), i < j PROVE more[i] < more[j]
  <2>1. i \in 1 .. Len(s)
    BY <1>10, <1>5, <1>6
  <2>2. CASE j \in 1 .. Len(s)
    <3>1. pick[i] < pick[j]
      BY <2>1, <2>2, <1>1, <1>10
    <3>2. QED
      BY <3>1, <2>1, <2>2, <1>8
  <2>3. CASE j \notin 1 .. Len(s)
    <3>1. j = Len(s) + 1
      BY <2>3, <1>5, <1>6
    <3>2. more[i] \in 1 .. Len(t) /\ more[j] = Len(t) + 1
      BY <3>1, <2>1, <1>8, <1>9
    <3>3. QED
      BY <3>2, <1>6
  <2>4. QED
    BY <2>2, <2>3
<1>11. ASSUME NEW i \in 1 .. Len(v) PROVE v[i] = u[more[i]]
  <2>1. CASE i \in 1 .. Len(s)
    <3>1. v[i] = s[i] /\ s[i] = t[pick[i]] /\ more[i] = pick[i] /\ pick[i] \in 1 .. Len(t)
      BY <2>1, <1>1, <1>5, <1>8
    <3>2. u[pick[i]] = t[pick[i]]
      BY <3>1, <1>3
    <3>3. QED
      BY <3>1, <3>2
  <2>2. CASE i \notin 1 .. Len(s)
    <3>1. i = Len(s) + 1
      BY <2>2, <1>5, <1>6
    <3>2. QED
      BY <3>1, <1>3, <1>5, <1>9
  <2>3. QED
    BY <2>1, <2>2
<1>12. IsSubsequence(v, u)
  BY <1>7, <1>10, <1>11 DEF IsSubsequence
<1>13. QED
  BY ONLY <1>2, <1>4, <1>12

-----------------------------------------------------------------------------
(* The preamble.                                                           *)
Preamble(k) == [i \in 1 .. k |-> XBOF]

Ahead(d, w, k) == w = Preamble(k) \o (<<BOF>> \o (Stuffed(d) \o <<EOF>>))

LEMMA PreambleType == \A k \in Nat : Preamble(k) \in Seq(Byte) /\ Len(Preamble(k)) = k
<1> TAKE k \in Nat
<1>1. XBOF \in Byte
  BY BytesMeant
<1> DEFINE b == XBOF
<1> HIDE DEF b
<1>2. b \in Byte
  BY <1>1 DEF b
<1>3. [i \in 1 .. k |-> b] \in Seq(Byte) /\ Len([i \in 1 .. k |-> b]) = k
  BY <1>2
<1>4. QED
  BY <1>3 DEF b, Preamble

LEMMA BodyType ==
  \A d \in Seq(Byte) : /\ Stuffed(d) \o <<EOF>> \in Seq(Byte)
                       /\ <<BOF>> \o (Stuffed(d) \o <<EOF>>) \in Seq(Byte)
<1> TAKE d \in Seq(Byte)
<1>1. Stuffed(d) \in Seq(Byte) /\ <<EOF>> \in Seq(Byte) /\ <<BOF>> \in Seq(Byte)
  BY StuffedType, BytesMeant, OneByte
<1>2. QED
  BY ONLY <1>1, BytesConcatType, Zenon

LEMMA AheadType ==
  \A d \in Seq(Byte), k \in Nat : \A w : Ahead(d, w, k) => w \in Seq(Byte)
BY ONLY BodyType, PreambleType, BytesConcatType, Zenon DEF Ahead

LEMMA AheadOnce ==
  ASSUME NEW d \in Seq(Byte), NEW w, Ahead(d, w, 0)
  PROVE  w # <<>> /\ Head(w) = BOF /\ Left(d, 0, Tail(w))
<1>1. PICK s \in Seq(Byte) : s = Stuffed(d) \o <<EOF>>
  BY BodyType
<1>2. PICK b \in Byte : b = BOF
  BY BytesMeant
<1>3. Preamble(0) = <<>>
  BY PreambleType, EmptySeq
<1>4. w = <<>> \o (<<b>> \o s)
  BY ONLY <1>1, <1>2, <1>3, Ahead(d, w, 0), Zenon DEF Ahead
<1>5. <<b>> \o s \in Seq(Byte)
  BY OneByte, BytesConcatType
<1>6. <<>> \o (<<b>> \o s) = <<b>> \o s
  BY ONLY <1>5, ConcatEmptySeq
<1>7. Head(<<b>> \o s) = b /\ Tail(<<b>> \o s) = s /\ <<b>> \o s # <<>>
  BY HeadOfOne
<1>8. Left(d, 0, s)
  BY <1>1, LeftAtStart
<1>9. QED
  BY ONLY <1>2, <1>4, <1>6, <1>7, <1>8, Zenon

LEMMA AheadMore ==
  ASSUME NEW d \in Seq(Byte), NEW k \in Nat, NEW w, Ahead(d, w, k + 1)
  PROVE  w # <<>> /\ Head(w) = XBOF /\ Ahead(d, Tail(w), k)
<1>1. PICK s \in Seq(Byte) : s = <<BOF>> \o (Stuffed(d) \o <<EOF>>)
  BY BodyType
<1>2. PICK b \in Byte : b = XBOF
  BY BytesMeant
<1>3. PICK q \in Seq(Byte) : q = Preamble(k)
  BY PreambleType
<1>4. Preamble(k + 1) = <<b>> \o q
  <2>1. PICK r \in Seq(Byte) : r = Preamble(k + 1)
    BY PreambleType
  <2>2. Len(r) = k + 1 /\ \A i \in 1 .. k + 1 : r[i] = b
    BY <2>1, <1>2, PreambleType DEF Preamble
  <2>3. Len(q) = k /\ \A i \in 1 .. k : q[i] = b
    BY <1>3, <1>2, PreambleType DEF Preamble
  <2>4. PICK t \in Seq(Byte) : t = <<b>> \o q
    BY OneByte, BytesConcatType
  <2>5. Len(t) = 1 + k /\ \A i \in 1 .. k + 1 : t[i] = b
    BY <2>3, <2>4
  <2>6. r = t
    BY <2>2, <2>5, SeqEqual
  <2>7. QED
    BY ONLY <2>1, <2>4, <2>6
<1>5. w = (<<b>> \o q) \o s
  BY ONLY <1>1, <1>4, Ahead(d, w, k + 1), Zenon DEF Ahead
<1>6. <<b>> \in Seq(Byte)
  OBVIOUS
<1>7. (<<b>> \o q) \o s = <<b>> \o (q \o s)
  <2>1. Regroups(<<b>>, q, s)
    BY ONLY <1>6, BytesAssoc, q \in Seq(Byte), s \in Seq(Byte), Zenon
  <2>2. QED
    BY ONLY <2>1 DEF Regroups
<1>8. PICK v \in Seq(Byte) : v = q \o s
  BY BytesConcatType
<1>9. Head(<<b>> \o v) = b /\ Tail(<<b>> \o v) = v /\ <<b>> \o v # <<>>
  BY HeadOfOne
<1>10. Ahead(d, v, k)
  BY ONLY <1>1, <1>3, <1>8, Zenon DEF Ahead
<1>11. QED
  BY ONLY <1>2, <1>5, <1>7, <1>8, <1>9, <1>10, Zenon

LEMMA WrapIsAhead ==
  ASSUME NEW p \in Seq(Byte)
  PROVE  Ahead(Tagged(p), async_wrap(p), Xbofs) /\ async_wrap(p) \in Seq(Byte)
<1>0. Xbofs \in Nat
  BY SirAssumption
<1>1. Tagged(p) \in Seq(Byte)
  BY FcsOfTagged
<1>2. PICK s \in Seq(Byte) : s = Stuffed(Tagged(p))
  BY <1>1, StuffedType
<1>3. PICK q \in Seq(Byte) : q = Preamble(Xbofs)
  BY <1>0, PreambleType
<1>4. PICK b \in Seq(Byte) : b = <<BOF>>
  BY BytesMeant, OneByte
<1>5. PICK e \in Seq(Byte) : e = <<EOF>>
  BY BytesMeant, OneByte
<1>6. async_wrap(p) = ((q \o b) \o s) \o e
  <2>1. async_wrap(p) = ((Preamble(Xbofs) \o <<BOF>>) \o Stuffed(Tagged(p))) \o <<EOF>>
    BY Zenon DEF async_wrap, Preamble, Tagged
  <2>2. QED
    BY ONLY <2>1, <1>2, <1>3, <1>4, <1>5, Zenon
<1>7. ((q \o b) \o s) \o e = (q \o b) \o (s \o e)
  <2>1. PICK r \in Seq(Byte) : r = q \o b
    BY BytesConcatType
  <2>2. (r \o s) \o e = r \o (s \o e)
    <3>1. Regroups(r, s, e)
      BY ONLY BytesAssoc, r \in Seq(Byte), s \in Seq(Byte), e \in Seq(Byte), Zenon
    <3>2. QED
      BY ONLY <3>1 DEF Regroups
  <2>3. QED
    BY ONLY <2>1, <2>2
<1>8. (q \o b) \o (s \o e) = q \o (b \o (s \o e))
  <2>1. PICK r \in Seq(Byte) : r = s \o e
    BY BytesConcatType
  <2>2. (q \o b) \o r = q \o (b \o r)
    <3>1. Regroups(q, b, r)
      BY ONLY BytesAssoc, q \in Seq(Byte), b \in Seq(Byte), r \in Seq(Byte), Zenon
    <3>2. QED
      BY ONLY <3>1 DEF Regroups
  <2>3. QED
    BY ONLY <2>1, <2>2
<1>9. Ahead(Tagged(p), async_wrap(p), Xbofs)
  <2>1. async_wrap(p) = q \o (b \o (s \o e))
    BY ONLY <1>6, <1>7, <1>8, Zenon
  <2>2. async_wrap(p) = Preamble(Xbofs) \o (<<BOF>> \o (Stuffed(Tagged(p)) \o <<EOF>>))
    BY ONLY <2>1, <1>2, <1>3, <1>4, <1>5, Zenon
  <2>3. QED
    BY ONLY <2>2 DEF Ahead
<1>10. PICK w : w = async_wrap(p)
  OBVIOUS
<1>11. Ahead(Tagged(p), w, Xbofs)
  BY ONLY <1>9, <1>10
<1>12. w \in Seq(Byte)
  BY ONLY <1>0, <1>1, <1>11, AheadType
<1>13. QED
  BY ONLY <1>9, <1>10, <1>12

-----------------------------------------------------------------------------
(* Types and counters.                                                     *)

SirTypeOK ==
  /\ state \in {"Outside", "Begin", "Inside", "Escape"}
  /\ buf \in Seq(Byte) /\ wire \in Seq(Byte)
  /\ frames \in Seq(Seq(Byte)) /\ intact \in Seq(Seq(Byte)) /\ all \in Seq(Seq(Byte))
  /\ crc_errors \in Nat /\ short_frames \in Nat /\ ends \in Nat
  /\ garbage \in 0 .. MaxGarbage /\ damage \in 0 .. MaxDamage

LEMMA DamagedType ==
  ASSUME NEW w \in Seq(Byte), NEW v \in Damaged(w)
  PROVE  v \in Seq(Byte)
<1>0. Xbofs \in Nat /\ Noise \subseteq Byte /\ Len(w) \in Nat
  BY SirAssumption
<1>1. CASE \E i \in Xbofs + 1 .. Len(w), b \in Noise : v = ReplaceAt(w, i, b)
  <2>1. PICK i \in Xbofs + 1 .. Len(w), b \in Noise : v = ReplaceAt(w, i, b)
    BY <1>1
  <2>2. i \in 1 .. Len(w) /\ b \in Byte
    BY <1>0
  <2>3. [w EXCEPT ![i] = b] \in Seq(Byte)
    BY ONLY <2>2, ExceptSeq, w \in Seq(Byte)
  <2>4. QED
    BY ONLY <2>1, <2>3 DEF ReplaceAt
<1>2. CASE \E i \in Xbofs + 1 .. Len(w) : v = RemoveAt(w, i)
  <2>1. PICK i \in Xbofs + 1 .. Len(w) : v = RemoveAt(w, i)
    BY <1>2
  <2>2. i \in 1 .. Len(w)
    BY <1>0
  <2>3. i - 1 \in Int /\ i + 1 \in Int /\ Len(w) \in Int /\ 1 \in Int
    BY <2>2, <1>0
  <2>4. \A j \in 1 .. i - 1 : w[j] \in Byte
    BY <2>2, <1>0
  <2>5. \A j \in i + 1 .. Len(w) : w[j] \in Byte
    BY <2>2, <1>0
  <2>6. SubSeq(w, 1, i - 1) \in Seq(Byte)
    BY ONLY <2>3, <2>4, SubSeqProperties
  <2>7. SubSeq(w, i + 1, Len(w)) \in Seq(Byte)
    BY ONLY <2>3, <2>5, SubSeqProperties
  <2>8. QED
    BY ONLY <2>1, <2>6, <2>7, BytesConcatType, Zenon DEF RemoveAt
<1>3. QED
  BY <1>1, <1>2 DEF Damaged

(* What a frame holds before its last two bytes.                           *)
LEMMA FrontType ==
  \A b \in Seq(Byte) : Len(b) >= 2 => SubSeq(b, 1, Len(b) - 2) \in Seq(Byte)
<1> SUFFICES ASSUME NEW b \in Seq(Byte), Len(b) >= 2 PROVE SubSeq(b, 1, Len(b) - 2) \in Seq(Byte)
  OBVIOUS
<1>1. Len(b) - 2 \in Int /\ 1 \in Int /\ \A i \in 1 .. Len(b) - 2 : b[i] \in Byte
  OBVIOUS
<1>2. QED
  BY ONLY <1>1, SubSeqProperties

LEMMA FrontOfTagged ==
  ASSUME NEW p \in Seq(Byte), NEW b, b = SubSeq(Tagged(p), 1, Len(Tagged(p)))
  PROVE  b = Tagged(p) /\ Len(b) >= 2 /\ check(b) /\ SubSeq(b, 1, Len(b) - 2) = p
<1>1. PICK d \in Seq(Byte) : d = Tagged(p)
  BY FcsOfTagged
<1>2. Len(d) = Len(p) + 2 /\ (\A n \in 1 .. Len(p) : d[n] = p[n]) /\ check(d)
  BY <1>1, FcsOfTagged
<1>3. b = d
  BY ONLY <1>1, b = SubSeq(Tagged(p), 1, Len(Tagged(p))), SubSeqFull, d \in Seq(Byte)
<1>4. Len(p) \in Nat
  OBVIOUS
<1>5. Len(d) - 2 = Len(p) /\ Len(d) >= 2
  BY <1>2, <1>4
<1>6. PICK f \in Seq(Byte) : f = SubSeq(d, 1, Len(d) - 2)
  BY <1>5, FrontType
<1>7. Len(f) = Len(p) /\ \A i \in 1 .. Len(f) : f[i] = p[i]
  <2>1. \A i \in 1 .. Len(p) : d[i] \in Byte
    BY <1>2, <1>4
  <2>2. f = SubSeq(d, 1, Len(p))
    BY <1>5, <1>6
  <2>3. Len(f) = (IF 1 <= Len(p) THEN Len(p) - 1 + 1 ELSE 0) /\ \A i \in 1 .. Len(p) - 1 + 1 : f[i] = d[1 + i - 1]
    BY ONLY <2>1, <2>2, SubSeqProperties, Len(p) \in Int, 1 \in Int
  <2>4. Len(f) = Len(p)
    BY <2>3, <1>4
  <2>5. \A i \in 1 .. Len(p) : f[i] = d[i]
    BY <2>3, <1>4
  <2>6. QED
    BY <2>4, <2>5, <1>2
<1>8. f = p
  BY <1>7, SeqEqual
<1>9. QED
  BY ONLY <1>1, <1>2, <1>3, <1>5, <1>6, <1>8

LEMMA PushedByte ==
  ASSUME SirTypeOK, wire # <<>>
  PROVE  Head(wire) \in Byte /\ Tail(wire) \in Seq(Byte)
BY DEF SirTypeOK

LEMMA SirTypeInit == SirInit => SirTypeOK
<1>1. <<>> \in Seq(Byte) /\ <<>> \in Seq(Seq(Byte))
  OBVIOUS
<1>2. 0 \in 0 .. MaxGarbage /\ 0 \in 0 .. MaxDamage
  BY SirAssumption
<1>3. QED
  BY <1>1, <1>2 DEF SirInit, SirTypeOK

LEMMA SirTypePush == SirTypeOK /\ Push => SirTypeOK'
<1> SUFFICES ASSUME SirTypeOK, Push PROVE SirTypeOK'
  OBVIOUS
<1>1. wire # <<>> /\ wire' = Tail(wire) /\ UNCHANGED <<intact, all, garbage, damage>>
  BY DEF Push
<1>2. PICK byte \in Byte : byte = Head(wire)
  BY <1>1, PushedByte
<1>3. wire' \in Seq(Byte)
  BY <1>1, PushedByte
<1>4. PushBof(byte) \/ PushCe(byte) \/ PushData(byte) \/ finish(byte)
  BY <1>2 DEF Push
<1>5. /\ intact' \in Seq(Seq(Byte)) /\ all' \in Seq(Seq(Byte))
      /\ garbage' \in 0 .. MaxGarbage /\ damage' \in 0 .. MaxDamage
  BY <1>1 DEF SirTypeOK
<1>6. /\ state' \in {"Outside", "Begin", "Inside", "Escape"} /\ buf' \in Seq(Byte)
      /\ frames' \in Seq(Seq(Byte))
      /\ crc_errors' \in Nat /\ short_frames' \in Nat /\ ends' \in Nat
  <2>1. CASE PushBof(byte)
    BY <2>1, EmptySeq DEF PushBof, Quiet, SirTypeOK
  <2>2. CASE PushCe(byte)
    BY <2>2 DEF PushCe, Quiet, SirTypeOK
  <2>3. CASE PushData(byte)
    <3>1. byte \in Byte /\ Xor(byte, IRDA_TRANS) \in Byte
      BY XorByte, BytesMeant
    <3>2. PICK b \in Byte : b = IF state = "Escape" THEN Xor(byte, IRDA_TRANS) ELSE byte
      BY <3>1
    <3>3. Append(buf, b) \in Seq(Byte)
      BY DEF SirTypeOK
    <3>4. QED
      BY <2>3, <3>2, <3>3 DEF PushData, Quiet, SirTypeOK
  <2>4. CASE finish(byte)
    <3>1. CASE state = "Outside" /\ UNCHANGED <<buf, crc_errors, short_frames, frames, ends>>
      BY <2>4, <3>1 DEF finish, SirTypeOK
    <3>2. CASE state # "Outside" /\ buf' = <<>> /\ ends' = ends + 1
      <4>1. buf' \in Seq(Byte) /\ ends' \in Nat /\ state' = "Outside"
        BY <2>4, <3>2, EmptySeq DEF finish, SirTypeOK
      <4>2. \/ short_frames' = short_frames + 1 /\ UNCHANGED <<crc_errors, frames>>
            \/ /\ Len(buf) >= 2
               /\ frames' = Append(frames, SubSeq(buf, 1, Len(buf) - 2))
               /\ UNCHANGED <<crc_errors, short_frames>>
            \/ crc_errors' = crc_errors + 1 /\ UNCHANGED <<short_frames, frames>>
        BY <2>4, <3>2 DEF finish
      <4>3. Len(buf) >= 2 => Append(frames, SubSeq(buf, 1, Len(buf) - 2)) \in Seq(Seq(Byte))
        <5>1. SUFFICES ASSUME Len(buf) >= 2
                       PROVE  Append(frames, SubSeq(buf, 1, Len(buf) - 2)) \in Seq(Seq(Byte))
          OBVIOUS
        <5>2. PICK f \in Seq(Byte) : f = SubSeq(buf, 1, Len(buf) - 2)
          BY <5>1, FrontType DEF SirTypeOK
        <5>3. Append(frames, f) \in Seq(Seq(Byte))
          BY ONLY SirTypeOK, f \in Seq(Byte), AppendProperties DEF SirTypeOK
        <5>4. QED
          BY ONLY <5>2, <5>3
      <4>4. frames \in Seq(Seq(Byte)) /\ crc_errors \in Nat /\ short_frames \in Nat
        BY ONLY SirTypeOK DEF SirTypeOK
      <4>5. CASE short_frames' = short_frames + 1 /\ UNCHANGED <<crc_errors, frames>>
        BY ONLY <4>1, <4>4, <4>5
      <4>6. CASE /\ Len(buf) >= 2
                 /\ frames' = Append(frames, SubSeq(buf, 1, Len(buf) - 2))
                 /\ UNCHANGED <<crc_errors, short_frames>>
        <5>1. frames' \in Seq(Seq(Byte))
          BY <4>3, <4>6
        <5>2. crc_errors' = crc_errors /\ short_frames' = short_frames
          BY <4>6
        <5>3. QED
          BY ONLY <4>1, <4>4, <5>1, <5>2
      <4>7. CASE crc_errors' = crc_errors + 1 /\ UNCHANGED <<short_frames, frames>>
        BY ONLY <4>1, <4>4, <4>7
      <4>8. QED
        BY <4>2, <4>5, <4>6, <4>7
    <3>3. QED
      BY <2>4, <3>1, <3>2 DEF finish
  <2>5. QED
    BY <1>4, <2>1, <2>2, <2>3, <2>4
<1>7. QED
  BY <1>3, <1>5, <1>6 DEF SirTypeOK

LEMMA SirTypeStep == SirTypeOK /\ [SirNext]_sirVars => SirTypeOK'
<1> SUFFICES ASSUME SirTypeOK, [SirNext]_sirVars PROVE SirTypeOK'
  OBVIOUS
<1>1. CASE Push
  BY <1>1, SirTypePush
<1>2. CASE Garbage
  <2>1. PICK b \in Noise : wire' = <<b>>
    BY <1>2 DEF Garbage
  <2>2. wire' \in Seq(Byte)
    BY <2>1, SirAssumption
  <2>3. garbage' \in 0 .. MaxGarbage
    BY <1>2, SirAssumption DEF Garbage, SirTypeOK
  <2>4. QED
    BY <1>2, <2>2, <2>3 DEF Garbage, SirTypeOK, unwrapperVars
<1>3. ASSUME NEW p \in Payloads, Send(p) PROVE SirTypeOK'
  <2>1. p \in Seq(Byte)
    BY SirAssumption
  <2>2. wire' \in Seq(Byte)
    BY <1>3, <2>1, WrapIsAhead DEF Send
  <2>3. Append(all, p) \in Seq(Seq(Byte)) /\ Append(intact, p) \in Seq(Seq(Byte))
    BY ONLY <2>1, SirTypeOK, AppendProperties DEF SirTypeOK
  <2>4. QED
    BY <1>3, <2>2, <2>3 DEF Send, SirTypeOK, unwrapperVars
<1>4. ASSUME NEW p \in Payloads, SendDamaged(p) PROVE SirTypeOK'
  <2>1. p \in Seq(Byte)
    BY SirAssumption
  <2>2. wire' \in Seq(Byte)
    <3>1. async_wrap(p) \in Seq(Byte)
      BY <2>1, WrapIsAhead
    <3>2. wire' \in Damaged(async_wrap(p))
      BY <1>4 DEF SendDamaged
    <3>3. QED
      BY ONLY <3>1, <3>2, DamagedType
  <2>3. Append(all, p) \in Seq(Seq(Byte))
    BY ONLY <2>1, SirTypeOK, AppendProperties DEF SirTypeOK
  <2>4. damage' \in 0 .. MaxDamage
    BY <1>4, SirAssumption DEF SendDamaged, SirTypeOK
  <2>5. QED
    BY <1>4, <2>2, <2>3, <2>4 DEF SendDamaged, SirTypeOK, unwrapperVars
<1>5. CASE UNCHANGED sirVars
  BY <1>5 DEF sirVars, unwrapperVars, mediumVars, SirTypeOK
<1>6. QED
  BY <1>1, <1>2, <1>3, <1>4, <1>5 DEF SirNext

(* Every variable has its type: bytes in the buffer and on the wire,       *)
(* payloads in the histories.                                              *)
THEOREM SirTypeCorrect == SirSpec => []SirTypeOK
<1>1. SirInit => SirTypeOK
  BY SirTypeInit
<1>2. SirTypeOK /\ [SirNext]_sirVars => SirTypeOK'
  BY SirTypeStep
<1>3. QED
  BY <1>1, <1>2, PTL DEF SirSpec

(* finish returns each frame that ends or counts it in one of the two      *)
(* counters, never both and never neither.                                 *)
THEOREM SirEndsCounted == SirSpec => []EveryEndCounted
<1>1. SirInit => EveryEndCounted
  <2>1. SUFFICES ASSUME SirInit PROVE ends = Len(frames) + crc_errors + short_frames
    BY DEF EveryEndCounted
  <2>2. ends = 0 /\ crc_errors = 0 /\ short_frames = 0 /\ Len(frames) = 0
    BY <2>1 DEF SirInit
  <2>3. QED
    BY ONLY <2>2
<1>2. SirTypeOK /\ EveryEndCounted /\ [SirNext]_sirVars => EveryEndCounted'
  <2> SUFFICES ASSUME SirTypeOK, EveryEndCounted, [SirNext]_sirVars
               PROVE  (ends = Len(frames) + crc_errors + short_frames)'
    BY DEF EveryEndCounted
  <2>1. PICK n \in Nat : n = Len(frames)
    BY DEF SirTypeOK
  <2>2. ends = n + crc_errors + short_frames
    BY <2>1 DEF EveryEndCounted
  <2>3. CASE UNCHANGED <<frames, crc_errors, short_frames, ends>>
    BY <2>3, <2>1, <2>2
  <2>4. ASSUME NEW byte, finish(byte)
        PROVE  (ends = Len(frames) + crc_errors + short_frames)'
    <3>1. CASE state = "Outside" /\ UNCHANGED <<buf, crc_errors, short_frames, frames, ends>>
      BY <3>1, <2>1, <2>2
    <3>2. CASE state # "Outside" /\ buf' = <<>> /\ ends' = ends + 1
      <4>1. CASE short_frames' = short_frames + 1 /\ UNCHANGED <<crc_errors, frames>>
        BY <4>1, <3>2, <2>1, <2>2 DEF SirTypeOK
      <4>2. CASE /\ frames' = Append(frames, SubSeq(buf, 1, Len(buf) - 2))
                 /\ UNCHANGED <<crc_errors, short_frames>>
        <5>1. PICK f : f = SubSeq(buf, 1, Len(buf) - 2)
          OBVIOUS
        <5>2. Len(Append(frames, f)) = Len(frames) + 1
          BY DEF SirTypeOK
        <5>3. Len(frames') = n + 1
          BY ONLY <4>2, <5>1, <5>2, <2>1
        <5>4. QED
          BY <5>3, <4>2, <3>2, <2>2 DEF SirTypeOK
      <4>3. CASE crc_errors' = crc_errors + 1 /\ UNCHANGED <<short_frames, frames>>
        BY <4>3, <3>2, <2>1, <2>2 DEF SirTypeOK
      <4>4. QED
        BY <2>4, <3>2, <4>1, <4>2, <4>3 DEF finish
    <3>3. QED
      BY <2>4, <3>1, <3>2 DEF finish
  <2>5. CASE Push
    BY <2>5, <2>3, <2>4 DEF Push, PushBof, PushCe, PushData, Quiet
  <2>6. CASE \/ Garbage \/ UNCHANGED sirVars
             \/ \E p \in Payloads : Send(p) \/ SendDamaged(p)
    BY <2>6, <2>3 DEF Garbage, Send, SendDamaged, sirVars, unwrapperVars
  <2>7. QED
    BY <2>5, <2>6 DEF SirNext
<1>3. QED
  BY <1>1, <1>2, SirTypeCorrect, PTL DEF SirSpec

-----------------------------------------------------------------------------
(* The arrival of undamaged frames.                                        *)

(* The frame of payload p is under way: still within its preamble, with n  *)
(* of its bytes in buf, or between an escape and the byte it escapes.      *)
Coming(p, w) == \E k \in 0 .. Xbofs : Ahead(Tagged(p), w, k)

Within(p, st, b, w) ==
  /\ st \in {"Begin", "Inside"}
  /\ \E n \in 0 .. Len(Tagged(p)) :
       b = SubSeq(Tagged(p), 1, n) /\ Left(Tagged(p), n, w)

Escaped(p, st, b, w) ==
  /\ st = "Escape"
  /\ \E n \in 0 .. Len(Tagged(p)) :
       /\ n # Len(Tagged(p)) /\ Tagged(p)[n + 1] \in Special
       /\ b = SubSeq(Tagged(p), 1, n)
       /\ w # <<>> /\ Head(w) = Xor(Tagged(p)[n + 1], IRDA_TRANS)
       /\ Left(Tagged(p), n + 1, Tail(w))

UnderWay(p) ==
  Coming(p, wire) \/ Within(p, state, buf, wire) \/ Escaped(p, state, buf, wire)

(* Every undamaged frame arrived, but for the last while it is under way.  *)
Arriving ==
  \/ IsSubsequence(intact, frames)
  \/ \E past \in Seq(Seq(Byte)), p \in Seq(Byte) :
       intact = Append(past, p) /\ IsSubsequence(past, frames) /\ UnderWay(p)

LEMMA UnderWayIsOnWire ==
  ASSUME NEW p \in Seq(Byte), UnderWay(p)
  PROVE  wire # <<>>
<1>0. Tagged(p) \in Seq(Byte)
  BY FcsOfTagged
<1>1. CASE Coming(p, wire)
  <2>1. PICK k \in 0 .. Xbofs : Ahead(Tagged(p), wire, k)
    BY <1>1 DEF Coming
  <2>2. CASE k = 0
    BY ONLY <1>0, <2>1, <2>2, AheadOnce
  <2>3. CASE k # 0
    <3>1. k - 1 \in Nat /\ (k - 1) + 1 = k
      BY <2>3, SirAssumption
    <3>2. Ahead(Tagged(p), wire, (k - 1) + 1)
      BY ONLY <2>1, <3>1
    <3>3. QED
      BY ONLY <1>0, <3>1, <3>2, AheadMore
  <2>4. QED
    BY <2>2, <2>3
<1>2. CASE Within(p, state, buf, wire)
  <2>1. PICK n : Left(Tagged(p), n, wire)
    BY <1>2 DEF Within
  <2>2. QED
    BY ONLY <2>1, LeftType
<1>3. CASE Escaped(p, state, buf, wire)
  BY <1>3 DEF Escaped
<1>4. QED
  BY <1>1, <1>2, <1>3 DEF UnderWay

LEMMA ByteKinds ==
  /\ XBOF \notin Special
  /\ BOF # CE /\ BOF # EOF /\ CE # EOF
  /\ \A b \in Special : Xor(b, IRDA_TRANS) \notin Special
  /\ \A b \in Byte : Xor(Xor(b, IRDA_TRANS), IRDA_TRANS) = b
<1>1. 1 \in XBOF /\ 1 \notin BOF /\ 1 \notin EOF /\ 1 \notin CE
  BY DEF XBOF, BOF, EOF, CE
<1>2. 2 \in CE /\ 2 \notin BOF /\ 2 \notin EOF /\ 0 \in EOF /\ 0 \notin BOF
  BY DEF BOF, EOF, CE
<1>3. 5 \in CE /\ 5 \notin BOF /\ 5 \notin EOF /\ 3 \in CE /\ 3 \notin EOF /\ 3 \notin BOF
      /\ 6 \in BOF /\ 6 \in CE
  BY DEF BOF, EOF, CE
<1>4. ASSUME NEW b \in Special PROVE Xor(b, IRDA_TRANS) \notin Special
  <2>1. 5 \in Xor(b, IRDA_TRANS) <=> 5 \notin b
    BY DEF Xor, IRDA_TRANS
  <2>2. 3 \in Xor(b, IRDA_TRANS) <=> 3 \in b
    BY DEF Xor, IRDA_TRANS
  <2>3. CASE b = CE
    <3>1. Xor(b, IRDA_TRANS) # CE
      BY <2>1, <2>3, <1>3
    <3>2. Xor(b, IRDA_TRANS) # BOF /\ Xor(b, IRDA_TRANS) # EOF
      BY <2>2, <2>3, <1>3
    <3>3. QED
      BY <3>1, <3>2 DEF Special
  <2>4. CASE b \in {BOF, EOF}
    <3>1. 5 \in Xor(b, IRDA_TRANS) /\ 3 \notin Xor(b, IRDA_TRANS)
      BY <2>1, <2>2, <2>4, <1>3
    <3>2. QED
      BY <3>1, <1>3 DEF Special
  <2>5. QED
    BY <2>3, <2>4 DEF Special
<1>5. XBOF \notin Special
  BY <1>1 DEF Special
<1>6. BOF # CE /\ BOF # EOF /\ CE # EOF
  BY <1>2
<1>7. \A b \in Byte : Xor(Xor(b, IRDA_TRANS), IRDA_TRANS) = b
  BY DEF Xor
<1>8. QED
  BY <1>4, <1>5, <1>6, <1>7

(* The front of a frame, a byte longer.                                    *)
LEMMA FrontGrows ==
  ASSUME NEW d \in Seq(Byte), NEW n \in 0 .. Len(d), n # Len(d), NEW b, b = d[n + 1]
  PROVE  Append(SubSeq(d, 1, n), b) = SubSeq(d, 1, n + 1)
<1>0. n \in Nat /\ Len(d) \in Nat /\ n + 1 \in 1 .. Len(d)
  OBVIOUS
<1>1. \A i \in 1 .. n + 1 : d[i] \in Byte
  BY <1>0
<1>2. SubSeq(d, 1, n) \in Seq(Byte) /\ Len(SubSeq(d, 1, n)) = n
      /\ \A i \in 1 .. n : SubSeq(d, 1, n)[i] = d[i]
  <2>1. \A i \in 1 .. n : d[i] \in Byte
    BY <1>1, <1>0
  <2>2. /\ SubSeq(d, 1, n) \in Seq(Byte)
        /\ Len(SubSeq(d, 1, n)) = (IF 1 <= n THEN n - 1 + 1 ELSE 0)
        /\ \A i \in 1 .. n - 1 + 1 : SubSeq(d, 1, n)[i] = d[1 + i - 1]
    BY ONLY <2>1, <1>0, SubSeqProperties, 1 \in Int, n \in Int
  <2>3. QED
    BY ONLY <2>2, <1>0
<1>3. SubSeq(d, 1, n + 1) \in Seq(Byte) /\ Len(SubSeq(d, 1, n + 1)) = n + 1
      /\ \A i \in 1 .. n + 1 : SubSeq(d, 1, n + 1)[i] = d[i]
  <2>1. n + 1 \in Int /\ 1 \in Int
    BY <1>0
  <2>2. /\ SubSeq(d, 1, n + 1) \in Seq(Byte)
        /\ Len(SubSeq(d, 1, n + 1)) = (IF 1 <= n + 1 THEN n + 1 - 1 + 1 ELSE 0)
        /\ \A i \in 1 .. n + 1 - 1 + 1 : SubSeq(d, 1, n + 1)[i] = d[1 + i - 1]
    BY ONLY <2>1, <1>1, SubSeqProperties
  <2>3. QED
    BY ONLY <2>2, <1>0
<1>4. PICK s \in Seq(Byte) : s = SubSeq(d, 1, n)
  BY <1>2
<1>5. PICK t \in Seq(Byte) : t = SubSeq(d, 1, n + 1)
  BY <1>3
<1>6. b \in Byte
  BY <1>0
<1>7. PICK u \in Seq(Byte) : u = Append(s, b)
  BY ONLY <1>6, AppendProperties, s \in Seq(Byte)
<1>8. Len(u) = n + 1 /\ u[n + 1] = b /\ \A i \in 1 .. n : u[i] = s[i]
  <2>1. Len(s) = n
    BY <1>2, <1>4
  <2>2. Len(u) = Len(s) + 1 /\ u[Len(s) + 1] = b /\ \A i \in 1 .. Len(s) : u[i] = s[i]
    BY ONLY <1>6, <1>7, AppendProperties, s \in Seq(Byte)
  <2>3. QED
    BY ONLY <2>1, <2>2
<1>9. Len(t) = n + 1 /\ \A i \in 1 .. n + 1 : u[i] = t[i]
  <2>1. Len(t) = n + 1 /\ \A i \in 1 .. n + 1 : t[i] = d[i]
    BY ONLY <1>3, <1>5
  <2>2. \A i \in 1 .. n : u[i] = d[i]
    BY ONLY <1>2, <1>4, <1>8
  <2>3. u[n + 1] = d[n + 1]
    BY <1>8
  <2>4. QED
    BY ONLY <2>1, <2>2, <2>3, <1>0
<1>10. u = t
  BY ONLY <1>8, <1>9, SeqEqual, u \in Seq(Byte), t \in Seq(Byte)
<1>11. QED
  BY ONLY <1>4, <1>5, <1>7, <1>10

LEMMA FrontOfNone == \A d : SubSeq(d, 1, 0) = <<>>
BY SubSeqEmpty

-----------------------------------------------------------------------------
(* A byte pushed while a frame is under way.                               *)
LEMMA PushComing ==
  ASSUME SirTypeOK, NEW p \in Seq(Byte), Coming(p, wire), Push
  PROVE  UnderWay(p)' /\ frames' = frames
<1>0. Tagged(p) \in Seq(Byte)
  BY FcsOfTagged
<1>1. PICK k \in 0 .. Xbofs : Ahead(Tagged(p), wire, k)
  BY DEF Coming
<1>2. PICK byte : /\ byte = Head(wire)
                  /\ PushBof(byte) \/ PushCe(byte) \/ PushData(byte) \/ finish(byte)
  BY DEF Push
<1>3. wire' = Tail(wire)
  BY DEF Push
<1>4. CASE k = 0
  <2>1. Head(wire) = BOF /\ Left(Tagged(p), 0, Tail(wire))
    BY ONLY <1>0, <1>1, <1>4, AheadOnce
  <2>2. PushBof(byte)
    BY ONLY <1>2, <2>1, ByteKinds DEF PushCe, PushData, finish
  <2>3. state' = "Begin" /\ buf' = <<>> /\ frames' = frames
    BY <2>2 DEF PushBof, Quiet
  <2>4. buf' = SubSeq(Tagged(p), 1, 0) /\ Left(Tagged(p), 0, wire')
    BY ONLY <2>1, <2>3, <1>3, FrontOfNone
  <2>5. 0 \in 0 .. Len(Tagged(p))
    BY <1>0
  <2>6. Within(p, state', buf', wire')
    BY ONLY <2>3, <2>4, <2>5 DEF Within
  <2>7. QED
    BY ONLY <2>3, <2>6 DEF UnderWay
<1>5. CASE k # 0
  <2>1. k - 1 \in Nat /\ (k - 1) + 1 = k /\ k - 1 \in 0 .. Xbofs
    BY <1>5, SirAssumption
  <2>2. Ahead(Tagged(p), wire, (k - 1) + 1)
    BY ONLY <1>1, <2>1
  <2>3. Head(wire) = XBOF /\ Ahead(Tagged(p), Tail(wire), k - 1)
    BY ONLY <1>0, <2>1, <2>2, AheadMore
  <2>4. byte \notin Special
    BY <1>2, <2>3, ByteKinds
  <2>5. PushData(byte)
    BY ONLY <1>2, <2>4 DEF PushBof, PushCe, finish, Special
  <2>6. frames' = frames
    BY <2>5 DEF PushData, Quiet
  <2>7. Coming(p, wire')
    BY ONLY <2>1, <2>3, <1>3 DEF Coming
  <2>8. QED
    BY ONLY <2>6, <2>7 DEF UnderWay
<1>6. QED
  BY <1>4, <1>5

LEMMA PushWithin ==
  ASSUME SirTypeOK, NEW p \in Seq(Byte), Within(p, state, buf, wire), Push
  PROVE  \/ UnderWay(p)' /\ frames' = frames
         \/ wire' = <<>> /\ frames' = Append(frames, p)
<1>1. PICK d \in Seq(Byte) : d = Tagged(p)
  BY FcsOfTagged
<1>2. PICK n \in 0 .. Len(d) : buf = SubSeq(d, 1, n) /\ Left(d, n, wire)
  BY <1>1 DEF Within
<1>3. PICK byte : /\ byte = Head(wire)
                  /\ PushBof(byte) \/ PushCe(byte) \/ PushData(byte) \/ finish(byte)
  BY DEF Push
<1>4. wire' = Tail(wire) /\ state \in {"Begin", "Inside"}
  BY DEF Push, Within
<1>5. CASE n = Len(d)
  <2>1. wire = <<EOF>>
    BY <1>2, <1>5, LeftAtEnd
  <2>2. byte = EOF /\ wire' = <<>>
    BY <2>1, <1>3, <1>4
  <2>3. finish(byte)
    BY ONLY <2>2, <1>3, ByteKinds DEF PushBof, PushCe, PushData
  <2>4. buf = SubSeq(Tagged(p), 1, Len(Tagged(p)))
    BY ONLY <1>1, <1>2, <1>5
  <2>5. Len(buf) >= 2 /\ check(buf) /\ SubSeq(buf, 1, Len(buf) - 2) = p
    BY ONLY <2>4, FrontOfTagged, p \in Seq(Byte)
  <2>6. state # "Outside" /\ ~(Len(buf) < 2)
    <3>1. Len(buf) \in Nat
      BY DEF SirTypeOK
    <3>2. QED
      BY <3>1, <1>4, <2>5
  <2>7. frames' = Append(frames, SubSeq(buf, 1, Len(buf) - 2))
    BY ONLY <2>3, <2>5, <2>6 DEF finish
  <2>8. QED
    BY ONLY <2>2, <2>5, <2>7
<1>6. CASE n # Len(d) /\ d[n + 1] \notin Special
  <2>1. Head(wire) = d[n + 1] /\ Left(d, n + 1, Tail(wire))
    BY ONLY <1>2, <1>6, LeftPlain, d \in Seq(Byte), n \in 0 .. Len(d)
  <2>2. PushData(byte)
    BY ONLY <2>1, <1>3, <1>6 DEF PushBof, PushCe, finish, Special
  <2>3. state' = "Inside" /\ buf' = Append(buf, d[n + 1]) /\ frames' = frames
    BY ONLY <2>1, <2>2, <1>3, <1>4 DEF PushData, Quiet
  <2>4. buf' = SubSeq(d, 1, n + 1)
    <3>1. Append(SubSeq(d, 1, n), d[n + 1]) = SubSeq(d, 1, n + 1)
      BY ONLY <1>6, FrontGrows, d \in Seq(Byte), n \in 0 .. Len(d)
    <3>2. QED
      BY ONLY <3>1, <2>3, <1>2
  <2>5. n + 1 \in 0 .. Len(d)
    BY <1>6
  <2>6. Within(p, state', buf', wire')
    BY ONLY <1>1, <1>4, <2>1, <2>3, <2>4, <2>5 DEF Within
  <2>7. QED
    BY ONLY <2>3, <2>6 DEF UnderWay
<1>7. CASE n # Len(d) /\ d[n + 1] \in Special
  <2>1. /\ Head(wire) = CE
        /\ Tail(wire) # <<>> /\ Head(Tail(wire)) = Xor(d[n + 1], IRDA_TRANS)
        /\ Left(d, n + 1, Tail(Tail(wire)))
    BY ONLY <1>2, <1>7, LeftEscaped, d \in Seq(Byte), n \in 0 .. Len(d)
  <2>2. PushCe(byte)
    BY ONLY <2>1, <1>3, ByteKinds DEF PushBof, PushData, finish
  <2>3. state' = "Escape" /\ buf' = buf /\ frames' = frames
    BY ONLY <2>2, <1>4 DEF PushCe, Quiet
  <2>4. Escaped(p, state', buf', wire')
    BY ONLY <1>1, <1>2, <1>4, <1>7, <2>1, <2>3 DEF Escaped
  <2>5. QED
    BY ONLY <2>3, <2>4 DEF UnderWay
<1>8. QED
  BY <1>5, <1>6, <1>7

LEMMA PushEscaped ==
  ASSUME SirTypeOK, NEW p \in Seq(Byte), Escaped(p, state, buf, wire), Push
  PROVE  UnderWay(p)' /\ frames' = frames
<1>1. PICK d \in Seq(Byte) : d = Tagged(p)
  BY FcsOfTagged
<1>2. PICK n \in 0 .. Len(d) :
        /\ n # Len(d) /\ d[n + 1] \in Special
        /\ buf = SubSeq(d, 1, n)
        /\ Head(wire) = Xor(d[n + 1], IRDA_TRANS)
        /\ Left(d, n + 1, Tail(wire))
  BY ONLY <1>1, Escaped(p, state, buf, wire) DEF Escaped
<1>3. PICK byte : /\ byte = Head(wire)
                  /\ PushBof(byte) \/ PushCe(byte) \/ PushData(byte) \/ finish(byte)
  BY DEF Push
<1>4. wire' = Tail(wire) /\ state = "Escape"
  BY DEF Push, Escaped
<1>5. d[n + 1] \in Byte /\ n + 1 \in 0 .. Len(d)
  BY <1>2
<1>6. PICK b \in Byte : b = d[n + 1]
  BY <1>5
<1>7. byte = Xor(b, IRDA_TRANS) /\ byte \notin Special
  BY ONLY <1>2, <1>3, <1>6, ByteKinds
<1>8. PushData(byte)
  BY ONLY <1>3, <1>7 DEF PushBof, PushCe, finish, Special
<1>9. Xor(byte, IRDA_TRANS) = b
  BY ONLY <1>7, ByteKinds, b \in Byte
<1>10. state' = "Inside" /\ buf' = Append(buf, b) /\ frames' = frames
  BY ONLY <1>4, <1>8, <1>9 DEF PushData, Quiet
<1>11. buf' = SubSeq(d, 1, n + 1)
  <2>1. Append(SubSeq(d, 1, n), b) = SubSeq(d, 1, n + 1)
    BY ONLY <1>2, <1>6, FrontGrows, d \in Seq(Byte), n \in 0 .. Len(d)
  <2>2. QED
    BY ONLY <2>1, <1>10, <1>2
<1>12. Within(p, state', buf', wire')
  BY ONLY <1>1, <1>2, <1>4, <1>5, <1>10, <1>11 DEF Within
<1>13. QED
  BY ONLY <1>10, <1>12 DEF UnderWay

(* What push adds to the frames is a payload.                              *)
LEMMA PushFrames ==
  ASSUME SirTypeOK, Push
  PROVE  frames' = frames \/ \E f \in Seq(Byte) : frames' = Append(frames, f)
<1>1. PICK byte : PushBof(byte) \/ PushCe(byte) \/ PushData(byte) \/ finish(byte)
  BY DEF Push
<1>2. CASE PushBof(byte) \/ PushCe(byte) \/ PushData(byte)
  BY <1>2 DEF PushBof, PushCe, PushData, Quiet
<1>3. CASE finish(byte)
  <2>1. \/ frames' = frames
        \/ Len(buf) >= 2 /\ frames' = Append(frames, SubSeq(buf, 1, Len(buf) - 2))
    BY <1>3 DEF finish
  <2>2. Len(buf) >= 2 => SubSeq(buf, 1, Len(buf) - 2) \in Seq(Byte)
    BY FrontType DEF SirTypeOK
  <2>3. QED
    BY <2>1, <2>2
<1>4. QED
  BY <1>1, <1>2, <1>3

LEMMA ArrivingPush ==
  ASSUME SirTypeOK, Arriving, Push
  PROVE  Arriving'
<1>1. intact' = intact
  BY DEF Push
<1>2. CASE IsSubsequence(intact, frames)
  <2>1. CASE frames' = frames
    BY <2>1, <1>1, <1>2 DEF Arriving
  <2>2. CASE \E f \in Seq(Byte) : frames' = Append(frames, f)
    <3>1. PICK f \in Seq(Byte) : frames' = Append(frames, f)
      BY <2>2
    <3>2. IsSubsequence(intact, Append(frames, f))
      BY ONLY <1>2, SubsequenceGrows, SirTypeOK, f \in Seq(Byte) DEF SirTypeOK
    <3>3. IsSubsequence(intact', frames')
      BY ONLY <1>1, <3>1, <3>2
    <3>4. QED
      BY ONLY <3>3 DEF Arriving
  <2>3. QED
    BY <2>1, <2>2, PushFrames
<1>3. CASE \E past \in Seq(Seq(Byte)), p \in Seq(Byte) :
             intact = Append(past, p) /\ IsSubsequence(past, frames) /\ UnderWay(p)
  <2>1. PICK past \in Seq(Seq(Byte)), p \in Seq(Byte) :
             intact = Append(past, p) /\ IsSubsequence(past, frames) /\ UnderWay(p)
    BY <1>3
  <2>2. \/ UnderWay(p)' /\ frames' = frames
        \/ wire' = <<>> /\ frames' = Append(frames, p)
    <3>1. CASE Coming(p, wire)
      BY <3>1, PushComing
    <3>2. CASE Within(p, state, buf, wire)
      BY <3>2, PushWithin
    <3>3. CASE Escaped(p, state, buf, wire)
      BY <3>3, PushEscaped
    <3>4. QED
      BY <2>1, <3>1, <3>2, <3>3 DEF UnderWay
  <2>3. CASE UnderWay(p)' /\ frames' = frames
    <3>1. intact' = Append(past, p) /\ IsSubsequence(past, frames') /\ UnderWay(p)'
      BY ONLY <1>1, <2>1, <2>3
    <3>2. QED
      BY ONLY <3>1, past \in Seq(Seq(Byte)), p \in Seq(Byte) DEF Arriving
  <2>4. CASE wire' = <<>> /\ frames' = Append(frames, p)
    <3>1. IsSubsequence(Append(past, p), Append(frames, p))
      BY ONLY <2>1, SubsequencesGrow, SirTypeOK, past \in Seq(Seq(Byte)), p \in Seq(Byte)
      DEF SirTypeOK
    <3>2. IsSubsequence(intact', frames')
      BY ONLY <1>1, <2>1, <2>4, <3>1
    <3>3. QED
      BY ONLY <3>2 DEF Arriving
  <2>5. QED
    BY <2>2, <2>3, <2>4
<1>4. QED
  BY <1>2, <1>3 DEF Arriving

(* With nothing on its way every undamaged frame arrived.                  *)
LEMMA ArrivedWhenQuiet ==
  ASSUME Arriving, wire = <<>>
  PROVE  IsSubsequence(intact, frames)
BY UnderWayIsOnWire DEF Arriving

LEMMA ArrivingStep == SirTypeOK /\ Arriving /\ [SirNext]_sirVars => Arriving'
<1> SUFFICES ASSUME SirTypeOK, Arriving, [SirNext]_sirVars PROVE Arriving'
  OBVIOUS
<1>1. CASE Push
  BY <1>1, ArrivingPush
<1>2. CASE Garbage \/ \E p \in Payloads : SendDamaged(p)
  <2>1. wire = <<>> /\ intact' = intact /\ frames' = frames
    BY <1>2 DEF Garbage, SendDamaged, unwrapperVars
  <2>2. IsSubsequence(intact, frames)
    BY <2>1, ArrivedWhenQuiet
  <2>3. IsSubsequence(intact', frames')
    BY ONLY <2>1, <2>2
  <2>4. QED
    BY ONLY <2>3 DEF Arriving
<1>3. ASSUME NEW p \in Payloads, Send(p) PROVE Arriving'
  <2>1. wire = <<>> /\ intact' = Append(intact, p) /\ frames' = frames
        /\ wire' = async_wrap(p)
    BY <1>3 DEF Send, unwrapperVars
  <2>2. IsSubsequence(intact, frames)
    BY <2>1, ArrivedWhenQuiet
  <2>3. p \in Seq(Byte)
    BY SirAssumption
  <2>4. Coming(p, wire')
    <3>1. Ahead(Tagged(p), wire', Xbofs)
      BY <2>1, <2>3, WrapIsAhead
    <3>2. Xbofs \in 0 .. Xbofs
      BY SirAssumption
    <3>3. QED
      BY ONLY <3>1, <3>2 DEF Coming
  <2>5. IsSubsequence(intact, frames') /\ UnderWay(p)'
    BY ONLY <2>1, <2>2, <2>4 DEF UnderWay
  <2>6. intact \in Seq(Seq(Byte))
    BY DEF SirTypeOK
  <2>7. QED
    BY ONLY <2>1, <2>3, <2>5, <2>6 DEF Arriving
<1>4. CASE UNCHANGED sirVars
  <2>1. UNCHANGED <<state, buf, wire, frames, intact>>
    BY <1>4 DEF sirVars, unwrapperVars, mediumVars
  <2>2. QED
    BY <2>1 DEF Arriving, UnderWay
<1>5. QED
  BY <1>1, <1>2, <1>3, <1>4 DEF SirNext

(* An undamaged frame arrives as the payload that was wrapped, whatever    *)
(* state the garbage and the damaged frames before it left push in.        *)
THEOREM SirIntactArrive == SirSpec => []IntactArrive
<1>1. SirInit => Arriving
  <2>1. SirInit => intact = <<>> /\ frames = <<>>
    BY DEF SirInit
  <2>2. QED
    BY <2>1, EmptySubsequence DEF Arriving
<1>2. SirTypeOK /\ Arriving /\ [SirNext]_sirVars => Arriving'
  BY ArrivingStep
<1>3. Arriving => IntactArrive
  BY ArrivedWhenQuiet DEF IntactArrive
<1>4. QED
  BY <1>1, <1>2, <1>3, SirTypeCorrect, PTL DEF SirSpec

-----------------------------------------------------------------------------
(* What the check notices.                                                 *)

(* No turn of the loop loses a difference: the top bit tells whether the   *)
(* polynomial was added.                                                   *)
LEMMA ShiftedKeepsApart ==
  ASSUME NEW a \in Fcs, NEW b \in Fcs, Shifted(a) = Shifted(b)
  PROVE  a = b
<1>1. \A c \in Fcs : 15 \in Shifted(c) <=> 0 \in c
  <2>1. TAKE c \in Fcs
  <2>2. 15 \notin ShiftRight(c) /\ 15 \in POLY
    BY DEF ShiftRight, Fcs, POLY
  <2>3. QED
    BY <2>2 DEF Shifted, Xor
<1>2. 0 \in a <=> 0 \in b
  BY <1>1
<1>3. ShiftRight(a) = ShiftRight(b)
  <2>1. CASE 0 \in a
    <3>1. Xor(ShiftRight(a), POLY) = Xor(ShiftRight(b), POLY)
      BY <2>1, <1>2 DEF Shifted
    <3>2. \A s, t : Xor(s, POLY) = Xor(t, POLY) => s = t
      BY DEF Xor
    <3>3. QED
      BY ONLY <3>1, <3>2
  <2>2. CASE 0 \notin a
    BY <2>2, <1>2 DEF Shifted
  <2>3. QED
    BY <2>1, <2>2
<1>4. \A c \in Fcs : \A i \in 1 .. 15 : i \in c <=> i - 1 \in ShiftRight(c)
  BY DEF ShiftRight, Fcs
<1>5. \A i \in 0 .. 15 : i \in a <=> i \in b
  <2>1. TAKE i \in 0 .. 15
  <2>2. CASE i = 0
    BY <2>2, <1>2
  <2>3. CASE i # 0
    <3>1. i \in 1 .. 15
      BY <2>3
    <3>2. QED
      BY <3>1, <1>3, <1>4
  <2>4. QED
    BY <2>2, <2>3
<1>6. QED
  BY <1>5 DEF Fcs

LEMMA Shifted8KeepsApart ==
  ASSUME NEW a \in Fcs, NEW b \in Fcs, Shifted8(a) = Shifted8(b)
  PROVE  a = b
<1>1. \A x, y \in Fcs : Shifted(x) = Shifted(y) => x = y
  BY ShiftedKeepsApart
<1>2. QED
  BY <1>1, ShiftedType DEF Shifted8

LEMMA CrcByteKeepsApart ==
  ASSUME NEW a \in Fcs, NEW b \in Fcs, NEW x \in Byte, NEW y \in Byte,
         a = b => x # y, a # b => x = y
  PROVE  crc_ccitt_byte(a, x) # crc_ccitt_byte(b, y)
<1>1. Xor(a, x) \in Fcs /\ Xor(b, y) \in Fcs
  BY DEF Xor, Fcs, Byte
<1>2. Xor(a, x) # Xor(b, y)
  BY DEF Xor
<1>3. QED
  BY <1>1, <1>2, CrcByteSteps, Shifted8KeepsApart

(* The check notices any one byte that came out as another, in the payload *)
(* or in the check itself, of a frame of any length.                       *)
THEOREM FcsNoticesOneByte ==
  ASSUME NEW d \in Seq(Byte), NEW i \in 1 .. Len(d), NEW b \in Byte, b # d[i], check(d)
  PROVE  ~check(ReplaceAt(d, i, b))
<1> DEFINE e == ReplaceAt(d, i, b)
           m == Len(d)
<1>1. /\ e \in Seq(Byte) /\ Len(e) = m /\ m \in Nat /\ i \in Nat
      /\ \A j \in 1 .. m : e[j] = IF j = i THEN b ELSE d[j]
  <2>1. ReplaceAt(d, i, b) = [d EXCEPT ![i] = b]
    BY DEF ReplaceAt
  <2>2. QED
    BY <2>1, ExceptSeq
<1> HIDE DEF e
<1>2. \A n \in 1 .. m : /\ CrcRun(d)[n] = crc_ccitt_byte(CrcRun(d)[n - 1], d[n])
                        /\ CrcRun(e)[n] = crc_ccitt_byte(CrcRun(e)[n - 1], e[n])
  BY <1>1, CrcRunSteps
<1>3. \A n \in 0 .. m : CrcRun(d)[n] \in Fcs /\ CrcRun(e)[n] \in Fcs
  BY <1>1, CrcRunSteps
<1>4. CrcRun(d)[0] = CrcRun(e)[0]
  BY <1>1, CrcRunSteps
<1> DEFINE Right(n) == IF n < i THEN CrcRun(d)[n] = CrcRun(e)[n]
                       ELSE CrcRun(d)[n] # CrcRun(e)[n]
           I == {n \in Nat : n <= m => Right(n)}
<1>5. 0 \in I
  BY <1>4
<1>6. \A n \in Nat : n \in I => n + 1 \in I
  <2>1. SUFFICES ASSUME NEW n \in Nat, n \in I, n + 1 <= m PROVE Right(n + 1)
    OBVIOUS
  <2>2. Right(n) /\ n + 1 \in 1 .. m /\ (n + 1) - 1 = n /\ n \in 0 .. m
    BY <2>1, <1>1
  <2>3. /\ CrcRun(d)[n + 1] = crc_ccitt_byte(CrcRun(d)[n], d[n + 1])
        /\ CrcRun(e)[n + 1] = crc_ccitt_byte(CrcRun(e)[n], e[n + 1])
    BY <2>2, <1>2
  <2>4. PICK x \in Fcs, y \in Fcs : x = CrcRun(d)[n] /\ y = CrcRun(e)[n]
    BY <2>2, <1>3
  <2>5. PICK u \in Byte, v \in Byte : u = d[n + 1] /\ v = e[n + 1]
    BY <2>2, <1>1
  <2>6. CASE n + 1 < i
    <3>1. x = y /\ u = v
      BY <2>2, <2>4, <2>5, <2>6, <1>1
    <3>2. QED
      BY ONLY <2>3, <2>4, <2>5, <2>6, <3>1
  <2>7. CASE n + 1 = i
    <3>1. x = y /\ u # v
      BY <2>2, <2>4, <2>5, <2>7, <1>1
    <3>2. crc_ccitt_byte(x, u) # crc_ccitt_byte(y, v)
      BY ONLY <3>1, CrcByteKeepsApart, x \in Fcs, y \in Fcs, u \in Byte, v \in Byte
    <3>3. QED
      BY ONLY <2>3, <2>4, <2>5, <2>7, <3>2, <1>1
  <2>8. CASE n + 1 > i
    <3>1. x # y /\ u = v
      BY <2>2, <2>4, <2>5, <2>8, <1>1
    <3>2. crc_ccitt_byte(x, u) # crc_ccitt_byte(y, v)
      BY ONLY <3>1, CrcByteKeepsApart, x \in Fcs, y \in Fcs, u \in Byte, v \in Byte
    <3>3. QED
      BY ONLY <2>3, <2>4, <2>5, <2>8, <3>2, <1>1
  <2>9. QED
    BY <2>6, <2>7, <2>8, <1>1
<1> HIDE DEF I
<1>7. m \in I
  BY <1>1, <1>5, <1>6, SetInduction
<1>8. CrcRun(d)[m] # CrcRun(e)[m]
  <2>1. Right(m)
    BY <1>1, <1>7 DEF I
  <2>2. ~(m < i)
    BY <1>1
  <2>3. QED
    BY ONLY <2>1, <2>2
<1>9. crc_ccitt(d) # crc_ccitt(e)
  BY <1>1, <1>8, CrcIsRun
<1>10. QED
  BY <1>9 DEF check, e
=============================================================================
