-------------------------- MODULE DiveParserProofs --------------------------
(***************************************************************************)
(* parse_dive reads what was written, for every record: the proofs behind  *)
(* SamplesMatch, GasesMatch and PanicsOnlyOnEmptyMisc of DiveParser.       *)
(*                                                                         *)
(* The loop keeps no account of what it has read; the invariant says that  *)
(* after each turn there is a number k such that the locals are what the   *)
(* first k samples written mean, and the offset is behind them.            *)
(*                                                                         *)
(* First sums and last entries, one sample further; then what the bytes of *)
(* a sample make the loop do; then the types; then the turns.  Last, that  *)
(* no bytes are left out: any are those of some samples.                   *)
(***************************************************************************)
EXTENDS DiveParser, FiniteSetTheorems, SequenceTheorems, TLAPS

-----------------------------------------------------------------------------
(* Induction without an operator for a parameter, and the runs of a        *)
(* recursive function.                                                     *)

(* A set that holds 0 and with each number the next leaves none out.  The  *)
(* numbers up to m that it left out would be as many as themselves moved   *)
(* down by one, m among neither.                                           *)
LEMMA SetInduction ==
  ASSUME NEW I, 0 \in I, \A i \in Nat : i \in I => i + 1 \in I
  PROVE  \A i \in Nat : i \in I
<1>1. SUFFICES ASSUME NEW m \in Nat, m \notin I PROVE FALSE
  OBVIOUS
<1> DEFINE C == {i \in 0 .. m : i \notin I}
           f == [i \in C |-> i - 1]
<1>2. IsFiniteSet(C)
  <2>1. IsFiniteSet(0 .. m)
    BY FS_Interval
  <2>2. QED
    BY <2>1, FS_Subset
<1>3. \A i \in C : i - 1 \in C
  <2>1. SUFFICES ASSUME NEW i \in C PROVE i - 1 \in C
    OBVIOUS
  <2>2. i \in 0 .. m /\ i \notin I /\ i # 0
    OBVIOUS
  <2>3. i - 1 \in Nat /\ (i - 1) + 1 = i /\ i - 1 \in 0 .. m
    BY <2>2
  <2>4. i - 1 \notin I
    BY <2>2, <2>3
  <2>5. QED
    BY <2>3, <2>4
<1>4. f \in Injection(C, C)
  <2>1. f \in [C -> C]
    BY <1>3
  <2>2. \A a, b \in C : f[a] = f[b] => a = b
    OBVIOUS
  <2>3. QED
    BY <2>1, <2>2 DEF Injection, IsInjective
<1>5. f \in Surjection(C, C)
  <2> HIDE DEF f, C
  <2>1. Cardinality(C) = Cardinality(C) <=> f \in Surjection(C, C)
    BY <1>2, <1>4, FS_Injection
  <2>2. QED
    BY <2>1
<1>6. m \in C
  BY <1>1
<1>7. PICK i \in C : f[i] = m
  BY <1>5, <1>6 DEF Surjection
<1>8. i - 1 = m /\ i \in 0 .. m
  BY <1>7
<1>9. QED
  BY <1>1, <1>8

-----------------------------------------------------------------------------
(* A run of m steps from start by the table next.                          *)
Steps(start, next, m, g) ==
  g[0] = start /\ \A i \in 1 .. m : g[i] = next[<<g[i - 1], i>>]

LEMMA StepsExist ==
  ASSUME NEW S, NEW start \in S, NEW m \in Nat,
         NEW next \in [S \X (1 .. m) -> S]
  PROVE  \E g \in [0 .. m -> S] : Steps(start, next, m, g)
<1> DEFINE I == {k \in Nat : k <= m => \E g \in [0 .. k -> S] : Steps(start, next, k, g)}
<1>1. 0 \in I
  <2> DEFINE g == [i \in 0 .. 0 |-> start]
  <2>1. g \in [0 .. 0 -> S]
    OBVIOUS
  <2>2. Steps(start, next, 0, g)
    BY DEF Steps
  <2> HIDE DEF g
  <2>3. \E h \in [0 .. 0 -> S] : Steps(start, next, 0, h)
    BY <2>1, <2>2
  <2>4. QED
    BY <2>3
<1>2. \A k \in Nat : k \in I => k + 1 \in I
  <2>1. SUFFICES ASSUME NEW k \in Nat, k \in I, k + 1 <= m
                 PROVE  \E g \in [0 .. k + 1 -> S] : Steps(start, next, k + 1, g)
    OBVIOUS
  <2>2. PICK h \in [0 .. k -> S] : Steps(start, next, k, h)
    BY <2>1
  <2> DEFINE g == [i \in 0 .. k + 1 |-> IF i <= k THEN h[i] ELSE next[<<h[k], k + 1>>]]
  <2>3. next[<<h[k], k + 1>>] \in S
    <3>1. h[k] \in S /\ k + 1 \in 1 .. m
      BY <2>1
    <3>2. QED
      BY <3>1
  <2>4. g \in [0 .. k + 1 -> S]
    BY <2>3
  <2>5. g[0] = start
    BY <2>2 DEF Steps
  <2>6. ASSUME NEW i \in 1 .. k + 1 PROVE g[i] = next[<<g[i - 1], i>>]
    <3>1. CASE i <= k
      <4>1. g[i] = h[i] /\ g[i - 1] = h[i - 1] /\ i \in 1 .. k
        BY <3>1
      <4>2. h[i] = next[<<h[i - 1], i>>]
        BY <4>1, <2>2 DEF Steps
      <4>3. QED
        BY <4>1, <4>2
    <3>2. CASE i = k + 1
      <4>1. g[k + 1] = next[<<h[k], k + 1>>] /\ g[k] = h[k] /\ (k + 1) - 1 = k
        OBVIOUS
      <4>2. QED
        BY <3>2, <4>1
    <3>3. QED
      BY <3>1, <3>2
  <2>7. Steps(start, next, k + 1, g)
    BY <2>5, <2>6 DEF Steps
  <2> HIDE DEF g
  <2>8. QED
    BY <2>4, <2>7
<1> HIDE DEF I
<1>3. m \in I
  BY <1>1, <1>2, SetInduction
<1>4. QED
  BY <1>3 DEF I

(* The sums over the first samples go on one at a time. *)
TotalRun(d, f) ==
  CHOOSE t : t = [i \in 0 .. Len(d.written) |-> IF i = 0 THEN 0 ELSE t[i - 1] + f[i]]

LEMMA TotalIsRun == \A d, f : Total(d, f) = TotalRun(d, f)
BY DEF Total, TotalRun

LEMMA TotalSteps ==
  ASSUME NEW d, Len(d.written) \in Nat,
         NEW f, \A i \in 1 .. Len(d.written) : f[i] \in Int
  PROVE  /\ Total(d, f)[0] = 0
         /\ \A i \in 1 .. Len(d.written) : Total(d, f)[i] = Total(d, f)[i - 1] + f[i]
         /\ \A i \in 0 .. Len(d.written) : Total(d, f)[i] \in Int
<1>0. PICK m \in Nat : m = Len(d.written)
  OBVIOUS
<1> DEFINE next == [x \in Int \X (1 .. m) |-> x[1] + f[x[2]]]
           body(g) == [i \in 0 .. m |-> IF i = 0 THEN 0 ELSE g[i - 1] + f[i]]
<1>1. next \in [Int \X (1 .. m) -> Int]
  <2>1. SUFFICES ASSUME NEW x \in Int \X (1 .. m) PROVE x[1] + f[x[2]] \in Int
    OBVIOUS
  <2>2. x[1] \in Int /\ f[x[2]] \in Int
    BY <1>0
  <2>3. QED
    BY <2>2
<1>2. PICK g \in [0 .. m -> Int] : Steps(0, next, m, g)
  <2> HIDE DEF next
  <2>1. 0 \in Int
    OBVIOUS
  <2>2. QED
    BY ONLY <1>1, <2>1, m \in Nat, StepsExist
<1>3. ASSUME NEW i \in 0 .. m
      PROVE  g[i] = IF i = 0 THEN 0 ELSE g[i - 1] + f[i]
  <2>1. CASE i = 0
    BY <2>1, <1>2 DEF Steps
  <2>2. CASE i # 0
    <3>1. i \in 1 .. m /\ i - 1 \in 0 .. m
      BY <2>2
    <3>2. g[i] = next[<<g[i - 1], i>>]
      BY <3>1, <1>2 DEF Steps
    <3>3. <<g[i - 1], i>> \in Int \X (1 .. m)
      BY <3>1
    <3>4. QED
      BY <2>2, <3>2, <3>3
  <2>3. QED
    BY <2>1, <2>2
<1>4. g = body(g)
  BY <1>3
<1>5. TotalRun(d, f) = body(TotalRun(d, f))
  <2>1. TotalRun(d, f) = CHOOSE t : t = body(t)
    BY <1>0 DEF TotalRun
  <2> HIDE DEF body
  <2>2. QED
    BY <1>4, <2>1
<1> DEFINE r == TotalRun(d, f)
<1>6. \A i \in 0 .. m : r[i] = IF i = 0 THEN 0 ELSE r[i - 1] + f[i]
  BY <1>5
<1> HIDE DEF r
<1>7. r[0] = 0
  <2>1. 0 \in 0 .. m
    OBVIOUS
  <2>2. r[0] = IF 0 = 0 THEN 0 ELSE r[0 - 1] + f[0]
    BY ONLY <2>1, <1>6
  <2>3. QED
    BY ONLY <2>2
<1>8. \A i \in 1 .. m : r[i] = r[i - 1] + f[i]
  <2>1. SUFFICES ASSUME NEW i \in 1 .. m PROVE r[i] = r[i - 1] + f[i]
    OBVIOUS
  <2>2. i \in 0 .. m /\ i # 0
    OBVIOUS
  <2>3. r[i] = IF i = 0 THEN 0 ELSE r[i - 1] + f[i]
    BY ONLY <2>2, <1>6
  <2>4. QED
    BY ONLY <2>2, <2>3
<1>9. \A i \in 0 .. m : r[i] \in Int
  <2> DEFINE J == {i \in Nat : i <= m => r[i] \in Int}
  <2>1. 0 \in J
    BY <1>7
  <2>2. \A i \in Nat : i \in J => i + 1 \in J
    <3>1. SUFFICES ASSUME NEW i \in Nat, i \in J, i + 1 <= m PROVE r[i + 1] \in Int
      OBVIOUS
    <3>2. r[i] \in Int /\ i + 1 \in 1 .. m /\ (i + 1) - 1 = i
      BY <3>1
    <3>3. r[i + 1] = r[i] + f[i + 1] /\ f[i + 1] \in Int
      BY <3>2, <1>8, <1>0
    <3>4. QED
      BY <3>2, <3>3
  <2> HIDE DEF J
  <2>3. \A i \in Nat : i \in J
    BY <2>1, <2>2, SetInduction
  <2>4. QED
    BY <2>3 DEF J
<1>10. r = Total(d, f)
  BY TotalIsRun DEF r
<1>11. QED
  BY <1>0, <1>7, <1>8, <1>9, <1>10

(* They do not fall if nothing that is added is negative. *)
LEMMA TotalGrows ==
  ASSUME NEW d, Len(d.written) \in Nat,
         NEW f, \A i \in 1 .. Len(d.written) : f[i] \in Nat
  PROVE  /\ \A i \in 0 .. Len(d.written) : Total(d, f)[i] \in Nat
         /\ \A i, j \in 0 .. Len(d.written) : i <= j => Total(d, f)[i] <= Total(d, f)[j]
<1>0. PICK m \in Nat : m = Len(d.written)
  OBVIOUS
<1> DEFINE t == Total(d, f)
<1>1. /\ t[0] = 0
      /\ \A i \in 1 .. m : t[i] = t[i - 1] + f[i]
      /\ \A i \in 0 .. m : t[i] \in Int
      /\ \A i \in 1 .. m : f[i] \in Nat
  BY <1>0, TotalSteps
<1> HIDE DEF t
<1>2. ASSUME NEW i \in 0 .. m
      PROVE  \A j \in 0 .. m : i <= j => t[i] <= t[j]
  <2> DEFINE J == {k \in Nat : i + k <= m => t[i] <= t[i + k]}
  <2>1. 0 \in J
    BY <1>1
  <2>2. \A k \in Nat : k \in J => k + 1 \in J
    <3>1. SUFFICES ASSUME NEW k \in Nat, k \in J, i + (k + 1) <= m PROVE t[i] <= t[i + (k + 1)]
      OBVIOUS
    <3>2. t[i] <= t[i + k]
      BY <3>1
    <3>3. i + (k + 1) \in 1 .. m /\ (i + (k + 1)) - 1 = i + k /\ i + k \in 0 .. m
      BY <3>1
    <3>4. t[i + (k + 1)] = t[i + k] + f[i + (k + 1)] /\ f[i + (k + 1)] \in Nat
      BY <3>3, <1>1
    <3>5. t[i] \in Int /\ t[i + k] \in Int
      BY <3>3, <1>1
    <3>6. QED
      BY ONLY <3>2, <3>4, <3>5
  <2> HIDE DEF J
  <2>3. \A k \in Nat : k \in J
    BY <2>1, <2>2, SetInduction
  <2>4. SUFFICES ASSUME NEW j \in 0 .. m, i <= j PROVE t[i] <= t[j]
    OBVIOUS
  <2>5. j - i \in Nat /\ i + (j - i) = j
    BY <2>4
  <2>6. QED
    BY <2>3, <2>5 DEF J
<1>3. ASSUME NEW i \in 0 .. m PROVE t[i] \in Nat
  <2>1. t[0] <= t[i] /\ t[i] \in Int
    BY <1>1, <1>2
  <2>2. QED
    BY <2>1, <1>1
<1>4. QED
  BY <1>0, <1>2, <1>3 DEF t

-----------------------------------------------------------------------------
(* The largest and the smallest of a set. *)
LEMMA MaxIs ==
  ASSUME NEW S \in SUBSET Int, NEW x \in S, \A y \in S : y <= x
  PROVE  Max(S) = x
<1>1. x \in Int /\ \A y \in S : y \in Int
  OBVIOUS
<1>2. \A y \in S : x >= y
  BY <1>1
<1>3. ASSUME NEW z \in S, \A y \in S : z >= y PROVE z = x
  BY <1>1, <1>3
<1>4. QED
  BY <1>2, <1>3 DEF Max

LEMMA MinIs ==
  ASSUME NEW S \in SUBSET Int, NEW x \in S, \A y \in S : x <= y
  PROVE  Min(S) = x
<1>1. x \in Int /\ \A y \in S : y \in Int
  OBVIOUS
<1>2. ASSUME NEW z \in S, \A y \in S : z <= y PROVE z = x
  BY <1>1, <1>2
<1>3. QED
  BY <1>2 DEF Min

LEMMA MinNat ==
  ASSUME NEW S \in SUBSET Nat, S # {}
  PROVE  Min(S) \in S /\ \A y \in S : Min(S) <= y
<1>1. \E x \in S : \A y \in S : x <= y
  <2>1. SUFFICES ASSUME \A x \in S : \E y \in S : ~(x <= y) PROVE FALSE
    OBVIOUS
  <2> DEFINE J == {i \in Nat : \A j \in S : i <= j}
  <2>2. 0 \in J
    OBVIOUS
  <2>3. \A i \in Nat : i \in J => i + 1 \in J
    <3>1. SUFFICES ASSUME NEW i \in Nat, \A j \in S : i <= j, NEW j \in S PROVE i + 1 <= j
      OBVIOUS
    <3>2. i <= j /\ j \in Nat
      BY <3>1
    <3>3. i # j
      BY <2>1, <3>1
    <3>4. QED
      BY <3>2, <3>3
  <2>4. \A i \in Nat : i \in J
    <3> HIDE DEF J
    <3>1. QED
      BY <2>2, <2>3, SetInduction
  <2>5. PICK x \in S : TRUE
    OBVIOUS
  <2>6. x + 1 \in J /\ x \in Nat
    BY <2>4
  <2>7. QED
    BY <2>6
<1>2. QED
  BY <1>1 DEF Min

-----------------------------------------------------------------------------
(* The samples of some kinds, one sample further. *)
LEMMA EntriesStep ==
  ASSUME NEW d, NEW k \in Nat, NEW kinds
  PROVE  /\ Entries(d, 0, kinds) = {}
         /\ Entries(d, k, kinds) \in SUBSET (1 .. k)
         /\ d.written[k + 1].kind \in kinds =>
              Entries(d, k + 1, kinds) = Entries(d, k, kinds) \cup {k + 1}
         /\ d.written[k + 1].kind \notin kinds =>
              Entries(d, k + 1, kinds) = Entries(d, k, kinds)
<1>1. 1 .. k + 1 = (1 .. k) \cup {k + 1} /\ k + 1 \notin 1 .. k /\ 1 .. 0 = {}
  OBVIOUS
<1>2. QED
  BY <1>1 DEF Entries

LEMMA LastStep ==
  ASSUME NEW d, NEW k \in Nat, NEW kinds
  PROVE  /\ LastOf(d, 0, kinds) = 0
         /\ d.written[k + 1].kind \in kinds => LastOf(d, k + 1, kinds) = k + 1
         /\ d.written[k + 1].kind \notin kinds => LastOf(d, k + 1, kinds) = LastOf(d, k, kinds)
<1>1. LastOf(d, 0, kinds) = 0
  BY EntriesStep DEF LastOf
<1>2. ASSUME d.written[k + 1].kind \in kinds PROVE LastOf(d, k + 1, kinds) = k + 1
  <2> DEFINE S == Entries(d, k + 1, kinds)
  <2>1. S = Entries(d, k, kinds) \cup {k + 1} /\ Entries(d, k, kinds) \in SUBSET (1 .. k)
    BY <1>2, EntriesStep
  <2>2. S \in SUBSET Int /\ k + 1 \in S /\ \A y \in S : y <= k + 1
    BY <2>1
  <2> HIDE DEF S
  <2>3. Max(S) = k + 1
    BY ONLY <2>2, MaxIs
  <2>4. QED
    BY <2>2, <2>3 DEF LastOf, S
<1>3. ASSUME d.written[k + 1].kind \notin kinds
      PROVE  LastOf(d, k + 1, kinds) = LastOf(d, k, kinds)
  BY <1>3, EntriesStep DEF LastOf
<1>4. QED
  BY <1>1, <1>2, <1>3

LEMMA LastType ==
  ASSUME NEW d, NEW k \in Nat, NEW kinds
  PROVE  /\ LastOf(d, k, kinds) \in 0 .. k
         /\ LastOf(d, k, kinds) # 0 => d.written[LastOf(d, k, kinds)].kind \in kinds
<1> DEFINE Good(i) == /\ LastOf(d, i, kinds) \in 0 .. i
                      /\ LastOf(d, i, kinds) # 0 => d.written[LastOf(d, i, kinds)].kind \in kinds
           J == {i \in Nat : Good(i)}
<1>1. 0 \in J
  BY LastStep
<1>2. \A i \in Nat : i \in J => i + 1 \in J
  <2>1. SUFFICES ASSUME NEW i \in Nat, Good(i) PROVE Good(i + 1)
    OBVIOUS
  <2>2. CASE d.written[i + 1].kind \in kinds
    <3>1. LastOf(d, i + 1, kinds) = i + 1
      BY <2>2, LastStep
    <3>2. QED
      BY <2>2, <3>1
  <2>3. CASE d.written[i + 1].kind \notin kinds
    <3>1. LastOf(d, i + 1, kinds) = LastOf(d, i, kinds)
      BY <2>3, LastStep
    <3>2. QED
      BY <2>1, <3>1
  <2>4. QED
    BY <2>2, <2>3
<1>3. k \in J
  <2> HIDE DEF J
  <2>1. QED
    BY <1>1, <1>2, SetInduction
<1>4. QED
  BY <1>3

-----------------------------------------------------------------------------
(* What a record that is encoded holds. *)
Record(d) ==
  /\ Encoded(d)
  /\ d.body \in Seq(Byte) /\ d.o2 \in [1 .. 3 -> Nat]
  /\ d.trimix \in BOOLEAN /\ d.freedive \in BOOLEAN

LEMMA Sequence ==
  ASSUME NEW d, Record(d)
  PROVE  /\ Len(d.written) \in Nat /\ DOMAIN d.written = 1 .. Len(d.written)
         /\ Len(d.body) \in Nat
BY DEF Record, Encoded

(* A sample lies behind the one before, within the body. *)
LEMMA Place1 ==
  ASSUME NEW d, Record(d), NEW i \in 1 .. Len(d.written)
  PROVE  LET e == d.written[i] IN
         /\ e.start \in Nat /\ e.len \in Nat /\ e.start + e.len <= Len(d.body)
         /\ e.start = EndOf(d, i - 1) /\ EndOf(d, i) = e.start + e.len
         /\ Says(d, e)
         /\ \A j \in 1 .. e.len : d.body[e.start + j] \in Byte
<1>1. /\ Len(d.written) \in Nat /\ DOMAIN d.written = 1 .. Len(d.written)
      /\ Len(d.body) \in Nat /\ d.body \in Seq(Byte)
  BY Sequence DEF Record
<1> DEFINE e == d.written[i]
<1>2. /\ e.start = EndOf(d, i - 1) /\ e.len \in Nat /\ Says(d, e)
      /\ EndOf(d, i - 1) \in 0 .. Len(d.body) /\ EndOf(d, i) \in 0 .. Len(d.body)
  BY <1>1 DEF Record, Encoded
<1>3. EndOf(d, i) = e.start + e.len
  BY <1>1 DEF EndOf
<1> HIDE DEF e
<1>4. e.start \in Nat /\ e.start + e.len <= Len(d.body)
  BY <1>1, <1>2, <1>3
<1>5. ASSUME NEW j \in 1 .. e.len PROVE d.body[e.start + j] \in Byte
  <2>1. e.start + j \in 1 .. Len(d.body)
    BY <1>1, <1>2, <1>4
  <2>2. QED
    BY <1>1, <2>1
<1>6. QED
  BY <1>2, <1>3, <1>4, <1>5 DEF e

(* The first bytes of a sample are bytes, and its numbers are numbers. *)
LEMMA FirstBytes ==
  ASSUME NEW d, Record(d), NEW i \in 1 .. Len(d.written), NEW e, e = d.written[i]
  PROVE  /\ e.len >= 1 => d.body[e.start + 1] \in Byte
         /\ e.len >= 2 => d.body[e.start + 2] \in Byte
         /\ e.len >= 3 => d.body[e.start + 3] \in Byte
<1>1. e.len \in Nat /\ \A j \in 1 .. e.len : d.body[e.start + j] \in Byte
  BY Place1
<1>2. /\ e.len >= 1 => 1 \in 1 .. e.len
      /\ e.len >= 2 => 2 \in 1 .. e.len
      /\ e.len >= 3 => 3 \in 1 .. e.len
  BY <1>1
<1>3. QED
  BY ONLY <1>1, <1>2

LEMMA ByteNat == \A x \in Byte : x \in Nat /\ x <= 255
BY DEF Byte

LEMMA SignedInt ==
  /\ \A x \in Signed(4) : x \in Int /\ -8 <= x /\ x <= 7
  /\ \A x \in Signed(7) : x \in Int /\ -64 <= x /\ x <= 63
  /\ \A x \in Signed(16) : x \in Int /\ -32768 <= x /\ x <= 32767
<1>1. 2 ^ (4 - 1) = 8 /\ 2 ^ (7 - 1) = 64 /\ 2 ^ (16 - 1) = 32768
  OBVIOUS
<1>2. \A x \in Signed(4) : x \in Int /\ -8 <= x /\ x <= 7
  <2>1. Signed(4) = -8 .. 8 - 1
    BY ONLY <1>1 DEF Signed
  <2>2. QED
    BY ONLY <2>1
<1>3. \A x \in Signed(7) : x \in Int /\ -64 <= x /\ x <= 63
  <2>1. Signed(7) = -64 .. 64 - 1
    BY ONLY <1>1 DEF Signed
  <2>2. QED
    BY ONLY <2>1
<1>4. \A x \in Signed(16) : x \in Int /\ -32768 <= x /\ x <= 32767
  <2>1. PICK c \in Int : c = 32768
    BY SMT
  <2>2. Signed(16) = -c .. c - 1
    BY ONLY <1>1, <2>1 DEF Signed
  <2>3. \A x \in Signed(16) : x \in Int /\ -c <= x /\ x <= c - 1
    BY ONLY <2>2, c \in Int
  <2>4. c - 1 = 32767 /\ -c = -32768
    BY ONLY <2>1, SMT
  <2>5. QED
    BY ONLY <2>3, <2>4
<1>5. QED
  BY ONLY <1>2, <1>3, <1>4

LEMMA UnsignedNat ==
  /\ \A x \in Unsigned(4) : x \in Nat /\ x <= 15
  /\ \A x \in Unsigned(12) : x \in Nat /\ x <= 4095
<1>1. 2 ^ 4 = 16 /\ 2 ^ 12 = 4096
  BY SMT
<1>2. \A x \in Unsigned(4) : x \in Nat /\ x <= 15
  <2>1. Unsigned(4) = 0 .. 16 - 1
    BY ONLY <1>1 DEF Unsigned
  <2>2. QED
    BY ONLY <2>1
<1>3. \A x \in Unsigned(12) : x \in Nat /\ x <= 4095
  <2>1. PICK c \in Int : c = 4096
    BY SMT
  <2>2. Unsigned(12) = 0 .. c - 1
    BY ONLY <1>1, <2>1 DEF Unsigned
  <2>3. \A x \in Unsigned(12) : x \in Nat /\ x <= c - 1
    BY ONLY <2>2, c \in Int
  <2>4. c - 1 = 4095
    BY ONLY <2>1, SMT
  <2>5. QED
    BY ONLY <2>3, <2>4
<1>4. QED
  BY ONLY <1>2, <1>3

Numeric == {"depth", "absdepth", "temperature", "abstemperature", "pressure", "abspressure"}
LEMMA EntryTypes ==
  ASSUME NEW d, Record(d), NEW i \in 1 .. Len(d.written), NEW e, e = d.written[i]
  PROVE  /\ e.kind \in Kinds
         /\ e.kind \in Numeric => e.v \in Int
         /\ e.kind \in {"time", "gas", "mix", "misc"} => e.v \in Nat
         /\ e.kind = "abspressure" => e.tank \in Nat
         /\ e.len >= 1
<1> DEFINE b(j) == d.body[e.start + j]
           Typed == /\ e.kind \in Numeric => e.v \in Int
                    /\ e.kind \in {"time", "gas", "mix", "misc"} => e.v \in Nat
                    /\ e.kind = "abspressure" => e.tank \in Nat
                    /\ e.len >= 1
<1>1. Says(d, e)
  BY Place1
<1>2. e.len \in Nat
  BY Place1
<1>3. e.kind \in Kinds
  BY ONLY <1>1, PTL DEF Says
<1>4. d.trimix \in BOOLEAN
  BY DEF Record
<1>5. /\ e.len >= 1 => b(1) \in Nat
      /\ e.len >= 2 => b(2) \in Nat
      /\ e.len >= 3 => b(3) \in Nat
  BY FirstBytes, ByteNat
<1> SUFFICES Typed
  BY <1>3
<1>6. CASE e.kind = "depth"
  <2>1. e.len = 1 /\ e.v \in Signed(7)
    BY ONLY <1>1, <1>6, PTL DEF Says
  <2>2. QED
    BY ONLY <1>6, <2>1, SignedInt DEF Typed
<1>7. CASE e.kind = "temperature"
  <2>1. e.len = 1 /\ e.v \in Signed(4)
    BY ONLY <1>1, <1>7, PTL DEF Says
  <2>2. QED
    BY ONLY <1>7, <2>1, SignedInt DEF Typed
<1>8. CASE e.kind = "pressure"
  <2>1. e.len = 1 /\ e.v \in Signed(4)
    BY ONLY <1>1, <1>8, PTL DEF Says
  <2>2. QED
    BY ONLY <1>8, <2>1, SignedInt DEF Typed
<1>9. CASE e.kind = "time"
  <2>1. e.len = 1 /\ e.v \in Unsigned(4)
    BY ONLY <1>1, <1>9, PTL DEF Says
  <2>2. QED
    BY ONLY <1>9, <2>1, UnsignedNat DEF Typed, Numeric
<1>10. CASE e.kind = "apnea"
  <2>1. e.len = 9
    BY ONLY <1>1, <1>10, PTL DEF Says
  <2>2. QED
    BY ONLY <1>10, <2>1 DEF Typed, Numeric
<1>11. CASE e.kind = "other"
  <2>1. e.len = 1 \/ e.len = 2 \/ e.len = 3
    BY ONLY <1>1, <1>11, PTL DEF Says
  <2>2. QED
    BY ONLY <1>11, <2>1 DEF Typed, Numeric
<1>12. CASE e.kind = "abstemperature"
  <2>1. e.len = 3 /\ e.v \in Signed(16)
    BY ONLY <1>1, <1>12, PTL DEF Says
  <2>2. e.v \in Int
    BY ONLY <2>1, SignedInt, SMT
  <2>3. QED
    BY ONLY <1>12, <2>1, <2>2 DEF Typed
<1>13. CASE e.kind = "absdepth"
  <2>1. e.len = 3 /\ e.v = 256 * b(2) + b(3)
    BY ONLY <1>1, <1>13, PTL DEF Says
  <2>2. e.v \in Int
    BY ONLY <2>1, <1>5, SMT
  <2>3. QED
    BY ONLY <1>13, <2>1, <2>2 DEF Typed
<1>14. CASE e.kind = "abspressure"
  <2>1. e.len = 3
    BY ONLY <1>1, <1>14, PTL DEF Says
  <2>2. b(1) \in 244 .. 246
    BY ONLY <1>1, <1>14, PTL DEF Says
  <2>3. CASE d.trimix
    <3>1. e.v \in Unsigned(12) /\ e.tank \in Unsigned(4)
      BY ONLY <1>1, <1>14, <2>3, PTL DEF Says
    <3>2. e.v \in Int /\ e.tank \in Nat
      BY ONLY <3>1, UnsignedNat
    <3>3. QED
      BY ONLY <1>14, <2>1, <3>2 DEF Typed
  <2>4. CASE ~d.trimix
    <3>1. e.tank = b(1) - 244 /\ e.v = 256 * b(2) + b(3)
      BY ONLY <1>1, <1>14, <2>4, PTL DEF Says
    <3>2. e.v \in Int
      BY ONLY <2>1, <3>1, <1>5, SMT
    <3>3. e.tank \in Nat
      BY ONLY <2>2, <3>1, SMT
    <3>4. QED
      BY ONLY <1>14, <2>1, <3>2, <3>3 DEF Typed
  <2>5. QED
    BY ONLY <1>4, <2>3, <2>4
<1>15. CASE e.kind = "gas"
  <2>1. e.len = 2 /\ (e.v = (b(2) \div 32) % 4 \/ e.v = b(2) \div 16)
    BY ONLY <1>1, <1>15, PTL DEF Says
  <2>2. PICK x \in Nat : x = b(2)
    BY ONLY <1>5, <2>1
  <2>3. x \div 32 \in Nat /\ x \div 16 \in Nat
    BY ONLY x \in Nat, SMT
  <2>4. (x \div 32) % 4 \in Nat
    BY ONLY <2>3
  <2>5. e.v \in Nat
    BY ONLY <2>1, <2>2, <2>3, <2>4
  <2>6. QED
    BY ONLY <1>15, <2>1, <2>5 DEF Typed, Numeric
<1>16. CASE e.kind = "mix"
  <2>1. e.len >= 2 /\ IsMix(d, e) /\ e.mix = MixIn(d, e) /\ e.v = e.mix.id
    <3>1. e.kind \in {"mix", "misc"}
      BY ONLY <1>16
    <3>2. QED
      BY ONLY <1>1, <1>16, <3>1, PTL DEF Says
  <2>2. b(3) \in 32 .. 41 /\ e.v = b(3) - 32
    BY ONLY <2>1 DEF IsMix, MixIn
  <2>3. e.v \in Nat /\ e.len >= 1
    <3>1. PICK x : x = b(3) /\ x \in 32 .. 41 /\ e.v = x - 32
      BY ONLY <2>2
    <3>2. x - 32 \in Nat
      BY ONLY <3>1
    <3>3. e.len >= 1
      BY ONLY <1>2, <2>1
    <3>4. QED
      BY ONLY <3>1, <3>2, <3>3
  <2>4. QED
    BY ONLY <1>16, <2>3 DEF Typed, Numeric
<1>17. CASE e.kind = "misc"
  <2>1. e.len >= 2 /\ e.v = b(2)
    <3>1. e.kind \in {"mix", "misc"}
      BY ONLY <1>17
    <3>2. QED
      BY ONLY <1>1, <1>17, <3>1, PTL DEF Says
  <2>2. e.v \in Nat /\ e.len >= 1
    BY ONLY <2>1, <1>2, <1>5
  <2>3. QED
    BY ONLY <1>17, <2>2 DEF Typed, Numeric
<1>18. QED
  BY ONLY <1>3, <1>6, <1>7, <1>8, <1>9, <1>10, <1>11, <1>12, <1>13, <1>14, <1>15, <1>16, <1>17
     DEF Kinds

LEMMA EmitsType ==
  ASSUME NEW d, Record(d), NEW i \in 1 .. Len(d.written)
  PROVE  Emits(d, i) \in Nat
BY EntryTypes DEF Emits

-----------------------------------------------------------------------------
(* The meaning of the record, one sample further.                          *)

LEMMA EmittedSteps ==
  ASSUME NEW d, Record(d)
  PROVE  /\ Emitted(d)[0] = 0
         /\ \A i \in 1 .. Len(d.written) : Emitted(d)[i] = Emitted(d)[i - 1] + Emits(d, i)
         /\ \A i \in 0 .. Len(d.written) : Emitted(d)[i] \in Nat
         /\ \A i, j \in 0 .. Len(d.written) : i <= j => Emitted(d)[i] <= Emitted(d)[j]
<1>1. Len(d.written) \in Nat /\ DOMAIN d.written = 1 .. Len(d.written)
  BY Sequence
<1> DEFINE f == [i \in DOMAIN d.written |-> Emits(d, i)]
<1>2. \A i \in 1 .. Len(d.written) : f[i] = Emits(d, i) /\ f[i] \in Nat /\ f[i] \in Int
  BY <1>1, EmitsType
<1>3. Emitted(d) = Total(d, f)
  BY DEF Emitted
<1> HIDE DEF f
<1>4. QED
  BY ONLY <1>1, <1>2, <1>3, TotalSteps, TotalGrows

LEMMA DriftSteps ==
  ASSUME NEW d, Record(d), NEW delta \in Numeric
  PROVE  /\ Drift(d, delta)[0] = 0
         /\ \A i \in 0 .. Len(d.written) : Drift(d, delta)[i] \in Int
         /\ \A i \in 1 .. Len(d.written) :
              d.written[i].kind = delta =>
                Drift(d, delta)[i] = Drift(d, delta)[i - 1] + d.written[i].v
         /\ \A i \in 1 .. Len(d.written) :
              d.written[i].kind # delta => Drift(d, delta)[i] = Drift(d, delta)[i - 1]
<1>1. Len(d.written) \in Nat /\ DOMAIN d.written = 1 .. Len(d.written)
  BY Sequence
<1> DEFINE f == [i \in DOMAIN d.written |->
                   IF d.written[i].kind = delta THEN d.written[i].v ELSE 0]
<1>2. ASSUME NEW i \in 1 .. Len(d.written)
      PROVE  /\ d.written[i].kind = delta => f[i] = d.written[i].v
             /\ d.written[i].kind # delta => f[i] = 0
             /\ f[i] \in Int
  <2>1. d.written[i].kind \in Numeric => d.written[i].v \in Int
    BY EntryTypes
  <2>2. QED
    BY <1>1, <2>1
<1>3. Drift(d, delta) = Total(d, f)
  BY DEF Drift
<1> HIDE DEF f
<1> DEFINE t == Total(d, f)
<1>4. /\ t[0] = 0
      /\ \A i \in 1 .. Len(d.written) : t[i] = t[i - 1] + f[i]
      /\ \A i \in 0 .. Len(d.written) : t[i] \in Int
  BY ONLY <1>1, <1>2, TotalSteps
<1> HIDE DEF t
<1>5. ASSUME NEW i \in 1 .. Len(d.written)
      PROVE  /\ d.written[i].kind = delta => t[i] = t[i - 1] + d.written[i].v
             /\ d.written[i].kind # delta => t[i] = t[i - 1]
  <2>1. i - 1 \in 0 .. Len(d.written)
    BY <1>1
  <2>2. t[i] = t[i - 1] + f[i] /\ t[i - 1] \in Int
    BY ONLY <1>4, <2>1, i \in 1 .. Len(d.written)
  <2>3. QED
    BY ONLY <1>2, <2>2, i \in 1 .. Len(d.written)
<1>6. QED
  BY <1>3, <1>4, <1>5 DEF t
(* What the first k samples make of a kind: whether there is a value, and  *)
(* the value.                                                              *)
Track(d, k, abs, delta) ==
  [have |-> Entries(d, k, {abs}) # {}, v |-> ValueAt(d, k, abs, delta)]

LEMMA PlusIs ==
  \A have, x, y : Plus([have |-> have, v |-> x], y) = [have |-> have, v |-> x + y]
BY DEF Plus

LEMMA TrackSteps ==
  ASSUME NEW d, Record(d), NEW abs \in Numeric, NEW delta \in Numeric, abs # delta,
         NEW k \in Nat, k + 1 <= Len(d.written), NEW e, e = d.written[k + 1]
  PROVE  /\ e.kind = abs => Track(d, k + 1, abs, delta) = Absolute(e.v)
         /\ e.kind = delta => Track(d, k + 1, abs, delta) = Plus(Track(d, k, abs, delta), e.v)
         /\ e.kind \notin {abs, delta} =>
              Track(d, k + 1, abs, delta) = Track(d, k, abs, delta)
<1>1. PICK m \in Nat : m = Len(d.written)
  BY Sequence
<1>2. k \in 0 .. m /\ k + 1 \in 0 .. m /\ k + 1 \in 1 .. m /\ (k + 1) - 1 = k /\ 0 \in 0 .. m
  BY <1>1
<1> DEFINE s == Drift(d, delta)
<1>3. /\ s[0] = 0 /\ s[k] \in Int /\ s[k + 1] \in Int
      /\ e.kind = delta => s[k + 1] = s[k] + e.v
      /\ e.kind # delta => s[k + 1] = s[k]
      /\ \A i \in 0 .. m : s[i] \in Int
  BY <1>1, <1>2, DriftSteps
<1> HIDE DEF s
<1> DEFINE base(a) == IF a = 0 THEN 0 ELSE d.written[a].v
           last(i) == LastOf(d, i, {abs})
<1>4. \A i : ValueAt(d, i, abs, delta) = base(last(i)) + s[i] - s[last(i)]
  BY DEF ValueAt, s
<1>5. /\ e.kind = abs => last(k + 1) = k + 1
      /\ e.kind # abs => last(k + 1) = last(k)
  <2>1. /\ e.kind = abs => e.kind \in {abs}
        /\ e.kind # abs => e.kind \notin {abs}
    OBVIOUS
  <2>2. QED
    BY <2>1, LastStep
<1>6. last(k) \in 0 .. k /\ (last(k) # 0 => d.written[last(k)].kind = abs)
  BY LastType
<1>7. base(last(k)) \in Int
  <2>1. CASE last(k) = 0
    BY <2>1
  <2>2. CASE last(k) # 0
    <3>1. last(k) \in 1 .. Len(d.written)
      BY <1>1, <1>2, <1>6, <2>2
    <3>2. d.written[last(k)].v \in Int
      BY <1>6, <2>2, <3>1, EntryTypes
    <3>3. QED
      BY <2>2, <3>2
  <2>3. QED
    BY <2>1, <2>2
<1>8. s[last(k)] \in Int
  BY <1>2, <1>3, <1>6
<1>9. e.kind \in {abs, delta} => e.v \in Int
  BY <1>1, <1>2, EntryTypes
<1>10. k + 1 # 0
  OBVIOUS
<1>11. base(k + 1) = e.v
  BY <1>10
<1> HIDE DEF base, last
<1>12. ValueAt(d, k, abs, delta) = base(last(k)) + s[k] - s[last(k)]
  BY ONLY <1>4
<1>13. ValueAt(d, k + 1, abs, delta) = base(last(k + 1)) + s[k + 1] - s[last(k + 1)]
  BY ONLY <1>4
<1>14. ASSUME e.kind = abs PROVE ValueAt(d, k + 1, abs, delta) = e.v
  <2>1. ValueAt(d, k + 1, abs, delta) = e.v + s[k + 1] - s[k + 1]
    BY ONLY <1>5, <1>11, <1>13, <1>14
  <2>2. QED
    BY ONLY <1>3, <1>9, <1>14, <2>1
<1>15. ASSUME e.kind # abs
       PROVE  ValueAt(d, k + 1, abs, delta) = base(last(k)) + s[k + 1] - s[last(k)]
  BY ONLY <1>5, <1>13, <1>15
<1>16. ASSUME e.kind = delta
       PROVE  ValueAt(d, k + 1, abs, delta) = ValueAt(d, k, abs, delta) + e.v
  <2>1. e.kind # abs
    BY <1>16
  <2>2. ValueAt(d, k + 1, abs, delta) = base(last(k)) + (s[k] + e.v) - s[last(k)]
    BY ONLY <1>3, <1>15, <1>16, <2>1
  <2>3. e.v \in Int
    BY ONLY <1>9, <1>16
  <2>4. QED
    BY ONLY <1>3, <1>7, <1>8, <1>12, <2>2, <2>3
<1>17. ASSUME e.kind \notin {abs, delta}
       PROVE  ValueAt(d, k + 1, abs, delta) = ValueAt(d, k, abs, delta)
  <2>1. e.kind # abs /\ e.kind # delta
    BY <1>17
  <2>2. QED
    BY ONLY <1>3, <1>12, <1>15, <2>1
<1>18. /\ e.kind = abs => Entries(d, k + 1, {abs}) = Entries(d, k, {abs}) \cup {k + 1}
       /\ e.kind # abs => Entries(d, k + 1, {abs}) = Entries(d, k, {abs})
  <2>1. PICK kinds : kinds = {abs}
    OBVIOUS
  <2>2. /\ e.kind \in kinds => Entries(d, k + 1, kinds) = Entries(d, k, kinds) \cup {k + 1}
        /\ e.kind \notin kinds => Entries(d, k + 1, kinds) = Entries(d, k, kinds)
    BY ONLY EntriesStep, k \in Nat, e = d.written[k + 1]
  <2>3. QED
    BY ONLY <2>1, <2>2
<1>19. ASSUME e.kind = abs PROVE Track(d, k + 1, abs, delta) = Absolute(e.v)
  <2>1. Entries(d, k + 1, {abs}) # {}
    BY ONLY <1>18, <1>19
  <2>2. QED
    BY ONLY <1>14, <1>19, <2>1 DEF Track, Absolute
<1>20. ASSUME e.kind = delta
       PROVE  Track(d, k + 1, abs, delta) = Plus(Track(d, k, abs, delta), e.v)
  <2>1. Entries(d, k + 1, {abs}) = Entries(d, k, {abs})
    BY ONLY <1>18, <1>20, abs # delta
  <2>2. QED
    <3>1. ValueAt(d, k + 1, abs, delta) = ValueAt(d, k, abs, delta) + e.v
      BY ONLY <1>16, <1>20
    <3>2. Plus(Track(d, k, abs, delta), e.v)
            = [have |-> Entries(d, k, {abs}) # {}, v |-> ValueAt(d, k, abs, delta) + e.v]
      BY ONLY PlusIs, Zenon DEF Track
    <3>3. QED
      BY ONLY <2>1, <3>1, <3>2 DEF Track
<1>21. ASSUME e.kind \notin {abs, delta}
       PROVE  Track(d, k + 1, abs, delta) = Track(d, k, abs, delta)
  BY ONLY <1>17, <1>18, <1>21 DEF Track
<1>22. QED
  BY ONLY <1>19, <1>20, <1>21

(* The depth that is the surface: the first absolute one.                  *)
Level(d, k) == IF Entries(d, k, {"absdepth"}) = {} THEN 0 ELSE Surface(d, k)

LEMMA LevelSteps ==
  ASSUME NEW d, NEW k \in Nat, NEW e, e = d.written[k + 1]
  PROVE  /\ e.kind = "absdepth" /\ Entries(d, k, {"absdepth"}) # {} =>
              Level(d, k + 1) = Level(d, k)
         /\ e.kind = "absdepth" /\ Entries(d, k, {"absdepth"}) = {} => Level(d, k + 1) = e.v
         /\ e.kind # "absdepth" => Level(d, k + 1) = Level(d, k)
<1> DEFINE S == Entries(d, k, {"absdepth"})
           T == Entries(d, k + 1, {"absdepth"})
<1>1. /\ S \in SUBSET (1 .. k)
      /\ e.kind = "absdepth" => T = S \cup {k + 1}
      /\ e.kind # "absdepth" => T = S
  <2>1. PICK kinds : kinds = {"absdepth"}
    OBVIOUS
  <2>2. /\ e.kind \in kinds => Entries(d, k + 1, kinds) = Entries(d, k, kinds) \cup {k + 1}
        /\ e.kind \notin kinds => Entries(d, k + 1, kinds) = Entries(d, k, kinds)
    BY ONLY EntriesStep, k \in Nat, e = d.written[k + 1]
  <2>3. Entries(d, k, kinds) \in SUBSET (1 .. k)
    BY ONLY EntriesStep, k \in Nat
  <2>4. QED
    BY ONLY <2>1, <2>2, <2>3 DEF S, T
<1> HIDE DEF S, T
<1>3. Level(d, k) = IF S = {} THEN 0 ELSE d.written[Min(S)].v
  BY DEF Level, Surface, S
<1>4. Level(d, k + 1) = IF T = {} THEN 0 ELSE d.written[Min(T)].v
  BY DEF Level, Surface, T
<1>5. ASSUME e.kind = "absdepth", S # {} PROVE Level(d, k + 1) = Level(d, k)
  <2>1. Min(S) \in S /\ \A y \in S : Min(S) <= y
    <3>1. S \in SUBSET Nat
      BY <1>1
    <3>2. QED
      BY ONLY <3>1, <1>5, MinNat
  <2>2. T \in SUBSET Int /\ Min(S) \in T /\ \A y \in T : Min(S) <= y
    <3>1. T = S \cup {k + 1} /\ S \in SUBSET (1 .. k)
      BY ONLY <1>1, <1>5
    <3>2. Min(S) \in 1 .. k
      BY ONLY <3>1, <2>1
    <3>3. Min(S) <= k + 1
      BY ONLY <3>2, k \in Nat
    <3>4. T \in SUBSET Int
      BY ONLY <3>1, k \in Nat
    <3>5. QED
      BY ONLY <3>1, <3>3, <3>4, <2>1
  <2>3. Min(T) = Min(S)
    BY ONLY <2>2, MinIs
  <2>4. T # {}
    BY <2>2
  <2>5. QED
    BY ONLY <1>3, <1>4, <1>5, <2>3, <2>4
<1>6. ASSUME e.kind = "absdepth", S = {} PROVE Level(d, k + 1) = e.v
  <2>1. T = {k + 1}
    BY <1>1, <1>6
  <2>2. T \in SUBSET Int /\ k + 1 \in T /\ \A y \in T : k + 1 <= y
    BY <2>1
  <2>3. Min(T) = k + 1
    BY ONLY <2>2, MinIs
  <2>4. QED
    BY <1>4, <2>1, <2>3
<1>7. ASSUME e.kind # "absdepth" PROVE Level(d, k + 1) = Level(d, k)
  <2>1. T = S
    BY ONLY <1>1, <1>7
  <2>2. QED
    BY ONLY <1>3, <1>4, <2>1
<1>8. QED
  BY <1>5, <1>6, <1>7 DEF S

(* The mix in use. *)
LEMMA ActiveSteps ==
  ASSUME NEW d, Record(d), NEW k \in Nat, k + 1 <= Len(d.written), NEW e, e = d.written[k + 1]
  PROVE  /\ e.kind = "gas" => ActiveAt(d, k + 1) = e.v
         /\ e.kind = "abspressure" => ActiveAt(d, k + 1) = e.tank
         /\ e.kind \notin {"gas", "abspressure"} => ActiveAt(d, k + 1) = ActiveAt(d, k)
<1> DEFINE kinds == {"gas", "abspressure"}
<1>1. /\ e.kind \in kinds => LastOf(d, k + 1, kinds) = k + 1
      /\ e.kind \notin kinds => LastOf(d, k + 1, kinds) = LastOf(d, k, kinds)
  BY LastStep
<1>2. k + 1 # 0
  OBVIOUS
<1>3. QED
  BY <1>1, <1>2 DEF ActiveAt

LEMMA ActiveType ==
  ASSUME NEW d, Record(d), NEW k \in 0 .. Len(d.written)
  PROVE  ActiveAt(d, k) \in Nat
<1> DEFINE g == LastOf(d, k, {"gas", "abspressure"})
<1>1. Len(d.written) \in Nat
  BY Sequence
<1>2. g \in 0 .. k /\ (g # 0 => d.written[g].kind \in {"gas", "abspressure"})
  <2>1. k \in Nat
    BY ONLY <1>1, k \in 0 .. Len(d.written)
  <2>2. PICK kinds : /\ kinds = {"gas", "abspressure"}
                     /\ LastOf(d, k, kinds) \in 0 .. k
                     /\ LastOf(d, k, kinds) # 0 => d.written[LastOf(d, k, kinds)].kind \in kinds
    BY ONLY <2>1, LastType
  <2>3. QED
    BY ONLY <2>1, <2>2
<1>3. ActiveAt(d, k) = IF g = 0 THEN 0
                       ELSE IF d.written[g].kind = "gas" THEN d.written[g].v ELSE d.written[g].tank
  BY DEF ActiveAt
<1> HIDE DEF g
<1>4. CASE g = 0
  BY <1>3, <1>4
<1>5. CASE g # 0
  <2>1. g \in 1 .. Len(d.written)
    BY <1>1, <1>2, <1>5
  <2>2. /\ d.written[g].kind = "gas" => d.written[g].v \in Nat
        /\ d.written[g].kind = "abspressure" => d.written[g].tank \in Nat
    BY <2>1, EntryTypes
  <2>3. QED
    BY <1>2, <1>3, <1>5, <2>2
<1>6. QED
  BY <1>4, <1>5

(* The mixes described, and how each was first. *)
LEMMA DescribedSteps ==
  ASSUME NEW d, NEW k \in Nat, NEW e, e = d.written[k + 1]
  PROVE  /\ e.kind = "mix" => DescribedAt(d, k + 1) = DescribedAt(d, k) \cup {e.v}
         /\ e.kind # "mix" => DescribedAt(d, k + 1) = DescribedAt(d, k)
<1> DEFINE S == Entries(d, k, {"mix"})
           T == Entries(d, k + 1, {"mix"})
<1>1. /\ e.kind = "mix" => T = S \cup {k + 1}
      /\ e.kind # "mix" => T = S
  <2>1. PICK kinds : kinds = {"mix"}
    OBVIOUS
  <2>2. /\ e.kind \in kinds => Entries(d, k + 1, kinds) = Entries(d, k, kinds) \cup {k + 1}
        /\ e.kind \notin kinds => Entries(d, k + 1, kinds) = Entries(d, k, kinds)
    BY ONLY EntriesStep, k \in Nat, e = d.written[k + 1]
  <2>3. Entries(d, k, kinds) \in SUBSET (1 .. k)
    BY ONLY EntriesStep, k \in Nat
  <2>4. QED
    BY ONLY <2>1, <2>2, <2>3 DEF S, T
<1> HIDE DEF S, T
<1>3. /\ DescribedAt(d, k) = InHeader(d) \cup {d.written[j].v : j \in S}
      /\ DescribedAt(d, k + 1) = InHeader(d) \cup {d.written[j].v : j \in T}
  BY DEF DescribedAt, S, T
<1>4. ASSUME e.kind = "mix" PROVE DescribedAt(d, k + 1) = DescribedAt(d, k) \cup {e.v}
  <2>1. T = S \cup {k + 1}
    BY <1>1, <1>4
  <2>2. {d.written[j].v : j \in S \cup {k + 1}} = {d.written[j].v : j \in S} \cup {e.v}
    OBVIOUS
  <2>3. QED
    BY ONLY <1>3, <2>1, <2>2
<1>5. ASSUME e.kind # "mix" PROVE DescribedAt(d, k + 1) = DescribedAt(d, k)
  BY <1>1, <1>3, <1>5
<1>6. QED
  BY <1>4, <1>5

LEMMA FirstMixSteps ==
  ASSUME NEW d, NEW k \in Nat, NEW e, e = d.written[k + 1]
  PROVE  /\ \A id \in InHeader(d) : FirstMix(d, k, id) = [id |-> id, o2 |-> d.o2[id + 1], he |-> 0]
         /\ \A id \in DescribedAt(d, k) : FirstMix(d, k + 1, id) = FirstMix(d, k, id)
         /\ e.kind = "mix" /\ e.v \notin DescribedAt(d, k) => FirstMix(d, k + 1, e.v) = e.mix
<1> DEFINE S(id) == {j \in Entries(d, k, {"mix"}) : d.written[j].v = id}
           T(id) == {j \in Entries(d, k + 1, {"mix"}) : d.written[j].v = id}
<1>1. /\ Entries(d, k, {"mix"}) \in SUBSET (1 .. k)
      /\ e.kind = "mix" => Entries(d, k + 1, {"mix"}) = Entries(d, k, {"mix"}) \cup {k + 1}
      /\ e.kind # "mix" => Entries(d, k + 1, {"mix"}) = Entries(d, k, {"mix"})
  <2>1. PICK kinds : kinds = {"mix"}
    OBVIOUS
  <2>2. /\ e.kind \in kinds => Entries(d, k + 1, kinds) = Entries(d, k, kinds) \cup {k + 1}
        /\ e.kind \notin kinds => Entries(d, k + 1, kinds) = Entries(d, k, kinds)
    BY ONLY EntriesStep, k \in Nat, e = d.written[k + 1]
  <2>3. Entries(d, k, kinds) \in SUBSET (1 .. k)
    BY ONLY EntriesStep, k \in Nat
  <2>4. QED
    BY ONLY <2>1, <2>2, <2>3
<1>2. \A id : S(id) \in SUBSET (1 .. k)
  BY <1>1
<1>3. \A id : T(id) = S(id) \/ T(id) = S(id) \cup {k + 1}
  BY <1>1
<1>4. \A id : id \in DescribedAt(d, k) /\ id \notin InHeader(d) => S(id) # {}
  BY DEF DescribedAt
<1>5. e.kind = "mix" => k + 1 \in T(e.v)
  BY <1>1
<1>6. e.v \notin DescribedAt(d, k) => S(e.v) = {}
  BY DEF DescribedAt
<1>7. \A id : /\ id \in InHeader(d) =>
                   /\ FirstMix(d, k, id) = [id |-> id, o2 |-> d.o2[id + 1], he |-> 0]
                   /\ FirstMix(d, k + 1, id) = [id |-> id, o2 |-> d.o2[id + 1], he |-> 0]
              /\ id \notin InHeader(d) =>
                   /\ FirstMix(d, k, id) = d.written[Min(S(id))].mix
                   /\ FirstMix(d, k + 1, id) = d.written[Min(T(id))].mix
  BY DEF FirstMix
<1> HIDE DEF S, T
<1>8. ASSUME NEW id \in DescribedAt(d, k), id \notin InHeader(d) PROVE Min(T(id)) = Min(S(id))
  <2>1. S(id) # {} /\ S(id) \in SUBSET Nat
    BY <1>2, <1>4, <1>8
  <2>2. Min(S(id)) \in S(id) /\ \A y \in S(id) : Min(S(id)) <= y
    BY ONLY <2>1, MinNat
  <2>3. T(id) \in SUBSET Int /\ Min(S(id)) \in T(id) /\ \A y \in T(id) : Min(S(id)) <= y
    BY <1>2, <1>3, <2>2
  <2>4. QED
    BY ONLY <2>3, MinIs
<1>9. ASSUME e.kind = "mix", e.v \notin DescribedAt(d, k) PROVE Min(T(e.v)) = k + 1
  <2>1. T(e.v) = {k + 1}
    BY <1>3, <1>5, <1>6, <1>9
  <2>2. T(e.v) \in SUBSET Int /\ k + 1 \in T(e.v) /\ \A y \in T(e.v) : k + 1 <= y
    BY <2>1
  <2>3. QED
    BY ONLY <2>2, MinIs
<1>10. e.v \notin DescribedAt(d, k) => e.v \notin InHeader(d)
  BY DEF DescribedAt
<1>11. QED
  BY <1>7, <1>8, <1>9, <1>10


(* Before the first sample. *)
LEMMA AtStart ==
  ASSUME NEW d, Record(d)
  PROVE  /\ \A abs, delta \in Numeric : Track(d, 0, abs, delta) = Unread
         /\ Level(d, 0) = 0 /\ ActiveAt(d, 0) = 0 /\ DescribedAt(d, 0) = InHeader(d)
<1>1. \A kinds : Entries(d, 0, kinds) = {} /\ LastOf(d, 0, kinds) = 0
  BY EntriesStep, LastStep
<1>2. ASSUME NEW abs \in Numeric, NEW delta \in Numeric
      PROVE  Track(d, 0, abs, delta) = Unread
  <2>1. Drift(d, delta)[0] = 0
    BY DriftSteps
  <2>2. ValueAt(d, 0, abs, delta) = 0
    BY ONLY <1>1, <2>1 DEF ValueAt
  <2>3. QED
    BY ONLY <1>1, <2>2 DEF Track, Unread
<1>3. Level(d, 0) = 0 /\ ActiveAt(d, 0) = 0 /\ DescribedAt(d, 0) = InHeader(d)
  BY <1>1 DEF Level, ActiveAt, DescribedAt
<1>4. QED
  BY <1>2, <1>3

(* The points of a sample. *)
LEMMA EmitsIs ==
  ASSUME NEW d, NEW i, NEW e, e = d.written[i]
  PROVE  /\ e.kind \in {"depth", "absdepth"} => Emits(d, i) = 1
         /\ e.kind = "time" => Emits(d, i) = e.v
         /\ e.kind \notin {"depth", "absdepth", "time"} => Emits(d, i) = 0
BY DEF Emits

(* The mix that the last sample with points among the first k lies on. *)
LastActive(d, k) ==
  IF Before(d, k + 1) = {} THEN -1 ELSE ActiveAt(d, Max(Before(d, k + 1)))

LEMMA LastActiveSteps ==
  ASSUME NEW d, Record(d), NEW k \in Nat, k + 1 <= Len(d.written)
  PROVE  /\ Emits(d, k + 1) = 0 => /\ LastActive(d, k + 1) = LastActive(d, k)
                                   /\ k + 1 \notin Switches(d)
         /\ Emits(d, k + 1) > 0 =>
              /\ LastActive(d, k + 1) = ActiveAt(d, k + 1)
              /\ k + 1 \in Switches(d) <=> ActiveAt(d, k + 1) # LastActive(d, k)
<1>1. Len(d.written) \in Nat /\ DOMAIN d.written = 1 .. Len(d.written)
  BY Sequence
<1>2. /\ \A j \in Emitting(d) : j \in 1 .. Len(d.written) /\ Emits(d, j) > 0
      /\ k + 1 \in Emitting(d) <=> Emits(d, k + 1) > 0
  BY <1>1 DEF Emitting
<1> DEFINE S == Before(d, k + 1)
           T == Before(d, k + 2)
<1>3. S \in SUBSET (1 .. k)
  BY <1>1, <1>2 DEF Before
<1>4. \A j \in 1 .. Len(d.written) : j < k + 2 <=> j < k + 1 \/ j = k + 1
  BY <1>1
<1>5. /\ k + 1 \in Emitting(d) => T = S \cup {k + 1}
      /\ k + 1 \notin Emitting(d) => T = S
  BY <1>2, <1>4 DEF Before
<1>6. k + 2 = (k + 1) + 1
  OBVIOUS
<1>7. /\ LastActive(d, k) = IF S = {} THEN -1 ELSE ActiveAt(d, Max(S))
      /\ LastActive(d, k + 1) = IF T = {} THEN -1 ELSE ActiveAt(d, Max(T))
  BY <1>6 DEF LastActive
<1>8. k + 1 \in Switches(d) <=>
        /\ k + 1 \in Emitting(d)
        /\ S = {} \/ ActiveAt(d, Max(S)) # ActiveAt(d, k + 1)
  BY DEF Switches
<1> HIDE DEF S, T
<1>9. ASSUME Emits(d, k + 1) = 0
      PROVE  LastActive(d, k + 1) = LastActive(d, k) /\ k + 1 \notin Switches(d)
  <2>1. k + 1 \notin Emitting(d)
    BY <1>2, <1>9
  <2>2. QED
    BY ONLY <1>5, <1>7, <1>8, <2>1
<1>10. ASSUME Emits(d, k + 1) > 0
       PROVE  /\ LastActive(d, k + 1) = ActiveAt(d, k + 1)
              /\ k + 1 \in Switches(d) <=> ActiveAt(d, k + 1) # LastActive(d, k)
  <2>1. k + 1 \in Emitting(d) /\ T = S \cup {k + 1}
    BY <1>2, <1>5, <1>10
  <2>2. Max(T) = k + 1
    <3>1. T \in SUBSET Int /\ k + 1 \in T /\ \A y \in T : y <= k + 1
      BY <1>3, <2>1
    <3>2. QED
      BY ONLY <3>1, MaxIs
  <2>3. LastActive(d, k + 1) = ActiveAt(d, k + 1)
    BY ONLY <1>7, <2>1, <2>2
  <2>4. ActiveAt(d, k + 1) # -1
    <3>1. k + 1 \in 0 .. Len(d.written)
      BY <1>1
    <3>2. ActiveAt(d, k + 1) \in Nat
      BY ONLY <3>1, Record(d), ActiveType
    <3>3. QED
      BY ONLY <3>2
  <2>5. QED
    BY ONLY <1>7, <1>8, <2>1, <2>3, <2>4
<1>11. QED
  BY ONLY <1>9, <1>10

LEMMA SwitchedSteps ==
  ASSUME NEW d, Record(d)
  PROVE  /\ Switched(d)[0] = 0
         /\ \A i \in 1 .. Len(d.written) :
              Switched(d)[i] = Switched(d)[i - 1] + (IF i \in Switches(d) THEN 1 ELSE 0)
         /\ \A i \in 0 .. Len(d.written) : Switched(d)[i] \in Nat
         /\ \A i, j \in 0 .. Len(d.written) : i <= j => Switched(d)[i] <= Switched(d)[j]
<1>1. Len(d.written) \in Nat /\ DOMAIN d.written = 1 .. Len(d.written)
  BY Sequence
<1> DEFINE f == [i \in DOMAIN d.written |-> IF i \in Switches(d) THEN 1 ELSE 0]
<1>2. \A i \in 1 .. Len(d.written) :
        f[i] = (IF i \in Switches(d) THEN 1 ELSE 0) /\ f[i] \in Nat /\ f[i] \in Int
  BY <1>1
<1>3. Switched(d) = Total(d, f)
  BY DEF Switched
<1> HIDE DEF f
<1>4. QED
  BY ONLY <1>1, <1>2, <1>3, TotalSteps, TotalGrows

LEMMA LastActiveStart ==
  ASSUME NEW d, Record(d)
  PROVE  LastActive(d, 0) = -1
<1>1. DOMAIN d.written = 1 .. Len(d.written) /\ Len(d.written) \in Nat
  BY Sequence
<1>2. Before(d, 0 + 1) = {}
  BY <1>1 DEF Before, Emitting
<1>3. QED
  BY ONLY <1>2 DEF LastActive

-----------------------------------------------------------------------------
(* What the bytes of a sample make the loop read.                          *)

(* The row of the table by the first byte. *)
LEMMA RowOf ==
  ASSUME NEW x \in Nat
  PROVE  /\ x < 128 => galileo_identify(x) = 0
         /\ 128 <= x /\ x < 160 => galileo_identify(x) = 1
         /\ 160 <= x /\ x < 176 => galileo_identify(x) = 2
         /\ 176 <= x /\ x < 192 => galileo_identify(x) = 3
         /\ 192 <= x /\ x < 208 => galileo_identify(x) = 4
         /\ 208 <= x /\ x < 224 => galileo_identify(x) = 5
         /\ 224 <= x /\ x < 240 => galileo_identify(x) = 6
         /\ 240 <= x => galileo_identify(x) = x - 233
<1> DEFINE r == galileo_identify(x)
<1>1. /\ 160 <= x /\ x < 176 => (x \div 16) - 8 = 2
      /\ 176 <= x /\ x < 192 => (x \div 16) - 8 = 3
      /\ 192 <= x /\ x < 208 => (x \div 16) - 8 = 4
      /\ 208 <= x /\ x < 224 => (x \div 16) - 8 = 5
      /\ 224 <= x /\ x < 240 => (x \div 16) - 8 = 6
  BY ONLY x \in Nat
<1>2. /\ x \in 128 .. 159 <=> 128 <= x /\ x < 160
      /\ x \in 160 .. 239 <=> 160 <= x /\ x < 240
  BY ONLY x \in Nat
<1>3. /\ x < 128 => r = 0
      /\ 128 <= x /\ x < 160 => r = 1
      /\ 160 <= x /\ x < 240 => r = (x \div 16) - 8
      /\ 240 <= x => r = (x - 240) + 7
  BY ONLY <1>2, x \in Nat DEF galileo_identify
<1> HIDE DEF r
<1>4. QED
  BY <1>1, <1>3 DEF r

LEMMA Rows ==
  /\ GALILEO_SAMPLES[1] = SInfo("depth", FALSE, 0, 1, 0)
  /\ GALILEO_SAMPLES[2] = SInfo("rbt", FALSE, 0, 3, 0)
  /\ GALILEO_SAMPLES[3] = SInfo("pressure", FALSE, 0, 4, 0)
  /\ GALILEO_SAMPLES[4] = SInfo("temperature", FALSE, 0, 4, 0)
  /\ GALILEO_SAMPLES[5] = SInfo("time", TRUE, 0, 4, 0)
  /\ GALILEO_SAMPLES[6] = SInfo("heartrate", FALSE, 0, 4, 0)
  /\ GALILEO_SAMPLES[7] = SInfo("alarms", TRUE, 0, 4, 0)
  /\ GALILEO_SAMPLES[8] = SInfo("alarms", TRUE, 1, 8, 1)
  /\ GALILEO_SAMPLES[9] = SInfo("depth", TRUE, 0, 8, 2)
  /\ GALILEO_SAMPLES[10] = SInfo("rbt", TRUE, 0, 8, 1)
  /\ GALILEO_SAMPLES[11] = SInfo("temperature", TRUE, 0, 8, 2)
  /\ GALILEO_SAMPLES[12] = SInfo("pressure", TRUE, 0, 8, 2)
  /\ GALILEO_SAMPLES[13] = SInfo("pressure", TRUE, 1, 8, 2)
  /\ GALILEO_SAMPLES[14] = SInfo("pressure", TRUE, 2, 8, 2)
  /\ GALILEO_SAMPLES[15] = SInfo("heartrate", TRUE, 0, 8, 1)
  /\ GALILEO_SAMPLES[16] = SInfo("bearing", TRUE, 0, 8, 2)
  /\ GALILEO_SAMPLES[17] = SInfo("alarms", TRUE, 2, 8, 1)
  /\ GALILEO_SAMPLES[18] = SInfo("apnea", TRUE, 0, 8, 0)
  /\ GALILEO_SAMPLES[19] = SInfo("misc", TRUE, 0, 8, 1)
BY DEF GALILEO_SAMPLES

LEMMA InfoOf ==
  ASSUME NEW r \in Nat, galileo_identify(At(offset)) = r
  PROVE  (Known <=> r < 19) /\ Info = GALILEO_SAMPLES[r + 1]
<1>1. Len(GALILEO_SAMPLES) = 19
  BY DEF GALILEO_SAMPLES
<1>2. QED
  BY <1>1 DEF Known, Info

(* The value by the row: what is left of the first byte, or the bytes       *)
(* behind it.                                                              *)
LEMMA Powers == 2 ^ 3 = 8 /\ 2 ^ 4 = 16 /\ 2 ^ 6 = 64 /\ 2 ^ 7 = 128 /\ 2 ^ 15 = 32768 /\ 2 ^ 16 = 65536
OBVIOUS

LEMMA ShortValue ==
  ASSUME NEW x \in Nat, x = At(offset), offset \in Nat, Info.extra = 0
  PROVE  /\ Info.bits = 1 => Past = offset + 1 /\ value = x % 128 /\ svalue = signextend(x % 128, 7)
         /\ Info.bits = 4 => Past = offset + 1 /\ value = x % 16 /\ svalue = signextend(x % 16, 4)
<1>1. Past = offset + 1
  BY DEF Past
<1>2. ASSUME Info.bits = 1
      PROVE  Past = offset + 1 /\ value = x % 128 /\ svalue = signextend(x % 128, 7)
  <2>1. 1 < 8 /\ 8 - 1 = 7
    OBVIOUS
  <2>2. nbits = 7
    BY ONLY <1>2, <2>1 DEF nbits
  <2>3. value = x % 2 ^ 7
    <3>1. Info.bits < 8 /\ Info.bits # 8 /\ 8 - Info.bits = 7
      BY ONLY <1>2, <2>1
    <3>2. value = At(offset) % 2 ^ (8 - Info.bits)
      BY ONLY <3>1, Zenon DEF value
    <3>3. QED
      BY ONLY <3>1, <3>2, x = At(offset), Zenon
  <2>4. value = x % 128
    BY ONLY <2>3, Powers
  <2>5. QED
    BY ONLY <1>1, <2>2, <2>4 DEF svalue
<1>3. ASSUME Info.bits = 4
      PROVE  Past = offset + 1 /\ value = x % 16 /\ svalue = signextend(x % 16, 4)
  <2>1. 4 < 8 /\ 8 - 4 = 4
    OBVIOUS
  <2>2. nbits = 4
    BY ONLY <1>3, <2>1 DEF nbits
  <2>3. value = x % 2 ^ 4
    <3>1. Info.bits < 8 /\ Info.bits # 8 /\ 8 - Info.bits = 4
      BY ONLY <1>3, <2>1
    <3>2. value = At(offset) % 2 ^ (8 - Info.bits)
      BY ONLY <3>1, Zenon DEF value
    <3>3. QED
      BY ONLY <3>1, <3>2, x = At(offset), Zenon
  <2>4. value = x % 16
    BY ONLY <2>3, Powers
  <2>5. QED
    BY ONLY <1>1, <2>2, <2>4 DEF svalue
<1>4. QED
  BY ONLY <1>2, <1>3

LEMMA LongValue ==
  ASSUME offset \in Nat, Info.bits = 8
  PROVE  /\ Info.extra = 0 => Past = offset + 1
         /\ Info.extra = 1 => Past = offset + 2 /\ value = At(offset + 1)
         /\ Info.extra = 2 =>
              /\ Past = offset + 3 /\ value = 256 * At(offset + 1) + At(offset + 2)
              /\ svalue = signextend(256 * At(offset + 1) + At(offset + 2), 16)
<1>1. ~(8 < 8)
  OBVIOUS
<1>2. Info.extra = 1 => value = At(offset + 1)
  BY ONLY <1>1, Info.bits = 8 DEF value
<1>3. Info.extra = 2 => value = 256 * At(offset + 1) + At(offset + 2)
  BY ONLY <1>1, Info.bits = 8 DEF value
<1>4. Info.extra = 2 => nbits = 16
  BY ONLY <1>1, Info.bits = 8 DEF nbits
<1>5. /\ Info.extra = 0 => Past = offset + 1
      /\ Info.extra = 1 => Past = offset + 2
      /\ Info.extra = 2 => Past = offset + 3
  BY DEF Past
<1>6. Info.extra = 2 => svalue = signextend(256 * At(offset + 1) + At(offset + 2), 16)
  BY ONLY <1>3, <1>4 DEF svalue
<1>7. QED
  BY ONLY <1>2, <1>3, <1>5, <1>6

(* A number that is encoded in two's complement comes back.                *)
LEMMA SignBack ==
  /\ \A v \in Signed(4) : v % 16 \in Nat /\ v % 16 < 16 /\ signextend(v % 16, 4) = v
  /\ \A v \in Signed(7) : v % 128 \in Nat /\ v % 128 < 128 /\ signextend(v % 128, 7) = v
  /\ \A v \in Signed(16) : v % 65536 \in Nat /\ signextend(v % 65536, 16) = v
<1>1. ASSUME NEW v \in Signed(4)
      PROVE  v % 16 \in Nat /\ v % 16 < 16 /\ signextend(v % 16, 4) = v
  <2>1. v \in Int /\ -8 <= v /\ v <= 7
    BY ONLY SignedInt, v \in Signed(4)
  <2>2. /\ 0 <= v => v % 16 = v
        /\ v < 0 => v % 16 = v + 16
    BY ONLY <2>1
  <2>3. 4 > 0 /\ 4 - 1 = 3
    OBVIOUS
  <2>4. signextend(v % 16, 4) = IF v % 16 >= 8 THEN (v % 16) - 16 ELSE v % 16
    BY ONLY <2>3, Powers DEF signextend
  <2>5. QED
    BY ONLY <2>1, <2>2, <2>4
<1>2. ASSUME NEW v \in Signed(7)
      PROVE  v % 128 \in Nat /\ v % 128 < 128 /\ signextend(v % 128, 7) = v
  <2>1. v \in Int /\ -64 <= v /\ v <= 63
    BY ONLY SignedInt, v \in Signed(7)
  <2>2. /\ 0 <= v => v % 128 = v
        /\ v < 0 => v % 128 = v + 128
    BY ONLY <2>1
  <2>3. 7 > 0 /\ 7 - 1 = 6
    OBVIOUS
  <2>4. signextend(v % 128, 7) = IF v % 128 >= 64 THEN (v % 128) - 128 ELSE v % 128
    BY ONLY <2>3, Powers DEF signextend
  <2>5. QED
    BY ONLY <2>1, <2>2, <2>4
<1>3. ASSUME NEW v \in Signed(16)
      PROVE  v % 65536 \in Nat /\ signextend(v % 65536, 16) = v
  <2>1. v \in Int /\ -32768 <= v /\ v <= 32767
    BY ONLY SignedInt, v \in Signed(16)
  <2>2. /\ 0 <= v => v % 65536 = v
        /\ v < 0 => v % 65536 = v + 65536
    BY ONLY <2>1
  <2>3. 16 > 0 /\ 16 - 1 = 15
    OBVIOUS
  <2>4. signextend(v % 65536, 16) = IF v % 65536 >= 32768 THEN (v % 65536) - 65536 ELSE v % 65536
    BY ONLY <2>3, Powers DEF signextend
  <2>5. QED
    BY ONLY <2>1, <2>2, <2>4
<1>4. QED
  BY ONLY <1>1, <1>2, <1>3

(* The loop is at the bytes of sample e. *)
LEMMA AtEntry ==
  ASSUME Record(dive), NEW i \in 1 .. Len(dive.written), NEW e, e = dive.written[i],
         offset = e.start
  PROVE  /\ offset \in Nat /\ n \in Nat /\ e.len \in Nat
         /\ e.len >= 1 /\ offset + e.len <= n
         /\ Says(dive, e)
         /\ At(offset) = dive.body[e.start + 1] /\ At(offset) \in Nat
         /\ e.len >= 2 => At(offset + 1) = dive.body[e.start + 2] /\ At(offset + 1) \in Nat
         /\ e.len >= 3 => At(offset + 2) = dive.body[e.start + 3] /\ At(offset + 2) \in Nat
<1>1. /\ e.start \in Nat /\ e.len \in Nat /\ e.start + e.len <= Len(dive.body) /\ Says(dive, e)
      /\ Len(dive.body) \in Nat
  BY Place1, Sequence
<1>2. e.len >= 1
  BY EntryTypes
<1>3. /\ e.len >= 1 => dive.body[e.start + 1] \in Byte
      /\ e.len >= 2 => dive.body[e.start + 2] \in Byte
      /\ e.len >= 3 => dive.body[e.start + 3] \in Byte
  BY FirstBytes
<1>4. /\ At(offset) = dive.body[e.start + 1]
      /\ At(offset + 1) = dive.body[e.start + 2]
      /\ At(offset + 2) = dive.body[e.start + 3]
  <2>1. (offset + 1) + 1 = offset + 2 /\ (offset + 2) + 1 = offset + 3
    BY <1>1
  <2>2. QED
    BY <2>1 DEF At
<1>5. QED
  BY ONLY <1>1, <1>2, <1>3, <1>4, ByteNat, offset = e.start DEF n

(* A difference of depth, temperature or pressure, or points of time.      *)
LEMMA ReadsShort ==
  ASSUME Record(dive), NEW i \in 1 .. Len(dive.written), NEW e, e = dive.written[i],
         offset = e.start
  PROVE  /\ e.kind = "depth" =>
              Known /\ Info.kind = "depth" /\ ~Info.absolute /\ svalue = e.v /\ Past = offset + e.len
         /\ e.kind = "temperature" =>
              /\ Known /\ Info.kind = "temperature" /\ ~Info.absolute
              /\ svalue = e.v /\ Past = offset + e.len
         /\ e.kind = "pressure" =>
              /\ Known /\ Info.kind = "pressure" /\ ~Info.absolute
              /\ svalue = e.v /\ Past = offset + e.len
         /\ e.kind = "time" => Known /\ Info.kind = "time" /\ value = e.v /\ Past = offset + e.len
<1>1. /\ offset \in Nat /\ Says(dive, e)
      /\ At(offset) = dive.body[e.start + 1] /\ At(offset) \in Nat
  BY AtEntry
<1>2. PICK x \in Nat : x = At(offset) /\ x = dive.body[e.start + 1]
  BY ONLY <1>1
<1>3. ASSUME NEW r \in Nat, galileo_identify(x) = r
      PROVE  (Known <=> r < 19) /\ Info = GALILEO_SAMPLES[r + 1]
  BY ONLY <1>2, <1>3, InfoOf
<1>4. /\ Info.extra = 0 /\ Info.bits = 1 => Past = offset + 1 /\ svalue = signextend(x % 128, 7)
      /\ Info.extra = 0 /\ Info.bits = 4 =>
           Past = offset + 1 /\ value = x % 16 /\ svalue = signextend(x % 16, 4)
  BY ONLY <1>1, <1>2, ShortValue
<1>5. ASSUME e.kind = "depth"
      PROVE  Known /\ Info.kind = "depth" /\ ~Info.absolute /\ svalue = e.v /\ Past = offset + e.len
  <2>1. e.len = 1 /\ e.v \in Signed(7) /\ dive.body[e.start + 1] = e.v % 2 ^ 7
    BY ONLY <1>1, <1>5, PTL DEF Says
  <2>2. x = e.v % 128 /\ x < 128 /\ signextend(x, 7) = e.v
    BY ONLY <1>2, <2>1, SignBack, Powers
  <2>3. galileo_identify(x) = 0
    BY ONLY <2>2, RowOf, x \in Nat
  <2>4. Known /\ Info = SInfo("depth", FALSE, 0, 1, 0)
    <3>1. Known /\ Info = GALILEO_SAMPLES[1]
      BY ONLY <1>3, <2>3
    <3>2. QED
      BY ONLY <3>1, Rows
  <2>5. Info.kind = "depth" /\ Info.absolute = FALSE /\ Info.bits = 1 /\ Info.extra = 0
    BY ONLY <2>4 DEF SInfo
  <2>6. x % 128 = x
    BY ONLY <2>2, x \in Nat
  <2>7. QED
    BY ONLY <1>4, <2>1, <2>2, <2>4, <2>5, <2>6
<1>6. ASSUME e.kind = "temperature"
      PROVE  /\ Known /\ Info.kind = "temperature" /\ ~Info.absolute
             /\ svalue = e.v /\ Past = offset + e.len
  <2>1. e.len = 1 /\ e.v \in Signed(4) /\ dive.body[e.start + 1] = 176 + (e.v % 2 ^ 4)
    BY ONLY <1>1, <1>6, PTL DEF Says
  <2>2. PICK y \in Nat : y = e.v % 16 /\ y < 16 /\ x = 176 + y /\ signextend(y, 4) = e.v
    BY ONLY <1>2, <2>1, SignBack, Powers
  <2>3. galileo_identify(x) = 3 /\ x % 16 = y
    BY ONLY <2>2, RowOf, x \in Nat
  <2>4. Known /\ Info = SInfo("temperature", FALSE, 0, 4, 0)
    <3>1. Known /\ Info = GALILEO_SAMPLES[4]
      BY ONLY <1>3, <2>3
    <3>2. QED
      BY ONLY <3>1, Rows
  <2>5. Info.kind = "temperature" /\ Info.absolute = FALSE /\ Info.bits = 4 /\ Info.extra = 0
    BY ONLY <2>4 DEF SInfo
  <2>6. QED
    BY ONLY <1>4, <2>1, <2>2, <2>3, <2>4, <2>5
<1>7. ASSUME e.kind = "pressure"
      PROVE  /\ Known /\ Info.kind = "pressure" /\ ~Info.absolute
             /\ svalue = e.v /\ Past = offset + e.len
  <2>1. e.len = 1 /\ e.v \in Signed(4) /\ dive.body[e.start + 1] = 160 + (e.v % 2 ^ 4)
    BY ONLY <1>1, <1>7, PTL DEF Says
  <2>2. PICK y \in Nat : y = e.v % 16 /\ y < 16 /\ x = 160 + y /\ signextend(y, 4) = e.v
    BY ONLY <1>2, <2>1, SignBack, Powers
  <2>3. galileo_identify(x) = 2 /\ x % 16 = y
    BY ONLY <2>2, RowOf, x \in Nat
  <2>4. Known /\ Info = SInfo("pressure", FALSE, 0, 4, 0)
    <3>1. Known /\ Info = GALILEO_SAMPLES[3]
      BY ONLY <1>3, <2>3
    <3>2. QED
      BY ONLY <3>1, Rows
  <2>5. Info.kind = "pressure" /\ Info.absolute = FALSE /\ Info.bits = 4 /\ Info.extra = 0
    BY ONLY <2>4 DEF SInfo
  <2>6. QED
    BY ONLY <1>4, <2>1, <2>2, <2>3, <2>4, <2>5
<1>8. ASSUME e.kind = "time"
      PROVE  Known /\ Info.kind = "time" /\ value = e.v /\ Past = offset + e.len
  <2>1. e.len = 1 /\ e.v \in Unsigned(4) /\ dive.body[e.start + 1] = 192 + e.v
    BY ONLY <1>1, <1>8, PTL DEF Says
  <2>2. PICK y \in Nat : y = e.v /\ y <= 15 /\ x = 192 + y
    BY ONLY <1>2, <2>1, UnsignedNat
  <2>3. galileo_identify(x) = 4 /\ x % 16 = y
    BY ONLY <2>2, RowOf, x \in Nat
  <2>4. Known /\ Info = SInfo("time", TRUE, 0, 4, 0)
    <3>1. Known /\ Info = GALILEO_SAMPLES[5]
      BY ONLY <1>3, <2>3
    <3>2. QED
      BY ONLY <3>1, Rows
  <2>5. Info.kind = "time" /\ Info.bits = 4 /\ Info.extra = 0
    BY ONLY <2>4 DEF SInfo
  <2>6. QED
    BY ONLY <1>4, <2>1, <2>2, <2>3, <2>4, <2>5
<1>9. QED
  BY ONLY <1>5, <1>6, <1>7, <1>8

(* The samples of more than one byte. *)
LEMMA ReadsLong ==
  ASSUME Record(dive), NEW i \in 1 .. Len(dive.written), NEW e, e = dive.written[i],
         offset = e.start
  PROVE  /\ e.kind = "absdepth" =>
              Known /\ Info.kind = "depth" /\ Info.absolute /\ value = e.v /\ Past = offset + e.len
         /\ e.kind = "abstemperature" =>
              /\ Known /\ Info.kind = "temperature" /\ Info.absolute
              /\ svalue = e.v /\ Past = offset + e.len
         /\ e.kind \in {"mix", "misc"} =>
              /\ Known /\ Info.kind = "misc"
              /\ value = e.len - 1 /\ Past = offset + 2 /\ value = dive.body[e.start + 2]
         /\ e.kind = "apnea" =>
              Known /\ Info.kind = "apnea" /\ Past = offset + 1 /\ e.len = 9
<1>1. /\ offset \in Nat /\ Says(dive, e)
      /\ At(offset) = dive.body[e.start + 1] /\ At(offset) \in Nat
      /\ e.len >= 2 => At(offset + 1) = dive.body[e.start + 2] /\ At(offset + 1) \in Nat
      /\ e.len >= 3 => At(offset + 2) = dive.body[e.start + 3] /\ At(offset + 2) \in Nat
  BY AtEntry
<1>2. PICK x \in Nat : x = At(offset) /\ x = dive.body[e.start + 1]
  BY ONLY <1>1
<1>3. ASSUME NEW r \in Nat, galileo_identify(x) = r
      PROVE  (Known <=> r < 19) /\ Info = GALILEO_SAMPLES[r + 1]
  BY ONLY <1>2, <1>3, InfoOf
<1>4. ASSUME Info.bits = 8
      PROVE  /\ Info.extra = 0 => Past = offset + 1
             /\ Info.extra = 1 => Past = offset + 2 /\ value = At(offset + 1)
             /\ Info.extra = 2 =>
                  /\ Past = offset + 3 /\ value = 256 * At(offset + 1) + At(offset + 2)
                  /\ svalue = signextend(256 * At(offset + 1) + At(offset + 2), 16)
  BY ONLY <1>1, <1>4, LongValue
<1>5. ASSUME e.kind = "absdepth"
      PROVE  Known /\ Info.kind = "depth" /\ Info.absolute /\ value = e.v /\ Past = offset + e.len
  <2>1. /\ e.len = 3 /\ dive.body[e.start + 1] = 241
        /\ e.v = 256 * dive.body[e.start + 2] + dive.body[e.start + 3]
    BY ONLY <1>1, <1>5, PTL DEF Says
  <2>2. x = 241
    BY ONLY <1>2, <2>1
  <2>3. Known /\ Info = SInfo("depth", TRUE, 0, 8, 2)
    <3>1. galileo_identify(x) = 8
      BY ONLY <2>2, RowOf, x \in Nat
    <3>2. Known /\ Info = GALILEO_SAMPLES[9]
      BY ONLY <1>3, <3>1
    <3>3. QED
      BY ONLY <3>2, Rows
  <2>4. Info.kind = "depth" /\ Info.absolute = TRUE /\ Info.bits = 8 /\ Info.extra = 2
    BY ONLY <2>3 DEF SInfo
  <2>5. /\ At(offset + 1) = dive.body[e.start + 2]
        /\ At(offset + 2) = dive.body[e.start + 3]
    BY ONLY <1>1, <2>1
  <2>6. Past = offset + 3 /\ value = 256 * At(offset + 1) + At(offset + 2)
    BY ONLY <1>4, <2>4
  <2>7. value = e.v
    BY ONLY <2>1, <2>5, <2>6
  <2>8. QED
    BY ONLY <2>1, <2>3, <2>4, <2>6, <2>7
<1>6. ASSUME e.kind = "abstemperature"
      PROVE  /\ Known /\ Info.kind = "temperature" /\ Info.absolute
             /\ svalue = e.v /\ Past = offset + e.len
  <2>1. /\ e.len = 3 /\ e.v \in Signed(16) /\ dive.body[e.start + 1] = 243
        /\ 256 * dive.body[e.start + 2] + dive.body[e.start + 3] = e.v % 2 ^ 16
    BY ONLY <1>1, <1>6, PTL DEF Says
  <2>2. x = 243
    BY ONLY <1>2, <2>1
  <2>3. Known /\ Info = SInfo("temperature", TRUE, 0, 8, 2)
    <3>1. galileo_identify(x) = 10
      BY ONLY <2>2, RowOf, x \in Nat
    <3>2. Known /\ Info = GALILEO_SAMPLES[11]
      BY ONLY <1>3, <3>1
    <3>3. QED
      BY ONLY <3>2, Rows
  <2>4. Info.kind = "temperature" /\ Info.absolute = TRUE /\ Info.bits = 8 /\ Info.extra = 2
    BY ONLY <2>3 DEF SInfo
  <2>5. 256 * At(offset + 1) + At(offset + 2) = e.v % 65536
    <3>1. /\ At(offset + 1) = dive.body[e.start + 2]
          /\ At(offset + 2) = dive.body[e.start + 3]
      BY ONLY <1>1, <2>1
    <3>2. QED
      BY ONLY <2>1, <3>1, Powers
  <2>6. signextend(e.v % 65536, 16) = e.v
    BY ONLY <2>1, SignBack
  <2>7. Past = offset + 3 /\ svalue = signextend(256 * At(offset + 1) + At(offset + 2), 16)
    BY ONLY <1>4, <2>4
  <2>8. svalue = e.v
    BY ONLY <2>5, <2>6, <2>7
  <2>9. QED
    BY ONLY <2>1, <2>3, <2>4, <2>7, <2>8
<1>7. ASSUME e.kind \in {"mix", "misc"}
      PROVE  /\ Known /\ Info.kind = "misc"
             /\ value = e.len - 1 /\ Past = offset + 2 /\ value = dive.body[e.start + 2]
  <2>1. e.len >= 2 /\ dive.body[e.start + 1] = 251 /\ e.len = 1 + dive.body[e.start + 2]
    BY ONLY <1>1, <1>7, PTL DEF Says
  <2>2. x = 251
    BY ONLY <1>2, <2>1
  <2>3. Known /\ Info = SInfo("misc", TRUE, 0, 8, 1)
    <3>1. galileo_identify(x) = 18
      BY ONLY <2>2, RowOf, x \in Nat
    <3>2. Known /\ Info = GALILEO_SAMPLES[19]
      BY ONLY <1>3, <3>1
    <3>3. QED
      BY ONLY <3>2, Rows
  <2>4. Info.kind = "misc" /\ Info.bits = 8 /\ Info.extra = 1
    BY ONLY <2>3 DEF SInfo
  <2>5. value = At(offset + 1) /\ Past = offset + 2
    BY ONLY <1>4, <2>4
  <2>6. At(offset + 1) = dive.body[e.start + 2] /\ At(offset + 1) \in Nat
    BY ONLY <1>1, <2>1
  <2>7. value = dive.body[e.start + 2] /\ value \in Nat
    BY ONLY <2>5, <2>6
  <2>8. value = e.len - 1
    BY ONLY <2>1, <2>7
  <2>9. QED
    BY ONLY <2>3, <2>4, <2>5, <2>7, <2>8
<1>8. ASSUME e.kind = "apnea"
      PROVE  Known /\ Info.kind = "apnea" /\ Past = offset + 1 /\ e.len = 9
  <2>1. e.len = 9 /\ dive.body[e.start + 1] = 250
    BY ONLY <1>1, <1>8, PTL DEF Says
  <2>2. x = 250
    BY ONLY <1>2, <2>1
  <2>3. Known /\ Info = SInfo("apnea", TRUE, 0, 8, 0)
    <3>1. galileo_identify(x) = 17
      BY ONLY <2>2, RowOf, x \in Nat
    <3>2. Known /\ Info = GALILEO_SAMPLES[18]
      BY ONLY <1>3, <3>1
    <3>3. QED
      BY ONLY <3>2, Rows
  <2>4. Info.kind = "apnea" /\ Info.bits = 8 /\ Info.extra = 0
    BY ONLY <2>3 DEF SInfo
  <2>5. QED
    BY ONLY <1>4, <2>1, <2>3, <2>4
<1>9. QED
  BY ONLY <1>5, <1>6, <1>7, <1>8

(* The samples that name a tank or a mix. *)
LEMMA ReadsMix ==
  ASSUME Record(dive), NEW i \in 1 .. Len(dive.written), NEW e, e = dive.written[i],
         offset = e.start
  PROVE  /\ e.kind = "abspressure" =>
              /\ Known /\ Info.kind = "pressure" /\ Info.absolute /\ Past = offset + e.len
              /\ dive.trimix => value % 4096 = e.v /\ value \div 4096 = e.tank
              /\ ~dive.trimix => value = e.v /\ Info.index = e.tank
         /\ e.kind = "gas" =>
              /\ Known /\ Info.kind = "alarms" /\ Past = offset + e.len
              /\ \/ Info.index = 1 /\ e.v = (value \div 32) % 4
                 \/ Info.index = 2 /\ dive.trimix /\ e.v = value \div 16
<1>1. /\ offset \in Nat /\ Says(dive, e)
      /\ At(offset) = dive.body[e.start + 1] /\ At(offset) \in Nat
      /\ e.len >= 2 => At(offset + 1) = dive.body[e.start + 2] /\ At(offset + 1) \in Nat
      /\ e.len >= 3 => At(offset + 2) = dive.body[e.start + 3] /\ At(offset + 2) \in Nat
  BY AtEntry
<1>2. PICK x \in Nat : x = At(offset) /\ x = dive.body[e.start + 1]
  BY ONLY <1>1
<1>3. ASSUME NEW r \in Nat, galileo_identify(x) = r
      PROVE  (Known <=> r < 19) /\ Info = GALILEO_SAMPLES[r + 1]
  BY ONLY <1>2, <1>3, InfoOf
<1>4. ASSUME Info.bits = 8
      PROVE  /\ Info.extra = 1 => Past = offset + 2 /\ value = At(offset + 1)
             /\ Info.extra = 2 => Past = offset + 3 /\ value = 256 * At(offset + 1) + At(offset + 2)
  BY ONLY <1>1, <1>4, LongValue
<1>5. ASSUME e.kind = "abspressure"
      PROVE  /\ Known /\ Info.kind = "pressure" /\ Info.absolute /\ Past = offset + e.len
             /\ dive.trimix => value % 4096 = e.v /\ value \div 4096 = e.tank
             /\ ~dive.trimix => value = e.v /\ Info.index = e.tank
  <2>1. e.len = 3 /\ dive.body[e.start + 1] \in 244 .. 246
    BY ONLY <1>1, <1>5, PTL DEF Says
  <2>2. /\ dive.trimix =>
             /\ e.v \in Unsigned(12) /\ e.tank \in Unsigned(4)
             /\ 256 * dive.body[e.start + 2] + dive.body[e.start + 3] = 4096 * e.tank + e.v
        /\ ~dive.trimix =>
             /\ e.tank = dive.body[e.start + 1] - 244
             /\ e.v = 256 * dive.body[e.start + 2] + dive.body[e.start + 3]
    BY ONLY <1>1, <1>5, PTL DEF Says
  <2>3. x = 244 \/ x = 245 \/ x = 246
    BY ONLY <1>2, <2>1
  <2>4. /\ Known /\ Info.kind = "pressure" /\ Info.absolute = TRUE /\ Info.index = x - 244
        /\ Info.bits = 8 /\ Info.extra = 2
    <3>1. CASE x = 244
      <4>1. Known /\ Info = SInfo("pressure", TRUE, 0, 8, 2)
        <5>1. galileo_identify(x) = 11
          BY ONLY <3>1, RowOf, x \in Nat
        <5>2. Known /\ Info = GALILEO_SAMPLES[12]
          BY ONLY <1>3, <5>1
        <5>3. QED
          BY ONLY <5>2, Rows
      <4>2. Info.kind = "pressure" /\ Info.absolute = TRUE /\ Info.index = 0 /\ Info.bits = 8 /\ Info.extra = 2
        BY ONLY <4>1 DEF SInfo
      <4>3. Info.index = x - 244
        BY ONLY <3>1, <4>2
      <4>4. QED
        BY ONLY <4>1, <4>2, <4>3
    <3>2. CASE x = 245
      <4>1. Known /\ Info = SInfo("pressure", TRUE, 1, 8, 2)
        <5>1. galileo_identify(x) = 12
          BY ONLY <3>2, RowOf, x \in Nat
        <5>2. Known /\ Info = GALILEO_SAMPLES[13]
          BY ONLY <1>3, <5>1
        <5>3. QED
          BY ONLY <5>2, Rows
      <4>2. Info.kind = "pressure" /\ Info.absolute = TRUE /\ Info.index = 1 /\ Info.bits = 8 /\ Info.extra = 2
        BY ONLY <4>1 DEF SInfo
      <4>3. Info.index = x - 244
        BY ONLY <3>2, <4>2
      <4>4. QED
        BY ONLY <4>1, <4>2, <4>3
    <3>3. CASE x = 246
      <4>1. Known /\ Info = SInfo("pressure", TRUE, 2, 8, 2)
        <5>1. galileo_identify(x) = 13
          BY ONLY <3>3, RowOf, x \in Nat
        <5>2. Known /\ Info = GALILEO_SAMPLES[14]
          BY ONLY <1>3, <5>1
        <5>3. QED
          BY ONLY <5>2, Rows
      <4>2. Info.kind = "pressure" /\ Info.absolute = TRUE /\ Info.index = 2 /\ Info.bits = 8 /\ Info.extra = 2
        BY ONLY <4>1 DEF SInfo
      <4>3. Info.index = x - 244
        BY ONLY <3>3, <4>2
      <4>4. QED
        BY ONLY <4>1, <4>2, <4>3
    <3>4. QED
      BY ONLY <2>3, <3>1, <3>2, <3>3
  <2>5. Past = offset + 3 /\ value = 256 * dive.body[e.start + 2] + dive.body[e.start + 3]
    <3>1. /\ At(offset + 1) = dive.body[e.start + 2]
          /\ At(offset + 2) = dive.body[e.start + 3]
      BY ONLY <1>1, <2>1
    <3>2. Past = offset + 3 /\ value = 256 * At(offset + 1) + At(offset + 2)
      BY ONLY <1>4, <2>4
    <3>3. QED
      BY ONLY <3>1, <3>2
  <2>6. ASSUME dive.trimix PROVE value % 4096 = e.v /\ value \div 4096 = e.tank
    <3>1. PICK v \in Nat, t \in Nat : v = e.v /\ t = e.tank /\ v <= 4095
      BY ONLY <2>2, <2>6, UnsignedNat
    <3>2. value = 4096 * t + v
      <4>1. 256 * dive.body[e.start + 2] + dive.body[e.start + 3] = 4096 * e.tank + e.v
        BY ONLY <2>2, <2>6
      <4>2. QED
        BY ONLY <2>5, <3>1, <4>1
    <3>3. PICK w \in Nat : w = 4096 * t + v
      BY ONLY v \in Nat, t \in Nat
    <3>4. v <= 4095
      BY ONLY <3>1
    <3>5. w % 4096 = v /\ w \div 4096 = t
      BY ONLY <3>3, <3>4, v \in Nat, t \in Nat, w \in Nat
    <3>6. QED
      BY ONLY <3>1, <3>2, <3>3, <3>5
  <2>7. ASSUME ~dive.trimix PROVE value = e.v /\ Info.index = e.tank
    BY ONLY <1>2, <2>2, <2>4, <2>5, <2>7
  <2>8. QED
    BY ONLY <2>1, <2>4, <2>5, <2>6, <2>7
<1>6. ASSUME e.kind = "gas"
      PROVE  /\ Known /\ Info.kind = "alarms" /\ Past = offset + e.len
             /\ \/ Info.index = 1 /\ e.v = (value \div 32) % 4
                \/ Info.index = 2 /\ dive.trimix /\ e.v = value \div 16
  <2>1. /\ e.len = 2
        /\ \/ dive.body[e.start + 1] = 240 /\ e.v = (dive.body[e.start + 2] \div 32) % 4
           \/ /\ dive.body[e.start + 1] = 249 /\ dive.trimix
              /\ e.v = dive.body[e.start + 2] \div 16
    BY ONLY <1>1, <1>6, PTL DEF Says
  <2>2. At(offset + 1) = dive.body[e.start + 2]
    BY ONLY <1>1, <2>1
  <2>3. CASE dive.body[e.start + 1] = 240 /\ e.v = (dive.body[e.start + 2] \div 32) % 4
    <3>1. x = 240
      BY ONLY <1>2, <2>3
    <3>2. Known /\ Info = SInfo("alarms", TRUE, 1, 8, 1)
      <4>1. galileo_identify(x) = 7
        BY ONLY <3>1, RowOf, x \in Nat
      <4>2. Known /\ Info = GALILEO_SAMPLES[8]
        BY ONLY <1>3, <4>1
      <4>3. QED
        BY ONLY <4>2, Rows
    <3>3. Info.kind = "alarms" /\ Info.index = 1 /\ Info.bits = 8 /\ Info.extra = 1
      BY ONLY <3>2 DEF SInfo
    <3>4. Past = offset + 2 /\ value = At(offset + 1)
      BY ONLY <1>4, <3>3
    <3>5. value = dive.body[e.start + 2] /\ Past = offset + e.len
      BY ONLY <2>1, <2>2, <3>4
    <3>6. QED
      BY ONLY <2>3, <3>2, <3>3, <3>5
  <2>4. CASE /\ dive.body[e.start + 1] = 249 /\ dive.trimix
             /\ e.v = dive.body[e.start + 2] \div 16
    <3>1. x = 249
      BY ONLY <1>2, <2>4
    <3>2. Known /\ Info = SInfo("alarms", TRUE, 2, 8, 1)
      <4>1. galileo_identify(x) = 16
        BY ONLY <3>1, RowOf, x \in Nat
      <4>2. Known /\ Info = GALILEO_SAMPLES[17]
        BY ONLY <1>3, <4>1
      <4>3. QED
        BY ONLY <4>2, Rows
    <3>3. Info.kind = "alarms" /\ Info.index = 2 /\ Info.bits = 8 /\ Info.extra = 1
      BY ONLY <3>2 DEF SInfo
    <3>4. Past = offset + 2 /\ value = At(offset + 1)
      BY ONLY <1>4, <3>3
    <3>5. value = dive.body[e.start + 2] /\ Past = offset + e.len
      BY ONLY <2>1, <2>2, <3>4
    <3>6. QED
      BY ONLY <2>4, <3>2, <3>3, <3>5
  <2>5. QED
    BY ONLY <2>1, <2>3, <2>4
<1>7. QED
  BY ONLY <1>5, <1>6

(* The samples that nothing is kept of. *)
LEMMA ReadsOther ==
  ASSUME Record(dive), NEW i \in 1 .. Len(dive.written), NEW e, e = dive.written[i],
         offset = e.start, e.kind = "other"
  PROVE  /\ Known /\ Past = offset + e.len
         /\ \/ Info.kind \in {"rbt", "heartrate", "bearing"}
            \/ Info.kind = "alarms" /\ (Info.index = 0 \/ (Info.index = 2 /\ ~dive.trimix))
<1>1. /\ offset \in Nat /\ Says(dive, e)
      /\ At(offset) = dive.body[e.start + 1] /\ At(offset) \in Nat
  BY AtEntry
<1>2. PICK x \in Nat : x = At(offset) /\ x = dive.body[e.start + 1]
  BY ONLY <1>1
<1>3. ASSUME NEW r \in Nat, galileo_identify(x) = r
      PROVE  (Known <=> r < 19) /\ Info = GALILEO_SAMPLES[r + 1]
  BY ONLY <1>2, <1>3, InfoOf
<1> DEFINE Skipped == \/ Info.kind \in {"rbt", "heartrate", "bearing"}
                      \/ Info.kind = "alarms" /\ (Info.index = 0 \/ (Info.index = 2 /\ ~dive.trimix))
<1>4. \/ e.len = 1 /\ x \in (128 .. 159) \cup (208 .. 239)
      \/ e.len = 2 /\ (x \in {242, 247} \/ (x = 249 /\ ~dive.trimix))
      \/ e.len = 3 /\ x = 248
  <2>1. \/ e.len = 1 /\ dive.body[e.start + 1] \in (128 .. 159) \cup (208 .. 239)
        \/ e.len = 2 /\ (dive.body[e.start + 1] \in {242, 247}
                         \/ (dive.body[e.start + 1] = 249 /\ ~dive.trimix))
        \/ e.len = 3 /\ dive.body[e.start + 1] = 248
    BY ONLY <1>1, e.kind = "other", PTL DEF Says
  <2>2. QED
    BY ONLY <1>2, <2>1
<1>5. \/ e.len = 1 /\ 128 <= x /\ x < 160
      \/ e.len = 1 /\ 208 <= x /\ x < 224
      \/ e.len = 1 /\ 224 <= x /\ x < 240
      \/ e.len = 2 /\ x = 242
      \/ e.len = 2 /\ x = 247
      \/ e.len = 2 /\ x = 249 /\ ~dive.trimix
      \/ e.len = 3 /\ x = 248
  BY ONLY <1>4, x \in Nat
<1>6. Info.extra \in Nat => Past = offset + (1 + Info.extra)
  BY ONLY <1>1 DEF Past
<1>7. CASE e.len = 1 /\ 128 <= x /\ x < 160
  <2>1. Known /\ Info = SInfo("rbt", FALSE, 0, 3, 0)
    <3>1. galileo_identify(x) = 1
      BY ONLY <1>7, RowOf, x \in Nat
    <3>2. Known /\ Info = GALILEO_SAMPLES[2]
      BY ONLY <1>3, <3>1
    <3>3. QED
      BY ONLY <3>2, Rows
  <2>2. Info.kind = "rbt" /\ Info.index = 0 /\ Info.bits = 3 /\ Info.extra = 0
    BY ONLY <2>1 DEF SInfo
  <2>3. Skipped
    BY ONLY <1>7, <2>2
  <2>4. Past = offset + e.len
    BY ONLY <1>1, <1>6, <1>7, <2>2
  <2>5. QED
    BY ONLY <2>1, <2>3, <2>4
<1>8. CASE e.len = 1 /\ 208 <= x /\ x < 224
  <2>1. Known /\ Info = SInfo("heartrate", FALSE, 0, 4, 0)
    <3>1. galileo_identify(x) = 5
      BY ONLY <1>8, RowOf, x \in Nat
    <3>2. Known /\ Info = GALILEO_SAMPLES[6]
      BY ONLY <1>3, <3>1
    <3>3. QED
      BY ONLY <3>2, Rows
  <2>2. Info.kind = "heartrate" /\ Info.index = 0 /\ Info.bits = 4 /\ Info.extra = 0
    BY ONLY <2>1 DEF SInfo
  <2>3. Skipped
    BY ONLY <1>8, <2>2
  <2>4. Past = offset + e.len
    BY ONLY <1>1, <1>6, <1>8, <2>2
  <2>5. QED
    BY ONLY <2>1, <2>3, <2>4
<1>9. CASE e.len = 1 /\ 224 <= x /\ x < 240
  <2>1. Known /\ Info = SInfo("alarms", TRUE, 0, 4, 0)
    <3>1. galileo_identify(x) = 6
      BY ONLY <1>9, RowOf, x \in Nat
    <3>2. Known /\ Info = GALILEO_SAMPLES[7]
      BY ONLY <1>3, <3>1
    <3>3. QED
      BY ONLY <3>2, Rows
  <2>2. Info.kind = "alarms" /\ Info.index = 0 /\ Info.bits = 4 /\ Info.extra = 0
    BY ONLY <2>1 DEF SInfo
  <2>3. Skipped
    BY ONLY <1>9, <2>2
  <2>4. Past = offset + e.len
    BY ONLY <1>1, <1>6, <1>9, <2>2
  <2>5. QED
    BY ONLY <2>1, <2>3, <2>4
<1>10. CASE e.len = 2 /\ x = 242
  <2>1. Known /\ Info = SInfo("rbt", TRUE, 0, 8, 1)
    <3>1. galileo_identify(x) = 9
      BY ONLY <1>10, RowOf, x \in Nat
    <3>2. Known /\ Info = GALILEO_SAMPLES[10]
      BY ONLY <1>3, <3>1
    <3>3. QED
      BY ONLY <3>2, Rows
  <2>2. Info.kind = "rbt" /\ Info.index = 0 /\ Info.bits = 8 /\ Info.extra = 1
    BY ONLY <2>1 DEF SInfo
  <2>3. Skipped
    BY ONLY <1>10, <2>2
  <2>4. Past = offset + e.len
    BY ONLY <1>1, <1>6, <1>10, <2>2
  <2>5. QED
    BY ONLY <2>1, <2>3, <2>4
<1>11. CASE e.len = 2 /\ x = 247
  <2>1. Known /\ Info = SInfo("heartrate", TRUE, 0, 8, 1)
    <3>1. galileo_identify(x) = 14
      BY ONLY <1>11, RowOf, x \in Nat
    <3>2. Known /\ Info = GALILEO_SAMPLES[15]
      BY ONLY <1>3, <3>1
    <3>3. QED
      BY ONLY <3>2, Rows
  <2>2. Info.kind = "heartrate" /\ Info.index = 0 /\ Info.bits = 8 /\ Info.extra = 1
    BY ONLY <2>1 DEF SInfo
  <2>3. Skipped
    BY ONLY <1>11, <2>2
  <2>4. Past = offset + e.len
    BY ONLY <1>1, <1>6, <1>11, <2>2
  <2>5. QED
    BY ONLY <2>1, <2>3, <2>4
<1>12. CASE e.len = 2 /\ x = 249 /\ ~dive.trimix
  <2>1. Known /\ Info = SInfo("alarms", TRUE, 2, 8, 1)
    <3>1. galileo_identify(x) = 16
      BY ONLY <1>12, RowOf, x \in Nat
    <3>2. Known /\ Info = GALILEO_SAMPLES[17]
      BY ONLY <1>3, <3>1
    <3>3. QED
      BY ONLY <3>2, Rows
  <2>2. Info.kind = "alarms" /\ Info.index = 2 /\ Info.bits = 8 /\ Info.extra = 1
    BY ONLY <2>1 DEF SInfo
  <2>3. Skipped
    BY ONLY <1>12, <2>2
  <2>4. Past = offset + e.len
    BY ONLY <1>1, <1>6, <1>12, <2>2
  <2>5. QED
    BY ONLY <2>1, <2>3, <2>4
<1>13. CASE e.len = 3 /\ x = 248
  <2>1. Known /\ Info = SInfo("bearing", TRUE, 0, 8, 2)
    <3>1. galileo_identify(x) = 15
      BY ONLY <1>13, RowOf, x \in Nat
    <3>2. Known /\ Info = GALILEO_SAMPLES[16]
      BY ONLY <1>3, <3>1
    <3>3. QED
      BY ONLY <3>2, Rows
  <2>2. Info.kind = "bearing" /\ Info.index = 0 /\ Info.bits = 8 /\ Info.extra = 2
    BY ONLY <2>1 DEF SInfo
  <2>3. Skipped
    BY ONLY <1>13, <2>2
  <2>4. Past = offset + e.len
    BY ONLY <1>1, <1>6, <1>13, <2>2
  <2>5. QED
    BY ONLY <2>1, <2>3, <2>4
<1>14. QED
  BY ONLY <1>5, <1>7, <1>8, <1>9, <1>10, <1>11, <1>12, <1>13

(* A MISC sample adds its mix, if it describes one that is not there yet.   *)
LEMMA ReadsMisc ==
  ASSUME Record(dive), NEW i \in 1 .. Len(dive.written), NEW e, e = dive.written[i],
         offset = e.start, e.kind \in {"mix", "misc"}
  PROVE  MiscMix = IF e.kind = "mix" /\ Position(mixes, e.v) = {} THEN <<e.mix>> ELSE <<>>
<1>1. offset \in Nat /\ Says(dive, e)
  BY AtEntry
<1>2. value = dive.body[e.start + 2] /\ Past = offset + 2
  BY ReadsLong
<1>3. /\ At(Past) = dive.body[e.start + 3]
      /\ u16_le(Past + 1) = dive.body[e.start + 4] + 256 * dive.body[e.start + 5]
      /\ u16_le(Past + 3) = dive.body[e.start + 6] + 256 * dive.body[e.start + 7]
  <2>1. /\ Past + 1 = e.start + 3 /\ (Past + 1) + 1 = e.start + 4
        /\ ((Past + 1) + 1) + 1 = e.start + 5 /\ (Past + 3) + 1 = e.start + 6
        /\ ((Past + 3) + 1) + 1 = e.start + 7
    BY ONLY <1>1, <1>2, offset = e.start
  <2>2. QED
    BY ONLY <2>1 DEF At, u16_le
<1> DEFINE mix == [id |-> At(Past) - 32, o2 |-> u16_le(Past + 1), he |-> u16_le(Past + 3)]
<1>4. mix = MixIn(dive, e)
  BY ONLY <1>3 DEF MixIn
<1>5. MiscMix = IF /\ At(Past) \in 32 .. 41 /\ value >= 16
                   /\ mix.o2 # 0 \/ mix.he # 0
                   /\ Position(mixes, mix.id) = {}
                THEN <<mix>> ELSE <<>>
  BY DEF MiscMix
<1>6. IsMix(dive, e) <=> /\ dive.body[e.start + 2] >= 16 /\ dive.body[e.start + 3] \in 32 .. 41
                         /\ MixIn(dive, e).o2 # 0 \/ MixIn(dive, e).he # 0
  BY DEF IsMix
<1> HIDE DEF mix
<1>7. MiscMix = IF IsMix(dive, e) /\ Position(mixes, MixIn(dive, e).id) = {}
                THEN <<MixIn(dive, e)>> ELSE <<>>
  BY ONLY <1>2, <1>3, <1>4, <1>5, <1>6
<1>8. e.kind = "mix" <=> IsMix(dive, e)
  BY ONLY <1>1, e.kind \in {"mix", "misc"}, PTL DEF Says
<1>9. e.kind = "mix" => e.mix = MixIn(dive, e) /\ e.v = e.mix.id
  BY ONLY <1>1, PTL DEF Says
<1>10. QED
  BY ONLY <1>7, <1>8, <1>9

(* Where nothing whole is left the loop ends, or skips what is cut off. *)
LEMMA ReadsEnd ==
  ASSUME Record(dive), offset \in Nat, offset < n, Broken(dive, offset), Known, Past <= n
  PROVE  \/ Info.kind = "misc" /\ MiscCut
         \/ Info.kind = "apnea" /\ Past + 8 > n
<1>1. n \in Nat /\ dive.body \in Seq(Byte) /\ n = Len(dive.body)
  BY Sequence DEF Record, n
<1>2. PICK x \in Nat : x = At(offset) /\ x = dive.body[offset + 1] /\ x <= 255
  <2>1. offset + 1 \in 1 .. Len(dive.body)
    BY ONLY <1>1, offset \in Nat, offset < n
  <2>2. dive.body[offset + 1] \in Byte
    BY ONLY <1>1, <2>1
  <2>3. QED
    BY ONLY <2>2, ByteNat DEF At
<1>3. ASSUME NEW r \in Nat, galileo_identify(x) = r
      PROVE  (Known <=> r < 19) /\ Info = GALILEO_SAMPLES[r + 1]
  BY ONLY <1>2, <1>3, InfoOf
<1>4. x <= 251
  <2>1. SUFFICES ASSUME ~(x <= 251) PROVE FALSE
    OBVIOUS
  <2>2. galileo_identify(x) = x - 233 /\ x - 233 \in Nat /\ ~(x - 233 < 19)
    BY ONLY <2>1, RowOf, x \in Nat
  <2>3. QED
    BY ONLY <1>3, <2>2, Known
<1>5. \/ offset + Needs(dive, offset) > n
      \/ x = 251 /\ dive.body[offset + 2] = 0
  BY ONLY <1>1, <1>2, <1>4, Broken(dive, offset), offset < n, offset \in Nat, x \in Nat DEF Broken
<1>6. Info.extra \in Nat => Past = offset + (1 + Info.extra)
  BY ONLY offset \in Nat DEF Past
<1>7. CASE x < 240
  <2>1. Needs(dive, offset) = 1
    BY ONLY <1>2, <1>7 DEF Needs
  <2>2. QED
    BY ONLY <1>1, <1>5, <1>7, <2>1, offset \in Nat, offset < n
<1>8. CASE x = 240
  <2>1. Known /\ Info = SInfo("alarms", TRUE, 1, 8, 1)
    <3>1. galileo_identify(x) = 7
      BY ONLY <1>8, RowOf, x \in Nat
    <3>2. Known /\ Info = GALILEO_SAMPLES[8]
      BY ONLY <1>3, <3>1
    <3>3. QED
      BY ONLY <3>2, Rows
  <2>2. Info.kind = "alarms" /\ Info.bits = 8 /\ Info.extra = 1
    BY ONLY <2>1 DEF SInfo
  <2>3. Needs(dive, offset) = 2
    BY ONLY <1>2, <1>8 DEF Needs
  <2>4. QED
    BY ONLY <1>1, <1>5, <1>6, <1>8, <2>2, <2>3, Past <= n, offset \in Nat
<1>9. CASE x = 242
  <2>1. Known /\ Info = SInfo("rbt", TRUE, 0, 8, 1)
    <3>1. galileo_identify(x) = 9
      BY ONLY <1>9, RowOf, x \in Nat
    <3>2. Known /\ Info = GALILEO_SAMPLES[10]
      BY ONLY <1>3, <3>1
    <3>3. QED
      BY ONLY <3>2, Rows
  <2>2. Info.kind = "rbt" /\ Info.bits = 8 /\ Info.extra = 1
    BY ONLY <2>1 DEF SInfo
  <2>3. Needs(dive, offset) = 2
    BY ONLY <1>2, <1>9 DEF Needs
  <2>4. QED
    BY ONLY <1>1, <1>5, <1>6, <1>9, <2>2, <2>3, Past <= n, offset \in Nat
<1>10. CASE x = 247
  <2>1. Known /\ Info = SInfo("heartrate", TRUE, 0, 8, 1)
    <3>1. galileo_identify(x) = 14
      BY ONLY <1>10, RowOf, x \in Nat
    <3>2. Known /\ Info = GALILEO_SAMPLES[15]
      BY ONLY <1>3, <3>1
    <3>3. QED
      BY ONLY <3>2, Rows
  <2>2. Info.kind = "heartrate" /\ Info.bits = 8 /\ Info.extra = 1
    BY ONLY <2>1 DEF SInfo
  <2>3. Needs(dive, offset) = 2
    BY ONLY <1>2, <1>10 DEF Needs
  <2>4. QED
    BY ONLY <1>1, <1>5, <1>6, <1>10, <2>2, <2>3, Past <= n, offset \in Nat
<1>11. CASE x = 249
  <2>1. Known /\ Info = SInfo("alarms", TRUE, 2, 8, 1)
    <3>1. galileo_identify(x) = 16
      BY ONLY <1>11, RowOf, x \in Nat
    <3>2. Known /\ Info = GALILEO_SAMPLES[17]
      BY ONLY <1>3, <3>1
    <3>3. QED
      BY ONLY <3>2, Rows
  <2>2. Info.kind = "alarms" /\ Info.bits = 8 /\ Info.extra = 1
    BY ONLY <2>1 DEF SInfo
  <2>3. Needs(dive, offset) = 2
    BY ONLY <1>2, <1>11 DEF Needs
  <2>4. QED
    BY ONLY <1>1, <1>5, <1>6, <1>11, <2>2, <2>3, Past <= n, offset \in Nat
<1>12. CASE x = 241
  <2>1. Known /\ Info = SInfo("depth", TRUE, 0, 8, 2)
    <3>1. galileo_identify(x) = 8
      BY ONLY <1>12, RowOf, x \in Nat
    <3>2. Known /\ Info = GALILEO_SAMPLES[9]
      BY ONLY <1>3, <3>1
    <3>3. QED
      BY ONLY <3>2, Rows
  <2>2. Info.kind = "depth" /\ Info.bits = 8 /\ Info.extra = 2
    BY ONLY <2>1 DEF SInfo
  <2>3. Needs(dive, offset) = 3
    BY ONLY <1>2, <1>12 DEF Needs
  <2>4. QED
    BY ONLY <1>1, <1>5, <1>6, <1>12, <2>2, <2>3, Past <= n, offset \in Nat
<1>13. CASE x = 243
  <2>1. Known /\ Info = SInfo("temperature", TRUE, 0, 8, 2)
    <3>1. galileo_identify(x) = 10
      BY ONLY <1>13, RowOf, x \in Nat
    <3>2. Known /\ Info = GALILEO_SAMPLES[11]
      BY ONLY <1>3, <3>1
    <3>3. QED
      BY ONLY <3>2, Rows
  <2>2. Info.kind = "temperature" /\ Info.bits = 8 /\ Info.extra = 2
    BY ONLY <2>1 DEF SInfo
  <2>3. Needs(dive, offset) = 3
    BY ONLY <1>2, <1>13 DEF Needs
  <2>4. QED
    BY ONLY <1>1, <1>5, <1>6, <1>13, <2>2, <2>3, Past <= n, offset \in Nat
<1>14. CASE x = 244
  <2>1. Known /\ Info = SInfo("pressure", TRUE, 0, 8, 2)
    <3>1. galileo_identify(x) = 11
      BY ONLY <1>14, RowOf, x \in Nat
    <3>2. Known /\ Info = GALILEO_SAMPLES[12]
      BY ONLY <1>3, <3>1
    <3>3. QED
      BY ONLY <3>2, Rows
  <2>2. Info.kind = "pressure" /\ Info.bits = 8 /\ Info.extra = 2
    BY ONLY <2>1 DEF SInfo
  <2>3. Needs(dive, offset) = 3
    BY ONLY <1>2, <1>14 DEF Needs
  <2>4. QED
    BY ONLY <1>1, <1>5, <1>6, <1>14, <2>2, <2>3, Past <= n, offset \in Nat
<1>15. CASE x = 245
  <2>1. Known /\ Info = SInfo("pressure", TRUE, 1, 8, 2)
    <3>1. galileo_identify(x) = 12
      BY ONLY <1>15, RowOf, x \in Nat
    <3>2. Known /\ Info = GALILEO_SAMPLES[13]
      BY ONLY <1>3, <3>1
    <3>3. QED
      BY ONLY <3>2, Rows
  <2>2. Info.kind = "pressure" /\ Info.bits = 8 /\ Info.extra = 2
    BY ONLY <2>1 DEF SInfo
  <2>3. Needs(dive, offset) = 3
    BY ONLY <1>2, <1>15 DEF Needs
  <2>4. QED
    BY ONLY <1>1, <1>5, <1>6, <1>15, <2>2, <2>3, Past <= n, offset \in Nat
<1>16. CASE x = 246
  <2>1. Known /\ Info = SInfo("pressure", TRUE, 2, 8, 2)
    <3>1. galileo_identify(x) = 13
      BY ONLY <1>16, RowOf, x \in Nat
    <3>2. Known /\ Info = GALILEO_SAMPLES[14]
      BY ONLY <1>3, <3>1
    <3>3. QED
      BY ONLY <3>2, Rows
  <2>2. Info.kind = "pressure" /\ Info.bits = 8 /\ Info.extra = 2
    BY ONLY <2>1 DEF SInfo
  <2>3. Needs(dive, offset) = 3
    BY ONLY <1>2, <1>16 DEF Needs
  <2>4. QED
    BY ONLY <1>1, <1>5, <1>6, <1>16, <2>2, <2>3, Past <= n, offset \in Nat
<1>17. CASE x = 248
  <2>1. Known /\ Info = SInfo("bearing", TRUE, 0, 8, 2)
    <3>1. galileo_identify(x) = 15
      BY ONLY <1>17, RowOf, x \in Nat
    <3>2. Known /\ Info = GALILEO_SAMPLES[16]
      BY ONLY <1>3, <3>1
    <3>3. QED
      BY ONLY <3>2, Rows
  <2>2. Info.kind = "bearing" /\ Info.bits = 8 /\ Info.extra = 2
    BY ONLY <2>1 DEF SInfo
  <2>3. Needs(dive, offset) = 3
    BY ONLY <1>2, <1>17 DEF Needs
  <2>4. QED
    BY ONLY <1>1, <1>5, <1>6, <1>17, <2>2, <2>3, Past <= n, offset \in Nat
<1>18. CASE x = 250
  <2>1. Known /\ Info = SInfo("apnea", TRUE, 0, 8, 0)
    <3>1. galileo_identify(x) = 17
      BY ONLY <1>18, RowOf, x \in Nat
    <3>2. Known /\ Info = GALILEO_SAMPLES[18]
      BY ONLY <1>3, <3>1
    <3>3. QED
      BY ONLY <3>2, Rows
  <2>2. Info.kind = "apnea" /\ Info.bits = 8 /\ Info.extra = 0
    BY ONLY <2>1 DEF SInfo
  <2>3. Needs(dive, offset) = 9
    BY ONLY <1>2, <1>18 DEF Needs
  <2>4. Past = offset + 1
    BY ONLY <1>6, <2>2, offset \in Nat
  <2>5. Past + 8 > n
    BY ONLY <1>1, <1>5, <1>18, <2>3, <2>4, offset \in Nat
  <2>6. QED
    BY ONLY <2>2, <2>5
<1>19. CASE x = 251
  <2>1. Known /\ Info = SInfo("misc", TRUE, 0, 8, 1)
    <3>1. galileo_identify(x) = 18
      BY ONLY <1>19, RowOf, x \in Nat
    <3>2. Known /\ Info = GALILEO_SAMPLES[19]
      BY ONLY <1>3, <3>1
    <3>3. QED
      BY ONLY <3>2, Rows
  <2>2. Info.kind = "misc" /\ Info.bits = 8 /\ Info.extra = 1
    BY ONLY <2>1 DEF SInfo
  <2>3. Past = offset + 2
    BY ONLY <1>6, <2>2, offset \in Nat
  <2>4. value = dive.body[offset + 2]
    <3>1. value = At(offset + 1)
      BY ONLY <2>2, LongValue, offset \in Nat
    <3>2. (offset + 1) + 1 = offset + 2
      BY ONLY offset \in Nat
    <3>3. QED
      BY ONLY <3>1, <3>2 DEF At
  <2>5. value \in Nat
    <3>1. offset + 2 \in 1 .. Len(dive.body)
      BY ONLY <1>1, <2>3, Past <= n, offset \in Nat
    <3>2. dive.body[offset + 2] \in Byte
      BY ONLY <1>1, <3>1
    <3>3. QED
      BY ONLY <2>4, <3>2, ByteNat
  <2>6. Needs(dive, offset) = 1 + value
    BY ONLY <1>1, <1>2, <1>19, <2>3, <2>4, Past <= n DEF Needs
  <2>7. value < 1 \/ Past + value - 1 > n
    BY ONLY <1>1, <1>5, <2>3, <2>4, <2>5, <2>6, offset \in Nat
  <2>8. MiscCut
    BY ONLY <2>7 DEF MiscCut
  <2>9. QED
    BY ONLY <2>2, <2>8
<1>20. QED
  BY ONLY <1>4, x \in Nat, <1>7, <1>8, <1>9, <1>10, <1>11, <1>12, <1>13, <1>14, <1>15, <1>16,
          <1>17, <1>18, <1>19

-----------------------------------------------------------------------------
(* What the locals are, whatever the bytes.                                *)
Tracked == [have : BOOLEAN, v : Int]
Mix     == [id : Nat, o2 : Nat, he : Nat]
Mark    == [time : Nat, mix : Nat]
Point   == [time : Nat, depth : Int, temperature : Seq(Int), pressure : Seq(Int)]

Types ==
  /\ dive \in Dives
  /\ offset \in Nat /\ time \in Nat
  /\ depth \in Tracked /\ calibration \in Int
  /\ temperature \in Tracked /\ pressure \in Tracked
  /\ active_gasmix \in Nat /\ prev_gasmix \in Int
  /\ mixes \in Seq(Mix) /\ gas_changes \in Seq(Mark) /\ samples \in Seq(Point)
  /\ cylinders \in Seq(Mix)
  /\ outcome \in {"header", "reading", "done", "error", "panic"}

(* No two mixes have an id in common, and the changes name mixes.          *)
Ids(ms)    == {ms[p].id : p \in DOMAIN ms}
Unique(ms) == \A p, q \in DOMAIN ms : ms[p].id = ms[q].id => p = q
Named ==
  /\ Unique(mixes)
  /\ \A k \in DOMAIN gas_changes : gas_changes[k].mix \in DOMAIN mixes

LEMMA ListOf ==
  ASSUME NEW S, NEW m \in Nat, NEW f \in [1 .. m -> S]
  PROVE  f \in Seq(S) /\ Len(f) = m
OBVIOUS

LEMMA Concat ==
  ASSUME NEW S, NEW s \in Seq(S), NEW t \in Seq(S)
  PROVE  /\ s \o t \in Seq(S) /\ Len(s \o t) = Len(s) + Len(t)
         /\ Len(s) \in Nat /\ Len(t) \in Nat
         /\ DOMAIN s = 1 .. Len(s) /\ DOMAIN t = 1 .. Len(t)
         /\ \A p \in 1 .. Len(s) : (s \o t)[p] = s[p]
         /\ \A q \in 1 .. Len(t) : (s \o t)[Len(s) + q] = t[q]
OBVIOUS

(* The bytes of a turn are bytes, and its value is a number.               *)
LEMMA RowTypes ==
  Known /\ galileo_identify(At(offset)) \in Nat =>
    Info.bits \in {1, 3, 4, 8} /\ Info.extra \in {0, 1, 2} /\ Info.index \in {0, 1, 2}
<1>1. SUFFICES ASSUME Known, galileo_identify(At(offset)) \in Nat
               PROVE  Info.bits \in {1, 3, 4, 8} /\ Info.extra \in {0, 1, 2} /\ Info.index \in {0, 1, 2}
  OBVIOUS
<1>2. PICK r \in Nat : r = galileo_identify(At(offset))
  BY <1>1
<1>3. r < 19 /\ Info = GALILEO_SAMPLES[r + 1]
  BY ONLY <1>1, <1>2, InfoOf
<1>4. r + 1 \in 1 .. 19
  BY ONLY <1>3, r \in Nat
<1>5. \A j \in 1 .. 19 : /\ GALILEO_SAMPLES[j].bits \in {1, 3, 4, 8}
                         /\ GALILEO_SAMPLES[j].extra \in {0, 1, 2}
                         /\ GALILEO_SAMPLES[j].index \in {0, 1, 2}
  BY DEF GALILEO_SAMPLES, SInfo
<1>6. QED
  BY ONLY <1>3, <1>4, <1>5

LEMMA GoodPowers ==
  \A k \in {0, 4, 5, 7, 8, 16} : 2 ^ k \in Nat /\ 2 ^ k > 0
<1>1. /\ 2 ^ 0 = 1 /\ 2 ^ 4 = 16 /\ 2 ^ 5 = 32 /\ 2 ^ 7 = 128 /\ 2 ^ 8 = 256 /\ 2 ^ 16 = 65536
  OBVIOUS
<1>2. /\ 2 ^ 0 \in Nat /\ 2 ^ 0 > 0 /\ 2 ^ 4 \in Nat /\ 2 ^ 4 > 0
      /\ 2 ^ 5 \in Nat /\ 2 ^ 5 > 0 /\ 2 ^ 7 \in Nat /\ 2 ^ 7 > 0
      /\ 2 ^ 8 \in Nat /\ 2 ^ 8 > 0 /\ 2 ^ 16 \in Nat /\ 2 ^ 16 > 0
  BY ONLY <1>1
<1>3. QED
  BY ONLY <1>2, Zenon

LEMMA TurnTypes ==
  ASSUME dive.body \in Seq(Byte), offset \in Nat, offset < n, Known, Past <= n
  PROVE  /\ Past \in Nat /\ Past > offset /\ n \in Nat
         /\ value \in Nat /\ svalue \in Int /\ Info.index \in Nat
<1>1. n \in Nat /\ n = Len(dive.body)
  BY DEF n
<1>2. \A p \in Nat : p < n => At(p) \in Nat /\ At(p) <= 255
  <2>1. SUFFICES ASSUME NEW p \in Nat, p < n PROVE At(p) \in Nat /\ At(p) <= 255
    OBVIOUS
  <2>2. p + 1 \in 1 .. Len(dive.body)
    BY ONLY <1>1, p \in Nat, p < n
  <2>3. dive.body[p + 1] \in Byte
    BY ONLY <2>2, dive.body \in Seq(Byte)
  <2>4. QED
    BY ONLY <2>3, ByteNat DEF At
<1>3. At(offset) \in Nat
  BY <1>2
<1>4. galileo_identify(At(offset)) \in Nat
  <2>1. PICK x \in Nat : x = At(offset)
    BY ONLY <1>3
  <2>2. x < 240 \/ x >= 240
    OBVIOUS
  <2>3. QED
    BY ONLY <2>1, RowOf, x \in Nat
<1>5. Info.bits \in {1, 3, 4, 8} /\ Info.extra \in {0, 1, 2} /\ Info.index \in {0, 1, 2}
  BY ONLY <1>4, RowTypes, Known
<1>6. Past = offset + 1 + Info.extra /\ Past \in Nat /\ Past > offset
  BY ONLY <1>5, offset \in Nat DEF Past
<1>7. /\ Info.extra = 1 => At(offset + 1) \in Nat
      /\ Info.extra = 2 => At(offset + 1) \in Nat /\ At(offset + 2) \in Nat
  <2>1. ASSUME Info.extra = 1 PROVE At(offset + 1) \in Nat
    <3>1. offset + 1 \in Nat /\ offset + 1 < n
      BY ONLY <1>1, <1>6, <2>1, offset \in Nat, Past <= n
    <3>2. QED
      BY ONLY <1>2, <3>1
  <2>2. ASSUME Info.extra = 2 PROVE At(offset + 1) \in Nat /\ At(offset + 2) \in Nat
    <3>1. offset + 1 \in Nat /\ offset + 1 < n /\ offset + 2 \in Nat /\ offset + 2 < n
      BY ONLY <1>1, <1>6, <2>2, offset \in Nat, Past <= n
    <3>2. QED
      BY ONLY <1>2, <3>1
  <2>3. QED
    BY ONLY <2>1, <2>2
<1>8. nbits \in {0, 4, 5, 7, 8, 16}
  <2>1. CASE Info.bits = 8
    <3>1. nbits = 8 * Info.extra
      <4>1. ~(Info.bits < 8)
        BY ONLY <2>1
      <4>2. QED
        BY ONLY <4>1 DEF nbits
    <3>2. 8 * 0 = 0 /\ 8 * 1 = 8 /\ 8 * 2 = 16
      OBVIOUS
    <3>3. QED
      BY ONLY <1>5, <3>1, <3>2
  <2>2. CASE Info.bits \in {1, 3, 4}
    <3>1. Info.bits < 8
      BY ONLY <2>2
    <3>2. nbits = 8 - Info.bits
      BY ONLY <3>1 DEF nbits
    <3>3. 8 - 1 = 7 /\ 8 - 3 = 5 /\ 8 - 4 = 4
      OBVIOUS
    <3>4. QED
      BY ONLY <2>2, <3>2, <3>3
  <2>3. QED
    BY ONLY <1>5, <2>1, <2>2
<1>9. value \in Nat
  <2>1. CASE Info.bits = 8
    <3>1. Info.extra = 0 => value = 0
      <4>1. ~(Info.bits < 8)
        BY ONLY <2>1
      <4>2. QED
        BY ONLY <2>1, <4>1 DEF value
    <3>2. /\ Info.extra = 1 => value = At(offset + 1)
          /\ Info.extra = 2 => value = 256 * At(offset + 1) + At(offset + 2)
      BY ONLY <2>1, LongValue, offset \in Nat
    <3>3. QED
      BY ONLY <1>5, <1>7, <3>1, <3>2
  <2>2. CASE Info.bits \in {1, 3, 4}
    <3>1. Info.bits < 8 /\ Info.bits # 8
      BY ONLY <2>2
    <3>2. value = At(offset) % 2 ^ (8 - Info.bits)
      BY ONLY <3>1, Zenon DEF value
    <3>3. 8 - Info.bits \in {4, 5, 7}
      BY ONLY <2>2
    <3>4. PICK m \in Nat : m = 2 ^ (8 - Info.bits) /\ m > 0
      BY ONLY <3>3, GoodPowers
    <3>5. PICK x \in Nat : x = At(offset)
      BY ONLY <1>3
    <3>6. x % m \in Nat
      BY ONLY <3>4, x \in Nat, m \in Nat
    <3>7. QED
      BY ONLY <3>2, <3>4, <3>5, <3>6
  <2>3. QED
    BY ONLY <1>5, <2>1, <2>2
<1>10. svalue \in Int
  <2>1. svalue = value \/ svalue = value - 2 ^ nbits
    BY DEF svalue, signextend
  <2>2. 2 ^ nbits \in Nat
    BY ONLY <1>8, GoodPowers
  <2>3. QED
    BY ONLY <1>9, <2>1, <2>2
<1>11. QED
  BY ONLY <1>1, <1>5, <1>6, <1>9, <1>10

LEMMA InitTypes == ParseInit => Types /\ Named
<1>1. SUFFICES ASSUME ParseInit PROVE Types /\ Named
  OBVIOUS
<1>2. DOMAIN mixes = {} /\ DOMAIN gas_changes = {}
  <2>1. mixes = <<>> /\ gas_changes = <<>>
    BY <1>1 DEF ParseInit
  <2>2. DOMAIN <<>> = {}
    OBVIOUS
  <2>3. QED
    BY ONLY <2>1, <2>2
<1>3. Named
  BY ONLY <1>2 DEF Named, Unique
<1>4. Types
  <2>1. Unread \in Tracked
    BY DEF Unread, Tracked
  <2>2. /\ dive \in Dives /\ offset = 0 /\ time = 0 /\ depth = Unread /\ calibration = 0
        /\ temperature = Unread /\ pressure = Unread
        /\ active_gasmix = 0 /\ prev_gasmix = -1 /\ mixes = <<>>
        /\ gas_changes = <<>> /\ samples = <<>> /\ cylinders = <<>> /\ outcome = "header"
    BY <1>1 DEF ParseInit
  <2>3. QED
    BY ONLY <2>1, <2>2 DEF Types
<1>5. QED
  BY <1>3, <1>4

LEMMA IntervalType == Interval \in Nat /\ (Interval = 1 \/ Interval = 4)
BY DEF Interval

LEMMA IntervalTimes ==
  \A m \in Nat : m * Interval \in Nat
BY IntervalType

(* A tracked value as the profile shows it. *)
LEMMA ShownType == \A x \in Tracked : Shown(x) \in Seq(Int)
BY DEF Tracked, Shown

(* The change to a mix names its place, and there is none without a place. *)
LEMMA ChangeType ==
  ASSUME NEW ms \in Seq(Mix), NEW id, time \in Nat
  PROVE  /\ Position(ms, id) = {} => Change(ms, id) = <<>>
         /\ Position(ms, id) # {} => \E p \in DOMAIN ms :
              Change(ms, id) = <<[time |-> time, mix |-> p]>> /\ ms[p].id = id
         /\ Change(ms, id) \in Seq(Mark)
         /\ \A k \in DOMAIN Change(ms, id) : Change(ms, id)[k].mix \in DOMAIN ms
<1>1. DOMAIN ms = 1 .. Len(ms) /\ Len(ms) \in Nat
  OBVIOUS
<1>2. CASE Position(ms, id) = {}
  <2>1. Change(ms, id) = <<>>
    BY ONLY <1>2 DEF Change
  <2>2. DOMAIN Change(ms, id) = {} /\ Change(ms, id) \in Seq(Mark)
    BY ONLY <2>1
  <2>3. QED
    BY ONLY <1>2, <2>1, <2>2
<1>3. CASE Position(ms, id) # {}
  <2>1. Position(ms, id) \in SUBSET Nat /\ \A p \in Position(ms, id) : p \in DOMAIN ms /\ ms[p].id = id
    BY ONLY <1>1 DEF Position
  <2>2. PICK p \in DOMAIN ms : p = Min(Position(ms, id)) /\ ms[p].id = id
    <3>1. Min(Position(ms, id)) \in Position(ms, id)
      BY ONLY <1>3, <2>1, MinNat
    <3>2. QED
      BY ONLY <2>1, <3>1
  <2>3. p \in Nat
    BY ONLY <1>1, <2>2
  <2>4. PICK change \in Mark : change = [time |-> time, mix |-> p]
    BY ONLY <2>3, time \in Nat DEF Mark
  <2>5. Change(ms, id) = <<change>>
    BY ONLY <1>3, <2>2, <2>4 DEF Change
  <2>6. change.mix = p
    BY ONLY <2>4
  <2>7. DOMAIN Change(ms, id) = {1} /\ Change(ms, id)[1] = change /\ Change(ms, id) \in Seq(Mark)
    BY ONLY <2>5, change \in Mark
  <2>8. QED
    BY ONLY <1>3, <2>2, <2>4, <2>5, <2>6, <2>7
<1>4. QED
  BY ONLY <1>2, <1>3

(* The points that a sample appends. *)
LEMMA CompletePoints ==
  ASSUME Types, NEW count \in Nat, Complete(count),
         depth' \in Tracked, calibration' \in Int, temperature' \in Tracked, pressure' \in Tracked
  PROVE  /\ time' = time + count * Interval /\ time' \in Nat
         /\ samples' \in Seq(Point) /\ Len(samples') = Len(samples) + count
         /\ \A p \in 1 .. Len(samples) : samples'[p] = samples[p]
         /\ \A j \in 1 .. count :
              samples'[Len(samples) + j] =
                [time        |-> time + (j - 1) * Interval,
                 depth       |-> IF depth'.have THEN depth'.v - calibration' ELSE 0,
                 temperature |-> Shown(temperature'),
                 pressure    |-> Shown(pressure')]
<1>1. time \in Nat /\ samples \in Seq(Point)
  BY DEF Types
<1>2. time' = time + count * Interval /\ time' \in Nat
  <2>1. time' = time + count * Interval
    BY ONLY Complete(count), Zenon DEF Complete
  <2>2. PICK m \in Nat : m = count * Interval
    BY ONLY IntervalTimes, count \in Nat
  <2>3. QED
    BY ONLY <1>1, <2>1, <2>2
<1>3. PICK deep \in Int : deep = IF depth'.have THEN depth'.v - calibration' ELSE 0
  <2>1. depth'.v \in Int /\ depth'.v - calibration' \in Int
    BY ONLY depth' \in Tracked, calibration' \in Int DEF Tracked
  <2>2. QED
    BY ONLY <2>1
<1>4. PICK warm \in Seq(Int), pressed \in Seq(Int) : warm = Shown(temperature') /\ pressed = Shown(pressure')
  BY ONLY temperature' \in Tracked, pressure' \in Tracked, ShownType
<1> DEFINE new == [i \in 1 .. count |->
                    [time |-> time + (i - 1) * Interval, depth |-> deep,
                     temperature |-> warm, pressure |-> pressed]]
<1>5. samples' = samples \o new
  BY ONLY <1>3, <1>4, Complete(count) DEF Complete
<1>6. new \in [1 .. count -> Point]
  <2>1. SUFFICES ASSUME NEW i \in 1 .. count
                 PROVE  [time |-> time + (i - 1) * Interval, depth |-> deep,
                         temperature |-> warm, pressure |-> pressed] \in Point
    BY Zenon DEF new
  <2>2. i - 1 \in Nat
    BY ONLY i \in 1 .. count, count \in Nat
  <2>3. time + (i - 1) * Interval \in Nat
    <3>1. PICK m \in Nat : m = (i - 1) * Interval
      BY ONLY <2>2, IntervalTimes
    <3>2. QED
      BY ONLY <1>1, <3>1
  <2>4. QED
    BY ONLY <2>3, deep \in Int, warm \in Seq(Int), pressed \in Seq(Int) DEF Point
<1>7. \A j \in 1 .. count : new[j] = [time |-> time + (j - 1) * Interval, depth |-> deep,
                                      temperature |-> warm, pressure |-> pressed]
  OBVIOUS
<1> HIDE DEF new
<1>8. new \in Seq(Point) /\ Len(new) = count
  BY ONLY <1>6, ListOf, count \in Nat
<1>9. /\ samples' \in Seq(Point) /\ Len(samples') = Len(samples) + count
      /\ \A p \in 1 .. Len(samples) : samples'[p] = samples[p]
      /\ \A j \in 1 .. count : samples'[Len(samples) + j] = new[j]
  <2>1. PICK s \in Seq(Point) : s = samples
    BY ONLY <1>1
  <2>2. PICK t \in Seq(Point) : t = new
    BY ONLY <1>8
  <2>3. /\ s \o t \in Seq(Point) /\ Len(s \o t) = Len(s) + Len(t)
        /\ \A p \in 1 .. Len(s) : (s \o t)[p] = s[p]
        /\ \A j \in 1 .. Len(t) : (s \o t)[Len(s) + j] = t[j]
    BY ONLY Concat, s \in Seq(Point), t \in Seq(Point)
  <2>4. QED
    BY ONLY <1>5, <1>8, <2>1, <2>2, <2>3
<1>10. QED
  BY ONLY <1>2, <1>3, <1>4, <1>7, <1>9

(* And the changes that it appends: one, if the mix is another and there.   *)
LEMMA CompleteChanges ==
  ASSUME Types, Named, NEW count \in Nat, Complete(count),
         active_gasmix' = active_gasmix, mixes' = mixes
  PROVE  /\ prev_gasmix' \in Int /\ gas_changes' \in Seq(Mark)
         /\ \A k \in DOMAIN gas_changes' : gas_changes'[k].mix \in DOMAIN mixes
         /\ count > 0 /\ mixes # <<>> /\ active_gasmix # prev_gasmix =>
              prev_gasmix' = active_gasmix /\ gas_changes' = gas_changes \o Change(mixes, active_gasmix)
         /\ ~(count > 0 /\ mixes # <<>> /\ active_gasmix # prev_gasmix) =>
              prev_gasmix' = prev_gasmix /\ gas_changes' = gas_changes
<1>1. /\ time \in Nat /\ mixes \in Seq(Mix) /\ gas_changes \in Seq(Mark)
      /\ active_gasmix \in Int /\ prev_gasmix \in Int
      /\ \A k \in DOMAIN gas_changes : gas_changes[k].mix \in DOMAIN mixes
  BY DEF Types, Named
<1>2. /\ count > 0 /\ mixes # <<>> /\ active_gasmix # prev_gasmix =>
           prev_gasmix' = active_gasmix /\ gas_changes' = gas_changes \o Change(mixes, active_gasmix)
      /\ ~(count > 0 /\ mixes # <<>> /\ active_gasmix # prev_gasmix) =>
           prev_gasmix' = prev_gasmix /\ gas_changes' = gas_changes
  BY ONLY Complete(count), active_gasmix' = active_gasmix, mixes' = mixes DEF Complete
<1>3. CASE count > 0 /\ mixes # <<>> /\ active_gasmix # prev_gasmix
  <2>1. PICK new \in Seq(Mark) : /\ new = Change(mixes, active_gasmix)
                                 /\ \A k \in DOMAIN new : new[k].mix \in DOMAIN mixes
    BY ONLY <1>1, ChangeType
  <2>2. gas_changes' = gas_changes \o new /\ prev_gasmix' = active_gasmix
    BY ONLY <1>2, <1>3, <2>1
  <2>3. gas_changes \o new \in Seq(Mark)
    BY ONLY <1>1, Concat, new \in Seq(Mark)
  <2>4. ASSUME NEW k \in DOMAIN (gas_changes \o new)
        PROVE  (gas_changes \o new)[k].mix \in DOMAIN mixes
    <3>1. /\ Len(gas_changes \o new) = Len(gas_changes) + Len(new)
          /\ Len(gas_changes) \in Nat /\ Len(new) \in Nat
          /\ DOMAIN gas_changes = 1 .. Len(gas_changes) /\ DOMAIN new = 1 .. Len(new)
          /\ \A p \in 1 .. Len(gas_changes) : (gas_changes \o new)[p] = gas_changes[p]
          /\ \A q \in 1 .. Len(new) : (gas_changes \o new)[Len(gas_changes) + q] = new[q]
      BY ONLY <1>1, Concat, new \in Seq(Mark)
    <3>2. k \in 1 .. Len(gas_changes) + Len(new)
      BY ONLY <2>3, <2>4, <3>1
    <3>3. CASE k <= Len(gas_changes)
      <4>1. k \in DOMAIN gas_changes /\ (gas_changes \o new)[k] = gas_changes[k]
        BY ONLY <3>1, <3>2, <3>3
      <4>2. QED
        BY ONLY <1>1, <4>1
    <3>4. CASE k > Len(gas_changes)
      <4>1. PICK q \in DOMAIN new : k = Len(gas_changes) + q
        <5>1. k - Len(gas_changes) \in 1 .. Len(new) /\ k = Len(gas_changes) + (k - Len(gas_changes))
          BY ONLY <3>1, <3>2, <3>4
        <5>2. QED
          BY ONLY <3>1, <5>1
      <4>2. (gas_changes \o new)[k] = new[q]
        BY ONLY <3>1, <4>1
      <4>3. QED
        BY ONLY <2>1, <4>1, <4>2
    <3>5. QED
      BY ONLY <3>1, <3>2, <3>3, <3>4
  <2>5. QED
    BY ONLY <1>1, <1>2, <2>2, <2>3, <2>4
<1>4. CASE ~(count > 0 /\ mixes # <<>> /\ active_gasmix # prev_gasmix)
  BY ONLY <1>1, <1>2, <1>4
<1>5. QED
  BY ONLY <1>3, <1>4

(* One more mix, under an id that is not there. *)
LEMMA AddMix ==
  ASSUME NEW ms \in Seq(Mix), Unique(ms), NEW m \in Mix, m.id \notin Ids(ms)
  PROVE  /\ ms \o <<m>> \in Seq(Mix) /\ Unique(ms \o <<m>>)
         /\ Ids(ms \o <<m>>) = Ids(ms) \cup {m.id}
         /\ DOMAIN (ms \o <<m>>) = DOMAIN ms \cup {Len(ms) + 1}
         /\ \A p \in DOMAIN ms : (ms \o <<m>>)[p] = ms[p]
         /\ (ms \o <<m>>)[Len(ms) + 1] = m
<1>1. Len(ms) \in Nat /\ DOMAIN ms = 1 .. Len(ms)
  OBVIOUS
<1>2. <<m>> \in Seq(Mix) /\ Len(<<m>>) = 1 /\ <<m>>[1] = m
  OBVIOUS
<1>3. PICK new \in Seq(Mix) : new = ms \o <<m>>
  BY ONLY <1>2, Concat, ms \in Seq(Mix)
<1>4. /\ Len(new) = Len(ms) + 1 /\ new[Len(ms) + 1] = m
      /\ \A p \in DOMAIN ms : new[p] = ms[p]
  <2>1. PICK one \in Seq(Mix) : one = <<m>> /\ Len(one) = 1 /\ one[1] = m
    BY ONLY <1>2
  <2>2. /\ Len(ms \o one) = Len(ms) + Len(one)
        /\ \A p \in 1 .. Len(ms) : (ms \o one)[p] = ms[p]
        /\ \A q \in 1 .. Len(one) : (ms \o one)[Len(ms) + q] = one[q]
    BY ONLY Concat, ms \in Seq(Mix), one \in Seq(Mix)
  <2>3. QED
    BY ONLY <1>1, <1>3, <2>1, <2>2
<1>5. DOMAIN new = DOMAIN ms \cup {Len(ms) + 1}
  BY ONLY <1>1, <1>4, new \in Seq(Mix)
<1>6. Len(ms) + 1 \notin DOMAIN ms
  BY ONLY <1>1
<1>7. Ids(new) = Ids(ms) \cup {m.id}
  BY ONLY <1>4, <1>5 DEF Ids
<1>8. \A p \in DOMAIN ms : ms[p].id # m.id
  BY ONLY m.id \notin Ids(ms) DEF Ids
<1>9. Unique(new)
  BY ONLY <1>4, <1>5, <1>8, Unique(ms) DEF Unique
<1>10. QED
  BY ONLY <1>3, <1>4, <1>5, <1>7, <1>9

(* The mixes of the header. *)
HeaderMixes == HeaderMix(1) \o HeaderMix(2) \o HeaderMix(3)
HeaderIds(i) == {k - 1 : k \in {m \in 1 .. i : ~dive.trimix /\ dive.o2[m] # 0}}
HeaderList(ms, i) ==
  /\ ms \in Seq(Mix) /\ Unique(ms) /\ Ids(ms) = HeaderIds(i)
  /\ \A p \in DOMAIN ms : ms[p] = [id |-> ms[p].id, o2 |-> dive.o2[ms[p].id + 1], he |-> 0]

LEMMA HeaderStep ==
  ASSUME NEW i \in 1 .. 3, dive.o2 \in [1 .. 3 -> Nat], NEW ms, HeaderList(ms, i - 1)
  PROVE  HeaderList(ms \o HeaderMix(i), i)
<1>1. /\ ms \in Seq(Mix) /\ Unique(ms) /\ Ids(ms) = HeaderIds(i - 1)
      /\ \A p \in DOMAIN ms : ms[p] = [id |-> ms[p].id, o2 |-> dive.o2[ms[p].id + 1], he |-> 0]
  BY DEF HeaderList
<1>2. 1 .. i = (1 .. i - 1) \cup {i}
  BY i \in 1 .. 3
<1>3. CASE ~dive.trimix /\ dive.o2[i] # 0
  <2>1. PICK m \in Mix : /\ m = [id |-> i - 1, o2 |-> dive.o2[i], he |-> 0]
                         /\ m.id = i - 1 /\ m.o2 = dive.o2[i] /\ m.he = 0
    <3>1. i - 1 \in Nat /\ dive.o2[i] \in Nat
      BY ONLY i \in 1 .. 3, dive.o2 \in [1 .. 3 -> Nat]
    <3> DEFINE r == [id |-> i - 1, o2 |-> dive.o2[i], he |-> 0]
    <3>2. r \in Mix
      BY ONLY <3>1 DEF Mix
    <3>3. r.id = i - 1 /\ r.o2 = dive.o2[i] /\ r.he = 0
      OBVIOUS
    <3> HIDE DEF r
    <3>4. \E m \in Mix : /\ m = r /\ m.id = i - 1 /\ m.o2 = dive.o2[i] /\ m.he = 0
      BY ONLY <3>2, <3>3
    <3>5. QED
      BY ONLY <3>4 DEF r
  <2>2. HeaderMix(i) = <<m>>
    BY ONLY <1>3, <2>1 DEF HeaderMix
  <2>3. HeaderIds(i) = HeaderIds(i - 1) \cup {i - 1}
    BY ONLY <1>2, <1>3 DEF HeaderIds
  <2>4. i - 1 \notin HeaderIds(i - 1)
    <3>1. SUFFICES ASSUME NEW k \in 1 .. i - 1, i - 1 = k - 1 PROVE FALSE
      BY DEF HeaderIds
    <3>2. QED
      BY ONLY <3>1, i \in 1 .. 3
  <2>5. /\ ms \o <<m>> \in Seq(Mix) /\ Unique(ms \o <<m>>)
        /\ Ids(ms \o <<m>>) = Ids(ms) \cup {m.id}
        /\ DOMAIN (ms \o <<m>>) = DOMAIN ms \cup {Len(ms) + 1}
        /\ \A p \in DOMAIN ms : (ms \o <<m>>)[p] = ms[p]
        /\ (ms \o <<m>>)[Len(ms) + 1] = m
    BY ONLY <1>1, <2>1, <2>4, AddMix, m \in Mix
  <2>6. m = [id |-> m.id, o2 |-> dive.o2[m.id + 1], he |-> 0]
    <3>1. m.id + 1 = i
      BY ONLY <2>1, i \in 1 .. 3
    <3>2. QED
      BY ONLY <2>1, <3>1
  <2>7. \A p \in DOMAIN (ms \o <<m>>) :
          (ms \o <<m>>)[p] = [id |-> (ms \o <<m>>)[p].id,
                              o2 |-> dive.o2[(ms \o <<m>>)[p].id + 1], he |-> 0]
    BY ONLY <1>1, <2>5, <2>6
  <2>8. QED
    BY ONLY <1>1, <2>1, <2>2, <2>3, <2>5, <2>7 DEF HeaderList
<1>4. CASE ~(~dive.trimix /\ dive.o2[i] # 0)
  <2>1. HeaderMix(i) = <<>>
    BY ONLY <1>4 DEF HeaderMix
  <2>2. HeaderIds(i) = HeaderIds(i - 1)
    BY ONLY <1>2, <1>4 DEF HeaderIds
  <2>3. ms \o <<>> = ms
    BY ONLY <1>1, EmptySeq, ConcatEmptySeq
  <2>4. QED
    BY ONLY <1>1, <2>1, <2>2, <2>3 DEF HeaderList
<1>5. QED
  BY ONLY <1>3, <1>4

LEMMA HeaderIs ==
  ASSUME dive.o2 \in [1 .. 3 -> Nat]
  PROVE  HeaderList(HeaderMixes, 3)
<1>1. HeaderList(<<>>, 0)
  <2>1. <<>> \in Seq(Mix) /\ DOMAIN <<>> = {} /\ 1 .. 0 = {}
    OBVIOUS
  <2>2. HeaderIds(0) = {} /\ Ids(<<>>) = {}
    BY ONLY <2>1 DEF HeaderIds, Ids
  <2>3. QED
    BY ONLY <2>1, <2>2 DEF HeaderList, Unique
<1>2. HeaderList(<<>> \o HeaderMix(1), 1)
  <2>1. 1 \in 1 .. 3 /\ 1 - 1 = 0
    OBVIOUS
  <2>2. QED
    BY ONLY <1>1, <2>1, HeaderStep, dive.o2 \in [1 .. 3 -> Nat]
<1>3. <<>> \o HeaderMix(1) = HeaderMix(1)
  <2>1. PICK s : s = HeaderMix(1) /\ (s = <<>> \/ \E m : s = <<m>>)
    BY DEF HeaderMix
  <2>2. QED
    BY <2>1
<1>4. HeaderList(HeaderMix(1) \o HeaderMix(2), 2)
  <2>1. 2 \in 1 .. 3 /\ 2 - 1 = 1
    OBVIOUS
  <2>2. QED
    BY ONLY <1>2, <1>3, <2>1, HeaderStep, dive.o2 \in [1 .. 3 -> Nat]
<1>5. HeaderList((HeaderMix(1) \o HeaderMix(2)) \o HeaderMix(3), 3)
  <2>1. 3 \in 1 .. 3 /\ 3 - 1 = 2
    OBVIOUS
  <2>2. QED
    BY ONLY <1>4, <2>1, HeaderStep, dive.o2 \in [1 .. 3 -> Nat]
<1>6. QED
  BY ONLY <1>5 DEF HeaderMixes

-----------------------------------------------------------------------------
(* The order of the ids, and the cylinders in it.                          *)
Rank(S, i) == Cardinality({j \in S : j <= i})

(* The ranks of the numbers of a finite set. *)
LEMMA Ranks ==
  ASSUME NEW S \in SUBSET Nat, IsFiniteSet(S)
  PROVE  /\ Cardinality(S) \in Nat
         /\ \A i \in S : Rank(S, i) \in 1 .. Cardinality(S)
         /\ \A i \in S : \A j \in S : i < j => Rank(S, i) < Rank(S, j)
<1> DEFINE UpTo(i) == {j \in S : j <= i}
<1>1. IsFiniteSet(S)
  OBVIOUS
<1>2. Cardinality(S) \in Nat
  BY ONLY <1>1, FS_CardinalityType
<1>3. ASSUME NEW i
      PROVE  /\ IsFiniteSet(UpTo(i)) /\ Rank(S, i) = Cardinality(UpTo(i))
             /\ Cardinality(UpTo(i)) \in Nat /\ Cardinality(UpTo(i)) <= Cardinality(S)
  <2>1. UpTo(i) \in SUBSET S
    OBVIOUS
  <2>2. IsFiniteSet(UpTo(i)) /\ Cardinality(UpTo(i)) <= Cardinality(S)
    BY ONLY <1>1, <2>1, FS_Subset
  <2>3. Cardinality(UpTo(i)) \in Nat
    BY ONLY <2>2, FS_CardinalityType
  <2>4. QED
    BY ONLY <2>2, <2>3 DEF Rank
<1>4. ASSUME NEW i \in S PROVE Rank(S, i) # 0
  <2>1. i \in UpTo(i)
    BY S \in SUBSET Nat
  <2>2. UpTo(i) # {}
    BY ONLY <2>1
  <2> HIDE DEF UpTo
  <2>3. QED
    BY ONLY <1>3, <2>2, FS_EmptySet
<1>5. ASSUME NEW i \in S PROVE Rank(S, i) \in 1 .. Cardinality(S)
  <2>1. PICK r \in Nat : r = Rank(S, i) /\ r <= Cardinality(S)
    BY ONLY <1>3
  <2>2. r # 0
    BY ONLY <1>4, <2>1
  <2>3. QED
    BY ONLY <1>2, <2>1, <2>2
<1>6. ASSUME NEW i \in S, NEW j \in S, i < j PROVE Rank(S, i) < Rank(S, j)
  <2>0. \A k \in S : k \in Nat
    BY ONLY S \in SUBSET Nat
  <2>1. UpTo(i) \in SUBSET UpTo(j)
    <3>1. ASSUME NEW k \in S, k <= i PROVE k <= j
      BY ONLY <1>6, <2>0, <3>1, i \in S, j \in S, k \in S
    <3>2. QED
      BY ONLY <3>1
  <2>2. j \in UpTo(j) /\ j \notin UpTo(i)
    <3>1. j <= j /\ ~(j <= i)
      BY ONLY <1>6, <2>0, i \in S, j \in S
    <3>2. QED
      BY ONLY <3>1, j \in S
  <2>3. UpTo(i) # UpTo(j)
    BY ONLY <2>2
  <2> HIDE DEF UpTo
  <2>4. /\ Cardinality(UpTo(i)) <= Cardinality(UpTo(j))
        /\ Cardinality(UpTo(i)) # Cardinality(UpTo(j))
    BY ONLY <1>3, <2>1, <2>3, FS_Subset
  <2>5. QED
    BY ONLY <1>3, <2>4
<1>7. QED
  BY ONLY <1>1, <1>2, <1>5, <1>6

(* The numbers in their order, none left out. *)
LEMMA NthIs ==
  ASSUME NEW S \in SUBSET Nat, IsFiniteSet(S)
  PROVE  /\ Cardinality(S) \in Nat
         /\ \A k \in 1 .. Cardinality(S) : Nth(S, k) \in S
         /\ \A j \in 1 .. Cardinality(S) : \A k \in 1 .. Cardinality(S) :
              j < k => Nth(S, j) < Nth(S, k)
         /\ \A i \in S : \E k \in 1 .. Cardinality(S) : Nth(S, k) = i
<1> DEFINE c == Cardinality(S)
           f == [i \in S |-> Rank(S, i)]
<1>1. IsFiniteSet(S) /\ c \in Nat
  BY ONLY Ranks, S \in SUBSET Nat, IsFiniteSet(S)
<1>2. \A i \in S : Rank(S, i) \in 1 .. c
  BY ONLY Ranks, S \in SUBSET Nat, IsFiniteSet(S)
<1>3. ASSUME NEW i \in S, NEW j \in S, i < j PROVE Rank(S, i) < Rank(S, j)
  BY ONLY Ranks, S \in SUBSET Nat, IsFiniteSet(S), <1>3
<1> HIDE DEF c
<1>4. ASSUME NEW i \in S, NEW j \in S, Rank(S, i) = Rank(S, j) PROVE i = j
  <2>1. PICK a \in Nat : a = i
    BY ONLY S \in SUBSET Nat, i \in S
  <2>2. PICK b \in Nat : b = j
    BY ONLY S \in SUBSET Nat, j \in S
  <2>3. Rank(S, i) \in Int
    BY ONLY <1>2, i \in S
  <2>4. ~(i < j) /\ ~(j < i)
    BY ONLY <1>3, <1>4, <2>3, i \in S, j \in S
  <2>5. QED
    BY ONLY <2>1, <2>2, <2>4
<1>5. f \in Injection(S, 1 .. c)
  <2>1. f \in [S -> 1 .. c]
    BY ONLY <1>2
  <2>2. \A i, j \in S : f[i] = f[j] => i = j
    BY ONLY <1>4
  <2>3. QED
    BY ONLY <2>1, <2>2 DEF Injection, IsInjective
<1>6. f \in Surjection(S, 1 .. c)
  <2> HIDE DEF f
  <2>1. IsFiniteSet(1 .. c) /\ Cardinality(1 .. c) = c
    BY ONLY <1>1, FS_Interval
  <2>2. Cardinality(S) = Cardinality(1 .. c)
    BY ONLY <2>1 DEF c
  <2>3. QED
    BY ONLY <1>5, <2>1, <2>2, FS_Injection
<1>7. ASSUME NEW k \in 1 .. c PROVE Nth(S, k) \in S /\ Rank(S, Nth(S, k)) = k
  <2>1. \E i \in S : f[i] = k
    BY ONLY <1>6, k \in 1 .. c DEF Surjection
  <2>2. \E i \in S : Rank(S, i) = k
    BY ONLY <2>1
  <2>3. QED
    BY ONLY <2>2 DEF Nth, Rank
<1>8. ASSUME NEW j \in 1 .. c, NEW k \in 1 .. c, j < k PROVE Nth(S, j) < Nth(S, k)
  <2>1. PICK a \in S : a = Nth(S, j) /\ Rank(S, a) = j
    BY ONLY <1>7, j \in 1 .. c
  <2>2. PICK b \in S : b = Nth(S, k) /\ Rank(S, b) = k
    BY ONLY <1>7, k \in 1 .. c
  <2>3. a \in Nat /\ b \in Nat
    BY ONLY S \in SUBSET Nat, a \in S, b \in S
  <2>4. ~(b < a)
    <3>1. SUFFICES ASSUME b < a PROVE FALSE
      OBVIOUS
    <3>2. Rank(S, b) < Rank(S, a)
      BY ONLY <1>3, <3>1, a \in S, b \in S
    <3>3. QED
      BY ONLY <1>8, <2>1, <2>2, <3>2, j \in 1 .. c, k \in 1 .. c
  <2>5. a # b
    BY ONLY <1>8, <2>1, <2>2, j \in 1 .. c, k \in 1 .. c
  <2>6. QED
    BY ONLY <2>1, <2>2, <2>3, <2>4, <2>5
<1>9. ASSUME NEW i \in S PROVE \E k \in 1 .. c : Nth(S, k) = i
  <2>1. PICK k \in 1 .. c : k = Rank(S, i)
    BY ONLY <1>2, i \in S
  <2>2. Nth(S, k) \in S /\ Rank(S, Nth(S, k)) = Rank(S, i)
    BY ONLY <1>7, <2>1, k \in 1 .. c
  <2>3. Nth(S, k) = i
    BY ONLY <1>4, <2>2, i \in S
  <2>4. QED
    BY ONLY <2>3, k \in 1 .. c
<1>10. QED
  BY ONLY <1>1, <1>7, <1>8, <1>9 DEF c

(* As many ids as there are mixes. *)
LEMMA IdsOf ==
  ASSUME NEW ms \in Seq(Mix), Unique(ms)
  PROVE  /\ Ids(ms) \in SUBSET Nat /\ IsFiniteSet(Ids(ms))
         /\ Cardinality(Ids(ms)) = Len(ms)
<1>1. PICK m \in Nat : m = Len(ms) /\ DOMAIN ms = 1 .. m
  OBVIOUS
<1>2. \A p \in DOMAIN ms : ms[p] \in Mix /\ ms[p].id \in Nat
  <2>1. \A x \in Mix : x.id \in Nat
    BY DEF Mix
  <2>2. \A p \in DOMAIN ms : ms[p] \in Mix
    OBVIOUS
  <2>3. QED
    BY ONLY <2>1, <2>2
<1>3. Ids(ms) \in SUBSET Nat
  BY ONLY <1>2 DEF Ids
<1> DEFINE f == [p \in DOMAIN ms |-> ms[p].id]
<1>4. f \in [DOMAIN ms -> Ids(ms)] /\ \A p \in DOMAIN ms : f[p] = ms[p].id
  BY DEF Ids
<1> HIDE DEF f
<1>5. f \in Surjection(DOMAIN ms, Ids(ms))
  BY ONLY <1>4 DEF Surjection, Ids
<1>6. f \in Injection(DOMAIN ms, Ids(ms))
  BY ONLY <1>4, Unique(ms) DEF Injection, IsInjective, Unique
<1>7. IsFiniteSet(DOMAIN ms) /\ Cardinality(DOMAIN ms) = m
  <2>1. 1 \in Int /\ m \in Int /\ (1 > m \/ 1 <= m) /\ m - 1 + 1 = m
    BY ONLY m \in Nat
  <2>2. IsFiniteSet(1 .. m) /\ Cardinality(1 .. m) = IF 1 > m THEN 0 ELSE m - 1 + 1
    BY ONLY <2>1, FS_Interval
  <2>3. QED
    BY ONLY <1>1, <2>1, <2>2, m \in Nat
<1>8. IsFiniteSet(Ids(ms)) /\ Cardinality(Ids(ms)) = Cardinality(DOMAIN ms)
  BY ONLY <1>5, <1>6, <1>7, FS_Surjection
<1>9. QED
  BY ONLY <1>1, <1>3, <1>7, <1>8

(* The cylinders are the mixes, by their ids, and a change that names a    *)
(* mix is led to the cylinder that the mix becomes.                        *)
LEMMA Sorted ==
  ASSUME mixes \in Seq(Mix), Unique(mixes),
         NEW c, c = [k \in DOMAIN mixes |-> CHOOSE m \in Range(mixes) : m.id = Order[k]]
  PROVE  /\ c \in Seq(Mix) /\ DOMAIN c = DOMAIN mixes
         /\ Range(c) = Range(mixes)
         /\ \A j, k \in DOMAIN c : j < k => c[j].id < c[k].id
         /\ \A p \in DOMAIN mixes : Remap(p) \in DOMAIN mixes /\ c[Remap(p)].id = mixes[p].id
<1>1. PICK m \in Nat : m = Len(mixes) /\ DOMAIN mixes = 1 .. m
  OBVIOUS
<1>2. PICK S \in SUBSET Nat : S = Ids(mixes) /\ IsFiniteSet(S) /\ Cardinality(S) = m
  BY ONLY <1>1, IdsOf, mixes \in Seq(Mix), Unique(mixes)
<1>3. /\ \A k \in 1 .. m : Nth(S, k) \in S
      /\ \A j \in 1 .. m : \A k \in 1 .. m : j < k => Nth(S, j) < Nth(S, k)
      /\ \A i \in S : \E k \in 1 .. m : Nth(S, k) = i
  BY ONLY <1>2, NthIs, S \in SUBSET Nat
<1>4. \A k \in 1 .. m : Order[k] = Nth(S, k)
  BY ONLY <1>1, <1>2 DEF Order, Ids
<1>5. Range(mixes) = {mixes[p] : p \in DOMAIN mixes}
  BY DEF Range
<1>6. \A p \in DOMAIN mixes : mixes[p] \in Mix
  BY ONLY mixes \in Seq(Mix)
<1>7. ASSUME NEW k \in 1 .. m
      PROVE  c[k] \in Range(mixes) /\ c[k].id = Nth(S, k)
  <2>1. Nth(S, k) \in S
    BY ONLY <1>3, k \in 1 .. m
  <2>2. PICK p \in DOMAIN mixes : mixes[p].id = Nth(S, k)
    BY ONLY <1>2, <2>1 DEF Ids
  <2>3. \E x \in Range(mixes) : x.id = Order[k]
    BY ONLY <1>4, <1>5, <2>2, k \in 1 .. m
  <2>4. c[k] = CHOOSE x \in Range(mixes) : x.id = Order[k]
    BY ONLY <1>1, k \in 1 .. m,
            c = [j \in DOMAIN mixes |-> CHOOSE x \in Range(mixes) : x.id = Order[j]]
  <2>5. c[k] \in Range(mixes) /\ c[k].id = Order[k]
    BY ONLY <2>3, <2>4
  <2>6. QED
    BY ONLY <1>4, <2>5, k \in 1 .. m
<1>8. DOMAIN c = 1 .. m
  BY ONLY <1>1, c = [j \in DOMAIN mixes |-> CHOOSE x \in Range(mixes) : x.id = Order[j]]
<1>9. c \in Seq(Mix)
  <2>1. \A k \in 1 .. m : c[k] \in Mix
    BY ONLY <1>5, <1>6, <1>7
  <2>2. c = [k \in 1 .. m |-> c[k]]
    BY ONLY <1>1, c = [j \in DOMAIN mixes |-> CHOOSE x \in Range(mixes) : x.id = Order[j]]
  <2>3. c \in [1 .. m -> Mix]
    BY ONLY <2>1, <2>2
  <2>4. QED
    BY ONLY <2>3, ListOf, m \in Nat
<1>10. Range(c) = {c[k] : k \in 1 .. m}
  BY ONLY <1>8 DEF Range
<1>11. \A x \in Range(mixes) : \A y \in Range(mixes) : x.id = y.id => x = y
  <2>1. ASSUME NEW x \in Range(mixes), NEW y \in Range(mixes), x.id = y.id PROVE x = y
    <3>1. PICK p \in DOMAIN mixes : x = mixes[p]
      BY ONLY <1>5, x \in Range(mixes)
    <3>2. PICK q \in DOMAIN mixes : y = mixes[q]
      BY ONLY <1>5, y \in Range(mixes)
    <3>3. p = q
      BY ONLY <2>1, <3>1, <3>2, Unique(mixes) DEF Unique
    <3>4. QED
      BY ONLY <3>1, <3>2, <3>3
  <2>2. QED
    BY ONLY <2>1
<1>12. ASSUME NEW p \in DOMAIN mixes
       PROVE  \E k \in 1 .. m : Order[k] = mixes[p].id /\ c[k] = mixes[p]
  <2>1. mixes[p].id \in S
    BY ONLY <1>2, p \in DOMAIN mixes DEF Ids
  <2>2. PICK k \in 1 .. m : Nth(S, k) = mixes[p].id
    BY ONLY <1>3, <2>1
  <2>3. c[k] \in Range(mixes) /\ c[k].id = mixes[p].id
    BY ONLY <1>7, <2>2, k \in 1 .. m
  <2>4. mixes[p] \in Range(mixes)
    BY ONLY <1>5, p \in DOMAIN mixes
  <2>5. c[k] = mixes[p]
    BY ONLY <1>11, <2>3, <2>4
  <2>6. QED
    BY ONLY <1>4, <2>2, <2>5, k \in 1 .. m
<1>13. Range(c) = Range(mixes)
  <2>1. ASSUME NEW x \in Range(c) PROVE x \in Range(mixes)
    BY ONLY <1>7, <1>10, x \in Range(c)
  <2>2. ASSUME NEW x \in Range(mixes) PROVE x \in Range(c)
    <3>1. PICK p \in DOMAIN mixes : x = mixes[p]
      BY ONLY <1>5, x \in Range(mixes)
    <3>2. PICK k \in 1 .. m : c[k] = mixes[p]
      BY ONLY <1>12, p \in DOMAIN mixes
    <3>3. QED
      BY ONLY <1>10, <3>1, <3>2, k \in 1 .. m
  <2>3. QED
    BY ONLY <2>1, <2>2
<1>14. \A j, k \in DOMAIN c : j < k => c[j].id < c[k].id
  BY ONLY <1>3, <1>7, <1>8
<1>15. ASSUME NEW p \in DOMAIN mixes
       PROVE  Remap(p) \in DOMAIN mixes /\ c[Remap(p)].id = mixes[p].id
  <2>1. \E k \in DOMAIN mixes : Order[k] = mixes[p].id
    BY ONLY <1>1, <1>12, p \in DOMAIN mixes
  <2>2. Remap(p) \in DOMAIN mixes /\ Order[Remap(p)] = mixes[p].id
    BY ONLY <2>1 DEF Remap
  <2>3. QED
    BY ONLY <1>1, <1>4, <1>7, <2>2
<1>16. QED
  BY ONLY <1>1, <1>8, <1>9, <1>13, <1>14, <1>15


-----------------------------------------------------------------------------
(* Types, whatever the bytes: each action keeps them.  Before the header   *)
(* is read nothing has been noted.                                         *)
Fresh ==
  outcome = "header" =>
    /\ offset = 0 /\ time = 0
    /\ depth = Unread /\ calibration = 0 /\ temperature = Unread /\ pressure = Unread
    /\ active_gasmix = 0 /\ prev_gasmix = -1 /\ mixes = <<>>
    /\ gas_changes = <<>> /\ samples = <<>>

TypeInv == Types /\ Named /\ Fresh

LEMMA TurnFacts ==
  ASSUME Types, NEW kind, Turn(kind)
  PROVE  /\ outcome = "reading" /\ offset < n /\ Known /\ Past <= n /\ Info.kind = kind
         /\ dive' = dive /\ cylinders' = cylinders
         /\ dive.body \in Seq(Byte) /\ n \in Nat
         /\ Past \in Nat /\ Past > offset
         /\ value \in Nat /\ svalue \in Int /\ Info.index \in Nat
<1>1. /\ outcome = "reading" /\ offset < n /\ Known /\ Past <= n /\ Info.kind = kind
      /\ dive' = dive /\ cylinders' = cylinders
  BY DEF Turn
<1>2. dive \in Dives /\ offset \in Nat
  BY DEF Types
<1>3. dive.body \in Seq(Byte)
  BY ONLY <1>2, DiveAssumption
<1>4. /\ Past \in Nat /\ Past > offset /\ n \in Nat
      /\ value \in Nat /\ svalue \in Int /\ Info.index \in Nat
  BY ONLY <1>1, <1>2, <1>3, TurnTypes
<1>5. QED
  BY ONLY <1>1, <1>3, <1>4

LEMMA TrackedType ==
  /\ \A v \in Int : Absolute(v) \in Tracked
  /\ \A x \in Tracked, v \in Int : Plus(x, v) \in Tracked
  /\ Unread \in Tracked
BY DEF Absolute, Plus, Unread, Tracked

(* What an action of the loop has to show. *)
LEMMA LoopTypes ==
  ASSUME TypeInv, outcome = "reading", dive' = dive, cylinders' = cylinders, outcome' = outcome,
         offset' \in Nat, time' \in Nat, depth' \in Tracked, calibration' \in Int,
         temperature' \in Tracked, pressure' \in Tracked,
         active_gasmix' \in Nat, prev_gasmix' \in Int, mixes' \in Seq(Mix), Unique(mixes'),
         gas_changes' \in Seq(Mark), samples' \in Seq(Point),
         \A k \in DOMAIN gas_changes' : gas_changes'[k].mix \in DOMAIN mixes'
  PROVE  TypeInv'
BY DEF TypeInv, Types, Named, Unique, Fresh

LEMMA DepthTypes ==
  ASSUME TypeInv, DepthSample
  PROVE  TypeInv' /\ offset' > offset
<1>1. Types /\ Named
  BY DEF TypeInv
<1>2. /\ Turn("depth") /\ offset' = Past /\ Complete(1)
      /\ UNCHANGED <<temperature, pressure, gasVars, outcome>>
      /\ Info.absolute => /\ depth' = Absolute(value)
                          /\ calibration' = IF depth.have THEN calibration ELSE value
      /\ ~Info.absolute => depth' = Plus(depth, svalue) /\ calibration' = calibration
  BY DEF DepthSample
<1>3. /\ Past \in Nat /\ Past > offset /\ value \in Nat /\ svalue \in Int
      /\ outcome = "reading" /\ dive' = dive /\ cylinders' = cylinders
  BY ONLY <1>1, <1>2, TurnFacts
<1>4. /\ depth \in Tracked /\ calibration \in Int /\ temperature \in Tracked
      /\ pressure \in Tracked /\ active_gasmix \in Nat /\ mixes \in Seq(Mix)
  BY <1>1 DEF Types
<1>5. depth' \in Tracked /\ calibration' \in Int
  BY ONLY <1>2, <1>3, <1>4, TrackedType
<1>6. /\ temperature' = temperature /\ pressure' = pressure /\ outcome' = outcome
      /\ active_gasmix' = active_gasmix /\ mixes' = mixes
  BY ONLY <1>2 DEF gasVars
<1>7. time' \in Nat /\ samples' \in Seq(Point)
  BY ONLY <1>1, <1>2, <1>4, <1>5, <1>6, CompletePoints, 1 \in Nat
<1>8. /\ prev_gasmix' \in Int /\ gas_changes' \in Seq(Mark)
      /\ \A k \in DOMAIN gas_changes' : gas_changes'[k].mix \in DOMAIN mixes
  BY ONLY <1>1, <1>2, <1>6, CompleteChanges, 1 \in Nat
<1>9. Unique(mixes)
  BY <1>1 DEF Named
<1>10. QED
  BY ONLY <1>2, <1>3, <1>4, <1>5, <1>6, <1>7, <1>8, <1>9, LoopTypes, TypeInv

LEMMA TimeTypes ==
  ASSUME TypeInv, TimeSample
  PROVE  TypeInv' /\ offset' > offset
<1>1. Types /\ Named
  BY DEF TypeInv
<1>2. /\ Turn("time") /\ offset' = Past /\ Complete(value)
      /\ UNCHANGED <<valueVars, gasVars, outcome>>
  BY DEF TimeSample
<1>3. /\ Past \in Nat /\ Past > offset /\ value \in Nat
      /\ outcome = "reading" /\ dive' = dive /\ cylinders' = cylinders
  BY ONLY <1>1, <1>2, TurnFacts
<1>4. /\ depth \in Tracked /\ calibration \in Int /\ temperature \in Tracked
      /\ pressure \in Tracked /\ active_gasmix \in Nat /\ mixes \in Seq(Mix)
  BY <1>1 DEF Types
<1>5. /\ depth' = depth /\ calibration' = calibration
      /\ temperature' = temperature /\ pressure' = pressure /\ outcome' = outcome
      /\ active_gasmix' = active_gasmix /\ mixes' = mixes
  BY ONLY <1>2 DEF gasVars, valueVars
<1>6. time' \in Nat /\ samples' \in Seq(Point)
  <2>1. PICK count \in Nat : count = value
    BY ONLY <1>3
  <2>2. Complete(count)
    BY ONLY <1>2, <2>1
  <2>3. QED
    BY ONLY <1>1, <1>4, <1>5, <2>2, CompletePoints, count \in Nat
<1>7. /\ prev_gasmix' \in Int /\ gas_changes' \in Seq(Mark)
      /\ \A k \in DOMAIN gas_changes' : gas_changes'[k].mix \in DOMAIN mixes
  BY ONLY <1>1, <1>2, <1>3, <1>5, CompleteChanges
<1>8. Unique(mixes)
  BY <1>1 DEF Named
<1>9. QED
  BY ONLY <1>2, <1>3, <1>4, <1>5, <1>6, <1>7, <1>8, LoopTypes, TypeInv

(* The actions that complete no point.                                     *)
LEMMA QuietTypes ==
  ASSUME TypeInv, NEW kind, Turn(kind), outcome' = outcome, UNCHANGED madeVars,
         offset' \in Nat, depth' \in Tracked, calibration' \in Int, temperature' \in Tracked,
         pressure' \in Tracked, active_gasmix' \in Nat, mixes' = mixes
  PROVE  TypeInv'
<1>1. /\ Types /\ Named
      /\ mixes \in Seq(Mix) /\ Unique(mixes)
      /\ time \in Nat /\ prev_gasmix \in Int /\ samples \in Seq(Point)
      /\ gas_changes \in Seq(Mark)
      /\ \A k \in DOMAIN gas_changes : gas_changes[k].mix \in DOMAIN mixes
  BY DEF TypeInv, Types, Named
<1>2. /\ time' = time /\ prev_gasmix' = prev_gasmix
      /\ gas_changes' = gas_changes /\ samples' = samples
  BY DEF madeVars
<1>3. outcome = "reading" /\ dive' = dive /\ cylinders' = cylinders
  BY DEF Turn
<1>4. QED
  BY <1>1, <1>2, <1>3, LoopTypes

LEMMA TemperatureTypes ==
  ASSUME TypeInv, TemperatureSample
  PROVE  TypeInv' /\ offset' > offset
<1>1. /\ Types /\ depth \in Tracked /\ calibration \in Int /\ temperature \in Tracked
      /\ pressure \in Tracked /\ active_gasmix \in Nat
  BY DEF TypeInv, Types
<1>2. /\ Turn("temperature") /\ offset' = Past
      /\ temperature' = IF Info.absolute THEN Absolute(svalue) ELSE Plus(temperature, svalue)
      /\ UNCHANGED <<depth, calibration, pressure, gasVars, madeVars, outcome>>
  BY DEF TemperatureSample
<1>3. Past \in Nat /\ Past > offset /\ svalue \in Int
  BY ONLY <1>1, <1>2, TurnFacts
<1>4. temperature' \in Tracked
  BY ONLY <1>1, <1>2, <1>3, TrackedType
<1>5. /\ depth' = depth /\ calibration' = calibration /\ pressure' = pressure
      /\ active_gasmix' = active_gasmix /\ mixes' = mixes /\ UNCHANGED madeVars
      /\ outcome' = outcome
  BY ONLY <1>2 DEF gasVars
<1>6. QED
  BY ONLY <1>1, <1>2, <1>3, <1>4, <1>5, QuietTypes, TypeInv

LEMMA PressureTypes ==
  ASSUME TypeInv, PressureSample
  PROVE  TypeInv' /\ offset' > offset
<1>1. /\ Types /\ depth \in Tracked /\ calibration \in Int /\ temperature \in Tracked
      /\ pressure \in Tracked /\ active_gasmix \in Nat
  BY DEF TypeInv, Types
<1>2. /\ Turn("pressure") /\ offset' = Past
      /\ \/ pressure' = Plus(pressure, svalue) /\ active_gasmix' = active_gasmix
         \/ pressure' = Absolute(value % 4096) /\ active_gasmix' = value \div 4096
         \/ pressure' = Absolute(value) /\ active_gasmix' = Info.index
      /\ UNCHANGED <<depth, calibration, temperature, mixes, madeVars, outcome>>
  BY DEF PressureSample
<1>3. Past \in Nat /\ Past > offset /\ svalue \in Int /\ value \in Nat /\ Info.index \in Nat
  BY ONLY <1>1, <1>2, TurnFacts
<1>4. value % 4096 \in Int /\ value \div 4096 \in Nat
  BY ONLY <1>3
<1>5. pressure' \in Tracked /\ active_gasmix' \in Nat
  <2>1. value \in Int
    BY ONLY <1>3
  <2>2. QED
    BY ONLY <1>1, <1>2, <1>3, <1>4, <2>1, TrackedType
<1>6. /\ depth' = depth /\ calibration' = calibration /\ temperature' = temperature
      /\ mixes' = mixes /\ UNCHANGED madeVars /\ outcome' = outcome
  BY ONLY <1>2
<1>7. QED
  BY ONLY <1>1, <1>2, <1>3, <1>5, <1>6, QuietTypes, TypeInv

LEMMA AlarmTypes ==
  ASSUME TypeInv, AlarmSample
  PROVE  TypeInv' /\ offset' > offset
<1>1. /\ Types /\ depth \in Tracked /\ calibration \in Int /\ temperature \in Tracked
      /\ pressure \in Tracked /\ active_gasmix \in Nat
  BY DEF TypeInv, Types
<1>2. /\ Turn("alarms") /\ offset' = Past
      /\ UNCHANGED <<valueVars, mixes, madeVars, outcome>>
  BY DEF AlarmSample
<1>3. Past \in Nat /\ Past > offset /\ value \in Nat
  BY ONLY <1>1, <1>2, TurnFacts
<1>4. active_gasmix' \in {(value \div 32) % 4, value \div 16, active_gasmix}
  BY DEF AlarmSample
<1>5. (value \div 32) % 4 \in Nat /\ value \div 16 \in Nat
  BY ONLY <1>3
<1>6. active_gasmix' \in Nat
  BY ONLY <1>1, <1>4, <1>5
<1>7. /\ depth' = depth /\ calibration' = calibration /\ temperature' = temperature
      /\ pressure' = pressure /\ mixes' = mixes /\ UNCHANGED madeVars /\ outcome' = outcome
  BY ONLY <1>2 DEF valueVars
<1>8. QED
  BY ONLY <1>1, <1>2, <1>3, <1>6, <1>7, QuietTypes, TypeInv

LEMMA OtherTypes ==
  ASSUME TypeInv, OtherSample \/ ApneaSample
  PROVE  TypeInv' /\ offset' > offset
<1>1. /\ Types /\ depth \in Tracked /\ calibration \in Int /\ temperature \in Tracked
      /\ pressure \in Tracked /\ active_gasmix \in Nat /\ offset \in Nat
  BY DEF TypeInv, Types
<1>2. PICK kind : /\ Turn(kind)
                  /\ offset' = Past \/ offset' = Past + 8
                  /\ UNCHANGED <<valueVars, gasVars, madeVars, outcome>>
  BY DEF OtherSample, ApneaSample
<1>3. Past \in Nat /\ Past > offset
  BY ONLY <1>1, <1>2, TurnFacts
<1>4. offset' \in Nat /\ offset' > offset
  BY ONLY <1>1, <1>2, <1>3
<1>5. /\ depth' = depth /\ calibration' = calibration /\ temperature' = temperature
      /\ pressure' = pressure /\ active_gasmix' = active_gasmix /\ mixes' = mixes
      /\ UNCHANGED madeVars /\ outcome' = outcome
  BY ONLY <1>2 DEF valueVars, gasVars
<1>6. QED
  BY ONLY <1>1, <1>2, <1>4, <1>5, QuietTypes, TypeInv

(* The mix of a MISC sample, if it describes one that is not there.        *)
LEMMA MiscMixType ==
  ASSUME dive.body \in Seq(Byte), Past \in Nat, value \in Nat, ~MiscCut
  PROVE  MiscMix = <<>> \/ \E m \in Mix : MiscMix = <<m>> /\ m.id \notin Ids(mixes)
<1> DEFINE r == [id |-> At(Past) - 32, o2 |-> u16_le(Past + 1), he |-> u16_le(Past + 3)]
<1>1. MiscMix = <<>> \/ (/\ MiscMix = <<r>> /\ At(Past) \in 32 .. 41 /\ value >= 16
                         /\ Position(mixes, r.id) = {})
  BY DEF MiscMix
<1>2. ASSUME MiscMix = <<r>>, At(Past) \in 32 .. 41, value >= 16, Position(mixes, r.id) = {}
      PROVE  r \in Mix /\ r.id \notin Ids(mixes)
  <2>1. n \in Nat /\ n = Len(dive.body)
    BY DEF n
  <2>2. Past + value - 1 <= n
    <3>1. ~(Past + value - 1 > n)
      BY ONLY ~MiscCut DEF MiscCut
    <3>2. QED
      BY ONLY <2>1, <3>1, Past \in Nat, value \in Nat
  <2>3. Past + 15 <= n
    BY ONLY <1>2, <2>1, <2>2, Past \in Nat, value \in Nat
  <2>4. ASSUME NEW j \in 1 .. 4 PROVE At(Past + j) \in Nat
    <3>1. Past + j + 1 \in 1 .. Len(dive.body)
      BY ONLY <2>1, <2>3, Past \in Nat, j \in 1 .. 4
    <3>2. dive.body[Past + j + 1] \in Byte
      BY ONLY <3>1, dive.body \in Seq(Byte)
    <3>3. QED
      BY ONLY <3>2, ByteNat DEF At
  <2>5. u16_le(Past + 1) \in Nat
    <3>1. At(Past + 1) \in Nat /\ At(Past + 2) \in Nat /\ (Past + 1) + 1 = Past + 2
      BY ONLY <2>4, Past \in Nat
    <3>2. QED
      BY ONLY <3>1 DEF u16_le
  <2>6. u16_le(Past + 3) \in Nat
    <3>1. At(Past + 3) \in Nat /\ At(Past + 4) \in Nat /\ (Past + 3) + 1 = Past + 4
      BY ONLY <2>4, Past \in Nat
    <3>2. QED
      BY ONLY <3>1 DEF u16_le
  <2>7. At(Past) - 32 \in Nat
    BY ONLY <1>2
  <2>8. r \in Mix
    BY ONLY <2>5, <2>6, <2>7 DEF Mix
  <2>9. r.id \notin Ids(mixes)
    BY ONLY <1>2 DEF Position, Ids
  <2>10. QED
    BY ONLY <2>8, <2>9
<1> HIDE DEF r
<1>3. QED
  BY ONLY <1>1, <1>2

LEMMA MiscTypes ==
  ASSUME TypeInv, MiscSample
  PROVE  TypeInv' /\ offset' > offset
<1>1. /\ Types /\ Named /\ offset \in Nat
      /\ depth \in Tracked /\ calibration \in Int /\ temperature \in Tracked
      /\ pressure \in Tracked /\ active_gasmix \in Nat
      /\ mixes \in Seq(Mix) /\ Unique(mixes)
      /\ time \in Nat /\ prev_gasmix \in Int /\ samples \in Seq(Point)
      /\ gas_changes \in Seq(Mark)
      /\ \A k \in DOMAIN gas_changes : gas_changes[k].mix \in DOMAIN mixes
  BY DEF TypeInv, Types, Named
<1>2. /\ Turn("misc") /\ ~MiscCut
      /\ mixes' = mixes \o MiscMix /\ offset' = Past + value - 1
      /\ UNCHANGED <<valueVars, active_gasmix, madeVars, outcome>>
  BY DEF MiscSample
<1>3. /\ Past \in Nat /\ Past > offset /\ value \in Nat
      /\ dive.body \in Seq(Byte) /\ outcome = "reading" /\ dive' = dive /\ cylinders' = cylinders
  BY ONLY <1>1, <1>2, TurnFacts
<1>4. value >= 1
  <2>1. ~(value < 1)
    BY ONLY <1>2 DEF MiscCut
  <2>2. QED
    BY ONLY <1>3, <2>1
<1>5. offset' \in Nat /\ offset' > offset
  BY ONLY <1>1, <1>2, <1>3, <1>4
<1>6. mixes' \in Seq(Mix) /\ Unique(mixes') /\ DOMAIN mixes \in SUBSET DOMAIN mixes'
  <2>1. CASE MiscMix = <<>>
    <3>1. mixes' = mixes
      BY ONLY <1>1, <1>2, <2>1, EmptySeq, ConcatEmptySeq
    <3>2. QED
      BY ONLY <1>1, <3>1
  <2>2. CASE \E m \in Mix : MiscMix = <<m>> /\ m.id \notin Ids(mixes)
    <3>1. PICK m \in Mix : MiscMix = <<m>> /\ m.id \notin Ids(mixes)
      BY <2>2
    <3>2. /\ mixes \o <<m>> \in Seq(Mix) /\ Unique(mixes \o <<m>>)
          /\ DOMAIN (mixes \o <<m>>) = DOMAIN mixes \cup {Len(mixes) + 1}
      BY ONLY <1>1, <3>1, AddMix, m \in Mix
    <3>3. mixes' = mixes \o <<m>>
      BY ONLY <1>2, <3>1
    <3>4. QED
      BY ONLY <3>2, <3>3
  <2>3. QED
    BY ONLY <1>2, <1>3, <2>1, <2>2, MiscMixType
<1>7. /\ depth' = depth /\ calibration' = calibration /\ temperature' = temperature
      /\ pressure' = pressure /\ active_gasmix' = active_gasmix
      /\ time' = time /\ prev_gasmix' = prev_gasmix
      /\ gas_changes' = gas_changes /\ samples' = samples /\ outcome' = outcome
  BY ONLY <1>2 DEF valueVars, madeVars
<1>8. \A k \in DOMAIN gas_changes' : gas_changes'[k].mix \in DOMAIN mixes'
  BY ONLY <1>1, <1>6, <1>7
<1>9. TypeInv'
  BY ONLY <1>1, <1>3, <1>5, <1>6, <1>7, <1>8, LoopTypes, TypeInv
<1>10. QED
  BY ONLY <1>5, <1>9

(* The header, and the ends. *)
LEMMA HeaderTypes ==
  ASSUME TypeInv, ReadHeader
  PROVE  TypeInv'
<1>1. /\ outcome = "header" /\ outcome' = "reading" /\ mixes' = HeaderMixes
      /\ UNCHANGED <<dive, offset, valueVars, active_gasmix, madeVars, cylinders>>
  BY DEF ReadHeader, HeaderMixes
<1>2. Types /\ dive \in Dives /\ gas_changes = <<>>
  BY <1>1 DEF TypeInv, Types, Fresh
<1>3. dive.o2 \in [1 .. 3 -> Nat]
  BY ONLY <1>2, DiveAssumption
<1>4. HeaderMixes \in Seq(Mix) /\ Unique(HeaderMixes)
  BY ONLY <1>3, HeaderIs DEF HeaderList
<1>5. DOMAIN <<>> = {}
  OBVIOUS
<1>6. gas_changes' = <<>> /\ \A k \in DOMAIN gas_changes' : gas_changes'[k].mix \in DOMAIN mixes'
  BY ONLY <1>1, <1>2, <1>5 DEF madeVars
<1>7. mixes' \in Seq(Mix) /\ Unique(mixes')
  BY ONLY <1>1, <1>4
<1>8. Named'
  BY ONLY <1>6, <1>7 DEF Named, Unique
<1>9. Types' /\ Fresh'
  BY ONLY <1>1, <1>2, <1>7 DEF Types, Fresh, valueVars, madeVars
<1>10. QED
  BY ONLY <1>8, <1>9 DEF TypeInv

LEMMA EndTypes ==
  ASSUME TypeInv, HeaderShort \/ SubtypeMissing \/ InvalidType
  PROVE  TypeInv'
<1>1. /\ outcome' \in {"error", "panic"}
      /\ UNCHANGED <<dive, offset, valueVars, gasVars, madeVars, cylinders>>
  BY DEF HeaderShort, SubtypeMissing, InvalidType, Turn
<1>2. Types /\ Named
  BY DEF TypeInv
<1>3. Types'
  BY ONLY <1>1, <1>2 DEF Types, valueVars, gasVars, madeVars
<1>4. Named'
  BY ONLY <1>1, <1>2 DEF Named, Unique, gasVars, madeVars
<1>5. Fresh'
  BY ONLY <1>1 DEF Fresh
<1>6. QED
  BY ONLY <1>3, <1>4, <1>5 DEF TypeInv

(* What the end of the record makes of the mixes and of the changes. *)
LEMMA FinishIs ==
  ASSUME Types, Named, Finish
  PROVE  /\ cylinders' \in Seq(Mix) /\ DOMAIN cylinders' = DOMAIN mixes
         /\ Range(cylinders') = Range(mixes)
         /\ \A j, k \in DOMAIN cylinders' : j < k => cylinders'[j].id < cylinders'[k].id
         /\ gas_changes' \in Seq(Mark) /\ Len(gas_changes') = Len(gas_changes)
         /\ \A k \in DOMAIN gas_changes :
              /\ gas_changes'[k].time = gas_changes[k].time
              /\ gas_changes'[k].mix \in DOMAIN mixes
              /\ cylinders'[gas_changes'[k].mix].id = mixes[gas_changes[k].mix].id
<1>1. /\ mixes \in Seq(Mix) /\ Unique(mixes) /\ gas_changes \in Seq(Mark)
      /\ \A k \in DOMAIN gas_changes : gas_changes[k].mix \in DOMAIN mixes
  BY DEF Types, Named
<1>2. /\ cylinders' = [k \in DOMAIN mixes |-> CHOOSE m \in Range(mixes) : m.id = Order[k]]
      /\ gas_changes' = [k \in DOMAIN gas_changes |->
                           [gas_changes[k] EXCEPT !.mix = Remap(gas_changes[k].mix)]]
  BY DEF Finish
<1>3. PICK c : c = cylinders'
  OBVIOUS
<1>4. /\ c \in Seq(Mix) /\ DOMAIN c = DOMAIN mixes /\ Range(c) = Range(mixes)
      /\ \A j, k \in DOMAIN c : j < k => c[j].id < c[k].id
      /\ \A p \in DOMAIN mixes : Remap(p) \in DOMAIN mixes /\ c[Remap(p)].id = mixes[p].id
  BY ONLY <1>1, <1>2, <1>3, Sorted
<1>5. DOMAIN mixes \in SUBSET Nat
  BY ONLY <1>1
<1>6. PICK m \in Nat : m = Len(gas_changes) /\ DOMAIN gas_changes = 1 .. m
  BY ONLY <1>1
<1>7. ASSUME NEW k \in DOMAIN gas_changes
      PROVE  /\ gas_changes'[k] \in Mark
             /\ gas_changes'[k].time = gas_changes[k].time
             /\ gas_changes'[k].mix = Remap(gas_changes[k].mix)
  <2>1. gas_changes[k] \in Mark
    BY ONLY <1>1, k \in DOMAIN gas_changes
  <2>2. PICK to \in Nat : to = Remap(gas_changes[k].mix)
    BY ONLY <1>1, <1>4, <1>5, k \in DOMAIN gas_changes
  <2>3. gas_changes'[k] = [gas_changes[k] EXCEPT !.mix = to]
    BY ONLY <1>2, <2>2, k \in DOMAIN gas_changes
  <2>4. QED
    BY ONLY <2>1, <2>2, <2>3, to \in Nat DEF Mark
<1>8. gas_changes' \in Seq(Mark) /\ Len(gas_changes') = Len(gas_changes)
  <2>1. gas_changes' = [k \in 1 .. m |-> gas_changes'[k]]
    BY ONLY <1>2, <1>6
  <2>2. \A k \in 1 .. m : gas_changes'[k] \in Mark
    BY ONLY <1>6, <1>7
  <2>3. gas_changes' \in [1 .. m -> Mark]
    BY ONLY <2>1, <2>2
  <2>4. QED
    BY ONLY <1>6, <2>3, ListOf, m \in Nat
<1>9. ASSUME NEW k \in DOMAIN gas_changes
      PROVE  /\ gas_changes'[k].time = gas_changes[k].time
             /\ gas_changes'[k].mix \in DOMAIN mixes
             /\ c[gas_changes'[k].mix].id = mixes[gas_changes[k].mix].id
  BY ONLY <1>1, <1>4, <1>7, k \in DOMAIN gas_changes
<1>10. QED
  BY ONLY <1>3, <1>4, <1>8, <1>9

LEMMA FinishTypes ==
  ASSUME TypeInv, Finish
  PROVE  TypeInv'
<1>1. /\ Types /\ Named /\ outcome' = "done"
      /\ UNCHANGED <<dive, offset, valueVars, gasVars, time, prev_gasmix, samples>>
  BY DEF TypeInv, Finish
<1>2. /\ cylinders' \in Seq(Mix) /\ gas_changes' \in Seq(Mark)
      /\ Len(gas_changes') = Len(gas_changes)
      /\ \A k \in DOMAIN gas_changes : gas_changes'[k].mix \in DOMAIN mixes
  BY ONLY <1>1, FinishIs, Finish
<1>3. DOMAIN gas_changes' = DOMAIN gas_changes
  <2>1. gas_changes \in Seq(Mark)
    BY ONLY <1>1 DEF Types
  <2>2. QED
    BY ONLY <1>2, <2>1
<1>4. Types'
  BY ONLY <1>1, <1>2 DEF Types, valueVars, gasVars
<1>5. mixes' = mixes
  BY ONLY <1>1 DEF gasVars
<1>6. Named'
  BY ONLY <1>1, <1>2, <1>3, <1>5 DEF Named, Unique
<1>7. Fresh'
  BY ONLY <1>1 DEF Fresh
<1>8. QED
  BY ONLY <1>4, <1>6, <1>7 DEF TypeInv

(* No turn of the loop reads a byte again.                                 *)
OffsetGrows ==
  [][outcome = "reading" /\ outcome' = "reading" => offset' > offset]_parseVars

LEMMA TypesKept ==
  TypeInv /\ [Parse]_parseVars => TypeInv'
<1>1. SUFFICES ASSUME TypeInv, [Parse]_parseVars PROVE TypeInv'
  OBVIOUS
<1>2. CASE UNCHANGED parseVars
  BY ONLY <1>1, <1>2
    DEF TypeInv, Types, Named, Unique, Fresh, parseVars, valueVars, gasVars, madeVars
<1>3. CASE DepthSample
  BY ONLY <1>1, <1>3, DepthTypes
<1>4. CASE TimeSample
  BY ONLY <1>1, <1>4, TimeTypes
<1>5. CASE TemperatureSample
  BY ONLY <1>1, <1>5, TemperatureTypes
<1>6. CASE PressureSample
  BY ONLY <1>1, <1>6, PressureTypes
<1>7. CASE AlarmSample
  BY ONLY <1>1, <1>7, AlarmTypes
<1>8. CASE OtherSample \/ ApneaSample
  BY ONLY <1>1, <1>8, OtherTypes
<1>9. CASE MiscSample
  BY ONLY <1>1, <1>9, MiscTypes
<1>10. CASE ReadHeader
  BY ONLY <1>1, <1>10, HeaderTypes
<1>11. CASE HeaderShort \/ SubtypeMissing \/ InvalidType
  BY ONLY <1>1, <1>11, EndTypes
<1>12. CASE Finish
  BY ONLY <1>1, <1>12, FinishTypes
<1>13. QED
  BY ONLY <1>1, <1>2, <1>3, <1>4, <1>5, <1>6, <1>7, <1>8, <1>9, <1>10, <1>11, <1>12 DEF Parse

LEMMA OffsetSteps ==
  TypeInv /\ [Parse]_parseVars =>
    [outcome = "reading" /\ outcome' = "reading" => offset' > offset]_parseVars
<1>1. SUFFICES ASSUME TypeInv, [Parse]_parseVars, ~UNCHANGED parseVars,
                      outcome = "reading", outcome' = "reading"
               PROVE  offset' > offset
  OBVIOUS
<1>2. CASE DepthSample
  BY ONLY <1>1, <1>2, DepthTypes
<1>3. CASE TimeSample
  BY ONLY <1>1, <1>3, TimeTypes
<1>4. CASE TemperatureSample
  BY ONLY <1>1, <1>4, TemperatureTypes
<1>5. CASE PressureSample
  BY ONLY <1>1, <1>5, PressureTypes
<1>6. CASE AlarmSample
  BY ONLY <1>1, <1>6, AlarmTypes
<1>7. CASE OtherSample \/ ApneaSample
  BY ONLY <1>1, <1>7, OtherTypes
<1>8. CASE MiscSample
  BY ONLY <1>1, <1>8, MiscTypes
<1>9. ~HeaderShort /\ ~ReadHeader /\ ~SubtypeMissing /\ ~InvalidType /\ ~Finish
  BY ONLY <1>1 DEF HeaderShort, ReadHeader, SubtypeMissing, InvalidType, Finish
<1>10. QED
  BY ONLY <1>1, <1>2, <1>3, <1>4, <1>5, <1>6, <1>7, <1>8, <1>9 DEF Parse

(* The locals keep their types, no two mixes have an id in common and      *)
(* every change names a mix, whatever the bytes of the record.             *)
THEOREM ParseTypes == ParseSpec => [](Types /\ Named)
<1>1. ParseInit => TypeInv
  <2>1. ParseInit => Fresh
    BY DEF ParseInit, Fresh
  <2>2. QED
    BY ONLY <2>1, InitTypes DEF TypeInv
<1>2. TypeInv => Types /\ Named
  BY DEF TypeInv
<1>3. QED
  BY <1>1, <1>2, TypesKept, PTL DEF ParseSpec

(* Every turn of the loop leaves the offset further on than it found it,   *)
(* whatever the bytes: the loop comes to the end of any record.            *)
THEOREM LoopMovesOn == ParseSpec => OffsetGrows
<1>1. ParseInit => TypeInv
  <2>1. ParseInit => Fresh
    BY DEF ParseInit, Fresh
  <2>2. QED
    BY ONLY <2>1, InitTypes DEF TypeInv
<1>2. QED
  BY <1>1, TypesKept, OffsetSteps, PTL DEF ParseSpec, OffsetGrows


-----------------------------------------------------------------------------
(* A turn of the loop at the bytes of a sample does what the sample says.  *)
Takes(e) ==
  /\ outcome = "reading" /\ outcome' = "reading" /\ dive' = dive
  /\ offset' = e.start + e.len
  /\ e.kind = "absdepth" => depth' = Absolute(e.v)
                            /\ calibration' = IF depth.have THEN calibration ELSE e.v
  /\ e.kind = "depth" => depth' = Plus(depth, e.v) /\ calibration' = calibration
  /\ e.kind \notin {"absdepth", "depth"} => depth' = depth /\ calibration' = calibration
  /\ e.kind = "abstemperature" => temperature' = Absolute(e.v)
  /\ e.kind = "temperature" => temperature' = Plus(temperature, e.v)
  /\ e.kind \notin {"abstemperature", "temperature"} => temperature' = temperature
  /\ e.kind = "abspressure" => pressure' = Absolute(e.v) /\ active_gasmix' = e.tank
  /\ e.kind = "pressure" => pressure' = Plus(pressure, e.v)
  /\ e.kind \notin {"abspressure", "pressure"} => pressure' = pressure
  /\ e.kind = "gas" => active_gasmix' = e.v
  /\ e.kind \notin {"abspressure", "gas"} => active_gasmix' = active_gasmix
  /\ e.kind = "mix" /\ Position(mixes, e.v) = {} =>
       mixes' = mixes \o <<e.mix>> /\ e.mix \in Mix /\ e.mix.id = e.v
  /\ ~(e.kind = "mix" /\ Position(mixes, e.v) = {}) => mixes' = mixes
  /\ e.kind \in {"absdepth", "depth"} => Complete(1)
  /\ e.kind = "time" => Complete(e.v)
  /\ e.kind \notin {"absdepth", "depth", "time"} => UNCHANGED madeVars

(* The sample whose bytes are read, by the kind of its row. *)
LEMMA KindRead ==
  ASSUME Record(dive), NEW i \in 1 .. Len(dive.written), NEW e, e = dive.written[i],
         offset = e.start
  PROVE  /\ Known /\ offset < n /\ Past <= n /\ ~(Info.kind = "misc" /\ MiscCut)
         /\ Info.kind = "depth" => e.kind = "depth" \/ e.kind = "absdepth"
         /\ Info.kind = "time" => e.kind = "time"
         /\ Info.kind = "temperature" => e.kind = "temperature" \/ e.kind = "abstemperature"
         /\ Info.kind = "pressure" => e.kind = "pressure" \/ e.kind = "abspressure"
         /\ Info.kind = "alarms" => e.kind = "gas" \/ e.kind = "other"
         /\ Info.kind = "apnea" => e.kind = "apnea"
         /\ Info.kind \in {"rbt", "heartrate", "bearing"} => e.kind = "other"
         /\ Info.kind = "misc" => e.kind = "mix" \/ e.kind = "misc"
<1>1. Record(dive) /\ i \in 1 .. Len(dive.written) /\ e = dive.written[i] /\ offset = e.start
  OBVIOUS
<1>2. /\ offset \in Nat /\ n \in Nat /\ e.len \in Nat /\ e.len >= 1 /\ offset + e.len <= n
      /\ Says(dive, e)
  BY AtEntry
<1>3. e.kind \in Kinds
  BY EntryTypes
<1>4. PICK x \in Nat, m \in Nat, q \in Nat : x = offset /\ m = n /\ q = e.len
  BY ONLY <1>2
<1>5. x + q <= m /\ q >= 1
  BY ONLY <1>2, <1>4
<1> DEFINE K == /\ Known /\ Past <= n /\ ~(Info.kind = "misc" /\ MiscCut)
                /\ Info.kind = "depth" => e.kind = "depth" \/ e.kind = "absdepth"
                /\ Info.kind = "time" => e.kind = "time"
                /\ Info.kind = "temperature" => e.kind = "temperature" \/ e.kind = "abstemperature"
                /\ Info.kind = "pressure" => e.kind = "pressure" \/ e.kind = "abspressure"
                /\ Info.kind = "alarms" => e.kind = "gas" \/ e.kind = "other"
                /\ Info.kind = "apnea" => e.kind = "apnea"
                /\ Info.kind \in {"rbt", "heartrate", "bearing"} => e.kind = "other"
                /\ Info.kind = "misc" => e.kind = "mix" \/ e.kind = "misc"
<1>6. Past = offset + e.len => Past <= n
  BY ONLY <1>2
<1>7. ASSUME e.kind = "depth" PROVE K
  <2>1. Known /\ Info.kind = "depth" /\ Past = offset + e.len
    BY ONLY ReadsShort, <1>1, <1>7
  <2>2. QED
    BY ONLY <1>6, <1>7, <2>1
<1>8. ASSUME e.kind = "temperature" PROVE K
  <2>1. Known /\ Info.kind = "temperature" /\ Past = offset + e.len
    BY ONLY ReadsShort, <1>1, <1>8
  <2>2. QED
    BY ONLY <1>6, <1>8, <2>1
<1>9. ASSUME e.kind = "pressure" PROVE K
  <2>1. Known /\ Info.kind = "pressure" /\ Past = offset + e.len
    BY ONLY ReadsShort, <1>1, <1>9
  <2>2. QED
    BY ONLY <1>6, <1>9, <2>1
<1>10. ASSUME e.kind = "time" PROVE K
  <2>1. Known /\ Info.kind = "time" /\ Past = offset + e.len
    BY ONLY ReadsShort, <1>1, <1>10
  <2>2. QED
    BY ONLY <1>6, <1>10, <2>1
<1>11. ASSUME e.kind = "absdepth" PROVE K
  <2>1. Known /\ Info.kind = "depth" /\ Past = offset + e.len
    BY ONLY ReadsLong, <1>1, <1>11
  <2>2. QED
    BY ONLY <1>6, <1>11, <2>1
<1>12. ASSUME e.kind = "abstemperature" PROVE K
  <2>1. Known /\ Info.kind = "temperature" /\ Past = offset + e.len
    BY ONLY ReadsLong, <1>1, <1>12
  <2>2. QED
    BY ONLY <1>6, <1>12, <2>1
<1>13. ASSUME e.kind = "abspressure" PROVE K
  <2>1. Known /\ Info.kind = "pressure" /\ Past = offset + e.len
    BY ONLY ReadsMix, <1>1, <1>13
  <2>2. QED
    BY ONLY <1>6, <1>13, <2>1
<1>14. ASSUME e.kind = "gas" PROVE K
  <2>1. Known /\ Info.kind = "alarms" /\ Past = offset + e.len
    BY ONLY ReadsMix, <1>1, <1>14
  <2>2. QED
    BY ONLY <1>6, <1>14, <2>1
<1>15. ASSUME e.kind = "apnea" PROVE K
  <2>1. Known /\ Info.kind = "apnea" /\ Past = offset + 1 /\ e.len = 9
    BY ONLY ReadsLong, <1>1, <1>15
  <2>2. Past <= n
    BY ONLY <1>2, <2>1
  <2>3. QED
    BY ONLY <1>15, <2>1, <2>2
<1>16. ASSUME e.kind \in {"mix", "misc"} PROVE K
  <2>1. Known /\ Info.kind = "misc" /\ value = e.len - 1 /\ Past = offset + 2
    BY ONLY ReadsLong, <1>1, <1>16
  <2>2. e.len >= 2
    BY ONLY <1>2, <1>16, PTL DEF Says
  <2>3. q >= 2 /\ value = q - 1 /\ Past = x + 2
    BY ONLY <1>4, <2>1, <2>2
  <2>4. Past <= m /\ ~(value < 1) /\ ~(Past + value - 1 > m)
    BY ONLY <1>5, <2>3, x \in Nat, m \in Nat, q \in Nat
  <2>5. Past <= n /\ ~MiscCut
    BY ONLY <1>4, <2>4 DEF MiscCut
  <2>6. QED
    BY ONLY <1>16, <2>1, <2>5
<1>17. ASSUME e.kind = "other" PROVE K
  <2>1. /\ Known /\ Past = offset + e.len
        /\ \/ Info.kind \in {"rbt", "heartrate", "bearing"}
           \/ Info.kind = "alarms" /\ (Info.index = 0 \/ (Info.index = 2 /\ ~dive.trimix))
    BY ONLY ReadsOther, <1>1, <1>17
  <2>2. QED
    BY ONLY <1>6, <1>17, <2>1
<1> HIDE DEF K
<1>18. K
  BY ONLY <1>3, <1>7, <1>8, <1>9, <1>10, <1>11, <1>12, <1>13, <1>14, <1>15, <1>16, <1>17 DEF Kinds
<1>19. offset < n
  BY ONLY <1>2
<1>20. QED
  BY ONLY <1>18, <1>19 DEF K

AtSample(i, e) ==
  Record(dive) /\ i \in 1 .. Len(dive.written) /\ e = dive.written[i] /\ offset = e.start

LEMMA Looping ==
  ASSUME NEW kind, Turn(kind), outcome' = outcome
  PROVE  outcome = "reading" /\ outcome' = "reading" /\ dive' = dive /\ Info.kind = kind
BY DEF Turn

LEMMA TakesDepth ==
  ASSUME NEW i, NEW e, AtSample(i, e), DepthSample
  PROVE  Takes(e)
<1>1. Record(dive) /\ i \in 1 .. Len(dive.written) /\ e = dive.written[i] /\ offset = e.start
  BY DEF AtSample
<1>2. /\ Turn("depth") /\ offset' = Past /\ Complete(1)
      /\ temperature' = temperature /\ pressure' = pressure /\ outcome' = outcome
      /\ active_gasmix' = active_gasmix /\ mixes' = mixes
      /\ Info.absolute => /\ depth' = Absolute(value)
                          /\ calibration' = IF depth.have THEN calibration ELSE value
      /\ ~Info.absolute => depth' = Plus(depth, svalue) /\ calibration' = calibration
  BY DEF DepthSample, gasVars
<1>3. outcome = "reading" /\ outcome' = "reading" /\ dive' = dive /\ Info.kind = "depth"
  BY ONLY <1>2, Looping
<1>4. e.kind = "depth" \/ e.kind = "absdepth"
  BY ONLY <1>1, <1>3, KindRead
<1>5. CASE e.kind = "depth"
  <2>1. ~Info.absolute /\ svalue = e.v /\ Past = offset + e.len
    BY ONLY <1>1, <1>5, ReadsShort
  <2>2. QED
    BY ONLY <1>1, <1>2, <1>3, <1>5, <2>1 DEF Takes
<1>6. CASE e.kind = "absdepth"
  <2>1. Info.absolute /\ value = e.v /\ Past = offset + e.len
    BY ONLY <1>1, <1>6, ReadsLong
  <2>2. QED
    BY ONLY <1>1, <1>2, <1>3, <1>6, <2>1 DEF Takes
<1>7. QED
  BY ONLY <1>4, <1>5, <1>6

LEMMA TakesTime ==
  ASSUME NEW i, NEW e, AtSample(i, e), TimeSample
  PROVE  Takes(e)
<1>1. Record(dive) /\ i \in 1 .. Len(dive.written) /\ e = dive.written[i] /\ offset = e.start
  BY DEF AtSample
<1>2. /\ Turn("time") /\ offset' = Past /\ Complete(value) /\ outcome' = outcome
      /\ depth' = depth /\ calibration' = calibration
      /\ temperature' = temperature /\ pressure' = pressure
      /\ active_gasmix' = active_gasmix /\ mixes' = mixes
  BY DEF TimeSample, valueVars, gasVars
<1>3. outcome = "reading" /\ outcome' = "reading" /\ dive' = dive /\ Info.kind = "time"
  BY ONLY <1>2, Looping
<1>4. e.kind = "time"
  BY ONLY <1>1, <1>3, KindRead
<1>5. value = e.v /\ Past = offset + e.len
  BY ONLY <1>1, <1>4, ReadsShort
<1>6. Complete(e.v)
  BY ONLY <1>2, <1>5
<1>7. QED
  BY ONLY <1>1, <1>2, <1>3, <1>4, <1>5, <1>6 DEF Takes

LEMMA TakesTemperature ==
  ASSUME NEW i, NEW e, AtSample(i, e), TemperatureSample
  PROVE  Takes(e)
<1>1. Record(dive) /\ i \in 1 .. Len(dive.written) /\ e = dive.written[i] /\ offset = e.start
  BY DEF AtSample
<1>2. /\ Turn("temperature") /\ offset' = Past /\ outcome' = outcome /\ UNCHANGED madeVars
      /\ depth' = depth /\ calibration' = calibration /\ pressure' = pressure
      /\ active_gasmix' = active_gasmix /\ mixes' = mixes
      /\ Info.absolute => temperature' = Absolute(svalue)
      /\ ~Info.absolute => temperature' = Plus(temperature, svalue)
  BY DEF TemperatureSample, gasVars
<1>3. outcome = "reading" /\ outcome' = "reading" /\ dive' = dive /\ Info.kind = "temperature"
  BY ONLY <1>2, Looping
<1>4. e.kind = "temperature" \/ e.kind = "abstemperature"
  BY ONLY <1>1, <1>3, KindRead
<1>5. CASE e.kind = "temperature"
  <2>1. ~Info.absolute /\ svalue = e.v /\ Past = offset + e.len
    BY ONLY <1>1, <1>5, ReadsShort
  <2>2. QED
    BY ONLY <1>1, <1>2, <1>3, <1>5, <2>1 DEF Takes
<1>6. CASE e.kind = "abstemperature"
  <2>1. Info.absolute /\ svalue = e.v /\ Past = offset + e.len
    BY ONLY <1>1, <1>6, ReadsLong
  <2>2. QED
    BY ONLY <1>1, <1>2, <1>3, <1>6, <2>1 DEF Takes
<1>7. QED
  BY ONLY <1>4, <1>5, <1>6

LEMMA TakesPressure ==
  ASSUME NEW i, NEW e, AtSample(i, e), PressureSample
  PROVE  Takes(e)
<1>1. Record(dive) /\ i \in 1 .. Len(dive.written) /\ e = dive.written[i] /\ offset = e.start
  BY DEF AtSample
<1>2. /\ Turn("pressure") /\ offset' = Past /\ outcome' = outcome /\ UNCHANGED madeVars
      /\ depth' = depth /\ calibration' = calibration /\ temperature' = temperature
      /\ mixes' = mixes
      /\ ~Info.absolute => pressure' = Plus(pressure, svalue) /\ active_gasmix' = active_gasmix
      /\ Info.absolute /\ dive.trimix =>
           pressure' = Absolute(value % 4096) /\ active_gasmix' = value \div 4096
      /\ Info.absolute /\ ~dive.trimix =>
           pressure' = Absolute(value) /\ active_gasmix' = Info.index
  BY DEF PressureSample
<1>3. outcome = "reading" /\ outcome' = "reading" /\ dive' = dive /\ Info.kind = "pressure"
  BY ONLY <1>2, Looping
<1>4. e.kind = "pressure" \/ e.kind = "abspressure"
  BY ONLY <1>1, <1>3, KindRead
<1>5. CASE e.kind = "pressure"
  <2>1. ~Info.absolute /\ svalue = e.v /\ Past = offset + e.len
    BY ONLY <1>1, <1>5, ReadsShort
  <2>2. QED
    BY ONLY <1>1, <1>2, <1>3, <1>5, <2>1 DEF Takes
<1>6. CASE e.kind = "abspressure"
  <2>1. /\ Info.absolute /\ Past = offset + e.len
        /\ dive.trimix => value % 4096 = e.v /\ value \div 4096 = e.tank
        /\ ~dive.trimix => value = e.v /\ Info.index = e.tank
    BY ONLY <1>1, <1>6, ReadsMix
  <2>2. pressure' = Absolute(e.v) /\ active_gasmix' = e.tank
    <3>1. CASE dive.trimix
      <4>1. pressure' = Absolute(value % 4096) /\ active_gasmix' = value \div 4096
        BY ONLY <1>2, <2>1, <3>1
      <4>2. value % 4096 = e.v /\ value \div 4096 = e.tank
        BY ONLY <2>1, <3>1
      <4>3. QED
        BY ONLY <4>1, <4>2
    <3>2. CASE ~dive.trimix
      <4>1. pressure' = Absolute(value) /\ active_gasmix' = Info.index
        BY ONLY <1>2, <2>1, <3>2
      <4>2. QED
        BY ONLY <2>1, <3>2, <4>1
    <3>3. QED
      BY ONLY <3>1, <3>2
  <2>3. offset' = e.start + e.len
    BY ONLY <1>1, <1>2, <2>1
  <2>4. /\ mixes' = mixes /\ depth' = depth /\ calibration' = calibration
        /\ temperature' = temperature /\ UNCHANGED madeVars
    BY ONLY <1>2
  <2>5. QED
    BY ONLY <1>3, <1>6, <2>2, <2>3, <2>4 DEF Takes
<1>7. QED
  BY ONLY <1>4, <1>5, <1>6

LEMMA TakesAlarm ==
  ASSUME NEW i, NEW e, AtSample(i, e), AlarmSample
  PROVE  Takes(e)
<1>1. Record(dive) /\ i \in 1 .. Len(dive.written) /\ e = dive.written[i] /\ offset = e.start
  BY DEF AtSample
<1>2. /\ Turn("alarms") /\ offset' = Past /\ outcome' = outcome /\ UNCHANGED madeVars
      /\ depth' = depth /\ calibration' = calibration /\ temperature' = temperature
      /\ pressure' = pressure /\ mixes' = mixes
  BY DEF AlarmSample, valueVars
<1>3. /\ Info.index = 1 => active_gasmix' = (value \div 32) % 4
      /\ Info.index = 2 /\ dive.trimix => active_gasmix' = value \div 16
      /\ Info.index # 1 /\ ~(Info.index = 2 /\ dive.trimix) => active_gasmix' = active_gasmix
  <2>1. active_gasmix' = CASE Info.index = 1 -> (value \div 32) % 4
                           [] Info.index = 2 /\ dive.trimix -> value \div 16
                           [] OTHER -> active_gasmix
    BY DEF AlarmSample
  <2>2. PICK a, b : a = (value \div 32) % 4 /\ b = value \div 16
    OBVIOUS
  <2>3. active_gasmix' = CASE Info.index = 1 -> a
                           [] Info.index = 2 /\ dive.trimix -> b
                           [] OTHER -> active_gasmix
    BY ONLY <2>1, <2>2, Zenon
  <2>4. /\ Info.index = 1 => active_gasmix' = a
        /\ Info.index = 2 /\ dive.trimix => active_gasmix' = b
        /\ Info.index # 1 /\ ~(Info.index = 2 /\ dive.trimix) => active_gasmix' = active_gasmix
    BY ONLY <2>3
  <2>5. QED
    BY ONLY <2>2, <2>4
<1>4. outcome = "reading" /\ outcome' = "reading" /\ dive' = dive /\ Info.kind = "alarms"
  BY ONLY <1>2, Looping
<1>5. e.kind = "gas" \/ e.kind = "other"
  BY ONLY <1>1, <1>4, KindRead
<1>6. CASE e.kind = "gas"
  <2>1. /\ Past = offset + e.len
        /\ \/ Info.index = 1 /\ e.v = (value \div 32) % 4
           \/ Info.index = 2 /\ dive.trimix /\ e.v = value \div 16
    BY ONLY <1>1, <1>6, ReadsMix
  <2>2. active_gasmix' = e.v
    <3>1. PICK a, b : a = (value \div 32) % 4 /\ b = value \div 16
      OBVIOUS
    <3>2. QED
      BY ONLY <1>3, <2>1, <3>1
  <2>3. offset' = e.start + e.len
    BY ONLY <1>1, <1>2, <2>1
  <2>4. QED
    BY ONLY <1>2, <1>4, <1>6, <2>2, <2>3 DEF Takes
<1>7. CASE e.kind = "other"
  <2>1. /\ Past = offset + e.len
        /\ \/ Info.kind \in {"rbt", "heartrate", "bearing"}
           \/ Info.kind = "alarms" /\ (Info.index = 0 \/ (Info.index = 2 /\ ~dive.trimix))
    BY ONLY <1>1, <1>7, ReadsOther
  <2>2. Info.index = 0 \/ (Info.index = 2 /\ ~dive.trimix)
    BY ONLY <1>4, <2>1
  <2>3. Info.index # 1 /\ ~(Info.index = 2 /\ dive.trimix)
    BY ONLY <2>2
  <2>4. active_gasmix' = active_gasmix
    BY ONLY <1>3, <2>3
  <2>5. offset' = e.start + e.len
    BY ONLY <1>1, <1>2, <2>1
  <2>6. QED
    BY ONLY <1>2, <1>4, <1>7, <2>4, <2>5 DEF Takes
<1>8. QED
  BY ONLY <1>5, <1>6, <1>7

LEMMA TakesOther ==
  ASSUME NEW i, NEW e, AtSample(i, e), OtherSample
  PROVE  Takes(e)
<1>1. Record(dive) /\ i \in 1 .. Len(dive.written) /\ e = dive.written[i] /\ offset = e.start
  BY DEF AtSample
<1>2. PICK kind \in {"rbt", "heartrate", "bearing"} :
        /\ Turn(kind) /\ offset' = Past /\ outcome' = outcome /\ UNCHANGED madeVars
        /\ depth' = depth /\ calibration' = calibration
        /\ temperature' = temperature /\ pressure' = pressure
        /\ active_gasmix' = active_gasmix /\ mixes' = mixes
  BY DEF OtherSample, valueVars, gasVars
<1>3. outcome = "reading" /\ outcome' = "reading" /\ dive' = dive /\ Info.kind = kind
  BY ONLY <1>2, Looping
<1>4. e.kind = "other"
  BY ONLY <1>1, <1>3, KindRead, kind \in {"rbt", "heartrate", "bearing"}
<1>5. Past = offset + e.len
  BY ONLY <1>1, <1>4, ReadsOther
<1>6. QED
  BY ONLY <1>1, <1>2, <1>3, <1>4, <1>5 DEF Takes

LEMMA TakesApnea ==
  ASSUME NEW i, NEW e, AtSample(i, e), ApneaSample
  PROVE  Takes(e)
<1>1. Record(dive) /\ i \in 1 .. Len(dive.written) /\ e = dive.written[i] /\ offset = e.start
  BY DEF AtSample
<1>2. /\ Turn("apnea") /\ offset' = Past + 8 /\ outcome' = outcome /\ UNCHANGED madeVars
      /\ depth' = depth /\ calibration' = calibration
      /\ temperature' = temperature /\ pressure' = pressure
      /\ active_gasmix' = active_gasmix /\ mixes' = mixes
  BY DEF ApneaSample, valueVars, gasVars
<1>3. outcome = "reading" /\ outcome' = "reading" /\ dive' = dive /\ Info.kind = "apnea"
  BY ONLY <1>2, Looping
<1>4. e.kind = "apnea"
  BY ONLY <1>1, <1>3, KindRead
<1>5. Past = offset + 1 /\ e.len = 9 /\ offset \in Nat
  BY ONLY <1>1, <1>4, ReadsLong, AtEntry
<1>6. offset' = e.start + e.len
  <2>1. (offset + 1) + 8 = offset + 9
    BY ONLY <1>5
  <2>2. QED
    BY ONLY <1>1, <1>2, <1>5, <2>1
<1>7. QED
  BY ONLY <1>2, <1>3, <1>4, <1>6 DEF Takes

LEMMA TakesMisc ==
  ASSUME TypeInv, NEW i, NEW e, AtSample(i, e), MiscSample
  PROVE  Takes(e)
<1>1. Record(dive) /\ i \in 1 .. Len(dive.written) /\ e = dive.written[i] /\ offset = e.start
  BY DEF AtSample
<1>2. /\ Turn("misc") /\ ~MiscCut /\ offset' = Past + value - 1 /\ outcome' = outcome
      /\ mixes' = mixes \o MiscMix /\ UNCHANGED madeVars
      /\ depth' = depth /\ calibration' = calibration
      /\ temperature' = temperature /\ pressure' = pressure /\ active_gasmix' = active_gasmix
  BY DEF MiscSample, valueVars
<1>3. outcome = "reading" /\ outcome' = "reading" /\ dive' = dive /\ Info.kind = "misc"
  BY ONLY <1>2, Looping
<1>4. e.kind = "mix" \/ e.kind = "misc"
  BY ONLY <1>1, <1>3, KindRead
<1>5. value = e.len - 1 /\ Past = offset + 2 /\ offset \in Nat /\ e.len \in Nat /\ e.len >= 1
  BY ONLY <1>1, <1>4, ReadsLong, AtEntry
<1>6. offset' = e.start + e.len
  <2>1. (offset + 2) + (e.len - 1) - 1 = offset + e.len
    BY ONLY <1>5
  <2>2. QED
    BY ONLY <1>1, <1>2, <1>5, <2>1
<1>7. MiscMix = IF e.kind = "mix" /\ Position(mixes, e.v) = {} THEN <<e.mix>> ELSE <<>>
  BY ONLY <1>1, <1>4, ReadsMisc
<1>8. Types /\ mixes \in Seq(Mix)
  BY DEF TypeInv, Types
<1>9. CASE e.kind = "mix" /\ Position(mixes, e.v) = {}
  <2>1. MiscMix = <<e.mix>>
    BY ONLY <1>7, <1>9
  <2>2. dive.body \in Seq(Byte) /\ Past \in Nat /\ value \in Nat
    BY ONLY <1>2, <1>8, TurnFacts
  <2>3. e.mix \in Mix
    <3>1. PICK m \in Mix : MiscMix = <<m>>
      <4>1. MiscMix = <<>> \/ \E m \in Mix : MiscMix = <<m>> /\ m.id \notin Ids(mixes)
        BY ONLY <1>2, <2>2, MiscMixType
      <4>2. <<e.mix>> # <<>>
        OBVIOUS
      <4>3. QED
        BY ONLY <2>1, <4>1, <4>2
    <3>2. <<m>>[1] = m /\ <<e.mix>>[1] = e.mix
      OBVIOUS
    <3>3. m = e.mix
      BY ONLY <2>1, <3>1, <3>2
    <3>4. QED
      BY ONLY <3>3, m \in Mix
  <2>4. e.v = e.mix.id
    <3>1. Says(dive, e)
      BY ONLY <1>1, AtEntry
    <3>2. QED
      BY ONLY <1>9, <3>1, PTL DEF Says
  <2>5. mixes' = mixes \o <<e.mix>>
    BY ONLY <1>2, <2>1
  <2>6. QED
    BY ONLY <1>2, <1>3, <1>4, <1>6, <1>9, <2>3, <2>4, <2>5 DEF Takes
<1>10. CASE ~(e.kind = "mix" /\ Position(mixes, e.v) = {})
  <2>1. MiscMix = <<>>
    BY ONLY <1>7, <1>10
  <2>2. mixes' = mixes
    BY ONLY <1>2, <1>8, <2>1, EmptySeq, ConcatEmptySeq
  <2>3. QED
    BY ONLY <1>2, <1>3, <1>4, <1>6, <1>10, <2>2 DEF Takes
<1>11. QED
  BY ONLY <1>9, <1>10

(* The step of the loop at a sample: it is taken as it is, or it is the    *)
(* MISC sample at the end that has no subtype.                             *)
LEMMA SampleTaken ==
  ASSUME TypeInv, NEW i, NEW e, AtSample(i, e), outcome = "reading", Parse
  PROVE  Takes(e) \/ (SubtypeMissing /\ i = Len(dive.written) /\ e.kind = "misc" /\ e.v = 1)
<1>1. Record(dive) /\ i \in 1 .. Len(dive.written) /\ e = dive.written[i] /\ offset = e.start
  BY DEF AtSample
<1>2. ~HeaderShort /\ ~ReadHeader
  BY outcome = "reading" DEF HeaderShort, ReadHeader
<1>3. /\ Known /\ offset < n /\ Past <= n /\ ~(Info.kind = "misc" /\ MiscCut)
      /\ Info.kind = "misc" => e.kind = "mix" \/ e.kind = "misc"
  BY ONLY <1>1, KindRead
<1>4. ~InvalidType
  BY ONLY <1>3 DEF InvalidType
<1>5. /\ n \in Nat /\ offset \in Nat /\ e.len \in Nat /\ offset + e.len <= n /\ Says(dive, e)
      /\ e.len >= 1
  BY ONLY <1>1, AtEntry
<1>6. PICK p \in Nat : p = Past
  <2>1. dive \in Dives
    BY DEF TypeInv, Types
  <2>2. dive.body \in Seq(Byte)
    BY ONLY <2>1, DiveAssumption
  <2>3. Past \in Nat
    BY ONLY <1>3, <1>5, <2>2, TurnTypes
  <2>4. QED
    BY ONLY <2>3
<1>7. ~Finish
  <2>1. ~(offset >= n) /\ ~(Past > n)
    BY ONLY <1>3, <1>5, <1>6
  <2>2. QED
    BY ONLY <1>3, <2>1 DEF Finish
<1>8. ASSUME SubtypeMissing
      PROVE  i = Len(dive.written) /\ e.kind = "misc" /\ e.v = 1
  <2>1. Info.kind = "misc" /\ Past >= n
    BY ONLY <1>8 DEF SubtypeMissing, Turn
  <2>2. e.kind \in {"mix", "misc"}
    BY ONLY <1>3, <2>1
  <2>3. value = e.len - 1 /\ Past = offset + 2 /\ value = dive.body[e.start + 2]
    BY ONLY <1>1, <2>2, ReadsLong
  <2>4. e.len >= 2
    BY ONLY <1>5, <2>2, PTL DEF Says
  <2>5. e.len = 2 /\ offset + e.len = n
    BY ONLY <1>5, <2>1, <2>3, <2>4
  <2>6. dive.body[e.start + 2] = 1
    BY ONLY <2>3, <2>5
  <2>7. e.kind # "mix"
    <3>1. SUFFICES ASSUME e.kind = "mix" PROVE FALSE
      OBVIOUS
    <3>2. IsMix(dive, e)
      BY ONLY <1>5, <2>2, <3>1, PTL DEF Says
    <3>3. dive.body[e.start + 2] >= 16
      BY ONLY <3>2 DEF IsMix
    <3>4. QED
      BY ONLY <2>6, <3>3
  <2>8. e.kind = "misc" /\ e.v = 1
    <3>1. e.kind = "misc"
      BY ONLY <2>2, <2>7
    <3>2. e.v = dive.body[e.start + 2]
      BY ONLY <1>5, <3>1, PTL DEF Says
    <3>3. QED
      BY ONLY <2>6, <3>1, <3>2
  <2>9. i = Len(dive.written)
    <3>1. SUFFICES ASSUME i # Len(dive.written) PROVE FALSE
      OBVIOUS
    <3>2. Len(dive.written) \in Nat
      BY ONLY <1>1, Sequence
    <3>3. PICK j \in 1 .. Len(dive.written) : j = i + 1 /\ j - 1 = i
      <4>1. i + 1 \in 1 .. Len(dive.written) /\ (i + 1) - 1 = i
        BY ONLY <1>1, <3>1, <3>2
      <4>2. QED
        BY ONLY <4>1
    <3>4. EndOf(dive, i) = e.start + e.len
      BY ONLY <1>1, Place1
    <3>5. PICK f : f = dive.written[j]
      OBVIOUS
    <3>6. /\ f.start = EndOf(dive, i) /\ f.start \in Nat /\ f.len \in Nat
          /\ f.start + f.len <= Len(dive.body)
      BY ONLY <1>1, <3>3, <3>5, Place1
    <3>7. f.len >= 1
      BY ONLY <1>1, <3>3, <3>5, EntryTypes
    <3>8. f.start = n /\ n = Len(dive.body)
      BY ONLY <1>1, <2>5, <3>4, <3>6 DEF n
    <3>9. QED
      BY ONLY <1>5, <3>6, <3>7, <3>8
  <2>10. QED
    BY ONLY <2>8, <2>9
<1>9. \/ DepthSample \/ TimeSample \/ TemperatureSample \/ PressureSample \/ AlarmSample
      \/ OtherSample \/ ApneaSample \/ MiscSample \/ SubtypeMissing
  BY ONLY <1>2, <1>4, <1>7, Parse DEF Parse
<1>10. QED
  BY ONLY <1>8, <1>9, TypeInv, AtSample(i, e), TakesDepth, TakesTime, TakesTemperature,
          TakesPressure, TakesAlarm, TakesOther, TakesApnea, TakesMisc

(* Behind the samples: the record ends, or it is an apnea sample that goes *)
(* past the end of it.                                                     *)
LEMMA EndTaken ==
  ASSUME TypeInv, Record(dive), outcome = "reading", Parse,
         offset = EndOf(dive, Len(dive.written)) \/ offset >= Len(dive.body)
  PROVE  \/ Finish
         \/ InvalidType
         \/ ApneaSample /\ offset' >= Len(dive.body)
<1>1. offset \in Nat /\ n \in Nat /\ n = Len(dive.body) /\ dive.body \in Seq(Byte)
  <2>1. Types /\ offset \in Nat
    BY DEF TypeInv, Types
  <2>2. n \in Nat /\ n = Len(dive.body) /\ dive.body \in Seq(Byte)
    BY Sequence DEF Record, n
  <2>3. QED
    BY ONLY <2>1, <2>2
<1>2. ~HeaderShort /\ ~ReadHeader
  BY outcome = "reading" DEF HeaderShort, ReadHeader
<1>3. ASSUME NEW kind, Turn(kind)
      PROVE  \/ Info.kind = "misc" /\ MiscCut
             \/ Info.kind = "apnea" /\ Past + 8 > n
  <2>1. offset < n /\ Known /\ Past <= n
    BY ONLY <1>3 DEF Turn
  <2>2. offset = EndOf(dive, Len(dive.written))
    BY ONLY <1>1, <2>1, offset = EndOf(dive, Len(dive.written)) \/ offset >= Len(dive.body)
  <2>3. Broken(dive, offset)
    BY ONLY <2>2, Record(dive) DEF Record, Encoded
  <2>4. QED
    BY ONLY <1>1, <2>1, <2>3, Record(dive), ReadsEnd
<1>4. \A kind : Turn(kind) => Info.kind = kind
  BY DEF Turn
<1>5. ~DepthSample /\ ~TimeSample /\ ~TemperatureSample /\ ~PressureSample /\ ~AlarmSample
  BY ONLY <1>3, <1>4
    DEF DepthSample, TimeSample, TemperatureSample, PressureSample, AlarmSample
<1>6. ~OtherSample /\ ~MiscSample /\ ~SubtypeMissing
  BY ONLY <1>3, <1>4 DEF OtherSample, MiscSample, SubtypeMissing
<1>7. ASSUME ApneaSample PROVE offset' >= Len(dive.body)
  <2>1. Turn("apnea") /\ offset' = Past + 8
    BY ONLY <1>7 DEF ApneaSample
  <2>2. Past + 8 > n
    BY ONLY <1>3, <1>4, <2>1
  <2>3. Past \in Nat
    <3>1. Types
      BY DEF TypeInv
    <3>2. QED
      BY ONLY <2>1, <3>1, TurnFacts
  <2>4. QED
    BY ONLY <1>1, <2>1, <2>2, <2>3
<1>8. QED
  BY ONLY <1>2, <1>5, <1>6, <1>7, Parse DEF Parse


-----------------------------------------------------------------------------
(* The invariant: what the locals are when the first k samples are read.   *)
Place(d, k) ==
  \/ offset = EndOf(d, k)
  \/ k = Len(d.written) /\ offset >= Len(d.body)
Values(d, k) ==
  /\ depth = Track(d, k, "absdepth", "depth") /\ calibration = Level(d, k)
  /\ temperature = Track(d, k, "abstemperature", "temperature")
  /\ pressure = Track(d, k, "abspressure", "pressure")
Points(d, k) ==
  /\ time = Step(d) * Emitted(d)[k]
  /\ Len(samples) = Emitted(d)[k]
  /\ \A i \in 1 .. k : \A j \in 1 .. Emits(d, i) :
       samples[Emitted(d)[i - 1] + j] = Meant(d, i, j)
MixList(d, k) ==
  /\ active_gasmix = ActiveAt(d, k)
  /\ Ids(mixes) = DescribedAt(d, k)
  /\ \A p \in DOMAIN mixes : mixes[p] = FirstMix(d, k, mixes[p].id)
Changes(d, k) ==
  InOrder(d, k) =>
    /\ prev_gasmix = LastActive(d, k)
    /\ Len(gas_changes) = Switched(d)[k]
    /\ \A i \in Switches(d) : i <= k =>
         LET change == gas_changes[Switched(d)[i]] IN
         /\ change.time = TimeBefore(d, i)
         /\ change.mix \in DOMAIN mixes /\ mixes[change.mix].id = ActiveAt(d, i)

LEMMA ValuesStep ==
  ASSUME NEW d, d = dive, Record(d), NEW k \in Nat, k + 1 <= Len(d.written),
         NEW e, e = d.written[k + 1], Values(d, k), Takes(e)
  PROVE  Values(d, k + 1)'
<1>1. /\ depth = Track(d, k, "absdepth", "depth") /\ calibration = Level(d, k)
      /\ temperature = Track(d, k, "abstemperature", "temperature")
      /\ pressure = Track(d, k, "abspressure", "pressure")
  BY DEF Values
<1>2. /\ e.kind = "absdepth" => depth' = Absolute(e.v)
                                /\ calibration' = IF depth.have THEN calibration ELSE e.v
      /\ e.kind = "depth" => depth' = Plus(depth, e.v) /\ calibration' = calibration
      /\ e.kind \notin {"absdepth", "depth"} => depth' = depth /\ calibration' = calibration
      /\ e.kind = "abstemperature" => temperature' = Absolute(e.v)
      /\ e.kind = "temperature" => temperature' = Plus(temperature, e.v)
      /\ e.kind \notin {"abstemperature", "temperature"} => temperature' = temperature
      /\ e.kind = "abspressure" => pressure' = Absolute(e.v)
      /\ e.kind = "pressure" => pressure' = Plus(pressure, e.v)
      /\ e.kind \notin {"abspressure", "pressure"} => pressure' = pressure
  BY DEF Takes
<1>3. \A abs, delta \in Numeric : abs # delta =>
        /\ e.kind = abs => Track(d, k + 1, abs, delta) = Absolute(e.v)
        /\ e.kind = delta => Track(d, k + 1, abs, delta) = Plus(Track(d, k, abs, delta), e.v)
        /\ e.kind \notin {abs, delta} => Track(d, k + 1, abs, delta) = Track(d, k, abs, delta)
  BY TrackSteps
<1>4. depth' = Track(d, k + 1, "absdepth", "depth")
  <2>1. PICK abs \in Numeric, delta \in Numeric : abs = "absdepth" /\ delta = "depth" /\ abs # delta
    BY DEF Numeric
  <2>2. /\ e.kind = abs => Track(d, k + 1, abs, delta) = Absolute(e.v)
        /\ e.kind = delta => Track(d, k + 1, abs, delta) = Plus(Track(d, k, abs, delta), e.v)
        /\ e.kind \notin {abs, delta} => Track(d, k + 1, abs, delta) = Track(d, k, abs, delta)
    BY ONLY <1>3, <2>1
  <2>3. QED
    BY ONLY <1>1, <1>2, <2>1, <2>2
<1>5. temperature' = Track(d, k + 1, "abstemperature", "temperature")
  <2>1. PICK abs \in Numeric, delta \in Numeric :
          abs = "abstemperature" /\ delta = "temperature" /\ abs # delta
    BY DEF Numeric
  <2>2. /\ e.kind = abs => Track(d, k + 1, abs, delta) = Absolute(e.v)
        /\ e.kind = delta => Track(d, k + 1, abs, delta) = Plus(Track(d, k, abs, delta), e.v)
        /\ e.kind \notin {abs, delta} => Track(d, k + 1, abs, delta) = Track(d, k, abs, delta)
    BY ONLY <1>3, <2>1
  <2>3. QED
    BY ONLY <1>1, <1>2, <2>1, <2>2
<1>6. pressure' = Track(d, k + 1, "abspressure", "pressure")
  <2>1. PICK abs \in Numeric, delta \in Numeric :
          abs = "abspressure" /\ delta = "pressure" /\ abs # delta
    BY DEF Numeric
  <2>2. /\ e.kind = abs => Track(d, k + 1, abs, delta) = Absolute(e.v)
        /\ e.kind = delta => Track(d, k + 1, abs, delta) = Plus(Track(d, k, abs, delta), e.v)
        /\ e.kind \notin {abs, delta} => Track(d, k + 1, abs, delta) = Track(d, k, abs, delta)
    BY ONLY <1>3, <2>1
  <2>3. QED
    BY ONLY <1>1, <1>2, <2>1, <2>2
<1>7. calibration' = Level(d, k + 1)
  <2>1. /\ e.kind = "absdepth" /\ Entries(d, k, {"absdepth"}) # {} => Level(d, k + 1) = Level(d, k)
        /\ e.kind = "absdepth" /\ Entries(d, k, {"absdepth"}) = {} => Level(d, k + 1) = e.v
        /\ e.kind # "absdepth" => Level(d, k + 1) = Level(d, k)
    BY ONLY LevelSteps, k \in Nat, e = d.written[k + 1]
  <2>2. depth.have = (Entries(d, k, {"absdepth"}) # {})
    BY ONLY <1>1 DEF Track
  <2>3. CASE e.kind = "absdepth"
    <3>1. CASE Entries(d, k, {"absdepth"}) # {}
      BY ONLY <1>1, <1>2, <2>1, <2>2, <2>3, <3>1
    <3>2. CASE Entries(d, k, {"absdepth"}) = {}
      BY ONLY <1>1, <1>2, <2>1, <2>2, <2>3, <3>2
    <3>3. QED
      BY ONLY <3>1, <3>2
  <2>4. CASE e.kind # "absdepth"
    <3>1. calibration' = calibration
      BY ONLY <1>2, <2>4
    <3>2. QED
      BY ONLY <1>1, <2>1, <2>4, <3>1
  <2>5. QED
    BY ONLY <2>3, <2>4
<1>8. QED
  BY ONLY <1>4, <1>5, <1>6, <1>7 DEF Values

(* The sample completes as many points as it says. *)
LEMMA CountTaken ==
  ASSUME NEW d, d = dive, Record(d), NEW k \in Nat, k + 1 <= Len(d.written),
         NEW e, e = d.written[k + 1], Takes(e)
  PROVE  /\ Emits(d, k + 1) \in Nat
         /\ \/ /\ Complete(Emits(d, k + 1))
               /\ active_gasmix' = active_gasmix /\ mixes' = mixes
            \/ Emits(d, k + 1) = 0 /\ UNCHANGED madeVars
<1>1. k + 1 \in 1 .. Len(d.written)
  BY Sequence
<1>2. Emits(d, k + 1) \in Nat
  BY <1>1, EmitsType
<1>3. /\ e.kind \in {"depth", "absdepth"} => Emits(d, k + 1) = 1
      /\ e.kind = "time" => Emits(d, k + 1) = e.v
      /\ e.kind \notin {"depth", "absdepth", "time"} => Emits(d, k + 1) = 0
  BY EmitsIs
<1>4. /\ e.kind \in {"absdepth", "depth"} => Complete(1)
      /\ e.kind = "time" => Complete(e.v)
      /\ e.kind \notin {"absdepth", "depth", "time"} => UNCHANGED madeVars
      /\ e.kind \notin {"abspressure", "gas"} => active_gasmix' = active_gasmix
      /\ e.kind # "mix" => mixes' = mixes
  BY DEF Takes
<1>5. CASE e.kind \in {"depth", "absdepth"}
  BY ONLY <1>2, <1>3, <1>4, <1>5
<1>6. CASE e.kind = "time"
  <2>1. Complete(Emits(d, k + 1)) /\ active_gasmix' = active_gasmix /\ mixes' = mixes
    BY ONLY <1>3, <1>4, <1>6
  <2>2. QED
    BY ONLY <1>2, <2>1
<1>7. CASE e.kind \notin {"depth", "absdepth", "time"}
  <2>1. UNCHANGED madeVars /\ Emits(d, k + 1) = 0
    BY ONLY <1>3, <1>4, <1>7
  <2>2. QED
    BY ONLY <1>2, <2>1
<1>8. QED
  BY ONLY <1>5, <1>6, <1>7

LEMMA MeantIs ==
  ASSUME NEW d, NEW i, NEW j, NEW deep, NEW warm, NEW pressed,
         deep = Track(d, i, "absdepth", "depth"),
         warm = Track(d, i, "abstemperature", "temperature"),
         pressed = Track(d, i, "abspressure", "pressure")
  PROVE  Meant(d, i, j) =
           [time        |-> TimeBefore(d, i) + (j - 1) * Step(d),
            depth       |-> IF deep.have THEN deep.v - Level(d, i) ELSE 0,
            temperature |-> Shown(warm),
            pressure    |-> Shown(pressed)]
<1> DEFINE known(abs) == Entries(d, i, {abs}) # {}
           Value(abs, delta) == IF known(abs) THEN <<ValueAt(d, i, abs, delta)>> ELSE <<>>
<1>1. Meant(d, i, j) =
        [time        |-> TimeBefore(d, i) + (j - 1) * Step(d),
         depth       |-> IF known("absdepth")
                         THEN ValueAt(d, i, "absdepth", "depth") - Surface(d, i) ELSE 0,
         temperature |-> Value("abstemperature", "temperature"),
         pressure    |-> Value("abspressure", "pressure")]
  BY Zenon DEF Meant
<1>2. (IF deep.have THEN deep.v - Level(d, i) ELSE 0)
        = IF known("absdepth") THEN ValueAt(d, i, "absdepth", "depth") - Surface(d, i) ELSE 0
  <2>1. deep.have = known("absdepth") /\ deep.v = ValueAt(d, i, "absdepth", "depth")
    BY DEF Track
  <2>2. known("absdepth") => Level(d, i) = Surface(d, i)
    BY DEF Level
  <2> HIDE DEF known
  <2>3. QED
    BY ONLY <2>1, <2>2
<1>3. Shown(warm) = Value("abstemperature", "temperature")
  BY DEF Shown, Track
<1>4. Shown(pressed) = Value("abspressure", "pressure")
  BY DEF Shown, Track
<1> HIDE DEF known, Value
<1>5. QED
  BY ONLY <1>1, <1>2, <1>3, <1>4

LEMMA StepIs ==
  /\ \A d : Step(d) = 1 \/ Step(d) = 4
  /\ Interval = Step(dive)
BY DEF Step, Interval

LEMMA PointsStep ==
  ASSUME TypeInv, TypeInv', NEW d, d = dive, Record(d), NEW k \in Nat, k + 1 <= Len(d.written),
         NEW e, e = d.written[k + 1], Points(d, k), Values(d, k + 1)', Takes(e)
  PROVE  Points(d, k + 1)'
<1>1. /\ time = Step(d) * Emitted(d)[k] /\ Len(samples) = Emitted(d)[k]
      /\ \A i \in 1 .. k : \A j \in 1 .. Emits(d, i) :
           samples[Emitted(d)[i - 1] + j] = Meant(d, i, j)
  BY DEF Points
<1>2. /\ Types /\ time \in Nat /\ samples \in Seq(Point)
      /\ depth' \in Tracked /\ calibration' \in Int
      /\ temperature' \in Tracked /\ pressure' \in Tracked
  BY DEF TypeInv, Types
<1>3. PICK s \in {1, 4} : s = Step(d) /\ s = Interval
  BY ONLY StepIs, d = dive
<1>4. PICK c \in Nat : c = Emits(d, k + 1)
  BY ONLY CountTaken, d = dive, Record(d), k \in Nat, k + 1 <= Len(d.written),
          e = d.written[k + 1], Takes(e)
<1>5. \/ Complete(c)
      \/ c = 0 /\ UNCHANGED madeVars
  BY ONLY <1>4, CountTaken, d = dive, Record(d), k \in Nat, k + 1 <= Len(d.written),
          e = d.written[k + 1], Takes(e)
<1>6. PICK last \in Nat : last = Len(d.written)
  BY ONLY Record(d), Sequence
<1>7. k \in 0 .. last /\ k + 1 \in 0 .. last /\ k + 1 \in 1 .. last /\ (k + 1) - 1 = k
  BY ONLY <1>6, k \in Nat, k + 1 <= Len(d.written)
<1>8. /\ \A i \in 1 .. last : Emitted(d)[i] = Emitted(d)[i - 1] + Emits(d, i)
      /\ \A i \in 0 .. last : Emitted(d)[i] \in Nat
      /\ \A i, j \in 0 .. last : i <= j => Emitted(d)[i] <= Emitted(d)[j]
  BY ONLY <1>6, Record(d), EmittedSteps
<1>9. PICK m \in Nat : m = Emitted(d)[k]
  BY ONLY <1>7, <1>8
<1>10. Emitted(d)[k + 1] = m + c
  BY ONLY <1>4, <1>7, <1>8, <1>9
<1>11. /\ time' = time + c * Interval /\ Len(samples') = Len(samples) + c
       /\ \A p \in 1 .. m : samples'[p] = samples[p]
       /\ \A j \in 1 .. c :
            samples'[m + j] = [time        |-> time + (j - 1) * Interval,
                               depth       |-> IF depth'.have THEN depth'.v - calibration' ELSE 0,
                               temperature |-> Shown(temperature'),
                               pressure    |-> Shown(pressure')]
  <2>1. CASE Complete(c)
    <3>1. Len(samples) = m
      BY ONLY <1>1, <1>9
    <3>2. QED
      BY ONLY <1>2, <2>1, <3>1, c \in Nat, CompletePoints
  <2>2. CASE c = 0 /\ UNCHANGED madeVars
    <3>1. time' = time /\ samples' = samples
      BY ONLY <2>2 DEF madeVars
    <3>2. Len(samples) \in Nat /\ 0 * Interval = 0 /\ time + 0 = time
      BY ONLY <1>2, <1>3
    <3>3. 1 .. c = {}
      BY ONLY <2>2
    <3>4. QED
      BY ONLY <2>2, <3>1, <3>2, <3>3
  <2>3. QED
    BY ONLY <1>5, <2>1, <2>2
<1>12. time' = Step(d) * Emitted(d)[k + 1]
  <2>1. time = s * m /\ time' = time + c * s
    BY ONLY <1>1, <1>3, <1>9, <1>11
  <2>2. time' = s * (m + c)
    <3>1. CASE s = 1
      BY ONLY <2>1, <3>1, m \in Nat, c \in Nat
    <3>2. CASE s = 4
      BY ONLY <2>1, <3>2, m \in Nat, c \in Nat
    <3>3. QED
      BY ONLY <1>3, <3>1, <3>2
  <2>3. QED
    BY ONLY <1>3, <1>10, <2>2
<1>13. Len(samples') = Emitted(d)[k + 1]
  BY ONLY <1>1, <1>9, <1>10, <1>11
<1>14. ASSUME NEW i \in 1 .. k, NEW j \in 1 .. Emits(d, i)
       PROVE  samples'[Emitted(d)[i - 1] + j] = Meant(d, i, j)
  <2>1. i \in 1 .. last /\ i - 1 \in 0 .. last /\ i \in 0 .. last /\ i <= k
    BY ONLY <1>7, k \in Nat, i \in 1 .. k
  <2>2. PICK x \in Nat, y \in Nat : x = Emitted(d)[i - 1] /\ y = Emitted(d)[i]
    BY ONLY <1>8, <2>1
  <2>3. y = x + Emits(d, i) /\ y <= m
    BY ONLY <1>7, <1>8, <1>9, <2>1, <2>2
  <2>4. Emits(d, i) \in Nat
    BY ONLY <1>6, <2>1, Record(d), EmitsType
  <2>5. x + j \in 1 .. m
    BY ONLY <2>3, <2>4, x \in Nat, y \in Nat, m \in Nat, j \in 1 .. Emits(d, i)
  <2>6. samples'[x + j] = samples[x + j]
    BY ONLY <1>11, <2>5
  <2>7. QED
    BY ONLY <1>1, <2>2, <2>6, i \in 1 .. k, j \in 1 .. Emits(d, i)
<1>15. ASSUME NEW j \in 1 .. Emits(d, k + 1)
       PROVE  samples'[Emitted(d)[k] + j] = Meant(d, k + 1, j)
  <2>1. j \in 1 .. c
    BY ONLY <1>4, j \in 1 .. Emits(d, k + 1)
  <2>2. PICK deep, warm, pressed :
          deep = depth' /\ warm = temperature' /\ pressed = pressure'
    OBVIOUS
  <2>3. /\ deep = Track(d, k + 1, "absdepth", "depth") /\ calibration' = Level(d, k + 1)
        /\ warm = Track(d, k + 1, "abstemperature", "temperature")
        /\ pressed = Track(d, k + 1, "abspressure", "pressure")
    BY ONLY <2>2, Values(d, k + 1)' DEF Values
  <2>4. TimeBefore(d, k + 1) = time
    BY ONLY <1>1, <1>7 DEF TimeBefore
  <2>5. Meant(d, k + 1, j) =
          [time        |-> TimeBefore(d, k + 1) + (j - 1) * Step(d),
           depth       |-> IF deep.have THEN deep.v - Level(d, k + 1) ELSE 0,
           temperature |-> Shown(warm),
           pressure    |-> Shown(pressed)]
    BY ONLY <2>3, MeantIs
  <2>6. samples'[m + j] = [time        |-> time + (j - 1) * Interval,
                           depth       |-> IF deep.have THEN deep.v - calibration' ELSE 0,
                           temperature |-> Shown(warm),
                           pressure    |-> Shown(pressed)]
    BY ONLY <1>11, <2>1, <2>2
  <2>7. QED
    BY ONLY <1>3, <1>9, <2>3, <2>4, <2>5, <2>6
<1>16. \A i \in 1 .. k + 1 : i \in 1 .. k \/ i = k + 1
  BY ONLY k \in Nat
<1>17. \A i \in 1 .. k + 1 : \A j \in 1 .. Emits(d, i) :
         samples'[Emitted(d)[i - 1] + j] = Meant(d, i, j)
  <2>1. SUFFICES ASSUME NEW i \in 1 .. k + 1, NEW j \in 1 .. Emits(d, i)
                 PROVE  samples'[Emitted(d)[i - 1] + j] = Meant(d, i, j)
    OBVIOUS
  <2>2. CASE i \in 1 .. k
    BY ONLY <1>14, <2>1, <2>2
  <2>3. CASE i = k + 1
    BY ONLY <1>7, <1>15, <2>1, <2>3
  <2>4. QED
    BY ONLY <1>16, <2>1, <2>2, <2>3
<1>18. QED
  BY ONLY <1>12, <1>13, <1>17 DEF Points

(* The mixes. *)
LEMMA MixListStep ==
  ASSUME TypeInv, NEW d, d = dive, Record(d), NEW k \in Nat, k + 1 <= Len(d.written),
         NEW e, e = d.written[k + 1], MixList(d, k), Takes(e)
  PROVE  /\ MixList(d, k + 1)'
         /\ \A p \in DOMAIN mixes : p \in DOMAIN mixes' /\ mixes'[p] = mixes[p]
<1>1. /\ active_gasmix = ActiveAt(d, k) /\ Ids(mixes) = DescribedAt(d, k)
      /\ \A p \in DOMAIN mixes : mixes[p] = FirstMix(d, k, mixes[p].id)
  BY DEF MixList
<1>2. /\ e.kind = "abspressure" => active_gasmix' = e.tank
      /\ e.kind = "gas" => active_gasmix' = e.v
      /\ e.kind \notin {"abspressure", "gas"} => active_gasmix' = active_gasmix
      /\ e.kind = "mix" /\ Position(mixes, e.v) = {} =>
           mixes' = mixes \o <<e.mix>> /\ e.mix \in Mix /\ e.mix.id = e.v
      /\ ~(e.kind = "mix" /\ Position(mixes, e.v) = {}) => mixes' = mixes
  BY DEF Takes
<1>3. active_gasmix' = ActiveAt(d, k + 1)
  <2>1. /\ e.kind = "gas" => ActiveAt(d, k + 1) = e.v
        /\ e.kind = "abspressure" => ActiveAt(d, k + 1) = e.tank
        /\ e.kind \notin {"gas", "abspressure"} => ActiveAt(d, k + 1) = ActiveAt(d, k)
    BY ONLY ActiveSteps, Record(d), k \in Nat, k + 1 <= Len(d.written), e = d.written[k + 1]
  <2>2. QED
    BY ONLY <1>1, <1>2, <2>1
<1>4. /\ e.kind = "mix" => DescribedAt(d, k + 1) = DescribedAt(d, k) \cup {e.v}
      /\ e.kind # "mix" => DescribedAt(d, k + 1) = DescribedAt(d, k)
  BY ONLY DescribedSteps, k \in Nat, e = d.written[k + 1]
<1>5. /\ \A id \in DescribedAt(d, k) : FirstMix(d, k + 1, id) = FirstMix(d, k, id)
      /\ e.kind = "mix" /\ e.v \notin DescribedAt(d, k) => FirstMix(d, k + 1, e.v) = e.mix
  BY ONLY FirstMixSteps, k \in Nat, e = d.written[k + 1]
<1>6. Position(mixes, e.v) = {} <=> e.v \notin Ids(mixes)
  BY DEF Position, Ids
<1>7. \A p \in DOMAIN mixes : mixes[p].id \in Ids(mixes)
  BY DEF Ids
<1>8. \A p \in DOMAIN mixes : mixes[p] = FirstMix(d, k + 1, mixes[p].id)
  BY ONLY <1>1, <1>5, <1>7
<1>9. mixes \in Seq(Mix) /\ Unique(mixes)
  BY DEF TypeInv, Types, Named
<1>10. CASE e.kind = "mix" /\ Position(mixes, e.v) = {}
  <2>1. PICK m \in Mix : m = e.mix /\ m.id = e.v /\ mixes' = mixes \o <<m>>
    BY ONLY <1>2, <1>10
  <2>2. m.id \notin Ids(mixes)
    BY ONLY <1>6, <1>10, <2>1
  <2>3. PICK ms : ms = mixes \o <<m>>
    OBVIOUS
  <2>4. /\ Ids(ms) = Ids(mixes) \cup {m.id} /\ DOMAIN ms = DOMAIN mixes \cup {Len(mixes) + 1}
        /\ \A p \in DOMAIN mixes : ms[p] = mixes[p]
        /\ ms[Len(mixes) + 1] = m
    BY ONLY <1>9, <2>2, <2>3, AddMix, m \in Mix
  <2>5. mixes' = ms
    BY ONLY <2>1, <2>3
  <2>6. Ids(ms) = DescribedAt(d, k + 1)
    BY ONLY <1>1, <1>4, <1>10, <2>1, <2>4
  <2>7. m = FirstMix(d, k + 1, m.id)
    BY ONLY <1>1, <1>5, <1>10, <2>1, <2>2
  <2>8. \A p \in DOMAIN ms : ms[p] = FirstMix(d, k + 1, ms[p].id)
    BY ONLY <1>8, <2>4, <2>7
  <2>9. MixList(d, k + 1)'
    BY ONLY <1>3, <2>5, <2>6, <2>8 DEF MixList, Ids
  <2>10. QED
    BY ONLY <2>4, <2>5, <2>9
<1>11. CASE ~(e.kind = "mix" /\ Position(mixes, e.v) = {})
  <2>1. mixes' = mixes
    BY ONLY <1>2, <1>11
  <2>2. Ids(mixes) = DescribedAt(d, k + 1)
    BY ONLY <1>1, <1>4, <1>6, <1>11
  <2>3. MixList(d, k + 1)'
    BY ONLY <1>3, <1>8, <2>1, <2>2 DEF MixList, Ids
  <2>4. QED
    BY ONLY <2>1, <2>3
<1>12. QED
  BY ONLY <1>10, <1>11

(* The changes. *)
LEMMA ChangesStep ==
  ASSUME TypeInv, NEW d, d = dive, Record(d), NEW k \in Nat, k + 1 <= Len(d.written),
         NEW e, e = d.written[k + 1], Points(d, k), MixList(d, k + 1)', Changes(d, k), Takes(e),
         \A p \in DOMAIN mixes : p \in DOMAIN mixes' /\ mixes'[p] = mixes[p]
  PROVE  Changes(d, k + 1)'
<1>1. SUFFICES ASSUME InOrder(d, k + 1)
               PROVE  /\ prev_gasmix' = LastActive(d, k + 1)
                      /\ Len(gas_changes') = Switched(d)[k + 1]
                      /\ \A i \in Switches(d) : i <= k + 1 =>
                           LET change == gas_changes'[Switched(d)[i]] IN
                           /\ change.time = TimeBefore(d, i)
                           /\ change.mix \in DOMAIN mixes' /\ mixes'[change.mix].id = ActiveAt(d, i)
  BY DEF Changes
<1>2. PICK last \in Nat : last = Len(d.written) /\ DOMAIN d.written = 1 .. last
  BY ONLY Record(d), Sequence
<1>3. k \in 0 .. last /\ k + 1 \in 0 .. last /\ k + 1 \in 1 .. last /\ (k + 1) - 1 = k
  BY ONLY <1>2, k \in Nat, k + 1 <= Len(d.written)
<1>4. \A i \in Emitting(d) : i \in 1 .. last /\ Emits(d, i) > 0
  BY ONLY <1>2 DEF Emitting
<1>5. \A i \in Switches(d) : i \in 1 .. last
  BY ONLY <1>4 DEF Switches
<1>6. InOrder(d, k)
  <2>1. ASSUME NEW i \in Emitting(d), i <= k PROVE ActiveAt(d, i) \in DescribedAt(d, i)
    <3>1. i <= k + 1
      BY ONLY <1>4, <2>1, k \in Nat, i \in Emitting(d)
    <3>2. QED
      BY ONLY <1>1, <3>1, i \in Emitting(d) DEF InOrder
  <2>2. QED
    BY ONLY <2>1 DEF InOrder
<1>7. /\ prev_gasmix = LastActive(d, k) /\ Len(gas_changes) = Switched(d)[k]
      /\ \A i \in Switches(d) : i <= k =>
           /\ gas_changes[Switched(d)[i]].time = TimeBefore(d, i)
           /\ gas_changes[Switched(d)[i]].mix \in DOMAIN mixes
           /\ mixes[gas_changes[Switched(d)[i]].mix].id = ActiveAt(d, i)
  BY ONLY <1>6, Changes(d, k) DEF Changes
<1>8. /\ \A i \in 1 .. last :
           Switched(d)[i] = Switched(d)[i - 1] + (IF i \in Switches(d) THEN 1 ELSE 0)
      /\ \A i \in 0 .. last : Switched(d)[i] \in Nat
      /\ \A i, j \in 0 .. last : i <= j => Switched(d)[i] <= Switched(d)[j]
  BY ONLY <1>2, Record(d), SwitchedSteps
<1>9. PICK m \in Nat : m = Switched(d)[k] /\ m = Len(gas_changes)
  BY ONLY <1>3, <1>7, <1>8
<1>10. ASSUME NEW i \in Switches(d), i <= k PROVE Switched(d)[i] \in 1 .. m
  <2>1. i \in 1 .. last /\ i \in 0 .. last /\ i - 1 \in 0 .. last
    BY ONLY <1>5, i \in Switches(d)
  <2>2. PICK x \in Nat, y \in Nat : x = Switched(d)[i - 1] /\ y = Switched(d)[i]
    BY ONLY <1>8, <2>1
  <2>3. y = x + 1 /\ y <= m
    BY ONLY <1>3, <1>8, <1>9, <1>10, <2>1, <2>2
  <2>4. QED
    BY ONLY <2>2, <2>3, x \in Nat, y \in Nat, m \in Nat
<1>11. /\ Emits(d, k + 1) = 0 => LastActive(d, k + 1) = LastActive(d, k) /\ k + 1 \notin Switches(d)
       /\ Emits(d, k + 1) > 0 =>
            /\ LastActive(d, k + 1) = ActiveAt(d, k + 1)
            /\ k + 1 \in Switches(d) <=> ActiveAt(d, k + 1) # LastActive(d, k)
  BY ONLY LastActiveSteps, Record(d), k \in Nat, k + 1 <= Len(d.written)
<1>12. /\ k + 1 \in Switches(d) => Switched(d)[k + 1] = m + 1
       /\ k + 1 \notin Switches(d) => Switched(d)[k + 1] = m
  <2>1. Switched(d)[k + 1] = m + (IF k + 1 \in Switches(d) THEN 1 ELSE 0)
    BY ONLY <1>3, <1>8, <1>9
  <2>2. QED
    BY ONLY <2>1, m \in Nat
<1>13. \A i \in Switches(d) : i <= k + 1 => i <= k \/ i = k + 1
  BY ONLY <1>5, k \in Nat
<1>14. PICK c \in Nat : c = Emits(d, k + 1)
  BY ONLY CountTaken, d = dive, Record(d), k \in Nat, k + 1 <= Len(d.written),
          e = d.written[k + 1], Takes(e)
<1>15. \/ Complete(c) /\ active_gasmix' = active_gasmix /\ mixes' = mixes
       \/ c = 0 /\ UNCHANGED madeVars
  BY ONLY <1>14, CountTaken, d = dive, Record(d), k \in Nat, k + 1 <= Len(d.written),
          e = d.written[k + 1], Takes(e)
<1>16. Types /\ Named /\ gas_changes \in Seq(Mark) /\ mixes \in Seq(Mix) /\ time \in Nat
  BY DEF TypeInv, Types
<1>17. ASSUME prev_gasmix' = prev_gasmix, gas_changes' = gas_changes, k + 1 \notin Switches(d),
              LastActive(d, k + 1) = LastActive(d, k)
       PROVE  /\ prev_gasmix' = LastActive(d, k + 1)
              /\ Len(gas_changes') = Switched(d)[k + 1]
              /\ \A i \in Switches(d) : i <= k + 1 =>
                   /\ gas_changes'[Switched(d)[i]].time = TimeBefore(d, i)
                   /\ gas_changes'[Switched(d)[i]].mix \in DOMAIN mixes'
                   /\ mixes'[gas_changes'[Switched(d)[i]].mix].id = ActiveAt(d, i)
  <2>1. \A i \in Switches(d) : i <= k + 1 => i <= k
    BY ONLY <1>13, <1>17
  <2>2. QED
    BY ONLY <1>7, <1>9, <1>12, <1>17, <2>1,
            \A p \in DOMAIN mixes : p \in DOMAIN mixes' /\ mixes'[p] = mixes[p]
<1>18. ASSUME c > 0
       PROVE  /\ Complete(c) /\ active_gasmix' = active_gasmix /\ mixes' = mixes
              /\ active_gasmix = ActiveAt(d, k + 1)
              /\ Position(mixes, active_gasmix) # {} /\ mixes # <<>>
  <2>1. Complete(c) /\ active_gasmix' = active_gasmix /\ mixes' = mixes
    BY ONLY <1>15, <1>18, c \in Nat
  <2>2. active_gasmix' = ActiveAt(d, k + 1) /\ Ids(mixes') = DescribedAt(d, k + 1)
    BY ONLY MixList(d, k + 1)' DEF MixList, Ids
  <2>3. k + 1 \in Emitting(d) /\ k + 1 <= k + 1
    BY ONLY <1>2, <1>3, <1>14, <1>18 DEF Emitting
  <2>4. ActiveAt(d, k + 1) \in DescribedAt(d, k + 1)
    BY ONLY <1>1, <2>3 DEF InOrder
  <2>5. active_gasmix = ActiveAt(d, k + 1) /\ active_gasmix \in Ids(mixes)
    BY ONLY <2>1, <2>2, <2>4 DEF Ids
  <2>6. PICK p \in DOMAIN mixes : mixes[p].id = active_gasmix
    BY ONLY <2>5 DEF Ids
  <2>7. DOMAIN <<>> = {}
    OBVIOUS
  <2>8. Position(mixes, active_gasmix) # {} /\ mixes # <<>>
    BY ONLY <2>6, <2>7 DEF Position
  <2>9. QED
    BY ONLY <2>1, <2>5, <2>8
<1>19. CASE c = 0
  <2>1. prev_gasmix' = prev_gasmix /\ gas_changes' = gas_changes
    <3>1. CASE Complete(c) /\ active_gasmix' = active_gasmix /\ mixes' = mixes
      <4>1. ~(c > 0 /\ mixes # <<>> /\ active_gasmix # prev_gasmix)
        BY ONLY <1>19
      <4>2. QED
        BY ONLY <1>16, <3>1, <4>1, CompleteChanges, c \in Nat
    <3>2. CASE UNCHANGED madeVars
      BY ONLY <3>2 DEF madeVars
    <3>3. QED
      BY ONLY <1>15, <3>1, <3>2
  <2>2. LastActive(d, k + 1) = LastActive(d, k) /\ k + 1 \notin Switches(d)
    BY ONLY <1>11, <1>14, <1>19
  <2>3. QED
    BY ONLY <1>17, <2>1, <2>2
<1>20. CASE c > 0 /\ active_gasmix = prev_gasmix
  <2>1. prev_gasmix' = prev_gasmix /\ gas_changes' = gas_changes
    <3>1. ~(c > 0 /\ mixes # <<>> /\ active_gasmix # prev_gasmix)
      BY ONLY <1>20
    <3>2. QED
      BY ONLY <1>16, <1>18, <1>20, <3>1, CompleteChanges, c \in Nat
  <2>2. LastActive(d, k + 1) = LastActive(d, k) /\ k + 1 \notin Switches(d)
    BY ONLY <1>7, <1>11, <1>14, <1>18, <1>20
  <2>3. QED
    BY ONLY <1>17, <2>1, <2>2
<1>21. CASE c > 0 /\ active_gasmix # prev_gasmix
  <2>1. /\ prev_gasmix' = active_gasmix
        /\ gas_changes' = gas_changes \o Change(mixes, active_gasmix)
    BY ONLY <1>16, <1>18, <1>21, CompleteChanges, c \in Nat
  <2>2. k + 1 \in Switches(d) /\ LastActive(d, k + 1) = active_gasmix
    BY ONLY <1>7, <1>11, <1>14, <1>18, <1>21
  <2>3. PICK p \in DOMAIN mixes : /\ Change(mixes, active_gasmix) = <<[time |-> time, mix |-> p]>>
                                  /\ mixes[p].id = active_gasmix
    BY ONLY <1>16, <1>18, <1>21, ChangeType
  <2>4. PICK new \in Mark : new = [time |-> time, mix |-> p] /\ new.time = time /\ new.mix = p
    <3>1. p \in Nat
      BY ONLY <1>16, p \in DOMAIN mixes
    <3> DEFINE r == [time |-> time, mix |-> p]
    <3>2. r \in Mark /\ r.time = time /\ r.mix = p
      BY ONLY <1>16, <3>1 DEF Mark
    <3> HIDE DEF r
    <3>3. \E x \in Mark : x = r /\ x.time = time /\ x.mix = p
      BY ONLY <3>2
    <3>4. QED
      BY ONLY <3>3 DEF r
  <2>5. PICK one \in Seq(Mark) : one = <<new>> /\ Len(one) = 1 /\ one[1] = new
    <3>1. <<new>> \in Seq(Mark) /\ Len(<<new>>) = 1 /\ <<new>>[1] = new
      BY ONLY new \in Mark
    <3>2. QED
      BY ONLY <3>1
  <2>6. gas_changes' = gas_changes \o one
    BY ONLY <2>1, <2>3, <2>4, <2>5
  <2>7. /\ Len(gas_changes') = m + 1
        /\ \A q \in 1 .. m : gas_changes'[q] = gas_changes[q]
        /\ gas_changes'[m + 1] = new
    <3>1. /\ Len(gas_changes \o one) = Len(gas_changes) + Len(one)
          /\ \A q \in 1 .. Len(gas_changes) : (gas_changes \o one)[q] = gas_changes[q]
          /\ \A q \in 1 .. Len(one) : (gas_changes \o one)[Len(gas_changes) + q] = one[q]
      BY ONLY <1>16, Concat, one \in Seq(Mark)
    <3>2. 1 \in 1 .. 1
      OBVIOUS
    <3>3. QED
      BY ONLY <1>9, <2>5, <2>6, <3>1, <3>2
  <2>8. mixes' = mixes /\ active_gasmix = ActiveAt(d, k + 1)
    BY ONLY <1>18, <1>21
  <2>9. TimeBefore(d, k + 1) = time
    <3>1. time = Step(d) * Emitted(d)[k]
      BY ONLY Points(d, k) DEF Points
    <3>2. QED
      BY ONLY <1>3, <3>1 DEF TimeBefore
  <2>10. Switched(d)[k + 1] = m + 1
    BY ONLY <1>12, <2>2
  <2>11. ASSUME NEW i \in Switches(d), i <= k + 1
         PROVE  /\ gas_changes'[Switched(d)[i]].time = TimeBefore(d, i)
                /\ gas_changes'[Switched(d)[i]].mix \in DOMAIN mixes'
                /\ mixes'[gas_changes'[Switched(d)[i]].mix].id = ActiveAt(d, i)
    <3>1. CASE i <= k
      <4>1. gas_changes'[Switched(d)[i]] = gas_changes[Switched(d)[i]]
        BY ONLY <1>10, <2>7, <3>1, i \in Switches(d)
      <4>2. QED
        BY ONLY <1>7, <2>8, <3>1, <4>1, i \in Switches(d)
    <3>2. CASE i = k + 1
      <4>1. gas_changes'[Switched(d)[i]] = new
        BY ONLY <2>7, <2>10, <3>2
      <4>2. QED
        BY ONLY <2>3, <2>4, <2>8, <2>9, <3>2, <4>1, p \in DOMAIN mixes
    <3>3. QED
      BY ONLY <1>13, <2>11, <3>1, <3>2
  <2>12. QED
    BY ONLY <2>1, <2>2, <2>7, <2>10, <2>11
<1>22. QED
  BY ONLY <1>19, <1>20, <1>21, c \in Nat

-----------------------------------------------------------------------------
(* A record that says what was written is read so.                         *)
ReadTo(d, k) == Place(d, k) /\ Values(d, k) /\ Points(d, k) /\ MixList(d, k) /\ Changes(d, k)
ReadInv == outcome = "reading" => \E k \in 0 .. Len(dive.written) : ReadTo(dive, k)
ParseInv ==
  /\ TypeInv
  /\ Encoded(dive) => ReadInv /\ SamplesMatch /\ GasesMatch /\ PanicsOnlyOnEmptyMisc

LEMMA EncodedRecord ==
  ASSUME TypeInv, Encoded(dive)
  PROVE  Record(dive)
<1>1. dive \in Dives
  BY DEF TypeInv, Types
<1>2. /\ dive.body \in Seq(Byte) /\ dive.o2 \in [1 .. 3 -> Nat]
      /\ dive.trimix \in BOOLEAN /\ dive.freedive \in BOOLEAN
  BY ONLY <1>1, DiveAssumption
<1>3. QED
  BY ONLY <1>2, Encoded(dive) DEF Record

(* Behind the header nothing is read yet. *)
LEMMA HeaderRead ==
  ASSUME TypeInv, NEW d, d = dive, Record(d), ReadHeader
  PROVE  ReadTo(d, 0)'
<1>1. /\ outcome = "header" /\ mixes' = HeaderMixes
      /\ UNCHANGED <<dive, offset, valueVars, active_gasmix, madeVars, cylinders>>
  BY DEF ReadHeader, HeaderMixes
<1>2. /\ offset' = 0 /\ time' = 0
      /\ depth' = Unread /\ calibration' = 0 /\ temperature' = Unread /\ pressure' = Unread
      /\ active_gasmix' = 0 /\ prev_gasmix' = -1
      /\ gas_changes' = <<>> /\ samples' = <<>>
  BY ONLY <1>1, TypeInv DEF TypeInv, Fresh, valueVars, madeVars
<1>3. Place(d, 0)'
  BY ONLY <1>2 DEF Place, EndOf
<1>4. /\ \A abs, delta \in Numeric : Track(d, 0, abs, delta) = Unread
      /\ Level(d, 0) = 0 /\ ActiveAt(d, 0) = 0 /\ DescribedAt(d, 0) = InHeader(d)
  BY ONLY AtStart, Record(d)
<1>5. Values(d, 0)'
  <2>1. /\ Track(d, 0, "absdepth", "depth") = Unread
        /\ Track(d, 0, "abstemperature", "temperature") = Unread
        /\ Track(d, 0, "abspressure", "pressure") = Unread
    BY ONLY <1>4 DEF Numeric
  <2>2. QED
    BY ONLY <1>2, <1>4, <2>1 DEF Values
<1>6. Len(<<>>) = 0 /\ 1 .. 0 = {}
  OBVIOUS
<1>7. Points(d, 0)'
  <2>1. Emitted(d)[0] = 0
    BY ONLY EmittedSteps, Record(d)
  <2>2. Step(d) * 0 = 0
    BY StepIs
  <2>3. time' = Step(d) * Emitted(d)[0] /\ Len(samples') = Emitted(d)[0]
    BY ONLY <1>2, <1>6, <2>1, <2>2
  <2>4. QED
    BY ONLY <1>6, <2>3 DEF Points
<1>8. MixList(d, 0)'
  <2>1. dive.o2 \in [1 .. 3 -> Nat]
    BY DEF Record
  <2>2. HeaderList(HeaderMixes, 3)
    BY ONLY <2>1, HeaderIs
  <2>3. Ids(HeaderMixes) = InHeader(d)
    <3>1. HeaderIds(3) = InHeader(d)
      BY ONLY d = dive DEF HeaderIds, InHeader
    <3>2. QED
      BY ONLY <2>2, <3>1 DEF HeaderList
  <2>4. ASSUME NEW p \in DOMAIN HeaderMixes
        PROVE  HeaderMixes[p] = FirstMix(d, 0, HeaderMixes[p].id)
    <3>1. HeaderMixes[p].id \in InHeader(d)
      BY ONLY <2>3, p \in DOMAIN HeaderMixes DEF Ids
    <3>2. \A id \in InHeader(d) : FirstMix(d, 0, id) = [id |-> id, o2 |-> d.o2[id + 1], he |-> 0]
      BY ONLY Zenon DEF FirstMix
    <3>3. HeaderMixes[p] = [id |-> HeaderMixes[p].id,
                            o2 |-> d.o2[HeaderMixes[p].id + 1], he |-> 0]
      BY ONLY <2>2, d = dive, p \in DOMAIN HeaderMixes DEF HeaderList
    <3>4. QED
      BY ONLY <3>1, <3>2, <3>3
  <2>5. Ids(HeaderMixes) = DescribedAt(d, 0)
    BY ONLY <1>4, <2>3
  <2>6. QED
    BY ONLY <1>1, <1>2, <1>4, <2>4, <2>5 DEF MixList, Ids
<1>9. Changes(d, 0)'
  <2>1. Switched(d)[0] = 0
    BY ONLY SwitchedSteps, Record(d)
  <2>2. LastActive(d, 0) = -1
    BY ONLY LastActiveStart, Record(d)
  <2>3. \A i \in Switches(d) : ~(i <= 0)
    <3>1. Len(d.written) \in Nat /\ DOMAIN d.written = 1 .. Len(d.written)
      BY ONLY Record(d), Sequence
    <3>2. \A i \in Switches(d) : i \in 1 .. Len(d.written)
      BY ONLY <3>1 DEF Switches, Emitting
    <3>3. QED
      BY ONLY <3>1, <3>2
  <2>4. QED
    BY ONLY <1>2, <1>6, <2>1, <2>2, <2>3 DEF Changes
<1>10. QED
  BY ONLY <1>3, <1>5, <1>7, <1>8, <1>9 DEF ReadTo

(* A sample further. *)
LEMMA SampleRead ==
  ASSUME TypeInv, TypeInv', NEW d, d = dive, Record(d),
         NEW k \in Nat, k + 1 <= Len(d.written), NEW e, e = d.written[k + 1],
         ReadTo(d, k), Takes(e)
  PROVE  ReadTo(d, k + 1)'
<1>1. Values(d, k) /\ Points(d, k) /\ MixList(d, k) /\ Changes(d, k)
  BY DEF ReadTo
<1>2. Place(d, k + 1)'
  <2>1. k + 1 \in 1 .. Len(d.written)
    BY ONLY Record(d), Sequence, k \in Nat, k + 1 <= Len(d.written)
  <2>2. EndOf(d, k + 1) = e.start + e.len
    BY ONLY <2>1, Record(d), e = d.written[k + 1], Place1
  <2>3. offset' = e.start + e.len
    BY DEF Takes
  <2>4. QED
    BY ONLY <2>2, <2>3 DEF Place
<1>3. Values(d, k + 1)'
  BY ONLY <1>1, ValuesStep, d = dive, Record(d), k \in Nat, k + 1 <= Len(d.written),
          e = d.written[k + 1], Takes(e)
<1>4. Points(d, k + 1)'
  BY ONLY <1>1, <1>3, PointsStep, TypeInv, TypeInv', d = dive, Record(d), k \in Nat,
          k + 1 <= Len(d.written), e = d.written[k + 1], Takes(e)
<1>5. /\ MixList(d, k + 1)'
      /\ \A p \in DOMAIN mixes : p \in DOMAIN mixes' /\ mixes'[p] = mixes[p]
  BY ONLY <1>1, MixListStep, TypeInv, d = dive, Record(d), k \in Nat,
          k + 1 <= Len(d.written), e = d.written[k + 1], Takes(e)
<1>6. Changes(d, k + 1)'
  BY ONLY <1>1, <1>5, ChangesStep, TypeInv, d = dive, Record(d), k \in Nat,
          k + 1 <= Len(d.written), e = d.written[k + 1], Takes(e)
<1>7. QED
  BY ONLY <1>2, <1>3, <1>4, <1>5, <1>6 DEF ReadTo

(* The apnea sample that goes past the end changes no local but the offset. *)
LEMMA ApneaRead ==
  ASSUME NEW d, ReadTo(d, Len(d.written)), ApneaSample, offset' >= Len(d.body)
  PROVE  ReadTo(d, Len(d.written))'
<1>1. /\ depth' = depth /\ calibration' = calibration /\ temperature' = temperature
      /\ pressure' = pressure /\ active_gasmix' = active_gasmix /\ mixes' = mixes
      /\ time' = time /\ prev_gasmix' = prev_gasmix
      /\ gas_changes' = gas_changes /\ samples' = samples
  BY DEF ApneaSample, valueVars, gasVars, madeVars
<1> DEFINE k == Len(d.written)
<1>2. Values(d, k) /\ Points(d, k) /\ MixList(d, k) /\ Changes(d, k)
  BY DEF ReadTo
<1>3. Place(d, k)'
  BY DEF Place
<1> HIDE DEF k
<1>4. Values(d, k)' /\ Points(d, k)'
  BY ONLY <1>1, <1>2 DEF Values, Points
<1>5. MixList(d, k)' /\ Changes(d, k)'
  BY ONLY <1>1, <1>2 DEF MixList, Changes, Ids
<1>6. QED
  BY ONLY <1>3, <1>4, <1>5 DEF ReadTo, k

(* The end: the points are all there, and the gases. *)
LEMMA FinishRead ==
  ASSUME TypeInv, NEW d, d = dive, Record(d), ReadTo(d, Len(d.written)), Finish
  PROVE  SamplesMatch' /\ GasesMatch'
<1>1. dive' = d /\ samples' = samples /\ mixes' = mixes
  BY DEF Finish, gasVars
<1>2. PICK all \in Nat : all = Len(d.written) /\ DOMAIN d.written = 1 .. all
  BY ONLY Record(d), Sequence
<1>3. Points(d, all) /\ MixList(d, all) /\ Changes(d, all)
  BY ONLY <1>2, ReadTo(d, Len(d.written)) DEF ReadTo
<1>4. SamplesMatch'
  BY ONLY <1>1, <1>2, <1>3 DEF SamplesMatch, Points
<1>5. Types /\ Named /\ gas_changes \in Seq(Mark)
  BY DEF TypeInv, Types
<1>6. /\ DOMAIN cylinders' = DOMAIN mixes /\ Range(cylinders') = Range(mixes)
      /\ \A j, k \in DOMAIN cylinders' : j < k => cylinders'[j].id < cylinders'[k].id
      /\ Len(gas_changes') = Len(gas_changes)
      /\ \A k \in DOMAIN gas_changes :
           /\ gas_changes'[k].time = gas_changes[k].time
           /\ gas_changes'[k].mix \in DOMAIN mixes
           /\ cylinders'[gas_changes'[k].mix].id = mixes[gas_changes[k].mix].id
  BY ONLY <1>5, FinishIs, Finish
<1>7. Range(mixes) = {FirstMix(d, all, id) : id \in DescribedAt(d, all)}
  <2>1. /\ Ids(mixes) = DescribedAt(d, all)
        /\ \A p \in DOMAIN mixes : mixes[p] = FirstMix(d, all, mixes[p].id)
    BY ONLY <1>3 DEF MixList
  <2>2. Range(mixes) = {mixes[p] : p \in DOMAIN mixes}
    BY DEF Range
  <2>3. ASSUME NEW m \in Range(mixes)
        PROVE  m \in {FirstMix(d, all, id) : id \in DescribedAt(d, all)}
    <3>1. PICK p \in DOMAIN mixes : m = mixes[p]
      BY ONLY <2>2, m \in Range(mixes)
    <3>2. mixes[p].id \in DescribedAt(d, all)
      BY ONLY <2>1, p \in DOMAIN mixes DEF Ids
    <3>3. m = FirstMix(d, all, mixes[p].id)
      BY ONLY <2>1, <3>1, p \in DOMAIN mixes
    <3>4. QED
      BY ONLY <3>2, <3>3
  <2>4. ASSUME NEW id \in DescribedAt(d, all) PROVE FirstMix(d, all, id) \in Range(mixes)
    <3>1. PICK p \in DOMAIN mixes : mixes[p].id = id
      BY ONLY <2>1, id \in DescribedAt(d, all) DEF Ids
    <3>2. FirstMix(d, all, id) = mixes[p]
      BY ONLY <2>1, <3>1, p \in DOMAIN mixes
    <3>3. QED
      BY ONLY <2>2, <3>2, p \in DOMAIN mixes
  <2>5. QED
    BY ONLY <2>3, <2>4
<1>8. CylindersMatch'
  <2>1. Range(cylinders') = {FirstMix(d, all, id) : id \in DescribedAt(d, all)}
    BY ONLY <1>6, <1>7
  <2>2. QED
    BY ONLY <1>1, <1>2, <1>6, <2>1 DEF CylindersMatch, Range
<1>9. SwitchesMatch'
  <2>1. SUFFICES ASSUME InOrder(d, all)
                 PROVE  /\ Len(gas_changes') = Switched(d)[all]
                        /\ \A i \in Switches(d) :
                             /\ gas_changes'[Switched(d)[i]].time = TimeBefore(d, i)
                             /\ cylinders'[gas_changes'[Switched(d)[i]].mix].id = ActiveAt(d, i)
    BY <1>1, <1>2 DEF SwitchesMatch
  <2>2. /\ Len(gas_changes) = Switched(d)[all]
        /\ \A i \in Switches(d) : i <= all =>
             /\ gas_changes[Switched(d)[i]].time = TimeBefore(d, i)
             /\ mixes[gas_changes[Switched(d)[i]].mix].id = ActiveAt(d, i)
    BY ONLY <1>3, <2>1 DEF Changes
  <2>3. ASSUME NEW i \in Switches(d)
        PROVE  i <= all /\ Switched(d)[i] \in DOMAIN gas_changes
    <3>1. i \in 1 .. all
      BY ONLY <1>2, i \in Switches(d) DEF Switches, Emitting
    <3>2. i \in 0 .. all /\ i - 1 \in 0 .. all /\ all \in 0 .. all /\ i <= all
      BY ONLY <3>1, all \in Nat
    <3>3. /\ Switched(d)[i] = Switched(d)[i - 1] + 1
          /\ Switched(d)[i - 1] \in Nat /\ Switched(d)[i] \in Nat
          /\ Switched(d)[i] <= Switched(d)[all]
      BY ONLY <1>2, <3>1, <3>2, Record(d), SwitchedSteps, i \in Switches(d)
    <3>4. PICK m \in Nat : m = Len(gas_changes) /\ DOMAIN gas_changes = 1 .. m
      BY ONLY <1>5
    <3>5. Switched(d)[i] \in 1 .. m
      BY ONLY <2>2, <3>3, <3>4, m \in Nat
    <3>6. QED
      BY ONLY <3>2, <3>4, <3>5
  <2>4. QED
    BY ONLY <1>6, <2>2, <2>3
<1>10. QED
  BY ONLY <1>4, <1>8, <1>9 DEF GasesMatch

LEMMA DiveStays == [Parse]_parseVars => dive' = dive
BY DEF Parse, parseVars, HeaderShort, ReadHeader, DepthSample, TimeSample, TemperatureSample,
       PressureSample, AlarmSample, OtherSample, ApneaSample, MiscSample, SubtypeMissing,
       InvalidType, Finish, Turn

(* The steps of the loop, at a sample and behind the last one.             *)
LEMMA ReadingStep ==
  ASSUME TypeInv, TypeInv', NEW d, d = dive, dive' = d, Record(d), outcome = "reading",
         ReadInv, Parse
  PROVE  ReadInv' /\ SamplesMatch' /\ GasesMatch' /\ PanicsOnlyOnEmptyMisc'
<1>1. PICK last \in Nat : last = Len(d.written) /\ DOMAIN d.written = 1 .. last
  BY ONLY Record(d), Sequence
<1>2. PICK k \in 0 .. last : ReadTo(d, k)
  BY ONLY <1>1, ReadInv, outcome = "reading", d = dive DEF ReadInv
<1>3. ASSUME outcome' = "reading", NEW j \in 0 .. last, ReadTo(d, j)'
      PROVE  ReadInv' /\ SamplesMatch' /\ GasesMatch' /\ PanicsOnlyOnEmptyMisc'
  <2>1. \E i \in 0 .. Len(d.written) : ReadTo(d, i)'
    BY ONLY <1>1, <1>3
  <2>2. ReadInv'
    BY ONLY <2>1, dive' = d DEF ReadInv
  <2>3. QED
    BY ONLY <1>3, <2>2 DEF SamplesMatch, GasesMatch, PanicsOnlyOnEmptyMisc
<1>4. CASE k < last
  <2>1. PICK e : e = d.written[k + 1]
    OBVIOUS
  <2>2. k \in Nat /\ k + 1 \in 1 .. last /\ k + 1 <= last /\ (k + 1) - 1 = k /\ k + 1 \in 0 .. last
    BY ONLY <1>4, last \in Nat, k \in 0 .. last
  <2>3. AtSample(k + 1, e)
    <3>1. offset = EndOf(d, k)
      BY ONLY <1>1, <1>2, <1>4 DEF ReadTo, Place
    <3>2. e.start = EndOf(d, k)
      BY ONLY <1>1, <2>1, <2>2, Record(d), Place1
    <3>3. QED
      BY ONLY <1>1, <2>1, <2>2, <3>1, <3>2, Record(d), d = dive DEF AtSample
  <2>4. CASE Takes(e)
    <3>1. ReadTo(d, k + 1)'
      BY ONLY <1>1, <1>2, <2>1, <2>2, <2>4, SampleRead, TypeInv, TypeInv', d = dive, Record(d)
    <3>2. outcome' = "reading"
      BY ONLY <2>4 DEF Takes
    <3>3. QED
      BY ONLY <1>3, <2>2, <3>1, <3>2
  <2>5. CASE SubtypeMissing /\ k + 1 = Len(dive.written) /\ e.kind = "misc" /\ e.v = 1
    <3>1. outcome' = "panic"
      BY ONLY <2>5 DEF SubtypeMissing
    <3>2. d.written # <<>>
      <4>1. DOMAIN <<>> = {}
        OBVIOUS
      <4>2. QED
        BY ONLY <1>1, <2>2, <4>1
    <3>3. Last(d.written) = e
      BY ONLY <2>1, <2>5, d = dive DEF Last
    <3>4. PanicsOnlyOnEmptyMisc'
      BY ONLY <2>5, <3>2, <3>3, dive' = d DEF PanicsOnlyOnEmptyMisc
    <3>5. QED
      BY ONLY <3>1, <3>4 DEF ReadInv, SamplesMatch, GasesMatch
  <2>6. QED
    BY ONLY <2>3, <2>4, <2>5, SampleTaken, TypeInv, Parse, outcome = "reading"
<1>5. CASE k = last
  <2>1. ReadTo(d, Len(d.written))
    BY ONLY <1>1, <1>2, <1>5
  <2>2. offset = EndOf(dive, Len(dive.written)) \/ offset >= Len(dive.body)
    BY ONLY <2>1, d = dive DEF ReadTo, Place
  <2>3. \/ Finish
        \/ InvalidType
        \/ ApneaSample /\ offset' >= Len(dive.body)
    BY ONLY <2>2, EndTaken, TypeInv, Record(d), d = dive, outcome = "reading", Parse
  <2>4. CASE Finish
    <3>1. SamplesMatch' /\ GasesMatch'
      BY ONLY <2>1, <2>4, FinishRead, TypeInv, d = dive, Record(d)
    <3>2. outcome' = "done"
      BY ONLY <2>4 DEF Finish
    <3>3. QED
      BY ONLY <3>1, <3>2 DEF ReadInv, PanicsOnlyOnEmptyMisc
  <2>5. CASE InvalidType
    <3>1. outcome' = "error"
      BY ONLY <2>5 DEF InvalidType
    <3>2. QED
      BY ONLY <3>1 DEF ReadInv, SamplesMatch, GasesMatch, PanicsOnlyOnEmptyMisc
  <2>6. CASE ApneaSample /\ offset' >= Len(dive.body)
    <3>1. ReadTo(d, Len(d.written))'
      BY ONLY <2>1, <2>6, ApneaRead, d = dive
    <3>2. outcome' = "reading"
      BY ONLY <2>6, outcome = "reading" DEF ApneaSample
    <3>3. last \in 0 .. last
      BY ONLY last \in Nat
    <3>4. ReadTo(d, last)'
      BY ONLY <1>1, <3>1
    <3>5. QED
      BY ONLY <1>3, <3>2, <3>3, <3>4
  <2>7. QED
    BY ONLY <2>3, <2>4, <2>5, <2>6
<1>6. QED
  BY ONLY <1>4, <1>5, last \in Nat, k \in 0 .. last

LEMMA ParseKept ==
  ParseInv /\ [Parse]_parseVars => ParseInv'
<1>1. SUFFICES ASSUME ParseInv, [Parse]_parseVars PROVE ParseInv'
  OBVIOUS
<1>2. TypeInv /\ TypeInv'
  BY ONLY <1>1, TypesKept DEF ParseInv
<1>3. PICK d : d = dive /\ dive' = d
  BY ONLY <1>1, DiveStays
<1>4. SUFFICES ASSUME Encoded(d)
               PROVE  ReadInv' /\ SamplesMatch' /\ GasesMatch' /\ PanicsOnlyOnEmptyMisc'
  BY <1>2, <1>3 DEF ParseInv
<1>5. Record(d) /\ ReadInv /\ SamplesMatch /\ GasesMatch /\ PanicsOnlyOnEmptyMisc
  <2>1. Record(dive)
    BY ONLY <1>2, <1>3, <1>4, EncodedRecord
  <2>2. QED
    BY ONLY <1>1, <1>3, <1>4, <2>1 DEF ParseInv
<1>6. CASE UNCHANGED parseVars
  BY ONLY <1>5, <1>6
    DEF ReadInv, SamplesMatch, GasesMatch, PanicsOnlyOnEmptyMisc, ReadTo, Place, Values, Points,
        MixList, Changes, Ids, CylindersMatch, SwitchesMatch, parseVars, valueVars, gasVars,
        madeVars
<1>7. CASE Parse
  <2>1. CASE outcome = "reading"
    BY ONLY <1>2, <1>3, <1>5, <1>7, <2>1, ReadingStep
  <2>2. CASE outcome # "reading"
    <3>1. HeaderShort \/ ReadHeader
      BY ONLY <1>7, <2>2
        DEF Parse, DepthSample, TimeSample, TemperatureSample, PressureSample, AlarmSample,
            OtherSample, ApneaSample, MiscSample, SubtypeMissing, InvalidType, Finish, Turn
    <3>2. CASE HeaderShort
      <4>1. outcome' = "error"
        BY ONLY <3>2 DEF HeaderShort
      <4>2. QED
        BY ONLY <4>1 DEF ReadInv, SamplesMatch, GasesMatch, PanicsOnlyOnEmptyMisc
    <3>3. CASE ReadHeader
      <4>1. ReadTo(d, 0)'
        BY ONLY <1>2, <1>3, <1>5, <3>3, HeaderRead
      <4>2. 0 \in 0 .. Len(d.written)
        BY ONLY <1>5, Sequence
      <4>3. \E i \in 0 .. Len(d.written) : ReadTo(d, i)'
        BY ONLY <4>1, <4>2
      <4>4. ReadInv'
        BY ONLY <1>3, <4>3 DEF ReadInv
      <4>5. outcome' = "reading"
        BY ONLY <3>3 DEF ReadHeader
      <4>6. QED
        BY ONLY <4>4, <4>5 DEF SamplesMatch, GasesMatch, PanicsOnlyOnEmptyMisc
    <3>4. QED
      BY ONLY <3>1, <3>2, <3>3
  <2>3. QED
    BY ONLY <2>1, <2>2
<1>8. QED
  BY ONLY <1>1, <1>6, <1>7

LEMMA ParseHolds == ParseSpec => []ParseInv
<1>1. ParseInit => ParseInv
  <2>1. SUFFICES ASSUME ParseInit PROVE ParseInv
    OBVIOUS
  <2>2. Types /\ Named
    BY ONLY <2>1, InitTypes
  <2>3. Fresh
    BY ONLY <2>1 DEF ParseInit, Fresh
  <2>4. outcome = "header"
    BY ONLY <2>1 DEF ParseInit
  <2>5. ReadInv /\ SamplesMatch /\ GasesMatch /\ PanicsOnlyOnEmptyMisc
    BY ONLY <2>4 DEF ReadInv, SamplesMatch, GasesMatch, PanicsOnlyOnEmptyMisc
  <2>6. QED
    BY ONLY <2>2, <2>3, <2>5 DEF ParseInv, TypeInv
<1>2. QED
  BY <1>1, ParseKept, PTL DEF ParseSpec

(* The profile of a record that is encoded has the points that were        *)
(* written into it, all of them and in their order, with the depth,        *)
(* temperature and pressure of each.                                       *)
THEOREM SamplesAreRead == ParseSpec => [](Encoded(dive) => SamplesMatch)
<1>1. ParseInv => (Encoded(dive) => SamplesMatch)
  BY DEF ParseInv
<1>2. QED
  BY <1>1, ParseHolds, PTL

(* Its cylinders are the mixes that it describes, and its gas changes the  *)
(* switches between them.                                                  *)
THEOREM GasesAreRead == ParseSpec => [](Encoded(dive) => GasesMatch)
<1>1. ParseInv => (Encoded(dive) => GasesMatch)
  BY DEF ParseInv
<1>2. QED
  BY <1>1, ParseHolds, PTL

(* The parser panics on nothing but a MISC sample without a subtype at the *)
(* end of the record.                                                      *)
THEOREM PanicsAreEmptyMisc == ParseSpec => [](Encoded(dive) => PanicsOnlyOnEmptyMisc)
<1>1. ParseInv => (Encoded(dive) => PanicsOnlyOnEmptyMisc)
  BY DEF ParseInv
<1>2. QED
  BY <1>1, ParseHolds, PTL
-----------------------------------------------------------------------------
(* Every sequence of bytes is encoded: samples in full, and then nothing   *)
(* whole.                                                                  *)
LEMMA SaysOneByte ==
  ASSUME NEW d, NEW e, e.len = 1
  PROVE  /\ e.kind = "depth" /\ e.v \in Signed(7) /\ d.body[e.start + 1] = e.v % 2 ^ 7 => Says(d, e)
         /\ e.kind = "time" /\ e.v \in Unsigned(4) /\ d.body[e.start + 1] = 192 + e.v => Says(d, e)
         /\ /\ e.kind = "temperature" /\ e.v \in Signed(4)
            /\ d.body[e.start + 1] = 176 + (e.v % 2 ^ 4)
            => Says(d, e)
         /\ /\ e.kind = "pressure" /\ e.v \in Signed(4)
            /\ d.body[e.start + 1] = 160 + (e.v % 2 ^ 4)
            => Says(d, e)
         /\ /\ e.kind = "other"
            /\ d.body[e.start + 1] \in (128 .. 159) \cup (208 .. 239)
            => Says(d, e)
<1>1. ASSUME e.kind = "depth", e.v \in Signed(7), d.body[e.start + 1] = e.v % 2 ^ 7
      PROVE  Says(d, e)
  BY ONLY <1>1, e.len = 1 DEF Says, Kinds
<1>2. ASSUME e.kind = "time", e.v \in Unsigned(4), d.body[e.start + 1] = 192 + e.v
      PROVE  Says(d, e)
  BY ONLY <1>2, e.len = 1 DEF Says, Kinds
<1>3. ASSUME e.kind = "temperature", e.v \in Signed(4),
             d.body[e.start + 1] = 176 + (e.v % 2 ^ 4)
      PROVE  Says(d, e)
  BY ONLY <1>3, e.len = 1 DEF Says, Kinds
<1>4. ASSUME e.kind = "pressure", e.v \in Signed(4),
             d.body[e.start + 1] = 160 + (e.v % 2 ^ 4)
      PROVE  Says(d, e)
  BY ONLY <1>4, e.len = 1 DEF Says, Kinds
<1>5. ASSUME e.kind = "other", d.body[e.start + 1] \in (128 .. 159) \cup (208 .. 239)
      PROVE  Says(d, e)
  BY ONLY <1>5, e.len = 1 DEF Says, Kinds
<1>6. QED
  BY ONLY <1>1, <1>2, <1>3, <1>4, <1>5

LEMMA SaysTwoBytes ==
  ASSUME NEW d, NEW e, e.len = 2
  PROVE  /\ /\ e.kind = "gas" /\ d.body[e.start + 1] = 240
            /\ e.v = (d.body[e.start + 2] \div 32) % 4
            => Says(d, e)
         /\ /\ e.kind = "gas" /\ d.body[e.start + 1] = 249 /\ d.trimix
            /\ e.v = d.body[e.start + 2] \div 16
            => Says(d, e)
         /\ e.kind = "other" /\ d.body[e.start + 1] \in {242, 247} => Says(d, e)
         /\ e.kind = "other" /\ d.body[e.start + 1] = 249 /\ ~d.trimix => Says(d, e)
<1>1. ASSUME e.kind = "gas", d.body[e.start + 1] = 240,
             e.v = (d.body[e.start + 2] \div 32) % 4
      PROVE  Says(d, e)
  BY ONLY <1>1, e.len = 2 DEF Says, Kinds
<1>2. ASSUME e.kind = "gas", d.body[e.start + 1] = 249, d.trimix,
             e.v = d.body[e.start + 2] \div 16
      PROVE  Says(d, e)
  BY ONLY <1>2, e.len = 2 DEF Says, Kinds
<1>3. ASSUME e.kind = "other", d.body[e.start + 1] \in {242, 247} PROVE Says(d, e)
  BY ONLY <1>3, e.len = 2 DEF Says, Kinds
<1>4. ASSUME e.kind = "other", d.body[e.start + 1] = 249, ~d.trimix PROVE Says(d, e)
  BY ONLY <1>4, e.len = 2 DEF Says, Kinds
<1>5. QED
  BY ONLY <1>1, <1>2, <1>3, <1>4

LEMMA SaysThreeBytes ==
  ASSUME NEW d, NEW e, e.len = 3,
         NEW word, word = 256 * d.body[e.start + 2] + d.body[e.start + 3]
  PROVE  /\ e.kind = "absdepth" /\ d.body[e.start + 1] = 241 /\ e.v = word => Says(d, e)
         /\ /\ e.kind = "abstemperature" /\ e.v \in Signed(16) /\ d.body[e.start + 1] = 243
            /\ word = e.v % 2 ^ 16
            => Says(d, e)
         /\ /\ e.kind = "abspressure" /\ d.body[e.start + 1] \in 244 .. 246 /\ d.trimix
            /\ e.v \in Unsigned(12) /\ e.tank \in Unsigned(4) /\ word = 4096 * e.tank + e.v
            => Says(d, e)
         /\ /\ e.kind = "abspressure" /\ d.body[e.start + 1] \in 244 .. 246 /\ ~d.trimix
            /\ e.tank = d.body[e.start + 1] - 244 /\ e.v = word
            => Says(d, e)
         /\ e.kind = "other" /\ d.body[e.start + 1] = 248 => Says(d, e)
<1>1. ASSUME e.kind = "absdepth", d.body[e.start + 1] = 241, e.v = word PROVE Says(d, e)
  BY ONLY <1>1, e.len = 3, word = 256 * d.body[e.start + 2] + d.body[e.start + 3] DEF Says, Kinds
<1>2. ASSUME e.kind = "abstemperature", e.v \in Signed(16), d.body[e.start + 1] = 243,
             word = e.v % 2 ^ 16
      PROVE  Says(d, e)
  BY ONLY <1>2, e.len = 3, word = 256 * d.body[e.start + 2] + d.body[e.start + 3] DEF Says, Kinds
<1>3. ASSUME e.kind = "abspressure", d.body[e.start + 1] \in 244 .. 246, d.trimix,
             e.v \in Unsigned(12), e.tank \in Unsigned(4), word = 4096 * e.tank + e.v
      PROVE  Says(d, e)
  BY ONLY <1>3, e.len = 3, word = 256 * d.body[e.start + 2] + d.body[e.start + 3] DEF Says, Kinds
<1>4. ASSUME e.kind = "abspressure", d.body[e.start + 1] \in 244 .. 246, ~d.trimix,
             e.tank = d.body[e.start + 1] - 244, e.v = word
      PROVE  Says(d, e)
  BY ONLY <1>4, e.len = 3, word = 256 * d.body[e.start + 2] + d.body[e.start + 3] DEF Says, Kinds
<1>5. ASSUME e.kind = "other", d.body[e.start + 1] = 248 PROVE Says(d, e)
  BY ONLY <1>5, e.len = 3 DEF Says, Kinds
<1>6. QED
  BY ONLY <1>1, <1>2, <1>3, <1>4, <1>5

LEMMA SaysMoreBytes ==
  ASSUME NEW d, NEW e
  PROVE  /\ e.kind = "apnea" /\ e.len = 9 /\ d.body[e.start + 1] = 250 => Says(d, e)
         /\ /\ e.kind = "mix" /\ e.len >= 2 /\ d.body[e.start + 1] = 251
            /\ e.len = 1 + d.body[e.start + 2] /\ IsMix(d, e)
            /\ e.mix = MixIn(d, e) /\ e.v = e.mix.id
            => Says(d, e)
         /\ /\ e.kind = "misc" /\ e.len >= 2 /\ d.body[e.start + 1] = 251
            /\ e.len = 1 + d.body[e.start + 2] /\ ~IsMix(d, e) /\ e.v = d.body[e.start + 2]
            => Says(d, e)
<1>1. ASSUME e.kind = "apnea", e.len = 9, d.body[e.start + 1] = 250 PROVE Says(d, e)
  BY ONLY <1>1 DEF Says, Kinds
<1>2. ASSUME e.kind = "mix", e.len >= 2, d.body[e.start + 1] = 251,
             e.len = 1 + d.body[e.start + 2], IsMix(d, e), e.mix = MixIn(d, e), e.v = e.mix.id
      PROVE  Says(d, e)
  BY ONLY <1>2 DEF Says, Kinds
<1>3. ASSUME e.kind = "misc", e.len >= 2, d.body[e.start + 1] = 251,
             e.len = 1 + d.body[e.start + 2], ~IsMix(d, e), e.v = d.body[e.start + 2]
      PROVE  Says(d, e)
  BY ONLY <1>3 DEF Says, Kinds
<1>4. QED
  BY ONLY <1>1, <1>2, <1>3

(* The signed number of a pattern of bits, and the pattern back.           *)
LEMMA SignedOf ==
  /\ \A y \in Nat : y < 16 => \E v \in Signed(4) : v % 2 ^ 4 = y
  /\ \A y \in Nat : y < 128 => \E v \in Signed(7) : v % 2 ^ 7 = y
  /\ \A y \in Nat : y < 65536 => \E v \in Signed(16) : v % 2 ^ 16 = y
<1>1. 2 ^ (4 - 1) = 8 /\ 2 ^ (7 - 1) = 64 /\ 2 ^ (16 - 1) = 32768
  OBVIOUS
<1>2. ASSUME NEW y \in Nat, y < 16 PROVE \E v \in Signed(4) : v % 2 ^ 4 = y
  <2>1. Signed(4) = -8 .. 8 - 1
    BY ONLY <1>1 DEF Signed
  <2>2. PICK v \in Int : v = (IF y < 8 THEN y ELSE y - 16)
    BY ONLY <1>2
  <2>3. -8 <= v /\ v <= 7 /\ v % 16 = y
    BY ONLY <1>2, <2>2
  <2>4. v \in Signed(4)
    BY ONLY <2>1, <2>3, v \in Int
  <2>5. QED
    BY ONLY <2>3, <2>4, Powers
<1>3. ASSUME NEW y \in Nat, y < 128 PROVE \E v \in Signed(7) : v % 2 ^ 7 = y
  <2>1. Signed(7) = -64 .. 64 - 1
    BY ONLY <1>1 DEF Signed
  <2>2. PICK v \in Int : v = (IF y < 64 THEN y ELSE y - 128)
    BY ONLY <1>3
  <2>3. -64 <= v /\ v <= 63 /\ v % 128 = y
    BY ONLY <1>3, <2>2
  <2>4. v \in Signed(7)
    BY ONLY <2>1, <2>3, v \in Int
  <2>5. QED
    BY ONLY <2>3, <2>4, Powers
<1>4. ASSUME NEW y \in Nat, y < 65536 PROVE \E v \in Signed(16) : v % 2 ^ 16 = y
  <2>1. PICK c \in Int : c = 32768
    BY SMT
  <2>2. Signed(16) = -c .. c - 1
    BY ONLY <1>1, <2>1 DEF Signed
  <2>3. PICK v \in Int : v = (IF y < 32768 THEN y ELSE y - 65536)
    BY ONLY <1>4
  <2>4. -c <= v /\ v <= c - 1 /\ v % 65536 = y
    BY ONLY <1>4, <2>1, <2>3, SMT
  <2>5. v \in Signed(16)
    BY ONLY <2>2, <2>4, v \in Int, c \in Int
  <2>6. QED
    BY ONLY <2>4, <2>5, Powers
<1>5. QED
  BY ONLY <1>2, <1>3, <1>4

LEMMA UnsignedOf ==
  /\ \A y \in Nat : y < 16 => y \in Unsigned(4)
  /\ \A y \in Nat : y < 4096 => y \in Unsigned(12)
<1>1. 2 ^ 4 = 16 /\ 2 ^ 12 = 4096
  BY SMT
<1>2. ASSUME NEW y \in Nat, y < 16 PROVE y \in Unsigned(4)
  <2>1. Unsigned(4) = 0 .. 16 - 1
    BY ONLY <1>1 DEF Unsigned
  <2>2. QED
    BY ONLY <1>2, <2>1
<1>3. ASSUME NEW y \in Nat, y < 4096 PROVE y \in Unsigned(12)
  <2>1. PICK c \in Int : c = 4096
    BY SMT
  <2>2. Unsigned(12) = 0 .. c - 1
    BY ONLY <1>1, <2>1 DEF Unsigned
  <2>3. y <= c - 1
    BY ONLY <1>3, <2>1, SMT
  <2>4. QED
    BY ONLY <2>2, <2>3, y \in Nat, c \in Int
<1>4. QED
  BY ONLY <1>2, <1>3

(* Sample e is behind p bytes of the body, in full. *)
Whole(d, p, e) ==
  e.start = p /\ e.len \in Nat /\ e.len >= 1 /\ p + e.len <= Len(d.body) /\ Says(d, e)

HasWhole(d, p) == \E e : Whole(d, p, e)

LEMMA WholeOfOne ==
  ASSUME NEW d, NEW p, p \in Nat, d.body[p + 1] \in Nat, d.body[p + 1] < 240,
         Len(d.body) \in Nat, p + 1 <= Len(d.body)
  PROVE  HasWhole(d, p)
<1>1. PICK x \in Nat : x = d.body[p + 1] /\ x < 240
  OBVIOUS
<1>2. ASSUME NEW e, e.start = p, e.len = 1, Says(d, e) PROVE HasWhole(d, p)
  BY ONLY <1>2, p + 1 <= Len(d.body) DEF Whole, HasWhole
<1>3. CASE x < 128
  <2>1. PICK v \in Signed(7) : v % 2 ^ 7 = x
    BY ONLY <1>3, SignedOf, x \in Nat
  <2>2. PICK e : e.kind = "depth" /\ e.v = v /\ e.start = p /\ e.len = 1
    <3>1. PICK e : e = [kind |-> "depth", v |-> v, start |-> p, len |-> 1]
      OBVIOUS
    <3>2. e.kind = "depth" /\ e.v = v /\ e.start = p /\ e.len = 1
      BY ONLY <3>1
    <3>3. QED
      BY ONLY <3>2
  <2>3. Says(d, e)
    BY ONLY <2>1, <2>2, SaysOneByte, <1>1, v \in Signed(7)
  <2>4. QED
    BY ONLY <1>2, <2>2, <2>3
<1>4. CASE x \in (128 .. 159) \cup (208 .. 239)
  <2>1. PICK e : e.kind = "other" /\ e.v = x /\ e.start = p /\ e.len = 1
    <3>1. PICK e : e = [kind |-> "other", v |-> x, start |-> p, len |-> 1]
      OBVIOUS
    <3>2. e.kind = "other" /\ e.v = x /\ e.start = p /\ e.len = 1
      BY ONLY <3>1
    <3>3. QED
      BY ONLY <3>2
  <2>2. Says(d, e)
    BY ONLY <1>4, <2>1, SaysOneByte, <1>1
  <2>3. QED
    BY ONLY <1>2, <2>1, <2>2
<1>5. CASE 160 <= x /\ x < 176
  <2>1. PICK v \in Signed(4) : v % 2 ^ 4 = x - 160
    <3>1. x - 160 \in Nat /\ x - 160 < 16
      BY ONLY <1>5, x \in Nat
    <3>2. QED
      BY ONLY <3>1, SignedOf
  <2>2. PICK e : e.kind = "pressure" /\ e.v = v /\ e.start = p /\ e.len = 1
    <3>1. PICK e : e = [kind |-> "pressure", v |-> v, start |-> p, len |-> 1]
      OBVIOUS
    <3>2. e.kind = "pressure" /\ e.v = v /\ e.start = p /\ e.len = 1
      BY ONLY <3>1
    <3>3. QED
      BY ONLY <3>2
  <2>3. d.body[e.start + 1] = 160 + (e.v % 2 ^ 4)
    BY ONLY <2>1, <2>2, x \in Nat, <1>1
  <2>4. Says(d, e)
    BY ONLY <2>2, <2>3, SaysOneByte, v \in Signed(4)
  <2>5. QED
    BY ONLY <1>2, <2>2, <2>4
<1>6. CASE 176 <= x /\ x < 192
  <2>1. PICK v \in Signed(4) : v % 2 ^ 4 = x - 176
    <3>1. x - 176 \in Nat /\ x - 176 < 16
      BY ONLY <1>6, x \in Nat
    <3>2. QED
      BY ONLY <3>1, SignedOf
  <2>2. PICK e : e.kind = "temperature" /\ e.v = v /\ e.start = p /\ e.len = 1
    <3>1. PICK e : e = [kind |-> "temperature", v |-> v, start |-> p, len |-> 1]
      OBVIOUS
    <3>2. e.kind = "temperature" /\ e.v = v /\ e.start = p /\ e.len = 1
      BY ONLY <3>1
    <3>3. QED
      BY ONLY <3>2
  <2>3. d.body[e.start + 1] = 176 + (e.v % 2 ^ 4)
    BY ONLY <2>1, <2>2, x \in Nat, <1>1
  <2>4. Says(d, e)
    BY ONLY <2>2, <2>3, SaysOneByte, v \in Signed(4)
  <2>5. QED
    BY ONLY <1>2, <2>2, <2>4
<1>7. CASE 192 <= x /\ x < 208
  <2>1. PICK v \in Nat : v = x - 192 /\ v \in Unsigned(4)
    <3>1. x - 192 \in Nat /\ x - 192 < 16
      BY ONLY <1>7, x \in Nat
    <3>2. QED
      BY ONLY <3>1, UnsignedOf
  <2>2. PICK e : e.kind = "time" /\ e.v = v /\ e.start = p /\ e.len = 1
    <3>1. PICK e : e = [kind |-> "time", v |-> v, start |-> p, len |-> 1]
      OBVIOUS
    <3>2. e.kind = "time" /\ e.v = v /\ e.start = p /\ e.len = 1
      BY ONLY <3>1
    <3>3. QED
      BY ONLY <3>2
  <2>3. d.body[e.start + 1] = 192 + e.v
    BY ONLY <2>1, <2>2, x \in Nat, <1>1
  <2>4. Says(d, e)
    BY ONLY <2>1, <2>2, <2>3, SaysOneByte
  <2>5. QED
    BY ONLY <1>2, <2>2, <2>4
<1>8. QED
  BY ONLY <1>3, <1>4, <1>5, <1>6, <1>7, x \in Nat, <1>1

LEMMA WholeOfTwo ==
  ASSUME NEW d, NEW p, p \in Nat, d.body[p + 1] \in {240, 242, 247, 249},
         Len(d.body) \in Nat, p + 2 <= Len(d.body), d.trimix \in BOOLEAN
  PROVE  HasWhole(d, p)
<1>1. ASSUME NEW e, e.start = p, e.len = 2, Says(d, e) PROVE HasWhole(d, p)
  BY ONLY <1>1, p + 2 <= Len(d.body) DEF Whole, HasWhole
<1>2. PICK x, y : x = d.body[p + 1] /\ y = d.body[p + 2] /\ x \in {240, 242, 247, 249}
  OBVIOUS
<1>3. CASE x = 240
  <2>1. PICK e : e.kind = "gas" /\ e.v = (y \div 32) % 4 /\ e.start = p /\ e.len = 2
    <3>1. PICK e : e = [kind |-> "gas", v |-> (y \div 32) % 4, start |-> p, len |-> 2]
      OBVIOUS
    <3>2. e.kind = "gas" /\ e.v = (y \div 32) % 4 /\ e.start = p /\ e.len = 2
      BY ONLY <3>1
    <3>3. QED
      BY ONLY <3>2
  <2>2. Says(d, e)
    BY ONLY <1>3, <1>2, <2>1, SaysTwoBytes
  <2>3. QED
    BY ONLY <1>1, <2>1, <2>2
<1>4. CASE x = 249 /\ d.trimix
  <2>1. PICK e : e.kind = "gas" /\ e.v = y \div 16 /\ e.start = p /\ e.len = 2
    <3>1. PICK e : e = [kind |-> "gas", v |-> y \div 16, start |-> p, len |-> 2]
      OBVIOUS
    <3>2. e.kind = "gas" /\ e.v = y \div 16 /\ e.start = p /\ e.len = 2
      BY ONLY <3>1
    <3>3. QED
      BY ONLY <3>2
  <2>2. Says(d, e)
    BY ONLY <1>4, <1>2, <2>1, SaysTwoBytes
  <2>3. QED
    BY ONLY <1>1, <2>1, <2>2
<1>5. CASE x \in {242, 247}
  <2>1. PICK e : e.kind = "other" /\ e.v = x /\ e.start = p /\ e.len = 2
    <3>1. PICK e : e = [kind |-> "other", v |-> x, start |-> p, len |-> 2]
      OBVIOUS
    <3>2. e.kind = "other" /\ e.v = x /\ e.start = p /\ e.len = 2
      BY ONLY <3>1
    <3>3. QED
      BY ONLY <3>2
  <2>2. Says(d, e)
    BY ONLY <1>5, <1>2, <2>1, SaysTwoBytes
  <2>3. QED
    BY ONLY <1>1, <2>1, <2>2
<1>6. CASE x = 249 /\ ~d.trimix
  <2>1. PICK e : e.kind = "other" /\ e.v = x /\ e.start = p /\ e.len = 2
    <3>1. PICK e : e = [kind |-> "other", v |-> x, start |-> p, len |-> 2]
      OBVIOUS
    <3>2. e.kind = "other" /\ e.v = x /\ e.start = p /\ e.len = 2
      BY ONLY <3>1
    <3>3. QED
      BY ONLY <3>2
  <2>2. Says(d, e)
    BY ONLY <1>6, <1>2, <2>1, SaysTwoBytes
  <2>3. QED
    BY ONLY <1>1, <2>1, <2>2
<1>7. QED
  BY ONLY <1>2, <1>3, <1>4, <1>5, <1>6, d.trimix \in BOOLEAN

LEMMA WholeOfThree ==
  ASSUME NEW d, NEW p, p \in Nat, d.body[p + 1] \in {241, 243, 244, 245, 246, 248},
         d.body[p + 2] \in Byte, d.body[p + 3] \in Byte,
         Len(d.body) \in Nat, p + 3 <= Len(d.body), d.trimix \in BOOLEAN
  PROVE  HasWhole(d, p)
<1>1. ASSUME NEW e, e.start = p, e.len = 3, Says(d, e) PROVE HasWhole(d, p)
  BY ONLY <1>1, p + 3 <= Len(d.body) DEF Whole, HasWhole
<1>2. PICK x, w \in Nat : /\ x = d.body[p + 1] /\ x \in {241, 243, 244, 245, 246, 248}
                        /\ w = 256 * d.body[p + 2] + d.body[p + 3] /\ w < 65536
  <2>1. PICK y \in Nat, z \in Nat : /\ y = d.body[p + 2] /\ y <= 255
                                   /\ z = d.body[p + 3] /\ z <= 255
    BY ONLY ByteNat, d.body[p + 2] \in Byte, d.body[p + 3] \in Byte
  <2>2. 256 * y + z \in Nat /\ 256 * y + z < 65536
    BY ONLY <2>1, y \in Nat, z \in Nat
  <2>3. PICK w \in Nat : w = 256 * y + z /\ w < 65536
    BY ONLY <2>2
  <2>4. w = 256 * d.body[p + 2] + d.body[p + 3]
    BY ONLY <2>1, <2>3
  <2>5. QED
    BY ONLY <2>3, <2>4, d.body[p + 1] \in {241, 243, 244, 245, 246, 248}
<1>3. CASE x = 241
  <2>1. PICK e : e.kind = "absdepth" /\ e.v = w /\ e.start = p /\ e.len = 3
    <3>1. PICK e : e = [kind |-> "absdepth", v |-> w, start |-> p, len |-> 3]
      OBVIOUS
    <3>2. e.kind = "absdepth" /\ e.v = w /\ e.start = p /\ e.len = 3
      BY ONLY <3>1
    <3>3. QED
      BY ONLY <3>2
  <2>2. Says(d, e)
    BY ONLY <1>3, <1>2, w \in Nat, <2>1, SaysThreeBytes
  <2>3. QED
    BY ONLY <1>1, <2>1, <2>2
<1>4. CASE x = 248
  <2>1. PICK e : e.kind = "other" /\ e.v = w /\ e.start = p /\ e.len = 3
    <3>1. PICK e : e = [kind |-> "other", v |-> w, start |-> p, len |-> 3]
      OBVIOUS
    <3>2. e.kind = "other" /\ e.v = w /\ e.start = p /\ e.len = 3
      BY ONLY <3>1
    <3>3. QED
      BY ONLY <3>2
  <2>2. Says(d, e)
    BY ONLY <1>4, <1>2, w \in Nat, <2>1, SaysThreeBytes
  <2>3. QED
    BY ONLY <1>1, <2>1, <2>2
<1>5. CASE x = 243
  <2>1. PICK v \in Signed(16) : v % 2 ^ 16 = w
    BY ONLY <1>2, SignedOf, w \in Nat
  <2>2. PICK e : e.kind = "abstemperature" /\ e.v = v /\ e.start = p /\ e.len = 3
    <3>1. PICK e : e = [kind |-> "abstemperature", v |-> v, start |-> p, len |-> 3]
      OBVIOUS
    <3>2. e.kind = "abstemperature" /\ e.v = v /\ e.start = p /\ e.len = 3
      BY ONLY <3>1
    <3>3. QED
      BY ONLY <3>2
  <2>3. Says(d, e)
    BY ONLY <1>5, <1>2, w \in Nat, <2>1, v \in Signed(16), <2>2, SaysThreeBytes
  <2>4. QED
    BY ONLY <1>1, <2>2, <2>3
<1>6. CASE x \in 244 .. 246 /\ d.trimix
  <2>1. PICK v \in Unsigned(12), t \in Unsigned(4) : w = 4096 * t + v
    <3>1. PICK v \in Nat, t \in Nat : v = w % 4096 /\ t = w \div 4096
      BY ONLY w \in Nat
    <3>2. v < 4096 /\ t < 16 /\ w = 4096 * t + v
      BY ONLY <1>2, <3>1, w \in Nat
    <3>3. v \in Unsigned(12) /\ t \in Unsigned(4)
      BY ONLY <3>2, UnsignedOf, v \in Nat, t \in Nat
    <3>4. QED
      BY ONLY <3>2, <3>3
  <2>2. PICK e : e.kind = "abspressure" /\ e.v = v /\ e.tank = t /\ e.start = p /\ e.len = 3
    <3>1. PICK e : e = [kind |-> "abspressure", v |-> v, tank |-> t, start |-> p, len |-> 3]
      OBVIOUS
    <3>2. e.kind = "abspressure" /\ e.v = v /\ e.tank = t /\ e.start = p /\ e.len = 3
      BY ONLY <3>1
    <3>3. QED
      BY ONLY <3>2
  <2>3. Says(d, e)
    BY ONLY <1>6, <1>2, w \in Nat, <2>1, <2>2, SaysThreeBytes
  <2>4. QED
    BY ONLY <1>1, <2>2, <2>3
<1>7. CASE x \in 244 .. 246 /\ ~d.trimix
  <2>1. PICK e : e.kind = "abspressure" /\ e.v = w /\ e.tank = x - 244 /\ e.start = p /\ e.len = 3
    <3>1. PICK e : e = [kind |-> "abspressure", v |-> w, tank |-> x - 244, start |-> p, len |-> 3]
      OBVIOUS
    <3>2. e.kind = "abspressure" /\ e.v = w /\ e.tank = x - 244 /\ e.start = p /\ e.len = 3
      BY ONLY <3>1
    <3>3. QED
      BY ONLY <3>2
  <2>2. Says(d, e)
    BY ONLY <1>7, <1>2, w \in Nat, <2>1, SaysThreeBytes
  <2>3. QED
    BY ONLY <1>1, <2>1, <2>2
<1>8. QED
  BY ONLY <1>2, <1>3, <1>4, <1>5, <1>6, <1>7, d.trimix \in BOOLEAN

LEMMA WholeOfMore ==
  ASSUME NEW d, NEW p, p \in Nat, Len(d.body) \in Nat
  PROVE  /\ d.body[p + 1] = 250 /\ p + 9 <= Len(d.body) => HasWhole(d, p)
         /\ /\ d.body[p + 1] = 251 /\ d.body[p + 2] \in Nat /\ d.body[p + 2] # 0
            /\ p + (1 + d.body[p + 2]) <= Len(d.body)
            => HasWhole(d, p)
<1>1. ASSUME d.body[p + 1] = 250, p + 9 <= Len(d.body) PROVE HasWhole(d, p)
  <2>1. PICK e : e.kind = "apnea" /\ e.v = 0 /\ e.start = p /\ e.len = 9
    <3>1. PICK e : e = [kind |-> "apnea", v |-> 0, start |-> p, len |-> 9]
      OBVIOUS
    <3>2. e.kind = "apnea" /\ e.v = 0 /\ e.start = p /\ e.len = 9
      BY ONLY <3>1
    <3>3. QED
      BY ONLY <3>2
  <2>2. Says(d, e)
    BY ONLY <1>1, <2>1, SaysMoreBytes
  <2>3. QED
    BY ONLY <1>1, <2>1, <2>2 DEF Whole, HasWhole
<1>2. ASSUME NEW y \in Nat, d.body[p + 1] = 251, y = d.body[p + 2], y # 0,
             p + (1 + y) <= Len(d.body)
      PROVE  HasWhole(d, p)
  <2>1. PICK l \in Nat : l = 1 + y /\ l >= 2
    <3>1. y # 0
      BY ONLY <1>2
    <3>2. 1 + y \in Nat /\ 1 + y >= 2
      BY ONLY <3>1, y \in Nat
    <3>3. QED
      BY ONLY <3>2
  <2>2. ASSUME NEW e, e.start = p, e.len = l, Says(d, e) PROVE HasWhole(d, p)
    <3>1. p + l <= Len(d.body)
      BY ONLY <1>2, <2>1
    <3>2. l >= 1
      BY ONLY <2>1, l \in Nat
    <3>3. Whole(d, p, e)
      BY ONLY <2>2, <3>1, <3>2, l \in Nat DEF Whole
    <3>4. QED
      BY ONLY <3>3 DEF HasWhole
  <2>3. PICK mix : mix = [id |-> d.body[p + 3] - 32, o2 |-> d.body[p + 4] + 256 * d.body[p + 5],
                          he |-> d.body[p + 6] + 256 * d.body[p + 7]]
    OBVIOUS
  <2>4. ASSUME NEW e, e.start = p PROVE MixIn(d, e) = mix
    BY ONLY <2>3, <2>4 DEF MixIn
  <2>5. PICK e : e.kind = "mix" /\ e.v = mix.id /\ e.mix = mix /\ e.start = p /\ e.len = l
    <3>1. PICK e : e = [kind |-> "mix", v |-> mix.id, mix |-> mix, start |-> p, len |-> l]
      OBVIOUS
    <3>2. e.kind = "mix" /\ e.v = mix.id /\ e.mix = mix /\ e.start = p /\ e.len = l
      BY ONLY <3>1
    <3>3. QED
      BY ONLY <3>2
  <2>6. PICK g : g.kind = "misc" /\ g.v = y /\ g.start = p /\ g.len = l
    <3>1. PICK g : g = [kind |-> "misc", v |-> y, start |-> p, len |-> l]
      OBVIOUS
    <3>2. g.kind = "misc" /\ g.v = y /\ g.start = p /\ g.len = l
      BY ONLY <3>1
    <3>3. QED
      BY ONLY <3>2
  <2>7. CASE IsMix(d, e)
    <3>1. d.body[e.start + 1] = 251 /\ e.len = 1 + d.body[e.start + 2] /\ e.len >= 2
      BY ONLY <1>2, <2>1, <2>5
    <3>2. e.mix = MixIn(d, e) /\ e.v = e.mix.id
      BY ONLY <2>4, <2>5
    <3>3. Says(d, e)
      BY ONLY <2>5, <2>7, <3>1, <3>2, SaysMoreBytes
    <3>4. QED
      BY ONLY <2>2, <2>5, <3>3
  <2>8. CASE ~IsMix(d, e)
    <3>1. ~IsMix(d, g)
      BY ONLY <2>4, <2>5, <2>6, <2>8 DEF IsMix
    <3>2. d.body[g.start + 1] = 251 /\ g.len = 1 + d.body[g.start + 2] /\ g.len >= 2
      BY ONLY <1>2, <2>1, <2>6
    <3>3. g.v = d.body[g.start + 2]
      BY ONLY <1>2, <2>6
    <3>4. Says(d, g)
      BY ONLY <2>6, <3>1, <3>2, <3>3, SaysMoreBytes
    <3>5. QED
      BY ONLY <2>2, <2>6, <3>4
  <2>9. QED
    BY ONLY <2>7, <2>8
<1>3. QED
  BY ONLY <1>1, <1>2

LEMMA WholeThere ==
  ASSUME NEW d, d.body \in Seq(Byte), d.trimix \in BOOLEAN,
         NEW p \in 0 .. Len(d.body), ~Broken(d, p)
  PROVE  HasWhole(d, p)
<1>1. PICK m \in Nat : m = Len(d.body)
  BY ONLY d.body \in Seq(Byte)
<1>2. p \in Nat /\ p <= m /\ p # m /\ d.body[p + 1] <= 251 /\ p + Needs(d, p) <= m
      /\ ~(d.body[p + 1] = 251 /\ d.body[p + 2] = 0)
  <2>1. p \in Nat /\ p <= m
    BY ONLY <1>1, p \in 0 .. Len(d.body)
  <2>2. p # m /\ ~(d.body[p + 1] > 251) /\ ~(p + Needs(d, p) > m)
        /\ ~(d.body[p + 1] = 251 /\ d.body[p + 2] = 0)
    BY ONLY <1>1, ~Broken(d, p) DEF Broken
  <2>3. d.body[p + 1] \in Nat
    <3>1. p + 1 \in 1 .. Len(d.body)
      BY ONLY <1>1, <2>1, <2>2
    <3>2. d.body[p + 1] \in Byte
      BY ONLY <3>1, d.body \in Seq(Byte)
    <3>3. QED
      BY ONLY <3>2, ByteNat
  <2>4. Needs(d, p) \in Int
    <3>1. p + 2 <= Len(d.body) => d.body[p + 2] \in Nat
      <4>1. ASSUME p + 2 <= Len(d.body) PROVE d.body[p + 2] \in Nat
        <5>1. p + 2 \in 1 .. Len(d.body)
          BY ONLY <1>1, <2>1, <4>1
        <5>2. d.body[p + 2] \in Byte
          BY ONLY <5>1, d.body \in Seq(Byte)
        <5>3. QED
          BY ONLY <5>2, ByteNat
      <4>2. QED
        BY ONLY <4>1
    <3>2. PICK b : b = d.body[p + 1]
      OBVIOUS
    <3>3. CASE p + 2 <= Len(d.body)
      <4>1. PICK y \in Nat : y = d.body[p + 2]
        BY ONLY <3>1, <3>3
      <4>2. Needs(d, p) \in {1, 2, 3, 9, 1 + y}
        BY ONLY <3>2, <3>3, <4>1 DEF Needs
      <4>3. QED
        BY ONLY <4>2, y \in Nat
    <3>4. CASE ~(p + 2 <= Len(d.body))
      <4>1. Needs(d, p) \in {1, 2, 3, 9}
        BY ONLY <3>2, <3>4 DEF Needs
      <4>2. QED
        BY ONLY <4>1
    <3>5. QED
      BY ONLY <3>3, <3>4
  <2>5. QED
    BY ONLY <2>1, <2>2, <2>3, <2>4
<1>3. ASSUME NEW k \in {1, 2, 3}, p + k <= m PROVE d.body[p + k] \in Byte
  <2>1. p + k \in 1 .. Len(d.body)
    BY ONLY <1>1, <1>2, <1>3, k \in {1, 2, 3}
  <2>2. QED
    BY ONLY <2>1, d.body \in Seq(Byte)
<1>4. p + 1 <= m
  BY ONLY <1>2, m \in Nat
<1>5. PICK x \in Nat : x = d.body[p + 1] /\ x <= 251
  <2>1. d.body[p + 1] \in Byte
    BY ONLY <1>3, <1>4
  <2>2. QED
    BY ONLY <1>2, <2>1, ByteNat
<1>6. p \in Nat /\ x = d.body[p + 1] /\ Len(d.body) \in Nat
  BY ONLY <1>1, <1>2, <1>5
<1>7. CASE x < 240
  <2>1. p + 1 <= Len(d.body)
    BY ONLY <1>1, <1>4
  <2>2. d.body[p + 1] \in Nat /\ d.body[p + 1] < 240
    BY ONLY <1>6, <1>7, x \in Nat
  <2>3. p \in Nat /\ Len(d.body) \in Nat
    BY ONLY <1>6
  <2>4. QED
    BY ONLY <2>1, <2>2, <2>3, WholeOfOne
<1>8. CASE x \in {240, 242, 247, 249}
  <2>1. Needs(d, p) = 2
    <3>1. ~(x < 240) /\ x = d.body[p + 1]
      BY ONLY <1>5, <1>8
    <3>2. x \notin {241, 243, 244, 245, 246, 248} /\ x # 250
      BY ONLY <1>8, x \in Nat
    <3>3. QED
      BY ONLY <1>8, <3>1, <3>2 DEF Needs
  <2>2. p + 2 <= m /\ p + 2 <= Len(d.body)
    BY ONLY <1>1, <1>2, <2>1
  <2>3. QED
    BY ONLY <1>6, <1>8, <2>2, d.trimix \in BOOLEAN, WholeOfTwo
<1>9. CASE x \in {241, 243, 244, 245, 246, 248}
  <2>1. Needs(d, p) = 3
    <3>1. ~(x < 240) /\ x = d.body[p + 1]
      BY ONLY <1>5, <1>9
    <3>2. QED
      BY ONLY <1>9, <3>1 DEF Needs
  <2>2. p + 3 <= m /\ p + 2 <= m /\ p + 3 <= Len(d.body)
    BY ONLY <1>1, <1>2, <2>1, m \in Nat
  <2>3. d.body[p + 2] \in Byte /\ d.body[p + 3] \in Byte
    BY ONLY <1>3, <2>2
  <2>4. QED
    BY ONLY <1>6, <1>9, <2>2, <2>3, d.trimix \in BOOLEAN, WholeOfThree
<1>10. CASE x = 250
  <2>1. Needs(d, p) = 9
    BY ONLY <1>5, <1>10 DEF Needs
  <2>2. p + 9 <= Len(d.body)
    BY ONLY <1>1, <1>2, <2>1
  <2>3. d.body[p + 1] = 250
    BY ONLY <1>6, <1>10
  <2>4. QED
    BY ONLY <1>6, <2>2, <2>3, WholeOfMore
<1>11. CASE x = 251
  <2>1. p + 2 <= Len(d.body)
    <3>1. ASSUME ~(p + 2 <= Len(d.body)) PROVE FALSE
      <4>1. Needs(d, p) = 2
        BY ONLY <1>5, <1>11, <3>1 DEF Needs
      <4>2. p + 2 <= Len(d.body)
        BY ONLY <1>1, <1>2, <4>1
      <4>3. QED
        BY ONLY <3>1, <4>2
    <3>2. QED
      BY ONLY <3>1
  <2>2. PICK y \in Nat : y = d.body[p + 2]
    <3>1. p + 2 <= m
      BY ONLY <1>1, <2>1
    <3>2. QED
      BY ONLY <1>3, <3>1, ByteNat
  <2>3. Needs(d, p) = 1 + y
    BY ONLY <1>5, <1>11, <2>1, <2>2 DEF Needs
  <2>4. p + (1 + y) <= Len(d.body)
    BY ONLY <1>1, <1>2, <2>3
  <2>5. y # 0
    BY ONLY <1>2, <1>5, <1>11, <2>2
  <2>6. d.body[p + 1] = 251 /\ d.body[p + 2] \in Nat /\ d.body[p + 2] # 0
        /\ p + (1 + d.body[p + 2]) <= Len(d.body)
    BY ONLY <1>6, <1>11, <2>2, <2>4, <2>5
  <2>7. QED
    BY ONLY <1>6, <2>6, WholeOfMore
<1>12. CASE ~(x < 240)
  <2>1. x <= 251
    BY ONLY <1>5
  <2>2. \/ x \in {240, 242, 247, 249}
        \/ x \in {241, 243, 244, 245, 246, 248}
        \/ x = 250
        \/ x = 251
    BY ONLY <1>12, <2>1, x \in Nat
  <2>3. QED
    BY ONLY <1>8, <1>9, <1>10, <1>11, <2>2
<1>13. QED
  BY ONLY <1>7, <1>12

(* Another record with the same bytes says the same.                       *)
LEMMA SameBytes ==
  ASSUME NEW c, NEW d, c.body = d.body, c.trimix = d.trimix
  PROVE  /\ \A e : Says(c, e) => Says(d, e)
         /\ \A p : Broken(c, p) <=> Broken(d, p)
         /\ \A p, e : Whole(c, p, e) <=> Whole(d, p, e)
<1>1. \A e : Says(c, e) <=> Says(d, e)
  BY ONLY c.body = d.body, c.trimix = d.trimix DEF Says, IsMix, MixIn
<1>2. \A p : Needs(c, p) = Needs(d, p)
  BY ONLY c.body = d.body DEF Needs
<1>3. \A p : Broken(c, p) <=> Broken(d, p)
  BY ONLY <1>2, c.body = d.body DEF Broken
<1>4. \A p, e : Whole(c, p, e) <=> Whole(d, p, e)
  BY ONLY <1>1, c.body = d.body DEF Whole
<1>5. QED
  BY ONLY <1>1, <1>3, <1>4

(* Samples one behind the other from the start of the body, each in full. *)
Chain(c) ==
  /\ c.written \in Seq(Range(c.written))
  /\ \A i \in 0 .. Len(c.written) : EndOf(c, i) \in 0 .. Len(c.body)
  /\ \A i \in DOMAIN c.written : Whole(c, EndOf(c, i - 1), c.written[i])

LEMMA ChainFrom ==
  ASSUME NEW c, NEW d, d.body = c.body, d.trimix = c.trimix, d.body \in Seq(Byte),
         c.written = <<>>, Len(d.body) \in Nat
  PROVE  Chain(c) /\ EndOf(c, Len(c.written)) = 0
<1>1. Len(c.written) = 0 /\ DOMAIN c.written = {}
  BY ONLY c.written = <<>>
<1>2. EndOf(c, 0) = 0
  BY DEF EndOf
<1>3. \A i \in 0 .. Len(c.written) : EndOf(c, i) \in 0 .. Len(c.body)
  BY ONLY <1>1, <1>2, d.body = c.body, Len(d.body) \in Nat
<1>4. c.written \in Seq(Range(c.written))
  BY ONLY c.written = <<>>
<1>5. QED
  BY ONLY <1>1, <1>2, <1>3, <1>4 DEF Chain

LEMMA ChainOn ==
  ASSUME NEW b, NEW c, b.body = c.body, b.trimix = c.trimix, Len(b.body) \in Nat, Chain(b),
         NEW e, Whole(b, EndOf(b, Len(b.written)), e), c.written = Append(b.written, e)
  PROVE  /\ Chain(c) /\ Len(c.written) = Len(b.written) + 1
         /\ EndOf(c, Len(c.written)) >= EndOf(b, Len(b.written)) + 1
<1>1. PICK m \in Nat : m = Len(b.written)
  BY DEF Chain
<1>2. b.written \in Seq(Range(b.written)) /\ DOMAIN b.written = 1 .. m
  BY <1>1 DEF Chain
<1>3. /\ Len(c.written) = m + 1 /\ DOMAIN c.written = 1 .. m + 1
      /\ \A i \in 1 .. m : c.written[i] = b.written[i]
      /\ c.written[m + 1] = e
  <2>1. PICK S : S = Range(b.written) \cup {e}
    OBVIOUS
  <2>2. b.written \in Seq(S) /\ e \in S
    BY ONLY <1>2, <2>1
  <2>3. QED
    BY ONLY <1>1, <1>2, <2>2, m \in Nat, c.written = Append(b.written, e)
<1>4. \A i \in 0 .. m : EndOf(c, i) = EndOf(b, i)
  BY ONLY <1>3, m \in Nat DEF EndOf
<1>5. PICK p \in 0 .. Len(b.body) : p = EndOf(b, m)
  BY ONLY <1>1, m \in Nat, Chain(b) DEF Chain
<1>6. e.start = p /\ e.len \in Nat /\ e.len >= 1 /\ p + e.len <= Len(b.body)
  BY ONLY <1>1, <1>5, Whole(b, EndOf(b, Len(b.written)), e) DEF Whole
<1>7. EndOf(c, m + 1) = p + e.len
  <2>1. m + 1 # 0
    BY ONLY m \in Nat
  <2>2. QED
    BY ONLY <1>3, <1>6, <2>1 DEF EndOf
<1>8. ASSUME NEW i \in 0 .. m + 1 PROVE EndOf(c, i) \in 0 .. Len(c.body)
  <2>1. CASE i = m + 1
    BY ONLY <1>6, <1>7, <2>1, b.body = c.body, Len(b.body) \in Nat, p \in 0 .. Len(b.body)
  <2>2. CASE i # m + 1
    <3>1. i \in 0 .. m
      BY ONLY <2>2, m \in Nat, i \in 0 .. m + 1
    <3>2. QED
      BY ONLY <1>1, <1>4, <3>1, b.body = c.body, Chain(b) DEF Chain
  <2>3. QED
    BY ONLY <2>1, <2>2
<1>9. ASSUME NEW i \in 1 .. m + 1 PROVE Whole(c, EndOf(c, i - 1), c.written[i])
  <2>1. CASE i = m + 1
    <3>1. i - 1 = m /\ m \in 0 .. m
      BY ONLY <2>1, m \in Nat
    <3>2. EndOf(c, i - 1) = EndOf(b, m) /\ c.written[i] = e
      BY ONLY <1>3, <1>4, <2>1, <3>1
    <3>3. Whole(b, EndOf(b, m), e)
      BY ONLY <1>1, Whole(b, EndOf(b, Len(b.written)), e)
    <3>4. QED
      BY ONLY <3>2, <3>3, b.body = c.body, b.trimix = c.trimix, SameBytes
  <2>2. CASE i # m + 1
    <3>1. i \in 1 .. m /\ i - 1 \in 0 .. m
      BY ONLY <2>2, m \in Nat, i \in 1 .. m + 1
    <3>2. EndOf(c, i - 1) = EndOf(b, i - 1) /\ c.written[i] = b.written[i]
      BY ONLY <1>3, <1>4, <3>1
    <3>3. Whole(b, EndOf(b, i - 1), b.written[i])
      BY ONLY <1>2, <3>1, Chain(b) DEF Chain
    <3>4. QED
      BY ONLY <3>2, <3>3, b.body = c.body, b.trimix = c.trimix, SameBytes
  <2>3. QED
    BY ONLY <2>1, <2>2
<1>10. c.written \in Seq(Range(c.written))
  <2>1. c.written = [i \in 1 .. m + 1 |-> c.written[i]]
    <3>1. PICK S : b.written \in Seq(S) /\ e \in S
      <4>1. PICK S : S = Range(b.written) \cup {e}
        OBVIOUS
      <4>2. b.written \in Seq(S) /\ e \in S
        BY ONLY <1>2, <4>1
      <4>3. QED
        BY ONLY <4>2
    <3>2. c.written \in Seq(S)
      BY ONLY <3>1, c.written = Append(b.written, e)
    <3>3. QED
      BY ONLY <1>3, <3>2
  <2>2. \A i \in 1 .. m + 1 : c.written[i] \in Range(c.written)
    BY ONLY <1>3 DEF Range
  <2>3. m + 1 \in Nat
    BY ONLY m \in Nat
  <2>4. QED
    BY ONLY <2>1, <2>2, <2>3
<1>11. Chain(c)
  BY ONLY <1>3, <1>8, <1>9, <1>10 DEF Chain
<1>12. EndOf(c, Len(c.written)) >= EndOf(b, Len(b.written)) + 1
  BY ONLY <1>1, <1>3, <1>5, <1>6, <1>7, p \in 0 .. Len(b.body), Len(b.body) \in Nat
<1>13. QED
  BY ONLY <1>1, <1>3, <1>11, <1>12

(* Whatever the bytes behind the header are, there are samples that they   *)
(* encode: what is proved of encoded records is proved of the parser on    *)
(* any bytes.                                                              *)
THEOREM AnyBytesEncode ==
  ASSUME NEW body \in Seq(Byte), NEW trimix \in BOOLEAN
  PROVE  \E w : \A d : d.body = body /\ d.trimix = trimix /\ d.written = w => Encoded(d)
<1> DEFINE R(w) == [body |-> body, trimix |-> trimix, written |-> w]
           Far(w) == EndOf(R(w), Len(w))
           Ends(w) == Broken(R(w), Far(w))
           I == {k \in Nat : \E w : /\ Chain(R(w)) /\ Len(w) \in Nat /\ Far(w) >= Len(w)
                                    /\ Len(w) = k \/ Ends(w)}
<1>1. \A w : R(w).body = body /\ R(w).trimix = trimix /\ R(w).written = w
  OBVIOUS
<1>2. Len(body) \in Nat
  OBVIOUS
<1>3. ASSUME NEW w, Chain(R(w)) PROVE Far(w) \in 0 .. Len(body) /\ Len(w) \in Nat
  <2>1. w \in Seq(Range(w)) /\ \A i \in 0 .. Len(w) : EndOf(R(w), i) \in 0 .. Len(body)
    BY <1>1, <1>3 DEF Chain
  <2>2. Len(w) \in Nat
    BY ONLY <2>1
  <2>3. Len(w) \in 0 .. Len(w)
    BY ONLY <2>2
  <2>4. QED
    BY <2>1, <2>2, <2>3
<1> HIDE DEF R
<1>4. 0 \in I
  <2>1. PICK w : w = <<>>
    OBVIOUS
  <2>2. R(w).written = <<>> /\ R(w).body = body
    BY ONLY <1>1, <2>1
  <2>3. R(w).body \in Seq(Byte) /\ Len(R(w).body) \in Nat
    BY <1>2, <2>2
  <2>4. Chain(R(w)) /\ EndOf(R(w), Len(R(w).written)) = 0
    BY ONLY <2>2, <2>3, ChainFrom
  <2>5. Len(w) = 0
    BY ONLY <2>1
  <2>6. Far(w) = 0
    BY ONLY <1>1, <2>4
  <2>7. QED
    BY ONLY <2>4, <2>5, <2>6
<1>5. \A k \in Nat : k \in I => k + 1 \in I
  <2>1. SUFFICES ASSUME NEW k \in Nat, k \in I PROVE k + 1 \in I
    OBVIOUS
  <2>2. PICK w : Chain(R(w)) /\ Len(w) \in Nat /\ Far(w) >= Len(w) /\ (Len(w) = k \/ Ends(w))
    BY ONLY <2>1
  <2>3. k + 1 \in Nat
    BY ONLY k \in Nat
  <2>4. CASE Ends(w)
    BY ONLY <2>2, <2>3, <2>4
  <2>5. CASE ~Ends(w)
    <3>1. Far(w) \in 0 .. Len(body) /\ Len(w) = k
      BY ONLY <1>3, <2>2, <2>5
    <3>2. PICK p : p = Far(w)
      OBVIOUS
    <3>3. p \in 0 .. Len(R(w).body) /\ ~Broken(R(w), p)
      BY ONLY <1>1, <2>5, <3>1, <3>2
    <3>4. R(w).body \in Seq(Byte) /\ R(w).trimix \in BOOLEAN
      BY ONLY <1>1, body \in Seq(Byte), trimix \in BOOLEAN
    <3>5. PICK e : Whole(R(w), p, e)
      BY ONLY <3>3, <3>4, WholeThere DEF HasWhole
    <3>6. PICK v : v = Append(w, e)
      OBVIOUS
    <3>7. /\ R(w).body = R(v).body /\ R(w).trimix = R(v).trimix /\ Len(R(w).body) \in Nat
          /\ R(v).written = Append(R(w).written, e)
      BY ONLY <1>1, <1>2, <3>6
    <3>8. Whole(R(w), EndOf(R(w), Len(R(w).written)), e)
      BY ONLY <1>1, <3>2, <3>5
    <3>9. /\ Chain(R(v)) /\ Len(R(v).written) = Len(R(w).written) + 1
          /\ EndOf(R(v), Len(R(v).written)) >= EndOf(R(w), Len(R(w).written)) + 1
      BY ONLY <2>2, <3>7, <3>8, ChainOn
    <3>10. Len(v) = k + 1 /\ Far(v) >= Far(w) + 1
      BY ONLY <1>1, <3>1, <3>9
    <3>11. Far(v) \in 0 .. Len(body)
      BY ONLY <1>3, <3>9
    <3>12. Far(v) >= Len(v)
      BY ONLY <1>2, <2>2, <3>1, <3>10, <3>11, k \in Nat
    <3>13. QED
      BY ONLY <2>3, <3>9, <3>10, <3>12
  <2>6. QED
    BY ONLY <2>4, <2>5
<1>6. Len(body) + 1 \in I
  <2> HIDE DEF I
  <2>1. Len(body) + 1 \in Nat
    BY ONLY <1>2
  <2>2. QED
    BY ONLY <1>4, <1>5, <2>1, SetInduction
<1>7. PICK w : /\ Chain(R(w)) /\ Len(w) \in Nat /\ Far(w) >= Len(w)
               /\ Len(w) = Len(body) + 1 \/ Ends(w)
  BY ONLY <1>6
<1>8. Ends(w)
  <2>1. Far(w) \in 0 .. Len(body)
    BY ONLY <1>3, <1>7
  <2>2. ~(Len(w) = Len(body) + 1)
    BY ONLY <1>2, <1>7, <2>1
  <2>3. QED
    BY ONLY <1>7, <2>2
<1>9. ASSUME NEW d, d.body = body, d.trimix = trimix, d.written = w PROVE Encoded(d)
  <2>1. R(w).body = d.body /\ R(w).trimix = d.trimix /\ R(w).written = d.written
    BY ONLY <1>1, <1>9
  <2>2. \A i : EndOf(d, i) = EndOf(R(w), i)
    BY ONLY <2>1 DEF EndOf
  <2>3. Broken(d, EndOf(d, Len(d.written)))
    BY ONLY <1>1, <1>8, <2>1, <2>2, SameBytes
  <2>4. /\ d.written \in Seq(Range(d.written))
        /\ \A i \in 0 .. Len(d.written) : EndOf(d, i) \in 0 .. Len(d.body)
        /\ \A i \in DOMAIN d.written : Whole(d, EndOf(d, i - 1), d.written[i])
    <3>1. \A p, e : Whole(R(w), p, e) <=> Whole(d, p, e)
      BY ONLY <2>1, SameBytes
    <3>2. QED
      BY ONLY <1>7, <2>1, <2>2, <3>1 DEF Chain
  <2>5. QED
    BY ONLY <2>3, <2>4 DEF Encoded, Whole
<1>10. QED
  BY ONLY <1>9
=============================================================================
