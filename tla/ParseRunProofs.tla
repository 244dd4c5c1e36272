--------------------------- MODULE ParseRunProofs ---------------------------
(***************************************************************************)
(* From the dump to the file.  What extract_dives returns is sound for     *)
(* every dump: the proof behind RecordsApart of DumpExtract; and complete: *)
(* every record of a whole dump is found, as far as no dive holds the      *)
(* marker, and a dump that breaks off loses what CutRecordCosts says.  And *)
(* what run_parse saves is what was asked for, for every dump and every    *)
(* filter: the proofs behind NumbersKept, FileIsSelection and              *)
(* PrintedIsCalendar of ParseRun.                                          *)
(*                                                                         *)
(* First the scan.  Then the calendar: civil and unix_from_civil are       *)
(* inverse to each other between all times and all dates, the day after is *)
(* the date after, and the order of dates is that of their times.  Then    *)
(* the lists of dives and what the filters leave of them.  Then the run.   *)
(***************************************************************************)
EXTENDS ParseRun, FiniteSetTheorems, SequenceTheorems, TLAPS

-----------------------------------------------------------------------------
(* The locals of the scan: every marker the loop looks at begins at least  *)
(* four bytes before the end of the dump.                                  *)
ScanInv ==
  /\ dump \in Dumps
  /\ previous \in 0 .. size
  /\ current \in 0 .. Less4(size)
  /\ records \in Seq(Extent)
  /\ RecordsApart

(* A length that is read from four bytes of a dump is a natural number.    *)
LEMMA LengthNat ==
  ASSUME dump \in Dumps, NEW p \in Nat, p + 4 <= size
  PROVE  u32_le(dump.data, p) \in Nat
<1>1. dump.data \in Seq(Byte)
  BY DumpAssumption
<1> DEFINE a == dump.data[p + 1]  b == dump.data[p + 2]
           c == dump.data[p + 3]  d == dump.data[p + 4]
<1>2. a \in Byte /\ b \in Byte /\ c \in Byte /\ d \in Byte
  <2>1. p + 1 \in 1 .. Len(dump.data) /\ p + 2 \in 1 .. Len(dump.data)
        /\ p + 3 \in 1 .. Len(dump.data) /\ p + 4 \in 1 .. Len(dump.data)
    BY <1>1 DEF size
  <2>2. QED
    BY <2>1, <1>1
<1> HIDE DEF a, b, c, d
<1>3. a \in Nat /\ b \in Nat /\ c \in Nat /\ d \in Nat
  BY <1>2 DEF Byte
<1>4. a + 256 * b + 65536 * c + 16777216 * d \in Nat
  BY <1>3
<1>5. QED
  BY <1>4 DEF u32_le, a, b, c, d

(* Prepending to a sequence moves the others up by one.                    *)
LEMMA Prepended ==
  ASSUME NEW s \in Seq(Extent), NEW e \in Extent
  PROVE  /\ <<e>> \o s \in Seq(Extent)
         /\ Len(<<e>> \o s) = Len(s) + 1
         /\ (<<e>> \o s)[1] = e
         /\ \A i \in 2 .. Len(s) + 1 : (<<e>> \o s)[i] = s[i - 1]
OBVIOUS

(* The scan starts with nothing found.                                     *)
LEMMA ScanInit == DumpInit => ScanInv
<1> SUFFICES ASSUME DumpInit PROVE ScanInv
  OBVIOUS
<1>1. dump.data \in Seq(Byte)
  BY DumpAssumption DEF DumpInit
<1>2. size \in Nat
  BY <1>1 DEF size
<1>3. RecordsApart /\ records \in Seq(Extent)
  BY DEF DumpInit, RecordsApart
<1>4. QED
  BY <1>2, <1>3 DEF DumpInit, ScanInv, Less4

(* A record that fits lies before the ones found so far.                   *)
LEMMA FoundStep == ScanInv /\ Found => ScanInv'
<1> SUFFICES ASSUME ScanInv, Found PROVE ScanInv'
  OBVIOUS
<1> DEFINE start == current - 1
           len   == u32_le(dump.data, start + 4)
           e     == [start |-> start, len |-> len]
<1>1. size \in Nat
  BY DumpAssumption DEF ScanInv, size
<1>2. start \in Nat /\ MarkerAt(dump.data, start) /\ start + 8 <= size /\ len >= 8
      /\ start + len <= previous
  BY <1>1 DEF ScanInv, Found, LengthIn, Fits, Less4
<1>3. len \in Nat
  BY <1>2, LengthNat DEF ScanInv
<1>4. /\ records' = <<e>> \o records /\ previous' = start
      /\ current' = Less4(start) /\ dump' = dump /\ pc' = pc /\ size' = size
  BY DEF Found, size
<1>5. /\ records' \in Seq(Extent) /\ Len(records') = Len(records) + 1
      /\ records'[1] = e
      /\ \A i \in 2 .. Len(records) + 1 : records'[i] = records[i - 1]
  <2>1. e \in Extent
    BY <1>2, <1>3 DEF Extent
  <2>2. QED
    BY <2>1, <1>4, Prepended DEF ScanInv
<1> HIDE DEF e, len, start
<1>6. e.start = start /\ e.len = len
  BY DEF e
<1>7. \A i \in 1 .. Len(records) :
        /\ records[i] \in Extent
        /\ records[i].start >= start + len
        /\ records[i].start + records[i].len <= size
        /\ records[i].len >= 8 /\ MarkerAt(dump.data, records[i].start)
        /\ records[i].len = u32_le(dump.data, records[i].start + 4)
  <2> TAKE i \in 1 .. Len(records)
  <2>1. records[i] \in Extent
    BY DEF ScanInv
  <2>2. /\ records[i].len >= 8 /\ records[i].start >= previous
        /\ records[i].start + records[i].len <= size
        /\ MarkerAt(dump.data, records[i].start)
        /\ records[i].len = u32_le(dump.data, records[i].start + 4)
    BY DEF ScanInv, RecordsApart
  <2>3. previous \in Nat /\ records[i].start \in Nat
    BY <2>1, <1>1 DEF ScanInv, Extent
  <2>4. QED
    BY <2>1, <2>2, <2>3, <1>2, <1>3
<1>8. RecordsApart'
  <2>1. ASSUME NEW i \in 1 .. Len(records')
        PROVE  /\ records'[i].len >= 8 /\ records'[i].start >= start
               /\ records'[i].start + records'[i].len <= size
               /\ MarkerAt(dump.data, records'[i].start)
               /\ records'[i].len = u32_le(dump.data, records'[i].start + 4)
    <3>1. CASE i = 1
      <4>1. start + len <= size
        BY <1>1, <1>2, <1>3 DEF ScanInv
      <4>2. len = u32_le(dump.data, start + 4)
        BY DEF len
      <4>3. QED
        BY <3>1, <4>1, <4>2, <1>2, <1>5, <1>6
    <3>2. CASE i > 1
      <4>1. i - 1 \in 1 .. Len(records) /\ records'[i] = records[i - 1]
        BY <3>2, <1>5 DEF ScanInv
      <4>2. records[i - 1].start \in Nat
        BY <4>1, <1>7 DEF Extent
      <4>3. records[i - 1].start >= start
        BY <4>1, <4>2, <1>2, <1>3, <1>7
      <4>4. QED
        BY <4>1, <4>3, <1>7
    <3>3. QED
      BY <3>1, <3>2 DEF ScanInv
  <2>2. ASSUME NEW i \in 1 .. Len(records'), NEW j \in 1 .. Len(records'), i < j
        PROVE  records'[i].start + records'[i].len <= records'[j].start
    <3>1. j - 1 \in 1 .. Len(records) /\ records'[j] = records[j - 1]
      BY <2>2, <1>5 DEF ScanInv
    <3>2. CASE i = 1
      BY <3>1, <3>2, <1>5, <1>6, <1>7
    <3>3. CASE i > 1
      <4>1. i - 1 \in 1 .. Len(records) /\ records'[i] = records[i - 1] /\ i - 1 < j - 1
        BY <2>2, <3>3, <1>5 DEF ScanInv
      <4>2. QED
        BY <3>1, <4>1 DEF ScanInv, RecordsApart
    <3>4. QED
      BY <3>2, <3>3
  <2>3. /\ \A i \in 1 .. Len(records') :
             LET r == records'[i] IN
               /\ r.len >= 8 /\ r.start >= previous' /\ r.start + r.len <= size'
               /\ MarkerAt(dump.data, r.start) /\ r.len = u32_le(dump.data, r.start + 4)
        /\ \A i, j \in 1 .. Len(records') : i < j =>
             records'[i].start + records'[i].len <= records'[j].start
    BY <2>1, <2>2, <1>4
  <2>4. dump' = dump
    BY <1>4
  <2>5. QED
    BY <2>3, <2>4 DEF RecordsApart
<1>9. previous' \in 0 .. size' /\ current' \in 0 .. Less4(size')
  BY <1>1, <1>2, <1>4 DEF Less4
<1>10. QED
  BY <1>4, <1>5, <1>8, <1>9 DEF ScanInv

(* Every other step leaves what was found alone.                           *)
LEMMA OtherSteps ==
  ScanInv /\ (Skip \/ Malformed \/ LengthMissing \/ AtStart \/ UNCHANGED dumpVars)
    => ScanInv'
<1> SUFFICES ASSUME ScanInv, Skip \/ Malformed \/ LengthMissing \/ AtStart
                             \/ UNCHANGED dumpVars
             PROVE  ScanInv'
  OBVIOUS
<1>1. size \in Nat
  BY DumpAssumption DEF ScanInv, size
<1>2. /\ dump' = dump /\ previous' = previous /\ records' = records /\ size' = size
      /\ current' \in {current, current - 1} /\ current' >= 0
  BY <1>1 DEF ScanInv, Skip, Malformed, LengthMissing, AtStart, dumpVars, size, Less4
<1>3. RecordsApart'
  BY <1>2 DEF ScanInv, RecordsApart
<1>4. current' \in 0 .. Less4(size)
  BY <1>1, <1>2 DEF ScanInv, Less4
<1>5. QED
  BY <1>2, <1>3, <1>4 DEF ScanInv, Less4

(* ScanInv is an invariant of the scan of any dump.                        *)
THEOREM ScanCorrect == DumpSpec => []ScanInv
<1>1. ScanInv /\ [DumpNext]_dumpVars => ScanInv'
  BY FoundStep, OtherSteps DEF DumpNext
<1>2. QED
  BY ScanInit, <1>1, PTL DEF DumpSpec

(* extract_dives returns extents within the dump, in order and apart, each *)
(* at a marker and of the length that follows it, whatever bytes the dump  *)
(* holds.                                                                  *)
THEOREM ScanRecordsApart == DumpSpec => []RecordsApart
<1>1. ScanInv => RecordsApart
  BY DEF ScanInv
<1>2. QED
  BY ScanCorrect, <1>1, PTL

-----------------------------------------------------------------------------
(* The records that were written, found from the newest on.                *)

w == dump.written

(* The n oldest are whole, and the scan does not see the marker of any     *)
(* other: it begins within the last four bytes of the dump, or behind it.  *)
Reaches(n) ==
  /\ n \in 0 .. Len(w)
  /\ \A i \in 1 .. n : w[i].start + w[i].len <= size
  /\ \A j \in 1 .. Len(w) : j > n => w[j].start + 4 >= size

(* Of these n the scan has found all but the m oldest, and is past none of *)
(* those.                                                                  *)
Suffix(m, n) ==
  /\ pc = "scan"
  /\ Len(records) = n - m
  /\ \A i \in 1 .. Len(records) : records[i] = w[m + i]
  /\ previous = IF m = n THEN size ELSE w[m + 1].start
  /\ current <= previous
  /\ m >= 1 => w[m].start < current

Clean(m) == \A p \in Markers \ Starts : p < w[m].start

ExtractInv ==
  Whole /\ Markers = Starts =>
    \/ \E m \in 0 .. Len(w) : Suffix(m, Len(w))
    \/ pc = "done" /\ records = w

NewerInv ==
  Whole =>
    \A k \in 1 .. Len(w) : Clean(k) =>
      \/ \E m \in k .. Len(w) : Suffix(m, Len(w))
      \/ \E i \in 1 .. Len(records) : records[i] = w[k]

(* What the dump says of the records written, as far as it reaches.        *)
LEMMA WrittenFacts ==
  ASSUME dump \in Dumps
  PROVE  /\ size \in Nat /\ w \in Seq(Extent) /\ Len(w) \in Nat
         /\ DOMAIN w = 1 .. Len(w)
         /\ \A i \in 1 .. Len(w) :
              /\ w[i].start \in Nat /\ w[i].len \in Nat /\ w[i].len >= 8
              /\ w[i] = [start |-> w[i].start, len |-> w[i].len]
              /\ w[i].start + 4 <= size => MarkerAt(dump.data, w[i].start)
              /\ w[i].start + 8 <= size => w[i].len = u32_le(dump.data, w[i].start + 4)
         /\ \A i, j \in 1 .. Len(w) : i < j => w[i].start + w[i].len <= w[j].start
<1>1. /\ dump.data \in Seq(Byte) /\ w \in Seq(Extent)
      /\ \A i, j \in DOMAIN w : i < j => w[i].start + w[i].len <= w[j].start
      /\ \A i \in DOMAIN w :
           /\ w[i].len >= 8
           /\ w[i].start + 4 <= size => MarkerAt(dump.data, w[i].start)
           /\ w[i].start + 8 <= size => w[i].len = u32_le(dump.data, w[i].start + 4)
  BY DumpAssumption DEF size, w
<1>2. size \in Nat
  BY <1>1 DEF size
<1> HIDE DEF w
<1>3. DOMAIN w = 1 .. Len(w) /\ Len(w) \in Nat
  BY <1>1
<1>4. \A i \in 1 .. Len(w) :
        /\ w[i].start \in Nat /\ w[i].len \in Nat
        /\ w[i] = [start |-> w[i].start, len |-> w[i].len]
  <2>1. TAKE i \in 1 .. Len(w)
  <2>2. w[i] \in Extent
    BY <1>1
  <2>3. QED
    BY <2>2 DEF Extent
<1>5. QED
  BY <1>1, <1>2, <1>3, <1>4

(* A record that is whole has its marker and its length.                   *)
LEMMA WholeFacts ==
  ASSUME dump \in Dumps, NEW i \in 1 .. Len(w), w[i].start + w[i].len <= size
  PROVE  /\ MarkerAt(dump.data, w[i].start)
         /\ w[i].len = u32_le(dump.data, w[i].start + 4)
<1>1. w[i].start \in Nat /\ w[i].len \in Nat /\ w[i].len >= 8 /\ size \in Nat
  BY WrittenFacts
<1>2. w[i].start + 4 <= size /\ w[i].start + 8 <= size
  BY ONLY <1>1, w[i].start + w[i].len <= size
<1>3. QED
  BY <1>2, WrittenFacts

(* All records of a whole dump are.                                        *)
LEMMA WholeIsPart ==
  ASSUME dump \in Dumps, Whole
  PROVE  Reaches(Len(w))
<1>1. Len(w) \in Nat /\ DOMAIN w = 1 .. Len(w)
  BY WrittenFacts
<1>2. \A i \in DOMAIN w : w[i].start + w[i].len <= size
  BY DEF Whole, Complete, w, size
<1>3. Len(w) \in 0 .. Len(w) /\ \A j \in 1 .. Len(w) : ~(j > Len(w))
  BY ONLY <1>1
<1>4. QED
  BY ONLY <1>1, <1>2, <1>3 DEF Reaches

(* The starts ascend.                                                      *)
LEMMA StartsAscend ==
  ASSUME dump \in Dumps
  PROVE  \A i, j \in 1 .. Len(w) : i <= j => w[i].start <= w[j].start
<1> SUFFICES ASSUME NEW i \in 1 .. Len(w), NEW j \in 1 .. Len(w), i <= j
             PROVE  w[i].start <= w[j].start
  OBVIOUS
<1>1. w[i].start \in Nat /\ w[i].len \in Nat /\ w[j].start \in Nat
  BY WrittenFacts
<1>2. CASE i = j
  BY <1>1, <1>2
<1>3. CASE i < j
  <2>1. w[i].start + w[i].len <= w[j].start
    BY <1>3, WrittenFacts
  <2>2. QED
    BY <1>1, <2>1
<1>4. QED
  BY <1>2, <1>3

LEMMA StartsAre ==
  ASSUME dump \in Dumps
  PROVE  \A p : p \in Starts <=> \E j \in 1 .. Len(w) : p = w[j].start
<1>1. DOMAIN w = 1 .. Len(w)
  BY WrittenFacts
<1>2. QED
  BY <1>1 DEF Starts, w

(* A marker the scan can see is at one of the n, if it is not a stray one. *)
LEMMA MarkerOfPart ==
  ASSUME dump \in Dumps, NEW n, Reaches(n), NEW s \in Starts, s + 5 <= size
  PROVE  \E j \in 1 .. n : s = w[j].start
<1>1. PICK j \in 1 .. Len(w) : s = w[j].start
  BY StartsAre
<1>2. w[j].start \in Nat /\ size \in Nat /\ n \in Nat /\ Len(w) \in Nat
  BY WrittenFacts DEF Reaches
<1>3. ~(j > n)
  <2>1. SUFFICES ASSUME j > n PROVE FALSE
    OBVIOUS
  <2>2. w[j].start + 4 >= size
    BY <2>1 DEF Reaches
  <2>3. QED
    BY ONLY <1>1, <1>2, <2>2, s + 5 <= size
<1>4. QED
  BY <1>1, <1>2, <1>3

(* A turn of the scan with a written record still ahead passes it by or    *)
(* finds it, if no stray marker lies at or behind its start.               *)
LEMMA SuffixAdvances ==
  ASSUME ScanInv, NEW n, Reaches(n), NEW m \in 1 .. n, Suffix(m, n), Clean(m), DumpNext
  PROVE  Suffix(m, n)' \/ Suffix(m - 1, n)'
<1> DEFINE s == current - 1
<1>1. dump \in Dumps
  BY DEF ScanInv
<1>2. /\ size \in Nat /\ w \in Seq(Extent) /\ Len(w) \in Nat
      /\ n \in Nat /\ n <= Len(w) /\ m \in 1 .. Len(w)
      /\ w[m].start \in Nat /\ w[m].len \in Nat /\ w[m].len >= 8
      /\ w[m] = [start |-> w[m].start, len |-> w[m].len]
      /\ w[m].start + w[m].len <= size
      /\ MarkerAt(dump.data, w[m].start)
      /\ w[m].len = u32_le(dump.data, w[m].start + 4)
  <2>1. size \in Nat /\ w \in Seq(Extent) /\ Len(w) \in Nat
    BY <1>1, WrittenFacts
  <2>2. n \in Nat /\ n <= Len(w) /\ m \in 1 .. Len(w)
    BY <2>1 DEF Reaches
  <2>3. w[m].start + w[m].len <= size
    BY DEF Reaches
  <2>4. QED
    BY <2>1, <2>2, <2>3, <1>1, WrittenFacts, WholeFacts
<1>3. \A i, j \in 1 .. Len(w) : i < j => w[i].start + w[i].len <= w[j].start
  BY <1>1, WrittenFacts
<1>4. \A i, j \in 1 .. Len(w) : i <= j => w[i].start <= w[j].start
  BY <1>1, StartsAscend
<1>5. \A j \in 1 .. Len(w) : w[j].start \in Nat /\ w[j].len \in Nat /\ w[j].len >= 8
  BY <1>1, WrittenFacts
<1>6. /\ previous \in Nat /\ current \in Nat /\ current <= size - 4
      /\ s \in Nat /\ s >= w[m].start /\ current <= previous
      /\ s \in 0 .. size - 4
  BY <1>2 DEF ScanInv, Suffix, Less4
<1>7. dump' = dump /\ w' = w /\ size' = size
  BY DEF DumpNext, Skip, Found, Malformed, LengthMissing, AtStart, w, size
<1>8. CASE s = w[m].start
  <2>1. LengthIn(s)
    BY <1>2, <1>6, <1>8 DEF LengthIn
  <2>2. u32_le(dump.data, s + 4) = w[m].len /\ MarkerAt(dump.data, s)
    BY <1>2, <1>8
  <2>3. s + w[m].len <= previous
    <3>1. CASE m = n
      BY <3>1, <1>2, <1>8 DEF Suffix
    <3>2. CASE m # n
      <4>1. m + 1 \in 1 .. Len(w) /\ previous = w[m + 1].start
        BY <3>2, <1>2 DEF Suffix
      <4>2. QED
        BY <4>1, <1>3, <1>8
    <3>3. QED
      BY <3>1, <3>2
  <2>4. Fits(s, u32_le(dump.data, s + 4))
    BY <2>2, <2>3, <1>2 DEF Fits
  <2>5. Found
    BY <2>1, <2>2, <2>4, <1>6 DEF DumpNext, Skip, Malformed, LengthMissing, AtStart
  <2>6. /\ records' = <<w[m]>> \o records /\ previous' = s /\ current' = Less4(s)
        /\ pc' = "scan"
    BY <2>2, <2>5, <1>2, <1>8 DEF Found
  <2>7. /\ Len(records') = Len(records) + 1 /\ records'[1] = w[m]
        /\ \A i \in 2 .. Len(records) + 1 : records'[i] = records[i - 1]
    <3>1. w[m] \in Extent /\ records \in Seq(Extent)
      BY <1>2 DEF ScanInv
    <3>2. QED
      BY <3>1, <2>6, Prepended
  <2>8. m - 1 \in Int /\ m - 1 # n /\ (m - 1) + 1 = m
    BY <1>2
  <2>9. Len(records') = n - (m - 1)
    BY <2>7, <1>2 DEF Suffix
  <2>10. \A i \in 1 .. Len(records') : records'[i] = w[(m - 1) + i]
    <3>1. TAKE i \in 1 .. Len(records')
    <3>2. CASE i = 1
      BY <3>2, <2>7, <2>8
    <3>3. CASE i # 1
      <4>1. i \in 2 .. Len(records) + 1 /\ i - 1 \in 1 .. Len(records)
            /\ m + (i - 1) = (m - 1) + i
        BY <3>3, <2>7, <1>2 DEF ScanInv
      <4>2. records'[i] = records[i - 1] /\ records[i - 1] = w[m + (i - 1)]
        BY <4>1, <2>7 DEF Suffix
      <4>3. QED
        BY <4>1, <4>2
    <3>4. QED
      BY <3>2, <3>3
  <2>11. previous' = w[(m - 1) + 1].start /\ current' <= previous'
    BY <2>6, <2>8, <1>6, <1>8 DEF Less4
  <2>12. m - 1 >= 1 => w[m - 1].start < current'
    <3>1. SUFFICES ASSUME m - 1 >= 1 PROVE w[m - 1].start < current'
      OBVIOUS
    <3>2. m - 1 \in 1 .. Len(w) /\ m - 1 < m
      BY <3>1, <1>2
    <3>3. w[m - 1].start + w[m - 1].len <= s
      <4>1. m \in 1 .. Len(w) /\ w[m].start = s
        BY ONLY <1>2, <1>8
      <4>2. QED
        BY ONLY <3>2, <4>1, <1>3
    <3>4. w[m - 1].start \in Nat /\ w[m - 1].len \in Nat /\ w[m - 1].len >= 8
      BY <3>2, <1>5
    <3>5. current' = Less4(s) /\ s \in Nat
      BY <2>6, <1>6
    <3>6. QED
      BY ONLY <3>3, <3>4, <3>5 DEF Less4
  <2>13. Suffix(m - 1, n)'
    BY ONLY <1>7, <2>6, <2>8, <2>9, <2>10, <2>11, <2>12 DEF Suffix
  <2>14. QED
    BY <2>13
<1>9. CASE s # w[m].start
  <2>1. ~MarkerAt(dump.data, s)
    <3>1. SUFFICES ASSUME MarkerAt(dump.data, s) PROVE FALSE
      OBVIOUS
    <3>2. s \in Markers
      BY <3>1, <1>6 DEF Markers
    <3>3. s \in Starts
      <4>1. s \notin Starts => s < w[m].start
        BY <3>2 DEF Clean
      <4>2. QED
        BY <4>1, <1>2, <1>6
    <3>4. PICK j \in 1 .. n : s = w[j].start
      <4>1. s + 5 <= size
        BY <1>2, <1>6
      <4>2. QED
        BY <3>3, <4>1, <1>1, MarkerOfPart
    <3>5. CASE j <= m
      <4>1. w[j].start <= w[m].start
        BY <3>5, <3>4, <1>2, <1>4
      <4>2. QED
        BY <4>1, <3>4, <1>2, <1>6, <1>9
    <3>6. CASE j > m
      <4>1. m + 1 \in 1 .. Len(w) /\ m + 1 <= j /\ m # n /\ j \in 1 .. Len(w)
        BY <3>6, <3>4, <1>2
      <4>2. w[m + 1].start <= w[j].start /\ previous = w[m + 1].start
        BY <4>1, <1>4 DEF Suffix
      <4>3. QED
        BY <4>2, <3>4, <1>6
    <3>7. QED
      BY <3>5, <3>6
  <2>2. Skip
    BY <2>1, <1>6 DEF DumpNext, Found, Malformed, LengthMissing, AtStart
  <2>3. /\ current' = s /\ previous' = previous /\ records' = records /\ pc' = pc
    BY <2>2 DEF Skip
  <2>4. s > w[m].start /\ s <= previous
    BY <1>2, <1>6, <1>9
  <2>5. Suffix(m, n)'
    BY ONLY <2>3, <2>4, <1>7, Suffix(m, n) DEF Suffix
  <2>6. QED
    BY <2>5
<1>10. QED
  BY <1>8, <1>9

(* With every record found and no stray marker the scan runs out.          *)
LEMMA SuffixEnds ==
  ASSUME ScanInv, NEW n, Reaches(n), Markers \subseteq Starts, Suffix(0, n), DumpNext
  PROVE  Suffix(0, n)' \/ (pc' = "done" /\ records' = SubSeq(w', 1, n))
<1> DEFINE s == current - 1
<1>1. dump \in Dumps
  BY DEF ScanInv
<1>2. size \in Nat /\ w \in Seq(Extent) /\ Len(w) \in Nat /\ n \in Nat /\ n <= Len(w)
  BY <1>1, WrittenFacts DEF Reaches
<1>3. dump' = dump /\ w' = w /\ size' = size
  BY DEF DumpNext, Skip, Found, Malformed, LengthMissing, AtStart, w, size
<1>4. /\ previous \in Nat /\ current \in Nat /\ current <= previous
      /\ (current > 0 => s \in 0 .. size - 4)
  BY <1>2 DEF ScanInv, Suffix, Less4
<1>5. current > 0 => ~MarkerAt(dump.data, s)
  <2>1. SUFFICES ASSUME current > 0, MarkerAt(dump.data, s) PROVE FALSE
    OBVIOUS
  <2>2. s \in Starts
    BY <2>1, <1>4 DEF Markers
  <2>3. PICK j \in 1 .. n : s = w[j].start
    <3>1. s + 5 <= size
      BY <2>1, <1>2, <1>4 DEF ScanInv, Less4
    <3>2. QED
      BY <2>2, <3>1, <1>1, MarkerOfPart
  <2>4. 1 \in 1 .. Len(w) /\ j \in 1 .. Len(w) /\ 1 <= j /\ 0 # n /\ 0 + 1 = 1
    BY <1>2
  <2>5. w[1].start <= w[j].start
    BY <2>4, <1>1, StartsAscend
  <2>6. previous = w[1].start
    BY <2>4 DEF Suffix
  <2>7. QED
    BY <2>3, <2>5, <2>6, <1>4
<1>6. Skip \/ AtStart
  BY <1>5 DEF DumpNext, Found, Malformed, LengthMissing
<1>7. CASE Skip
  <2>1. current' = s /\ previous' = previous /\ records' = records /\ pc' = pc
    BY <1>7 DEF Skip
  <2>2. s <= previous
    BY <1>4
  <2>3. ~(0 >= 1)
    OBVIOUS
  <2>4. Suffix(0, n)'
    BY ONLY <2>1, <2>2, <2>3, <1>3, Suffix(0, n) DEF Suffix
  <2>5. QED
    BY <2>4
<1>8. CASE AtStart
  <2>1. pc' = "done" /\ records' = records
    BY <1>8 DEF AtStart
  <2>2. Len(records) = n /\ \A i \in 1 .. Len(records) : records[i] = w[i]
    <3>1. Len(records) = n - 0 /\ \A i \in 1 .. Len(records) : records[i] = w[0 + i]
      BY DEF Suffix
    <3>2. QED
      BY <3>1, <1>2
  <2>3. records \in Seq(Extent)
    BY DEF ScanInv
  <2>4. records = SubSeq(w, 1, n)
    <3>1. /\ SubSeq(w, 1, n) \in Seq(Extent) /\ Len(SubSeq(w, 1, n)) = n
          /\ \A i \in 1 .. n : SubSeq(w, 1, n)[i] = w[i]
      BY ONLY <1>2
    <3>2. QED
      BY ONLY <2>2, <2>3, <3>1, <1>2
  <2>5. QED
    BY <2>1, <2>4, <1>3
<1>9. QED
  BY <1>6, <1>7, <1>8

LEMMA SuffixInit ==
  ASSUME DumpInit, NEW n, Reaches(n)
  PROVE  Suffix(n, n)
<1>1. dump \in Dumps
  BY DEF DumpInit
<1>2. size \in Nat /\ n \in Nat /\ n <= Len(w) /\ Len(w) \in Nat
  BY <1>1, WrittenFacts DEF Reaches
<1>3. current <= previous
  BY <1>2 DEF DumpInit, Less4
<1>4. n >= 1 => w[n].start < current
  <2>1. SUFFICES ASSUME n >= 1 PROVE w[n].start < current
    OBVIOUS
  <2>2. n \in 1 .. n /\ n \in 1 .. Len(w)
    BY <2>1, <1>2
  <2>3. /\ w[n].start \in Nat /\ w[n].len \in Nat /\ w[n].len >= 8
        /\ w[n].start + w[n].len <= size
    BY <2>2, <1>1, WrittenFacts DEF Reaches
  <2>4. current = Less4(size)
    BY DEF DumpInit
  <2>5. QED
    BY ONLY <2>3, <2>4, <1>2 DEF Less4
<1>5. records = <<>> /\ previous = size /\ pc = "scan"
  BY DEF DumpInit
<1>6. Len(records) = n - n /\ \A i \in 1 .. Len(records) : records[i] = w[n + i]
  BY <1>2, <1>5
<1>7. QED
  BY <1>3, <1>4, <1>5, <1>6 DEF Suffix

(* Neither the dump nor, once the scan is over, the records change.        *)
LEMMA ScanKeeps ==
  ASSUME [DumpNext]_dumpVars
  PROVE  /\ dump' = dump /\ w' = w /\ size' = size
         /\ Markers' = Markers /\ Starts' = Starts /\ Whole' = Whole
         /\ \A n : Reaches(n)' <=> Reaches(n)
         /\ pc # "scan" => pc' = pc /\ records' = records
<1>1. dump' = dump
  BY DEF DumpNext, Skip, Found, Malformed, LengthMissing, AtStart, dumpVars
<1>2. pc # "scan" => pc' = pc /\ records' = records
  BY DEF DumpNext, Skip, Found, Malformed, LengthMissing, AtStart, dumpVars
<1>3. QED
  BY <1>1, <1>2 DEF w, size, Markers, Starts, Whole, Reaches

(* What was found stays found.                                             *)
LEMMA FoundStays ==
  ASSUME ScanInv, [DumpNext]_dumpVars, NEW e,
         \E i \in 1 .. Len(records) : records[i] = e
  PROVE  \E i \in 1 .. Len(records') : records'[i] = e
<1>1. CASE records' = records
  BY <1>1
<1>2. CASE Found
  <2>1. PICK i \in 1 .. Len(records) : records[i] = e
    OBVIOUS
  <2> DEFINE x == [start |-> current - 1, len |-> u32_le(dump.data, current - 1 + 4)]
  <2>2. records' = <<x>> \o records
    BY <1>2 DEF Found
  <2>3. x \in Extent
    <3>1. dump \in Dumps /\ current - 1 \in Nat /\ current - 1 + 4 \in Nat
          /\ (current - 1 + 4) + 4 <= size
      <4>1. dump.data \in Seq(Byte)
        BY DumpAssumption DEF ScanInv
      <4>2. size \in Nat
        BY <4>1 DEF size
      <4>3. QED
        BY <4>2, <1>2 DEF ScanInv, Found, LengthIn, Less4
    <3>2. u32_le(dump.data, current - 1 + 4) \in Nat
      BY <3>1, LengthNat
    <3>3. QED
      BY <3>1, <3>2 DEF Extent
  <2> HIDE DEF x
  <2>4. /\ Len(records') = Len(records) + 1
        /\ \A j \in 2 .. Len(records) + 1 : records'[j] = records[j - 1]
    BY <2>2, <2>3, Prepended DEF ScanInv
  <2>5. i + 1 \in 1 .. Len(records') /\ i + 1 \in 2 .. Len(records) + 1 /\ (i + 1) - 1 = i
    BY <2>4 DEF ScanInv
  <2>6. records'[i + 1] = e
    BY <2>1, <2>4, <2>5
  <2>7. QED
    BY <2>5, <2>6
<1>3. QED
  BY <1>1, <1>2 DEF DumpNext, Skip, Malformed, LengthMissing, AtStart, dumpVars

LEMMA SuffixStutter ==
  ASSUME UNCHANGED dumpVars, NEW m, NEW n, Suffix(m, n)
  PROVE  Suffix(m, n)'
BY DEF dumpVars, Suffix, w, size

LEMMA ExtractStep == ScanInv /\ ExtractInv /\ [DumpNext]_dumpVars => ExtractInv'
<1> SUFFICES ASSUME ScanInv, ExtractInv, [DumpNext]_dumpVars, Whole', Markers' = Starts'
             PROVE  (\/ \E m \in 0 .. Len(w) : Suffix(m, Len(w))
                     \/ pc = "done" /\ records = w)'
  BY DEF ExtractInv
<1>1. w' = w /\ Whole /\ Markers = Starts /\ (pc # "scan" => pc' = pc /\ records' = records)
  BY ScanKeeps
<1>2. CASE pc = "done" /\ records = w
  BY <1>1, <1>2
<1>3. CASE \E m \in 0 .. Len(w) : Suffix(m, Len(w))
  <2>1. PICK m \in 0 .. Len(w) : Suffix(m, Len(w))
    BY <1>3
  <2>2. dump \in Dumps /\ Len(w) \in Nat /\ Reaches(Len(w))
    BY <1>1, WrittenFacts, WholeIsPart DEF ScanInv
  <2>3. CASE UNCHANGED dumpVars
    BY <2>1, <2>3, <1>1, SuffixStutter
  <2>4. CASE DumpNext /\ m = 0
    <3>1. Suffix(0, Len(w))' \/ (pc' = "done" /\ records' = w')
      <4>1. PICK n : n = Len(w)
        OBVIOUS
      <4>2. Suffix(0, n)' \/ (pc' = "done" /\ records' = SubSeq(w', 1, n))
        BY <4>1, <2>1, <2>2, <2>4, <1>1, SuffixEnds
      <4>3. SubSeq(w', 1, n) = w'
        <5>1. w \in Seq(Extent)
          BY <2>2, WrittenFacts
        <5>2. SubSeq(w, 1, Len(w)) = w
          BY ONLY <5>1
        <5>3. QED
          BY ONLY <5>2, <4>1, <1>1
      <4>4. QED
        BY <4>1, <4>2, <4>3, <1>1
    <3>2. 0 \in 0 .. Len(w')
      BY <2>2, <1>1
    <3>3. QED
      BY <3>1, <3>2
  <2>5. CASE DumpNext /\ m # 0
    <3>1. m \in 1 .. Len(w) /\ m - 1 \in 0 .. Len(w) /\ m \in 0 .. Len(w)
      BY <2>2, <2>5
    <3>2. Clean(m)
      BY <1>1 DEF Clean
    <3>3. Suffix(m, Len(w))' \/ Suffix(m - 1, Len(w))'
      <4>1. PICK n : n = Len(w)
        OBVIOUS
      <4>2. Suffix(m, n)' \/ Suffix(m - 1, n)'
        BY <4>1, <2>1, <2>2, <2>5, <3>1, <3>2, SuffixAdvances
      <4>3. QED
        BY <4>1, <4>2, <1>1
    <3>4. QED
      BY <3>1, <3>3, <1>1
  <2>6. QED
    BY <2>3, <2>4, <2>5
<1>4. QED
  BY <1>1, <1>2, <1>3 DEF ExtractInv

LEMMA NewerStep == ScanInv /\ NewerInv /\ [DumpNext]_dumpVars => NewerInv'
<1> SUFFICES ASSUME ScanInv, NewerInv, [DumpNext]_dumpVars, Whole',
                    NEW k \in 1 .. Len(w'), Clean(k)'
             PROVE  (\/ \E m \in k .. Len(w) : Suffix(m, Len(w))
                     \/ \E i \in 1 .. Len(records) : records[i] = w[k])'
  BY DEF NewerInv
<1>1. w' = w /\ Whole /\ Markers' = Markers /\ Starts' = Starts
  BY ScanKeeps
<1>2. k \in 1 .. Len(w) /\ Clean(k)
  BY <1>1 DEF Clean
<1>3. dump \in Dumps /\ Len(w) \in Nat /\ Reaches(Len(w))
  BY <1>1, WrittenFacts, WholeIsPart DEF ScanInv
<1>4. CASE \E i \in 1 .. Len(records) : records[i] = w[k]
  <2>1. \E i \in 1 .. Len(records') : records'[i] = w[k]
    BY <1>4, FoundStays
  <2>2. QED
    BY <2>1, <1>1
<1>5. CASE \E m \in k .. Len(w) : Suffix(m, Len(w))
  <2>1. PICK m \in k .. Len(w) : Suffix(m, Len(w))
    BY <1>5
  <2>2. CASE UNCHANGED dumpVars
    BY <2>1, <2>2, <1>1, SuffixStutter
  <2>3. CASE DumpNext
    <3>1. m \in 1 .. Len(w) /\ k <= m
      BY <1>2, <1>3
    <3>2. Clean(m)
      <4>1. w[k].start <= w[m].start
        BY <3>1, <1>1, <1>2, <1>3, StartsAscend
      <4>2. w[k].start \in Nat /\ w[m].start \in Nat
        BY <3>1, <1>1, <1>2, <1>3, WrittenFacts
      <4>3. \A p \in Markers \ Starts : p \in Int
        BY DEF Markers
      <4>4. QED
        BY <4>1, <4>2, <4>3, <1>2 DEF Clean
    <3>3. Suffix(m, Len(w))' \/ Suffix(m - 1, Len(w))'
      <4>1. PICK n : n = Len(w)
        OBVIOUS
      <4>2. Suffix(m, n)' \/ Suffix(m - 1, n)'
        BY <4>1, <2>1, <2>3, <3>1, <3>2, <1>3, SuffixAdvances
      <4>3. QED
        BY <4>1, <4>2, <1>1
    <3>4. CASE Suffix(m, Len(w))' \/ (Suffix(m - 1, Len(w))' /\ m # k)
      <4>1. m \in k .. Len(w') /\ (m # k => m - 1 \in k .. Len(w'))
        BY <3>1, <1>1, <1>2, <1>3
      <4>2. QED
        BY <3>4, <4>1
    <3>5. CASE Suffix(m - 1, Len(w))' /\ m = k
      <4>1. /\ Len(records') = Len(w') - (k - 1)
            /\ \A i \in 1 .. Len(records') : records'[i] = w'[(k - 1) + i]
        BY <3>5 DEF Suffix
      <4>2. 1 \in 1 .. Len(records') /\ (k - 1) + 1 = k
        BY <4>1, <1>1, <1>2, <1>3
      <4>3. records'[1] = w'[k]
        BY <4>1, <4>2
      <4>4. QED
        BY <4>2, <4>3
    <3>6. QED
      BY <3>3, <3>4, <3>5
  <2>4. QED
    BY <2>2, <2>3
<1>6. QED
  BY <1>1, <1>2, <1>4, <1>5 DEF NewerInv

(* Every record of a whole dump is found, and nothing else, whatever lies  *)
(* between the records, when no marker lies elsewhere.                     *)
THEOREM ScanExtractsAll == DumpSpec => []ExtractsAll
<1>1. DumpInit => ExtractInv
  <2>1. DumpInit /\ Whole => Len(w) \in Nat /\ Reaches(Len(w))
    BY WrittenFacts, WholeIsPart DEF DumpInit
  <2>2. QED
    BY <2>1, SuffixInit DEF ExtractInv
<1>2. ScanInv /\ ExtractInv /\ [DumpNext]_dumpVars => ExtractInv'
  BY ExtractStep
<1>3. ExtractInv => ExtractsAll
  BY DEF ExtractInv, ExtractsAll, Suffix, w
<1>4. QED
  BY <1>1, <1>2, <1>3, ScanCorrect, PTL DEF DumpSpec

(* A stray marker costs the records before it, and none that begins after. *)
THEOREM ScanNewerSurvive == DumpSpec => []NewerSurvive
<1>1. DumpInit => NewerInv
  <2>1. DumpInit /\ Whole => Len(w) \in Nat /\ Reaches(Len(w))
    BY WrittenFacts, WholeIsPart DEF DumpInit
  <2>2. QED
    BY <2>1, SuffixInit DEF NewerInv
<1>2. ScanInv /\ NewerInv /\ [DumpNext]_dumpVars => NewerInv'
  BY NewerStep
<1>3. ScanInv /\ NewerInv => NewerSurvive
  <2>1. SUFFICES ASSUME ScanInv, NewerInv, pc = "done", Whole,
                        NEW k \in DOMAIN dump.written,
                        \A p \in Markers \ Starts : p < dump.written[k].start
                 PROVE  \E i \in 1 .. Len(records) : records[i] = dump.written[k]
    BY DEF NewerSurvive
  <2>2. DOMAIN w = 1 .. Len(w)
    BY <2>1, WrittenFacts DEF ScanInv
  <2>3. k \in 1 .. Len(w) /\ Clean(k)
    BY <2>1, <2>2 DEF w, Clean
  <2>4. \A m : ~Suffix(m, Len(w))
    BY <2>1 DEF Suffix
  <2>5. \E i \in 1 .. Len(records) : records[i] = w[k]
    BY <2>1, <2>3, <2>4 DEF NewerInv
  <2>6. QED
    BY <2>5 DEF w
<1>4. QED
  BY <1>1, <1>2, <1>3, ScanCorrect, PTL DEF DumpSpec

(* A dump that breaks off within record k.  If the scan does not see the   *)
(* marker of k, it finds the k - 1 before it; if it does, that is the      *)
(* first it comes to, with nothing found, and there it ends.               *)
Has(k)   == size - w[k].start
CutIn(k) == Has(k) \in 0 .. w[k].len - 1

BeforeCut(k) ==
  /\ records = <<>>
  /\ \/ pc = "scan" /\ previous = size /\ w[k].start < current
     \/ pc = "panic" /\ Has(k) <= 7
     \/ pc = "done" /\ Has(k) >= 8

BesideCut(k) ==
  \/ \E m \in 0 .. k - 1 : Suffix(m, k - 1)
  \/ pc = "done" /\ records = SubSeq(w, 1, k - 1)

CutInv ==
  Markers \subseteq Starts =>
    \A k \in 1 .. Len(w) : CutIn(k) =>
      /\ Has(k) <= 4 => BesideCut(k)
      /\ Has(k) > 4 => BeforeCut(k)

LEMMA CutFacts ==
  ASSUME dump \in Dumps, NEW k \in 1 .. Len(w), CutIn(k)
  PROVE  /\ size \in Nat /\ w[k].start \in Nat /\ w[k].len \in Nat
         /\ Has(k) \in Nat /\ size = w[k].start + Has(k) /\ Has(k) < w[k].len
         /\ \A j \in 1 .. Len(w) : j > k => w[j].start > size
         /\ \A j \in 1 .. Len(w) : j < k => w[j].start + w[j].len <= w[k].start
<1>1. size \in Nat /\ w[k].start \in Nat /\ w[k].len \in Nat
  BY WrittenFacts
<1>2. Has(k) \in Nat /\ size = w[k].start + Has(k) /\ Has(k) < w[k].len
  BY ONLY <1>1, CutIn(k) DEF CutIn, Has
<1>3. ASSUME NEW j \in 1 .. Len(w), j > k
      PROVE  w[j].start > size
  <2>1. w[k].start + w[k].len <= w[j].start /\ w[j].start \in Nat
    BY <1>3, WrittenFacts
  <2>2. QED
    BY ONLY <2>1, <1>1, <1>2
<1>4. \A j \in 1 .. Len(w) : j < k => w[j].start + w[j].len <= w[k].start
  BY WrittenFacts
<1>5. QED
  BY ONLY <1>1, <1>2, <1>3, <1>4

(* Behind the last four bytes the scan reaches the records before the cut. *)
LEMMA CutReaches ==
  ASSUME dump \in Dumps, NEW k \in 1 .. Len(w), CutIn(k), Has(k) <= 4
  PROVE  Reaches(k - 1)
<1>1. k \in Nat /\ Len(w) \in Nat /\ k - 1 \in 0 .. Len(w)
  BY WrittenFacts
<1>2. ASSUME NEW i \in 1 .. k - 1 PROVE w[i].start + w[i].len <= size
  <2>1. i \in 1 .. Len(w) /\ i < k
    BY ONLY <1>1
  <2>2. w[i].start + w[i].len <= w[k].start /\ w[i].start \in Nat /\ w[i].len \in Nat
    BY <2>1, CutFacts, WrittenFacts
  <2>3. QED
    BY <2>2, CutFacts
<1>3. ASSUME NEW j \in 1 .. Len(w), j > k - 1 PROVE w[j].start + 4 >= size
  <2>1. CASE j = k
    BY <2>1, CutFacts
  <2>2. CASE j # k
    <3>1. w[j].start > size /\ w[j].start \in Nat /\ size \in Nat
      BY <2>2, <1>1, <1>3, CutFacts, WrittenFacts
    <3>2. QED
      BY ONLY <3>1
  <2>3. QED
    BY <2>1, <2>2
<1>4. QED
  BY ONLY <1>1, <1>2, <1>3 DEF Reaches

(* The scan comes to the marker of record k first, and ends there.         *)
LEMMA BeforeCutStep ==
  ASSUME ScanInv, Markers \subseteq Starts, NEW k \in 1 .. Len(w), CutIn(k),
         Has(k) > 4, BeforeCut(k), pc = "scan", DumpNext
  PROVE  BeforeCut(k)'
<1> DEFINE s == current - 1
<1>1. dump \in Dumps
  BY DEF ScanInv
<1>2. /\ size \in Nat /\ w[k].start \in Nat /\ w[k].len \in Nat
      /\ Has(k) \in Nat /\ size = w[k].start + Has(k) /\ Has(k) < w[k].len
  BY <1>1, CutFacts
<1>3. /\ dump' = dump /\ w' = w /\ size' = size /\ Has(k)' = Has(k)
  BY DEF DumpNext, Skip, Found, Malformed, LengthMissing, AtStart, w, size, Has
<1>4. records = <<>> /\ previous = size /\ w[k].start < current
  BY DEF BeforeCut
<1>5. /\ current \in Nat /\ current > 0 /\ s \in Nat /\ s >= w[k].start
      /\ s + 5 <= size /\ s \in 0 .. size - 4
  <2>1. current \in 0 .. Less4(size)
    BY DEF ScanInv
  <2>2. CASE size >= 4
    <3>1. current \in 0 .. size - 4
      BY ONLY <2>1, <2>2 DEF Less4
    <3>2. QED
      BY ONLY <3>1, <2>2, <1>2, <1>4
  <2>3. CASE size < 4
    <3>1. current \in 0 .. 0
      BY ONLY <2>1, <2>3, <1>2 DEF Less4
    <3>2. QED
      BY ONLY <3>1, <1>2, <1>4
  <2>4. QED
    BY ONLY <2>2, <2>3, <1>2
<1>6. CASE s = w[k].start
  <2>1. MarkerAt(dump.data, s)
    BY <1>1, <1>2, <1>5, <1>6, WrittenFacts
  <2>2. CASE Has(k) <= 7
    <3>1. ~LengthIn(s)
      BY ONLY <2>2, <1>2, <1>6 DEF LengthIn
    <3>2. LengthMissing
      BY <2>1, <3>1, <1>5 DEF DumpNext, Skip, Found, Malformed, AtStart
    <3>3. pc' = "panic" /\ records' = <<>>
      BY ONLY <3>2, <1>4 DEF LengthMissing
    <3>4. QED
      BY ONLY <3>3, <2>2, <1>3 DEF BeforeCut
  <2>3. CASE Has(k) >= 8
    <3>1. LengthIn(s)
      BY ONLY <2>3, <1>2, <1>6 DEF LengthIn
    <3>2. u32_le(dump.data, s + 4) = w[k].len
      <4>1. w[k].start + 8 <= size
        BY ONLY <2>3, <1>2
      <4>2. QED
        BY <4>1, <1>1, <1>6, WrittenFacts
    <3>3. ~Fits(s, u32_le(dump.data, s + 4))
      BY ONLY <3>2, <1>2, <1>4, <1>6 DEF Fits
    <3>4. Malformed
      BY <2>1, <3>1, <3>3, <1>5 DEF DumpNext, Skip, Found, LengthMissing, AtStart
    <3>5. pc' = "done" /\ records' = <<>>
      BY ONLY <3>4, <1>4 DEF Malformed
    <3>6. QED
      BY ONLY <3>5, <2>3, <1>3 DEF BeforeCut
  <2>4. QED
    BY ONLY <2>2, <2>3, <1>2
<1>7. CASE s # w[k].start
  <2>1. ~MarkerAt(dump.data, s)
    <3>1. SUFFICES ASSUME MarkerAt(dump.data, s) PROVE FALSE
      OBVIOUS
    <3>2. s \in Starts
      BY <3>1, <1>5 DEF Markers
    <3>3. PICK j \in 1 .. Len(w) : s = w[j].start
      BY <3>2, <1>1, StartsAre
    <3>4. CASE j < k
      <4>1. w[j].start + w[j].len <= w[k].start /\ w[j].start \in Nat
            /\ w[j].len \in Nat /\ w[j].len >= 8
        BY <3>4, <1>1, CutFacts, WrittenFacts
      <4>2. QED
        BY ONLY <4>1, <3>3, <1>2, <1>5
    <3>5. CASE j > k
      <4>1. w[j].start > size
        BY <3>5, <1>1, CutFacts
      <4>2. QED
        BY ONLY <4>1, <3>3, <1>2, <1>5
    <3>6. j \in Int /\ k \in Int /\ j # k
      BY <3>3, <1>7
    <3>7. QED
      BY ONLY <3>4, <3>5, <3>6
  <2>2. Skip
    BY <2>1, <1>5 DEF DumpNext, Found, Malformed, LengthMissing, AtStart
  <2>3. current' = s /\ previous' = previous /\ records' = records /\ pc' = pc
    BY <2>2 DEF Skip
  <2>4. w[k].start < s
    BY ONLY <1>2, <1>5, <1>7
  <2>5. QED
    BY ONLY <2>3, <2>4, <1>3, <1>4, pc = "scan" DEF BeforeCut
<1>8. QED
  BY <1>6, <1>7

LEMMA BesideCutStep ==
  ASSUME ScanInv, Markers \subseteq Starts, NEW k \in 1 .. Len(w), CutIn(k),
         Has(k) <= 4, BesideCut(k), [DumpNext]_dumpVars
  PROVE  BesideCut(k)'
<1>1. /\ dump \in Dumps /\ w' = w /\ (pc # "scan" => pc' = pc /\ records' = records)
  BY ScanKeeps DEF ScanInv
<1>2. PICK n \in Int : n = k - 1
  OBVIOUS
<1>3. Reaches(n)
  BY <1>1, <1>2, CutReaches
<1>4. CASE pc = "done" /\ records = SubSeq(w, 1, n)
  BY <1>1, <1>2, <1>4 DEF BesideCut
<1>5. CASE \E m \in 0 .. n : Suffix(m, n)
  <2>1. PICK m \in 0 .. n : Suffix(m, n)
    BY <1>5
  <2>2. CASE UNCHANGED dumpVars
    <3>1. Suffix(m, n)'
      BY <2>1, <2>2, SuffixStutter
    <3>2. QED
      BY <3>1, <1>2 DEF BesideCut
  <2>3. CASE DumpNext /\ m = 0
    <3>1. Suffix(0, n)' \/ (pc' = "done" /\ records' = SubSeq(w', 1, n))
      BY <2>1, <2>3, <1>3, SuffixEnds
    <3>2. 0 \in 0 .. n
      BY ONLY <1>2, <2>1, <2>3
    <3>3. QED
      BY <3>1, <3>2, <1>2 DEF BesideCut
  <2>4. CASE DumpNext /\ m # 0
    <3>1. m \in 1 .. n /\ m - 1 \in 0 .. n
      BY ONLY <1>2, <2>1, <2>4
    <3>2. Clean(m)
      BY DEF Clean
    <3>3. Suffix(m, n)' \/ Suffix(m - 1, n)'
      BY <2>1, <2>4, <3>1, <3>2, <1>3, SuffixAdvances
    <3>4. QED
      BY <3>1, <3>3, <1>2 DEF BesideCut
  <2>5. QED
    BY <2>2, <2>3, <2>4
<1>6. QED
  BY <1>2, <1>4, <1>5 DEF BesideCut

LEMMA CutStarts == DumpInit => CutInv
<1> SUFFICES ASSUME DumpInit, NEW k \in 1 .. Len(w), CutIn(k)
             PROVE  /\ Has(k) <= 4 => BesideCut(k)
                    /\ Has(k) > 4 => BeforeCut(k)
  BY DEF CutInv
<1>1. dump \in Dumps
  BY DEF DumpInit
<1>2. ASSUME Has(k) <= 4 PROVE BesideCut(k)
  <2>1. PICK n \in Int : n = k - 1
    OBVIOUS
  <2>2. Suffix(n, n)
    BY <2>1, <1>1, <1>2, CutReaches, SuffixInit
  <2>3. n \in 0 .. k - 1
    BY <2>1
  <2>4. QED
    BY <2>1, <2>2, <2>3 DEF BesideCut
<1>3. ASSUME Has(k) > 4 PROVE BeforeCut(k)
  <2>1. w[k].start < Less4(size)
    BY <1>1, <1>3, CutFacts DEF Less4
  <2>2. QED
    BY <2>1 DEF DumpInit, BeforeCut
<1>4. QED
  BY <1>2, <1>3

LEMMA CutStep == ScanInv /\ CutInv /\ [DumpNext]_dumpVars => CutInv'
<1> SUFFICES ASSUME ScanInv, CutInv, [DumpNext]_dumpVars, (Markers \subseteq Starts)',
                    NEW k \in 1 .. Len(w'), CutIn(k)'
             PROVE  /\ (Has(k) <= 4 => BesideCut(k))'
                    /\ (Has(k) > 4 => BeforeCut(k))'
  BY DEF CutInv
<1>1. /\ w' = w /\ size' = size /\ Markers \subseteq Starts
      /\ pc # "scan" => pc' = pc /\ records' = records
  BY ScanKeeps
<1>2. Has(k)' = Has(k) /\ CutIn(k) /\ k \in 1 .. Len(w)
  BY <1>1 DEF Has, CutIn
<1>3. ASSUME Has(k) <= 4 PROVE BesideCut(k)'
  BY <1>1, <1>2, <1>3, BesideCutStep DEF CutInv
<1>4. ASSUME Has(k) > 4 PROVE BeforeCut(k)'
  <2>1. BeforeCut(k)
    BY <1>1, <1>2, <1>4 DEF CutInv
  <2>2. CASE pc = "scan" /\ DumpNext
    BY <2>1, <2>2, <1>1, <1>2, <1>4, BeforeCutStep
  <2>3. CASE pc # "scan"
    BY <2>1, <2>3, <1>1, <1>2 DEF BeforeCut
  <2>4. CASE UNCHANGED dumpVars
    BY <2>1, <2>4, <1>1, <1>2 DEF BeforeCut, dumpVars
  <2>5. QED
    BY <2>2, <2>3, <2>4
<1>5. QED
  BY <1>2, <1>3, <1>4

(* What a dump loses that breaks off: within a marker or right behind it   *)
(* that record, within a length the run, and further on every record, the  *)
(* whole ones before it too.                                               *)
THEOREM ScanCutRecordCosts == DumpSpec => []CutRecordCosts
<1>1. ScanInv /\ CutInv => CutRecordCosts
  <2>1. SUFFICES ASSUME ScanInv, CutInv, pc # "scan", Markers \subseteq Starts,
                        NEW k \in DOMAIN dump.written,
                        size - dump.written[k].start \in 0 .. dump.written[k].len - 1
                 PROVE  LET has == size - dump.written[k].start IN
                          /\ pc = "panic" <=> has \in 5 .. 7
                          /\ records = IF has <= 4 THEN SubSeq(dump.written, 1, k - 1)
                                                   ELSE <<>>
    BY DEF CutRecordCosts
  <2>2. dump \in Dumps
    BY <2>1 DEF ScanInv
  <2>3. k \in 1 .. Len(w) /\ CutIn(k) /\ Has(k) = size - dump.written[k].start
    BY <2>1, <2>2, WrittenFacts DEF CutIn, Has, w
  <2>4. Has(k) \in Nat
    BY <2>2, <2>3, CutFacts
  <2>5. CASE Has(k) <= 4
    <3>1. BesideCut(k)
      BY <2>1, <2>3, <2>5 DEF CutInv
    <3>2. pc = "done" /\ records = SubSeq(w, 1, k - 1)
      BY <3>1, <2>1 DEF BesideCut, Suffix
    <3>3. ~(Has(k) \in 5 .. 7)
      BY ONLY <2>4, <2>5
    <3>4. QED
      BY ONLY <3>2, <3>3, <2>3, <2>5 DEF w
  <2>6. CASE Has(k) > 4
    <3>1. BeforeCut(k)
      BY <2>1, <2>3, <2>6 DEF CutInv
    <3>2. records = <<>> /\ (pc = "panic" <=> Has(k) <= 7)
      BY ONLY <3>1, <2>1, <2>4 DEF BeforeCut
    <3>3. Has(k) \in 5 .. 7 <=> Has(k) <= 7
      BY ONLY <2>4, <2>6
    <3>4. ~(Has(k) <= 4)
      BY ONLY <2>4, <2>6
    <3>5. QED
      BY ONLY <3>2, <3>3, <3>4, <2>3
  <2>7. QED
    BY ONLY <2>4, <2>5, <2>6
<1>2. QED
  BY <1>1, CutStarts, CutStep, ScanCorrect, PTL DEF DumpSpec

-----------------------------------------------------------------------------
(* The whole divisions of the module, one number at a time: as inequalities *)
(* without a product of two variables.                                     *)
LEMMA By4 ==
  ASSUME NEW a \in Int
  PROVE  /\ a \div 4 \in Int
         /\ 4 * (a \div 4) <= a /\ a < 4 * (a \div 4) + 4
         /\ a % 4 = a - 4 * (a \div 4)
BY SMT

LEMMA By100 ==
  ASSUME NEW a \in Int
  PROVE  /\ a \div 100 \in Int
         /\ 100 * (a \div 100) <= a /\ a < 100 * (a \div 100) + 100
         /\ a % 100 = a - 100 * (a \div 100)
BY SMT

LEMMA By400 ==
  ASSUME NEW a \in Int
  PROVE  /\ a \div 400 \in Int
         /\ 400 * (a \div 400) <= a /\ a < 400 * (a \div 400) + 400
         /\ a % 400 = a - 400 * (a \div 400)
BY SMT

LEMMA By1460 ==
  ASSUME NEW a \in Int
  PROVE  /\ a \div 1460 \in Int
         /\ 1460 * (a \div 1460) <= a /\ a < 1460 * (a \div 1460) + 1460
         /\ a % 1460 = a - 1460 * (a \div 1460)
BY SMT

LEMMA By36524 ==
  ASSUME NEW a \in Int
  PROVE  /\ a \div 36524 \in Int
         /\ 36524 * (a \div 36524) <= a /\ a < 36524 * (a \div 36524) + 36524
         /\ a % 36524 = a - 36524 * (a \div 36524)
BY SMT

LEMMA By146096 ==
  ASSUME NEW a \in Int
  PROVE  /\ a \div 146096 \in Int
         /\ 146096 * (a \div 146096) <= a /\ a < 146096 * (a \div 146096) + 146096
         /\ a % 146096 = a - 146096 * (a \div 146096)
BY SMT

LEMMA By365 ==
  ASSUME NEW a \in Int
  PROVE  /\ a \div 365 \in Int
         /\ 365 * (a \div 365) <= a /\ a < 365 * (a \div 365) + 365
         /\ a % 365 = a - 365 * (a \div 365)
BY SMT

LEMMA By146097 ==
  ASSUME NEW a \in Int
  PROVE  /\ a \div 146097 \in Int
         /\ 146097 * (a \div 146097) <= a /\ a < 146097 * (a \div 146097) + 146097
         /\ a % 146097 = a - 146097 * (a \div 146097)
BY SMT

LEMMA By153 ==
  ASSUME NEW a \in Int
  PROVE  /\ a \div 153 \in Int
         /\ 153 * (a \div 153) <= a /\ a < 153 * (a \div 153) + 153
         /\ a % 153 = a - 153 * (a \div 153)
BY SMT

LEMMA By5 ==
  ASSUME NEW a \in Int
  PROVE  /\ a \div 5 \in Int
         /\ 5 * (a \div 5) <= a /\ a < 5 * (a \div 5) + 5
         /\ a % 5 = a - 5 * (a \div 5)
BY SMT

LEMMA By86400 ==
  ASSUME NEW a \in Int
  PROVE  /\ a \div 86400 \in Int
         /\ 86400 * (a \div 86400) <= a /\ a < 86400 * (a \div 86400) + 86400
         /\ a % 86400 = a - 86400 * (a \div 86400)
BY SMT

LEMMA By3600 ==
  ASSUME NEW a \in Int
  PROVE  /\ a \div 3600 \in Int
         /\ 3600 * (a \div 3600) <= a /\ a < 3600 * (a \div 3600) + 3600
         /\ a % 3600 = a - 3600 * (a \div 3600)
BY SMT

LEMMA By60 ==
  ASSUME NEW a \in Int
  PROVE  /\ a \div 60 \in Int
         /\ 60 * (a \div 60) <= a /\ a < 60 * (a \div 60) + 60
         /\ a % 60 = a - 60 * (a \div 60)
BY SMT


(* What YearOfEra computes, and when a year has a 366th day.               *)
LEMMA EraYear ==
  ASSUME NEW d \in Int, NEW y \in Int, NEW a \in Int, NEW b \in Int,
         NEW p \in Int, NEW q \in Int, NEW r \in Int,
         0 <= d, d <= 146096,
         1460 * p <= d, d < 1460 * p + 1460, 36524 * q <= d, d < 36524 * q + 36524,
         146096 * r <= d, d < 146096 * r + 146096,
         365 * y <= d - p + q - r, d - p + q - r < 365 * y + 365,
         4 * a <= y, y < 4 * a + 4, 100 * b <= y, y < 100 * b + 100
  PROVE  /\ 0 <= y /\ y <= 399
         /\ 0 <= d - (365 * y + a - b) /\ d - (365 * y + a - b) <= 365
         /\ d - (365 * y + a - b) = 365 =>
              y + 1 = 4 * (a + 1) /\ (y + 1 # 100 * (b + 1) \/ y + 1 = 400)
<1>1. 0 <= y /\ y <= 399
  BY SMT
<1>2. 0 <= d - (365 * y + a - b)
  BY SMT
<1>3. d - (365 * y + a - b) <= 365
  BY SMT
<1>4. d - (365 * y + a - b) = 365 => y + 1 = 4 * (a + 1)
  BY SMT
<1>5. d - (365 * y + a - b) = 365 => y + 1 # 100 * (b + 1) \/ y + 1 = 400
  BY SMT
<1>6. QED
  BY ONLY <1>1, <1>2, <1>3, <1>4, <1>5

(* The days of an era of 400 years, and those of a year from March on,     *)
(* whose last is a leap day.                                               *)
InEra(d)        == 0 <= d /\ d <= 146096
DayOfYear(y, n) == /\ 0 <= y /\ y <= 399 /\ 0 <= n /\ n <= 365
                   /\ n = 365 => LeapYear(y + 1)

(* Which years from March end with a leap day, from what EraYear counts.   *)
LEMMA LeapFloors ==
  ASSUME NEW y \in Int, 0 <= y, y <= 399
  PROVE  LeapYear(y + 1) <=> /\ y + 1 = 4 * (y \div 4 + 1)
                             /\ y + 1 # 100 * (y \div 100 + 1) \/ y + 1 = 400
<1>1. (y + 1) % 4 = 0 <=> y + 1 = 4 * (y \div 4 + 1)
  BY SMT
<1>2. (y + 1) % 100 = 0 <=> y + 1 = 100 * (y \div 100 + 1)
  BY SMT
<1>3. (y + 1) % 400 = 0 <=> y + 1 = 400
  BY SMT
<1>4. QED
  BY ONLY <1>1, <1>2, <1>3 DEF LeapYear

(* A day of an era has a year in it and a day of that year.                *)
LEMMA YearOfEraRight ==
  ASSUME NEW d \in Int, InEra(d)
  PROVE  \E y \in Int, n \in Int :
           y = YearOfEra(d) /\ n = d - DayOfEra(y, 0) /\ DayOfYear(y, n)
<1>1. d \in Int /\ 0 <= d /\ d <= 146096
  BY DEF InEra
<1>2. PICK p \in Int : p = d \div 1460 /\ 1460 * p <= d /\ d < 1460 * p + 1460
  BY ONLY <1>1, By1460
<1>3. PICK q \in Int : q = d \div 36524 /\ 36524 * q <= d /\ d < 36524 * q + 36524
  BY ONLY <1>1, By36524
<1>4. PICK r \in Int : r = d \div 146096 /\ 146096 * r <= d /\ d < 146096 * r + 146096
  BY ONLY <1>1, By146096
<1>5. PICK e \in Int : e = d - p + q - r
  BY ONLY <1>1
<1>6. PICK y \in Int : y = e \div 365 /\ 365 * y <= e /\ e < 365 * y + 365
  BY ONLY By365
<1>7. YearOfEra(d) = y
  BY ONLY <1>2, <1>3, <1>4, <1>5, <1>6, SMT DEF YearOfEra
<1>8. PICK a \in Int : a = y \div 4 /\ 4 * a <= y /\ y < 4 * a + 4
  BY ONLY By4
<1>9. PICK b \in Int : b = y \div 100 /\ 100 * b <= y /\ y < 100 * b + 100
  BY ONLY By100
<1>10. DayOfEra(y, 0) = 365 * y + a - b
  <2>1. DayOfEra(y, 0) = y * 365 + a - b + 0
    BY ONLY <1>8, <1>9, Zenon DEF DayOfEra
  <2>2. QED
    BY ONLY <2>1, SMT
<1>11. PICK n \in Int : n = d - (365 * y + a - b)
  BY ONLY <1>1
<1>12. /\ 0 <= y /\ y <= 399 /\ 0 <= n /\ n <= 365
       /\ n = 365 => y + 1 = 4 * (a + 1) /\ (y + 1 # 100 * (b + 1) \/ y + 1 = 400)
  <2>1. 365 * y <= d - p + q - r /\ d - p + q - r < 365 * y + 365
    BY ONLY <1>5, <1>6
  <2>2. QED
    BY ONLY <2>1, <1>1, <1>2, <1>3, <1>4, <1>8, <1>9, <1>11, EraYear
<1>13. n = 365 => LeapYear(y + 1)
  BY ONLY <1>8, <1>9, <1>12, LeapFloors
<1>14. DayOfYear(y, n)
  BY ONLY <1>12, <1>13 DEF DayOfYear
<1>15. QED
  BY ONLY <1>7, <1>10, <1>11, <1>14

(* The day of the year is added last.                                      *)
LEMMA DayOfEraSums ==
  ASSUME NEW y \in Int, NEW n \in Int
  PROVE  /\ DayOfEra(y, n) \in Int /\ DayOfEra(y, 0) \in Int
         /\ DayOfEra(y, n) = DayOfEra(y, 0) + n
<1>1. PICK a \in Int : a = y \div 4
  BY ONLY By4
<1>2. PICK b \in Int : b = y \div 100
  BY ONLY By100
<1>3. DayOfEra(y, n) = y * 365 + a - b + n /\ DayOfEra(y, 0) = y * 365 + a - b + 0
  BY ONLY <1>1, <1>2, Zenon DEF DayOfEra
<1>4. QED
  BY ONLY <1>3, SMT

(* And the year and the day give the day of the era back.                  *)
LEMMA YearOfEraBack ==
  ASSUME NEW y \in Int, NEW n \in Int, DayOfYear(y, n)
  PROVE  InEra(DayOfEra(y, n)) /\ YearOfEra(DayOfEra(y, n)) = y
<1>1. y \in Int /\ 0 <= y /\ y <= 399 /\ n \in Int /\ 0 <= n /\ n <= 365
  BY DEF DayOfYear
<1>2. PICK a \in Int : a = y \div 4 /\ 4 * a <= y /\ y < 4 * a + 4
  BY ONLY <1>1, By4
<1>3. PICK b \in Int : b = y \div 100 /\ 100 * b <= y /\ y < 100 * b + 100
  BY ONLY <1>1, By100
<1>4. PICK d \in Int : d = 365 * y + a - b + n
  BY ONLY <1>1
<1>5. DayOfEra(y, n) = d
  <2>1. DayOfEra(y, n) = y * 365 + a - b + n
    BY ONLY <1>2, <1>3, Zenon DEF DayOfEra
  <2>2. QED
    BY ONLY <2>1, <1>1, <1>4, SMT
<1>6. PICK p \in Int : p = d \div 1460 /\ 1460 * p <= d /\ d < 1460 * p + 1460
  BY ONLY By1460
<1>7. PICK q \in Int : q = d \div 36524 /\ 36524 * q <= d /\ d < 36524 * q + 36524
  BY ONLY By36524
<1>8. PICK r \in Int : r = d \div 146096 /\ 146096 * r <= d /\ d < 146096 * r + 146096
  BY ONLY By146096
<1>9. n = 365 => y + 1 = 4 * (a + 1) /\ (y + 1 # 100 * (b + 1) \/ y + 1 = 400)
  BY ONLY DayOfYear(y, n), <1>1, <1>2, <1>3, LeapFloors DEF DayOfYear
<1>10. /\ 0 <= d /\ d <= 146096
       /\ 365 * y <= d - p + q - r /\ d - p + q - r < 365 * y + 365
  <2>1. 0 <= d
    BY ONLY <1>1, <1>2, <1>3, <1>4, SMT
  <2>2. d <= 146096
    BY ONLY <1>1, <1>2, <1>3, <1>4, <1>9, SMT
  <2>3. 365 * y <= d - p + q - r
    BY ONLY <1>1, <1>2, <1>3, <1>4, <1>6, <1>7, <1>8, <1>9, SMT
  <2>4. d - p + q - r < 365 * y + 365
    BY ONLY <1>1, <1>2, <1>3, <1>4, <1>6, <1>7, <1>8, <1>9, SMT
  <2>5. QED
    BY ONLY <2>1, <2>2, <2>3, <2>4
<1>11. PICK e \in Int : e = d - p + q - r
  OBVIOUS
<1>12. e \div 365 = y
  BY ONLY <1>1, <1>10, <1>11, SMT
<1>13. YearOfEra(d) = y
  BY ONLY <1>6, <1>7, <1>8, <1>11, <1>12, SMT DEF YearOfEra
<1>14. QED
  BY ONLY <1>5, <1>10, <1>13 DEF InEra

-----------------------------------------------------------------------------
(* The months from March, and the day within each.                         *)
MonthOf(n)  == (5 * n + 2) \div 153
FirstOf(mp) == (153 * mp + 2) \div 5
LastIn(mp)  == IF mp = 11 THEN 28 ELSE IF mp \in {1, 3, 6, 8} THEN 29 ELSE 30

DayOfMonth(y, mp, k) ==
  /\ mp \in 0 .. 11 /\ 0 <= k /\ k <= LastIn(mp)
  /\ mp = 11 /\ k = 28 => LeapYear(y + 1)

(* The days before each month, counted from March.                         *)
LEMMA MonthFirsts ==
  ASSUME NEW mp \in 0 .. 11
  PROVE  FirstOf(mp) =
           CASE mp = 0 -> 0 [] mp = 1 -> 31 [] mp = 2 -> 61 [] mp = 3 -> 92
             [] mp = 4 -> 122 [] mp = 5 -> 153 [] mp = 6 -> 184 [] mp = 7 -> 214
             [] mp = 8 -> 245 [] mp = 9 -> 275 [] mp = 10 -> 306 [] mp = 11 -> 337
BY SMT DEF FirstOf

(* A day of the year has a month and a day of it.                          *)
LEMMA MonthRight ==
  ASSUME NEW y \in Int, NEW n \in Int, DayOfYear(y, n)
  PROVE  \E mp \in Int, k \in Int :
           mp = MonthOf(n) /\ n = FirstOf(mp) + k /\ DayOfMonth(y, mp, k)
<1>1. n \in Int /\ 0 <= n /\ n <= 365 /\ (n = 365 => LeapYear(y + 1))
  BY DEF DayOfYear
<1>2. MonthOf(n) \in 0 .. 11
  BY ONLY <1>1, SMT DEF MonthOf
<1>3. PICK mp \in 0 .. 11 : mp = MonthOf(n) /\ 153 * mp <= 5 * n + 2 /\ 5 * n + 2 < 153 * mp + 153
  <2>1. 5 * n + 2 \in Int
    OBVIOUS
  <2>2. QED
    BY ONLY <1>2, <2>1, By153 DEF MonthOf
<1>4. FirstOf(mp) \in Int
  BY ONLY MonthFirsts, SMT
<1>5. PICK k \in Int : n = FirstOf(mp) + k
  <2>1. n - FirstOf(mp) \in Int /\ n = FirstOf(mp) + (n - FirstOf(mp))
    BY ONLY <1>1, <1>4, SMT
  <2>2. QED
    BY ONLY <2>1
<1>6. 0 <= k /\ k <= LastIn(mp)
  BY ONLY <1>1, <1>3, <1>5, MonthFirsts, SMT DEF LastIn
<1>7. mp = 11 /\ k = 28 => n = 365
  BY ONLY <1>1, <1>3, <1>5, MonthFirsts, SMT
<1>8. DayOfMonth(y, mp, k)
  BY ONLY <1>1, <1>6, <1>7, mp \in 0 .. 11 DEF DayOfMonth
<1>9. QED
  BY ONLY <1>3, <1>5, <1>8, mp \in Int

(* And they give the day of the year back.                                 *)
LEMMA MonthBack ==
  ASSUME NEW y \in Int, NEW mp \in Int, NEW k \in Int, DayOfMonth(y, mp, k), 0 <= y, y <= 399
  PROVE  \E n \in Int : n = FirstOf(mp) + k /\ MonthOf(n) = mp /\ DayOfYear(y, n)
<1>1. mp \in 0 .. 11 /\ 0 <= k /\ k <= LastIn(mp) /\ (mp = 11 /\ k = 28 => LeapYear(y + 1))
  BY DEF DayOfMonth
<1>2. FirstOf(mp) \in Int
  BY ONLY <1>1, MonthFirsts, SMT
<1>3. PICK n \in Int : n = FirstOf(mp) + k
  BY ONLY <1>2, SMT
<1>4. 0 <= n /\ n <= 365
  BY ONLY <1>1, <1>3, MonthFirsts, SMT DEF LastIn
<1>5. 153 * mp <= 5 * n + 2 /\ 5 * n + 2 < 153 * mp + 153
  BY ONLY <1>1, <1>3, MonthFirsts, SMT DEF LastIn
<1>6. MonthOf(n) = mp
  BY ONLY <1>5, mp \in Int, SMT DEF MonthOf
<1>7. n = 365 => mp = 11 /\ k = 28
  BY ONLY <1>1, <1>3, MonthFirsts, SMT DEF LastIn
<1>8. DayOfYear(y, n)
  BY ONLY <1>1, <1>4, <1>7, 0 <= y, y <= 399 DEF DayOfYear
<1>9. QED
  BY ONLY <1>3, <1>6, <1>8

LEMMA MonthFirstInt ==
  ASSUME NEW y \in Int, NEW mp \in Int, NEW k \in Int, DayOfMonth(y, mp, k)
  PROVE  FirstOf(mp) \in Int
BY MonthFirsts, SMT DEF DayOfMonth

(* The hours, minutes and seconds of a second of the day.                  *)
HourOf(s)   == s \div 3600
MinuteOf(s) == (s % 3600) \div 60
SecondOf(s) == s % 60
InDay(s)         == 0 <= s /\ s < 86400
OnClock(h, m, x) == h \in 0 .. 23 /\ m \in 0 .. 59 /\ x \in 0 .. 59
SecondOfDay(h, m, x) == h * 3600 + m * 60 + x

(* A second of the day has a time of day, and that time gives it back.     *)
LEMMA ClockRight ==
  ASSUME NEW s \in Int, InDay(s)
  PROVE  \E h \in Int, m \in Int, x \in Int :
           /\ h = HourOf(s) /\ m = MinuteOf(s) /\ x = SecondOf(s)
           /\ OnClock(h, m, x) /\ SecondOfDay(h, m, x) = s
<1>1. 0 <= s /\ s < 86400
  BY DEF InDay
<1>2. PICK h \in Int : h = s \div 3600 /\ 3600 * h <= s /\ s < 3600 * h + 3600
  BY ONLY By3600, SMT
<1>3. PICK r \in Int : r = s % 3600 /\ r = s - 3600 * h
  BY ONLY By3600, <1>2, SMT
<1>4. PICK m \in Int : m = r \div 60 /\ 60 * m <= r /\ r < 60 * m + 60
  BY ONLY By60
<1>5. PICK q \in Int : 60 * q <= s /\ s < 60 * q + 60 /\ s % 60 = s - 60 * q
  BY ONLY By60, SMT
<1>6. h \in 0 .. 23 /\ m \in 0 .. 59
  BY ONLY <1>1, <1>2, <1>3, <1>4, SMT
<1>7. q = 60 * h + m
  BY ONLY <1>1, <1>2, <1>3, <1>4, <1>5, SMT
<1>8. PICK x \in Int : x = s % 60 /\ x = s - 60 * q
  BY ONLY <1>5, SMT
<1>9. x \in 0 .. 59 /\ h * 3600 + m * 60 + x = s
  BY ONLY <1>2, <1>5, <1>7, <1>8, SMT
<1>10. HourOf(s) = h /\ SecondOf(s) = x
  BY ONLY <1>2, <1>8 DEF HourOf, SecondOf
<1>11. MinuteOf(s) = m
  BY ONLY <1>3, <1>4, SMT DEF MinuteOf
<1>12. OnClock(h, m, x) /\ SecondOfDay(h, m, x) = s
  BY ONLY <1>6, <1>9 DEF OnClock, SecondOfDay
<1>13. QED
  BY ONLY <1>10, <1>11, <1>12

(* And the other way round.                                                *)
LEMMA ClockBack ==
  ASSUME NEW h \in Int, NEW m \in Int, NEW x \in Int, OnClock(h, m, x)
  PROVE  \E s \in Int : /\ s = SecondOfDay(h, m, x) /\ InDay(s)
                        /\ h = HourOf(s) /\ m = MinuteOf(s) /\ x = SecondOf(s)
<1>1. h \in 0 .. 23 /\ m \in 0 .. 59 /\ x \in 0 .. 59
  BY DEF OnClock
<1>2. PICK s \in Int : s = h * 3600 + m * 60 + x
  BY ONLY SMT
<1>3. 0 <= s /\ s < 86400
  BY ONLY <1>1, <1>2, SMT
<1>4. s \div 3600 = h
  BY ONLY <1>1, <1>2, SMT
<1>5. s % 3600 = m * 60 + x
  BY ONLY <1>1, <1>2, SMT
<1>6. (m * 60 + x) \div 60 = m
  BY ONLY <1>1, SMT
<1>7. s % 60 = x
  BY ONLY <1>1, <1>2, SMT
<1>8. HourOf(s) = h /\ SecondOf(s) = x
  BY ONLY <1>4, <1>7 DEF HourOf, SecondOf
<1>9. MinuteOf(s) = m
  BY ONLY <1>5, <1>6, SMT DEF MinuteOf
<1>10. InDay(s) /\ s = SecondOfDay(h, m, x)
  BY ONLY <1>2, <1>3, SMT DEF InDay, SecondOfDay
<1>11. QED
  BY ONLY <1>8, <1>9, <1>10

(* The calendar repeats itself after 400 years.                            *)
LEMMA LeapPeriod ==
  ASSUME NEW y \in Int, NEW e \in Int
  PROVE  LeapYear(y + 400 * e) <=> LeapYear(y)
<1>1. (y + 400 * e) % 4 = y % 4
  BY SMT
<1>2. (y + 400 * e) % 100 = y % 100
  BY SMT
<1>3. (y + 400 * e) % 400 = y % 400
  BY SMT
<1>4. QED
  BY ONLY <1>1, <1>2, <1>3 DEF LeapYear

MonthNumber(mp) == IF mp < 10 THEN mp + 3 ELSE mp - 9
MarchMonth(m)   == IF m > 2 THEN m - 3 ELSE m + 9

(* Months counted from March, and their numbers.                           *)
LEMMA MonthNumbers ==
  ASSUME NEW mp \in 0 .. 11
  PROVE  /\ MonthNumber(mp) \in 1 .. 12 /\ MarchMonth(MonthNumber(mp)) = mp
         /\ MonthNumber(mp) <= 2 <=> mp >= 10
         /\ \A y \in Int : LastIn(mp) + 1 =
              IF mp = 11 THEN 29 ELSE DaysIn(y, MonthNumber(mp))
BY SMT DEF MonthNumber, MarchMonth, LastIn, DaysIn

LEMMA MarchMonths ==
  ASSUME NEW m \in 1 .. 12
  PROVE  /\ MarchMonth(m) \in 0 .. 11 /\ MonthNumber(MarchMonth(m)) = m
         /\ m <= 2 <=> MarchMonth(m) >= 10
         /\ m = 2 <=> MarchMonth(m) = 11
BY SMT DEF MonthNumber, MarchMonth

-----------------------------------------------------------------------------
(* The era, and the day in it, of a day counted from 0000-03-01.           *)
EraOf(z)   == z \div 146097
DayInEra(z) == z % 146097
DayNumber(e, y, n) == 146097 * e + DayOfEra(y, n)

(* What civil computes of a day, step by step.                             *)
LEMMA CivilDay ==
  ASSUME NEW z \in Int
  PROVE  \E e \in Int, y \in Int, n \in Int, mp \in Int, k \in Int :
           /\ e = EraOf(z) /\ y = YearOfEra(DayInEra(z))
           /\ n = DayInEra(z) - DayOfEra(y, 0) /\ mp = MonthOf(n) /\ n = FirstOf(mp) + k
           /\ DayOfYear(y, n) /\ DayOfMonth(y, mp, k)
           /\ DayNumber(e, y, n) = z
<1>1. PICK e \in Int : e = z \div 146097 /\ 146097 * e <= z /\ z < 146097 * e + 146097
  BY ONLY By146097, SMT
<1>2. PICK d \in Int : d = z % 146097 /\ d = z - 146097 * e
  BY ONLY By146097, <1>1, SMT
<1>3. InEra(d)
  BY ONLY <1>1, <1>2, SMT DEF InEra
<1>4. PICK y \in Int, n \in Int :
        y = YearOfEra(d) /\ n = d - DayOfEra(y, 0) /\ DayOfYear(y, n)
  BY ONLY <1>3, YearOfEraRight
<1>5. DayOfEra(y, n) = d
  BY ONLY <1>4, DayOfEraSums, SMT
<1>6. PICK mp \in Int, k \in Int :
         mp = MonthOf(n) /\ n = FirstOf(mp) + k /\ DayOfMonth(y, mp, k)
  BY ONLY <1>4, MonthRight
<1>7. DayNumber(e, y, n) = z
  BY ONLY <1>2, <1>5, SMT DEF DayNumber
<1>8. e = EraOf(z) /\ d = DayInEra(z)
  BY ONLY <1>1, <1>2 DEF EraOf, DayInEra
<1>9. QED
  BY ONLY <1>4, <1>6, <1>7, <1>8

(* And what unix_from_civil makes of it again.                             *)
LEMMA CivilDayBack ==
  ASSUME NEW e \in Int, NEW y \in Int, NEW mp \in Int, NEW k \in Int,
         DayOfMonth(y, mp, k), 0 <= y, y <= 399
  PROVE  \E z \in Int, n \in Int :
           /\ n = FirstOf(mp) + k /\ z = DayNumber(e, y, n)
           /\ e = EraOf(z) /\ y = YearOfEra(DayInEra(z))
           /\ n = DayInEra(z) - DayOfEra(y, 0) /\ mp = MonthOf(n)
<1>1. PICK n \in Int : n = FirstOf(mp) + k /\ MonthOf(n) = mp /\ DayOfYear(y, n)
  BY ONLY DayOfMonth(y, mp, k), 0 <= y, y <= 399, MonthBack
<1>2. PICK d \in Int : d = DayOfEra(y, n) /\ n = d - DayOfEra(y, 0)
  <2>1. PICK d \in Int : d = DayOfEra(y, n)
    BY ONLY DayOfEraSums
  <2>2. PICK c \in Int : c = DayOfEra(y, 0)
    BY ONLY DayOfEraSums
  <2>3. n = d - c
    BY ONLY <2>1, <2>2, DayOfEraSums, SMT
  <2>4. QED
    BY ONLY <2>1, <2>2, <2>3
<1>3. InEra(d) /\ YearOfEra(d) = y
  BY ONLY <1>1, <1>2, YearOfEraBack
<1>4. PICK z \in Int : z = 146097 * e + d
  OBVIOUS
<1>5. z \div 146097 = e /\ z % 146097 = d
  BY ONLY <1>3, <1>4, SMT DEF InEra
<1>6. z = DayNumber(e, y, n)
  <2>1. DayNumber(e, y, n) = 146097 * e + DayOfEra(y, n)
    BY ONLY SMT DEF DayNumber
  <2>2. d = DayOfEra(y, n)
    BY ONLY <1>2
  <2>3. QED
    BY ONLY <1>4, <2>1, <2>2, SMT
<1>7. EraOf(z) = e /\ DayInEra(z) = d
  BY ONLY <1>5 DEF EraOf, DayInEra
<1>8. QED
  BY ONLY <1>1, <1>2, <1>3, <1>6, <1>7

(* Years from March, and the months of the calendar.                       *)
Moment == [day : Int, sec : {s \in Int : InDay(s)}]
Fields == [1 .. 6 -> Int]
Dates  == {f \in Fields : IsDate(f)}

FromMarch == 719468
UnixDay(e, y, n) == 146097 * e + DayOfEra(y, n) - FromMarch

(* civil and unix_from_civil in these terms.                               *)
YearFrom(y, m) == IF m <= 2 THEN y + 1 ELSE y

LEMMA CivilFields ==
  ASSUME NEW t
  PROVE  LET z  == t.day + FromMarch
             yo == YearOfEra(DayInEra(z))
             n  == DayInEra(z) - DayOfEra(yo, 0)
             mp == MonthOf(n)
             m  == MonthNumber(mp)
         IN  civil(t) = <<YearFrom(yo + 400 * EraOf(z), m), m, n - FirstOf(mp) + 1,
                          HourOf(t.sec), MinuteOf(t.sec), SecondOf(t.sec)>>
BY DEF civil, FromMarch, DayInEra, EraOf, MonthOf, FirstOf, MonthNumber, YearFrom, HourOf,
       MinuteOf, SecondOf

LEMMA UnixFields ==
  ASSUME NEW f
  PROVE  LET Y == MarchYear(f[1], f[2])
         IN  unix_from_civil(f)
               = Instant(UnixDay(Y \div 400, Y % 400,
                                 FirstOf(MarchMonth(f[2])) + f[3] - 1),
                         SecondOfDay(f[4], f[5], f[6]))
BY DEF unix_from_civil, FromMarch, UnixDay, FirstOf, MarchMonth, SecondOfDay

(* A year is an era and a year of it.                                      *)
LEMMA YearSplit ==
  ASSUME NEW y \in Int, 0 <= y, y <= 399, NEW e \in Int
  PROVE  (y + 400 * e) \div 400 = e /\ (y + 400 * e) % 400 = y
BY SMT

LEMMA YearParts ==
  ASSUME NEW Y \in Int
  PROVE  \E e \in Int, y \in Int : /\ e = Y \div 400 /\ y = Y % 400 /\ 0 <= y /\ y <= 399
                                  /\ Y = y + 400 * e
<1>1. PICK e \in Int : e = Y \div 400 /\ 400 * e <= Y /\ Y < 400 * e + 400
  BY ONLY By400
<1>2. PICK y \in Int : y = Y % 400 /\ y = Y - 400 * e
  BY ONLY By400, <1>1, SMT
<1>3. 0 <= y /\ y <= 399 /\ Y = y + 400 * e
  BY ONLY <1>1, <1>2, SMT
<1>4. QED
  BY ONLY <1>1, <1>2, <1>3

(* January and February belong to the year from March before.              *)
LEMMA MarchYears ==
  ASSUME NEW Y \in Int, NEW m \in Int
  PROVE  /\ YearFrom(Y, m) \in Int /\ MarchYear(Y, m) \in Int
         /\ MarchYear(YearFrom(Y, m), m) = Y /\ YearFrom(MarchYear(Y, m), m) = Y
BY SMT DEF YearFrom, MarchYear

(* The day in an era, and the day from 1970-01-01.                         *)
LEMMA UnixDayOf ==
  ASSUME NEW e \in Int, NEW y \in Int, NEW n \in Int, NEW z \in Int, DayNumber(e, y, n) = z
  PROVE  UnixDay(e, y, n) = z - FromMarch
<1>1. PICK d \in Int : d = DayOfEra(y, n)
  BY ONLY DayOfEraSums
<1>2. 146097 * e + d = z
  BY ONLY <1>1, DayNumber(e, y, n) = z, SMT DEF DayNumber
<1>3. UnixDay(e, y, n) = 146097 * e + (d - FromMarch)
  BY ONLY <1>1, SMT DEF UnixDay
<1>4. FromMarch \in Int
  BY ONLY SMT DEF FromMarch
<1>5. QED
  BY ONLY <1>2, <1>3, <1>4, SMT

LEMMA InstantOf ==
  ASSUME NEW d \in Int, NEW s \in Int, InDay(s)
  PROVE  Instant(d, s) = [day |-> d, sec |-> s] /\ Instant(d, s) \in Moment
<1>1. s \div 86400 = 0 /\ s % 86400 = s
  BY SMT DEF InDay
<1>2. Instant(d, s) = [day |-> d, sec |-> s]
  BY ONLY <1>1, SMT DEF Instant
<1>3. QED
  BY ONLY <1>2, InDay(s) DEF Moment

(* The days of the months, counted from March.                             *)
LEMMA MonthOfYear ==
  ASSUME NEW y \in Int, NEW mp \in Int, NEW k \in Int, DayOfMonth(y, mp, k)
  PROVE  MonthNumber(mp) \in 1 .. 12 /\ MarchMonth(MonthNumber(mp)) = mp
BY MonthNumbers, SMT DEF DayOfMonth

(* The day of a month that civil computes is one that the month has.       *)
LEMMA MonthDates ==
  ASSUME NEW e \in Int, NEW y \in Int, NEW Y \in Int, Y = y + 400 * e,
         NEW mp \in Int, NEW k \in Int, DayOfMonth(y, mp, k)
  PROVE  k + 1 \in 1 .. DaysIn(YearFrom(Y, MonthNumber(mp)), MonthNumber(mp))
<1> DEFINE m == MonthNumber(mp)
<1>1. mp \in 0 .. 11 /\ 0 <= k /\ k <= LastIn(mp) /\ (mp = 11 /\ k = 28 => LeapYear(y + 1))
  BY ONLY DayOfMonth(y, mp, k) DEF DayOfMonth
<1>2. m \in 1 .. 12
  BY ONLY DayOfMonth(y, mp, k), MonthOfYear
<1>3. CASE mp # 11
  <2>1. YearFrom(Y, m) \in Int
    <3>1. m \in Int
      BY ONLY <1>2, SMT
    <3>2. QED
      BY ONLY <3>1, MarchYears
  <2>2. DaysIn(YearFrom(Y, m), m) = LastIn(mp) + 1
    BY ONLY <1>1, <1>3, <2>1, MonthNumbers
  <2>3. LastIn(mp) \in Int
    BY ONLY SMT DEF LastIn
  <2>4. QED
    BY ONLY <1>1, <2>2, <2>3, SMT
<1>4. CASE mp = 11
  <2>1. m = 2
    BY ONLY <1>4, SMT DEF MonthNumber
  <2>2. PICK o \in Int : o = y + 1
    OBVIOUS
  <2>3. YearFrom(Y, m) = o + 400 * e
    BY ONLY <2>1, <2>2, Y = y + 400 * e, SMT DEF YearFrom
  <2>4. LeapYear(o + 400 * e) <=> LeapYear(o)
    BY ONLY LeapPeriod
  <2>5. k = 28 => LeapYear(o + 400 * e)
    BY ONLY <1>1, <1>4, <2>2, <2>4
  <2>6. DaysIn(o + 400 * e, 2) = IF LeapYear(o + 400 * e) THEN 29 ELSE 28
    BY ONLY DEF DaysIn
  <2>7. k <= 28
    BY ONLY <1>1, <1>4, SMT DEF LastIn
  <2>8. QED
    BY ONLY <1>1, <2>1, <2>3, <2>5, <2>6, <2>7, SMT
<1>5. QED
  BY ONLY <1>3, <1>4

(* Whatever the time, civil gives a date of the Gregorian calendar with a  *)
(* time of day, and unix_from_civil takes it back to the time.             *)
THEOREM CivilRight ==
  ASSUME NEW t \in Moment
  PROVE  civil(t) \in Dates /\ unix_from_civil(civil(t)) = t
<1>1. t.day \in Int /\ t.sec \in Int /\ InDay(t.sec) /\ t = [day |-> t.day, sec |-> t.sec]
  BY ONLY t \in Moment DEF Moment
<1>2. PICK z \in Int : z = t.day + FromMarch
  BY ONLY <1>1, SMT DEF FromMarch
<1>3. PICK e \in Int, y \in Int, n \in Int, mp \in Int, k \in Int :
        /\ e = EraOf(z) /\ y = YearOfEra(DayInEra(z))
        /\ n = DayInEra(z) - DayOfEra(y, 0) /\ mp = MonthOf(n) /\ n = FirstOf(mp) + k
        /\ DayOfYear(y, n) /\ DayOfMonth(y, mp, k)
        /\ DayNumber(e, y, n) = z
  BY ONLY CivilDay
<1>4. PICK h \in Int, mi \in Int, x \in Int :
        /\ h = HourOf(t.sec) /\ mi = MinuteOf(t.sec) /\ x = SecondOf(t.sec)
        /\ OnClock(h, mi, x) /\ SecondOfDay(h, mi, x) = t.sec
  BY ONLY <1>1, ClockRight
<1>5. PICK Y \in Int : Y = y + 400 * e
  OBVIOUS
<1>6. PICK m \in Int : m = MonthNumber(mp) /\ m \in 1 .. 12 /\ MarchMonth(m) = mp
                       /\ k + 1 \in 1 .. DaysIn(YearFrom(Y, m), m)
  <2> DayOfMonth(y, mp, k)
    BY ONLY <1>3
  <2>1. MonthNumber(mp) \in 1 .. 12 /\ MarchMonth(MonthNumber(mp)) = mp
    BY ONLY DayOfMonth(y, mp, k), MonthOfYear
  <2>2. MonthNumber(mp) \in Int
    BY ONLY <2>1, SMT
  <2>3. k + 1 \in 1 .. DaysIn(YearFrom(Y, MonthNumber(mp)), MonthNumber(mp))
    BY ONLY DayOfMonth(y, mp, k), <1>5, MonthDates
  <2>4. QED
    BY ONLY <2>1, <2>2, <2>3
<1>7. PICK yr \in Int : yr = YearFrom(Y, m) /\ MarchYear(yr, m) = Y
  BY ONLY MarchYears
<1>8. PICK d \in Int : d = k + 1 /\ d = n - FirstOf(mp) + 1 /\ FirstOf(mp) + d - 1 = n
  <2>1. FirstOf(mp) \in Int
    BY ONLY <1>3, MonthFirstInt
  <2>2. n - FirstOf(mp) + 1 = k + 1 /\ FirstOf(mp) + (k + 1) - 1 = n
    BY ONLY <1>3, <2>1, SMT
  <2>3. QED
    BY ONLY <2>2, k + 1 \in Int
<1>9. civil(t) = <<yr, m, d, h, mi, x>>
  BY ONLY <1>2, <1>3, <1>4, <1>5, <1>6, <1>7, <1>8, CivilFields
<1>10. DEFINE f == <<yr, m, d, h, mi, x>>
<1>11. /\ f \in Fields /\ f[1] = yr /\ f[2] = m /\ f[3] = d /\ f[4] = h /\ f[5] = mi /\ f[6] = x
  BY ONLY SMT DEF Fields
<1> HIDE DEF f
<1>12. IsDate(f)
  BY ONLY <1>4, <1>6, <1>7, <1>8, <1>11 DEF IsDate, OnClock
<1>13. Y \div 400 = e /\ Y % 400 = y
  BY ONLY <1>3, <1>5, YearSplit DEF DayOfYear
<1>14. unix_from_civil(f) = Instant(UnixDay(e, y, n), t.sec)
  <2>1. unix_from_civil(f)
          = Instant(UnixDay(MarchYear(f[1], f[2]) \div 400, MarchYear(f[1], f[2]) % 400,
                            FirstOf(MarchMonth(f[2])) + f[3] - 1),
                    SecondOfDay(f[4], f[5], f[6]))
    BY ONLY UnixFields
  <2>2. MarchYear(f[1], f[2]) = Y /\ MarchMonth(f[2]) = mp
    BY ONLY <1>6, <1>7, <1>11
  <2>3. FirstOf(MarchMonth(f[2])) + f[3] - 1 = n
    BY ONLY <1>8, <1>11, <2>2
  <2>4. SecondOfDay(f[4], f[5], f[6]) = t.sec
    BY ONLY <1>4, <1>11
  <2>5. QED
    BY ONLY <1>13, <2>1, <2>2, <2>3, <2>4
<1>15. UnixDay(e, y, n) = t.day
  <2>1. UnixDay(e, y, n) = z - FromMarch
    BY ONLY <1>3, UnixDayOf
  <2>2. QED
    BY ONLY <1>1, <1>2, <2>1, SMT DEF FromMarch
<1>16. Instant(t.day, t.sec) = t
  BY ONLY <1>1, InstantOf
<1>17. QED
  BY ONLY <1>9, <1>11, <1>12, <1>14, <1>15, <1>16 DEF Dates, f

EraYearOf(e, y) == y + 400 * e

(* A date, taken apart the way unix_from_civil does.                       *)
LEMMA DateMonths ==
  ASSUME NEW e \in Int, NEW y \in Int, NEW a \in Int, NEW m \in Int, NEW d \in Int,
         MarchYear(a, m) = EraYearOf(e, y), m \in 1 .. 12, d \in 1 .. DaysIn(a, m)
  PROVE  /\ MarchMonth(m) \in Int /\ MonthNumber(MarchMonth(m)) = m
         /\ DayOfMonth(y, MarchMonth(m), d - 1)
<1>1. PICK mp \in Int : mp = MarchMonth(m) /\ mp \in 0 .. 11 /\ MonthNumber(mp) = m
  <2>1. MarchMonth(m) \in 0 .. 11 /\ MonthNumber(MarchMonth(m)) = m
    BY ONLY m \in 1 .. 12, MarchMonths
  <2>2. MarchMonth(m) \in Int
    BY ONLY <2>1, SMT
  <2>3. QED
    BY ONLY <2>1, <2>2
<1>2. PICK k \in Int : k = d - 1
  OBVIOUS
<1>3. d = k + 1 /\ 0 <= k
  BY ONLY <1>2, d \in 1 .. DaysIn(a, m), SMT
<1>4. ASSUME mp # 11 PROVE DayOfMonth(y, mp, d - 1)
  <2>1. DaysIn(a, m) = LastIn(mp) + 1
    BY ONLY <1>1, <1>4, MonthNumbers
  <2>2. k <= LastIn(mp)
    <3>1. LastIn(mp) \in Int
      BY ONLY SMT DEF LastIn
    <3>2. QED
      BY ONLY <1>2, <2>1, <3>1, d \in 1 .. DaysIn(a, m), SMT
  <2>3. DayOfMonth(y, mp, k)
    BY ONLY <1>1, <1>3, <1>4, <2>2 DEF DayOfMonth
  <2>4. QED
    BY ONLY <1>2, <2>3
<1>5. ASSUME mp = 11 PROVE DayOfMonth(y, mp, d - 1)
  <2>1. m = 2
    BY ONLY <1>1, <1>5, SMT DEF MonthNumber
  <2>2. PICK o \in Int : o = y + 1
    OBVIOUS
  <2>3. a = o + 400 * e
    BY ONLY <2>1, <2>2, MarchYear(a, m) = EraYearOf(e, y), SMT DEF MarchYear, EraYearOf
  <2>4. LeapYear(a) <=> LeapYear(o)
    <3>1. LeapYear(o + 400 * e) <=> LeapYear(o)
      BY ONLY LeapPeriod
    <3>2. QED
      BY ONLY <2>3, <3>1
  <2>5. DaysIn(a, m) = IF LeapYear(a) THEN 29 ELSE 28
    BY ONLY <2>1 DEF DaysIn
  <2>6. k <= 28 /\ (k = 28 => LeapYear(a))
    BY ONLY <1>2, <2>5, d \in 1 .. DaysIn(a, m), SMT
  <2>7. DayOfMonth(y, mp, k)
    <3>1. LastIn(mp) = 28
      BY ONLY <1>5, SMT DEF LastIn
    <3>2. QED
      BY ONLY <1>1, <1>3, <2>2, <2>4, <2>6, <3>1 DEF DayOfMonth
  <2>8. QED
    BY ONLY <1>2, <2>7
<1>6. QED
  BY ONLY <1>1, <1>4, <1>5

LEMMA DateFields ==
  ASSUME NEW f \in Dates
  PROVE  /\ f \in Fields /\ f = <<f[1], f[2], f[3], f[4], f[5], f[6]>>
         /\ f[1] \in Int /\ f[2] \in Int /\ f[3] \in Int
         /\ f[4] \in Int /\ f[5] \in Int /\ f[6] \in Int
         /\ f[2] \in 1 .. 12 /\ f[3] \in 1 .. DaysIn(f[1], f[2])
         /\ OnClock(f[4], f[5], f[6])
<1>1. f \in [1 .. 6 -> Int] /\ IsDate(f)
  BY ONLY f \in Dates DEF Dates, Fields
<1>2. f = <<f[1], f[2], f[3], f[4], f[5], f[6]>>
  BY ONLY <1>1, SMT
<1>3. QED
  BY ONLY <1>1, <1>2, SMT DEF Fields, IsDate, OnClock

(* And whatever the date, unix_from_civil gives its time: civil takes it   *)
(* back to the date.  The two are inverse to each other.                   *)
THEOREM CivilBack ==
  ASSUME NEW f \in Dates
  PROVE  unix_from_civil(f) \in Moment /\ civil(unix_from_civil(f)) = f
<1>1. PICK a \in Int, m \in Int, d \in Int, h \in Int, mi \in Int, x \in Int :
        /\ a = f[1] /\ m = f[2] /\ d = f[3] /\ h = f[4] /\ mi = f[5] /\ x = f[6]
        /\ f = <<a, m, d, h, mi, x>> /\ m \in 1 .. 12 /\ d \in 1 .. DaysIn(a, m)
        /\ OnClock(h, mi, x)
  BY ONLY DateFields
<1>2. PICK Y \in Int : Y = MarchYear(a, m) /\ YearFrom(Y, m) = a
  BY ONLY MarchYears
<1>3. PICK e \in Int, y \in Int : /\ e = Y \div 400 /\ y = Y % 400 /\ 0 <= y /\ y <= 399
                                  /\ Y = y + 400 * e
  BY ONLY YearParts
<1>4. PICK mp \in Int, k \in Int : /\ mp = MarchMonth(m) /\ MonthNumber(mp) = m /\ d = k + 1
                                   /\ DayOfMonth(y, mp, k)
  <2>1. MarchYear(a, m) = EraYearOf(e, y)
    BY ONLY <1>2, <1>3, SMT DEF EraYearOf
  <2>2. m \in 1 .. 12 /\ d \in 1 .. DaysIn(a, m)
    BY ONLY <1>1
  <2>3. /\ MarchMonth(m) \in Int /\ MonthNumber(MarchMonth(m)) = m
        /\ DayOfMonth(y, MarchMonth(m), d - 1)
    BY ONLY <2>1, <2>2, DateMonths
  <2>4. PICK k \in Int : k = d - 1 /\ d = k + 1
    <3>1. d - 1 \in Int /\ d = (d - 1) + 1
      OBVIOUS
    <3>2. QED
      BY ONLY <3>1
  <2>5. QED
    BY ONLY <2>3, <2>4
<1>5. PICK z \in Int, n \in Int :
        /\ n = FirstOf(mp) + k /\ z = DayNumber(e, y, n)
        /\ e = EraOf(z) /\ y = YearOfEra(DayInEra(z))
        /\ n = DayInEra(z) - DayOfEra(y, 0) /\ mp = MonthOf(n)
  BY ONLY <1>3, <1>4, CivilDayBack
<1>6. PICK s \in Int : /\ s = SecondOfDay(h, mi, x) /\ InDay(s)
                       /\ h = HourOf(s) /\ mi = MinuteOf(s) /\ x = SecondOf(s)
  BY ONLY <1>1, ClockBack
<1>7. FirstOf(mp) \in Int
  BY ONLY <1>4, MonthFirstInt
<1>8. FirstOf(mp) + d - 1 = n /\ n - FirstOf(mp) + 1 = d
  BY ONLY <1>4, <1>5, <1>7, SMT
<1>9. PICK day \in Int : day = z - FromMarch /\ day + FromMarch = z
  <2>1. z - FromMarch \in Int /\ (z - FromMarch) + FromMarch = z
    BY ONLY SMT DEF FromMarch
  <2>2. QED
    BY ONLY <2>1
<1>10. UnixDay(e, y, n) = day
  <2>1. DayNumber(e, y, n) = z
    BY ONLY <1>5
  <2>2. UnixDay(e, y, n) = z - FromMarch
    BY ONLY <2>1, UnixDayOf
  <2>3. QED
    BY ONLY <1>9, <2>2
<1>11. unix_from_civil(f) = Instant(day, s)
  <2>1. unix_from_civil(f)
          = Instant(UnixDay(MarchYear(f[1], f[2]) \div 400, MarchYear(f[1], f[2]) % 400,
                            FirstOf(MarchMonth(f[2])) + f[3] - 1),
                    SecondOfDay(f[4], f[5], f[6]))
    BY ONLY UnixFields
  <2>2. MarchYear(f[1], f[2]) = Y /\ MarchMonth(f[2]) = mp /\ f[3] = d
    BY ONLY <1>1, <1>2, <1>4
  <2>3. SecondOfDay(f[4], f[5], f[6]) = s
    BY ONLY <1>1, <1>6
  <2>4. QED
    BY ONLY <1>3, <1>8, <1>10, <2>1, <2>2, <2>3
<1>12. Instant(day, s) = [day |-> day, sec |-> s] /\ Instant(day, s) \in Moment
  BY ONLY <1>6, InstantOf
<1>13. PICK t \in Moment : t = unix_from_civil(f) /\ t.day = day /\ t.sec = s
  BY ONLY <1>11, <1>12
<1>14. civil(t) = <<YearFrom(y + 400 * e, m), m, n - FirstOf(mp) + 1, h, mi, x>>
  BY ONLY <1>4, <1>5, <1>6, <1>9, <1>13, CivilFields
<1>15. civil(t) = <<a, m, d, h, mi, x>>
  BY ONLY <1>2, <1>3, <1>8, <1>14
<1>16. QED
  BY ONLY <1>1, <1>13, <1>15

-----------------------------------------------------------------------------
(* The days before a year that counts from March.                          *)
YearDay(Y) == 365 * Y + Y \div 4 - Y \div 100 + Y \div 400
DateDay(a, m, d) ==
  YearDay(MarchYear(a, m)) + (FirstOf(MarchMonth(m)) + d - 1) - FromMarch

LEMMA YearDayInt ==
  ASSUME NEW Y \in Int
  PROVE  YearDay(Y) \in Int
BY By4, By100, By400, SMT DEF YearDay

(* Without eras: the day from the years from March and the day of the year. *)
LEMMA UnixDayFlat ==
  ASSUME NEW Y \in Int, NEW n \in Int
  PROVE  UnixDay(Y \div 400, Y % 400, n) = YearDay(Y) + n - FromMarch
<1>1. PICK e \in Int, y \in Int : /\ e = Y \div 400 /\ y = Y % 400 /\ 0 <= y /\ y <= 399
                                  /\ Y = y + 400 * e
  BY ONLY YearParts
<1>2. PICK a \in Int : a = y \div 4 /\ 4 * a <= y /\ y < 4 * a + 4
  BY ONLY By4
<1>3. PICK b \in Int : b = y \div 100 /\ 100 * b <= y /\ y < 100 * b + 100
  BY ONLY By100
<1>4. Y \div 4 = a + 100 * e
  BY ONLY <1>1, <1>2, SMT
<1>5. Y \div 100 = b + 4 * e
  BY ONLY <1>1, <1>3, SMT
<1>6. PICK c \in Int : c = FromMarch
  BY ONLY SMT DEF FromMarch
<1>7. UnixDay(e, y, n) = 146097 * e + (y * 365 + a - b + n) - c
  BY ONLY <1>2, <1>3, <1>6, SMT DEF UnixDay, DayOfEra
<1>8. YearDay(Y) = 365 * Y + (a + 100 * e) - (b + 4 * e) + e
  BY ONLY <1>1, <1>4, <1>5, SMT DEF YearDay
<1>9. YearDay(Y) + n - c = 146097 * e + (y * 365 + a - b + n) - c
  BY ONLY <1>1, <1>8, SMT
<1>10. QED
  BY ONLY <1>1, <1>6, <1>7, <1>9

(* A year has 366 days when it ends with a leap day.                       *)
LEMMA YearLonger ==
  ASSUME NEW Y \in Int
  PROVE  YearDay(Y + 1) = YearDay(Y) + (IF LeapYear(Y + 1) THEN 366 ELSE 365)
<1>1. PICK a \in Int : a = Y \div 4 /\ 4 * a <= Y /\ Y < 4 * a + 4
  BY ONLY By4
<1>2. PICK b \in Int : b = Y \div 100 /\ 100 * b <= Y /\ Y < 100 * b + 100
  BY ONLY By100
<1>3. PICK c \in Int : c = Y \div 400 /\ 400 * c <= Y /\ Y < 400 * c + 400
  BY ONLY By400
<1>4. /\ (Y + 1) % 4 = 0 => (Y + 1) \div 4 = a + 1
      /\ (Y + 1) % 4 # 0 => (Y + 1) \div 4 = a
  BY ONLY <1>1, SMT
<1>5. /\ (Y + 1) % 100 = 0 => (Y + 1) \div 100 = b + 1
      /\ (Y + 1) % 100 # 0 => (Y + 1) \div 100 = b
  BY ONLY <1>2, SMT
<1>6. /\ (Y + 1) % 400 = 0 => (Y + 1) \div 400 = c + 1
      /\ (Y + 1) % 400 # 0 => (Y + 1) \div 400 = c
  BY ONLY <1>3, SMT
<1>7. (Y + 1) % 400 = 0 => (Y + 1) % 100 = 0
  BY ONLY SMT
<1>8. (Y + 1) % 100 = 0 => (Y + 1) % 4 = 0
  BY ONLY SMT
<1>9. YearDay(Y) = 365 * Y + a - b + c
  BY ONLY <1>1, <1>2, <1>3, SMT DEF YearDay
<1>10. LeapYear(Y + 1) <=> (Y + 1) % 4 = 0 /\ ((Y + 1) % 100 # 0 \/ (Y + 1) % 400 = 0)
  BY ONLY Zenon DEF LeapYear
<1>11. YearDay(Y + 1) = 365 * (Y + 1) + (Y + 1) \div 4 - (Y + 1) \div 100 + (Y + 1) \div 400
  BY ONLY SMT DEF YearDay
<1>12. CASE (Y + 1) % 4 # 0
  <2>1. YearDay(Y + 1) = 365 * (Y + 1) + a - b + c
    BY ONLY <1>4, <1>5, <1>6, <1>7, <1>8, <1>11, <1>12
  <2>2. ~LeapYear(Y + 1)
    BY ONLY <1>10, <1>12
  <2>3. QED
    BY ONLY <1>9, <2>1, <2>2, SMT
<1>13. CASE (Y + 1) % 4 = 0 /\ (Y + 1) % 100 # 0
  <2>1. YearDay(Y + 1) = 365 * (Y + 1) + (a + 1) - b + c
    BY ONLY <1>4, <1>5, <1>6, <1>7, <1>11, <1>13
  <2>2. LeapYear(Y + 1)
    BY ONLY <1>10, <1>13
  <2>3. QED
    BY ONLY <1>9, <2>1, <2>2, SMT
<1>14. CASE (Y + 1) % 100 = 0 /\ (Y + 1) % 400 # 0
  <2>1. YearDay(Y + 1) = 365 * (Y + 1) + (a + 1) - (b + 1) + c
    BY ONLY <1>4, <1>5, <1>6, <1>8, <1>11, <1>14
  <2>2. ~LeapYear(Y + 1)
    BY ONLY <1>10, <1>14
  <2>3. QED
    BY ONLY <1>9, <2>1, <2>2, SMT
<1>15. CASE (Y + 1) % 400 = 0
  <2>1. YearDay(Y + 1) = 365 * (Y + 1) + (a + 1) - (b + 1) + (c + 1)
    BY ONLY <1>4, <1>5, <1>6, <1>7, <1>8, <1>11, <1>15
  <2>2. LeapYear(Y + 1)
    BY ONLY <1>7, <1>8, <1>10, <1>15
  <2>3. QED
    BY ONLY <1>9, <2>1, <2>2, SMT
<1>16. QED
  BY ONLY <1>7, <1>12, <1>13, <1>14, <1>15

LEMMA YearsAscend ==
  ASSUME NEW X \in Int, NEW Y \in Int, X <= Y
  PROVE  YearDay(X) <= YearDay(Y)
<1>1. PICK a \in Int : a = X \div 4 /\ 4 * a <= X /\ X < 4 * a + 4
  BY ONLY By4
<1>2. PICK b \in Int : b = X \div 100 /\ 100 * b <= X /\ X < 100 * b + 100
  BY ONLY By100
<1>3. PICK c \in Int : c = X \div 400 /\ 400 * c <= X /\ X < 400 * c + 400
  BY ONLY By400
<1>4. PICK p \in Int : p = Y \div 4 /\ 4 * p <= Y /\ Y < 4 * p + 4
  BY ONLY By4
<1>5. PICK q \in Int : q = Y \div 100 /\ 100 * q <= Y /\ Y < 100 * q + 100
  BY ONLY By100
<1>6. PICK r \in Int : r = Y \div 400 /\ 400 * r <= Y /\ Y < 400 * r + 400
  BY ONLY By400
<1>7. YearDay(X) = 365 * X + a - b + c
  BY ONLY <1>1, <1>2, <1>3, SMT DEF YearDay
<1>8. YearDay(Y) = 365 * Y + p - q + r
  BY ONLY <1>4, <1>5, <1>6, SMT DEF YearDay
<1>9. a <= p /\ c <= r /\ 100 * (q - b) <= Y - X + 100
  BY ONLY X <= Y, <1>1, <1>2, <1>3, <1>4, <1>5, <1>6, SMT
<1>10. X < Y => q - b <= 365 * (Y - X)
  BY ONLY <1>9, SMT
<1>11. CASE X = Y
  BY ONLY <1>11, YearDayInt, SMT
<1>12. CASE X < Y
  BY ONLY <1>7, <1>8, <1>9, <1>10, <1>12, SMT
<1>13. QED
  BY ONLY X <= Y, <1>11, <1>12, SMT

LEMMA DateDayInt ==
  ASSUME NEW a \in Int, NEW m \in 1 .. 12, NEW d \in Int
  PROVE  DateDay(a, m, d) \in Int
<1>1. MarchYear(a, m) \in Int
  BY ONLY SMT DEF MarchYear
<1>2. YearDay(MarchYear(a, m)) \in Int
  BY ONLY <1>1, YearDayInt
<1>3. MarchMonth(m) \in 0 .. 11
  BY ONLY MarchMonths
<1>4. FirstOf(MarchMonth(m)) \in Int
  BY ONLY <1>3, MonthFirsts, SMT
<1>5. QED
  BY ONLY <1>2, <1>4, SMT DEF DateDay, FromMarch

(* The time of a date, without eras.                                       *)
LEMMA UnixOfDate ==
  ASSUME NEW f \in Dates
  PROVE  LET s == SecondOfDay(f[4], f[5], f[6])
         IN  /\ unix_from_civil(f) = [day |-> DateDay(f[1], f[2], f[3]), sec |-> s]
             /\ DateDay(f[1], f[2], f[3]) \in Int /\ s \in Int /\ InDay(s)
<1>1. PICK a \in Int, m \in Int, d \in Int :
        /\ a = f[1] /\ m = f[2] /\ d = f[3] /\ m \in 1 .. 12
        /\ OnClock(f[4], f[5], f[6])
  BY ONLY DateFields
<1>2. f[4] \in Int /\ f[5] \in Int /\ f[6] \in Int
  BY ONLY DateFields
<1>3. PICK s \in Int : s = SecondOfDay(f[4], f[5], f[6]) /\ InDay(s)
  BY ONLY <1>1, <1>2, ClockBack
<1>4. PICK Y \in Int : Y = MarchYear(a, m)
  BY ONLY MarchYears
<1>5. MarchMonth(m) \in 0 .. 11
  BY ONLY <1>1, MarchMonths
<1>6. PICK n \in Int : n = FirstOf(MarchMonth(m)) + d - 1
  <2>1. FirstOf(MarchMonth(m)) \in Int
    BY ONLY <1>5, MonthFirsts, SMT
  <2>2. FirstOf(MarchMonth(m)) + d - 1 \in Int
    BY ONLY <2>1, SMT
  <2>3. QED
    BY ONLY <2>2
<1>7. PICK z \in Int : z = DateDay(a, m, d)
  BY ONLY <1>1, DateDayInt
<1>8. UnixDay(Y \div 400, Y % 400, n) = z
  <2>1. UnixDay(Y \div 400, Y % 400, n) = YearDay(Y) + n - FromMarch
    BY ONLY UnixDayFlat
  <2>2. z = YearDay(Y) + n - FromMarch
    BY ONLY <1>4, <1>6, <1>7 DEF DateDay
  <2>3. QED
    BY ONLY <2>1, <2>2
<1>9. unix_from_civil(f) = Instant(z, s)
  <2>1. unix_from_civil(f)
          = Instant(UnixDay(MarchYear(f[1], f[2]) \div 400, MarchYear(f[1], f[2]) % 400,
                            FirstOf(MarchMonth(f[2])) + f[3] - 1),
                    SecondOfDay(f[4], f[5], f[6]))
    BY ONLY UnixFields
  <2>2. QED
    BY ONLY <1>1, <1>3, <1>4, <1>6, <1>8, <2>1
<1>10. Instant(z, s) = [day |-> z, sec |-> s]
  BY ONLY <1>3, InstantOf
<1>11. QED
  BY ONLY <1>1, <1>3, <1>7, <1>9, <1>10

(* The months follow one another without a gap.                            *)
LEMMA NextMonth ==
  ASSUME NEW mp \in 0 .. 10
  PROVE  FirstOf(mp + 1) = FirstOf(mp) + LastIn(mp) + 1
<1>1. mp \in 0 .. 11 /\ mp + 1 \in 0 .. 11
  OBVIOUS
<1>2. QED
  BY ONLY <1>1, MonthFirsts, SMT DEF LastIn

LEMMA MonthsAscend ==
  ASSUME NEW i \in 0 .. 11, NEW j \in 0 .. 11, i < j
  PROVE  FirstOf(i) + LastIn(i) < FirstOf(j)
<1>1. i \in 0 .. 10 /\ i + 1 \in 0 .. 11 /\ i + 1 <= j
  OBVIOUS
<1>2. FirstOf(i + 1) = FirstOf(i) + LastIn(i) + 1
  BY ONLY <1>1, NextMonth
<1>3. FirstOf(i) \in Int /\ FirstOf(j) \in Int /\ LastIn(i) \in Int
  BY MonthFirsts, SMT DEF LastIn
<1>4. PICK p \in Int : p = FirstOf(i + 1) /\ 5 * p <= 153 * (i + 1) + 2
  <2>1. 153 * (i + 1) + 2 \in Int
    OBVIOUS
  <2>2. QED
    BY ONLY <2>1, By5 DEF FirstOf
<1>5. PICK q \in Int : q = FirstOf(j) /\ 153 * j + 2 < 5 * q + 5
  <2>1. 153 * j + 2 \in Int
    OBVIOUS
  <2>2. QED
    BY ONLY <2>1, By5 DEF FirstOf
<1>6. p <= q
  BY ONLY <1>1, <1>4, <1>5, SMT
<1>7. QED
  BY ONLY <1>2, <1>3, <1>4, <1>5, <1>6, SMT

(* The day after a date is one more, at the end of a month and of a year too. *)
LEMMA DayAfter ==
  ASSUME NEW a \in Int, NEW m \in 1 .. 12, NEW d \in 1 .. DaysIn(a, m)
  PROVE  /\ d < DaysIn(a, m) => DateDay(a, m, d + 1) = DateDay(a, m, d) + 1
         /\ d = DaysIn(a, m) /\ m < 12 => DateDay(a, m + 1, 1) = DateDay(a, m, d) + 1
         /\ d = DaysIn(a, m) /\ m = 12 => DateDay(a + 1, 1, 1) = DateDay(a, m, d) + 1
<1>1. d \in Int
  BY SMT DEF DaysIn
<1>2. PICK Y \in Int : Y = MarchYear(a, m)
  BY ONLY SMT DEF MarchYear
<1>3. PICK mp \in 0 .. 11 : mp = MarchMonth(m) /\ MonthNumber(mp) = m
  BY ONLY MarchMonths
<1>4. PICK D \in Int : D = YearDay(Y)
  BY ONLY YearDayInt
<1>5. PICK p \in Int : p = FirstOf(mp)
  BY ONLY MonthFirsts, SMT
<1>6. PICK c \in Int : c = FromMarch
  BY ONLY SMT DEF FromMarch
<1>7. DateDay(a, m, d) = D + (p + d - 1) - c
  BY ONLY <1>2, <1>3, <1>4, <1>5, <1>6 DEF DateDay
<1>8. DateDay(a, m, d + 1) = D + (p + (d + 1) - 1) - c
  BY ONLY <1>2, <1>3, <1>4, <1>5, <1>6 DEF DateDay
<1>9. DateDay(a, m, d + 1) = DateDay(a, m, d) + 1
  BY ONLY <1>1, <1>7, <1>8, SMT
<1>10. ASSUME d = DaysIn(a, m), m \in 3 .. 11
       PROVE  DateDay(a, m + 1, 1) = DateDay(a, m, d) + 1
  <2>1. MarchYear(a, m + 1) = Y /\ MarchMonth(m + 1) = mp + 1 /\ mp \in 0 .. 8
    BY ONLY <1>2, <1>3, <1>10, SMT DEF MarchYear, MarchMonth
  <2>2. d = LastIn(mp) + 1
    BY ONLY <1>3, <1>10, <2>1, MonthNumbers, SMT
  <2>3. FirstOf(mp + 1) = p + d
    <3>1. mp \in 0 .. 10 /\ LastIn(mp) \in Int
      BY ONLY <2>1, SMT DEF LastIn
    <3>2. FirstOf(mp + 1) = FirstOf(mp) + LastIn(mp) + 1
      BY ONLY <3>1, NextMonth
    <3>3. QED
      BY ONLY <1>5, <2>2, <3>1, <3>2, SMT
  <2>4. DateDay(a, m + 1, 1) = D + (p + d + 1 - 1) - c
    BY ONLY <1>4, <1>6, <2>1, <2>3, SMT DEF DateDay
  <2>5. QED
    BY ONLY <1>1, <1>7, <2>4, SMT
<1>11. ASSUME d = DaysIn(a, m), m = 1
       PROVE  DateDay(a, m + 1, 1) = DateDay(a, m, d) + 1
  <2>1. MarchYear(a, m + 1) = Y /\ MarchMonth(m + 1) = 11 /\ mp = 10 /\ d = 31
    BY ONLY <1>2, <1>3, <1>11, SMT DEF MarchYear, MarchMonth, DaysIn
  <2>2. p = 306 /\ FirstOf(11) = 337
    BY ONLY <1>5, <2>1, MonthFirsts, SMT
  <2>3. DateDay(a, m + 1, 1) = D + (337 + 1 - 1) - c
    BY ONLY <1>4, <1>6, <2>1, <2>2 DEF DateDay
  <2>4. QED
    BY ONLY <1>7, <2>1, <2>2, <2>3, SMT
<1>12. ASSUME d = DaysIn(a, m), m = 12
       PROVE  DateDay(a + 1, 1, 1) = DateDay(a, m, d) + 1
  <2>1. MarchYear(a + 1, 1) = Y /\ MarchMonth(1) = 10 /\ mp = 9 /\ d = 31
    BY ONLY <1>2, <1>3, <1>12, SMT DEF MarchYear, MarchMonth, DaysIn
  <2>2. p = 275 /\ FirstOf(10) = 306
    BY ONLY <1>5, <2>1, MonthFirsts, SMT
  <2>3. DateDay(a + 1, 1, 1) = D + (306 + 1 - 1) - c
    BY ONLY <1>4, <1>6, <2>1, <2>2 DEF DateDay
  <2>4. QED
    BY ONLY <1>7, <2>1, <2>2, <2>3, SMT
<1>13. ASSUME d = DaysIn(a, m), m = 2
       PROVE  DateDay(a, m + 1, 1) = DateDay(a, m, d) + 1
  <2>1. /\ MarchYear(a, m + 1) = a /\ Y + 1 = a /\ MarchMonth(m + 1) = 0 /\ mp = 11
        /\ d = IF LeapYear(a) THEN 29 ELSE 28
    BY ONLY <1>2, <1>3, <1>13, SMT DEF MarchYear, MarchMonth, DaysIn
  <2>2. p = 337 /\ FirstOf(0) = 0
    BY ONLY <1>5, <2>1, MonthFirsts, SMT
  <2>3. YearDay(Y + 1) = D + (IF LeapYear(Y + 1) THEN 366 ELSE 365)
    BY ONLY <1>4, YearLonger
  <2>4. YearDay(a) = D + p + d
    BY ONLY <2>1, <2>2, <2>3, SMT
  <2>5. DateDay(a, m + 1, 1) = D + p + d + (0 + 1 - 1) - c
    BY ONLY <1>6, <2>1, <2>2, <2>4 DEF DateDay
  <2>6. QED
    BY ONLY <1>1, <1>7, <2>5, SMT
<1>14. QED
  BY ONLY <1>9, <1>10, <1>11, <1>12, <1>13, m \in 1 .. 12, SMT

LEMMA MakeDate ==
  ASSUME NEW a \in Int, NEW m \in 1 .. 12, NEW d \in 1 .. DaysIn(a, m),
         NEW h \in Int, NEW mi \in Int, NEW x \in Int, OnClock(h, mi, x)
  PROVE  <<a, m, d, h, mi, x>> \in Dates
<1> DEFINE f == <<a, m, d, h, mi, x>>
<1>1. d \in Int
  BY SMT DEF DaysIn
<1>2. f \in Fields /\ f[1] = a /\ f[2] = m /\ f[3] = d /\ f[4] = h /\ f[5] = mi /\ f[6] = x
  BY ONLY <1>1, SMT DEF Fields
<1> HIDE DEF f
<1>3. IsDate(f)
  BY ONLY <1>2, m \in 1 .. 12, d \in 1 .. DaysIn(a, m), OnClock(h, mi, x) DEF IsDate, OnClock
<1>4. QED
  BY ONLY <1>2, <1>3 DEF Dates, f

(* Tomorrow gives a date, and its time is a day later.                     *)
LEMMA TomorrowRight ==
  ASSUME NEW f \in Dates
  PROVE  /\ Tomorrow(f) \in Dates
         /\ unix_from_civil(Tomorrow(f)) = [unix_from_civil(f) EXCEPT !.day = @ + 1]
<1>1. PICK a \in Int, m \in Int, d \in Int, h \in Int, mi \in Int, x \in Int :
        /\ a = f[1] /\ m = f[2] /\ d = f[3] /\ h = f[4] /\ mi = f[5] /\ x = f[6]
        /\ f = <<a, m, d, h, mi, x>> /\ m \in 1 .. 12 /\ d \in 1 .. DaysIn(a, m)
        /\ OnClock(h, mi, x)
  BY ONLY DateFields
<1>2. PICK s \in Int : s = SecondOfDay(h, mi, x)
  BY ONLY <1>1, ClockBack
<1>3. PICK z \in Int : z = DateDay(a, m, d)
  BY ONLY <1>1, DateDayInt
<1>4. unix_from_civil(f) = [day |-> z, sec |-> s]
  BY ONLY <1>1, <1>2, <1>3, UnixOfDate
<1>5. [unix_from_civil(f) EXCEPT !.day = @ + 1] = [day |-> z + 1, sec |-> s]
  BY ONLY <1>4, SMT
<1>6. \E b \in Int, k \in Int, c \in Int :
        /\ Tomorrow(f) = <<b, k, c, h, mi, x>>
        /\ k \in 1 .. 12 /\ c \in 1 .. DaysIn(b, k)
        /\ DateDay(b, k, c) = z + 1
  <2>1. CASE d < DaysIn(a, m)
    <3>1. Tomorrow(f) = [f EXCEPT ![3] = d + 1]
      BY ONLY <1>1, <2>1 DEF Tomorrow
    <3>2. [f EXCEPT ![3] = d + 1] = <<a, m, d + 1, h, mi, x>>
      BY ONLY <1>1, SMT
    <3>3. DateDay(a, m, d + 1) = z + 1
      BY ONLY <1>1, <1>3, <2>1, DayAfter
    <3>4. d + 1 \in Int /\ d + 1 \in 1 .. DaysIn(a, m)
      BY ONLY <1>1, <2>1, SMT DEF DaysIn
    <3>5. QED
      BY ONLY <1>1, <3>1, <3>2, <3>3, <3>4
  <2>2. CASE ~(d < DaysIn(a, m)) /\ m < 12
    <3>1. Tomorrow(f) = [f EXCEPT ![2] = m + 1, ![3] = 1]
      BY ONLY <1>1, <2>2 DEF Tomorrow
    <3>2. [f EXCEPT ![2] = m + 1, ![3] = 1] = <<a, m + 1, 1, h, mi, x>>
      BY ONLY <1>1, SMT
    <3>3. d = DaysIn(a, m)
      BY ONLY <1>1, <2>2, SMT DEF DaysIn
    <3>4. DateDay(a, m + 1, 1) = z + 1
      BY ONLY <1>1, <1>3, <2>2, <3>3, DayAfter
    <3>5. m + 1 \in Int /\ m + 1 \in 1 .. 12 /\ 1 \in Int /\ 1 \in 1 .. DaysIn(a, m + 1)
      BY ONLY <1>1, <2>2, SMT DEF DaysIn
    <3>6. QED
      BY ONLY <1>1, <3>1, <3>2, <3>4, <3>5
  <2>3. CASE ~(d < DaysIn(a, m)) /\ ~(m < 12)
    <3>1. Tomorrow(f) = [f EXCEPT ![1] = a + 1, ![2] = 1, ![3] = 1]
      BY ONLY <1>1, <2>3 DEF Tomorrow
    <3>2. [f EXCEPT ![1] = a + 1, ![2] = 1, ![3] = 1] = <<a + 1, 1, 1, h, mi, x>>
      BY ONLY <1>1, SMT
    <3>3. d = DaysIn(a, m) /\ m = 12
      BY ONLY <1>1, <2>3, SMT DEF DaysIn
    <3>4. DateDay(a + 1, 1, 1) = z + 1
      BY ONLY <1>1, <1>3, <3>3, DayAfter
    <3>5. a + 1 \in Int /\ 1 \in Int /\ 1 \in 1 .. 12 /\ 1 \in 1 .. DaysIn(a + 1, 1)
      BY ONLY SMT DEF DaysIn
    <3>6. QED
      BY ONLY <3>1, <3>2, <3>4, <3>5
  <2>4. QED
    BY ONLY <2>1, <2>2, <2>3
<1>7. PICK b \in Int, k \in Int, c \in Int :
        /\ Tomorrow(f) = <<b, k, c, h, mi, x>>
        /\ k \in 1 .. 12 /\ c \in 1 .. DaysIn(b, k)
        /\ DateDay(b, k, c) = z + 1
  BY ONLY <1>6
<1>8. PICK g \in Dates : g = Tomorrow(f) /\ g = <<b, k, c, h, mi, x>>
  BY ONLY <1>1, <1>7, MakeDate
<1>9. g[1] = b /\ g[2] = k /\ g[3] = c /\ g[4] = h /\ g[5] = mi /\ g[6] = x
  BY ONLY <1>8
<1>10. unix_from_civil(g) = [day |-> z + 1, sec |-> s]
  BY ONLY <1>2, <1>7, <1>9, UnixOfDate
<1>11. QED
  BY ONLY <1>5, <1>8, <1>10

(* The day after a time is printed as the date after: no date is skipped   *)
(* and none is printed twice.                                              *)
THEOREM CivilTomorrow ==
  ASSUME NEW t \in Moment
  PROVE  civil([t EXCEPT !.day = @ + 1]) = Tomorrow(civil(t))
<1>1. PICK f \in Dates : f = civil(t) /\ unix_from_civil(f) = t
  BY ONLY CivilRight
<1>2. PICK g \in Dates : g = Tomorrow(f) /\ unix_from_civil(g) = [t EXCEPT !.day = @ + 1]
  BY ONLY <1>1, TomorrowRight
<1>3. civil(unix_from_civil(g)) = g
  BY ONLY CivilBack
<1>4. QED
  BY ONLY <1>1, <1>2, <1>3

-----------------------------------------------------------------------------
(* The order of dates is the order of their times.                         *)
Later(f, g) == \E i \in 1 .. 6 : f[i] > g[i] /\ \A j \in 1 .. i - 1 : f[j] = g[j]
After(t, u) == t.day > u.day \/ (t.day = u.day /\ t.sec > u.sec)

(* A later date has a greater number of days,                              *)
LEMMA DaysAscend ==
  ASSUME NEW a \in Int, NEW m \in 1 .. 12, NEW d \in 1 .. DaysIn(a, m),
         NEW b \in Int, NEW k \in 1 .. 12, NEW c \in 1 .. DaysIn(b, k),
         \/ a > b
         \/ a = b /\ m > k
         \/ a = b /\ m = k /\ d > c
  PROVE  DateDay(a, m, d) > DateDay(b, k, c)
<1>1. m \in Int /\ d \in Int /\ k \in Int /\ c \in Int /\ d >= 1 /\ c >= 1
  BY SMT DEF DaysIn
<1>2. PICK X \in Int : X = MarchYear(a, m)
  BY ONLY SMT DEF MarchYear
<1>3. PICK Y \in Int : Y = MarchYear(b, k)
  BY ONLY SMT DEF MarchYear
<1>4. PICK i \in 0 .. 11 : i = MarchMonth(m) /\ MonthNumber(i) = m
  BY ONLY MarchMonths
<1>5. PICK j \in 0 .. 11 : j = MarchMonth(k) /\ MonthNumber(j) = k
  BY ONLY MarchMonths
<1>6. PICK p \in Int : p = FirstOf(i) /\ p >= 0
  BY ONLY MonthFirsts, SMT
<1>7. PICK q \in Int : q = FirstOf(j) /\ q >= 0
  BY ONLY MonthFirsts, SMT
<1>8. PICK D \in Int : D = YearDay(X)
  BY ONLY YearDayInt
<1>9. PICK E \in Int : E = YearDay(Y)
  BY ONLY YearDayInt
<1>10. PICK f \in Int : f = FromMarch
  BY ONLY SMT DEF FromMarch
<1>11. DateDay(a, m, d) = D + (p + d - 1) - f
  BY ONLY <1>2, <1>4, <1>6, <1>8, <1>10 DEF DateDay
<1>12. DateDay(b, k, c) = E + (q + c - 1) - f
  BY ONLY <1>3, <1>5, <1>7, <1>9, <1>10 DEF DateDay
<1>13. \/ X > Y
       \/ X = Y /\ i > j
       \/ X = Y /\ i = j /\ d > c
  BY ONLY <1>1, <1>2, <1>3, <1>4, <1>5,
          a > b \/ (a = b /\ m > k) \/ (a = b /\ m = k /\ d > c), m \in 1 .. 12, k \in 1 .. 12, SMT
     DEF MarchYear, MarchMonth
<1>14. LastIn(j) \in Int
  BY ONLY SMT DEF LastIn
<1>15. CASE X > Y
  <2>1. YearDay(Y + 1) = E + (IF LeapYear(Y + 1) THEN 366 ELSE 365)
    BY ONLY <1>9, YearLonger
  <2>2. PICK F \in Int : F = YearDay(Y + 1) /\ F <= D
    <3>1. Y + 1 \in Int /\ Y + 1 <= X
      BY ONLY <1>15, SMT
    <3>2. QED
      BY ONLY <3>1, <1>8, YearDayInt, YearsAscend
  <2>3. q + c <= IF LeapYear(Y + 1) THEN 366 ELSE 365
    <3>1. CASE j = 11
      <4>1. k = 2 /\ q = 337 /\ b = Y + 1
        BY ONLY <1>3, <1>5, <1>7, <3>1, MonthFirsts, SMT DEF MonthNumber, MarchYear
      <4>2. DaysIn(b, k) = IF LeapYear(Y + 1) THEN 29 ELSE 28
        BY ONLY <4>1 DEF DaysIn
      <4>3. QED
        BY ONLY <4>1, <4>2, c \in 1 .. DaysIn(b, k), SMT
    <3>2. CASE j # 11
      <4>1. DaysIn(b, k) = LastIn(j) + 1
        BY ONLY <1>5, <3>2, MonthNumbers
      <4>2. q + LastIn(j) + 1 <= 337
        BY ONLY <1>7, <3>2, MonthFirsts, SMT DEF LastIn
      <4>3. QED
        BY ONLY <1>14, <4>1, <4>2, c \in 1 .. DaysIn(b, k), SMT
    <3>3. QED
      BY ONLY <3>1, <3>2
  <2>4. QED
    BY ONLY <1>1, <1>6, <1>11, <1>12, <2>1, <2>2, <2>3, SMT
<1>16. CASE X = Y /\ i > j
  <2>1. D = E
    BY ONLY <1>8, <1>9, <1>16
  <2>2. q + LastIn(j) < p
    BY ONLY <1>6, <1>7, <1>16, MonthsAscend
  <2>3. DaysIn(b, k) = LastIn(j) + 1
    BY ONLY <1>5, <1>16, MonthNumbers, SMT
  <2>4. QED
    BY ONLY <1>1, <1>11, <1>12, <1>14, <2>1, <2>2, <2>3, c \in 1 .. DaysIn(b, k), SMT
<1>17. CASE X = Y /\ i = j /\ d > c
  <2>1. D = E /\ p = q
    BY ONLY <1>6, <1>7, <1>8, <1>9, <1>17
  <2>2. QED
    BY ONLY <1>1, <1>11, <1>12, <1>17, <2>1, SMT
<1>18. QED
  BY ONLY <1>13, <1>15, <1>16, <1>17

(* a later time of day a greater number of seconds,                        *)
LEMMA SecondsAscend ==
  ASSUME NEW h \in Int, NEW m \in Int, NEW x \in Int, OnClock(h, m, x),
         NEW k \in Int, NEW n \in Int, NEW y \in Int, OnClock(k, n, y),
         \/ h > k
         \/ h = k /\ m > n
         \/ h = k /\ m = n /\ x > y
  PROVE  SecondOfDay(h, m, x) > SecondOfDay(k, n, y)
BY SMT DEF OnClock, SecondOfDay

(* and dates with their time of day are compared field by field:           *)
LEMMA LaterFields ==
  ASSUME NEW f \in Fields, NEW g \in Fields
  PROVE  Later(f, g) <=>
           \/ f[1] > g[1]
           \/ f[1] = g[1] /\ f[2] > g[2]
           \/ f[1] = g[1] /\ f[2] = g[2] /\ f[3] > g[3]
           \/ /\ f[1] = g[1] /\ f[2] = g[2] /\ f[3] = g[3]
              /\ \/ f[4] > g[4]
                 \/ f[4] = g[4] /\ f[5] > g[5]
                 \/ f[4] = g[4] /\ f[5] = g[5] /\ f[6] > g[6]
<1> DEFINE At(i) == f[i] > g[i] /\ \A j \in 1 .. i - 1 : f[j] = g[j]
<1>1. Later(f, g) <=> At(1) \/ At(2) \/ At(3) \/ At(4) \/ At(5) \/ At(6)
  <2>1. \A i \in 1 .. 6 : i = 1 \/ i = 2 \/ i = 3 \/ i = 4 \/ i = 5 \/ i = 6
    OBVIOUS
  <2>2. 1 \in 1 .. 6 /\ 2 \in 1 .. 6 /\ 3 \in 1 .. 6 /\ 4 \in 1 .. 6 /\ 5 \in 1 .. 6 /\ 6 \in 1 .. 6
    OBVIOUS
  <2>3. Later(f, g) <=> \E i \in 1 .. 6 : At(i)
    BY DEF Later
  <2> HIDE DEF At
  <2>4. QED
    BY ONLY <2>1, <2>2, <2>3
<1>2. At(1) <=> f[1] > g[1]
  BY ONLY SMT
<1>3. At(2) <=> f[1] = g[1] /\ f[2] > g[2]
  BY ONLY SMT
<1>4. At(3) <=> f[1] = g[1] /\ f[2] = g[2] /\ f[3] > g[3]
  BY ONLY SMT
<1>5. At(4) <=> f[1] = g[1] /\ f[2] = g[2] /\ f[3] = g[3] /\ f[4] > g[4]
  BY ONLY SMT
<1>6. At(5) <=> f[1] = g[1] /\ f[2] = g[2] /\ f[3] = g[3] /\ f[4] = g[4] /\ f[5] > g[5]
  BY ONLY SMT
<1>7. At(6) <=> /\ f[1] = g[1] /\ f[2] = g[2] /\ f[3] = g[3] /\ f[4] = g[4] /\ f[5] = g[5]
                /\ f[6] > g[6]
  BY ONLY SMT
<1> HIDE DEF At
<1>8. QED
  BY ONLY <1>1, <1>2, <1>3, <1>4, <1>5, <1>6, <1>7

(* so the later of two is after the other.                                 *)
LEMMA LaterIsAfter ==
  ASSUME NEW f \in Dates, NEW g \in Dates, Later(f, g)
  PROVE  After(unix_from_civil(f), unix_from_civil(g))
<1>1. PICK a \in Int, m \in Int, d \in Int, h \in Int, mi \in Int, x \in Int :
        /\ a = f[1] /\ m = f[2] /\ d = f[3] /\ h = f[4] /\ mi = f[5] /\ x = f[6]
        /\ m \in 1 .. 12 /\ d \in 1 .. DaysIn(a, m) /\ OnClock(h, mi, x)
  BY ONLY DateFields
<1>2. PICK b \in Int, k \in Int, c \in Int, u \in Int, v \in Int, p \in Int :
        /\ b = g[1] /\ k = g[2] /\ c = g[3] /\ u = g[4] /\ v = g[5] /\ p = g[6]
        /\ k \in 1 .. 12 /\ c \in 1 .. DaysIn(b, k) /\ OnClock(u, v, p)
  BY ONLY DateFields
<1>3. PICK y \in Int, s \in Int :
        /\ y = DateDay(a, m, d) /\ s = SecondOfDay(h, mi, x)
        /\ unix_from_civil(f) = [day |-> y, sec |-> s]
  BY ONLY <1>1, UnixOfDate
<1>4. PICK z \in Int, r \in Int :
        /\ z = DateDay(b, k, c) /\ r = SecondOfDay(u, v, p)
        /\ unix_from_civil(g) = [day |-> z, sec |-> r]
  BY ONLY <1>2, UnixOfDate
<1>5. \/ a > b
      \/ a = b /\ m > k
      \/ a = b /\ m = k /\ d > c
      \/ /\ a = b /\ m = k /\ d = c
         /\ \/ h > u
            \/ h = u /\ mi > v
            \/ h = u /\ mi = v /\ x > p
  <2>1. f \in Fields /\ g \in Fields
    BY ONLY DateFields
  <2>2. QED
    BY ONLY <1>1, <1>2, <2>1, Later(f, g), LaterFields
<1>6. CASE \/ a > b
           \/ a = b /\ m > k
           \/ a = b /\ m = k /\ d > c
  <2>1. y > z
    BY ONLY <1>1, <1>2, <1>3, <1>4, <1>6, DaysAscend
  <2>2. QED
    BY ONLY <1>3, <1>4, <2>1 DEF After
<1>7. CASE /\ a = b /\ m = k /\ d = c
           /\ \/ h > u
              \/ h = u /\ mi > v
              \/ h = u /\ mi = v /\ x > p
  <2>1. y = z
    BY ONLY <1>3, <1>4, <1>7
  <2>2. s > r
    BY ONLY <1>1, <1>2, <1>3, <1>4, <1>7, SecondsAscend
  <2>3. QED
    BY ONLY <1>3, <1>4, <2>1, <2>2 DEF After
<1>8. QED
  BY ONLY <1>5, <1>6, <1>7

(* A date is not before another if and only if its time is at or after that *)
(* of the other: what --since compares is what is printed.                 *)
THEOREM NotBeforeRight ==
  ASSUME NEW f \in Dates, NEW g \in Dates
  PROVE  NotBefore(f, g) <=> AtOrAfter(unix_from_civil(f), unix_from_civil(g))
<1>1. NotBefore(f, g) <=> f = g \/ Later(f, g)
  BY ONLY Zenon DEF NotBefore, Later
<1>2. PICK t \in Moment : t = unix_from_civil(f)
  BY ONLY CivilBack
<1>3. PICK u \in Moment : u = unix_from_civil(g)
  BY ONLY CivilBack
<1>4. PICK y \in Int, s \in Int : y = t.day /\ s = t.sec
  BY ONLY t \in Moment DEF Moment
<1>5. PICK z \in Int, r \in Int : z = u.day /\ r = u.sec
  BY ONLY u \in Moment DEF Moment
<1>6. f = g \/ Later(f, g) \/ Later(g, f)
  <2>1. f \in Fields /\ g \in Fields
    BY ONLY DateFields
  <2>2. /\ f = <<f[1], f[2], f[3], f[4], f[5], f[6]>>
        /\ g = <<g[1], g[2], g[3], g[4], g[5], g[6]>>
    BY ONLY DateFields
  <2>3. /\ f[1] \in Int /\ f[2] \in Int /\ f[3] \in Int /\ f[4] \in Int /\ f[5] \in Int /\ f[6] \in Int
        /\ g[1] \in Int /\ g[2] \in Int /\ g[3] \in Int /\ g[4] \in Int /\ g[5] \in Int /\ g[6] \in Int
    BY ONLY DateFields
  <2>4. CASE /\ f[1] = g[1] /\ f[2] = g[2] /\ f[3] = g[3]
             /\ f[4] = g[4] /\ f[5] = g[5] /\ f[6] = g[6]
    BY ONLY <2>2, <2>4
  <2>5. CASE ~(/\ f[1] = g[1] /\ f[2] = g[2] /\ f[3] = g[3]
               /\ f[4] = g[4] /\ f[5] = g[5] /\ f[6] = g[6])
    <3>1. Later(f, g) <=>
           \/ f[1] > g[1]
           \/ f[1] = g[1] /\ f[2] > g[2]
           \/ f[1] = g[1] /\ f[2] = g[2] /\ f[3] > g[3]
           \/ /\ f[1] = g[1] /\ f[2] = g[2] /\ f[3] = g[3]
              /\ \/ f[4] > g[4]
                 \/ f[4] = g[4] /\ f[5] > g[5]
                 \/ f[4] = g[4] /\ f[5] = g[5] /\ f[6] > g[6]
      BY ONLY <2>1, LaterFields
    <3>2. Later(g, f) <=>
           \/ g[1] > f[1]
           \/ g[1] = f[1] /\ g[2] > f[2]
           \/ g[1] = f[1] /\ g[2] = f[2] /\ g[3] > f[3]
           \/ /\ g[1] = f[1] /\ g[2] = f[2] /\ g[3] = f[3]
              /\ \/ g[4] > f[4]
                 \/ g[4] = f[4] /\ g[5] > f[5]
                 \/ g[4] = f[4] /\ g[5] = f[5] /\ g[6] > f[6]
      BY ONLY <2>1, LaterFields
    <3>3. QED
      BY ONLY <2>3, <2>5, <3>1, <3>2, SMT
  <2>6. QED
    BY ONLY <2>4, <2>5
<1>7. CASE f = g
  BY ONLY <1>1, <1>2, <1>3, <1>7 DEF AtOrAfter, Moment
<1>8. CASE Later(f, g)
  <2>1. After(t, u)
    BY ONLY <1>2, <1>3, <1>8, LaterIsAfter
  <2>2. AtOrAfter(t, u)
    BY ONLY <2>1, <1>4, <1>5, SMT DEF After, AtOrAfter
  <2>3. QED
    BY ONLY <1>1, <1>2, <1>3, <1>8, <2>2
<1>9. CASE Later(g, f)
  <2>1. After(u, t)
    BY ONLY <1>2, <1>3, <1>9, LaterIsAfter
  <2>2. ~AtOrAfter(t, u)
    BY ONLY <2>1, <1>4, <1>5, SMT DEF After, AtOrAfter
  <2>3. ~(f = g) /\ ~Later(f, g)
    <3>1. ~After(t, u) /\ t # u
      BY ONLY <2>1, <1>4, <1>5, SMT DEF After
    <3>2. QED
      BY ONLY <1>2, <1>3, <3>1, LaterIsAfter
  <2>4. QED
    BY ONLY <1>1, <1>2, <1>3, <2>2, <2>3
<1>10. QED
  BY ONLY <1>6, <1>7, <1>8, <1>9

-----------------------------------------------------------------------------
(* Positions, and what stands at them.                                     *)

Rank(S, i) == Cardinality({j \in S : j <= i})

(* Each position of a finite set is reached by its rank, and one before    *)
(* another by a smaller rank.                                              *)
LEMMA Ranks ==
  ASSUME NEW n \in Nat, NEW S \in SUBSET (1 .. n)
  PROVE  /\ IsFiniteSet(S) /\ Cardinality(S) \in Nat
         /\ \A i \in S : Rank(S, i) \in 1 .. Cardinality(S)
         /\ \A i \in S : \A j \in S : i < j => Rank(S, i) < Rank(S, j)
<1> DEFINE UpTo(i) == {j \in S : j <= i}
<1>1. IsFiniteSet(S)
  <2>1. IsFiniteSet(1 .. n)
    BY ONLY FS_Interval, n \in Nat
  <2>2. QED
    BY ONLY <2>1, FS_Subset, S \in SUBSET (1 .. n)
<1>2. Cardinality(S) \in Nat
  BY ONLY <1>1, FS_CardinalityType
<1>3. ASSUME NEW i
      PROVE  /\ IsFiniteSet(UpTo(i)) /\ Rank(S, i) = Cardinality(UpTo(i))
             /\ Cardinality(UpTo(i)) \in Nat /\ Cardinality(UpTo(i)) <= Cardinality(S)
  <2>1. UpTo(i) \in SUBSET S
    OBVIOUS
  <2>2. IsFiniteSet(UpTo(i)) /\ Cardinality(UpTo(i)) <= Cardinality(S)
    BY ONLY <1>1, <2>1, FS_Subset
  <2>3. Cardinality(UpTo(i)) \in Nat
    BY ONLY <2>2, FS_CardinalityType
  <2>4. QED
    BY ONLY <2>2, <2>3 DEF Rank
<1>4. ASSUME NEW i \in S PROVE Rank(S, i) # 0
  <2>1. i \in UpTo(i)
    BY S \in SUBSET (1 .. n)
  <2>2. UpTo(i) # {}
    BY ONLY <2>1
  <2> HIDE DEF UpTo
  <2>3. QED
    BY ONLY <1>3, <2>2, FS_EmptySet
<1>5. ASSUME NEW i \in S PROVE Rank(S, i) \in 1 .. Cardinality(S)
  <2>1. PICK r \in Nat : r = Rank(S, i) /\ r <= Cardinality(S)
    BY ONLY <1>3
  <2>2. r # 0
    BY ONLY <1>4, <2>1
  <2>3. QED
    BY ONLY <1>2, <2>1, <2>2
<1>6. ASSUME NEW i \in S, NEW j \in S, i < j PROVE Rank(S, i) < Rank(S, j)
  <2>0. \A k \in S : k \in Nat
    BY ONLY S \in SUBSET (1 .. n)
  <2>1. UpTo(i) \in SUBSET UpTo(j)
    <3>1. ASSUME NEW k \in S, k <= i PROVE k <= j
      BY ONLY <1>6, <2>0, <3>1, i \in S, j \in S, k \in S
    <3>2. QED
      BY ONLY <3>1
  <2>2. j \in UpTo(j) /\ j \notin UpTo(i)
    <3>1. j <= j /\ ~(j <= i)
      BY ONLY <1>6, <2>0, i \in S, j \in S
    <3>2. QED
      BY ONLY <3>1, j \in S
  <2>3. UpTo(i) # UpTo(j)
    BY ONLY <2>2
  <2> HIDE DEF UpTo
  <2>4. /\ Cardinality(UpTo(i)) <= Cardinality(UpTo(j))
        /\ Cardinality(UpTo(i)) # Cardinality(UpTo(j))
    BY ONLY <1>3, <2>1, <2>3, FS_Subset
  <2>5. QED
    BY ONLY <1>3, <2>4
<1>7. QED
  BY ONLY <1>1, <1>2, <1>5, <1>6

(* The positions in their order, none left out.                            *)
LEMMA NthIs ==
  ASSUME NEW n \in Nat, NEW S \in SUBSET (1 .. n)
  PROVE  /\ Cardinality(S) \in Nat
         /\ \A k \in 1 .. Cardinality(S) : Nth(S, k) \in S
         /\ \A j \in 1 .. Cardinality(S) : \A k \in 1 .. Cardinality(S) :
              j < k => Nth(S, j) < Nth(S, k)
         /\ \A i \in S : \E k \in 1 .. Cardinality(S) : Nth(S, k) = i
<1> DEFINE c == Cardinality(S)
           f == [i \in S |-> Rank(S, i)]
<1>1. IsFiniteSet(S) /\ c \in Nat
  BY ONLY Ranks, n \in Nat, S \in SUBSET (1 .. n)
<1>2. \A i \in S : Rank(S, i) \in 1 .. c
  BY ONLY Ranks, n \in Nat, S \in SUBSET (1 .. n)
<1>3. ASSUME NEW i \in S, NEW j \in S, i < j PROVE Rank(S, i) < Rank(S, j)
  BY ONLY Ranks, n \in Nat, S \in SUBSET (1 .. n), <1>3
<1> HIDE DEF c
<1>4. ASSUME NEW i \in S, NEW j \in S, Rank(S, i) = Rank(S, j) PROVE i = j
  <2>1. PICK a \in Nat : a = i
    BY ONLY S \in SUBSET (1 .. n), i \in S
  <2>2. PICK b \in Nat : b = j
    BY ONLY S \in SUBSET (1 .. n), j \in S
  <2>3. Rank(S, i) \in Int
    BY ONLY <1>2, i \in S
  <2>4. ~(i < j) /\ ~(j < i)
    BY ONLY <1>3, <1>4, <2>3, i \in S, j \in S
  <2>5. QED
    BY ONLY <2>1, <2>2, <2>4
<1>5. f \in Injection(S, 1 .. c)
  <2>1. f \in [S -> 1 .. c]
    BY ONLY <1>2
  <2>2. \A i, j \in S : f[i] = f[j] => i = j
    BY ONLY <1>4
  <2>3. QED
    BY ONLY <2>1, <2>2 DEF Injection, IsInjective
<1>6. f \in Surjection(S, 1 .. c)
  <2> HIDE DEF f
  <2>1. IsFiniteSet(1 .. c) /\ Cardinality(1 .. c) = c
    BY ONLY <1>1, FS_Interval
  <2>2. Cardinality(S) = Cardinality(1 .. c)
    BY ONLY <2>1 DEF c
  <2>3. QED
    BY ONLY <1>5, <2>1, <2>2, FS_Injection
<1>7. ASSUME NEW k \in 1 .. c PROVE Nth(S, k) \in S /\ Rank(S, Nth(S, k)) = k
  <2>1. \E i \in S : f[i] = k
    BY ONLY <1>6, k \in 1 .. c DEF Surjection
  <2>2. \E i \in S : Rank(S, i) = k
    BY ONLY <2>1
  <2>3. QED
    BY ONLY <2>2 DEF Nth, Rank
<1>8. ASSUME NEW j \in 1 .. c, NEW k \in 1 .. c, j < k PROVE Nth(S, j) < Nth(S, k)
  <2>1. PICK a \in S : a = Nth(S, j) /\ Rank(S, a) = j
    BY ONLY <1>7, j \in 1 .. c
  <2>2. PICK b \in S : b = Nth(S, k) /\ Rank(S, b) = k
    BY ONLY <1>7, k \in 1 .. c
  <2>3. a \in Nat /\ b \in Nat
    BY ONLY S \in SUBSET (1 .. n), a \in S, b \in S
  <2>4. ~(b < a)
    <3>1. SUFFICES ASSUME b < a PROVE FALSE
      OBVIOUS
    <3>2. Rank(S, b) < Rank(S, a)
      BY ONLY <1>3, <3>1, a \in S, b \in S
    <3>3. QED
      BY ONLY <1>8, <2>1, <2>2, <3>2, j \in 1 .. c, k \in 1 .. c
  <2>5. a # b
    BY ONLY <1>8, <2>1, <2>2, j \in 1 .. c, k \in 1 .. c
  <2>6. QED
    BY ONLY <2>1, <2>2, <2>3, <2>4, <2>5
<1>9. ASSUME NEW i \in S PROVE \E k \in 1 .. c : Nth(S, k) = i
  <2>1. PICK k \in 1 .. c : k = Rank(S, i)
    BY ONLY <1>2, i \in S
  <2>2. Nth(S, k) \in S /\ Rank(S, Nth(S, k)) = Rank(S, i)
    BY ONLY <1>7, <2>1, k \in 1 .. c
  <2>3. Nth(S, k) = i
    BY ONLY <1>4, <2>2, i \in S
  <2>4. QED
    BY ONLY <2>3, k \in 1 .. c
<1>10. QED
  BY ONLY <1>1, <1>7, <1>8, <1>9 DEF c

(* What stands at the positions of a set, in order.                        *)
LEMMA AtAllIs ==
  ASSUME NEW n \in Nat, NEW S \in SUBSET (1 .. n), NEW s, NEW T,
         \A i \in S : s[i] \in T
  PROVE  /\ AtAll(s, S) \in Seq(T)
         /\ Len(AtAll(s, S)) = Cardinality(S)
         /\ \A k \in 1 .. Cardinality(S) : AtAll(s, S)[k] = s[Nth(S, k)]
<1>1. PICK c \in Nat : c = Cardinality(S)
  BY ONLY NthIs, n \in Nat, S \in SUBSET (1 .. n)
<1>2. \A k \in 1 .. c : Nth(S, k) \in S
  BY ONLY NthIs, n \in Nat, S \in SUBSET (1 .. n), <1>1
<1>3. AtAll(s, S) = [k \in 1 .. c |-> s[Nth(S, k)]]
  BY ONLY <1>1 DEF AtAll
<1>4. \A k \in 1 .. c : s[Nth(S, k)] \in T
  BY ONLY <1>2, \A i \in S : s[i] \in T
<1>5. AtAll(s, S) \in [1 .. c -> T]
  BY ONLY <1>3, <1>4
<1>6. AtAll(s, S) \in Seq(T) /\ Len(AtAll(s, S)) = c
  BY ONLY <1>3, <1>5
<1>7. \A k \in 1 .. c : AtAll(s, S)[k] = s[Nth(S, k)]
  BY ONLY <1>3
<1>8. QED
  BY ONLY <1>1, <1>6, <1>7

-----------------------------------------------------------------------------
(* Lists of dives.  V has the dive of every record, and R the numbers of   *)
(* those that can be read.                                                 *)

Logged == [number : Nat, unix_time : Moment]

Table(V, m, R) ==
  /\ m \in Nat /\ R \in SUBSET (1 .. m)
  /\ \A i \in R : V[i] \in Logged /\ V[i].number = i

(* The dives of ds are dives that can be read, each as it is in the dump,  *)
(* and in the order of their numbers.                                      *)
Ordered(V, R, ds) ==
  /\ ds \in Seq(Logged)
  /\ \A k \in 1 .. Len(ds) : ds[k].number \in R /\ ds[k] = V[ds[k].number]
  /\ \A j \in 1 .. Len(ds) : \A k \in 1 .. Len(ds) :
       j < k => ds[j].number < ds[k].number

(* And they are those with a number in D.                                  *)
Lists(V, R, ds, D) ==
  /\ Ordered(V, R, ds) /\ D \in SUBSET R
  /\ \A k \in 1 .. Len(ds) : ds[k].number \in D
  /\ \A i \in D : \E k \in 1 .. Len(ds) : ds[k].number = i

From(V, D, s) == {i \in D : s # NoFilter => AtOrAfter(V[i].unix_time, parse_since(s))}
Latest(D, n)    == {i \in D : n # NoFilter => Cardinality({j \in D : j > i}) < n}

(* The empty list, the first dives of a list.                              *)
LEMMA NoneOrdered == \A V, R : Ordered(V, R, <<>>)
<1>1. <<>> \in Seq(Logged) /\ Len(<<>>) = 0
  OBVIOUS
<1>2. QED
  BY ONLY <1>1 DEF Ordered

LEMMA SomeOrdered ==
  ASSUME NEW V, NEW R, NEW ds, Ordered(V, R, ds), NEW n \in 0 .. Len(ds)
  PROVE  Ordered(V, R, SubSeq(ds, 1, n))
<1> DEFINE t == SubSeq(ds, 1, n)
<1>1. ds \in Seq(Logged) /\ Len(ds) \in Nat
  BY ONLY Ordered(V, R, ds) DEF Ordered
<1>2. t \in Seq(Logged) /\ Len(t) = n
  BY ONLY <1>1, n \in 0 .. Len(ds)
<1>3. \A k \in 1 .. n : t[k] = ds[k] /\ k \in 1 .. Len(ds)
  BY ONLY <1>1, n \in 0 .. Len(ds)
<1> HIDE DEF t
<1>4. QED
  BY ONLY <1>2, <1>3, Ordered(V, R, ds) DEF Ordered, t

(* The dives that parse, of all the records.                               *)
LEMMA ParsedLists ==
  ASSUME NEW V, NEW m, NEW R, Table(V, m, R)
  PROVE  Lists(V, R, AtAll(V, R), R)
<1> DEFINE ds == AtAll(V, R)
<1>1. m \in Nat /\ R \in SUBSET (1 .. m) /\ \A i \in R : V[i] \in Logged
  BY ONLY Table(V, m, R) DEF Table
<1>2. PICK c \in Nat : c = Cardinality(R)
  BY ONLY <1>1, NthIs
<1>3. ds \in Seq(Logged) /\ Len(ds) = c /\ \A k \in 1 .. c : ds[k] = V[Nth(R, k)]
  BY ONLY <1>1, <1>2, AtAllIs
<1> HIDE DEF ds
<1>4. \A k \in 1 .. c : Nth(R, k) \in R
  BY ONLY <1>1, <1>2, NthIs
<1>5. \A j \in 1 .. c : \A k \in 1 .. c : j < k => Nth(R, j) < Nth(R, k)
  BY ONLY <1>1, <1>2, NthIs
<1>6. \A i \in R : \E k \in 1 .. c : Nth(R, k) = i
  BY ONLY <1>1, <1>2, NthIs
<1>7. \A k \in 1 .. c : ds[k].number = Nth(R, k)
  BY ONLY <1>3, <1>4, Table(V, m, R) DEF Table
<1>8. Ordered(V, R, ds)
  BY ONLY <1>3, <1>4, <1>5, <1>7 DEF Ordered
<1>9. \A i \in R : \E k \in 1 .. Len(ds) : ds[k].number = i
  BY ONLY <1>3, <1>6, <1>7
<1>10. \A k \in 1 .. Len(ds) : ds[k].number \in R
  BY ONLY <1>3, <1>4, <1>7
<1>11. QED
  BY ONLY <1>8, <1>9, <1>10 DEF Lists, ds

(* Some of the dives of a list, in their order.                            *)
LEMMA AtAllLists ==
  ASSUME NEW V, NEW R, NEW ds, NEW D, NEW E, Lists(V, R, ds, D),
         NEW K \in SUBSET (1 .. Len(ds)),
         E = {i \in D : \E k \in K : ds[k].number = i}
  PROVE  Lists(V, R, AtAll(ds, K), E)
<1> DEFINE es == AtAll(ds, K)
<1>1. PICK l \in Nat : l = Len(ds)
  BY ONLY Lists(V, R, ds, D) DEF Lists, Ordered
<1>2. K \in SUBSET (1 .. l) /\ \A k \in K : ds[k] \in Logged
  BY ONLY <1>1, K \in SUBSET (1 .. Len(ds)), Lists(V, R, ds, D) DEF Lists, Ordered
<1>3. PICK c \in Nat : c = Cardinality(K)
  BY ONLY <1>2, l \in Nat, NthIs
<1>4. es \in Seq(Logged) /\ Len(es) = c /\ \A k \in 1 .. c : es[k] = ds[Nth(K, k)]
  BY ONLY <1>2, <1>3, l \in Nat, AtAllIs
<1> HIDE DEF es
<1>5. \A k \in 1 .. c : Nth(K, k) \in K
  BY ONLY <1>2, <1>3, l \in Nat, NthIs
<1>6. \A j \in 1 .. c : \A k \in 1 .. c : j < k => Nth(K, j) < Nth(K, k)
  BY ONLY <1>2, <1>3, l \in Nat, NthIs
<1>7. \A i \in K : \E k \in 1 .. c : Nth(K, k) = i
  BY ONLY <1>2, <1>3, l \in Nat, NthIs
<1>8. /\ \A k \in 1 .. l : ds[k].number \in R /\ ds[k] = V[ds[k].number]
      /\ \A k \in 1 .. l : ds[k].number \in D
      /\ \A j \in 1 .. l : \A k \in 1 .. l : j < k => ds[j].number < ds[k].number
      /\ D \in SUBSET R
  BY ONLY <1>1, Lists(V, R, ds, D) DEF Lists, Ordered
<1>9. \A k \in 1 .. c : Nth(K, k) \in 1 .. l
  BY ONLY <1>2, <1>5
<1>10. Ordered(V, R, es)
  <2>1. \A k \in 1 .. c : es[k].number \in R /\ es[k] = V[es[k].number]
    BY ONLY <1>4, <1>8, <1>9
  <2>2. \A j \in 1 .. c : \A k \in 1 .. c : j < k => es[j].number < es[k].number
    BY ONLY <1>4, <1>6, <1>8, <1>9
  <2>3. QED
    BY ONLY <1>4, <2>1, <2>2 DEF Ordered
<1>11. \A k \in 1 .. c : es[k].number \in E
  <2>1. ASSUME NEW k \in 1 .. c PROVE es[k].number \in E
    <3>1. Nth(K, k) \in K /\ Nth(K, k) \in 1 .. l /\ es[k] = ds[Nth(K, k)]
      BY ONLY <1>4, <1>5, <1>9, k \in 1 .. c
    <3>2. es[k].number \in D
      BY ONLY <1>8, <3>1
    <3>3. \E a \in K : ds[a].number = es[k].number
      BY ONLY <3>1
    <3>4. QED
      BY ONLY <3>2, <3>3, E = {i \in D : \E a \in K : ds[a].number = i}
  <2>2. QED
    BY ONLY <2>1
<1>12. \A i \in E : \E k \in 1 .. c : es[k].number = i
  <2>1. ASSUME NEW i \in E PROVE \E k \in 1 .. c : es[k].number = i
    <3>1. PICK a \in K : ds[a].number = i
      BY ONLY i \in E, E = {j \in D : \E b \in K : ds[b].number = j}
    <3>2. PICK k \in 1 .. c : Nth(K, k) = a
      BY ONLY <1>7, a \in K
    <3>3. es[k] = ds[a]
      BY ONLY <1>4, <3>2, k \in 1 .. c
    <3>4. QED
      BY ONLY <3>1, <3>3, k \in 1 .. c
  <2>2. QED
    BY ONLY <2>1
<1>13. E \in SUBSET R
  BY ONLY <1>8, E = {i \in D : \E a \in K : ds[a].number = i}
<1>14. QED
  BY ONLY <1>4, <1>10, <1>11, <1>12, <1>13 DEF Lists, es

(* --since keeps those of the dives that are not before it.                *)
LEMMA OnOrAfterLists ==
  ASSUME NEW V, NEW R, NEW ds, NEW D, Lists(V, R, ds, D), NEW s
  PROVE  Lists(V, R, OnOrAfter(ds, s), From(V, D, s))
<1>1. CASE s = NoFilter
  BY ONLY <1>1, Lists(V, R, ds, D) DEF OnOrAfter, From
<1>2. CASE s # NoFilter
  <2> DEFINE ts == parse_since(s)
             K == {k \in DOMAIN ds : AtOrAfter(ds[k].unix_time, ts)}
             E == From(V, D, s)
  <2>1. DOMAIN ds = 1 .. Len(ds)
    BY ONLY Lists(V, R, ds, D) DEF Lists, Ordered
  <2>2. K \in SUBSET (1 .. Len(ds))
    BY ONLY <2>1
  <2>3. OnOrAfter(ds, s) = AtAll(ds, K)
    BY ONLY <1>2 DEF OnOrAfter
  <2>4. E = {i \in D : AtOrAfter(V[i].unix_time, ts)}
    BY ONLY <1>2 DEF From
  <2> HIDE DEF ts
  <2>5. ASSUME NEW i \in D
        PROVE  AtOrAfter(V[i].unix_time, ts) <=> \E k \in K : ds[k].number = i
    <3>1. \A k \in 1 .. Len(ds) : ds[k].number = i => ds[k] = V[i]
      BY ONLY Lists(V, R, ds, D) DEF Lists, Ordered
    <3>2. \E k \in 1 .. Len(ds) : ds[k].number = i
      BY ONLY i \in D, Lists(V, R, ds, D) DEF Lists
    <3>3. QED
      BY ONLY <2>1, <3>1, <3>2
  <2> HIDE DEF K, E
  <2>6. E = {i \in D : \E k \in K : ds[k].number = i}
    BY ONLY <2>4, <2>5
  <2>7. Lists(V, R, AtAll(ds, K), E)
    BY ONLY <2>2, <2>6, AtAllLists, Lists(V, R, ds, D)
  <2>8. QED
    BY ONLY <2>3, <2>7 DEF E
<1>3. QED
  BY ONLY <1>1, <1>2

CountAfter(D, i) == Cardinality({j \in D : j > i})

(* After the k-th dive of a list come as many as the list is longer.       *)
LEMMA Following ==
  ASSUME NEW V, NEW R \in SUBSET Nat, NEW ds, NEW D, Lists(V, R, ds, D)
  PROVE  \A k \in 1 .. Len(ds) : CountAfter(D, ds[k].number) = Len(ds) - k
<1> SUFFICES ASSUME NEW k \in 1 .. Len(ds)
             PROVE  CountAfter(D, ds[k].number) = Len(ds) - k
  OBVIOUS
<1>0. PICK l \in Nat : l = Len(ds)
  BY ONLY Lists(V, R, ds, D) DEF Lists, Ordered
<1>a. k \in 1 .. l
  BY ONLY <1>0, k \in 1 .. Len(ds)
<1> DEFINE S == k + 1 .. l
           T == {j \in D : j > ds[k].number}
           f == [a \in S |-> ds[a].number]
<1>1. /\ \A a \in 1 .. l : ds[a].number \in D
      /\ \A a \in 1 .. l : \A b \in 1 .. l : a < b => ds[a].number < ds[b].number
      /\ \A i \in D : \E a \in 1 .. l : ds[a].number = i
  BY ONLY Lists(V, R, ds, D), <1>0 DEF Lists, Ordered
<1>2. \A i \in D : i \in Nat
  BY ONLY R \in SUBSET Nat, Lists(V, R, ds, D) DEF Lists
<1>3. \A a \in S : a \in 1 .. l /\ k < a
  BY ONLY <1>a, l \in Nat
<1>4. \A a \in 1 .. l : k < a => a \in S
  BY ONLY <1>a, l \in Nat
<1>5. IsFiniteSet(S) /\ Cardinality(S) = l - k
  <2>1. k + 1 \in Int /\ l \in Int
    BY ONLY <1>a, l \in Nat
  <2>2. IsFiniteSet(S) /\ Cardinality(S) = IF k + 1 > l THEN 0 ELSE l - (k + 1) + 1
    BY ONLY <2>1, FS_Interval
  <2>3. (IF k + 1 > l THEN 0 ELSE l - (k + 1) + 1) = l - k
    BY ONLY <1>a, l \in Nat
  <2>4. QED
    BY ONLY <2>2, <2>3
<1> HIDE DEF S
<1>6. f \in Bijection(S, T)
  <2>1. \A a \in S : ds[a].number \in T
    <3>1. ASSUME NEW a \in S PROVE ds[a].number \in D /\ ds[a].number > ds[k].number
      <4>1. ds[a].number \in D /\ ds[k].number \in D /\ ds[k].number < ds[a].number
        BY ONLY <1>1, <1>3, a \in S, <1>a
      <4>2. QED
        BY ONLY <4>1, <1>2
    <3>2. QED
      BY ONLY <3>1
  <2>2. ASSUME NEW a \in S, NEW b \in S, ds[a].number = ds[b].number PROVE a = b
    <3>1. a \in 1 .. l /\ b \in 1 .. l
      BY ONLY <1>3, a \in S, b \in S
    <3>2. ~(a < b) /\ ~(b < a)
      <4>1. ds[a].number \in Nat
        BY ONLY <1>1, <1>2, <3>1
      <4>2. QED
        BY ONLY <1>1, <2>2, <3>1, <4>1
    <3>3. QED
      BY ONLY <3>1, <3>2, l \in Nat
  <2>3. \A i \in T : \E a \in S : ds[a].number = i
    <3>1. ASSUME NEW i \in D, i > ds[k].number PROVE \E a \in S : ds[a].number = i
      <4>1. PICK a \in 1 .. l : ds[a].number = i
        BY ONLY <1>1, i \in D
      <4>2. ds[k].number \in Nat /\ i \in Nat /\ ds[k].number \in D
        BY ONLY <1>1, <1>2, <1>a, i \in D
      <4>3. ~(a < k) /\ a # k
        BY ONLY <1>1, <3>1, <4>1, <4>2, a \in 1 .. l, <1>a
      <4>4. k < a
        BY ONLY <4>3, a \in 1 .. l, <1>a, l \in Nat
      <4>5. QED
        BY ONLY <1>4, <4>1, <4>4, a \in 1 .. l
    <3>2. QED
      BY ONLY <3>1
  <2> HIDE DEF T
  <2>4. f \in [S -> T]
    BY ONLY <2>1
  <2>5. f \in Injection(S, T)
    <3>1. \A a, b \in S : f[a] = f[b] => a = b
      BY ONLY <2>2
    <3>2. QED
      BY ONLY <2>4, <3>1 DEF Injection, IsInjective
  <2>6. f \in Surjection(S, T)
    <3>1. \A i \in T : \E a \in S : f[a] = i
      BY ONLY <2>3
    <3>2. QED
      BY ONLY <2>4, <3>1 DEF Surjection
  <2>7. QED
    BY ONLY <2>5, <2>6 DEF Bijection
<1> HIDE DEF T, f
<1>7. Cardinality(T) = Cardinality(S)
  <2>1. ExistsBijection(S, T)
    BY ONLY <1>6 DEF ExistsBijection
  <2>2. QED
    BY ONLY <1>5, <2>1, FS_Bijection
<1>8. QED
  BY ONLY <1>0, <1>5, <1>7 DEF T, CountAfter

(* --last keeps the last n, or all of them when they are no more.          *)
LEMMA LastOfLists ==
  ASSUME NEW V, NEW R, NEW ds, NEW D, R \in SUBSET Nat,
         Lists(V, R, ds, D), NEW n, n = NoFilter \/ n \in Nat
  PROVE  Lists(V, R, LastOf(ds, n), Latest(D, n))
<1> DEFINE E == Latest(D, n)
<1>1. PICK l \in Nat : l = Len(ds) /\ ds \in Seq(Logged)
  BY ONLY Lists(V, R, ds, D) DEF Lists, Ordered
<1>2. CASE n = NoFilter
  BY ONLY <1>2, Lists(V, R, ds, D) DEF LastOf, Latest
<1>3. CASE n # NoFilter
  <2>1. n \in Nat
    BY ONLY <1>3, n = NoFilter \/ n \in Nat
  <2>2. E = {i \in D : CountAfter(D, i) < n}
    BY ONLY <1>3 DEF Latest, CountAfter
  <2>3. ASSUME NEW k \in 1 .. l PROVE ds[k].number \in E <=> l - k < n
    <3>1. CountAfter(D, ds[k].number) = l - k
      <4>1. \A a \in 1 .. Len(ds) : CountAfter(D, ds[a].number) = Len(ds) - a
        BY ONLY Following, Lists(V, R, ds, D), R \in SUBSET Nat
      <4>2. QED
        BY ONLY <1>1, <4>1, k \in 1 .. l
    <3>2. ds[k].number \in D
      BY ONLY <1>1, k \in 1 .. l, Lists(V, R, ds, D) DEF Lists
    <3>3. QED
      BY ONLY <2>2, <3>1, <3>2
  <2> HIDE DEF E
  <2>4. /\ \A k \in 1 .. l : ds[k].number \in D
        /\ \A i \in D : \E k \in 1 .. l : ds[k].number = i
        /\ D \in SUBSET R
        /\ \A k \in 1 .. l : ds[k].number \in R /\ ds[k] = V[ds[k].number]
        /\ \A j \in 1 .. l : \A k \in 1 .. l : j < k => ds[j].number < ds[k].number
    BY ONLY <1>1, Lists(V, R, ds, D) DEF Lists, Ordered
  <2>5. E \in SUBSET D
    BY ONLY <2>2
  <2>6. CASE l <= n
    <3>1. LastOf(ds, n) = ds
      BY ONLY <2>6, <1>1 DEF LastOf
    <3>2. \A k \in 1 .. l : ds[k].number \in E
      BY ONLY <2>1, <2>3, <2>6, l \in Nat
    <3>3. E = D
      BY ONLY <2>4, <2>5, <3>2
    <3>4. QED
      BY ONLY <3>1, <3>3, Lists(V, R, ds, D) DEF E
  <2>7. CASE n < l
    <3> DEFINE es == SubSeq(ds, l - n + 1, l)
    <3>1. LastOf(ds, n) = es
      BY ONLY <1>1, <1>3, <2>1, <2>7, l \in Nat DEF LastOf
    <3>2. PICK a \in Nat : a = l - n
      BY ONLY <2>1, <2>7, l \in Nat
    <3>3. es = SubSeq(ds, a + 1, l) /\ a + n = l
      BY ONLY <3>2, <2>1, l \in Nat
    <3>0. /\ a + 1 \in Int /\ l \in Int /\ \A k \in a + 1 .. l : ds[k] \in Logged
          /\ (IF a + 1 <= l THEN l - (a + 1) + 1 ELSE 0) = n
          /\ 1 .. l - (a + 1) + 1 = 1 .. n
      <4>1. \A k \in a + 1 .. l : k \in 1 .. l
        BY ONLY a \in Nat, l \in Nat
      <4>2. \A k \in 1 .. l : ds[k] \in Logged
        BY ONLY <1>1
      <4>3. l - (a + 1) + 1 = n /\ (a + 1 <= l \/ n = 0)
        BY ONLY <3>3, <2>1, a \in Nat, l \in Nat
      <4>4. QED
        BY ONLY <4>1, <4>2, <4>3, <2>1, a \in Nat, l \in Nat
    <3> HIDE DEF es
    <3>4. es \in Seq(Logged) /\ Len(es) = n
      <4>1. /\ SubSeq(ds, a + 1, l) \in Seq(Logged)
            /\ Len(SubSeq(ds, a + 1, l)) = IF a + 1 <= l THEN l - (a + 1) + 1 ELSE 0
        BY ONLY <3>0, SubSeqProperties
      <4>2. QED
        BY ONLY <3>0, <3>3, <4>1
    <3>5. \A k \in 1 .. n : es[k] = ds[a + k] /\ a + k \in 1 .. l
      <4>1. ASSUME NEW k \in 1 .. n PROVE es[k] = ds[a + k] /\ a + k \in 1 .. l
        <5>1. /\ a + k \in 1 .. l /\ (a + 1) + (k - 1) = a + k
              /\ k \in 1 .. (l - (a + 1)) + 1
          BY ONLY <3>3, <2>1, a \in Nat, l \in Nat, k \in 1 .. n
        <5>2. es[k] = ds[(a + 1) + (k - 1)]
          <6>1. \A i \in 1 .. l - (a + 1) + 1 :
                  SubSeq(ds, a + 1, l)[i] = ds[(a + 1) + i - 1]
            BY ONLY <3>0, SubSeqProperties
          <6>2. QED
            BY ONLY <3>3, <5>1, <6>1
        <5>3. QED
          BY ONLY <5>1, <5>2
      <4>2. QED
        BY ONLY <4>1
    <3>6. \A k \in 1 .. n : es[k].number \in E
      <4>1. ASSUME NEW k \in 1 .. n PROVE es[k].number \in E
        <5>1. l - (a + k) < n
          BY ONLY <3>3, <2>1, a \in Nat, k \in 1 .. n, l \in Nat
        <5>2. ds[a + k].number \in E
          BY ONLY <2>3, <3>5, <5>1, k \in 1 .. n
        <5>3. QED
          BY ONLY <3>5, <5>2, k \in 1 .. n
      <4>2. QED
        BY ONLY <4>1
    <3>7. \A i \in E : \E k \in 1 .. n : es[k].number = i
      <4>1. ASSUME NEW i \in E PROVE \E k \in 1 .. n : es[k].number = i
        <5>1. PICK b \in 1 .. l : ds[b].number = i
          BY ONLY <2>4, <2>5, i \in E
        <5>2. l - b < n
          BY ONLY <2>3, <5>1, b \in 1 .. l, i \in E
        <5>3. b - a \in 1 .. n /\ a + (b - a) = b
          BY ONLY <3>3, <5>2, <2>1, a \in Nat, b \in 1 .. l, l \in Nat
        <5>4. es[b - a] = ds[b]
          BY ONLY <3>5, <5>3
        <5>5. QED
          BY ONLY <5>1, <5>3, <5>4
      <4>2. QED
        BY ONLY <4>1
    <3>8. \A k \in 1 .. n : es[k].number \in R /\ es[k] = V[es[k].number]
      BY ONLY <3>5, <2>4
    <3>9. ASSUME NEW j \in 1 .. n, NEW k \in 1 .. n, j < k
          PROVE  es[j].number < es[k].number
      <4>1. a + j < a + k
        BY ONLY <3>9, a \in Nat, <2>1, j \in 1 .. n, k \in 1 .. n
      <4>2. QED
        BY ONLY <2>4, <3>5, <4>1, j \in 1 .. n, k \in 1 .. n
    <3>10. Ordered(V, R, es)
      BY ONLY <3>4, <3>8, <3>9 DEF Ordered
    <3>11. E \in SUBSET R
      BY ONLY <2>4, <2>5
    <3>12. QED
      BY ONLY <3>1, <3>4, <3>6, <3>7, <3>10, <3>11 DEF Lists, E
  <2>8. QED
    BY ONLY <2>1, <2>6, <2>7, l \in Nat
<1>4. QED
  BY ONLY <1>2, <1>3

-----------------------------------------------------------------------------
(* The run.                                                                *)

AllDives     == [i \in DOMAIN records |-> Dive(i)]
ReadableOnes == {i \in DOMAIN records : Readable(Record(i))}
Chosen       == Latest(From(AllDives, ReadableOnes, since), last)

RunInv ==
  /\ step \in {"extract", "no records", "parse", "filter", "bad date",
               "no match", "write", "saved", "error", "panic"}
  /\ step \in {"extract", "no records", "parse", "panic"} => dives = <<>>
  /\ step \notin {"saved", "error"} => log = <<>>
  /\ step \in {"filter", "bad date"} =>
       Lists(AllDives, ReadableOnes, dives, ReadableOnes)
  /\ step \in {"no match", "write", "saved", "error"} =>
       /\ since # NoFilter => since \in Sinces /\ ~SinceBad(since)
       /\ Lists(AllDives, ReadableOnes, dives, Chosen)
       /\ step = "no match" <=> dives = <<>>
  /\ step = "saved" => log = dives
  /\ step = "error" => \E n \in 0 .. Len(dives) : log = SubSeq(dives, 1, n)

(* The time that is read from the header of a record is a time.            *)
LEMMA TimeOfRecord ==
  ASSUME NEW b \in Seq(Byte), Len(b) >= 44
  PROVE  unix_time(b) \in Moment
<1>1. /\ b[9] \in Nat /\ b[10] \in Nat /\ b[11] \in Nat /\ b[12] \in Nat
      /\ b[17] \in Nat
  <2>1. PICK l \in Nat : l = Len(b)
    BY ONLY b \in Seq(Byte)
  <2>2. /\ 9 \in 1 .. l /\ 10 \in 1 .. l /\ 11 \in 1 .. l /\ 12 \in 1 .. l
        /\ 17 \in 1 .. l
    BY ONLY <2>1, Len(b) >= 44, l \in Nat
  <2>3. \A i \in 1 .. l : b[i] \in Byte
    BY ONLY <2>1, b \in Seq(Byte)
  <2>4. \A x \in Byte : x \in Nat
    BY DEF Byte
  <2>5. QED
    BY ONLY <2>2, <2>3, <2>4
<1>2. Halved(b) \in Int
  <2>1. PICK p \in Nat, q \in Nat, r \in Nat, v \in Nat :
          p = b[9] /\ q = b[10] /\ r = b[11] /\ v = b[12]
    BY ONLY <1>1
  <2>2. PICK h \in Int : h = p \div 2
    BY ONLY p \in Nat
  <2>3. h + 128 * q + 32768 * r + 8388608 * v \in Int
    BY ONLY h \in Int, q \in Nat, r \in Nat, v \in Nat
  <2>4. QED
    BY ONLY <2>1, <2>2, <2>3 DEF Halved
<1>3. Quarters(b[17]) \in Int
  BY ONLY <1>1 DEF Quarters
<1>4. PICK s \in Int, q \in Int : s = Halved(b) /\ q = Quarters(b[17])
  BY ONLY <1>2, <1>3
<1>5. PICK d \in Int, x \in Int : d = 10957 + s \div 86400 /\ x = (s % 86400) + 900 * q
  <2>1. s \div 86400 \in Int /\ s % 86400 \in Int
    BY ONLY s \in Int
  <2>2. QED
    BY ONLY <2>1, q \in Int
<1>6. PICK e \in Int, y \in Int : /\ e = d + x \div 86400 /\ y = x % 86400
                                  /\ 0 <= y /\ y < 86400
  <2>1. x \div 86400 \in Int /\ x % 86400 \in Int
        /\ 0 <= x % 86400 /\ x % 86400 < 86400
    BY ONLY x \in Int
  <2>2. QED
    BY ONLY <2>1, d \in Int
<1>7. unix_time(b) = [day |-> e, sec |-> y]
  BY ONLY <1>4, <1>5, <1>6 DEF unix_time, Instant, EPOCH_DAY
<1>8. QED
  BY ONLY <1>6, <1>7, e \in Int, y \in Int DEF Moment, InDay

(* Every record that can be read has a dive.                               *)
LEMMA DivesOfRecords ==
  ASSUME ScanInv
  PROVE  Table(AllDives, Len(records), ReadableOnes)
<1>1. /\ dump.data \in Seq(Byte) /\ records \in Seq(Extent) /\ RecordsApart
      /\ Len(dump.data) \in Nat
  <2>1. dump.data \in Seq(Byte)
    BY ONLY ScanInv, DumpAssumption DEF ScanInv
  <2>2. QED
    BY ONLY <2>1, ScanInv DEF ScanInv
<1>2. Len(records) \in Nat /\ DOMAIN records = 1 .. Len(records)
  BY ONLY <1>1
<1>3. ReadableOnes \in SUBSET (1 .. Len(records))
  BY ONLY <1>2 DEF ReadableOnes
<1>4. ASSUME NEW i \in ReadableOnes
      PROVE  AllDives[i] \in Logged /\ AllDives[i].number = i
  <2>1. i \in 1 .. Len(records) /\ i \in DOMAIN records /\ Len(Record(i)) >= 44
    BY ONLY <1>2, i \in ReadableOnes DEF ReadableOnes, Readable, LongEnough
  <2>2. PICK a \in Nat, n \in Nat :
          a = records[i].start /\ n = records[i].len /\ a + n <= Len(dump.data)
    <3>1. records[i].start \in Nat /\ records[i].len \in Nat
      <4>1. records[i] \in Extent
        BY ONLY <1>1, <2>1
      <4>2. QED
        BY ONLY <4>1 DEF Extent
    <3>2. records[i].start + records[i].len <= Len(dump.data)
      BY ONLY <1>1, <2>1 DEF RecordsApart, size
    <3>3. QED
      BY ONLY <3>1, <3>2
  <2>3. Record(i) \in Seq(Byte)
    <3>1. SubSeq(dump.data, a + 1, a + n) \in Seq(Byte)
      <4>1. PICK m \in Nat : m = Len(dump.data)
        BY ONLY <1>1
      <4>2. a + 1 \in Int /\ a + n \in Int /\ \A k \in a + 1 .. a + n : k \in 1 .. m
        BY ONLY <2>2, <4>1, a \in Nat, n \in Nat, m \in Nat
      <4>3. \A k \in a + 1 .. a + n : dump.data[k] \in Byte
        BY ONLY <1>1, <4>1, <4>2
      <4>4. QED
        BY ONLY <4>2, <4>3, SubSeqProperties
    <3>2. QED
      BY ONLY <2>2, <3>1 DEF Record
  <2>4. unix_time(Record(i)) \in Moment
    BY ONLY <2>1, <2>3, TimeOfRecord
  <2>5. AllDives[i] = [number |-> i, unix_time |-> unix_time(Record(i))]
    BY ONLY <2>1 DEF AllDives, Dive
  <2>6. i \in Nat
    BY ONLY <1>2, <2>1
  <2>7. QED
    BY ONLY <2>4, <2>5, <2>6 DEF Logged
<1>5. QED
  BY ONLY <1>2, <1>3, <1>4 DEF Table

(* The scan of a run is a scan of the dump.                                *)
THEOREM RunScans == ParseRunSpec => DumpSpec
<1>1. ParseRunInit => DumpInit
  BY DEF ParseRunInit
<1>2. [ParseRunNext]_runVars => [DumpNext]_dumpVars
  BY DEF ParseRunNext, Scan, Scanned, Parse, ParsePanics, Filter, Write, runVars
<1>3. QED
  BY <1>1, <1>2, PTL DEF ParseRunSpec, DumpSpec

(* The first state of the run.                                             *)
LEMMA RunStarts == ParseRunInit => RunInv
BY DEF ParseRunInit, RunInv

(* The dives of the records stay what they are once the scan is done.      *)
LEMMA TableStays ==
  ASSUME UNCHANGED <<dump, records>>
  PROVE  UNCHANGED <<AllDives, ReadableOnes>>
<1>1. \A i : Record(i)' = Record(i)
  BY DEF Record
<1>2. AllDives' = AllDives
  BY <1>1 DEF AllDives, Dive
<1>3. ReadableOnes' = ReadableOnes
  BY <1>1 DEF ReadableOnes
<1>4. QED
  BY <1>2, <1>3

(* The filters, one after the other.                                       *)
LEMMA FilterKeeps == ASSUME ScanInv, RunInv, Filter PROVE RunInv'
<1>1. PICK s \in Sinces, n \in Lasts :
        /\ since' = s /\ last' = n
        /\ IF s # NoFilter /\ SinceBad(s)
           THEN step' = "bad date" /\ UNCHANGED dives
           ELSE /\ dives' = Filtered(dives, s, n)
                /\ step' = IF dives' = <<>> THEN "no match" ELSE "write"
  BY DEF Filter
<1>2. /\ step = "filter" /\ UNCHANGED <<dump, records>> /\ log' = log
  BY DEF Filter, dumpVars
<1>3. UNCHANGED <<AllDives, ReadableOnes>>
  BY ONLY <1>2, TableStays
<1>4. Lists(AllDives, ReadableOnes, dives, ReadableOnes) /\ log = <<>>
  BY ONLY <1>2, RunInv DEF RunInv
<1>5. CASE s # NoFilter /\ SinceBad(s)
  <2>1. step' = "bad date" /\ dives' = dives
    BY ONLY <1>1, <1>5
  <2>2. QED
    BY ONLY <1>2, <1>3, <1>4, <2>1 DEF RunInv
<1>6. CASE ~(s # NoFilter /\ SinceBad(s))
  <2>1. /\ dives' = LastOf(OnOrAfter(dives, s), n)
        /\ step' \in {"no match", "write"}
        /\ step' = "no match" <=> dives' = <<>>
    <3>1. /\ dives' = Filtered(dives, s, n)
          /\ step' = IF dives' = <<>> THEN "no match" ELSE "write"
      BY ONLY <1>1, <1>6
    <3>2. QED
      BY ONLY <3>1 DEF Filtered
  <2>2. ReadableOnes \in SUBSET Nat
    <3>1. Table(AllDives, Len(records), ReadableOnes)
      BY ONLY ScanInv, DivesOfRecords
    <3>2. QED
      BY ONLY <3>1 DEF Table
  <2>3. Lists(AllDives, ReadableOnes, OnOrAfter(dives, s), From(AllDives, ReadableOnes, s))
    BY ONLY <1>4, OnOrAfterLists
  <2>4. n = NoFilter \/ n \in Nat
    BY ONLY FilterAssumption, n \in Lasts DEF FilterAssumption
  <2>5. Lists(AllDives, ReadableOnes, dives',
              Latest(From(AllDives, ReadableOnes, s), n))
    BY ONLY <2>1, <2>2, <2>3, <2>4, LastOfLists
  <2>6. Chosen' = Latest(From(AllDives, ReadableOnes, s), n)
    BY ONLY <1>1, <1>3 DEF Chosen
  <2>7. Lists(AllDives', ReadableOnes', dives', Chosen')
    BY ONLY <1>3, <2>5, <2>6
  <2>8. since' # NoFilter => since' \in Sinces /\ ~SinceBad(since')
    BY ONLY <1>1, <1>6, s \in Sinces
  <2>9. QED
    BY ONLY <1>2, <1>4, <2>1, <2>7, <2>8 DEF RunInv
<1>7. QED
  BY ONLY <1>5, <1>6

(* Every step of the run.                                                  *)
LEMMA RunKeeps == ScanInv /\ RunInv /\ [ParseRunNext]_runVars => RunInv'
<1> SUFFICES ASSUME ScanInv, RunInv, [ParseRunNext]_runVars PROVE RunInv'
  OBVIOUS
<1>1. CASE Scan
  <2>1. step = "extract" /\ UNCHANGED parseVars
    BY ONLY <1>1 DEF Scan
  <2>2. step' = "extract" /\ dives' = <<>> /\ log' = <<>>
    BY ONLY <2>1, RunInv DEF RunInv, parseVars
  <2>3. QED
    BY ONLY <2>2 DEF RunInv
<1>2. CASE Scanned
  <2>1. /\ step = "extract" /\ step' \in {"no records", "parse"}
        /\ dives' = dives /\ log' = log
    BY ONLY <1>2 DEF Scanned
  <2>2. dives' = <<>> /\ log' = <<>>
    BY ONLY <2>1, RunInv DEF RunInv
  <2>3. QED
    BY ONLY <2>1, <2>2 DEF RunInv
<1>3. CASE Parse
  <2>1. /\ step = "parse" /\ step' = "filter" /\ log' = log
        /\ UNCHANGED <<dump, records>>
        /\ dives' = AtAll(AllDives, ReadableOnes)
    BY ONLY <1>3 DEF Parse, Parsed, AllDives, ReadableOnes, dumpVars
  <2>2. Lists(AllDives, ReadableOnes, dives', ReadableOnes)
    <3>1. Table(AllDives, Len(records), ReadableOnes)
      BY ONLY ScanInv, DivesOfRecords
    <3>2. QED
      BY ONLY <2>1, <3>1, ParsedLists
  <2>3. UNCHANGED <<AllDives, ReadableOnes>>
    BY ONLY <2>1, TableStays
  <2>4. log' = <<>>
    BY ONLY <2>1, RunInv DEF RunInv
  <2>5. Lists(AllDives', ReadableOnes', dives', ReadableOnes')
    BY ONLY <2>2, <2>3
  <2>6. QED
    BY ONLY <2>1, <2>4, <2>5 DEF RunInv
<1>4. CASE ParsePanics
  <2>1. step = "parse" /\ step' = "panic" /\ dives' = dives /\ log' = log
    BY ONLY <1>4 DEF ParsePanics
  <2>2. dives' = <<>> /\ log' = <<>>
    BY ONLY <2>1, RunInv DEF RunInv
  <2>3. QED
    BY ONLY <2>1, <2>2 DEF RunInv
<1>5. CASE Filter
  BY ONLY ScanInv, RunInv, <1>5, FilterKeeps
<1>6. CASE Write
  <2>1. /\ step = "write" /\ step' \in {"saved", "error"}
        /\ UNCHANGED <<dump, records, dives, since, last>>
        /\ step' = "saved" => log' = dives
        /\ step' = "error" => \E n \in 0 .. Len(dives) : log' = SubSeq(dives, 1, n)
    BY ONLY <1>6 DEF Write, dumpVars
  <2>2. UNCHANGED <<AllDives, ReadableOnes>>
    BY ONLY <2>1, TableStays
  <2>3. UNCHANGED Chosen
    BY ONLY <2>1, <2>2 DEF Chosen
  <2>4. /\ since' # NoFilter => since' \in Sinces /\ ~SinceBad(since')
        /\ Lists(AllDives', ReadableOnes', dives', Chosen')
        /\ dives' # <<>>
    BY ONLY <2>1, <2>2, <2>3, RunInv DEF RunInv
  <2>5. step' # "no match"
    BY ONLY <2>1
  <2>6. QED
    BY ONLY <2>1, <2>4, <2>5 DEF RunInv
<1>7. CASE UNCHANGED runVars
  <2>1. UNCHANGED <<dump, records, step, dives, since, last, log>>
    BY ONLY <1>7 DEF runVars, dumpVars, parseVars
  <2>2. UNCHANGED <<AllDives, ReadableOnes>>
    BY ONLY <2>1, TableStays
  <2>3. UNCHANGED Chosen
    BY ONLY <2>1, <2>2 DEF Chosen
  <2>4. QED
    BY ONLY <2>1, <2>2, <2>3, RunInv DEF RunInv
<1>8. QED
  BY ONLY <1>1, <1>2, <1>3, <1>4, <1>5, <1>6, <1>7, [ParseRunNext]_runVars DEF ParseRunNext

(* RunInv is an invariant of the run.                                      *)
LEMMA RunInvariant == ParseRunSpec => [](ScanInv /\ RunInv)
<1>1. ParseRunSpec => []ScanInv
  BY RunScans, ScanCorrect, PTL
<1>2. ParseRunInit => RunInv
  BY RunStarts
<1>3. ScanInv /\ RunInv /\ [ParseRunNext]_runVars => RunInv'
  BY RunKeeps
<1>4. QED
  BY <1>1, <1>2, <1>3, PTL DEF ParseRunSpec

(* What is listed is what NumbersKept says of the log.                     *)
LEMMA LogOrdered == RunInv => Ordered(AllDives, ReadableOnes, log)
<1> SUFFICES ASSUME RunInv PROVE Ordered(AllDives, ReadableOnes, log)
  OBVIOUS
<1>1. CASE step \notin {"saved", "error"}
  BY ONLY <1>1, NoneOrdered, RunInv DEF RunInv
<1>2. CASE step = "saved"
  BY ONLY <1>2, RunInv DEF RunInv, Lists
<1>3. CASE step = "error"
  <2>1. Ordered(AllDives, ReadableOnes, dives)
    BY ONLY <1>3, RunInv DEF RunInv, Lists
  <2>2. PICK n \in 0 .. Len(dives) : log = SubSeq(dives, 1, n)
    BY ONLY <1>3, RunInv DEF RunInv
  <2>3. QED
    BY ONLY <2>1, <2>2, SomeOrdered
<1>4. QED
  BY ONLY <1>1, <1>2, <1>3

(* The dives that are printed are in order too.                            *)
LEMMA DivesOrdered == RunInv => Ordered(AllDives, ReadableOnes, dives)
<1> SUFFICES ASSUME RunInv PROVE Ordered(AllDives, ReadableOnes, dives)
  OBVIOUS
<1>1. CASE step \in {"extract", "no records", "parse", "panic"}
  BY ONLY <1>1, NoneOrdered, RunInv DEF RunInv
<1>2. CASE step \notin {"extract", "no records", "parse", "panic"}
  BY ONLY <1>2, RunInv DEF RunInv, Lists
<1>3. QED
  BY ONLY <1>1, <1>2

(* Whatever does not parse, whatever is filtered out and wherever the      *)
(* write breaks off, a dive in the log with a number is that record of the *)
(* dump, and the numbers ascend.                                           *)
THEOREM RunNumbersKept == ParseRunSpec => []NumbersKept
<1>1. ScanInv /\ RunInv => NumbersKept
  <2>1. SUFFICES ASSUME RunInv PROVE NumbersKept
    OBVIOUS
  <2>2. Ordered(AllDives, ReadableOnes, log)
    BY ONLY <2>1, LogOrdered
  <2>3. DOMAIN log = 1 .. Len(log)
    BY ONLY <2>2 DEF Ordered
  <2>4. ASSUME NEW k \in DOMAIN log
        PROVE  /\ log[k].number \in DOMAIN records
               /\ Readable(Record(log[k].number))
               /\ log[k].unix_time = unix_time(Record(log[k].number))
    <3>1. /\ log[k].number \in ReadableOnes
          /\ log[k] = AllDives[log[k].number]
      BY ONLY <2>2, <2>3, k \in DOMAIN log DEF Ordered
    <3>2. /\ log[k].number \in DOMAIN records
          /\ Readable(Record(log[k].number))
      BY ONLY <3>1 DEF ReadableOnes
    <3>3. AllDives[log[k].number] = Dive(log[k].number)
      BY ONLY <3>2 DEF AllDives
    <3>4. log[k].unix_time = unix_time(Record(log[k].number))
      BY ONLY <3>1, <3>3 DEF Dive
    <3>5. QED
      BY ONLY <3>2, <3>4
  <2>5. \A j, k \in DOMAIN log : j < k => log[j].number < log[k].number
    BY ONLY <2>2, <2>3 DEF Ordered
  <2>6. QED
    BY ONLY <2>4, <2>5 DEF NumbersKept
<1>2. QED
  BY <1>1, RunInvariant, PTL

(* The fields of a date that is asked for, when it is one.                 *)
LEMMA SinceIsDate ==
  ASSUME NEW s \in Sinces, s # NoFilter, ~SinceBad(s), IsDate(SinceFields(s))
  PROVE  SinceFields(s) \in Dates
<1>1. s.date \in Seq(Part) /\ s.time \in Seq(Part)
  BY ONLY FilterAssumption, s \in Sinces, s # NoFilter DEF FilterAssumption
<1>2. /\ Len(s.date) = 3
      /\ \A i \in DOMAIN s.date : s.date[i] # NotANumber
      /\ \A i \in (DOMAIN s.time) \cap (1 .. 3) : s.time[i] # NotANumber
  BY ONLY ~SinceBad(s) DEF SinceBad
<1>3. s.date \in Seq(Int)
  <2>1. PICK d \in Seq(Part) : d = s.date
    BY ONLY <1>1
  <2>2. \A i \in 1 .. Len(d) : d[i] \in Int
    <3>1. TAKE i \in 1 .. Len(d)
    <3>2. i \in DOMAIN d /\ d[i] \in Part
      BY ONLY d \in Seq(Part), i \in 1 .. Len(d)
    <3>3. d[i] # NotANumber
      BY ONLY <3>2, <2>1, <1>2
    <3>4. QED
      BY ONLY <3>2, <3>3 DEF Part
  <2>3. d \in Seq(Int)
    BY ONLY <2>2, d \in Seq(Part)
  <2>4. QED
    BY ONLY <2>1, <2>3
<1>4. ASSUME NEW i \in 1 .. 3, i <= Len(s.time) PROVE s.time[i] \in Int
  <2>1. i \in DOMAIN s.time /\ s.time[i] \in Part
    BY ONLY <1>1, <1>4, i \in 1 .. 3
  <2>2. s.time[i] # NotANumber
    BY ONLY <2>1, <1>2, i \in 1 .. 3
  <2>3. QED
    BY ONLY <2>1, <2>2 DEF Part
<1> DEFINE t == [i \in 1 .. 3 |-> IF i <= Len(s.time) THEN s.time[i] ELSE 0]
<1>5. \A i \in 1 .. 3 : (IF i <= Len(s.time) THEN s.time[i] ELSE 0) \in Int
  BY ONLY <1>4
<1>6. t \in Seq(Int) /\ Len(t) = 3
  BY ONLY <1>5
<1>7. SinceFields(s) = s.date \o t
  BY ONLY DEF SinceFields
<1> HIDE DEF t
<1>8. s.date \o t \in Seq(Int) /\ Len(s.date \o t) = 6
  <2>1. Len(s.date \o t) = Len(s.date) + Len(t) /\ s.date \o t \in Seq(Int)
    BY ONLY <1>3, <1>6, ConcatProperties
  <2>2. QED
    BY ONLY <1>2, <1>6, <2>1
<1>9. s.date \o t \in [1 .. 6 -> Int]
  <2>1. PICK u \in Seq(Int) : u = s.date \o t /\ Len(u) = 6
    BY ONLY <1>8
  <2>2. u \in [1 .. 6 -> Int]
    <3>1. u \in [1 .. Len(u) -> Int]
      BY ONLY u \in Seq(Int)
    <3>2. QED
      BY ONLY <2>1, <3>1
  <2>3. QED
    BY ONLY <2>1, <2>2
<1>10. QED
  BY ONLY <1>7, <1>9, IsDate(SinceFields(s)) DEF Dates, Fields

(* The dives wanted are those that --since keeps.                          *)
LEMMA WantedIs ==
  ASSUME ScanInv,
         since # NoFilter => since \in Sinces /\ ~SinceBad(since),
         since # NoFilter => IsDate(SinceFields(since))
  PROVE  Wanted = From(AllDives, ReadableOnes, since)
<1>1. \A i \in ReadableOnes : AllDives[i].unix_time = unix_time(Record(i))
  <2>1. \A i \in ReadableOnes : AllDives[i] = Dive(i)
    BY ONLY DEF ReadableOnes, AllDives
  <2>2. ASSUME NEW i PROVE Dive(i).unix_time = unix_time(Record(i))
    BY ONLY DEF Dive
  <2>3. QED
    BY ONLY <2>1, <2>2
<1>2. From(AllDives, ReadableOnes, since)
        = {i \in ReadableOnes : since # NoFilter =>
             AtOrAfter(unix_time(Record(i)), parse_since(since))}
  BY ONLY <1>1 DEF From
<1>3. Wanted = {i \in ReadableOnes : since # NoFilter =>
                  NotBefore(civil(unix_time(Record(i))), SinceFields(since))}
  BY ONLY DEF Wanted, ReadableOnes
<1>4. ASSUME NEW i \in ReadableOnes, since # NoFilter
      PROVE  NotBefore(civil(unix_time(Record(i))), SinceFields(since))
               <=> AtOrAfter(unix_time(Record(i)), parse_since(since))
  <2>1. PICK g \in Dates : g = SinceFields(since)
    BY ONLY <1>4, SinceIsDate, since # NoFilter => since \in Sinces /\ ~SinceBad(since),
            since # NoFilter => IsDate(SinceFields(since))
  <2>2. AllDives[i] \in Logged
    <3>1. Table(AllDives, Len(records), ReadableOnes)
      BY ONLY ScanInv, DivesOfRecords
    <3>2. QED
      BY ONLY <3>1, i \in ReadableOnes DEF Table
  <2>3. PICK t \in Moment : t = unix_time(Record(i))
    BY ONLY <1>1, <2>2, i \in ReadableOnes DEF Logged
  <2>4. PICK f \in Dates : f = civil(t) /\ unix_from_civil(f) = t
    BY ONLY CivilRight, t \in Moment
  <2>5. NotBefore(f, g) <=> AtOrAfter(t, unix_from_civil(g))
    BY ONLY <2>4, NotBeforeRight, f \in Dates, g \in Dates
  <2>6. unix_from_civil(g) = parse_since(since)
    BY ONLY <2>1 DEF parse_since
  <2>7. QED
    BY ONLY <2>1, <2>3, <2>4, <2>5, <2>6
<1>5. QED
  BY ONLY <1>2, <1>3, <1>4

(* What is saved is what was asked for: the dives whose printed date is    *)
(* not before that of --since, and of those the last --last; the run is    *)
(* refused when there is none and only then.                               *)
THEOREM RunFileIsSelection == ParseRunSpec => []FileIsSelection
<1>1. ScanInv /\ RunInv => FileIsSelection
  <2> DEFINE Date == since # NoFilter => IsDate(SinceFields(since))
             InLog == {log[k].number : k \in DOMAIN log}
  <2> SUFFICES ASSUME ScanInv, RunInv, Date
               PROVE  /\ step = "saved" => InLog = Selected
                      /\ step \in {"write", "saved"} => Selected # {}
                      /\ step = "no match" => Selected = {}
    BY DEF FileIsSelection
  <2>1. SUFFICES ASSUME step \in {"no match", "write", "saved"}
                 PROVE  /\ step = "saved" => InLog = Selected
                        /\ step \in {"write", "saved"} => Selected # {}
                        /\ step = "no match" => Selected = {}
    <3> HIDE DEF InLog
    <3> QED
      OBVIOUS
  <2>2. /\ since # NoFilter => since \in Sinces /\ ~SinceBad(since)
        /\ Lists(AllDives, ReadableOnes, dives, Chosen)
        /\ step = "no match" <=> dives = <<>>
        /\ step = "saved" => log = dives
    BY ONLY <2>1, RunInv DEF RunInv
  <2>3. Wanted = From(AllDives, ReadableOnes, since)
    BY ONLY <2>2, WantedIs, ScanInv, Date
  <2>4. Selected = Chosen
    BY ONLY <2>3 DEF Selected, Chosen, Latest
  <2>5. /\ DOMAIN dives = 1 .. Len(dives) /\ Len(dives) \in Nat
        /\ dives = <<>> <=> Len(dives) = 0
        /\ \A k \in 1 .. Len(dives) : dives[k].number \in Chosen
        /\ \A i \in Chosen : \E k \in 1 .. Len(dives) : dives[k].number = i
    <3>1. PICK ds \in Seq(Logged) : ds = dives
      BY ONLY <2>2 DEF Lists, Ordered
    <3>2. /\ DOMAIN ds = 1 .. Len(ds) /\ Len(ds) \in Nat
          /\ ds = <<>> <=> Len(ds) = 0
      BY ONLY ds \in Seq(Logged)
    <3>3. /\ \A k \in 1 .. Len(dives) : dives[k].number \in Chosen
          /\ \A i \in Chosen : \E k \in 1 .. Len(dives) : dives[k].number = i
      BY ONLY <2>2 DEF Lists
    <3>4. QED
      BY ONLY <3>1, <3>2, <3>3
  <2>6. {dives[k].number : k \in DOMAIN dives} = Chosen
    BY ONLY <2>5
  <2>7. dives = <<>> <=> Chosen = {}
    <3>1. ASSUME Len(dives) # 0 PROVE Chosen # {}
      <4>1. 1 \in 1 .. Len(dives)
        BY ONLY <2>5, <3>1
      <4>2. QED
        BY ONLY <2>5, <4>1
    <3>2. ASSUME Len(dives) = 0 PROVE Chosen = {}
      <4>1. \A k \in 1 .. Len(dives) : FALSE
        BY ONLY <3>2
      <4>2. QED
        BY ONLY <2>5, <4>1
    <3>3. QED
      BY ONLY <2>5, <3>1, <3>2
  <2>8. QED
    BY ONLY <2>1, <2>2, <2>4, <2>6, <2>7
<1>2. QED
  BY <1>1, RunInvariant, PTL

(* What the device counts from is printed as 2000-01-01.                   *)
LEMMA EpochPrinted == civil(Instant(EPOCH_DAY, 0)) = <<2000, 1, 1, 0, 0, 0>>
<1>1. Instant(EPOCH_DAY, 0) = [day |-> 10957, sec |-> 0]
  <2>1. 10957 + 0 \div 86400 = 10957 /\ 0 % 86400 = 0
    BY SMT
  <2>2. QED
    BY ONLY <2>1 DEF Instant, EPOCH_DAY
<1>2. /\ 10957 + 719468 = 730425 /\ 730425 % 146097 = 146037
      /\ 730425 \div 146097 = 4
  BY SMT
<1>3. YearOfEra(146037) = 399
  <2>1. /\ 146037 \div 1460 = 100 /\ 146037 \div 36524 = 3 /\ 146037 \div 146096 = 0
        /\ ((146037 - 100) + 3) - 0 = 145940 /\ 145940 \div 365 = 399
    BY SMT
  <2>2. QED
    BY ONLY <2>1, SMT DEF YearOfEra
<1>4. DayOfEra(399, 0) = 145731
  BY SMT DEF DayOfEra
<1>5. /\ 146037 - 145731 = 306 /\ (5 * 306 + 2) \div 153 = 10 /\ ~(10 < 10)
      /\ 10 - 9 = 1 /\ 399 + 400 * 4 = 1999 /\ 1 <= 2 /\ 1999 + 1 = 2000
      /\ 306 - (153 * 10 + 2) \div 5 + 1 = 1
      /\ 0 \div 3600 = 0 /\ (0 % 3600) \div 60 = 0 /\ 0 % 60 = 0
  BY SMT
<1>6. QED
  BY ONLY <1>1, <1>2, <1>3, <1>4, <1>5, SMT DEF civil

(* Every dive that is printed or saved is at a date of the calendar, the   *)
(* one its time of day and number of days stand for, and the day after is  *)
(* printed as the next date: for every time a record can hold, before and  *)
(* after 2000-01-01 and in any timezone.                                   *)
THEOREM RunPrintedIsCalendar == ParseRunSpec => []PrintedIsCalendar
<1>1. ScanInv /\ RunInv => PrintedIsCalendar
  <2>1. SUFFICES ASSUME RunInv PROVE PrintedIsCalendar
    OBVIOUS
  <2>2. Ordered(AllDives, ReadableOnes, dives)
    BY ONLY RunInv, DivesOrdered
  <2>3. ASSUME NEW k \in DOMAIN dives
        PROVE  LET t == dives[k].unix_time IN
                 /\ IsDate(civil(t)) /\ unix_from_civil(civil(t)) = t
                 /\ civil([t EXCEPT !.day = @ + 1]) = Tomorrow(civil(t))
    <3>1. dives[k] \in Logged
      BY ONLY <2>2, k \in DOMAIN dives DEF Ordered
    <3>2. PICK t \in Moment : t = dives[k].unix_time
      BY ONLY <3>1 DEF Logged
    <3>3. civil(t) \in Dates /\ unix_from_civil(civil(t)) = t
      BY ONLY CivilRight, t \in Moment
    <3>4. IsDate(civil(t))
      BY ONLY <3>3 DEF Dates
    <3>5. civil([t EXCEPT !.day = @ + 1]) = Tomorrow(civil(t))
      BY ONLY CivilTomorrow, t \in Moment
    <3>6. QED
      BY ONLY <3>2, <3>3, <3>4, <3>5
  <2>4. QED
    BY ONLY <2>3, EpochPrinted DEF PrintedIsCalendar
<1>2. QED
  BY <1>1, RunInvariant, PTL
=============================================================================
