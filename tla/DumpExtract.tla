---------------------------- MODULE DumpExtract ----------------------------
(***************************************************************************)
(* extract_dives of src/src/subsurface/mod.rs: the scan that splits a      *)
(* memory dump into dive records, from its end to its start, one action    *)
(* per turn of the loop.  Offsets count from 0, as in the code.            *)
(*                                                                         *)
(* A dump is its bytes and, for the properties, the extents of the records *)
(* that were written into it.                                              *)
(***************************************************************************)
EXTENDS Integers, Sequences

CONSTANT Dumps      \* [data |-> bytes, written |-> the extents in them]

Byte   == 0 .. 255
MARKER == <<165, 165, 90, 90>>

MarkerAt(data, p) == \A i \in 0 .. 3 : data[p + i + 1] = MARKER[i + 1]

u32_le(data, p) ==
  data[p + 1] + 256 * data[p + 2] + 65536 * data[p + 3] + 16777216 * data[p + 4]

(* The records written into a dump lie one after another, and each begins  *)
(* with the marker and its length, as far as the dump reaches.             *)
Extent == [start : Nat, len : Nat]

Complete(d) == \A i \in DOMAIN d.written :
                 d.written[i].start + d.written[i].len <= Len(d.data)

ASSUME DumpAssumption ==
  \A d \in Dumps :
    /\ d.data \in Seq(Byte) /\ d.written \in Seq(Extent)
    /\ \A i, j \in DOMAIN d.written : i < j =>
         d.written[i].start + d.written[i].len <= d.written[j].start
    /\ \A i \in DOMAIN d.written :
         LET r == d.written[i] IN
           /\ r.len >= 8
           /\ r.start + 4 <= Len(d.data) => MarkerAt(d.data, r.start)
           /\ r.start + 8 <= Len(d.data) => r.len = u32_le(d.data, r.start + 4)

VARIABLES
  dump,               \* the dump scanned
  previous, current,  \* the locals of the scan
  records,            \* the extents found, oldest first
  pc                  \* "scan", "done", or "panic": an index out of range

dumpVars == <<dump, previous, current, records, pc>>

-----------------------------------------------------------------------------
size == Len(dump.data)
Less4(n) == IF n >= 4 THEN n - 4 ELSE 0

DumpInit ==
  /\ dump \in Dumps
  /\ previous = size /\ current = Less4(size)
  /\ records = <<>> /\ pc = "scan"

(* No marker at the offset below: the scan goes on from there.             *)
Skip ==
  /\ pc = "scan" /\ current > 0
  /\ ~MarkerAt(dump.data, current - 1)
  /\ current' = current - 1
  /\ UNCHANGED <<dump, previous, records, pc>>

FitsMut(start, len) == len >= 8                     \* overlaps let through
FitsTightMut(start, len) == start + len = previous  \* no gap allowed
Fits(start, len) == len >= 8 /\ start + len <= previous

(* The bytes of the length are within the dump.                            *)
LengthInMut(start) == start + 8 < size              \* off by one
LengthIn(start) == start + 8 <= size

(* A marker and a length that fits before the record found last.           *)
Found ==
  /\ pc = "scan" /\ current > 0
  /\ LET start == current - 1 IN
       /\ MarkerAt(dump.data, start) /\ LengthIn(start)
       /\ Fits(start, u32_le(dump.data, start + 4))
       /\ records' = <<[start |-> start, len |-> u32_le(dump.data, start + 4)]>> \o records
       /\ previous' = start
       /\ current' = Less4(start)
  /\ UNCHANGED <<dump, pc>>

(* A length that does not: the scan stops, whatever is left.               *)
Malformed ==
  /\ pc = "scan" /\ current > 0
  /\ LET start == current - 1 IN
       /\ MarkerAt(dump.data, start) /\ LengthIn(start)
       /\ ~Fits(start, u32_le(dump.data, start + 4))
  /\ pc' = "done"
  /\ UNCHANGED <<dump, previous, current, records>>

(* A marker so near the end that the bytes of its length are not there.    *)
LengthMissing ==
  /\ pc = "scan" /\ current > 0
  /\ MarkerAt(dump.data, current - 1) /\ ~LengthIn(current - 1)
  /\ pc' = "panic"
  /\ UNCHANGED <<dump, previous, current, records>>

AtStart ==
  /\ pc = "scan" /\ current = 0
  /\ pc' = "done"
  /\ UNCHANGED <<dump, previous, current, records>>

DumpNext == Skip \/ Found \/ Malformed \/ LengthMissing \/ AtStart
DumpSpec == DumpInit /\ [][DumpNext]_dumpVars

-----------------------------------------------------------------------------
(* Properties.                                                             *)

(* What the callers slice out of the dump: extents within it, in order and *)
(* apart, each at a marker and of the length the marker is followed by.    *)
RecordsApart ==
  /\ \A i \in 1 .. Len(records) :
       LET r == records[i] IN
         /\ r.len >= 8 /\ r.start >= previous /\ r.start + r.len <= size
         /\ MarkerAt(dump.data, r.start) /\ r.len = u32_le(dump.data, r.start + 4)
  /\ \A i, j \in 1 .. Len(records) : i < j =>
       records[i].start + records[i].len <= records[j].start

Markers == {p \in 0 .. size - 4 : MarkerAt(dump.data, p)}
Starts  == {dump.written[i].start : i \in DOMAIN dump.written}
Whole   == Complete(dump)

(* Every record of a whole dump is found and nothing else, whatever lies   *)
(* between the records, as long as no dive contains the marker.            *)
ExtractsAll ==
  pc = "done" /\ Whole /\ Markers = Starts => records = dump.written

(* A marker within a dive costs that dive and the older ones, never a      *)
(* newer one.                                                              *)
NewerSurvive ==
  pc = "done" /\ Whole =>
    \A k \in DOMAIN dump.written :
      (\A p \in Markers \ Starts : p < dump.written[k].start) =>
        \E i \in 1 .. Len(records) : records[i] = dump.written[k]

(* What a dump loses that breaks off within record k, of which it has the  *)
(* first bytes: that record, if it has no more of it than the marker; the  *)
(* run, by the panic, if it breaks off within the length; and every record *)
(* of the dump, the whole ones before it too, if it breaks off behind.     *)
CutRecordCosts ==
  pc # "scan" /\ Markers \subseteq Starts =>
    \A k \in DOMAIN dump.written :
      LET has == size - dump.written[k].start IN
        has \in 0 .. dump.written[k].len - 1 =>
          /\ pc = "panic" <=> has \in 5 .. 7
          /\ records = IF has <= 4 THEN SubSeq(dump.written, 1, k - 1) ELSE <<>>

(* "no dive records found (marker A5 A5 5A 5A missing)".                   *)
NoneFoundMeansNoMarker == pc = "done" /\ records = <<>> => Markers = {}
=============================================================================
