------------------------------ MODULE ParseRun ------------------------------
(***************************************************************************)
(* run_parse of src/src/subsurface/mod.rs: read a dump, split it with      *)
(* extract_dives (DumpExtract), parse and number the dives, keep those     *)
(* that --since and --last select, and write the log.                      *)
(*                                                                         *)
(* Of a dive the model has its number and its time; DiveParser has the     *)
(* rest of parse_dive.  The log written is the sequence of its dives.      *)
(***************************************************************************)
EXTENDS DumpExtract, Calendar, FiniteSets

CONSTANTS Parses(_),  \* parse_dive takes these bytes, if there are enough of them
          Panics(_),  \* and on these it indexes out of range
          Sinces,     \* arguments of --since, or NoFilter
          Lasts,      \* arguments of --last, or NoFilter
          NoFilter

ASSUME FilterAssumption ==
  /\ \A s \in Sinces \ {NoFilter} : s.date \in Seq(Part) /\ s.time \in Seq(Part)
  /\ Lasts \subseteq Nat \cup {NoFilter}

VARIABLES
  step,               \* "extract", "parse", "filter", "write", or how the run ended
  dives,              \* the local of run_parse
  since, last,        \* its arguments
  log                 \* the dives of out_path

parseVars == <<step, dives, since, last, log>>
runVars   == <<dumpVars, parseVars>>

Record(i) == SubSeq(dump.data, records[i].start + 1, records[i].start + records[i].len)

-----------------------------------------------------------------------------
(* parse_dive: half-seconds since 2000-01-01 at 8, the timezone at 16, a   *)
(* signed byte in quarters of an hour.                                     *)
EPOCH_DAY == 10957
Quarters(b) == IF b < 128 THEN b ELSE b - 256

Halved(b) == b[9] \div 2 + 128 * b[10] + 32768 * b[11] + 8388608 * b[12]

unix_time(b) ==
  LET s == Halved(b)
  IN  Instant(EPOCH_DAY + s \div 86400, (s % 86400) + 900 * Quarters(b[17]))

LongEnough(b) == Len(b) >= 44
Readable(b)   == LongEnough(b) /\ Parses(b)

Dive(i) == [number |-> i, unix_time |-> unix_time(Record(i))]

ParseRunInit ==
  /\ DumpInit
  /\ step = "extract" /\ dives = <<>> /\ log = <<>>
  /\ since = NoFilter /\ last = NoFilter

Scan ==
  /\ step = "extract" /\ DumpNext
  /\ UNCHANGED parseVars

Scanned ==
  /\ step = "extract" /\ pc = "done"
  /\ step' = IF records = <<>> THEN "no records" ELSE "parse"
  /\ UNCHANGED <<dumpVars, dives, since, last, log>>

(* The k-th of a set of positions, and what stands at each of them.        *)
Nth(S, k)   == CHOOSE i \in S : Cardinality({j \in S : j <= i}) = k
AtAll(s, S) == [k \in 1 .. Cardinality(S) |-> s[Nth(S, k)]]

(* Each record in turn; one that does not parse keeps its number.          *)
ParsedMut ==                                    \* numbered among those that do
  LET ok == {i \in DOMAIN records : Readable(Record(i))}
  IN  [k \in 1 .. Cardinality(ok) |-> [Dive(Nth(ok, k)) EXCEPT !.number = k]]
Parsed ==
  AtAll([i \in DOMAIN records |-> Dive(i)],
        {i \in DOMAIN records : Readable(Record(i))})

Panicking == {i \in DOMAIN records : LongEnough(Record(i)) /\ Panics(Record(i))}

Parse ==
  /\ step = "parse" /\ Panicking = {}
  /\ dives' = Parsed /\ step' = "filter"
  /\ UNCHANGED <<dumpVars, since, last, log>>

(* One record on which parse_dive panics ends the run, whatever the others. *)
ParsePanics ==
  /\ step = "parse" /\ Panicking # {}
  /\ step' = "panic"
  /\ UNCHANGED <<dumpVars, dives, since, last, log>>

OnOrAfter(ds, s) ==
  IF s = NoFilter THEN ds
  ELSE AtAll(ds, {k \in DOMAIN ds : AtOrAfter(ds[k].unix_time, parse_since(s))})

LastOf(ds, n) ==
  IF n = NoFilter \/ Len(ds) <= n THEN ds ELSE SubSeq(ds, Len(ds) - n + 1, Len(ds))

(* --since before --last, whatever their order in the command.             *)
FilteredMut(ds, s, n) == OnOrAfter(LastOf(ds, n), s)
Filtered(ds, s, n) == LastOf(OnOrAfter(ds, s), n)

Filter ==
  /\ step = "filter"
  /\ \E s \in Sinces, n \in Lasts :
       /\ since' = s /\ last' = n
       /\ IF s # NoFilter /\ SinceBad(s)
          THEN step' = "bad date" /\ UNCHANGED dives
          ELSE /\ dives' = Filtered(dives, s, n)
               /\ step' = IF dives' = <<>> THEN "no match" ELSE "write"
  /\ UNCHANGED <<dumpVars, log>>

(* write_xml or write_uddf, and fs::write, which may break off.            *)
Write ==
  /\ step = "write"
  /\ \/ step' = "saved" /\ log' = dives
     \/ step' = "error" /\ \E n \in 0 .. Len(dives) : log' = SubSeq(dives, 1, n)
  /\ UNCHANGED <<dumpVars, dives, since, last>>

ParseRunNext == Scan \/ Scanned \/ Parse \/ ParsePanics \/ Filter \/ Write
ParseRunSpec == ParseRunInit /\ [][ParseRunNext]_runVars

-----------------------------------------------------------------------------
(* Properties.                                                             *)

(* "i filtri [...] preservano i numeri d'immersione originali": whatever   *)
(* does not parse and whatever is filtered out, the dive with a number in  *)
(* the log is that record of the dump, and the numbers ascend.             *)
NumbersKept ==
  /\ \A k \in DOMAIN log :
       /\ log[k].number \in DOMAIN records
       /\ Readable(Record(log[k].number))
       /\ log[k].unix_time = unix_time(Record(log[k].number))
  /\ \A j, k \in DOMAIN log : j < k => log[j].number < log[k].number

(* The dives of the dump whose printed date is not before the one asked    *)
(* for, and of those the last ones, are what is saved; none of them, and   *)
(* only then, is refused with "no dives match the given filter".           *)
Wanted ==
  {i \in DOMAIN records :
     /\ Readable(Record(i))
     /\ since # NoFilter => NotBefore(civil(unix_time(Record(i))), SinceFields(since))}

Selected ==
  {i \in Wanted :
     last # NoFilter => Cardinality({j \in Wanted : j > i}) < last}

FileIsSelection ==
  (since # NoFilter => IsDate(SinceFields(since))) =>
    /\ step = "saved" => {log[k].number : k \in DOMAIN log} = Selected
    /\ step \in {"write", "saved"} => Selected # {}
    /\ step = "no match" => Selected = {}

(* Every dive of the log is at a date of the calendar; the day after is    *)
(* printed as the next date, and 2000-01-01 as the device counts from it.  *)
PrintedIsCalendar ==
  /\ civil(Instant(EPOCH_DAY, 0)) = <<2000, 1, 1, 0, 0, 0>>
  /\ \A k \in DOMAIN dives :
       LET t == dives[k].unix_time IN
         /\ IsDate(civil(t)) /\ unix_from_civil(civil(t)) = t
         /\ civil([t EXCEPT !.day = @ + 1]) = Tomorrow(civil(t))
=============================================================================
