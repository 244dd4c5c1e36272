------------------------------ MODULE Calendar ------------------------------
(***************************************************************************)
(* The calendar of src/src/subsurface/mod.rs: civil, its inverse           *)
(* unix_from_civil, and parse_since.                                       *)
(*                                                                         *)
(* A time in Unix seconds is [day |-> d, sec |-> s], for 86400 * d + s     *)
(* with s in 0 .. 86399.  A date with its time of day is                   *)
(* <<year, month, day, hour, minute, second>>.                             *)
(***************************************************************************)
EXTENDS Integers, Sequences

CONSTANT NotANumber     \* a part of the argument of --since that is no i64

ASSUME CalendarAssumption == NotANumber \notin Int

Instant(day, sec) == [day |-> day + sec \div 86400, sec |-> sec % 86400]

AtOrAfter(t, u) == t.day > u.day \/ (t.day = u.day /\ t.sec >= u.sec)

YearOfEraMut(doe) == (doe + doe \div 36524 - doe \div 146096) \div 365  \* no leap years
YearOfEra(doe) ==
  (doe - doe \div 1460 + doe \div 36524 - doe \div 146096) \div 365

DayOfEra(yoe, doy) == yoe * 365 + yoe \div 4 - yoe \div 100 + doy

(* Years count from March here, so that a leap day is the last of its year. *)
civil(t) ==
  LET z   == t.day + 719468
      doe == z % 146097
      yoe == YearOfEra(doe)
      doy == doe - DayOfEra(yoe, 0)
      mp  == (5 * doy + 2) \div 153
      m   == IF mp < 10 THEN mp + 3 ELSE mp - 9
      y   == yoe + 400 * (z \div 146097)
  IN  <<IF m <= 2 THEN y + 1 ELSE y, m, doy - (153 * mp + 2) \div 5 + 1,
        t.sec \div 3600, (t.sec % 3600) \div 60, t.sec % 60>>

MarchYear(y, m) == IF m <= 2 THEN y - 1 ELSE y

unix_from_civil(f) ==
  LET y   == MarchYear(f[1], f[2])
      mp  == IF f[2] > 2 THEN f[2] - 3 ELSE f[2] + 9
      doy == (153 * mp + 2) \div 5 + f[3] - 1
  IN  Instant(146097 * (y \div 400) + DayOfEra(y % 400, doy) - 719468,
              f[4] * 3600 + f[5] * 60 + f[6])

(* The argument of --since, split at its separators: the parts of the date *)
(* and those of the time of day, none when it has none.                    *)
Part == Int \cup {NotANumber}

SinceBad(s) ==
  \/ Len(s.date) # 3
  \/ \E i \in DOMAIN s.date : s.date[i] = NotANumber
  \/ \E i \in (DOMAIN s.time) \cap (1 .. 3) : s.time[i] = NotANumber

SinceFields(s) ==
  s.date \o [i \in 1 .. 3 |-> IF i <= Len(s.time) THEN s.time[i] ELSE 0]

parse_since(s) == unix_from_civil(SinceFields(s))

-----------------------------------------------------------------------------
(* The Gregorian calendar, for the properties: by counting days.           *)

LeapYear(y)  == y % 4 = 0 /\ (y % 100 # 0 \/ y % 400 = 0)
DaysIn(y, m) == IF m = 2 THEN IF LeapYear(y) THEN 29 ELSE 28
                ELSE IF m \in {4, 6, 9, 11} THEN 30 ELSE 31
YearLen(y)   == IF LeapYear(y) THEN 366 ELSE 365

IsDate(f) ==
  /\ f[2] \in 1 .. 12 /\ f[3] \in 1 .. DaysIn(f[1], f[2])
  /\ f[4] \in 0 .. 23 /\ f[5] \in 0 .. 59 /\ f[6] \in 0 .. 59

(* The day after, in a calendar without arithmetic.                        *)
Tomorrow(f) ==
  IF f[3] < DaysIn(f[1], f[2]) THEN [f EXCEPT ![3] = @ + 1]
  ELSE IF f[2] < 12 THEN [f EXCEPT ![2] = @ + 1, ![3] = 1]
  ELSE [f EXCEPT ![1] = @ + 1, ![2] = 1, ![3] = 1]

(* One date is not before another.                                         *)
NotBefore(f, g) ==
  f = g \/ (\E i \in 1 .. 6 : f[i] > g[i] /\ \A j \in 1 .. i - 1 : f[j] = g[j])
=============================================================================
