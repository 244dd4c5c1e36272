----------------------------- MODULE MCParseRun -----------------------------
(* The dumps of MCDumpExtract, and dumps with dives at the edges of the    *)
(* calendar and of the clock of the device.                                *)
EXTENDS ParseRun, MCDumpExtract

(* Records of the least length that is read: with a time, and of a kind    *)
(* that is refused or panics, which the byte after the time tells.         *)
Bytes32(s) == <<2 * (s % 128), (s \div 128) % 256, (s \div 32768) % 256, s \div 8388608>>
Rest(n) == [i \in 1 .. n |-> 0]
RecordAt(s, kind, quarters) ==
  MARKER \o <<44, 0, 0, 0>> \o Bytes32(s) \o <<kind, 0, 0, 0, quarters>> \o Rest(27)
Dated(s, quarters) == RecordAt(s, 0, quarters)

MCParses(b) == b[13] # 1
MCPanics(b) == b[13] = 2

Joined(rs) == [data    |-> rs[1] \o rs[2] \o rs[3],
               written |-> <<[start |-> 0, len |-> Len(rs[1])],
                             [start |-> Len(rs[1]), len |-> Len(rs[2])],
                             [start |-> Len(rs[1]) + Len(rs[2]), len |-> Len(rs[3])]>>]
Single(r) == [data |-> <<0>> \o r, written |-> <<[start |-> 1, len |-> Len(r)]>>]

(* The ends of the months, in years counted from 2000, of its clock too. *)
YearStarts  == {0, 366, 1096, 1461, 24472}
MonthStarts == {0, 31, 59, 60, 90, 91, 120, 151, 181, 212, 243, 273, 304, 334, 365}
EdgeDays    == {y + m + e : y \in YearStarts, m \in MonthStarts, e \in {-1, 0}} \cap (0 .. 24854)
EdgeDumps ==
  {Single(Dated(86400 * d + s, 0)) : d \in EdgeDays, s \in {0, 86399}}
  \cup {Single(Dated(s, q)) : s \in {0, 2147483647}, q \in {0, 4, 127, 128, 244}}

(* 2004-02-28 23:00, the same instant a timezone east, and 2004-03-01. *)
Feb28   == 86400 * 1519 + 82800
Mixed   == {Dated(Feb28, 0), Dated(Feb28, 4), Dated(Feb28 + 86400 + 3600, 0),
            RecordAt(Feb28, 1, 0), RecordAt(Feb28, 2, 0)}
MCRunDumps == MCDumps \cup EdgeDumps \cup {Joined(rs) : rs \in [1 .. 3 -> Mixed]}

Since(date, time) == [date |-> date, time |-> time]
MCSinces ==
  {NoFilter,
   Since(<<2004, 2, 28>>, <<23, 0, 0>>), Since(<<2004, 2, 28>>, <<23, 0, 1>>),
   Since(<<2004, 2, 29>>, <<>>), Since(<<2004, 3, 1>>, <<0>>), Since(<<2004, 3, 1>>, <<-1>>),
   Since(<<2004, 1, 1>>, <<>>), Since(<<2003, 12, 31>>, <<23, 59, 59>>),
   Since(<<2004, 2, 31>>, <<>>), Since(<<1999, 12, 31>>, <<9>>),
   Since(<<2004, 2>>, <<>>), Since(<<2004, 2, 1>>, <<NotANumber>>)}
MCLasts == {NoFilter, 0, 1, 2}
=============================================================================
