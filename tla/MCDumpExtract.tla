--------------------------- MODULE MCDumpExtract ---------------------------
(* Dumps of up to three records, with junk between them, a marker within a *)
(* dive, and the end cut off.                                              *)
EXTENDS DumpExtract, SequencesExt

CONSTANT MaxRecords, MaxCut

Payloads == {<<>>, <<1, 165, 165>>, MARKER, MARKER \o <<8, 0, 0, 0>>}
Junk     == {<<>>, <<90>>, <<165, 165, 90, 1>>}

Pieces == [junk : Junk, payload : Payloads]
RecordOf(p) == MARKER \o <<8 + Len(p.payload), 0, 0, 0>> \o p.payload
BytesOf(ps) == FlattenSeq([i \in 1 .. Len(ps) |-> ps[i].junk \o RecordOf(ps[i])])

Extents(ps) ==
  [i \in 1 .. Len(ps) |->
     [start |-> Len(BytesOf(SubSeq(ps, 1, i - 1))) + Len(ps[i].junk),
      len   |-> 8 + Len(ps[i].payload)]]

MCDumps ==
  {[data |-> SubSeq(BytesOf(ps), 1, Len(BytesOf(ps)) - cut), written |-> Extents(ps)] :
     ps \in BoundedSeq(Pieces, MaxRecords), cut \in 0 .. MaxCut}
=============================================================================
