------------------------------ MODULE FreeSlots ------------------------------
(***************************************************************************)
(* free-slots.util.ts: busy intervals are merged and subtracted from the   *)
(* windows, and the starts on the 15-minute grid are read off the gaps.    *)
(* Lists of intervals, as the code handles them; PlacementPlan states the  *)
(* result as a set.                                                        *)
(***************************************************************************)
EXTENDS Integers, Sequences, SequencesExt

\* mergeIntervals: overlapping and touching intervals become one.
MergeIntervals(list) ==
  LET Earlier(i, j) == \/ list[i].start < list[j].start
                       \/ list[i].start = list[j].start /\ i < j
      order == SortSeq([i \in DOMAIN list |-> i], Earlier)
      sorted == [i \in DOMAIN list |-> list[order[i]]]
      Join(out, i) ==
        IF out # <<>> /\ i.start <= out[Len(out)].end
        THEN [out EXCEPT ![Len(out)].end = Max({@, i.end})]
        ELSE Append(out, i)
  IN FoldLeft(Join, <<>>, sorted)

\* subtractInterval: what is left of one gap beside a busy interval.
Remains(gap, busy) ==
  IF busy.end <= gap.start \/ busy.start >= gap.end THEN <<gap>>
  ELSE SelectSeq(<< [start |-> gap.start, end |-> busy.start],
                    [start |-> busy.end, end |-> gap.end] >>,
                 LAMBDA i : i.end > i.start)

SubtractMany(free, busy) ==
  LET Take(gaps, b) == FlattenSeq([i \in DOMAIN gaps |-> Remains(gaps[i], b)])
  IN MergeIntervals(FoldLeft(Take, free, busy))

\* Slip (CeilTo): rounds down.
FloorTo(at, step) == (at \div step) * step

CeilTo(at, step) == ((at + step - 1) \div step) * step

CandidateStarts(gaps, dur, step) ==
  UNION { { at \in CeilTo(g.start, step) .. (g.end - dur) : at % step = 0 } : g \in ToSet(gaps) }
=============================================================================
