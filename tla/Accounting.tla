----------------------------- MODULE Accounting -----------------------------
(***************************************************************************)
(* What a machine was paid for and used (internal/billing/billing.go,      *)
(* UsefulMillis, and internal/app/cost.go, CostObserver).                  *)
(***************************************************************************)
EXTENDS Billing, FiniteSetsExt

(* An interval of a lease; an end of 0 means that it is still active.      *)
Interval(start, end) == [start |-> start, end |-> end]

(* Mutant: lease times are added up, shared or not.                        *)
UsefulMillisSummed(spans, now) ==
    FoldSet(LAMBDA iv, total : total + (IF iv.end = 0 THEN now ELSE iv.end) - iv.start,
            0, spans)

(* An interval that is open, or ends later, is cut off now.                *)
Clip(iv, now) == Interval(iv.start, IF iv.end = 0 \/ iv.end > now THEN now ELSE iv.end)

(* The last interval of the sorted list: none starts later.                *)
Latest(spans) == CHOOSE iv \in spans : \A other \in spans : other.start <= iv.start

(* One turn of the merge: an interval that begins after the end of the     *)
(* current one closes it, any other may only extend it.                    *)
Merge(iv, cur) ==
    IF iv.start > cur.end
    THEN [total |-> cur.total + (cur.end - cur.start), start |-> iv.start, end |-> iv.end]
    ELSE [cur EXCEPT !.end = IF iv.end > @ THEN iv.end ELSE @]

(* Before the first interval, which all others follow.                     *)
NothingMerged == [total |-> 0, start |-> -1, end |-> -1]

(* UsefulMillis: clip the intervals, sort them by start, and merge from    *)
(* left to right those that touch (the fold takes the last interval off,   *)
(* merges the others and adds it to what that gives).                      *)
UsefulMillis(spans, now) ==
    LET cur   == MapThenFoldSet(Merge, NothingMerged, LAMBDA iv : iv, Latest,
                                {Clip(iv, now) : iv \in spans})
        total == cur.total + (cur.end - cur.start)
    IN  IF total < 0 THEN 0 ELSE total

(* Mutant: the boundary that follows the end of the delete.                *)
OverrunAfterEnd(created, p, journaled, done) ==
    LET b == NextBoundary(created, p, done)
    IN  b # NoBoundary /\ done >= b

(* The delete of a machine journaled at journaled is confirmed at done: it *)
(* is counted as an overrun when that is not before the boundary.          *)
Overrun(created, p, journaled, done) ==
    LET b == NextBoundary(created, p, journaled)
    IN  b # NoBoundary /\ done >= b

(* paid, useful and paid-but-idle time of a machine that lived till done.  *)
PaidIdle(created, p, spans, done) ==
    LET idle == Paid(done - created, p) - UsefulMillis(spans, done)
    IN  IF idle < 0 THEN 0 ELSE idle
=============================================================================
