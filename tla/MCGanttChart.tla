---------------------------- MODULE MCGanttChart ----------------------------
(***************************************************************************)
(* Plans of two tasks and of three, the third above the second or below it.    *)
(* The project starts on a Thursday, so that most bars meet a weekend; the     *)
(* first task takes a day or four; the second may wait for the first, for it   *)
(* twice over, for the third or for both, and until a Sunday two weeks on; the *)
(* first is renamed when the second has two predecessors.  One plan is that of  *)
(* another project, with two tasks of its own.                               *)
(***************************************************************************)
EXTENDS GanttChart

Plan(tasks, pos, dur1, preds2, preds3, snb2) ==
  [tasks |-> tasks, pos |-> pos, start |-> 3,
   text |-> [t \in tasks |-> IF t = 1 /\ Len(preds2) = 2 THEN "renamed" ELSE "named"],
   dur |-> [t \in tasks |-> IF t = 1 THEN dur1 ELSE IF t = 2 THEN 2 ELSE 1],
   preds |-> [t \in tasks |-> IF t = 2 THEN preds2 ELSE IF t = 3 THEN preds3 ELSE <<>>],
   snb |-> [t \in tasks |-> IF t = 2 THEN snb2 ELSE NoDate]]

Another ==
  [tasks |-> {4, 5}, pos |-> [t \in {4, 5} |-> t], start |-> 3,
   text |-> [t \in {4, 5} |-> "named"], dur |-> [t \in {4, 5} |-> 3],
   preds |-> [t \in {4, 5} |-> IF t = 5 THEN <<4>> ELSE <<>>],
   snb |-> [t \in {4, 5} |-> NoDate]]

MCPlans ==
  {Another}
  \cup {Plan({1, 2}, <<1, 2>>, dur1, preds2, <<>>, NoDate) :
     dur1 \in {1, 4}, preds2 \in {<<>>, <<1>>, <<1, 1>>}}
  \cup {Plan({1, 2}, <<1, 2>>, 4, preds2, <<>>, 20) : preds2 \in {<<>>, <<1>>}}
  \cup {Plan({1, 2, 3}, <<1, 3, 2>>, dur1, preds2, <<1>>, NoDate) :
     dur1 \in {1, 4}, preds2 \in {<<1>>, <<3>>, <<1, 3>>}}
  \cup {Plan({1, 2, 3}, <<1, 2, 3>>, 4, preds2, <<>>, 20) : preds2 \in {<<1>>, <<3, 1>>}}

=============================================================================
