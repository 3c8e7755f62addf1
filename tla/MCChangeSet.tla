---------------------------- MODULE MCChangeSet -----------------------------
(***************************************************************************)
(* Three tasks in the shapes whose change sets differ: c after both a and b,  *)
(* of different lengths, a listed twice as create_task lets it be; and the     *)
(* chain a, b, c with b held back to a Tuesday.                              *)
(***************************************************************************)
EXTENDS ChangeSet

CONSTANTS a, b, c, n, stranger, nobody, someone, none, bad

Three == {a, b, c}

Unscheduled(preds, snb) ==
  [tasks |-> Three, list |-> <<a, b, c>>,
   name |-> [t \in Three |-> t], assignee |-> [t \in Three |-> nobody],
   dur |-> [t \in Three |-> IF t = b THEN 2 ELSE 1],
   preds |-> preds, snb |-> snb, start |-> 3, revision |-> 1,
   begin |-> [t \in Three |-> PlaceholderDate], end |-> [t \in Three |-> PlaceholderDate]]

Join  == Scheduled(Unscheduled(
           [t \in Three |-> IF t = c THEN <<a, b, a>> ELSE <<>>], [t \in Three |-> NoDate]))
Chain == Scheduled(Unscheduled(
           [t \in Three |-> CASE t = a -> <<>> [] t = b -> <<a>> [] t = c -> <<b>>],
           [t \in Three |-> IF t = b THEN 8 ELSE NoDate]))

MCInitialProjects == {Join, Chain}
MCNewIds    == {n}
MCNames     == {a, n}
MCAssignees == {someone}
MCAmounts   == {1, 2}
MCMoves     == {-1, 2}
MCDates     == {5}
=============================================================================
