----------------------------- MODULE Scheduling -----------------------------
(***************************************************************************)
(* What a schedule of a project is: the input of compute_schedule           *)
(* (scheduler/engine.py) and the dates it assigns, as functions of that      *)
(* input.  Module Scheduler runs the algorithm; module ChangeSet uses the    *)
(* functions.                                                               *)
(*                                                                          *)
(* A project p is a record with at least                                    *)
(*   p.tasks   the set of task ids,                                         *)
(*   p.pos     display_order of each task, no two alike (import numbers the *)
(*             rows, changeset_ops._renumber renumbers the list),           *)
(*   p.preds   predecessor_ids of each task, a sequence that may repeat,    *)
(*   p.dur     duration_workdays, at least 1,                               *)
(*   p.snb     start_not_before, a day or NoDate,                           *)
(*   p.start   project_start_date.                                          *)
(***************************************************************************)
EXTENDS Calendar, Sequences, FiniteSets

CONSTANT NoDate              \* Python's None in place of a date

ASSUME NoDateAssumption == NoDate \notin Int

PredsOf(p, t) == {p.preds[t][i] : i \in DOMAIN p.preds[t]}

(* Every task of S waits for another task of S: none of them can ever start. *)
WaitsOnItself(p, S) == \A t \in S : PredsOf(p, t) \cap S # {}

Acyclic(p) == \A S \in SUBSET p.tasks : S # {} => ~WaitsOnItself(p, S)

(* The projects compute_schedule gives dates to: it raises for an unknown     *)
(* predecessor and for a cycle.                                              *)
Schedulable(p) ==
  /\ \A t \in p.tasks :
       /\ p.preds[t] \in Seq(p.tasks)
       /\ p.dur[t] \in Nat \ {0}
       /\ p.snb[t] \in Int \cup {NoDate}
  /\ p.start \in Int
  /\ Acyclic(p)

(* The earliest start that a task's start_not_before leaves it. *)
NotBefore(p, t, earliest) ==
  IF p.snb[t] = NoDate \/ NextWorkday(p.snb[t]) <= earliest
    THEN earliest
    ELSE NextWorkday(p.snb[t])

EndFor(p, t, start) == AddWorkdays(start, p.dur[t] - 1)

(* Dates s that a plan may have: on workdays, not before the project's start *)
(* nor the task's own constraint, each task after the end of each of its      *)
(* predecessors (Finish-to-Start).                                           *)
Feasible(p, s) ==
  \A t \in p.tasks :
    /\ ~IsWeekend(s[t])
    /\ NextWorkday(p.start) <= s[t]
    /\ p.snb[t] # NoDate => p.snb[t] <= s[t]
    /\ \A q \in PredsOf(p, t) : EndFor(p, q, s[q]) < s[t]

(* A bug LatestEnd must not have: min in place of max. *)
EarliestEnd(ends) == CHOOSE e \in ends : \A f \in ends : e <= f

LatestEnd(ends) == CHOOSE e \in ends : \A f \in ends : f <= e

(* The start that the starts s of the predecessors leave a task. *)
EarliestStart(p, t, s) ==
  IF PredsOf(p, t) = {}
    THEN NextWorkday(p.start)
    ELSE FirstWorkdayAfter(LatestEnd({EndFor(p, q, s[q]) : q \in PredsOf(p, t)}))

(* The start dates compute_schedule assigns to an acyclic project. *)
StartDates(p) ==
  LET start[t \in p.tasks] == NotBefore(p, t, EarliestStart(p, t, start))
  IN  start

EndDates(p) ==
  LET start == StartDates(p) IN [t \in p.tasks |-> EndFor(p, t, start[t])]

=============================================================================
