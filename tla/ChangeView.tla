------------------------------ MODULE ChangeView ------------------------------
(***************************************************************************)
(* What changed between two versions of a project, told three times over:     *)
(* domain/diff.py makes the summary the chat endpoint sends, the page turns    *)
(* that into its change set (serverChangeSummaryAdapter.ts), and without a     *)
(* backend it finds the change set itself from the two versions (lib/diff.ts). *)
(*                                                                          *)
(* A project p here is one the page is given: a project of module Scheduling   *)
(* with, of each task, p.text (name, description and assignee together) and    *)
(* its dates p.begins and p.ends.  Lists of changes, all in display order, are *)
(* sets and functions of the task.                                           *)
(***************************************************************************)
EXTENDS Scheduling

(* The page's copy of a project: the dates are the backend's. *)
Dated(p) ==
  LET begins == StartDates(p) IN
  [tasks |-> p.tasks, pos |-> p.pos, preds |-> p.preds, dur |-> p.dur, snb |-> p.snb,
   text |-> p.text, begins |-> begins, ends |-> [t \in p.tasks |-> EndFor(p, t, begins[t])]]

Kept(before, after)    == after.tasks \cap before.tasks
Created(before, after) == after.tasks \ before.tasks

(* The tasks whose dates are not what they were. *)
Moved(before, after) ==
  {t \in Kept(before, after) :
     before.begins[t] # after.begins[t] \/ before.ends[t] # after.ends[t]}

Edges(p) == UNION {{<<q, t>> : q \in PredsOf(p, t)} : t \in p.tasks}

(* The edges added, and those removed between tasks that are still there. *)
LinkChanges(before, after) ==
  LET changes(edges, kind) == {[source |-> e[1], target |-> e[2], kind |-> kind] : e \in edges}
  IN  changes(Edges(after) \ Edges(before), "added")
      \cup changes({e \in Edges(before) \ Edges(after) : {e[1], e[2]} \subseteq after.tasks},
                   "removed")

(* What a list gets when a condition holds. *)
If(condition, items) == IF condition THEN items ELSE {}

-----------------------------------------------------------------------------
(* The backend's summary (diff.py).                                          *)

ForgetsConstraint(before, after, t) ==          \* a bug: start_not_before not compared
  If(before.text[t] # after.text[t], {"text"})
  \cup If(before.dur[t] # after.dur[t], {"duration_workdays"})
  \cup If(PredsOf(before, t) # PredsOf(after, t), {"predecessor_ids"})

FieldsChanged(before, after, t) ==
  If(before.text[t] # after.text[t], {"text"})
  \cup If(before.dur[t] # after.dur[t], {"duration_workdays"})
  \cup If(PredsOf(before, t) # PredsOf(after, t), {"predecessor_ids"})
  \cup If(before.snb[t] # after.snb[t], {"start_not_before"})

DirectlyChanged(before, after) ==
  {t \in Kept(before, after) : FieldsChanged(before, after, t) # {}}

AllMoved(before, after) == Moved(before, after) \* a bug: no continue after a direct change

(* Only the tasks that moved and were not changed themselves are listed. *)
DerivedOnly(before, after) == Moved(before, after) \ DirectlyChanged(before, after)

ComputeChangeSummary(before, after) ==
  [direct_changes |->
     [t \in DirectlyChanged(before, after) |-> FieldsChanged(before, after, t)],
   created_tasks |-> Created(before, after),
   dependency_changes |-> LinkChanges(before, after),
   derived_schedule_changes |->
     [t \in DerivedOnly(before, after) |->
        [start |-> before.begins[t], end |-> before.ends[t],
         workday_shift |-> WorkdaysBetween(before.ends[t], after.ends[t])]]]

-----------------------------------------------------------------------------
(* Reading two versions on the page (lib/diff.ts, lib/date.ts).               *)

(* The loop over the days between, counting the working ones. *)
WorkdaysFromTo(from, to) ==
  LET passed(first, last) == Cardinality({day \in first + 1 .. last : ~IsWeekend(day)})
  IN  IF from <= to THEN passed(from, to) ELSE -passed(to, from)

(* The release is the end of the task that ends last, the first such task. *)
LastTask(p) ==
  CHOOSE t \in p.tasks : \A u \in p.tasks :
    \/ p.ends[u] < p.ends[t]
    \/ p.ends[u] = p.ends[t] /\ p.pos[t] <= p.pos[u]

ReleaseDate(p) == p.ends[LastTask(p)]

ReleaseImpact(before, after) ==
  If(ReleaseDate(before) # ReleaseDate(after),
     {[task |-> LastTask(after), before |-> ReleaseDate(before), after |-> ReleaseDate(after),
       shift |-> WorkdaysFromTo(ReleaseDate(before), ReleaseDate(after))]})

(* Two lists of ids compared by length and inclusion: the same set only when   *)
(* neither list repeats an id.                                               *)
SameIdSet(a, b) ==
  /\ Len(a) = Len(b)
  /\ {b[i] : i \in DOMAIN b} \subseteq {a[i] : i \in DOMAIN a}

(* The effort is the duration in hours, and is listed with it. *)
FieldDeltas(before, after, t) ==
  If(before.dur[t] # after.dur[t], {"duration", "effort"})
  \cup If(before.text[t] # after.text[t], {"text"})
  \cup If(~SameIdSet(before.preds[t], after.preds[t]), {"predecessors"})
  \cup If(before.snb[t] # after.snb[t], {"notBefore"})

ComputeChangeSet(before, after) ==
  LET modified == {t \in Kept(before, after) : FieldDeltas(before, after, t) # {}}
      created  == Created(before, after)
      derived  == Moved(before, after) \ modified
  IN  [byTask |-> [t \in created \cup modified \cup derived |->
         CASE t \in created  -> "created"
           [] t \in modified -> "direct"
           [] OTHER          -> "derived"],
       modified |-> [t \in modified |-> FieldDeltas(before, after, t)],
       created |-> created,
       derived |-> [t \in derived |-> WorkdaysFromTo(before.ends[t], after.ends[t])],
       links |-> LinkChanges(before, after),
       previousSchedule |-> [t \in Moved(before, after) |->
         [start |-> before.begins[t], end |-> before.ends[t]]],
       release |-> ReleaseImpact(before, after)]

-----------------------------------------------------------------------------
(* The adapter: the backend's classes and dates, the page's names.            *)

FormatFieldDelta(field) ==
  CASE field = "duration_workdays" -> {"duration", "effort"}
    [] field = "predecessor_ids"   -> {"predecessors"}
    [] field = "start_not_before"  -> {"notBefore"}
    [] field = "text"              -> {"text"}

(* The old dates are known for the tasks the summary lists as moved.  The      *)
(* release is compared by the page, on the projects it holds.                *)
AdaptServerChangeSummary(summary, previous, next) ==
  LET direct  == summary.direct_changes
      derived == summary.derived_schedule_changes
      moved   == DOMAIN derived
  IN  [byTask |-> [t \in summary.created_tasks \cup DOMAIN direct \cup moved |->
         CASE t \in summary.created_tasks -> "created"
           [] t \in DOMAIN direct         -> "direct"
           [] OTHER                       -> "derived"],
       modified |-> [t \in DOMAIN direct |-> UNION {FormatFieldDelta(f) : f \in direct[t]}],
       created |-> summary.created_tasks,
       derived |-> [t \in moved |-> derived[t].workday_shift],
       links |-> summary.dependency_changes,
       previousSchedule |-> [t \in moved |->
         [start |-> derived[t].start, end |-> derived[t].end]],
       release |-> ReleaseImpact(previous, next)]

=============================================================================
