----------------------------- MODULE GanttChart -----------------------------
(***************************************************************************)
(* The workspace's views of one project: the chart (GanttView.tsx over         *)
(* ganttModel.ts), its legend and the panel of the last change                *)
(* (ChangeSummary.tsx), while the backend's answers replace the project and    *)
(* its change set under them.                                                *)
(*                                                                          *)
(* The plan shown need not be the one its change set leads to: others change   *)
(* the project between a change and the read that answers it, and a conflict   *)
(* replaces the project alone, also by an older plan or by that of a project   *)
(* left behind, whose answer comes late (App.tsx:435, module AppSession).      *)
(* No operation removes a task, and two projects share none.                  *)
(*                                                                          *)
(* Left out: the task hovered or selected, month labels, tooltips, wording.    *)
(***************************************************************************)
EXTENDS ChangeView, GanttGeometry

CONSTANT Plans     \* the plans, of one project or of several, without their dates

ASSUME PlansAssumption ==
  \A p \in Plans :
    /\ IsFiniteSet(p.tasks) /\ p.tasks # {} /\ Schedulable(p)
    /\ \A t \in p.tasks : p.pos[t] \in Int
    /\ \A t, u \in p.tasks : p.pos[t] = p.pos[u] => t = u

VARIABLES
  project,            \* the plan shown
  changeSet,          \* the change set highlighted
  highlightsVisible,  \* the switch of the legend
  turn                \* history: the change it tells of, the plan it came with, and
                      \* the one on the page when it was asked for; nobody's when
                      \* the page has no change set

vars == <<project, changeSet, highlightsVisible, turn>>

Projects == {Dated(p) : p \in Plans}

NoChangeSet ==
  [byTask |-> <<>>, modified |-> <<>>, created |-> {}, derived |-> <<>>, links |-> {},
   previousSchedule |-> <<>>, release |-> {}]

Nobody == [by |-> "nobody", previous |-> <<>>, before |-> <<>>, after |-> <<>>, shown |-> <<>>]

Init ==
  /\ project \in Projects
  /\ changeSet = NoChangeSet /\ highlightsVisible = TRUE /\ turn = Nobody

Grown(p) == {q \in Projects : p.tasks \subseteq q.tasks}

(* The bound: one change for each project loaded, or since an answer without a  *)
(* summary.                                                                 *)
MayTurn == turn = Nobody

(* The plan the page held when it sent a message: the one the message changed,  *)
(* or that of a project whose late load it had stored.                        *)
MayPrecede(previous, before) == previous = before \/ previous.tasks \cap before.tasks = {}

(* The backend applies a message and reads the project again for its answer;    *)
(* meanwhile the page may have come to show any other plan.                   *)
ServerTurn ==
  /\ MayTurn
  /\ \E before, previous \in Projects : MayPrecede(previous, before) /\
     \E after \in Grown(before) : \E shown \in Grown(after) :
       /\ changeSet' = AdaptServerChangeSummary(
                         ComputeChangeSummary(before, after), previous, shown)
       /\ turn' = [by |-> "server", previous |-> previous, before |-> before,
                   after |-> after, shown |-> shown]
       /\ project' = shown
  /\ UNCHANGED highlightsVisible

(* An answer may come without a summary. *)
UnexplainedTurn ==
  /\ project' \in Projects
  /\ changeSet' = NoChangeSet /\ turn' = Nobody
  /\ UNCHANGED highlightsVisible

(* Without a backend the page has the two plans and compares them itself. *)
MockTurn ==
  /\ MayTurn
  /\ \E after \in Grown(project) :
       /\ changeSet' = ComputeChangeSet(project, after)
       /\ turn' = [by |-> "mock", previous |-> project, before |-> project,
                   after |-> after, shown |-> after]
       /\ project' = after
  /\ UNCHANGED highlightsVisible

(* After a conflict the project of the message is read again, which may be one   *)
(* left behind since, and the change set is kept.                            *)
Refetch ==
  /\ project' \in Projects
  /\ UNCHANGED <<changeSet, highlightsVisible, turn>>

(* The button is in the legend, which is there while there is a change set, one  *)
(* that lists nothing included.                                             *)
ToggleHighlights ==
  /\ turn # Nobody
  /\ highlightsVisible' = ~highlightsVisible
  /\ UNCHANGED <<project, changeSet, turn>>

(* Another file is imported: the chart is mounted anew. *)
ShowAnother ==
  /\ project' \in Projects
  /\ changeSet' = NoChangeSet /\ highlightsVisible' = TRUE /\ turn' = Nobody

Next ==
  ServerTurn \/ UnexplainedTurn \/ MockTurn \/ Refetch \/ ToggleHighlights \/ ShowAnother

Spec == Init /\ [][Next]_vars

-----------------------------------------------------------------------------
(* The chart's columns and rows (buildGanttModel).                            *)

(* The days the chart must reach: those of its tasks and of their ghosts. *)
TasksOnly(p, cs) ==                             \* a bug: the ghosts are forgotten
  UNION {{p.begins[t], p.ends[t]} : t \in p.tasks}

RangeSource(p, cs) ==
  (UNION {{p.begins[t], p.ends[t]} : t \in p.tasks})
  \cup UNION {{s.start, s.end} : s \in {cs.previousSchedule[t] : t \in DOMAIN cs.previousSchedule}}

Monday(day)  == day - (day % 7)
Friday(day)  == Monday(day) + 4      \* of a workday's week

TrailingPaddingDays == 3

(* The workdays from a Monday to a Friday, three at least after the last day. *)
BuildColumns(dates) ==
  LET first == CHOOSE d \in dates : \A e \in dates : d <= e
      last  == CHOOSE d \in dates : \A e \in dates : e <= d
  IN  {day \in Monday(first) .. Friday(AddWorkdays(last, TrailingPaddingDays)) : ~IsWeekend(day)}

Column(days, day) == Cardinality({d \in days : d < day})

(* The column of a day or of the first day after it that has one; the search   *)
(* gives up after two weeks, at the first column.                             *)
ColumnFor(days, day) ==
  IF days \cap day .. day + 13 = {} THEN 0 ELSE Column(days, day)

(* The bar over the days from start to end, in a row. *)
BarOver(days, row, start, end) ==
  LET first == ColumnFor(days, start)
      span  == ColumnFor(days, end) - first + 1
  IN  [row |-> row, start |-> first, span |-> IF span < 1 THEN 1 ELSE span]

RowIndex(p, t) == Cardinality({u \in p.tasks : p.pos[u] < p.pos[t]})

Days == BuildColumns(RangeSource(project, changeSet))

Bar(t) == BarOver(Days, RowIndex(project, t), project.begins[t], project.ends[t])

Bars == [t \in project.tasks |-> Bar(t)]

(* The outline where the bar stood before the change. *)
Ghosts ==
  LET was == changeSet.previousSchedule IN
  [t \in project.tasks \cap DOMAIN was |->
     BarOver(Days, RowIndex(project, t), was[t].start, was[t].end)]

(* The arrow of the n-th predecessor listed by a task, marked when its edge is new. *)
Arrow(t, n) ==
  LET added == [source |-> project.preds[t][n], target |-> t, kind |-> "added"] IN
  [source |-> project.preds[t][n], target |-> t, nth |-> n,
   kind |-> IF added \in changeSet.links THEN "added" ELSE "normal"]

(* The arrows: one for each place in a list of predecessors and one for each edge *)
(* removed.  (An id listed twice has two, one upon the other and under one key.)  *)
Links ==
  (UNION {{Arrow(t, n) : n \in DOMAIN project.preds[t]} : t \in project.tasks})
  \cup {[source |-> l.source, target |-> l.target, nth |-> 0, kind |-> "removed"]
          : l \in {k \in changeSet.links :
                   k.kind = "removed" /\ {k.source, k.target} \subseteq project.tasks}}

-----------------------------------------------------------------------------
(* What is marked: in the rows, in the legend and in the panel.               *)

ChangeTypes == {"direct", "created", "derived"}

(* The mark of a row and of its bar, and whether its outline is drawn. *)
Mark(t) ==
  IF highlightsVisible /\ t \in DOMAIN changeSet.byTask THEN changeSet.byTask[t] ELSE "none"

MarkedRows(type) == Cardinality({t \in project.tasks : Mark(t) = type})

ChangeCounts(type) ==
  Cardinality({t \in DOMAIN changeSet.byTask : changeSet.byTask[t] = type})

(* The three sections of the panel, each under the number of its entries. *)
PanelCounts ==
  [direct  |-> Cardinality(DOMAIN changeSet.modified),
   created |-> Cardinality(changeSet.created),
   derived |-> Cardinality(DOMAIN changeSet.derived)]

-----------------------------------------------------------------------------
NoRepeats(p) ==
  \A t \in p.tasks : Len(p.preds[t]) = Cardinality(PredsOf(p, t))

(* "This file only adapts" what "could disagree" if found again                *)
(* (serverChangeSummaryAdapter.ts:7): the backend's summary, adapted, is the    *)
(* change set the page would find by comparing the two plans, in every class,  *)
(* label and shift; but the old dates of a task changed directly are unknown,  *)
(* and the release is that of the plans the page held before and holds now.    *)
(* Lists of predecessors that repeat an id are compared differently.          *)
SummariesAgree ==
  turn.by = "server" /\ NoRepeats(turn.before) /\ NoRepeats(turn.after) =>
    LET found == ComputeChangeSet(turn.before, turn.after) IN
      /\ \A part \in {"byTask", "modified", "created", "derived", "links"} :
           changeSet[part] = found[part]
      /\ turn.previous = turn.before /\ turn.shown = turn.after =>
           changeSet.release = found.release
      /\ changeSet.previousSchedule =
           [t \in DOMAIN found.derived |-> found.previousSchedule[t]]

(* One change, three places: each section of the panel lists as many tasks as   *)
(* the legend counts, whatever plan is shown; and the chart marks as many while  *)
(* the plan is a later one of the project changed.  (Under an older plan, or the *)
(* plan of a project left behind, the legend counts tasks the chart has not.)  *)
CountsAgree ==
  \A type \in ChangeTypes :
    /\ PanelCounts[type] = ChangeCounts(type)
    /\ highlightsVisible /\ (turn = Nobody \/ project \in Grown(turn.after)) =>
         MarkedRows(type) = ChangeCounts(type)

(* The columns a bar covers. *)
Covered(b) ==
  {day \in Days : Column(Days, day) \in b.start .. b.start + b.span - 1}

Workdays(start, end) == {day \in start .. end : ~IsWeekend(day)}

(* Every bar and every outline covers the workdays of its task, and its         *)
(* duration in columns; every week has five columns; rows are the tasks; and    *)
(* with the plan its change set leads to, no edge is drawn both as kept and as   *)
(* removed, and none has two arrows unless a list repeats an id.               *)
ChartShowsPlan ==
  /\ \A t \in project.tasks :
       /\ Covered(Bars[t]) = Workdays(project.begins[t], project.ends[t])
       /\ Bars[t].span = project.dur[t]
  /\ \A t \in DOMAIN Ghosts :
       LET was == changeSet.previousSchedule[t] IN Covered(Ghosts[t]) = Workdays(was.start, was.end)
  /\ \A day \in Days : Monday(day) \in Days /\ Column(Days, Monday(day)) % 5 = 0
  /\ {Bars[t].row : t \in project.tasks} = 0 .. Cardinality(project.tasks) - 1
  /\ project = turn.after =>
       \A l, m \in Links : l.source = m.source /\ l.target = m.target =>
         l.kind = m.kind /\ (NoRepeats(project) => l = m)

(* Arrows "never run along a bar" (ganttGeometry.ts:48), that of a dependency   *)
(* which is no longer one included, and never cross a bar they join; and the    *)
(* arrow of a dependency goes on to the right, or at most two pixels back.      *)
RoutesClear ==
  \A l \in Links :
    LET source == Bars[l.source]
        target == Bars[l.target]
    IN  /\ RouteIsClear(source, target, {Bars[t] : t \in project.tasks})
        /\ l.kind # "removed" => EndsAt(target) >= LeavesAt(source) - 2

=============================================================================
