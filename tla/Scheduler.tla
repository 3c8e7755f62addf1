----------------------------- MODULE Scheduler ------------------------------
(***************************************************************************)
(* compute_schedule of scheduler/engine.py: Kahn's algorithm with the        *)
(* display order as tie-breaker, then one placement per task in that order.  *)
(* A behaviour is one call on one project.  The ready list, kept sorted by    *)
(* display_order in the code, is a set from which the least is taken.        *)
(***************************************************************************)
EXTENDS Scheduling

CONSTANTS
  Id,        \* task ids, those of other projects included
  Projects,  \* the projects the function may be called with
  Horizon    \* the days over which schedules are compared

ASSUME ProjectsAssumption ==
  \A p \in Projects :
    /\ IsFiniteSet(p.tasks)
    /\ p.pos \in [p.tasks -> Nat]
    /\ \A t, u \in p.tasks : p.pos[t] = p.pos[u] => t = u
    /\ p.preds \in [p.tasks -> Seq(Id)]
    /\ p.dur \in [p.tasks -> Nat \ {0}]
    /\ p.snb \in [p.tasks -> Int \cup {NoDate}]
    /\ p.start \in Int

ASSUME HorizonAssumption == Horizon \subseteq Int

VARIABLES
  project,   \* the argument
  phase,     \* "order", "place", then "done", "cycle" or "unknown"
  inDegree,  \* in_degree of _topological_order
  ready,     \* its ready list
  order,     \* its result
  next,      \* position in order of the next task to place
  start,     \* computed_start
  end,       \* computed_end
  warned     \* tasks for which START_NOT_BEFORE_NORMALIZED is reported

vars == <<project, phase, inDegree, ready, order, next, start, end, warned>>

Tasks == project.tasks
Preds(t) == PredsOf(project, t)

(* The positions of u among the predecessors of t: u is counted once for     *)
(* each time it is listed.                                                   *)
Listed(t, u) == {i \in DOMAIN project.preds[t] : project.preds[t][i] = u}

Ordered == {order[i] : i \in DOMAIN order}

-----------------------------------------------------------------------------
(* in_degree before the loop: the length of predecessor_ids. *)
InitialInDegree(t) == Len(project.preds[t])

Init ==
  /\ project \in Projects
  /\ phase = IF \A t \in Tasks : Preds(t) \subseteq Tasks THEN "order" ELSE "unknown"
  /\ inDegree = [t \in Tasks |-> InitialInDegree(t)]
  /\ ready = {t \in Tasks : inDegree[t] = 0}
  /\ order = <<>> /\ next = 1
  /\ start = [t \in Tasks |-> NoDate]
  /\ end = [t \in Tasks |-> NoDate]
  /\ warned = {}

(* What one turn of the loop takes off the in_degree of t. *)
ListedOnce(t, u) == IF u \in Preds(t) THEN 1 ELSE 0     \* a bug: repeats forgotten
TimesListed(t, u) == Cardinality(Listed(t, u))

(* The tie-breaker: current stands highest in the table of the ready tasks.   *)
AnyReady(current) == TRUE                                \* a bug: no order
HighestReady(current) == \A t \in ready : project.pos[current] <= project.pos[t]

(* One turn of the while loop: the ready task that stands highest in the     *)
(* table is ordered, and its successors wait for one task less.              *)
PopReady ==
  /\ phase = "order"
  /\ \E current \in ready :
       /\ HighestReady(current)
       /\ order' = Append(order, current)
       /\ inDegree' = [t \in Tasks |-> inDegree[t] - TimesListed(t, current)]
       /\ ready' = (ready \ {current})
            \cup {t \in Tasks : Listed(t, current) # {} /\ inDegree'[t] = 0}
  /\ UNCHANGED <<project, phase, next, start, end, warned>>

NothingChecked == TRUE                                   \* a bug: cycles unseen
AllOrdered == Len(order) = Cardinality(Tasks)

(* A bug FinishOrder must not have: a loop that waits until all are ordered.  *)
FinishWhenAllOrdered ==
  /\ phase = "order" /\ AllOrdered
  /\ phase' = "place"
  /\ UNCHANGED <<project, inDegree, ready, order, next, start, end, warned>>

(* The loop is over: some task could not be ordered, or all were. *)
FinishOrder ==
  /\ phase = "order" /\ ready = {}
  /\ phase' = IF AllOrdered THEN "place" ELSE "cycle"
  /\ UNCHANGED <<project, inDegree, ready, order, next, start, end, warned>>

(* The predecessors that end last; a bug: those that end first. *)
FirstPreds(t) == {q \in Preds(t) : \A r \in Preds(t) : end[q] <= end[r]}
LastPreds(t)  == {q \in Preds(t) : \A r \in Preds(t) : end[r] <= end[q]}

(* The first workday after the latest predecessor's end, the project's first *)
(* workday when there is no predecessor: a set of one day.                   *)
EarliestStarts(t) ==
  IF Preds(t) = {}
    THEN {NextWorkday(project.start)}
    ELSE {FirstWorkdayAfter(end[q]) : q \in LastPreds(t)}

(* The warnings that placing t adds. *)
NoWarning(t) == {}                                       \* a bug: moved silently
WarnedFor(t) ==
  {u \in {t} : project.snb[u] # NoDate /\ NextWorkday(project.snb[u]) # project.snb[u]}

PlaceTask ==
  /\ phase = "place" /\ next <= Len(order)
  /\ LET t == order[next] IN
       \E earliest \in EarliestStarts(t) :
         /\ start' = [start EXCEPT ![t] = NotBefore(project, t, earliest)]
         /\ end' = [end EXCEPT ![t] = EndFor(project, t, NotBefore(project, t, earliest))]
         /\ warned' = warned \cup WarnedFor(t)
  /\ next' = next + 1
  /\ UNCHANGED <<project, phase, inDegree, ready, order>>

Finish ==
  /\ phase = "place" /\ next > Len(order)
  /\ phase' = "done"
  /\ UNCHANGED <<project, inDegree, ready, order, next, start, end, warned>>

Next == PopReady \/ FinishOrder \/ PlaceTask \/ Finish

Spec     == Init /\ [][Next]_vars
FairSpec == Spec /\ WF_vars(Next)

-----------------------------------------------------------------------------
TypeOK ==
  /\ project \in Projects
  /\ phase \in {"order", "place", "done", "cycle", "unknown"}
  /\ inDegree \in [Tasks -> Nat]
  /\ ready \subseteq Tasks
  /\ order \in Seq(Tasks)
  /\ next \in 1 .. Len(order) + 1
  /\ start \in [Tasks -> Int \cup {NoDate}]
  /\ end \in [Tasks -> Int \cup {NoDate}]
  /\ warned \subseteq Tasks

(* The dates of a finished schedule are legal: every task starts and ends on *)
(* a workday, not before the project nor its start_not_before, and after the *)
(* end of every predecessor, also when one is listed twice.                  *)
ScheduleFeasible ==
  phase = "done" =>
    /\ Feasible(project, start)
    /\ \A t \in Tasks : end[t] = EndFor(project, t, start[t]) /\ ~IsWeekend(end[t])

(* No task waits longer than it must: any other legal choice of start dates   *)
(* starts every task on the same day or later.                               *)
NoEarlierSchedule ==
  phase = "done" =>
    \A s \in [Tasks -> Horizon] :
      Feasible(project, s) => \A t \in Tasks : start[t] <= s[t]

(* A cycle is reported exactly when there is one, and the tasks the error     *)
(* names are all those, and only those, that a cycle keeps from starting.     *)
CycleVerdict ==
  /\ phase = "cycle" =>
       LET unresolved == Tasks \ Ordered IN
         /\ unresolved # {} /\ WaitsOnItself(project, unresolved)
         /\ \A S \in SUBSET Tasks : WaitsOnItself(project, S) => S \subseteq unresolved
  /\ phase \in {"place", "done"} => Acyclic(project)

(* The tie-breaker: a task is ordered before one that stands higher in the    *)
(* table only if that one was still waiting for a task not ordered earlier.   *)
TableOrder ==
  \A i, j \in DOMAIN order :
    i < j /\ project.pos[order[j]] < project.pos[order[i]] =>
      \E k \in i .. j - 1 : order[k] \in Preds(order[j])

(* A start later than the user's start_not_before is never silent: it is the    *)
(* first day the project, or else a predecessor, leaves free, or the task has a  *)
(* warning and starts on the workday next to the weekend day asked for.  And a   *)
(* weekend day always has its warning, no other task has one.                  *)
NoSilentDelay ==
  phase = "done" =>
    \A t \in Tasks :
      LET snb == project.snb[t] IN
        /\ t \in warned <=> snb # NoDate /\ IsWeekend(snb)
        /\ snb # NoDate /\ snb < start[t] =>
             \/ Preds(t) = {} /\ start[t] = NextWorkday(project.start)
             \/ \E q \in Preds(t) : start[t] = FirstWorkdayAfter(end[q])
             \/ t \in warned /\ start[t] = NextWorkday(snb)

(* The algorithm and the functions of module Scheduling agree.               *)
ComputesStartDates == phase = "done" => start = StartDates(project)

(* The ordering loop, between two iterations: in_degree counts the listed      *)
(* predecessors that are not ordered yet, ready holds the tasks that wait for *)
(* none, and no task of a set that waits on itself has been ordered.          *)
Waiting(t) == {i \in DOMAIN project.preds[t] : project.preds[t][i] \notin Ordered}

OrderInv ==
  /\ phase # "unknown" => \A t \in Tasks : Preds(t) \subseteq Tasks
  /\ \A i, j \in DOMAIN order : order[i] = order[j] => i = j
  /\ Cardinality(Ordered) = Len(order)
  /\ \A t \in Tasks : inDegree[t] = Cardinality(Waiting(t))
  /\ ready = {t \in Tasks \ Ordered : Waiting(t) = {}}
  /\ \A j \in DOMAIN order : \A q \in Preds(order[j]) : \E i \in 1 .. j - 1 : order[i] = q
  /\ \A S \in SUBSET Tasks : WaitsOnItself(project, S) => S \cap Ordered = {}
  /\ \A i \in DOMAIN order, t \in Tasks :
       project.pos[t] < project.pos[order[i]] =>
         \/ \E k \in 1 .. i - 1 : order[k] = t
         \/ \E q \in Preds(t) : \A k \in 1 .. i - 1 : order[k] # q
  /\ phase = "order" => next = 1
  /\ phase = "cycle" => ready = {} /\ Len(order) # Cardinality(Tasks)
  /\ phase \in {"place", "done"} => Len(order) = Cardinality(Tasks)
  /\ phase = "done" => next = Len(order) + 1

(* The placing loop: each task already placed stands where the recursive      *)
(* definition of StartDates puts it, given the starts of its predecessors,     *)
(* and the warnings it earned are reported, and none that no task earned.      *)
PlaceInv ==
  /\ \A t \in warned : t \in WarnedFor(t)
  /\ phase \in {"place", "done"} =>
       \A i \in 1 .. next - 1 :
         LET t == order[i] IN
           /\ start[t] = NotBefore(project, t, EarliestStart(project, t, start))
           /\ start[t] \in Int /\ ~IsWeekend(start[t])
           /\ end[t] = EndFor(project, t, start[t])
           /\ WarnedFor(t) \subseteq warned

(* Every call returns or raises: no task is waited for that was never ready.  *)
CallEnds == <>(phase \in {"done", "cycle", "unknown"})

=============================================================================
