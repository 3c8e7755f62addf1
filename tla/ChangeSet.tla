------------------------------ MODULE ChangeSet ------------------------------
(***************************************************************************)
(* services/changeset_ops.py and the mutator of ProjectService: the ten       *)
(* operations of a change set, applied one per step to a working copy of the  *)
(* project, then compute_schedule, then the project is replaced, or, when     *)
(* anything raises, nothing is.  The project store runs one mutator at a time *)
(* on a project (SnapshotIsCurrent), so one change set is in progress.        *)
(*                                                                          *)
(* The operations of a change set are chosen step by step, its client_refs    *)
(* (allotted before the first operation) at the start: it ends only when       *)
(* every one has been created.  A client_ref and the id allotted to it are    *)
(* one value.  Names are equal here when normalize_name makes them equal;     *)
(* descriptions, which no other operation looks at, are left out.             *)
(***************************************************************************)
EXTENDS Scheduling

CONSTANTS
  InitialProjects, \* scheduled projects, as an import or a change set leaves them
  NewIds,          \* client_refs, and the ids allotted to them
  Stranger,        \* an id of no task of the project
  Names, BadName,  \* names that pass _validate_name, and one that does not
  Assignees,       \* assignees, None included
  Amounts,         \* values of change_duration and durations of new tasks
  Moves,           \* offsets of move_task
  Dates,           \* dates of move_task and start_not_before
  NoTask,          \* no display_after_ref
  HoursPerWorkday, MaxDuration,
  MaxOperations,   \* bound: operations of a change set
  MaxListed,       \* bound: references in one list of an operation
  MaxRevision      \* bound: revisions of the project

(* The date of a task not scheduled yet: 2000-01-01, a Saturday.             *)
PlaceholderDate == -9501

VARIABLES
  project,    \* current, then what the mutator returns
  phase,      \* "idle" or "applying"
  tasks,      \* the working copy: the applier's tasks and by_id
  allotted,   \* client_ref_map
  operations, \* operations applied so far
  failure,    \* how the last change set ended: "none", "domain" or "internal"
  lastMove,   \* history: the task and target of the last operation, if a move_task
  relaxing    \* history: only constraints were taken away so far

vars == <<project, phase, tasks, allotted, operations, failure, lastMove, relaxing>>

NoMove == [task |-> NoTask, target |-> NoDate]

Scheduled(p) == [p EXCEPT !.begin = StartDates(p), !.end = EndDates(p)]

(* A copy w of the plan that no operation has spoilt: every task is listed    *)
(* once, its name is its own, its duration is in range, its predecessors are  *)
(* among refs, and it has dates, if only those of a task not scheduled yet.   *)
Fields == {"tasks", "list", "name", "assignee", "dur", "preds", "snb", "start",
           "revision", "begin", "end"}

Sound(w, refs) ==
  /\ w = [field \in Fields |-> w[field]]
  /\ IsFiniteSet(w.tasks) /\ NoTask \notin w.tasks
  /\ w.list \in Seq(w.tasks) /\ Len(w.list) = Cardinality(w.tasks)
  /\ \A t \in w.tasks : \E i \in DOMAIN w.list : w.list[i] = t
  /\ w.name = [t \in w.tasks |-> w.name[t]]
  /\ \A t, u \in w.tasks : w.name[t] = w.name[u] => t = u
  /\ w.dur \in [w.tasks -> 1 .. MaxDuration]
  /\ w.preds \in [w.tasks -> Seq(refs)]
  /\ w.snb \in [w.tasks -> Int \cup {NoDate}]
  /\ w.start \in Int /\ w.revision \in Nat
  /\ w.begin \in [w.tasks -> Int] /\ w.end \in [w.tasks -> Int]

(* What a store may hold: a sound plan with the dates of its schedule. *)
Plan(p) ==
  /\ Sound(p, p.tasks) /\ Acyclic(p)
  /\ p.begin = StartDates(p) /\ p.end = EndDates(p)

ASSUME InitialProjectsAssumption == \A p \in InitialProjects : Plan(p)
ASSUME BoundsAssumption == /\ Moves \subseteq Int /\ Dates \subseteq Int
                           /\ MaxDuration \in Nat /\ NoTask \notin NewIds
                           /\ MaxListed \in Nat

Init ==
  /\ project \in InitialProjects
  /\ phase = "idle" /\ tasks = project /\ allotted = {} /\ operations = 0
  /\ failure = "none" /\ lastMove = NoMove /\ relaxing = TRUE

(* Leaving the mutator: the working copy is dropped. *)
Leave(p, kind) ==
  /\ phase' = "idle" /\ project' = p /\ tasks' = p /\ failure' = kind
  /\ allotted' = {} /\ operations' = 0 /\ lastMove' = NoMove /\ relaxing' = TRUE

Reject == Leave(project, "domain")       \* a DomainError
Crash  == Leave(project, "internal")     \* a KeyError or a StopIteration

(* _preallocate_client_refs: a client_ref used twice is refused.             *)
Begin ==
  /\ phase = "idle" /\ project.revision < MaxRevision
  /\ \/ \E refs \in SUBSET (NewIds \ project.tasks) :
          /\ phase' = "applying" /\ allotted' = refs /\ failure' = "none"
          /\ UNCHANGED <<project, tasks, operations, lastMove, relaxing>>
     \/ Reject

-----------------------------------------------------------------------------
Refs == project.tasks \cup NewIds \cup {Stranger}

(* _resolve returns the id of an existing task, of a task created earlier, or *)
(* of one the change set has yet to create.                                  *)
Resolves(r) == r \in tasks.tasks \cup allotted
Exists(r)   == r \in tasks.tasks                         \* r is in by_id

Applying == phase = "applying" /\ operations < MaxOperations

Done(w, move, relaxes) ==
  /\ tasks' = w /\ operations' = operations + 1
  /\ lastMove' = move /\ relaxing' = (relaxing /\ relaxes)
  /\ UNCHANGED <<project, phase, allotted, failure>>

(* self.by_id[self._resolve(ref)], then the rest of the operation.            *)
OnTask(r, Rest) ==
  IF Exists(r) THEN Rest ELSE IF Resolves(r) THEN Crash ELSE Reject

(* A bug NameFree must not have: only the task being named is looked at. *)
OwnNameOnly(name, except) ==
  name # BadName /\ \A t \in tasks.tasks \cap {except} : tasks.name[t] = name

NameFree(name, except) ==
  name # BadName /\ \A t \in tasks.tasks \ {except} : tasks.name[t] # name

(* A field that is not given stays: renaming a task to its own name.          *)
UpdateTaskFields ==
  /\ Applying
  /\ \E r \in Refs, name \in Names \cup {BadName}, assignee \in Assignees :
       OnTask(r,
         IF NameFree(name, r)
           THEN Done([tasks EXCEPT !.name[r] = name, !.assignee[r] = assignee], NoMove, TRUE)
           ELSE Reject)

InRange(duration) == duration \in 1 .. MaxDuration

(* Whole workdays: hours that do not fill workdays are refused.              *)
ChangeDuration ==
  /\ Applying
  /\ \E r \in Refs, mode \in {"set", "add", "subtract"}, value \in Amounts,
        unit \in {"workdays", "person_hours"} :
       OnTask(r,
         LET delta == IF unit = "person_hours" THEN value \div HoursPerWorkday ELSE value
             new == CASE mode = "set"      -> delta
                      [] mode = "add"      -> tasks.dur[r] + delta
                      [] mode = "subtract" -> tasks.dur[r] - delta
         IN  IF InRange(new) /\ (unit = "person_hours" => value % HoursPerWorkday = 0)
               THEN Done([tasks EXCEPT !.dur[r] = new], NoMove, new <= tasks.dur[r])
               ELSE Reject)

(* _dependency_earliest_start, from the end dates of the last schedule.       *)
(* First a bug it must not have: the predecessors are not looked at.         *)
ProjectStart(w, r) == w.start

DependencyEarliestStart(w, r) ==
  IF PredsOf(w, r) = {}
    THEN w.start
    ELSE FirstWorkdayAfter(LatestEnd({w.end[q] : q \in PredsOf(w, r)}))

MoveTask ==
  /\ Applying
  /\ \E r \in Refs :
       OnTask(r,
         IF \E q \in PredsOf(tasks, r) : ~Exists(q) THEN Crash
         ELSE \E target \in Dates \cup {ShiftWorkdays(tasks.begin[r], n) : n \in Moves} :
                IF target < DependencyEarliestStart(tasks, r) THEN Reject
                ELSE Done([tasks EXCEPT !.snb[r] = target],
                          [task |-> r, target |-> target], FALSE))

ClearStartConstraint ==
  /\ Applying
  /\ \E r \in Refs : OnTask(r, Done([tasks EXCEPT !.snb[r] = NoDate], NoMove, TRUE))

(* _insert_after: the new task is listed behind another, or last.             *)
(* First a bug it must not have: what is listed behind the new task is lost. *)
CutOff(list, t, after) ==
  IF after = NoTask THEN Append(list, t)
  ELSE LET i == CHOOSE j \in DOMAIN list : list[j] = after
       IN  SubSeq(list, 1, i) \o <<t>>

Inserted(list, t, after) ==
  IF after = NoTask THEN Append(list, t)
  ELSE LET i == CHOOSE j \in DOMAIN list : list[j] = after
       IN  SubSeq(list, 1, i) \o <<t>> \o SubSeq(list, i + 1, Len(list))

With(f, t, v) == [u \in DOMAIN f \cup {t} |-> IF u = t THEN v ELSE f[u]]

WithTask(w, t, name, assignee, dur, preds, snb, after) ==
  [w EXCEPT !.tasks = @ \cup {t}, !.list = Inserted(@, t, after),
            !.name = With(@, t, name), !.assignee = With(@, t, assignee),
            !.dur = With(@, t, dur), !.preds = With(@, t, preds), !.snb = With(@, t, snb),
            !.begin = With(@, t, PlaceholderDate), !.end = With(@, t, PlaceholderDate)]

Lists(refs) == UNION {[1 .. n -> refs] : n \in 0 .. MaxListed}

CreateTask ==
  /\ Applying
  /\ \E t \in allotted \ tasks.tasks, name \in Names \cup {BadName}, dur \in Amounts,
        preds \in Lists(Refs), snb \in Dates \cup {NoDate}, after \in Refs \cup {NoTask} :
       IF ~NameFree(name, NoTask) \/ ~InRange(dur) \/ \E i \in DOMAIN preds : ~Resolves(preds[i])
          \/ (after # NoTask /\ ~Resolves(after))
         THEN Reject
         ELSE IF after # NoTask /\ ~Exists(after) THEN Crash
         ELSE \E assignee \in Assignees :
                Done(WithTask(tasks, t, name, assignee, dur, preds, snb, after), NoMove, FALSE)

(* A bug Replace must not have: of an id listed twice one listing is left.    *)
ReplaceFirst(list, old, new) ==
  [i \in DOMAIN list |->
     IF list[i] = old /\ \A j \in 1 .. i - 1 : list[j] # old THEN new ELSE list[i]]

Replace(list, old, new) == [i \in DOMAIN list |-> IF list[i] = old THEN new ELSE list[i]]

InsertTaskBetween ==
  /\ Applying
  /\ \E t \in allotted \ tasks.tasks, name \in Names \cup {BadName}, dur \in Amounts,
        pred \in Refs, succ \in Refs :
       IF ~Resolves(pred) THEN Reject
       ELSE OnTask(succ,
         IF pred \notin PredsOf(tasks, succ) \/ ~NameFree(name, NoTask) \/ ~InRange(dur)
           THEN Reject
         ELSE IF ~Exists(pred) THEN Crash
         ELSE \E assignee \in Assignees :
                Done([WithTask(tasks, t, name, assignee, dur, <<pred>>, NoDate, pred)
                        EXCEPT !.preds[succ] = Replace(@, pred, t)], NoMove, FALSE))

(* The items of a list that stand at the positions kept, in their order. *)
KeptAt(list, keep) ==
  LET kept[i \in 0 .. Len(list)] ==
        IF i = 0 THEN <<>>
        ELSE IF i \in keep THEN Append(kept[i - 1], list[i]) ELSE kept[i - 1]
  IN  kept[Len(list)]

(* A list without its repeats, the first of each kept. *)
Distinct(list) ==
  KeptAt(list, {i \in DOMAIN list : \A j \in DOMAIN list : list[j] = list[i] => i <= j})

(* A list without an id, however often it is listed. *)
Without(list, id) == KeptAt(list, {i \in DOMAIN list : list[i] # id})

SetPredecessors ==
  /\ Applying
  /\ \E r \in Refs, preds \in Lists(Refs) :
       OnTask(r,
         IF \E i \in DOMAIN preds : ~Resolves(preds[i]) \/ preds[i] = r
           THEN Reject
           ELSE Done([tasks EXCEPT !.preds[r] = Distinct(preds)], NoMove, FALSE))

AddDependency ==
  /\ Applying
  /\ \E pred \in Refs, succ \in Refs :
       IF ~Resolves(pred) \/ ~Resolves(succ) \/ pred = succ THEN Reject
       ELSE OnTask(succ,
         IF pred \in PredsOf(tasks, succ)
           THEN OnTask(pred, Reject)     \* the message looks its name up
           ELSE Done([tasks EXCEPT !.preds[succ] = Append(@, pred)], NoMove, FALSE))

RemoveDependency ==
  /\ Applying
  /\ \E pred \in Refs, succ \in Refs :
       IF ~Resolves(pred) THEN Reject
       ELSE OnTask(succ,
         IF pred \notin PredsOf(tasks, succ)
           THEN OnTask(pred, Reject)
           ELSE Done([tasks EXCEPT !.preds[succ] = Without(@, pred)],
                     NoMove, TRUE))

BulkSetAssignee ==
  /\ Applying
  /\ \E refs \in Lists(Refs) \ {<<>>}, assignee \in Assignees :
       IF \/ \E i \in DOMAIN refs : ~Resolves(refs[i])
          \/ \E i, j \in DOMAIN refs : i # j /\ refs[i] = refs[j]
         THEN Reject
       ELSE IF \E i \in DOMAIN refs : ~Exists(refs[i]) THEN Crash
       ELSE Done([tasks EXCEPT !.assignee =
                   [t \in DOMAIN @ |-> IF \E i \in DOMAIN refs : refs[i] = t THEN assignee ELSE @[t]]],
                 NoMove, TRUE)

(* The last operation is done: the schedule, and the new project.            *)
Commit ==
  /\ phase = "applying" /\ operations > 0 /\ allotted \subseteq tasks.tasks
  /\ IF Acyclic(tasks)
       THEN Leave([Scheduled(tasks) EXCEPT !.revision = @ + 1], "none")
       ELSE Reject

Next ==
  \/ Begin \/ UpdateTaskFields \/ ChangeDuration \/ MoveTask \/ ClearStartConstraint
  \/ CreateTask \/ InsertTaskBetween \/ SetPredecessors \/ AddDependency
  \/ RemoveDependency \/ BulkSetAssignee \/ Commit

Spec == Init /\ [][Next]_vars

-----------------------------------------------------------------------------
(* What the store holds is a valid plan whatever change sets were committed:  *)
(* every task is listed once, its name is its own, its duration is in range,  *)
(* its predecessors are tasks of the project, no task waits on itself, and    *)
(* the dates are those of a schedule that respects all of it.                *)
WellFormed ==
  /\ phase \in {"idle", "applying"} /\ failure \in {"none", "domain", "internal"}
  /\ {project.list[i] : i \in DOMAIN project.list} = project.tasks
  /\ Len(project.list) = Cardinality(project.tasks)
  /\ \A t \in project.tasks :
       /\ InRange(project.dur[t])
       /\ PredsOf(project, t) \subseteq project.tasks
       /\ \A u \in project.tasks \ {t} : project.name[u] # project.name[t]
  /\ Acyclic(project)
  /\ Feasible(project, project.begin) /\ project.end = EndDates(project)

(* Row t stands above row u. *)
Above(list, t, u) ==
  \E i, j \in DOMAIN list : i < j /\ list[i] = t /\ list[j] = u

(* The rows of the one table are in the other, in the same order. *)
KeepsRows(old, new) ==
  /\ old.tasks \subseteq new.tasks
  /\ \A t, u \in old.tasks : Above(old.list, t, u) => Above(new.list, t, u)

(* A change set never drops a task or reorders the table: the rows that were  *)
(* there before it are there after it, in the same order.                    *)
TableOrderKept == [][project' # project => KeepsRows(project, project')]_vars

(* u comes, directly or not, before t: every set of tasks that contains t and *)
(* the predecessors of its members contains u.                               *)
Precedes(w, u, t) ==
  /\ t \in w.tasks
  /\ \A S \in SUBSET w.tasks :
       PredsOf(w, t) \subseteq S /\ (\A v \in S : PredsOf(w, v) \subseteq S) => u \in S

Referenced(w) == UNION {PredsOf(w, t) : t \in w.tasks}

(* insert_task_between puts its task on the edge and disturbs nothing else:    *)
(* among the tasks that were there, the same ones come before the same ones,  *)
(* and the one that waited on the new task's predecessor waits on the new     *)
(* task in its stead, however often it listed the predecessor; unless an      *)
(* earlier operation had already made something wait for the new task or for  *)
(* another that does not exist yet.                                          *)
InsertKeepsPrecedence ==
  [][\A n \in tasks'.tasks \ tasks.tasks :
       /\ phase = "applying"
       /\ \E t \in tasks.tasks : tasks'.preds[t] # tasks.preds[t]
       /\ Referenced(tasks) \subseteq tasks.tasks
       => \A t \in tasks.tasks :
            /\ \A u \in tasks.tasks : Precedes(tasks', u, t) <=> Precedes(tasks, u, t)
            /\ tasks'.preds[t] # tasks.preds[t] =>
                 PredsOf(tasks', t) = (PredsOf(tasks, t) \ PredsOf(tasks', n)) \cup {n}]_vars

(* A change set that only removes dependencies, clears constraints, shortens  *)
(* tasks or edits fields starts no task later than before.                   *)
RelaxingNeverDelays ==
  [][project'.revision # project.revision /\ relaxing
       => \A t \in project.tasks : project'.begin[t] <= project.begin[t]]_vars

(* A move that is the whole change set and is accepted puts the task exactly  *)
(* on the workday it names: the check against the dependencies is strict      *)
(* enough for the schedule never to push the task further.                   *)
LoneMoveIsHonoured ==
  [][project'.revision # project.revision /\ operations = 1 /\ lastMove # NoMove
       => project'.begin[lastMove.task] = NextWorkday(lastMove.target)]_vars

(* What RelaxingNeverDelays asks of the operations that may go before it.     *)
Relaxed(old, new) ==
  /\ new.tasks = old.tasks
  /\ \A t \in old.tasks :
       /\ new.dur[t] <= old.dur[t]
       /\ PredsOf(new, t) \subseteq PredsOf(old, t)
       /\ new.snb[t] \in {old.snb[t], NoDate}

(* The two copies between two operations: the project is a plan with its own   *)
(* schedule; the working copy is sound, has lost none of its rows, and knows   *)
(* nobody but the tasks and the client_refs; after relaxing operations only,   *)
(* or a first operation that moved a task, it differs from the project in no   *)
(* other way.                                                                *)
CopyInv ==
  /\ phase \in {"idle", "applying"} /\ failure \in {"none", "domain", "internal"}
  /\ Plan(project)
  /\ phase = "idle" => tasks = project /\ allotted = {}
  /\ allotted \subseteq NewIds \ project.tasks
  /\ tasks.tasks \subseteq project.tasks \cup allotted
  /\ Sound(tasks, tasks.tasks \cup allotted) /\ KeepsRows(project, tasks)
  /\ tasks.start = project.start /\ tasks.revision = project.revision
  /\ operations \in Nat
  /\ operations = 0 => tasks = project /\ lastMove = NoMove
  /\ relaxing => Relaxed(project, tasks)
  /\ operations = 1 /\ lastMove # NoMove =>
       LET r == lastMove.task
       IN  /\ r \in project.tasks /\ lastMove.target \in Int
           /\ tasks = [project EXCEPT !.snb[r] = lastMove.target]
           /\ DependencyEarliestStart(project, r) <= lastMove.target

(* product-spec section 9, "a move to an earlier date that violates a          *)
(* dependency is rejected": of a change set that commits, no move puts a task *)
(* on or before the last day of a predecessor that the same change set         *)
(* created.  (For a predecessor that existed before, the specification         *)
(* measures against the plan before the change set.)                         *)
MovesRespectNewPredecessors ==
  [][project'.revision # project.revision /\ lastMove # NoMove
       => \A q \in PredsOf(project', lastMove.task) \ project.tasks :
            project'.end[q] < lastMove.target]_vars

(* The docstring of changeset_ops: the applier "raises a DomainError subclass *)
(* the moment something is invalid", nothing else.                           *)
FailsWithDomainErrors == failure # "internal"

=============================================================================
