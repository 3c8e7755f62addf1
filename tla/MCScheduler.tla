---------------------------- MODULE MCScheduler -----------------------------
(***************************************************************************)
(* Two families of projects.  GraphProjects: every list of up to two         *)
(* predecessors for each of three tasks, among them repeated ones, the task  *)
(* itself and a task of another project, and a choice of lists for four      *)
(* tasks; one choice of dates.  DateProjects: the acyclic graphs of three    *)
(* tasks in table order, with durations of one day and of one that crosses a *)
(* weekend, a constraint that is absent, on a Saturday or on a later         *)
(* workday, and a project that starts on a Thursday or on a Saturday.        *)
(***************************************************************************)
EXTENDS Scheduler

CONSTANTS a, b, c, d, stranger

MCId == {a, b, c, d, stranger}
Three == {a, b, c}

Lists ==
  LET Ids == Three \cup {stranger} IN {<<>>} \cup {<<u>> : u \in Ids} \cup (Ids \X Ids)
ShortLists ==
  {<<>>} \cup {<<u>> : u \in Three \cup {d}} \cup {<<b, d>>, <<c, d>>, <<a, b, c>>}

Graphs(ids, lists) ==
  [tasks : {ids},
   pos   : {[t \in ids |-> CASE t = a -> 1 [] t = b -> 3 [] t = c -> 2 [] t = d -> 0]},
   preds : [ids -> lists],
   dur   : {[t \in ids |-> IF t = b THEN 3 ELSE 1]},
   snb   : {[t \in ids |-> NoDate]},
   start : {3}]

GraphProjects == Graphs(Three, Lists) \cup Graphs(Three \cup {d}, ShortLists)

DatePreds ==
  {[t \in Three |-> CASE t = a -> <<>> [] t = b -> pb [] t = c -> pc] :
     pb \in {<<>>, <<a>>}, pc \in {<<>>, <<a>>, <<b>>, <<a, b>>, <<b, b>>}}

DateProjects ==
  [tasks : {Three},
   pos   : {[t \in Three |-> CASE t = a -> 3 [] t = b -> 1 [] t = c -> 2]},
   preds : DatePreds,
   dur   : [Three -> {1, 3}],
   snb   : [Three -> {NoDate, 5, 8}],
   start : {3, 5}]

MCProjects == GraphProjects \cup DateProjects
TwoWeeks  == {3, 4, 7, 8, 9, 10, 11, 14, 15, 16}
=============================================================================
