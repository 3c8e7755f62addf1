----------------------------- MODULE MCWorkbook -----------------------------
(***************************************************************************)
(* Files of up to three rows, of four when they are too many: rows that name   *)
(* one of two tasks, one of them in two ways, refer to those and to a third,    *)
(* and rows with each kind of refused cell.  Plans of up to three tasks, and    *)
(* one of four: names with each lead, and any acyclic predecessors, repeated     *)
(* ones included.                                                            *)
(***************************************************************************)
EXTENDS Workbook

CONSTANTS a, b, c

Plain(stem) == [stem |-> stem, lead |-> "plain", otherwise |-> FALSE]
Capital(stem) == [Plain(stem) EXCEPT !.otherwise = TRUE]
Led(stem, lead) == [Plain(stem) EXCEPT !.lead = lead]

Row(name, dur, preds, snb, wrong) ==
  [blank |-> FALSE, name |-> name, dur |-> dur, preds |-> preds, snb |-> snb,
   brimful |-> FALSE, wrong |-> wrong]

Empty == [Row(Plain(a), 1, <<>>, NoDate, {}) EXCEPT !.blank = TRUE]

CleanRows ==
  {Row(name, 1, preds, NoDate, {}) :
     name \in {Plain(a), Capital(a), Plain(b)},
     preds \in {<<>>, <<Plain(a)>>, <<Plain(b)>>, <<Capital(a), Plain(a)>>, <<Plain(b), Plain(c)>>}}

FaultyRows ==
  {Row(Plain(b), 1, <<Plain(a)>>, 5, {field}) : field \in Fields}
  \cup {Row(Plain(b), dur, <<Plain(b)>>, NoDate, {}) : dur \in {0, 3}}
  \cup {Row(Led(c, "guarded"), 2, <<Plain(a)>>, NoDate, {"duration"})}

Brimful == [Row(Plain(b), 1, <<Plain(a)>>, NoDate, {}) EXCEPT !.brimful = TRUE]

SomeRows == CleanRows \cup FaultyRows \cup {Empty, Brimful}

RowLists ==
  {<<>>} \cup {<<r>> : r \in SomeRows} \cup (SomeRows \X SomeRows)
  \cup (SomeRows \X SomeRows \X SomeRows)
  \cup {<<r, s, r, s>> : r, s \in SomeRows}

MCFiles ==
  {[fault |-> "none", rows |-> list] : list \in RowLists}
  \cup {[fault |-> fault, rows |-> <<Empty>>] : fault \in Faults}

PlanNames == {Plain(a), Capital(b), Led(b, "trigger"), Led(b, "guarded"), Led(c, "trigger")}
Before(t) == {<<>>} \cup {<<i>> : i \in 1 .. t} \cup ((1 .. t) \X (1 .. t))

TasksOf(Refs) == [name : PlanNames, dur : {2}, preds : Refs, snb : {NoDate, 5}, brimful : {FALSE}]

PlanLists ==
  {<<t>> : t \in TasksOf({<<>>})}
  \cup {<<t, u>> : t \in TasksOf({<<>>}), u \in TasksOf(Before(1))}
  \cup {<<t, u>> : t \in TasksOf({<<2>>}), u \in TasksOf({<<>>})}
  \cup {<<t, u, v>> : t \in TasksOf({<<>>, <<3>>}), u \in TasksOf(Before(1)),
                      v \in {w \in TasksOf(Before(2)) : w.snb = NoDate}}
  \cup {<<t, u, t, u>> : t \in TasksOf({<<>>}), u \in TasksOf({<<>>})}

Four == LET Task(name) == [name |-> name, dur |-> 1, preds |-> <<>>, snb |-> NoDate,
                        brimful |-> FALSE]
        IN  <<Task(Plain(a)), Task(Plain(b)), Task(Led(b, "trigger")), Task(Plain(c))>>

MCPlans ==
  {p \in PlanLists : StorablePlan(p)} \cup {Four}
=============================================================================
