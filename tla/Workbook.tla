------------------------------ MODULE Workbook ------------------------------
(***************************************************************************)
(* services/excel_import.py, services/excel_export.py and the import of      *)
(* services/project_service.py: a sheet becomes a plan, a plan a sheet, and   *)
(* what was exported is imported again.  A step is one turn of the loops of   *)
(* _parse_rows, or the code between two of them.                             *)
(*                                                                          *)
(* The id of a task is its place in the table: a uuid does not survive an     *)
(* export either.  Of descriptions and assignees there is only whether they    *)
(* are too long, or would be once guarded; calculated columns and the sheet    *)
(* of metadata are left out.                                                 *)
(***************************************************************************)
EXTENDS Scheduling

CONSTANTS
  Stems,        \* what task names are about
  LongStems,    \* those whose names, a trigger in front, have 200 characters
  MaxTasks,     \* MAX_TASKS
  MaxDuration,  \* MAX_DURATION_WORKDAYS
  Files,        \* the files that users make themselves
  Plans         \* the plans of projects that change sets have changed

(* A name may begin with one of = + - @, or with the apostrophe that an        *)
(* export puts before them; and it may be written otherwise: in capitals,      *)
(* with more blanks, with another letter e.                                  *)
Leads == {"plain", "trigger", "guarded"}
Names == [stem : Stems, lead : Leads, otherwise : BOOLEAN]

(* normalize_name *)
Key(name) == [name EXCEPT !.otherwise = FALSE]
Keys == [stem : Stems, lead : Leads, otherwise : {FALSE}]

(* The guard of an export makes this name longer than a name may be.          *)
TooLong(name) == name.stem \in LongStems /\ name.lead = "guarded"

(* The fields of an issue, and what is wrong with a file as a whole: of its    *)
(* faults, the first that is met.                                            *)
Fields == {"name", "text", "duration", "predecessors", "start"}
Faults == {"extension", "size", "workbook", "header", "merged"}

(* A row of the sheet; wrong are the cells that hold a formula, nothing where  *)
(* something is needed, or what cannot be read.  A row or a task is brimful     *)
(* whose description or assignee begins with a trigger and has all the         *)
(* characters it may have.                                                   *)
SheetRows ==
  [blank : BOOLEAN, name : Names, dur : Int, preds : Seq(Names),
   snb : Int \cup {NoDate}, brimful : BOOLEAN, wrong : SUBSET Fields]

Sheets == [fault : Faults \cup {"none"}, rows : Seq(SheetRows)]

TaskRecords ==
  [name : Names, dur : 1 .. MaxDuration, preds : Seq(Nat \ {0}),
   snb : Int \cup {NoDate}, brimful : BOOLEAN]

(* A plan as Scheduling sees it. *)
AsProject(p) == [tasks |-> DOMAIN p, preds |-> [t \in DOMAIN p |-> p[t].preds]]
WaitsFor(p, t) == PredsOf(AsProject(p), t)

(* What holds of every stored plan: no two names alike and none too long, and   *)
(* predecessors that exist and do not wait for each other.  A change set may    *)
(* list a predecessor twice, the importer does not.                          *)
NamesDistinct(p) == \A t, u \in DOMAIN p : Key(p[t].name) = Key(p[u].name) => t = u
PredsKnown(p) == \A t \in DOMAIN p : WaitsFor(p, t) \subseteq DOMAIN p \ {t}
StorablePlan(p) ==
  /\ NamesDistinct(p) /\ PredsKnown(p) /\ Acyclic(AsProject(p))
  /\ \A t \in DOMAIN p : ~TooLong(p[t].name)
NoRepeats(s) == \A i, j \in DOMAIN s : s[i] = s[j] => i = j

ASSUME WorkbookAssumption ==
  /\ MaxTasks \in Nat /\ MaxDuration \in Nat
  /\ Files \subseteq Sheets
  /\ Plans \subseteq Seq(TaskRecords) /\ \A p \in Plans : StorablePlan(p)

VARIABLES
  plan,      \* the tasks of the project stored last, <<>> before the first
  file,      \* the file that is imported
  phase,     \* "stored", "open", "read", "resolve", "parsed", "refused" or "cycle"
  next,      \* the row of the sheet, or of rows, that comes next
  known,     \* name_to_row: the place in rows where a name came first, or 0
  rows,      \* the rows read, without the empty ones
  ref,       \* the predecessor of row next that comes next
  resolved,  \* resolved_ids: and seen
  issues,    \* errors, or the details of the error raised
  warned,    \* rows with a predecessor ignored because it is repeated
  tasks      \* the tasks built

vars == <<plan, file, phase, next, known, rows, ref, resolved, issues, warned, tasks>>

NoFile == [fault |-> "none", rows |-> <<>>]
NothingKnown == [k \in Keys |-> 0]

Init ==
  /\ \/ phase = "open" /\ file \in Files /\ plan = <<>>
     \/ phase = "stored" /\ file = NoFile /\ plan \in Plans
  /\ next = 1 /\ known = NothingKnown /\ rows = <<>> /\ ref = 1 /\ resolved = <<>>
  /\ issues = {} /\ warned = {} /\ tasks = <<>>

-----------------------------------------------------------------------------
(* _safe_text, of a name *)
SafeText(name) == IF name.lead = "trigger" THEN [name EXCEPT !.lead = "guarded"] ELSE name

PlainRef(name) == name                                   \* a bug: not guarded
SafeRef(name)  == SafeText(name)

(* _write_plan_sheet.  A name holds no semicolon, so that what is joined with  *)
(* semicolons is split at the same places.  The guard of a brimful text makes  *)
(* it too long to be read.                                                   *)
Sheet(p) ==
  [fault |-> "none",
   rows  |-> [t \in DOMAIN p |->
                [blank |-> FALSE, name |-> SafeText(p[t].name), dur |-> p[t].dur,
                 preds |-> [i \in DOMAIN p[t].preds |-> SafeRef(p[p[t].preds[i]].name)],
                 snb   |-> p[t].snb, brimful |-> FALSE,
                 wrong |-> {field \in {"text"} : p[t].brimful}]]]

(* The project is exported, and the file imported. *)
Export ==
  /\ phase = "stored" /\ phase' = "open" /\ file' = Sheet(plan)
  /\ next' = 1 /\ known' = NothingKnown /\ rows' = <<>> /\ ref' = 1 /\ resolved' = <<>>
  /\ issues' = {} /\ warned' = {} /\ tasks' = <<>>
  /\ UNCHANGED plan

Issue(row, field, code) == [row |-> row, field |-> field, code |-> code]
FileIssue(fault) == Issue(0, "none", fault)

Refused(found) == phase' = "refused" /\ issues' = found

(* parse, up to the first row. *)
Open ==
  /\ phase = "open"
  /\ \/ file.fault = "none" /\ phase' = "read" /\ UNCHANGED issues
     \/ file.fault # "none" /\ Refused({FileIssue(file.fault)})
  /\ UNCHANGED <<plan, file, next, known, rows, ref, resolved, warned, tasks>>

NameRefused(row) == "name" \in row.wrong \/ TooLong(row.name)

InRangeOrNext(dur) == dur \in 1 .. MaxDuration + 1       \* a bug: off by one
InRange(dur) == dur \in 1 .. MaxDuration
DurationRefused(row) == "duration" \in row.wrong \/ ~InRange(row.dur)

CellRefused(row, field) ==
  \/ field \in row.wrong
  \/ field = "name" /\ NameRefused(row)
  \/ field = "duration" /\ DurationRefused(row)

CellIssues(row, at) == {Issue(at, field, "cell") : field \in {f \in Fields : CellRefused(row, f)}}

NeverTaken(row) == FALSE                                  \* a bug: the last one wins
Taken(row) == known[Key(row.name)] # 0

DuplicateIssues(row, at) ==
  {i \in {Issue(at, "name", "duplicate")} : ~NameRefused(row) /\ Taken(row)}

(* A bug Named must not have: a row with an issue is not there to refer to.    *)
NamedIfClean(row) == \A f \in Fields : ~CellRefused(row, f)
Named(row) == ~NameRefused(row)

Parsed(row, at) ==
  [row |-> at, name |-> row.name, dur |-> row.dur,
   preds |-> IF "predecessors" \in row.wrong THEN <<>> ELSE row.preds,
   snb   |-> IF "start" \in row.wrong THEN NoDate ELSE row.snb,
   brimful |-> row.brimful,
   skip  |-> NameRefused(row) \/ DurationRefused(row)]

(* Pass 1, one row. *)
ReadRow ==
  /\ phase = "read" /\ next <= Len(file.rows)
  /\ LET row == file.rows[next] IN
       \/ row.blank /\ UNCHANGED <<rows, issues, known>>
       \/ /\ ~row.blank
          /\ rows' = Append(rows, Parsed(row, next))
          /\ issues' = issues \cup CellIssues(row, next) \cup DuplicateIssues(row, next)
          /\ known' = IF Named(row) /\ ~Taken(row)
                        THEN [known EXCEPT ![Key(row.name)] = Len(rows) + 1]
                        ELSE known
  /\ next' = next + 1
  /\ UNCHANGED <<plan, file, phase, ref, resolved, warned, tasks>>

(* The rows are counted before what is wrong with them is told. *)
CountRows ==
  /\ phase = "read" /\ next > Len(file.rows)
  /\ \/ Len(rows) <= MaxTasks /\ phase' = "resolve" /\ UNCHANGED issues
     \/ Len(rows) > MaxTasks /\ Refused({FileIssue("tasks")})
  /\ next' = 1
  /\ UNCHANGED <<plan, file, known, rows, ref, resolved, warned, tasks>>

(* Pass 2, one predecessor of one row. *)
ResolveRef ==
  /\ phase = "resolve" /\ next <= Len(rows) /\ ref <= Len(rows[next].preds)
  /\ LET row  == rows[next]
         pred == known[Key(row.preds[ref])]
         Seen == \E i \in DOMAIN resolved : resolved[i] = pred
     IN  \/ /\ pred = 0
            /\ issues' = issues \cup {Issue(row.row, "predecessors", "unknown")}
            /\ UNCHANGED <<warned, resolved>>
         \/ /\ pred = next
            /\ issues' = issues \cup {Issue(row.row, "predecessors", "self")}
            /\ UNCHANGED <<warned, resolved>>
         \/ /\ pred \notin {0, next} /\ Seen
            /\ warned' = warned \cup {row.row} /\ UNCHANGED <<issues, resolved>>
         \/ /\ pred \notin {0, next} /\ ~Seen
            /\ resolved' = Append(resolved, pred) /\ UNCHANGED <<issues, warned>>
  /\ ref' = ref + 1
  /\ UNCHANGED <<plan, file, phase, next, known, rows, tasks>>

(* Pass 2, the task of a row. *)
BuildTask ==
  /\ phase = "resolve" /\ next <= Len(rows) /\ ref > Len(rows[next].preds)
  /\ LET row == rows[next] IN
       tasks' = IF row.skip
                  THEN tasks
                  ELSE Append(tasks, [name |-> row.name, dur |-> row.dur,
                                      preds |-> resolved, snb |-> row.snb,
                                      brimful |-> row.brimful])
  /\ next' = next + 1 /\ ref' = 1 /\ resolved' = <<>>
  /\ UNCHANGED <<plan, file, phase, known, rows, issues, warned>>

FinishParse ==
  /\ phase = "resolve" /\ next > Len(rows)
  /\ \/ issues # {} /\ Refused(issues)
     \/ issues = {} /\ tasks = <<>> /\ Refused({FileIssue("empty")})
     \/ issues = {} /\ tasks # <<>> /\ phase' = "parsed" /\ UNCHANGED issues
  /\ UNCHANGED <<plan, file, next, known, rows, ref, resolved, warned, tasks>>

(* import_project: the tasks are scheduled and the project is created, unless  *)
(* they wait for each other.                                                 *)
CreateProject ==
  /\ phase = "parsed"
  /\ \/ Acyclic(AsProject(tasks)) /\ phase' = "stored" /\ plan' = tasks
     \/ ~Acyclic(AsProject(tasks)) /\ phase' = "cycle" /\ UNCHANGED plan
  /\ UNCHANGED <<file, next, known, rows, ref, resolved, issues, warned, tasks>>

Next ==
  \/ Export \/ Open \/ ReadRow \/ CountRows \/ ResolveRef \/ BuildTask \/ FinishParse
  \/ CreateProject

Spec == Init /\ [][Next]_vars

-----------------------------------------------------------------------------
Issues == [row : Nat, field : Fields \cup {"none"}, code : {"cell", "duplicate", "unknown", "self",
                                                          "tasks", "empty"} \cup Faults]

RowRecords ==
  [row : Nat \ {0}, name : Names, dur : Int, preds : Seq(Names),
   snb : Int \cup {NoDate}, brimful : BOOLEAN, skip : BOOLEAN]

(* The types; those of tasks say that no duration out of range gets through.   *)
TypeOK ==
  /\ plan \in Seq(TaskRecords) /\ tasks \in Seq(TaskRecords)
  /\ file \in Sheets
  /\ phase \in {"stored", "open", "read", "resolve", "parsed", "refused", "cycle"}
  /\ next \in Nat \ {0} /\ ref \in Nat \ {0}
  /\ known \in [Keys -> Nat]
  /\ rows \in Seq(RowRecords)
  /\ resolved \in Seq(Nat \ {0})
  /\ issues \subseteq Issues
  /\ warned \subseteq Nat

(* What the importer hands to the scheduler is a plan, however the file refers *)
(* to its rows: backwards, forwards, twice, written otherwise, past empty rows *)
(* or to a row that is itself refused (engine.py raises a bare ValueError for  *)
(* a predecessor it does not know).                                          *)
ParsedIsPlan ==
  phase = "parsed" =>
    /\ tasks # <<>> /\ Len(tasks) <= MaxTasks
    /\ NamesDistinct(tasks) /\ PredsKnown(tasks)
    /\ \A t \in DOMAIN tasks : NoRepeats(tasks[t].preds)

(* The issues of a file, each by itself: what a reader of the sheet would list *)
(* who looks names up in the whole sheet.                                    *)
Occupied == {i \in DOMAIN file.rows : ~file.rows[i].blank}
NamedRows == {i \in Occupied : ~NameRefused(file.rows[i])}
Called(key) == {i \in NamedRows : Key(file.rows[i].name) = key}
FirstCalled(key) == {i \in Called(key) : \A j \in Called(key) : i <= j}
RefersTo(i) ==
  IF "predecessors" \in file.rows[i].wrong
    THEN {}
    ELSE {Key(file.rows[i].preds[k]) : k \in DOMAIN file.rows[i].preds}

RowIssues ==
     (UNION {CellIssues(file.rows[i], i) : i \in Occupied})
  \cup {Issue(i, "name", "duplicate") :
          i \in {j \in NamedRows : j \notin FirstCalled(Key(file.rows[j].name))}}
  \cup {Issue(i, "predecessors", "unknown") :
          i \in {j \in Occupied : \E key \in RefersTo(j) : Called(key) = {}}}
  \cup {Issue(i, "predecessors", "self") :
          i \in {j \in Occupied : \E key \in RefersTo(j) : j \in FirstCalled(key)}}

(* "Row-level errors are collected across the whole sheet before raising" (the *)
(* docstring of excel_import.py): a refusal names every issue of every row and *)
(* no other, so that one row's issue neither hides nor causes another's; and   *)
(* nothing is accepted that has one.                                         *)
EveryIssueNamed ==
  /\ phase = "refused" =>
       \/ file.fault # "none" /\ issues = {FileIssue(file.fault)}
       \/ file.fault = "none" /\ Cardinality(Occupied) > MaxTasks /\ issues = {FileIssue("tasks")}
       \/ /\ file.fault = "none" /\ Cardinality(Occupied) <= MaxTasks
          /\ issues = IF RowIssues = {} THEN {FileIssue("empty")} ELSE RowIssues
          /\ RowIssues = {} <=> Occupied = {}
  /\ phase = "parsed" =>
       file.fault = "none" /\ Cardinality(Occupied) <= MaxTasks /\ RowIssues = {}

(* A plan whose export can be imported: change sets have not grown it past the *)
(* importer's limit, and once guarded no text is too long and no two names      *)
(* are alike.                                                                *)
Importable(p) ==
  /\ Len(p) <= MaxTasks
  /\ \A t \in DOMAIN p : ~TooLong(SafeText(p[t].name)) /\ ~p[t].brimful
  /\ \A t, u \in DOMAIN p : Key(SafeText(p[t].name)) = Key(SafeText(p[u].name)) => t = u

SamePlan(p, q) ==
  /\ Len(p) = Len(q)
  /\ \A t \in DOMAIN p :
       /\ q[t].name = SafeText(p[t].name) /\ q[t].dur = p[t].dur /\ q[t].snb = p[t].snb
       /\ WaitsFor(q, t) = WaitsFor(p, t)
       /\ NoRepeats(p[t].preds) => q[t].preds = p[t].preds

(* What is exported can be imported again, and is the same plan then but for   *)
(* the guard before some names and for predecessors listed twice; the only     *)
(* exports refused are those of plans that Importable excludes.              *)
RoundTrips ==
  plan # <<>> =>
    /\ phase = "parsed" => SamePlan(plan, tasks)
    /\ phase = "refused" => ~Importable(plan)
    /\ phase # "cycle"

=============================================================================
