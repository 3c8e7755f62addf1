--------------------------- MODULE WorkbookProofs ---------------------------
(***************************************************************************)
(* Proofs about module Workbook, for every file and every storable plan.     *)
(***************************************************************************)
EXTENDS Workbook, FiniteSetTheorems, TLAPS

Reading   == phase = "read"
Resolving == phase \in {"resolve", "parsed"}

(* The rows of the sheet that pass 1 has been through. *)
ReadSoFar == IF Reading THEN 1 .. next - 1 ELSE DOMAIN file.rows

(* Pass 1 keeps the rows that are not empty, in their order. *)
RowsInv ==
  /\ file.fault = "none"
  /\ Reading => next <= Len(file.rows) + 1
  /\ \A k \in DOMAIN rows :
       /\ rows[k].row \in Occupied /\ rows[k].row \in ReadSoFar
       /\ rows[k] = Parsed(file.rows[rows[k].row], rows[k].row)
  /\ \A i \in Occupied \cap ReadSoFar : \E k \in DOMAIN rows : rows[k].row = i
  /\ \A j, k \in DOMAIN rows : j < k => rows[j].row < rows[k].row
  /\ Cardinality(Occupied \cap ReadSoFar) = Len(rows)
  /\ (\A i \in ReadSoFar : ~file.rows[i].blank) =>
       /\ Reading => Len(rows) = next - 1
       /\ Resolving => Len(rows) = Len(file.rows)
       /\ \A k \in DOMAIN rows : rows[k].row = k

(* name_to_row finds the first row of a name, among those read. *)
KnownInv ==
  \A key \in Keys :
    /\ known[key] = 0 => Called(key) \cap ReadSoFar = {}
    /\ known[key] # 0 =>
         /\ known[key] \in DOMAIN rows
         /\ rows[known[key]].row \in Called(key)
         /\ \A j \in Called(key) \cap ReadSoFar : rows[known[key]].row <= j

(* The issues of a row by itself, and those of some of the keys it refers to.  *)
OwnIssues(i) ==
  CellIssues(file.rows[i], i)
  \cup {x \in {Issue(i, "name", "duplicate")} :
          i \in NamedRows /\ i \notin FirstCalled(Key(file.rows[i].name))}

RefIssues(i, keys) ==
       {x \in {Issue(i, "predecessors", "unknown")} : \E key \in keys : Called(key) = {}}
  \cup {x \in {Issue(i, "predecessors", "self")} : \E key \in keys : i \in FirstCalled(key)}

KeysBefore(k, n) == {Key(rows[k].preds[j]) : j \in 1 .. n}
AllKeys(k) == KeysBefore(k, Len(rows[k].preds))

(* The issues of the rows by themselves; of what the rows before n refer to;    *)
(* and of what row n refers to before its predecessor m.                     *)
AllOwn == UNION {OwnIssues(i) : i \in Occupied}
RefsDone(n) == UNION {RefIssues(rows[k].row, AllKeys(k)) : k \in 1 .. n - 1}
RefsNow(n, m) ==
  IF n <= Len(rows) THEN RefIssues(rows[n].row, KeysBefore(n, m - 1)) ELSE {}

IssuesInv ==
  /\ Reading => issues = UNION {OwnIssues(i) : i \in Occupied \cap ReadSoFar}
  /\ Resolving => issues = AllOwn \cup RefsDone(next) \cup RefsNow(next, ref)

(* s is what the first n predecessors of row k resolve to. *)
Target(k, j) == known[Key(rows[k].preds[j])]

Resolves(s, k, n) ==
  /\ s \in Seq(Nat \ {0}) /\ NoRepeats(s)
  /\ {s[i] : i \in DOMAIN s} = {Target(k, j) : j \in 1 .. n} \ {0, k}
  /\ (\A j \in 1 .. n : Target(k, j) \notin {0, k})
     /\ (\A i, j \in 1 .. n : Target(k, i) = Target(k, j) => i = j)
     => Len(s) = n /\ \A j \in 1 .. n : s[j] = Target(k, j)

Built(k) ==
  /\ ~rows[k].skip
  /\ tasks[k].name = rows[k].name /\ tasks[k].dur = rows[k].dur /\ tasks[k].snb = rows[k].snb
  /\ Resolves(tasks[k].preds, k, Len(rows[k].preds))

TasksInv ==
  /\ next <= Len(rows) + 1 /\ Len(rows) <= MaxTasks
  /\ next <= Len(rows) =>
       ref <= Len(rows[next].preds) + 1 /\ Resolves(resolved, next, ref - 1)
  /\ next > Len(rows) => ref = 1 /\ resolved = <<>>
  /\ issues = {} => Len(tasks) = next - 1 /\ \A k \in 1 .. next - 1 : Built(k)
  /\ phase = "parsed" => issues = {} /\ next = Len(rows) + 1 /\ tasks # <<>>

StartInv ==
  phase \in {"open", "read"} =>
    /\ phase = "open" => next = 1 /\ known = NothingKnown /\ rows = <<>> /\ issues = {}
    /\ ref = 1 /\ resolved = <<>> /\ tasks = <<>>

PlanInv ==
  plan # <<>> => StorablePlan(plan) /\ (phase # "stored" => file = Sheet(plan))

ImportInv ==
  /\ TypeOK /\ StartInv /\ PlanInv
  /\ Reading \/ Resolving => RowsInv /\ KnownInv /\ IssuesInv
  /\ Resolving => TasksInv

-----------------------------------------------------------------------------
LEMMA OccupiedRow ==
  ASSUME NEW i
  PROVE  i \in Occupied <=> i \in DOMAIN file.rows /\ ~file.rows[i].blank
BY Zenon DEF Occupied

LEMMA KeyTyped ==
  ASSUME NEW name \in Names
  PROVE  Key(name) \in Keys /\ SafeText(name) \in Names
BY DEF Key, Keys, Names, SafeText, Leads

LEMMA SheetTyped ==
  ASSUME WorkbookAssumption, plan \in Seq(TaskRecords), PredsKnown(plan)
  PROVE  Sheet(plan) \in Sheets /\ Len(Sheet(plan).rows) = Len(plan)
<1> DEFINE row(t) ==
      [blank |-> FALSE, name |-> SafeText(plan[t].name), dur |-> plan[t].dur,
       preds |-> [i \in DOMAIN plan[t].preds |-> SafeRef(plan[plan[t].preds[i]].name)],
       snb |-> plan[t].snb, brimful |-> FALSE,
       wrong |-> {field \in {"text"} : plan[t].brimful}]
<1>1. ASSUME NEW t \in DOMAIN plan  PROVE row(t) \in SheetRows
  <2>1. plan[t] \in TaskRecords
    BY <1>1
  <2>2. ASSUME NEW i \in DOMAIN plan[t].preds
        PROVE  SafeRef(plan[plan[t].preds[i]].name) \in Names
    <3>1. plan[t].preds[i] \in DOMAIN plan
      BY <1>1, <2>2 DEF PredsKnown, WaitsFor, PredsOf, AsProject
    <3>2. plan[plan[t].preds[i]] \in TaskRecords
      BY <3>1
    <3>3. plan[plan[t].preds[i]].name \in Names
      BY <3>2 DEF TaskRecords
    <3> QED
      BY <3>3, KeyTyped DEF SafeRef
  <2>3. [i \in DOMAIN plan[t].preds |-> SafeRef(plan[plan[t].preds[i]].name)] \in Seq(Names)
    <3> DEFINE refs == plan[t].preds
               name(i) == SafeRef(plan[refs[i]].name)
    <3>1. refs \in Seq(Nat \ {0})
      BY <2>1 DEF TaskRecords
    <3>2. \A i \in DOMAIN refs : name(i) \in Names
      BY <2>2
    <3> HIDE DEF refs, name
    <3>3. [i \in DOMAIN refs |-> name(i)] \in Seq(Names)
      BY <3>1, <3>2
    <3> QED
      BY <3>3 DEF refs, name
  <2>4. SafeText(plan[t].name) \in Names
    BY <2>1, KeyTyped DEF TaskRecords
  <2>5. plan[t].dur \in Int /\ plan[t].snb \in Int \cup {NoDate}
    BY <2>1, WorkbookAssumption DEF TaskRecords, WorkbookAssumption
  <2> QED
    BY <2>3, <2>4, <2>5 DEF SheetRows, Fields
<1> HIDE DEF row
<1>2. [t \in DOMAIN plan |-> row(t)] \in Seq(SheetRows)
  BY <1>1
<1>3. Sheet(plan) = [fault |-> "none", rows |-> [t \in DOMAIN plan |-> row(t)]]
  BY DEF Sheet, row
<1> QED
  BY <1>2, <1>3 DEF Sheets

LEMMA ParsedTyped ==
  ASSUME NEW row \in SheetRows, NEW at \in Nat \ {0}
  PROVE  Parsed(row, at) \in RowRecords
<1>1. Parsed(row, at).preds \in Seq(Names) /\ Parsed(row, at).snb \in Int \cup {NoDate}
  BY DEF Parsed, SheetRows
<1>2. Parsed(row, at).skip \in BOOLEAN
  BY DEF Parsed
<1> QED
  BY <1>1, <1>2 DEF Parsed, SheetRows, RowRecords

LEMMA FileTyped ==
  ASSUME TypeOK, NEW i \in DOMAIN file.rows
  PROVE  file.rows[i] \in SheetRows /\ i \in Nat \ {0}
BY DEF TypeOK, Sheets

LEMMA RowTyped ==
  ASSUME TypeOK, NEW k \in DOMAIN rows
  PROVE  /\ rows[k] \in RowRecords /\ k \in Nat \ {0}
         /\ \A j \in DOMAIN rows[k].preds :
              rows[k].preds[j] \in Names /\ Key(rows[k].preds[j]) \in Keys /\ Target(k, j) \in Nat
<1>1. rows[k] \in RowRecords /\ k \in Nat \ {0}
  BY DEF TypeOK
<1>2. ASSUME NEW j \in DOMAIN rows[k].preds  PROVE rows[k].preds[j] \in Names
  BY <1>1, <1>2 DEF RowRecords
<1> QED
  BY <1>1, <1>2, KeyTyped DEF Target, TypeOK

LEMMA ParsedFields ==
  ASSUME NEW row, NEW at
  PROVE  /\ Parsed(row, at).skip <=> NameRefused(row) \/ DurationRefused(row)
         /\ Parsed(row, at).row = at /\ Parsed(row, at).name = row.name
         /\ Parsed(row, at).dur = row.dur
         /\ "predecessors" \in row.wrong => Parsed(row, at).preds = <<>>
         /\ "predecessors" \notin row.wrong => Parsed(row, at).preds = row.preds
         /\ "start" \notin row.wrong => Parsed(row, at).snb = row.snb
BY DEF Parsed

LEMMA RowsRead ==
  ASSUME RowsInv, NEW k \in DOMAIN rows
  PROVE  /\ rows[k].row \in DOMAIN file.rows /\ ~file.rows[rows[k].row].blank
         /\ rows[k].skip <=>
              NameRefused(file.rows[rows[k].row]) \/ DurationRefused(file.rows[rows[k].row])
         /\ rows[k].name = file.rows[rows[k].row].name
         /\ rows[k].dur = file.rows[rows[k].row].dur
<1> DEFINE i == rows[k].row
<1>1. i \in Occupied /\ rows[k] = Parsed(file.rows[i], i)
  BY DEF RowsInv
<1>2. i \in DOMAIN file.rows /\ ~file.rows[i].blank
  BY <1>1, OccupiedRow
<1>3. rows[k].skip <=> NameRefused(file.rows[i]) \/ DurationRefused(file.rows[i])
  BY <1>1, ParsedFields
<1>4. rows[k].name = file.rows[i].name /\ rows[k].dur = file.rows[i].dur
  BY <1>1, ParsedFields
<1> QED
  BY <1>2, <1>3, <1>4

LEMMA IssueTyped ==
  ASSUME NEW row \in Nat, NEW field \in Fields,
         NEW code \in {"cell", "duplicate", "unknown", "self"}
  PROVE  Issue(row, field, code) \in Issues
BY DEF Issue, Issues

LEMMA FileIssueTyped ==
  ASSUME NEW fault \in Faults \cup {"tasks", "empty"}
  PROVE  FileIssue(fault) \in Issues
BY DEF FileIssue, Issue, Issues

LEMMA ReadTyped ==
  ASSUME TypeOK, NEW i \in DOMAIN file.rows
  PROVE  /\ CellIssues(file.rows[i], i) \subseteq Issues
         /\ DuplicateIssues(file.rows[i], i) \subseteq Issues
<1>1. i \in Nat
  BY FileTyped
<1>2. \A f \in Fields : Issue(i, f, "cell") \in Issues
  BY <1>1, IssueTyped
<1>3. Issue(i, "name", "duplicate") \in Issues
  BY <1>1, IssueTyped DEF Fields
<1> QED
  BY <1>2, <1>3 DEF CellIssues, DuplicateIssues

LEMMA TypeInit == ASSUME WorkbookAssumption, Init PROVE TypeOK
<1>1. plan \in Seq(TaskRecords) /\ file \in Sheets
  <2>1. CASE file \in Files /\ plan = <<>>
    BY <2>1 DEF WorkbookAssumption
  <2>2. CASE file = NoFile /\ plan \in Plans
    BY <2>2 DEF WorkbookAssumption, NoFile, Sheets
  <2> QED
    BY <2>1, <2>2 DEF Init
<1> QED
  BY <1>1 DEF Init, TypeOK, NothingKnown

LEMMA TypeStep ==
  ASSUME WorkbookAssumption, ImportInv, [Next]_vars
  PROVE  TypeOK'
<1> USE DEF ImportInv
<1>1. CASE Export
  <2>1. file' \in Sheets
    <3>1. PredsKnown(plan)
      BY DEF PlanInv, StorablePlan, PredsKnown
    <3> QED
      BY <1>1, <3>1, SheetTyped DEF Export, TypeOK
  <2> QED
    BY <1>1, <2>1 DEF Export, TypeOK, NothingKnown
<1>2. CASE Open
  <2>1. file.fault # "none" => FileIssue(file.fault) \in Issues
    BY FileIssueTyped DEF TypeOK, Sheets
  <2> QED
    BY <1>2, <2>1 DEF Open, Refused, TypeOK
<1>3. CASE ReadRow
  <2>1. next \in DOMAIN file.rows
    BY <1>3 DEF ReadRow, TypeOK, Sheets
  <2> DEFINE row == file.rows[next]
  <2>2. row \in SheetRows /\ next \in Nat \ {0}
    BY <2>1, FileTyped
  <2>3. Parsed(row, next) \in RowRecords
    BY <2>2, ParsedTyped
  <2>4. CellIssues(row, next) \subseteq Issues /\ DuplicateIssues(row, next) \subseteq Issues
    BY <2>1, ReadTyped
  <2>5. Key(row.name) \in Keys
    BY <2>2, KeyTyped DEF SheetRows
  <2> HIDE DEF row
  <2>6. CASE row.blank /\ UNCHANGED <<rows, issues, known>>
    BY <1>3, <2>6 DEF ReadRow, TypeOK
  <2>7. CASE ~row.blank
    <3>1. rows' = Append(rows, Parsed(row, next))
      BY <1>3, <2>7 DEF ReadRow, row
    <3>2. issues' = issues \cup CellIssues(row, next) \cup DuplicateIssues(row, next)
      BY <1>3, <2>7 DEF ReadRow, row
    <3>3. known' \in [Keys -> Nat]
      BY <1>3, <2>5, <2>7 DEF ReadRow, row, TypeOK
    <3> QED
      BY <1>3, <2>3, <2>4, <3>1, <3>2, <3>3 DEF ReadRow, TypeOK
  <2> QED
    BY <1>3, <2>6, <2>7 DEF ReadRow, row
<1>4. CASE CountRows
  BY <1>4, FileIssueTyped DEF CountRows, Refused, TypeOK
<1>5. CASE ResolveRef
  <2>1. next \in DOMAIN rows
    BY <1>5 DEF ResolveRef, TypeOK
  <2>2. rows[next] \in RowRecords
    BY <2>1, RowTyped
  <2>3. ref \in DOMAIN rows[next].preds
    BY <1>5, <2>2 DEF ResolveRef, TypeOK, RowRecords
  <2>4. Target(next, ref) \in Nat
    BY <2>1, <2>3, RowTyped
  <2>5. \A code \in {"unknown", "self"} : Issue(rows[next].row, "predecessors", code) \in Issues
    BY <2>2, IssueTyped DEF RowRecords, Fields
  <2>6. issues' \subseteq Issues
    <3>1. \/ UNCHANGED issues
          \/ issues' = issues \cup {Issue(rows[next].row, "predecessors", "unknown")}
          \/ issues' = issues \cup {Issue(rows[next].row, "predecessors", "self")}
      BY <1>5 DEF ResolveRef
    <3> QED
      BY <2>5, <3>1 DEF TypeOK
  <2>7. resolved' \in Seq(Nat \ {0})
    <3>1. \/ UNCHANGED resolved
          \/ resolved' = Append(resolved, Target(next, ref)) /\ Target(next, ref) # 0
      BY <1>5 DEF ResolveRef, Target
    <3>2. resolved \in Seq(Nat \ {0})
      BY DEF TypeOK
    <3> QED
      BY <2>4, <3>1, <3>2
  <2>8. warned' \subseteq Nat
    BY <1>5, <2>2 DEF ResolveRef, TypeOK, RowRecords
  <2> QED
    BY <1>5, <2>6, <2>7, <2>8 DEF ResolveRef, TypeOK
<1>6. CASE BuildTask
  <2>1. next \in DOMAIN rows
    BY <1>6 DEF BuildTask, TypeOK
  <2>2. rows[next] \in RowRecords
    BY <2>1, RowTyped
  <2>3. CASE rows[next].skip
    BY <1>6, <2>3 DEF BuildTask, TypeOK
  <2>4. CASE ~rows[next].skip
    <3>1. rows[next].dur \in 1 .. MaxDuration
      <4>1. RowsInv
        BY <1>6 DEF BuildTask, Resolving
      <4>2. ~DurationRefused(file.rows[rows[next].row])
        BY <2>1, <2>4, <4>1, RowsRead
      <4>3. rows[next].dur = file.rows[rows[next].row].dur
        BY <2>1, <4>1, RowsRead
      <4> QED
        BY <4>2, <4>3 DEF DurationRefused, InRange
    <3>2. [name |-> rows[next].name, dur |-> rows[next].dur,
           preds |-> resolved, snb |-> rows[next].snb,
           brimful |-> rows[next].brimful] \in TaskRecords
      BY <2>2, <3>1 DEF RowRecords, TaskRecords, TypeOK
    <3> QED
      BY <1>6, <2>4, <3>2 DEF BuildTask, TypeOK
  <2> QED
    BY <2>3, <2>4
<1>7. CASE FinishParse
  BY <1>7, FileIssueTyped DEF FinishParse, Refused, TypeOK
<1>8. CASE CreateProject
  BY <1>8 DEF CreateProject, TypeOK
<1>9. CASE UNCHANGED vars
  BY <1>9 DEF vars, TypeOK
<1> QED
  BY <1>1, <1>2, <1>3, <1>4, <1>5, <1>6, <1>7, <1>8, <1>9 DEF Next

-----------------------------------------------------------------------------
(* Pass 1. *)
LEMMA SoFar ==
  ASSUME TypeOK
  PROVE  /\ IsFiniteSet(Occupied \cap ReadSoFar)
         /\ IsFiniteSet(Occupied) /\ Occupied \subseteq DOMAIN file.rows
         /\ Reading /\ RowsInv => ReadSoFar = 1 .. next - 1 /\ ReadSoFar \subseteq DOMAIN file.rows
<1>1. Occupied \subseteq DOMAIN file.rows
  BY OccupiedRow
<1>2. DOMAIN file.rows = 1 .. Len(file.rows) /\ Len(file.rows) \in Nat /\ next \in Nat \ {0}
  BY DEF TypeOK, Sheets
<1>3. IsFiniteSet(DOMAIN file.rows)
  BY <1>2, FS_Interval
<1>4. IsFiniteSet(Occupied) /\ IsFiniteSet(Occupied \cap ReadSoFar)
  BY <1>1, <1>3, FS_Subset
<1>5. Reading /\ RowsInv => ReadSoFar = 1 .. next - 1 /\ ReadSoFar \subseteq DOMAIN file.rows
  BY <1>2 DEF ReadSoFar, RowsInv
<1> QED
  BY <1>1, <1>4, <1>5

(* Nothing that RowsInv, KnownInv and the files' issues are about changes.     *)
Kept == UNCHANGED <<file, rows, known>> /\ ReadSoFar' = ReadSoFar

LEMMA SheetKept ==
  ASSUME file' = file
  PROVE  /\ Occupied' = Occupied /\ NamedRows' = NamedRows
         /\ \A key : Called(key)' = Called(key) /\ FirstCalled(key)' = FirstCalled(key)
         /\ \A i : OwnIssues(i)' = OwnIssues(i) /\ RefersTo(i)' = RefersTo(i)
         /\ \A i, keys : RefIssues(i, keys)' = RefIssues(i, keys)
         /\ RowIssues' = RowIssues
BY DEF Occupied, NamedRows, Called, FirstCalled, OwnIssues, RefIssues, RefersTo, RowIssues

LEMMA KeptStep ==
  ASSUME TypeOK, ImportInv, [Next]_vars, (Reading \/ Resolving)', ~Open, ~ReadRow
  PROVE  Kept /\ (Reading \/ Resolving) /\ RowsInv /\ (Reading' => UNCHANGED vars)
<1>1. CASE CountRows
  <2>1. phase = "read" /\ phase' = "resolve" /\ UNCHANGED <<file, rows, known>>
    BY <1>1 DEF CountRows, Reading, Resolving, Refused
  <2>2. RowsInv /\ Reading
    BY <2>1 DEF ImportInv, Reading
  <2>3. next = Len(file.rows) + 1
    BY <1>1, <2>2 DEF CountRows, RowsInv, TypeOK, Sheets
  <2>4. ReadSoFar = DOMAIN file.rows
    BY <2>2, <2>3, SoFar DEF TypeOK, Sheets
  <2>5. ReadSoFar' = DOMAIN file.rows
    BY <2>1 DEF ReadSoFar, Reading
  <2> QED
    BY <2>1, <2>2, <2>4, <2>5 DEF Kept, Reading
<1>2. CASE ResolveRef \/ BuildTask \/ FinishParse
  <2>1. Resolving /\ UNCHANGED <<file, rows, known>>
    BY <1>2 DEF ResolveRef, BuildTask, FinishParse, Resolving
  <2>2. Resolving' /\ ~Reading' /\ ~Reading
    BY <1>2 DEF ResolveRef, BuildTask, FinishParse, Resolving, Reading, Refused
  <2> QED
    BY <2>1, <2>2 DEF Kept, ReadSoFar, ImportInv
<1>3. CASE UNCHANGED vars
  BY <1>3 DEF vars, Kept, ReadSoFar, Reading, Resolving, ImportInv
<1>4. ~Export /\ ~CreateProject
  BY DEF Export, CreateProject, Reading, Resolving
<1> QED
  BY <1>1, <1>2, <1>3, <1>4 DEF Next

LEMMA RowsOpen ==
  ASSUME TypeOK, StartInv, Open, Reading'
  PROVE  RowsInv' /\ ReadSoFar' = {} /\ rows' = <<>> /\ known' = NothingKnown /\ issues' = {}
         /\ file' = file
<1>1. file.fault = "none" /\ UNCHANGED <<file, rows, known, issues, next>> /\ phase = "open"
  BY DEF Open, Refused, Reading
<1>2. next = 1 /\ known = NothingKnown /\ rows = <<>> /\ issues = {}
  BY <1>1 DEF StartInv
<1>3. ReadSoFar' = {}
  BY <1>1, <1>2 DEF ReadSoFar
<1>4. Len(file.rows) \in Nat
  BY DEF TypeOK, Sheets
<1>5. Cardinality(Occupied' \cap {}) = 0
  BY FS_EmptySet, Occupied' \cap {} = {}
<1>6. ~Resolving'
  BY DEF Reading, Resolving
<1> QED
  BY <1>1, <1>2, <1>3, <1>4, <1>5, <1>6 DEF RowsInv

LEMMA RowsReadRow ==
  ASSUME WorkbookAssumption, TypeOK, RowsInv, ReadRow
  PROVE  RowsInv' /\ ReadSoFar' = ReadSoFar \cup {next}
<1>1. Reading /\ next \in DOMAIN file.rows /\ next \in Nat \ {0} /\ Reading' /\ ~Resolving'
  BY DEF ReadRow, Reading, Resolving, TypeOK, Sheets
<1>2. /\ UNCHANGED <<file, phase>> /\ next' = next + 1
  BY DEF ReadRow
<1>3. ReadSoFar = 1 .. next - 1 /\ ReadSoFar' = 1 .. next
  BY <1>1, <1>2 DEF ReadSoFar, Reading
<1>4. ReadSoFar' = ReadSoFar \cup {next} /\ next \notin ReadSoFar
  BY <1>1, <1>3
<1>5. Occupied' = Occupied
  BY <1>2, SheetKept
<1>6. next' <= Len(file.rows) + 1
  BY <1>2 DEF ReadRow, TypeOK, Sheets
<1>7. rows \in Seq(RowRecords) /\ Len(rows) \in Nat
  BY DEF TypeOK
<1> DEFINE row == file.rows[next]
<1>8. CASE row.blank /\ rows' = rows
  <2>1. next \notin Occupied
    BY <1>8, OccupiedRow
  <2>2. Occupied \cap ReadSoFar' = Occupied \cap ReadSoFar
    BY <1>4, <2>1
  <2>3. ~(\A i \in ReadSoFar' : ~file.rows[i].blank)
    BY <1>4, <1>8
  <2> QED
    BY <1>1, <1>2, <1>4, <1>5, <1>6, <1>8, <2>2, <2>3 DEF RowsInv
<1>9. CASE ~row.blank /\ rows' = Append(rows, Parsed(row, next))
  <2>1. next \in Occupied
    BY <1>1, <1>9, OccupiedRow
  <2>2. /\ Len(rows') = Len(rows) + 1 /\ DOMAIN rows' = DOMAIN rows \cup {Len(rows) + 1}
        /\ \A k \in DOMAIN rows : rows'[k] = rows[k]
        /\ rows'[Len(rows) + 1] = Parsed(row, next)
    BY <1>7, <1>9
  <2> HIDE DEF row
  <2>3. rows'[Len(rows) + 1].row = next
    BY <2>2, ParsedFields
  <2>4. \A k \in DOMAIN rows' :
          /\ rows'[k].row \in Occupied /\ rows'[k].row \in ReadSoFar'
          /\ rows'[k] = Parsed(file.rows[rows'[k].row], rows'[k].row)
    <3>1. SUFFICES ASSUME NEW k \in DOMAIN rows'
                   PROVE  /\ rows'[k].row \in Occupied /\ rows'[k].row \in ReadSoFar'
                          /\ rows'[k] = Parsed(file.rows[rows'[k].row], rows'[k].row)
      OBVIOUS
    <3>2. CASE k \in DOMAIN rows
      BY <1>4, <2>2, <3>2 DEF RowsInv
    <3>3. CASE k = Len(rows) + 1
      BY <1>4, <2>1, <2>2, <2>3, <3>3 DEF row
    <3> QED
      BY <2>2, <3>1, <3>2, <3>3
  <2>5. \A i \in Occupied \cap ReadSoFar' : \E k \in DOMAIN rows' : rows'[k].row = i
    <3>1. SUFFICES ASSUME NEW i \in Occupied \cap ReadSoFar'
                   PROVE  \E k \in DOMAIN rows' : rows'[k].row = i
      OBVIOUS
    <3>2. CASE i = next
      BY <2>2, <2>3, <3>2
    <3>3. CASE i \in ReadSoFar
      <4>1. PICK k \in DOMAIN rows : rows[k].row = i
        BY <3>1, <3>3 DEF RowsInv
      <4> QED
        BY <2>2, <4>1
    <3> QED
      BY <1>4, <3>1, <3>2, <3>3
  <2>6. \A j, k \in DOMAIN rows' : j < k => rows'[j].row < rows'[k].row
    <3>1. \A j \in DOMAIN rows : rows[j].row < next
      BY <1>1, <1>3 DEF RowsInv
    <3>2. DOMAIN rows = 1 .. Len(rows)
      BY <1>7
    <3>3. \A j, k \in DOMAIN rows : j < k => rows[j].row < rows[k].row
      BY DEF RowsInv
    <3>4. SUFFICES ASSUME NEW j \in DOMAIN rows', NEW k \in DOMAIN rows', j < k
                   PROVE  rows'[j].row < rows'[k].row
      OBVIOUS
    <3>5. j \in DOMAIN rows
      BY <1>7, <2>2, <3>2, <3>4
    <3>6. CASE k \in DOMAIN rows
      BY <2>2, <3>3, <3>4, <3>5, <3>6
    <3>7. CASE k = Len(rows) + 1
      BY <2>2, <2>3, <3>1, <3>5, <3>7
    <3> QED
      BY <2>2, <3>6, <3>7
  <2>7. Cardinality(Occupied \cap ReadSoFar') = Len(rows')
    <3>1. Occupied \cap ReadSoFar' = (Occupied \cap ReadSoFar) \cup {next}
      BY <1>4, <2>1
    <3>2. Cardinality((Occupied \cap ReadSoFar) \cup {next}) = Len(rows) + 1
      BY <1>4, SoFar, FS_AddElement DEF RowsInv
    <3> QED
      BY <2>2, <3>1, <3>2
  <2>8. (\A i \in ReadSoFar' : ~file.rows[i].blank) =>
          Len(rows') = next /\ \A k \in DOMAIN rows' : rows'[k].row = k
    <3>1. SUFFICES ASSUME \A i \in ReadSoFar' : ~file.rows[i].blank
                   PROVE  Len(rows') = next /\ \A k \in DOMAIN rows' : rows'[k].row = k
      OBVIOUS
    <3>2. Len(rows) = next - 1 /\ \A k \in DOMAIN rows : rows[k].row = k
      BY <1>1, <1>4, <3>1 DEF RowsInv
    <3> QED
      BY <1>1, <2>2, <2>3, <3>2
  <2>9. (\A i \in ReadSoFar' : ~file.rows[i].blank) =>
          /\ Reading' => Len(rows') = next' - 1
          /\ Resolving' => Len(rows') = Len(file.rows)
          /\ \A k \in DOMAIN rows' : rows'[k].row = k
    BY <1>1, <1>2, <2>8
  <2>10. file.fault = "none" /\ (Reading' => next' <= Len(file.rows) + 1)
    BY <1>6 DEF RowsInv
  <2>11. file' = file
    BY <1>2
  <2>12. \A k \in DOMAIN rows' :
          /\ rows'[k].row \in Occupied' /\ rows'[k].row \in ReadSoFar'
          /\ rows'[k] = Parsed(file'.rows[rows'[k].row], rows'[k].row)
    BY <1>5, <2>4, <2>11
  <2>13. /\ \A i \in Occupied' \cap ReadSoFar' : \E k \in DOMAIN rows' : rows'[k].row = i
         /\ Cardinality(Occupied' \cap ReadSoFar') = Len(rows')
    BY <1>5, <2>5, <2>7
  <2>14. /\ file'.fault = "none" /\ (Reading' => next' <= Len(file'.rows) + 1)
         /\ (\A i \in ReadSoFar' : ~file'.rows[i].blank) =>
              /\ Reading' => Len(rows') = next' - 1
              /\ Resolving' => Len(rows') = Len(file'.rows)
              /\ \A k \in DOMAIN rows' : rows'[k].row = k
    BY <2>9, <2>10, <2>11
  <2>15. RowsInv'
    BY <2>6, <2>12, <2>13, <2>14 DEF RowsInv
  <2> QED
    BY <1>4, <2>15
<1>10. \/ row.blank /\ rows' = rows
       \/ ~row.blank /\ rows' = Append(rows, Parsed(row, next))
  BY DEF ReadRow
<1> QED
  BY <1>4, <1>8, <1>9, <1>10

LEMMA RowsStep ==
  ASSUME WorkbookAssumption, ImportInv, [Next]_vars, (Reading \/ Resolving)'
  PROVE  RowsInv'
<1>1. TypeOK /\ StartInv
  BY DEF ImportInv
<1>2. CASE Open
  BY <1>1, <1>2, RowsOpen DEF Open, Reading, Resolving, Refused
<1>3. CASE ReadRow
  BY <1>1, <1>3, RowsReadRow DEF ImportInv, ReadRow, Reading
<1>4. CASE ~Open /\ ~ReadRow
  <2>1. Kept /\ RowsInv /\ (Reading' => UNCHANGED vars) /\ (Reading \/ Resolving)
    BY <1>1, <1>4, KeptStep
  <2>2. Occupied' = Occupied
    BY <2>1, SheetKept DEF Kept
  <2>3. Reading' => Reading /\ next' = next
    BY <2>1 DEF vars, Reading
  <2>4. Resolving' /\ Reading => next = Len(file.rows) + 1
    <3>1. SUFFICES ASSUME Resolving', Reading PROVE next = Len(file.rows) + 1
      OBVIOUS
    <3>2. CountRows
      BY <1>4, <3>1 DEF Next, vars, Export, ResolveRef, BuildTask, FinishParse, CreateProject,
                        Reading, Resolving
    <3> QED
      BY <1>1, <2>1, <3>1, <3>2 DEF CountRows, RowsInv, TypeOK, Sheets
  <2>5. ~(Reading' /\ Resolving')
    BY DEF Reading, Resolving
  <2>6. next \in Nat /\ Len(file.rows) \in Nat
    BY <1>1 DEF TypeOK, Sheets
  <2>7. UNCHANGED <<file, rows>> /\ ReadSoFar' = ReadSoFar
    BY <2>1 DEF Kept
  <2>8. (\A i \in ReadSoFar : ~file.rows[i].blank) =>
          /\ Reading' => Len(rows) = next' - 1
          /\ Resolving' => Len(rows) = Len(file.rows)
          /\ \A k \in DOMAIN rows : rows[k].row = k
    <3>1. SUFFICES ASSUME \A i \in ReadSoFar : ~file.rows[i].blank
                   PROVE  /\ Reading' => Len(rows) = next' - 1
                          /\ Resolving' => Len(rows) = Len(file.rows)
                          /\ \A k \in DOMAIN rows : rows[k].row = k
      OBVIOUS
    <3>2. /\ Reading => Len(rows) = next - 1
          /\ Resolving => Len(rows) = Len(file.rows)
          /\ \A k \in DOMAIN rows : rows[k].row = k
      BY <2>1, <3>1 DEF RowsInv
    <3> QED
      BY <2>1, <2>3, <2>4, <2>6, <3>2
  <2>9. Reading' => next' <= Len(file.rows) + 1
    BY <2>1, <2>3 DEF RowsInv
  <2> QED
    BY <2>1, <2>2, <2>7, <2>8, <2>9 DEF RowsInv
<1> QED
  BY <1>2, <1>3, <1>4

LEMMA CalledRow ==
  ASSUME NEW key, NEW i
  PROVE  i \in Called(key) <=>
           i \in Occupied /\ ~NameRefused(file.rows[i]) /\ Key(file.rows[i].name) = key
BY Zenon DEF Called, NamedRows

LEMMA FirstCalledRow ==
  ASSUME NEW key, NEW i
  PROVE  i \in FirstCalled(key) <=> i \in Called(key) /\ \A j \in Called(key) : i <= j
BY Zenon DEF FirstCalled

LEMMA RowAdded ==
  ASSUME TypeOK, RowsInv, ReadRow
  PROVE  /\ next \in DOMAIN file.rows /\ next \in Nat \ {0} /\ Len(rows) \in Nat
         /\ ReadSoFar' = ReadSoFar \cup {next}
         /\ \A i \in ReadSoFar : i < next
         /\ file' = file
         /\ file.rows[next].blank => UNCHANGED <<rows, issues, known>>
         /\ ~file.rows[next].blank =>
              /\ Len(rows') = Len(rows) + 1 /\ DOMAIN rows' = DOMAIN rows \cup {Len(rows) + 1}
              /\ \A k \in DOMAIN rows : rows'[k] = rows[k]
              /\ rows'[Len(rows) + 1].row = next
              /\ Len(rows) + 1 \notin DOMAIN rows
         /\ \A i \in Occupied : i < next => i \in ReadSoFar
<1>1. next \in DOMAIN file.rows /\ next \in Nat \ {0} /\ phase = "read" /\ phase' = "read"
  BY DEF ReadRow, TypeOK, Sheets
<1>2. ReadSoFar = 1 .. next - 1 /\ ReadSoFar' = 1 .. next
  BY <1>1 DEF ReadSoFar, Reading, ReadRow
<1>3. rows \in Seq(RowRecords) /\ Len(rows) \in Nat
  BY DEF TypeOK
<1>4. ASSUME ~file.rows[next].blank
      PROVE  /\ Len(rows') = Len(rows) + 1 /\ DOMAIN rows' = DOMAIN rows \cup {Len(rows) + 1}
             /\ \A k \in DOMAIN rows : rows'[k] = rows[k]
             /\ rows'[Len(rows) + 1].row = next
             /\ Len(rows) + 1 \notin DOMAIN rows
  <2>1. rows' = Append(rows, Parsed(file.rows[next], next))
    BY <1>4 DEF ReadRow
  <2>2. rows'[Len(rows) + 1] = Parsed(file.rows[next], next)
    BY <1>3, <2>1
  <2> QED
    BY <1>3, <2>1, <2>2, ParsedFields
<1>5. \A i \in Occupied : i < next => i \in ReadSoFar
  BY <1>1, <1>2, OccupiedRow DEF TypeOK, Sheets
<1> QED
  BY <1>1, <1>2, <1>3, <1>4, <1>5 DEF ReadRow

LEMMA KnownReadRow ==
  ASSUME WorkbookAssumption, TypeOK, RowsInv, KnownInv, ReadRow
  PROVE  KnownInv'
<1> DEFINE row == file.rows[next]
<1>1. /\ next \in DOMAIN file.rows /\ next \in Nat \ {0} /\ Len(rows) \in Nat
      /\ ReadSoFar' = ReadSoFar \cup {next} /\ \A i \in ReadSoFar : i < next
  BY RowAdded
<1>2. row \in SheetRows /\ Key(row.name) \in Keys
  <2>1. row \in SheetRows
    BY <1>1, FileTyped
  <2> QED
    BY <2>1, KeyTyped DEF SheetRows
<1>3. SUFFICES ASSUME NEW key \in Keys
               PROVE  /\ known'[key] = 0 => Called(key) \cap ReadSoFar' = {}
                      /\ known'[key] # 0 =>
                           /\ known'[key] \in DOMAIN rows'
                           /\ rows'[known'[key]].row \in Called(key)
                           /\ \A j \in Called(key) \cap ReadSoFar' : rows'[known'[key]].row <= j
  <2>1. \A key : Called(key)' = Called(key)
    BY SheetKept, RowAdded
  <2> QED
    BY <1>3, <2>1 DEF KnownInv
<1>4. /\ known[key] = 0 => Called(key) \cap ReadSoFar = {}
      /\ known[key] # 0 =>
           /\ known[key] \in DOMAIN rows
           /\ rows[known[key]].row \in Called(key)
           /\ rows[known[key]].row < next
           /\ \A j \in Called(key) \cap ReadSoFar : rows[known[key]].row <= j
  <2>1. \A k \in DOMAIN rows : rows[k].row \in ReadSoFar
    BY DEF RowsInv
  <2> QED
    BY <1>1, <2>1 DEF KnownInv
<1>5. next \in Called(key) <=> ~row.blank /\ Named(row) /\ Key(row.name) = key
  BY <1>1, CalledRow, OccupiedRow DEF Named
<1>6. known \in [Keys -> Nat]
  BY DEF TypeOK
<1>7. known[key] \in Nat
  BY <1>6
<1>8. CASE row.blank
  <2>1. UNCHANGED <<rows, known>> /\ next \notin Called(key)
    BY <1>5, <1>8, RowAdded
  <2>2. Called(key) \cap ReadSoFar' = Called(key) \cap ReadSoFar
    BY <1>1, <2>1
  <2> QED
    BY <1>4, <2>1, <2>2
<1>9. CASE ~row.blank
  <2>1. /\ DOMAIN rows' = DOMAIN rows \cup {Len(rows) + 1}
        /\ \A k \in DOMAIN rows : rows'[k] = rows[k]
        /\ rows'[Len(rows) + 1].row = next
    BY <1>9, RowAdded
  <2>2. known' = IF Named(row) /\ ~Taken(row)
                   THEN [known EXCEPT ![Key(row.name)] = Len(rows) + 1]
                   ELSE known
    BY <1>9 DEF ReadRow
  <2>3. CASE next \in Called(key) /\ known[key] = 0
    <3>1. Key(row.name) = key /\ Named(row) /\ ~Taken(row)
      BY <1>5, <2>3 DEF Taken
    <3>2. known'[key] = Len(rows) + 1
      BY <1>6, <2>2, <3>1
    <3>3. \A j \in Called(key) \cap ReadSoFar' : j = next
      BY <1>1, <1>4, <2>3
    <3> QED
      BY <1>1, <2>1, <2>3, <3>2, <3>3
  <2>4. CASE next \in Called(key) /\ known[key] # 0
    <3>1. known' = known
      <4>1. Taken(row)
        BY <1>5, <2>4 DEF Taken
      <4> QED
        BY <2>2, <4>1
    <3>2. rows'[known[key]] = rows[known[key]] /\ known[key] \in DOMAIN rows'
      BY <1>4, <2>1, <2>4
    <3>3. \A j \in Called(key) \cap ReadSoFar' : rows[known[key]].row <= j
      <4>1. rows[known[key]].row \in ReadSoFar /\ rows[known[key]].row < next
        BY <1>4, <2>4 DEF RowsInv
      <4>2. rows[known[key]].row \in Nat
        BY <1>4, <2>4, RowTyped DEF RowRecords
      <4> QED
        BY <1>1, <1>4, <2>4, <4>1, <4>2
    <3> QED
      BY <1>4, <2>4, <3>1, <3>2, <3>3
  <2>5. CASE next \notin Called(key)
    <3>1. known'[key] = known[key]
      <4>1. CASE Named(row) /\ ~Taken(row)
        <5>1. Key(row.name) # key
          BY <1>5, <1>9, <2>5, <4>1
        <5> QED
          BY <1>6, <2>2, <4>1, <5>1
      <4> QED
        BY <2>2, <4>1
    <3>2. Called(key) \cap ReadSoFar' = Called(key) \cap ReadSoFar
      BY <1>1, <2>5
    <3>3. known[key] # 0 => rows'[known[key]] = rows[known[key]] /\ known[key] \in DOMAIN rows'
      BY <1>4, <2>1
    <3> QED
      BY <1>4, <3>1, <3>2, <3>3
  <2> QED
    BY <2>3, <2>4, <2>5
<1> QED
  BY <1>8, <1>9

LEMMA KnownStep ==
  ASSUME WorkbookAssumption, ImportInv, [Next]_vars, (Reading \/ Resolving)'
  PROVE  KnownInv'
<1>1. TypeOK /\ StartInv
  BY DEF ImportInv
<1>2. CASE Open
  <2>1. Reading'
    BY <1>2 DEF Open, Refused, Reading, Resolving
  <2>2. known' = NothingKnown /\ ReadSoFar' = {}
    BY <1>1, <1>2, <2>1, RowsOpen
  <2> QED
    BY <2>2 DEF KnownInv, NothingKnown
<1>3. CASE ReadRow
  BY <1>1, <1>3, KnownReadRow DEF ImportInv, ReadRow, Reading
<1>4. CASE ~Open /\ ~ReadRow
  <2>1. Kept /\ (Reading \/ Resolving)
    BY <1>1, <1>4, KeptStep
  <2>2. KnownInv
    BY <2>1 DEF ImportInv
  <2>3. \A key : Called(key)' = Called(key)
    BY <2>1, SheetKept DEF Kept
  <2> QED
    BY <2>1, <2>2, <2>3 DEF KnownInv, Kept
<1> QED
  BY <1>2, <1>3, <1>4

LEMMA OwnIssuesRead ==
  ASSUME WorkbookAssumption, TypeOK, RowsInv, KnownInv, ReadRow, ~file.rows[next].blank
  PROVE  CellIssues(file.rows[next], next) \cup DuplicateIssues(file.rows[next], next)
           = OwnIssues(next)
<1> DEFINE row == file.rows[next]
           key == Key(row.name)
<1>1. /\ next \in DOMAIN file.rows /\ next \in Nat \ {0}
      /\ \A i \in ReadSoFar : i < next
      /\ \A i \in Occupied : i < next => i \in ReadSoFar
  BY RowAdded
<1>2. key \in Keys
  <2>1. row \in SheetRows
    BY <1>1, FileTyped
  <2> QED
    BY <2>1, KeyTyped DEF SheetRows
<1>3. next \in NamedRows <=> ~NameRefused(row)
  BY <1>1, OccupiedRow, Zenon DEF NamedRows
<1>4. ASSUME ~NameRefused(row)
      PROVE  Taken(row) <=> next \notin FirstCalled(key)
  <2>1. next \in Called(key)
    BY <1>1, <1>4, CalledRow, OccupiedRow
  <2>2. \A j \in Called(key) : j \in Nat /\ j \in Occupied
    BY CalledRow, OccupiedRow, FileTyped
  <2>3. next \in FirstCalled(key) <=> \A j \in Called(key) : next <= j
    BY <2>1, FirstCalledRow
  <2>4. next \in FirstCalled(key) <=> Called(key) \cap ReadSoFar = {}
    <3>1. ASSUME NEW j \in Called(key) PROVE j \in ReadSoFar <=> ~(next <= j)
      <4>1. j \in Nat /\ j \in Occupied /\ next \in Nat
        BY <1>1, <2>2
      <4>2. j \in ReadSoFar => j < next
        BY <1>1
      <4>3. j < next => j \in ReadSoFar
        BY <1>1, <4>1
      <4> QED
        BY <4>1, <4>2, <4>3
    <3> QED
      BY <2>3, <3>1
  <2>5. known[key] = 0 <=> Called(key) \cap ReadSoFar = {}
    <3>1. ASSUME known[key] # 0
          PROVE  rows[known[key]].row \in Called(key) \cap ReadSoFar
      <4>1. known[key] \in DOMAIN rows /\ rows[known[key]].row \in Called(key)
        BY <1>2, <3>1 DEF KnownInv
      <4>2. \A k \in DOMAIN rows : rows[k].row \in ReadSoFar
        BY DEF RowsInv
      <4> QED
        BY <4>1, <4>2
    <3> QED
      BY <1>2, <3>1 DEF KnownInv
  <2> QED
    BY <2>4, <2>5 DEF Taken
<1> HIDE DEF row, key
<1>5. DuplicateIssues(row, next)
        = {x \in {Issue(next, "name", "duplicate")} :
             next \in NamedRows /\ next \notin FirstCalled(key)}
  BY <1>3, <1>4 DEF DuplicateIssues
<1> QED
  BY <1>5 DEF OwnIssues, row, key

LEMMA Lookup ==
  ASSUME TypeOK, Resolving, RowsInv, KnownInv, NEW key \in Keys, NEW k \in DOMAIN rows
  PROVE  /\ known[key] = 0 <=> Called(key) = {}
         /\ known[key] = k <=> rows[k].row \in FirstCalled(key)
         /\ known[key] # 0 => known[key] \in DOMAIN rows
<1>1. ReadSoFar = DOMAIN file.rows
  BY DEF ReadSoFar, Reading, Resolving
<1>2. Called(key) \cap ReadSoFar = Called(key)
  BY <1>1, CalledRow, OccupiedRow
<1>3. /\ known[key] = 0 => Called(key) = {}
      /\ known[key] # 0 =>
           known[key] \in DOMAIN rows /\ rows[known[key]].row \in FirstCalled(key)
  BY <1>2, FirstCalledRow DEF KnownInv
<1>4. DOMAIN rows \subseteq Nat \ {0}
  BY DEF TypeOK
<1>5. ASSUME rows[k].row \in FirstCalled(key) PROVE known[key] = k
  <2>1. known[key] # 0
    BY <1>3, <1>5, FirstCalledRow
  <2> DEFINE m == known[key]
  <2>2. m \in DOMAIN rows /\ rows[m].row \in FirstCalled(key)
    BY <1>3, <2>1
  <2>3. rows[m].row \in Nat /\ rows[k].row \in Nat /\ m \in Nat /\ k \in Nat
    BY <1>4, <2>2, RowTyped DEF RowRecords
  <2>4. rows[m].row <= rows[k].row /\ rows[k].row <= rows[m].row
    BY <1>5, <2>2, FirstCalledRow
  <2>5. ~(m < k) /\ ~(k < m)
    <3>1. \A j, n \in DOMAIN rows : j < n => rows[j].row < rows[n].row
      BY DEF RowsInv
    <3> HIDE DEF m
    <3>2. m < k => rows[m].row < rows[k].row
      BY <2>2, <3>1
    <3>3. k < m => rows[k].row < rows[m].row
      BY <2>2, <3>1
    <3> QED
      BY <2>3, <2>4, <3>2, <3>3
  <2> QED
    BY <2>3, <2>5
<1> QED
  BY <1>3, <1>4, <1>5, FirstCalledRow

LEMMA RefIssuesMore ==
  ASSUME NEW i, NEW keys, NEW key
  PROVE  /\ RefIssues(i, keys \cup {key}) = RefIssues(i, keys) \cup RefIssues(i, {key})
         /\ RefIssues(i, {}) = {}
         /\ Called(key) = {} /\ i \notin FirstCalled(key) =>
              RefIssues(i, {key}) = {Issue(i, "predecessors", "unknown")}
         /\ Called(key) # {} /\ i \in FirstCalled(key) =>
              RefIssues(i, {key}) = {Issue(i, "predecessors", "self")}
         /\ Called(key) # {} /\ i \notin FirstCalled(key) => RefIssues(i, {key}) = {}
<1>1. RefIssues(i, keys \cup {key}) = RefIssues(i, keys) \cup RefIssues(i, {key})
  BY DEF RefIssues
<1>2. RefIssues(i, {}) = {}
  BY DEF RefIssues
<1>3. /\ Called(key) = {} /\ i \notin FirstCalled(key) =>
           RefIssues(i, {key}) = {Issue(i, "predecessors", "unknown")}
      /\ Called(key) # {} /\ i \in FirstCalled(key) =>
           RefIssues(i, {key}) = {Issue(i, "predecessors", "self")}
      /\ Called(key) # {} /\ i \notin FirstCalled(key) => RefIssues(i, {key}) = {}
  BY DEF RefIssues
<1> QED
  BY <1>1, <1>2, <1>3

-----------------------------------------------------------------------------
(* Pass 2. *)
LEMMA ResolveFacts ==
  ASSUME TypeOK, RowsInv, KnownInv, ResolveRef
  PROVE  LET key == Key(rows[next].preds[ref]) IN
         /\ next \in DOMAIN rows /\ ref \in Nat \ {0} /\ next \in Nat \ {0}
         /\ key \in Keys /\ known[key] = Target(next, ref)
         /\ Target(next, ref) \in Nat
         /\ ref \in DOMAIN rows[next].preds
         /\ Target(next, ref) = 0 <=> Called(key) = {}
         /\ Target(next, ref) = next <=> rows[next].row \in FirstCalled(key)
         /\ KeysBefore(next, ref) = KeysBefore(next, ref - 1) \cup {key}
         /\ {Target(next, j) : j \in 1 .. ref}
              = {Target(next, j) : j \in 1 .. ref - 1} \cup {Target(next, ref)}
         /\ UNCHANGED <<file, rows, known, phase, next, tasks>> /\ ref' = ref + 1
<1> DEFINE key == Key(rows[next].preds[ref])
<1>1. /\ next \in DOMAIN rows /\ ref \in Nat \ {0} /\ next \in Nat \ {0} /\ phase = "resolve"
  BY DEF ResolveRef, TypeOK
<1>2. ref \in DOMAIN rows[next].preds
  BY <1>1, RowTyped DEF ResolveRef, RowRecords
<1>3. key \in Keys /\ known[key] = Target(next, ref) /\ Target(next, ref) \in Nat
  BY <1>1, <1>2, RowTyped DEF Target
<1>4. /\ Target(next, ref) = 0 <=> Called(key) = {}
      /\ Target(next, ref) = next <=> rows[next].row \in FirstCalled(key)
  BY <1>1, <1>3, Lookup DEF Resolving
<1>5. 1 .. ref = (1 .. ref - 1) \cup {ref}
  BY <1>1
<1>6. KeysBefore(next, ref) = KeysBefore(next, ref - 1) \cup {key}
  BY <1>5 DEF KeysBefore
<1>7. {Target(next, j) : j \in 1 .. ref}
        = {Target(next, j) : j \in 1 .. ref - 1} \cup {Target(next, ref)}
  BY <1>5
<1> QED
  BY <1>1, <1>2, <1>3, <1>4, <1>6, <1>7 DEF ResolveRef

LEMMA IssuesStep ==
  ASSUME WorkbookAssumption, ImportInv, [Next]_vars, (Reading \/ Resolving)'
  PROVE  IssuesInv'
<1>1. TypeOK /\ StartInv
  BY DEF ImportInv
<1>2. CASE Open
  <2>1. Reading' /\ ~Resolving'
    BY <1>2 DEF Open, Refused, Reading, Resolving
  <2>2. issues' = {} /\ ReadSoFar' = {}
    BY <1>1, <1>2, <2>1, RowsOpen
  <2> QED
    BY <2>1, <2>2 DEF IssuesInv
<1>3. CASE ReadRow
  <2>1. Reading /\ Reading' /\ ~Resolving'
    BY <1>3 DEF ReadRow, Reading, Resolving
  <2>2. RowsInv /\ KnownInv /\ issues = UNION {OwnIssues(i) : i \in Occupied \cap ReadSoFar}
    BY <2>1 DEF ImportInv, IssuesInv
  <2>3. next \in DOMAIN file.rows /\ ReadSoFar' = ReadSoFar \cup {next} /\ file' = file
    BY <1>1, <1>3, <2>2, RowAdded
  <2>4. Occupied' = Occupied /\ \A i : OwnIssues(i)' = OwnIssues(i)
    BY <2>3, SheetKept
  <2>5. issues' = UNION {OwnIssues(i) : i \in Occupied \cap ReadSoFar'}
    <3>1. CASE file.rows[next].blank
      <4>1. next \notin Occupied /\ issues' = issues
        BY <1>1, <1>3, <2>2, <3>1, OccupiedRow, RowAdded
      <4>2. Occupied \cap ReadSoFar' = Occupied \cap ReadSoFar
        BY <2>3, <4>1
      <4> QED
        BY <2>2, <4>1, <4>2
    <3>2. CASE ~file.rows[next].blank
      <4>1. next \in Occupied
        BY <2>3, <3>2, OccupiedRow
      <4>2. issues' = issues \cup CellIssues(file.rows[next], next)
                             \cup DuplicateIssues(file.rows[next], next)
        BY <1>3, <3>2 DEF ReadRow
      <4>3. issues' = issues \cup OwnIssues(next)
        BY <1>1, <1>3, <2>2, <3>2, <4>2, OwnIssuesRead
      <4>4. Occupied \cap ReadSoFar' = (Occupied \cap ReadSoFar) \cup {next}
        BY <2>3, <4>1
      <4> QED
        BY <2>2, <4>3, <4>4
    <3> QED
      BY <3>1, <3>2
  <2>6. issues' = UNION {OwnIssues(i)' : i \in Occupied' \cap ReadSoFar'}
    BY <2>4, <2>5
  <2> QED
    BY <2>1, <2>6 DEF IssuesInv
<1>4. CASE ~Open /\ ~ReadRow
  <2>1. /\ Kept /\ RowsInv /\ (Reading' => UNCHANGED vars) /\ (Reading \/ Resolving)
        /\ KnownInv /\ IssuesInv
    BY <1>1, <1>4, KeptStep DEF ImportInv
  <2>2. /\ Occupied' = Occupied /\ \A i : OwnIssues(i)' = OwnIssues(i)
        /\ \A i, keys : RefIssues(i, keys)' = RefIssues(i, keys)
        /\ rows' = rows
    BY <2>1, SheetKept DEF Kept
  <2>3. /\ AllOwn' = AllOwn
        /\ \A n : RefsDone(n)' = RefsDone(n) /\ \A m : RefsNow(n, m)' = RefsNow(n, m)
    <3>1. \A k, n : KeysBefore(k, n)' = KeysBefore(k, n) /\ AllKeys(k)' = AllKeys(k)
      BY <2>2 DEF KeysBefore, AllKeys
    <3> QED
      BY <2>2, <3>1 DEF AllOwn, RefsDone, RefsNow
  <2>4. Resolving => issues = AllOwn \cup RefsDone(next) \cup RefsNow(next, ref)
    BY <2>1 DEF IssuesInv
  <2>5. SUFFICES /\ Reading' => issues' = UNION {OwnIssues(i) : i \in Occupied \cap ReadSoFar'}
                 /\ Resolving' =>
                      issues' = AllOwn \cup RefsDone(next') \cup RefsNow(next', ref')
    <3>1. RefsDone(next)' = RefsDone(next') /\ RefsNow(next, ref)' = RefsNow(next', ref')
      BY <2>2, <2>3 DEF RefsDone, RefsNow, AllKeys, KeysBefore
    <3> QED
      BY <2>2, <2>3, <3>1 DEF IssuesInv
  <2>6. ~(Reading' /\ Resolving') /\ ~(Reading /\ Resolving)
    BY DEF Reading, Resolving
  <2>7. CASE Reading'
    <3>1. UNCHANGED vars
      BY <2>1, <2>7
    <3>2. Reading /\ issues' = issues /\ ReadSoFar' = ReadSoFar
      BY <2>7, <3>1 DEF vars, Reading, ReadSoFar
    <3> QED
      BY <2>1, <2>6, <2>7, <3>2 DEF IssuesInv
  <2>8. CASE Resolving'
    <3>1. CASE CountRows
      <4>1. Reading /\ issues' = issues /\ next' = 1 /\ ref' = ref
        BY <2>8, <3>1 DEF CountRows, Refused, Reading, Resolving
      <4>2. ref = 1
        BY <1>1, <4>1 DEF StartInv, Reading
      <4>3. ReadSoFar' = DOMAIN file.rows /\ ReadSoFar = ReadSoFar'
        BY <2>1, <2>8 DEF Kept, ReadSoFar, Reading, Resolving
      <4>4. Occupied \cap ReadSoFar = Occupied
        BY <4>3, OccupiedRow
      <4>5. issues = AllOwn
        BY <2>1, <4>1, <4>4 DEF IssuesInv, AllOwn
      <4>6. RefsDone(1) = {}
        BY 1 .. 1 - 1 = {} DEF RefsDone
      <4>7. RefsNow(1, 1) = {}
        <5>1. KeysBefore(1, 1 - 1) = {}
          BY DEF KeysBefore
        <5> QED
          BY <5>1, RefIssuesMore DEF RefsNow
      <4> QED
        BY <2>6, <2>8, <4>1, <4>2, <4>5, <4>6, <4>7
    <3>2. CASE ResolveRef
      <4> DEFINE key == Key(rows[next].preds[ref])
                 i == rows[next].row
      <4>1. /\ next \in DOMAIN rows /\ ref \in Nat \ {0} /\ next \in Nat \ {0}
            /\ Target(next, ref) = 0 <=> Called(key) = {}
            /\ Target(next, ref) = next <=> i \in FirstCalled(key)
            /\ KeysBefore(next, ref) = KeysBefore(next, ref - 1) \cup {key}
            /\ next' = next /\ ref' = ref + 1
        BY <1>1, <2>1, <3>2, ResolveFacts
      <4>2. Resolving
        BY <3>2 DEF ResolveRef, Resolving
      <4>3. next <= Len(rows)
        BY <3>2 DEF ResolveRef
      <4>4. issues' = issues \cup RefIssues(i, {key})
        <5>1. \/ Target(next, ref) = 0 /\ issues' = issues \cup {Issue(i, "predecessors", "unknown")}
              \/ Target(next, ref) = next /\ issues' = issues \cup {Issue(i, "predecessors", "self")}
              \/ Target(next, ref) \notin {0, next} /\ issues' = issues
          BY <3>2 DEF ResolveRef, Target
        <5>2. ~(Target(next, ref) = 0 /\ Target(next, ref) = next)
          BY <4>1
        <5> HIDE DEF key, i
        <5> QED
          BY <4>1, <5>1, <5>2, RefIssuesMore
      <4>5. RefsNow(next, ref + 1) = RefsNow(next, ref) \cup RefIssues(i, {key})
        <5>1. (ref + 1) - 1 = ref
          BY <4>1
        <5> HIDE DEF key
        <5> QED
          BY <4>1, <4>3, <5>1, RefIssuesMore DEF RefsNow
      <4> HIDE DEF i, key
      <4> QED
        BY <2>4, <2>6, <2>8, <4>1, <4>2, <4>4, <4>5
    <3>3. CASE BuildTask
      <4>1. Resolving /\ TasksInv /\ issues' = issues /\ next' = next + 1 /\ ref' = 1
        BY <3>3 DEF BuildTask, Resolving, ImportInv
      <4>2. next \in DOMAIN rows /\ next \in Nat \ {0} /\ next <= Len(rows) /\ Len(rows) \in Nat
        BY <1>1, <3>3 DEF BuildTask, TypeOK
      <4>3. ref - 1 = Len(rows[next].preds)
        <5>1. ref <= Len(rows[next].preds) + 1 /\ ref > Len(rows[next].preds)
          BY <3>3, <4>1, <4>2 DEF BuildTask, TasksInv
        <5>2. ref \in Nat /\ Len(rows[next].preds) \in Nat
          BY <1>1, <4>2, RowTyped DEF TypeOK, RowRecords
        <5> QED
          BY <5>1, <5>2
      <4>4. RefsNow(next, ref) = RefIssues(rows[next].row, AllKeys(next))
        BY <4>2, <4>3 DEF AllKeys, RefsNow
      <4>5. RefsDone(next + 1) = RefsDone(next) \cup RefIssues(rows[next].row, AllKeys(next))
        <5>1. 1 .. (next + 1) - 1 = (1 .. next - 1) \cup {next}
          BY <4>2
        <5> QED
          BY <5>1 DEF RefsDone
      <4>6. RefsNow(next + 1, 1) = {}
        <5>1. KeysBefore(next + 1, 1 - 1) = {}
          BY DEF KeysBefore
        <5> QED
          BY <5>1, RefIssuesMore DEF RefsNow
      <4> QED
        BY <2>4, <2>6, <2>8, <4>1, <4>4, <4>5, <4>6
    <3>4. CASE FinishParse \/ UNCHANGED vars
      <4>1. Resolving /\ issues' = issues /\ next' = next /\ ref' = ref
        BY <2>8, <3>4 DEF FinishParse, Refused, Resolving, vars
      <4> QED
        BY <2>4, <2>6, <2>8, <4>1
    <3>5. ~Export /\ ~CreateProject
      BY <2>8 DEF Export, CreateProject, Resolving
    <3> QED
      BY <1>4, <3>1, <3>2, <3>3, <3>4, <3>5 DEF Next
  <2> QED
    BY <2>7, <2>8
<1> QED
  BY <1>2, <1>3, <1>4

LEMMA CleanRow ==
  ASSUME NEW i \in Occupied, AllOwn = {}
  PROVE  /\ ~NameRefused(file.rows[i]) /\ ~DurationRefused(file.rows[i])
         /\ file.rows[i].wrong \cap Fields = {}
         /\ i \in FirstCalled(Key(file.rows[i].name))
<1>1. OwnIssues(i) = {}
  BY DEF AllOwn
<1>2. CellIssues(file.rows[i], i) = {}
  BY <1>1 DEF OwnIssues
<1>3. \A field \in Fields : ~CellRefused(file.rows[i], field)
  BY <1>2 DEF CellIssues
<1>4. ~NameRefused(file.rows[i]) /\ ~DurationRefused(file.rows[i])
  BY <1>3 DEF CellRefused, Fields
<1>5. file.rows[i].wrong \cap Fields = {}
  BY <1>3 DEF CellRefused
<1>6. i \in NamedRows
  BY <1>4, Zenon DEF NamedRows
<1> QED
  BY <1>1, <1>4, <1>5, <1>6 DEF OwnIssues

LEMMA NotSkipped ==
  ASSUME RowsInv, AllOwn = {}, NEW k \in DOMAIN rows
  PROVE  ~rows[k].skip
<1>1. rows[k].row \in Occupied
  BY DEF RowsInv
<1> QED
  BY <1>1, RowsRead, CleanRow

LEMMA ResolvesMore ==
  ASSUME NEW k, NEW n \in Nat \ {0}, NEW s, NEW t, Resolves(s, k, n - 1),
         Target(k, n) \in Nat,
         {Target(k, j) : j \in 1 .. n} = {Target(k, j) : j \in 1 .. n - 1} \cup {Target(k, n)},
         t = IF Target(k, n) \in {0, k} \/ \E i \in DOMAIN s : s[i] = Target(k, n)
               THEN s ELSE Append(s, Target(k, n))
  PROVE  Resolves(t, k, n)
<1> DEFINE new == Target(k, n)
           found(u) == {u[i] : i \in DOMAIN u}
           all(m) == {Target(k, j) : j \in 1 .. m}
           plain(m) == /\ \A j \in 1 .. m : Target(k, j) \notin {0, k}
                       /\ \A i, j \in 1 .. m : Target(k, i) = Target(k, j) => i = j
<1>1. s \in Seq(Nat \ {0}) /\ NoRepeats(s) /\ found(s) = all(n - 1) \ {0, k}
  BY DEF Resolves
<1>2. plain(n - 1) => Len(s) = n - 1 /\ \A j \in 1 .. n - 1 : s[j] = Target(k, j)
  BY DEF Resolves
<1>3. plain(n) => plain(n - 1) /\ new \notin {0, k} /\ \A j \in 1 .. n - 1 : Target(k, j) # new
  <2>1. 1 .. n - 1 \subseteq 1 .. n /\ n \in 1 .. n /\ n \notin 1 .. n - 1
    OBVIOUS
  <2> QED
    BY <2>1
<1>4. all(n) = all(n - 1) \cup {new}
  OBVIOUS
<1>5. CASE new \in {0, k} /\ t = s
  <2>1. found(t) = all(n) \ {0, k}
    BY <1>1, <1>4, <1>5
  <2>2. ~plain(n)
    BY <1>3, <1>5
  <2> QED
    BY <1>1, <1>5, <2>1, <2>2 DEF Resolves
<1>6. CASE new \notin {0, k} /\ (\E i \in DOMAIN s : s[i] = new) /\ t = s
  <2>1. new \in found(s)
    BY <1>6
  <2>2. found(t) = all(n) \ {0, k}
    BY <1>1, <1>4, <1>6, <2>1
  <2>3. ~plain(n)
    <3>1. new \in all(n - 1)
      BY <1>1, <2>1
    <3> QED
      BY <1>3, <3>1
  <2> QED
    BY <1>1, <1>6, <2>2, <2>3 DEF Resolves
<1>7. CASE new \notin {0, k} /\ ~(\E i \in DOMAIN s : s[i] = new) /\ t = Append(s, new)
  <2>1. new \in Nat \ {0} /\ Len(s) \in Nat
    BY <1>1, <1>7
  <2> HIDE DEF new
  <2>2. /\ t \in Seq(Nat \ {0}) /\ Len(t) = Len(s) + 1 /\ DOMAIN t = DOMAIN s \cup {Len(s) + 1}
        /\ \A i \in DOMAIN s : t[i] = s[i]
        /\ t[Len(s) + 1] = new /\ Len(s) + 1 \notin DOMAIN s /\ DOMAIN s = 1 .. Len(s)
    BY <1>1, <1>7, <2>1
  <2>3. NoRepeats(t)
    BY <1>1, <1>7, <2>2 DEF NoRepeats
  <2>4. found(t) = found(s) \cup {new}
    BY <2>2
  <2>5. found(t) = all(n) \ {0, k}
    BY <1>1, <1>4, <1>7, <2>4
  <2>6. plain(n) => Len(t) = n /\ \A j \in 1 .. n : t[j] = Target(k, j)
    <3>1. SUFFICES ASSUME plain(n) PROVE Len(t) = n /\ \A j \in 1 .. n : t[j] = Target(k, j)
      OBVIOUS
    <3>2. Len(s) = n - 1 /\ \A j \in 1 .. n - 1 : s[j] = Target(k, j)
      BY <1>2, <1>3, <3>1
    <3>3. t[n] = Target(k, n) /\ Len(t) = n
      BY <2>2, <3>2 DEF new
    <3>4. \A j \in 1 .. n - 1 : t[j] = Target(k, j)
      BY <2>2, <3>2
    <3> QED
      BY <3>3, <3>4
  <2> QED
    BY <2>2, <2>3, <2>5, <2>6 DEF Resolves
<1> QED
  BY <1>5, <1>6, <1>7

LEMMA ResolvesNone ==
  ASSUME NEW k PROVE Resolves(<<>>, k, 0)
<1>1. {<<>>[i] : i \in DOMAIN <<>>} = {} /\ {Target(k, j) : j \in 1 .. 0} = {}
  OBVIOUS
<1>2. NoRepeats(<<>>)
  BY DEF NoRepeats
<1> QED
  BY <1>1, <1>2 DEF Resolves

LEMMA ResolvesKept ==
  ASSUME UNCHANGED <<rows, known>>
  PROVE  \A s, k, n : Resolves(s, k, n)' <=> Resolves(s, k, n)
BY DEF Resolves, Target

LEMMA TasksStep ==
  ASSUME WorkbookAssumption, ImportInv, [Next]_vars, Resolving'
  PROVE  TasksInv'
<1>1. TypeOK /\ StartInv
  BY DEF ImportInv
<1>2. next \in Nat \ {0} /\ ref \in Nat \ {0} /\ Len(rows) \in Nat /\ Len(tasks) \in Nat
      /\ DOMAIN rows = 1 .. Len(rows)
  BY <1>1 DEF TypeOK
<1>3. CASE CountRows
  <2>1. /\ phase = "read" /\ phase' = "resolve" /\ Len(rows) <= MaxTasks /\ next' = 1
        /\ UNCHANGED <<rows, known, ref, resolved, tasks, issues>>
    BY <1>3 DEF CountRows, Refused, Resolving
  <2>2. ref = 1 /\ resolved = <<>> /\ tasks = <<>>
    BY <1>1, <2>1 DEF StartInv
  <2>3. 1 \in DOMAIN rows => Len(rows[1].preds) \in Nat
    BY <1>1, RowTyped DEF RowRecords
  <2>4. Resolves(resolved, 1, 1 - 1)'
    <3>1. Resolves(<<>>, 1, 0)
      BY ResolvesNone
    <3>2. Resolves(resolved, 1, 1 - 1)
      BY <2>2, <3>1
    <3> QED
      BY <2>1, <3>2 DEF Resolves, Target
  <2>5. next' <= Len(rows') + 1 /\ Len(rows') <= MaxTasks /\ phase' # "parsed"
    BY <1>2, <2>1
  <2>6. next' <= Len(rows') =>
          ref' <= Len(rows'[next'].preds) + 1 /\ Resolves(resolved, next, ref - 1)'
    <3>1. Resolves(resolved, next, ref - 1)'
      BY <2>1, <2>2, <2>4 DEF Resolves, Target
    <3>2. next' <= Len(rows') => ref' <= Len(rows'[next'].preds) + 1
      BY <1>2, <2>1, <2>2, <2>3
    <3> QED
      BY <3>1, <3>2
  <2>7. Len(tasks') = next' - 1 /\ \A k \in 1 .. next' - 1 : Built(k)'
    BY <2>1, <2>2
  <2> QED
    BY <2>1, <2>2, <2>5, <2>6, <2>7 DEF TasksInv
<1>4. CASE ResolveRef
  <2>1. Resolving /\ TasksInv /\ RowsInv /\ KnownInv
    BY <1>4 DEF ResolveRef, Resolving, ImportInv
  <2>2. /\ next \in DOMAIN rows /\ Target(next, ref) \in Nat /\ ref \in DOMAIN rows[next].preds
        /\ {Target(next, j) : j \in 1 .. ref}
             = {Target(next, j) : j \in 1 .. ref - 1} \cup {Target(next, ref)}
        /\ UNCHANGED <<file, rows, known, phase, next, tasks>> /\ ref' = ref + 1
    BY <1>1, <1>4, <2>1, ResolveFacts
  <2>3. phase = "resolve" /\ next <= Len(rows) /\ ref <= Len(rows[next].preds)
    BY <1>4 DEF ResolveRef
  <2>4. Resolves(resolved, next, ref - 1)
    BY <2>1, <2>3 DEF TasksInv
  <2>5. resolved' = IF Target(next, ref) \in {0, next}
                       \/ \E i \in DOMAIN resolved : resolved[i] = Target(next, ref)
                      THEN resolved ELSE Append(resolved, Target(next, ref))
    <3>1. Target(next, ref) = known[Key(rows[next].preds[ref])]
      BY DEF Target
    <3> QED
      BY <1>4, <3>1 DEF ResolveRef
  <2>6. Resolves(resolved', next, ref)
    BY <1>2, <2>2, <2>4, <2>5, ResolvesMore
  <2>7. Resolves(resolved, next, ref - 1)'
    <3>1. ref' - 1 = ref
      BY <1>2, <2>2
    <3>2. Resolves(resolved', next', ref' - 1)
      BY <2>2, <2>6, <3>1
    <3> DEFINE all == {Target(next, j) : j \in 1 .. ref - 1}
               found == {resolved[i] : i \in DOMAIN resolved}
               plain == /\ \A j \in 1 .. ref - 1 : Target(next, j) \notin {0, next}
                        /\ \A i, j \in 1 .. ref - 1 : Target(next, i) = Target(next, j) => i = j
               same == Len(resolved) = ref - 1
                       /\ \A j \in 1 .. ref - 1 : resolved[j] = Target(next, j)
    <3>3. \A k, j : Target(k, j)' = Target(k, j)
      BY <2>2 DEF Target
    <3>4. resolved' \in Seq(Nat \ {0}) /\ NoRepeats(resolved)'
      BY <3>2 DEF Resolves, NoRepeats
    <3>5. all' = {Target(next', j) : j \in 1 .. ref' - 1}
      BY <3>3
    <3>6. found' = all' \ {0, next'}
      BY <3>2, <3>5 DEF Resolves
    <3>7. plain' => same'
      BY <3>2, <3>3 DEF Resolves
    <3> QED
      BY <3>4, <3>6, <3>7 DEF Resolves
  <2>8. issues' = {} => issues = {}
    BY <1>4 DEF ResolveRef
  <2>9. \A k : Built(k)' <=> Built(k)
    BY <2>2, ResolvesKept DEF Built
  <2>10. ref' <= Len(rows'[next'].preds) + 1
    <3>1. Len(rows[next].preds) \in Nat
      BY <1>1, <2>2, RowTyped DEF RowRecords
    <3> QED
      BY <1>2, <2>2, <2>3, <3>1
  <2>11. issues' = {} => Len(tasks') = next' - 1 /\ \A k \in 1 .. next' - 1 : Built(k)'
    BY <2>1, <2>2, <2>8, <2>9 DEF TasksInv
  <2>12. ~(next' > Len(rows')) /\ phase' # "parsed"
    BY <1>2, <2>2, <2>3
  <2>13. next' <= Len(rows') + 1 /\ Len(rows') <= MaxTasks
    BY <2>1, <2>2 DEF TasksInv
  <2> QED
    BY <2>7, <2>10, <2>11, <2>12, <2>13 DEF TasksInv
<1>5. CASE BuildTask
  <2>1. /\ Resolving /\ TasksInv /\ RowsInv /\ IssuesInv
        /\ phase = "resolve" /\ next <= Len(rows) /\ ref > Len(rows[next].preds)
        /\ next' = next + 1 /\ ref' = 1 /\ resolved' = <<>>
        /\ UNCHANGED <<rows, known, phase, issues>>
    BY <1>5 DEF BuildTask, Resolving, ImportInv
  <2>2. next \in DOMAIN rows
    BY <1>2, <2>1
  <2>3. next' <= Len(rows') + 1 /\ Len(rows') <= MaxTasks /\ phase' # "parsed"
    BY <1>2, <2>1 DEF TasksInv
  <2>4. next' <= Len(rows') =>
          ref' <= Len(rows'[next'].preds) + 1 /\ Resolves(resolved, next, ref - 1)'
    <3>1. Resolves(<<>>, next + 1, 0)
      BY ResolvesNone
    <3>2. Resolves(resolved, next, ref - 1)'
      <4>1. ref' - 1 = 0
        BY <2>1
      <4> QED
        BY <2>1, <3>1, <4>1 DEF Resolves, Target
    <3>3. next + 1 <= Len(rows) => Len(rows[next + 1].preds) \in Nat
      <4>1. next + 1 <= Len(rows) => next + 1 \in DOMAIN rows
        BY <1>2
      <4> QED
        BY <1>1, <4>1, RowTyped DEF RowRecords
    <3> QED
      BY <2>1, <3>2, <3>3
  <2>5. ASSUME issues' = {}
        PROVE  Len(tasks') = next' - 1 /\ \A k \in 1 .. next' - 1 : Built(k)'
    <3>1. AllOwn = {}
      BY <2>1, <2>5 DEF IssuesInv
    <3>2. ~rows[next].skip
      BY <2>1, <2>2, <3>1, NotSkipped
    <3> DEFINE task == [name |-> rows[next].name, dur |-> rows[next].dur,
                        preds |-> resolved, snb |-> rows[next].snb,
                        brimful |-> rows[next].brimful]
    <3>3. tasks' = Append(tasks, task)
      BY <1>5, <3>2 DEF BuildTask
    <3>4. Len(tasks) = next - 1 /\ \A k \in 1 .. next - 1 : Built(k)
      BY <2>1, <2>5 DEF TasksInv
    <3>5. Resolves(resolved, next, Len(rows[next].preds))
      <4>1. ref <= Len(rows[next].preds) + 1 /\ Resolves(resolved, next, ref - 1)
        BY <2>1 DEF TasksInv
      <4>2. Len(rows[next].preds) \in Nat
        BY <1>1, <2>2, RowTyped DEF RowRecords
      <4>3. ref - 1 = Len(rows[next].preds)
        BY <1>2, <2>1, <4>1, <4>2
      <4> QED
        BY <4>1, <4>3
    <3>6. tasks \in Seq(TaskRecords)
      BY <1>1 DEF TypeOK
    <3>7. /\ Len(tasks') = next /\ tasks'[next] = task
          /\ \A k \in 1 .. next - 1 : tasks'[k] = tasks[k]
      <4> HIDE DEF task
      <4> QED
        BY <1>2, <3>3, <3>4, <3>6
    <3>8. \A k \in 1 .. next : Built(k)'
      <4>1. SUFFICES ASSUME NEW k \in 1 .. next PROVE Built(k)'
        OBVIOUS
      <4>2. CASE k = next
        <5>1. ~rows'[k].skip /\ tasks'[k] = task /\ rows' = rows
          BY <2>1, <3>2, <3>7, <4>2
        <5>2. Resolves(tasks[k].preds, k, Len(rows[k].preds))'
          <6>1. tasks'[k].preds = resolved
            BY <5>1
          <6>2. Resolves(tasks'[k].preds, k, Len(rows[k].preds))
            BY <3>5, <4>2, <6>1
          <6> QED
            BY <2>1, <6>2 DEF Resolves, Target
        <5> QED
          BY <4>2, <5>1, <5>2 DEF Built
      <4>3. CASE k # next
        <5>1. k \in 1 .. next - 1
          BY <1>2, <4>1, <4>3
        <5>2. Built(k) /\ tasks'[k] = tasks[k] /\ rows' = rows
          BY <2>1, <3>4, <3>7, <5>1
        <5>3. Resolves(tasks[k].preds, k, Len(rows[k].preds))'
          <6>1. Resolves(tasks'[k].preds, k, Len(rows[k].preds))
            BY <5>2 DEF Built
          <6> QED
            BY <2>1, <6>1 DEF Resolves, Target
        <5> QED
          BY <5>2, <5>3 DEF Built
      <4> QED
        BY <4>2, <4>3
    <3>9. next' - 1 = next
      BY <1>2, <2>1
    <3> QED
      BY <3>7, <3>8, <3>9
  <2>6. next' > Len(rows') => ref' = 1 /\ resolved' = <<>>
    BY <2>1
  <2> QED
    BY <2>3, <2>4, <2>5, <2>6 DEF TasksInv
<1>6. CASE FinishParse \/ UNCHANGED vars
  <2>1. /\ Resolving /\ UNCHANGED <<rows, known, next, ref, resolved, tasks>> /\ issues' = issues
        /\ phase' = "parsed" =>
             \/ phase = "parsed"
             \/ issues = {} /\ tasks # <<>> /\ next > Len(rows)
    BY <1>6 DEF FinishParse, Refused, Resolving, vars
  <2>2. TasksInv
    BY <2>1 DEF ImportInv
  <2>3. \A k : Built(k)' <=> Built(k)
    BY <2>1, ResolvesKept DEF Built
  <2>4. Resolves(resolved, next, ref - 1)' <=> Resolves(resolved, next, ref - 1)
    BY <2>1 DEF Resolves, Target
  <2>5. phase' = "parsed" => issues = {} /\ next = Len(rows) + 1 /\ tasks # <<>>
    BY <1>2, <2>1, <2>2 DEF TasksInv
  <2> QED
    BY <2>1, <2>2, <2>3, <2>4, <2>5 DEF TasksInv
<1>7. ~Export /\ ~Open /\ ~ReadRow /\ ~CreateProject
  BY DEF Export, Open, ReadRow, CreateProject, Refused, Resolving
<1> QED
  BY <1>3, <1>4, <1>5, <1>6, <1>7 DEF Next

-----------------------------------------------------------------------------
(* What has been parsed. *)
LEMMA WaitsForRange ==
  ASSUME NEW p, NEW t \in DOMAIN p
  PROVE  WaitsFor(p, t) = {p[t].preds[i] : i \in DOMAIN p[t].preds}
BY DEF WaitsFor, PredsOf, AsProject

LEMMA ParsedBuilt ==
  ASSUME ImportInv, phase = "parsed"
  PROVE  /\ TypeOK /\ Resolving /\ RowsInv /\ KnownInv
         /\ AllOwn = {} /\ Len(tasks) = Len(rows) /\ Len(rows) <= MaxTasks /\ tasks # <<>>
         /\ DOMAIN tasks = DOMAIN rows /\ DOMAIN tasks \subseteq Nat \ {0}
         /\ \A k \in DOMAIN tasks : Built(k)
<1>1. TypeOK /\ Resolving
  BY DEF ImportInv, Resolving
<1>2. RowsInv /\ KnownInv /\ IssuesInv /\ TasksInv
  BY <1>1 DEF ImportInv
<1>3. AllOwn = {} /\ issues = {}
  BY <1>1, <1>2 DEF IssuesInv, TasksInv
<1>4. Len(tasks) = Len(rows) /\ \A k \in 1 .. Len(rows) : Built(k)
  BY <1>1, <1>2, <1>3 DEF TasksInv, TypeOK
<1>5. DOMAIN tasks = 1 .. Len(tasks) /\ DOMAIN rows = 1 .. Len(rows)
  BY <1>1 DEF TypeOK
<1> QED
  BY <1>1, <1>2, <1>3, <1>4, <1>5 DEF TasksInv

LEMMA ParsedRow ==
  ASSUME ImportInv, phase = "parsed", NEW t \in DOMAIN tasks
  PROVE  /\ tasks[t].name \in Names /\ known[Key(tasks[t].name)] = t /\ ~TooLong(tasks[t].name)
         /\ WaitsFor(tasks, t)
              = {Target(t, j) : j \in 1 .. Len(rows[t].preds)} \ {0, t}
         /\ NoRepeats(tasks[t].preds)
         /\ \A j \in 1 .. Len(rows[t].preds) :
              Target(t, j) # 0 => Target(t, j) \in DOMAIN tasks
<1>1. /\ TypeOK /\ Resolving /\ RowsInv /\ KnownInv /\ AllOwn = {}
      /\ DOMAIN tasks = DOMAIN rows /\ Built(t)
  BY ParsedBuilt
<1> DEFINE i == rows[t].row
           key == Key(tasks[t].name)
<1>2. i \in Occupied /\ tasks[t].name = file.rows[i].name
  BY <1>1, RowsRead DEF RowsInv, Built
<1>3. i \in FirstCalled(key) /\ ~NameRefused(file.rows[i])
  BY <1>1, <1>2, CleanRow
<1>4. tasks[t].name \in Names /\ key \in Keys
  <2>1. tasks[t] \in TaskRecords
    BY <1>1 DEF TypeOK
  <2>2. tasks[t].name \in Names
    BY <2>1 DEF TaskRecords
  <2> QED
    BY <2>2, KeyTyped
<1>5. known[key] = t
  BY <1>1, <1>3, <1>4, Lookup
<1>6. ~TooLong(tasks[t].name)
  BY <1>2, <1>3 DEF NameRefused
<1>7. Resolves(tasks[t].preds, t, Len(rows[t].preds))
  BY <1>1 DEF Built
<1>8. WaitsFor(tasks, t) = {Target(t, j) : j \in 1 .. Len(rows[t].preds)} \ {0, t}
  <2>1. WaitsFor(tasks, t) = {tasks[t].preds[n] : n \in DOMAIN tasks[t].preds}
    BY WaitsForRange
  <2> QED
    BY <1>7, <2>1 DEF Resolves
<1>9. ASSUME NEW j \in 1 .. Len(rows[t].preds), Target(t, j) # 0
      PROVE  Target(t, j) \in DOMAIN tasks
  <2>1. j \in DOMAIN rows[t].preds
    <3>1. rows[t] \in RowRecords
      BY <1>1, RowTyped
    <3>2. rows[t].preds \in Seq(Names)
      BY <3>1 DEF RowRecords
    <3> QED
      BY <3>2
  <2>2. Key(rows[t].preds[j]) \in Keys
    BY <1>1, <2>1, RowTyped
  <2> QED
    BY <1>1, <1>9, <2>2, Lookup DEF Target
<1> QED
  BY <1>4, <1>5, <1>6, <1>7, <1>8, <1>9 DEF Resolves

LEMMA ParsedPlan == ASSUME ImportInv PROVE ParsedIsPlan
<1> SUFFICES ASSUME phase = "parsed"
             PROVE  /\ tasks # <<>> /\ Len(tasks) <= MaxTasks
                    /\ NamesDistinct(tasks) /\ PredsKnown(tasks)
                    /\ \A t \in DOMAIN tasks : NoRepeats(tasks[t].preds)
  BY DEF ParsedIsPlan
<1>1. tasks # <<>> /\ Len(tasks) <= MaxTasks
  BY ParsedBuilt
<1>2. NamesDistinct(tasks)
  BY ParsedRow DEF NamesDistinct
<1>3. PredsKnown(tasks)
  BY ParsedRow DEF PredsKnown
<1> QED
  BY <1>1, <1>2, <1>3, ParsedRow

LEMMA StartStep == ASSUME ImportInv, [Next]_vars PROVE StartInv'
<1> USE DEF StartInv
<1>1. CASE Export
  BY <1>1 DEF Export
<1>2. CASE Open
  BY <1>2 DEF Open, Refused, ImportInv
<1>3. CASE ReadRow
  BY <1>3 DEF ReadRow, ImportInv
<1>4. CASE CountRows
  BY <1>4 DEF CountRows, Refused
<1>5. CASE ResolveRef \/ BuildTask \/ FinishParse
  BY <1>5 DEF ResolveRef, BuildTask, FinishParse, Refused
<1>6. CASE CreateProject
  BY <1>6 DEF CreateProject
<1>7. CASE UNCHANGED vars
  BY <1>7 DEF vars, ImportInv
<1> QED
  BY <1>1, <1>2, <1>3, <1>4, <1>5, <1>6, <1>7 DEF Next

LEMMA PlanStep == ASSUME ImportInv, [Next]_vars PROVE PlanInv'
<1>1. PlanInv
  BY DEF ImportInv
<1>2. CASE Export
  <2>1. plan' = plan /\ file' = Sheet(plan)
    BY <1>2 DEF Export
  <2>2. Sheet(plan)' = Sheet(plan)
    BY <2>1
  <2>3. plan # <<>> => StorablePlan(plan)'
    BY <1>1, <2>1 DEF PlanInv
  <2> QED
    BY <2>1, <2>2, <2>3 DEF PlanInv
<1>3. CASE CreateProject
  <2>1. CASE phase' = "stored" /\ plan' = tasks /\ Acyclic(AsProject(tasks))
    <3>1. phase = "parsed"
      BY <1>3 DEF CreateProject
    <3>2. NamesDistinct(tasks) /\ PredsKnown(tasks)
      BY <3>1, ParsedPlan DEF ParsedIsPlan
    <3>3. \A t \in DOMAIN tasks : ~TooLong(tasks[t].name)
      BY <3>1, ParsedRow
    <3>4. StorablePlan(tasks)
      BY <2>1, <3>2, <3>3 DEF StorablePlan
    <3> QED
      BY <2>1, <3>4 DEF PlanInv
  <2>2. CASE phase' = "cycle" /\ plan' = plan
    BY <1>1, <1>3, <2>2 DEF CreateProject, PlanInv
  <2> QED
    BY <1>3, <2>1, <2>2 DEF CreateProject
<1>4. CASE Open \/ ReadRow \/ CountRows \/ ResolveRef \/ BuildTask \/ FinishParse
  <2>1. UNCHANGED <<plan, file>> /\ phase # "stored"
    BY <1>4 DEF Open, ReadRow, CountRows, ResolveRef, BuildTask, FinishParse
  <2> QED
    BY <1>1, <2>1 DEF PlanInv
<1>5. CASE UNCHANGED vars
  BY <1>1, <1>5 DEF vars, PlanInv
<1> QED
  BY <1>2, <1>3, <1>4, <1>5 DEF Next

LEMMA ImportInit == ASSUME WorkbookAssumption, Init PROVE ImportInv
<1>1. TypeOK
  BY TypeInit
<1>2. StartInv /\ ~Reading /\ ~Resolving
  BY DEF Init, StartInv, Reading, Resolving
<1>3. PlanInv
  BY DEF Init, PlanInv, WorkbookAssumption
<1> QED
  BY <1>1, <1>2, <1>3 DEF ImportInv

LEMMA ImportStep == ASSUME WorkbookAssumption, ImportInv, [Next]_vars PROVE ImportInv'
<1>1. TypeOK' /\ StartInv' /\ PlanInv'
  BY TypeStep, StartStep, PlanStep
<1>2. (Reading \/ Resolving)' => RowsInv' /\ KnownInv' /\ IssuesInv'
  BY RowsStep, KnownStep, IssuesStep
<1>3. Resolving' => TasksInv'
  BY TasksStep
<1> QED
  BY <1>1, <1>2, <1>3 DEF ImportInv

-----------------------------------------------------------------------------
(* The issues of both passes are those a reader of the sheet would list.       *)
LEMMA KeysOfRow ==
  ASSUME TypeOK, RowsInv, NEW k \in DOMAIN rows
  PROVE  AllKeys(k) = RefersTo(rows[k].row)
<1> DEFINE i == rows[k].row
           row == file.rows[i]
<1>1. i \in DOMAIN file.rows /\ rows[k] = Parsed(row, i)
  BY RowsRead DEF RowsInv
<1>2. CASE "predecessors" \in row.wrong
  <2>1. rows[k].preds = <<>>
    BY <1>1, <1>2, ParsedFields
  <2>2. AllKeys(k) = {}
    BY <2>1 DEF AllKeys, KeysBefore
  <2> QED
    BY <1>2, <2>2 DEF RefersTo
<1>3. CASE "predecessors" \notin row.wrong
  <2>1. rows[k].preds = row.preds
    BY <1>1, <1>3, ParsedFields
  <2>2. row.preds \in Seq(Names)
    <3>1. row \in SheetRows
      BY <1>1, FileTyped
    <3> QED
      BY <3>1 DEF SheetRows
  <2>3. DOMAIN row.preds = 1 .. Len(row.preds)
    BY <2>2
  <2> QED
    BY <1>3, <2>1, <2>3 DEF AllKeys, KeysBefore, RefersTo
<1> QED
  BY <1>2, <1>3

(* The issues of a row. *)
IssuesOf(i) == OwnIssues(i) \cup RefIssues(i, RefersTo(i))

LEMMA RowIssuesSplit == RowIssues = UNION {IssuesOf(i) : i \in Occupied}
<1> DEFINE own     == UNION {CellIssues(file.rows[i], i) : i \in Occupied}
           twice   == {Issue(i, "name", "duplicate") :
                         i \in {j \in NamedRows : j \notin FirstCalled(Key(file.rows[j].name))}}
           unknown == {Issue(i, "predecessors", "unknown") :
                         i \in {j \in Occupied : \E key \in RefersTo(j) : Called(key) = {}}}
           self    == {Issue(i, "predecessors", "self") :
                         i \in {j \in Occupied : \E key \in RefersTo(j) : j \in FirstCalled(key)}}
<1>1. NamedRows \subseteq Occupied
  BY Zenon DEF NamedRows
<1>2. RowIssues = own \cup twice \cup unknown \cup self
  BY DEF RowIssues
<1>3. \A x : x \in twice <=> \E i \in Occupied :
        /\ x = Issue(i, "name", "duplicate")
        /\ i \in NamedRows /\ i \notin FirstCalled(Key(file.rows[i].name))
  BY <1>1
<1>4. \A i : OwnIssues(i) =
        CellIssues(file.rows[i], i)
        \cup {x \in {Issue(i, "name", "duplicate")} :
                i \in NamedRows /\ i \notin FirstCalled(Key(file.rows[i].name))}
  BY DEF OwnIssues
<1>5. \A i : RefIssues(i, RefersTo(i)) =
        {x \in {Issue(i, "predecessors", "unknown")} : \E key \in RefersTo(i) : Called(key) = {}}
        \cup {x \in {Issue(i, "predecessors", "self")} :
                \E key \in RefersTo(i) : i \in FirstCalled(key)}
  BY DEF RefIssues
<1>6. \A x : x \in UNION {IssuesOf(i) : i \in Occupied} <=>
               \E i \in Occupied : x \in OwnIssues(i) \/ x \in RefIssues(i, RefersTo(i))
  BY DEF IssuesOf
<1>7. \A x : x \in own <=> \E i \in Occupied : x \in CellIssues(file.rows[i], i)
  OBVIOUS
<1>8. \A x : x \in unknown <=> \E i \in Occupied :
        /\ x = Issue(i, "predecessors", "unknown")
        /\ \E key \in RefersTo(i) : Called(key) = {}
  OBVIOUS
<1>9. \A x : x \in self <=> \E i \in Occupied :
        /\ x = Issue(i, "predecessors", "self")
        /\ \E key \in RefersTo(i) : i \in FirstCalled(key)
  OBVIOUS
<1> HIDE DEF own, twice, unknown, self
<1>10. \A x : x \in RowIssues <=> x \in own \/ x \in twice \/ x \in unknown \/ x \in self
  BY <1>2
<1>11. \A i, x : x \in OwnIssues(i) <=>
         \/ x \in CellIssues(file.rows[i], i)
         \/ /\ x = Issue(i, "name", "duplicate")
            /\ i \in NamedRows /\ i \notin FirstCalled(Key(file.rows[i].name))
  BY <1>4
<1>12. \A i, x : x \in RefIssues(i, RefersTo(i)) <=>
         \/ x = Issue(i, "predecessors", "unknown") /\ \E key \in RefersTo(i) : Called(key) = {}
         \/ x = Issue(i, "predecessors", "self") /\ \E key \in RefersTo(i) : i \in FirstCalled(key)
  BY <1>5
<1>13. \A x : x \in RowIssues <=> x \in UNION {IssuesOf(i) : i \in Occupied}
  <2> TAKE x
  <2>1. x \in RowIssues <=> x \in own \/ x \in twice \/ x \in unknown \/ x \in self
    BY <1>10
  <2>2. x \in UNION {IssuesOf(i) : i \in Occupied} <=>
          \E i \in Occupied : x \in OwnIssues(i) \/ x \in RefIssues(i, RefersTo(i))
    BY <1>6
  <2>3. \A i : x \in RefIssues(i, RefersTo(i)) =>
          \/ x = Issue(i, "predecessors", "unknown") /\ \E key \in RefersTo(i) : Called(key) = {}
          \/ x = Issue(i, "predecessors", "self") /\ \E key \in RefersTo(i) : i \in FirstCalled(key)
    BY <1>12
  <2>4. x \in unknown \/ x \in self => \E i \in Occupied : x \in RefIssues(i, RefersTo(i))
    BY <1>8, <1>9, <1>12
  <2>5. x \in own \/ x \in twice => \E i \in Occupied : x \in OwnIssues(i)
    BY <1>3, <1>7, <1>11
  <2>6. \A i \in Occupied : x \in RefIssues(i, RefersTo(i)) => x \in unknown \/ x \in self
    BY <1>8, <1>9, <2>3
  <2>7. \A i \in Occupied : x \in OwnIssues(i) => x \in own \/ x \in twice
    BY <1>3, <1>7, <1>11
  <2> QED
    BY <2>1, <2>2, <2>4, <2>5, <2>6, <2>7
<1> QED
  BY <1>13

LEMMA AllIssues ==
  ASSUME TypeOK, RowsInv, Resolving
  PROVE  /\ AllOwn \cup RefsDone(Len(rows) + 1) = RowIssues
         /\ Cardinality(Occupied) = Len(rows)
<1>1. DOMAIN rows = 1 .. Len(rows) /\ Len(rows) \in Nat
  BY DEF TypeOK
<1>2. RefsDone(Len(rows) + 1) = UNION {RefIssues(rows[k].row, AllKeys(k)) : k \in DOMAIN rows}
  <2>1. 1 .. (Len(rows) + 1) - 1 = DOMAIN rows
    BY <1>1
  <2> QED
    BY <2>1 DEF RefsDone
<1>3. Occupied \cap ReadSoFar = Occupied
  BY OccupiedRow DEF ReadSoFar, Reading, Resolving
<1>4. RefsDone(Len(rows) + 1) = UNION {RefIssues(i, RefersTo(i)) : i \in Occupied}
  <2>1. \A k \in DOMAIN rows :
          rows[k].row \in Occupied
          /\ RefIssues(rows[k].row, AllKeys(k)) = RefIssues(rows[k].row, RefersTo(rows[k].row))
    BY KeysOfRow DEF RowsInv
  <2>2. \A i \in Occupied : \E k \in DOMAIN rows : rows[k].row = i
    BY <1>3 DEF RowsInv
  <2> QED
    BY <1>2, <2>1, <2>2
<1>5. RowIssues = AllOwn \cup UNION {RefIssues(i, RefersTo(i)) : i \in Occupied}
  BY RowIssuesSplit DEF AllOwn, IssuesOf
<1> QED
  BY <1>3, <1>4, <1>5 DEF RowsInv

LEMMA ResolvedAll ==
  ASSUME ImportInv, Resolving, next > Len(rows)
  PROVE  /\ TypeOK /\ RowsInv /\ TasksInv /\ file.fault = "none"
         /\ issues = RowIssues /\ Cardinality(Occupied) = Len(rows) /\ Len(rows) <= MaxTasks
         /\ next = Len(rows) + 1
<1>1. TypeOK /\ RowsInv /\ IssuesInv /\ TasksInv
  BY DEF ImportInv
<1>2. next = Len(rows) + 1
  BY <1>1 DEF TasksInv, TypeOK
<1>3. RefsNow(next, ref) = {}
  BY <1>1, <1>2 DEF RefsNow, TypeOK
<1>4. issues = AllOwn \cup RefsDone(Len(rows) + 1)
  BY <1>1, <1>2, <1>3 DEF IssuesInv
<1> QED
  BY <1>1, <1>2, <1>4, AllIssues DEF RowsInv, TasksInv

LEMMA ParsedClean ==
  ASSUME ImportInv, phase = "parsed"
  PROVE  file.fault = "none" /\ Cardinality(Occupied) <= MaxTasks /\ RowIssues = {}
<1>1. Resolving /\ TasksInv /\ TypeOK
  BY DEF ImportInv, Resolving
<1>2. next > Len(rows) /\ issues = {}
  BY <1>1 DEF TasksInv, TypeOK
<1> QED
  BY <1>1, <1>2, ResolvedAll

LEMMA EmptySheet ==
  ASSUME TypeOK, Occupied = {}
  PROVE  RowIssues = {} /\ Cardinality(Occupied) = 0
BY RowIssuesSplit, FS_EmptySet

LEMMA NamedStep ==
  ASSUME WorkbookAssumption, ImportInv, EveryIssueNamed, [Next]_vars
  PROVE  EveryIssueNamed'
<1>1. ImportInv'
  BY ImportStep
<1>2. (phase = "parsed" =>
         file.fault = "none" /\ Cardinality(Occupied) <= MaxTasks /\ RowIssues = {})'
  BY <1>1, ParsedClean, PTL
<1>3. ASSUME phase' = "refused"
      PROVE  \/ file'.fault # "none" /\ issues' = {FileIssue(file'.fault)}
             \/ file'.fault = "none" /\ Cardinality(Occupied') > MaxTasks
                /\ issues' = {FileIssue("tasks")}
             \/ /\ file'.fault = "none" /\ Cardinality(Occupied') <= MaxTasks
                /\ issues' = IF RowIssues' = {} THEN {FileIssue("empty")} ELSE RowIssues'
                /\ RowIssues' = {} <=> Occupied' = {}
  <2>1. CASE Open
    BY <1>3, <2>1 DEF Open, Refused
  <2>2. CASE CountRows
    <3>1. Reading /\ TypeOK /\ RowsInv /\ file' = file
      BY <2>2 DEF CountRows, Reading, ImportInv
    <3>2. Len(rows) > MaxTasks /\ issues' = {FileIssue("tasks")}
      BY <1>3, <2>2 DEF CountRows, Refused
    <3>3. next = Len(file.rows) + 1
      BY <2>2, <3>1 DEF CountRows, RowsInv, TypeOK, Sheets
    <3>4. ReadSoFar = DOMAIN file.rows
      BY <3>1, <3>3, SoFar DEF TypeOK, Sheets
    <3>5. Occupied \cap ReadSoFar = Occupied
      BY <3>4, OccupiedRow
    <3>6. Cardinality(Occupied) = Len(rows) /\ file.fault = "none" /\ Occupied' = Occupied
      BY <3>1, <3>5, SheetKept DEF RowsInv
    <3> QED
      BY <3>1, <3>2, <3>6
  <2>3. CASE FinishParse
    <3>1. Resolving /\ next > Len(rows) /\ file' = file
      BY <2>3 DEF FinishParse, Resolving
    <3>2. /\ TypeOK /\ TasksInv /\ file.fault = "none"
          /\ issues = RowIssues /\ Cardinality(Occupied) = Len(rows) /\ Len(rows) <= MaxTasks
          /\ next = Len(rows) + 1
      BY <3>1, ResolvedAll
    <3>3. Occupied' = Occupied /\ RowIssues' = RowIssues
      BY <3>1, SheetKept
    <3>4. \/ issues # {} /\ issues' = issues
          \/ issues = {} /\ tasks = <<>> /\ issues' = {FileIssue("empty")}
      BY <1>3, <2>3 DEF FinishParse, Refused
    <3>5. issues = {} /\ tasks = <<>> => Occupied = {}
      <4>1. SUFFICES ASSUME issues = {}, tasks = <<>> PROVE Occupied = {}
        OBVIOUS
      <4>2. Len(rows) = 0
        BY <3>2, <4>1 DEF TasksInv, TypeOK
      <4> QED
        BY <3>2, <4>2, SoFar, FS_EmptySet
    <3>6. Occupied = {} => RowIssues = {}
      BY <3>2, EmptySheet
    <3> QED
      BY <3>1, <3>2, <3>3, <3>4, <3>5, <3>6
  <2>4. CASE UNCHANGED vars
    <3>1. phase = "refused" /\ file' = file /\ issues' = issues
      BY <1>3, <2>4 DEF vars
    <3>2. Occupied' = Occupied /\ RowIssues' = RowIssues
      BY <3>1, SheetKept
    <3> QED
      BY <3>1, <3>2 DEF EveryIssueNamed
  <2>5. ~Export /\ ~ReadRow /\ ~ResolveRef /\ ~BuildTask /\ ~CreateProject
    BY <1>3 DEF Export, ReadRow, ResolveRef, BuildTask, CreateProject
  <2> QED
    BY <2>1, <2>2, <2>3, <2>4, <2>5 DEF Next
<1> QED
  BY <1>2, <1>3 DEF EveryIssueNamed

-----------------------------------------------------------------------------
(* The import of an export: row t of the file is task t of the plan.           *)
Exported == plan # <<>> /\ file = Sheet(plan) /\ StorablePlan(plan) /\ TypeOK

LEMMA ExportedRows ==
  ASSUME Exported
  PROVE  /\ DOMAIN file.rows = DOMAIN plan /\ Len(file.rows) = Len(plan) /\ file.fault = "none"
         /\ DOMAIN plan = 1 .. Len(plan) /\ Len(plan) \in Nat \ {0}
         /\ Occupied = DOMAIN plan /\ Cardinality(Occupied) = Len(plan)
<1>1. /\ file.fault = "none" /\ DOMAIN file.rows = DOMAIN plan
      /\ \A t \in DOMAIN plan : ~file.rows[t].blank
  BY DEF Exported, Sheet
<1>2. plan \in Seq(TaskRecords) /\ file.rows \in Seq(SheetRows)
  BY DEF Exported, TypeOK, Sheets
<1>3. DOMAIN plan = 1 .. Len(plan) /\ Len(plan) \in Nat \ {0} /\ Len(file.rows) = Len(plan)
  BY <1>1, <1>2 DEF Exported
<1>4. Occupied = DOMAIN plan
  BY <1>1, OccupiedRow
<1>5. Cardinality(1 .. Len(plan)) = Len(plan)
  BY <1>3, FS_Interval
<1> QED
  BY <1>1, <1>3, <1>4, <1>5

LEMMA ExportedRow ==
  ASSUME WorkbookAssumption, Exported, NEW t \in DOMAIN plan
  PROVE  /\ plan[t] \in TaskRecords
         /\ file.rows[t].name = SafeText(plan[t].name) /\ file.rows[t].name \in Names
         /\ Key(file.rows[t].name) \in Keys
         /\ file.rows[t].dur = plan[t].dur
         /\ file.rows[t].snb = plan[t].snb
         /\ file.rows[t].wrong = {field \in {"text"} : plan[t].brimful}
         /\ DOMAIN file.rows[t].preds = DOMAIN plan[t].preds
         /\ Len(file.rows[t].preds) = Len(plan[t].preds) /\ Len(plan[t].preds) \in Nat
         /\ DOMAIN plan[t].preds = 1 .. Len(plan[t].preds)
         /\ \A j \in DOMAIN plan[t].preds :
              /\ plan[t].preds[j] \in DOMAIN plan \ {t}
              /\ file.rows[t].preds[j] = SafeText(plan[plan[t].preds[j]].name)
<1>1. plan[t] \in TaskRecords
  BY DEF Exported, TypeOK
<1>2. plan[t].name \in Names /\ plan[t].preds \in Seq(Nat \ {0})
  BY <1>1 DEF TaskRecords
<1>3. file.rows[t] =
        [blank |-> FALSE, name |-> SafeText(plan[t].name), dur |-> plan[t].dur,
         preds |-> [i \in DOMAIN plan[t].preds |-> SafeRef(plan[plan[t].preds[i]].name)],
         snb |-> plan[t].snb, brimful |-> FALSE,
         wrong |-> {field \in {"text"} : plan[t].brimful}]
  BY DEF Exported, Sheet
<1>4. /\ file.rows[t].name = SafeText(plan[t].name) /\ file.rows[t].dur = plan[t].dur
      /\ file.rows[t].snb = plan[t].snb
      /\ file.rows[t].wrong = {field \in {"text"} : plan[t].brimful}
      /\ DOMAIN file.rows[t].preds = DOMAIN plan[t].preds
      /\ \A j \in DOMAIN plan[t].preds :
           file.rows[t].preds[j] = SafeText(plan[plan[t].preds[j]].name)
  BY <1>3 DEF SafeRef
<1>5. file.rows[t].name \in Names /\ Key(file.rows[t].name) \in Keys
  BY <1>2, <1>4, KeyTyped
<1>6. \A j \in DOMAIN plan[t].preds : plan[t].preds[j] \in DOMAIN plan \ {t}
  <2>1. WaitsFor(plan, t) \subseteq DOMAIN plan \ {t}
    BY DEF Exported, StorablePlan, PredsKnown
  <2> QED
    BY <2>1, WaitsForRange
<1>7. Len(file.rows[t].preds) = Len(plan[t].preds) /\ Len(plan[t].preds) \in Nat
      /\ DOMAIN plan[t].preds = 1 .. Len(plan[t].preds)
  <2>1. file.rows[t] \in SheetRows
    BY ExportedRows, FileTyped DEF Exported
  <2>2. file.rows[t].preds \in Seq(Names)
    BY <2>1 DEF SheetRows
  <2> QED
    BY <1>2, <1>4, <2>2
<1> QED
  BY <1>1, <1>4, <1>5, <1>6, <1>7

(* When the file is parsed, the names lead back to the tasks they are of.      *)
LEMMA ExportedTarget ==
  ASSUME WorkbookAssumption, ImportInv, Exported, phase = "parsed", NEW t \in DOMAIN plan
  PROVE  /\ t \in DOMAIN tasks /\ Len(tasks) = Len(plan)
         /\ tasks[t].name = SafeText(plan[t].name) /\ tasks[t].dur = plan[t].dur
         /\ tasks[t].snb = plan[t].snb
         /\ Len(rows[t].preds) = Len(plan[t].preds)
         /\ \A j \in DOMAIN plan[t].preds : Target(t, j) = plan[t].preds[j]
<1>1. /\ Resolving /\ RowsInv /\ KnownInv /\ AllOwn = {} /\ Len(tasks) = Len(rows)
      /\ DOMAIN tasks = DOMAIN rows /\ \A k \in DOMAIN tasks : Built(k)
  BY ParsedBuilt
<1>2. ReadSoFar = DOMAIN file.rows /\ \A i \in ReadSoFar : ~file.rows[i].blank
  <2>1. ReadSoFar = DOMAIN file.rows
    BY <1>1 DEF ReadSoFar, Reading, Resolving
  <2> QED
    BY <2>1, ExportedRows, OccupiedRow
<1>3. Len(rows) = Len(file.rows) /\ \A k \in DOMAIN rows : rows[k].row = k
  BY <1>1, <1>2 DEF RowsInv
<1>4. DOMAIN tasks = DOMAIN plan /\ Len(tasks) = Len(plan)
  BY <1>1, <1>3, ExportedRows DEF Exported, TypeOK
<1>5. \A k \in DOMAIN plan : rows[k] = Parsed(file.rows[k], k)
  BY <1>1, <1>3, <1>4 DEF RowsInv
<1>6. /\ rows[t].name = file.rows[t].name /\ rows[t].dur = file.rows[t].dur
      /\ rows[t].preds = file.rows[t].preds /\ rows[t].snb = file.rows[t].snb
  <2>1. "predecessors" \notin file.rows[t].wrong /\ "start" \notin file.rows[t].wrong
    BY ExportedRow
  <2> QED
    BY <1>5, <2>1, ParsedFields
<1>7. ASSUME NEW j \in DOMAIN plan[t].preds  PROVE Target(t, j) = plan[t].preds[j]
  <2> DEFINE p == plan[t].preds[j]
             key == Key(file.rows[p].name)
  <2>1. p \in DOMAIN plan /\ file.rows[t].preds[j] = SafeText(plan[p].name)
    BY <1>7, ExportedRow
  <2>2. file.rows[p].name = SafeText(plan[p].name) /\ key \in Keys
    BY <2>1, ExportedRow
  <2>3. p \in FirstCalled(key)
    BY <1>1, <2>1, ExportedRows, CleanRow
  <2>4. p \in DOMAIN rows /\ rows[p].row = p
    BY <1>1, <1>3, <1>4, <2>1
  <2>5. known[key] = p
    BY <1>1, <2>2, <2>3, <2>4, Lookup DEF Exported
  <2> QED
    BY <1>6, <2>1, <2>2, <2>5 DEF Target
<1> QED
  BY <1>1, <1>4, <1>6, <1>7, ExportedRow DEF Built

LEMMA SeqsEqual ==
  ASSUME NEW S, NEW s \in Seq(S), NEW r \in Seq(S), Len(s) = Len(r),
         \A j \in 1 .. Len(r) : s[j] = r[j]
  PROVE  s = r
OBVIOUS

LEMMA ExportedParsed ==
  ASSUME WorkbookAssumption, ImportInv, Exported, phase = "parsed"
  PROVE  SamePlan(plan, tasks) /\ DOMAIN tasks = DOMAIN plan
<1>1. Len(tasks) = Len(plan) /\ DOMAIN tasks = DOMAIN plan
  <2>1. 1 \in DOMAIN plan
    BY ExportedRows
  <2> QED
    BY <2>1, ExportedTarget DEF Exported, TypeOK
<1>2. ASSUME NEW t \in DOMAIN plan
      PROVE  /\ WaitsFor(tasks, t) = WaitsFor(plan, t)
             /\ NoRepeats(plan[t].preds) => tasks[t].preds = plan[t].preds
  <2>1. /\ t \in DOMAIN tasks /\ Len(rows[t].preds) = Len(plan[t].preds)
        /\ \A j \in DOMAIN plan[t].preds : Target(t, j) = plan[t].preds[j]
    BY <1>2, ExportedTarget
  <2>2. /\ DOMAIN plan[t].preds = 1 .. Len(plan[t].preds)
        /\ \A j \in DOMAIN plan[t].preds : plan[t].preds[j] \in DOMAIN plan \ {t}
        /\ 0 \notin DOMAIN plan
    BY <1>2, ExportedRow, ExportedRows
  <2>3. WaitsFor(tasks, t) = {Target(t, j) : j \in 1 .. Len(rows[t].preds)} \ {0, t}
    BY <2>1, ParsedRow
  <2>4. WaitsFor(plan, t) = {plan[t].preds[j] : j \in DOMAIN plan[t].preds}
    BY <1>2, WaitsForRange
  <2>5. WaitsFor(tasks, t) = WaitsFor(plan, t)
    BY <2>1, <2>2, <2>3, <2>4
  <2>6. ASSUME NoRepeats(plan[t].preds)  PROVE tasks[t].preds = plan[t].preds
    <3> DEFINE n == Len(plan[t].preds)
    <3>1. Resolves(tasks[t].preds, t, n)
      BY <2>1, ParsedBuilt DEF Built
    <3>2. \A j \in 1 .. n : Target(t, j) \notin {0, t}
      BY <2>1, <2>2
    <3>3. \A i, j \in 1 .. n : Target(t, i) = Target(t, j) => i = j
      BY <2>1, <2>2, <2>6 DEF NoRepeats
    <3>4. Len(tasks[t].preds) = n /\ \A j \in 1 .. n : tasks[t].preds[j] = plan[t].preds[j]
      BY <2>1, <2>2, <3>1, <3>2, <3>3 DEF Resolves
    <3>5. tasks[t].preds \in Seq(Nat \ {0}) /\ plan[t].preds \in Seq(Nat \ {0})
      <4>1. plan[t] \in TaskRecords
        BY <1>2, ExportedRow
      <4> QED
        BY <3>1, <4>1 DEF Resolves, TaskRecords
    <3> QED
      BY <2>2, <3>4, <3>5, SeqsEqual
  <2> QED
    BY <2>5, <2>6
<1> QED
  BY <1>1, <1>2, ExportedTarget DEF SamePlan

LEMMA SameAcyclic ==
  ASSUME NEW p, NEW q, DOMAIN p = DOMAIN q, \A t \in DOMAIN p : WaitsFor(p, t) = WaitsFor(q, t),
         Acyclic(AsProject(p))
  PROVE  Acyclic(AsProject(q))
<1>1. AsProject(p).tasks = DOMAIN p /\ AsProject(q).tasks = DOMAIN q
  BY DEF AsProject
<1>2. \A S \in SUBSET DOMAIN p : WaitsOnItself(AsProject(q), S) => WaitsOnItself(AsProject(p), S)
  BY DEF WaitsOnItself, WaitsFor
<1> QED
  BY <1>1, <1>2 DEF Acyclic

(* An export with an issue is that of a plan that cannot be imported.          *)
LEMMA ExportedIssue ==
  ASSUME WorkbookAssumption, Exported, Importable(plan)
  PROVE  RowIssues = {}
<1>1. Occupied = DOMAIN plan
  BY ExportedRows
<1>2. \A t \in DOMAIN plan : ~NameRefused(file.rows[t])
  <2> TAKE t \in DOMAIN plan
  <2>1. file.rows[t].name = SafeText(plan[t].name) /\ "name" \notin file.rows[t].wrong
    BY ExportedRow
  <2> QED
    BY <2>1 DEF NameRefused, Importable
<1>3. \A t, u \in DOMAIN plan : Key(file.rows[t].name) = Key(file.rows[u].name) => t = u
  BY ExportedRow DEF Importable
<1>4. \A t \in DOMAIN plan : Called(Key(file.rows[t].name)) = {t}
  <2> TAKE t \in DOMAIN plan
  <2>1. \A i : i \in Called(Key(file.rows[t].name)) <=> i = t
    BY <1>1, <1>2, <1>3, CalledRow
  <2> QED
    BY <2>1
<1>5. \A t \in DOMAIN plan : FirstCalled(Key(file.rows[t].name)) = {t}
  <2> TAKE t \in DOMAIN plan
  <2>1. t \in Nat
    BY ExportedRows
  <2> DEFINE key == Key(file.rows[t].name)
  <2>2. \A i : i \in FirstCalled(key) <=> i \in Called(key) /\ \A j \in Called(key) : i <= j
    BY FirstCalledRow
  <2>3. Called(key) = {t} /\ t <= t
    BY <1>4, <2>1
  <2> HIDE DEF key
  <2>4. \A i : i \in FirstCalled(key) <=> i = t
    BY <2>2, <2>3
  <2> QED
    BY <2>4 DEF key
<1>6. \A t \in DOMAIN plan : IssuesOf(t) = {}
  <2> TAKE t \in DOMAIN plan
  <2>1. CellIssues(file.rows[t], t) = {}
    <3>1. file.rows[t].wrong = {} /\ file.rows[t].dur = plan[t].dur /\ plan[t] \in TaskRecords
      BY ExportedRow DEF Importable
    <3>2. InRange(file.rows[t].dur)
      BY <3>1 DEF InRange, TaskRecords
    <3> QED
      BY <1>2, <3>1, <3>2 DEF CellIssues, CellRefused, DurationRefused
  <2>2. OwnIssues(t) = {}
    BY <1>5, <2>1 DEF OwnIssues
  <2>3. \A key \in RefersTo(t) : Called(key) # {} /\ t \notin FirstCalled(key)
    <3> TAKE key \in RefersTo(t)
    <3>1. PICK j \in DOMAIN plan[t].preds : key = Key(file.rows[t].preds[j])
      BY ExportedRow DEF RefersTo
    <3>2. PICK u \in DOMAIN plan \ {t} :
            u = plan[t].preds[j] /\ file.rows[t].preds[j] = SafeText(plan[u].name)
      BY <3>1, ExportedRow
    <3>3. file.rows[u].name = SafeText(plan[u].name)
      BY <3>2, ExportedRow
    <3>4. key = Key(file.rows[u].name)
      BY <3>1, <3>2, <3>3, Zenon
    <3>5. Called(key) = {u} /\ FirstCalled(key) = {u}
      BY <1>4, <1>5, <3>4, Zenon
    <3> QED
      BY <3>2, <3>5, Zenon
  <2>4. RefIssues(t, RefersTo(t)) = {}
    BY <2>3 DEF RefIssues
  <2> QED
    BY <2>2, <2>4 DEF IssuesOf
<1> QED
  BY <1>1, <1>6, RowIssuesSplit

LEMMA ExportedRefused ==
  ASSUME WorkbookAssumption, Exported, EveryIssueNamed, phase = "refused"
  PROVE  ~Importable(plan)
<1> SUFFICES ASSUME Importable(plan) PROVE FALSE
  OBVIOUS
<1>1. /\ file.fault = "none" /\ Cardinality(Occupied) = Len(plan)
      /\ Occupied = DOMAIN plan /\ 1 \in DOMAIN plan /\ Len(plan) \in Nat
  BY ExportedRows
<1>2. Len(plan) <= MaxTasks
  BY DEF Importable
<1>3. RowIssues = {}
  BY ExportedIssue
<1>4. ~(Cardinality(Occupied) > MaxTasks)
  BY <1>1, <1>2 DEF WorkbookAssumption
<1>5. RowIssues = {} <=> Occupied = {}
  BY <1>1, <1>4 DEF EveryIssueNamed
<1> QED
  BY <1>1, <1>3, <1>5

LEMMA RoundTripsStep ==
  ASSUME WorkbookAssumption, ImportInv, EveryIssueNamed, RoundTrips, [Next]_vars
  PROVE  RoundTrips'
<1>1. ImportInv' /\ EveryIssueNamed'
  BY ImportStep, NamedStep
<1>2. (ImportInv /\ plan # <<>> /\ phase # "stored" => Exported)'
  BY DEF ImportInv, PlanInv, Exported
<1>3. (ImportInv /\ Exported /\ phase = "parsed" => SamePlan(plan, tasks))'
  BY ExportedParsed, PTL
<1>4. (Exported /\ EveryIssueNamed /\ phase = "refused" => ~Importable(plan))'
  BY ExportedRefused, PTL
<1>5. plan' # <<>> => phase' # "cycle"
  <2>1. SUFFICES ASSUME plan' # <<>>, phase' = "cycle" PROVE FALSE
    OBVIOUS
  <2>2. CASE CreateProject
    <3>1. phase = "parsed" /\ ~Acyclic(AsProject(tasks)) /\ plan' = plan
      BY <2>1, <2>2 DEF CreateProject
    <3>2. Exported
      BY <2>1, <3>1 DEF ImportInv, PlanInv, Exported
    <3>3. SamePlan(plan, tasks) /\ DOMAIN tasks = DOMAIN plan
      BY <3>1, <3>2, ExportedParsed
    <3>4. \A t \in DOMAIN plan : WaitsFor(plan, t) = WaitsFor(tasks, t)
      BY <3>3 DEF SamePlan
    <3>5. Acyclic(AsProject(plan))
      BY <3>2 DEF Exported, StorablePlan
    <3> QED
      BY <3>1, <3>3, <3>4, <3>5, SameAcyclic
  <2>3. CASE UNCHANGED vars
    BY <2>1, <2>3 DEF vars, RoundTrips
  <2>4. CASE Export \/ Open \/ ReadRow \/ CountRows \/ ResolveRef \/ BuildTask \/ FinishParse
    BY <2>1, <2>4 DEF Export, Open, ReadRow, CountRows, ResolveRef, BuildTask, FinishParse, Refused
  <2> QED
    BY <2>2, <2>3, <2>4 DEF Next
<1> QED
  BY <1>1, <1>2, <1>3, <1>4, <1>5 DEF RoundTrips

-----------------------------------------------------------------------------
(* Every state of an import, and of an export imported again, is one that the  *)
(* loops of _parse_rows explain: ImportInv is inductive.                      *)
THEOREM ImportInvariant == Spec => []ImportInv
<1>1. Init => ImportInv
  BY ImportInit, WorkbookAssumption
<1>2. ImportInv /\ [Next]_vars => ImportInv'
  BY ImportStep, WorkbookAssumption
<1> QED
  BY <1>1, <1>2, PTL DEF Spec

(* The types, for every file and every plan: no task gets a duration out of    *)
(* range, and every predecessor is a place in a table.                       *)
THEOREM ImportTyped == Spec => []TypeOK
<1>1. ImportInv => TypeOK
  BY DEF ImportInv
<1> QED
  BY <1>1, ImportInvariant, PTL

(* However a file refers to its rows, the tasks that _parse_rows returns are a *)
(* plan: within MAX_TASKS, names distinct, predecessors that exist, none its   *)
(* own, none twice.                                                          *)
THEOREM ImportYieldsPlan == Spec => []ParsedIsPlan
<1>1. ImportInv => ParsedIsPlan
  BY ParsedPlan
<1> QED
  BY <1>1, ImportInvariant, PTL

(* For every file, the details of the error that _parse_rows raises are all    *)
(* the issues of all the rows, and a file with an issue is not accepted.       *)
THEOREM IssuesComplete == Spec => []EveryIssueNamed
<1>1. Init => EveryIssueNamed
  BY DEF Init, EveryIssueNamed
<1>2. ImportInv /\ EveryIssueNamed /\ [Next]_vars => EveryIssueNamed'
  BY NamedStep, WorkbookAssumption
<1> QED
  BY <1>1, <1>2, ImportInvariant, PTL DEF Spec

(* For every project whose names stay apart, and short enough, once guarded,   *)
(* and that has no more than MAX_TASKS tasks: what is exported is imported as   *)
(* the same plan.                                                            *)
THEOREM ExportsReturn == Spec => []RoundTrips
<1>1. Init => RoundTrips
  BY DEF Init, RoundTrips
<1>2. ImportInv /\ EveryIssueNamed /\ RoundTrips /\ [Next]_vars => RoundTrips'
  BY RoundTripsStep, WorkbookAssumption
<1> QED
  BY <1>1, <1>2, ImportInvariant, IssuesComplete, PTL DEF Spec

=============================================================================
