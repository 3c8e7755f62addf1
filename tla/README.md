# Verification of ai-gantt-planner

The AI Gantt planner imports a project from a spreadsheet, computes a schedule for it, and lets
its user change the plan by chatting: a language model proposes a *change set*, the backend applies
it atomically or not at all, and the frontend shows the new plan, which can be exported again. This
directory holds TLA+ models of the backend's core, of its spreadsheets, of the page's session and of its chart, TLC configurations that check them, and
TLAPS proofs of the properties that matter most. Paths below are relative to the repository (`backend/app`, `frontend/src`, `docs`).

## 1. The system

| Component | State | Operations | Talks to |
|---|---|---|---|
| Working calendar, `scheduler/calendar.py`, `calendar_shift.py` | none | `next_workday`, `add_workdays`, `shift_workdays`, `workdays_between` | called by scheduler, change sets, diff |
| Scheduler, `scheduler/engine.py` | none | `compute_schedule`: topological order with table order as tie-break, then placement | called on import and on every change set |
| Project store, `storage/project_store.py` | projects by id, one `asyncio.Lock` each | `create`, `get`, `apply` (compare-and-set around an awaited mutator) | called by the project service from concurrent requests |
| Change set applier, `services/changeset_ops.py` | working copy of the tasks, `client_ref_map` | ten operations, then renumbering | runs inside the store's mutator, then the scheduler |
| Project service, `services/project_service.py` | none | import, get, `apply_change_set`, export | store, applier, scheduler, diff |
| Change summary, `domain/diff.py` | none | `compute_change_summary` | project service |
| Agent, `agent/service.py`, `gateway.py`, `ambiguity_guard.py` | locals of one turn; conversation history | `run_turn`: completions and tool calls within budgets | OpenRouter, MCP session, project service |
| MCP server, `mcp_server/` | none | three read tools, `apply_change_set` | project service |
| HTTP API, `api/` | none | import, get, export, change sets, chat | services |
| Excel import and export, `services/excel_*.py` | locals of one import | parse and validate, render | project service |
| Frontend session, `frontend/src/app/App.tsx` | screen, project, chat, requests in flight, timers | boot, restore, import, chat, retry, export, reset, state switcher | API client |
| API client and adapter, `frontend/src/api/`, `app/serverChangeSummaryAdapter.ts` | none | one function per endpoint; the backend's change summary into the page's change set | session |
| Chart, panel and metrics, `frontend/src/features/`, `lib/diff.ts`, `lib/date.ts` | a switch for the highlights, hover | `buildGanttModel`, `dependencyPoints`, `computeChangeSet`, rendering | session's project and change set |
| Start-up probe, `frontend/src/lib/backendAvailability.ts` | attempt number, elapsed time | `waitForBackend` | health endpoint |

Everything in the backend runs on one asyncio event loop: code between two `await`s is atomic,
and requests interleave at every `await`. Nothing is persisted; a restart loses all projects.

Where it is hard, and what makes each part correct:

* **Store.** A request suspends between reading a project and storing the next one. Correct: the
  three operations take effect atomically, a revision is succeeded once, no acknowledged change is
  ever lost, a failed change set leaves nothing, and every caller gets its turn.
* **Change sets.** Ten operations compose freely, refer to tasks that do not exist yet, and are
  checked against dates that the same change set has made stale. Correct: whatever commits is a
  valid plan with the dates the scheduler gives it, rows keep their order, inserting keeps
  precedence, a move accepted is a move honoured.
* **Scheduler.** Repeated predecessors, cycles, weekends. Correct: cycles are reported exactly when
  there is one, the schedule is feasible, and no feasible schedule is earlier anywhere.
* **Agent.** The model may say anything; the provider, the tool call, its answer and the session
  may each fail; other clients commit meanwhile. Correct: at most one commit per request, on
  the revision the user saw; a reply that says "applied" is true; a change is never hidden except
  by a lost answer; an ambiguous change is asked about; every request is answered.
* **Session.** The browser runs one handler at a time, but what a handler awaits outlives the screen
  it was started on: answers arrive late and in any order, timers are not cleared, a retry starts
  next to what it retries, the user resets, jumps and reloads at will, the backend forgets. Correct:
  the page never waits for something that is no longer under way, shows the plan it
  addresses and the change it was answered, and finds its project again after a reload.
* **Excel.** Two passes over the rows share a table of names, a list of errors and a list of rows some of
  which are refused; an export writes names and texts otherwise than they are stored. Correct: what an
  import accepts is a plan, what it refuses it explains completely, and what was exported comes back.
* **Views.** Three programs tell what changed (`diff.py`, the adapter, `lib/diff.ts`) and must agree,
  and the plan shown may be newer or older than the one the change set leads to, or another project's. Correct:
  panel and legend count the same tasks, and the chart marks them if it has them; bars, outlines and arrows are where the dates say.

`PROJECT.json` lists every component with its status and every hazard with its line.

## 2. Modules

```
Calendar ── CalendarLoop ── MCCalendarLoop
   └── Scheduling ── Scheduler ── MCScheduler        SchedulingLemmas, SchedulerProofs
             ├── ChangeSet ── MCChangeSet            ChangeSetProofs
             ├── Workbook ── MCWorkbook              WorkbookProofs
             └── ChangeView ──┐
          GanttGeometry ── GanttChart ── MCGanttChart  GanttChartProofs
StoreTypes ── RevisionedStore   (abstract)
      └────── ProjectStore      (implements it) ── MCProjectStore    ProjectStoreProofs
AgentTurn ── MCAgentTurn                             AgentTurnProofs
BackendAvailability ── AppSession ── MCAppSession    AppSessionProofs
```

* **Calendar** numbers the workdays and gives each function of the calendar in closed form; a day
  is an integer and day 0 a Monday. **CalendarLoop** runs the source's `while` loops, one
  iteration per step; a behaviour is one call.
* **Scheduling** says what a schedule is: the input, `Feasible`, `Acyclic`, `Schedulable` (what
  `compute_schedule` does not refuse), and `StartDates`, the recursive definition of what it assigns, by
  `EarliestStart` and `NotBefore`. **Scheduler** is the algorithm: `PopReady`
  is one turn of Kahn's loop, `FinishOrder` the cycle check, `PlaceTask` one turn of the placement
  loop. The sorted ready list is a set from which the task highest in the table is taken.
* **RevisionedStore** is what a caller may rely on: every call takes effect in one step between
  invocation and return. **ProjectStore** is the code: a step is what runs between two points of
  suspension (waiting for the lock, awaiting the mutator), the lock is a queue, `current` is the
  local variable of `apply`. A project is its revision and the log of its changes, so that a lost
  update shows. `_lock_for` holds its guard over no `await` and belongs to the step that queues.
  Ids of new projects are fresh (`uuid4`).
* **ChangeSet** is the mutator of `apply_change_set`: `Begin` allots the client_refs, one action
  per operation changes the working copy, `Commit` schedules and replaces the project, `Reject` and
  `Crash` drop the copy (a `DomainError`, or a `KeyError`/`StopIteration`). A client_ref and the id
  allotted to it are one value, so a reference is an existing task, a task of this change set
  (created or not yet), or a stranger. Names are compared after normalisation; descriptions and the
  text rules of names and assignees are abstracted to good and bad names. Lists of references have at most
  `MaxListed` entries, any number in the proofs. `lastMove` and `relaxing`
  are history variables. `Plan` says what a store may hold, `Sound` what a working copy is between two
  operations. One change set runs at a time, which the store guarantees
  (`SnapshotIsCurrent`).
* **AgentTurn** is `run_turn`, `_run_loop` and the chat endpoint, for several requests at once and
  another client of the project. A step is the code between two `await`s; a store call is one step,
  which `RevisionedStore` justifies. A tool call is abstracted to its tool, whether its arguments
  validate, whether they touch tasks found by the last search, and whether the message names those
  tasks. `lost` marks an answer or a session end that did not arrive. The branches of `_run_loop`
  for `mutated` are unreachable (the loop returns where it sets the flag) and are not modelled.

* **BackendAvailability** is `waitForBackend` with `checkHealth`: a step is what runs between two
  awaits, time is spent in them.
* **AppSession** is `App.tsx` with the screens and API calls: `page` is the state and the refs of the
  component, and the other variables are what it has under way. `loads` is the request in
  `pendingRequestRef` and those that `handleImportDone` awaits, `chats` the messages on their way (with what
  the handler captured: the id, the project shown), `exports` and `mockTimers` the rest. A step is one
  event handler, or what runs when a request is answered, a timer fires, an effect continues. Batched
  `setState` calls of one handler are one step, and closures are modelled by what they capture; refs are
  read when used. The backend here is revisions of projects: it commits a message exactly on the
  revision named (`CompareAndSet`, `AtMostOneCommit` of the modules above), reads the project
  again for its answer, and forgets every project when it restarts. `orphan` marks a message whose page
  was reloaded. A change set is told apart by the plan it leads to. Of the thread the
  model keeps which change set an answer put there last, whether a bubble of the fixtures stands below it, and whether
  one with an error is there (`page.turns`). `page.late` is history.
* **ChangeView** is what changed between two versions, three times: `ComputeChangeSummary` (`diff.py`),
  `AdaptServerChangeSummary` (the adapter), `ComputeChangeSet` (`lib/diff.ts`). Both ways of counting
  workdays are there, the backend's closed form and the page's loop, whose value is the number
  of workdays passed.
* **GanttGeometry** gives the pixels: bars, and the legs of the arrows between them. **GanttChart** is the
  workspace's view of one project and one change set, its columns, rows, bars, outlines, arrows and
  counts, while answers replace the project (`ServerTurn`, `UnexplainedTurn`, `MockTurn`), a conflict
  replaces it alone (`Refetch`, by any plan: the answer may be an older one, or about a project left behind), or
  another is loaded. `turn` is history: the versions the change set tells of, the plan the page held before and
  the one it was given.

* **Workbook** is `ExcelImportService.parse`, `_write_plan_sheet` and the two methods of the project
  service around them. A step is one row of pass 1 (`ReadRow`), one predecessor of pass 2 (`ResolveRef`), a
  task built (`BuildTask`), or the code between the loops (`Open`, `CountRows`, `FinishParse`); `CreateProject`
  is the end of `import_project`, and `Export` starts the import of what has just been exported. `known`,
  `rows`, `resolved`, `issues`, `tasks` are the locals of `_parse_rows`; a row or a task is known by its place
  in the table, which stands for its row number and its uuid. A name is what it is about, whether it
  begins with a character that Excel takes for a formula or with the apostrophe that guards against
  it, and whether it is written otherwise than its normalised form; a row says which of its cells cannot be read.

Modules next to a component named `...Proofs` hold its theorems; **SchedulingLemmas** holds what the other
proofs need of the calendar, of finite sets and of `StartDates`, and the proof about CalendarLoop is at the
end of SchedulerProofs. Operators commented as *a bug*
stand beside the definition they would spoil; they are the mutations with which each property was
seen to fail.

## 3. Runs

| Run | Question | Bounds | Distinct states |
|---|---|---|---|
| `calendar` | do the loops compute the closed forms, and end? | dates and amounts over several weeks, both signs | 6,889 |
| `scheduler` | topological order, cycles, tie-break, termination; feasibility, minimality, warnings | all three-task graphs with up to two listed predecessors from tasks and a stranger; four-task graphs with selected lists; acyclic three-task graphs with durations 1 and 3, constraint absent, on a Saturday, on a later Tuesday, start Thursday or Saturday | 63,898 |
| `store` | atomicity, compare-and-set, lost updates, one winner per revision, liveness | three clients, one project, three revisions | 347,551 |
| `changeset` | validity of what commits, order of rows, precedence, monotonicity, moves | two scheduled three-task projects, one new id, lists of at most two references, three operations, one commit | 807,884 |
| `agent` | commits, replies, guard, budgets, termination | two requests and another client, three revisions, two steps, one read | 264,784 |
| `session` | waiting, highlights, plans and ids under late answers, reloads, resets, jumps and restarts | two projects, three revisions, two things under way, one jump | 1,370,829 |
| `views` | agreement of the three tellings, counts, bars, arrows | sixteen plans of two and three tasks and one of another project, one change per project loaded | 146,438 |
| `workbook` | valid plans, complete error reports, exports that come back | files of up to three rows (of four when two alternate), rows of 25 kinds; plans of up to three tasks and one of four; limit three tasks, two workdays | 302,018 |
| `changeset_forward`, `changeset_move`, `agent_reply`, `session_bound` | refuted statements of the docs, see section 6 | as above, two operations; the last without jumps | |

Why the bounds are enough. *Calendar*: the week has period seven, and the loops are proved for all
dates. *Scheduler*: three tasks give joins, chains and cycles of every shape that two-element lists
can form; durations of 1 and 3 days with these starts end before, on and after a weekend; the
theorems hold for every project. *Store*: three clients make a holder, a waiter and a late comer on
one lock, and projects do not interact; three revisions let two change sets drawn up on one revision meet, and
another follow the one that won; theorems again hold for any number. *Change sets*: three
operations are enough to create a task, rewire it and move something by it, and to use what an
earlier operation made; one new id gives forward, backward and self references (two forward
references to each other do not occur); the initial projects are a join of two tasks of different lengths
and a chain with a constraint that bites. Later change sets start from plans of the same kind
(`WellFormed`); the proofs have no such bound. *Agent*: two steps are enough to search, then change, or to lose an answer and try
again; two requests and a stranger give every order of commits around one of them. *Session*: two
projects are the one shown and the one left behind, three revisions let a message be late for one
change and another still commit, two things under way are two messages, a message and an export, or an
export and the timer of the last. The state switcher is used once, to one state of each effect that resets
and loads do not have; what follows a jump is bounded further (`AfterJump` in `MCAppSession`: revisions
stop at two, nothing new starts next to something under way except next to the timer of a mock reply, a running
probe goes first). Jumps to
the other states, and more than one, are covered by the proofs. *Views*: the plan of another project has other tasks,
and may take the place of any plan; the project starts on a
Thursday, so that most bars meet a weekend; the second task may wait for the first, for it twice over, for
the third, or until a Sunday two weeks on; the third stands above or below the second, which gives arrows in
both directions, and with and without room. *Workbook*: three rows are one that refers, one that is referred to and one
that stands between, is empty, refused or repeats a name; the fourth is one too many. Names of two tasks
(one in two spellings) and a third that only some files have give every way to resolve; in plans the same
name with a trigger and with its guard collide.

Deadlock is checked in `store`, `session` and `views`. The other systems stop: a call returns, a request is answered, an
import is refused, the bound on revisions is reached.

The runs leave out the type invariants of `Scheduler`, `ProjectStore` and `AppSession`, the action property
`AppendOnly` of the store (a consequence of the refinement) and the inductive invariant `CopyInv` of `ChangeSet`
(TLC finds it true in the `changeset` run too, at half as much time again): they are proved, see section 4.

**Fairness.** `CalendarLoop`, `Scheduler`: weak fairness of the next step, a running function is not
abandoned. `ProjectStore`: weak fairness of everything the event loop runs for a client in a call
(`Resume`), not of making a call: asyncio resumes the next waiter when a lock is released and a
mutator whose await is over; the mutator returns or raises (it awaits nothing external). `AgentTurn`:
weak fairness of the next step of a started request: a completion returns or fails (the HTTP client has
a timeout), a tool call is answered or raises, the store answers (`EveryCallReturns`), the session closes or
fails to. Nothing is assumed of which outcome comes. `AppSession` assumes none: `fetch` has no timeout
in `client.ts`, so no answer is bound to come, and a user need not act. What "the page does not hang" means
there is therefore a safety property, `NeverWaitsForNothing`: whenever the page says it is busy, something is
under way whose end, if it comes, will say otherwise. `GanttChart` is driven by the session alone.

## 4. Theorems

All are proved for every value of the constants, under the assumptions named in the modules. Most
(`CallAssumption`, `NoDateAssumption`, `ProjectsAssumption`, `HorizonAssumption`, `StoreAssumption`,
`AgentAssumption`, `ProbeAssumption`, `SessionAssumption`, `BoundsAssumption`) say no more than the types of the
arguments and that model values are not numbers or ids. Three say what a plan is that other code made:
`InitialProjectsAssumption` (what a `ChangeSet` starts from is a `Plan`, as an import leaves it, and as
`CopiesStaySound` shows every change set leaves it), `PlansAssumption` (the plans a page is given are finite, not
empty, `Schedulable`, and no two tasks share a `display_order`) and `WorkbookAssumption`, which asks of a stored
plan (`StorablePlan`) what `WellFormed` of `ChangeSet` says of one. TLC evaluates them on the constants of every run.
Every invariant and action property of the passing runs is proved.

* **Calendar.** `LoopsAreClosedForms`: all four functions return their closed forms. Invariant
  `LoopInv`: the workdays passed so far and those to go add up to the closed form, counted by
  `WorkdayNumber`, whose steps across a weekend are the arithmetic lemmas. `DurationIsSpan` and
  `MoveAndBack` follow from `WorkdayNumber` and `NthWorkday` being inverse on workdays.
* **Schedules.** `StartDatesUnique`, `StartDatesFeasible`, `StartDatesLeast`: on every acyclic project the
  recursive definition has one value, a feasible schedule, and none starts a task earlier. There is no
  induction over data here; it is replaced by one over sets (`DependencyInduction`): a set of tasks that
  contains each task whose predecessors it contains is all of them, because what is left out would wait on
  itself, which is what `Acyclic` excludes. That a solution exists needs a minimal counterexample among
  finite sets (`MinimalSubset`, from the well-founded order of the library).
* **Scheduler.** `SchedulesAreFeasible`, `SchedulesAreEarliest`, `CyclesAreReported`, `TableOrderKept`,
  `DelaysAreExplained`, `OrderingKeepsItsCounts`, `ComputesTheFunction`, `TypeCorrect`. Inductive invariant `TypeOK /\
  OrderInv /\ PlaceInv`: `in_degree` is the number of listings whose task is not ordered yet (so repeats
  cancel), a predecessor precedes its successor in the order, the tasks placed are exactly a prefix of it,
  and each stands where the predecessors placed before it and its constraint ask. Without the count the
  loop's end says nothing about cycles. A task in `warned` has a constraint on a weekend, and a placed task with one is
  in it; with the equation of its start this is `DelaysAreExplained`: the warnings are exactly those asked for, and a
  delay without one comes from the project's first day or from a predecessor. At the end the starts satisfy the equation of `StartDates`, which has
  one solution (`ComputesTheFunction`): what the other modules say of the function is true of the algorithm.
* **Store.** `SnapshotNeverStale`, `HistoryIsAppendOnly`, `CompareAndSet`, `NoLostUpdate`,
  `ImplementsAbstract`, `TypeCorrect`. The inductive invariant adds `LockInv` (a client in a call is
  in exactly one queue, once, and a mutator runs only at its head) and `CreateInv` (ids being
  created are distinct and unused). The refinement maps `waiting` and `mutating` to `pending`; a
  mutator's start is a stutter, everything else a step of the abstract store.
* **Change sets.** `CopiesStaySound`, `StoredPlansAreWellFormed`, `ChangeSetsKeepTheTable`,
  `RelaxingDelaysNothing`, `LoneMovesAreHonoured`, `InsertionKeepsPrecedence`, for change sets of any length on
  projects of any size. `WellFormed` is not inductive: it says nothing of the working copy, from which the
  next project is made. `CopyInv` adds that the copy is `Sound` with references to tasks and client_refs only, that it has kept
  its rows in order, and how far it can be from the project when the operations so far only relaxed it, or
  were one move. Each operation then comes to a lemma on the copy it makes: a field changed
  (`UpdateKeepsCopies` and its like), a list of predecessors changed, a task added (`NewTaskIsSound`). At `Commit` all
  client_refs are tasks, so a sound copy that is acyclic is `Schedulable`, and the lemmas on `StartDates` give the
  rest. A relaxed copy stays below the old dates since these are feasible for it (`RelaxedStaysFeasible`
  and `StartDatesLeast`); a lone move changes no start of a predecessor (`MoveReachesNoPredecessor`), so that the
  check against the stored end dates is the one the schedule makes. `EdgeKeepsPrecedence` is about graphs alone:
  sets closed under predecessors, before and after, are each other's up to the new task.
* **Agent.** `AtMostOneCommit`, `AppliedIsTrue`, `OnlyTransportHides`, `AmbiguityAsked`,
  `TypeCorrect`. `TurnInv` relates one turn to the log: its only change can be at the revision it
  was bound to, it is announced (in the answer, the wrap-up or the result) or lost, and a call on
  its way has passed the guard. A commit by anybody makes the bound revision stale for good, which
  is why a repeated call cannot commit twice.

* **Probe and session.** `ProbeIsBounded`, `SessionTyped`, `ProbeBoundedInPage`, `ReloadBringsBack`,
  `HighlightMatchesThread`, `PlanAgreesAlways`, `PageNeverStuck`, for any number
  of projects, revisions, requests and jumps. The common invariant `SessionInv` adds two facts to the
  types: where the probe stands in its budget (`ProbeInv`), and that a committed message was
  addressed to a project of the server and a reply that carries a project carries that one (`RepliesFit`). Each property is then proved
  inductive over two summaries of a step instead of over its thirty actions: `PlanMoves` lists what a step
  can do to the plan the page holds (keep or forget it, load one, take over a reply or a refetch, start
  afresh, go back to the fixtures) and
  `ChatMoves` what it can do to one message. `PlanAgrees` needs the history variable `late`: without
  it the property is the one `session_bound` refutes. `HighlightMatchesThread` speaks of the last bubble that an answer of
  the backend put in the thread. That no bubble of the fixtures stands below it before the state switcher is used
  needs `OnlyServer`: until then a loading screen has its request, no second one is awaited next to it, and an import
  that fails has a real file to try again, so that the page never takes the path to the fixtures.
* **Views.** `ServerAndPageAgree`: for any plans, the adapted summary is what the page would find. The
  classes agree because a list without repeats is determined by its length and its set, and the
  shifts because `WorkdayNumber` is a bijection from the workdays passed to the numbers between
  (`LoopCountsWorkdays`). `EveryCountAgrees`: the three classes are disjoint and of tasks of the plan changed (`ChangedTasks`), whatever
  plan is shown, so panel and legend agree; no operation removes a task, so a newer plan has them and the chart marks
  them all. Under an older plan or another project's the legend counts tasks the chart has not. `RouteAvoidsBars`: for any bars, one per row, no
  horizontal leg runs along a bar and no vertical one crosses a bar it joins, from the metrics alone.
  `ChartIsTrue`: the columns begin on a Monday, so that a workday's column is its number less the Monday's
  (`ColumnOfWorkday`), and everything about bars, outlines and weeks is arithmetic of numbers (`BarCovers`,
  `WeeksHaveFiveColumns`); ranks in a finite set without ties are its first numbers (`RowsAreTasks`). An edge has an arrow per listing, as
  `buildLinks` pushes one for each entry of the list: that an edge has one needs a list without repeats
  (`ListedOnce`), that it is of one kind does not (`LinkEdges`).
  `RoutesAreClear` puts these together: a task begins at least one column after its predecessor's bar ends, and a removed
  edge joined two different tasks of the plan before. The invariant `ChartInv` adds to `project \in Projects` that
  the classes are disjoint and of tasks of the change, that old dates are workdays in order, and that the links and the
  summary are those of the two plans of the change. That dates are workdays in order is
  `StartDatesFeasible` (`ProjectFacts`).

* **Excel.** `ImportTyped`, `ImportYieldsPlan`, `IssuesComplete`, `ExportsReturn`, for files and plans of any
  size, on the inductive `ImportInvariant`: pass 1 has kept the rows that are not empty, in order
  (`RowsInv`), `known` leads to the first row of each name among those read (`KnownInv`), the issues are
  those of the rows read, then also of the predecessors looked up (`IssuesInv`), and while there are none, every
  row has its task, which waits for what its row refers to (`TasksInv`). `IssuesComplete` then compares the
  issues at the end with `RowIssues`, which is defined on the sheet and not on the loops. `ExportsReturn`
  needs both: without a complete report a refusal would not say what the export did wrong.

Only model-checked: liveness (`LoopEnds`, `CallEnds`, `EveryCallReturns`, `EveryTurnEnds`), which needs
fairness and `ENABLED`. The inductive invariants of the proofs hold in the runs too; `OrderInv`, which says something of its
own, is a property of one.

## 5. Not modelled

Text (messages, prompts, names beyond equality, descriptions), how a worksheet's cells are read and written,
HTTP framing, the search service (read only), the wiring of the application. Of the
modelled parts: in `AgentTurn` the answer when AI is not configured, a project that does not exist when a
chat starts, the conversation history (it changes only what the model may say, which is left open), the word
comparison of the ambiguity guard (an arbitrary verdict); in `Workbook` the text of headers, the columns
that are calculated, the sheet of metadata, project names and the warnings of the scheduler, and of descriptions
and assignees all but whether they are too long, before or after the guard; in `ProjectStore` the cancellation of a task that
waits for a lock; in `AppSession` the selected task and its dialog, the fixtures' version shown without a
backend, React's doubled effects in development, and the health request sent when a tab becomes visible,
whose result is ignored; in the views hover, tooltips, month labels, rounded corners and the head of
the arrows, and what a field's value reads like.

## 6. Findings

* `changeset_forward`: an operation whose *target* is a client_ref created later in the same change
  set ends in a `KeyError` (or `StopIteration`), an internal error, where the applier's docstring
  promises a `DomainError`. Forward references as *predecessors* work and are tested. Nothing is
  committed either way.
* `changeset_move`: a move is checked against stored end dates, which are the placeholder
  2000-01-01 for a task that the same change set created: insert a task in front of *c*, move *c*
  before its end, and the change set commits, the move silently overridden, where
  `docs/product-spec.md` has it rejected. A lone move is always honoured (`LoneMoveIsHonoured`).
* `agent_reply`: when the answer of `apply_change_set` is lost after the commit, the request may be
  answered as rejected or with the step limit, both of which are documented as leaving the project
  untouched. The change itself is never duplicated (`AtMostOneCommit`).
* `session_bound`: a message is sent, the user loads another file, and the answer arrives. `App.tsx`
  takes over its project without asking whether it is still the one the page holds, but not its id: the
  chart shows the project left behind, and the next message is addressed to the new one with the
  revision of the old. The comment on `runServerAiTurn` has it bound to one captured project. The
  project fetched after a conflict takes the same way. Apart from late answers, all agree (`PlanAgrees`).

Two more things were seen while modelling, which no run is about. The timer of a demo reply (`App.tsx:366`) is not
cleared and does not ask where the plan is from when it fires: when the state switcher started one while an import was
awaited, its bubble can come below the answer to the first message of the imported project, and chart and bubble
show different diffs, which the comment at line 396 rules out. It takes the state switcher, as `HighlightIsInThread`
says. And the project fetched after a conflict (`App.tsx:435`) is stored without comparing revisions: of two such
fetches the older may be delivered last, and the plan shown is then an older one until the next message ends in a
conflict. The runs `session` and `views` have both behaviours.

## 7. Plan

Done, in this order: Calendar, Scheduler, ProjectStore, AgentTurn, ChangeSet with their runs;
BackendAvailability and AppSession, ChangeView, GanttGeometry and GanttChart, and Workbook; the proofs of
all their safety properties, `StartDates`, `ChangeSet` and the chart last. What would be worth adding:

1. `ConversationStore` within `AgentTurn`: the pairs of two turns stay adjacent, the history bounded.
2. A theorem that joins the modules of one plan: what an import accepts, if acyclic, is what a change set may
   start from, and what a change set leaves is what an export may be given and a chart may show.
3. Month labels of the chart, and the task dialog's chain of predecessors and successors.
