------------------------------ MODULE AppSession ------------------------------
(***************************************************************************)
(* app/App.tsx with the screens, panels and API calls it is built from: one   *)
(* page of the planner, the backend it talks to, other clients of the same    *)
(* projects, and the state switcher for reviewers that the page always shows.  *)
(* A step is one event handler, or what runs when a request is answered, a     *)
(* timer fires or an effect continues; requests overtake each other, lose      *)
(* their answers, and the backend forgets every project when it restarts.      *)
(*                                                                          *)
(* Left out: which task is selected, the fixtures' version shown in mock mode, *)
(* the wording of turns and errors.  Of the thread are kept: whether it has an *)
(* error turn (with a retry button), the change set of the last bubble the     *)
(* backend's answers made, and whether a bubble of the fixtures stands below.  *)
(***************************************************************************)
EXTENDS BackendAvailability, FiniteSets

CONSTANTS
  Texts,        \* what the user may write
  NoText,       \* lastUserMessageRef before the first message
  MaxProjects,  \* bound: projects ever imported
  MaxRevision,  \* bound: no project is changed past this revision
  MaxRunning,   \* bound: messages, exports, loads and timers under way at once
  MaxJumps,     \* bound: uses of the state switcher
  DevStates     \* the states the switcher offers

ASSUME SessionAssumption ==
  /\ NoText \notin Texts
  /\ MaxProjects \in Nat \ {0} /\ MaxRevision \in Nat \ {0}
  /\ MaxRunning \in Nat \ {0} /\ MaxJumps \in Nat
  /\ DevStates \subseteq {"import", "importLoading", "importError", "workspaceBeforeAi",
       "aiProcessing", "aiSuccess", "clarification", "rejected", "technicalError",
       "taskModal", "uploadConfirmation", "exportSuccess"}

VARIABLES
  projects,    \* of each id, whether the backend holds it, and its revision
  saved,       \* the project id in sessionStorage, 0 if none
  page,        \* the state and the refs of App
  loads,       \* the request in pendingRequestRef, and those handleImportDone awaits
  chats,       \* the chat requests in flight
  exports,     \* exports in flight, of both modes, and timers of finished ones
  mockTimers,  \* mock replies to come
  jumps        \* uses of the state switcher left

vars == <<probe, projects, saved, page, loads, chats, exports, mockTimers, jumps>>

Pids  == 1 .. MaxProjects
Slots == 1 .. MaxRunning

(* What the page holds of a project: types/project.ts, but for its tasks. *)
Copy(p, r) == [id |-> p, revision |-> r]
NoCopy     == Copy(0, 0)

(* The project and the change set of a turn are told apart by the plan they   *)
(* lead to: a change set is the copy it was drawn up for.  CANONICAL_CHANGE_SET *)
(* is none of the backend's.                                                 *)
NoTurns == [error |-> FALSE, diff |-> NoCopy, fixture |-> FALSE]

NoLoad == [kind |-> "none", pid |-> 0]
NoReply == [kind |-> "none", project |-> NoCopy, summary |-> FALSE]
NoChat  == [phase |-> "free", pid |-> 0, shown |-> NoCopy, reply |-> NoReply]
NoExports == [server |-> 0, mock |-> 0, done |-> 0]

FreshPage ==
  [screen |-> "serverStarting",
   loadingTimer |-> FALSE,      \* ImportLoadingScreen has yet to call onDone
   pendingFile |-> "none",      \* a real file, a fabricated one, or an invalid one
   unavailable |-> FALSE,       \* importErrorState is of kind backendUnavailable
   notice |-> FALSE,            \* importNotice
   dataSource |-> "mock", serverProject |-> NoCopy, projectId |-> 0,
   serverChangeSet |-> NoCopy,
   uploadConfirmOpen |-> FALSE, exportStatus |-> "idle",
   turns |-> NoTurns, chatStatus |-> "idle",
   lastUserMessage |-> NoText, lastFailedAction |-> "chat",
   late |-> FALSE]              \* history: an answer came for a project left behind

Init ==
  /\ projects = [p \in Pids |-> [state |-> "unborn", revision |-> 1]]
  /\ saved = 0
  /\ page = FreshPage /\ probe = FirstCheck
  /\ loads = [pending |-> NoLoad, awaited |-> <<>>]
  /\ chats = [s \in Slots |-> NoChat]
  /\ exports = NoExports /\ mockTimers = 0 /\ jumps = MaxJumps

ExportsRunning == exports.server + exports.mock + exports.done

Busy   == {s \in Slots : chats[s] # NoChat}
Others == Len(loads.awaited) + ExportsRunning + mockTimers

(* The bound on what is under way. *)
Running == Cardinality(Busy) + Others
HasRoom == Running < MaxRunning

Held(p)     == p \in Pids /\ projects[p].state = "held"
Revision(p) == projects[p].revision

(* A change of screen mounts or unmounts ImportLoadingScreen and its timer; a  *)
(* new pendingFile starts the timer again.                                   *)
Shows(pg, screen) ==
  [pg EXCEPT !.screen = screen, !.loadingTimer = (screen = "importLoading")]

Request(load) == loads' = [loads EXCEPT !.pending = load]

ServerMode(pg) == pg.dataSource = "server"

-----------------------------------------------------------------------------
(* The boot effect: probe the backend, then restore the saved project.        *)

StartBoot(pg) == Shows([pg EXCEPT !.notice = FALSE], "serverStarting")

ProbeStep ==
  ProbeNext /\ UNCHANGED <<projects, saved, page, loads, chats, exports, mockTimers, jumps>>

(* The screen is looked at again after the await; if the user has jumped away *)
(* the effect does nothing.                                                  *)
BootContinues ==
  /\ probe.pc \in {"ready", "unavailable"}
  /\ IF page.screen # "serverStarting"
       THEN UNCHANGED <<page, loads>>
       ELSE \/ /\ probe.pc = "unavailable"
               /\ page' = Shows([page EXCEPT !.unavailable = TRUE], "importError")
               /\ UNCHANGED loads
            \/ /\ probe.pc = "ready" /\ saved = 0
               /\ page' = Shows(page, "import")
               /\ UNCHANGED loads
            \/ /\ probe.pc = "ready" /\ saved # 0
               /\ Request([kind |-> "restore", pid |-> saved])
               /\ page' = Shows(page, "importLoading")
  /\ probe' = NoProbe
  /\ UNCHANGED <<projects, saved, chats, exports, mockTimers, jumps>>

(* The button of the error screen when the backend was unavailable: the effect *)
(* runs again and a call of waitForBackend still running is forgotten.        *)
RetryBackendCheck ==
  /\ page.screen = "importError" /\ page.unavailable
  /\ page' = StartBoot([page EXCEPT !.unavailable = FALSE])
  /\ probe' = FirstCheck
  /\ UNCHANGED <<projects, saved, loads, chats, exports, mockTimers, jumps>>

(* The user reloads the page: what it was waiting for is dropped, though the   *)
(* backend may still act on it.                                              *)
Reload ==
  /\ page' = FreshPage /\ probe' = FirstCheck
  /\ loads' = [pending |-> NoLoad, awaited |-> <<>>]
  /\ chats' = [s \in Slots |-> IF chats[s].phase = "sent"
                                 THEN [chats[s] EXCEPT !.phase = "orphan"]
                                 ELSE IF chats[s].phase = "orphan" THEN chats[s] ELSE NoChat]
  /\ exports' = NoExports /\ mockTimers' = 0
  /\ UNCHANGED <<projects, saved, jumps>>

-----------------------------------------------------------------------------
(* Import and restore.                                                       *)

(* A file chosen in the Dropzone is a real one. *)
BuildPlan ==
  /\ page.screen = "import"
  /\ page' = Shows([page EXCEPT !.pendingFile = "raw", !.notice = FALSE], "importLoading")
  /\ Request([kind |-> "import", pid |-> 0])
  /\ UNCHANGED <<probe, projects, saved, chats, exports, mockTimers, jumps>>

ChooseAnotherFile ==
  /\ page.screen = "importError" /\ ~page.unavailable
  /\ page' = Shows([page EXCEPT !.pendingFile = "none"], "import")
  /\ UNCHANGED <<probe, projects, saved, loads, chats, exports, mockTimers, jumps>>

RetryImport ==
  /\ page.screen = "importError" /\ ~page.unavailable
  /\ Request(IF page.pendingFile = "raw" THEN [kind |-> "import", pid |-> 0] ELSE NoLoad)
  /\ page' = Shows(page, "importLoading")
  /\ UNCHANGED <<probe, projects, saved, chats, exports, mockTimers, jumps>>

(* A thread with nothing in it, nothing being processed or exported. *)
ClearThread(pg) ==
  [pg EXCEPT !.turns = NoTurns, !.chatStatus = "idle", !.exportStatus = "idle"]

(* The loading screen is through its steps: handleImportDone takes the request *)
(* and awaits it, or takes the mock path when there is none.                  *)
LoadingDone ==
  /\ page.loadingTimer
  /\ IF loads.pending # NoLoad
       THEN /\ HasRoom
            /\ loads' = [pending |-> NoLoad, awaited |-> Append(loads.awaited, loads.pending)]
            /\ page' = [page EXCEPT !.loadingTimer = FALSE]
       ELSE /\ page' = IF page.pendingFile = "invalid"
                         THEN Shows([page EXCEPT !.unavailable = FALSE], "importError")
                         ELSE Shows([ClearThread(page) EXCEPT !.dataSource = "mock"], "workspace")
            /\ UNCHANGED loads
  /\ UNCHANGED <<probe, projects, saved, chats, exports, mockTimers, jumps>>

Answered(i) ==
  loads' = [loads EXCEPT !.awaited =
    [j \in 1 .. Len(loads.awaited) - 1 |-> loads.awaited[IF j < i THEN j ELSE j + 1]]]

OldHighlight(pg, project) ==                    \* a bug: the highlight is not taken off
  Shows([ClearThread(pg) EXCEPT !.dataSource = "server", !.serverProject = project,
                                !.projectId = project.id, !.unavailable = FALSE],
        "workspace")

OldProjectId(pg, project) ==                    \* a bug: setProjectId forgotten
  Shows([ClearThread(pg) EXCEPT !.dataSource = "server", !.serverProject = project,
                                !.serverChangeSet = NoCopy, !.unavailable = FALSE],
        "workspace")

Loaded(pg, project) ==
  Shows([ClearThread(pg) EXCEPT !.dataSource = "server", !.serverProject = project,
                                !.projectId = project.id, !.serverChangeSet = NoCopy,
                                !.unavailable = FALSE],
        "workspace")

(* The awaited request is answered: importProject creates a project under a    *)
(* new id, getProject reads one.                                             *)
LoadSucceeds(i) ==
  /\ i \in DOMAIN loads.awaited
  /\ \E p \in Pids :
       /\ \/ /\ loads.awaited[i].kind = "import" /\ projects[p].state = "unborn"
             /\ \A q \in 1 .. p - 1 : projects[q].state # "unborn"
             /\ projects' = [projects EXCEPT ![p].state = "held"]
          \/ loads.awaited[i] = [kind |-> "restore", pid |-> p] /\ Held(p) /\ UNCHANGED projects
       /\ saved' = p
       /\ page' = Loaded(page, Copy(p, Revision(p)))
  /\ Answered(i)
  /\ UNCHANGED <<probe, chats, exports, mockTimers, jumps>>

(* It fails.  A restore that fails forgets the saved id, and says calmly that  *)
(* the project is gone when that is why (404).                               *)
LoadFails(i) ==
  /\ i \in DOMAIN loads.awaited
  /\ \/ /\ loads.awaited[i].kind = "import"
        /\ page' = Shows([page EXCEPT !.unavailable = FALSE], "importError")
        /\ UNCHANGED saved
     \/ /\ loads.awaited[i].kind = "restore" /\ ~Held(loads.awaited[i].pid)
        /\ page' = Shows([page EXCEPT !.notice = TRUE], "import")
        /\ saved' = 0
     \/ /\ loads.awaited[i].kind = "restore"
        /\ page' = Shows([page EXCEPT !.unavailable = TRUE], "importError")
        /\ saved' = 0
  /\ Answered(i)
  /\ UNCHANGED <<probe, projects, chats, exports, mockTimers, jumps>>

-----------------------------------------------------------------------------
(* Chat.                                                                     *)

FreeSlot(s) == chats[s] = NoChat /\ \A r \in 1 .. s - 1 : chats[r] # NoChat

(* runServerAiTurn up to its first await: the message goes to projectId with   *)
(* the revision of serverProject.                                            *)
RunServerAiTurn(text) ==
  IF page.serverProject = NoCopy \/ page.projectId = 0
    THEN UNCHANGED <<page, chats>>
    ELSE \E s \in Slots :
           /\ HasRoom /\ FreeSlot(s)
           /\ chats' = [chats EXCEPT ![s] =
                [NoChat EXCEPT !.phase = "sent", !.pid = page.projectId,
                               !.shown = page.serverProject]]
           /\ page' = [page EXCEPT !.chatStatus = "processing", !.lastUserMessage = text,
                                   !.lastFailedAction = "chat"]

(* runMockAiTurn: its timer is never cleared. *)
MockTurn(pg, text) == [pg EXCEPT !.chatStatus = "processing", !.lastUserMessage = text]

RunMockAiTurn(text) ==
  /\ HasRoom
  /\ mockTimers' = mockTimers + 1
  /\ page' = MockTurn(page, text)

RunAiTurn(text) ==
  IF ServerMode(page) THEN RunServerAiTurn(text) /\ UNCHANGED mockTimers
                      ELSE RunMockAiTurn(text) /\ UNCHANGED chats

(* The panel sends nothing while a message is being processed.  Its examples   *)
(* are offered while the thread is empty, when none is.                      *)
SendMessage ==
  /\ page.screen = "workspace" /\ page.chatStatus = "idle"
  /\ \E text \in Texts : RunAiTurn(text)
  /\ UNCHANGED <<probe, projects, saved, loads, exports, jumps>>

(* resolveMockMessage, for the message its timer was started with, whatever    *)
(* data source the page has by now: a bubble with the fixtures' change set, a  *)
(* reply without one, or an error.                                           *)
MockReply ==
  /\ mockTimers > 0 /\ mockTimers' = mockTimers - 1
  /\ \/ page' = [page EXCEPT !.chatStatus = "idle", !.turns.fixture = TRUE]
     \/ page' = [page EXCEPT !.chatStatus = "idle"]
     \/ page' = [page EXCEPT !.chatStatus = "idle", !.lastFailedAction = "chat",
                             !.turns.error = TRUE]
  /\ UNCHANGED <<probe, projects, saved, loads, chats, exports, jumps>>

Replied(s, reply) ==
  IF chats[s].phase = "orphan"
    THEN [chats EXCEPT ![s] = NoChat]
    ELSE [chats EXCEPT ![s].phase = "answered", ![s].reply = reply]

Expected(s) == chats[s].shown.revision

Waiting(s) == chats[s].phase \in {"sent", "orphan"}

(* The backend applies the message, on the revision it names.                 *)
BackendCommits(s) ==
  /\ Waiting(s)
  /\ LET p == chats[s].pid IN
       /\ Held(p) /\ Expected(s) = Revision(p) /\ Revision(p) < MaxRevision
       /\ projects' = [projects EXCEPT ![p].revision = @ + 1]
       /\ chats' = IF chats[s].phase = "orphan"
                     THEN [chats EXCEPT ![s] = NoChat]
                     ELSE [chats EXCEPT ![s].phase = "committed"]
  /\ UNCHANGED <<probe, saved, page, loads, exports, mockTimers, jumps>>

(* It does not: what ApiError and ChatResult tell the page of it.  An error    *)
(* with no answer, or with a body that cannot be read, has status 0 or none.   *)
BackendRefuses(s) ==
  /\ Waiting(s)
  /\ \E kind \in {"unchanged", "disabled", "conflict", "error"} :
       /\ kind = "unchanged" => Held(chats[s].pid) /\ Expected(s) = Revision(chats[s].pid)
       /\ kind = "conflict"  => Held(chats[s].pid) /\ Expected(s) # Revision(chats[s].pid)
       /\ chats' = Replied(s, [NoReply EXCEPT !.kind = kind])
  /\ UNCHANGED <<probe, projects, saved, page, loads, exports, mockTimers, jumps>>

(* The chat endpoint reads the project again for its answer, which may be lost. *)
(* A turn that did not learn of its own change says that there was none        *)
(* (agent_reply, module AgentTurn).                                          *)
BackendAnswers(s) ==
  /\ chats[s].phase = "committed"
  /\ \/ \E summary \in BOOLEAN :
          chats' = Replied(s, [kind |-> "applied", summary |-> summary,
                               project |-> Copy(chats[s].pid, Revision(chats[s].pid))])
     \/ \E kind \in {"unchanged", "error"} : chats' = Replied(s, [NoReply EXCEPT !.kind = kind])
  /\ UNCHANGED <<probe, projects, saved, page, loads, exports, mockTimers, jumps>>

LeftBehind(s) == ServerMode(page) /\ chats[s].pid # page.projectId

(* An applied turn: one change set is both the highlight and the bubble; with  *)
(* no summary there is neither.                                              *)
Applied(pg, reply, late) ==
  LET diff == IF reply.summary THEN reply.project ELSE NoCopy
  IN  [pg EXCEPT !.chatStatus = "idle", !.serverProject = reply.project,
                 !.serverChangeSet = diff,
                 !.turns = IF reply.summary THEN [@ EXCEPT !.diff = diff, !.fixture = FALSE]
                                            ELSE @,
                 !.late = @ \/ late]

(* The answer arrives, in whatever state the page is by now. *)
GetsReply(s) ==
  /\ chats[s].phase = "answered"
  /\ \/ /\ chats[s].reply.kind = "applied"
        /\ page' = Applied(page, chats[s].reply, LeftBehind(s))
        /\ chats' = [chats EXCEPT ![s] = NoChat]
     \/ /\ chats[s].reply.kind \in {"unchanged", "disabled"}
        /\ page' = [page EXCEPT !.chatStatus = "idle"]
        /\ chats' = [chats EXCEPT ![s] = NoChat]
     \/ /\ chats[s].reply.kind = "conflict"
        /\ page' = [page EXCEPT !.chatStatus = "idle"]
        /\ chats' = [chats EXCEPT ![s].phase = "refetching", ![s].reply = NoReply]
     \/ /\ chats[s].reply.kind = "error"
        /\ page' = [page EXCEPT !.chatStatus = "idle", !.turns.error = TRUE]
        /\ chats' = [chats EXCEPT ![s] = NoChat]
  /\ UNCHANGED <<probe, projects, saved, loads, exports, mockTimers, jumps>>

(* After a 409 the backend is asked for the project as it is now.             *)
BackendReads(s) ==
  /\ chats[s].phase = "refetching" /\ Held(chats[s].pid)
  /\ chats' = [chats EXCEPT ![s].phase = "refetched",
                 ![s].reply.project = Copy(chats[s].pid, Revision(chats[s].pid))]
  /\ UNCHANGED <<probe, projects, saved, page, loads, exports, mockTimers, jumps>>

(* The project arrives or does not; the message is not sent again.            *)
Refetched(s) ==
  /\ \/ /\ chats[s].phase = "refetched"
        /\ page' = [page EXCEPT !.serverProject = chats[s].reply.project,
                                !.turns.error = TRUE, !.late = @ \/ LeftBehind(s)]
     \/ /\ chats[s].phase = "refetching"
        /\ page' = [page EXCEPT !.turns.error = TRUE]
  /\ chats' = [chats EXCEPT ![s] = NoChat]
  /\ UNCHANGED <<probe, projects, saved, loads, exports, mockTimers, jumps>>

-----------------------------------------------------------------------------
(* Export, and loading another file.                                         *)

Export(pg) ==
  /\ HasRoom
  /\ page' = [pg EXCEPT !.exportStatus = "preparing"]
  /\ exports' = IF ServerMode(page) /\ page.projectId # 0
                  THEN [exports EXCEPT !.server = @ + 1]
                  ELSE [exports EXCEPT !.mock = @ + 1]

(* The button of the header is disabled while an export is prepared; that of   *)
(* the dialog is not.                                                        *)
ClickExport ==
  /\ page.screen = "workspace"
  /\ \/ page.exportStatus # "preparing" /\ Export(page)
     \/ page.uploadConfirmOpen /\ Export([page EXCEPT !.uploadConfirmOpen = FALSE])
  /\ UNCHANGED <<probe, projects, saved, loads, chats, mockTimers, jumps>>

(* The file is saved, and a timer will take the mark off the button again.     *)
ExportArrives ==
  /\ \E mode \in {"server", "mock"} :
       exports[mode] > 0 /\ exports' = [exports EXCEPT ![mode] = @ - 1, !.done = @ + 1]
  /\ page' = [page EXCEPT !.exportStatus = "done"]
  /\ UNCHANGED <<probe, projects, saved, loads, chats, mockTimers, jumps>>

ExportFailsQuietly ==                           \* a bug: the button is left disabled
  /\ exports.server > 0 /\ exports' = [exports EXCEPT !.server = @ - 1]
  /\ page' = [page EXCEPT !.lastFailedAction = "export", !.turns.error = TRUE]
  /\ UNCHANGED <<probe, projects, saved, loads, chats, mockTimers, jumps>>

ExportFails ==
  /\ exports.server > 0 /\ exports' = [exports EXCEPT !.server = @ - 1]
  /\ page' = [page EXCEPT !.exportStatus = "idle", !.lastFailedAction = "export",
                          !.turns.error = TRUE]
  /\ UNCHANGED <<probe, projects, saved, loads, chats, mockTimers, jumps>>

(* The timer of a finished export does not ask whether another one has begun.  *)
ExportTimer ==
  /\ exports.done > 0 /\ exports' = [exports EXCEPT !.done = @ - 1]
  /\ page' = [page EXCEPT !.exportStatus = "idle"]
  /\ UNCHANGED <<probe, projects, saved, loads, chats, mockTimers, jumps>>

(* The retry button of an error turn, which stays in the thread and is not     *)
(* disabled while a message is being processed.                              *)
RetryLast ==
  /\ page.screen = "workspace" /\ page.turns.error
  /\ \/ /\ page.lastFailedAction = "export" /\ Export(page)
        /\ UNCHANGED <<chats, mockTimers, jumps>>
     \/ /\ page.lastFailedAction = "chat" /\ page.lastUserMessage # NoText
        /\ RunAiTurn(page.lastUserMessage)
        /\ UNCHANGED exports
  /\ UNCHANGED <<probe, projects, saved, loads, jumps>>

OpenUploadConfirm ==
  /\ page.screen = "workspace"
  /\ page' = [page EXCEPT !.uploadConfirmOpen = TRUE]
  /\ UNCHANGED <<probe, projects, saved, loads, chats, exports, mockTimers, jumps>>

CancelUpload ==
  /\ page.screen = "workspace" /\ page.uploadConfirmOpen
  /\ page' = [page EXCEPT !.uploadConfirmOpen = FALSE]
  /\ UNCHANGED <<probe, projects, saved, loads, chats, exports, mockTimers, jumps>>

(* Back to the import screen.  Requests in flight and timers are not stopped. *)
StaysInServer(pg) ==                            \* a bug: setDataSource forgotten
  [pg EXCEPT !.serverProject = NoCopy, !.serverChangeSet = NoCopy,
             !.projectId = 0, !.unavailable = FALSE, !.notice = FALSE]

LeavesServer(pg) ==
  [pg EXCEPT !.dataSource = "mock", !.serverProject = NoCopy, !.serverChangeSet = NoCopy,
             !.projectId = 0, !.unavailable = FALSE, !.notice = FALSE]

ResetToImport(pg) ==
  Shows([ClearThread(LeavesServer(pg)) EXCEPT !.pendingFile = "none",
                                              !.uploadConfirmOpen = FALSE],
        "import")

ConfirmUpload ==
  /\ page.screen = "workspace" /\ page.uploadConfirmOpen
  /\ page' = ResetToImport(page) /\ saved' = 0
  /\ UNCHANGED <<probe, projects, loads, chats, exports, mockTimers, jumps>>

-----------------------------------------------------------------------------
(* The state switcher.  Its threads are canned: some have the bubble of the    *)
(* fixtures, one has an error turn.                                          *)
Canned(pg, thread, dialog) ==
  Shows([LeavesServer(pg) EXCEPT !.chatStatus = "idle", !.uploadConfirmOpen = dialog,
                                 !.turns = thread],
        "workspace")

FixtureThread == [NoTurns EXCEPT !.fixture = TRUE]
ErrorThread   == [NoTurns EXCEPT !.error = TRUE]

JumpTo(state, text) ==
  LET pg == LeavesServer(page) IN
  CASE state = "import" -> ResetToImport(pg)
    [] state = "importLoading" -> Shows([pg EXCEPT !.pendingFile = "fabricated"], "importLoading")
    [] state = "importError" -> Shows([pg EXCEPT !.pendingFile = "invalid"], "importError")
    [] state = "workspaceBeforeAi" ->
         Shows([ClearThread(pg) EXCEPT !.uploadConfirmOpen = FALSE], "workspace")
    [] state = "aiProcessing" -> MockTurn(Canned(pg, NoTurns, FALSE), text)
    [] state \in {"clarification", "rejected"} -> Canned(pg, NoTurns, FALSE)
    [] state \in {"aiSuccess", "taskModal"} -> Canned(pg, FixtureThread, FALSE)
    [] state = "technicalError" ->
         [Canned(pg, ErrorThread, FALSE)
            EXCEPT !.lastUserMessage = text, !.lastFailedAction = "chat"]
    [] state = "uploadConfirmation" -> Canned(pg, FixtureThread, TRUE)
    [] state = "exportSuccess" ->
         [Canned(pg, FixtureThread, FALSE) EXCEPT !.exportStatus = "done"]

Jump ==
  \E state \in DevStates, text \in Texts :
    /\ jumps > 0 /\ jumps' = jumps - 1
    /\ page' = JumpTo(state, text) /\ saved' = 0
    /\ IF state = "aiProcessing" THEN HasRoom /\ mockTimers' = mockTimers + 1
                                 ELSE UNCHANGED mockTimers
    /\ UNCHANGED <<probe, projects, loads, chats, exports>>

-----------------------------------------------------------------------------
(* Another client changes a project, or the backend restarts and has none: the  *)
(* connections it had are broken.                                            *)
OtherCommits ==
  /\ \E p \in Pids : /\ Held(p) /\ Revision(p) < MaxRevision
                     /\ projects' = [projects EXCEPT ![p].revision = @ + 1]
  /\ UNCHANGED <<probe, saved, page, loads, chats, exports, mockTimers, jumps>>

BackendRestarts ==
  /\ \E p \in Pids : Held(p)
  /\ projects' = [p \in Pids |-> IF Held(p) THEN [state |-> "lost", revision |-> 1] ELSE projects[p]]
  /\ chats' = [s \in Slots |->
       CASE chats[s].phase \in {"sent", "committed"} ->
              [chats[s] EXCEPT !.phase = "answered", !.reply = [NoReply EXCEPT !.kind = "error"]]
         [] chats[s].phase = "orphan" -> NoChat
         [] OTHER -> chats[s]]
  /\ UNCHANGED <<probe, saved, page, loads, exports, mockTimers, jumps>>

-----------------------------------------------------------------------------
LoadStep(i) == LoadSucceeds(i) \/ LoadFails(i)

ChatStep(s) ==
  \/ BackendCommits(s) \/ BackendRefuses(s) \/ BackendAnswers(s)
  \/ GetsReply(s) \/ BackendReads(s) \/ Refetched(s)

ExportStep == ExportArrives \/ ExportFails \/ ExportTimer

UserStep ==
  \/ RetryBackendCheck \/ Reload \/ BuildPlan \/ ChooseAnotherFile \/ RetryImport
  \/ SendMessage \/ ClickExport \/ RetryLast
  \/ OpenUploadConfirm \/ CancelUpload \/ ConfirmUpload \/ Jump

Next ==
  \/ ProbeStep \/ BootContinues \/ LoadingDone \/ MockReply \/ ExportStep
  \/ \E i \in 1 .. MaxRunning : LoadStep(i)
  \/ \E s \in Slots : ChatStep(s)
  \/ UserStep \/ OtherCommits \/ BackendRestarts

Spec == Init /\ [][Next]_vars

-----------------------------------------------------------------------------
Copies == [id : 0 .. MaxProjects, revision : 0 .. MaxRevision]

Replies ==
  [kind : {"none", "applied", "unchanged", "disabled", "conflict", "error"},
   project : Copies, summary : BOOLEAN]

Loads == [kind : {"none", "import", "restore"}, pid : 0 .. MaxProjects]

Chats ==
  [phase : {"free", "sent", "orphan", "committed", "answered", "refetching", "refetched"},
   pid : 0 .. MaxProjects, shown : Copies, reply : Replies]

Threads == [error : BOOLEAN, diff : Copies, fixture : BOOLEAN]

Pages ==
  [screen : {"serverStarting", "import", "importLoading", "importError", "workspace"},
   loadingTimer : BOOLEAN, pendingFile : {"none", "raw", "fabricated", "invalid"},
   unavailable : BOOLEAN, notice : BOOLEAN,
   dataSource : {"mock", "server"}, serverProject : Copies, projectId : 0 .. MaxProjects,
   serverChangeSet : Copies, uploadConfirmOpen : BOOLEAN,
   exportStatus : {"idle", "preparing", "done"},
   turns : Threads, chatStatus : {"idle", "processing"},
   lastUserMessage : Texts \cup {NoText}, lastFailedAction : {"chat", "export"},
   late : BOOLEAN]

TypeOK ==
  /\ ProbeTypeOK
  /\ projects \in [Pids -> [state : {"unborn", "held", "lost"}, revision : 1 .. MaxRevision]]
  /\ saved \in 0 .. MaxProjects
  /\ page \in Pages
  /\ loads \in [pending : Loads, awaited : Seq(Loads)] /\ Len(loads.awaited) <= MaxRunning
  /\ chats \in [Slots -> Chats]
  /\ exports \in [server : Nat, mock : Nat, done : Nat]
  /\ mockTimers \in Nat /\ Running <= MaxRunning
  /\ jumps \in 0 .. MaxJumps

InFlight(s) == chats[s].phase \notin {"free", "orphan"}

(* The page never waits for nothing: while it says it is starting, loading,    *)
(* processing or exporting, the probe, the timer or request, the message or    *)
(* the export is there whose end will say otherwise, however resets, jumps,    *)
(* reloads and stale timers have interleaved.                                *)
NeverWaitsForNothing ==
  /\ page.screen = "serverStarting" => probe.pc # "none"
  /\ page.screen = "importLoading" => page.loadingTimer \/ loads.awaited # <<>>
  /\ page.chatStatus = "processing" =>
       mockTimers > 0 \/ \E s \in Slots : chats[s].phase \in {"sent", "committed", "answered"}
  /\ page.exportStatus = "preparing" => exports.server + exports.mock > 0

(* In server mode the highlight of the chart is the change set of the last     *)
(* bubble that an answer of the backend put in the thread, also when answers   *)
(* of earlier projects arrive or a jump cut one off; and no bubble of the       *)
(* fixtures stands below it unless the state switcher was used, as the page    *)
(* comes to the fixtures in no other way.  (After a jump one may: the timer of  *)
(* a fixture's reply goes on when a project of the backend is loaded.)          *)
HighlightIsInThread ==
  ServerMode(page) /\ page.serverChangeSet # NoCopy =>
    /\ page.turns.diff = page.serverChangeSet
    /\ page.turns.fixture => jumps < MaxJumps

(* Unless an answer came for a project left behind, the page shows the project *)
(* that its messages and exports address, highlights a change of that project,  *)
(* and every message on its way was bound to the project shown.              *)
PlanAgrees ==
  ~page.late =>
    /\ ServerMode(page) =>
         /\ page.serverProject.id = page.projectId /\ page.projectId # 0
         /\ page.serverChangeSet # NoCopy => page.serverChangeSet.id = page.projectId
    /\ \A s \in Slots : InFlight(s) => chats[s].shown.id = chats[s].pid

(* While a project of the backend is on screen, a reload brings back that      *)
(* project; no other id is ever saved with it.                               *)
ReloadReturns ==
  /\ ServerMode(page) /\ page.screen = "workspace" => saved = page.projectId
  /\ saved # 0 /\ page.projectId # 0 => saved = page.projectId

(* What runServerAiTurn says of a message: it is bound to the project state    *)
(* captured at call time.                                                    *)
ChatBoundToShownProject ==
  \A s \in Slots : InFlight(s) => chats[s].shown.id = chats[s].pid

=============================================================================
