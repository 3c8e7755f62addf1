-------------------------- MODULE AppSessionProofs --------------------------
(***************************************************************************)
(* The guarantees of the start-up probe and of the page, for any number of     *)
(* projects, messages, exports and jumps under way, any timings and texts.     *)
(***************************************************************************)
EXTENDS AppSession, FiniteSetTheorems, TLAPS

-----------------------------------------------------------------------------
(* The start-up probe.                                                       *)

LEMMA DelayPositive ==
  ASSUME NEW attempt \in Nat
  PROVE  Delay(attempt) \in Nat \ {0}
<1>1. Len(Backoff) \in Nat \ {0} /\ Backoff \in [1 .. Len(Backoff) -> Nat \ {0}]
  BY ProbeAssumption
<1> QED
  BY <1>1 DEF Delay

ProbeInv ==
  /\ ProbeTypeOK /\ ProbeBounded
  /\ probe.pc = "sleeping" => 1 <= probe.attempt /\ probe.attempt <= probe.elapsed + 1

LEMMA ProbeStepKeepsInv ==
  ASSUME ProbeInv, ProbeNext
  PROVE  ProbeInv'
<1>0. /\ Budget \in Nat \ {0} /\ CheckTimeout \in Nat
      /\ \A t \in CheckTimes : t \in Nat /\ t <= CheckTimeout
  BY ProbeAssumption
<1>00. /\ probe.attempt \in Nat /\ probe.elapsed \in Nat
       /\ probe = [pc |-> probe.pc, attempt |-> probe.attempt, elapsed |-> probe.elapsed]
  BY DEF ProbeInv, ProbeTypeOK
<1>1. CASE CheckSucceeds
  <2>1. PICK t \in CheckTimes : probe' = [probe EXCEPT !.pc = "ready", !.elapsed = @ + t]
    BY <1>1 DEF CheckSucceeds
  <2>2. probe' = [pc |-> "ready", attempt |-> probe.attempt, elapsed |-> probe.elapsed + t]
    BY <1>00, <2>1
  <2>3. probe.elapsed < Budget /\ probe.attempt <= probe.elapsed
    BY <1>1 DEF CheckSucceeds, ProbeInv, ProbeBounded
  <2> QED
    BY <1>0, <1>00, <2>2, <2>3 DEF ProbeInv, ProbeTypeOK, ProbeBounded
<1>2. CASE CheckFails
  <2>1. PICK t \in CheckTimes :
          probe' = IF GivesUp(probe.elapsed + t, probe.attempt)
                     THEN [probe EXCEPT !.pc = "unavailable", !.elapsed = probe.elapsed + t]
                     ELSE [pc |-> "sleeping", attempt |-> probe.attempt + 1,
                           elapsed |-> probe.elapsed + t]
    BY <1>2 DEF CheckFails
  <2>2. Delay(probe.attempt) \in Nat \ {0} /\ probe.pc = "checking"
    BY <1>2, DelayPositive DEF CheckFails, ProbeInv, ProbeTypeOK
  <2>5. probe.elapsed < Budget /\ probe.attempt <= probe.elapsed
    BY <2>2 DEF ProbeInv, ProbeBounded
  <2>3. CASE GivesUp(probe.elapsed + t, probe.attempt)
    <3>1. probe' = [pc |-> "unavailable", attempt |-> probe.attempt, elapsed |-> probe.elapsed + t]
      BY <1>00, <2>1, <2>3
    <3> QED
      BY <1>0, <1>00, <2>5, <3>1 DEF ProbeInv, ProbeTypeOK, ProbeBounded
  <2>4. CASE ~GivesUp(probe.elapsed + t, probe.attempt)
    <3>1. probe' = [pc |-> "sleeping", attempt |-> probe.attempt + 1, elapsed |-> probe.elapsed + t]
      BY <2>1, <2>4
    <3>2. probe.elapsed + t + Delay(probe.attempt) < Budget
      BY <1>0, <1>00, <2>2, <2>4 DEF GivesUp
    <3>3. probe'.attempt - 1 = probe.attempt
      BY <1>00, <3>1
    <3>4. probe'.elapsed + Delay(probe'.attempt - 1) < Budget
      BY <3>1, <3>2, <3>3
    <3> HIDE DEF Delay
    <3> QED
      BY <1>0, <1>00, <2>2, <2>5, <3>1, <3>2, <3>4 DEF ProbeInv, ProbeTypeOK, ProbeBounded
  <2> QED
    BY <2>3, <2>4
<1>3. CASE SleepEnds
  <2>1. Delay(probe.attempt - 1) \in Nat \ {0}
    BY <1>3, DelayPositive DEF SleepEnds, ProbeInv, ProbeTypeOK
  <2>2. probe' = [pc |-> "checking", attempt |-> probe.attempt,
                  elapsed |-> probe.elapsed + Delay(probe.attempt - 1)]
    BY <1>00, <1>3 DEF SleepEnds
  <2>3. probe.elapsed + Delay(probe.attempt - 1) < Budget /\ probe.attempt <= probe.elapsed + 1
    BY <1>3 DEF SleepEnds, ProbeInv, ProbeBounded
  <2> QED
    BY <1>0, <1>00, <2>1, <2>2, <2>3 DEF ProbeInv, ProbeTypeOK, ProbeBounded
<1> QED
  BY <1>1, <1>2, <1>3 DEF ProbeNext

LEMMA FirstCheckInv ==
  ASSUME probe = FirstCheck
  PROVE  ProbeInv
BY ProbeAssumption DEF FirstCheck, ProbeInv, ProbeTypeOK, ProbeBounded

(* The probe's state is what waitForBackend can hold, and it waits for less     *)
(* than its budget and one health check, whatever the delays.                 *)
THEOREM ProbeIsBounded == ProbeSpec => [](ProbeTypeOK /\ ProbeBounded)
<1>1. ASSUME ProbeInv, [ProbeNext]_probe
      PROVE  ProbeInv'
  <2>1. CASE probe' = probe
    BY <1>1, <2>1 DEF ProbeInv, ProbeTypeOK, ProbeBounded
  <2> QED
    BY <1>1, <2>1, ProbeStepKeepsInv
<1>2. ProbeInv => ProbeTypeOK /\ ProbeBounded
  BY DEF ProbeInv
<1> QED
  BY <1>1, <1>2, FirstCheckInv, PTL DEF ProbeSpec

-----------------------------------------------------------------------------
(* The page's own operations keep its type.                                   *)

USE DEF Threads

Screens == {"serverStarting", "import", "importLoading", "importError", "workspace"}

LEMMA NoCopyType == NoCopy \in Copies /\ NoCopy.id = 0 /\ 0 \in 0 .. MaxProjects
BY SessionAssumption DEF NoCopy, Copy, Copies

LEMMA ShowsType ==
  ASSUME NEW pg \in Pages, NEW screen \in Screens
  PROVE  Shows(pg, screen) \in Pages
BY DEF Shows, Pages, Screens

LEMMA ThreadTypes ==
  NoTurns \in Threads /\ FixtureThread \in Threads /\ ErrorThread \in Threads
BY NoCopyType DEF NoTurns, FixtureThread, ErrorThread, Threads

LEMMA ClearThreadType ==
  ASSUME NEW pg \in Pages
  PROVE  ClearThread(pg) \in Pages
BY ThreadTypes DEF ClearThread, Pages

LEMMA LeavesServerType ==
  ASSUME NEW pg \in Pages
  PROVE  LeavesServer(pg) \in Pages
BY NoCopyType DEF LeavesServer, Pages

LEMMA FreshPageType == FreshPage \in Pages
BY NoCopyType, ThreadTypes, SessionAssumption DEF FreshPage, Pages

LEMMA LoadedType ==
  ASSUME NEW pg \in Pages, NEW project \in Copies
  PROVE  Loaded(pg, project) \in Pages
<1>1. ClearThread(pg) \in Pages /\ "workspace" \in Screens
  BY ClearThreadType DEF Screens
<1> DEFINE cleared == ClearThread(pg)
           loaded  == [cleared EXCEPT !.dataSource = "server", !.serverProject = project,
                                      !.projectId = project.id, !.serverChangeSet = NoCopy,
                                      !.unavailable = FALSE]
<1>2. cleared \in Pages
  BY <1>1
<1>5. project.id \in 0 .. MaxProjects
  BY DEF Copies
<1>3. loaded \in Pages
  <2> HIDE DEF cleared, Threads
  <2> QED
    BY <1>2, <1>5, NoCopyType DEF Pages
<1>4. Loaded(pg, project) = Shows(loaded, "workspace")
  BY DEF Loaded
<1> HIDE DEF loaded
<1> QED
  BY <1>1, <1>3, <1>4, ShowsType

LEMMA ShowOther ==
  ASSUME NEW pg \in Pages
  PROVE  /\ \A text \in Texts : MockTurn(pg, text) \in Pages
         /\ StartBoot(pg) \in Pages /\ ResetToImport(pg) \in Pages
         /\ \A thread \in Threads, dialog \in BOOLEAN : Canned(pg, thread, dialog) \in Pages
<1>1. \A text \in Texts : MockTurn(pg, text) \in Pages
  BY DEF MockTurn, Pages
<1>2. StartBoot(pg) \in Pages
  <2>1. [pg EXCEPT !.notice = FALSE] \in Pages
    BY DEF Pages
  <2> QED
    BY <2>1, ShowsType DEF StartBoot, Screens
<1>3. ResetToImport(pg) \in Pages
  <2> DEFINE cleared == ClearThread(LeavesServer(pg))
             reset   == [cleared EXCEPT !.pendingFile = "none", !.uploadConfirmOpen = FALSE]
  <2>1. cleared \in Pages
    BY ClearThreadType, LeavesServerType
  <2>2. reset \in Pages
    <3> HIDE DEF cleared
    <3> QED
      BY <2>1 DEF Pages
  <2>3. ResetToImport(pg) = Shows(reset, "import") /\ "import" \in Screens
    BY DEF ResetToImport, Screens
  <2> HIDE DEF reset
  <2> QED
    BY <2>2, <2>3, ShowsType
<1>4. ASSUME NEW thread \in Threads, NEW dialog \in BOOLEAN
      PROVE  Canned(pg, thread, dialog) \in Pages
  <2> DEFINE left == LeavesServer(pg)
             new  == [left EXCEPT !.chatStatus = "idle", !.uploadConfirmOpen = dialog,
                                  !.turns = thread]
  <2>1. left \in Pages
    BY LeavesServerType
  <2>2. new \in Pages
    <3> HIDE DEF left
    <3> QED
      BY <2>1 DEF Pages
  <2>3. Canned(pg, thread, dialog) = Shows(new, "workspace") /\ "workspace" \in Screens
    BY DEF Canned, Screens
  <2> HIDE DEF new
  <2> QED
    BY <2>2, <2>3, ShowsType
<1> QED
  BY <1>1, <1>2, <1>3, <1>4

LEMMA JumpToType ==
  ASSUME page \in Pages, NEW state \in DevStates, NEW text \in Texts
  PROVE  JumpTo(state, text) \in Pages
<1> DEFINE left == LeavesServer(page)
<1>1. left \in Pages
  BY LeavesServerType
<1> HIDE DEF left
<1>2. ResetToImport(left) \in Pages
  BY <1>1, ShowOther
<1>3. ASSUME NEW file \in {"fabricated", "invalid"}, NEW screen \in Screens
      PROVE  Shows([left EXCEPT !.pendingFile = file], screen) \in Pages
  <2>1. [left EXCEPT !.pendingFile = file] \in Pages
    BY <1>1 DEF Pages
  <2> QED
    BY <2>1, ShowsType
<1>4. Shows([ClearThread(left) EXCEPT !.uploadConfirmOpen = FALSE], "workspace") \in Pages
  <2>1. ASSUME NEW cleared \in Pages
        PROVE  [cleared EXCEPT !.uploadConfirmOpen = FALSE] \in Pages
    BY DEF Pages
  <2>2. "workspace" \in Screens
    BY DEF Screens
  <2> QED
    BY <1>1, <2>1, <2>2, ClearThreadType, ShowsType
<1>5. /\ \A dialog \in BOOLEAN : /\ Canned(left, NoTurns, dialog) \in Pages
                                 /\ Canned(left, FixtureThread, dialog) \in Pages
      /\ Canned(left, ErrorThread, FALSE) \in Pages
  BY <1>1, ShowOther, ThreadTypes
<1>6. MockTurn(Canned(left, NoTurns, FALSE), text) \in Pages
  BY <1>5, ShowOther
<1>7. [Canned(left, ErrorThread, FALSE) EXCEPT !.lastUserMessage = text, !.lastFailedAction = "chat"] \in Pages
  <2>1. ASSUME NEW pg \in Pages
        PROVE  [pg EXCEPT !.lastUserMessage = text, !.lastFailedAction = "chat"] \in Pages
    BY DEF Pages
  <2> QED
    BY <1>5, <2>1
<1>8. [Canned(left, FixtureThread, FALSE) EXCEPT !.exportStatus = "done"] \in Pages
  <2>1. ASSUME NEW pg \in Pages
        PROVE  [pg EXCEPT !.exportStatus = "done"] \in Pages
    BY DEF Pages
  <2> QED
    BY <1>5, <2>1
<1>9. state \in {"import", "importLoading", "importError", "workspaceBeforeAi",
       "aiProcessing", "aiSuccess", "clarification", "rejected", "technicalError",
       "taskModal", "uploadConfirmation", "exportSuccess"}
  BY SessionAssumption
<1> QED
  BY <1>2, <1>3, <1>4, <1>5, <1>6, <1>7, <1>8, <1>9 DEF JumpTo, left, Screens

(* What is under way is counted by natural numbers, and fewer busy slots count  *)
(* for less.                                                                *)
LEMMA BusyCount ==
  /\ IsFiniteSet(Busy) /\ Cardinality(Busy) \in Nat
  /\ IsFiniteSet(Busy') /\ Cardinality(Busy') \in Nat
  /\ Busy' \subseteq Busy => Cardinality(Busy') <= Cardinality(Busy)
  /\ \A s \in Slots : Busy' \subseteq Busy \cup {s} => Cardinality(Busy') <= Cardinality(Busy) + 1
<1>1. IsFiniteSet(Slots)
  BY FS_Interval, SessionAssumption DEF Slots
<1>2. IsFiniteSet(Busy) /\ IsFiniteSet(Busy')
  BY <1>1, FS_Subset DEF Busy
<1>3. ASSUME NEW s \in Slots
      PROVE  /\ IsFiniteSet(Busy \cup {s})
             /\ Cardinality(Busy \cup {s}) \in Nat
             /\ Cardinality(Busy \cup {s}) <= Cardinality(Busy) + 1
  <2>1. /\ IsFiniteSet(Busy \cup {s})
        /\ Cardinality(Busy \cup {s}) = IF s \in Busy THEN Cardinality(Busy)
                                                    ELSE Cardinality(Busy) + 1
    BY <1>2, FS_AddElement
  <2> QED
    BY <1>2, <2>1, FS_CardinalityType
<1>4. Cardinality(Busy) \in Nat /\ Cardinality(Busy') \in Nat
  BY <1>2, FS_CardinalityType
<1>5. Busy' \subseteq Busy => Cardinality(Busy') <= Cardinality(Busy)
  BY <1>2, FS_Subset
<1>6. ASSUME NEW s \in Slots, Busy' \subseteq Busy \cup {s}
      PROVE  Cardinality(Busy') <= Cardinality(Busy) + 1
  <2>1. Cardinality(Busy') <= Cardinality(Busy \cup {s})
    BY <1>3, <1>6, FS_Subset
  <2> QED
    BY <1>3, <1>4, <2>1
<1> QED
  BY <1>2, <1>4, <1>5, <1>6

LEMMA AnsweredType ==
  ASSUME TypeOK, NEW i \in DOMAIN loads.awaited, Answered(i)
  PROVE  /\ loads' \in [pending : Loads, awaited : Seq(Loads)]
         /\ loads'.pending = loads.pending
         /\ Len(loads'.awaited) = Len(loads.awaited) - 1
<1> DEFINE n    == Len(loads.awaited) - 1
           rest == [j \in 1 .. n |-> loads.awaited[IF j < i THEN j ELSE j + 1]]
<1>1. loads.awaited \in Seq(Loads) /\ loads.pending \in Loads /\ loads.awaited # <<>>
  BY DEF TypeOK
<1>2. n \in Nat /\ DOMAIN loads.awaited = 1 .. n + 1
  BY <1>1
<1>3. \A j \in 1 .. n : loads.awaited[IF j < i THEN j ELSE j + 1] \in Loads
  BY <1>1, <1>2
<1>4. rest \in [1 .. n -> Loads]
  BY <1>3
<1>5. rest \in Seq(Loads) /\ Len(rest) = n
  BY <1>2, <1>4
<1>6. loads' = [loads EXCEPT !.awaited = rest]
  BY DEF Answered
<1> HIDE DEF rest, n
<1>7. loads' \in [pending : Loads, awaited : Seq(Loads)] /\ loads'.pending = loads.pending
      /\ loads'.awaited = rest
  BY <1>1, <1>5, <1>6 DEF TypeOK
<1> QED
  BY <1>5, <1>7 DEF n

(* Nothing more is under way, or one thing more when there is room for it. *)
LEMMA RunningStep ==
  ASSUME TypeOK,
         loads'.awaited \in Seq(Loads), exports' \in [server : Nat, mock : Nat, done : Nat],
         mockTimers' \in Nat,
         NEW s \in Slots,
         \/ Busy' \subseteq Busy /\ Others' <= Others
         \/ HasRoom /\ Busy' \subseteq Busy /\ Others' <= Others + 1
         \/ HasRoom /\ Busy' \subseteq Busy \cup {s} /\ Others' <= Others
  PROVE  Running' <= MaxRunning
<1>1. /\ Cardinality(Busy) \in Nat /\ Cardinality(Busy') \in Nat
      /\ Busy' \subseteq Busy => Cardinality(Busy') <= Cardinality(Busy)
      /\ Busy' \subseteq Busy \cup {s} => Cardinality(Busy') <= Cardinality(Busy) + 1
  BY BusyCount
<1>2. /\ Len(loads.awaited) \in Nat /\ Len(loads'.awaited) \in Nat
      /\ ExportsRunning \in Nat /\ ExportsRunning' \in Nat
      /\ mockTimers \in Nat
  <2>1. /\ loads.awaited \in Seq(Loads) /\ mockTimers \in Nat
        /\ exports \in [server : Nat, mock : Nat, done : Nat]
    BY DEF TypeOK
  <2>2. Len(loads.awaited) \in Nat /\ Len(loads'.awaited) \in Nat
    BY <2>1
  <2>3. ExportsRunning \in Nat /\ ExportsRunning' \in Nat
    BY <2>1 DEF ExportsRunning
  <2> QED
    BY <2>1, <2>2, <2>3
<1>3. Others \in Nat /\ Others' \in Nat
  BY <1>2 DEF Others
<1>4. Running = Cardinality(Busy) + Others /\ Running' = Cardinality(Busy') + Others'
  BY DEF Running
<1>5. Running <= MaxRunning /\ MaxRunning \in Nat
  BY SessionAssumption DEF TypeOK
<1> QED
  BY <1>1, <1>3, <1>4, <1>5 DEF HasRoom

(* The common case: what is under way does not change. *)
LEMMA RunningSame ==
  ASSUME TypeOK, UNCHANGED <<loads, chats, exports, mockTimers>>
  PROVE  Running' <= MaxRunning
<1>1. Busy' = Busy
  BY DEF Busy
<1> QED
  BY <1>1 DEF TypeOK, Running, Others, ExportsRunning

-----------------------------------------------------------------------------
(* Type correctness, action by action.                                        *)

LEMMA TypeParts ==
  ASSUME TypeOK
  PROVE  /\ ProbeTypeOK
         /\ projects \in [Pids -> [state : {"unborn", "held", "lost"}, revision : 1 .. MaxRevision]]
         /\ saved \in 0 .. MaxProjects /\ page \in Pages
         /\ loads \in [pending : Loads, awaited : Seq(Loads)]
         /\ Len(loads.awaited) <= MaxRunning /\ Len(loads.awaited) \in Nat
         /\ chats \in [Slots -> Chats]
         /\ exports \in [server : Nat, mock : Nat, done : Nat]
         /\ mockTimers \in Nat /\ Running <= MaxRunning /\ jumps \in 0 .. MaxJumps
         /\ MaxRunning \in Nat \ {0} /\ 1 \in Slots
BY SessionAssumption DEF TypeOK, Slots

(* The actions that change the page, the saved id and the pending request, but   *)
(* nothing that is under way.                                                *)
LEMMA QuietStepType ==
  ASSUME TypeOK, page' \in Pages, ProbeTypeOK', saved' \in 0 .. MaxProjects,
         \E load \in Loads : loads' = [loads EXCEPT !.pending = load],
         UNCHANGED <<projects, chats, exports, mockTimers>>, jumps' \in 0 .. MaxJumps
  PROVE  TypeOK'
<1>1. PICK load \in Loads : loads' = [loads EXCEPT !.pending = load]
  OBVIOUS
<1>2. loads' \in [pending : Loads, awaited : Seq(Loads)] /\ loads'.awaited = loads.awaited
  BY <1>1, TypeParts
<1>3. Busy' = Busy /\ Others' = Others
  BY <1>2 DEF Busy, Others, ExportsRunning
<1>4. Running' = Running
  BY <1>3 DEF Running
<1> QED
  BY <1>2, <1>4, TypeParts DEF TypeOK

(* A step of a message under way that leaves the other things as they are. *)
LEMMA ChatStepType ==
  ASSUME TypeOK, page' \in Pages, NEW s \in Slots, NEW c \in Chats,
         chats[s] # NoChat, chats' = [chats EXCEPT ![s] = c],
         projects' \in [Pids -> [state : {"unborn", "held", "lost"}, revision : 1 .. MaxRevision]],
         UNCHANGED <<probe, saved, loads, exports, mockTimers, jumps>>
  PROVE  TypeOK'
<1>1. chats' \in [Slots -> Chats]
  BY TypeParts
<1>2. Busy' \subseteq Busy
  BY TypeParts DEF Busy
<1>3. Others' = Others /\ Others \in Nat
  <2>1. Others' = Others
    BY DEF Others, ExportsRunning
  <2>2. Len(loads.awaited) \in Nat /\ ExportsRunning \in Nat /\ mockTimers \in Nat
    BY TypeParts DEF ExportsRunning
  <2> QED
    BY <2>1, <2>2 DEF Others
<1>4. Running' <= MaxRunning
  BY <1>2, <1>3, TypeParts, RunningStep
<1> QED
  BY <1>1, <1>4, TypeParts DEF TypeOK, ProbeTypeOK

LEMMA PendingKept ==
  ASSUME TypeOK
  PROVE  /\ \E load \in Loads : loads = [loads EXCEPT !.pending = load]
         /\ NoLoad \in Loads /\ [kind |-> "import", pid |-> 0] \in Loads
         /\ [kind |-> "restore", pid |-> saved] \in Loads
<1>1. loads = [loads EXCEPT !.pending = loads.pending] /\ loads.pending \in Loads
  BY TypeParts
<1>2. 0 \in 0 .. MaxProjects /\ saved \in 0 .. MaxProjects
  BY TypeParts, NoCopyType
<1> QED
  BY <1>1, <1>2 DEF NoLoad, Loads

LEMMA ProbeResets ==
  /\ NoProbe \in [pc : {"none", "checking", "sleeping", "ready", "unavailable"},
                  attempt : Nat, elapsed : Nat]
  /\ FirstCheck \in [pc : {"none", "checking", "sleeping", "ready", "unavailable"},
                     attempt : Nat, elapsed : Nat]
BY DEF NoProbe, FirstCheck

(* The steps that start or end nothing: of the probe, the boot effect, and the   *)
(* buttons that lead from one screen to another.                              *)
QuietStep ==
  \/ ProbeStep \/ BootContinues \/ RetryBackendCheck \/ BuildPlan \/ ChooseAnotherFile
  \/ RetryImport \/ OpenUploadConfirm \/ CancelUpload \/ ConfirmUpload

LEMMA QuietStepsType ==
  ASSUME TypeOK, ProbeInv, QuietStep
  PROVE  TypeOK'
<1>1. /\ page \in Pages /\ saved \in 0 .. MaxProjects /\ jumps \in 0 .. MaxJumps
      /\ 0 \in 0 .. MaxProjects
  BY TypeParts, NoCopyType
<1>2. \A screen \in Screens : Shows(page, screen) \in Pages
  BY <1>1, ShowsType
<1>3. ASSUME NEW load, loads' = [loads EXCEPT !.pending = load], load \in Loads
      PROVE  \E l \in Loads : loads' = [loads EXCEPT !.pending = l]
  BY <1>3
<1>4. loads' = loads => \E l \in Loads : loads' = [loads EXCEPT !.pending = l]
  BY PendingKept
<1>5. CASE ProbeStep
  <2>1. ProbeTypeOK'
    BY <1>5, ProbeStepKeepsInv DEF ProbeStep, ProbeInv
  <2> QED
    BY <1>1, <1>4, <1>5, <2>1, QuietStepType DEF ProbeStep
<1>6. CASE BootContinues
  <2>1. ProbeTypeOK'
    BY <1>6, ProbeResets DEF BootContinues, ProbeTypeOK
  <2>2. page' \in Pages
    <3>1. [page EXCEPT !.unavailable = TRUE] \in Pages
      BY <1>1 DEF Pages
    <3>2. Shows([page EXCEPT !.unavailable = TRUE], "importError") \in Pages
      BY <3>1, ShowsType DEF Screens
    <3>3. "import" \in Screens /\ "importLoading" \in Screens
      BY DEF Screens
    <3> QED
      BY <1>1, <1>2, <1>6, <3>2, <3>3 DEF BootContinues
  <2>3. loads' = loads \/ loads' = [loads EXCEPT !.pending = [kind |-> "restore", pid |-> saved]]
    BY <1>6 DEF BootContinues, Request
  <2>4. \E l \in Loads : loads' = [loads EXCEPT !.pending = l]
    BY <2>3, PendingKept
  <2>5. UNCHANGED <<projects, saved, chats, exports, mockTimers, jumps>>
    BY <1>6 DEF BootContinues
  <2> QED
    BY <1>1, <2>1, <2>2, <2>4, <2>5, QuietStepType
<1>7. CASE RetryBackendCheck
  <2>1. ProbeTypeOK'
    BY <1>7, ProbeResets DEF RetryBackendCheck, ProbeTypeOK
  <2>2. [page EXCEPT !.unavailable = FALSE] \in Pages
    BY <1>1 DEF Pages
  <2>3. page' \in Pages
    BY <1>7, <2>2, ShowOther DEF RetryBackendCheck
  <2>4. UNCHANGED <<projects, saved, loads, chats, exports, mockTimers, jumps>>
    BY <1>7 DEF RetryBackendCheck
  <2> QED
    BY <1>1, <1>4, <2>1, <2>3, <2>4, QuietStepType
<1>8. CASE BuildPlan
  <2>1. [page EXCEPT !.pendingFile = "raw", !.notice = FALSE] \in Pages
    BY <1>1 DEF Pages
  <2>2. page' \in Pages
    BY <1>8, <2>1, ShowsType DEF BuildPlan, Screens
  <2>3. /\ UNCHANGED <<probe, projects, saved, chats, exports, mockTimers, jumps>>
        /\ loads' = [loads EXCEPT !.pending = [kind |-> "import", pid |-> 0]]
    BY <1>8 DEF BuildPlan, Request
  <2>4. ProbeTypeOK'
    BY <2>3 DEF ProbeInv, ProbeTypeOK
  <2> QED
    BY <1>1, <1>3, <2>2, <2>3, <2>4, PendingKept, QuietStepType
<1>9. CASE ChooseAnotherFile
  <2>1. [page EXCEPT !.pendingFile = "none"] \in Pages
    BY <1>1 DEF Pages
  <2>2. page' \in Pages
    BY <1>9, <2>1, ShowsType DEF ChooseAnotherFile, Screens
  <2>3. UNCHANGED <<probe, projects, saved, loads, chats, exports, mockTimers, jumps>>
    BY <1>9 DEF ChooseAnotherFile
  <2>4. ProbeTypeOK'
    BY <2>3 DEF ProbeInv, ProbeTypeOK
  <2> QED
    BY <1>1, <1>4, <2>2, <2>3, <2>4, QuietStepType
<1>10. CASE RetryImport
  <2>1. page' \in Pages
    BY <1>1, <1>10, ShowsType DEF RetryImport, Screens
  <2>2. UNCHANGED <<probe, projects, saved, chats, exports, mockTimers, jumps>>
    BY <1>10 DEF RetryImport
  <2>3. \/ loads' = [loads EXCEPT !.pending = [kind |-> "import", pid |-> 0]]
        \/ loads' = [loads EXCEPT !.pending = NoLoad]
    BY <1>10 DEF RetryImport, Request
  <2>4. \E l \in Loads : loads' = [loads EXCEPT !.pending = l]
    BY <2>3, PendingKept
  <2>5. ProbeTypeOK'
    BY <2>2 DEF ProbeInv, ProbeTypeOK
  <2> QED
    BY <1>1, <2>1, <2>2, <2>4, <2>5, QuietStepType
<1>11. CASE OpenUploadConfirm \/ CancelUpload \/ ConfirmUpload
  <2>1. \A open \in BOOLEAN : [page EXCEPT !.uploadConfirmOpen = open] \in Pages
    BY <1>1 DEF Pages
  <2>2. page' \in Pages /\ saved' \in 0 .. MaxProjects
    BY <1>1, <1>11, <2>1, ShowOther DEF OpenUploadConfirm, CancelUpload, ConfirmUpload
  <2>3. UNCHANGED <<probe, projects, loads, chats, exports, mockTimers, jumps>>
    BY <1>11 DEF OpenUploadConfirm, CancelUpload, ConfirmUpload
  <2>4. ProbeTypeOK'
    BY <2>3 DEF ProbeInv, ProbeTypeOK
  <2> QED
    BY <1>1, <1>4, <2>2, <2>3, <2>4, QuietStepType
<1> QED
  BY <1>5, <1>6, <1>7, <1>8, <1>9, <1>10, <1>11 DEF QuietStep

LEMMA ReloadType ==
  ASSUME TypeOK, Reload
  PROVE  TypeOK'
<1>1. page' \in Pages /\ ProbeTypeOK'
  BY FreshPageType, ProbeResets DEF Reload, ProbeTypeOK
<1>2. loads' \in [pending : Loads, awaited : Seq(Loads)] /\ Len(loads'.awaited) = 0
  BY PendingKept DEF Reload
<1>3. chats' \in [Slots -> Chats] /\ Busy' \subseteq Busy
  <2>1. NoChat \in Chats
    BY NoCopyType, SessionAssumption DEF NoChat, NoReply, Chats, Replies
  <2>2. \A s \in Slots : chats[s] \in Chats /\ [chats[s] EXCEPT !.phase = "orphan"] \in Chats
    BY TypeParts DEF Chats
  <2>3. \A s \in Slots : chats[s].phase \in {"sent", "orphan"} => chats[s] # NoChat
    BY DEF NoChat
  <2> QED
    BY <2>1, <2>2, <2>3 DEF Reload, Busy
<1>4. exports' = [server |-> 0, mock |-> 0, done |-> 0] /\ mockTimers' = 0
  BY DEF Reload, NoExports
<1>5. Others' = 0 /\ Others \in Nat
  <2>1. Len(loads.awaited) \in Nat /\ ExportsRunning \in Nat /\ mockTimers \in Nat
    BY TypeParts DEF ExportsRunning
  <2>2. ExportsRunning' = 0
    BY <1>4 DEF ExportsRunning
  <2> QED
    BY <1>2, <1>4, <2>1, <2>2 DEF Others
<1>6. Running' <= MaxRunning
  BY <1>2, <1>3, <1>4, <1>5, TypeParts, RunningStep
<1> QED
  BY <1>1, <1>2, <1>3, <1>4, <1>6, TypeParts DEF Reload, TypeOK

LEMMA LoadingDoneType ==
  ASSUME TypeOK, LoadingDone
  PROVE  TypeOK'
<1>1. page \in Pages /\ loads.pending \in Loads /\ loads.awaited \in Seq(Loads)
  BY TypeParts
<1>2. page' \in Pages
  <2>1. /\ [page EXCEPT !.loadingTimer = FALSE] \in Pages
        /\ [page EXCEPT !.unavailable = FALSE] \in Pages
    BY <1>1 DEF Pages
  <2>2. ASSUME NEW cleared \in Pages
        PROVE  [cleared EXCEPT !.dataSource = "mock"] \in Pages
    BY DEF Pages
  <2>3. [ClearThread(page) EXCEPT !.dataSource = "mock"] \in Pages
    BY <1>1, <2>2, ClearThreadType
  <2>4. "importError" \in Screens /\ "workspace" \in Screens
    BY DEF Screens
  <2> QED
    BY <2>1, <2>3, <2>4, ShowsType DEF LoadingDone
<1>3. UNCHANGED <<probe, projects, saved, chats, exports, mockTimers, jumps>>
  BY DEF LoadingDone
<1>4. \/ UNCHANGED loads
      \/ HasRoom /\ loads' = [pending |-> NoLoad, awaited |-> Append(loads.awaited, loads.pending)]
  BY DEF LoadingDone
<1>5. /\ loads' \in [pending : Loads, awaited : Seq(Loads)]
      /\ \/ UNCHANGED loads
         \/ HasRoom /\ Len(loads'.awaited) = Len(loads.awaited) + 1
  <2>1. CASE UNCHANGED loads
    BY <2>1, TypeParts
  <2>2. CASE HasRoom /\ loads' = [pending |-> NoLoad,
                                 awaited |-> Append(loads.awaited, loads.pending)]
    <3>1. Append(loads.awaited, loads.pending) \in Seq(Loads)
          /\ Len(Append(loads.awaited, loads.pending)) = Len(loads.awaited) + 1
      BY <1>1
    <3> QED
      BY <2>2, <3>1, PendingKept
  <2> QED
    BY <1>4, <2>1, <2>2
<1>6. Len(loads.awaited) \in Nat /\ ExportsRunning \in Nat /\ mockTimers \in Nat
  BY TypeParts DEF ExportsRunning
<1>7. Busy' = Busy /\ ExportsRunning' = ExportsRunning
  BY <1>3 DEF Busy, ExportsRunning
<1>8. Others' <= Others \/ (HasRoom /\ Others' <= Others + 1)
  BY <1>3, <1>5, <1>6, <1>7 DEF Others
<1>9. Running' <= MaxRunning
  BY <1>3, <1>5, <1>7, <1>8, TypeParts, RunningStep
<1>10. Len(loads'.awaited) <= MaxRunning
  <2>1. Cardinality(Busy) \in Nat
    BY BusyCount
  <2>2. Len(loads.awaited) <= Others
    BY <1>6 DEF Others
  <2>3. Others \in Nat
    BY <1>6 DEF Others
  <2>4. HasRoom => Len(loads.awaited) + 1 <= MaxRunning
    BY <1>6, <2>1, <2>2, <2>3, TypeParts DEF HasRoom, Running
  <2> QED
    BY <1>5, <1>6, <2>4, TypeParts
<1> QED
  BY <1>2, <1>3, <1>5, <1>9, <1>10, TypeParts DEF TypeOK, ProbeTypeOK

(* A request taken off the list leaves less under way. *)
LEMMA AnsweredStepType ==
  ASSUME TypeOK, page' \in Pages, saved' \in 0 .. MaxProjects,
         NEW i \in DOMAIN loads.awaited, Answered(i),
         projects' \in [Pids -> [state : {"unborn", "held", "lost"}, revision : 1 .. MaxRevision]],
         UNCHANGED <<probe, chats, exports, mockTimers, jumps>>
  PROVE  TypeOK'
<1>1. /\ loads' \in [pending : Loads, awaited : Seq(Loads)]
      /\ Len(loads'.awaited) = Len(loads.awaited) - 1
  BY AnsweredType
<1>2. Len(loads.awaited) \in Nat /\ ExportsRunning \in Nat /\ mockTimers \in Nat
  BY TypeParts DEF ExportsRunning
<1>3. Busy' = Busy /\ ExportsRunning' = ExportsRunning
  BY DEF Busy, ExportsRunning
<1>4. Others' <= Others
  BY <1>1, <1>2, <1>3 DEF Others
<1>5. Running' <= MaxRunning
  BY <1>1, <1>3, <1>4, TypeParts, RunningStep
<1> QED
  BY <1>1, <1>2, <1>5, TypeParts DEF TypeOK, ProbeTypeOK

LEMMA LoadStepsType ==
  ASSUME TypeOK, NEW i \in 1 .. MaxRunning, LoadStep(i)
  PROVE  TypeOK'
<1>1. page \in Pages /\ 0 \in 0 .. MaxProjects /\ saved \in 0 .. MaxProjects
  BY TypeParts, NoCopyType
<1>2. CASE LoadSucceeds(i)
  <2>1. PICK p \in Pids :
          /\ projects' = projects \/ projects' = [projects EXCEPT ![p].state = "held"]
          /\ saved' = p
          /\ page' = Loaded(page, Copy(p, Revision(p)))
    BY <1>2 DEF LoadSucceeds
  <2>2. p \in 0 .. MaxProjects /\ Revision(p) \in 0 .. MaxRevision
    BY TypeParts, SessionAssumption DEF Pids, Revision
  <2>3. Copy(p, Revision(p)) \in Copies
    BY <2>2 DEF Copy, Copies
  <2>4. page' \in Pages
    BY <1>1, <2>1, <2>3, LoadedType
  <2>5. projects' \in [Pids -> [state : {"unborn", "held", "lost"}, revision : 1 .. MaxRevision]]
    BY <2>1, TypeParts
  <2>6. /\ i \in DOMAIN loads.awaited /\ Answered(i)
        /\ UNCHANGED <<probe, chats, exports, mockTimers, jumps>>
    BY <1>2 DEF LoadSucceeds
  <2> QED
    BY <2>1, <2>2, <2>4, <2>5, <2>6, AnsweredStepType
<1>3. CASE LoadFails(i)
  <2>1. page' \in Pages /\ saved' \in 0 .. MaxProjects
    <3>1. /\ \A u \in BOOLEAN : [page EXCEPT !.unavailable = u] \in Pages
          /\ [page EXCEPT !.notice = TRUE] \in Pages
      BY <1>1 DEF Pages
    <3>2. "importError" \in Screens /\ "import" \in Screens
      BY DEF Screens
    <3> QED
      BY <1>1, <1>3, <3>1, <3>2, ShowsType DEF LoadFails
  <2>2. /\ i \in DOMAIN loads.awaited /\ Answered(i)
        /\ UNCHANGED <<probe, projects, chats, exports, mockTimers, jumps>>
    BY <1>3 DEF LoadFails
  <2> QED
    BY <2>1, <2>2, TypeParts, AnsweredStepType
<1> QED
  BY <1>2, <1>3 DEF LoadStep

LEMMA ReplyTypes ==
  /\ NoReply \in Replies /\ NoChat \in Chats
  /\ \A kind \in {"unchanged", "disabled", "conflict", "error"} :
       [NoReply EXCEPT !.kind = kind] \in Replies
<1>1. 0 \in 0 .. MaxRevision
  BY SessionAssumption
<1> QED
  BY <1>1, NoCopyType DEF NoChat, NoReply, Chats, Replies

LEMMA CopyType ==
  ASSUME TypeOK, NEW p \in Pids
  PROVE  Copy(p, Revision(p)) \in Copies /\ Revision(p) \in 1 .. MaxRevision
<1>1. p \in 0 .. MaxProjects /\ Revision(p) \in 1 .. MaxRevision
  BY TypeParts, SessionAssumption DEF Pids, Revision
<1> QED
  BY <1>1, SessionAssumption DEF Copy, Copies

(* A reply leaves the message answered, or drops one that no page awaits. *)
LEMMA RepliedType ==
  ASSUME TypeOK, NEW s \in Slots, NEW reply \in Replies
  PROVE  \E c \in Chats : Replied(s, reply) = [chats EXCEPT ![s] = c]
<1>1. chats[s] \in Chats /\ 0 \in 0 .. MaxRevision
  BY TypeParts, SessionAssumption
<1>2. [chats[s] EXCEPT !.phase = "answered", !.reply = reply] \in Chats
  BY <1>1 DEF Chats
<1>3. [chats EXCEPT ![s].phase = "answered", ![s].reply = reply]
        = [chats EXCEPT ![s] = [chats[s] EXCEPT !.phase = "answered", !.reply = reply]]
  BY <1>1, TypeParts DEF Chats
<1> QED
  BY <1>2, <1>3, ReplyTypes DEF Replied

(* A message that was applied was sent to a project the backend has had, and   *)
(* what the backend sends back is that project.                              *)
RepliesFit ==
  \A s \in Slots :
    /\ chats[s].phase = "committed" => chats[s].pid \in Pids
    /\ \/ chats[s].phase = "answered" /\ chats[s].reply.kind = "applied"
       \/ chats[s].phase = "refetched"
       => chats[s].reply.project.id = chats[s].pid

LEMMA BackendStepsType ==
  ASSUME TypeOK, RepliesFit, NEW s \in Slots,
         BackendCommits(s) \/ BackendRefuses(s) \/ BackendAnswers(s) \/ BackendReads(s)
  PROVE  TypeOK'
<1>1. /\ chats[s] \in Chats /\ page \in Pages /\ MaxRevision \in Nat
  BY TypeParts, SessionAssumption
<1>2. chats[s].phase # "free" => chats[s] # NoChat
  BY DEF NoChat
<1>3. \A p : Held(p) => p \in Pids
  BY DEF Held
<1>4. CASE BackendCommits(s)
  <2> DEFINE p == chats[s].pid
  <2>1. /\ p \in Pids /\ Revision(p) < MaxRevision /\ Waiting(s)
        /\ projects' = [projects EXCEPT ![p].revision = @ + 1]
    BY <1>3, <1>4 DEF BackendCommits
  <2>2. Revision(p) \in 1 .. MaxRevision /\ Revision(p) = projects[p].revision
    BY <2>1, CopyType DEF Revision
  <2>3. projects' \in [Pids -> [state : {"unborn", "held", "lost"}, revision : 1 .. MaxRevision]]
    <3>1. projects[p].revision + 1 \in 1 .. MaxRevision
      BY <1>1, <2>1, <2>2
    <3> QED
      BY <2>1, <3>1, TypeParts
  <2>4. Revision(p) + 1 \in 0 .. MaxRevision
    BY <1>1, <2>1, <2>2
  <2>5. \E c \in Chats : chats' = [chats EXCEPT ![s] = c]
    <3>1. CASE chats[s].phase = "orphan"
      BY <1>4, <3>1, ReplyTypes DEF BackendCommits
    <3>2. CASE chats[s].phase # "orphan"
      <4>1. [chats[s] EXCEPT !.phase = "committed"] \in Chats
        BY <1>1, <2>4 DEF Chats
      <4>2. chats' = [chats EXCEPT ![s].phase = "committed"]
        BY <1>4, <3>2 DEF BackendCommits
      <4>3. chats' = [chats EXCEPT ![s] = [chats[s] EXCEPT !.phase = "committed"]]
        BY <1>1, <4>2, TypeParts DEF Chats
      <4> QED
        BY <4>1, <4>3
    <3> QED
      BY <3>1, <3>2
  <2>6. chats[s] # NoChat /\ UNCHANGED <<probe, saved, page, loads, exports, mockTimers, jumps>>
    BY <1>2, <1>4, <2>1 DEF BackendCommits, Waiting
  <2> QED
    BY <1>1, <2>3, <2>5, <2>6, ChatStepType
<1>5. CASE BackendRefuses(s)
  <2>1. PICK kind \in {"unchanged", "disabled", "conflict", "error"} :
          chats' = Replied(s, [NoReply EXCEPT !.kind = kind])
    BY <1>5 DEF BackendRefuses
  <2>2. \E c \in Chats : chats' = [chats EXCEPT ![s] = c]
    BY <2>1, ReplyTypes, RepliedType
  <2>3. /\ chats[s] # NoChat
        /\ UNCHANGED <<probe, projects, saved, page, loads, exports, mockTimers, jumps>>
    BY <1>2, <1>5 DEF BackendRefuses, Waiting
  <2> QED
    BY <1>1, <2>2, <2>3, TypeParts, ChatStepType
<1>6. CASE BackendAnswers(s)
  <2>1. PICK reply \in Replies : chats' = Replied(s, reply)
    <3>1. ASSUME NEW summary \in BOOLEAN,
                 chats' = Replied(s, [kind |-> "applied", summary |-> summary,
                            project |-> Copy(chats[s].pid, Revision(chats[s].pid))]),
                 chats[s].pid \in Pids
          PROVE  \E reply \in Replies : chats' = Replied(s, reply)
      <4>1. [kind |-> "applied", summary |-> summary,
             project |-> Copy(chats[s].pid, Revision(chats[s].pid))] \in Replies
        BY <3>1, CopyType DEF Replies
      <4> QED
        BY <3>1, <4>1
    <3> QED
      BY <1>6, <3>1, ReplyTypes DEF BackendAnswers, RepliesFit
  <2>2. \E c \in Chats : chats' = [chats EXCEPT ![s] = c]
    BY <2>1, RepliedType
  <2>3. /\ chats[s] # NoChat
        /\ UNCHANGED <<probe, projects, saved, page, loads, exports, mockTimers, jumps>>
    BY <1>2, <1>6 DEF BackendAnswers
  <2> QED
    BY <1>1, <2>2, <2>3, TypeParts, ChatStepType
<1>7. CASE BackendReads(s)
  <2>1. chats[s].pid \in Pids
    BY <1>3, <1>7 DEF BackendReads
  <2>2. Copy(chats[s].pid, Revision(chats[s].pid)) \in Copies
    BY <2>1, CopyType
  <2>3. \E c \in Chats : chats' = [chats EXCEPT ![s] = c]
    <3> DEFINE copy == Copy(chats[s].pid, Revision(chats[s].pid))
               c == [chats[s] EXCEPT !.phase = "refetched", !.reply.project = copy]
    <3>1. chats' = [chats EXCEPT ![s].phase = "refetched", ![s].reply.project = copy]
      BY <1>7 DEF BackendReads
    <3>2. copy \in Copies
      BY <2>2
    <3> HIDE DEF copy
    <3>3. c \in Chats
      BY <1>1, <3>2 DEF Chats, Replies
    <3>4. chats' = [chats EXCEPT ![s] = c]
      BY <1>1, <3>1, TypeParts DEF Chats, Replies
    <3> QED
      BY <3>3, <3>4
  <2>4. /\ chats[s] # NoChat
        /\ UNCHANGED <<probe, projects, saved, page, loads, exports, mockTimers, jumps>>
    BY <1>2, <1>7 DEF BackendReads
  <2> QED
    BY <1>1, <2>3, <2>4, TypeParts, ChatStepType
<1> QED
  BY <1>4, <1>5, <1>6, <1>7

LEMMA PageStepsType ==
  ASSUME TypeOK, NEW s \in Slots, GetsReply(s) \/ Refetched(s)
  PROVE  TypeOK'
<1>1. chats[s] \in Chats /\ page \in Pages /\ chats[s].reply \in Replies
  BY TypeParts DEF Chats
<1>2. chats[s] # NoChat
  BY DEF GetsReply, Refetched, NoChat
<1>3. \E c \in Chats : chats' = [chats EXCEPT ![s] = c]
  <2>1. [chats[s] EXCEPT !.phase = "refetching", !.reply = NoReply] \in Chats
    BY <1>1, ReplyTypes DEF Chats
  <2>2. [chats EXCEPT ![s].phase = "refetching", ![s].reply = NoReply]
          = [chats EXCEPT ![s] = [chats[s] EXCEPT !.phase = "refetching", !.reply = NoReply]]
    BY <1>1, TypeParts DEF Chats
  <2>3. \/ chats' = [chats EXCEPT ![s] = NoChat]
        \/ chats' = [chats EXCEPT ![s].phase = "refetching", ![s].reply = NoReply]
    BY DEF GetsReply, Refetched
  <2> QED
    BY <2>1, <2>2, <2>3, ReplyTypes
<1>4. page' \in Pages
  <2>1. ASSUME NEW late \in BOOLEAN, NEW reply \in Replies
        PROVE  Applied(page, reply, late) \in Pages
    <3> DEFINE diff  == IF reply.summary THEN reply.project ELSE NoCopy
               shown == IF reply.summary THEN [page.turns EXCEPT !.diff = diff, !.fixture = FALSE]
                                         ELSE page.turns
    <3>1. reply.project \in Copies /\ diff \in Copies
      BY <1>1, NoCopyType DEF Replies
    <3>2. (page.late \/ late) \in BOOLEAN /\ page.turns \in Threads
      BY <1>1 DEF Pages
    <3>3. shown \in Threads
      <4> HIDE DEF diff
      <4> QED
        BY <3>1, <3>2 DEF Threads
    <3>4. Applied(page, reply, late) =
            [page EXCEPT !.chatStatus = "idle", !.serverProject = reply.project,
                 !.serverChangeSet = diff, !.turns = shown,
                 !.late = page.late \/ late]
      BY <1>1, <3>2 DEF Applied, Pages
    <3> HIDE DEF diff, shown
    <3> QED
      BY <1>1, <3>1, <3>2, <3>3, <3>4 DEF Pages
  <2>2. LeftBehind(s) \in BOOLEAN
    BY DEF LeftBehind
  <2>3. CASE GetsReply(s)
    <3>1. /\ [page EXCEPT !.chatStatus = "idle"] \in Pages
          /\ [page EXCEPT !.chatStatus = "idle", !.turns.error = TRUE] \in Pages
      BY <1>1 DEF Pages
    <3> QED
      BY <1>1, <2>1, <2>2, <2>3, <3>1 DEF GetsReply
  <2>4. CASE Refetched(s)
    <3>1. [page EXCEPT !.turns.error = TRUE] \in Pages
      BY <1>1 DEF Pages
    <3>2. \A late \in BOOLEAN, copy \in Copies :
            [page EXCEPT !.serverProject = copy, !.turns.error = TRUE, !.late = page.late \/ late]
              \in Pages
      BY <1>1 DEF Pages
    <3>3. chats[s].reply.project \in Copies
      BY <1>1 DEF Replies
    <3> QED
      BY <2>2, <2>4, <3>1, <3>2, <3>3 DEF Refetched
  <2> QED
    BY <2>3, <2>4
<1>5. UNCHANGED <<probe, projects, saved, loads, exports, mockTimers, jumps>>
  BY DEF GetsReply, Refetched
<1> QED
  BY <1>2, <1>3, <1>4, <1>5, TypeParts, ChatStepType

LEMMA ExportsCounted ==
  /\ exports \in [server : Nat, mock : Nat, done : Nat] => ExportsRunning \in Nat
  /\ exports' \in [server : Nat, mock : Nat, done : Nat] => ExportsRunning' \in Nat
BY DEF ExportsRunning

LEMMA SumsCompared ==
  ASSUME NEW n \in Nat, NEW e \in Nat, NEW f \in Nat, NEW m \in Nat, NEW o \in Nat
  PROVE  /\ f + o <= e + m => n + f + o <= n + e + m
         /\ f + o <= e + m + 1 => n + f + o <= n + e + m + 1
OBVIOUS

(* The steps that start or end an export or a timer: the messages, the requests  *)
(* and the projects stay.                                                    *)
LEMMA TimerStepType ==
  ASSUME TypeOK, page' \in Pages, saved' \in 0 .. MaxProjects, jumps' \in 0 .. MaxJumps,
         exports' \in [server : Nat, mock : Nat, done : Nat], mockTimers' \in Nat,
         \/ ExportsRunning' + mockTimers' <= ExportsRunning + mockTimers
         \/ HasRoom /\ ExportsRunning' + mockTimers' <= ExportsRunning + mockTimers + 1,
         UNCHANGED <<probe, projects, loads, chats>>
  PROVE  TypeOK'
<1>1. /\ Len(loads.awaited) \in Nat /\ ExportsRunning \in Nat /\ mockTimers \in Nat
      /\ ExportsRunning' \in Nat
  BY TypeParts, ExportsCounted
<1>2. Busy' = Busy /\ (Others' <= Others \/ (HasRoom /\ Others' <= Others + 1))
  <2>1. Busy' = Busy /\ loads' = loads
    BY DEF Busy
  <2>2. /\ Others = Len(loads.awaited) + ExportsRunning + mockTimers
        /\ Others' = Len(loads.awaited) + ExportsRunning' + mockTimers'
    BY <2>1 DEF Others
  <2>3. ASSUME ExportsRunning' + mockTimers' <= ExportsRunning + mockTimers
        PROVE  Others' <= Others
    BY <1>1, <2>2, <2>3, SumsCompared
  <2>4. ASSUME ExportsRunning' + mockTimers' <= ExportsRunning + mockTimers + 1
        PROVE  Others' <= Others + 1
    BY <1>1, <2>2, <2>4, SumsCompared
  <2> QED
    BY <2>1, <2>3, <2>4
<1>3. Running' <= MaxRunning
  BY <1>2, TypeParts, RunningStep
<1> QED
  BY <1>3, TypeParts DEF TypeOK, ProbeTypeOK

LEMMA ExportType ==
  ASSUME TypeOK, NEW pg \in Pages, Export(pg)
  PROVE  /\ HasRoom /\ page' \in Pages /\ page'.exportStatus = "preparing"
         /\ exports' \in [server : Nat, mock : Nat, done : Nat]
         /\ ExportsRunning' = ExportsRunning + 1
<1>1. exports.server \in Nat /\ exports.mock \in Nat /\ exports.done \in Nat
  BY TypeParts
<1>2. page' \in Pages /\ page'.exportStatus = "preparing"
  BY DEF Export, Pages
<1>3. \/ exports' = [server |-> exports.server + 1, mock |-> exports.mock, done |-> exports.done]
      \/ exports' = [server |-> exports.server, mock |-> exports.mock + 1, done |-> exports.done]
  BY TypeParts DEF Export
<1> QED
  BY <1>1, <1>2, <1>3 DEF Export, ExportsRunning

LEMMA ExportStepsType ==
  ASSUME TypeOK, ExportStep \/ ClickExport
  PROVE  TypeOK'
<1>1. /\ page \in Pages /\ mockTimers \in Nat
      /\ exports.server \in Nat /\ exports.mock \in Nat /\ exports.done \in Nat
      /\ exports = [server |-> exports.server, mock |-> exports.mock, done |-> exports.done]
  BY TypeParts
<1>2. CASE ExportStep
  <2>1. page' \in Pages
    <3>1. /\ \A status \in {"idle", "done"} : [page EXCEPT !.exportStatus = status] \in Pages
          /\ [page EXCEPT !.exportStatus = "idle", !.lastFailedAction = "export",
                          !.turns.error = TRUE] \in Pages
      BY <1>1 DEF Pages
    <3> QED
      BY <1>2, <3>1 DEF ExportStep, ExportArrives, ExportFails, ExportTimer
  <2>2. \/ /\ exports.server > 0
           /\ exports' = [server |-> exports.server - 1, mock |-> exports.mock,
                          done |-> exports.done + 1]
        \/ /\ exports.mock > 0
           /\ exports' = [server |-> exports.server, mock |-> exports.mock - 1,
                          done |-> exports.done + 1]
        \/ /\ exports.server > 0
           /\ exports' = [server |-> exports.server - 1, mock |-> exports.mock,
                          done |-> exports.done]
        \/ /\ exports.done > 0
           /\ exports' = [server |-> exports.server, mock |-> exports.mock,
                          done |-> exports.done - 1]
    <3>1. CASE ExportArrives
      BY <1>1, <3>1 DEF ExportArrives
    <3>2. CASE ExportFails \/ ExportTimer
      BY <1>1, <3>2 DEF ExportFails, ExportTimer
    <3> QED
      BY <1>2, <3>1, <3>2 DEF ExportStep
  <2>3. /\ exports' \in [server : Nat, mock : Nat, done : Nat]
        /\ ExportsRunning' <= ExportsRunning
    BY <1>1, <2>2 DEF ExportsRunning
  <2>4. UNCHANGED <<probe, projects, saved, loads, chats, mockTimers, jumps>>
    BY <1>2 DEF ExportStep, ExportArrives, ExportFails, ExportTimer
  <2>5. ExportsRunning' + mockTimers' <= ExportsRunning + mockTimers
    BY <1>1, <2>3, <2>4 DEF ExportsRunning
  <2> QED
    BY <1>1, <2>1, <2>3, <2>4, <2>5, TypeParts, TimerStepType
<1>3. CASE ClickExport
  <2>1. [page EXCEPT !.uploadConfirmOpen = FALSE] \in Pages
    BY <1>1 DEF Pages
  <2>2. Export(page) \/ Export([page EXCEPT !.uploadConfirmOpen = FALSE])
    BY <1>3 DEF ClickExport
  <2>3. /\ HasRoom /\ page' \in Pages
        /\ exports' \in [server : Nat, mock : Nat, done : Nat]
        /\ ExportsRunning' = ExportsRunning + 1
    BY <1>1, <2>1, <2>2, ExportType
  <2>4. UNCHANGED <<probe, projects, saved, loads, chats, mockTimers, jumps>>
    BY <1>3 DEF ClickExport
  <2>5. ExportsRunning' + mockTimers' <= ExportsRunning + mockTimers + 1
    BY <1>1, <2>3, <2>4 DEF ExportsRunning
  <2> QED
    BY <1>1, <2>3, <2>4, <2>5, TypeParts, TimerStepType
<1> QED
  BY <1>2, <1>3

(* A message that is sent or sent again. *)
LEMMA RunAiTurnType ==
  ASSUME TypeOK, NEW text \in Texts, RunAiTurn(text),
         UNCHANGED <<probe, projects, saved, loads, exports, jumps>>
  PROVE  TypeOK'
<1>1. page \in Pages /\ mockTimers \in Nat /\ ExportsRunning \in Nat
  BY TypeParts DEF ExportsRunning
<1>2. CASE UNCHANGED <<page, chats, mockTimers>>
  <2>1. Running' <= MaxRunning
    BY <1>2, RunningSame
  <2> QED
    BY <1>2, <2>1 DEF TypeOK, ProbeTypeOK
<1>3. ASSUME HasRoom, mockTimers' = mockTimers + 1, page' = MockTurn(page, text), UNCHANGED chats
      PROVE  TypeOK'
  <2>1. page' \in Pages
    BY <1>1, <1>3, ShowOther
  <2>2. ExportsRunning' + mockTimers' <= ExportsRunning + mockTimers + 1
    BY <1>1, <1>3 DEF ExportsRunning
  <2> QED
    BY <1>1, <1>3, <2>1, <2>2, TypeParts, TimerStepType
<1>4. ASSUME NEW s \in Slots, HasRoom, UNCHANGED mockTimers,
             chats' = [chats EXCEPT ![s] = [NoChat EXCEPT !.phase = "sent",
                         !.pid = page.projectId, !.shown = page.serverProject]],
             page' = [page EXCEPT !.chatStatus = "processing", !.lastUserMessage = text,
                                  !.lastFailedAction = "chat"]
      PROVE  TypeOK'
  <2>1. page' \in Pages
    BY <1>1, <1>4 DEF Pages
  <2>2. [NoChat EXCEPT !.phase = "sent", !.pid = page.projectId, !.shown = page.serverProject]
          \in Chats
    <3>1. page.projectId \in 0 .. MaxProjects /\ page.serverProject \in Copies
      BY <1>1 DEF Pages
    <3> QED
      BY <3>1, ReplyTypes DEF Chats
  <2>3. chats' \in [Slots -> Chats] /\ Busy' \subseteq Busy \cup {s}
    BY <1>4, <2>2, TypeParts DEF Busy
  <2>4. Others' = Others /\ Others \in Nat
    <3>1. Others' = Others
      BY <1>4 DEF Others, ExportsRunning
    <3>2. Len(loads.awaited) \in Nat
      BY TypeParts
    <3> QED
      BY <1>1, <3>1, <3>2 DEF Others
  <2>5. Running' <= MaxRunning
    BY <1>4, <2>3, <2>4, TypeParts, RunningStep
  <2> QED
    BY <1>4, <2>1, <2>3, <2>5, TypeParts DEF TypeOK, ProbeTypeOK
<1> QED
  BY <1>2, <1>3, <1>4 DEF RunAiTurn, RunServerAiTurn, RunMockAiTurn

LEMMA SendStepsType ==
  ASSUME TypeOK, SendMessage \/ RetryLast \/ MockReply
  PROVE  TypeOK'
<1>1. /\ page \in Pages /\ mockTimers \in Nat /\ ExportsRunning \in Nat
      /\ exports \in [server : Nat, mock : Nat, done : Nat]
  BY TypeParts DEF ExportsRunning
<1>2. CASE SendMessage
  BY <1>2, RunAiTurnType DEF SendMessage
<1>3. CASE RetryLast
  <2>1. CASE Export(page) /\ UNCHANGED <<chats, mockTimers, jumps>>
    <3>1. /\ HasRoom /\ page' \in Pages
          /\ exports' \in [server : Nat, mock : Nat, done : Nat]
          /\ ExportsRunning' = ExportsRunning + 1
      BY <1>1, <2>1, ExportType
    <3>2. UNCHANGED <<probe, projects, saved, loads, chats, mockTimers, jumps>>
      BY <1>3, <2>1 DEF RetryLast
    <3>3. ExportsRunning' + mockTimers' <= ExportsRunning + mockTimers + 1
      BY <1>1, <3>1, <3>2
    <3> QED
      BY <1>1, <3>1, <3>2, <3>3, TypeParts, TimerStepType
  <2>2. CASE /\ page.lastFailedAction = "chat" /\ page.lastUserMessage # NoText
             /\ RunAiTurn(page.lastUserMessage)
             /\ UNCHANGED exports
    <3>1. page.lastUserMessage \in Texts
      BY <1>1, <2>2 DEF Pages
    <3>2. UNCHANGED <<probe, projects, saved, loads, exports, jumps>>
      BY <1>3, <2>2 DEF RetryLast
    <3> QED
      BY <2>2, <3>1, <3>2, RunAiTurnType
  <2> QED
    BY <1>3, <2>1, <2>2 DEF RetryLast
<1>4. CASE MockReply
  <2>1. page' \in Pages
    <3>1. /\ [page EXCEPT !.chatStatus = "idle"] \in Pages
          /\ [page EXCEPT !.chatStatus = "idle", !.turns.fixture = TRUE] \in Pages
          /\ [page EXCEPT !.chatStatus = "idle", !.lastFailedAction = "chat",
                          !.turns.error = TRUE] \in Pages
      BY <1>1 DEF Pages
    <3> QED
      BY <1>4, <3>1 DEF MockReply
  <2>2. /\ mockTimers' \in Nat /\ mockTimers' <= mockTimers
        /\ UNCHANGED <<probe, projects, saved, loads, chats, exports, jumps>>
    BY <1>1, <1>4 DEF MockReply
  <2>3. ExportsRunning' = ExportsRunning
    BY <2>2 DEF ExportsRunning
  <2>5. ASSUME NEW e \in Nat, NEW m \in Nat, NEW n \in Nat, n <= m
        PROVE  e + n <= e + m
    BY <2>5
  <2>4. ExportsRunning' + mockTimers' <= ExportsRunning + mockTimers
    BY <1>1, <2>2, <2>3, <2>5
  <2> QED
    BY <1>1, <2>1, <2>2, <2>4, TypeParts, TimerStepType
<1> QED
  BY <1>2, <1>3, <1>4

LEMMA JumpType ==
  ASSUME TypeOK, Jump
  PROVE  TypeOK'
<1>1. PICK state \in DevStates, text \in Texts :
        /\ jumps > 0 /\ jumps' = jumps - 1
        /\ page' = JumpTo(state, text) /\ saved' = 0
        /\ IF state = "aiProcessing" THEN HasRoom /\ mockTimers' = mockTimers + 1
                                     ELSE UNCHANGED mockTimers
        /\ UNCHANGED <<probe, projects, loads, chats, exports>>
  BY DEF Jump
<1>2. /\ page \in Pages /\ mockTimers \in Nat /\ ExportsRunning \in Nat
      /\ exports \in [server : Nat, mock : Nat, done : Nat]
      /\ jumps \in 0 .. MaxJumps /\ MaxJumps \in Nat
  BY TypeParts, SessionAssumption DEF ExportsRunning
<1>3. page' \in Pages /\ saved' \in 0 .. MaxProjects /\ jumps' \in 0 .. MaxJumps
  BY <1>1, <1>2, JumpToType, NoCopyType
<1>4. ExportsRunning' = ExportsRunning
  BY <1>1 DEF ExportsRunning
<1>5. /\ mockTimers' \in Nat
      /\ \/ ExportsRunning' + mockTimers' <= ExportsRunning + mockTimers
         \/ HasRoom /\ ExportsRunning' + mockTimers' <= ExportsRunning + mockTimers + 1
  BY <1>1, <1>2, <1>4
<1> QED
  BY <1>1, <1>2, <1>3, <1>5, TimerStepType

LEMMA BackendAloneType ==
  ASSUME TypeOK, OtherCommits \/ BackendRestarts
  PROVE  TypeOK'
<1>1. /\ UNCHANGED <<probe, saved, page, loads, exports, mockTimers, jumps>>
      /\ MaxRevision \in Nat \ {0}
  BY SessionAssumption DEF OtherCommits, BackendRestarts
<1>2. projects' \in [Pids -> [state : {"unborn", "held", "lost"}, revision : 1 .. MaxRevision]]
  <2>1. CASE OtherCommits
    <3>1. PICK p \in Pids : Revision(p) < MaxRevision
                            /\ projects' = [projects EXCEPT ![p].revision = @ + 1]
      BY <2>1 DEF OtherCommits
    <3>2. projects[p].revision + 1 \in 1 .. MaxRevision
      BY <1>1, <3>1, TypeParts DEF Revision
    <3> QED
      BY <3>1, <3>2, TypeParts
  <2>2. CASE BackendRestarts
    <3>1. [state |-> "lost", revision |-> 1]
            \in [state : {"unborn", "held", "lost"}, revision : 1 .. MaxRevision]
      BY <1>1
    <3>2. projects' = [p \in Pids |-> IF Held(p) THEN [state |-> "lost", revision |-> 1]
                                                ELSE projects[p]]
      BY <2>2 DEF BackendRestarts
    <3> QED
      BY <3>1, <3>2, TypeParts
  <2> QED
    BY <2>1, <2>2
<1>3. chats' \in [Slots -> Chats] /\ Busy' \subseteq Busy
  <2>1. CASE OtherCommits
    BY <2>1, TypeParts DEF OtherCommits, Busy
  <2>2. CASE BackendRestarts
    <3>1. \A s \in Slots :
            /\ chats[s] \in Chats
            /\ [chats[s] EXCEPT !.phase = "answered",
                  !.reply = [NoReply EXCEPT !.kind = "error"]] \in Chats
            /\ chats[s].phase # "free" => chats[s] # NoChat
      BY <1>1, TypeParts, ReplyTypes DEF Chats, NoChat
    <3> QED
      BY <2>2, <3>1, ReplyTypes DEF BackendRestarts, Busy
  <2> QED
    BY <2>1, <2>2
<1>4. Others' = Others /\ Others \in Nat
  <2>1. Others' = Others
    BY <1>1 DEF Others, ExportsRunning
  <2>2. Len(loads.awaited) \in Nat /\ ExportsRunning \in Nat /\ mockTimers \in Nat
    BY TypeParts DEF ExportsRunning
  <2> QED
    BY <2>1, <2>2 DEF Others
<1>5. Running' <= MaxRunning
  BY <1>1, <1>3, <1>4, TypeParts, RunningStep
<1> QED
  BY <1>1, <1>2, <1>3, <1>5, TypeParts DEF TypeOK, ProbeTypeOK

-----------------------------------------------------------------------------
(* What holds of the page's state throughout.                                *)

LEMMA InitTyped == Init => TypeOK /\ ProbeInv /\ RepliesFit
<1> SUFFICES ASSUME Init
             PROVE  TypeOK /\ ProbeInv /\ RepliesFit
  OBVIOUS
<1>1. ProbeInv
  BY FirstCheckInv DEF Init
<1>2. chats = [s \in Slots |-> NoChat] /\ \A s \in Slots : chats[s] = NoChat
  BY DEF Init
<1>3. RepliesFit
  BY <1>2 DEF RepliesFit, NoChat
<1>4. projects \in [Pids -> [state : {"unborn", "held", "lost"}, revision : 1 .. MaxRevision]]
  <2>1. [state |-> "unborn", revision |-> 1]
          \in [state : {"unborn", "held", "lost"}, revision : 1 .. MaxRevision]
    BY SessionAssumption
  <2> QED
    BY <2>1 DEF Init
<1>5. loads \in [pending : Loads, awaited : Seq(Loads)] /\ Len(loads.awaited) = 0
  BY NoCopyType DEF Init, NoLoad, Loads
<1>6. chats \in [Slots -> Chats]
  BY <1>2, ReplyTypes
<1>7. exports \in [server : Nat, mock : Nat, done : Nat] /\ ExportsRunning = 0 /\ mockTimers = 0
  BY DEF Init, NoExports, ExportsRunning
<1>8. Running = 0
  <2>1. Busy = {}
    BY <1>2 DEF Busy
  <2>2. Cardinality(Busy) = 0
    BY <2>1, FS_EmptySet
  <2> QED
    BY <1>5, <1>7, <2>2 DEF Running, Others
<1>9. Running <= MaxRunning /\ jumps \in 0 .. MaxJumps /\ page \in Pages /\ saved \in 0 .. MaxProjects
  BY <1>8, FreshPageType, SessionAssumption DEF Init
<1> QED
  BY <1>1, <1>3, <1>4, <1>5, <1>6, <1>7, <1>9, SessionAssumption DEF TypeOK, ProbeInv

LEMMA NextTyped ==
  ASSUME TypeOK, ProbeInv, RepliesFit, [Next]_vars
  PROVE  TypeOK'
<1>1. CASE QuietStep \/ Reload \/ LoadingDone
  BY <1>1, QuietStepsType, ReloadType, LoadingDoneType
<1>2. CASE \E i \in 1 .. MaxRunning : LoadStep(i)
  BY <1>2, LoadStepsType
<1>3. CASE \E s \in Slots : ChatStep(s)
  BY <1>3, BackendStepsType, PageStepsType DEF ChatStep
<1>4. CASE ExportStep \/ ClickExport \/ SendMessage \/ RetryLast \/ MockReply \/ Jump
           \/ OtherCommits \/ BackendRestarts
  BY <1>4, ExportStepsType, SendStepsType, JumpType, BackendAloneType
<1>5. CASE UNCHANGED vars
  <2>1. Running' <= MaxRunning
    BY <1>5, RunningSame DEF vars
  <2> QED
    BY <1>5, <2>1 DEF vars, TypeOK, ProbeTypeOK
<1> QED
  BY <1>1, <1>2, <1>3, <1>4, <1>5 DEF Next, UserStep, QuietStep

LEMMA NextKeepsProbe ==
  ASSUME ProbeInv, [Next]_vars
  PROVE  ProbeInv'
<1>1. CASE ProbeNext
  BY <1>1, ProbeStepKeepsInv
<1>2. CASE probe' = NoProbe
  BY <1>2, ProbeAssumption DEF NoProbe, ProbeInv, ProbeTypeOK, ProbeBounded
<1>3. CASE probe' = FirstCheck
  BY <1>3, ProbeAssumption DEF FirstCheck, ProbeInv, ProbeTypeOK, ProbeBounded
<1>4. CASE probe' = probe
  BY <1>4 DEF ProbeInv, ProbeTypeOK, ProbeBounded
<1> QED
  BY <1>1, <1>2, <1>3, <1>4
  DEF Next, UserStep, vars, ProbeStep, BootContinues, RetryBackendCheck, Reload, BuildPlan,
      ChooseAnotherFile, RetryImport, LoadingDone, LoadStep, LoadSucceeds, LoadFails,
      SendMessage, MockReply, ChatStep, BackendCommits, BackendRefuses, BackendAnswers,
      GetsReply, BackendReads, Refetched, ClickExport, ExportStep, ExportArrives,
      ExportFails, ExportTimer, RetryLast, OpenUploadConfirm, CancelUpload, ConfirmUpload,
      Jump, OtherCommits, BackendRestarts

(* What the operations on the page do to the project it shows and to what it     *)
(* waits for.                                                                *)
SamePlan(new, old) ==
  /\ new.dataSource = old.dataSource /\ new.projectId = old.projectId
  /\ new.serverProject = old.serverProject /\ new.serverChangeSet = old.serverChangeSet
  /\ new.turns.diff = old.turns.diff /\ new.late = old.late

HasLeft(new, old) ==
  new.dataSource = "mock" /\ new.projectId = 0 /\ new.late = old.late

SameWaits(new, old) ==
  new.chatStatus = old.chatStatus /\ new.exportStatus = old.exportStatus

WaitsLess(new, old) ==
  new.chatStatus \in {"idle", old.chatStatus} /\ new.exportStatus \in {"idle", "done", old.exportStatus}

OnScreen(pg, screen) == pg.screen = screen /\ pg.loadingTimer = (screen = "importLoading")

LEMMA ShowsFields ==
  ASSUME NEW pg \in Pages, NEW screen \in Screens
  PROVE  /\ SamePlan(Shows(pg, screen), pg) /\ SameWaits(Shows(pg, screen), pg)
         /\ OnScreen(Shows(pg, screen), screen)
BY DEF Shows, Pages, SamePlan, SameWaits, OnScreen

LEMMA ClearThreadFields ==
  ASSUME NEW pg \in Pages
  PROVE  /\ ClearThread(pg).dataSource = pg.dataSource
         /\ ClearThread(pg).projectId = pg.projectId
         /\ ClearThread(pg).late = pg.late
         /\ ClearThread(pg).chatStatus = "idle" /\ ClearThread(pg).exportStatus = "idle"
BY DEF ClearThread, Pages

LEMMA LeavesServerFields ==
  ASSUME NEW pg \in Pages
  PROVE  HasLeft(LeavesServer(pg), pg) /\ SameWaits(LeavesServer(pg), pg)
BY DEF LeavesServer, Pages, HasLeft, SameWaits

LEMMA ResetFields ==
  ASSUME NEW pg \in Pages
  PROVE  /\ HasLeft(ResetToImport(pg), pg) /\ WaitsLess(ResetToImport(pg), pg)
         /\ OnScreen(ResetToImport(pg), "import")
<1> DEFINE left    == LeavesServer(pg)
           cleared == ClearThread(left)
           reset   == [cleared EXCEPT !.pendingFile = "none", !.uploadConfirmOpen = FALSE]
<1>1. left \in Pages /\ HasLeft(left, pg) /\ cleared \in Pages
  BY LeavesServerType, LeavesServerFields, ClearThreadType
<1>6. cleared \in Pages
  BY <1>1
<1>2. HasLeft(cleared, pg) /\ WaitsLess(cleared, pg)
  <2> HIDE DEF left
  <2> QED
    BY <1>1, ClearThreadFields DEF HasLeft, WaitsLess
<1>3. reset \in Pages /\ HasLeft(reset, pg) /\ WaitsLess(reset, pg)
  <2> HIDE DEF cleared, left
  <2>1. reset \in Pages
    BY <1>6 DEF Pages
  <2>2. /\ reset.dataSource = cleared.dataSource /\ reset.projectId = cleared.projectId
        /\ reset.late = cleared.late /\ SameWaits(reset, cleared)
    BY <1>6 DEF Pages, SameWaits
  <2> QED
    BY <1>2, <2>1, <2>2 DEF HasLeft, SameWaits, WaitsLess
<1>4. ResetToImport(pg) = Shows(reset, "import") /\ "import" \in Screens
  BY DEF ResetToImport, Screens
<1> HIDE DEF reset
<1>5. SamePlan(Shows(reset, "import"), reset) /\ SameWaits(Shows(reset, "import"), reset)
      /\ OnScreen(Shows(reset, "import"), "import")
  BY <1>3, <1>4, ShowsFields
<1> QED
  BY <1>3, <1>4, <1>5 DEF SamePlan, SameWaits, HasLeft, WaitsLess

LEMMA CannedFields ==
  ASSUME NEW pg \in Pages, NEW thread \in Threads, NEW dialog \in BOOLEAN
  PROVE  /\ HasLeft(Canned(pg, thread, dialog), pg) /\ WaitsLess(Canned(pg, thread, dialog), pg)
         /\ OnScreen(Canned(pg, thread, dialog), "workspace")
<1> DEFINE left == LeavesServer(pg)
           new  == [left EXCEPT !.chatStatus = "idle", !.uploadConfirmOpen = dialog,
                                !.turns = thread]
<1>1. left \in Pages /\ HasLeft(left, pg) /\ SameWaits(left, pg)
  BY LeavesServerType, LeavesServerFields
<1>3. new \in Pages /\ HasLeft(new, pg) /\ WaitsLess(new, pg)
  <2> HIDE DEF left
  <2>1. new \in Pages
    BY <1>1 DEF Pages
  <2>2. /\ new.dataSource = left.dataSource /\ new.projectId = left.projectId
        /\ new.late = left.late /\ new.chatStatus = "idle"
        /\ new.exportStatus = left.exportStatus
    BY <1>1 DEF Pages
  <2> QED
    BY <1>1, <2>1, <2>2 DEF HasLeft, SameWaits, WaitsLess
<1>4. Canned(pg, thread, dialog) = Shows(new, "workspace") /\ "workspace" \in Screens
  BY DEF Canned, Screens
<1> HIDE DEF new
<1>5. SamePlan(Shows(new, "workspace"), new) /\ SameWaits(Shows(new, "workspace"), new)
      /\ OnScreen(Shows(new, "workspace"), "workspace")
  BY <1>3, <1>4, ShowsFields
<1> QED
  BY <1>3, <1>4, <1>5 DEF SamePlan, SameWaits, HasLeft, WaitsLess

LEMMA LoadedFields ==
  ASSUME NEW pg \in Pages, NEW project \in Copies
  PROVE  /\ Loaded(pg, project).dataSource = "server"
         /\ Loaded(pg, project).serverProject = project
         /\ Loaded(pg, project).projectId = project.id
         /\ Loaded(pg, project).serverChangeSet = NoCopy
         /\ Loaded(pg, project).late = pg.late
         /\ WaitsLess(Loaded(pg, project), pg)
         /\ OnScreen(Loaded(pg, project), "workspace")
<1> DEFINE cleared == ClearThread(pg)
           loaded  == [cleared EXCEPT !.dataSource = "server", !.serverProject = project,
                                      !.projectId = project.id, !.serverChangeSet = NoCopy,
                                      !.unavailable = FALSE]
<1>1. /\ cleared \in Pages /\ cleared.late = pg.late /\ WaitsLess(cleared, pg)
      /\ project.id \in 0 .. MaxProjects
  BY ClearThreadType, ClearThreadFields DEF WaitsLess, Copies
<1>2. /\ loaded \in Pages /\ loaded.dataSource = "server" /\ loaded.serverProject = project
      /\ loaded.projectId = project.id /\ loaded.serverChangeSet = NoCopy
      /\ loaded.late = pg.late /\ WaitsLess(loaded, pg)
  <2> HIDE DEF cleared, Threads
  <2>1. loaded \in Pages
    BY <1>1, NoCopyType DEF Pages
  <2>2. /\ loaded.dataSource = "server" /\ loaded.serverProject = project
        /\ loaded.projectId = project.id /\ loaded.serverChangeSet = NoCopy
        /\ loaded.late = cleared.late /\ SameWaits(loaded, cleared)
    BY <1>1 DEF Pages, SameWaits
  <2> QED
    BY <1>1, <2>1, <2>2 DEF SameWaits, WaitsLess
<1>3. Loaded(pg, project) = Shows(loaded, "workspace") /\ "workspace" \in Screens
  BY DEF Loaded, Screens
<1> HIDE DEF loaded
<1>4. SamePlan(Shows(loaded, "workspace"), loaded) /\ SameWaits(Shows(loaded, "workspace"), loaded)
      /\ OnScreen(Shows(loaded, "workspace"), "workspace")
  BY <1>2, <1>3, ShowsFields
<1> QED
  BY <1>2, <1>3, <1>4 DEF SamePlan, SameWaits, WaitsLess

LEMMA JumpToFields ==
  ASSUME page \in Pages, NEW state \in DevStates, NEW text \in Texts
  PROVE  /\ HasLeft(JumpTo(state, text), page)
         /\ \E screen \in Screens \ {"serverStarting"} : OnScreen(JumpTo(state, text), screen)
         /\ state = "aiProcessing" \/ JumpTo(state, text).chatStatus \in {"idle", page.chatStatus}
         /\ JumpTo(state, text).exportStatus \in {"idle", "done", page.exportStatus}
<1> DEFINE left == LeavesServer(page)
           to   == JumpTo(state, text)
<1>1. left \in Pages /\ HasLeft(left, page) /\ SameWaits(left, page)
  BY LeavesServerType, LeavesServerFields
<1>2. CASE state = "import"
  <2>1. to = ResetToImport(left) /\ "import" \in Screens \ {"serverStarting"}
    BY <1>2 DEF JumpTo, Screens
  <2> HIDE DEF left, to
  <2>2. HasLeft(to, left) /\ WaitsLess(to, left) /\ OnScreen(to, "import")
    BY <1>1, <2>1, ResetFields
  <2> QED
    BY <1>1, <2>1, <2>2 DEF HasLeft, SameWaits, WaitsLess, to
<1>3. ASSUME NEW file \in {"fabricated", "invalid"}, NEW screen \in {"importLoading", "importError"},
             to = Shows([left EXCEPT !.pendingFile = file], screen)
      PROVE  /\ HasLeft(to, page) /\ WaitsLess(to, page)
             /\ \E scr \in Screens \ {"serverStarting"} : OnScreen(to, scr)
  <2> DEFINE new == [left EXCEPT !.pendingFile = file]
  <2>1. screen \in Screens \ {"serverStarting"}
    BY DEF Screens
  <2> HIDE DEF left
  <2>2. new \in Pages
    BY <1>1 DEF Pages
  <2>3. SamePlan(new, left) /\ SameWaits(new, left)
    BY <1>1 DEF Pages, SamePlan, SameWaits
  <2> HIDE DEF new
  <2>4. SamePlan(Shows(new, screen), new) /\ SameWaits(Shows(new, screen), new)
        /\ OnScreen(Shows(new, screen), screen)
    BY <2>1, <2>2, ShowsFields
  <2>5. to = Shows(new, screen)
    BY <1>3 DEF new
  <2> HIDE DEF to
  <2> QED
    BY <1>1, <2>1, <2>3, <2>4, <2>5 DEF SamePlan, SameWaits, HasLeft, WaitsLess
<1>4. CASE state = "importLoading" \/ state = "importError"
  <2>1. \E file \in {"fabricated", "invalid"}, screen \in {"importLoading", "importError"} :
          to = Shows([left EXCEPT !.pendingFile = file], screen)
    BY <1>4 DEF JumpTo
  <2>2. /\ HasLeft(to, page) /\ WaitsLess(to, page)
        /\ \E scr \in Screens \ {"serverStarting"} : OnScreen(to, scr)
    BY <1>3, <2>1
  <2> HIDE DEF left
  <2> QED
    BY <2>2 DEF WaitsLess
<1>5. CASE state = "workspaceBeforeAi"
  <2> DEFINE cleared == ClearThread(left)
             new == [cleared EXCEPT !.uploadConfirmOpen = FALSE]
  <2>1. to = Shows(new, "workspace") /\ "workspace" \in Screens \ {"serverStarting"}
    BY <1>5 DEF JumpTo, Screens
  <2> HIDE DEF left
  <2>2. /\ cleared \in Pages /\ cleared.dataSource = left.dataSource
        /\ cleared.projectId = left.projectId /\ cleared.late = left.late
        /\ cleared.chatStatus = "idle" /\ cleared.exportStatus = "idle"
    BY <1>1, ClearThreadType, ClearThreadFields
  <2> HIDE DEF cleared
  <2>3. new \in Pages
    BY <2>2 DEF Pages
  <2>4. /\ new.dataSource = cleared.dataSource /\ new.projectId = cleared.projectId
        /\ new.late = cleared.late /\ SameWaits(new, cleared)
    BY <2>2 DEF Pages, SameWaits
  <2> HIDE DEF new
  <2>5. SamePlan(Shows(new, "workspace"), new) /\ SameWaits(Shows(new, "workspace"), new)
        /\ OnScreen(Shows(new, "workspace"), "workspace")
    BY <2>1, <2>3, ShowsFields
  <2> HIDE DEF to
  <2> QED
    BY <1>1, <2>1, <2>2, <2>4, <2>5 DEF SamePlan, SameWaits, HasLeft, to
<1>6. ASSUME NEW canned \in Pages, HasLeft(canned, left), WaitsLess(canned, left),
             OnScreen(canned, "workspace")
      PROVE  /\ HasLeft(canned, page) /\ WaitsLess(canned, page)
             /\ LET new == MockTurn(canned, text) IN
                  /\ HasLeft(new, page) /\ OnScreen(new, "workspace")
                  /\ new.exportStatus \in {"idle", "done", page.exportStatus}
             /\ LET new == [canned EXCEPT !.lastUserMessage = text, !.lastFailedAction = "chat"] IN
                  HasLeft(new, page) /\ WaitsLess(new, page) /\ OnScreen(new, "workspace")
             /\ LET new == [canned EXCEPT !.exportStatus = "done"] IN
                  HasLeft(new, page) /\ WaitsLess(new, page) /\ OnScreen(new, "workspace")
  <2> HIDE DEF left
  <2>1. HasLeft(canned, page) /\ WaitsLess(canned, page)
    BY <1>1, <1>6 DEF HasLeft, SameWaits, WaitsLess
  <2>2. LET new == MockTurn(canned, text) IN
          HasLeft(new, canned) /\ OnScreen(new, "workspace") /\ new.exportStatus = canned.exportStatus
    BY <1>6, <2>1 DEF MockTurn, Pages, HasLeft, OnScreen
  <2>3. LET new == [canned EXCEPT !.lastUserMessage = text, !.lastFailedAction = "chat"] IN
          HasLeft(new, canned) /\ SameWaits(new, canned) /\ OnScreen(new, "workspace")
    BY <1>6, <2>1 DEF Pages, HasLeft, OnScreen, SameWaits
  <2>4. LET new == [canned EXCEPT !.exportStatus = "done"] IN
          /\ HasLeft(new, canned) /\ OnScreen(new, "workspace")
          /\ new.chatStatus = canned.chatStatus /\ new.exportStatus = "done"
    BY <1>6, <2>1 DEF Pages, HasLeft, OnScreen
  <2> QED
    BY <2>1, <2>2, <2>3, <2>4 DEF HasLeft, SameWaits, WaitsLess
<1>7. CASE state \notin {"import", "importLoading", "importError", "workspaceBeforeAi"}
  <2>1. \A thread \in Threads, dialog \in BOOLEAN :
          /\ Canned(left, thread, dialog) \in Pages /\ HasLeft(Canned(left, thread, dialog), left)
          /\ WaitsLess(Canned(left, thread, dialog), left)
          /\ OnScreen(Canned(left, thread, dialog), "workspace")
    <3> HIDE DEF left
    <3> QED
      BY <1>1, ShowOther, CannedFields
  <2>2. "workspace" \in Screens \ {"serverStarting"}
    BY DEF Screens
  <2>3. /\ state = "aiProcessing" => to = MockTurn(Canned(left, NoTurns, FALSE), text)
        /\ state \in {"clarification", "rejected"} => to = Canned(left, NoTurns, FALSE)
        /\ state \in {"aiSuccess", "taskModal"} => to = Canned(left, FixtureThread, FALSE)
        /\ state = "technicalError" =>
             to = [Canned(left, ErrorThread, FALSE) EXCEPT !.lastUserMessage = text,
                                                    !.lastFailedAction = "chat"]
        /\ state = "uploadConfirmation" => to = Canned(left, FixtureThread, TRUE)
        /\ state = "exportSuccess" => 
             to = [Canned(left, FixtureThread, FALSE) EXCEPT !.exportStatus = "done"]
        /\ state \in {"aiProcessing", "aiSuccess", "clarification", "rejected", "taskModal",
                      "technicalError", "uploadConfirmation", "exportSuccess"}
    BY <1>7, SessionAssumption DEF JumpTo
  <2> HIDE DEF left, to
  <2>4. /\ HasLeft(to, page) /\ OnScreen(to, "workspace")
        /\ state = "aiProcessing" \/ WaitsLess(to, page)
        /\ to.exportStatus \in {"idle", "done", page.exportStatus}
    <3> DEFINE plain == Canned(left, NoTurns, FALSE)
               done  == Canned(left, FixtureThread, FALSE)
               wrong == Canned(left, ErrorThread, FALSE)
               asks  == Canned(left, FixtureThread, TRUE)
    <3>1. /\ HasLeft(plain, page) /\ WaitsLess(plain, page) /\ OnScreen(plain, "workspace")
          /\ LET new == MockTurn(plain, text) IN
               /\ HasLeft(new, page) /\ OnScreen(new, "workspace")
               /\ new.exportStatus \in {"idle", "done", page.exportStatus}
      BY <1>6, <2>1, ThreadTypes
    <3>10. /\ HasLeft(done, page) /\ WaitsLess(done, page) /\ OnScreen(done, "workspace")
           /\ LET new == [done EXCEPT !.exportStatus = "done"] IN
                HasLeft(new, page) /\ WaitsLess(new, page) /\ OnScreen(new, "workspace")
      BY <1>6, <2>1, ThreadTypes
    <3>2. LET new == [wrong EXCEPT !.lastUserMessage = text, !.lastFailedAction = "chat"] IN
            HasLeft(new, page) /\ WaitsLess(new, page) /\ OnScreen(new, "workspace")
      BY <1>6, <2>1, ThreadTypes
    <3>3. HasLeft(asks, page) /\ WaitsLess(asks, page) /\ OnScreen(asks, "workspace")
      BY <1>6, <2>1, ThreadTypes
    <3>4. /\ state = "aiProcessing" => to = MockTurn(plain, text)
          /\ state \in {"clarification", "rejected"} => to = plain
          /\ state \in {"aiSuccess", "taskModal"} => to = done
          /\ state = "technicalError" =>
               to = [wrong EXCEPT !.lastUserMessage = text, !.lastFailedAction = "chat"]
          /\ state = "uploadConfirmation" => to = asks
          /\ state = "exportSuccess" => to = [done EXCEPT !.exportStatus = "done"]
      BY <2>3
    <3> HIDE DEF plain, done, wrong, asks
    <3>5. CASE state = "aiProcessing"
      BY <3>1, <3>4, <3>5
    <3>6. CASE state = "technicalError"
      BY <3>2, <3>4, <3>6 DEF WaitsLess
    <3>7. CASE state = "exportSuccess"
      BY <3>10, <3>4, <3>7 DEF WaitsLess
    <3>8. CASE state = "uploadConfirmation"
      BY <3>3, <3>4, <3>8 DEF WaitsLess
    <3>9. CASE state \in {"aiSuccess", "clarification", "rejected", "taskModal"}
      BY <3>1, <3>4, <3>9, <3>10 DEF WaitsLess
    <3> QED
      BY <2>3, <3>5, <3>6, <3>7, <3>8, <3>9
  <2> QED
    BY <2>2, <2>4 DEF WaitsLess, to
<1> QED
  BY <1>2, <1>4, <1>5, <1>7

(* What a step may do to the project shown and the id saved. *)
Stays ==
  /\ SamePlan(page', page) /\ (saved' = saved \/ (saved' = 0 /\ page'.screen # "workspace"))
  /\ page'.screen = "workspace" => page.screen = "workspace"

LeavesTo == HasLeft(page', page) /\ saved' = 0

StartsAgain == page' = FreshPage /\ saved' = saved /\ \A s \in Slots : ~InFlight(s)'

TurnsMock ==
  /\ page'.dataSource = "mock" /\ page'.projectId = page.projectId
  /\ page'.late = page.late /\ saved' = saved

LoadsOne ==
  \E project \in Copies :
    page' = Loaded(page, project) /\ saved' = project.id /\ project.id # 0

TakesReply ==
  \E s \in Slots :
    /\ saved' = saved
    /\ \/ /\ chats[s].phase = "answered" /\ chats[s].reply.kind = "applied"
          /\ page' = Applied(page, chats[s].reply, LeftBehind(s))
       \/ /\ chats[s].phase = "refetched"
          /\ page' = [page EXCEPT !.serverProject = chats[s].reply.project,
                                  !.turns.error = TRUE, !.late = @ \/ LeftBehind(s)]

PlanMoves == Stays \/ LeavesTo \/ StartsAgain \/ TurnsMock \/ LoadsOne \/ TakesReply

LEMMA QuietPlan ==
  ASSUME TypeOK, QuietStep
  PROVE  PlanMoves
<1>1. page \in Pages /\ \A screen \in Screens : screen \in Screens
  BY TypeParts
<1>2. ASSUME NEW pg \in Pages, SamePlan(pg, page), NEW screen \in Screens \ {"workspace"},
             page' = Shows(pg, screen), saved' = saved
      PROVE  Stays
  <2>1. SamePlan(Shows(pg, screen), pg) /\ Shows(pg, screen).screen = screen
    BY <1>2, ShowsFields DEF OnScreen
  <2> QED
    BY <1>2, <2>1 DEF Stays, SamePlan
<1>3. ASSUME UNCHANGED <<page, saved>>
      PROVE  Stays
  BY <1>3 DEF Stays, SamePlan
<1>4. {"import", "importLoading", "importError", "serverStarting"} \subseteq Screens \ {"workspace"}
  BY DEF Screens
<1>5. CASE ProbeStep
  BY <1>3, <1>5 DEF ProbeStep, PlanMoves
<1>6. CASE BootContinues
  <2>1. [page EXCEPT !.unavailable = TRUE] \in Pages
        /\ SamePlan([page EXCEPT !.unavailable = TRUE], page) /\ SamePlan(page, page)
    BY <1>1 DEF Pages, SamePlan
  <2>2. saved' = saved /\ (page' = page \/ \E pg \in {page, [page EXCEPT !.unavailable = TRUE]},
                             screen \in {"import", "importLoading", "importError"} :
                               page' = Shows(pg, screen))
    BY <1>6 DEF BootContinues
  <2> QED
    BY <1>1, <1>2, <1>3, <1>4, <2>1, <2>2 DEF PlanMoves
<1>7. CASE RetryBackendCheck
  <2> DEFINE pg == [[page EXCEPT !.unavailable = FALSE] EXCEPT !.notice = FALSE]
  <2>1. pg \in Pages /\ SamePlan(pg, page)
    BY <1>1 DEF Pages, SamePlan
  <2>2. page' = Shows(pg, "serverStarting") /\ saved' = saved
    BY <1>7 DEF RetryBackendCheck, StartBoot
  <2> HIDE DEF pg
  <2> QED
    BY <1>2, <1>4, <2>1, <2>2 DEF PlanMoves
<1>8. CASE BuildPlan \/ ChooseAnotherFile \/ RetryImport
  <2>1. /\ [page EXCEPT !.pendingFile = "raw", !.notice = FALSE] \in Pages
        /\ SamePlan([page EXCEPT !.pendingFile = "raw", !.notice = FALSE], page)
        /\ [page EXCEPT !.pendingFile = "none"] \in Pages
        /\ SamePlan([page EXCEPT !.pendingFile = "none"], page) /\ SamePlan(page, page)
    BY <1>1 DEF Pages, SamePlan
  <2> QED
    BY <1>1, <1>2, <1>4, <1>8, <2>1 DEF BuildPlan, ChooseAnotherFile, RetryImport, PlanMoves
<1>9. CASE OpenUploadConfirm \/ CancelUpload
  <2>1. \A open \in BOOLEAN : SamePlan([page EXCEPT !.uploadConfirmOpen = open], page)
          /\ [page EXCEPT !.uploadConfirmOpen = open].screen = page.screen
    BY <1>1 DEF Pages, SamePlan
  <2> QED
    BY <1>9, <2>1 DEF OpenUploadConfirm, CancelUpload, PlanMoves, Stays
<1>10. CASE ConfirmUpload
  BY <1>1, <1>10, ResetFields DEF ConfirmUpload, PlanMoves, LeavesTo
<1> QED
  BY <1>5, <1>6, <1>7, <1>8, <1>9, <1>10 DEF QuietStep

LEMMA LoadPlan ==
  ASSUME TypeOK, LoadingDone \/ Reload \/ \E i \in 1 .. MaxRunning : LoadStep(i)
  PROVE  PlanMoves
<1>1. page \in Pages
  BY TypeParts
<1>2. ASSUME NEW pg \in Pages, SamePlan(pg, page), NEW screen \in Screens \ {"workspace"},
             page' = Shows(pg, screen), saved' \in {saved, 0}
      PROVE  Stays
  <2>1. SamePlan(Shows(pg, screen), pg) /\ Shows(pg, screen).screen = screen
    BY <1>2, ShowsFields DEF OnScreen
  <2> QED
    BY <1>2, <2>1 DEF Stays, SamePlan
<1>3. {"import", "importLoading", "importError", "serverStarting"} \subseteq Screens \ {"workspace"}
  BY DEF Screens
<1>4. CASE Reload
  <2>1. \A s \in Slots : ~InFlight(s)'
    BY <1>4 DEF Reload, InFlight, NoChat
  <2> QED
    BY <1>4, <2>1 DEF Reload, PlanMoves, StartsAgain
<1>5. CASE LoadingDone
  <2>1. CASE page' = [page EXCEPT !.loadingTimer = FALSE]
    <3>1. SamePlan(page', page) /\ page'.screen = page.screen /\ saved' = saved
      BY <1>1, <1>5, <2>1 DEF Pages, SamePlan, LoadingDone
    <3> QED
      BY <3>1 DEF PlanMoves, Stays
  <2>2. CASE page' = Shows([page EXCEPT !.unavailable = FALSE], "importError")
    <3>1. [page EXCEPT !.unavailable = FALSE] \in Pages
          /\ SamePlan([page EXCEPT !.unavailable = FALSE], page) /\ saved' = saved
      BY <1>1, <1>5 DEF Pages, SamePlan, LoadingDone
    <3> QED
      BY <1>2, <1>3, <2>2, <3>1 DEF PlanMoves
  <2>3. CASE page' = Shows([ClearThread(page) EXCEPT !.dataSource = "mock"], "workspace")
    <3> DEFINE cleared == ClearThread(page)
               new     == [cleared EXCEPT !.dataSource = "mock"]
    <3>1. cleared \in Pages /\ cleared.projectId = page.projectId /\ cleared.late = page.late
      BY <1>1, ClearThreadType, ClearThreadFields
    <3> HIDE DEF cleared
    <3>2. new \in Pages
      BY <3>1 DEF Pages
    <3>3. new.dataSource = "mock" /\ new.projectId = page.projectId /\ new.late = page.late
      BY <3>1 DEF Pages
    <3>4. page' = Shows(new, "workspace") /\ "workspace" \in Screens
      BY <2>3 DEF Screens, cleared
    <3> HIDE DEF new
    <3>5. SamePlan(Shows(new, "workspace"), new)
      BY <3>2, <3>4, ShowsFields
    <3>6. saved' = saved
      BY <1>5 DEF LoadingDone
    <3> QED
      BY <3>3, <3>4, <3>5, <3>6 DEF PlanMoves, TurnsMock, SamePlan
  <2> QED
    BY <1>5, <2>1, <2>2, <2>3 DEF LoadingDone
<1>6. ASSUME NEW i \in 1 .. MaxRunning, LoadStep(i)
      PROVE  PlanMoves
  <2>1. CASE LoadSucceeds(i)
    <3>1. PICK p \in Pids : saved' = p /\ page' = Loaded(page, Copy(p, Revision(p)))
      BY <2>1 DEF LoadSucceeds
    <3>2. Copy(p, Revision(p)) \in Copies /\ Copy(p, Revision(p)).id = p /\ p # 0
      BY CopyType DEF Copy, Pids
    <3> QED
      BY <3>1, <3>2 DEF PlanMoves, LoadsOne
  <2>2. CASE LoadFails(i)
    <3>1. /\ \A b \in BOOLEAN : [page EXCEPT !.unavailable = b] \in Pages
                                /\ SamePlan([page EXCEPT !.unavailable = b], page)
          /\ [page EXCEPT !.notice = TRUE] \in Pages
          /\ SamePlan([page EXCEPT !.notice = TRUE], page)
      BY <1>1 DEF Pages, SamePlan
    <3>2. saved' \in {saved, 0}
      BY <2>2 DEF LoadFails
    <3> QED
      BY <1>2, <1>3, <2>2, <3>1, <3>2 DEF LoadFails, PlanMoves
  <2> QED
    BY <1>6, <2>1, <2>2 DEF LoadStep
<1> QED
  BY <1>4, <1>5, <1>6

LEMMA ThreadPlan ==
  ASSUME TypeOK,
         \/ ExportStep \/ ClickExport \/ SendMessage \/ RetryLast \/ MockReply \/ Jump
         \/ OtherCommits \/ BackendRestarts \/ \E s \in Slots : ChatStep(s)
  PROVE  PlanMoves
<1>1. page \in Pages
  BY TypeParts
<1>2. ASSUME UNCHANGED <<page, saved>>
      PROVE  Stays
  BY <1>2 DEF Stays, SamePlan
<1>3. ASSUME SamePlan(page', page), page'.screen = page.screen, saved' = saved
      PROVE  Stays
  BY <1>3 DEF Stays
<1>4. CASE OtherCommits \/ BackendRestarts
  BY <1>2, <1>4 DEF OtherCommits, BackendRestarts, PlanMoves
<1>5. CASE Jump
  BY <1>1, <1>5, JumpToFields DEF Jump, PlanMoves, LeavesTo
<1>6. CASE ExportStep \/ MockReply
  <2>1. /\ \A status \in {"idle", "done"} :
             SamePlan([page EXCEPT !.exportStatus = status], page)
             /\ [page EXCEPT !.exportStatus = status].screen = page.screen
        /\ LET new == [page EXCEPT !.exportStatus = "idle", !.lastFailedAction = "export",
                                   !.turns.error = TRUE]
           IN  SamePlan(new, page) /\ new.screen = page.screen
        /\ LET new == [page EXCEPT !.chatStatus = "idle"]
           IN  SamePlan(new, page) /\ new.screen = page.screen
        /\ LET new == [page EXCEPT !.chatStatus = "idle", !.turns.fixture = TRUE]
           IN  SamePlan(new, page) /\ new.screen = page.screen
        /\ LET new == [page EXCEPT !.chatStatus = "idle", !.lastFailedAction = "chat",
                                   !.turns.error = TRUE]
           IN  SamePlan(new, page) /\ new.screen = page.screen
    BY <1>1 DEF Pages, SamePlan
  <2>2. saved' = saved
    BY <1>6 DEF ExportStep, ExportArrives, ExportFails, ExportTimer, MockReply
  <2> QED
    BY <1>3, <1>6, <2>1, <2>2
    DEF ExportStep, ExportArrives, ExportFails, ExportTimer, MockReply, PlanMoves
<1>7. ASSUME NEW pg \in {page, [page EXCEPT !.uploadConfirmOpen = FALSE]}, Export(pg), saved' = saved
      PROVE  Stays
  <2>1. SamePlan([pg EXCEPT !.exportStatus = "preparing"], page)
        /\ [pg EXCEPT !.exportStatus = "preparing"].screen = page.screen
    BY <1>1, <1>7 DEF Pages, SamePlan
  <2> QED
    BY <1>3, <1>7, <2>1 DEF Export
<1>8. ASSUME NEW text, RunAiTurn(text), saved' = saved
      PROVE  Stays
  <2>1. /\ SamePlan(MockTurn(page, text), page) /\ MockTurn(page, text).screen = page.screen
        /\ LET new == [page EXCEPT !.chatStatus = "processing", !.lastUserMessage = text,
                                   !.lastFailedAction = "chat"]
           IN  SamePlan(new, page) /\ new.screen = page.screen
    BY <1>1 DEF Pages, SamePlan, MockTurn
  <2> QED
    BY <1>2, <1>3, <1>8, <2>1 DEF RunAiTurn, RunServerAiTurn, RunMockAiTurn
<1>9. CASE ClickExport \/ SendMessage \/ RetryLast
  BY <1>7, <1>8, <1>9 DEF ClickExport, SendMessage, RetryLast, PlanMoves
<1>10. ASSUME NEW s \in Slots, ChatStep(s)
       PROVE  PlanMoves
  <2>1. CASE BackendCommits(s) \/ BackendRefuses(s) \/ BackendAnswers(s) \/ BackendReads(s)
    BY <1>2, <2>1 DEF BackendCommits, BackendRefuses, BackendAnswers, BackendReads, PlanMoves
  <2>2. /\ LET new == [page EXCEPT !.chatStatus = "idle"]
           IN  SamePlan(new, page) /\ new.screen = page.screen
        /\ LET new == [page EXCEPT !.chatStatus = "idle", !.turns.error = TRUE]
           IN  SamePlan(new, page) /\ new.screen = page.screen
        /\ LET new == [page EXCEPT !.turns.error = TRUE]
           IN  SamePlan(new, page) /\ new.screen = page.screen
    BY <1>1 DEF Pages, SamePlan
  <2>3. CASE GetsReply(s)
    <3>1. saved' = saved
      BY <2>3 DEF GetsReply
    <3>2. CASE chats[s].reply.kind = "applied"
      BY <2>3, <3>1, <3>2 DEF GetsReply, PlanMoves, TakesReply
    <3>3. CASE chats[s].reply.kind # "applied"
      BY <1>3, <2>2, <2>3, <3>1, <3>3 DEF GetsReply, PlanMoves
    <3> QED
      BY <3>2, <3>3
  <2>4. CASE Refetched(s)
    <3>1. saved' = saved
      BY <2>4 DEF Refetched
    <3> QED
      BY <1>3, <2>2, <2>4, <3>1 DEF Refetched, PlanMoves, TakesReply
  <2> QED
    BY <1>10, <2>1, <2>3, <2>4 DEF ChatStep
<1> QED
  BY <1>4, <1>5, <1>6, <1>9, <1>10

LEMMA NextMovesPlan ==
  ASSUME TypeOK, [Next]_vars
  PROVE  PlanMoves
<1>1. CASE UNCHANGED vars
  BY <1>1 DEF vars, PlanMoves, Stays, SamePlan
<1> QED
  BY <1>1, QuietPlan, LoadPlan, ThreadPlan DEF Next, UserStep, QuietStep

LEMMA MovesKeepReturns ==
  ASSUME TypeOK, ReloadReturns, PlanMoves
  PROVE  ReloadReturns'
<1>1. page \in Pages
  BY TypeParts
<1>2. CASE Stays
  BY <1>2 DEF Stays, SamePlan, ReloadReturns, ServerMode
<1>3. CASE LeavesTo
  BY <1>3 DEF LeavesTo, HasLeft, ReloadReturns, ServerMode
<1>4. CASE StartsAgain
  BY <1>4 DEF StartsAgain, FreshPage, ReloadReturns, ServerMode
<1>5. CASE TurnsMock
  BY <1>5 DEF TurnsMock, ReloadReturns, ServerMode
<1>6. CASE LoadsOne
  BY <1>1, <1>6, LoadedFields DEF LoadsOne, ReloadReturns, ServerMode
<1>7. CASE TakesReply
  <2>1. \A reply, late : LET new == Applied(page, reply, late) IN
          new.dataSource = page.dataSource /\ new.projectId = page.projectId /\ new.screen = page.screen
    BY <1>1 DEF Applied, Pages
  <2>2. \A copy, late : LET new == [page EXCEPT !.serverProject = copy, !.turns.error = TRUE,
                                                !.late = @ \/ late]
          IN new.dataSource = page.dataSource /\ new.projectId = page.projectId
             /\ new.screen = page.screen
    BY <1>1 DEF Pages
  <2>3. /\ saved' = saved /\ page'.dataSource = page.dataSource
        /\ page'.projectId = page.projectId /\ page'.screen = page.screen
    <3>1. PICK s \in Slots :
            /\ saved' = saved
            /\ \/ page' = Applied(page, chats[s].reply, LeftBehind(s))
               \/ page' = [page EXCEPT !.serverProject = chats[s].reply.project,
                                       !.turns.error = TRUE, !.late = @ \/ LeftBehind(s)]
      BY <1>7 DEF TakesReply
    <3>2. CASE page' = Applied(page, chats[s].reply, LeftBehind(s))
      BY <2>1, <3>1, <3>2
    <3>3. CASE page' = [page EXCEPT !.serverProject = chats[s].reply.project,
                                    !.turns.error = TRUE, !.late = @ \/ LeftBehind(s)]
      BY <2>2, <3>1, <3>3
    <3> QED
      BY <3>1, <3>2, <3>3
  <2> QED
    BY <2>3 DEF ReloadReturns, ServerMode
<1> QED
  BY <1>2, <1>3, <1>4, <1>5, <1>6, <1>7 DEF PlanMoves

HighlightIsLastDiff ==
  ServerMode(page) /\ page.serverChangeSet # NoCopy =>
    page.turns.diff = page.serverChangeSet

LEMMA MovesKeepHighlight ==
  ASSUME TypeOK, HighlightIsLastDiff, PlanMoves
  PROVE  HighlightIsLastDiff'
<1>1. page \in Pages
  BY TypeParts
<1>2. CASE Stays
  BY <1>2 DEF Stays, SamePlan, HighlightIsLastDiff, ServerMode
<1>3. CASE LeavesTo \/ StartsAgain \/ TurnsMock
  BY <1>3 DEF LeavesTo, HasLeft, StartsAgain, FreshPage, TurnsMock, HighlightIsLastDiff, ServerMode
<1>4. CASE LoadsOne
  BY <1>1, <1>4, LoadedFields DEF LoadsOne, HighlightIsLastDiff, ServerMode
<1>5. CASE TakesReply
  <2>1. \A reply, late : LET new  == Applied(page, reply, late)
                             diff == IF reply.summary THEN reply.project ELSE NoCopy IN
          new.serverChangeSet = diff /\ (reply.summary => new.turns.diff = diff)
    BY <1>1 DEF Applied, Pages
  <2>2. \A copy, late : LET new == [page EXCEPT !.serverProject = copy, !.turns.error = TRUE,
                                                !.late = @ \/ late] IN
          /\ new.dataSource = page.dataSource /\ new.serverChangeSet = page.serverChangeSet
          /\ new.turns.diff = page.turns.diff
    BY <1>1 DEF Pages
  <2>3. PICK s \in Slots :
          \/ page' = Applied(page, chats[s].reply, LeftBehind(s))
          \/ page' = [page EXCEPT !.serverProject = chats[s].reply.project,
                                  !.turns.error = TRUE, !.late = @ \/ LeftBehind(s)]
    BY <1>5 DEF TakesReply
  <2>4. CASE page' = Applied(page, chats[s].reply, LeftBehind(s))
    BY <2>1, <2>4 DEF HighlightIsLastDiff
  <2>5. CASE page' = [page EXCEPT !.serverProject = chats[s].reply.project,
                                  !.turns.error = TRUE, !.late = @ \/ LeftBehind(s)]
    <3>1. /\ page'.dataSource = page.dataSource /\ page'.serverChangeSet = page.serverChangeSet
          /\ page'.turns.diff = page.turns.diff
      BY <2>2, <2>5
    <3> QED
      BY <3>1 DEF HighlightIsLastDiff, ServerMode
  <2> QED
    BY <2>3, <2>4, <2>5
<1> QED
  BY <1>2, <1>3, <1>4, <1>5 DEF PlanMoves

(* What a step may do to the message of a slot. *)
FreshMessage ==
  [NoChat EXCEPT !.phase = "sent", !.pid = page.projectId, !.shown = page.serverProject]

ChatMoves(s) ==
  LET c == chats[s] IN
  \/ chats'[s] \in {c, NoChat}
  \/ chats'[s] = [c EXCEPT !.phase = "orphan"]
  \/ ServerMode(page) /\ chats'[s] = FreshMessage
  \/ /\ InFlight(s)
     /\ \/ /\ c.pid \in Pids /\ c.shown.revision = Revision(c.pid)
           /\ chats'[s] = [c EXCEPT !.phase = "committed"]
        \/ \E reply \in Replies :
             /\ reply.kind = "applied" => reply.project.id = c.pid
             /\ chats'[s] = [c EXCEPT !.phase = "answered", !.reply = reply]
        \/ chats'[s] = [c EXCEPT !.phase = "refetching", !.reply = NoReply]
        \/ chats'[s] = [c EXCEPT !.phase = "refetched",
                                 !.reply = [@ EXCEPT !.project = Copy(c.pid, Revision(c.pid))]]

LEMMA OneChatMoves ==
  ASSUME TypeOK, RepliesFit, NEW r \in Slots, ChatStep(r), NEW s \in Slots
  PROVE  ChatMoves(s)
<1>1. /\ chats \in [Slots -> Chats] /\ chats[s] \in Chats /\ chats[r] \in Chats
      /\ NoReply \in Replies
  BY TypeParts, ReplyTypes
<1>2. CASE s # r
  <2>1. chats'[s] = chats[s]
    BY <1>1, <1>2 DEF ChatStep, BackendCommits, BackendRefuses, BackendAnswers, GetsReply,
                      BackendReads, Refetched, Replied
  <2> QED
    BY <2>1 DEF ChatMoves
<1>3. CASE s = r
  <2>1. CASE BackendCommits(s)
    <3>1. CASE chats[s].phase = "orphan"
      BY <1>1, <2>1, <3>1 DEF BackendCommits, ChatMoves
    <3>2. CASE chats[s].phase # "orphan"
      <4>1. /\ chats[s].pid \in Pids /\ chats[s].shown.revision = Revision(chats[s].pid)
            /\ chats[s].phase = "sent"
            /\ chats' = [chats EXCEPT ![s].phase = "committed"]
        BY <2>1, <3>2 DEF BackendCommits, Waiting, Held, Expected
      <4>2. chats'[s] = [chats[s] EXCEPT !.phase = "committed"]
        BY <1>1, <4>1
      <4> QED
        BY <4>1, <4>2 DEF ChatMoves, InFlight
    <3> QED
      BY <3>1, <3>2
  <2>2. ASSUME NEW reply \in Replies, chats' = Replied(s, reply),
               reply.kind = "applied" => reply.project.id = chats[s].pid,
               chats[s].phase # "free"
        PROVE  ChatMoves(s)
    <3>1. CASE chats[s].phase = "orphan"
      BY <1>1, <2>2, <3>1 DEF Replied, ChatMoves
    <3>2. CASE chats[s].phase # "orphan"
      <4>1. chats' = [chats EXCEPT ![s].phase = "answered", ![s].reply = reply]
        BY <2>2, <3>2 DEF Replied
      <4>2. chats'[s] = [chats[s] EXCEPT !.phase = "answered", !.reply = reply]
        BY <1>1, <4>1
      <4> QED
        BY <2>2, <3>2, <4>2 DEF ChatMoves, InFlight
    <3> QED
      BY <3>1, <3>2
  <2>3. CASE BackendRefuses(s)
    <3>1. PICK kind \in {"unchanged", "disabled", "conflict", "error"} :
            chats' = Replied(s, [NoReply EXCEPT !.kind = kind])
      BY <2>3 DEF BackendRefuses
    <3>2. [NoReply EXCEPT !.kind = kind] \in Replies /\ [NoReply EXCEPT !.kind = kind].kind # "applied"
      BY ReplyTypes DEF NoReply
    <3>3. chats[s].phase # "free"
      BY <2>3 DEF BackendRefuses, Waiting
    <3> QED
      BY <2>2, <3>1, <3>2, <3>3
  <2>4. CASE BackendAnswers(s)
    <3>1. chats[s].phase = "committed" /\ chats[s].pid \in Pids
      BY <2>4 DEF BackendAnswers, RepliesFit
    <3>2. CASE \E summary \in BOOLEAN :
                 chats' = Replied(s, [kind |-> "applied", summary |-> summary,
                                      project |-> Copy(chats[s].pid, Revision(chats[s].pid))])
      <4>1. PICK summary \in BOOLEAN :
              chats' = Replied(s, [kind |-> "applied", summary |-> summary,
                                   project |-> Copy(chats[s].pid, Revision(chats[s].pid))])
        BY <3>2
      <4>2. Copy(chats[s].pid, Revision(chats[s].pid)) \in Copies
            /\ Copy(chats[s].pid, Revision(chats[s].pid)).id = chats[s].pid
        BY <3>1, CopyType DEF Copy
      <4> DEFINE reply == [kind |-> "applied", summary |-> summary,
                           project |-> Copy(chats[s].pid, Revision(chats[s].pid))]
      <4>3. reply \in Replies /\ reply.project.id = chats[s].pid
        BY <4>2 DEF Replies
      <4> HIDE DEF reply
      <4> QED
        BY <2>2, <3>1, <4>1, <4>3 DEF reply
    <3>3. ASSUME NEW kind \in {"unchanged", "error"}, chats' = Replied(s, [NoReply EXCEPT !.kind = kind])
          PROVE  ChatMoves(s)
      <4>1. [NoReply EXCEPT !.kind = kind] \in Replies /\ [NoReply EXCEPT !.kind = kind].kind # "applied"
        BY ReplyTypes DEF NoReply
      <4> QED
        BY <2>2, <3>1, <3>3, <4>1
    <3> QED
      BY <2>4, <3>2, <3>3 DEF BackendAnswers
  <2>5. CASE GetsReply(s)
    <3>1. chats' = [chats EXCEPT ![s] = NoChat]
          \/ chats' = [chats EXCEPT ![s].phase = "refetching", ![s].reply = NoReply]
      BY <2>5 DEF GetsReply
    <3>2. chats'[s] = NoChat \/ chats'[s] = [chats[s] EXCEPT !.phase = "refetching", !.reply = NoReply]
      BY <1>1, <3>1
    <3> QED
      BY <2>5, <3>2 DEF GetsReply, ChatMoves, InFlight
  <2>6. CASE BackendReads(s)
    <3>1. chats' = [chats EXCEPT ![s].phase = "refetched",
                      ![s].reply.project = Copy(chats[s].pid, Revision(chats[s].pid))]
      BY <2>6 DEF BackendReads
    <3>2. chats'[s] = [chats[s] EXCEPT !.phase = "refetched",
                         !.reply = [@ EXCEPT !.project = Copy(chats[s].pid, Revision(chats[s].pid))]]
      BY <1>1, <3>1 DEF Chats, Replies
    <3> QED
      BY <2>6, <3>2 DEF BackendReads, ChatMoves, InFlight
  <2>7. CASE Refetched(s)
    BY <1>1, <2>7 DEF Refetched, ChatMoves
  <2> QED
    BY <1>3, <2>1, <2>3, <2>4, <2>5, <2>6, <2>7 DEF ChatStep
<1> QED
  BY <1>2, <1>3

LEMMA NextMovesChats ==
  ASSUME TypeOK, RepliesFit, [Next]_vars, NEW s \in Slots
  PROVE  ChatMoves(s)
<1>1. chats \in [Slots -> Chats] /\ chats[s] \in Chats /\ NoReply \in Replies
  BY TypeParts, ReplyTypes
<1>2. CASE UNCHANGED chats
  BY <1>2 DEF ChatMoves
<1>3. CASE Reload
  BY <1>1, <1>3 DEF Reload, ChatMoves
<1>4. CASE BackendRestarts
  <2>1. chats'[s] = CASE chats[s].phase \in {"sent", "committed"} ->
                           [chats[s] EXCEPT !.phase = "answered",
                                            !.reply = [NoReply EXCEPT !.kind = "error"]]
                      [] chats[s].phase = "orphan" -> NoChat
                      [] OTHER -> chats[s]
    BY <1>4 DEF BackendRestarts
  <2>2. CASE chats[s].phase \in {"sent", "committed"}
    <3> DEFINE reply == [NoReply EXCEPT !.kind = "error"]
    <3>1. reply \in Replies /\ reply.kind # "applied"
      BY ReplyTypes DEF NoReply
    <3>2. chats'[s] = [chats[s] EXCEPT !.phase = "answered", !.reply = reply]
      BY <2>1, <2>2
    <3> HIDE DEF reply
    <3>3. chats'[s] = [chats[s] EXCEPT !.phase = "answered", !.reply = reply]
      BY <1>1, <3>2 DEF Chats
    <3> QED
      BY <2>2, <3>1, <3>3 DEF ChatMoves, InFlight
  <2>3. CASE chats[s].phase \notin {"sent", "committed"}
    BY <2>1, <2>3 DEF ChatMoves
  <2> QED
    BY <2>2, <2>3
<1>5. ASSUME NEW text, RunAiTurn(text)
      PROVE  ChatMoves(s)
  <2>1. CASE UNCHANGED chats
    BY <1>2, <2>1
  <2>2. ASSUME NEW r \in Slots, chats' = [chats EXCEPT ![r] = FreshMessage], ServerMode(page)
        PROVE  ChatMoves(s)
    BY <1>1, <2>2 DEF ChatMoves
  <2> QED
    BY <1>5, <2>1, <2>2 DEF RunAiTurn, RunServerAiTurn, RunMockAiTurn, FreshMessage
<1>6. CASE SendMessage \/ RetryLast
  BY <1>2, <1>5, <1>6 DEF SendMessage, RetryLast
<1>7. CASE \E r \in Slots : ChatStep(r)
  BY <1>7, OneChatMoves
<1>8. CASE QuietStep \/ LoadingDone \/ MockReply \/ ExportStep \/ ClickExport \/ Jump
           \/ OtherCommits \/ (\E i \in 1 .. MaxRunning : LoadStep(i)) \/ UNCHANGED vars
  <2>1. UNCHANGED chats
    BY <1>8
    DEF QuietStep, ProbeStep, BootContinues, RetryBackendCheck, BuildPlan, ChooseAnotherFile,
        RetryImport, OpenUploadConfirm, CancelUpload, ConfirmUpload, LoadingDone, MockReply,
        ExportStep, ExportArrives, ExportFails, ExportTimer, ClickExport, Jump, OtherCommits,
        LoadStep, LoadSucceeds, LoadFails, vars
  <2> QED
    BY <1>2, <2>1
<1> QED
  BY <1>3, <1>4, <1>6, <1>7, <1>8 DEF Next, UserStep, QuietStep

LEMMA MovesFit ==
  ASSUME TypeOK, RepliesFit, \A s \in Slots : ChatMoves(s)
  PROVE  RepliesFit'
<1> SUFFICES ASSUME NEW s \in Slots
             PROVE  /\ chats'[s].phase = "committed" => chats'[s].pid \in Pids
                    /\ \/ chats'[s].phase = "answered" /\ chats'[s].reply.kind = "applied"
                       \/ chats'[s].phase = "refetched"
                       => chats'[s].reply.project.id = chats'[s].pid
  BY DEF RepliesFit
<1>1. chats[s] \in Chats
  BY TypeParts
<1>2. ChatMoves(s)
  OBVIOUS
<1>3. CASE chats'[s] = chats[s]
  BY <1>3 DEF RepliesFit
<1>7. CASE \/ chats'[s] = NoChat \/ chats'[s] = FreshMessage
           \/ chats'[s] = [chats[s] EXCEPT !.phase = "orphan"]
           \/ chats'[s] = [chats[s] EXCEPT !.phase = "refetching", !.reply = NoReply]
  <2>1. chats'[s].phase \in {"free", "sent", "orphan", "refetching"}
    <3>1. NoChat.phase = "free" /\ FreshMessage.phase = "sent"
      BY DEF NoChat, FreshMessage
    <3>2. /\ [chats[s] EXCEPT !.phase = "orphan"].phase = "orphan"
          /\ [chats[s] EXCEPT !.phase = "refetching", !.reply = NoReply].phase = "refetching"
      BY <1>1 DEF Chats
    <3> QED
      BY <1>7, <3>1, <3>2
  <2> QED
    BY <2>1
<1>4. CASE /\ chats[s].pid \in Pids
           /\ chats'[s] = [chats[s] EXCEPT !.phase = "committed"]
  BY <1>1, <1>4 DEF Chats
<1>5. CASE \E reply \in Replies :
             /\ reply.kind = "applied" => reply.project.id = chats[s].pid
             /\ chats'[s] = [chats[s] EXCEPT !.phase = "answered", !.reply = reply]
  BY <1>1, <1>5 DEF Chats
<1>6. CASE chats'[s] = [chats[s] EXCEPT !.phase = "refetched",
             !.reply = [@ EXCEPT !.project = Copy(chats[s].pid, Revision(chats[s].pid))]]
  <2>1. /\ chats'[s].phase = "refetched" /\ chats'[s].pid = chats[s].pid
        /\ chats'[s].reply.project = Copy(chats[s].pid, Revision(chats[s].pid))
    BY <1>1, <1>6 DEF Chats, Replies
  <2> QED
    BY <2>1 DEF Copy
<1> QED
  BY <1>2, <1>3, <1>4, <1>5, <1>6, <1>7 DEF ChatMoves

LEMMA MovesAgree ==
  ASSUME TypeOK, RepliesFit, PlanAgrees, PlanMoves, \A s \in Slots : ChatMoves(s)
  PROVE  PlanAgrees'
<1>1. page \in Pages
  BY TypeParts
<1>2. CASE StartsAgain
  BY <1>2 DEF StartsAgain, FreshPage, PlanAgrees, ServerMode
<1>3. CASE ~StartsAgain
  <2> SUFFICES ASSUME ~page'.late
               PROVE  /\ ServerMode(page') =>
                           /\ page'.serverProject.id = page'.projectId /\ page'.projectId # 0
                           /\ page'.serverChangeSet # NoCopy =>
                                page'.serverChangeSet.id = page'.projectId
                      /\ \A s \in Slots : InFlight(s)' => chats'[s].shown.id = chats'[s].pid
    BY DEF PlanAgrees, ServerMode, InFlight
  <2>1. \A reply, late : LET new  == Applied(page, reply, late)
                             diff == IF reply.summary THEN reply.project ELSE NoCopy IN
          /\ new.serverChangeSet = diff /\ new.serverProject = reply.project
          /\ new.dataSource = page.dataSource /\ new.projectId = page.projectId
          /\ new.late = (page.late \/ late)
    BY <1>1 DEF Applied, Pages
  <2>2. \A copy, late : LET new == [page EXCEPT !.serverProject = copy, !.turns.error = TRUE,
                                                !.late = @ \/ late] IN
          /\ new.serverChangeSet = page.serverChangeSet /\ new.serverProject = copy
          /\ new.dataSource = page.dataSource /\ new.projectId = page.projectId
          /\ new.late = (page.late \/ late)
    BY <1>1 DEF Pages
  <2>3. ~page.late
    <3>1. CASE Stays \/ LeavesTo \/ TurnsMock
      BY <3>1 DEF Stays, SamePlan, LeavesTo, HasLeft, TurnsMock
    <3>2. CASE LoadsOne
      BY <1>1, <3>2, LoadedFields DEF LoadsOne
    <3>3. CASE TakesReply
      <4>1. PICK s \in Slots :
              \/ page' = Applied(page, chats[s].reply, LeftBehind(s))
              \/ page' = [page EXCEPT !.serverProject = chats[s].reply.project,
                                      !.turns.error = TRUE, !.late = @ \/ LeftBehind(s)]
        BY <3>3 DEF TakesReply
      <4>2. CASE page' = Applied(page, chats[s].reply, LeftBehind(s))
        BY <2>1, <4>2
      <4>3. CASE page' = [page EXCEPT !.serverProject = chats[s].reply.project,
                                      !.turns.error = TRUE, !.late = @ \/ LeftBehind(s)]
        BY <2>2, <4>3
      <4> QED
        BY <4>1, <4>2, <4>3
    <3> QED
      BY <1>3, <3>1, <3>2, <3>3 DEF PlanMoves
  <2>4. /\ ServerMode(page) =>
             /\ page.serverProject.id = page.projectId /\ page.projectId # 0
             /\ page.serverChangeSet # NoCopy => page.serverChangeSet.id = page.projectId
        /\ \A s \in Slots : InFlight(s) => chats[s].shown.id = chats[s].pid
    BY <2>3 DEF PlanAgrees
  <2>5. ASSUME NEW s \in Slots, InFlight(s)'
        PROVE  chats'[s].shown.id = chats'[s].pid
    <3>1. chats[s] \in Chats /\ ChatMoves(s) /\ chats'[s].phase \notin {"free", "orphan"}
      BY <2>5, TypeParts DEF InFlight
    <3>2. CASE chats'[s] = chats[s]
      BY <2>4, <2>5, <3>2 DEF InFlight
    <3>3. CASE ServerMode(page) /\ chats'[s] = FreshMessage
      <4>1. FreshMessage.shown = page.serverProject /\ FreshMessage.pid = page.projectId
        BY DEF FreshMessage, NoChat
      <4> QED
        BY <2>4, <3>3, <4>1
    <3>4. CASE chats'[s] = NoChat \/ chats'[s] = [chats[s] EXCEPT !.phase = "orphan"]
      <4>1. NoChat.phase = "free" /\ [chats[s] EXCEPT !.phase = "orphan"].phase = "orphan"
        BY <3>1 DEF NoChat, Chats
      <4> QED
        BY <3>1, <3>4, <4>1
    <3>5. ASSUME InFlight(s), chats'[s].shown = chats[s].shown, chats'[s].pid = chats[s].pid
          PROVE  chats'[s].shown.id = chats'[s].pid
      BY <2>4, <3>5
    <3>6. CASE /\ InFlight(s)
               /\ chats'[s] = [chats[s] EXCEPT !.phase = "committed"]
      BY <3>1, <3>5, <3>6 DEF Chats
    <3>7. CASE /\ InFlight(s)
               /\ \E reply \in Replies :
                    chats'[s] = [chats[s] EXCEPT !.phase = "answered", !.reply = reply]
      BY <3>1, <3>5, <3>7 DEF Chats
    <3>8. CASE /\ InFlight(s)
               /\ chats'[s] = [chats[s] EXCEPT !.phase = "refetching", !.reply = NoReply]
      BY <3>1, <3>5, <3>8 DEF Chats
    <3>9. CASE /\ InFlight(s)
               /\ chats'[s] = [chats[s] EXCEPT !.phase = "refetched",
                    !.reply = [@ EXCEPT !.project = Copy(chats[s].pid, Revision(chats[s].pid))]]
      BY <3>1, <3>5, <3>9 DEF Chats
    <3> QED
      BY <3>1, <3>2, <3>3, <3>4, <3>6, <3>7, <3>8, <3>9 DEF ChatMoves
  <2>6. ServerMode(page') =>
          /\ page'.serverProject.id = page'.projectId /\ page'.projectId # 0
          /\ page'.serverChangeSet # NoCopy => page'.serverChangeSet.id = page'.projectId
    <3>1. CASE Stays
      BY <2>4, <3>1 DEF Stays, SamePlan, ServerMode
    <3>2. CASE LeavesTo \/ TurnsMock
      BY <3>2 DEF LeavesTo, HasLeft, TurnsMock, ServerMode
    <3>3. CASE LoadsOne
      <4>1. PICK project \in Copies : page' = Loaded(page, project) /\ project.id # 0
        BY <3>3 DEF LoadsOne
      <4>2. /\ page'.serverProject = project /\ page'.projectId = project.id
            /\ page'.serverChangeSet = NoCopy
        BY <1>1, <4>1, LoadedFields
      <4> QED
        BY <4>1, <4>2
    <3>4. CASE TakesReply
      <4>1. PICK s \in Slots :
              \/ /\ chats[s].phase = "answered" /\ chats[s].reply.kind = "applied"
                 /\ page' = Applied(page, chats[s].reply, LeftBehind(s))
              \/ /\ chats[s].phase = "refetched"
                 /\ page' = [page EXCEPT !.serverProject = chats[s].reply.project,
                                         !.turns.error = TRUE, !.late = @ \/ LeftBehind(s)]
        BY <3>4 DEF TakesReply
      <4>2. chats[s].reply.project.id = chats[s].pid
        BY <4>1 DEF RepliesFit
      <4>3. CASE page' = Applied(page, chats[s].reply, LeftBehind(s))
        <5>1. /\ page'.serverProject = chats[s].reply.project /\ ~LeftBehind(s)
              /\ page'.serverChangeSet \in {chats[s].reply.project, NoCopy}
              /\ page'.dataSource = page.dataSource /\ page'.projectId = page.projectId
          BY <2>1, <4>3
        <5> QED
          BY <2>4, <4>2, <5>1 DEF LeftBehind, ServerMode
      <4>4. CASE page' = [page EXCEPT !.serverProject = chats[s].reply.project,
                                      !.turns.error = TRUE, !.late = @ \/ LeftBehind(s)]
        <5>1. /\ page'.serverProject = chats[s].reply.project /\ ~LeftBehind(s)
              /\ page'.serverChangeSet = page.serverChangeSet
              /\ page'.dataSource = page.dataSource /\ page'.projectId = page.projectId
          <6>1. page'.late = (page.late \/ LeftBehind(s))
            BY <1>1, <4>4 DEF Pages
          <6>2. ~LeftBehind(s)
            BY <6>1
          <6> QED
            BY <1>1, <4>4, <6>2 DEF Pages
        <5> QED
          BY <2>4, <4>2, <5>1 DEF LeftBehind, ServerMode
      <4> QED
        BY <4>1, <4>3, <4>4
    <3> QED
      BY <1>3, <3>1, <3>2, <3>3, <3>4 DEF PlanMoves
  <2> QED
    BY <2>5, <2>6
<1> QED
  BY <1>2, <1>3

(* The parts of NeverWaitsForNothing after a step. *)
ReplyComes ==
  mockTimers > 0 \/ \E s \in Slots : chats[s].phase \in {"sent", "committed", "answered"}

ScreenFine ==
  /\ page'.screen = "serverStarting" => probe'.pc # "none"
  /\ page'.screen = "importLoading" => page'.loadingTimer \/ loads'.awaited # <<>>
ChatFine   == page'.chatStatus = "processing" => ReplyComes'
ExportFine == page'.exportStatus = "preparing" => exports'.server + exports'.mock > 0

LEMMA FineParts ==
  ASSUME ScreenFine, ChatFine, ExportFine
  PROVE  NeverWaitsForNothing'
BY DEF ScreenFine, ChatFine, ExportFine, ReplyComes, NeverWaitsForNothing

LEMMA WaitsLessFine ==
  ASSUME NeverWaitsForNothing
  PROVE  /\ page'.chatStatus \in {"idle", page.chatStatus} /\ UNCHANGED <<chats, mockTimers>> => ChatFine
         /\ page'.exportStatus \in {"idle", "done", page.exportStatus} /\ UNCHANGED exports => ExportFine
BY DEF NeverWaitsForNothing, ChatFine, ExportFine, ReplyComes

LEMMA SameScreenFine ==
  ASSUME NeverWaitsForNothing, UNCHANGED <<probe, loads>>, page'.screen = page.screen,
         page'.loadingTimer = page.loadingTimer
  PROVE  ScreenFine
BY DEF NeverWaitsForNothing, ScreenFine

LEMMA OtherScreenFine ==
  ASSUME NEW screen \in Screens, OnScreen(page', screen),
         screen = "serverStarting" => probe'.pc # "none"
  PROVE  ScreenFine
BY DEF OnScreen, ScreenFine

LEMMA QuietWaits ==
  ASSUME TypeOK, NeverWaitsForNothing, QuietStep
  PROVE  NeverWaitsForNothing'
<1>1. page \in Pages /\ UNCHANGED <<chats, exports, mockTimers>>
  BY TypeParts DEF QuietStep, ProbeStep, BootContinues, RetryBackendCheck, BuildPlan,
     ChooseAnotherFile, RetryImport, OpenUploadConfirm, CancelUpload, ConfirmUpload
<1>2. ASSUME WaitsLess(page', page), ScreenFine
      PROVE  NeverWaitsForNothing'
  BY <1>1, <1>2, WaitsLessFine, FineParts DEF WaitsLess
<1>3. ASSUME NEW pg \in Pages, SameWaits(pg, page), NEW screen \in Screens,
             page' = Shows(pg, screen), screen = "serverStarting" => probe'.pc # "none"
      PROVE  NeverWaitsForNothing'
  <2>1. SameWaits(page', pg) /\ OnScreen(page', screen)
    BY <1>3, ShowsFields
  <2> QED
    BY <1>2, <1>3, <2>1, OtherScreenFine DEF SameWaits, WaitsLess
<1>4. {"import", "importLoading", "importError", "serverStarting"} \subseteq Screens
  BY DEF Screens
<1>5. CASE ProbeStep
  <2>1. probe'.pc # "none"
    <3>1. CASE SleepEnds
      BY <3>1, TypeParts DEF SleepEnds, ProbeTypeOK
    <3>2. CASE CheckSucceeds
      BY <3>2, TypeParts DEF CheckSucceeds, ProbeTypeOK
    <3>3. CASE CheckFails
      <4>1. PICK t \in CheckTimes :
              \/ probe' = [probe EXCEPT !.pc = "unavailable", !.elapsed = probe.elapsed + t]
              \/ probe' = [pc |-> "sleeping", attempt |-> probe.attempt + 1,
                           elapsed |-> probe.elapsed + t]
        BY <3>3 DEF CheckFails
      <4>2. "pc" \in DOMAIN probe
        BY TypeParts DEF ProbeTypeOK
      <4>3. CASE probe' = [probe EXCEPT !.pc = "unavailable", !.elapsed = probe.elapsed + t]
        <5>1. probe'.pc = "unavailable"
          BY <4>2, <4>3
        <5> QED
          BY <5>1
      <4> QED
        BY <4>1, <4>3
    <3> QED
      BY <1>5, <3>1, <3>2, <3>3 DEF ProbeStep, ProbeNext
  <2>2. page' = page /\ loads' = loads
    BY <1>5 DEF ProbeStep
  <2>3. ScreenFine
    BY <2>1, <2>2 DEF NeverWaitsForNothing, ScreenFine
  <2> QED
    BY <1>2, <2>2, <2>3 DEF WaitsLess
<1>6. CASE BootContinues
  <2>1. CASE page.screen # "serverStarting"
    <3>1. page' = page /\ loads' = loads
      BY <1>6, <2>1 DEF BootContinues
    <3>2. ScreenFine
      BY <2>1, <3>1 DEF NeverWaitsForNothing, ScreenFine
    <3> QED
      BY <1>2, <3>1, <3>2 DEF WaitsLess
  <2>2. CASE page.screen = "serverStarting"
    <3>1. [page EXCEPT !.unavailable = TRUE] \in Pages
          /\ SameWaits([page EXCEPT !.unavailable = TRUE], page) /\ SameWaits(page, page)
      BY <1>1 DEF Pages, SameWaits
    <3> QED
      BY <1>1, <1>3, <1>4, <1>6, <2>2, <3>1 DEF BootContinues
  <2> QED
    BY <2>1, <2>2
<1>7. CASE RetryBackendCheck
  <2> DEFINE pg == [[page EXCEPT !.unavailable = FALSE] EXCEPT !.notice = FALSE]
  <2>1. pg \in Pages /\ SameWaits(pg, page)
    BY <1>1 DEF Pages, SameWaits
  <2>2. page' = Shows(pg, "serverStarting") /\ probe'.pc = "checking"
    BY <1>7 DEF RetryBackendCheck, StartBoot, FirstCheck
  <2> HIDE DEF pg
  <2> QED
    BY <1>3, <1>4, <2>1, <2>2
<1>8. CASE BuildPlan \/ ChooseAnotherFile \/ RetryImport
  <2>1. /\ [page EXCEPT !.pendingFile = "raw", !.notice = FALSE] \in Pages
        /\ SameWaits([page EXCEPT !.pendingFile = "raw", !.notice = FALSE], page)
        /\ [page EXCEPT !.pendingFile = "none"] \in Pages
        /\ SameWaits([page EXCEPT !.pendingFile = "none"], page) /\ SameWaits(page, page)
    BY <1>1 DEF Pages, SameWaits
  <2> QED
    BY <1>1, <1>3, <1>4, <1>8, <2>1 DEF BuildPlan, ChooseAnotherFile, RetryImport
<1>9. CASE OpenUploadConfirm \/ CancelUpload
  <2>1. \A open \in BOOLEAN : LET new == [page EXCEPT !.uploadConfirmOpen = open] IN
          /\ SameWaits(new, page) /\ new.screen = page.screen
          /\ new.loadingTimer = page.loadingTimer
    BY <1>1 DEF Pages, SameWaits
  <2>2. /\ SameWaits(page', page) /\ page'.screen = page.screen
        /\ page'.loadingTimer = page.loadingTimer /\ UNCHANGED <<probe, loads>>
    BY <1>9, <2>1 DEF OpenUploadConfirm, CancelUpload
  <2> QED
    BY <1>2, <2>2, SameScreenFine DEF SameWaits, WaitsLess
<1>10. CASE ConfirmUpload
  <2>1. WaitsLess(page', page) /\ OnScreen(page', "import")
    BY <1>1, <1>10, ResetFields DEF ConfirmUpload
  <2> QED
    BY <1>2, <1>4, <2>1, OtherScreenFine
<1> QED
  BY <1>5, <1>6, <1>7, <1>8, <1>9, <1>10 DEF QuietStep

LEMMA LoadWaits ==
  ASSUME TypeOK, NeverWaitsForNothing,
         LoadingDone \/ Reload \/ \E i \in 1 .. MaxRunning : LoadStep(i)
  PROVE  NeverWaitsForNothing'
<1>1. page \in Pages /\ {"import", "importError", "workspace"} \subseteq Screens \ {"serverStarting"}
  BY TypeParts DEF Screens
<1>2. CASE Reload
  BY <1>2 DEF Reload, FreshPage, FirstCheck, NeverWaitsForNothing
<1>3. ASSUME WaitsLess(page', page), ScreenFine, UNCHANGED <<chats, exports, mockTimers>>
      PROVE  NeverWaitsForNothing'
  BY <1>3, WaitsLessFine, FineParts DEF WaitsLess
<1>4. ASSUME NEW pg \in Pages, WaitsLess(pg, page), NEW screen \in Screens \ {"serverStarting"},
             page' = Shows(pg, screen), UNCHANGED <<chats, exports, mockTimers>>
      PROVE  NeverWaitsForNothing'
  <2>1. SameWaits(page', pg) /\ OnScreen(page', screen)
    BY <1>4, ShowsFields
  <2> QED
    BY <1>3, <1>4, <2>1, OtherScreenFine DEF SameWaits, WaitsLess
<1>5. CASE LoadingDone
  <2>0. UNCHANGED <<probe, chats, exports, mockTimers>>
    BY <1>5 DEF LoadingDone
  <2>1. CASE loads.pending # NoLoad
    <3>1. /\ page' = [page EXCEPT !.loadingTimer = FALSE]
          /\ loads'.awaited = Append(loads.awaited, loads.pending)
      BY <1>5, <2>1 DEF LoadingDone
    <3>2. loads'.awaited # <<>>
      BY <3>1, TypeParts
    <3>3. SameWaits(page', page) /\ page'.screen = page.screen
      BY <1>1, <3>1 DEF Pages, SameWaits
    <3> QED
      BY <1>3, <2>0, <3>2, <3>3 DEF SameWaits, WaitsLess, ScreenFine, NeverWaitsForNothing
  <2>2. CASE page' = Shows([page EXCEPT !.unavailable = FALSE], "importError")
    <3>1. [page EXCEPT !.unavailable = FALSE] \in Pages
          /\ WaitsLess([page EXCEPT !.unavailable = FALSE], page)
      BY <1>1 DEF Pages, WaitsLess
    <3> QED
      BY <1>1, <1>4, <2>0, <2>2, <3>1
  <2>3. CASE page' = Shows([ClearThread(page) EXCEPT !.dataSource = "mock"], "workspace")
    <3> DEFINE cleared == ClearThread(page)
               new     == [cleared EXCEPT !.dataSource = "mock"]
    <3>1. cleared \in Pages /\ cleared.chatStatus = "idle" /\ cleared.exportStatus = "idle"
      BY <1>1, ClearThreadType, ClearThreadFields
    <3> HIDE DEF cleared
    <3>2. new \in Pages /\ WaitsLess(new, page)
      BY <3>1 DEF Pages, WaitsLess
    <3>3. page' = Shows(new, "workspace")
      BY <2>3 DEF cleared
    <3> HIDE DEF new
    <3> QED
      BY <1>1, <1>4, <2>0, <3>2, <3>3
  <2> QED
    BY <1>5, <2>1, <2>2, <2>3 DEF LoadingDone
<1>6. ASSUME NEW i \in 1 .. MaxRunning, LoadStep(i)
      PROVE  NeverWaitsForNothing'
  <2>0. UNCHANGED <<probe, chats, exports, mockTimers>>
    BY <1>6 DEF LoadStep, LoadSucceeds, LoadFails
  <2>1. CASE LoadSucceeds(i)
    <3>1. PICK p \in Pids : page' = Loaded(page, Copy(p, Revision(p)))
      BY <2>1 DEF LoadSucceeds
    <3>2. WaitsLess(page', page) /\ OnScreen(page', "workspace")
      BY <1>1, <3>1, CopyType, LoadedFields
    <3> QED
      BY <1>1, <1>3, <2>0, <3>2, OtherScreenFine
  <2>2. CASE LoadFails(i)
    <3>1. /\ \A b \in BOOLEAN : [page EXCEPT !.unavailable = b] \in Pages
                                /\ WaitsLess([page EXCEPT !.unavailable = b], page)
          /\ [page EXCEPT !.notice = TRUE] \in Pages
          /\ WaitsLess([page EXCEPT !.notice = TRUE], page)
      BY <1>1 DEF Pages, WaitsLess
    <3> QED
      BY <1>1, <1>4, <2>0, <2>2, <3>1 DEF LoadFails
  <2> QED
    BY <1>6, <2>1, <2>2 DEF LoadStep
<1> QED
  BY <1>2, <1>5, <1>6

LEMMA SendWaits ==
  ASSUME TypeOK, NeverWaitsForNothing, NEW text, RunAiTurn(text),
         UNCHANGED <<probe, loads, exports>>
  PROVE  NeverWaitsForNothing'
<1>1. page \in Pages /\ mockTimers \in Nat /\ chats \in [Slots -> Chats]
  BY TypeParts
<1>2. CASE UNCHANGED <<page, chats, mockTimers>>
  BY <1>2 DEF NeverWaitsForNothing
<1>3. LET new == MockTurn(page, text) IN
        /\ new.screen = page.screen /\ new.loadingTimer = page.loadingTimer
        /\ new.exportStatus = page.exportStatus
  BY <1>1 DEF Pages, MockTurn
<1>4. LET new == [page EXCEPT !.chatStatus = "processing", !.lastUserMessage = text,
                              !.lastFailedAction = "chat"] IN
        /\ new.screen = page.screen /\ new.loadingTimer = page.loadingTimer
        /\ new.exportStatus = page.exportStatus
  BY <1>1 DEF Pages
<1>5. CASE page' = MockTurn(page, text) /\ mockTimers' = mockTimers + 1
  <2>1. ChatFine
    BY <1>1, <1>5 DEF ChatFine, ReplyComes
  <2> QED
    BY <1>3, <1>5, <2>1, SameScreenFine, WaitsLessFine, FineParts
<1>6. ASSUME NEW s \in Slots, chats' = [chats EXCEPT ![s] = FreshMessage],
             page' = [page EXCEPT !.chatStatus = "processing", !.lastUserMessage = text,
                                  !.lastFailedAction = "chat"]
      PROVE  NeverWaitsForNothing'
  <2>1. FreshMessage.phase = "sent"
    BY DEF FreshMessage, NoChat
  <2>2. chats'[s].phase = "sent"
    BY <1>1, <1>6, <2>1
  <2>3. ChatFine
    BY <2>2 DEF ChatFine, ReplyComes
  <2> QED
    BY <1>4, <1>6, <2>3, SameScreenFine, WaitsLessFine, FineParts
<1> QED
  BY <1>2, <1>5, <1>6 DEF RunAiTurn, RunServerAiTurn, RunMockAiTurn, FreshMessage

LEMMA ExportWaits ==
  ASSUME TypeOK, NeverWaitsForNothing,
         NEW pg \in {page, [page EXCEPT !.uploadConfirmOpen = FALSE]}, Export(pg),
         UNCHANGED <<probe, loads, chats, mockTimers>>
  PROVE  NeverWaitsForNothing'
<1>1. page \in Pages /\ exports.server \in Nat /\ exports.mock \in Nat
      /\ exports \in [server : Nat, mock : Nat, done : Nat]
  BY TypeParts
<1>2. LET new == [pg EXCEPT !.exportStatus = "preparing"] IN
        /\ new.screen = page.screen /\ new.loadingTimer = page.loadingTimer
        /\ new.chatStatus = page.chatStatus
  BY <1>1 DEF Pages
<1>3. /\ page'.screen = page.screen /\ page'.loadingTimer = page.loadingTimer
      /\ page'.chatStatus = page.chatStatus
  BY <1>2 DEF Export
<1>4. exports'.server + exports'.mock > 0
  <2>1. \/ exports' = [exports EXCEPT !.server = exports.server + 1]
        \/ exports' = [exports EXCEPT !.mock = exports.mock + 1]
    BY DEF Export
  <2> QED
    BY <1>1, <2>1
<1>5. ExportFine
  BY <1>4 DEF ExportFine
<1> QED
  BY <1>3, <1>5, SameScreenFine, WaitsLessFine, FineParts

LEMMA ThreadWaits ==
  ASSUME TypeOK, NeverWaitsForNothing,
         \/ ExportStep \/ ClickExport \/ SendMessage \/ RetryLast \/ MockReply \/ Jump
         \/ OtherCommits \/ BackendRestarts \/ \E s \in Slots : ChatStep(s)
  PROVE  NeverWaitsForNothing'
<1>1. /\ page \in Pages /\ mockTimers \in Nat /\ chats \in [Slots -> Chats]
      /\ exports.server \in Nat /\ exports.mock \in Nat
      /\ exports \in [server : Nat, mock : Nat, done : Nat]
  BY TypeParts
<1>2. CASE ClickExport \/ RetryLast \/ SendMessage
  <2>1. ASSUME NEW text, RunAiTurn(text), UNCHANGED <<probe, loads, exports>>
        PROVE  NeverWaitsForNothing'
    BY <2>1, SendWaits
  <2>2. ASSUME NEW pg \in {page, [page EXCEPT !.uploadConfirmOpen = FALSE]}, Export(pg),
               UNCHANGED <<probe, loads, chats, mockTimers>>
        PROVE  NeverWaitsForNothing'
    BY <2>2, ExportWaits
  <2> QED
    BY <1>2, <2>1, <2>2 DEF ClickExport, RetryLast, SendMessage
<1>3. CASE OtherCommits
  BY <1>3 DEF OtherCommits, NeverWaitsForNothing
<1>4. CASE BackendRestarts
  <2>1. UNCHANGED <<probe, page, loads, exports, mockTimers>>
    BY <1>4 DEF BackendRestarts
  <2>2. \A s \in Slots : chats[s].phase \in {"sent", "committed", "answered"} =>
                           chats'[s].phase = "answered"
    BY <1>1, <1>4 DEF BackendRestarts, Chats
  <2> QED
    BY <2>1, <2>2 DEF NeverWaitsForNothing
<1>5. CASE Jump
  <2>1. PICK state \in DevStates, text \in Texts :
          /\ page' = JumpTo(state, text)
          /\ IF state = "aiProcessing" THEN mockTimers' = mockTimers + 1 ELSE UNCHANGED mockTimers
          /\ UNCHANGED <<probe, loads, chats, exports>>
    BY <1>5 DEF Jump
  <2>2. /\ \E screen \in Screens \ {"serverStarting"} : OnScreen(page', screen)
        /\ state = "aiProcessing" \/ page'.chatStatus \in {"idle", page.chatStatus}
        /\ page'.exportStatus \in {"idle", "done", page.exportStatus}
    BY <1>1, <2>1, JumpToFields
  <2>3. ChatFine
    <3>1. CASE state = "aiProcessing"
      BY <1>1, <2>1, <3>1 DEF ChatFine, ReplyComes
    <3>2. CASE state # "aiProcessing"
      BY <2>1, <2>2, <3>2, WaitsLessFine
    <3> QED
      BY <3>1, <3>2
  <2>4. ScreenFine
    BY <2>2, OtherScreenFine
  <2> QED
    BY <2>1, <2>2, <2>3, <2>4, WaitsLessFine, FineParts
<1>6. CASE ExportStep \/ MockReply
  <2>1. /\ \A status \in {"idle", "done"} :
             LET new == [page EXCEPT !.exportStatus = status] IN
               /\ new.screen = page.screen /\ new.loadingTimer = page.loadingTimer
               /\ new.chatStatus = page.chatStatus /\ new.exportStatus \in {"idle", "done"}
        /\ LET new == [page EXCEPT !.exportStatus = "idle", !.lastFailedAction = "export",
                                   !.turns.error = TRUE] IN
               /\ new.screen = page.screen /\ new.loadingTimer = page.loadingTimer
               /\ new.chatStatus = page.chatStatus /\ new.exportStatus = "idle"
    BY <1>1 DEF Pages
  <2>2. /\ LET new == [page EXCEPT !.chatStatus = "idle"] IN
               /\ new.screen = page.screen /\ new.loadingTimer = page.loadingTimer
               /\ new.chatStatus = "idle" /\ new.exportStatus = page.exportStatus
        /\ LET new == [page EXCEPT !.chatStatus = "idle", !.turns.fixture = TRUE] IN
               /\ new.screen = page.screen /\ new.loadingTimer = page.loadingTimer
               /\ new.chatStatus = "idle" /\ new.exportStatus = page.exportStatus
        /\ LET new == [page EXCEPT !.chatStatus = "idle", !.lastFailedAction = "chat",
                                   !.turns.error = TRUE] IN
               /\ new.screen = page.screen /\ new.loadingTimer = page.loadingTimer
               /\ new.chatStatus = "idle" /\ new.exportStatus = page.exportStatus
    BY <1>1 DEF Pages
  <2>3. CASE ExportStep
    <3>1. /\ page'.screen = page.screen /\ page'.loadingTimer = page.loadingTimer
          /\ page'.chatStatus = page.chatStatus /\ page'.exportStatus \in {"idle", "done"}
          /\ UNCHANGED <<probe, loads, chats, mockTimers>>
      BY <2>1, <2>3 DEF ExportStep, ExportArrives, ExportFails, ExportTimer
    <3>2. ExportFine
      BY <3>1 DEF ExportFine
    <3> QED
      BY <3>1, <3>2, SameScreenFine, WaitsLessFine, FineParts
  <2>4. CASE MockReply
    <3>1. /\ page'.screen = page.screen /\ page'.loadingTimer = page.loadingTimer
          /\ page'.chatStatus = "idle" /\ page'.exportStatus = page.exportStatus
          /\ UNCHANGED <<probe, loads, exports>>
      BY <2>2, <2>4 DEF MockReply
    <3>2. ChatFine
      BY <3>1 DEF ChatFine
    <3> QED
      BY <3>1, <3>2, SameScreenFine, WaitsLessFine, FineParts
  <2> QED
    BY <1>6, <2>3, <2>4
<1>7. ASSUME NEW s \in Slots, ChatStep(s)
      PROVE  NeverWaitsForNothing'
  <2>1. UNCHANGED <<probe, loads, exports, mockTimers>>
    BY <1>7 DEF ChatStep, BackendCommits, BackendRefuses, BackendAnswers, GetsReply,
                BackendReads, Refetched
  <2>2. CASE BackendCommits(s) \/ BackendRefuses(s) \/ BackendAnswers(s) \/ BackendReads(s)
    <3>1. UNCHANGED page
      BY <2>2 DEF BackendCommits, BackendRefuses, BackendAnswers, BackendReads
    <3>2. \A r \in Slots : chats[r].phase \in {"sent", "committed", "answered"} =>
                             chats'[r].phase \in {"sent", "committed", "answered"}
      <4>1. chats[s] \in Chats
        BY <1>1
      <4>2. CASE BackendCommits(s)
        <5>1. CASE chats[s].phase = "orphan"
          BY <1>1, <4>2, <5>1 DEF BackendCommits
        <5>2. CASE chats[s].phase # "orphan"
          <6>1. chats' = [chats EXCEPT ![s].phase = "committed"]
            BY <4>2, <5>2 DEF BackendCommits
          <6>2. chats'[s].phase = "committed"
            BY <1>1, <4>1, <6>1 DEF Chats
          <6>3. \A r \in Slots \ {s} : chats'[r] = chats[r]
            BY <1>1, <6>1
          <6> QED
            BY <6>2, <6>3
        <5> QED
          BY <5>1, <5>2
      <4>3. CASE BackendRefuses(s) \/ BackendAnswers(s)
        <5>1. PICK reply : chats' = Replied(s, reply)
          BY <4>3 DEF BackendRefuses, BackendAnswers
        <5>2. CASE chats[s].phase = "orphan"
          BY <1>1, <5>1, <5>2 DEF Replied
        <5>3. CASE chats[s].phase # "orphan"
          <6>1. chats' = [chats EXCEPT ![s].phase = "answered", ![s].reply = reply]
            BY <5>1, <5>3 DEF Replied
          <6>2. chats'[s].phase = "answered"
            BY <1>1, <4>1, <6>1 DEF Chats
          <6>3. \A r \in Slots \ {s} : chats'[r] = chats[r]
            BY <1>1, <6>1
          <6> QED
            BY <6>2, <6>3
        <5> QED
          BY <5>2, <5>3
      <4>4. CASE BackendReads(s)
        BY <1>1, <4>1, <4>4 DEF BackendReads, Chats
      <4> QED
        BY <2>2, <4>2, <4>3, <4>4
    <3> QED
      BY <2>1, <3>1, <3>2 DEF NeverWaitsForNothing
  <2>3. CASE GetsReply(s)
    <3>1. /\ \A reply, late : LET new == Applied(page, reply, late) IN
               /\ new.screen = page.screen /\ new.loadingTimer = page.loadingTimer
               /\ new.chatStatus = "idle" /\ new.exportStatus = page.exportStatus
          /\ LET new == [page EXCEPT !.chatStatus = "idle"] IN
               /\ new.screen = page.screen /\ new.loadingTimer = page.loadingTimer
               /\ new.chatStatus = "idle" /\ new.exportStatus = page.exportStatus
          /\ LET new == [page EXCEPT !.chatStatus = "idle", !.turns.error = TRUE] IN
               /\ new.screen = page.screen /\ new.loadingTimer = page.loadingTimer
               /\ new.chatStatus = "idle" /\ new.exportStatus = page.exportStatus
      BY <1>1 DEF Pages, Applied
    <3>2. /\ page'.screen = page.screen /\ page'.loadingTimer = page.loadingTimer
          /\ page'.chatStatus = "idle" /\ page'.exportStatus = page.exportStatus
      <4>1. \/ page' = Applied(page, chats[s].reply, LeftBehind(s))
            \/ page' = [page EXCEPT !.chatStatus = "idle"]
            \/ page' = [page EXCEPT !.chatStatus = "idle", !.turns.error = TRUE]
        BY <2>3 DEF GetsReply
      <4>2. CASE page' = Applied(page, chats[s].reply, LeftBehind(s))
        BY <3>1, <4>2
      <4> QED
        BY <3>1, <4>1, <4>2
    <3>3. ChatFine
      BY <3>2 DEF ChatFine
    <3> QED
      BY <2>1, <3>2, <3>3, SameScreenFine, WaitsLessFine, FineParts
  <2>4. CASE Refetched(s)
    <3>1. /\ page'.screen = page.screen /\ page'.loadingTimer = page.loadingTimer
          /\ page'.chatStatus = page.chatStatus /\ page'.exportStatus = page.exportStatus
      <4>1. \A copy, late : LET new == [page EXCEPT !.serverProject = copy, !.turns.error = TRUE,
                                                    !.late = @ \/ late] IN
              /\ new.screen = page.screen /\ new.loadingTimer = page.loadingTimer
              /\ SameWaits(new, page)
        BY <1>1 DEF Pages, SameWaits
      <4>2. LET new == [page EXCEPT !.turns.error = TRUE] IN
              /\ new.screen = page.screen /\ new.loadingTimer = page.loadingTimer
              /\ SameWaits(new, page)
        BY <1>1 DEF Pages, SameWaits
      <4>3. \/ page' = [page EXCEPT !.serverProject = chats[s].reply.project,
                                    !.turns.error = TRUE, !.late = @ \/ LeftBehind(s)]
            \/ page' = [page EXCEPT !.turns.error = TRUE]
        BY <2>4 DEF Refetched
      <4>4. CASE page' = [page EXCEPT !.serverProject = chats[s].reply.project,
                                      !.turns.error = TRUE, !.late = @ \/ LeftBehind(s)]
        BY <4>1, <4>4 DEF SameWaits
      <4> QED
        BY <4>2, <4>3, <4>4 DEF SameWaits
    <3>2. \A r \in Slots : chats[r].phase \in {"sent", "committed", "answered"} =>
                             chats'[r].phase \in {"sent", "committed", "answered"}
      BY <1>1, <2>4 DEF Refetched
    <3>3. ChatFine
      BY <2>1, <3>1, <3>2 DEF ChatFine, ReplyComes, NeverWaitsForNothing
    <3> QED
      BY <2>1, <3>1, <3>3, SameScreenFine, WaitsLessFine, FineParts
  <2> QED
    BY <1>7, <2>2, <2>3, <2>4 DEF ChatStep
<1> QED
  BY <1>2, <1>3, <1>4, <1>5, <1>6, <1>7

-----------------------------------------------------------------------------
(* The fixtures: until the state switcher is used the page never comes to them. *)
(* A loading screen has its request, no second one is awaited next to it, and   *)
(* an import that fails has a real file to try again.                         *)

OnlyServer ==
  jumps = MaxJumps =>
    /\ ~page.turns.fixture /\ mockTimers = 0
    /\ page.screen = "workspace" => ServerMode(page)
    /\ page.screen = "importError" /\ ~page.unavailable => page.pendingFile = "raw"
    /\ page.loadingTimer <=> loads.pending # NoLoad
    /\ page.loadingTimer => Len(loads.awaited) = 0
    /\ page.loadingTimer \/ Len(loads.awaited) # 0 => page.screen = "importLoading"
    /\ Len(loads.awaited) <= 1
    /\ loads.pending.kind = "import" => page.pendingFile = "raw"
    /\ \A i \in DOMAIN loads.awaited :
         loads.awaited[i].kind = "import" => page.pendingFile = "raw"

SameStart(new, old) ==
  /\ new.screen = old.screen /\ new.loadingTimer = old.loadingTimer
  /\ new.pendingFile = old.pendingFile /\ new.unavailable = old.unavailable
  /\ new.dataSource = old.dataSource
  /\ new.turns.fixture => old.turns.fixture

LEMMA SameStartKeeps ==
  ASSUME OnlyServer, SameStart(page', page), UNCHANGED <<loads, mockTimers, jumps>>
  PROVE  OnlyServer'
BY DEF OnlyServer, SameStart, ServerMode

(* A step that shows another screen while nothing is loading, or an answer      *)
(* that ends the loading.                                                    *)
LEMMA QuietScreenKeeps ==
  ASSUME OnlyServer, UNCHANGED <<mockTimers, jumps>>,
         ~page'.turns.fixture \/ page'.turns.fixture = page.turns.fixture,
         page'.screen = "workspace" => ServerMode(page'),
         jumps = MaxJumps /\ page'.screen = "importError" /\ ~page'.unavailable =>
           page'.pendingFile = "raw",
         ~page'.loadingTimer, jumps = MaxJumps => loads'.pending = NoLoad,
         jumps = MaxJumps => Len(loads'.awaited) = 0 /\ DOMAIN loads'.awaited = {}
  PROVE  OnlyServer'
BY DEF OnlyServer, NoLoad

LEMMA NextOnlyServer ==
  ASSUME TypeOK, OnlyServer, Next
  PROVE  OnlyServer'
<1>1. /\ page \in Pages /\ jumps \in 0 .. MaxJumps /\ MaxJumps \in Nat
      /\ loads.awaited \in Seq(Loads) /\ Len(loads.awaited) \in Nat
      /\ DOMAIN loads.awaited = 1 .. Len(loads.awaited)
  BY TypeParts, SessionAssumption
<1>2. ASSUME jumps = MaxJumps, page.screen # "importLoading"
      PROVE  /\ ~page.loadingTimer /\ loads.pending = NoLoad
             /\ Len(loads.awaited) = 0 /\ DOMAIN loads.awaited = {}
  BY <1>1, <1>2 DEF OnlyServer
<1>3. CASE ProbeStep \/ OtherCommits \/ BackendRestarts \/ OpenUploadConfirm \/ CancelUpload
  <2>1. UNCHANGED <<loads, mockTimers, jumps>> /\ SameStart(page', page)
    BY <1>1, <1>3
    DEF ProbeStep, OtherCommits, BackendRestarts, OpenUploadConfirm, CancelUpload, SameStart, Pages
  <2> QED
    BY <2>1, SameStartKeeps
<1>4. ASSUME NEW s \in Slots, ChatStep(s)
      PROVE  OnlyServer'
  <2>1. UNCHANGED <<loads, mockTimers, jumps>>
    BY <1>4 DEF ChatStep, BackendCommits, BackendRefuses, BackendAnswers, GetsReply,
                BackendReads, Refetched
  <2>2. /\ \A reply, late : SameStart(Applied(page, reply, late), page)
        /\ SameStart([page EXCEPT !.chatStatus = "idle"], page)
        /\ SameStart([page EXCEPT !.chatStatus = "idle", !.turns.error = TRUE], page)
        /\ \A copy, late : SameStart([page EXCEPT !.serverProject = copy, !.turns.error = TRUE,
                                                  !.late = @ \/ late], page)
        /\ SameStart([page EXCEPT !.turns.error = TRUE], page)
        /\ SameStart(page, page)
    BY <1>1 DEF SameStart, Applied, Pages, Threads
  <2>3. \/ page' = page
        \/ page' = Applied(page, chats[s].reply, LeftBehind(s))
        \/ page' = [page EXCEPT !.chatStatus = "idle"]
        \/ page' = [page EXCEPT !.chatStatus = "idle", !.turns.error = TRUE]
        \/ page' = [page EXCEPT !.serverProject = chats[s].reply.project,
                                !.turns.error = TRUE, !.late = @ \/ LeftBehind(s)]
        \/ page' = [page EXCEPT !.turns.error = TRUE]
    BY <1>4 DEF ChatStep, BackendCommits, BackendRefuses, BackendAnswers, GetsReply,
                BackendReads, Refetched
  <2>4. SameStart(page', page)
    <3>1. CASE page' = page
      BY <2>2, <3>1
    <3>2. CASE page' = Applied(page, chats[s].reply, LeftBehind(s))
      BY <2>2, <3>2
    <3>3. CASE page' = [page EXCEPT !.serverProject = chats[s].reply.project,
                                    !.turns.error = TRUE, !.late = @ \/ LeftBehind(s)]
      BY <2>2, <3>3
    <3>4. CASE \/ page' = [page EXCEPT !.chatStatus = "idle"]
               \/ page' = [page EXCEPT !.chatStatus = "idle", !.turns.error = TRUE]
               \/ page' = [page EXCEPT !.turns.error = TRUE]
      BY <2>2, <3>4
    <3> QED
      BY <2>3, <3>1, <3>2, <3>3, <3>4
  <2> QED
    BY <2>1, <2>4, SameStartKeeps
<1>5. ASSUME NEW pg \in {page, [page EXCEPT !.uploadConfirmOpen = FALSE]}, Export(pg),
             UNCHANGED <<loads, mockTimers, jumps>>
      PROVE  OnlyServer'
  <2>1. SameStart([pg EXCEPT !.exportStatus = "preparing"], page)
    BY <1>1, <1>5 DEF SameStart, Pages
  <2> QED
    BY <1>5, <2>1, SameStartKeeps DEF Export
<1>6. CASE ExportStep
  <2>1. UNCHANGED <<loads, mockTimers, jumps>>
    BY <1>6 DEF ExportStep, ExportArrives, ExportFails, ExportTimer
  <2>2. /\ \A status \in {"idle", "done"} : SameStart([page EXCEPT !.exportStatus = status], page)
        /\ SameStart([page EXCEPT !.exportStatus = "idle", !.lastFailedAction = "export",
                                  !.turns.error = TRUE], page)
    BY <1>1 DEF SameStart, Pages, Threads
  <2>3. SameStart(page', page)
    BY <1>6, <2>2 DEF ExportStep, ExportArrives, ExportFails, ExportTimer
  <2> QED
    BY <2>1, <2>3, SameStartKeeps
<1>7. ASSUME NEW text, RunAiTurn(text), page.screen = "workspace", UNCHANGED <<loads, jumps>>
      PROVE  OnlyServer'
  <2>1. CASE jumps # MaxJumps
    BY <1>7, <2>1 DEF OnlyServer
  <2>2. CASE jumps = MaxJumps
    <3>1. ServerMode(page)
      BY <1>7, <2>2 DEF OnlyServer
    <3>2. RunServerAiTurn(text) /\ UNCHANGED mockTimers
      BY <1>7, <3>1 DEF RunAiTurn
    <3>3. SameStart(page, page)
          /\ SameStart([page EXCEPT !.chatStatus = "processing", !.lastUserMessage = text,
                                    !.lastFailedAction = "chat"], page)
      BY <1>1 DEF SameStart, Pages
    <3>4. SameStart(page', page)
      BY <3>2, <3>3 DEF RunServerAiTurn
    <3> QED
      BY <1>7, <3>2, <3>4, SameStartKeeps
  <2> QED
    BY <2>1, <2>2
<1>8. CASE SendMessage \/ ClickExport \/ RetryLast
  BY <1>5, <1>7, <1>8 DEF SendMessage, ClickExport, RetryLast
<1>9. CASE MockReply
  BY <1>1, <1>9, TypeParts DEF MockReply, OnlyServer
<1>10. CASE Jump
  BY <1>1, <1>10 DEF Jump, OnlyServer
<1>11. CASE BootContinues
  <2>1. CASE page.screen # "serverStarting"
    BY <1>11, <2>1, SameStartKeeps DEF BootContinues, SameStart
  <2>2. CASE page.screen = "serverStarting"
    <3>1. UNCHANGED <<mockTimers, jumps>>
      BY <1>11 DEF BootContinues
    <3>2. CASE page' = Shows([page EXCEPT !.unavailable = TRUE], "importError") /\ UNCHANGED loads
      <4>1. /\ page'.turns.fixture = page.turns.fixture /\ page'.screen = "importError"
            /\ page'.unavailable /\ ~page'.loadingTimer
        BY <1>1, <3>2 DEF Shows, Pages
      <4> QED
        BY <1>2, <2>2, <3>1, <3>2, <4>1, QuietScreenKeeps
    <3>3. CASE page' = Shows(page, "import") /\ UNCHANGED loads
      <4>1. /\ page'.turns.fixture = page.turns.fixture /\ page'.screen = "import"
            /\ ~page'.loadingTimer
        BY <1>1, <3>3 DEF Shows, Pages
      <4> QED
        BY <1>2, <2>2, <3>1, <3>3, <4>1, QuietScreenKeeps
    <3>4. CASE Request([kind |-> "restore", pid |-> saved]) /\ page' = Shows(page, "importLoading")
      <4>1. /\ page'.turns.fixture = page.turns.fixture /\ page'.screen = "importLoading"
            /\ page'.loadingTimer /\ page'.pendingFile = page.pendingFile
        BY <1>1, <3>4 DEF Shows, Pages
      <4>2. /\ loads'.pending = [kind |-> "restore", pid |-> saved]
            /\ loads'.awaited = loads.awaited
        BY <3>4, TypeParts DEF Request
      <4>3. loads'.pending # NoLoad /\ loads'.pending.kind # "import"
        BY <4>2 DEF NoLoad
      <4> QED
        BY <1>2, <2>2, <3>1, <4>1, <4>2, <4>3 DEF OnlyServer
    <3> QED
      BY <1>11, <2>2, <3>2, <3>3, <3>4 DEF BootContinues
  <2> QED
    BY <2>1, <2>2
<1>12. CASE RetryBackendCheck
  <2>1. UNCHANGED <<loads, mockTimers, jumps>> /\ page.screen = "importError"
    BY <1>12 DEF RetryBackendCheck
  <2>2. /\ page'.turns.fixture = page.turns.fixture /\ page'.screen = "serverStarting"
        /\ ~page'.loadingTimer
    BY <1>1, <1>12 DEF RetryBackendCheck, StartBoot, Shows, Pages
  <2> QED
    BY <1>2, <2>1, <2>2, QuietScreenKeeps
<1>13. CASE Reload
  <2>1. UNCHANGED jumps /\ mockTimers' = 0 /\ page' = FreshPage
        /\ loads' = [pending |-> NoLoad, awaited |-> <<>>]
    BY <1>13 DEF Reload
  <2>2. /\ ~page'.turns.fixture /\ page'.screen = "serverStarting" /\ ~page'.loadingTimer
    BY <2>1 DEF FreshPage, NoTurns
  <2> QED
    BY <2>1, <2>2 DEF OnlyServer, NoLoad
<1>14. ASSUME page.screen # "importLoading", page'.screen = "importLoading", page'.loadingTimer,
              page'.pendingFile = "raw", page'.turns.fixture = page.turns.fixture,
              Request([kind |-> "import", pid |-> 0]), UNCHANGED <<mockTimers, jumps>>
       PROVE  OnlyServer'
  <2>1. loads'.pending = [kind |-> "import", pid |-> 0] /\ loads'.awaited = loads.awaited
    BY <1>14, TypeParts DEF Request
  <2>2. loads'.pending # NoLoad
    BY <2>1 DEF NoLoad
  <2> QED
    BY <1>2, <1>14, <2>1, <2>2 DEF OnlyServer
<1>15. CASE BuildPlan
  <2>1. /\ page'.screen = "importLoading" /\ page'.loadingTimer /\ page'.pendingFile = "raw"
        /\ page'.turns.fixture = page.turns.fixture
    BY <1>1, <1>15 DEF BuildPlan, Shows, Pages
  <2> QED
    BY <1>14, <1>15, <2>1 DEF BuildPlan
<1>16. CASE ChooseAnotherFile
  <2>1. UNCHANGED <<loads, mockTimers, jumps>> /\ page.screen = "importError"
    BY <1>16 DEF ChooseAnotherFile
  <2>2. /\ page'.turns.fixture = page.turns.fixture /\ page'.screen = "import"
        /\ ~page'.loadingTimer
    BY <1>1, <1>16 DEF ChooseAnotherFile, Shows, Pages
  <2> QED
    BY <1>2, <2>1, <2>2, QuietScreenKeeps
<1>17. CASE RetryImport
  <2>1. CASE jumps # MaxJumps
    BY <1>17, <2>1 DEF RetryImport, OnlyServer
  <2>2. CASE jumps = MaxJumps
    <3>1. page.pendingFile = "raw"
      BY <1>17, <2>2 DEF RetryImport, OnlyServer
    <3>2. /\ page'.screen = "importLoading" /\ page'.loadingTimer /\ page'.pendingFile = "raw"
          /\ page'.turns.fixture = page.turns.fixture
      BY <1>1, <1>17, <3>1 DEF RetryImport, Shows, Pages
    <3> QED
      BY <1>14, <1>17, <3>1, <3>2 DEF RetryImport
  <2> QED
    BY <2>1, <2>2
<1>18. CASE LoadingDone
  <2>1. CASE jumps # MaxJumps
    BY <1>18, <2>1 DEF LoadingDone, OnlyServer
  <2>2. CASE jumps = MaxJumps
    <3>1. /\ loads.pending # NoLoad /\ Len(loads.awaited) = 0 /\ page.screen = "importLoading"
          /\ loads.pending.kind = "import" => page.pendingFile = "raw"
      BY <1>18, <2>2 DEF LoadingDone, OnlyServer
    <3>2. /\ loads' = [pending |-> NoLoad, awaited |-> Append(loads.awaited, loads.pending)]
          /\ page' = [page EXCEPT !.loadingTimer = FALSE]
          /\ UNCHANGED <<mockTimers, jumps>>
      BY <1>18, <3>1 DEF LoadingDone
    <3>3. /\ page'.screen = page.screen /\ ~page'.loadingTimer
          /\ page'.pendingFile = page.pendingFile /\ page'.turns.fixture = page.turns.fixture
      BY <1>1, <3>2 DEF Pages
    <3>4. /\ loads'.pending = NoLoad /\ Len(loads'.awaited) = 1
          /\ \A i \in DOMAIN loads'.awaited : loads'.awaited[i] = loads.pending
      BY <1>1, <3>1, <3>2, TypeParts
    <3> QED
      BY <2>2, <3>1, <3>2, <3>3, <3>4 DEF OnlyServer, NoLoad
  <2> QED
    BY <2>1, <2>2
<1>19. ASSUME NEW i \in 1 .. MaxRunning, LoadStep(i)
       PROVE  OnlyServer'
  <2>1. /\ i \in DOMAIN loads.awaited /\ Answered(i) /\ UNCHANGED <<mockTimers, jumps>>
    BY <1>19 DEF LoadStep, LoadSucceeds, LoadFails
  <2>2. /\ loads' \in [pending : Loads, awaited : Seq(Loads)]
        /\ Len(loads'.awaited) = Len(loads.awaited) - 1
    BY <2>1, TypeParts, AnsweredType
  <2>3. loads'.pending = loads.pending
    BY <2>1, TypeParts DEF Answered
  <2>4. ASSUME jumps = MaxJumps
        PROVE  /\ loads'.pending = NoLoad /\ Len(loads'.awaited) = 0 /\ DOMAIN loads'.awaited = {}
               /\ loads.awaited[i].kind = "import" => page.pendingFile = "raw"
    <3>1. Len(loads.awaited) = 1
      <4>1. Len(loads.awaited) >= 1
        BY <1>1, <2>1
      <4>2. Len(loads.awaited) <= 1
        BY <2>4 DEF OnlyServer
      <4>3. Len(loads.awaited) \in Nat
        BY <1>1
      <4>4. \A n \in Nat : n >= 1 /\ n <= 1 => n = 1
        OBVIOUS
      <4> QED
        BY <4>1, <4>2, <4>3, <4>4
    <3>2. ~page.loadingTimer /\ loads.pending = NoLoad
      BY <2>4, <3>1 DEF OnlyServer
    <3> QED
      BY <2>1, <2>2, <2>3, <2>4, <3>1, <3>2 DEF OnlyServer
  <2>5. CASE LoadSucceeds(i)
    <3>1. PICK p \in Pids : page' = Loaded(page, Copy(p, Revision(p)))
      BY <2>5 DEF LoadSucceeds
    <3>2. \A project : /\ Loaded(page, project).dataSource = "server"
                       /\ Loaded(page, project).screen = "workspace"
                       /\ ~Loaded(page, project).loadingTimer
                       /\ ~Loaded(page, project).turns.fixture
      BY <1>1 DEF Loaded, Shows, ClearThread, NoTurns, Pages
    <3> QED
      BY <2>1, <2>4, <3>1, <3>2, QuietScreenKeeps DEF ServerMode
  <2>6. CASE LoadFails(i)
    <3>1. CASE /\ loads.awaited[i].kind = "import"
               /\ page' = Shows([page EXCEPT !.unavailable = FALSE], "importError")
      <4>1. /\ page'.turns.fixture = page.turns.fixture /\ page'.screen = "importError"
            /\ ~page'.loadingTimer /\ page'.pendingFile = page.pendingFile
        BY <1>1, <3>1 DEF Shows, Pages
      <4> QED
        BY <2>1, <2>4, <3>1, <4>1, QuietScreenKeeps
    <3>2. CASE page' = Shows([page EXCEPT !.notice = TRUE], "import")
      <4>1. /\ page'.turns.fixture = page.turns.fixture /\ page'.screen = "import"
            /\ ~page'.loadingTimer
        BY <1>1, <3>2 DEF Shows, Pages
      <4> QED
        BY <2>1, <2>4, <4>1, QuietScreenKeeps
    <3>3. CASE page' = Shows([page EXCEPT !.unavailable = TRUE], "importError")
      <4>1. /\ page'.turns.fixture = page.turns.fixture /\ page'.screen = "importError"
            /\ page'.unavailable /\ ~page'.loadingTimer
        BY <1>1, <3>3 DEF Shows, Pages
      <4> QED
        BY <2>1, <2>4, <4>1, QuietScreenKeeps
    <3> QED
      BY <2>6, <3>1, <3>2, <3>3 DEF LoadFails
  <2> QED
    BY <1>19, <2>5, <2>6 DEF LoadStep
<1>20. CASE ConfirmUpload
  <2>1. UNCHANGED <<loads, mockTimers, jumps>> /\ page.screen = "workspace"
        /\ page' = ResetToImport(page)
    BY <1>20 DEF ConfirmUpload
  <2>2. /\ ~page'.turns.fixture /\ page'.screen = "import" /\ ~page'.loadingTimer
    BY <1>1, <2>1 DEF ResetToImport, Shows, ClearThread, LeavesServer, NoTurns, Pages
  <2> QED
    BY <1>2, <2>1, <2>2, QuietScreenKeeps
<1> QED
  BY <1>3, <1>4, <1>6, <1>8, <1>9, <1>10, <1>11, <1>12, <1>13, <1>15, <1>16, <1>17, <1>18,
     <1>19, <1>20
  DEF Next, UserStep

-----------------------------------------------------------------------------
(* The theorems.                                                             *)

SessionInv == TypeOK /\ ProbeInv /\ RepliesFit

LEMMA SessionInvHolds == Spec => []SessionInv
<1>1. Init => SessionInv
  BY InitTyped DEF SessionInv
<1>2. SessionInv /\ [Next]_vars => SessionInv'
  BY NextTyped, NextKeepsProbe, NextMovesChats, MovesFit DEF SessionInv
<1> QED
  BY <1>1, <1>2, PTL DEF Spec

(* The page, the requests, the timers and what the backend holds keep their     *)
(* shape, and no more is under way than there is room for.                     *)
THEOREM SessionTyped == Spec => []TypeOK
<1>1. SessionInv => TypeOK
  BY DEF SessionInv
<1> QED
  BY <1>1, SessionInvHolds, PTL

(* Within the page the probe keeps to its budget too, though the page may       *)
(* forget it, start it again or be reloaded at any time.                      *)
THEOREM ProbeBoundedInPage == Spec => []ProbeBounded
<1>1. SessionInv => ProbeBounded
  BY DEF SessionInv, ProbeInv
<1> QED
  BY <1>1, SessionInvHolds, PTL

(* A reload brings back the project on screen. *)
THEOREM ReloadBringsBack == Spec => []ReloadReturns
<1>1. Init => ReloadReturns
  BY DEF Init, FreshPage, ReloadReturns, ServerMode
<1>2. SessionInv /\ ReloadReturns /\ [Next]_vars => ReloadReturns'
  BY NextMovesPlan, MovesKeepReturns DEF SessionInv
<1> QED
  BY <1>1, <1>2, SessionInvHolds, PTL DEF Spec

(* In server mode the highlight of the chart is the change set of the last     *)
(* bubble the backend's answers made, whatever replies of the fixtures, late    *)
(* answers, resets and jumps came between; and a bubble of the fixtures can     *)
(* stand below it only once the state switcher was used.                       *)
THEOREM HighlightMatchesThread == Spec => []HighlightIsInThread
<1>1. Init => HighlightIsLastDiff /\ OnlyServer
  BY DEF Init, FreshPage, HighlightIsLastDiff, OnlyServer, ServerMode, NoTurns, NoLoad
<1>2. SessionInv /\ HighlightIsLastDiff /\ [Next]_vars => HighlightIsLastDiff'
  BY NextMovesPlan, MovesKeepHighlight DEF SessionInv
<1>3. SessionInv /\ OnlyServer /\ [Next]_vars => OnlyServer'
  <2>1. ASSUME OnlyServer, UNCHANGED vars
        PROVE  OnlyServer'
    BY <2>1 DEF vars, OnlyServer, ServerMode
  <2> QED
    BY <2>1, NextOnlyServer DEF SessionInv
<1>4. SessionInv /\ HighlightIsLastDiff /\ OnlyServer => HighlightIsInThread
  <2> SUFFICES ASSUME SessionInv, HighlightIsLastDiff, OnlyServer, page.turns.fixture
               PROVE  jumps < MaxJumps
    BY DEF HighlightIsLastDiff, HighlightIsInThread
  <2>1. jumps \in 0 .. MaxJumps /\ MaxJumps \in Nat /\ jumps # MaxJumps
    BY TypeParts, SessionAssumption DEF SessionInv, OnlyServer
  <2> QED
    BY <2>1
<1> QED
  BY <1>1, <1>2, <1>3, <1>4, SessionInvHolds, PTL DEF Spec

(* The page shows the project it addresses, unless an answer came for a project  *)
(* left behind.                                                             *)
THEOREM PlanAgreesAlways == Spec => []PlanAgrees
<1>1. Init => PlanAgrees
  BY DEF Init, FreshPage, PlanAgrees, ServerMode, InFlight, NoChat
<1>2. SessionInv /\ PlanAgrees /\ [Next]_vars => PlanAgrees'
  BY NextMovesPlan, NextMovesChats, MovesAgree DEF SessionInv
<1> QED
  BY <1>1, <1>2, SessionInvHolds, PTL DEF Spec

(* Whatever the page waits for, something under way will end the wait. *)
THEOREM PageNeverStuck == Spec => []NeverWaitsForNothing
<1>1. Init => NeverWaitsForNothing
  BY DEF Init, FreshPage, FirstCheck, NeverWaitsForNothing
<1>2. SessionInv /\ NeverWaitsForNothing /\ [Next]_vars => NeverWaitsForNothing'
  <2> SUFFICES ASSUME SessionInv, NeverWaitsForNothing, [Next]_vars
               PROVE  NeverWaitsForNothing'
    OBVIOUS
  <2>1. CASE UNCHANGED vars
    BY <2>1 DEF vars, NeverWaitsForNothing
  <2> QED
    BY <2>1, QuietWaits, LoadWaits, ThreadWaits DEF SessionInv, Next, UserStep, QuietStep
<1> QED
  BY <1>1, <1>2, SessionInvHolds, PTL DEF Spec

=============================================================================
