------------------------------ MODULE AgentTurn ------------------------------
(***************************************************************************)
(* agent/service.py, agent/gateway.py and api/routers/chat.py: chat requests *)
(* that run concurrently on one project, each a loop of model completions    *)
(* and MCP tool calls that may commit a change set, while other clients       *)
(* commit theirs.  A step is the code between two awaits.  A call of the      *)
(* project store is one step, which is what RevisionedStore promises of it.   *)
(* The model may say anything, the provider may fail, and the MCP session     *)
(* may fail to open, to carry a request, to carry its answer or to close.     *)
(*                                                                          *)
(* Left out: what is said.  The branches of _run_loop for mutated = TRUE are  *)
(* dead code: the loop returns as soon as mutated is set.                    *)
(***************************************************************************)
EXTENDS Integers, Sequences

CONSTANTS
  Turns,        \* chat requests
  Other,        \* whoever else changes the project
  MaxRevision,  \* bound: the project is not changed past this revision
  MaxSteps,     \* agent_max_steps
  MaxReads      \* agent_max_read_tool_calls

ASSUME AgentAssumption ==
  /\ Other \notin Turns
  /\ MaxRevision \in Nat \ {0} /\ MaxSteps \in Nat \ {0} /\ MaxReads \in Nat

VARIABLES
  project,  \* the stored project: its revision and who made each change
  turn      \* of each chat request, its local state

vars == <<project, turn>>

(* get_project_outline is to the loop what get_task_details is. *)
ReadTools == {"search_tasks", "get_task_details"}

(* A tool call: whether the gateway accepts it, whether its arguments refer   *)
(* to tasks that the last search found, and whether the user's message names  *)
(* those tasks (evaluate_ambiguity compares words, or finds that the message  *)
(* asks for several tasks at once).                                          *)
ToolCalls ==
       [name : ReadTools, valid : BOOLEAN, touches : {FALSE}, named : {FALSE}]
  \cup [name : {"apply_change_set"}, valid : BOOLEAN, touches : BOOLEAN, named : BOOLEAN]
  \cup [name : {"unknown"}, valid : {FALSE}, touches : {FALSE}, named : {FALSE}]

NoCall == [name |-> "none", valid |-> FALSE, touches |-> FALSE, named |-> FALSE]

IdleTurn ==
  [pc |-> "idle", expected |-> 0,
   step |-> 0, reads |-> 0, correctionUsed |-> FALSE,
   candidates |-> FALSE,   \* last_search_candidates: the last search found several
   rejection |-> FALSE,    \* last_rejection is set
   call |-> NoCall, answer |-> "none",
   lost |-> FALSE,         \* an answer, or the end of the session, was lost
   result |-> "none",      \* the status returned or the error raised
   shown |-> 0]            \* revision of the project in the HTTP response

Init ==
  /\ project = [revision |-> 1, log |-> <<>>]
  /\ turn = [t \in Turns |-> IdleTurn]

Commit(by) ==
  project' = [revision |-> project.revision + 1, log |-> Append(project.log, by)]

Becomes(t, s) == turn' = [turn EXCEPT ![t] = s]

(* The turn is over but for pc: the local variables of its loop are gone.     *)
Over(t, pc, result) ==
  Becomes(t, [IdleTurn EXCEPT !.pc = pc, !.result = result,
                              !.expected = turn[t].expected, !.lost = turn[t].lost])

(* The turn leaves its loop, by return or by raise, and closes its session.   *)
Leaves(t, result) == Over(t, "closing", result)

-----------------------------------------------------------------------------
(* run_turn: a request drawn up on an older revision is refused before any    *)
(* completion is paid for; then the MCP session is opened.                   *)
StartTurn(t) ==
  /\ turn[t].pc = "idle"
  /\ \E e \in 1 .. project.revision :
       \/ e # project.revision /\ Over(t, "done", "revision_conflict")
       \/ e = project.revision /\ Over(t, "done", "mcp_unavailable")
       \/ /\ e = project.revision
          /\ Becomes(t, [turn[t] EXCEPT !.pc = "model", !.expected = e])
  /\ UNCHANGED project

AtModel(t) == turn[t].pc = "model" /\ turn[t].step < MaxSteps

ProviderFails(t) == AtModel(t) /\ Leaves(t, "provider_error") /\ UNCHANGED project

(* No tool call: the text ends the turn. *)
SaysText(t) ==
  /\ AtModel(t)
  /\ Leaves(t, IF turn[t].rejection THEN "rejected" ELSE "clarification_required")
  /\ UNCHANGED project

(* More than one tool call: corrected once, then an error. *)
CallsSeveral(t) ==
  /\ AtModel(t)
  /\ IF turn[t].correctionUsed
       THEN Leaves(t, "invalid_tool_call")
       ELSE Becomes(t, [turn[t] EXCEPT !.correctionUsed = TRUE, !.step = @ + 1])
  /\ UNCHANGED project

NeverBlocked(t, call) == FALSE                            \* a bug: no guard

(* evaluate_ambiguity blocks a change to one of several tasks found, unless   *)
(* the message names it.                                                     *)
Blocked(t, call) ==
  call.name = "apply_change_set" /\ turn[t].candidates /\ call.touches /\ ~call.named

OverSpent(t, call) ==                                     \* a bug: one read too many
  call.name \in ReadTools /\ turn[t].reads > MaxReads
Spent(t, call) == call.name \in ReadTools /\ turn[t].reads >= MaxReads

Counted(s, call) == [s EXCEPT !.reads = IF call.name \in ReadTools THEN @ + 1 ELSE @]

NotCounted(s, call, several) ==                           \* a bug: a turn that is free
  [s EXCEPT !.pc = "model", !.call = NoCall, !.answer = "none", !.candidates = several]

(* The end of a loop iteration whose tool call changed nothing, as far as the *)
(* turn knows: a failed search finds no candidates.                          *)
Continued(s, call, several) ==
  [s EXCEPT !.pc = "model", !.step = @ + 1, !.call = NoCall, !.answer = "none",
            !.candidates = IF call.name = "search_tasks" THEN several ELSE @,
            !.rejection = @ \/ call.name = "apply_change_set"]

CallsOne(t) ==
  /\ AtModel(t)
  /\ \E call \in ToolCalls :
       \/ Spent(t, call) /\ Leaves(t, "step_limit")
       \/ Blocked(t, call) /\ Leaves(t, "clarification_required")
       \/ /\ ~Spent(t, call) /\ ~Blocked(t, call) /\ ~call.valid
          /\ Becomes(t, Continued(Counted(turn[t], call), call, FALSE))
       \/ /\ ~Spent(t, call) /\ ~Blocked(t, call) /\ call.valid
          /\ Becomes(t, [Counted(turn[t], call) EXCEPT !.pc = "calling", !.call = call])
  /\ UNCHANGED project

(* The for loop runs out. *)
OutOfSteps(t) ==
  /\ turn[t].pc = "model" /\ turn[t].step = MaxSteps
  /\ Leaves(t, "step_limit") /\ UNCHANGED project

(* The server runs a read tool: a search finds several tasks or not.          *)
RunsRead(t) ==
  /\ turn[t].pc = "calling" /\ turn[t].call.name \in ReadTools
  /\ \E answer \in {"several", "other"} :
       Becomes(t, [turn[t] EXCEPT !.pc = "answering", !.answer = answer])
  /\ UNCHANGED project

(* expected_revision on the wire: bound to the turn, never the model's; a bug: *)
(* the latest one.                                                           *)
LatestRevision(t) == project.revision
BoundRevision(t)  == turn[t].expected

(* The server runs apply_change_set; the change set may be refused on the      *)
(* revision it names too.                                                    *)
RunsApply(t) ==
  /\ turn[t].pc = "calling" /\ turn[t].call.name = "apply_change_set"
  /\ \/ /\ BoundRevision(t) = project.revision /\ project.revision < MaxRevision
        /\ Commit(t)
        /\ Becomes(t, [turn[t] EXCEPT !.pc = "answering", !.answer = "applied"])
     \/ /\ Becomes(t, [turn[t] EXCEPT !.pc = "answering", !.answer = "other"])
        /\ UNCHANGED project

(* session.call_tool raises: before the server ran the tool, or after.        *)
TransportFails(t) ==
  /\ turn[t].pc \in {"calling", "answering"}
  /\ Becomes(t, [Continued(turn[t], turn[t].call, FALSE)
                   EXCEPT !.lost = @ \/ turn[t].answer = "applied"])
  /\ UNCHANGED project

Answered(t)  == turn[t].call.name = "apply_change_set"   \* a bug: ok not looked at
Committed(t) == turn[t].answer = "applied"

(* The answer arrives; a committed change set ends the loop. *)
GetsAnswer(t) ==
  /\ turn[t].pc = "answering"
  /\ IF Committed(t)
       THEN Becomes(t, [turn[t] EXCEPT !.pc = "wrapup"])
       ELSE Becomes(t, Continued(turn[t], turn[t].call, turn[t].answer = "several"))
  /\ UNCHANGED project

(* A bug WrapsUp must not have: the error of the last completion escapes.      *)
WrapUpRaises(t) ==
  /\ turn[t].pc = "wrapup" /\ UNCHANGED project
  /\ \E result \in {"applied", "provider_error"} : Leaves(t, result)

(* _finish_after_mutation: the turn is applied whether or not the last        *)
(* completion succeeds.                                                      *)
WrapsUp(t) ==
  turn[t].pc = "wrapup" /\ Leaves(t, "applied") /\ UNCHANGED project

(* The session closes, or fails to: what escapes the session, together with   *)
(* an error of the loop or alone, is reported as mcp_unavailable.             *)
Closes(t) ==
  /\ turn[t].pc = "closing"
  /\ \/ Becomes(t, [turn[t] EXCEPT !.pc = IF turn[t].result = "applied" THEN "refetch" ELSE "done"])
     \/ Becomes(t, [turn[t] EXCEPT !.pc = "done", !.result = "mcp_unavailable", !.lost = TRUE])
  /\ UNCHANGED project

(* chat: the project of the response is read again. *)
Refetches(t) ==
  /\ turn[t].pc = "refetch"
  /\ Becomes(t, [turn[t] EXCEPT !.pc = "done", !.shown = project.revision])
  /\ UNCHANGED project

(* A change set of another client. *)
OtherCommits ==
  project.revision < MaxRevision /\ Commit(Other) /\ UNCHANGED turn

Step(t) ==
  \/ ProviderFails(t) \/ SaysText(t) \/ CallsSeveral(t) \/ CallsOne(t) \/ OutOfSteps(t)
  \/ RunsRead(t) \/ RunsApply(t) \/ TransportFails(t) \/ GetsAnswer(t)
  \/ WrapsUp(t) \/ Closes(t) \/ Refetches(t)

Next == OtherCommits \/ \E t \in Turns : StartTurn(t) \/ Step(t)

Spec     == Init /\ [][Next]_vars
FairSpec == Spec /\ \A t \in Turns : WF_vars(Step(t))

-----------------------------------------------------------------------------
TurnStates ==
  [pc : {"idle", "model", "calling", "answering", "wrapup", "closing", "refetch", "done"},
   expected : 0 .. MaxRevision,
   step : 0 .. MaxSteps, reads : 0 .. MaxReads, correctionUsed : BOOLEAN,
   candidates : BOOLEAN, rejection : BOOLEAN,
   call : ToolCalls \cup {NoCall}, answer : {"none", "several", "other", "applied"},
   lost : BOOLEAN,
   result : {"none", "applied", "rejected", "clarification_required", "revision_conflict",
             "step_limit", "invalid_tool_call", "provider_error", "mcp_unavailable"},
   shown : 0 .. MaxRevision]

(* The types, and with them the budgets of steps and of read calls. *)
TypeOK ==
  /\ project \in [revision : 1 .. MaxRevision, log : Seq(Turns \cup {Other})]
  /\ turn \in [Turns -> TurnStates]

(* The changes of a turn: change i made revision i + 1 of the project.        *)
ChangesOf(t) == {i \in DOMAIN project.log : project.log[i] = t}

(* A chat request changes the project at most once, and only on the revision  *)
(* its user was looking at: also when the answer to its change set is lost    *)
(* and the model, told that the tool failed, sends it again.                  *)
OneCommitPerTurn == \A t \in Turns : ChangesOf(t) \subseteq {turn[t].expected}

(* A response that says "applied" is true, and carries a project that has the *)
(* change in it, although the project is read again after the turn.           *)
RepliesTruthful ==
  \A t \in Turns :
    turn[t].pc = "done" /\ turn[t].result = "applied" =>
      /\ turn[t].expected \in ChangesOf(t)
      /\ turn[t].shown \in turn[t].expected + 1 .. project.revision

(* A turn that changed the project and does not say so is one whose answer    *)
(* from the tool, or whose session, was lost: no failure of the model, of the *)
(* provider or of the budgets hides a change.                                *)
HiddenOnlyByTransport ==
  \A t \in Turns :
    turn[t].pc = "done" /\ turn[t].result # "applied" /\ ChangesOf(t) # {} => turn[t].lost

(* schemas/chat.py: the statuses other than applied leave the project         *)
(* untouched; errors.py: at the step limit no mutation happened.              *)
NoMutationUnlessApplied ==
  \A t \in Turns :
    turn[t].pc = "done" /\ turn[t].result \in {"rejected", "clarification_required", "step_limit"}
      => ChangesOf(t) = {}

(* No change is committed to a task that the turn's last search found among   *)
(* several, unless the user's message names it.                              *)
AskedWhenAmbiguous ==
  [][\A t \in Turns :
       ChangesOf(t)' # ChangesOf(t) /\ turn[t].candidates /\ turn[t].call.touches
         => turn[t].call.named]_vars

(* Every request is answered, however long the model goes on calling tools.   *)
EveryTurnEnds == \A t \in Turns : turn[t].pc = "model" ~> turn[t].pc = "done"

=============================================================================
