--------------------------- MODULE AgentTurnProofs ---------------------------
(***************************************************************************)
(* Proofs about AgentTurn, for any number of concurrent chat requests, any    *)
(* budgets and any number of changes.                                        *)
(***************************************************************************)
EXTENDS AgentTurn, TLAPS

(* The turn knows that it has changed the project, or is about to be told. *)
Announced(t) ==
  \/ turn[t].answer = "applied" \/ turn[t].pc = "wrapup" \/ turn[t].result = "applied"

(* One turn and the project: where its change is, and that it is announced or *)
(* was lost on the way; and that a call on its way has passed the guard.      *)
TurnInv(t) ==
  /\ turn[t].pc = "idle" => turn[t].expected = 0
  /\ turn[t].pc \in {"calling", "answering"} => turn[t].step < MaxSteps
  /\ turn[t].answer = "applied" => turn[t].pc \in {"answering", "wrapup"}
  /\ turn[t].result = "applied" => turn[t].pc \in {"closing", "refetch", "done"}
  /\ turn[t].pc = "refetch" => turn[t].result = "applied"
  /\ turn[t].pc = "calling" /\ turn[t].candidates /\ turn[t].call.touches => turn[t].call.named
  /\ ChangesOf(t) \subseteq {turn[t].expected}
  /\ Announced(t) => turn[t].expected \in ChangesOf(t)
  /\ ChangesOf(t) # {} => Announced(t) \/ turn[t].lost
  /\ turn[t].pc = "done" /\ turn[t].result = "applied" =>
       turn[t].shown \in turn[t].expected + 1 .. project.revision

Inv ==
  /\ TypeOK
  /\ project.revision = Len(project.log) + 1
  /\ \A t \in Turns : TurnInv(t)

(* A commit adds one change, and it is the committer's. *)
LEMMA CommitChanges ==
  ASSUME TypeOK, project.revision = Len(project.log) + 1, project.revision < MaxRevision,
         NEW by \in Turns \cup {Other}, Commit(by)
  PROVE  /\ project' \in [revision : 1 .. MaxRevision, log : Seq(Turns \cup {Other})]
         /\ project'.revision = project.revision + 1
         /\ project'.revision = Len(project'.log) + 1
         /\ \A t : t # by => ChangesOf(t)' = ChangesOf(t)
         /\ ChangesOf(by)' = ChangesOf(by) \cup {project.revision}
<1> DEFINE log == project.log
<1>1. log \in Seq(Turns \cup {Other}) /\ project.revision \in 1 .. MaxRevision
  BY DEF TypeOK
<1>2. project'.log = Append(log, by) /\ project'.revision = project.revision + 1
  BY DEF Commit
<1>3. /\ Append(log, by) \in Seq(Turns \cup {Other}) /\ Len(Append(log, by)) = Len(log) + 1
      /\ DOMAIN log = 1 .. Len(log) /\ DOMAIN Append(log, by) = 1 .. Len(log) + 1
      /\ \A i \in 1 .. Len(log) : Append(log, by)[i] = log[i]
      /\ Append(log, by)[Len(log) + 1] = by /\ Len(log) \in Nat
  BY <1>1
<1>4. project' \in [revision : 1 .. MaxRevision, log : Seq(Turns \cup {Other})]
  BY <1>1, <1>3, AgentAssumption DEF Commit
<1>5. \A t : ChangesOf(t)' = {i \in 1 .. Len(log) + 1 : Append(log, by)[i] = t}
  BY <1>2, <1>3 DEF ChangesOf
<1>6. \A t : ChangesOf(t) = {i \in 1 .. Len(log) : log[i] = t}
  BY <1>3 DEF ChangesOf
<1> HIDE DEF log
<1>7. 1 .. Len(log) + 1 = 1 .. Len(log) \cup {Len(log) + 1}
  BY <1>3
<1>8. \A t : t # by => ChangesOf(t)' = ChangesOf(t)
  BY <1>3, <1>5, <1>6, <1>7
<1>9. ChangesOf(by)' = ChangesOf(by) \cup {Len(log) + 1}
  BY <1>3, <1>5, <1>6, <1>7
<1> QED
  BY <1>2, <1>3, <1>4, <1>8, <1>9 DEF log

(* No change is number 0. *)
LEMMA ChangesArePositive ==
  ASSUME TypeOK, NEW t PROVE 0 \notin ChangesOf(t)
<1>1. project.log \in Seq(Turns \cup {Other})
  BY DEF TypeOK
<1> QED
  BY <1>1 DEF ChangesOf

(* What the others do to the project leaves the promises to a turn intact. *)
LEMMA OthersKeepInv ==
  ASSUME Inv, NEW u \in Turns, turn'[u] = turn[u], ChangesOf(u)' = ChangesOf(u),
         project.revision \in Nat, project'.revision \in Nat,
         project'.revision >= project.revision
  PROVE  TurnInv(u)'
<1>1. TurnInv(u)
  BY DEF Inv
<1>2. Announced(u)' <=> Announced(u)
  BY DEF Announced
<1>3. turn[u] \in TurnStates
  BY DEF Inv, TypeOK
<1>4. turn[u].expected \in Nat /\ turn[u].shown \in Nat
  BY <1>3, AgentAssumption DEF TurnStates
<1> QED
  BY <1>1, <1>2, <1>4 DEF TurnInv

-----------------------------------------------------------------------------
(* Leaving the loop, or being refused at once, keeps what a turn is promised  *)
(* when the reported result says whether its change is there.                *)
LEMMA OverKeepsInv ==
  ASSUME Inv, NEW t \in Turns, UNCHANGED project,
         NEW pc \in {"closing", "done"},
         NEW result \in {"applied", "rejected", "clarification_required", "revision_conflict",
                        "step_limit", "invalid_tool_call", "provider_error", "mcp_unavailable"},
         Over(t, pc, result),
         result = "applied" <=> Announced(t), pc = "done" => result # "applied"
  PROVE  TypeOK' /\ TurnInv(t)'
<1>1. turn[t] \in TurnStates /\ TurnInv(t)
  BY DEF Inv, TypeOK
<1>2. turn' = [turn EXCEPT ![t] = [IdleTurn EXCEPT !.pc = pc, !.result = result,
                              !.expected = turn[t].expected, !.lost = turn[t].lost]]
  BY DEF Over, Becomes
<1>3. /\ turn'[t].pc = pc /\ turn'[t].result = result /\ turn'[t].answer = "none"
      /\ turn'[t].expected = turn[t].expected /\ turn'[t].lost = turn[t].lost
  BY <1>2 DEF Inv, TypeOK, IdleTurn
<1>4. turn'[t] \in TurnStates
  <2>1. turn'[t] = [pc |-> pc, expected |-> turn[t].expected,
                    step |-> 0, reads |-> 0, correctionUsed |-> FALSE, candidates |-> FALSE,
                    rejection |-> FALSE, call |-> NoCall, answer |-> "none",
                    lost |-> turn[t].lost, result |-> result, shown |-> 0]
    BY <1>2 DEF Inv, TypeOK, IdleTurn
  <2>2. /\ turn[t].expected \in 0 .. MaxRevision /\ turn[t].lost \in BOOLEAN
        /\ 0 \in 0 .. MaxSteps /\ 0 \in 0 .. MaxReads /\ 0 \in 0 .. MaxRevision
    BY <1>1, AgentAssumption DEF TurnStates
  <2> QED
    BY <2>1, <2>2 DEF TurnStates
<1>5. TypeOK'
  BY <1>2, <1>4 DEF Inv, TypeOK
<1>6. ChangesOf(t)' = ChangesOf(t)
  BY DEF ChangesOf
<1>7. Announced(t)' <=> Announced(t)
  BY <1>3 DEF Announced
<1> QED
  BY <1>1, <1>3, <1>5, <1>6, <1>7 DEF TurnInv

(* A step inside the loop that neither commits nor learns of a commit. *)
LEMMA LoopKeepsInv ==
  ASSUME Inv, NEW t \in Turns, UNCHANGED project,
         NEW s \in TurnStates, Becomes(t, s),
         s.pc \notin {"idle", "done", "refetch"}, s.expected = turn[t].expected,
         turn[t].lost => s.lost,
         s.pc = "calling" /\ s.candidates /\ s.call.touches => s.call.named,
         s.pc \in {"calling", "answering"} => s.step < MaxSteps,
         s.answer = "applied" => s.pc \in {"answering", "wrapup"},
         s.result # "applied",
         s.answer = "applied" \/ s.pc = "wrapup" => Announced(t),
         Announced(t) => s.answer = "applied" \/ s.pc = "wrapup" \/ s.lost
  PROVE  TypeOK' /\ TurnInv(t)'
<1>1. turn[t] \in TurnStates /\ TurnInv(t)
  BY DEF Inv, TypeOK
<1>2. turn'[t] = s /\ turn' \in [Turns -> TurnStates]
  BY DEF Becomes, Inv, TypeOK
<1>3. TypeOK'
  BY <1>2 DEF Inv, TypeOK
<1>4. ChangesOf(t)' = ChangesOf(t)
  BY DEF ChangesOf
<1>5. Announced(t)' <=> s.answer = "applied" \/ s.pc = "wrapup"
  BY <1>2 DEF Announced
<1> QED
  BY <1>1, <1>2, <1>3, <1>4, <1>5 DEF TurnInv

-----------------------------------------------------------------------------
(* Each step of a turn keeps the invariant of that turn. *)
LEMMA StartKeepsInv ==
  ASSUME Inv, NEW t \in Turns, StartTurn(t)
  PROVE  TypeOK' /\ TurnInv(t)'
<1>1. PICK e \in 1 .. project.revision :
        \/ Over(t, "done", "revision_conflict")
        \/ Over(t, "done", "mcp_unavailable")
        \/ Becomes(t, [turn[t] EXCEPT !.pc = "model", !.expected = e])
  BY DEF StartTurn
<1>2. turn[t].pc = "idle" /\ UNCHANGED project
  BY DEF StartTurn
<1>3. /\ turn[t] \in TurnStates /\ TurnInv(t)
      /\ project.revision \in 1 .. MaxRevision /\ MaxRevision \in Nat
  BY AgentAssumption DEF Inv, TypeOK
<1>4. ChangesOf(t) = {} /\ ~Announced(t)
  BY <1>2, <1>3, ChangesArePositive DEF TurnInv, Inv, Announced
<1>5. CASE Over(t, "done", "revision_conflict") \/ Over(t, "done", "mcp_unavailable")
  BY <1>2, <1>4, <1>5, OverKeepsInv
<1>6. CASE Becomes(t, [turn[t] EXCEPT !.pc = "model", !.expected = e])
  <2> DEFINE s == [turn[t] EXCEPT !.pc = "model", !.expected = e]
  <2>1. /\ s \in TurnStates /\ s.pc = "model" /\ s.answer = turn[t].answer
        /\ s.result = turn[t].result
    <3>1. e \in 0 .. MaxRevision
      BY <1>1, <1>3
    <3> QED
      BY <1>3, <3>1 DEF TurnStates
  <2>2. turn'[t] = s /\ turn' \in [Turns -> TurnStates]
    BY <1>6, <2>1 DEF Becomes, Inv, TypeOK
  <2>3. ChangesOf(t)' = {}
    BY <1>2, <1>4 DEF ChangesOf
  <2> HIDE DEF s
  <2>4. ~Announced(t)'
    BY <1>4, <2>1, <2>2 DEF Announced
  <2>5. s.answer # "applied" /\ s.result # "applied"
    BY <1>4, <2>1 DEF Announced
  <2> QED
    BY <1>2, <2>1, <2>2, <2>3, <2>4, <2>5 DEF TurnInv, Inv, TypeOK
<1> QED
  BY <1>1, <1>5, <1>6

(* A tool call on its way: refused by the gateway, counted, or sent. *)
LEMMA ContinuedState ==
  ASSUME NEW s \in TurnStates, s.step < MaxSteps,
         NEW call \in ToolCalls \cup {NoCall}, NEW several \in BOOLEAN
  PROVE  /\ Continued(s, call, several) \in TurnStates
         /\ Continued(s, call, several).pc = "model"
         /\ Continued(s, call, several).answer = "none"
         /\ Continued(s, call, several).expected = s.expected
         /\ Continued(s, call, several).lost = s.lost
         /\ Continued(s, call, several).result = s.result
<1> DEFINE found == IF call.name = "search_tasks" THEN several ELSE s.candidates
           rejected == s.rejection \/ call.name = "apply_change_set"
           counted == [s EXCEPT !.pc = "model", !.step = s.step + 1, !.call = NoCall,
                                !.answer = "none"]
           searched == [counted EXCEPT !.candidates = found]
<1>1. /\ NoCall \in ToolCalls \cup {NoCall} /\ s.step + 1 \in 0 .. MaxSteps
      /\ found \in {TRUE, FALSE} /\ rejected \in {TRUE, FALSE}
  <2>1. NoCall \in ToolCalls \cup {NoCall} /\ s.step + 1 \in 0 .. MaxSteps
    BY AgentAssumption DEF TurnStates
  <2>2. s.candidates \in BOOLEAN
    BY DEF TurnStates
  <2>3. found \in {TRUE, FALSE}
    BY <2>2
  <2>4. rejected \in {TRUE, FALSE}
    OBVIOUS
  <2> QED
    BY <2>1, <2>3, <2>4
<1>2. Continued(s, call, several) = [searched EXCEPT !.rejection = rejected]
  BY DEF Continued, TurnStates
<1>3. /\ counted \in TurnStates /\ counted.pc = "model" /\ counted.answer = "none"
      /\ counted.expected = s.expected /\ counted.lost = s.lost /\ counted.result = s.result
  BY <1>1 DEF TurnStates
<1> HIDE DEF found, rejected, counted
<1>4. /\ searched \in TurnStates
      /\ \A field \in {"pc", "answer", "expected", "lost", "result"} :
           searched[field] = counted[field]
  <2>1. CASE found = TRUE
    BY <1>3, <2>1 DEF TurnStates
  <2>2. CASE found = FALSE
    BY <1>3, <2>2 DEF TurnStates
  <2> QED
    BY <1>1, <2>1, <2>2
<1> HIDE DEF searched
<1>5. /\ [searched EXCEPT !.rejection = rejected] \in TurnStates
      /\ \A field \in {"pc", "answer", "expected", "lost", "result"} :
           [searched EXCEPT !.rejection = rejected][field] = searched[field]
  <2>1. CASE rejected = TRUE
    BY <1>4, <2>1 DEF TurnStates
  <2>2. CASE rejected = FALSE
    BY <1>4, <2>2 DEF TurnStates
  <2> QED
    BY <1>1, <2>1, <2>2
<1> QED
  BY <1>2, <1>3, <1>4, <1>5

LEMMA CountedState ==
  ASSUME NEW t \in Turns, turn[t] \in TurnStates, NEW call \in ToolCalls, ~Spent(t, call)
  PROVE  /\ Counted(turn[t], call) \in TurnStates
         /\ \A field \in {"pc", "step", "expected", "answer", "lost", "result", "candidates"} :
              Counted(turn[t], call)[field] = turn[t][field]
<1>1. turn[t].reads \in 0 .. MaxReads
  BY DEF TurnStates
<1>2. CASE call.name \in ReadTools
  <2>1. turn[t].reads + 1 \in 0 .. MaxReads
    BY <1>1, <1>2, AgentAssumption DEF Spent
  <2>2. Counted(turn[t], call) = [turn[t] EXCEPT !.reads = turn[t].reads + 1]
    BY <1>2 DEF Counted, TurnStates
  <2> QED
    BY <2>1, <2>2 DEF TurnStates
<1>3. CASE call.name \notin ReadTools
  <2>1. Counted(turn[t], call) = turn[t]
    BY <1>3 DEF Counted, TurnStates
  <2> QED
    BY <2>1
<1> QED
  BY <1>2, <1>3

LEMMA CallKeepsInv ==
  ASSUME Inv, NEW t \in Turns, CallsOne(t)
  PROVE  TypeOK' /\ TurnInv(t)'
<1>1. PICK call \in ToolCalls :
        \/ Leaves(t, "step_limit")
        \/ Leaves(t, "clarification_required")
        \/ ~Spent(t, call) /\ Becomes(t, Continued(Counted(turn[t], call), call, FALSE))
        \/ /\ ~Spent(t, call) /\ ~Blocked(t, call)
           /\ Becomes(t, [Counted(turn[t], call) EXCEPT !.pc = "calling", !.call = call])
  BY DEF CallsOne
<1>2. turn[t].pc = "model" /\ turn[t].step < MaxSteps /\ UNCHANGED project
  BY DEF CallsOne, AtModel
<1>3. turn[t] \in TurnStates /\ TurnInv(t)
  BY DEF Inv, TypeOK
<1>4. ~Announced(t) /\ turn[t].answer # "applied" /\ turn[t].result # "applied"
  BY <1>2, <1>3 DEF TurnInv, Announced
<1>5. CASE Leaves(t, "step_limit") \/ Leaves(t, "clarification_required")
  BY <1>2, <1>4, <1>5, OverKeepsInv DEF Leaves
<1>6. CASE ~Spent(t, call) /\ Becomes(t, Continued(Counted(turn[t], call), call, FALSE))
  <2> DEFINE c == Counted(turn[t], call)
             s == Continued(c, call, FALSE)
  <2>1. /\ c \in TurnStates /\ c.step = turn[t].step /\ c.expected = turn[t].expected
        /\ c.lost = turn[t].lost /\ c.result = turn[t].result
    BY <1>3, <1>6, CountedState
  <2> HIDE DEF c
  <2>2. /\ s \in TurnStates /\ s.pc = "model" /\ s.answer = "none"
        /\ s.expected = c.expected /\ s.lost = c.lost /\ s.result = c.result
    BY <1>2, <2>1, ContinuedState
  <2> HIDE DEF s
  <2>3. Becomes(t, s)
    BY <1>6 DEF s, c
  <2> QED
    BY <1>2, <1>4, <2>1, <2>2, <2>3, LoopKeepsInv
<1>7. CASE /\ ~Spent(t, call) /\ ~Blocked(t, call)
           /\ Becomes(t, [Counted(turn[t], call) EXCEPT !.pc = "calling", !.call = call])
  <2> DEFINE c == Counted(turn[t], call)
             s == [c EXCEPT !.pc = "calling", !.call = call]
  <2>1. /\ c \in TurnStates /\ c.expected = turn[t].expected /\ c.answer = turn[t].answer
        /\ c.lost = turn[t].lost /\ c.result = turn[t].result
        /\ c.candidates = turn[t].candidates
        /\ c.step = turn[t].step
    BY <1>3, <1>7, CountedState
  <2> HIDE DEF c
  <2>2. /\ s \in TurnStates /\ s.pc = "calling" /\ s.call = call
        /\ s.answer = c.answer /\ s.expected = c.expected /\ s.lost = c.lost
        /\ s.result = c.result /\ s.candidates = c.candidates
        /\ s.step = c.step
    BY <1>1, <2>1 DEF TurnStates
  <2> HIDE DEF s
  <2>3. Becomes(t, s)
    BY <1>7 DEF s, c
  <2>4. turn[t].candidates /\ call.touches => call.named
    BY <1>1, <1>7 DEF Blocked, ToolCalls
  <2>5. s.candidates /\ s.call.touches => s.call.named
    BY <2>1, <2>2, <2>4
  <2> QED
    BY <1>2, <1>4, <2>1, <2>2, <2>3, <2>5, LoopKeepsInv
<1> QED
  BY <1>1, <1>5, <1>6, <1>7

LEMMA ApplyKeepsInv ==
  ASSUME Inv, NEW t \in Turns, RunsApply(t)
  PROVE  TypeOK' /\ TurnInv(t)'
<1>1. turn[t].pc = "calling" /\ turn[t] \in TurnStates /\ TurnInv(t)
  BY DEF RunsApply, Inv, TypeOK
<1>2. ~Announced(t) /\ turn[t].step < MaxSteps
  BY <1>1 DEF TurnInv, Announced
<1>3. CASE /\ turn[t].expected = project.revision /\ project.revision < MaxRevision
           /\ Commit(t)
           /\ Becomes(t, [turn[t] EXCEPT !.pc = "answering", !.answer = "applied"])
  <2> DEFINE s == [turn[t] EXCEPT !.pc = "answering", !.answer = "applied"]
  <2>1. /\ s \in TurnStates /\ s.pc = "answering" /\ s.answer = "applied"
        /\ s.expected = turn[t].expected /\ s.result = turn[t].result
        /\ s.step = turn[t].step
    BY <1>1 DEF TurnStates
  <2>2. turn'[t] = s /\ turn' \in [Turns -> TurnStates]
    BY <1>3, <2>1 DEF Becomes, Inv, TypeOK
  <2> HIDE DEF s
  <2>3. /\ ChangesOf(t)' = ChangesOf(t) \cup {turn[t].expected}
        /\ project' \in [revision : 1 .. MaxRevision, log : Seq(Turns \cup {Other})]
    BY <1>3, CommitChanges DEF Inv
  <2>4. s.result # "applied" /\ Announced(t)'
    BY <1>2, <2>1, <2>2 DEF Announced
  <2> QED
    BY <1>1, <2>1, <2>2, <2>3, <2>4 DEF TurnInv, TypeOK
<1>4. CASE /\ Becomes(t, [turn[t] EXCEPT !.pc = "answering", !.answer = "other"])
           /\ UNCHANGED project
  <2> DEFINE s == [turn[t] EXCEPT !.pc = "answering", !.answer = "other"]
  <2>1. /\ s \in TurnStates /\ s.pc = "answering" /\ s.answer = "other"
        /\ s.expected = turn[t].expected /\ s.result = turn[t].result
        /\ s.lost = turn[t].lost /\ s.step = turn[t].step
    BY <1>1 DEF TurnStates
  <2> HIDE DEF s
  <2>2. Becomes(t, s)
    BY <1>4 DEF s
  <2>3. turn[t].result # "applied"
    BY <1>2 DEF Announced
  <2> QED
    BY <1>2, <1>4, <2>1, <2>2, <2>3, LoopKeepsInv
<1> QED
  BY <1>3, <1>4 DEF RunsApply, BoundRevision

(* The read, the answer and the loss of an answer. *)
LEMMA TransportKeepsInv ==
  ASSUME Inv, NEW t \in Turns, RunsRead(t) \/ TransportFails(t) \/ GetsAnswer(t)
  PROVE  TypeOK' /\ TurnInv(t)'
<1>1. /\ turn[t].pc \in {"calling", "answering"} /\ UNCHANGED project
      /\ turn[t] \in TurnStates /\ TurnInv(t)
  BY DEF RunsRead, TransportFails, GetsAnswer, Inv, TypeOK
<1>2. /\ Announced(t) <=> turn[t].answer = "applied"
      /\ turn[t].result # "applied"
  BY <1>1 DEF TurnInv, Announced
<1>3. ASSUME NEW several \in BOOLEAN, NEW lost \in BOOLEAN, turn[t].step < MaxSteps,
             turn[t].lost => lost, Announced(t) => lost,
             Becomes(t, [Continued(turn[t], turn[t].call, several) EXCEPT !.lost = lost])
      PROVE  TypeOK' /\ TurnInv(t)'
  <2> DEFINE c == Continued(turn[t], turn[t].call, several)
             s == [c EXCEPT !.lost = lost]
  <2>1. turn[t].call \in ToolCalls \cup {NoCall}
    BY <1>1 DEF TurnStates
  <2>2. /\ c \in TurnStates /\ c.pc = "model" /\ c.answer = "none"
        /\ c.expected = turn[t].expected /\ c.result = turn[t].result
    BY <1>1, <1>3, <2>1, ContinuedState
  <2> HIDE DEF c
  <2>3. /\ s \in TurnStates /\ s.pc = "model" /\ s.answer = "none"
        /\ s.expected = turn[t].expected /\ s.result = turn[t].result /\ (s.lost <=> lost)
    <3>1. CASE lost = TRUE
      BY <2>2, <3>1 DEF TurnStates
    <3>2. CASE lost = FALSE
      BY <2>2, <3>2 DEF TurnStates
    <3> QED
      BY <1>3, <3>1, <3>2
  <2> HIDE DEF s
  <2>4. Becomes(t, s)
    BY <1>3 DEF s, c
  <2> QED
    BY <1>1, <1>2, <1>3, <2>3, <2>4, LoopKeepsInv
<1>4. ASSUME NEW pc \in {"answering", "wrapup"},
             NEW answer \in {"several", "other", "applied"},
             pc = "wrapup" \/ answer = "applied" => Announced(t),
             Announced(t) => pc = "wrapup" \/ answer = "applied",
             turn[t].step < MaxSteps,
             NEW s, s = [turn[t] EXCEPT !.pc = pc, !.answer = answer], Becomes(t, s)
      PROVE  TypeOK' /\ TurnInv(t)'
  <2>1. /\ s \in TurnStates /\ s.pc = pc /\ s.answer = answer
        /\ s.expected = turn[t].expected /\ s.result = turn[t].result /\ s.lost = turn[t].lost
        /\ s.step = turn[t].step
    BY <1>1, <1>4 DEF TurnStates
  <2> QED
    BY <1>1, <1>2, <1>4, <2>1, LoopKeepsInv
<1>5. turn[t].step < MaxSteps
  BY <1>1 DEF TurnInv
<1>6. CASE RunsRead(t)
  <2>1. PICK answer \in {"several", "other"} :
          Becomes(t, [turn[t] EXCEPT !.pc = "answering", !.answer = answer])
    BY <1>6 DEF RunsRead
  <2>2. ~Announced(t)
    BY <1>1, <1>2, <1>6 DEF RunsRead, TurnInv
  <2> QED
    BY <1>4, <1>5, <2>1, <2>2
<1>7. CASE TransportFails(t)
  <2> DEFINE lost == turn[t].lost \/ turn[t].answer = "applied"
  <2>1. lost \in BOOLEAN /\ (turn[t].lost => lost) /\ (Announced(t) => lost)
    BY <1>2
  <2>2. Becomes(t, [Continued(turn[t], turn[t].call, FALSE) EXCEPT !.lost = lost])
    <3>1. turn[t].call \in ToolCalls \cup {NoCall}
      BY <1>1 DEF TurnStates
    <3>2. Continued(turn[t], turn[t].call, FALSE).lost = turn[t].lost
      BY <1>1, <1>5, <3>1, ContinuedState
    <3> QED
      BY <1>7, <3>2 DEF TransportFails
  <2> HIDE DEF lost
  <2> QED
    BY <1>3, <1>5, <2>1, <2>2
<1>8. CASE GetsAnswer(t) /\ turn[t].answer = "applied"
  <2>1. Becomes(t, [turn[t] EXCEPT !.pc = "wrapup"])
    BY <1>8 DEF GetsAnswer, Committed
  <2>2. [turn[t] EXCEPT !.pc = "wrapup"] = [turn[t] EXCEPT !.pc = "wrapup", !.answer = "applied"]
    BY <1>1, <1>8 DEF TurnStates
  <2> QED
    BY <1>2, <1>4, <1>5, <1>8, <2>1, <2>2
<1>9. CASE GetsAnswer(t) /\ turn[t].answer # "applied"
  <2> DEFINE several == turn[t].answer = "several"
             c == Continued(turn[t], turn[t].call, several)
  <2>1. several \in BOOLEAN /\ turn[t].lost \in BOOLEAN
        /\ turn[t].call \in ToolCalls \cup {NoCall}
    BY <1>1 DEF TurnStates
  <2>2. Becomes(t, c)
    BY <1>9 DEF GetsAnswer, Committed
  <2> HIDE DEF several
  <2>3. c \in TurnStates /\ c.lost = turn[t].lost
    BY <1>1, <1>5, <2>1, ContinuedState
  <2>4. [c EXCEPT !.lost = turn[t].lost] = c
    <3> HIDE DEF c
    <3> QED
      BY <2>3 DEF TurnStates
  <2> QED
    BY <1>2, <1>3, <1>5, <1>9, <2>1, <2>2, <2>4
<1> QED
  BY <1>6, <1>7, <1>8, <1>9

(* The last completion, the end of the session, the response. *)
LEMMA EndKeepsInv ==
  ASSUME Inv, NEW t \in Turns, WrapsUp(t) \/ Closes(t) \/ Refetches(t)
  PROVE  TypeOK' /\ TurnInv(t)'
<1>1. UNCHANGED project /\ turn[t] \in TurnStates /\ TurnInv(t)
  BY DEF WrapsUp, Closes, Refetches, Inv, TypeOK
<1>2. ChangesOf(t)' = ChangesOf(t)
  BY <1>1 DEF ChangesOf
<1>3. CASE WrapsUp(t)
  BY <1>1, <1>3, OverKeepsInv DEF WrapsUp, Leaves, Announced
<1>4. ASSUME NEW pc \in {"refetch", "done"},
             NEW result \in {turn[t].result, "mcp_unavailable"}, NEW lost \in {turn[t].lost, TRUE},
             NEW shown \in 0 .. MaxRevision,
             turn[t].pc \in {"closing", "refetch"},
             pc = "refetch" => turn[t].result = "applied" /\ result = "applied",
             result # turn[t].result => lost = TRUE,
             pc = "done" /\ result = "applied" => shown \in turn[t].expected + 1 .. project.revision,
             turn'[t] = [turn[t] EXCEPT !.pc = pc, !.result = result, !.lost = lost, !.shown = shown],
             turn' = [turn EXCEPT ![t] = turn'[t]]
      PROVE  TypeOK' /\ TurnInv(t)'
  <2>1. /\ turn'[t] \in TurnStates /\ turn'[t].pc = pc /\ turn'[t].result = result
        /\ turn'[t].lost = lost /\ turn'[t].shown = shown
        /\ turn'[t].expected = turn[t].expected /\ turn'[t].answer = turn[t].answer
    <3>1. /\ pc \in {"refetch", "done"} /\ lost \in BOOLEAN /\ shown \in 0 .. MaxRevision
          /\ result \in {"mcp_unavailable", turn[t].result}
      BY <1>1, <1>4 DEF TurnStates
    <3>2. turn'[t] = [pc |-> pc, expected |-> turn[t].expected, step |-> turn[t].step,
                      reads |-> turn[t].reads, correctionUsed |-> turn[t].correctionUsed,
                      candidates |-> turn[t].candidates, rejection |-> turn[t].rejection,
                      call |-> turn[t].call, answer |-> turn[t].answer,
                      lost |-> lost, result |-> result, shown |-> shown]
      BY <1>1, <1>4 DEF TurnStates
    <3> QED
      BY <1>1, <3>1, <3>2 DEF TurnStates
  <2>2. TypeOK'
    BY <1>1, <1>4, <2>1 DEF Inv, TypeOK
  <2>3. /\ Announced(t) <=> turn[t].result = "applied"
        /\ Announced(t)' <=> result = "applied"
        /\ turn[t].answer # "applied"
    BY <1>1, <1>4, <2>1 DEF TurnInv, Announced
  <2> QED
    BY <1>1, <1>2, <1>4, <2>1, <2>2, <2>3 DEF TurnInv
<1>5. CASE Closes(t)
  <2>1. turn[t].pc = "closing" /\ turn[t].shown \in 0 .. MaxRevision
    BY <1>1, <1>5 DEF Closes, TurnStates
  <2>2. CASE turn' = [turn EXCEPT ![t] = [turn[t] EXCEPT
                       !.pc = IF turn[t].result = "applied" THEN "refetch" ELSE "done"]]
    <3> DEFINE pc == IF turn[t].result = "applied" THEN "refetch" ELSE "done"
    <3>1. turn'[t] = [turn[t] EXCEPT !.pc = pc, !.result = turn[t].result,
                                     !.lost = turn[t].lost, !.shown = turn[t].shown]
      BY <1>1, <2>2 DEF Inv, TypeOK, TurnStates
    <3>2. turn' = [turn EXCEPT ![t] = turn'[t]]
      BY <2>2 DEF Inv, TypeOK
    <3> QED
      BY <1>4, <2>1, <3>1, <3>2
  <2>3. CASE turn' = [turn EXCEPT ![t] = [turn[t] EXCEPT
                       !.pc = "done", !.result = "mcp_unavailable", !.lost = TRUE]]
    <3>1. turn'[t] = [turn[t] EXCEPT !.pc = "done", !.result = "mcp_unavailable",
                                     !.lost = TRUE, !.shown = turn[t].shown]
      BY <1>1, <2>3 DEF Inv, TypeOK, TurnStates
    <3>2. turn' = [turn EXCEPT ![t] = turn'[t]]
      BY <2>3 DEF Inv, TypeOK
    <3> QED
      BY <1>4, <2>1, <3>1, <3>2
  <2> QED
    BY <1>5, <2>2, <2>3 DEF Closes, Becomes
<1>6. CASE Refetches(t)
  <2>1. /\ turn[t].pc = "refetch" /\ turn[t].result = "applied"
        /\ turn' = [turn EXCEPT ![t] = [turn[t] EXCEPT !.pc = "done", !.shown = project.revision]]
    BY <1>1, <1>6 DEF Refetches, Becomes, TurnInv
  <2>2. turn[t].expected \in ChangesOf(t)
    BY <1>1, <2>1 DEF TurnInv, Announced
  <2>3. project.revision \in 1 .. MaxRevision /\ project.revision \in turn[t].expected + 1 .. project.revision
    <3>1. /\ project.log \in Seq(Turns \cup {Other}) /\ project.revision = Len(project.log) + 1
          /\ project.revision \in 1 .. MaxRevision
      BY DEF Inv, TypeOK
    <3> QED
      BY <2>2, <3>1 DEF ChangesOf
  <2>4. turn'[t] = [turn[t] EXCEPT !.pc = "done", !.result = turn[t].result,
                                   !.lost = turn[t].lost, !.shown = project.revision]
    BY <1>1, <2>1 DEF Inv, TypeOK, TurnStates
  <2>5. turn' = [turn EXCEPT ![t] = turn'[t]]
    BY <2>1 DEF Inv, TypeOK
  <2>6. project.revision \in 0 .. MaxRevision
    BY <2>3, AgentAssumption
  <2> QED
    BY <1>4, <2>1, <2>3, <2>4, <2>5, <2>6
<1> QED
  BY <1>3, <1>5, <1>6

LEMMA StepKeepsInv ==
  ASSUME Inv, NEW t \in Turns, StartTurn(t) \/ Step(t)
  PROVE  TypeOK' /\ TurnInv(t)'
<1>1. /\ turn[t] \in TurnStates /\ TurnInv(t)
  BY DEF Inv, TypeOK
<1>2. ASSUME turn[t].pc = "model" PROVE ~Announced(t)
  BY <1>1, <1>2 DEF TurnInv, Announced
<1>3. CASE ProviderFails(t) \/ SaysText(t) \/ OutOfSteps(t)
           \/ (CallsSeveral(t) /\ turn[t].correctionUsed)
  BY <1>2, <1>3, OverKeepsInv
  DEF ProviderFails, SaysText, OutOfSteps, CallsSeveral, AtModel, Leaves
<1>4. CASE CallsSeveral(t) /\ ~turn[t].correctionUsed
  <2> DEFINE s == [turn[t] EXCEPT !.correctionUsed = TRUE, !.step = turn[t].step + 1]
  <2>1. Becomes(t, s) /\ UNCHANGED project /\ turn[t].pc = "model" /\ turn[t].step < MaxSteps
    BY <1>4 DEF CallsSeveral, AtModel
  <2>2. /\ s \in TurnStates /\ s.pc = "model" /\ s.answer = turn[t].answer
        /\ s.expected = turn[t].expected /\ s.lost = turn[t].lost /\ s.result = turn[t].result
    <3>1. turn[t].step + 1 \in 0 .. MaxSteps /\ TRUE \in BOOLEAN
      BY <1>1, <2>1, AgentAssumption DEF TurnStates
    <3> QED
      BY <1>1, <2>1, <3>1 DEF TurnStates
  <2> HIDE DEF s
  <2>3. s.answer # "applied" /\ s.result # "applied"
    BY <1>2, <2>1, <2>2 DEF Announced
  <2> QED
    BY <1>2, <2>1, <2>2, <2>3, LoopKeepsInv
<1> QED
  BY <1>3, <1>4, StartKeepsInv, CallKeepsInv, ApplyKeepsInv, TransportKeepsInv, EndKeepsInv DEF Step

-----------------------------------------------------------------------------
(* What a step of one turn leaves to the others. *)
LEMMA StepFrame ==
  ASSUME Inv, NEW t \in Turns, StartTurn(t) \/ Step(t), NEW u \in Turns, u # t
  PROVE  turn'[u] = turn[u]
<1>1. \A s : Becomes(t, s) => turn'[u] = turn[u]
  BY DEF Becomes, Inv, TypeOK
<1> QED
  BY <1>1 DEF StartTurn, Step, ProviderFails, SaysText, CallsSeveral, CallsOne, OutOfSteps,
              RunsRead, RunsApply, TransportFails, GetsAnswer, WrapsUp, Closes, Refetches,
              Leaves, Over

LEMMA StepProject ==
  ASSUME Inv, NEW t \in Turns, StartTurn(t) \/ Step(t)
  PROVE  \/ UNCHANGED project
         \/ /\ RunsApply(t) /\ project.revision < MaxRevision /\ Commit(t)
BY DEF StartTurn, Step, ProviderFails, SaysText, CallsSeveral, CallsOne, OutOfSteps,
       RunsRead, RunsApply, TransportFails, GetsAnswer, WrapsUp, Closes, Refetches

LEMMA AgentInv == Spec => []Inv
<1>1. Init => Inv
  <2> SUFFICES ASSUME Init PROVE Inv
    OBVIOUS
  <2>1. IdleTurn \in TurnStates
    <3>1. 0 \in 0 .. MaxRevision /\ 0 \in 0 .. MaxSteps /\ 0 \in 0 .. MaxReads
      BY AgentAssumption
    <3> QED
      BY <3>1 DEF IdleTurn, TurnStates
  <2>2. /\ project = [revision |-> 1, log |-> <<>>] /\ turn = [t \in Turns |-> IdleTurn]
    BY DEF Init
  <2>3. <<>> \in Seq(Turns \cup {Other}) /\ Len(<<>>) = 0 /\ 1 \in 1 .. MaxRevision
    BY AgentAssumption
  <2>4. TypeOK /\ project.revision = Len(project.log) + 1
    BY <2>1, <2>2, <2>3 DEF TypeOK
  <2>5. ASSUME NEW t \in Turns PROVE TurnInv(t)
    <3>1. ChangesOf(t) = {}
      BY <2>2 DEF ChangesOf
    <3> QED
      BY <2>2, <3>1 DEF TurnInv, Announced, IdleTurn
  <2> QED
    BY <2>4, <2>5 DEF Inv
<1>2. Inv /\ [Next]_vars => Inv'
  <2> SUFFICES ASSUME Inv, [Next]_vars PROVE Inv'
    OBVIOUS
  <2>1. project.revision \in Nat /\ MaxRevision \in Nat
    BY AgentAssumption DEF Inv, TypeOK
  <2>2. CASE UNCHANGED vars
    <3>1. \A t \in Turns : ChangesOf(t)' = ChangesOf(t)
      BY <2>2 DEF vars, ChangesOf
    <3> QED
      BY <2>1, <2>2, <3>1, OthersKeepInv DEF vars, Inv, TypeOK
  <2>3. CASE OtherCommits
    <3>1. Commit(Other) /\ project.revision < MaxRevision /\ turn' = turn
      BY <2>3 DEF OtherCommits
    <3>2. /\ project' \in [revision : 1 .. MaxRevision, log : Seq(Turns \cup {Other})]
          /\ project'.revision = project.revision + 1
          /\ project'.revision = Len(project'.log) + 1
          /\ \A t \in Turns : ChangesOf(t)' = ChangesOf(t)
      BY <3>1, CommitChanges, AgentAssumption DEF Inv
    <3>3. \A t \in Turns : TurnInv(t)'
      BY <2>1, <3>1, <3>2, OthersKeepInv
    <3> QED
      BY <3>1, <3>2, <3>3 DEF Inv, TypeOK
  <2>4. ASSUME NEW t \in Turns, StartTurn(t) \/ Step(t)
        PROVE  Inv'
    <3>1. TypeOK' /\ TurnInv(t)'
      BY <2>4, StepKeepsInv
    <3>2. /\ project'.revision \in Nat /\ project'.revision >= project.revision
          /\ project'.revision = Len(project'.log) + 1
          /\ \A u \in Turns : u # t => ChangesOf(u)' = ChangesOf(u)
      <4>1. CASE UNCHANGED project
        BY <2>1, <4>1 DEF ChangesOf, Inv
      <4>2. CASE project.revision < MaxRevision /\ Commit(t)
        BY <2>1, <4>2, CommitChanges DEF Inv
      <4> QED
        BY <2>4, <4>1, <4>2, StepProject
    <3>3. ASSUME NEW u \in Turns, u # t PROVE TurnInv(u)'
      BY <2>1, <2>4, <3>2, <3>3, StepFrame, OthersKeepInv
    <3> QED
      BY <3>1, <3>2, <3>3 DEF Inv
  <2> QED
    BY <2>2, <2>3, <2>4 DEF Next
<1> QED
  BY <1>1, <1>2, PTL DEF Spec

-----------------------------------------------------------------------------
(* The types, the step budget and the read budget, for every budget. *)
THEOREM TypeCorrect == Spec => []TypeOK
BY AgentInv, PTL DEF Inv

(* A chat request commits at most one change set, and only on the revision it *)
(* was drawn up on, whatever is lost, retried or committed by others.         *)
THEOREM AtMostOneCommit == Spec => []OneCommitPerTurn
<1>1. Inv => OneCommitPerTurn
  BY DEF Inv, TurnInv, OneCommitPerTurn
<1> QED
  BY <1>1, AgentInv, PTL

(* A response "applied" is true, and its project has the change in it. *)
THEOREM AppliedIsTrue == Spec => []RepliesTruthful
<1>1. Inv => RepliesTruthful
  BY DEF Inv, TurnInv, RepliesTruthful, Announced
<1> QED
  BY <1>1, AgentInv, PTL

(* Only a failure of the MCP session can hide a change from its user. *)
THEOREM OnlyTransportHides == Spec => []HiddenOnlyByTransport
<1>1. Inv => HiddenOnlyByTransport
  BY DEF Inv, TurnInv, HiddenOnlyByTransport, Announced
<1> QED
  BY <1>1, AgentInv, PTL

(* The guard that _run_loop evaluates before it sends a change set still holds *)
(* when the server commits it.                                               *)
THEOREM AmbiguityAsked == Spec => AskedWhenAmbiguous
<1>1. Inv /\ [Next]_vars =>
        [\A t \in Turns :
           ChangesOf(t)' # ChangesOf(t) /\ turn[t].candidates /\ turn[t].call.touches
             => turn[t].call.named]_vars
  <2> SUFFICES ASSUME Inv, [Next]_vars, NEW t \in Turns, ChangesOf(t)' # ChangesOf(t),
                      turn[t].candidates, turn[t].call.touches
               PROVE  turn[t].call.named
    OBVIOUS
  <2>1. ~UNCHANGED project
    BY DEF ChangesOf
  <2>2. PICK by \in Turns \cup {Other} :
          /\ Commit(by) /\ project.revision < MaxRevision
          /\ by = Other \/ (by \in Turns /\ RunsApply(by))
    BY <2>1, StepProject DEF Next, OtherCommits, vars
  <2>3. by = t
    BY <2>2, CommitChanges DEF Inv
  <2> QED
    BY <2>2, <2>3, AgentAssumption DEF RunsApply, Inv, TurnInv
<1> QED
  BY <1>1, AgentInv, PTL DEF Spec, AskedWhenAmbiguous

=============================================================================
