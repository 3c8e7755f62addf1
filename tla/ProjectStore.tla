---------------------------- MODULE ProjectStore ----------------------------
(***************************************************************************)
(* storage/project_store.py: the in-memory store with one asyncio.Lock per   *)
(* project, called by concurrent tasks.  A step is the code between two       *)
(* points where a task may be suspended: waiting for the project's lock, and  *)
(* awaiting the mutator.  _lock_for suspends nowhere (its guard is held over  *)
(* no await), so it is part of the step that joins the lock's queue.  The     *)
(* lock serves its waiters in order of arrival.                              *)
(***************************************************************************)
EXTENDS StoreTypes

VARIABLES
  projects,  \* _projects
  locks,     \* the ids that have an entry in _locks
  queue,     \* of each project's lock: its holder, then its waiters
  pc,        \* of each client: "idle", "waiting", "mutating" or "returned"
  request,   \* the call of each client
  current,   \* the local variable current of apply
  outcome    \* how the call ended

vars == <<projects, locks, queue, pc, request, current, outcome>>

Init ==
  /\ projects = [p \in Pids |-> NoProject]
  /\ locks = {}
  /\ queue = [p \in Pids |-> <<>>]
  /\ pc = [c \in Clients |-> "idle"]
  /\ request = [c \in Clients |-> NoRequest]
  /\ current = [c \in Clients |-> NoProject]
  /\ outcome = [c \in Clients |-> Outcome("none", NoProject)]

InCall(c) == pc[c] \in {"waiting", "mutating"}

(* uuid4: no project and no other call has the id of a project to create.    *)
Fresh(p) ==
  /\ projects[p] = NoProject
  /\ \A d \in Clients : InCall(d) /\ request[d].op = "create" => request[d].pid # p

(* A task calls create, get or apply: _lock_for finds or makes the lock, and  *)
(* the task joins its queue.                                                 *)
Call(c) ==
  /\ pc[c] = "idle"
  /\ \E r \in Requests :
       /\ r.op = "create" => Fresh(r.pid)
       /\ request' = [request EXCEPT ![c] = r]
       /\ locks' = locks \cup {r.pid}
       /\ queue' = [queue EXCEPT ![r.pid] = Append(@, c)]
  /\ pc' = [pc EXCEPT ![c] = "waiting"]
  /\ UNCHANGED <<projects, current, outcome>>

NoLock(c) == TRUE                                        \* a bug: no lock
Holds(c) == queue[request[c].pid] # <<>> /\ Head(queue[request[c].pid]) = c

(* Leaving the async with block, by return or by exception. *)
Leave(c, kind, project) ==
  /\ pc' = [pc EXCEPT ![c] = "returned"]
  /\ outcome' = [outcome EXCEPT ![c] = Outcome(kind, project)]
  /\ queue' = [queue EXCEPT ![request[c].pid] = Tail(@)]
  /\ current' = [current EXCEPT ![c] = NoProject]
  /\ UNCHANGED <<locks, request>>

Stored(c) == projects[request[c].pid]

HasLock(c, op) == pc[c] = "waiting" /\ Holds(c) /\ request[c].op = op

CreateInLock(c) ==
  /\ HasLock(c, "create")
  /\ projects' = [projects EXCEPT ![request[c].pid] = NewProject]
  /\ Leave(c, "ok", NewProject)

GetInLock(c) ==
  /\ HasLock(c, "get")
  /\ IF Stored(c) = NoProject
       THEN Leave(c, "not_found", NoProject)
       ELSE Leave(c, "ok", Stored(c))
  /\ UNCHANGED projects

(* apply up to its await: the read, the revision check, the mutator's start. *)
ApplyInLock(c) ==
  /\ HasLock(c, "apply")
  /\ \/ Stored(c) = NoProject /\ Leave(c, "not_found", NoProject)
     \/ /\ Stored(c) # NoProject /\ ~Matches(Stored(c), request[c])
        /\ Leave(c, "revision_conflict", NoProject)
     \/ /\ Stored(c) # NoProject /\ Matches(Stored(c), request[c])
        /\ current' = [current EXCEPT ![c] = Stored(c)]
        /\ pc' = [pc EXCEPT ![c] = "mutating"]
        /\ UNCHANGED <<locks, queue, request, outcome>>
  /\ UNCHANGED projects

(* A bug MutatorReturns must not have: the caller is given the project as it   *)
(* was before.                                                               *)
ReturnPrevious(c) ==
  /\ pc[c] = "mutating" /\ current[c].revision < MaxRevision
  /\ projects' = [projects EXCEPT ![request[c].pid] = Changed(current[c], c, request[c])]
  /\ Leave(c, "ok", current[c])

(* The mutator returns the next project, made from the one it was given.     *)
MutatorReturns(c) ==
  /\ pc[c] = "mutating" /\ current[c].revision < MaxRevision
  /\ LET changed == Changed(current[c], c, request[c]) IN
       /\ projects' = [projects EXCEPT ![request[c].pid] = changed]
       /\ Leave(c, "ok", changed)

(* A bug MutatorRaises must not have: the lock is not released.               *)
RaiseInLock(c) ==
  /\ pc[c] = "mutating"
  /\ pc' = [pc EXCEPT ![c] = "returned"]
  /\ outcome' = [outcome EXCEPT ![c] = Outcome("rejected", NoProject)]
  /\ current' = [current EXCEPT ![c] = NoProject]
  /\ UNCHANGED <<projects, locks, queue, request>>

(* The mutator raises, or the task is cancelled while it awaits it.          *)
MutatorRaises(c) ==
  /\ pc[c] = "mutating"
  /\ Leave(c, "rejected", NoProject)
  /\ UNCHANGED projects

(* The caller has its answer and may call again. *)
Return(c) ==
  /\ pc[c] = "returned"
  /\ pc' = [pc EXCEPT ![c] = "idle"]
  /\ request' = [request EXCEPT ![c] = NoRequest]
  /\ outcome' = [outcome EXCEPT ![c] = Outcome("none", NoProject)]
  /\ UNCHANGED <<projects, locks, queue, current>>

(* What the event loop runs for c once it can: everything but a new call. *)
Resume(c) ==
  \/ CreateInLock(c) \/ GetInLock(c) \/ ApplyInLock(c)
  \/ MutatorReturns(c) \/ MutatorRaises(c)

Next == \E c \in Clients : Call(c) \/ Resume(c) \/ Return(c)

Spec     == Init /\ [][Next]_vars
FairSpec == Spec /\ \A c \in Clients : WF_vars(Resume(c))

-----------------------------------------------------------------------------
TypeOK ==
  /\ projects \in [Pids -> Projects \cup {NoProject}]
  /\ locks \subseteq Pids
  /\ queue \in [Pids -> Seq(Clients)]
  /\ pc \in [Clients -> {"idle", "waiting", "mutating", "returned"}]
  /\ request \in [Clients -> Requests \cup {NoRequest}]
  /\ current \in [Clients -> Projects \cup {NoProject}]
  /\ outcome \in [Clients -> Outcomes]

(* No lost update: every change acknowledged to its caller is in the log of   *)
(* the committed project, at the revision the caller was told, for ever.      *)
AcknowledgedIsCommitted ==
  \A c \in Clients :
    pc[c] = "returned" /\ request[c].op = "apply" /\ outcome[c].kind = "ok" =>
      LET project == projects[request[c].pid]
          r == outcome[c].project.revision
      IN  /\ project # NoProject /\ r \in 2 .. project.revision
          /\ project.log[r - 1] = [by |-> c, expected |-> request[c].expected]

(* Compare-and-set: the change that made revision i + 1 either named no       *)
(* revision or named i, so of two change sets drawn up on the same revision   *)
(* at most one is ever committed; and the revision counts the changes.        *)
OneWinnerPerRevision ==
  \A p \in Pids :
    projects[p] # NoProject =>
      /\ projects[p].revision = 1 + Len(projects[p].log)
      /\ \A i \in DOMAIN projects[p].log : projects[p].log[i].expected \in {i, NoRevision}

(* While a mutator works on a project, nobody else commits to it: what it was *)
(* given is still the committed project when it returns.                      *)
SnapshotIsCurrent ==
  \A c \in Clients : pc[c] = "mutating" => current[c] = projects[request[c].pid]

(* History is append-only: a step leaves a project alone, creates it, or adds *)
(* exactly one change at its end; a project never goes back or disappears.    *)
AppendOnly ==
  [][\A p \in Pids :
       projects'[p] # projects[p] =>
         \/ projects[p] = NoProject /\ projects'[p] = NewProject
         \/ \E c \in Clients, e \in Expectations :
              projects'[p] = Changed(projects[p], c, [expected |-> e])]_vars

(* The store is the abstract one: a call takes effect in the step in which it *)
(* leaves the lock.                                                          *)
CallStatus == [c \in Clients |-> IF InCall(c) THEN "pending" ELSE pc[c]]

Abstract == INSTANCE RevisionedStore WITH status <- CallStatus

ImplementsRevisionedStore == Abstract!Spec

(* Every call is answered: a task that has joined the queue of a lock gets    *)
(* through it however many others keep calling.                              *)
EveryCallReturns == \A c \in Clients : pc[c] = "waiting" ~> pc[c] = "returned"

-----------------------------------------------------------------------------
(* The lock: only the head of the queue is past it, a task is queued once and *)
(* only where its call is; and a project to be created does not exist yet.    *)
Queued(c, p) == \E i \in DOMAIN queue[p] : queue[p][i] = c

LockInv ==
  /\ \A p \in Pids : \A i, j \in DOMAIN queue[p] : queue[p][i] = queue[p][j] => i = j
  /\ \A c \in Clients, p \in Pids : Queued(c, p) <=> InCall(c) /\ request[c].pid = p
  /\ \A c \in Clients : pc[c] # "idle" => request[c] \in Requests
  /\ \A c \in Clients : pc[c] = "mutating" =>
       /\ Holds(c) /\ request[c].op = "apply"
       /\ current[c] # NoProject /\ Matches(current[c], request[c])

CreateInv ==
  \A c \in Clients : InCall(c) /\ request[c].op = "create" =>
    /\ projects[request[c].pid] = NoProject
    /\ \A d \in Clients :
         InCall(d) /\ request[d].op = "create" /\ request[d].pid = request[c].pid => d = c

=============================================================================
