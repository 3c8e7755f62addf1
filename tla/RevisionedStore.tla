--------------------------- MODULE RevisionedStore ---------------------------
(***************************************************************************)
(* What the project store promises its callers: each call takes effect in    *)
(* one step between its invocation and its return, and a change set goes     *)
(* through only on the revision it names.                                    *)
(***************************************************************************)
EXTENDS StoreTypes

VARIABLES
  projects,  \* the committed project of each id
  status,    \* of each client: "idle", "pending" or "returned"
  request,   \* the call each client is in
  outcome    \* how it ended

vars == <<projects, status, request, outcome>>

Init ==
  /\ projects = [p \in Pids |-> NoProject]
  /\ status = [c \in Clients |-> "idle"]
  /\ request = [c \in Clients |-> NoRequest]
  /\ outcome = [c \in Clients |-> Outcome("none", NoProject)]

(* Ids are drawn afresh: two calls never create the same project.            *)
Fresh(p) ==
  /\ projects[p] = NoProject
  /\ \A d \in Clients :
       status[d] = "pending" /\ request[d].op = "create" => request[d].pid # p

Invoke(c) ==
  /\ status[c] = "idle"
  /\ \E r \in Requests :
       /\ r.op = "create" => Fresh(r.pid)
       /\ request' = [request EXCEPT ![c] = r]
  /\ status' = [status EXCEPT ![c] = "pending"]
  /\ UNCHANGED <<projects, outcome>>

Current(c) == projects[request[c].pid]

End(c, kind, project) ==
  /\ status' = [status EXCEPT ![c] = "returned"]
  /\ outcome' = [outcome EXCEPT ![c] = Outcome(kind, project)]
  /\ UNCHANGED request

Pending(c, op) == status[c] = "pending" /\ request[c].op = op

Create(c) ==
  /\ Pending(c, "create")
  /\ projects' = [projects EXCEPT ![request[c].pid] = NewProject]
  /\ End(c, "ok", NewProject)

Get(c) ==
  /\ Pending(c, "get") /\ Current(c) # NoProject
  /\ End(c, "ok", Current(c)) /\ UNCHANGED projects

NotFound(c) ==
  /\ Pending(c, "get") \/ Pending(c, "apply")
  /\ Current(c) = NoProject
  /\ End(c, "not_found", NoProject) /\ UNCHANGED projects

Conflict(c) ==
  /\ Pending(c, "apply") /\ Current(c) # NoProject /\ ~Matches(Current(c), request[c])
  /\ End(c, "revision_conflict", NoProject) /\ UNCHANGED projects

Commit(c) ==
  /\ Pending(c, "apply") /\ Current(c) # NoProject /\ Matches(Current(c), request[c])
  /\ LET changed == Changed(Current(c), c, request[c]) IN
       /\ projects' = [projects EXCEPT ![request[c].pid] = changed]
       /\ End(c, "ok", changed)

(* The change set is refused on the revision it names: nothing is stored.    *)
Reject(c) ==
  /\ Pending(c, "apply") /\ Current(c) # NoProject /\ Matches(Current(c), request[c])
  /\ End(c, "rejected", NoProject) /\ UNCHANGED projects

Return(c) ==
  /\ status[c] = "returned"
  /\ status' = [status EXCEPT ![c] = "idle"]
  /\ request' = [request EXCEPT ![c] = NoRequest]
  /\ outcome' = [outcome EXCEPT ![c] = Outcome("none", NoProject)]
  /\ UNCHANGED projects

Next ==
  \E c \in Clients :
    \/ Invoke(c) \/ Create(c) \/ Get(c) \/ NotFound(c) \/ Conflict(c)
    \/ Commit(c) \/ Reject(c) \/ Return(c)

Spec == Init /\ [][Next]_vars

=============================================================================
