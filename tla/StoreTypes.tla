----------------------------- MODULE StoreTypes -----------------------------
(***************************************************************************)
(* The data of the project store, shared by its abstract specification       *)
(* (RevisionedStore) and by the detailed one (ProjectStore).  A project is    *)
(* its revision number together with the log of the changes that produced    *)
(* it: a change that another one overwrote would be missing from the log.    *)
(***************************************************************************)
EXTENDS Integers, Sequences

CONSTANTS
  Clients,      \* the callers of the store: asyncio tasks
  Pids,         \* project ids
  NoProject,    \* nothing stored under an id
  NoRevision,   \* expected_revision = None
  MaxRevision   \* bound: no change takes a project past this revision

Expectations == 1 .. MaxRevision \cup {NoRevision}

Changes == [by : Clients, expected : Expectations]

Projects == [revision : Nat, log : Seq(Changes)]

ASSUME StoreAssumption ==
  /\ MaxRevision \in Nat \ {0}
  /\ NoRevision \notin Nat
  /\ NoProject \notin Projects

(* Only a change set names a revision. *)
Requests ==
  {r \in [op : {"create", "get", "apply"}, pid : Pids, expected : Expectations] :
     r.op # "apply" => r.expected = NoRevision}

(* A client that is in no call. *)
NoRequest == [op |-> "none", pid |-> NoProject, expected |-> NoRevision]

(* import_project stores revision 1. *)
NewProject == [revision |-> 1, log |-> <<>>]

(* The project a change set makes of the one it was given. *)
Changed(project, c, r) ==
  [revision |-> project.revision + 1,
   log |-> Append(project.log, [by |-> c, expected |-> r.expected])]

(* The revision check of apply: none asked for, or the one stored. *)
AnyRevision(project, r) == TRUE                          \* a bug: not checked
Matches(project, r) == r.expected = NoRevision \/ r.expected = project.revision

(* How a call ended: what it raised, or "ok" and the project it returned.    *)
Outcome(kind, project) == [kind |-> kind, project |-> project]

Outcomes ==
  [kind : {"none", "ok", "not_found", "revision_conflict", "rejected"},
   project : Projects \cup {NoProject}]

=============================================================================
