------------------------- MODULE ProjectStoreProofs -------------------------
(***************************************************************************)
(* The store's guarantees for any number of clients, projects and changes:   *)
(* the lock, no lost update, compare-and-set, and that the store implements   *)
(* RevisionedStore.                                                          *)
(***************************************************************************)
EXTENDS ProjectStore, TLAPS

LEMMA NewProjectType == NewProject \in Projects /\ NewProject # NoProject
<1>1. <<>> \in Seq(Changes)
  OBVIOUS
<1>2. NewProject \in Projects
  BY <1>1 DEF NewProject, Projects
<1> QED
  BY <1>2, StoreAssumption

LEMMA ChangedType ==
  ASSUME NEW project \in Projects, NEW c \in Clients, NEW r, r.expected \in Expectations
  PROVE  /\ Changed(project, c, r) \in Projects /\ Changed(project, c, r) # NoProject
         /\ Changed(project, c, r) # project
         /\ Changed(project, c, r).revision = project.revision + 1
         /\ Changed(project, c, r).log = Append(project.log, [by |-> c, expected |-> r.expected])
<1>1. [by |-> c, expected |-> r.expected] \in Changes
  BY DEF Changes
<1>2. project.revision \in Nat /\ project.log \in Seq(Changes)
  BY DEF Projects
<1>3. Append(project.log, [by |-> c, expected |-> r.expected]) \in Seq(Changes)
  BY <1>1, <1>2
<1>4. Changed(project, c, r) \in Projects
  BY <1>2, <1>3 DEF Changed, Projects
<1>5. /\ Changed(project, c, r).revision = project.revision + 1
      /\ Changed(project, c, r).log = Append(project.log, [by |-> c, expected |-> r.expected])
  BY DEF Changed
<1> QED
  BY <1>2, <1>4, <1>5, StoreAssumption

LEMMA OutcomeType ==
  ASSUME NEW kind \in {"none", "ok", "not_found", "revision_conflict", "rejected"},
         NEW project \in Projects \cup {NoProject}
  PROVE  Outcome(kind, project) \in Outcomes
BY DEF Outcome, Outcomes

(* The fields of a call. *)
LEMMA RequestFields ==
  ASSUME NEW r \in Requests
  PROVE  r.pid \in Pids /\ r.expected \in Expectations /\ r.op \in {"create", "get", "apply"}
BY DEF Requests

(* The queue of a lock is a sequence: joining it adds the task at its end,    *)
(* leaving it takes away its head.                                           *)
LEMMA JoinQueue ==
  ASSUME NEW q \in Seq(Clients), NEW c \in Clients
  PROVE  /\ Append(q, c) \in Seq(Clients)
         /\ \A d : (\E i \in DOMAIN Append(q, c) : Append(q, c)[i] = d)
                     <=> (\E i \in DOMAIN q : q[i] = d) \/ d = c
         /\ q # <<>> => Head(Append(q, c)) = Head(q) /\ Append(q, c) # <<>>
<1>1. /\ DOMAIN q = 1 .. Len(q) /\ Len(q) \in Nat
      /\ DOMAIN Append(q, c) = 1 .. Len(q) + 1
      /\ \A i \in 1 .. Len(q) : Append(q, c)[i] = q[i]
      /\ Append(q, c)[Len(q) + 1] = c
  OBVIOUS
<1>2. Append(q, c) \in Seq(Clients)
  OBVIOUS
<1>3. ASSUME NEW d
      PROVE  (\E i \in DOMAIN Append(q, c) : Append(q, c)[i] = d)
               <=> (\E i \in DOMAIN q : q[i] = d) \/ d = c
  <2>1. Len(q) + 1 \in DOMAIN Append(q, c)
    BY <1>1
  <2>2. \A i \in DOMAIN Append(q, c) : i \in DOMAIN q \/ i = Len(q) + 1
    BY <1>1
  <2>3. \A i \in DOMAIN q : i \in DOMAIN Append(q, c)
    BY <1>1
  <2> QED
    BY <1>1, <2>1, <2>2, <2>3
<1>4. q # <<>> => Head(Append(q, c)) = Head(q) /\ Append(q, c) # <<>>
  BY <1>1, <1>2
<1> QED
  BY <1>2, <1>3, <1>4

LEMMA LeaveQueue ==
  ASSUME NEW q \in Seq(Clients), q # <<>>,
         \A i, j \in DOMAIN q : q[i] = q[j] => i = j
  PROVE  /\ Tail(q) \in Seq(Clients)
         /\ \A i, j \in DOMAIN Tail(q) : Tail(q)[i] = Tail(q)[j] => i = j
         /\ \A d : (\E i \in DOMAIN Tail(q) : Tail(q)[i] = d)
                     <=> (\E i \in DOMAIN q : q[i] = d) /\ d # Head(q)
<1>1. /\ DOMAIN q = 1 .. Len(q) /\ Len(q) \in Nat \ {0} /\ Head(q) = q[1]
      /\ DOMAIN Tail(q) = 1 .. Len(q) - 1
      /\ \A i \in 1 .. Len(q) - 1 : Tail(q)[i] = q[i + 1]
  OBVIOUS
<1>2. Tail(q) \in Seq(Clients)
  OBVIOUS
<1>3. ASSUME NEW i \in DOMAIN Tail(q), NEW j \in DOMAIN Tail(q), Tail(q)[i] = Tail(q)[j]
      PROVE  i = j
  <2>1. i + 1 \in DOMAIN q /\ j + 1 \in DOMAIN q /\ q[i + 1] = q[j + 1]
    BY <1>1, <1>3
  <2> QED
    BY <1>1, <2>1
<1>4. ASSUME NEW d
      PROVE  (\E i \in DOMAIN Tail(q) : Tail(q)[i] = d)
               <=> (\E i \in DOMAIN q : q[i] = d) /\ d # Head(q)
  <2>1. ASSUME NEW i \in DOMAIN Tail(q), Tail(q)[i] = d
        PROVE  (\E j \in DOMAIN q : q[j] = d) /\ d # Head(q)
    <3>1. i + 1 \in DOMAIN q /\ q[i + 1] = d /\ 1 \in DOMAIN q /\ i + 1 # 1
      BY <1>1, <2>1
    <3> QED
      BY <1>1, <3>1
  <2>2. ASSUME NEW i \in DOMAIN q, q[i] = d, d # Head(q)
        PROVE  \E j \in DOMAIN Tail(q) : Tail(q)[j] = d
    <3>1. i - 1 \in DOMAIN Tail(q) /\ Tail(q)[i - 1] = q[i]
      BY <1>1, <2>2
    <3> QED
      BY <2>2, <3>1
  <2> QED
    BY <2>1, <2>2
<1> QED
  BY <1>2, <1>3, <1>4

-----------------------------------------------------------------------------
Inv == TypeOK /\ LockInv /\ CreateInv /\ SnapshotIsCurrent

(* At most one task is past the lock of a project. *)
LEMMA OneHolder ==
  ASSUME NEW c \in Clients, NEW d \in Clients, Holds(c), Holds(d),
         request[c].pid = request[d].pid
  PROVE  c = d
BY DEF Holds

(* Calling preserves the invariant. *)
LEMMA CallKeepsInv ==
  ASSUME Inv, NEW c \in Clients, Call(c)
  PROVE  Inv'
<1>1. PICK r \in Requests :
        /\ r.op = "create" => Fresh(r.pid)
        /\ request' = [request EXCEPT ![c] = r]
        /\ locks' = locks \cup {r.pid}
        /\ queue' = [queue EXCEPT ![r.pid] = Append(@, c)]
  BY DEF Call
<1>2. /\ pc[c] = "idle" /\ pc' = [pc EXCEPT ![c] = "waiting"]
      /\ UNCHANGED <<projects, current, outcome>>
  BY DEF Call
<1>3. r.pid \in Pids /\ r.expected \in Expectations
  BY RequestFields
<1>4. TypeOK'
  <2>1. queue' \in [Pids -> Seq(Clients)]
    BY <1>1, <1>3, JoinQueue DEF Inv, TypeOK
  <2> QED
    BY <1>1, <1>2, <1>3, <2>1 DEF Inv, TypeOK
<1>5. \A d \in Clients \ {c} :
        /\ pc'[d] = pc[d] /\ request'[d] = request[d] /\ current'[d] = current[d]
        /\ InCall(d)' <=> InCall(d)
  BY <1>1, <1>2 DEF Inv, TypeOK, InCall
<1>6. pc'[c] = "waiting" /\ request'[c] = r /\ InCall(c)' /\ ~InCall(c)
  BY <1>1, <1>2 DEF Inv, TypeOK, InCall
<1>7. /\ queue'[r.pid] = Append(queue[r.pid], c) /\ queue[r.pid] \in Seq(Clients)
      /\ \A p \in Pids \ {r.pid} : queue'[p] = queue[p]
  BY <1>1, <1>3 DEF Inv, TypeOK
<1>8. ~Queued(c, r.pid) /\ \A p \in Pids : ~Queued(c, p)
  BY <1>3, <1>6 DEF Inv, LockInv
<1>9. LockInv'
  <2>1. ASSUME NEW p \in Pids, NEW i \in DOMAIN queue'[p], NEW j \in DOMAIN queue'[p],
               queue'[p][i] = queue'[p][j]
        PROVE  i = j
    <3>1. CASE p # r.pid
      BY <1>7, <2>1, <3>1 DEF Inv, LockInv
    <3>2. CASE p = r.pid
      <4> DEFINE q == queue[r.pid]
      <4>1. /\ DOMAIN q = 1 .. Len(q) /\ Len(q) \in Nat
            /\ DOMAIN Append(q, c) = 1 .. Len(q) + 1
            /\ \A k \in 1 .. Len(q) : Append(q, c)[k] = q[k]
            /\ Append(q, c)[Len(q) + 1] = c
        BY <1>7
      <4>2. \A k \in DOMAIN q : q[k] # c
        BY <1>8 DEF Queued
      <4>3. \A k, l \in DOMAIN q : q[k] = q[l] => k = l
        BY <1>3 DEF Inv, LockInv
      <4>4. /\ i \in DOMAIN Append(q, c) /\ j \in DOMAIN Append(q, c)
            /\ Append(q, c)[i] = Append(q, c)[j]
        BY <1>7, <2>1, <3>2
      <4>5. \A k \in DOMAIN Append(q, c) : k \in DOMAIN q \/ k = Len(q) + 1
        BY <4>1
      <4>6. \A k \in DOMAIN q : Append(q, c)[k] = q[k] /\ q[k] # c
        BY <4>1, <4>2
      <4>7. CASE i \in DOMAIN q /\ j \in DOMAIN q
        BY <4>3, <4>4, <4>6, <4>7
      <4> QED
        BY <4>1, <4>4, <4>5, <4>6, <4>7
    <3> QED
      BY <3>1, <3>2
  <2>2. ASSUME NEW d \in Clients, NEW p \in Pids
        PROVE  Queued(d, p)' <=> InCall(d)' /\ request'[d].pid = p
    <3>1. CASE p # r.pid
      BY <1>5, <1>6, <1>7, <1>8, <3>1 DEF Inv, LockInv, Queued
    <3>2. CASE p = r.pid
      <4>1. Queued(d, p)' <=> Queued(d, p) \/ d = c
        BY <1>7, <3>2, JoinQueue, SMTT(30) DEF Queued
      <4>2. Queued(d, p) <=> InCall(d) /\ request[d].pid = p
        BY DEF Inv, LockInv
      <4> QED
        BY <1>5, <1>6, <3>2, <4>1, <4>2
    <3> QED
      BY <3>1, <3>2
  <2>3. \A d \in Clients : pc'[d] # "idle" => request'[d] \in Requests
    BY <1>5, <1>6 DEF Inv, LockInv
  <2>4. ASSUME NEW d \in Clients, pc'[d] = "mutating"
        PROVE  /\ Holds(d)' /\ request'[d].op = "apply"
               /\ current'[d] # NoProject /\ Matches(current'[d], request'[d])
    <3>1. d # c /\ pc[d] = "mutating"
      BY <1>5, <1>6, <2>4
    <3>2. /\ Holds(d) /\ request[d].op = "apply" /\ request[d].pid \in Pids
          /\ current[d] # NoProject /\ Matches(current[d], request[d])
      BY <3>1, RequestFields DEF Inv, LockInv
    <3>3. Holds(d)'
      BY <1>5, <1>7, <3>1, <3>2, JoinQueue DEF Holds
    <3> QED
      BY <1>5, <3>1, <3>2, <3>3
  <2> QED
    BY <2>1, <2>2, <2>3, <2>4 DEF LockInv
<1>10. CreateInv'
  BY <1>1, <1>2, <1>5, <1>6 DEF Inv, CreateInv, Fresh
<1>11. SnapshotIsCurrent'
  BY <1>2, <1>5, <1>6 DEF Inv, SnapshotIsCurrent
<1> QED
  BY <1>4, <1>9, <1>10, <1>11 DEF Inv

(* Leaving the lock preserves the invariant, whether the call stored a project *)
(* under its own id or nothing.                                               *)
LEMMA LeaveKeepsInv ==
  ASSUME Inv, NEW c \in Clients, Holds(c), InCall(c),
         NEW kind \in {"none", "ok", "not_found", "revision_conflict", "rejected"},
         NEW project \in Projects \cup {NoProject}, Leave(c, kind, project),
         projects' \in [Pids -> Projects \cup {NoProject}],
         \A p \in Pids : p # request[c].pid => projects'[p] = projects[p],
         projects' = projects \/ request[c].op = "create" \/ Stored(c) # NoProject
  PROVE  Inv'
<1> DEFINE pid == request[c].pid
<1>1. /\ pc' = [pc EXCEPT ![c] = "returned"]
      /\ outcome' = [outcome EXCEPT ![c] = Outcome(kind, project)]
      /\ queue' = [queue EXCEPT ![pid] = Tail(@)]
      /\ current' = [current EXCEPT ![c] = NoProject]
      /\ UNCHANGED <<locks, request>>
  BY DEF Leave
<1>2. pid \in Pids /\ request[c] \in Requests
  BY RequestFields DEF Inv, LockInv, InCall
<1>3. /\ queue[pid] \in Seq(Clients) /\ queue[pid] # <<>> /\ Head(queue[pid]) = c
      /\ \A i, j \in DOMAIN queue[pid] : queue[pid][i] = queue[pid][j] => i = j
  BY <1>2 DEF Inv, TypeOK, Holds, LockInv
<1>4. /\ queue'[pid] = Tail(queue[pid])
      /\ \A p \in Pids \ {pid} : queue'[p] = queue[p]
  BY <1>1, <1>2 DEF Inv, TypeOK
<1>tail. /\ Tail(queue[pid]) \in Seq(Clients)
         /\ \A i, j \in DOMAIN Tail(queue[pid]) : Tail(queue[pid])[i] = Tail(queue[pid])[j] => i = j
         /\ \A d : (\E i \in DOMAIN Tail(queue[pid]) : Tail(queue[pid])[i] = d)
                       <=> (\E i \in DOMAIN queue[pid] : queue[pid][i] = d) /\ d # Head(queue[pid])
  <2> DEFINE q == queue[pid]
  <2>1. q \in Seq(Clients) /\ q # <<>> /\ \A i, j \in DOMAIN q : q[i] = q[j] => i = j
    BY <1>3
  <2> HIDE DEF q
  <2>2. /\ Tail(q) \in Seq(Clients)
        /\ \A i, j \in DOMAIN Tail(q) : Tail(q)[i] = Tail(q)[j] => i = j
        /\ \A d : (\E i \in DOMAIN Tail(q) : Tail(q)[i] = d)
                      <=> (\E i \in DOMAIN q : q[i] = d) /\ d # Head(q)
    BY <2>1, LeaveQueue
  <2> QED
    BY <2>2 DEF q
<1>5. /\ pc'[c] = "returned" /\ ~InCall(c)' /\ current'[c] = NoProject
      /\ \A d \in Clients \ {c} :
           pc'[d] = pc[d] /\ current'[d] = current[d] /\ (InCall(d)' <=> InCall(d))
  BY <1>1 DEF Inv, TypeOK, InCall
<1>6. TypeOK'
  <2>1. queue' \in [Pids -> Seq(Clients)]
    BY <1>1, <1>2, <1>tail DEF Inv, TypeOK
  <2>2. outcome' \in [Clients -> Outcomes]
    BY <1>1, OutcomeType DEF Inv, TypeOK
  <2> QED
    BY <1>1, <2>1, <2>2 DEF Inv, TypeOK
<1>7. ASSUME NEW d \in Clients, pc'[d] = "mutating"
      PROVE  /\ d # c /\ pc[d] = "mutating" /\ Holds(d) /\ request[d].pid \in Pids
             /\ request[d].op = "apply" /\ request[d].pid # pid
             /\ current[d] # NoProject /\ Matches(current[d], request[d])
  <2>1. d # c /\ pc[d] = "mutating"
    BY <1>5, <1>7
  <2> QED
    BY <2>1, OneHolder, RequestFields DEF Inv, LockInv
<1>8. LockInv'
  <2>1. \A p \in Pids : \A i, j \in DOMAIN queue'[p] : queue'[p][i] = queue'[p][j] => i = j
    <3> SUFFICES ASSUME NEW p \in Pids
                 PROVE  \A i, j \in DOMAIN queue'[p] : queue'[p][i] = queue'[p][j] => i = j
      OBVIOUS
    <3>1. CASE p = pid
      BY <1>4, <1>tail, <3>1
    <3>2. CASE p # pid
      BY <1>4, <3>2 DEF Inv, LockInv
    <3> QED
      BY <3>1, <3>2
  <2>2. ASSUME NEW d \in Clients, NEW p \in Pids
        PROVE  Queued(d, p)' <=> InCall(d)' /\ request'[d].pid = p
    <3>1. Queued(d, p) <=> InCall(d) /\ request[d].pid = p
      BY DEF Inv, LockInv
    <3>2. CASE p # pid
      BY <1>1, <1>4, <1>5, <3>1, <3>2 DEF Queued
    <3>3. CASE p = pid
      <4>1. Queued(d, p)' <=> Queued(d, p) /\ d # c
        <5>1. Queued(d, p)' <=> \E i \in DOMAIN Tail(queue[pid]) : Tail(queue[pid])[i] = d
          BY <1>4, <3>3 DEF Queued
        <5>2. Queued(d, p) <=> \E i \in DOMAIN queue[pid] : queue[pid][i] = d
          BY <3>3 DEF Queued
        <5> QED
          BY <1>3, <1>tail, <5>1, <5>2
      <4> QED
        BY <1>1, <1>5, <3>1, <4>1
    <3> QED
      BY <3>2, <3>3
  <2>3. \A d \in Clients : pc'[d] # "idle" => request'[d] \in Requests
    BY <1>1, <1>2, <1>5 DEF Inv, LockInv
  <2>4. ASSUME NEW d \in Clients, pc'[d] = "mutating"
        PROVE  /\ Holds(d)' /\ request'[d].op = "apply"
               /\ current'[d] # NoProject /\ Matches(current'[d], request'[d])
    <3>1. /\ d # c /\ Holds(d) /\ request[d].pid \in Pids \ {pid} /\ request[d].op = "apply"
          /\ current[d] # NoProject /\ Matches(current[d], request[d])
      BY <1>7, <2>4
    <3>2. Holds(d)'
      BY <1>1, <1>4, <3>1 DEF Holds
    <3> QED
      BY <1>1, <1>5, <3>1, <3>2
  <2> QED
    BY <2>1, <2>2, <2>3, <2>4 DEF LockInv
<1>9. CreateInv'
  <2> SUFFICES ASSUME NEW d \in Clients, InCall(d)', request'[d].op = "create"
               PROVE  /\ projects'[request'[d].pid] = NoProject
                      /\ \A e \in Clients : InCall(e)' /\ request'[e].op = "create"
                                            /\ request'[e].pid = request'[d].pid => e = d
    BY DEF CreateInv
  <2>1. d # c /\ InCall(d) /\ request[d].op = "create" /\ request' = request
    BY <1>1, <1>5
  <2>2. /\ projects[request[d].pid] = NoProject
        /\ \A e \in Clients :
             InCall(e) /\ request[e].op = "create" /\ request[e].pid = request[d].pid => e = d
    BY <2>1 DEF Inv, CreateInv
  <2>3. request[d].pid \in Pids
    BY <2>1, RequestFields DEF Inv, LockInv, InCall
  <2>4. projects'[request[d].pid] = NoProject
    <3>1. CASE request[d].pid # pid
      BY <2>2, <2>3, <3>1
    <3>2. CASE request[d].pid = pid
      <4>1. request[c].op # "create"
        BY <2>1, <2>2, <3>2
      <4>2. projects' = projects
        BY <2>2, <3>2, <4>1 DEF Stored
      <4> QED
        BY <2>2, <4>2
    <3> QED
      BY <3>1, <3>2
  <2> QED
    BY <1>5, <2>1, <2>2, <2>4
<1>10. SnapshotIsCurrent'
  <2> SUFFICES ASSUME NEW d \in Clients, pc'[d] = "mutating"
               PROVE  current'[d] = projects'[request'[d].pid]
    BY DEF SnapshotIsCurrent
  <2>1. /\ d # c /\ pc[d] = "mutating" /\ request[d].pid \in Pids \ {pid}
    BY <1>7
  <2> QED
    BY <1>1, <1>5, <2>1 DEF Inv, SnapshotIsCurrent
<1> QED
  BY <1>6, <1>8, <1>9, <1>10 DEF Inv

(* How a step of Resume leaves the lock: with what, and with which projects.  *)
LEMMA HowItLeaves ==
  ASSUME Inv, NEW c \in Clients, Resume(c), pc'[c] # "mutating" \/ pc[c] = "mutating"
  PROVE  /\ Holds(c) /\ InCall(c) /\ request[c] \in Requests
         /\ \/ /\ CreateInLock(c) /\ Stored(c) = NoProject
               /\ Leave(c, "ok", NewProject)
               /\ projects' = [projects EXCEPT ![request[c].pid] = NewProject]
            \/ /\ projects' = projects
               /\ \E kind \in {"not_found", "revision_conflict", "rejected"} : Leave(c, kind, NoProject)
            \/ /\ GetInLock(c) /\ projects' = projects /\ Stored(c) \in Projects
               /\ Leave(c, "ok", Stored(c))
            \/ /\ MutatorReturns(c) /\ Stored(c) \in Projects /\ request[c].op = "apply"
               /\ Matches(Stored(c), request[c])
               /\ Leave(c, "ok", Changed(Stored(c), c, request[c]))
               /\ projects' = [projects EXCEPT ![request[c].pid] = Changed(Stored(c), c, request[c])]
<1>1. ASSUME pc[c] = "waiting" \/ pc[c] = "mutating"
      PROVE  request[c] \in Requests /\ InCall(c) /\ Stored(c) \in Projects \cup {NoProject}
  BY <1>1, RequestFields DEF Inv, LockInv, InCall, TypeOK, Stored
<1>2. CASE CreateInLock(c)
  BY <1>1, <1>2 DEF CreateInLock, HasLock, Inv, CreateInv, Stored
<1>3. CASE GetInLock(c)
  BY <1>1, <1>3 DEF GetInLock, HasLock
<1>4. CASE ApplyInLock(c)
  <2>1. pc[c] = "waiting" /\ Holds(c) /\ projects' = projects
    BY <1>4 DEF ApplyInLock, HasLock
  <2>2. pc'[c] # "mutating"
    BY <2>1
  <2>3. ~(pc' = [pc EXCEPT ![c] = "mutating"])
    BY <2>2 DEF Inv, TypeOK
  <2>4. Leave(c, "not_found", NoProject) \/ Leave(c, "revision_conflict", NoProject)
    BY <1>4, <2>3 DEF ApplyInLock
  <2> QED
    BY <1>1, <2>1, <2>4
<1>5. CASE MutatorReturns(c)
  <2>1. pc[c] = "mutating" /\ Holds(c) /\ current[c] = Stored(c) /\ request[c].op = "apply"
        /\ Matches(Stored(c), request[c]) /\ Stored(c) # NoProject
    BY <1>5 DEF MutatorReturns, Inv, LockInv, SnapshotIsCurrent, Stored
  <2> QED
    BY <1>1, <1>5, <2>1 DEF MutatorReturns
<1>6. CASE MutatorRaises(c)
  <2>1. pc[c] = "mutating" /\ Holds(c) /\ projects' = projects /\ Leave(c, "rejected", NoProject)
    BY <1>6 DEF MutatorRaises, Inv, LockInv
  <2> QED
    BY <1>1, <2>1
<1> QED
  BY <1>2, <1>3, <1>4, <1>5, <1>6 DEF Resume

(* Starting the mutator, without leaving the lock. *)
LEMMA StartMutator ==
  ASSUME Inv, NEW c \in Clients, Resume(c), pc'[c] = "mutating", pc[c] # "mutating"
  PROVE  /\ pc[c] = "waiting" /\ Holds(c) /\ request[c].op = "apply"
         /\ Stored(c) # NoProject /\ Matches(Stored(c), request[c])
         /\ current' = [current EXCEPT ![c] = Stored(c)]
         /\ pc' = [pc EXCEPT ![c] = "mutating"]
         /\ UNCHANGED <<projects, locks, queue, request, outcome>>
<1>1. \A kind, project : ~Leave(c, kind, project)
  BY DEF Leave, Inv, TypeOK
<1>2. ApplyInLock(c)
  BY <1>1 DEF Resume, CreateInLock, GetInLock, MutatorReturns, MutatorRaises
<1> QED
  BY <1>1, <1>2 DEF ApplyInLock, HasLock

LEMMA ResumeKeepsInv ==
  ASSUME Inv, NEW c \in Clients, Resume(c)
  PROVE  Inv'
<1>1. CASE pc'[c] = "mutating" /\ pc[c] # "mutating"
  <2>1. /\ pc[c] = "waiting" /\ Holds(c) /\ request[c].op = "apply"
        /\ Stored(c) # NoProject /\ Matches(Stored(c), request[c])
        /\ current' = [current EXCEPT ![c] = Stored(c)]
        /\ pc' = [pc EXCEPT ![c] = "mutating"]
        /\ UNCHANGED <<projects, locks, queue, request, outcome>>
    BY <1>1, StartMutator
  <2>2. request[c] \in Requests /\ request[c].pid \in Pids /\ Stored(c) \in Projects
    BY <2>1, RequestFields DEF Inv, LockInv, TypeOK, Stored
  <2>3. TypeOK'
    BY <2>1, <2>2 DEF Inv, TypeOK
  <2>4. /\ pc'[c] = "mutating" /\ current'[c] = Stored(c)
        /\ \A d \in Clients \ {c} : pc'[d] = pc[d] /\ current'[d] = current[d]
        /\ \A d \in Clients : InCall(d)' <=> InCall(d)
    BY <2>1 DEF Inv, TypeOK, InCall
  <2>5. /\ \A d \in Clients : Holds(d)' <=> Holds(d)
        /\ \A d \in Clients, p \in Pids : Queued(d, p)' <=> Queued(d, p)
    BY <2>1 DEF Holds, Queued
  <2>6. LockInv'
    <3>1. \A d \in Clients, p \in Pids : Queued(d, p)' <=> InCall(d)' /\ request'[d].pid = p
      BY <2>1, <2>4, <2>5 DEF Inv, LockInv
    <3>2. \A d \in Clients : pc'[d] # "idle" => request'[d] \in Requests
      BY <2>1, <2>2, <2>4 DEF Inv, LockInv
    <3>3. \A d \in Clients : pc'[d] = "mutating" =>
            /\ Holds(d)' /\ request'[d].op = "apply"
            /\ current'[d] # NoProject /\ Matches(current'[d], request'[d])
      BY <2>1, <2>4, <2>5 DEF Inv, LockInv
    <3>4. \A p \in Pids : \A i, j \in DOMAIN queue'[p] : queue'[p][i] = queue'[p][j] => i = j
      BY <2>1 DEF Inv, LockInv
    <3> QED
      BY <3>1, <3>2, <3>3, <3>4 DEF LockInv
  <2>7. CreateInv'
    BY <2>1, <2>4 DEF Inv, CreateInv
  <2>8. SnapshotIsCurrent'
    BY <2>1, <2>4 DEF Inv, SnapshotIsCurrent, Stored
  <2> QED
    BY <2>3, <2>6, <2>7, <2>8 DEF Inv
<1>2. CASE pc'[c] # "mutating" \/ pc[c] = "mutating"
  <2>1. Holds(c) /\ InCall(c) /\ request[c] \in Requests /\ request[c].pid \in Pids
    BY <1>2, HowItLeaves, RequestFields
  <2>2. projects \in [Pids -> Projects \cup {NoProject}]
    BY DEF Inv, TypeOK
  <2>3. CASE /\ CreateInLock(c) /\ Leave(c, "ok", NewProject)
             /\ projects' = [projects EXCEPT ![request[c].pid] = NewProject]
    <3>1. request[c].op = "create"
      BY <2>3 DEF CreateInLock, HasLock
    <3>2. projects' \in [Pids -> Projects \cup {NoProject}]
      BY <2>1, <2>2, <2>3, NewProjectType
    <3> QED
      BY <2>1, <2>2, <2>3, <3>1, <3>2, NewProjectType, LeaveKeepsInv
  <2>4. CASE /\ projects' = projects
             /\ \E kind \in {"not_found", "revision_conflict", "rejected"} : Leave(c, kind, NoProject)
    BY <2>1, <2>2, <2>4, LeaveKeepsInv
  <2>5. CASE projects' = projects /\ Stored(c) \in Projects /\ Leave(c, "ok", Stored(c))
    BY <2>1, <2>2, <2>5, LeaveKeepsInv
  <2>6. CASE /\ Stored(c) \in Projects /\ Leave(c, "ok", Changed(Stored(c), c, request[c]))
             /\ projects' = [projects EXCEPT ![request[c].pid] = Changed(Stored(c), c, request[c])]
    <3>1. Changed(Stored(c), c, request[c]) \in Projects /\ Stored(c) # NoProject
      BY <2>1, <2>6, ChangedType, RequestFields, StoreAssumption
    <3>2. projects' \in [Pids -> Projects \cup {NoProject}]
      BY <2>1, <2>2, <2>6, <3>1
    <3> QED
      BY <2>1, <2>2, <2>6, <3>1, <3>2, LeaveKeepsInv
  <2> QED
    BY <1>2, <2>3, <2>4, <2>5, <2>6, HowItLeaves
<1> QED
  BY <1>1, <1>2

LEMMA ReturnKeepsInv ==
  ASSUME Inv, NEW c \in Clients, Return(c)
  PROVE  Inv'
<1>1. /\ pc[c] = "returned" /\ pc' = [pc EXCEPT ![c] = "idle"]
      /\ request' = [request EXCEPT ![c] = NoRequest]
      /\ outcome' = [outcome EXCEPT ![c] = Outcome("none", NoProject)]
      /\ UNCHANGED <<projects, locks, queue, current>>
  BY DEF Return
<1>2. /\ pc'[c] = "idle" /\ ~InCall(c) /\ ~InCall(c)'
      /\ \A d \in Clients \ {c} :
           pc'[d] = pc[d] /\ request'[d] = request[d] /\ (InCall(d)' <=> InCall(d))
  BY <1>1 DEF Inv, TypeOK, InCall
<1>3. TypeOK'
  BY <1>1, OutcomeType DEF Inv, TypeOK
<1>4. /\ \A d \in Clients \ {c} : Holds(d)' <=> Holds(d)
      /\ \A d \in Clients, p \in Pids : Queued(d, p)' <=> Queued(d, p)
  BY <1>1, <1>2 DEF Holds, Queued
<1>5. LockInv'
  <2>1. \A d \in Clients, p \in Pids : Queued(d, p)' <=> InCall(d)' /\ request'[d].pid = p
    BY <1>2, <1>4 DEF Inv, LockInv
  <2>2. \A d \in Clients : pc'[d] # "idle" => request'[d] \in Requests
    BY <1>2 DEF Inv, LockInv
  <2>3. \A d \in Clients : pc'[d] = "mutating" =>
          /\ Holds(d)' /\ request'[d].op = "apply"
          /\ current'[d] # NoProject /\ Matches(current'[d], request'[d])
    BY <1>1, <1>2, <1>4 DEF Inv, LockInv
  <2> QED
    BY <1>1, <2>1, <2>2, <2>3 DEF Inv, LockInv
<1>6. CreateInv'
  BY <1>1, <1>2 DEF Inv, CreateInv
<1>7. SnapshotIsCurrent'
  BY <1>1, <1>2 DEF Inv, SnapshotIsCurrent
<1> QED
  BY <1>3, <1>5, <1>6, <1>7 DEF Inv

LEMMA StoreInv == Spec => []Inv
<1>1. Init => Inv
  <2> SUFFICES ASSUME Init PROVE Inv
    OBVIOUS
  <2>1. TypeOK
    BY OutcomeType DEF Init, TypeOK
  <2>2. \A c \in Clients : pc[c] = "idle" /\ ~InCall(c)
    BY DEF Init, InCall
  <2>3. \A p \in Pids : queue[p] = <<>> /\ DOMAIN queue[p] = {}
    BY DEF Init
  <2> QED
    BY <2>1, <2>2, <2>3 DEF Inv, LockInv, CreateInv, SnapshotIsCurrent, Queued
<1>2. Inv /\ [Next]_vars => Inv'
  <2> SUFFICES ASSUME Inv, [Next]_vars PROVE Inv'
    OBVIOUS
  <2>1. CASE UNCHANGED vars
    BY <2>1 DEF vars, Inv, TypeOK, LockInv, CreateInv, SnapshotIsCurrent, InCall, Holds, Queued
  <2>2. ASSUME NEW c \in Clients, Call(c) PROVE Inv'
    BY <2>2, CallKeepsInv
  <2>3. ASSUME NEW c \in Clients, Resume(c) PROVE Inv'
    BY <2>3, ResumeKeepsInv
  <2>4. ASSUME NEW c \in Clients, Return(c) PROVE Inv'
    BY <2>4, ReturnKeepsInv
  <2> QED
    BY <2>1, <2>2, <2>3, <2>4 DEF Next
<1> QED
  BY <1>1, <1>2, PTL DEF Spec

-----------------------------------------------------------------------------
(* Types, and the snapshot a mutator works on: what apply read inside the     *)
(* lock is still the committed project when the mutator returns.              *)
THEOREM TypeCorrect == Spec => []TypeOK
<1>1. Inv => TypeOK
  BY DEF Inv
<1> QED
  BY <1>1, StoreInv, PTL

THEOREM SnapshotNeverStale == Spec => []SnapshotIsCurrent
<1>1. Inv => SnapshotIsCurrent
  BY DEF Inv
<1> QED
  BY <1>1, StoreInv, PTL

(* What one step can do to one project: nothing, create it, or append the     *)
(* change of the client that leaves its lock.                                 *)
Appends(c, p) ==
  /\ request[c].pid = p /\ request[c] \in Requests /\ request[c].op = "apply"
  /\ projects[p] \in Projects /\ Matches(projects[p], request[c])
  /\ Leave(c, "ok", Changed(projects[p], c, request[c]))
  /\ projects'[p] = Changed(projects[p], c, request[c])

LEMMA ProjectSteps ==
  ASSUME Inv, [Next]_vars, NEW p \in Pids
  PROVE  \/ projects'[p] = projects[p]
         \/ projects[p] = NoProject /\ projects'[p] = NewProject
         \/ \E c \in Clients : Appends(c, p)
<1>1. CASE UNCHANGED projects
  BY <1>1
<1>2. ASSUME NEW c \in Clients, Resume(c), ~UNCHANGED projects
      PROVE  \/ projects'[p] = projects[p]
             \/ projects[p] = NoProject /\ projects'[p] = NewProject
             \/ Appends(c, p)
  <2>1. pc'[c] # "mutating" \/ pc[c] = "mutating"
    BY <1>2, StartMutator
  <2>2. projects \in [Pids -> Projects \cup {NoProject}] /\ request[c] \in Requests
    BY <1>2, <2>1, HowItLeaves DEF Inv, TypeOK
  <2>3. CASE /\ Stored(c) = NoProject
             /\ projects' = [projects EXCEPT ![request[c].pid] = NewProject]
    BY <2>2, <2>3 DEF Stored
  <2>4. CASE /\ Stored(c) \in Projects /\ request[c].op = "apply" /\ Matches(Stored(c), request[c])
             /\ Leave(c, "ok", Changed(Stored(c), c, request[c]))
             /\ projects' = [projects EXCEPT ![request[c].pid] = Changed(Stored(c), c, request[c])]
    BY <2>2, <2>4 DEF Stored, Appends
  <2> QED
    BY <1>2, <2>1, <2>3, <2>4, HowItLeaves
<1>3. ASSUME NEW c \in Clients, Call(c) \/ Return(c) PROVE UNCHANGED projects
  BY <1>3 DEF Call, Return
<1> QED
  BY <1>1, <1>2, <1>3 DEF Next, vars

(* A project's history is only ever extended, by one change at a time. *)
THEOREM HistoryIsAppendOnly == Spec => AppendOnly
<1> DEFINE Step == \A p \in Pids :
       projects'[p] # projects[p] =>
         \/ projects[p] = NoProject /\ projects'[p] = NewProject
         \/ \E c \in Clients, e \in Expectations :
              projects'[p] = Changed(projects[p], c, [expected |-> e])
<1>1. Inv /\ [Next]_vars => [Step]_vars
  <2> SUFFICES ASSUME Inv, [Next]_vars, NEW p \in Pids, projects'[p] # projects[p]
               PROVE  \/ projects[p] = NoProject /\ projects'[p] = NewProject
                      \/ \E c \in Clients, e \in Expectations :
                           projects'[p] = Changed(projects[p], c, [expected |-> e])
    OBVIOUS
  <2>1. CASE \E c \in Clients : Appends(c, p)
    <3>1. PICK c \in Clients : Appends(c, p)
      BY <2>1
    <3>2. request[c].expected \in Expectations
      BY <3>1, RequestFields DEF Appends
    <3>3. projects'[p] = Changed(projects[p], c, [expected |-> request[c].expected])
      BY <3>1 DEF Appends, Changed
    <3> QED
      BY <3>2, <3>3
  <2> QED
    BY <2>1, ProjectSteps
<1> QED
  BY <1>1, StoreInv, PTL DEF Spec, AppendOnly

(* Compare-and-set, for every interleaving of any number of callers. *)
THEOREM CompareAndSet == Spec => []OneWinnerPerRevision
<1>1. Init => OneWinnerPerRevision
  BY DEF Init, OneWinnerPerRevision
<1>2. Inv /\ OneWinnerPerRevision /\ [Next]_vars => OneWinnerPerRevision'
  <2> SUFFICES ASSUME Inv, OneWinnerPerRevision, [Next]_vars,
                      NEW p \in Pids, projects'[p] # NoProject
               PROVE  /\ projects'[p].revision = 1 + Len(projects'[p].log)
                      /\ \A i \in DOMAIN projects'[p].log :
                           projects'[p].log[i].expected \in {i, NoRevision}
    BY DEF OneWinnerPerRevision
  <2>1. CASE projects'[p] = projects[p]
    BY <2>1 DEF OneWinnerPerRevision
  <2>2. CASE projects'[p] = NewProject
    BY <2>2 DEF NewProject
  <2>3. CASE \E c \in Clients : Appends(c, p)
    <3>1. PICK c \in Clients : Appends(c, p)
      BY <2>3
    <3> DEFINE log == projects[p].log
               change == [by |-> c, expected |-> request[c].expected]
    <3>2. /\ projects[p] \in Projects /\ projects[p] # NoProject
          /\ request[c].expected \in {NoRevision, projects[p].revision}
          /\ request[c].expected \in Expectations
          /\ projects'[p] = Changed(projects[p], c, request[c])
      BY <3>1, RequestFields, StoreAssumption DEF Appends, Matches
    <3>3. /\ projects'[p].revision = projects[p].revision + 1
          /\ projects'[p].log = Append(log, change)
      BY <3>2 DEF Changed
    <3>4. /\ projects[p].revision = 1 + Len(log) /\ log \in Seq(Changes) /\ Len(log) \in Nat
          /\ \A i \in DOMAIN log : log[i].expected \in {i, NoRevision}
      BY <3>2 DEF OneWinnerPerRevision, Projects
    <3>5. change \in Changes /\ change.expected \in {1 + Len(log), NoRevision}
      BY <3>2, <3>4 DEF Changes
    <3>6. /\ DOMAIN log = 1 .. Len(log) /\ Len(Append(log, change)) = Len(log) + 1
          /\ DOMAIN Append(log, change) = 1 .. Len(log) + 1
          /\ \A i \in 1 .. Len(log) : Append(log, change)[i] = log[i]
          /\ Append(log, change)[Len(log) + 1] = change
      BY <3>4, <3>5
    <3> HIDE DEF change, log
    <3>7. ASSUME NEW i \in DOMAIN Append(log, change)
          PROVE  Append(log, change)[i].expected \in {i, NoRevision}
      <4>1. i \in 1 .. Len(log) \/ i = Len(log) + 1
        BY <3>4, <3>6
      <4> QED
        BY <3>4, <3>5, <3>6, <4>1
    <3> QED
      BY <3>3, <3>4, <3>6, <3>7
  <2> QED
    BY <2>1, <2>2, <2>3, ProjectSteps
<1> QED
  BY <1>1, <1>2, StoreInv, PTL DEF Spec

(* No lost update: a change reported as applied stays in the committed        *)
(* project, at the revision that was reported, whatever the others do.        *)
THEOREM NoLostUpdate == Spec => []AcknowledgedIsCommitted
<1>1. Init => AcknowledgedIsCommitted
  BY DEF Init, AcknowledgedIsCommitted
<1>2. Inv /\ OneWinnerPerRevision /\ AcknowledgedIsCommitted /\ [Next]_vars
        => AcknowledgedIsCommitted'
  <2> SUFFICES ASSUME Inv, OneWinnerPerRevision, AcknowledgedIsCommitted, [Next]_vars,
                      NEW c \in Clients, pc'[c] = "returned", request'[c].op = "apply",
                      outcome'[c].kind = "ok"
               PROVE  /\ projects'[request'[c].pid] # NoProject
                      /\ outcome'[c].project.revision
                           \in 2 .. projects'[request'[c].pid].revision
                      /\ projects'[request'[c].pid].log[outcome'[c].project.revision - 1]
                           = [by |-> c, expected |-> request'[c].expected]
    BY DEF AcknowledgedIsCommitted
  <2>1. CASE Resume(c)
    <3>1. pc'[c] # "mutating" /\ ~UNCHANGED pc
      BY <2>1 DEF Resume, CreateInLock, GetInLock, ApplyInLock, HasLock, MutatorReturns,
                  MutatorRaises
    <3>2. \A kind, project : Leave(c, kind, project) =>
            /\ request' = request /\ outcome'[c] = [kind |-> kind, project |-> project]
      BY DEF Leave, Outcome, Inv, TypeOK
    <3>3. request' = request /\ ~CreateInLock(c) /\ ~GetInLock(c)
      BY <2>1, <3>1, <3>2, HowItLeaves DEF CreateInLock, GetInLock, HasLock
    <3>4. /\ request[c] \in Requests /\ Stored(c) \in Projects
          /\ Leave(c, "ok", Changed(Stored(c), c, request[c]))
          /\ projects' = [projects EXCEPT ![request[c].pid] = Changed(Stored(c), c, request[c])]
      <4>1. \A kind \in {"not_found", "revision_conflict", "rejected"} :
              ~Leave(c, kind, NoProject)
        <5> SUFFICES ASSUME NEW kind \in {"not_found", "revision_conflict", "rejected"},
                            Leave(c, kind, NoProject)
                     PROVE  FALSE
          OBVIOUS
        <5>1. outcome'[c] = [kind |-> kind, project |-> NoProject]
          BY <3>2
        <5> QED
          BY <5>1
      <4> HIDE <3>2
      <4> QED
        BY <2>1, <3>1, <3>3, <4>1, HowItLeaves
    <3>5. /\ request[c].pid \in Pids /\ request[c].expected \in Expectations
          /\ Stored(c) # NoProject
      BY <3>4, RequestFields, StoreAssumption
    <3> DEFINE project == Changed(Stored(c), c, request[c])
               change == [by |-> c, expected |-> request[c].expected]
    <3>6. /\ project \in Projects /\ project # NoProject
          /\ project.revision = Stored(c).revision + 1
          /\ project.log = Append(Stored(c).log, change)
      BY <3>4, <3>5, ChangedType
    <3>7. /\ Stored(c).revision = 1 + Len(Stored(c).log)
          /\ Stored(c).log \in Seq(Changes) /\ Len(Stored(c).log) \in Nat
      BY <3>4, <3>5 DEF OneWinnerPerRevision, Stored, Projects
    <3>8. Append(Stored(c).log, change)[Len(Stored(c).log) + 1] = change
      BY <3>7
    <3>9. outcome'[c].project = project /\ projects'[request[c].pid] = project
      <4> HIDE DEF project
      <4>1. outcome'[c] = [kind |-> "ok", project |-> project]
        BY <3>2, <3>4 DEF project
      <4>2. projects' = [projects EXCEPT ![request[c].pid] = project]
        BY <3>4 DEF project
      <4> QED
        BY <3>5, <4>1, <4>2 DEF Inv, TypeOK
    <3> HIDE DEF project, change
    <3>10. /\ project.revision \in 2 .. project.revision
           /\ project.log[project.revision - 1] = change
      BY <3>6, <3>7, <3>8
    <3> QED
      BY <3>3, <3>6, <3>9, <3>10 DEF change
  <2>2. CASE ~Resume(c)
    <3>1. pc[c] = "returned" /\ request'[c] = request[c] /\ outcome'[c] = outcome[c]
      <4>1. CASE UNCHANGED vars
        BY <4>1 DEF vars
      <4>2. ASSUME NEW d \in Clients, d # c, Call(d) \/ Resume(d) \/ Return(d)
            PROVE  pc'[c] = pc[c] /\ request'[c] = request[c] /\ outcome'[c] = outcome[c]
        BY <4>2 DEF Call, Resume, CreateInLock, GetInLock, ApplyInLock, MutatorReturns,
                    MutatorRaises, Return, Leave, Inv, TypeOK
      <4>3. ~Call(c) /\ ~Return(c)
        BY DEF Call, Return, Inv, TypeOK
      <4> QED
        BY <2>2, <4>1, <4>2, <4>3 DEF Next
    <3> DEFINE p == request[c].pid
               r == outcome[c].project.revision
               change == [by |-> c, expected |-> request[c].expected]
    <3>2. p \in Pids
      BY <3>1, RequestFields DEF Inv, LockInv
    <3>3. /\ projects[p] # NoProject /\ r \in 2 .. projects[p].revision
          /\ projects[p].log[r - 1] = change
      BY <3>1 DEF AcknowledgedIsCommitted
    <3>4. CASE projects'[p] = projects[p]
      BY <3>1, <3>3, <3>4
    <3>5. ASSUME NEW d \in Clients, Appends(d, p)
          PROVE  /\ projects'[p] # NoProject /\ r \in 2 .. projects'[p].revision
                 /\ projects'[p].log[r - 1] = change
      <4>1. /\ projects[p] \in Projects /\ request[d].expected \in Expectations
            /\ projects'[p] = Changed(projects[p], d, request[d])
        BY <3>5, RequestFields DEF Appends
      <4>2. /\ projects'[p] # NoProject
            /\ projects'[p].revision = projects[p].revision + 1
            /\ projects'[p].log
                 = Append(projects[p].log, [by |-> d, expected |-> request[d].expected])
        <5> HIDE DEF p
        <5>0. /\ Changed(projects[p], d, request[d]) \in Projects
              /\ Changed(projects[p], d, request[d]) # NoProject
          BY <4>1, ChangedType
        <5>1. projects'[p] # NoProject
          BY <4>1, <5>0
        <5> QED
          BY <4>1, <5>1 DEF Changed
      <4>3. /\ projects[p].log \in Seq(Changes) /\ projects[p].revision \in Nat
            /\ projects[p].revision = 1 + Len(projects[p].log)
        BY <3>2, <3>3, <4>1 DEF Projects, OneWinnerPerRevision
      <4>4. r - 1 \in 1 .. Len(projects[p].log)
        BY <3>3, <4>3, SMTT(30)
      <4>5. projects'[p].log[r - 1] = projects[p].log[r - 1]
        <5>1. ASSUME NEW log \in Seq(Changes), NEW i \in 1 .. Len(log), NEW new
              PROVE  Append(log, new)[i] = log[i]
          OBVIOUS
        <5> HIDE DEF p, r
        <5>2. Append(projects[p].log, [by |-> d, expected |-> request[d].expected])[r - 1]
                = projects[p].log[r - 1]
          BY <4>3, <4>4, <5>1
        <5> QED
          BY <4>2, <5>2
      <4> HIDE DEF p, r, change
      <4>6. r \in 2 .. projects'[p].revision
        BY <3>3, <4>2, <4>3
      <4>7. projects'[p].log[r - 1] = change
        BY <3>3, <4>5
      <4> QED
        BY <4>2, <4>6, <4>7
    <3> QED
      BY <3>1, <3>2, <3>3, <3>4, <3>5, ProjectSteps
  <2> QED
    BY <2>1, <2>2
<1> QED
  BY <1>1, <1>2, StoreInv, CompareAndSet, PTL DEF Spec

-----------------------------------------------------------------------------
(* Both specifications are over the same data. *)
LEMMA SameData ==
  /\ Abstract!Requests = Requests /\ Abstract!NoRequest = NoRequest
  /\ Abstract!NewProject = NewProject
  /\ \A kind, project : Abstract!Outcome(kind, project) = Outcome(kind, project)
  /\ \A project, c, r : Abstract!Changed(project, c, r) = Changed(project, c, r)
  /\ \A project, r : Abstract!Matches(project, r) <=> Matches(project, r)
<1>1. Abstract!Requests = Requests /\ Abstract!NoRequest = NoRequest
  BY DEF Abstract!Requests, Requests, Abstract!NoRequest, NoRequest, Abstract!Expectations,
         Expectations
<1>2. Abstract!NewProject = NewProject
  BY DEF Abstract!NewProject, NewProject
<1>3. \A kind, project : Abstract!Outcome(kind, project) = Outcome(kind, project)
  BY DEF Abstract!Outcome, Outcome
<1>4. \A project, c, r : Abstract!Changed(project, c, r) = Changed(project, c, r)
  BY DEF Abstract!Changed, Changed
<1>5. \A project, r : Abstract!Matches(project, r) <=> Matches(project, r)
  BY DEF Abstract!Matches, Matches
<1> QED
  BY <1>1, <1>2, <1>3, <1>4, <1>5

(* Refinement: every step of the store is a step of RevisionedStore or a      *)
(* stutter, a call taking effect where it leaves the lock.                    *)
THEOREM ImplementsAbstract == Spec => ImplementsRevisionedStore
<1>1. Init => Abstract!Init
  <2> SUFFICES ASSUME Init PROVE Abstract!Init
    OBVIOUS
  <2>1. CallStatus = [c \in Clients |-> "idle"]
    BY DEF Init, CallStatus, InCall
  <2> QED
    BY <2>1, SameData DEF Init, Abstract!Init
<1>2. ASSUME Inv, [Next]_vars PROVE [Abstract!Next]_(Abstract!vars)
  <2>1. CASE UNCHANGED vars
    <3>1. UNCHANGED CallStatus
      BY <2>1 DEF vars, CallStatus, InCall
    <3> QED
      BY <2>1, <3>1 DEF vars, Abstract!vars
  <2>2. ASSUME NEW c \in Clients, Call(c) PROVE Abstract!Invoke(c)
    <3>1. pc[c] = "idle" /\ pc' = [pc EXCEPT ![c] = "waiting"]
      BY <2>2 DEF Call
    <3>2. CallStatus[c] = "idle" /\ CallStatus' = [CallStatus EXCEPT ![c] = "pending"]
      BY <1>2, <3>1 DEF CallStatus, InCall, Inv, TypeOK
    <3>3. ASSUME NEW p, Fresh(p) PROVE Abstract!Fresh(p)
      BY <1>2, <3>3 DEF Fresh, Abstract!Fresh, CallStatus, InCall, Inv, TypeOK
    <3> QED
      BY <2>2, <3>2, <3>3, SameData DEF Call, Abstract!Invoke
  <2>3. ASSUME NEW c \in Clients, Return(c) PROVE Abstract!Return(c)
    <3>1. pc[c] = "returned" /\ pc' = [pc EXCEPT ![c] = "idle"]
      BY <2>3 DEF Return
    <3>2. CallStatus[c] = "returned" /\ CallStatus' = [CallStatus EXCEPT ![c] = "idle"]
      BY <1>2, <3>1 DEF CallStatus, InCall, Inv, TypeOK
    <3> QED
      BY <2>3, <3>2, SameData DEF Return, Abstract!Return
  <2>4. ASSUME NEW c \in Clients, Resume(c)
        PROVE  Abstract!Next \/ UNCHANGED Abstract!vars
    <3>1. CASE pc'[c] = "mutating" /\ pc[c] # "mutating"
      <4>1. /\ pc[c] = "waiting" /\ pc' = [pc EXCEPT ![c] = "mutating"]
            /\ UNCHANGED <<projects, request, outcome>>
        BY <1>2, <2>4, <3>1, StartMutator
      <4>2. UNCHANGED CallStatus
        BY <1>2, <4>1 DEF CallStatus, InCall, Inv, TypeOK
      <4> QED
        BY <4>1, <4>2 DEF Abstract!vars
    <3>2. CASE pc'[c] # "mutating" \/ pc[c] = "mutating"
      <4>1. ASSUME NEW kind, NEW project, Leave(c, kind, project)
            PROVE  Abstract!End(c, kind, project)
        <5>1. pc' = [pc EXCEPT ![c] = "returned"]
          BY <4>1 DEF Leave
        <5>2. CallStatus' = [CallStatus EXCEPT ![c] = "returned"]
          BY <1>2, <5>1 DEF CallStatus, InCall, Inv, TypeOK
        <5> QED
          BY <4>1, <5>2, SameData DEF Leave, Abstract!End
      <4>2. /\ CallStatus[c] = "pending" /\ Stored(c) = Abstract!Current(c)
        BY <1>2, <2>4, <3>2, HowItLeaves DEF Stored, Abstract!Current, CallStatus
      <4>3. CASE CreateInLock(c)
        <5>1. Abstract!Create(c)
          BY <4>1, <4>2, <4>3, SameData DEF CreateInLock, HasLock, Abstract!Create, Abstract!Pending
        <5> QED
          BY <5>1 DEF Abstract!Next
      <4>4. CASE GetInLock(c)
        <5>1. Abstract!Get(c) \/ Abstract!NotFound(c)
          BY <4>1, <4>2, <4>4
          DEF GetInLock, HasLock, Abstract!Get, Abstract!NotFound, Abstract!Pending
        <5> QED
          BY <5>1 DEF Abstract!Next
      <4>5. CASE ApplyInLock(c)
        <5>1. ~(pc' = [pc EXCEPT ![c] = "mutating"])
          BY <1>2, <3>2, <4>5 DEF ApplyInLock, HasLock, Inv, TypeOK
        <5>2. Abstract!Conflict(c) \/ Abstract!NotFound(c)
          BY <4>1, <4>2, <4>5, <5>1, SameData
          DEF ApplyInLock, HasLock, Abstract!Conflict, Abstract!NotFound, Abstract!Pending
        <5> QED
          BY <5>2 DEF Abstract!Next
      <4>6. CASE MutatorReturns(c) \/ MutatorRaises(c)
        <5>1. /\ request[c].op = "apply" /\ current[c] = Stored(c) /\ Stored(c) # NoProject
              /\ Matches(Stored(c), request[c])
          BY <1>2, <4>6
          DEF MutatorReturns, MutatorRaises, Inv, LockInv, SnapshotIsCurrent, Stored
        <5>2. Abstract!Commit(c) \/ Abstract!Reject(c)
          BY <4>1, <4>2, <4>6, <5>1, SameData
          DEF MutatorReturns, MutatorRaises, Abstract!Commit, Abstract!Reject, Abstract!Pending
        <5> QED
          BY <5>2 DEF Abstract!Next
      <4> QED
        BY <2>4, <4>3, <4>4, <4>5, <4>6 DEF Resume
    <3> QED
      BY <3>1, <3>2
  <2> QED
    BY <1>2, <2>1, <2>2, <2>3, <2>4 DEF Next, Abstract!Next
<1> QED
  BY <1>1, <1>2, StoreInv, PTL DEF Spec, ImplementsRevisionedStore, Abstract!Spec

=============================================================================
