--------------------------- MODULE SchedulerProofs ---------------------------
(***************************************************************************)
(* The scheduler's guarantees, for every finite project: type correctness,   *)
(* the order, the cycle verdict, legality and minimality of the dates; and   *)
(* at the end the loops of the calendar it counts with, for every call.      *)
(***************************************************************************)
EXTENDS Scheduler, CalendarLoop, SchedulingLemmas

(* What ProjectsAssumption says of the project at hand. *)
LEMMA ProjectFields ==
  ASSUME NEW p \in Projects
  PROVE  /\ IsFiniteSet(p.tasks)
         /\ p.pos \in [p.tasks -> Nat]
         /\ \A t, u \in p.tasks : p.pos[t] = p.pos[u] => t = u
         /\ p.preds \in [p.tasks -> Seq(Id)]
         /\ p.dur \in [p.tasks -> Nat \ {0}]
         /\ p.snb \in [p.tasks -> Int \cup {NoDate}]
         /\ p.start \in Int
BY ProjectsAssumption

(* The list of predecessors, and every part of its index set, is finite. *)
LEMMA ListFinite ==
  ASSUME NEW s \in Seq(Id), NEW I \in SUBSET DOMAIN s
  PROVE  IsFiniteSet(I) /\ Cardinality(I) \in Nat /\ Cardinality(DOMAIN s) = Len(s)
<1>1. DOMAIN s = 1 .. Len(s) /\ Len(s) \in Nat
  OBVIOUS
<1>2. IsFiniteSet(DOMAIN s) /\ Cardinality(DOMAIN s) = Len(s)
  <2>1. IsFiniteSet(1 .. Len(s)) /\ Cardinality(1 .. Len(s)) = IF 1 > Len(s) THEN 0 ELSE Len(s) - 1 + 1
    BY <1>1, FS_Interval, SMTT(30)
  <2> QED
    BY <1>1, <2>1
<1> QED
  BY <1>2, FS_Subset, FS_CardinalityType

-----------------------------------------------------------------------------
(* Ordering a task leaves the others with exactly their remaining waits.     *)
LEMMA WaitingAfterPop ==
  ASSUME TypeOK, OrderInv, NEW current \in Tasks \ Ordered, NEW t \in Tasks,
         order' = Append(order, current), UNCHANGED project
  PROVE  /\ Ordered' = Ordered \cup {current}
         /\ Waiting(t)' = Waiting(t) \ Listed(t, current)
         /\ Listed(t, current) \subseteq Waiting(t)
         /\ Cardinality(Waiting(t)') = Cardinality(Waiting(t)) - Cardinality(Listed(t, current))
         /\ Cardinality(Waiting(t)') \in Nat
<1>1. Ordered' = Ordered \cup {current}
  <2>1. order \in Seq(Tasks) /\ Len(order) \in Nat
    BY DEF TypeOK
  <2>2. DOMAIN order' = 1 .. Len(order) + 1
    BY <2>1
  <2>3. \A i \in 1 .. Len(order) : order'[i] = order[i]
    BY <2>1
  <2>4. order'[Len(order) + 1] = current
    BY <2>1
  <2> QED
    BY <2>1, <2>2, <2>3, <2>4 DEF Ordered
<1>2. Waiting(t)' = Waiting(t) \ Listed(t, current)
  BY <1>1 DEF Waiting, Listed
<1>3. Listed(t, current) \subseteq Waiting(t)
  BY DEF Waiting, Listed
<1>4. project.preds[t] \in Seq(Id)
  BY ProjectFields DEF TypeOK, Tasks
<1>5. IsFiniteSet(Waiting(t)) /\ Waiting(t) \cap Listed(t, current) = Listed(t, current)
  BY <1>3, <1>4, ListFinite DEF Waiting
<1>6. Cardinality(Waiting(t) \ Listed(t, current))
        = Cardinality(Waiting(t)) - Cardinality(Listed(t, current))
  BY <1>5, FS_Difference
<1>7. Waiting(t) \ Listed(t, current) \in SUBSET DOMAIN project.preds[t]
  BY DEF Waiting
<1> QED
  BY <1>1, <1>2, <1>3, <1>4, <1>6, <1>7, ListFinite

(* A task waits for no listed predecessor exactly when its in_degree is zero.*)
LEMMA ZeroInDegree ==
  ASSUME TypeOK, NEW t \in Tasks
  PROVE  Cardinality(Waiting(t)) = 0 <=> Waiting(t) = {}
<1>1. project.preds[t] \in Seq(Id)
  BY ProjectFields DEF TypeOK, Tasks
<1> QED
  BY <1>1, ListFinite, FS_EmptySet DEF Waiting

-----------------------------------------------------------------------------
LEMMA InitialState == Init => TypeOK /\ OrderInv
<1> SUFFICES ASSUME Init PROVE TypeOK /\ OrderInv
  OBVIOUS
<1>1. project \in Projects /\ order = <<>> /\ next = 1
  BY DEF Init, InitialInDegree
<1>2. \A t \in Tasks : project.preds[t] \in Seq(Id)
  BY <1>1, ProjectFields DEF Tasks
<1>3. Ordered = {}
  BY <1>1 DEF Ordered
<1>4. \A t \in Tasks : Waiting(t) = DOMAIN project.preds[t] /\ inDegree[t] = Cardinality(Waiting(t))
  BY <1>2, <1>3, ListFinite DEF Waiting, Init, InitialInDegree
<1>5. \A t \in Tasks : inDegree[t] = 0 <=> Waiting(t) = {}
  BY <1>2, <1>4, ListFinite, FS_EmptySet
<1>6. TypeOK
  BY <1>1, <1>2 DEF Init, InitialInDegree, TypeOK
<1>7. OrderInv
  <2>1. phase # "unknown" => \A t \in Tasks : Preds(t) \subseteq Tasks
    BY DEF Init, InitialInDegree
  <2>2. Cardinality(Ordered) = Len(order)
    BY <1>1, <1>3, FS_EmptySet
  <2>3. ready = {t \in Tasks \ Ordered : Waiting(t) = {}}
    BY <1>3, <1>5 DEF Init, InitialInDegree
  <2>4. DOMAIN order = {} /\ Len(order) = 0
    BY <1>1
  <2>5. phase \in {"order", "unknown"}
    BY DEF Init, InitialInDegree
  <2>6. \A S \in SUBSET Tasks : S \cap Ordered = {}
    BY <1>3
  <2> QED
    BY <1>1, <1>4, <2>1, <2>2, <2>3, <2>4, <2>5, <2>6 DEF OrderInv
<1> QED
  BY <1>6, <1>7

(* Popping the highest ready task keeps the ordering invariant. *)
LEMMA PopKeepsOrder ==
  ASSUME TypeOK, OrderInv, PopReady
  PROVE  TypeOK' /\ OrderInv'
<1>1. PICK current \in ready :
        /\ \A t \in ready : project.pos[current] <= project.pos[t]
        /\ order' = Append(order, current)
        /\ inDegree' = [t \in Tasks |-> inDegree[t] - Cardinality(Listed(t, current))]
        /\ ready' = (ready \ {current})
             \cup {t \in Tasks : Listed(t, current) # {} /\ inDegree'[t] = 0}
  BY DEF PopReady, HighestReady, TimesListed
<1>2. UNCHANGED <<project, phase, next, start, end, warned>> /\ phase = "order"
  BY DEF PopReady, HighestReady, TimesListed
<1>3. current \in Tasks \ Ordered /\ Waiting(current) = {} /\ Tasks' = Tasks
  BY <1>2 DEF OrderInv, Tasks
<1>4. order \in Seq(Tasks) /\ Len(order) \in Nat /\ next = 1
  BY <1>2 DEF TypeOK, OrderInv
<1>5. /\ Len(order') = Len(order) + 1 /\ order' \in Seq(Tasks)
      /\ DOMAIN order = 1 .. Len(order) /\ DOMAIN order' = 1 .. Len(order) + 1
      /\ \A i \in 1 .. Len(order) : order'[i] = order[i]
      /\ order'[Len(order) + 1] = current
  BY <1>1, <1>3, <1>4
<1>6. Ordered' = Ordered \cup {current}
  BY <1>1, <1>2, <1>3, WaitingAfterPop
<1>7. \A t \in Tasks :
        /\ Waiting(t)' = Waiting(t) \ Listed(t, current)
        /\ inDegree'[t] = Cardinality(Waiting(t)') /\ inDegree'[t] \in Nat
  BY <1>1, <1>2, <1>3, WaitingAfterPop DEF OrderInv
<1>8. TypeOK'
  <2>1. inDegree' \in [Tasks' -> Nat]
    BY <1>1, <1>3, <1>7
  <2>2. ready' \subseteq Tasks'
    BY <1>1, <1>3 DEF TypeOK
  <2>3. order' \in Seq(Tasks') /\ next' \in 1 .. Len(order') + 1
    BY <1>2, <1>3, <1>4, <1>5
  <2> QED
    BY <1>2, <1>3, <2>1, <2>2, <2>3 DEF TypeOK
<1>9. \A t \in Tasks : inDegree'[t] = 0 <=> Waiting(t)' = {}
  <2> SUFFICES ASSUME NEW t \in Tasks PROVE inDegree'[t] = 0 <=> Waiting(t)' = {}
    OBVIOUS
  <2>1. project.preds[t] \in Seq(Id) /\ Waiting(t)' \in SUBSET DOMAIN project.preds[t]
    BY <1>7, ProjectFields DEF TypeOK, Tasks, Waiting
  <2> QED
    BY <1>7, <2>1, ListFinite, FS_EmptySet
<1>10. ready' = {t \in Tasks' \ Ordered' : Waiting(t)' = {}}
  <2>1. ASSUME NEW t \in Tasks, t \notin Ordered', Waiting(t)' = {} PROVE t \in ready'
    BY <1>1, <1>3, <1>6, <1>7, <1>9, <2>1 DEF OrderInv
  <2>2. ASSUME NEW t \in ready' PROVE t \in Tasks \ Ordered' /\ Waiting(t)' = {}
    <3>1. CASE t \in ready \ {current}
      BY <1>3, <1>6, <1>7, <3>1 DEF OrderInv
    <3>2. CASE t \in Tasks /\ Listed(t, current) # {} /\ inDegree'[t] = 0
      <4>1. t # current
        BY <1>3, <3>2 DEF Listed, Waiting
      <4>2. t \notin Ordered
        <5>1. SUFFICES ASSUME t \in Ordered PROVE FALSE
          OBVIOUS
        <5>2. PICK j \in DOMAIN order : order[j] = t
          BY <5>1 DEF Ordered
        <5>3. PICK i \in DOMAIN project.preds[t] : project.preds[t][i] = current
          BY <3>2 DEF Listed
        <5>4. current \in Preds(order[j])
          BY <5>2, <5>3 DEF Preds, PredsOf
        <5>5. PICK k \in 1 .. j - 1 : order[k] = current
          BY <5>4 DEF OrderInv
        <5>6. k \in DOMAIN order
          BY <1>5, <5>2, <5>5
        <5> QED
          BY <1>3, <5>5, <5>6 DEF Ordered
      <4> QED
        BY <1>6, <1>9, <3>2, <4>1, <4>2
    <3> QED
      BY <1>1, <2>2, <3>1, <3>2
  <2> QED
    BY <1>3, <1>8, <2>1, <2>2 DEF TypeOK
<1>11. \A i, j \in DOMAIN order' : order'[i] = order'[j] => i = j
  <2> SUFFICES ASSUME NEW i \in DOMAIN order', NEW j \in DOMAIN order', order'[i] = order'[j]
               PROVE  i = j
    OBVIOUS
  <2>1. \A k \in DOMAIN order : order[k] # current
    BY <1>3 DEF Ordered
  <2>2. \A k \in DOMAIN order' : k \in DOMAIN order \/ k = Len(order) + 1
    BY <1>4, <1>5
  <2>3. \A k, l \in DOMAIN order : order[k] = order[l] => k = l
    BY DEF OrderInv
  <2> QED
    BY <1>5, <2>1, <2>2, <2>3
<1>12. Cardinality(Ordered') = Len(order')
  <2>1. IsFiniteSet(Ordered)
    <3>1. Ordered \subseteq Tasks
      BY <1>4 DEF Ordered
    <3> QED
      BY <3>1, ProjectFields, FS_Subset DEF TypeOK, Tasks
  <2>2. Cardinality(Ordered \cup {current}) = Cardinality(Ordered) + 1
    BY <1>3, <2>1, FS_AddElement
  <2> QED
    BY <1>5, <1>6, <2>2 DEF OrderInv
<1>13. \A j \in DOMAIN order' : \A q \in Preds(order[j])' : \E i \in 1 .. j - 1 : order'[i] = q
  <2> SUFFICES ASSUME NEW j \in DOMAIN order', NEW q \in Preds(order[j])'
               PROVE  \E i \in 1 .. j - 1 : order'[i] = q
    OBVIOUS
  <2>1. CASE j \in DOMAIN order
    <3>1. q \in Preds(order[j])
      BY <1>2, <1>5, <2>1 DEF Preds
    <3>2. PICK i \in 1 .. j - 1 : order[i] = q
      BY <2>1, <3>1 DEF OrderInv
    <3> QED
      BY <1>5, <2>1, <3>2
  <2>2. CASE j = Len(order) + 1
    <3>1. q \in Preds(current)
      BY <1>2, <1>5, <2>2 DEF Preds
    <3>2. q \in Ordered
      BY <1>3, <3>1 DEF Preds, PredsOf, Waiting
    <3>3. PICK i \in DOMAIN order : order[i] = q
      BY <3>2 DEF Ordered
    <3> QED
      BY <1>4, <1>5, <2>2, <3>3
  <2> QED
    BY <1>5, <2>1, <2>2
<1>14. \A S \in SUBSET Tasks' : WaitsOnItself(project, S)' => S \cap Ordered' = {}
  <2> SUFFICES ASSUME NEW S \in SUBSET Tasks, WaitsOnItself(project, S)
               PROVE  S \cap Ordered' = {}
    BY <1>2, <1>3 DEF WaitsOnItself
  <2>1. S \cap Ordered = {}
    BY DEF OrderInv
  <2>2. ASSUME current \in S PROVE FALSE
    <3>1. PICK q \in PredsOf(project, current) : q \in S
      BY <2>2 DEF WaitsOnItself
    <3>2. q \in Ordered
      BY <1>3, <3>1 DEF PredsOf, Waiting
    <3> QED
      BY <2>1, <3>1, <3>2
  <2> QED
    BY <1>6, <2>1, <2>2
<1>15. \A i \in DOMAIN order', t \in Tasks' :
         project'.pos[t] < project'.pos[order'[i]] =>
           \/ \E k \in 1 .. i - 1 : order'[k] = t
           \/ \E q \in Preds(t)' : \A k \in 1 .. i - 1 : order'[k] # q
  <2> SUFFICES ASSUME NEW i \in DOMAIN order', NEW t \in Tasks,
                      project.pos[t] < project.pos[order'[i]],
                      ~ \E k \in 1 .. i - 1 : order'[k] = t
               PROVE  \E q \in Preds(t) : \A k \in 1 .. i - 1 : order'[k] # q
    BY <1>2, <1>3 DEF Preds
  <2>1. CASE i \in DOMAIN order
    <3>1. /\ order'[i] = order[i]
          /\ \A k \in 1 .. i - 1 : order'[k] = order[k]
      BY <1>5, <2>1
    <3>2. \E q \in Preds(t) : \A k \in 1 .. i - 1 : order[k] # q
      BY <2>1, <3>1 DEF OrderInv
    <3> QED
      BY <3>1, <3>2
  <2>2. CASE i = Len(order) + 1
    <3>1. t \notin Ordered
      BY <1>4, <1>5, <2>2 DEF Ordered
    <3>2. t \notin ready
      <4>1. project.pos[t] \in Nat /\ project.pos[current] \in Nat
        BY <1>3, ProjectFields DEF TypeOK, Tasks
      <4>2. project.pos[t] < project.pos[current]
        BY <1>5, <2>2
      <4> QED
        BY <1>1, <4>1, <4>2
    <3>3. Waiting(t) # {}
      BY <3>1, <3>2 DEF OrderInv
    <3>4. PICK q \in Preds(t) : q \notin Ordered
      BY <3>3 DEF Waiting, Preds, PredsOf
    <3> QED
      BY <1>4, <1>5, <2>2, <3>4 DEF Ordered
  <2> QED
    BY <1>5, <2>1, <2>2
<1>16. OrderInv'
  <2>1. \A t \in Tasks' : Preds(t)' \subseteq Tasks'
    BY <1>2, <1>3 DEF OrderInv, Preds
  <2> QED
    BY <1>2, <1>3, <1>4, <1>7, <1>10, <1>11, <1>12, <1>13, <1>14, <1>15, <2>1 DEF OrderInv
<1> QED
  BY <1>8, <1>16

-----------------------------------------------------------------------------
Inv == TypeOK /\ OrderInv /\ PlaceInv

(* When the loop has ordered as many tasks as there are, it has ordered all.  *)
LEMMA OrderComplete ==
  ASSUME Inv, phase \in {"place", "done"}
  PROVE  Ordered = Tasks
<1>1. Ordered \subseteq Tasks /\ IsFiniteSet(Tasks)
  BY ProjectFields DEF Inv, TypeOK, Ordered, Tasks
<1>2. Cardinality(Ordered) = Cardinality(Tasks)
  BY DEF Inv, OrderInv
<1> QED
  BY <1>1, <1>2, FS_Subset

(* A project that is placed has neither unknown predecessors nor a cycle. *)
LEMMA PlacedIsSchedulable ==
  ASSUME Inv, phase \in {"place", "done"}
  PROVE  Schedulable(project)
<1>1. /\ \A t \in project.tasks : /\ project.preds[t] \in Seq(Id)
                                  /\ project.dur[t] \in Nat \ {0}
                                  /\ project.snb[t] \in Int \cup {NoDate}
      /\ project.start \in Int
  BY ProjectFields DEF Inv, TypeOK
<1>2. ASSUME NEW t \in project.tasks PROVE project.preds[t] \in Seq(project.tasks)
  <2>1. \A i \in DOMAIN project.preds[t] : project.preds[t][i] \in project.tasks
    BY DEF Inv, OrderInv, Preds, PredsOf, Tasks
  <2> QED
    BY <1>1, <2>1
<1>3. Acyclic(project)
  <2>1. Ordered = Tasks
    BY OrderComplete
  <2> QED
    BY <2>1 DEF Acyclic, Inv, OrderInv, Tasks
<1> QED
  BY <1>1, <1>2, <1>3 DEF Schedulable

(* The task to be placed next: its predecessors are placed, and the search    *)
(* for the latest of their ends finds what EarliestStart describes.          *)
LEMMA NextToPlace ==
  ASSUME Inv, phase = "place", next <= Len(order), NEW e \in EarliestStarts(order[next])
  PROVE  /\ \A q \in Preds(order[next]) : \E i \in 1 .. next - 1 : order[i] = q
         /\ e = EarliestStart(project, order[next], start)
         /\ e \in Int /\ ~IsWeekend(e)
<1> DEFINE t == order[next]
<1>1. t \in project.tasks /\ Schedulable(project) /\ next \in DOMAIN order
  BY PlacedIsSchedulable DEF Inv, TypeOK, Tasks
<1>2. \A q \in Preds(t) : \E i \in 1 .. next - 1 : order[i] = q
  BY <1>1 DEF Inv, OrderInv
<1>3. ASSUME NEW q \in PredsOf(project, t)
      PROVE  start[q] \in Int /\ ~IsWeekend(start[q]) /\ end[q] = EndFor(project, q, start[q])
  BY <1>2, <1>3 DEF Inv, PlaceInv, Preds
<1> HIDE DEF t
<1>4. /\ EarliestStart(project, t, start) \in Int
      /\ ~IsWeekend(EarliestStart(project, t, start))
      /\ \A q \in PredsOf(project, t) : EndFor(project, q, start[q]) \in Int
  BY <1>1, <1>3, EarliestStartFacts
<1>5. e = EarliestStart(project, t, start)
  <2>1. CASE Preds(t) = {}
    BY <2>1 DEF EarliestStarts, LastPreds, EarliestStart, Preds, t
  <2>2. CASE Preds(t) # {}
    <3> DEFINE ends == {EndFor(project, q, start[q]) : q \in PredsOf(project, t)}
    <3>1. PICK q \in PredsOf(project, t) :
            e = FirstWorkdayAfter(end[q]) /\ \A r \in PredsOf(project, t) : end[r] <= end[q]
      BY <2>2 DEF EarliestStarts, LastPreds, Preds, t
    <3>2. end[q] \in ends /\ (\A f \in ends : f \in Int) /\ \A f \in ends : f <= end[q]
      BY <1>3, <1>4, <3>1
    <3> HIDE DEF ends
    <3>3. LatestEnd(ends) \in ends /\ \A f \in ends : f <= LatestEnd(ends)
      BY <3>2 DEF LatestEnd
    <3>4. LatestEnd(ends) = end[q]
      BY <3>2, <3>3
    <3>5. EarliestStart(project, t, start) = FirstWorkdayAfter(LatestEnd(ends))
      BY <2>2, Zenon DEF EarliestStart, Preds, ends
    <3> QED
      BY <3>1, <3>4, <3>5
  <2> QED
    BY <2>1, <2>2
<1> QED
  BY <1>2, <1>4, <1>5 DEF t

(* Placing the next task keeps its types and puts it where StartDates does,   *)
(* and leaves the tasks placed before it alone.                              *)
LEMMA PlaceKeepsInv ==
  ASSUME Inv, PlaceTask
  PROVE  Inv'
<1> DEFINE t == order[next]
<1>1. PICK e \in EarliestStarts(t) :
        /\ start' = [start EXCEPT ![t] = NotBefore(project, t, e)]
        /\ end' = [end EXCEPT ![t] = EndFor(project, t, NotBefore(project, t, e))]
        /\ warned' = warned \cup WarnedFor(t)
  BY DEF PlaceTask
<1> DEFINE n == NotBefore(project, t, e)
<1>2. /\ phase = "place" /\ next <= Len(order) /\ next' = next + 1
      /\ UNCHANGED <<project, phase, inDegree, ready, order>>
  BY DEF PlaceTask
<1>3. /\ order \in Seq(Tasks) /\ Len(order) \in Nat /\ next \in 1 .. Len(order) /\ t \in Tasks
      /\ project \in Projects /\ Tasks' = Tasks
  BY <1>2 DEF Inv, TypeOK, Tasks
<1>4. /\ \A q \in Preds(t) : \E i \in 1 .. next - 1 : order[i] = q
      /\ e = EarliestStart(project, t, start) /\ e \in Int /\ ~IsWeekend(e)
  BY <1>1, <1>2, NextToPlace
<1>5. n \in Int /\ ~IsWeekend(n)
  <2>1. project.snb[t] \in Int \cup {NoDate}
    BY <1>3, ProjectFields DEF Tasks
  <2> QED
    BY <1>4, <2>1, NotBeforeFacts
<1>6. EndFor(project, t, n) \in Int
  <2>1. project.dur[t] - 1 \in Nat
    BY <1>3, ProjectFields DEF Tasks
  <2> QED
    BY <1>5, <2>1, AddWorkdaysFacts DEF EndFor
<1>7. TypeOK'
  <2>1. start' \in [Tasks -> Int \cup {NoDate}] /\ end' \in [Tasks -> Int \cup {NoDate}]
    BY <1>1, <1>3, <1>5, <1>6 DEF Inv, TypeOK
  <2>2. warned' \subseteq Tasks
    BY <1>1, <1>3 DEF Inv, TypeOK, WarnedFor
  <2>3. next' \in 1 .. Len(order) + 1
    BY <1>2, <1>3
  <2> QED
    BY <1>2, <1>3, <2>1, <2>2, <2>3 DEF Inv, TypeOK
<1>8. OrderInv'
  <2>1. Ordered' = Ordered /\ \A u \in Tasks : Waiting(u)' = Waiting(u) /\ Preds(u)' = Preds(u)
    BY <1>2 DEF Ordered, Waiting, Preds
  <2> QED
    BY <1>2, <1>3, <2>1 DEF Inv, OrderInv
<1>9. \A i \in 1 .. next - 1 :
        /\ order[i] # t /\ order[i] \in Tasks /\ start'[order[i]] = start[order[i]]
        /\ end'[order[i]] = end[order[i]]
  <2>1. \A k \in 1 .. next - 1 : order[k] # t /\ order[k] \in Tasks
    BY <1>3 DEF Inv, OrderInv
  <2> QED
    BY <1>1, <1>3, <2>1 DEF Inv, TypeOK
<1>10. start'[t] = n /\ end'[t] = EndFor(project, t, n)
  BY <1>1, <1>3 DEF Inv, TypeOK
<1>11. ASSUME NEW i \in 1 .. next
       PROVE  EarliestStart(project, order[i], start') = EarliestStart(project, order[i], start)
  <2>1. \A q \in PredsOf(project, order[i]) : \E k \in 1 .. i - 1 : order[k] = q
    BY <1>3 DEF Inv, OrderInv, Preds
  <2>2. \A q \in PredsOf(project, order[i]) : start'[q] = start[q]
    BY <1>3, <1>9, <2>1
  <2> QED
    BY <2>2, SameEarliestStart
<1>12. \A u \in warned' : u \in WarnedFor(u)'
  BY <1>1, <1>2 DEF Inv, PlaceInv, WarnedFor
<1>13. PlaceInv'
  <2> SUFFICES ASSUME NEW i \in 1 .. next
               PROVE  LET u == order[i] IN
                      /\ start'[u] = NotBefore(project, u, EarliestStart(project, u, start'))
                      /\ start'[u] \in Int /\ ~IsWeekend(start'[u])
                      /\ end'[u] = EndFor(project, u, start'[u])
                      /\ WarnedFor(u) \subseteq warned'
    BY <1>2, <1>3, <1>12 DEF PlaceInv, WarnedFor
  <2>1. CASE i = next
    BY <1>1, <1>4, <1>5, <1>10, <1>11, <2>1
  <2>2. CASE i \in 1 .. next - 1
    <3> DEFINE u == order[i]
    <3>1. start'[u] = start[u] /\ end'[u] = end[u] /\ warned \subseteq warned'
      BY <1>1, <1>9, <2>2
    <3>2. /\ start[u] = NotBefore(project, u, EarliestStart(project, u, start))
          /\ start[u] \in Int /\ ~IsWeekend(start[u])
          /\ end[u] = EndFor(project, u, start[u])
          /\ WarnedFor(u) \subseteq warned
      BY <1>2, <2>2 DEF Inv, PlaceInv
    <3>3. EarliestStart(project, u, start') = EarliestStart(project, u, start)
      BY <1>11
    <3> HIDE DEF u
    <3> QED
      BY <3>1, <3>2, <3>3 DEF u
  <2> QED
    BY <1>3, <2>1, <2>2
<1> QED
  BY <1>7, <1>8, <1>13 DEF Inv

(* The steps that place nothing. *)
LEMMA OtherStepsKeepInv ==
  ASSUME Inv, FinishOrder \/ Finish \/ UNCHANGED vars
  PROVE  Inv'
<1>1. UNCHANGED <<project, inDegree, ready, order, next, start, end, warned>>
  BY DEF FinishOrder, AllOrdered, Finish, vars
<1>2. /\ Tasks' = Tasks /\ Ordered' = Ordered
      /\ \A t \in Tasks : Waiting(t)' = Waiting(t) /\ Preds(t)' = Preds(t)
      /\ order \in Seq(Tasks) /\ Len(order) \in Nat /\ next \in 1 .. Len(order) + 1
  BY <1>1 DEF Tasks, Ordered, Waiting, Preds, Inv, TypeOK
<1>3. /\ phase' \in {"place", "cycle", "done", "order", "unknown"}
      /\ phase = "unknown" => phase' = "unknown"
      /\ phase' = "order" => next = 1
      /\ phase' = "cycle" => ready = {} /\ Len(order) # Cardinality(Tasks)
      /\ phase' \in {"place", "done"} => Len(order) = Cardinality(Tasks)
      /\ phase' = "done" => next = Len(order) + 1
      /\ phase' \in {"place", "done"} => phase \in {"place", "done"} \/ next = 1
  <2>1. CASE FinishOrder
    BY <2>1 DEF FinishOrder, AllOrdered, Inv, OrderInv
  <2>2. CASE Finish
    BY <1>2, <2>2 DEF Finish, Inv, OrderInv
  <2>3. CASE UNCHANGED vars
    BY <2>3 DEF vars, Inv, TypeOK, OrderInv
  <2> QED
    BY <2>1, <2>2, <2>3
<1>4. TypeOK'
  BY <1>1, <1>2, <1>3 DEF Inv, TypeOK
<1>5. OrderInv'
  <2>1. phase' # "unknown" => \A t \in Tasks' : Preds(t)' \subseteq Tasks'
    BY <1>2, <1>3 DEF Inv, OrderInv
  <2>2. \A t \in Tasks' : inDegree'[t] = Cardinality(Waiting(t)')
    BY <1>1, <1>2 DEF Inv, OrderInv
  <2>3. ready' = {t \in Tasks' \ Ordered' : Waiting(t)' = {}}
    BY <1>1, <1>2 DEF Inv, OrderInv
  <2>4. /\ \A i, j \in DOMAIN order' : order'[i] = order'[j] => i = j
        /\ Cardinality(Ordered') = Len(order')
        /\ \A j \in DOMAIN order' : \A q \in Preds(order[j])' : \E i \in 1 .. j - 1 : order'[i] = q
    BY <1>1, <1>2 DEF Inv, OrderInv, Preds
  <2>5. \A S \in SUBSET Tasks' : WaitsOnItself(project, S)' => S \cap Ordered' = {}
    BY <1>1, <1>2 DEF Inv, OrderInv, WaitsOnItself
  <2>6. \A i \in DOMAIN order', t \in Tasks' :
          project'.pos[t] < project'.pos[order'[i]] =>
            \/ \E k \in 1 .. i - 1 : order'[k] = t
            \/ \E q \in Preds(t)' : \A k \in 1 .. i - 1 : order'[k] # q
    BY <1>1, <1>2 DEF Inv, OrderInv
  <2> QED
    BY <1>1, <1>2, <1>3, <2>1, <2>2, <2>3, <2>4, <2>5, <2>6 DEF OrderInv
<1>6. PlaceInv'
  <2>0. \A u \in warned' : u \in WarnedFor(u)'
    BY <1>1 DEF Inv, PlaceInv, WarnedFor
  <2>1. CASE phase \in {"place", "done"}
    BY <1>1, <1>2, <2>0, <2>1 DEF Inv, PlaceInv, WarnedFor
  <2>2. CASE phase' \in {"place", "done"} /\ next = 1
    BY <1>1, <2>0, <2>2 DEF PlaceInv
  <2> QED
    BY <1>3, <2>0, <2>1, <2>2 DEF PlaceInv
<1> QED
  BY <1>4, <1>5, <1>6 DEF Inv

(* The invariant on which the theorems below rest. *)
LEMMA SchedulerInv == Spec => []Inv
<1>1. Init => Inv
  BY InitialState DEF Inv, PlaceInv, Init
<1>2. Inv /\ [Next]_vars => Inv'
  <2> SUFFICES ASSUME Inv, [Next]_vars PROVE Inv'
    OBVIOUS
  <2>1. CASE PopReady
    <3>1. \A u \in warned' : u \in WarnedFor(u)'
      BY <2>1 DEF Inv, PlaceInv, PopReady, WarnedFor
    <3> QED
      BY <2>1, <3>1, PopKeepsOrder DEF Inv, PlaceInv, PopReady
  <2>2. CASE PlaceTask
    BY <2>2, PlaceKeepsInv
  <2>3. CASE FinishOrder \/ Finish \/ UNCHANGED vars
    BY <2>3, OtherStepsKeepInv
  <2> QED
    BY <2>1, <2>2, <2>3 DEF Next
<1> QED
  BY <1>1, <1>2, PTL DEF Spec

(* The variables keep their types, whatever the project. *)
THEOREM TypeCorrect == Spec => []TypeOK
<1>1. Inv => TypeOK
  BY DEF Inv
<1> QED
  BY <1>1, SchedulerInv, PTL

(* Between two iterations of the ordering loop, in_degree, ready and the order  *)
(* made so far keep telling one story of the predecessor lists, whatever the     *)
(* project: a list that repeats an id is counted, and counted down, twice.      *)
THEOREM OrderingKeepsItsCounts == Spec => []OrderInv
<1>1. Inv => OrderInv
  BY DEF Inv
<1> QED
  BY <1>1, SchedulerInv, PTL

(* What a finished call knows of each of its tasks. *)
LEMMA AllPlaced ==
  ASSUME Inv, phase = "done", NEW t \in Tasks
  PROVE  /\ start[t] = NotBefore(project, t, EarliestStart(project, t, start))
         /\ start[t] \in Int /\ ~IsWeekend(start[t])
         /\ end[t] = EndFor(project, t, start[t])
         /\ WarnedFor(t) \subseteq warned
<1>1. next - 1 = Len(order) /\ DOMAIN order = 1 .. next - 1
  BY DEF Inv, TypeOK, OrderInv
<1>2. PICK i \in 1 .. next - 1 : order[i] = t
  BY <1>1, OrderComplete DEF Ordered
<1> QED
  BY <1>2 DEF Inv, PlaceInv

LEMMA StartsAreStartDates ==
  ASSUME Inv, phase = "done"
  PROVE  Schedulable(project) /\ start = StartDates(project)
<1>1. start = [t \in project.tasks |-> start[t]]
  BY DEF Inv, TypeOK, Tasks
<1>2. \A t \in project.tasks : start[t] = NotBefore(project, t, EarliestStart(project, t, start))
  BY AllPlaced DEF Tasks
<1>3. Schedulable(project)
  BY PlacedIsSchedulable
<1> QED
  BY <1>1, <1>2, <1>3, StartDatesUnique

(* Kahn's loop and the placing loop compute the function that the rest of the *)
(* specification calls StartDates, whatever the project: the order in which   *)
(* ready tasks are taken has no influence on the dates.                      *)
THEOREM ComputesTheFunction == Spec => []ComputesStartDates
<1>1. Inv => ComputesStartDates
  BY StartsAreStartDates DEF ComputesStartDates
<1> QED
  BY <1>1, SchedulerInv, PTL

(* Every schedule that compute_schedule returns is legal: the Finish-to-Start *)
(* dependencies, the workdays and the constraints hold for all its tasks.     *)
THEOREM SchedulesAreFeasible == Spec => []ScheduleFeasible
<1>1. Inv => ScheduleFeasible
  <2> SUFFICES ASSUME Inv, phase = "done"
               PROVE  /\ Feasible(project, start)
                      /\ \A t \in Tasks : end[t] = EndFor(project, t, start[t]) /\ ~IsWeekend(end[t])
    BY DEF ScheduleFeasible
  <2>1. Feasible(project, start)
    BY StartsAreStartDates, StartDatesFeasible
  <2>2. ASSUME NEW t \in Tasks PROVE end[t] = EndFor(project, t, start[t]) /\ ~IsWeekend(end[t])
    <3>1. project.dur[t] - 1 \in Nat
      BY ProjectFields DEF Inv, TypeOK, Tasks
    <3> QED
      BY <3>1, AllPlaced, AddWorkdaysFacts DEF EndFor
  <2> QED
    BY <2>1, <2>2
<1> QED
  BY <1>1, SchedulerInv, PTL

(* No legal choice of dates starts any task earlier than the schedule does.   *)
THEOREM SchedulesAreEarliest == Spec => []NoEarlierSchedule
<1>1. Inv => NoEarlierSchedule
  <2> SUFFICES ASSUME Inv, phase = "done", NEW s \in [Tasks -> Horizon],
                      Feasible(project, s), NEW t \in Tasks
               PROVE  start[t] <= s[t]
    BY DEF NoEarlierSchedule
  <2>1. \A u \in project.tasks : s[u] \in Int
    BY HorizonAssumption DEF Tasks
  <2> QED
    BY <2>1, StartsAreStartDates, StartDatesLeast DEF Tasks
<1> QED
  BY <1>1, SchedulerInv, PTL

(* A cycle is reported exactly when there is one, naming the tasks it blocks. *)
THEOREM CyclesAreReported == Spec => []CycleVerdict
<1>1. Inv => CycleVerdict
  <2> SUFFICES ASSUME Inv PROVE CycleVerdict
    OBVIOUS
  <2> DEFINE unresolved == Tasks \ Ordered
  <2>1. ASSUME phase = "cycle"
        PROVE  /\ unresolved # {} /\ WaitsOnItself(project, unresolved)
               /\ \A S \in SUBSET Tasks : WaitsOnItself(project, S) => S \subseteq unresolved
    <3>1. unresolved # {}
      <4>1. Ordered \subseteq Tasks
        BY DEF Inv, TypeOK, Ordered
      <4>2. Cardinality(Ordered) # Cardinality(Tasks)
        BY <2>1 DEF Inv, OrderInv
      <4> QED
        BY <4>1, <4>2
    <3>2. ASSUME NEW t \in unresolved PROVE Preds(t) \cap unresolved # {}
      <4>1. PICK i \in DOMAIN project.preds[t] : project.preds[t][i] \notin Ordered
        BY <2>1, <3>2 DEF Inv, OrderInv, Waiting
      <4>2. project.preds[t][i] \in Preds(t) /\ Preds(t) \subseteq Tasks
        BY <2>1, <3>2 DEF Inv, OrderInv, Preds, PredsOf
      <4> QED
        BY <4>1, <4>2
    <3> QED
      BY <3>1, <3>2 DEF WaitsOnItself, Preds, Inv, OrderInv
  <2>2. ASSUME phase \in {"place", "done"} PROVE Acyclic(project)
    <3>1. Ordered = Tasks
      BY <2>2, OrderComplete
    <3> QED
      BY <3>1 DEF Acyclic, Inv, OrderInv, Tasks
  <2> QED
    BY <2>1, <2>2 DEF CycleVerdict
<1> QED
  BY <1>1, SchedulerInv, PTL

(* The order of the table decides between tasks that could both be next.      *)
THEOREM TableOrderKept == Spec => []TableOrder
<1>1. Inv => TableOrder
  <2> SUFFICES ASSUME Inv, NEW i \in DOMAIN order, NEW j \in DOMAIN order, i < j,
                      project.pos[order[j]] < project.pos[order[i]]
               PROVE  \E k \in i .. j - 1 : order[k] \in Preds(order[j])
    BY DEF TableOrder
  <2>1. DOMAIN order = 1 .. Len(order) /\ Len(order) \in Nat /\ order[j] \in Tasks
    BY DEF Inv, TypeOK
  <2>2. ~ \E k \in 1 .. i - 1 : order[k] = order[j]
    BY <2>1 DEF Inv, OrderInv
  <2>3. PICK q \in Preds(order[j]) : \A k \in 1 .. i - 1 : order[k] # q
    BY <2>1, <2>2 DEF Inv, OrderInv
  <2>4. PICK k \in 1 .. j - 1 : order[k] = q
    BY <2>3 DEF Inv, OrderInv
  <2>5. k \in i .. j - 1
    BY <2>1, <2>3, <2>4
  <2> QED
    BY <2>3, <2>4, <2>5
<1> QED
  BY <1>1, SchedulerInv, PTL

(* A start later than start_not_before is the first workday of the project, when  *)
(* the task has no predecessor, or the first after a predecessor's end, or the     *)
(* workday next to a weekend day with a warning; and tasks constrained to a        *)
(* weekend day are exactly those with a warning (schedule_project).             *)
THEOREM DelaysAreExplained == Spec => []NoSilentDelay
<1>1. Inv => NoSilentDelay
  <2> SUFFICES ASSUME Inv, phase = "done", NEW t \in Tasks
               PROVE  LET snb == project.snb[t] IN
                        /\ t \in warned <=> snb # NoDate /\ IsWeekend(snb)
                        /\ snb # NoDate /\ snb < start[t] =>
                             \/ Preds(t) = {} /\ start[t] = NextWorkday(project.start)
                             \/ \E q \in Preds(t) : start[t] = FirstWorkdayAfter(end[q])
                             \/ t \in warned /\ start[t] = NextWorkday(snb)
    BY DEF NoSilentDelay
  <2> DEFINE e   == EarliestStart(project, t, start)
             snb == project.snb[t]
  <2>1. Schedulable(project) /\ t \in project.tasks
    BY PlacedIsSchedulable DEF Tasks
  <2>2. \A q \in PredsOf(project, t) :
          /\ start[q] \in Int /\ ~IsWeekend(start[q])
          /\ end[q] = EndFor(project, q, start[q])
    BY <2>1, PredsFinite, AllPlaced DEF Tasks
  <2>3. \/ Preds(t) = {} /\ e = NextWorkday(project.start)
        \/ \E q \in Preds(t) : e = FirstWorkdayAfter(end[q])
    BY <2>1, <2>2, EarliestStartFacts DEF Preds
  <2>4. start[t] = NotBefore(project, t, e) /\ WarnedFor(t) \subseteq warned
    BY AllPlaced
  <2>5. snb \in Int \cup {NoDate}
    BY <2>1 DEF Schedulable
  <2>6. t \in warned <=> snb # NoDate /\ IsWeekend(snb)
    <3>1. t \in warned <=> t \in WarnedFor(t)
      BY <2>4 DEF Inv, PlaceInv
    <3>2. snb \in Int => (NextWorkday(snb) # snb <=> IsWeekend(snb))
      BY DEF NextWorkday, IsWeekend
    <3> QED
      BY <2>5, <3>1, <3>2 DEF WarnedFor
  <2>7. ASSUME snb # NoDate, snb < start[t]
        PROVE  \/ Preds(t) = {} /\ start[t] = NextWorkday(project.start)
               \/ \E q \in Preds(t) : start[t] = FirstWorkdayAfter(end[q])
               \/ t \in warned /\ start[t] = NextWorkday(snb)
    <3>1. CASE start[t] = e
      BY <2>3, <3>1
    <3>2. CASE start[t] # e
      <4>1. start[t] = NextWorkday(snb) /\ snb \in Int
        BY <2>4, <2>5, <2>7, <3>2 DEF NotBefore
      <4>2. IsWeekend(snb)
        BY <2>7, <4>1 DEF NextWorkday
      <4> QED
        BY <2>6, <2>7, <4>1, <4>2
    <3> HIDE DEF e
    <3> QED
      BY <3>1, <3>2
  <2> QED
    BY <2>6, <2>7
<1> QED
  BY <1>1, SchedulerInv, PTL

-----------------------------------------------------------------------------
(* The working calendar, whose arithmetic the dates rest on: one call of one of *)
(* its loops, for every date and every amount.                               *)
LEMMA CallFields ==
  ASSUME NEW c \in Calls
  PROVE  /\ c.start \in Int /\ c.arg \in Int
         /\ c.fn \in {"next_workday", "add_workdays", "shift_workdays",
            "workdays_between"}
<1>1. Days \subseteq Int /\ Amounts \subseteq Int
  BY CallAssumption
<1>2. CASE c \in [fn : {"next_workday"}, start : Days, arg : {0}]
  <2>1. c.start \in Days /\ c.arg = 0 /\ c.fn = "next_workday"
    BY <1>2
  <2>2. c.start \in Int
    BY <1>1, <2>1, Zenon
  <2>3. 0 \in Int
    OBVIOUS
  <2> QED
    BY <2>1, <2>2, <2>3, Zenon
<1>3. CASE c \in [fn : {"add_workdays", "shift_workdays"}, start : Days, arg : Amounts]
  BY <1>1, <1>3
<1>4. CASE c \in [fn : {"workdays_between"}, start : Days, arg : Days]
  BY <1>1, <1>4
<1> QED
  BY <1>2, <1>3, <1>4 DEF Calls

(* Every call starts, and every iteration stays, inside the types. *)
LEMMA LoopTyped == LoopSpec => []LoopTypeOK
<1>1. LoopInit => LoopTypeOK
  BY CallFields DEF LoopInit, EnterLoop, LoopTypeOK, Earlier, Abs
<1>2. LoopTypeOK /\ [LoopNext]_loopVars => LoopTypeOK'
  BY CallFields DEF LoopTypeOK, LoopNext, NextWorkdayLoop, CountDownLoop,
     BetweenLoop, Sign, loopVars
<1> QED
  BY <1>1, <1>2, PTL DEF LoopSpec

(* The loop invariants hold at every iteration of every call. *)
LEMMA LoopInvariant == LoopSpec => []LoopInv
<1>1. LoopInit => LoopInv
  <2> SUFFICES ASSUME LoopInit PROVE LoopInv
    OBVIOUS
  <2>1. call.start \in Int /\ call.arg \in Int
    BY CallFields DEF LoopInit
  <2>2. WorkdayNumber(call.start) \in Int /\ WorkdayNumber(call.arg) \in Int
        /\ WorkdayNumber(call.start - 1) \in Int
    BY <2>1, NumberType
  <2> QED
    BY <2>1, <2>2 DEF LoopInit, EnterLoop, LoopInv, Abs, Earlier,
       Later
<1>2. LoopTypeOK /\ LoopInv /\ [LoopNext]_loopVars => LoopInv'
  <2> SUFFICES ASSUME LoopTypeOK, LoopInv,
     [LoopNext]_loopVars PROVE LoopInv'
    OBVIOUS
  <2>1. call.start \in Int /\ call.arg \in Int /\ cursor \in Int /\ counter \in Nat
    BY CallFields DEF LoopTypeOK
  <2>2. CASE NextWorkdayLoop
    BY <2>1, <2>2 DEF LoopInv, NextWorkdayLoop, NextWorkday, IsWeekend
  <2>3. CASE CountDownLoop
    <3>1. CASE counter > 0
      <4>1. /\ cursor' = cursor + Sign(call.arg)
            /\ counter' = IF IsWeekend(cursor') THEN counter ELSE counter - 1
            /\ UNCHANGED <<walk, result, call>>
        BY <2>3, <3>1 DEF CountDownLoop
      <4>2. CASE call.arg >= 0
        <5>1. WorkdayNumber(cursor') =
                IF IsWeekend(cursor') THEN WorkdayNumber(cursor) ELSE WorkdayNumber(cursor) + 1
          <6>1. call.fn \in {"add_workdays", "shift_workdays"}
            BY <2>3 DEF CountDownLoop
          <6>2. call.arg > 0
            BY <2>1, <3>1, <4>2, <6>1 DEF LoopInv
          <6> QED
            BY <2>1, <4>1, <6>2, NumberOfNextDay DEF Sign
        <5> QED
          BY <2>1, <2>3, <3>1, <4>1, <4>2, <5>1, NumberType DEF LoopInv,
             CountDownLoop
      <4>3. CASE call.arg < 0
        <5>1. WorkdayNumber(cursor' - 1) =
                IF IsWeekend(cursor') THEN WorkdayNumber(cursor - 1)
                                      ELSE WorkdayNumber(cursor - 1) - 1
          BY <2>1, <4>1, <4>3, NumberOfPreviousDay DEF Sign
        <5> QED
          BY <2>1, <2>3, <3>1, <4>1, <4>3, <5>1, NumberType DEF LoopInv,
             CountDownLoop
      <4> QED
        BY <2>1, <4>2, <4>3
    <3>2. CASE counter = 0
      BY <2>1, <2>3, <3>2 DEF CountDownLoop, LoopInv
    <3> QED
      BY <2>1, <3>1, <3>2
  <2>4. CASE BetweenLoop
    <3>1. Later(call) \in Int /\ Earlier(call) \in Int
      BY <2>1 DEF Later, Earlier
    <3> QED
      BY <2>1, <2>4, <3>1, NumberOfNextDay, NumberType,
         SMTT(30) DEF LoopInv, BetweenLoop
  <2>5. CASE UNCHANGED loopVars
    BY <2>5 DEF LoopInv, loopVars, Earlier, Later
  <2> QED
    BY <2>2, <2>3, <2>4, <2>5 DEF LoopNext
<1> QED
  BY <1>1, <1>2, LoopTyped, PTL DEF LoopSpec

(* What a call returns is the closed form of Calendar, for every date and     *)
(* every amount: the scheduler's arithmetic may be reasoned about through     *)
(* the numbering of the workdays.                                             *)
THEOREM LoopsAreClosedForms == LoopSpec => []ReturnsClosedForm
<1>1. LoopInit => ReturnsClosedForm
  BY DEF LoopInit, EnterLoop, ReturnsClosedForm
<1>2. LoopTypeOK /\ LoopInv /\ ReturnsClosedForm /\ [LoopNext]_loopVars => ReturnsClosedForm'
  <2> SUFFICES ASSUME LoopTypeOK, LoopInv, ReturnsClosedForm,
     [LoopNext]_loopVars, walk' = "returned"
               PROVE  result' = ClosedForm(call')
    BY DEF ReturnsClosedForm
  <2>1. call.start \in Int /\ call.arg \in Int /\ cursor \in Int /\ counter \in Nat
    BY CallFields DEF LoopTypeOK
  <2>2. CASE NextWorkdayLoop
    BY <2>1, <2>2 DEF LoopInv, NextWorkdayLoop, NextWorkday,
       ClosedForm
  <2>3. CASE CountDownLoop
    <3>1. /\ counter = 0 /\ result' = cursor /\ call' = call
          /\ call.fn \in {"add_workdays", "shift_workdays"}
      BY <2>3 DEF CountDownLoop
    <3>2. walk = "loop"
      BY <2>3 DEF CountDownLoop
    <3>3. CASE call.arg >= 0
      <4>1. CASE call.arg = 0
        BY <3>1, <4>1 DEF LoopInv, ClosedForm, AddWorkdays,
           ShiftWorkdays
      <4>2. CASE call.arg # 0
        <5>1. ~IsWeekend(cursor) /\ WorkdayNumber(cursor) = WorkdayNumber(call.start) + call.arg
          BY <2>1, <3>1, <3>3, <4>2, NumberType DEF LoopInv
        <5>2. cursor = NthWorkday(WorkdayNumber(call.start) + call.arg)
          BY <2>1, <5>1, NthOfNumber
        <5> QED
          BY <2>1, <3>1, <3>3, <4>2, <5>2 DEF ClosedForm, AddWorkdays,
             ShiftWorkdays
      <4> QED
        BY <4>1, <4>2
    <3>4. CASE call.arg < 0
      <4>1. call.fn = "shift_workdays"
        BY <3>1, <3>2, <3>4 DEF LoopInv
      <4>2. ~IsWeekend(cursor) /\ WorkdayNumber(cursor - 1) = WorkdayNumber(call.start - 1) + call.arg
        BY <2>1, <3>1, <3>4, <4>1, NumberType DEF LoopInv
      <4>3. cursor = NthWorkday(WorkdayNumber(call.start - 1) + call.arg + 1)
        BY <2>1, <4>2, NthOfNumber
      <4> QED
        BY <2>1, <3>1, <3>4, <4>1, <4>3 DEF ClosedForm, ShiftWorkdays
    <3> QED
      BY <2>1, <3>3, <3>4
  <2>4. CASE BetweenLoop
    BY <2>1, <2>4, NumberType DEF LoopInv, BetweenLoop, ClosedForm,
       WorkdaysBetween, Earlier, Later
  <2>5. CASE UNCHANGED loopVars
    BY <2>5 DEF ReturnsClosedForm, loopVars, ClosedForm
  <2> QED
    BY <2>2, <2>3, <2>4, <2>5 DEF LoopNext
<1> QED
  BY <1>1, <1>2, LoopTyped, LoopInvariant, PTL DEF LoopSpec

=============================================================================
