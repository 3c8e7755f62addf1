-------------------------- MODULE SchedulingLemmas --------------------------
(***************************************************************************)
(* Facts that the proofs about several components share: about the working   *)
(* calendar, about finite sets, and about the dates of a schedule, for every *)
(* day, every amount and every project the scheduler accepts.               *)
(***************************************************************************)
EXTENDS Scheduling, FiniteSetTheorems, WellFoundedInduction, TLAPS

(* The numbering of the workdays is an integer numbering: it goes up by one  *)
(* on every workday and stands still on weekends.                            *)
LEMMA NumberType ==
  ASSUME NEW d \in Int
  PROVE  WorkdayNumber(d) \in Int /\ NthWorkday(d) \in Int /\ NextWorkday(d) \in Int
BY DEF WorkdayNumber, NthWorkday, NextWorkday, IsWeekend

LEMMA NumberOfNextDay ==
  ASSUME NEW d \in Int
  PROVE  WorkdayNumber(d + 1) =
           IF IsWeekend(d + 1) THEN WorkdayNumber(d) ELSE WorkdayNumber(d) + 1
BY DEF WorkdayNumber, IsWeekend

LEMMA NumberOfPreviousDay ==
  ASSUME NEW d \in Int
  PROVE  WorkdayNumber((d - 1) - 1) =
           IF IsWeekend(d - 1) THEN WorkdayNumber(d - 1) ELSE WorkdayNumber(d - 1) - 1
BY DEF WorkdayNumber, IsWeekend

LEMMA NumberMonotone ==
  ASSUME NEW d \in Int, NEW e \in Int, d <= e
  PROVE  WorkdayNumber(d) <= WorkdayNumber(e)
BY DEF WorkdayNumber, IsWeekend

LEMMA NthOfNumber ==
  ASSUME NEW d \in Int, ~IsWeekend(d)
  PROVE  /\ NthWorkday(WorkdayNumber(d)) = d
         /\ NthWorkday(WorkdayNumber(d - 1) + 1) = d
BY DEF NthWorkday, WorkdayNumber, IsWeekend

LEMMA NumberOfNth ==
  ASSUME NEW n \in Int
  PROVE  WorkdayNumber(NthWorkday(n)) = n /\ ~IsWeekend(NthWorkday(n))
BY DEF NthWorkday, WorkdayNumber, IsWeekend

LEMMA NthMonotone ==
  ASSUME NEW m \in Int, NEW n \in Int, m <= n
  PROVE  NthWorkday(m) <= NthWorkday(n)
BY DEF NthWorkday

(* next_workday returns the least workday that is not before the given day.  *)
LEMMA NextWorkdayIsLeast ==
  ASSUME NEW d \in Int
  PROVE  /\ NextWorkday(d) \in Int /\ ~IsWeekend(NextWorkday(d)) /\ d <= NextWorkday(d)
         /\ \A e \in Int : d <= e /\ ~IsWeekend(e) => NextWorkday(d) <= e
BY DEF NextWorkday, IsWeekend

(* The end date of a task that starts on a workday: on a workday, not before *)
(* the start, and exactly the task's duration in workdays.                   *)
LEMMA AddWorkdaysFacts ==
  ASSUME NEW s \in Int, NEW n \in Nat, ~IsWeekend(s)
  PROVE  /\ AddWorkdays(s, n) \in Int
         /\ ~IsWeekend(AddWorkdays(s, n))
         /\ s <= AddWorkdays(s, n)
         /\ WorkdayNumber(AddWorkdays(s, n)) = WorkdayNumber(s) + n
<1>1. AddWorkdays(s, n) = NthWorkday(WorkdayNumber(s) + n)
  BY NthOfNumber, NumberType DEF AddWorkdays
<1>2. NthWorkday(WorkdayNumber(s)) <= NthWorkday(WorkdayNumber(s) + n)
  BY NumberType, NthMonotone
<1> QED
  BY <1>1, <1>2, NthOfNumber, NumberOfNth, NumberType

(* A later start never gives an earlier end. *)
LEMMA AddWorkdaysMonotone ==
  ASSUME NEW s \in Int, NEW u \in Int, NEW n \in Nat,
         ~IsWeekend(s), ~IsWeekend(u), s <= u
  PROVE  AddWorkdays(s, n) <= AddWorkdays(u, n)
<1>1. /\ AddWorkdays(s, n) = NthWorkday(WorkdayNumber(s) + n)
      /\ AddWorkdays(u, n) = NthWorkday(WorkdayNumber(u) + n)
  BY NthOfNumber, NumberType DEF AddWorkdays
<1>2. WorkdayNumber(s) + n <= WorkdayNumber(u) + n
  BY NumberMonotone, NumberType
<1> QED
  BY <1>1, <1>2, NthMonotone, NumberType

(* Nor does a shorter task. *)
LEMMA AddWorkdaysShorter ==
  ASSUME NEW s \in Int, NEW m \in Nat, NEW n \in Nat, ~IsWeekend(s), m <= n
  PROVE  AddWorkdays(s, m) <= AddWorkdays(s, n)
<1>1. /\ AddWorkdays(s, m) = NthWorkday(WorkdayNumber(s) + m)
      /\ AddWorkdays(s, n) = NthWorkday(WorkdayNumber(s) + n)
  BY NthOfNumber, NumberType DEF AddWorkdays
<1>2. NthWorkday(WorkdayNumber(s) + m) <= NthWorkday(WorkdayNumber(s) + n)
  BY NumberType, NthMonotone
<1> QED
  BY <1>1, <1>2

LEMMA NextWorkdayMonotone ==
  ASSUME NEW d \in Int, NEW e \in Int, d <= e
  PROVE  NextWorkday(d) <= NextWorkday(e)
BY DEF NextWorkday, IsWeekend

(* A task of k + 1 workdays that starts on a workday ends k workdays later   *)
(* as workdays_between counts them, whatever weekends lie inside it: the     *)
(* duration a reader counts on the chart is the duration stored.             *)
THEOREM DurationIsSpan ==
  ASSUME NEW s \in Int, NEW k \in Nat, ~IsWeekend(s)
  PROVE  WorkdaysBetween(s, AddWorkdays(s, k)) = k
BY AddWorkdaysFacts, NumberType DEF WorkdaysBetween

(* From a workday, a shift is a shift of the workday's number.               *)
LEMMA ShiftOfWorkday ==
  ASSUME NEW s \in Int, NEW n \in Int, ~IsWeekend(s)
  PROVE  ShiftWorkdays(s, n) = NthWorkday(WorkdayNumber(s) + n)
<1>1. WorkdayNumber(s - 1) = WorkdayNumber(s) - 1
  BY DEF WorkdayNumber, IsWeekend
<1>2. NthWorkday(WorkdayNumber(s)) = s
  BY NthOfNumber
<1> QED
  BY <1>1, <1>2, NumberType DEF ShiftWorkdays, AddWorkdays

(* Wherever it starts, a shift that moves at all ends on a workday. *)
LEMMA ShiftEndsOnWorkday ==
  ASSUME NEW s \in Int, NEW n \in Int, n # 0
  PROVE  ~IsWeekend(ShiftWorkdays(s, n)) /\ ShiftWorkdays(s, n) \in Int
BY NumberType, NumberOfNth DEF ShiftWorkdays, AddWorkdays

(* Moving a task by n workdays and back by n returns it to where it was, if  *)
(* and only if it stood on a workday or was not moved at all.                *)
THEOREM MoveAndBack ==
  ASSUME NEW s \in Int, NEW n \in Int
  PROVE  ShiftWorkdays(ShiftWorkdays(s, n), 0 - n) = s <=> ~IsWeekend(s) \/ n = 0
<1>1. CASE n = 0
  <2>1. ShiftWorkdays(s, 0) = s
    BY DEF ShiftWorkdays, AddWorkdays
  <2>2. 0 - n = 0
    BY <1>1
  <2> QED
    BY <1>1, <2>1, <2>2
<1>2. CASE n # 0 /\ IsWeekend(s)
  BY <1>2, ShiftEndsOnWorkday
<1>3. CASE n # 0 /\ ~IsWeekend(s)
  <2>1. ShiftWorkdays(s, n) = NthWorkday(WorkdayNumber(s) + n)
    BY <1>3, ShiftOfWorkday
  <2>2. WorkdayNumber(ShiftWorkdays(s, n)) = WorkdayNumber(s) + n
    BY <2>1, NumberType, NumberOfNth
  <2>3. ShiftWorkdays(ShiftWorkdays(s, n), 0 - n)
          = NthWorkday(WorkdayNumber(ShiftWorkdays(s, n)) + (0 - n))
    BY <1>3, ShiftEndsOnWorkday, ShiftOfWorkday
  <2>4. WorkdayNumber(ShiftWorkdays(s, n)) + (0 - n) = WorkdayNumber(s)
    BY <2>2, NumberType
  <2> QED
    BY <1>3, <2>3, <2>4, NthOfNumber
<1> QED
  BY <1>1, <1>2, <1>3
-----------------------------------------------------------------------------
(* Induction over finite sets, stated of sets and not of an operator: any    *)
(* family of finite sets has a member that contains no other.                *)
LEMMA MinimalSubset ==
  ASSUME NEW F, F # {}, \A U \in F : IsFiniteSet(U)
  PROVE  \E U \in F : \A V \in F : V \subseteq U => V = U
<1> DEFINE S == UNION F
<1>1. IsWellFoundedOn(StrictSubsetOrdering(S), FiniteSubsetsOf(S))
  BY FS_StrictSubsetOrderingWellFounded
<1>2. F \subseteq FiniteSubsetsOf(S)
  BY DEF FiniteSubsetsOf
<1>3. \A U, V \in F : V \subseteq U /\ V # U => <<V, U>> \in StrictSubsetOrdering(S)
  BY DEF StrictSubsetOrdering
<1> HIDE DEF S
<1>4. PICK U \in F : \A V \in F : <<V, U>> \notin StrictSubsetOrdering(S)
  BY <1>1, <1>2, WFMin
<1> QED
  BY <1>3, <1>4

(* A finite set of numbers has a largest and a smallest element. *)
LEMMA FiniteMaximum ==
  ASSUME NEW D \in SUBSET Int, IsFiniteSet(D), D # {}
  PROVE  \E m \in D : \A d \in D : d <= m
<1> DEFINE F == {U \in SUBSET D : U # {} /\ \A m \in U : \E d \in U : ~(d <= m)}
<1> SUFFICES ASSUME F # {} PROVE FALSE
  OBVIOUS
<1>1. PICK U \in F : \A V \in F : V \subseteq U => V = U
  <2>1. \A V \in F : IsFiniteSet(V)
    BY FS_Subset
  <2> HIDE DEF F
  <2> QED
    BY <2>1, MinimalSubset
<1>2. PICK x \in U : TRUE
  OBVIOUS
<1>3. U \ {x} \notin F
  BY <1>1, <1>2
<1>4. PICK d \in U : ~(d <= x)
  BY <1>1, <1>2
<1>5. U \ {x} # {}
  BY <1>2, <1>4
<1>6. PICK m \in U \ {x} : \A e \in U \ {x} : e <= m
  BY <1>3, <1>5
<1> QED
  BY <1>1, <1>2, <1>6

(* What a function has for values on a finite set is finite. *)
LEMMA ImageFinite ==
  ASSUME NEW f, NEW D, IsFiniteSet(D)
  PROVE  IsFiniteSet({f[d] : d \in D})
<1> DEFINE g == [d \in D |-> f[d]]
        E == {f[d] : d \in D}
<1>1. g \in [D -> E] /\ \A e \in E : \E d \in D : g[d] = e
  OBVIOUS
<1>2. g \in Surjection(D, E)
  <2> HIDE DEF g, E
  <2> QED
    BY <1>1 DEF Surjection
<1> HIDE DEF g, E
<1>3. IsFiniteSet(E)
  BY <1>2, FS_Surjection
<1> QED
  BY <1>3 DEF E

LEMMA FiniteMinimum ==
  ASSUME NEW D \in SUBSET Int, IsFiniteSet(D), D # {}
  PROVE  \E m \in D : \A d \in D : m <= d
<1> DEFINE E == {0 - d : d \in D}
<1>1. IsFiniteSet(E)
  <2> DEFINE f == [d \in D |-> 0 - d]
  <2>1. {f[d] : d \in D} = E
    OBVIOUS
  <2> HIDE DEF f, E
  <2>2. IsFiniteSet({f[d] : d \in D})
    BY ImageFinite, Zenon
  <2> QED
    BY <2>1, <2>2, Zenon
<1>2. E \in SUBSET Int /\ E # {}
  <2>1. \A d \in D : 0 - d \in Int /\ 0 - d \in E
    OBVIOUS
  <2>2. \A e \in E : e \in Int
    BY <2>1
  <2> QED
    BY <2>1, <2>2
<1>3. PICK m \in E : \A e \in E : e <= m
  <2> HIDE DEF E
  <2> QED
    BY <1>1, <1>2, FiniteMaximum
<1>4. 0 - m \in D /\ \A d \in D : 0 - d <= m
  BY <1>3
<1> QED
  BY <1>2, <1>4

LEMMA LatestEndFacts ==
  ASSUME NEW ends \in SUBSET Int, IsFiniteSet(ends), ends # {}
  PROVE  LatestEnd(ends) \in ends /\ \A e \in ends : e <= LatestEnd(ends)
<1>1. \E m \in ends : \A e \in ends : e <= m
  BY FiniteMaximum
<1> QED
  BY <1>1 DEF LatestEnd

-----------------------------------------------------------------------------
(* The listed predecessors of a task are finitely many tasks. *)
LEMMA PredsFinite ==
  ASSUME NEW p, Schedulable(p), NEW t \in p.tasks
  PROVE  IsFiniteSet(PredsOf(p, t)) /\ PredsOf(p, t) \subseteq p.tasks
<1>1. p.preds[t] \in Seq(p.tasks)
  BY DEF Schedulable
<1>2. DOMAIN p.preds[t] = 1 .. Len(p.preds[t]) /\ Len(p.preds[t]) \in Nat
  BY <1>1
<1>3. IsFiniteSet(DOMAIN p.preds[t])
  BY <1>2, FS_Interval
<1>4. IsFiniteSet(PredsOf(p, t))
  BY <1>3, ImageFinite, Zenon DEF PredsOf
<1> QED
  BY <1>1, <1>2, <1>4 DEF PredsOf

(* Induction along the dependencies: a property that a task has when its      *)
(* predecessors have it, holds of every task.                                *)
LEMMA DependencyInduction ==
  ASSUME NEW p, Schedulable(p), NEW S \in SUBSET p.tasks,
         \A t \in p.tasks : PredsOf(p, t) \subseteq S => t \in S
  PROVE  S = p.tasks
<1> SUFFICES ASSUME p.tasks \ S # {} PROVE FALSE
  OBVIOUS
<1>1. PICK t \in p.tasks \ S : PredsOf(p, t) \cap (p.tasks \ S) = {}
  BY DEF Schedulable, Acyclic, WaitsOnItself
<1>2. PredsOf(p, t) \subseteq p.tasks
  BY PredsFinite
<1> QED
  BY <1>1, <1>2

(* Only the starts of the predecessors count. *)
LEMMA SameEarliestStart ==
  ASSUME NEW p, NEW t, NEW r, NEW s, \A q \in PredsOf(p, t) : r[q] = s[q]
  PROVE  EarliestStart(p, t, r) = EarliestStart(p, t, s)
<1>1. {EndFor(p, q, r[q]) : q \in PredsOf(p, t)} = {EndFor(p, q, s[q]) : q \in PredsOf(p, t)}
  OBVIOUS
<1> QED
  BY <1>1, Zenon DEF EarliestStart

(* A start is on a workday and after the end of each predecessor, when the    *)
(* predecessors start on workdays.                                           *)
LEMMA EarliestStartFacts ==
  ASSUME NEW p, Schedulable(p), NEW t \in p.tasks, NEW s,
         \A q \in PredsOf(p, t) : s[q] \in Int /\ ~IsWeekend(s[q])
  PROVE  /\ EarliestStart(p, t, s) \in Int /\ ~IsWeekend(EarliestStart(p, t, s))
         /\ \A q \in PredsOf(p, t) :
              /\ EndFor(p, q, s[q]) \in Int
              /\ s[q] <= EndFor(p, q, s[q])
              /\ EndFor(p, q, s[q]) < EarliestStart(p, t, s)
         /\ IF PredsOf(p, t) = {}
              THEN EarliestStart(p, t, s) = NextWorkday(p.start)
              ELSE \E q \in PredsOf(p, t) :
                     EarliestStart(p, t, s) = FirstWorkdayAfter(EndFor(p, q, s[q]))
<1> DEFINE e == [q \in PredsOf(p, t) |-> EndFor(p, q, s[q])]
           ends == {EndFor(p, q, s[q]) : q \in PredsOf(p, t)}
<1>1. \A q \in PredsOf(p, t) : EndFor(p, q, s[q]) \in Int /\ s[q] <= EndFor(p, q, s[q])
  <2> TAKE q \in PredsOf(p, t)
  <2>1. p.dur[q] - 1 \in Nat
    BY PredsFinite DEF Schedulable
  <2> QED
    BY <2>1, AddWorkdaysFacts DEF EndFor
<1>2. CASE PredsOf(p, t) = {}
  <2>1. EarliestStart(p, t, s) = NextWorkday(p.start) /\ p.start \in Int
    BY <1>2 DEF EarliestStart, Schedulable
  <2> QED
    BY <1>2, <2>1, NextWorkdayIsLeast
<1>3. CASE PredsOf(p, t) # {}
  <2>1. {e[q] : q \in PredsOf(p, t)} = ends
    OBVIOUS
  <2>2. IsFiniteSet({e[q] : q \in PredsOf(p, t)})
    <3> HIDE DEF e
    <3> QED
      BY PredsFinite, ImageFinite
  <2>3. ends \in SUBSET Int /\ ends # {}
    BY <1>1, <1>3
  <2>4. /\ LatestEnd(ends) \in ends /\ LatestEnd(ends) \in Int
        /\ \A f \in ends : f <= LatestEnd(ends)
    <3> HIDE DEF ends, e
    <3> QED
      BY <2>1, <2>2, <2>3, LatestEndFacts
  <2>5. PICK q \in PredsOf(p, t) : LatestEnd(ends) = EndFor(p, q, s[q])
    BY <2>4
  <2>6. EarliestStart(p, t, s) = NextWorkday(LatestEnd(ends) + 1)
    BY <1>3, Zenon DEF EarliestStart, FirstWorkdayAfter
  <2>7. \A r \in PredsOf(p, t) : EndFor(p, r, s[r]) <= LatestEnd(ends)
    BY <2>4
  <2>8. /\ EarliestStart(p, t, s) \in Int /\ ~IsWeekend(EarliestStart(p, t, s))
        /\ LatestEnd(ends) < EarliestStart(p, t, s)
    <3> HIDE DEF ends
    <3>1. LatestEnd(ends) + 1 \in Int
      BY <2>4
    <3>2. LatestEnd(ends) + 1 <= EarliestStart(p, t, s)
      BY <2>6, <3>1, NextWorkdayIsLeast
    <3> QED
      BY <2>4, <2>6, <3>1, <3>2, NextWorkdayIsLeast
  <2>9. EarliestStart(p, t, s) = FirstWorkdayAfter(EndFor(p, q, s[q]))
    BY <2>5, <2>6, Zenon DEF FirstWorkdayAfter
  <2>10. \A r \in PredsOf(p, t) : EndFor(p, r, s[r]) < EarliestStart(p, t, s)
    <3> HIDE DEF ends
    <3> QED
      BY <1>1, <2>4, <2>7, <2>8
  <2> QED
    BY <1>1, <1>3, <2>8, <2>9, <2>10
<1> QED
  BY <1>2, <1>3

LEMMA NotBeforeFacts ==
  ASSUME NEW p, NEW t, p.snb[t] \in Int \cup {NoDate}, NEW e \in Int, ~IsWeekend(e)
  PROVE  /\ NotBefore(p, t, e) \in Int /\ ~IsWeekend(NotBefore(p, t, e))
         /\ e <= NotBefore(p, t, e)
         /\ p.snb[t] # NoDate => p.snb[t] <= NotBefore(p, t, e)
         /\ \A d \in Int : /\ ~IsWeekend(d) /\ e <= d
                           /\ p.snb[t] # NoDate => p.snb[t] <= d
                           => NotBefore(p, t, e) <= d
<1>1. CASE p.snb[t] = NoDate
  BY <1>1 DEF NotBefore
<1>2. CASE p.snb[t] # NoDate
  <2>1. p.snb[t] \in Int
    BY <1>2
  <2> QED
    BY <1>2, <2>1, NextWorkdayIsLeast DEF NotBefore
<1> QED
  BY <1>1, <1>2

-----------------------------------------------------------------------------
(* s gives the tasks of D, and all they wait for, the starts that the         *)
(* recursive definition of StartDates asks for.                              *)
Places(p, D, s) ==
  /\ D \subseteq p.tasks
  /\ \A t \in D : /\ PredsOf(p, t) \subseteq D
                  /\ s[t] = NotBefore(p, t, EarliestStart(p, t, s))

LEMMA PlacesAgree ==
  ASSUME NEW p, Schedulable(p), NEW D, NEW r, Places(p, D, r), NEW E, NEW s, Places(p, E, s)
  PROVE  \A t \in D \cap E : r[t] = s[t]
<1> DEFINE S == {t \in p.tasks : t \in D \cap E => r[t] = s[t]}
<1>1. ASSUME NEW t \in p.tasks, PredsOf(p, t) \subseteq S PROVE t \in S
  <2> SUFFICES ASSUME t \in D \cap E PROVE r[t] = s[t]
    OBVIOUS
  <2>1. PredsOf(p, t) \subseteq D \cap E
    BY DEF Places
  <2>2. EarliestStart(p, t, r) = EarliestStart(p, t, s)
    BY <1>1, <2>1, SameEarliestStart
  <2> QED
    BY <2>2 DEF Places
<1>2. S = p.tasks
  <2> HIDE DEF S
  <2>1. S \subseteq p.tasks
    BY DEF S
  <2> QED
    BY <1>1, <2>1, DependencyInduction
<1> QED
  BY <1>2 DEF Places

(* There are such starts for the whole of a project the scheduler accepts.    *)
LEMMA PlacesExist ==
  ASSUME NEW p, Schedulable(p)
  PROVE  \E s : Places(p, p.tasks, s)
<1> DEFINE U == {t \in p.tasks : \E D, s : Places(p, D, s) /\ t \in D}
           g == [t \in U |-> CHOOSE v : \E D, s : Places(p, D, s) /\ t \in D /\ v = s[t]]
<1>1. ASSUME NEW D, NEW s, Places(p, D, s)
      PROVE  D \subseteq U /\ \A t \in D : g[t] = s[t]
  <2>1. D \subseteq U
    BY <1>1 DEF Places
  <2>2. ASSUME NEW t \in D PROVE g[t] = s[t]
    <3> DEFINE v == CHOOSE v : \E E, r : Places(p, E, r) /\ t \in E /\ v = r[t]
    <3>1. g[t] = v
      BY <2>1
    <3>2. \E w : \E E, r : Places(p, E, r) /\ t \in E /\ w = r[t]
      BY <1>1
    <3>3. \E E, r : Places(p, E, r) /\ t \in E /\ v = r[t]
      BY <3>2, Zenon
    <3>4. PICK E, r : Places(p, E, r) /\ t \in E /\ v = r[t]
      BY <3>3
    <3>5. r[t] = s[t]
      BY <1>1, <3>4, PlacesAgree
    <3> QED
      BY <3>1, <3>4, <3>5
  <2> QED
    BY <2>1, <2>2
<1>2. Places(p, U, g)
  <2> SUFFICES ASSUME NEW t \in U
               PROVE  /\ PredsOf(p, t) \subseteq U
                      /\ g[t] = NotBefore(p, t, EarliestStart(p, t, g))
    BY DEF Places
  <2>1. PICK D, s : Places(p, D, s) /\ t \in D
    OBVIOUS
  <2>2. D \subseteq U /\ \A q \in D : g[q] = s[q]
    BY <1>1, <2>1
  <2> HIDE DEF U, g
  <2>3. PredsOf(p, t) \subseteq D /\ s[t] = NotBefore(p, t, EarliestStart(p, t, s))
    BY <2>1 DEF Places
  <2>4. EarliestStart(p, t, g) = EarliestStart(p, t, s)
    BY <2>2, <2>3, SameEarliestStart
  <2> QED
    BY <2>1, <2>2, <2>3, <2>4
<1>3. ASSUME NEW t \in p.tasks, PredsOf(p, t) \subseteq U
      PROVE  t \in U
  <2> SUFFICES ASSUME t \notin U PROVE FALSE
    OBVIOUS
  <2> DEFINE D == U \cup {t}
             h == [u \in D |-> IF u \in U THEN g[u] ELSE NotBefore(p, t, EarliestStart(p, t, g))]
  <2>1. ASSUME NEW u \in D
        PROVE  /\ PredsOf(p, u) \subseteq U
               /\ h[u] = NotBefore(p, u, EarliestStart(p, u, g))
    <3>1. CASE u \in U
      BY <1>2, <3>1 DEF Places
    <3>2. CASE u = t
      BY <1>3, <3>2
    <3> QED
      BY <3>1, <3>2
  <2>2. \A u \in U : h[u] = g[u]
    OBVIOUS
  <2>3. Places(p, D, h)
    <3>1. D \subseteq p.tasks
      OBVIOUS
    <3> HIDE DEF U, g, h
    <3>2. ASSUME NEW u \in D PROVE EarliestStart(p, u, h) = EarliestStart(p, u, g)
      BY <2>1, <2>2, <3>2, SameEarliestStart
    <3> QED
      BY <2>1, <3>1, <3>2 DEF Places
  <2> QED
    BY <1>1, <2>3
<1>4. U = p.tasks
  <2>1. U \subseteq p.tasks
    OBVIOUS
  <2> HIDE DEF U
  <2> QED
    BY <1>3, <2>1, DependencyInduction
<1> HIDE DEF U, g
<1> QED
  BY <1>2, <1>4

(* What StartDates computes satisfies its defining equation, and nothing else *)
(* does.                                                                     *)
LEMMA StartDatesEquation ==
  ASSUME NEW p, Schedulable(p)
  PROVE  /\ StartDates(p) = [t \in p.tasks |-> StartDates(p)[t]]
         /\ \A t \in p.tasks :
              StartDates(p)[t] = NotBefore(p, t, EarliestStart(p, t, StartDates(p)))
<1>1. PICK s : Places(p, p.tasks, s)
  BY PlacesExist
<1> DEFINE f == [t \in p.tasks |-> s[t]]
<1>2. ASSUME NEW t \in p.tasks PROVE f[t] = NotBefore(p, t, EarliestStart(p, t, f))
  <2>1. PredsOf(p, t) \subseteq p.tasks
    BY PredsFinite
  <2>2. EarliestStart(p, t, f) = EarliestStart(p, t, s)
    <3>1. \A q \in PredsOf(p, t) : f[q] = s[q]
      BY <2>1
    <3> HIDE DEF f
    <3> QED
      BY <3>1, SameEarliestStart
  <2> QED
    BY <1>1, <2>2 DEF Places
<1>3. f = [t \in p.tasks |-> NotBefore(p, t, EarliestStart(p, t, f))]
  BY <1>2
<1> HIDE DEF f
<1>4. \E r : r = [t \in p.tasks |-> NotBefore(p, t, EarliestStart(p, t, r))]
  BY <1>3
<1>5. StartDates(p) = [t \in p.tasks |-> NotBefore(p, t, EarliestStart(p, t, StartDates(p)))]
  BY <1>4, Zenon DEF StartDates
<1> DEFINE r == StartDates(p)
<1>6. r = [t \in p.tasks |-> NotBefore(p, t, EarliestStart(p, t, r))]
  BY <1>5
<1> HIDE DEF r
<1>7. r = [t \in p.tasks |-> r[t]] /\ \A t \in p.tasks : r[t] = NotBefore(p, t, EarliestStart(p, t, r))
  BY <1>6
<1> QED
  BY <1>7 DEF r

THEOREM StartDatesUnique ==
  ASSUME NEW p, Schedulable(p), NEW s, s = [t \in p.tasks |-> s[t]],
         \A t \in p.tasks : s[t] = NotBefore(p, t, EarliestStart(p, t, s))
  PROVE  s = StartDates(p)
<1> DEFINE r == StartDates(p)
<1>1. r = [t \in p.tasks |-> r[t]] /\ \A t \in p.tasks : r[t] = NotBefore(p, t, EarliestStart(p, t, r))
  BY StartDatesEquation
<1> HIDE DEF r
<1>2. Places(p, p.tasks, r) /\ Places(p, p.tasks, s)
  BY <1>1, PredsFinite DEF Places
<1>3. \A t \in p.tasks : s[t] = r[t]
  BY <1>2, PlacesAgree
<1>4. s = r
  BY <1>1, <1>3
<1> QED
  BY <1>4 DEF r

(* The dates are workdays that respect every constraint and dependency. *)
THEOREM StartDatesFeasible ==
  ASSUME NEW p, Schedulable(p)
  PROVE  /\ StartDates(p) \in [p.tasks -> Int]
         /\ Feasible(p, StartDates(p))
<1> DEFINE s == StartDates(p)
           S == {t \in p.tasks : s[t] \in Int /\ ~IsWeekend(s[t]) /\ NextWorkday(p.start) <= s[t]}
<1>1. s = [t \in p.tasks |-> s[t]] /\ \A t \in p.tasks : s[t] = NotBefore(p, t, EarliestStart(p, t, s))
  BY StartDatesEquation
<1>2. p.start \in Int /\ NextWorkday(p.start) \in Int
  BY NumberType DEF Schedulable
<1> HIDE DEF s
<1>3. ASSUME NEW t \in p.tasks, PredsOf(p, t) \subseteq S
      PROVE  /\ s[t] \in Int /\ ~IsWeekend(s[t])
             /\ NextWorkday(p.start) <= s[t]
             /\ p.snb[t] # NoDate => p.snb[t] <= s[t]
             /\ \A q \in PredsOf(p, t) : EndFor(p, q, s[q]) < s[t]
  <2> DEFINE e == EarliestStart(p, t, s)
  <2>1. \A q \in PredsOf(p, t) :
          s[q] \in Int /\ ~IsWeekend(s[q]) /\ NextWorkday(p.start) <= s[q]
    BY <1>3
  <2>2. /\ e \in Int /\ ~IsWeekend(e)
        /\ \A q \in PredsOf(p, t) :
             EndFor(p, q, s[q]) \in Int /\ s[q] <= EndFor(p, q, s[q]) /\ EndFor(p, q, s[q]) < e
        /\ PredsOf(p, t) = {} => e = NextWorkday(p.start)
    BY <2>1, EarliestStartFacts
  <2>3. p.snb[t] \in Int \cup {NoDate} /\ s[t] = NotBefore(p, t, e)
    BY <1>1 DEF Schedulable
  <2> HIDE DEF e
  <2>4. /\ s[t] \in Int /\ ~IsWeekend(s[t]) /\ e <= s[t]
        /\ p.snb[t] # NoDate => p.snb[t] <= s[t]
    BY <2>2, <2>3, NotBeforeFacts
  <2>5. NextWorkday(p.start) <= e
    <3>1. CASE PredsOf(p, t) = {}
      BY <1>2, <2>2, <3>1
    <3>2. CASE PredsOf(p, t) # {}
      <4>1. PICK q \in PredsOf(p, t) : TRUE
        BY <3>2
      <4> QED
        BY <1>2, <2>1, <2>2, <4>1
    <3> QED
      BY <3>1, <3>2
  <2>6. \A q \in PredsOf(p, t) : EndFor(p, q, s[q]) < s[t]
    BY <2>2, <2>4
  <2> QED
    BY <1>2, <2>2, <2>4, <2>5, <2>6
<1>4. S = p.tasks
  <2>1. \A t \in p.tasks : PredsOf(p, t) \subseteq S => t \in S
    BY <1>3
  <2>2. S \subseteq p.tasks
    OBVIOUS
  <2> HIDE DEF S
  <2> QED
    BY <2>1, <2>2, DependencyInduction
<1>5. s \in [p.tasks -> Int]
  <2>1. \A t \in p.tasks : s[t] \in Int
    BY <1>4
  <2> QED
    BY <1>1, <2>1
<1>6. Feasible(p, s)
  BY <1>3, <1>4, PredsFinite DEF Feasible
<1> QED
  BY <1>5, <1>6 DEF s

(* No dates that respect them start any task earlier. *)
THEOREM StartDatesLeast ==
  ASSUME NEW p, Schedulable(p), NEW s, \A t \in p.tasks : s[t] \in Int, Feasible(p, s)
  PROVE  \A t \in p.tasks : StartDates(p)[t] <= s[t]
<1> DEFINE r == StartDates(p)
           S == {t \in p.tasks : r[t] <= s[t]}
<1>1. \A t \in p.tasks : r[t] \in Int /\ ~IsWeekend(r[t]) /\ r[t] = NotBefore(p, t, EarliestStart(p, t, r))
  BY StartDatesEquation, StartDatesFeasible DEF Feasible
<1> HIDE DEF r
<1>2. ASSUME NEW t \in p.tasks, PredsOf(p, t) \subseteq S
      PROVE  t \in S
  <2> DEFINE e == EarliestStart(p, t, r)
  <2>1. /\ s[t] \in Int /\ ~IsWeekend(s[t]) /\ NextWorkday(p.start) <= s[t]
        /\ p.snb[t] # NoDate => p.snb[t] <= s[t]
        /\ \A q \in PredsOf(p, t) : EndFor(p, q, s[q]) < s[t]
    BY DEF Feasible
  <2>2. /\ e \in Int /\ ~IsWeekend(e)
        /\ \A q \in PredsOf(p, t) : EndFor(p, q, r[q]) \in Int
        /\ IF PredsOf(p, t) = {}
             THEN e = NextWorkday(p.start)
             ELSE \E q \in PredsOf(p, t) : e = FirstWorkdayAfter(EndFor(p, q, r[q]))
    BY <1>1, PredsFinite, EarliestStartFacts
  <2> HIDE DEF e
  <2>3. e <= s[t]
    <3>1. CASE PredsOf(p, t) = {}
      BY <2>1, <2>2, <3>1
    <3>2. CASE PredsOf(p, t) # {}
      <4>1. PICK q \in PredsOf(p, t) : e = FirstWorkdayAfter(EndFor(p, q, r[q]))
        BY <2>2, <3>2
      <4>2. q \in p.tasks /\ r[q] <= s[q] /\ p.dur[q] - 1 \in Nat
        BY <1>2, <4>1, PredsFinite DEF Schedulable
      <4>3. s[q] \in Int /\ ~IsWeekend(s[q])
        BY <4>2 DEF Feasible
      <4>4. EndFor(p, q, r[q]) <= EndFor(p, q, s[q]) /\ EndFor(p, q, s[q]) \in Int
        BY <1>1, <4>2, <4>3, AddWorkdaysMonotone, AddWorkdaysFacts DEF EndFor
      <4>5. EndFor(p, q, r[q]) + 1 <= s[t] /\ EndFor(p, q, r[q]) + 1 \in Int
        BY <2>1, <2>2, <4>1, <4>4
      <4> QED
        BY <2>1, <4>1, <4>5, NextWorkdayIsLeast DEF FirstWorkdayAfter
    <3> QED
      BY <3>1, <3>2
  <2>4. r[t] = NotBefore(p, t, e) /\ p.snb[t] \in Int \cup {NoDate}
    BY <1>1 DEF e, Schedulable
  <2>5. r[t] <= s[t]
    BY <2>1, <2>2, <2>3, <2>4, NotBeforeFacts
  <2> QED
    BY <2>5
<1>3. S = p.tasks
  <2>1. S \subseteq p.tasks
    OBVIOUS
  <2> HIDE DEF S
  <2> QED
    BY <1>2, <2>1, DependencyInduction
<1> QED
  BY <1>3 DEF r

=============================================================================
