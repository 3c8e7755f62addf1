--------------------------- MODULE ChangeSetProofs ---------------------------
(***************************************************************************)
(* The guarantees of the change-set applier, for every plan, every change set *)
(* and any number of both: what the store holds stays a plan, no row is lost  *)
(* or reordered, and what the moves, the relaxations and the insertions       *)
(* promise.                                                                 *)
(***************************************************************************)
EXTENDS ChangeSet, SchedulingLemmas, SequenceTheorems

-----------------------------------------------------------------------------
(* Lists. *)

(* Induction over the first k numbers, as a fact about sets. *)
LEMMA UpTo ==
  ASSUME NEW n \in Nat, NEW S, 0 \in S, \A k \in 0 .. n : k \in S /\ k < n => k + 1 \in S
  PROVE  n \in S
<1> DEFINE D == {k \in 0 .. n : k \notin S}
<1> SUFFICES ASSUME D # {} PROVE FALSE
  OBVIOUS
<1>1. D \in SUBSET Int /\ IsFiniteSet(D)
  <2>1. IsFiniteSet(0 .. n)
    BY FS_Interval
  <2> QED
    BY <2>1, FS_Subset
<1>2. PICK m \in D : \A d \in D : m <= d
  <2> HIDE DEF D
  <2> QED
    BY <1>1, FiniteMinimum
<1>3. m - 1 \in 0 .. n /\ m - 1 \notin D
  BY <1>2
<1> QED
  BY <1>2, <1>3

(* What is kept of a list is a list of what stood at the positions kept. *)
LEMMA KeptFacts ==
  ASSUME NEW A, NEW list \in Seq(A), NEW keep
  PROVE  /\ KeptAt(list, keep) \in Seq(A)
         /\ \A i \in DOMAIN KeptAt(list, keep) :
              \E j \in DOMAIN list : j \in keep /\ KeptAt(list, keep)[i] = list[j]
<1> DEFINE n == Len(list)
           Rest == {s \in Seq(A) : \A i \in DOMAIN s :
                      \E j \in DOMAIN list : j \in keep /\ s[i] = list[j]}
           Step(kept, i) == IF i = 0 THEN <<>>
                            ELSE IF i \in keep THEN Append(kept[i - 1], list[i])
                                                 ELSE kept[i - 1]
           K == {k \in 0 .. n : \E f \in [0 .. k -> Rest] : \A i \in 0 .. k : f[i] = Step(f, i)}
<1>1. n \in Nat /\ DOMAIN list = 1 .. n
  OBVIOUS
<1>2. 0 \in K
  <2>1. <<>> \in Rest
    OBVIOUS
  <2> DEFINE f == [i \in 0 .. 0 |-> <<>>]
  <2>2. f \in [0 .. 0 -> Rest] /\ \A i \in 0 .. 0 : f[i] = Step(f, i)
    BY <2>1
  <2> HIDE DEF f, Step, Rest
  <2> QED
    BY <1>1, <2>2
<1>3. ASSUME NEW s \in Rest, NEW i \in 1 .. n, i \in keep
      PROVE  Append(s, list[i]) \in Rest
  <2>1. /\ s \in Seq(A) /\ list[i] \in A /\ Append(s, list[i]) \in Seq(A)
        /\ DOMAIN Append(s, list[i]) = 1 .. Len(s) + 1
        /\ Append(s, list[i])[Len(s) + 1] = list[i]
        /\ \A j \in 1 .. Len(s) : j \in DOMAIN s /\ Append(s, list[i])[j] = s[j]
    BY <1>1
  <2>2. \A j \in DOMAIN Append(s, list[i]) : j = Len(s) + 1 \/ j \in 1 .. Len(s)
    BY <2>1
  <2> QED
    BY <1>1, <1>3, <2>1, <2>2
<1>4. ASSUME NEW k \in 0 .. n, k \in K, k < n PROVE k + 1 \in K
  <2> HIDE DEF Step
  <2>1. PICK f \in [0 .. k -> Rest] : \A i \in 0 .. k : f[i] = Step(f, i)
    BY <1>4
  <2> DEFINE last == IF k + 1 \in keep THEN Append(f[k], list[k + 1]) ELSE f[k]
             g == [i \in 0 .. k + 1 |-> IF i = k + 1 THEN last ELSE f[i]]
  <2>2. last \in Rest
    <3> HIDE DEF Rest
    <3> QED
      BY <1>3
  <2>3. g \in [0 .. k + 1 -> Rest]
    <3> HIDE DEF Rest, last
    <3> QED
      BY <2>2
  <2>4. ASSUME NEW i \in 0 .. k + 1 PROVE g[i] = Step(g, i)
    <3> HIDE DEF Rest
    <3>1. CASE i = k + 1
      BY <3>1 DEF Step
    <3>2. CASE i \in 0 .. k
      <4>1. g[i] = f[i] /\ f[i] = Step(f, i) /\ (i # 0 => g[i - 1] = f[i - 1])
        BY <2>1, <3>2
      <4> HIDE DEF g
      <4> QED
        BY <4>1 DEF Step
    <3> QED
      BY <3>1, <3>2
  <2>5. k + 1 \in 0 .. n
    BY <1>1, <1>4
  <2>6. \E h \in [0 .. k + 1 -> Rest] : \A i \in 0 .. k + 1 : h[i] = Step(h, i)
    <3> HIDE DEF g, Rest
    <3> QED
      BY <2>3, <2>4
  <2> HIDE DEF Rest
  <2> QED
    BY <2>5, <2>6
<1>5. n \in K
  <2> HIDE DEF K
  <2> QED
    BY <1>1, <1>2, <1>4, UpTo
<1>6. PICK f \in [0 .. n -> Rest] : \A i \in 0 .. n : f[i] = Step(f, i)
  <2> HIDE DEF Rest, Step
  <2> QED
    BY <1>5
<1> DEFINE Kept == CHOOSE kept : kept = [i \in 0 .. n |-> Step(kept, i)]
<1>7. Kept = [i \in 0 .. n |-> Step(Kept, i)]
  <2> HIDE DEF Step, Rest
  <2>1. f = [i \in 0 .. n |-> Step(f, i)]
    BY <1>6
  <2> QED
    BY <2>1, Zenon
<1>8. KeptAt(list, keep) = Kept[n]
  BY Zenon DEF KeptAt
<1>9. n \in {k \in 0 .. n : Kept[k] \in Rest}
  <2> HIDE DEF Kept, Rest
  <2>1. \A k \in 0 .. n : Kept[k] = Step(Kept, k)
    <3> HIDE DEF Step
    <3> QED
      BY <1>7
  <2>2. <<>> \in Rest
    BY DEF Rest
  <2>3. Kept[0] = <<>>
    BY <1>1, <2>1
  <2>4. ASSUME NEW k \in 0 .. n, Kept[k] \in Rest, k < n PROVE Kept[k + 1] \in Rest
    <3>1. k + 1 \in 1 .. n /\ (k + 1) - 1 = k
      BY <1>1, <2>4
    <3>2. Kept[k + 1] = IF k + 1 \in keep THEN Append(Kept[k], list[k + 1]) ELSE Kept[k]
      BY <2>1, <3>1
    <3> QED
      BY <1>3, <2>4, <3>1, <3>2
  <2>5. 0 \in {k \in 0 .. n : Kept[k] \in Rest}
    BY <1>1, <2>2, <2>3
  <2>6. \A k \in 0 .. n : k \in {j \in 0 .. n : Kept[j] \in Rest} /\ k < n
                           => k + 1 \in {j \in 0 .. n : Kept[j] \in Rest}
    BY <1>1, <2>4
  <2> QED
    BY <1>1, <2>5, <2>6, UpTo
<1>10. KeptAt(list, keep) \in Rest
  BY <1>8, <1>9
<1> HIDE DEF Kept
<1> QED
  BY <1>10

(* new is list with a row t in it, i rows above it. *)
RowAt(new, list, t, i, T) ==
  /\ i \in 0 .. Len(list)
  /\ new \in Seq(T) /\ Len(new) = Len(list) + 1 /\ new[i + 1] = t
  /\ \A k \in 1 .. i : new[k] = list[k]
  /\ \A k \in i + 1 .. Len(list) : new[k + 1] = list[k]

LEMMA RowInserted ==
  ASSUME NEW T, NEW t, NEW list \in Seq(T), NEW new, NEW i, RowAt(new, list, t, i, T)
  PROVE  /\ \E k \in DOMAIN new : new[k] = t
         /\ \A u : (\E k \in DOMAIN list : list[k] = u) => \E k \in DOMAIN new : new[k] = u
         /\ \A u, w : Above(list, u, w) => Above(new, u, w)
<1> DEFINE at(k) == IF k <= i THEN k ELSE k + 1
<1>1. /\ DOMAIN list = 1 .. Len(list) /\ DOMAIN new = 1 .. Len(list) + 1
      /\ Len(list) \in Nat /\ i \in Nat /\ i <= Len(list)
  BY DEF RowAt
<1>2. \A k \in DOMAIN list : at(k) \in DOMAIN new /\ new[at(k)] = list[k]
  BY <1>1 DEF RowAt
<1>3. \A k, l \in DOMAIN list : k < l => at(k) < at(l)
  BY <1>1
<1>4. i + 1 \in DOMAIN new /\ new[i + 1] = t
  BY <1>1 DEF RowAt
<1> HIDE DEF at
<1>5. ASSUME NEW u, NEW w, Above(list, u, w) PROVE Above(new, u, w)
  <2>1. PICK k, l \in DOMAIN list : k < l /\ list[k] = u /\ list[l] = w
    BY <1>5 DEF Above
  <2>2. at(k) \in DOMAIN new /\ at(l) \in DOMAIN new /\ at(k) < at(l)
    BY <1>2, <1>3, <2>1
  <2> QED
    BY <1>2, <2>1, <2>2 DEF Above
<1> QED
  BY <1>2, <1>4, <1>5

(* The two halves of a list, and a row between two halves. *)
LEMMA CutInTwo ==
  ASSUME NEW T, NEW list \in Seq(T), NEW i \in DOMAIN list
  PROVE  /\ SubSeq(list, 1, i) \in Seq(T) /\ Len(SubSeq(list, 1, i)) = i
         /\ \A k \in 1 .. i : SubSeq(list, 1, i)[k] = list[k]
         /\ SubSeq(list, i + 1, Len(list)) \in Seq(T)
         /\ Len(SubSeq(list, i + 1, Len(list))) = Len(list) - i
         /\ \A k \in i + 1 .. Len(list) :
              /\ k - i \in 1 .. Len(SubSeq(list, i + 1, Len(list)))
              /\ SubSeq(list, i + 1, Len(list))[k - i] = list[k]
<1> DEFINE n == Len(list)
<1>1. n \in Nat /\ i \in 1 .. n /\ \A k \in 1 .. n : list[k] \in T
  OBVIOUS
<1> HIDE DEF n
<1>2. /\ 1 \in Int /\ i \in Int /\ i + 1 \in Int /\ n \in Int
      /\ \A k \in 1 .. i : k \in 1 .. n /\ 1 + k - 1 = k
      /\ \A k \in i + 1 .. n : k \in 1 .. n /\ k - i \in 1 .. n - i /\ i + 1 + (k - i) - 1 = k
      /\ 1 <= i /\ i - 1 + 1 = i /\ n - (i + 1) + 1 = n - i
      /\ (IF i + 1 <= n THEN n - (i + 1) + 1 ELSE 0) = n - i
  BY <1>1
<1>3. /\ SubSeq(list, 1, i) \in Seq(T) /\ Len(SubSeq(list, 1, i)) = i
      /\ \A k \in 1 .. i : SubSeq(list, 1, i)[k] = list[1 + k - 1]
  <2>1. \A k \in 1 .. i : list[k] \in T
    BY <1>1, <1>2
  <2> QED
    BY <1>2, <2>1, SubSeqProperties
<1>4. /\ SubSeq(list, i + 1, n) \in Seq(T) /\ Len(SubSeq(list, i + 1, n)) = n - i
      /\ \A k \in 1 .. n - i : SubSeq(list, i + 1, n)[k] = list[i + 1 + k - 1]
  <2>1. \A k \in i + 1 .. n : list[k] \in T
    BY <1>1, <1>2
  <2> QED
    BY <1>2, <2>1, SubSeqProperties
<1>5. \A k \in 1 .. i : SubSeq(list, 1, i)[k] = list[k]
  BY <1>2, <1>3
<1>6. \A k \in i + 1 .. n : SubSeq(list, i + 1, n)[k - i] = list[k]
  BY <1>2, <1>4
<1> QED
  BY <1>2, <1>3, <1>4, <1>5, <1>6 DEF n

LEMMA RowBetween ==
  ASSUME NEW T, NEW list \in Seq(T), NEW t \in T, NEW i \in DOMAIN list
  PROVE  RowAt(SubSeq(list, 1, i) \o <<t>> \o SubSeq(list, i + 1, Len(list)), list, t, i, T)
<1> DEFINE low  == SubSeq(list, 1, i)
           high == SubSeq(list, i + 1, Len(list))
           row  == <<t>>
           mid  == low \o row
           new  == mid \o high
           n    == Len(list)
<1>1. n \in Nat /\ i \in 1 .. n
  OBVIOUS
<1>2. /\ low \in Seq(T) /\ Len(low) = i /\ \A k \in 1 .. i : low[k] = list[k]
      /\ high \in Seq(T) /\ Len(high) = n - i
      /\ \A k \in i + 1 .. n : k - i \in 1 .. Len(high) /\ high[k - i] = list[k]
  BY CutInTwo
<1> HIDE DEF low, high, n, new
<1>3. row \in Seq(T) /\ Len(row) = 1 /\ row[1] = t
  OBVIOUS
<1> HIDE DEF row
<1>4. /\ mid \in Seq(T) /\ Len(mid) = i + 1
      /\ \A k \in 1 .. i + 1 : mid[k] = IF k <= i THEN low[k] ELSE row[k - i]
  <2>1. low \in Seq(T) /\ Len(low) = i /\ row \in Seq(T) /\ Len(row) = 1
    BY <1>2, <1>3
  <2>2. /\ low \o row \in Seq(T) /\ Len(low \o row) = Len(low) + Len(row)
        /\ \A k \in 1 .. Len(low) + Len(row) :
             (low \o row)[k] = IF k <= Len(low) THEN low[k] ELSE row[k - Len(low)]
    BY <2>1, ConcatProperties
  <2> QED
    BY <2>1, <2>2, Zenon DEF mid
<1>5. mid[i + 1] = t /\ \A k \in 1 .. i : mid[k] = list[k]
  <2>1. /\ i + 1 \in 1 .. i + 1 /\ ~(i + 1 <= i) /\ i + 1 - i = 1
        /\ \A k \in 1 .. i : k \in 1 .. i + 1 /\ k <= i
    BY <1>1
  <2> HIDE DEF mid
  <2>2. mid[i + 1] = t
    BY <1>3, <1>4, <2>1
  <2>3. \A k \in 1 .. i : mid[k] = low[k]
    BY <1>4, <2>1
  <2> QED
    BY <1>2, <2>2, <2>3
<1> HIDE DEF mid
<1>6. /\ new \in Seq(T) /\ Len(new) = Len(mid) + Len(high)
      /\ \A k \in 1 .. Len(mid) + Len(high) :
           new[k] = IF k <= Len(mid) THEN mid[k] ELSE high[k - Len(mid)]
  <2>1. mid \in Seq(T) /\ high \in Seq(T)
    BY <1>2, <1>4
  <2>2. /\ mid \o high \in Seq(T) /\ Len(mid \o high) = Len(mid) + Len(high)
        /\ \A k \in 1 .. Len(mid) + Len(high) :
             (mid \o high)[k] = IF k <= Len(mid) THEN mid[k] ELSE high[k - Len(mid)]
    BY <2>1, ConcatProperties
  <2> QED
    BY <2>2, Zenon DEF new
<1>7. /\ Len(mid) + Len(high) = n + 1 /\ i \in 0 .. n
      /\ i + 1 \in 1 .. n + 1 /\ i + 1 <= Len(mid)
      /\ \A k \in 1 .. i : k \in 1 .. n + 1 /\ k <= Len(mid)
      /\ \A k \in i + 1 .. n :
           k + 1 \in 1 .. n + 1 /\ ~(k + 1 <= Len(mid)) /\ k + 1 - Len(mid) = k - i
  <2>1. Len(mid) = i + 1 /\ Len(high) = n - i
    BY <1>2, <1>4
  <2> QED
    BY <1>1, <2>1
<1>8. \A k \in 1 .. n + 1 : new[k] = IF k <= Len(mid) THEN mid[k] ELSE high[k - Len(mid)]
  BY <1>6, <1>7
<1>9. new[i + 1] = t /\ \A k \in 1 .. i : new[k] = list[k]
  BY <1>5, <1>7, <1>8
<1>10. \A k \in i + 1 .. n : new[k + 1] = list[k]
  <2> TAKE k \in i + 1 .. n
  <2>1. high[k - i] = list[k]
    BY <1>2
  <2>2. new[k + 1] = high[(k + 1) - Len(mid)]
    BY <1>7, <1>8
  <2> QED
    BY <1>7, <2>1, <2>2
<1>11. Len(new) = n + 1 /\ new \in Seq(T)
  BY <1>6, <1>7
<1> QED
  BY <1>7, <1>9, <1>10, <1>11, Zenon DEF RowAt, n, new, mid, row, low, high

(* _insert_after lists the new task and keeps every other where it was. *)
LEMMA InsertedFacts ==
  ASSUME NEW T, NEW t \in T, NEW list \in Seq(T), NEW after,
         after = NoTask \/ \E k \in DOMAIN list : list[k] = after
  PROVE  \E i : RowAt(Inserted(list, t, after), list, t, i, T)
<1>1. CASE after = NoTask
  <2> DEFINE new == Append(list, t)
             n   == Len(list)
  <2>1. Inserted(list, t, after) = new
    BY <1>1 DEF Inserted
  <2>2. /\ n \in 0 .. n /\ new \in Seq(T) /\ Len(new) = n + 1 /\ new[n + 1] = t
        /\ \A k \in 1 .. n : new[k] = list[k]
        /\ \A k \in n + 1 .. n : new[k + 1] = list[k]
    OBVIOUS
  <2>3. RowAt(new, list, t, n, T)
    BY <2>2, Zenon DEF RowAt
  <2> QED
    BY <2>1, <2>3
<1>2. CASE after # NoTask
  <2> DEFINE i == CHOOSE j \in DOMAIN list : list[j] = after
  <2>1. i \in DOMAIN list
    BY <1>2
  <2>2. Inserted(list, t, after) = SubSeq(list, 1, i) \o <<t>> \o SubSeq(list, i + 1, Len(list))
    BY <1>2, Zenon DEF Inserted
  <2> HIDE DEF i
  <2> QED
    BY <2>1, <2>2, RowBetween
<1> QED
  BY <1>1, <1>2

-----------------------------------------------------------------------------
(* Plans and copies. *)

LEMMA SoundWithMoreRefs ==
  ASSUME NEW w, NEW R, Sound(w, R), NEW Q, R \subseteq Q
  PROVE  Sound(w, Q)
<1>1. w.preds \in [w.tasks -> Seq(Q)]
  <2>1. w.preds \in [w.tasks -> Seq(R)]
    BY DEF Sound
  <2>2. \A s \in Seq(R) : s \in Seq(Q)
    OBVIOUS
  <2> QED
    BY <2>1, <2>2
<1> QED
  BY <1>1 DEF Sound

LEMMA SoundPreds ==
  ASSUME NEW w, NEW R, Sound(w, R), NEW t \in w.tasks
  PROVE  PredsOf(w, t) \subseteq R
<1>1. w.preds[t] \in Seq(R)
  BY DEF Sound
<1> QED
  BY <1>1 DEF PredsOf

LEMMA DurationIsNatural ==
  ASSUME NEW w, NEW R, Sound(w, R), NEW t \in w.tasks
  PROVE  w.dur[t] \in Nat \ {0}
<1>1. 1 .. MaxDuration \subseteq Nat \ {0}
  BY BoundsAssumption
<1>2. w.dur \in [w.tasks -> 1 .. MaxDuration]
  BY DEF Sound
<1> QED
  BY <1>1, <1>2

LEMMA SoundIsSchedulable ==
  ASSUME NEW w, Sound(w, w.tasks), Acyclic(w)
  PROVE  Schedulable(w)
<1>1. 1 .. MaxDuration \subseteq Nat \ {0}
  BY BoundsAssumption
<1> QED
  BY <1>1 DEF Sound, Schedulable

LEMMA KeepsRowsTransitive ==
  ASSUME NEW u, NEW v, NEW w, KeepsRows(u, v), KeepsRows(v, w)
  PROVE  KeepsRows(u, w)
BY DEF KeepsRows

LEMMA SameRows ==
  ASSUME NEW v, NEW w, w.tasks = v.tasks, w.list = v.list
  PROVE  KeepsRows(v, w)
BY DEF KeepsRows

LEMMA RelaxedTransitive ==
  ASSUME NEW u, NEW v, NEW w, Relaxed(u, v), Relaxed(v, w),
         NEW R, Sound(u, R), NEW Q, Sound(v, Q), NEW P, Sound(w, P)
  PROVE  Relaxed(u, w)
<1>1. v.tasks = u.tasks /\ w.tasks = u.tasks
  BY DEF Relaxed
<1>2. \A t \in u.tasks : u.dur[t] \in Int /\ v.dur[t] \in Int /\ w.dur[t] \in Int
  BY <1>1, DurationIsNatural
<1> QED
  BY <1>1, <1>2 DEF Relaxed

LEMMA RelaxedItself ==
  ASSUME NEW w, NEW R, Sound(w, R)
  PROVE  Relaxed(w, w)
<1>1. \A t \in w.tasks : w.dur[t] \in Int
  BY DurationIsNatural
<1> QED
  BY <1>1 DEF Relaxed

(* A task added to a function on the tasks. *)
LEMMA WithType ==
  ASSUME NEW S, NEW V, NEW f \in [S -> V], NEW t, NEW v \in V
  PROVE  With(f, t, v) \in [S \cup {t} -> V]
BY DEF With

(* What WithTask does to each field. *)
LEMMA WithTaskFields ==
  ASSUME NEW w, DOMAIN w = Fields,
         NEW t, NEW name, NEW assignee, NEW dur, NEW preds, NEW snb, NEW after
  PROVE  LET new == WithTask(w, t, name, assignee, dur, preds, snb, after) IN
         /\ new = [field \in Fields |-> new[field]]
         /\ new.tasks = w.tasks \cup {t} /\ new.list = Inserted(w.list, t, after)
         /\ new.name = With(w.name, t, name)
         /\ new.dur = With(w.dur, t, dur) /\ new.preds = With(w.preds, t, preds)
         /\ new.snb = With(w.snb, t, snb)
         /\ new.start = w.start /\ new.revision = w.revision
         /\ new.begin = With(w.begin, t, PlaceholderDate)
         /\ new.end = With(w.end, t, PlaceholderDate)
BY DEF WithTask, Fields

(* What create_task and insert_task_between check of a new task. *)
Addable(w, R, t, name, dur, preds, snb, after) ==
  /\ Sound(w, R) /\ t \in R \ w.tasks /\ t # NoTask
  /\ \A u \in w.tasks : w.name[u] # name
  /\ dur \in 1 .. MaxDuration /\ preds \in Seq(R) /\ snb \in Int \cup {NoDate}
  /\ after = NoTask \/ after \in w.tasks

(* What they make of a copy. *)
Adds(w, R, t, preds, new) ==
  /\ Sound(new, R) /\ KeepsRows(w, new)
  /\ new.tasks = w.tasks \cup {t}
  /\ new.start = w.start /\ new.revision = w.revision
  /\ new.preds[t] = preds /\ \A u \in w.tasks : new.preds[u] = w.preds[u]

LEMMA NewTaskIsSound ==
  ASSUME NEW w, NEW R, NEW t, NEW name, NEW assignee, NEW dur, NEW preds, NEW snb, NEW after,
         Addable(w, R, t, name, dur, preds, snb, after)
  PROVE  Adds(w, R, t, preds, WithTask(w, t, name, assignee, dur, preds, snb, after))
<1> /\ Sound(w, R) /\ t \in R /\ t \notin w.tasks /\ t # NoTask
    /\ \A u \in w.tasks : w.name[u] # name
    /\ dur \in 1 .. MaxDuration /\ preds \in Seq(R) /\ snb \in Int \cup {NoDate}
    /\ after = NoTask \/ after \in w.tasks
  BY DEF Addable
<1> DEFINE new == WithTask(w, t, name, assignee, dur, preds, snb, after)
           S   == w.tasks \cup {t}
<1>1. /\ new = [field \in Fields |-> new[field]]
      /\ new.tasks = S /\ new.list = Inserted(w.list, t, after)
      /\ new.name = With(w.name, t, name)
      /\ new.dur = With(w.dur, t, dur) /\ new.preds = With(w.preds, t, preds)
      /\ new.snb = With(w.snb, t, snb)
      /\ new.start = w.start /\ new.revision = w.revision
      /\ new.begin = With(w.begin, t, PlaceholderDate)
      /\ new.end = With(w.end, t, PlaceholderDate)
  <2>1. DOMAIN w = Fields
    BY Zenon DEF Sound
  <2> QED
    BY <2>1, WithTaskFields DEF new
<1> HIDE DEF new
<1>2. /\ IsFiniteSet(w.tasks) /\ NoTask \notin w.tasks /\ Len(w.list) = Cardinality(w.tasks)
      /\ w.list \in Seq(w.tasks) /\ \A u \in w.tasks : \E i \in DOMAIN w.list : w.list[i] = u
      /\ w.name = [u \in w.tasks |-> w.name[u]]
      /\ \A u, v \in w.tasks : w.name[u] = w.name[v] => u = v
      /\ w.dur \in [w.tasks -> 1 .. MaxDuration] /\ w.preds \in [w.tasks -> Seq(R)]
      /\ w.snb \in [w.tasks -> Int \cup {NoDate}]
      /\ w.start \in Int /\ w.revision \in Nat
      /\ w.begin \in [w.tasks -> Int] /\ w.end \in [w.tasks -> Int]
  BY Zenon DEF Sound
<1>3. IsFiniteSet(S) /\ NoTask \notin S /\ Cardinality(S) = Cardinality(w.tasks) + 1
  BY <1>2, FS_AddElement
<1>4. /\ new.list \in Seq(S) /\ Len(new.list) = Cardinality(S)
      /\ \A u \in S : \E k \in DOMAIN new.list : new.list[k] = u
      /\ \A u, v : Above(w.list, u, v) => Above(new.list, u, v)
  <2>1. w.list \in Seq(S) /\ t \in S
    BY <1>2
  <2>2. after = NoTask \/ \E k \in DOMAIN w.list : w.list[k] = after
    BY <1>2
  <2> HIDE DEF S
  <2>3. PICK i : RowAt(new.list, w.list, t, i, S)
    BY <1>1, <2>1, <2>2, InsertedFacts
  <2>4. /\ \E k \in DOMAIN new.list : new.list[k] = t
        /\ \A u : (\E k \in DOMAIN w.list : w.list[k] = u) => \E k \in DOMAIN new.list : new.list[k] = u
        /\ \A u, v : Above(w.list, u, v) => Above(new.list, u, v)
    BY <2>1, <2>3, RowInserted
  <2>5. new.list \in Seq(S) /\ Len(new.list) = Cardinality(S)
    BY <1>2, <1>3, <2>3 DEF RowAt
  <2>6. \A u \in S : u = t \/ u \in w.tasks
    BY DEF S
  <2> QED
    BY <1>2, <2>4, <2>5, <2>6
<1>5. /\ new.name = [u \in S |-> new.name[u]] /\ new.name[t] = name
      /\ \A u \in w.tasks : new.name[u] = w.name[u]
  <2>1. DOMAIN w.name = w.tasks
    BY <1>2, Zenon
  <2>2. /\ With(w.name, t, name) = [u \in S |-> With(w.name, t, name)[u]]
        /\ With(w.name, t, name)[t] = name
        /\ \A u \in w.tasks \ {t} : With(w.name, t, name)[u] = w.name[u]
    BY <2>1 DEF With
  <2>3. new.name = With(w.name, t, name)
    BY <1>1
  <2> HIDE DEF S
  <2> QED
    BY <2>2, <2>3, Zenon
<1>6. \A u, v \in S : new.name[u] = new.name[v] => u = v
  BY <1>2, <1>5
<1>7. /\ new.dur \in [S -> 1 .. MaxDuration] /\ new.preds \in [S -> Seq(R)]
      /\ new.snb \in [S -> Int \cup {NoDate}]
      /\ new.begin \in [S -> Int] /\ new.end \in [S -> Int]
  <2>1. PlaceholderDate \in Int
    BY DEF PlaceholderDate
  <2>2. new.dur \in [S -> 1 .. MaxDuration]
    <3>1. w.dur \in [w.tasks -> 1 .. MaxDuration]
      BY <1>2
    <3>2. With(w.dur, t, dur) \in [w.tasks \cup {t} -> 1 .. MaxDuration]
      BY <3>1, WithType, Zenon
    <3> QED
      BY <1>1, <3>2, Zenon DEF S
  <2>3. new.preds \in [S -> Seq(R)]
    <3>1. w.preds \in [w.tasks -> Seq(R)]
      BY <1>2
    <3>2. With(w.preds, t, preds) \in [w.tasks \cup {t} -> Seq(R)]
      BY <3>1, WithType, Zenon
    <3> QED
      BY <1>1, <3>2, Zenon DEF S
  <2>4. new.snb \in [S -> Int \cup {NoDate}]
    <3>1. w.snb \in [w.tasks -> Int \cup {NoDate}]
      BY <1>2
    <3>2. With(w.snb, t, snb) \in [w.tasks \cup {t} -> Int \cup {NoDate}]
      BY <3>1, WithType, Zenon
    <3> QED
      BY <1>1, <3>2, Zenon DEF S
  <2>5. new.begin \in [S -> Int]
    <3>1. w.begin \in [w.tasks -> Int]
      BY <1>2
    <3>2. With(w.begin, t, PlaceholderDate) \in [w.tasks \cup {t} -> Int]
      BY <2>1, <3>1, WithType, Zenon
    <3> QED
      BY <1>1, <3>2, Zenon DEF S
  <2>6. new.end \in [S -> Int]
    <3>1. w.end \in [w.tasks -> Int]
      BY <1>2
    <3>2. With(w.end, t, PlaceholderDate) \in [w.tasks \cup {t} -> Int]
      BY <2>1, <3>1, WithType, Zenon
    <3> QED
      BY <1>1, <3>2, Zenon DEF S
  <2> QED
    BY <2>2, <2>3, <2>4, <2>5, <2>6, Zenon
<1>8. new.preds[t] = preds /\ \A u \in w.tasks : new.preds[u] = w.preds[u]
  <2>1. w.preds \in [w.tasks -> Seq(R)]
    BY <1>2
  <2>2. DOMAIN w.preds = w.tasks
    BY <2>1
  <2>3. /\ With(w.preds, t, preds)[t] = preds
        /\ \A u \in w.tasks \ {t} : With(w.preds, t, preds)[u] = w.preds[u]
    BY <2>2 DEF With
  <2> QED
    BY <1>1, <2>3, Zenon
<1>9. Sound(new, R)
  <2>1. new.start \in Int /\ new.revision \in Nat
    BY <1>1, <1>2
  <2> HIDE DEF S
  <2> QED
    BY <1>1, <1>3, <1>4, <1>5, <1>6, <1>7, <2>1, Zenon DEF Sound
<1>10. KeepsRows(w, new)
  BY <1>1, <1>4 DEF KeepsRows
<1> QED
  BY <1>1, <1>8, <1>9, <1>10 DEF Adds, new

-----------------------------------------------------------------------------
(* The copies between two operations. *)

(* What is left of a change set when the mutator is left. *)
LEMMA LeaveKeepsCopies ==
  ASSUME CopyInv, NEW p, Plan(p), NEW kind \in {"none", "domain", "internal"}, Leave(p, kind)
  PROVE  CopyInv'
<1>1. /\ phase' = "idle" /\ project' = p /\ tasks' = p /\ failure' = kind /\ allotted' = {}
      /\ operations' = 0 /\ lastMove' = NoMove /\ relaxing' = TRUE
  BY DEF Leave
<1>2. Sound(p, p.tasks)
  BY DEF Plan
<1>3. Relaxed(p, p) /\ KeepsRows(p, p)
  BY <1>2, RelaxedItself, SameRows
<1>4. tasks'.tasks \cup allotted' = p.tasks
  BY <1>1
<1> QED
  BY <1>1, <1>2, <1>3, <1>4 DEF CopyInv

(* What an operation must do for the copies to stay as they should. *)
LEMMA DoneKeepsCopies ==
  ASSUME CopyInv, phase = "applying", NEW w, NEW move, NEW relaxes \in BOOLEAN,
         Done(w, move, relaxes),
         Sound(w, tasks.tasks \cup allotted), tasks.tasks \subseteq w.tasks,
         w.tasks \subseteq tasks.tasks \cup allotted, KeepsRows(tasks, w),
         w.start = tasks.start, w.revision = tasks.revision,
         relaxes => Relaxed(tasks, w),
         move # NoMove /\ operations = 0 =>
           /\ move.task \in project.tasks /\ move.target \in Int
           /\ w = [project EXCEPT !.snb[move.task] = move.target]
           /\ DependencyEarliestStart(project, move.task) <= move.target
  PROVE  CopyInv'
<1>1. /\ tasks' = w /\ operations' = operations + 1
      /\ lastMove' = move /\ relaxing' = (relaxing /\ relaxes)
      /\ project' = project /\ phase' = phase /\ allotted' = allotted /\ failure' = failure
  BY DEF Done
<1>2. operations \in Nat /\ operations' \in Nat /\ operations' # 0
      /\ (operations' = 1 => operations = 0)
  BY <1>1 DEF CopyInv
<1>3. Sound(w, w.tasks \cup allotted)
  <2>1. tasks.tasks \cup allotted \subseteq w.tasks \cup allotted
    OBVIOUS
  <2> QED
    BY <2>1, SoundWithMoreRefs
<1>4. KeepsRows(project, w)
  BY KeepsRowsTransitive DEF CopyInv
<1>5. relaxing' => Relaxed(project, w)
  BY <1>1, RelaxedTransitive DEF CopyInv, Plan
<1>6. ASSUME operations' = 1, lastMove' # NoMove
      PROVE  /\ move.task \in project.tasks /\ move.target \in Int
             /\ w = [project EXCEPT !.snb[move.task] = move.target]
             /\ DependencyEarliestStart(project, move.task) <= move.target
  BY <1>1, <1>2, <1>6
<1>7. w.tasks \subseteq project.tasks \cup allotted
  BY DEF CopyInv
<1> QED
  BY <1>1, <1>2, <1>3, <1>4, <1>5, <1>6, <1>7 DEF CopyInv

-----------------------------------------------------------------------------
(* One field of one task. *)

(* What an operation that adds no task must see to. *)
LEMMA SoundLike ==
  ASSUME NEW w, NEW R, Sound(w, R), NEW v,
         v = [field \in Fields |-> v[field]], v.tasks = w.tasks, v.list = w.list,
         v.start = w.start, v.revision = w.revision, v.begin = w.begin, v.end = w.end,
         v.name = [t \in w.tasks |-> v.name[t]],
         \A t, u \in w.tasks : v.name[t] = v.name[u] => t = u,
         v.dur \in [w.tasks -> 1 .. MaxDuration], v.preds \in [w.tasks -> Seq(R)],
         v.snb \in [w.tasks -> Int \cup {NoDate}]
  PROVE  Sound(v, R)
<1>1. /\ IsFiniteSet(w.tasks) /\ NoTask \notin w.tasks /\ Len(w.list) = Cardinality(w.tasks)
      /\ w.list \in Seq(w.tasks) /\ \A u \in w.tasks : \E i \in DOMAIN w.list : w.list[i] = u
      /\ w.start \in Int /\ w.revision \in Nat
      /\ w.begin \in [w.tasks -> Int] /\ w.end \in [w.tasks -> Int]
  BY Zenon DEF Sound
<1>2. /\ IsFiniteSet(v.tasks) /\ NoTask \notin v.tasks /\ Len(v.list) = Cardinality(v.tasks)
      /\ v.list \in Seq(v.tasks) /\ \A u \in v.tasks : \E i \in DOMAIN v.list : v.list[i] = u
      /\ v.start \in Int /\ v.revision \in Nat
      /\ v.begin \in [v.tasks -> Int] /\ v.end \in [v.tasks -> Int]
  BY <1>1, Zenon
<1>3. /\ v.name = [t \in v.tasks |-> v.name[t]]
      /\ \A t, u \in v.tasks : v.name[t] = v.name[u] => t = u
      /\ v.dur \in [v.tasks -> 1 .. MaxDuration] /\ v.preds \in [v.tasks -> Seq(R)]
      /\ v.snb \in [v.tasks -> Int \cup {NoDate}]
  BY Zenon
<1> QED
  BY <1>2, <1>3, Zenon DEF Sound

(* Its fields, one by one. *)
LEMMA SoundFields ==
  ASSUME NEW w, NEW R, Sound(w, R)
  PROVE  /\ DOMAIN w = Fields
         /\ w.name = [t \in w.tasks |-> w.name[t]]
         /\ \A t, u \in w.tasks : w.name[t] = w.name[u] => t = u
         /\ w.dur \in [w.tasks -> 1 .. MaxDuration] /\ w.preds \in [w.tasks -> Seq(R)]
         /\ w.snb \in [w.tasks -> Int \cup {NoDate}]
BY Zenon DEF Sound

LEMMA NewDuration ==
  ASSUME NEW w, NEW R, Sound(w, R), NEW r \in w.tasks, NEW dur \in 1 .. MaxDuration
  PROVE  LET new == [w EXCEPT !.dur[r] = dur] IN
         /\ Sound(new, R) /\ KeepsRows(w, new) /\ new.tasks = w.tasks
         /\ new.start = w.start /\ new.revision = w.revision
         /\ dur <= w.dur[r] => Relaxed(w, new)
<1> DEFINE new == [w EXCEPT !.dur[r] = dur]
<1>1. /\ new = [field \in Fields |-> new[field]]
      /\ new.tasks = w.tasks /\ new.list = w.list /\ new.name = w.name
      /\ new.preds = w.preds /\ new.snb = w.snb /\ new.start = w.start
      /\ new.revision = w.revision /\ new.begin = w.begin /\ new.end = w.end
      /\ new.dur = [w.dur EXCEPT ![r] = dur]
  <2>1. DOMAIN w = Fields
    BY Zenon DEF Sound
  <2> QED
    BY <2>1 DEF Fields
<1> HIDE DEF new
<1>2. w.dur \in [w.tasks -> 1 .. MaxDuration]
  BY DEF Sound
<1>3. new.dur \in [w.tasks -> 1 .. MaxDuration]
  BY <1>1, <1>2
<1>4. Sound(new, R)
  <2>1. /\ w.name = [t \in w.tasks |-> w.name[t]]
        /\ \A t, u \in w.tasks : w.name[t] = w.name[u] => t = u
        /\ w.dur \in [w.tasks -> 1 .. MaxDuration] /\ w.preds \in [w.tasks -> Seq(R)]
        /\ w.snb \in [w.tasks -> Int \cup {NoDate}]
    BY SoundFields, Zenon
  <2>2. /\ new.name = [t \in w.tasks |-> new.name[t]]
        /\ \A t, u \in w.tasks : new.name[t] = new.name[u] => t = u
    BY <1>1, <2>1, Zenon
  <2>3. /\ new.dur \in [w.tasks -> 1 .. MaxDuration] /\ new.preds \in [w.tasks -> Seq(R)]
        /\ new.snb \in [w.tasks -> Int \cup {NoDate}]
    BY <1>1, <1>3, <2>1, Zenon
  <2> QED
    BY <1>1, <2>2, <2>3, SoundLike, Zenon
<1>5. ASSUME dur <= w.dur[r] PROVE Relaxed(w, new)
  <2>1. \A t \in w.tasks : w.dur[t] \in Int
    BY DurationIsNatural
  <2>2. \A t \in w.tasks : new.dur[t] <= w.dur[t]
    BY <1>1, <1>2, <1>5, <2>1
  <2>3. \A t \in w.tasks : PredsOf(new, t) = PredsOf(w, t)
    BY <1>1 DEF PredsOf
  <2> QED
    BY <1>1, <2>2, <2>3 DEF Relaxed
<1> QED
  BY <1>1, <1>4, <1>5, SameRows DEF new

LEMMA NewConstraint ==
  ASSUME NEW w, NEW R, Sound(w, R), NEW r \in w.tasks, NEW snb \in Int \cup {NoDate}
  PROVE  LET new == [w EXCEPT !.snb[r] = snb] IN
         /\ Sound(new, R) /\ KeepsRows(w, new) /\ new.tasks = w.tasks
         /\ new.start = w.start /\ new.revision = w.revision
         /\ snb = NoDate => Relaxed(w, new)
<1> DEFINE new == [w EXCEPT !.snb[r] = snb]
<1>1. /\ new = [field \in Fields |-> new[field]]
      /\ new.tasks = w.tasks /\ new.list = w.list /\ new.name = w.name
      /\ new.preds = w.preds /\ new.dur = w.dur /\ new.start = w.start
      /\ new.revision = w.revision /\ new.begin = w.begin /\ new.end = w.end
      /\ new.snb = [w.snb EXCEPT ![r] = snb]
  <2>1. DOMAIN w = Fields
    BY Zenon DEF Sound
  <2> QED
    BY <2>1 DEF Fields
<1> HIDE DEF new
<1>2. w.snb \in [w.tasks -> Int \cup {NoDate}]
  BY DEF Sound
<1>3. new.snb \in [w.tasks -> Int \cup {NoDate}]
  BY <1>1, <1>2
<1>4. Sound(new, R)
  <2>1. /\ w.name = [t \in w.tasks |-> w.name[t]]
        /\ \A t, u \in w.tasks : w.name[t] = w.name[u] => t = u
        /\ w.dur \in [w.tasks -> 1 .. MaxDuration] /\ w.preds \in [w.tasks -> Seq(R)]
        /\ w.snb \in [w.tasks -> Int \cup {NoDate}]
    BY SoundFields, Zenon
  <2>2. /\ new.name = [t \in w.tasks |-> new.name[t]]
        /\ \A t, u \in w.tasks : new.name[t] = new.name[u] => t = u
    BY <1>1, <2>1, Zenon
  <2>3. /\ new.dur \in [w.tasks -> 1 .. MaxDuration] /\ new.preds \in [w.tasks -> Seq(R)]
        /\ new.snb \in [w.tasks -> Int \cup {NoDate}]
    BY <1>1, <1>3, <2>1, Zenon
  <2> QED
    BY <1>1, <2>2, <2>3, SoundLike, Zenon
<1>5. ASSUME snb = NoDate PROVE Relaxed(w, new)
  <2>1. \A t \in w.tasks : new.dur[t] <= w.dur[t]
    BY <1>1, DurationIsNatural
  <2>2. \A t \in w.tasks : PredsOf(new, t) = PredsOf(w, t)
    BY <1>1 DEF PredsOf
  <2>3. \A t \in w.tasks : new.snb[t] \in {w.snb[t], NoDate}
    BY <1>1, <1>2, <1>5
  <2> QED
    BY <1>1, <2>1, <2>2, <2>3 DEF Relaxed
<1> QED
  BY <1>1, <1>4, <1>5, SameRows DEF new

LEMMA NewPredecessors ==
  ASSUME NEW w, NEW R, Sound(w, R), NEW r \in w.tasks, NEW list \in Seq(R)
  PROVE  LET new == [w EXCEPT !.preds[r] = list] IN
         /\ Sound(new, R) /\ KeepsRows(w, new) /\ new.tasks = w.tasks
         /\ new.start = w.start /\ new.revision = w.revision
         /\ (\A i \in DOMAIN list : list[i] \in PredsOf(w, r)) => Relaxed(w, new)
<1> DEFINE new == [w EXCEPT !.preds[r] = list]
<1>1. /\ new = [field \in Fields |-> new[field]]
      /\ new.tasks = w.tasks /\ new.list = w.list /\ new.name = w.name
      /\ new.snb = w.snb /\ new.dur = w.dur /\ new.start = w.start
      /\ new.revision = w.revision /\ new.begin = w.begin /\ new.end = w.end
      /\ new.preds = [w.preds EXCEPT ![r] = list]
  <2>1. DOMAIN w = Fields
    BY Zenon DEF Sound
  <2> QED
    BY <2>1 DEF Fields
<1> HIDE DEF new
<1>2. w.preds \in [w.tasks -> Seq(R)]
  BY DEF Sound
<1>3. new.preds \in [w.tasks -> Seq(R)]
  BY <1>1, <1>2
<1>4. Sound(new, R)
  <2>1. /\ w.name = [t \in w.tasks |-> w.name[t]]
        /\ \A t, u \in w.tasks : w.name[t] = w.name[u] => t = u
        /\ w.dur \in [w.tasks -> 1 .. MaxDuration] /\ w.preds \in [w.tasks -> Seq(R)]
        /\ w.snb \in [w.tasks -> Int \cup {NoDate}]
    BY SoundFields, Zenon
  <2>2. /\ new.name = [t \in w.tasks |-> new.name[t]]
        /\ \A t, u \in w.tasks : new.name[t] = new.name[u] => t = u
    BY <1>1, <2>1, Zenon
  <2>3. /\ new.dur \in [w.tasks -> 1 .. MaxDuration] /\ new.preds \in [w.tasks -> Seq(R)]
        /\ new.snb \in [w.tasks -> Int \cup {NoDate}]
    BY <1>1, <1>3, <2>1, Zenon
  <2> QED
    BY <1>1, <2>2, <2>3, SoundLike, Zenon
<1>5. ASSUME (\A i \in DOMAIN list : list[i] \in PredsOf(w, r)) PROVE Relaxed(w, new)
  <2>1. \A t \in w.tasks : new.dur[t] <= w.dur[t]
    BY <1>1, DurationIsNatural
  <2>2. \A t \in w.tasks \ {r} : new.preds[t] = w.preds[t]
    BY <1>1, <1>2
  <2>3. new.preds[r] = list
    BY <1>1, <1>2
  <2>4. \A t \in w.tasks : PredsOf(new, t) \subseteq PredsOf(w, t)
    BY <1>5, <2>2, <2>3 DEF PredsOf
  <2>5. \A t \in w.tasks : new.snb[t] \in {w.snb[t], NoDate}
    BY <1>1
  <2> QED
    BY <1>1, <2>1, <2>4, <2>5 DEF Relaxed
<1> QED
  BY <1>1, <1>4, <1>5, SameRows DEF new

LEMMA NewFields ==
  ASSUME NEW w, NEW R, Sound(w, R), NEW new, new = [field \in Fields |-> new[field]],
         \A field \in Fields \ {"name", "assignee"} : new[field] = w[field],
         new.name = [t \in w.tasks |-> new.name[t]],
         \A t, u \in w.tasks : new.name[t] = new.name[u] => t = u
  PROVE  /\ Sound(new, R) /\ KeepsRows(w, new) /\ new.tasks = w.tasks
         /\ new.start = w.start /\ new.revision = w.revision
         /\ Relaxed(w, new)
<1>1. /\ new.tasks = w.tasks /\ new.list = w.list
      /\ new.preds = w.preds /\ new.snb = w.snb /\ new.start = w.start
      /\ new.revision = w.revision /\ new.begin = w.begin /\ new.end = w.end
      /\ new.dur = w.dur
  BY DEF Fields
<1>2. Sound(new, R)
  <2>1. /\ w.dur \in [w.tasks -> 1 .. MaxDuration] /\ w.preds \in [w.tasks -> Seq(R)]
        /\ w.snb \in [w.tasks -> Int \cup {NoDate}]
    BY SoundFields, Zenon
  <2> QED
    BY <1>1, <2>1, SoundLike, Zenon
<1>3. Relaxed(w, new)
  <2>1. \A t \in w.tasks : new.dur[t] <= w.dur[t]
    BY <1>1, DurationIsNatural
  <2>2. \A t \in w.tasks : PredsOf(new, t) = PredsOf(w, t)
    BY <1>1 DEF PredsOf
  <2> QED
    BY <1>1, <2>1, <2>2 DEF Relaxed
<1> QED
  BY <1>1, <1>2, <1>3, SameRows

-----------------------------------------------------------------------------
(* The operations. *)

LEMMA FailureKeepsCopies ==
  ASSUME CopyInv, Reject \/ Crash
  PROVE  CopyInv'
<1>1. Plan(project)
  BY DEF CopyInv
<1> QED
  BY <1>1, LeaveKeepsCopies DEF Reject, Crash

(* An operation that adds no task and is not a move. *)
LEMMA EditKeepsCopies ==
  ASSUME CopyInv, phase = "applying", NEW w, NEW relaxes \in BOOLEAN,
         Done(w, NoMove, relaxes), Sound(w, tasks.tasks \cup allotted),
         w.tasks = tasks.tasks, KeepsRows(tasks, w),
         w.start = tasks.start, w.revision = tasks.revision, relaxes => Relaxed(tasks, w)
  PROVE  CopyInv'
BY DoneKeepsCopies

LEMMA TypeOfCopy ==
  ASSUME CopyInv
  PROVE  Sound(tasks, tasks.tasks \cup allotted)
BY DEF CopyInv

(* The dates of a plan. *)
LEMMA PlanDates ==
  ASSUME NEW p, Plan(p)
  PROVE  /\ Schedulable(p) /\ p.begin = StartDates(p)
         /\ p.begin \in [p.tasks -> Int] /\ Feasible(p, p.begin)
         /\ \A t \in p.tasks : p.end[t] = EndFor(p, t, p.begin[t])
<1>1. Schedulable(p) /\ p.begin = StartDates(p) /\ p.end = EndDates(p)
  BY SoundIsSchedulable DEF Plan
<1>2. p.begin \in [p.tasks -> Int] /\ Feasible(p, p.begin)
  BY <1>1, StartDatesFeasible
<1>3. \A t \in p.tasks : p.end[t] = EndFor(p, t, p.begin[t])
  BY <1>1 DEF EndDates
<1> QED
  BY <1>1, <1>2, <1>3

(* What a move is measured against is what the schedule would leave the task. *)
LEMMA DependencyStartFacts ==
  ASSUME NEW p, Plan(p), NEW t \in p.tasks
  PROVE  /\ DependencyEarliestStart(p, t) \in Int
         /\ EarliestStart(p, t, p.begin) = NextWorkday(DependencyEarliestStart(p, t))
<1>1. /\ Schedulable(p) /\ p.begin \in [p.tasks -> Int] /\ Feasible(p, p.begin)
      /\ \A q \in p.tasks : p.end[q] = EndFor(p, q, p.begin[q])
  BY PlanDates
<1>2. IsFiniteSet(PredsOf(p, t)) /\ PredsOf(p, t) \subseteq p.tasks
  BY <1>1, PredsFinite
<1>3. /\ EarliestStart(p, t, p.begin) \in Int /\ ~IsWeekend(EarliestStart(p, t, p.begin))
  <2>1. \A q \in PredsOf(p, t) : p.begin[q] \in Int /\ ~IsWeekend(p.begin[q])
    BY <1>1, <1>2 DEF Feasible
  <2> QED
    BY <1>1, <2>1, EarliestStartFacts
<1>4. CASE PredsOf(p, t) = {}
  <2>1. p.start \in Int
    BY <1>1 DEF Schedulable
  <2> QED
    BY <1>4, <2>1 DEF EarliestStart, DependencyEarliestStart
<1>5. CASE PredsOf(p, t) # {}
  <2>1. {p.end[q] : q \in PredsOf(p, t)} = {EndFor(p, q, p.begin[q]) : q \in PredsOf(p, t)}
    BY <1>1, <1>2
  <2>2. DependencyEarliestStart(p, t) = EarliestStart(p, t, p.begin)
    BY <1>5, <2>1 DEF EarliestStart, DependencyEarliestStart
  <2> QED
    BY <1>3, <2>2 DEF NextWorkday
<1> QED
  BY <1>4, <1>5

LEMMA UpdateKeepsCopies == CopyInv /\ UpdateTaskFields => CopyInv'
<1> SUFFICES ASSUME CopyInv, UpdateTaskFields PROVE CopyInv'
  OBVIOUS
<1>1. PICK r \in Refs, name \in Names \cup {BadName}, assignee \in Assignees :
        OnTask(r, IF NameFree(name, r)
                    THEN Done([tasks EXCEPT !.name[r] = name, !.assignee[r] = assignee], NoMove, TRUE)
                    ELSE Reject)
  BY DEF UpdateTaskFields
<1>2. CASE Reject \/ Crash
  BY <1>2, FailureKeepsCopies
<1> DEFINE new == [tasks EXCEPT !.name[r] = name, !.assignee[r] = assignee]
<1>3. CASE r \in tasks.tasks /\ NameFree(name, r) /\ Done(new, NoMove, TRUE)
  <2>1. Sound(tasks, tasks.tasks \cup allotted)
    BY TypeOfCopy
  <2>2. /\ DOMAIN tasks = Fields /\ tasks.name = [t \in tasks.tasks |-> tasks.name[t]]
        /\ \A t, u \in tasks.tasks : tasks.name[t] = tasks.name[u] => t = u
    BY <2>1, SoundFields, Zenon
  <2>3. /\ new = [field \in Fields |-> new[field]]
        /\ \A field \in Fields \ {"name", "assignee"} : new[field] = tasks[field]
        /\ new.name = [tasks.name EXCEPT ![r] = name]
    BY <2>2 DEF Fields
  <2> HIDE DEF new
  <2>4. /\ new.name = [t \in tasks.tasks |-> new.name[t]] /\ new.name[r] = name
        /\ \A t \in tasks.tasks \ {r} : new.name[t] = tasks.name[t]
    BY <1>3, <2>2, <2>3
  <2>5. \A t, u \in tasks.tasks : new.name[t] = new.name[u] => t = u
    BY <1>3, <2>2, <2>4 DEF NameFree
  <2>6. /\ Sound(new, tasks.tasks \cup allotted) /\ KeepsRows(tasks, new)
        /\ new.tasks = tasks.tasks
        /\ new.start = tasks.start /\ new.revision = tasks.revision
        /\ Relaxed(tasks, new)
    BY <2>1, <2>3, <2>4, <2>5, NewFields
  <2>7. phase = "applying"
    BY DEF UpdateTaskFields, Applying
  <2> QED
    BY <1>3, <2>6, <2>7, EditKeepsCopies
<1> QED
  BY <1>1, <1>2, <1>3 DEF OnTask, Exists

LEMMA DurationCases ==
  ASSUME ChangeDuration
  PROVE  \E r, dur, relaxes :
           \/ Reject \/ Crash
           \/ /\ r \in tasks.tasks /\ InRange(dur) /\ relaxes = (dur <= tasks.dur[r])
              /\ Done([tasks EXCEPT !.dur[r] = dur], NoMove, relaxes)
BY DEF ChangeDuration, OnTask, Exists

LEMMA DurationKeepsCopies == CopyInv /\ ChangeDuration => CopyInv'
<1> SUFFICES ASSUME CopyInv, ChangeDuration PROVE CopyInv'
  OBVIOUS
<1> DEFINE Duration(r, dur) == [tasks EXCEPT !.dur[r] = dur]
<1>2. PICK r, dur, relaxes :
        \/ Reject \/ Crash
        \/ /\ r \in tasks.tasks /\ InRange(dur) /\ relaxes = (dur <= tasks.dur[r])
           /\ Done(Duration(r, dur), NoMove, relaxes)
  BY DurationCases
<1>3. CASE Reject \/ Crash
  BY <1>3, FailureKeepsCopies
<1>4. CASE /\ r \in tasks.tasks /\ InRange(dur) /\ relaxes = (dur <= tasks.dur[r])
           /\ Done(Duration(r, dur), NoMove, relaxes)
  <2>1. Sound(tasks, tasks.tasks \cup allotted) /\ dur \in 1 .. MaxDuration
    BY <1>4, TypeOfCopy DEF InRange
  <2>2. relaxes \in BOOLEAN
    BY <1>4
  <2>3. phase = "applying"
    BY DEF ChangeDuration, Applying
  <2> DEFINE new == Duration(r, dur)
  <2>4. /\ Sound(new, tasks.tasks \cup allotted) /\ KeepsRows(tasks, new)
        /\ new.tasks = tasks.tasks
        /\ new.start = tasks.start /\ new.revision = tasks.revision
        /\ relaxes => Relaxed(tasks, new)
    BY <1>4, <2>1, NewDuration, Zenon
  <2>5. Done(new, NoMove, relaxes)
    BY <1>4
  <2> HIDE DEF new
  <2> QED
    BY <2>2, <2>3, <2>4, <2>5, EditKeepsCopies
<1> QED
  BY <1>2, <1>3, <1>4

LEMMA ClearKeepsCopies == CopyInv /\ ClearStartConstraint => CopyInv'
<1> SUFFICES ASSUME CopyInv, ClearStartConstraint PROVE CopyInv'
  OBVIOUS
<1>1. PICK r \in Refs : OnTask(r, Done([tasks EXCEPT !.snb[r] = NoDate], NoMove, TRUE))
  BY DEF ClearStartConstraint
<1>2. CASE Reject \/ Crash
  BY <1>2, FailureKeepsCopies
<1>3. CASE r \in tasks.tasks /\ Done([tasks EXCEPT !.snb[r] = NoDate], NoMove, TRUE)
  <2>1. Sound(tasks, tasks.tasks \cup allotted) /\ phase = "applying"
    BY TypeOfCopy DEF ClearStartConstraint, Applying
  <2> QED
    BY <1>3, <2>1, NewConstraint, EditKeepsCopies
<1> QED
  BY <1>1, <1>2, <1>3 DEF OnTask, Exists

LEMMA MoveKeepsCopies == CopyInv /\ MoveTask => CopyInv'
<1> SUFFICES ASSUME CopyInv, MoveTask PROVE CopyInv'
  OBVIOUS
<1> DEFINE Moved(r, target) == [tasks EXCEPT !.snb[r] = target]
           Move(r, target) == [task |-> r, target |-> target]
<1>1. \E r, target :
        \/ Reject \/ Crash
        \/ /\ r \in tasks.tasks /\ target \in Dates \cup {ShiftWorkdays(tasks.begin[r], n) : n \in Moves}
           /\ ~(target < DependencyEarliestStart(tasks, r))
           /\ Done(Moved(r, target), Move(r, target), FALSE)
  BY DEF MoveTask, OnTask, Exists
<1>2. PICK r, target :
        \/ Reject \/ Crash
        \/ /\ r \in tasks.tasks /\ target \in Dates \cup {ShiftWorkdays(tasks.begin[r], n) : n \in Moves}
           /\ ~(target < DependencyEarliestStart(tasks, r))
           /\ Done(Moved(r, target), Move(r, target), FALSE)
  BY <1>1
<1>3. CASE Reject \/ Crash
  BY <1>3, FailureKeepsCopies
<1> DEFINE new  == Moved(r, target)
           move == Move(r, target)
<1>4. CASE /\ r \in tasks.tasks /\ target \in Dates \cup {ShiftWorkdays(tasks.begin[r], n) : n \in Moves}
           /\ ~(target < DependencyEarliestStart(tasks, r)) /\ Done(new, move, FALSE)
  <2>1. Sound(tasks, tasks.tasks \cup allotted)
    BY TypeOfCopy
  <2>2. target \in Int
    <3>1. tasks.begin[r] \in Int
      BY <1>4, <2>1 DEF Sound
    <3>2. \A n \in Moves : ShiftWorkdays(tasks.begin[r], n) \in Int
      BY <3>1, BoundsAssumption, NumberType DEF ShiftWorkdays, AddWorkdays
    <3> QED
      BY <1>4, <3>2, BoundsAssumption
  <2>3. /\ Sound(new, tasks.tasks \cup allotted) /\ KeepsRows(tasks, new)
        /\ new.tasks = tasks.tasks
        /\ new.start = tasks.start /\ new.revision = tasks.revision
    BY <1>4, <2>1, <2>2, NewConstraint, Zenon
  <2>4. move.task = r /\ move.target = target
    OBVIOUS
  <2>5. ASSUME operations = 0
        PROVE  /\ r \in project.tasks /\ new = [project EXCEPT !.snb[r] = target]
               /\ DependencyEarliestStart(project, r) <= target
    <3>1. tasks = project /\ Plan(project)
      BY <2>5 DEF CopyInv
    <3>2. DependencyEarliestStart(project, r) \in Int
      BY <1>4, <3>1, DependencyStartFacts
    <3> QED
      BY <1>4, <2>2, <3>1, <3>2
  <2>6. /\ phase = "applying" /\ tasks.tasks \subseteq new.tasks
        /\ new.tasks \subseteq tasks.tasks \cup allotted
    BY <2>3 DEF MoveTask, Applying
  <2>7. Done(new, move, FALSE)
    BY <1>4
  <2> HIDE DEF move
  <2>8. move # NoMove /\ operations = 0 =>
           /\ move.task \in project.tasks /\ move.target \in Int
           /\ new = [project EXCEPT !.snb[move.task] = move.target]
           /\ DependencyEarliestStart(project, move.task) <= move.target
    BY <2>2, <2>4, <2>5
  <2> HIDE DEF new
  <2> QED
    BY <2>3, <2>6, <2>7, <2>8, DoneKeepsCopies
<1> QED
  BY <1>2, <1>3, <1>4

LEMMA ListOf ==
  ASSUME NEW Q, NEW list \in Lists(Q), NEW A, \A i \in DOMAIN list : list[i] \in A
  PROVE  list \in Seq(A)
<1>1. PICK n \in 0 .. MaxListed : list \in [1 .. n -> Q]
  BY DEF Lists
<1>2. n \in Nat /\ list \in [1 .. n -> A]
  BY <1>1, BoundsAssumption
<1> QED
  BY <1>2

(* The new list of predecessors of a task. *)
LEMMA PredecessorsKeepCopies ==
  ASSUME CopyInv, phase = "applying", NEW r \in tasks.tasks,
         NEW list \in Seq(tasks.tasks \cup allotted), NEW relaxes \in BOOLEAN,
         relaxes => (\A i \in DOMAIN list : list[i] \in PredsOf(tasks, r)),
         Done([tasks EXCEPT !.preds[r] = list], NoMove, relaxes)
  PROVE  CopyInv'
<1> DEFINE new == [tasks EXCEPT !.preds[r] = list]
<1>1. Sound(tasks, tasks.tasks \cup allotted)
  BY TypeOfCopy
<1>2. /\ Sound(new, tasks.tasks \cup allotted) /\ KeepsRows(tasks, new)
      /\ new.tasks = tasks.tasks
      /\ new.start = tasks.start /\ new.revision = tasks.revision
      /\ (\A i \in DOMAIN list : list[i] \in PredsOf(tasks, r)) => Relaxed(tasks, new)
  BY <1>1, NewPredecessors DEF new
<1>3. Done(new, NoMove, relaxes)
  OBVIOUS
<1> HIDE DEF new
<1> QED
  BY <1>2, <1>3, EditKeepsCopies

LEMMA SetKeepsCopies == CopyInv /\ SetPredecessors => CopyInv'
<1> SUFFICES ASSUME CopyInv, SetPredecessors PROVE CopyInv'
  OBVIOUS
<1>1. PICK r \in Refs, preds \in Lists(Refs) :
        OnTask(r, IF \E i \in DOMAIN preds : ~Resolves(preds[i]) \/ preds[i] = r
                    THEN Reject
                    ELSE Done([tasks EXCEPT !.preds[r] = Distinct(preds)], NoMove, FALSE))
  BY DEF SetPredecessors
<1>2. CASE Reject \/ Crash
  BY <1>2, FailureKeepsCopies
<1>3. CASE /\ r \in tasks.tasks /\ \A i \in DOMAIN preds : Resolves(preds[i])
           /\ Done([tasks EXCEPT !.preds[r] = Distinct(preds)], NoMove, FALSE)
  <2>1. preds \in Seq(tasks.tasks \cup allotted)
    BY <1>3, ListOf DEF Resolves
  <2>2. Distinct(preds) \in Seq(tasks.tasks \cup allotted)
    BY <2>1, KeptFacts, Zenon DEF Distinct
  <2>3. phase = "applying"
    BY DEF SetPredecessors, Applying
  <2> QED
    BY <1>3, <2>2, <2>3, PredecessorsKeepCopies
<1> QED
  BY <1>1, <1>2, <1>3 DEF OnTask, Exists

LEMMA AddKeepsCopies == CopyInv /\ AddDependency => CopyInv'
<1> SUFFICES ASSUME CopyInv, AddDependency PROVE CopyInv'
  OBVIOUS
<1>1. PICK pred \in Refs, succ \in Refs :
        \/ Reject \/ Crash
        \/ /\ Resolves(pred) /\ succ \in tasks.tasks
           /\ Done([tasks EXCEPT !.preds[succ] = Append(@, pred)], NoMove, FALSE)
  BY DEF AddDependency, OnTask, Exists
<1>2. CASE Reject \/ Crash
  BY <1>2, FailureKeepsCopies
<1>3. CASE /\ Resolves(pred) /\ succ \in tasks.tasks
           /\ Done([tasks EXCEPT !.preds[succ] = Append(@, pred)], NoMove, FALSE)
  <2>1. tasks.preds[succ] \in Seq(tasks.tasks \cup allotted)
    <3>1. tasks.preds \in [tasks.tasks -> Seq(tasks.tasks \cup allotted)]
      BY TypeOfCopy, SoundFields, Zenon
    <3> QED
      BY <1>3, <3>1
  <2> DEFINE list == Append(tasks.preds[succ], pred)
  <2>2. list \in Seq(tasks.tasks \cup allotted)
    BY <1>3, <2>1 DEF Resolves
  <2>3. phase = "applying"
    BY DEF AddDependency, Applying
  <2>4. Done([tasks EXCEPT !.preds[succ] = list], NoMove, FALSE)
    BY <1>3
  <2> HIDE DEF list
  <2> QED
    BY <1>3, <2>2, <2>3, <2>4, PredecessorsKeepCopies
<1> QED
  BY <1>1, <1>2, <1>3

LEMMA RemoveKeepsCopies == CopyInv /\ RemoveDependency => CopyInv'
<1> SUFFICES ASSUME CopyInv, RemoveDependency PROVE CopyInv'
  OBVIOUS
<1>1. PICK pred \in Refs, succ \in Refs :
        \/ Reject \/ Crash
        \/ /\ succ \in tasks.tasks
           /\ Done([tasks EXCEPT !.preds[succ] = Without(@, pred)], NoMove, TRUE)
  BY DEF RemoveDependency, OnTask, Exists
<1>2. CASE Reject \/ Crash
  BY <1>2, FailureKeepsCopies
<1>3. CASE /\ succ \in tasks.tasks
           /\ Done([tasks EXCEPT !.preds[succ] = Without(@, pred)], NoMove, TRUE)
  <2>1. tasks.preds[succ] \in Seq(tasks.tasks \cup allotted)
    <3>1. tasks.preds \in [tasks.tasks -> Seq(tasks.tasks \cup allotted)]
      BY TypeOfCopy, SoundFields, Zenon
    <3> QED
      BY <1>3, <3>1
  <2> DEFINE list == Without(tasks.preds[succ], pred)
  <2>2. /\ list \in Seq(tasks.tasks \cup allotted)
        /\ \A i \in DOMAIN list : \E j \in DOMAIN tasks.preds[succ] : list[i] = tasks.preds[succ][j]
    <3> DEFINE keep == {i \in DOMAIN tasks.preds[succ] : tasks.preds[succ][i] # pred}
    <3>1. list = KeptAt(tasks.preds[succ], keep)
      BY DEF Without
    <3> HIDE DEF list, keep
    <3>2. /\ KeptAt(tasks.preds[succ], keep) \in Seq(tasks.tasks \cup allotted)
          /\ \A i \in DOMAIN KeptAt(tasks.preds[succ], keep) : \E j \in DOMAIN tasks.preds[succ] :
               j \in keep /\ KeptAt(tasks.preds[succ], keep)[i] = tasks.preds[succ][j]
      BY <2>1, KeptFacts
    <3> QED
      BY <3>1, <3>2
  <2>3. phase = "applying"
    BY DEF RemoveDependency, Applying
  <2>4. Done([tasks EXCEPT !.preds[succ] = list], NoMove, TRUE)
    BY <1>3
  <2> HIDE DEF list
  <2>5. (\A i \in DOMAIN list : list[i] \in PredsOf(tasks, succ))
    BY <2>2 DEF PredsOf
  <2> QED
    BY <1>3, <2>2, <2>3, <2>4, <2>5, PredecessorsKeepCopies
<1> QED
  BY <1>1, <1>2, <1>3

LEMMA CreateKeepsCopies == CopyInv /\ CreateTask => CopyInv'
<1> SUFFICES ASSUME CopyInv, CreateTask PROVE CopyInv'
  OBVIOUS
<1>1. \E t, name, assignee, dur, preds, snb, after :
        \/ Reject \/ Crash
        \/ /\ t \in allotted \ tasks.tasks /\ NameFree(name, NoTask) /\ dur \in 1 .. MaxDuration
           /\ preds \in Lists(Refs) /\ \A i \in DOMAIN preds : Resolves(preds[i])
           /\ snb \in Dates \cup {NoDate} /\ (after = NoTask \/ after \in tasks.tasks)
           /\ Done(WithTask(tasks, t, name, assignee, dur, preds, snb, after), NoMove, FALSE)
  BY DEF CreateTask, Exists, InRange
<1>2. PICK t, name, assignee, dur, preds, snb, after :
        \/ Reject \/ Crash
        \/ /\ t \in allotted \ tasks.tasks /\ NameFree(name, NoTask) /\ dur \in 1 .. MaxDuration
           /\ preds \in Lists(Refs) /\ \A i \in DOMAIN preds : Resolves(preds[i])
           /\ snb \in Dates \cup {NoDate} /\ (after = NoTask \/ after \in tasks.tasks)
           /\ Done(WithTask(tasks, t, name, assignee, dur, preds, snb, after), NoMove, FALSE)
  BY <1>1, Zenon
<1>3. CASE Reject \/ Crash
  BY <1>3, FailureKeepsCopies
<1> DEFINE new == WithTask(tasks, t, name, assignee, dur, preds, snb, after)
<1>4. CASE /\ t \in allotted \ tasks.tasks /\ NameFree(name, NoTask) /\ dur \in 1 .. MaxDuration
           /\ preds \in Lists(Refs) /\ \A i \in DOMAIN preds : Resolves(preds[i])
           /\ snb \in Dates \cup {NoDate} /\ (after = NoTask \/ after \in tasks.tasks)
           /\ Done(new, NoMove, FALSE)
  <2> DEFINE R == tasks.tasks \cup allotted
  <2>1. Sound(tasks, R)
    BY TypeOfCopy
  <2>2. preds \in Seq(R)
    BY <1>4, ListOf DEF Resolves
  <2>3. t \in R /\ t \notin tasks.tasks /\ t # NoTask /\ snb \in Int \cup {NoDate}
    BY <1>4, BoundsAssumption DEF CopyInv
  <2>4. \A u \in tasks.tasks : tasks.name[u] # name
    <3>1. NoTask \notin tasks.tasks
      BY <2>1, Zenon DEF Sound
    <3> QED
      BY <1>4, <3>1 DEF NameFree
  <2>5. /\ Sound(new, R) /\ KeepsRows(tasks, new)
        /\ new.tasks = tasks.tasks \cup {t}
        /\ new.start = tasks.start /\ new.revision = tasks.revision
    <3> HIDE DEF R
    <3>1. Addable(tasks, R, t, name, dur, preds, snb, after)
      BY <1>4, <2>1, <2>2, <2>3, <2>4 DEF Addable
    <3>2. Adds(tasks, R, t, preds, new)
      BY <3>1, NewTaskIsSound, Zenon
    <3> HIDE DEF new
    <3> QED
      BY <3>2 DEF Adds
  <2>6. tasks.tasks \subseteq new.tasks /\ new.tasks \subseteq R
    BY <2>3, <2>5
  <2>7. phase = "applying" /\ Done(new, NoMove, FALSE)
    BY <1>4 DEF CreateTask, Applying
  <2> HIDE DEF new
  <2> QED
    BY <2>5, <2>6, <2>7, DoneKeepsCopies
<1> QED
  BY <1>2, <1>3, <1>4

LEMMA ReplaceType ==
  ASSUME NEW A, NEW list \in Seq(A), NEW old, NEW new \in A
  PROVE  Replace(list, old, new) \in Seq(A)
<1> DEFINE other == Replace(list, old, new)
<1>1. other = [i \in 1 .. Len(list) |-> IF list[i] = old THEN new ELSE list[i]]
  BY DEF Replace
<1>2. Len(list) \in Nat /\ \A i \in 1 .. Len(list) : list[i] \in A
  OBVIOUS
<1>3. other \in [1 .. Len(list) -> A]
  BY <1>1, <1>2
<1> HIDE DEF other
<1>4. other \in Seq(A)
  BY <1>2, <1>3, SeqDef
<1> QED
  BY <1>4 DEF other

(* The copy that insert_task_between leaves. *)
Insertion(t, name, assignee, dur, pred, succ) ==
  [WithTask(tasks, t, name, assignee, dur, <<pred>>, NoDate, pred)
     EXCEPT !.preds[succ] = Replace(@, pred, t)]

LEMMA InsertCases ==
  ASSUME InsertTaskBetween
  PROVE  \E t, name, assignee, dur, pred, succ :
           \/ Reject \/ Crash
           \/ /\ t \in allotted \ tasks.tasks /\ NameFree(name, NoTask) /\ dur \in 1 .. MaxDuration
              /\ pred \in tasks.tasks /\ succ \in tasks.tasks /\ pred \in PredsOf(tasks, succ)
              /\ Done(Insertion(t, name, assignee, dur, pred, succ), NoMove, FALSE)
<1>1. PICK t \in allotted \ tasks.tasks, name \in Names \cup {BadName}, dur \in Amounts,
        pred \in Refs, succ \in Refs :
        IF ~Resolves(pred) THEN Reject
        ELSE OnTask(succ,
          IF pred \notin PredsOf(tasks, succ) \/ ~NameFree(name, NoTask) \/ ~InRange(dur)
            THEN Reject
          ELSE IF ~Exists(pred) THEN Crash
          ELSE \E assignee \in Assignees :
                 Done(Insertion(t, name, assignee, dur, pred, succ), NoMove, FALSE))
  BY Zenon DEF InsertTaskBetween, Insertion
<1>2. CASE Reject \/ Crash
  BY <1>2
<1>3. CASE /\ pred \in tasks.tasks /\ succ \in tasks.tasks /\ NameFree(name, NoTask)
           /\ pred \in PredsOf(tasks, succ) /\ dur \in 1 .. MaxDuration
           /\ \E assignee \in Assignees :
                Done(Insertion(t, name, assignee, dur, pred, succ), NoMove, FALSE)
  BY <1>3
<1> QED
  BY <1>1, <1>2, <1>3 DEF OnTask, Exists, InRange

LEMMA InsertKeepsCopies == CopyInv /\ InsertTaskBetween => CopyInv'
<1> SUFFICES ASSUME CopyInv, InsertTaskBetween PROVE CopyInv'
  OBVIOUS
<1>2. PICK t, name, assignee, dur, pred, succ :
        \/ Reject \/ Crash
        \/ /\ t \in allotted \ tasks.tasks /\ NameFree(name, NoTask) /\ dur \in 1 .. MaxDuration
           /\ pred \in tasks.tasks /\ succ \in tasks.tasks /\ pred \in PredsOf(tasks, succ)
           /\ Done(Insertion(t, name, assignee, dur, pred, succ), NoMove, FALSE)
  BY InsertCases
<1>3. CASE Reject \/ Crash
  BY <1>3, FailureKeepsCopies
<1> DEFINE added == WithTask(tasks, t, name, assignee, dur, <<pred>>, NoDate, pred)
           new   == Insertion(t, name, assignee, dur, pred, succ)
           list  == Replace(added.preds[succ], pred, t)
<1>4. CASE /\ t \in allotted \ tasks.tasks /\ NameFree(name, NoTask) /\ dur \in 1 .. MaxDuration
           /\ pred \in tasks.tasks /\ succ \in tasks.tasks
           /\ Done(new, NoMove, FALSE)
  <2> DEFINE R == tasks.tasks \cup allotted
  <2>1. Sound(tasks, R)
    BY TypeOfCopy
  <2>2. <<pred>> \in Seq(R)
    BY <1>4
  <2>3. t \in R /\ t \notin tasks.tasks /\ t # NoTask /\ NoDate \in Int \cup {NoDate}
    BY <1>4, BoundsAssumption DEF CopyInv
  <2>4. \A u \in tasks.tasks : tasks.name[u] # name
    <3>1. NoTask \notin tasks.tasks
      BY <2>1, Zenon DEF Sound
    <3> QED
      BY <1>4, <3>1 DEF NameFree
  <2>5. /\ Sound(added, R) /\ KeepsRows(tasks, added)
        /\ added.tasks = tasks.tasks \cup {t}
        /\ added.start = tasks.start /\ added.revision = tasks.revision
    <3> HIDE DEF R
    <3>1. Addable(tasks, R, t, name, dur, <<pred>>, NoDate, pred)
      BY <1>4, <2>1, <2>2, <2>3, <2>4 DEF Addable
    <3>2. Adds(tasks, R, t, <<pred>>, added)
      BY <3>1, NewTaskIsSound, Zenon
    <3> HIDE DEF added
    <3> QED
      BY <3>2 DEF Adds
  <2>6. new = [added EXCEPT !.preds[succ] = list]
    BY DEF Insertion
  <2>7. phase = "applying" /\ Done(new, NoMove, FALSE)
    BY <1>4 DEF InsertTaskBetween, Applying
  <2> HIDE DEF added, new
  <2>8. list \in Seq(R)
    <3>1. added.preds \in [added.tasks -> Seq(R)] /\ succ \in added.tasks
      <4>1. added.preds \in [added.tasks -> Seq(R)]
        BY <2>5, SoundFields, Zenon
      <4> QED
        BY <1>4, <2>5, <4>1
    <3>2. added.preds[succ] \in Seq(R)
      BY <3>1
    <3> QED
      BY <2>3, <3>2, ReplaceType
  <2> HIDE DEF list
  <2>9. /\ Sound(new, R) /\ KeepsRows(added, new) /\ new.tasks = added.tasks
        /\ new.start = added.start /\ new.revision = added.revision
    <3>1. succ \in added.tasks
      BY <1>4, <2>5
    <3> HIDE DEF R
    <3>2. Sound(added, R)
      BY <2>5
    <3> QED
      BY <2>6, <2>8, <3>1, <3>2, NewPredecessors
  <2>10. KeepsRows(tasks, new)
    BY <2>5, <2>9, KeepsRowsTransitive, Zenon
  <2>11. /\ tasks.tasks \subseteq new.tasks /\ new.tasks \subseteq R
         /\ new.start = tasks.start /\ new.revision = tasks.revision
    BY <2>3, <2>5, <2>9
  <2> QED
    BY <2>7, <2>9, <2>10, <2>11, DoneKeepsCopies
<1> QED
  BY <1>2, <1>3, <1>4

LEMMA BulkKeepsCopies == CopyInv /\ BulkSetAssignee => CopyInv'
<1> SUFFICES ASSUME CopyInv, BulkSetAssignee PROVE CopyInv'
  OBVIOUS
<1>1. \E assignees :
        \/ Reject \/ Crash
        \/ Done([tasks EXCEPT !.assignee = assignees], NoMove, TRUE)
  BY DEF BulkSetAssignee
<1>2. PICK assignees : Reject \/ Crash \/ Done([tasks EXCEPT !.assignee = assignees], NoMove, TRUE)
  BY <1>1
<1>3. CASE Reject \/ Crash
  BY <1>3, FailureKeepsCopies
<1> DEFINE new == [tasks EXCEPT !.assignee = assignees]
<1>4. CASE Done(new, NoMove, TRUE)
  <2>1. Sound(tasks, tasks.tasks \cup allotted)
    BY TypeOfCopy
  <2>2. /\ DOMAIN tasks = Fields /\ tasks.name = [t \in tasks.tasks |-> tasks.name[t]]
        /\ \A t, u \in tasks.tasks : tasks.name[t] = tasks.name[u] => t = u
    BY <2>1, SoundFields, Zenon
  <2>3. /\ new = [field \in Fields |-> new[field]]
        /\ \A field \in Fields \ {"name", "assignee"} : new[field] = tasks[field]
        /\ new.name = tasks.name
    BY <2>2 DEF Fields
  <2>4. phase = "applying"
    BY DEF BulkSetAssignee, Applying
  <2> HIDE DEF new
  <2>5. /\ Sound(new, tasks.tasks \cup allotted) /\ KeepsRows(tasks, new)
        /\ new.tasks = tasks.tasks
        /\ new.start = tasks.start /\ new.revision = tasks.revision
        /\ Relaxed(tasks, new)
    BY <2>1, <2>2, <2>3, NewFields
  <2> QED
    BY <1>4, <2>4, <2>5, EditKeepsCopies
<1> QED
  BY <1>2, <1>3, <1>4

LEMMA BeginKeepsCopies == CopyInv /\ Begin => CopyInv'
<1> SUFFICES ASSUME CopyInv, Begin PROVE CopyInv'
  OBVIOUS
<1>1. CASE Reject
  BY <1>1, FailureKeepsCopies
<1>2. CASE \E refs \in SUBSET (NewIds \ project.tasks) :
             /\ phase' = "applying" /\ allotted' = refs /\ failure' = "none"
             /\ UNCHANGED <<project, tasks, operations, lastMove, relaxing>>
  <2>1. /\ phase' = "applying" /\ allotted' \subseteq NewIds \ project.tasks /\ failure' = "none"
        /\ project' = project /\ tasks' = tasks /\ operations' = operations
        /\ lastMove' = lastMove /\ relaxing' = relaxing
    BY <1>2
  <2>2. tasks = project /\ Plan(project)
    BY DEF Begin, CopyInv
  <2>3. Sound(tasks, tasks.tasks \cup allotted')
    BY <2>2, SoundWithMoreRefs DEF Plan
  <2> QED
    BY <2>1, <2>2, <2>3 DEF CopyInv
<1> QED
  BY <1>1, <1>2 DEF Begin

(* A copy without a cycle becomes a plan when its schedule is computed. *)
LEMMA ScheduledIsPlan ==
  ASSUME NEW w, Sound(w, w.tasks), Acyclic(w)
  PROVE  LET new == [Scheduled(w) EXCEPT !.revision = @ + 1] IN
         /\ Plan(new)
         /\ new.tasks = w.tasks /\ new.list = w.list /\ new.preds = w.preds
         /\ new.dur = w.dur /\ new.snb = w.snb /\ new.start = w.start
         /\ new.revision = w.revision + 1
<1> DEFINE new == [Scheduled(w) EXCEPT !.revision = @ + 1]
<1>1. Schedulable(w)
  BY SoundIsSchedulable
<1>2. /\ StartDates(w) \in [w.tasks -> Int] /\ Feasible(w, StartDates(w))
  BY <1>1, StartDatesFeasible
<1>3. EndDates(w) \in [w.tasks -> Int]
  <2>1. \A t \in w.tasks : EndFor(w, t, StartDates(w)[t]) \in Int
    <3> TAKE t \in w.tasks
    <3>1. StartDates(w)[t] \in Int /\ ~IsWeekend(StartDates(w)[t]) /\ w.dur[t] - 1 \in Nat
      BY <1>1, <1>2 DEF Feasible, Schedulable
    <3> QED
      BY <3>1, AddWorkdaysFacts DEF EndFor
  <2> QED
    BY <2>1 DEF EndDates
<1>4. /\ new = [field \in Fields |-> new[field]]
      /\ new.tasks = w.tasks /\ new.list = w.list /\ new.preds = w.preds /\ new.name = w.name
      /\ new.dur = w.dur /\ new.snb = w.snb /\ new.start = w.start
      /\ new.revision = w.revision + 1
      /\ new.begin = StartDates(w) /\ new.end = EndDates(w)
  <2>1. DOMAIN w = Fields
    BY SoundFields, Zenon
  <2> QED
    BY <2>1 DEF Fields, Scheduled
<1> HIDE DEF new
<1>5. Sound(new, new.tasks)
  <2>1. /\ IsFiniteSet(w.tasks) /\ NoTask \notin w.tasks /\ Len(w.list) = Cardinality(w.tasks)
        /\ w.list \in Seq(w.tasks) /\ \A u \in w.tasks : \E i \in DOMAIN w.list : w.list[i] = u
        /\ w.start \in Int /\ w.revision \in Nat
    BY Zenon DEF Sound
  <2>2. new.revision \in Nat
    BY <1>4, <2>1
  <2>3. /\ w.name = [t \in w.tasks |-> w.name[t]]
        /\ \A t, u \in w.tasks : w.name[t] = w.name[u] => t = u
        /\ w.dur \in [w.tasks -> 1 .. MaxDuration] /\ w.preds \in [w.tasks -> Seq(w.tasks)]
        /\ w.snb \in [w.tasks -> Int \cup {NoDate}]
    BY SoundFields, Zenon
  <2>4. /\ IsFiniteSet(new.tasks) /\ NoTask \notin new.tasks
        /\ Len(new.list) = Cardinality(new.tasks) /\ new.list \in Seq(new.tasks)
        /\ \A u \in new.tasks : \E i \in DOMAIN new.list : new.list[i] = u
        /\ new.start \in Int
    BY <1>4, <2>1, Zenon
  <2>5. /\ new.name = [t \in new.tasks |-> new.name[t]]
        /\ \A t, u \in new.tasks : new.name[t] = new.name[u] => t = u
        /\ new.dur \in [new.tasks -> 1 .. MaxDuration] /\ new.preds \in [new.tasks -> Seq(new.tasks)]
        /\ new.snb \in [new.tasks -> Int \cup {NoDate}]
    BY <1>4, <2>3, Zenon
  <2>6. new.begin \in [new.tasks -> Int] /\ new.end \in [new.tasks -> Int]
    BY <1>2, <1>3, <1>4, Zenon
  <2> QED
    BY <1>4, <2>2, <2>4, <2>5, <2>6, Zenon DEF Sound
<1>6. Acyclic(new)
  <2>1. \A t : PredsOf(new, t) = PredsOf(w, t)
    BY <1>4 DEF PredsOf
  <2>2. \A S : WaitsOnItself(new, S) <=> WaitsOnItself(w, S)
    BY <2>1 DEF WaitsOnItself
  <2> QED
    BY <1>4, <2>2 DEF Acyclic
<1>7. Schedulable(new)
  BY <1>5, <1>6, SoundIsSchedulable
<1>8. new.begin = StartDates(new)
  <2> DEFINE s == StartDates(w)
  <2>1. /\ s = [t \in w.tasks |-> s[t]]
        /\ \A t \in w.tasks : s[t] = NotBefore(w, t, EarliestStart(w, t, s))
    BY <1>1, StartDatesEquation, Zenon
  <2> HIDE DEF s
  <2>2. \A t \in w.tasks : NotBefore(new, t, EarliestStart(new, t, s))
                             = NotBefore(w, t, EarliestStart(w, t, s))
    <3> TAKE t \in w.tasks
    <3>1. PredsOf(new, t) = PredsOf(w, t)
      BY <1>4 DEF PredsOf
    <3>2. \A q : EndFor(new, q, s[q]) = EndFor(w, q, s[q])
      BY <1>4 DEF EndFor
    <3>3. {EndFor(new, q, s[q]) : q \in PredsOf(new, t)} = {EndFor(w, q, s[q]) : q \in PredsOf(w, t)}
      BY <3>1, <3>2
    <3>4. EarliestStart(new, t, s) = EarliestStart(w, t, s)
      BY <1>4, <3>1, <3>3, Zenon DEF EarliestStart
    <3> QED
      BY <1>4, <3>4, Zenon DEF NotBefore
  <2>3. /\ s = [t \in new.tasks |-> s[t]]
        /\ \A t \in new.tasks : s[t] = NotBefore(new, t, EarliestStart(new, t, s))
    BY <1>4, <2>1, <2>2
  <2>4. s = StartDates(new)
    BY <1>7, <2>3, StartDatesUnique
  <2> QED
    BY <1>4, <2>4 DEF s
<1>9. new.end = EndDates(new)
  <2>1. StartDates(new) = StartDates(w)
    BY <1>4, <1>8
  <2> QED
    BY <1>4, <2>1 DEF EndDates, EndFor
<1> QED
  BY <1>4, <1>5, <1>6, <1>8, <1>9 DEF Plan, new

(* A change set whose operations are all done: a plan without its cycles, or *)
(* the new plan.                                                            *)
LEMMA CommitCases ==
  ASSUME CopyInv, Commit
  PROVE  \/ Reject
         \/ /\ Sound(tasks, tasks.tasks) /\ Acyclic(tasks) /\ operations # 0
            /\ Leave([Scheduled(tasks) EXCEPT !.revision = @ + 1], "none")
<1>1. Sound(tasks, tasks.tasks)
  <2>1. tasks.tasks \cup allotted = tasks.tasks
    BY DEF Commit
  <2> QED
    BY <2>1, TypeOfCopy
<1>2. operations # 0
  BY DEF Commit, CopyInv
<1> QED
  BY <1>1, <1>2 DEF Commit

LEMMA CommitKeepsCopies == CopyInv /\ Commit => CopyInv'
<1> SUFFICES ASSUME CopyInv, Commit PROVE CopyInv'
  OBVIOUS
<1> DEFINE new == [Scheduled(tasks) EXCEPT !.revision = @ + 1]
<1>1. CASE Reject
  BY <1>1, FailureKeepsCopies
<1>2. CASE Sound(tasks, tasks.tasks) /\ Acyclic(tasks) /\ Leave(new, "none")
  <2>1. Plan(new)
    BY <1>2, ScheduledIsPlan
  <2>2. Leave(new, "none")
    BY <1>2
  <2> HIDE DEF new
  <2> QED
    BY <2>1, <2>2, LeaveKeepsCopies
<1> QED
  BY <1>1, <1>2, CommitCases

(* Whatever the change sets and their operations: what is stored is a plan    *)
(* with its own schedule, and the working copy is sound between any two       *)
(* operations.                                                              *)
THEOREM CopiesStaySound == Spec => []CopyInv
<1>1. ASSUME Init PROVE CopyInv
  <2>1. Plan(project) /\ tasks = project /\ phase = "idle" /\ allotted = {} /\ operations = 0
        /\ failure = "none" /\ lastMove = NoMove
    BY <1>1, InitialProjectsAssumption DEF Init
  <2>2. Sound(project, project.tasks)
    BY <2>1 DEF Plan
  <2>3. Relaxed(project, project) /\ KeepsRows(project, project)
    BY <2>2, RelaxedItself, SameRows
  <2>4. tasks.tasks \cup allotted = project.tasks
    BY <2>1
  <2> QED
    BY <2>1, <2>2, <2>3, <2>4 DEF CopyInv
<1>2. ASSUME CopyInv, [Next]_vars PROVE CopyInv'
  <2>1. CASE UNCHANGED vars
    BY <1>2, <2>1, Zenon DEF vars, CopyInv, Plan, DependencyEarliestStart
  <2> QED
    BY <1>2, <2>1, BeginKeepsCopies, UpdateKeepsCopies, DurationKeepsCopies, MoveKeepsCopies,
       ClearKeepsCopies, CreateKeepsCopies, InsertKeepsCopies, SetKeepsCopies, AddKeepsCopies,
       RemoveKeepsCopies, BulkKeepsCopies, CommitKeepsCopies DEF Next
<1> QED
  BY <1>1, <1>2, PTL DEF Spec

(* What the store holds after any number of change sets is a valid plan: the  *)
(* rows are the tasks, names are unique, durations in range, predecessors      *)
(* tasks of the plan, no cycle, and the dates those of a feasible schedule.   *)
THEOREM StoredPlansAreWellFormed == Spec => []WellFormed
<1>1. ASSUME CopyInv PROVE WellFormed
  <2>1. Plan(project) /\ Sound(project, project.tasks)
    BY <1>1 DEF CopyInv, Plan
  <2>2. /\ project.list \in Seq(project.tasks)
        /\ Len(project.list) = Cardinality(project.tasks)
        /\ \A t \in project.tasks : \E i \in DOMAIN project.list : project.list[i] = t
    BY <2>1, Zenon DEF Sound
  <2>3. {project.list[i] : i \in DOMAIN project.list} = project.tasks
    BY <2>2
  <2>4. /\ \A t, u \in project.tasks : project.name[t] = project.name[u] => t = u
        /\ project.dur \in [project.tasks -> 1 .. MaxDuration]
    BY <2>1, SoundFields, Zenon
  <2>5. \A t \in project.tasks : PredsOf(project, t) \subseteq project.tasks
    BY <2>1, SoundPreds
  <2>6. \A t \in project.tasks :
          /\ InRange(project.dur[t])
          /\ PredsOf(project, t) \subseteq project.tasks
          /\ \A u \in project.tasks \ {t} : project.name[u] # project.name[t]
    BY <2>4, <2>5 DEF InRange
  <2>7. /\ Acyclic(project) /\ Feasible(project, project.begin)
        /\ project.end = EndDates(project)
    BY <2>1, PlanDates DEF Plan
  <2>8. phase \in {"idle", "applying"} /\ failure \in {"none", "domain", "internal"}
    BY <1>1 DEF CopyInv
  <2> QED
    BY <2>2, <2>3, <2>6, <2>7, <2>8 DEF WellFormed
<1> QED
  BY <1>1, CopiesStaySound, PTL

(* How the stored project changes: by a commit, or not at all. *)
LEMMA OnlyCommitReplaces ==
  ASSUME CopyInv, [Next]_vars
  PROVE  \/ project' = project
         \/ /\ Sound(tasks, tasks.tasks) /\ Acyclic(tasks) /\ operations # 0
            /\ project' = [Scheduled(tasks) EXCEPT !.revision = @ + 1]
<1>1. CASE Reject \/ Crash
  BY <1>1 DEF Reject, Crash, Leave
<1>2. CASE \E w, move, relaxes : Done(w, move, relaxes)
  BY <1>2 DEF Done
<1>3. CASE Begin
  BY <1>1, <1>3 DEF Begin
<1>4. CASE UpdateTaskFields
  BY <1>1, <1>2, <1>4 DEF UpdateTaskFields, OnTask
<1>5. CASE ChangeDuration
  BY <1>1, <1>2, <1>5 DEF ChangeDuration, OnTask
<1>6. CASE MoveTask
  BY <1>1, <1>2, <1>6 DEF MoveTask, OnTask
<1>7. CASE ClearStartConstraint
  BY <1>1, <1>2, <1>7 DEF ClearStartConstraint, OnTask
<1>8. CASE CreateTask
  <2>1. Reject \/ Crash \/ \E w : Done(w, NoMove, FALSE)
    BY <1>8, Zenon DEF CreateTask
  <2>2. CASE \E w : Done(w, NoMove, FALSE)
    BY <2>2 DEF Done
  <2> QED
    BY <1>1, <2>1, <2>2
<1>9. CASE InsertTaskBetween
  <2>1. Reject \/ Crash \/ \E w : Done(w, NoMove, FALSE)
    BY <1>9, InsertCases
  <2>2. CASE \E w : Done(w, NoMove, FALSE)
    BY <2>2 DEF Done
  <2> QED
    BY <1>1, <2>1, <2>2
<1>10. CASE SetPredecessors
  BY <1>1, <1>2, <1>10 DEF SetPredecessors, OnTask
<1>11. CASE AddDependency
  BY <1>1, <1>2, <1>11 DEF AddDependency, OnTask
<1>12. CASE RemoveDependency
  BY <1>1, <1>2, <1>12 DEF RemoveDependency, OnTask
<1>13. CASE BulkSetAssignee
  BY <1>1, <1>2, <1>13 DEF BulkSetAssignee
<1>14. CASE Commit
  BY <1>1, <1>14, CommitCases DEF Leave
<1>15. CASE UNCHANGED vars
  BY <1>15 DEF vars
<1> QED
  BY <1>3, <1>4, <1>5, <1>6, <1>7, <1>8, <1>9, <1>10, <1>11, <1>12, <1>13, <1>14, <1>15 DEF Next

(* No change set drops a task or changes the order of the rows that stay. *)
THEOREM ChangeSetsKeepTheTable == Spec => TableOrderKept
<1>1. ASSUME CopyInv, [Next]_vars PROVE [project' # project => KeepsRows(project, project')]_vars
  <2>1. SUFFICES ASSUME project' # project PROVE KeepsRows(project, project')
    OBVIOUS
  <2> DEFINE new == [Scheduled(tasks) EXCEPT !.revision = @ + 1]
  <2>2. Sound(tasks, tasks.tasks) /\ Acyclic(tasks) /\ project' = new
    BY <1>1, <2>1, OnlyCommitReplaces
  <2>3. new.tasks = tasks.tasks /\ new.list = tasks.list
    BY <2>2, ScheduledIsPlan
  <2> HIDE DEF new
  <2>4. KeepsRows(tasks, project')
    BY <2>2, <2>3, SameRows
  <2> QED
    BY <1>1, <2>4, KeepsRowsTransitive DEF CopyInv
<1> QED
  BY <1>1, CopiesStaySound, PTL DEF Spec, TableOrderKept

-----------------------------------------------------------------------------
(* Relaxing a plan. *)

(* The dates of a plan stay possible when it is relaxed. *)
LEMMA RelaxedStaysFeasible ==
  ASSUME NEW p, Schedulable(p), NEW w, Schedulable(w), Relaxed(p, w), w.start = p.start
  PROVE  Feasible(w, StartDates(p))
<1> DEFINE s == StartDates(p)
<1>1. s \in [p.tasks -> Int] /\ Feasible(p, s)
  BY StartDatesFeasible
<1>2. /\ w.tasks = p.tasks
      /\ \A t \in p.tasks : /\ w.dur[t] <= p.dur[t] /\ PredsOf(w, t) \subseteq PredsOf(p, t)
                            /\ w.snb[t] \in {p.snb[t], NoDate}
  BY DEF Relaxed
<1> HIDE DEF s
<1>3. ASSUME NEW t \in p.tasks
      PROVE  /\ ~IsWeekend(s[t]) /\ NextWorkday(w.start) <= s[t]
             /\ w.snb[t] # NoDate => w.snb[t] <= s[t]
  BY <1>1, <1>2 DEF Feasible
<1>4. ASSUME NEW t \in p.tasks, NEW q \in PredsOf(w, t) PROVE EndFor(w, q, s[q]) < s[t]
  <2>1. q \in p.tasks /\ q \in PredsOf(p, t)
    BY <1>2, PredsFinite
  <2>2. /\ s[q] \in Int /\ s[t] \in Int /\ ~IsWeekend(s[q]) /\ EndFor(p, q, s[q]) < s[t]
    BY <1>1, <2>1 DEF Feasible
  <2>3. w.dur[q] - 1 \in Nat /\ p.dur[q] - 1 \in Nat /\ w.dur[q] - 1 <= p.dur[q] - 1
    BY <1>2, <2>1 DEF Schedulable
  <2>4. /\ AddWorkdays(s[q], w.dur[q] - 1) <= AddWorkdays(s[q], p.dur[q] - 1)
        /\ AddWorkdays(s[q], w.dur[q] - 1) \in Int /\ AddWorkdays(s[q], p.dur[q] - 1) \in Int
    <3> DEFINE m == w.dur[q] - 1
               n == p.dur[q] - 1
    <3>1. m \in Nat /\ n \in Nat /\ m <= n
      BY <2>3
    <3> HIDE DEF m, n
    <3>2. AddWorkdays(s[q], m) <= AddWorkdays(s[q], n)
      BY <2>2, <3>1, AddWorkdaysShorter
    <3>3. AddWorkdays(s[q], m) \in Int /\ AddWorkdays(s[q], n) \in Int
      BY <2>2, <3>1, AddWorkdaysFacts
    <3> QED
      BY <3>2, <3>3 DEF m, n
  <2> QED
    BY <2>2, <2>4 DEF EndFor
<1> QED
  BY <1>2, <1>3, <1>4 DEF Feasible, s

(* A change set that only removes dependencies, clears constraints, shortens  *)
(* tasks or edits fields starts no task later than before.                   *)
THEOREM RelaxingDelaysNothing == Spec => RelaxingNeverDelays
<1>1. ASSUME CopyInv, [Next]_vars
      PROVE  [project'.revision # project.revision /\ relaxing
                => \A t \in project.tasks : project'.begin[t] <= project.begin[t]]_vars
  <2>1. SUFFICES ASSUME project'.revision # project.revision, relaxing, NEW t \in project.tasks
                 PROVE  project'.begin[t] <= project.begin[t]
    OBVIOUS
  <2> DEFINE new == [Scheduled(tasks) EXCEPT !.revision = @ + 1]
  <2>2. Sound(tasks, tasks.tasks) /\ Acyclic(tasks) /\ project' = new
    BY <1>1, <2>1, OnlyCommitReplaces
  <2>3. Plan(project) /\ Relaxed(project, tasks) /\ tasks.start = project.start
    BY <1>1, <2>1 DEF CopyInv
  <2>4. Schedulable(project) /\ project.begin = StartDates(project)
        /\ project.begin \in [project.tasks -> Int]
    BY <2>3, PlanDates
  <2>5. Schedulable(tasks)
    BY <2>2, SoundIsSchedulable
  <2>6. new.begin = StartDates(tasks)
    <3>1. DOMAIN tasks = Fields
      BY <2>2, SoundFields, Zenon
    <3> QED
      BY <3>1 DEF Scheduled, Fields
  <2> HIDE DEF new
  <2>7. Feasible(tasks, project.begin)
    BY <2>3, <2>4, <2>5, RelaxedStaysFeasible
  <2>8. tasks.tasks = project.tasks
    BY <2>3 DEF Relaxed
  <2>9. StartDates(tasks)[t] <= project.begin[t]
    BY <2>4, <2>5, <2>7, <2>8, StartDatesLeast
  <2> QED
    BY <2>2, <2>6, <2>9
<1> QED
  BY <1>1, CopiesStaySound, PTL DEF Spec, RelaxingNeverDelays

-----------------------------------------------------------------------------
(* Moving one task. *)

(* The plan w is the plan p but for the constraint of r. *)
Moved(p, w, r, snb) ==
  /\ w.tasks = p.tasks /\ w.preds = p.preds /\ w.dur = p.dur /\ w.start = p.start
  /\ w.snb[r] = snb /\ \A t \in p.tasks \ {r} : w.snb[t] = p.snb[t]

LEMMA MovedFields ==
  ASSUME NEW p, Sound(p, p.tasks), NEW r \in p.tasks, NEW snb
  PROVE  Moved(p, [p EXCEPT !.snb[r] = snb], r, snb)
<1>1. DOMAIN p = Fields /\ p.snb \in [p.tasks -> Int \cup {NoDate}]
  BY SoundFields, Zenon
<1> QED
  BY <1>1 DEF Fields, Moved

(* A new constraint on one task moves none of its predecessors: a task that    *)
(* moves, other than that one, has a predecessor that moves.                 *)
LEMMA MoveReachesNoPredecessor ==
  ASSUME NEW p, Schedulable(p), NEW w, Schedulable(w), NEW r \in p.tasks,
         NEW snb, Moved(p, w, r, snb)
  PROVE  EarliestStart(w, r, StartDates(w)) = EarliestStart(p, r, StartDates(p))
<1> DEFINE s == StartDates(p)
           z == StartDates(w)
           U == {t \in p.tasks : z[t] # s[t]}
<1> /\ w.tasks = p.tasks /\ w.preds = p.preds /\ w.dur = p.dur /\ w.start = p.start
    /\ \A t \in p.tasks \ {r} : w.snb[t] = p.snb[t]
  BY DEF Moved
<1>1. /\ \A t \in p.tasks : s[t] = NotBefore(p, t, EarliestStart(p, t, s))
      /\ \A t \in p.tasks : z[t] = NotBefore(w, t, EarliestStart(w, t, z))
  BY StartDatesEquation, Zenon
<1> HIDE DEF s, z
<1>2. ASSUME NEW t \in p.tasks, PredsOf(p, t) \cap U = {}
      PROVE  EarliestStart(w, t, z) = EarliestStart(p, t, s)
  <2>1. PredsOf(w, t) = PredsOf(p, t)
    BY DEF PredsOf
  <2>2. \A q \in PredsOf(p, t) : z[q] = s[q]
    BY <1>2, PredsFinite
  <2>3. {EndFor(w, q, z[q]) : q \in PredsOf(w, t)} = {EndFor(p, q, s[q]) : q \in PredsOf(p, t)}
    BY <2>1, <2>2 DEF EndFor
  <2> QED
    BY <2>1, <2>3, Zenon DEF EarliestStart
<1>3. ASSUME NEW t \in U, t # r PROVE PredsOf(p, t) \cap U # {}
  <2>1. SUFFICES ASSUME PredsOf(p, t) \cap U = {} PROVE FALSE
    OBVIOUS
  <2>2. EarliestStart(w, t, z) = EarliestStart(p, t, s)
    BY <1>2, <2>1
  <2>3. w.snb[t] = p.snb[t]
    BY <1>3
  <2>4. z[t] = s[t]
    BY <1>1, <2>2, <2>3 DEF NotBefore
  <2> QED
    BY <2>4
<1>4. PredsOf(p, r) \cap U = {}
  <2>1. SUFFICES ASSUME PredsOf(p, r) \cap U # {} PROVE FALSE
    OBVIOUS
  <2>2. WaitsOnItself(p, U) /\ U # {} /\ U \in SUBSET p.tasks
    <3>1. \A t \in U : PredsOf(p, t) \cap U # {}
      BY <1>3, <2>1
    <3> QED
      BY <2>1, <3>1 DEF WaitsOnItself
  <2> HIDE DEF U
  <2> QED
    BY <2>2 DEF Schedulable, Acyclic
<1> QED
  BY <1>2, <1>4 DEF s, z

(* A move that is the whole change set and is accepted puts the task exactly  *)
(* on the workday it names.                                                  *)
THEOREM LoneMovesAreHonoured == Spec => LoneMoveIsHonoured
<1>1. ASSUME CopyInv, [Next]_vars
      PROVE  [project'.revision # project.revision /\ operations = 1 /\ lastMove # NoMove
                => project'.begin[lastMove.task] = NextWorkday(lastMove.target)]_vars
  <2>1. SUFFICES ASSUME project'.revision # project.revision, operations = 1, lastMove # NoMove
                 PROVE  project'.begin[lastMove.task] = NextWorkday(lastMove.target)
    OBVIOUS
  <2> DEFINE new    == [Scheduled(tasks) EXCEPT !.revision = @ + 1]
             r      == lastMove.task
             target == lastMove.target
             early  == DependencyEarliestStart(project, r)
  <2>2. Sound(tasks, tasks.tasks) /\ Acyclic(tasks) /\ project' = new
    BY <1>1, <2>1, OnlyCommitReplaces
  <2>3. /\ r \in project.tasks /\ target \in Int
        /\ tasks = [project EXCEPT !.snb[r] = target] /\ early <= target
    BY <1>1, <2>1 DEF CopyInv
  <2>4. Plan(project) /\ Sound(project, project.tasks)
    BY <1>1 DEF CopyInv, Plan
  <2>5. new.begin = StartDates(tasks)
    <3>1. DOMAIN tasks = Fields
      BY <2>2, SoundFields, Zenon
    <3> QED
      BY <3>1 DEF Scheduled, Fields
  <2>6. Schedulable(project) /\ Schedulable(tasks) /\ project.begin = StartDates(project)
    BY <2>2, <2>4, PlanDates, SoundIsSchedulable
  <2> HIDE DEF new, r, target, early
  <2>7. Moved(project, tasks, r, target)
    BY <2>3, <2>4, MovedFields, Zenon
  <2>8. EarliestStart(tasks, r, StartDates(tasks)) = EarliestStart(project, r, project.begin)
    <3>1. r \in project.tasks
      BY <2>3
    <3> QED
      BY <2>6, <2>7, <3>1, MoveReachesNoPredecessor
  <2>9. early \in Int /\ EarliestStart(project, r, project.begin) = NextWorkday(early)
    BY <2>3, <2>4, DependencyStartFacts DEF early
  <2>10. StartDates(tasks)[r] = NotBefore(tasks, r, NextWorkday(early))
    <3>1. r \in tasks.tasks
      BY <2>3, <2>7, Zenon DEF Moved
    <3>2. StartDates(tasks)[r] = NotBefore(tasks, r, EarliestStart(tasks, r, StartDates(tasks)))
      BY <2>6, <3>1, StartDatesEquation
    <3> QED
      BY <2>8, <2>9, <3>2
  <2>11. NextWorkday(early) <= NextWorkday(target) /\ NextWorkday(early) \in Int
         /\ NextWorkday(target) \in Int
    BY <2>3, <2>9, NextWorkdayMonotone, NumberType
  <2>12. NotBefore(tasks, r, NextWorkday(early)) = NextWorkday(target)
    <3>1. tasks.snb[r] = target /\ target # NoDate
      BY <2>3, <2>7, NoDateAssumption DEF Moved
    <3> QED
      BY <2>11, <3>1 DEF NotBefore
  <2> QED
    BY <2>2, <2>5, <2>10, <2>12 DEF r, target
<1> QED
  BY <1>1, CopiesStaySound, PTL DEF Spec, LoneMoveIsHonoured

-----------------------------------------------------------------------------
(* Inserting a task on an edge. *)

(* v is w with the task n between pred and succ. *)
OnEdge(w, v, n, pred, succ) ==
  /\ n \notin w.tasks /\ v.tasks = w.tasks \cup {n}
  /\ pred \in w.tasks /\ succ \in w.tasks /\ pred \in PredsOf(w, succ)
  /\ PredsOf(v, n) = {pred}
  /\ PredsOf(v, succ) = (PredsOf(w, succ) \ {pred}) \cup {n}
  /\ \A t \in w.tasks \ {succ} : PredsOf(v, t) = PredsOf(w, t)

LEMMA EdgeKeepsPrecedence ==
  ASSUME NEW w, NEW v, NEW n, NEW pred, NEW succ, OnEdge(w, v, n, pred, succ),
         Referenced(w) \subseteq w.tasks, NEW u \in w.tasks, NEW t \in w.tasks
  PROVE  Precedes(v, u, t) <=> Precedes(w, u, t)
<1>1. \A x \in w.tasks : PredsOf(w, x) \subseteq w.tasks
  BY DEF Referenced
<1>2. /\ n \notin w.tasks /\ v.tasks = w.tasks \cup {n}
      /\ pred \in w.tasks /\ succ \in w.tasks /\ pred \in PredsOf(w, succ)
      /\ PredsOf(v, n) = {pred}
      /\ PredsOf(v, succ) = (PredsOf(w, succ) \ {pred}) \cup {n}
      /\ \A x \in w.tasks \ {succ} : PredsOf(v, x) = PredsOf(w, x)
  BY DEF OnEdge
<1>3. ASSUME Precedes(w, u, t) PROVE Precedes(v, u, t)
  <2>1. SUFFICES ASSUME NEW S \in SUBSET v.tasks, PredsOf(v, t) \subseteq S,
                        \A x \in S : PredsOf(v, x) \subseteq S
                 PROVE  u \in S
    BY <1>2 DEF Precedes
  <2>2. ASSUME NEW x \in w.tasks, PredsOf(v, x) \subseteq S PROVE PredsOf(w, x) \subseteq S \cap w.tasks
    <3>1. CASE x # succ
      BY <1>1, <1>2, <2>2, <3>1
    <3>2. CASE x = succ
      <4>1. n \in S /\ PredsOf(w, succ) \ {pred} \subseteq S
        BY <1>2, <2>2, <3>2
      <4>2. pred \in S
        BY <1>2, <2>1, <4>1
      <4> QED
        BY <1>1, <3>2, <4>1, <4>2
    <3> QED
      BY <3>1, <3>2
  <2>3. /\ PredsOf(w, t) \subseteq S \cap w.tasks
        /\ \A x \in S \cap w.tasks : PredsOf(w, x) \subseteq S \cap w.tasks
    BY <2>1, <2>2
  <2>4. u \in S \cap w.tasks
    BY <1>3, <2>3 DEF Precedes
  <2> QED
    BY <2>4
<1>4. ASSUME Precedes(v, u, t) PROVE Precedes(w, u, t)
  <2>1. SUFFICES ASSUME NEW S \in SUBSET w.tasks, PredsOf(w, t) \subseteq S,
                        \A x \in S : PredsOf(w, x) \subseteq S
                 PROVE  u \in S
    BY DEF Precedes
  <2> DEFINE new == IF pred \in S THEN {n} ELSE {}
             T   == S \cup new
  <2>2. T \in SUBSET v.tasks
    BY <1>2
  <2>3. ASSUME NEW x \in w.tasks, PredsOf(w, x) \subseteq S PROVE PredsOf(v, x) \subseteq T
    <3>1. CASE x # succ
      BY <1>2, <2>3, <3>1
    <3>2. CASE x = succ
      BY <1>2, <2>3, <3>2
    <3> QED
      BY <3>1, <3>2
  <2>4. ASSUME NEW x \in T PROVE PredsOf(v, x) \subseteq T
    <3>1. CASE x \in S
      BY <2>1, <2>3, <3>1
    <3>2. CASE x \in new
      BY <1>2, <3>2
    <3> QED
      BY <3>1, <3>2
  <2>5. PredsOf(v, t) \subseteq T
    BY <2>1, <2>3
  <2> HIDE DEF T
  <2>6. u \in T
    BY <1>4, <2>2, <2>4, <2>5 DEF Precedes
  <2> QED
    BY <1>2, <2>6 DEF T
<1> QED
  BY <1>3, <1>4

(* The ids of a list in which one was replaced. *)
Ids(list) == {list[i] : i \in DOMAIN list}

LEMMA ReplaceFacts ==
  ASSUME NEW list, NEW old, NEW new, old \in Ids(list)
  PROVE  Ids(Replace(list, old, new)) = (Ids(list) \ {old}) \cup {new}
<1> DEFINE other == Replace(list, old, new)
<1>1. /\ DOMAIN other = DOMAIN list
      /\ \A i \in DOMAIN list : other[i] = IF list[i] = old THEN new ELSE list[i]
  BY DEF Replace
<1>2. /\ Ids(other) = {other[i] : i \in DOMAIN other}
      /\ Ids(list) = {list[i] : i \in DOMAIN list}
  BY DEF Ids
<1> HIDE DEF other
<1>3. ASSUME NEW i \in DOMAIN list PROVE other[i] \in ({list[j] : j \in DOMAIN list} \ {old}) \cup {new}
  BY <1>1
<1>4. ASSUME NEW i \in DOMAIN list, list[i] # old PROVE \E j \in DOMAIN other : other[j] = list[i]
  BY <1>1, <1>4
<1>5. \E j \in DOMAIN other : other[j] = new
  BY <1>1, <1>2
<1>6. Ids(other) = (Ids(list) \ {old}) \cup {new}
  BY <1>1, <1>2, <1>3, <1>4, <1>5
<1> QED
  BY <1>6 DEF other

LEMMA InsertionIsOnEdge ==
  ASSUME CopyInv, NEW n \in allotted \ tasks.tasks, NEW name, NameFree(name, NoTask),
         NEW assignee, NEW dur \in 1 .. MaxDuration,
         NEW pred \in tasks.tasks, NEW succ \in tasks.tasks, pred \in PredsOf(tasks, succ)
  PROVE  /\ OnEdge(tasks, Insertion(n, name, assignee, dur, pred, succ), n, pred, succ)
         /\ \A t \in tasks.tasks \ {succ} :
              Insertion(n, name, assignee, dur, pred, succ).preds[t] = tasks.preds[t]
<1> DEFINE R     == tasks.tasks \cup allotted
           added == WithTask(tasks, n, name, assignee, dur, <<pred>>, NoDate, pred)
           new   == Insertion(n, name, assignee, dur, pred, succ)
           list  == Replace(added.preds[succ], pred, n)
<1>1. Addable(tasks, R, n, name, dur, <<pred>>, NoDate, pred)
  <2>1. Sound(tasks, R)
    BY TypeOfCopy
  <2>2. NoTask \notin tasks.tasks
    BY <2>1, Zenon DEF Sound
  <2>3. n \in R \ tasks.tasks /\ n # NoTask /\ <<pred>> \in Seq(R)
    BY BoundsAssumption DEF CopyInv
  <2>4. \A u \in tasks.tasks : tasks.name[u] # name
    BY <2>2 DEF NameFree
  <2> QED
    BY <2>1, <2>3, <2>4 DEF Addable
<1>2. Adds(tasks, R, n, <<pred>>, added)
  BY <1>1, NewTaskIsSound, Zenon
<1>3. new = [added EXCEPT !.preds[succ] = list]
  BY DEF Insertion
<1> HIDE DEF added, new, R
<1>4. /\ Sound(added, R) /\ added.tasks = tasks.tasks \cup {n} /\ added.preds[n] = <<pred>>
      /\ \A u \in tasks.tasks : added.preds[u] = tasks.preds[u]
  BY <1>2 DEF Adds
<1>5. DOMAIN added = Fields /\ added.preds \in [added.tasks -> Seq(R)]
  BY <1>4, SoundFields, Zenon
<1>6. new.tasks = added.tasks /\ new.preds = [added.preds EXCEPT ![succ] = list]
  <2> HIDE DEF list
  <2> QED
    BY <1>3, <1>5 DEF Fields
<1>7. /\ new.preds[succ] = list /\ new.preds[n] = <<pred>>
      /\ \A t \in tasks.tasks \ {succ} : new.preds[t] = tasks.preds[t]
  <2> HIDE DEF list
  <2> QED
    BY <1>4, <1>5, <1>6
<1>8. list = Replace(tasks.preds[succ], pred, n)
  BY <1>4
<1> HIDE DEF list
<1>9. PredsOf(new, n) = {pred}
  <2>1. PredsOf(new, n) = {<<pred>>[i] : i \in DOMAIN <<pred>>}
    BY <1>7, Zenon DEF PredsOf
  <2> QED
    BY <2>1
<1>10. PredsOf(new, succ) = (PredsOf(tasks, succ) \ {pred}) \cup {n}
  <2>1. PredsOf(tasks, succ) = Ids(tasks.preds[succ]) /\ PredsOf(new, succ) = Ids(list)
    BY <1>7, Zenon DEF PredsOf, Ids
  <2>2. Ids(list) = (Ids(tasks.preds[succ]) \ {pred}) \cup {n}
    BY <1>8, <2>1, ReplaceFacts
  <2> QED
    BY <2>1, <2>2
<1>11. \A t \in tasks.tasks \ {succ} : PredsOf(new, t) = PredsOf(tasks, t)
  BY <1>7 DEF PredsOf
<1> QED
  BY <1>4, <1>6, <1>7, <1>9, <1>10, <1>11 DEF OnEdge, new

(* The steps that add a task to the copy. *)
LEMMA WhoAdds ==
  ASSUME CopyInv, [Next]_vars
  PROVE  \/ tasks'.tasks \subseteq tasks.tasks
         \/ \A t \in tasks.tasks : tasks'.preds[t] = tasks.preds[t]
         \/ \E n, pred, succ :
              /\ OnEdge(tasks, tasks', n, pred, succ)
              /\ \A t \in tasks.tasks \ {succ} : tasks'.preds[t] = tasks.preds[t]
<1> DEFINE Edge == \E n, pred, succ :
                     /\ OnEdge(tasks, tasks', n, pred, succ)
                     /\ \A t \in tasks.tasks \ {succ} : tasks'.preds[t] = tasks.preds[t]
           Same == \A t \in tasks.tasks : tasks'.preds[t] = tasks.preds[t]
           Less == tasks'.tasks \subseteq tasks.tasks
<1> SUFFICES Less \/ Same \/ Edge
  OBVIOUS
<1>1. CASE Reject \/ Crash
  BY <1>1 DEF Reject, Crash, Leave, CopyInv, KeepsRows
<1>2. DOMAIN tasks = Fields
  BY TypeOfCopy, SoundFields, Zenon
<1>3. ASSUME NEW r, NEW x, NEW move, NEW relaxes,
             \/ Done([tasks EXCEPT !.dur[r] = x], move, relaxes)
             \/ Done([tasks EXCEPT !.snb[r] = x], move, relaxes)
             \/ Done([tasks EXCEPT !.preds[r] = x], move, relaxes)
      PROVE  Less
  BY <1>2, <1>3 DEF Fields, Done
<1>4. ASSUME NEW r, NEW x, NEW y, NEW move, NEW relaxes,
             Done([tasks EXCEPT !.name[r] = x, !.assignee[r] = y], move, relaxes)
      PROVE  Less
  BY <1>2, <1>4 DEF Fields, Done
<1>5. ASSUME NEW y, NEW move, NEW relaxes, Done([tasks EXCEPT !.assignee = y], move, relaxes)
      PROVE  Less
  BY <1>2, <1>5 DEF Fields, Done
<1>6. CASE Begin
  BY <1>1, <1>6 DEF Begin
<1>7. CASE UpdateTaskFields
  <2>1. Reject \/ Crash \/ \E r, x, y, move, relaxes :
          Done([tasks EXCEPT !.name[r] = x, !.assignee[r] = y], move, relaxes)
    BY <1>7 DEF UpdateTaskFields, OnTask
  <2> QED
    BY <1>1, <1>4, <2>1
<1>8. CASE ChangeDuration
  <2>1. Reject \/ Crash \/ \E r, x, move, relaxes :
          Done([tasks EXCEPT !.dur[r] = x], move, relaxes)
    BY <1>8, DurationCases
  <2> QED
    BY <1>1, <1>3, <2>1
<1>9. CASE MoveTask
  <2>1. Reject \/ Crash \/ \E r, x, move, relaxes :
          Done([tasks EXCEPT !.snb[r] = x], move, relaxes)
    BY <1>9 DEF MoveTask, OnTask
  <2> QED
    BY <1>1, <1>3, <2>1
<1>10. CASE ClearStartConstraint
  <2>1. Reject \/ Crash \/ \E r, x, move, relaxes :
          Done([tasks EXCEPT !.snb[r] = x], move, relaxes)
    BY <1>10 DEF ClearStartConstraint, OnTask
  <2> QED
    BY <1>1, <1>3, <2>1
<1>11. CASE SetPredecessors
  <2>1. Reject \/ Crash \/ \E r, x, move, relaxes :
          Done([tasks EXCEPT !.preds[r] = x], move, relaxes)
    BY <1>11 DEF SetPredecessors, OnTask
  <2> QED
    BY <1>1, <1>3, <2>1
<1>12. CASE AddDependency
  <2>1. Reject \/ Crash \/ \E r, x, move, relaxes :
          Done([tasks EXCEPT !.preds[r] = x], move, relaxes)
    BY <1>12 DEF AddDependency, OnTask
  <2> QED
    BY <1>1, <1>3, <2>1
<1>13. CASE RemoveDependency
  <2>1. Reject \/ Crash \/ \E r, x, move, relaxes :
          Done([tasks EXCEPT !.preds[r] = x], move, relaxes)
    BY <1>13 DEF RemoveDependency, OnTask
  <2> QED
    BY <1>1, <1>3, <2>1
<1>14. CASE BulkSetAssignee
  <2>1. Reject \/ Crash \/ \E y, move, relaxes :
          Done([tasks EXCEPT !.assignee = y], move, relaxes)
    BY <1>14 DEF BulkSetAssignee
  <2> QED
    BY <1>1, <1>5, <2>1
<1>15. CASE CreateTask
  <2>1. \/ Reject \/ Crash
        \/ \E t \in allotted \ tasks.tasks : \E name, assignee, dur, preds, snb, after :
             Done(WithTask(tasks, t, name, assignee, dur, preds, snb, after), NoMove, FALSE)
    BY <1>15, Zenon DEF CreateTask
  <2>2. ASSUME NEW t \in allotted \ tasks.tasks,
               NEW name, NEW assignee, NEW dur, NEW preds, NEW snb, NEW after,
               Done(WithTask(tasks, t, name, assignee, dur, preds, snb, after), NoMove, FALSE)
        PROVE  Same
    <3>1. tasks'.preds = With(tasks.preds, t, preds)
      BY <1>2, <2>2, WithTaskFields DEF Done
    <3>2. DOMAIN tasks.preds = tasks.tasks
      <4>1. tasks.preds \in [tasks.tasks -> Seq(tasks.tasks \cup allotted)]
        BY TypeOfCopy, SoundFields, Zenon
      <4> QED
        BY <4>1
    <3> QED
      BY <3>1, <3>2 DEF With
  <2> QED
    BY <1>1, <2>1, <2>2
<1>16. CASE InsertTaskBetween
  <2>1. PICK n, name, assignee, dur, pred, succ :
          \/ Reject \/ Crash
          \/ /\ n \in allotted \ tasks.tasks /\ NameFree(name, NoTask) /\ dur \in 1 .. MaxDuration
             /\ pred \in tasks.tasks /\ succ \in tasks.tasks /\ pred \in PredsOf(tasks, succ)
             /\ Done(Insertion(n, name, assignee, dur, pred, succ), NoMove, FALSE)
    BY <1>16, InsertCases
  <2>2. CASE /\ n \in allotted \ tasks.tasks /\ NameFree(name, NoTask) /\ dur \in 1 .. MaxDuration
             /\ pred \in tasks.tasks /\ succ \in tasks.tasks /\ pred \in PredsOf(tasks, succ)
             /\ Done(Insertion(n, name, assignee, dur, pred, succ), NoMove, FALSE)
    <3>1. /\ OnEdge(tasks, Insertion(n, name, assignee, dur, pred, succ), n, pred, succ)
          /\ \A t \in tasks.tasks \ {succ} :
               Insertion(n, name, assignee, dur, pred, succ).preds[t] = tasks.preds[t]
      BY <2>2, InsertionIsOnEdge
    <3>2. tasks' = Insertion(n, name, assignee, dur, pred, succ)
      BY <2>2 DEF Done
    <3>3. /\ OnEdge(tasks, tasks', n, pred, succ)
          /\ \A t \in tasks.tasks \ {succ} : tasks'.preds[t] = tasks.preds[t]
      BY <3>1, <3>2, Zenon
    <3> QED
      BY <3>3
  <2> QED
    BY <1>1, <2>1, <2>2
<1>17. CASE Commit
  <2> DEFINE new == [Scheduled(tasks) EXCEPT !.revision = @ + 1]
  <2>1. CASE Sound(tasks, tasks.tasks) /\ Acyclic(tasks) /\ Leave(new, "none")
    <3>1. new.tasks = tasks.tasks
      BY <2>1, ScheduledIsPlan
    <3>2. tasks' = new
      BY <2>1 DEF Leave
    <3> HIDE DEF new
    <3> QED
      BY <3>1, <3>2
  <2> QED
    BY <1>1, <1>17, <2>1, CommitCases
<1>18. CASE UNCHANGED vars
  BY <1>18 DEF vars
<1> QED
  BY <1>6, <1>7, <1>8, <1>9, <1>10, <1>11, <1>12, <1>13, <1>14, <1>15, <1>16, <1>17, <1>18
  DEF Next

(* insert_task_between puts its task on the edge and disturbs nothing else:   *)
(* among the tasks that were there, the same ones come before the same ones,  *)
(* and the successor waits on the new task in its predecessor's stead,        *)
(* whatever the copy, unless something waits for a task not created yet.      *)
THEOREM InsertionKeepsPrecedence == Spec => InsertKeepsPrecedence
<1> DEFINE Onto(n, t) ==
             tasks'.preds[t] # tasks.preds[t] =>
               PredsOf(tasks', t) = (PredsOf(tasks, t) \ PredsOf(tasks', n)) \cup {n}
           P == \A n \in tasks'.tasks \ tasks.tasks :
                  /\ phase = "applying"
                  /\ \E t \in tasks.tasks : tasks'.preds[t] # tasks.preds[t]
                  /\ Referenced(tasks) \subseteq tasks.tasks
                  => \A t \in tasks.tasks :
                       /\ \A u \in tasks.tasks : Precedes(tasks', u, t) <=> Precedes(tasks, u, t)
                       /\ Onto(n, t)
<1>1. ASSUME CopyInv, [Next]_vars PROVE [P]_vars
  <2>1. CASE tasks'.tasks \subseteq tasks.tasks
    BY <2>1
  <2>2. CASE \A t \in tasks.tasks : tasks'.preds[t] = tasks.preds[t]
    BY <2>2
  <2>3. CASE \E n, pred, succ :
               /\ OnEdge(tasks, tasks', n, pred, succ)
               /\ \A t \in tasks.tasks \ {succ} : tasks'.preds[t] = tasks.preds[t]
    <3>1. PICK n, pred, succ :
            /\ OnEdge(tasks, tasks', n, pred, succ)
            /\ \A t \in tasks.tasks \ {succ} : tasks'.preds[t] = tasks.preds[t]
      BY <2>3
    <3>2. ASSUME Referenced(tasks) \subseteq tasks.tasks, NEW u \in tasks.tasks, NEW t \in tasks.tasks
          PROVE  Precedes(tasks', u, t) <=> Precedes(tasks, u, t)
      BY <3>1, <3>2, EdgeKeepsPrecedence
    <3>3. tasks'.tasks \ tasks.tasks = {n}
      BY <3>1 DEF OnEdge
    <3>4. ASSUME NEW t \in tasks.tasks PROVE Onto(n, t)
      <4>1. CASE t = succ
        BY <3>1, <4>1 DEF OnEdge
      <4> QED
        BY <3>1, <4>1
    <3> HIDE DEF Onto
    <3> QED
      BY <3>2, <3>3, <3>4
  <2> QED
    BY <1>1, <2>1, <2>2, <2>3, WhoAdds
<1> QED
  BY <1>1, CopiesStaySound, PTL DEF Spec, InsertKeepsPrecedence

=============================================================================
