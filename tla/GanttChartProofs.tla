--------------------------- MODULE GanttChartProofs ---------------------------
(***************************************************************************)
(* What holds of the chart for any plans: the arrows avoid the bars wherever   *)
(* these stand, a change is counted alike in three places, and the page's own  *)
(* comparison of two plans puts every task in the class the backend does.      *)
(***************************************************************************)
EXTENDS GanttChart, SchedulingLemmas, FunctionTheorems

-----------------------------------------------------------------------------
(* The geometry.                                                            *)

StandsOnChart(b) == b.row \in Nat /\ b.start \in Nat /\ b.span \in Nat \ {0}

(* A bar's edges, in pixels. *)
LEMMA BarEdges ==
  ASSUME NEW b, StandsOnChart(b)
  PROVE  /\ BarTop(b) = 32 * b.row + 8 /\ BarBottom(b) = 32 * b.row + 24
         /\ RowCenterY(b) = 32 * b.row + 16
         /\ BarLeft(b) \in Int /\ BarRight(b) \in Int /\ BarLeft(b) < BarRight(b)
<1>1. 16 \div 2 = 8 /\ 32 \div 2 = 16 /\ (32 - 16) \div 2 = 8
  OBVIOUS
<1>2. b.row \in Nat /\ b.start \in Nat /\ b.span \in Nat \ {0}
  BY DEF StandsOnChart
<1>3. BarTop(b) = 32 * b.row + 8 /\ BarBottom(b) = 32 * b.row + 24
      /\ RowCenterY(b) = 32 * b.row + 16
  BY <1>1, <1>2 DEF BarTop, BarBottom, RowCenterY, RowHeight, BarHeight
<1>4. b.start * DayWidth \in Int /\ b.span * DayWidth \in Int
  BY <1>2 DEF DayWidth
<1>5. BarLeft(b) \in Int /\ BarWidth(b) \in Int /\ BarWidth(b) > 0
  BY <1>4 DEF BarLeft, BarWidth, BarInset
<1> QED
  BY <1>3, <1>5 DEF BarRight

(* A leg in the gutter is in no bar, and a leg at the height of a row's centre   *)
(* only in a bar of that row.                                                *)
LEMMA RowsOnly ==
  ASSUME NEW b, StandsOnChart(b), NEW row \in Nat, NEW y \in Int,
         Inside(y, BarTop(b), BarBottom(b))
  PROVE  /\ y = 32 * row + 16 => b.row = row
         /\ y # 32 * row /\ y # 32 * row + 32
<1>1. BarTop(b) = 32 * b.row + 8 /\ BarBottom(b) = 32 * b.row + 24 /\ b.row \in Nat
  BY BarEdges DEF StandsOnChart
<1> QED
  BY <1>1 DEF Inside

(* Whatever the rows, starts and lengths of the bars, if no row has two of them  *)
(* the arrow between any two runs along no bar and crosses neither of its own.  *)
THEOREM RouteAvoidsBars ==
  ASSUME NEW bars, \A b \in bars : StandsOnChart(b),
         \A b, c \in bars : b.row = c.row => b = c,
         NEW source \in bars, NEW target \in bars, source # target
  PROVE  RouteIsClear(source, target, bars)
<1> DEFINE out  == LeavesAt(source) + Elbow
           back == EndsAt(target) - Elbow
           lane == LaneY(source, target)
<1>1. /\ source.row \in Nat /\ target.row \in Nat /\ source.row # target.row
      /\ BarTop(source) = 32 * source.row + 8 /\ BarBottom(source) = 32 * source.row + 24
      /\ BarTop(target) = 32 * target.row + 8 /\ BarBottom(target) = 32 * target.row + 24
      /\ RowCenterY(source) = 32 * source.row + 16
      /\ RowCenterY(target) = 32 * target.row + 16
      /\ BarLeft(source) \in Int /\ BarRight(source) \in Int /\ BarLeft(source) < BarRight(source)
      /\ BarLeft(target) \in Int /\ BarRight(target) \in Int /\ BarLeft(target) < BarRight(target)
  BY BarEdges DEF StandsOnChart
<1>2. /\ out = BarRight(source) + 9 /\ LeavesAt(source) = BarRight(source)
      /\ EndsAt(target) = BarLeft(target) - 6 /\ back = BarLeft(target) - 15
  BY <1>1 DEF LeavesAt, EndsAt, Elbow, ArrowLength
<1>3. /\ lane = IF target.row > source.row THEN 32 * target.row ELSE 32 * target.row + 32
      /\ lane \in Int
  <2>1. 32 \div 2 = 16
    OBVIOUS
  <2> QED
    BY <1>1, <2>1 DEF LaneY, RowHeight
<1>4. Forward(source, target) <=> EndsAt(target) >= out
  BY DEF Forward
<1> HIDE DEF out, back, lane
<1>5. ASSUME NEW leg \in HorizontalLegs(source, target), NEW b \in bars
      PROVE  ~RunsAlong(leg, b)
  <2>1. \/ leg = Horizontal(RowCenterY(source), LeavesAt(source), out)
        \/ /\ Forward(source, target)
           /\ leg = Horizontal(RowCenterY(target), out, EndsAt(target))
        \/ leg = Horizontal(lane, out, back)
        \/ leg = Horizontal(RowCenterY(target), back, EndsAt(target))
    BY <1>5 DEF HorizontalLegs, out, back, lane
  <2>2. StandsOnChart(b) /\ (b.row = source.row => b = source) /\ (b.row = target.row => b = target)
    OBVIOUS
  <2>3. CASE leg = Horizontal(RowCenterY(source), LeavesAt(source), out)
    <3>1. leg.y = 32 * source.row + 16 /\ leg.from = BarRight(source) /\ leg.to = BarRight(source) + 9
      BY <1>1, <1>2, <2>3 DEF Horizontal
    <3>2. CASE b = source
      BY <1>1, <3>1, <3>2 DEF RunsAlong, Meets
    <3>3. CASE b # source
      BY <1>1, <2>2, <3>1, <3>3, RowsOnly DEF RunsAlong
    <3> QED
      BY <3>2, <3>3
  <2>4. CASE leg = Horizontal(lane, out, back)
    <3>1. leg.y = 32 * target.row \/ leg.y = 32 * target.row + 32
      BY <1>3, <2>4 DEF Horizontal
    <3>2. leg.y \in Int
      BY <1>1, <3>1
    <3> QED
      BY <1>1, <2>2, <3>1, <3>2, RowsOnly DEF RunsAlong
  <2>5. CASE \/ Forward(source, target) /\ leg = Horizontal(RowCenterY(target), out, EndsAt(target))
             \/ leg = Horizontal(RowCenterY(target), back, EndsAt(target))
    <3>1. /\ leg.y = 32 * target.row + 16 /\ leg.from \in Int
          /\ leg.to = BarLeft(target) - 6 /\ leg.from <= leg.to
      BY <1>1, <1>2, <1>4, <2>5 DEF Horizontal
    <3>2. CASE b = target
      BY <1>1, <3>1, <3>2 DEF RunsAlong, Meets
    <3>3. CASE b # target
      BY <1>1, <2>2, <3>1, <3>3, RowsOnly DEF RunsAlong
    <3> QED
      BY <3>2, <3>3
  <2> QED
    BY <2>1, <2>3, <2>4, <2>5
<1>6. ASSUME NEW leg \in VerticalLegs(source, target), NEW b \in {source, target}
      PROVE  ~Crosses(leg, b)
  <2>1. \/ /\ Forward(source, target)
           /\ leg = Vertical(out, RowCenterY(source), RowCenterY(target))
        \/ leg = Vertical(out, RowCenterY(source), lane)
        \/ leg = Vertical(back, lane, RowCenterY(target))
    BY <1>6 DEF VerticalLegs, out, back, lane
  <2>2. CASE Forward(source, target) /\ leg = Vertical(out, RowCenterY(source), RowCenterY(target))
    <3>1. leg.x = BarRight(source) + 9 /\ BarLeft(target) - 6 >= leg.x
      BY <1>2, <1>4, <2>2 DEF Vertical
    <3> QED
      BY <1>1, <3>1 DEF Crosses, Inside
  <2>3. CASE leg = Vertical(out, RowCenterY(source), lane)
    <3>1. leg.x = BarRight(source) + 9 /\ leg.from = 32 * source.row + 16 /\ leg.to = lane
      BY <1>1, <1>2, <2>3 DEF Vertical
    <3>2. CASE b = source
      BY <1>1, <3>1, <3>2 DEF Crosses, Inside
    <3>3. CASE b = target
      BY <1>1, <1>3, <3>1, <3>3 DEF Crosses, Meets
    <3> QED
      BY <1>6, <3>2, <3>3
  <2>4. CASE leg = Vertical(back, lane, RowCenterY(target))
    <3>1. leg.x = BarLeft(target) - 15 /\ leg.from = lane /\ leg.to = 32 * target.row + 16
      BY <1>1, <1>2, <2>4 DEF Vertical
    <3>2. CASE b = target
      BY <1>1, <3>1, <3>2 DEF Crosses, Inside
    <3>3. CASE b = source
      BY <1>1, <1>3, <3>1, <3>3 DEF Crosses, Meets
    <3> QED
      BY <1>6, <3>2, <3>3
  <2> QED
    BY <2>1, <2>2, <2>3, <2>4
<1> QED
  BY <1>5, <1>6 DEF RouteIsClear

-----------------------------------------------------------------------------
(* The two ways of counting workdays: the page's loop and the closed form of     *)
(* the backend's agree.                                                      *)

LEMMA NumberInjective ==
  ASSUME NEW d \in Int, NEW e \in Int, ~IsWeekend(d), ~IsWeekend(e),
         WorkdayNumber(d) = WorkdayNumber(e)
  PROVE  d = e
BY NthOfNumber

LEMMA NumberStrict ==
  ASSUME NEW d \in Int, NEW e \in Int, ~IsWeekend(e)
  PROVE  d < e => WorkdayNumber(d) < WorkdayNumber(e)
<1> SUFFICES ASSUME d < e
             PROVE  WorkdayNumber(d) < WorkdayNumber(e)
  OBVIOUS
<1>1. WorkdayNumber(d) <= WorkdayNumber(e - 1)
  BY NumberMonotone
<1>2. WorkdayNumber(e) = WorkdayNumber(e - 1) + 1
  BY DEF WorkdayNumber, IsWeekend
<1> QED
  BY <1>1, <1>2, NumberType

(* The workdays after one day and up to another are as many as the numbers of    *)
(* workdays between theirs.                                                  *)
LEMMA WorkdaysCounted ==
  ASSUME NEW a \in Int, NEW b \in Int, a <= b
  PROVE  Cardinality({day \in a + 1 .. b : ~IsWeekend(day)}) = WorkdayNumber(b) - WorkdayNumber(a)
<1> DEFINE S == {day \in a + 1 .. b : ~IsWeekend(day)}
           T == WorkdayNumber(a) + 1 .. WorkdayNumber(b)
           f == [day \in S |-> WorkdayNumber(day)]
<1>1. WorkdayNumber(a) \in Int /\ WorkdayNumber(b) \in Int /\ WorkdayNumber(a) <= WorkdayNumber(b)
  BY NumberType, NumberMonotone
<1>2. \A day \in S : /\ day \in Int /\ ~IsWeekend(day) /\ a < day /\ day <= b
                     /\ WorkdayNumber(day) \in Int
  BY NumberType
<1>3. \A day \in S : WorkdayNumber(day) \in T
  BY <1>1, <1>2, NumberStrict, NumberMonotone
<1>4. f \in [S -> T]
  BY <1>3
<1>5. \A d, e \in S : f[d] = f[e] => d = e
  BY <1>2, NumberInjective
<1>6. ASSUME NEW n \in T
      PROVE  \E day \in S : f[day] = n
  <2>1. n \in Int /\ WorkdayNumber(a) < n /\ n <= WorkdayNumber(b)
    BY <1>1
  <2>2. NthWorkday(n) \in Int /\ WorkdayNumber(NthWorkday(n)) = n /\ ~IsWeekend(NthWorkday(n))
    BY <2>1, NumberOfNth, NumberType
  <2>3. a < NthWorkday(n)
    <3>1. CASE NthWorkday(n) <= a
      <4>1. WorkdayNumber(NthWorkday(n)) <= WorkdayNumber(a)
        BY <2>2, <3>1, NumberMonotone
      <4> QED
        BY <1>1, <2>1, <2>2, <4>1
    <3> QED
      BY <2>2, <3>1
  <2>4. NthWorkday(n) <= b
    <3>1. CASE b < NthWorkday(n)
      <4>1. WorkdayNumber(b) < WorkdayNumber(NthWorkday(n))
        BY <2>2, <3>1, NumberStrict
      <4> QED
        BY <1>1, <2>1, <2>2, <4>1
    <3> QED
      BY <2>2, <3>1
  <2>5. NthWorkday(n) \in S
    BY <2>2, <2>3, <2>4
  <2> QED
    BY <2>2, <2>5
<1>7. IsFiniteSet(S)
  <2>1. IsFiniteSet(a + 1 .. b) /\ S \subseteq a + 1 .. b
    BY FS_Interval
  <2> QED
    BY <2>1, FS_Subset
<1>8. Cardinality(T) = WorkdayNumber(b) - WorkdayNumber(a)
  BY <1>1, FS_Interval
<1> HIDE DEF S, T, f
<1>9. f \in Bijection(S, T)
  BY <1>4, <1>5, <1>6, Fun_IsBij
<1>10. Cardinality(T) = Cardinality(S)
  BY <1>7, <1>9, FS_Bijection DEF ExistsBijection
<1> QED
  BY <1>8, <1>10 DEF S

LEMMA LoopCountsWorkdays ==
  ASSUME NEW a \in Int, NEW b \in Int
  PROVE  WorkdaysFromTo(a, b) = WorkdaysBetween(a, b)
<1>1. WorkdayNumber(a) \in Int /\ WorkdayNumber(b) \in Int
  BY NumberType
<1>2. CASE a <= b
  BY <1>2, WorkdaysCounted DEF WorkdaysFromTo, WorkdaysBetween
<1>3. CASE ~(a <= b)
  <2>1. Cardinality({day \in b + 1 .. a : ~IsWeekend(day)}) = WorkdayNumber(a) - WorkdayNumber(b)
    BY <1>3, WorkdaysCounted
  <2> QED
    BY <1>1, <1>3, <2>1 DEF WorkdaysFromTo, WorkdaysBetween
<1> QED
  BY <1>2, <1>3

-----------------------------------------------------------------------------
(* The chart's columns.                                                      *)

(* A workday's week: from Monday to Friday, both of them workdays. *)
LEMMA WeekOfWorkday ==
  ASSUME NEW day \in Int, ~IsWeekend(day)
  PROVE  /\ Monday(day) \in Int /\ Monday(day) <= day /\ Monday(day) % 7 = 0
         /\ Friday(day) \in Int /\ day <= Friday(day)
BY DEF Monday, Friday, IsWeekend

LEMMA MondayIsWorked ==
  ASSUME NEW lo \in Int, lo % 7 = 0
  PROVE  /\ ~IsWeekend(lo) /\ Monday(lo) = lo /\ WorkdayNumber(lo) = 5 * (lo \div 7) + 1
         /\ WorkdayNumber(lo) = WorkdayNumber(lo - 1) + 1
BY DEF Monday, IsWeekend, WorkdayNumber

LEMMA MondayMonotone ==
  ASSUME NEW d \in Int, NEW e \in Int, d <= e
  PROVE  Monday(d) <= Monday(e)
BY DEF Monday

(* Columns from a Monday on. *)
Framed(days, lo, hi) ==
  lo \in Int /\ hi \in Int /\ lo % 7 = 0 /\ days = {day \in lo .. hi : ~IsWeekend(day)}

(* A chart's columns are framed and hold each of its dates. *)
LEMMA ColumnsFramed ==
  ASSUME NEW dates, IsFiniteSet(dates), dates # {},
         \A d \in dates : d \in Int /\ ~IsWeekend(d)
  PROVE  \E lo, hi \in Int : Framed(BuildColumns(dates), lo, hi) /\ dates \subseteq BuildColumns(dates)
<1> DEFINE first == CHOOSE d \in dates : \A e \in dates : d <= e
           last  == CHOOSE d \in dates : \A e \in dates : e <= d
           lo == Monday(first)
           hi == Friday(AddWorkdays(last, TrailingPaddingDays))
<1>1. dates \in SUBSET Int
  OBVIOUS
<1>2. first \in dates /\ \A e \in dates : first <= e
  BY <1>1, FiniteMinimum
<1>3. last \in dates /\ \A e \in dates : e <= last
  BY <1>1, FiniteMaximum
<1>4. BuildColumns(dates) = {day \in lo .. hi : ~IsWeekend(day)}
  BY DEF BuildColumns
<1> HIDE DEF first, last
<1>5. lo \in Int /\ lo <= first /\ lo % 7 = 0
  BY <1>1, <1>2, WeekOfWorkday
<1>6. hi \in Int /\ last <= hi
  <2> DEFINE padded == AddWorkdays(last, TrailingPaddingDays)
  <2>1. padded \in Int /\ ~IsWeekend(padded) /\ last <= padded
    BY <1>1, <1>3, AddWorkdaysFacts DEF TrailingPaddingDays
  <2> HIDE DEF padded
  <2>2. Friday(padded) \in Int /\ padded <= Friday(padded)
    BY <2>1, WeekOfWorkday
  <2>3. hi = Friday(padded)
    BY DEF padded
  <2> HIDE DEF hi
  <2> QED
    BY <1>1, <1>3, <2>1, <2>2, <2>3
<1> HIDE DEF lo, hi
<1>7. Framed(BuildColumns(dates), lo, hi)
  BY <1>4, <1>5, <1>6 DEF Framed
<1>8. \A d \in dates : d \in lo .. hi /\ ~IsWeekend(d)
  BY <1>1, <1>2, <1>3, <1>5, <1>6
<1>9. dates \subseteq BuildColumns(dates)
  BY <1>4, <1>8
<1> QED
  BY <1>5, <1>6, <1>7, <1>9

(* A day's column, counted from the first, is the number of workdays before it. *)
LEMMA ColumnOfWorkday ==
  ASSUME NEW days, NEW lo, NEW hi, Framed(days, lo, hi), NEW day \in days
  PROVE  /\ Column(days, day) = WorkdayNumber(day) - WorkdayNumber(lo)
         /\ ColumnFor(days, day) = WorkdayNumber(day) - WorkdayNumber(lo)
         /\ WorkdayNumber(day) - WorkdayNumber(lo) \in Nat
<1>1. /\ lo \in Int /\ hi \in Int /\ lo % 7 = 0 /\ day \in Int
      /\ lo <= day /\ day <= hi /\ ~IsWeekend(day)
      /\ days = {d \in lo .. hi : ~IsWeekend(d)}
  BY DEF Framed
<1>2. {d \in days : d < day} = {d \in (lo - 1) + 1 .. day - 1 : ~IsWeekend(d)}
  BY <1>1
<1>3. Cardinality({d \in (lo - 1) + 1 .. day - 1 : ~IsWeekend(d)})
        = WorkdayNumber(day - 1) - WorkdayNumber(lo - 1)
  <2>1. lo - 1 \in Int /\ day - 1 \in Int /\ lo - 1 <= day - 1
    BY <1>1
  <2> QED
    BY <2>1, WorkdaysCounted
<1>4. /\ WorkdayNumber(lo) = WorkdayNumber(lo - 1) + 1
      /\ WorkdayNumber(day) = WorkdayNumber(day - 1) + 1
  <2>1. WorkdayNumber(day) = WorkdayNumber(day - 1) + 1
    BY <1>1 DEF WorkdayNumber, IsWeekend
  <2> QED
    BY <1>1, <2>1, MondayIsWorked
<1>5. /\ WorkdayNumber(lo) \in Int /\ WorkdayNumber(lo - 1) \in Int
      /\ WorkdayNumber(day) \in Int /\ WorkdayNumber(day - 1) \in Int
  <2>1. lo - 1 \in Int /\ day - 1 \in Int
    BY <1>1
  <2> QED
    BY <1>1, <2>1, NumberType
<1>6. Column(days, day) = WorkdayNumber(day) - WorkdayNumber(lo)
  <2>1. Column(days, day) = WorkdayNumber(day - 1) - WorkdayNumber(lo - 1)
    BY <1>2, <1>3, Zenon DEF Column
  <2> QED
    BY <1>4, <1>5, <2>1
<1>7. days \cap day .. day + 13 # {}
  BY <1>1
<1>8. WorkdayNumber(lo) <= WorkdayNumber(day)
  BY <1>1, NumberMonotone
<1> QED
  BY <1>5, <1>6, <1>7, <1>8 DEF ColumnFor

(* A bar over two days of the chart covers the workdays between them, and as     *)
(* many columns as there are.                                                *)
LEMMA BarCovers ==
  ASSUME NEW days, NEW lo, NEW hi, Framed(days, lo, hi),
         NEW start \in days, NEW end \in days, start <= end, NEW row
  PROVE  LET b == BarOver(days, row, start, end) IN
           /\ b.row = row /\ b.start = WorkdayNumber(start) - WorkdayNumber(lo) /\ b.start \in Nat
           /\ b.span = WorkdayNumber(end) - WorkdayNumber(start) + 1 /\ b.span \in Nat \ {0}
           /\ {day \in days : Column(days, day) \in b.start .. b.start + b.span - 1}
                = Workdays(start, end)
<1> DEFINE b == BarOver(days, row, start, end)
           N(day) == WorkdayNumber(day)
<1>1. /\ lo \in Int /\ hi \in Int /\ days = {d \in lo .. hi : ~IsWeekend(d)}
  BY DEF Framed
<1>2. start \in Int /\ end \in Int /\ ~IsWeekend(start) /\ ~IsWeekend(end)
  BY <1>1
<1>3. /\ ColumnFor(days, start) = N(start) - N(lo) /\ ColumnFor(days, end) = N(end) - N(lo)
      /\ N(start) - N(lo) \in Nat
  BY ColumnOfWorkday
<1>4. N(lo) \in Int /\ N(start) \in Int /\ N(end) \in Int /\ N(start) <= N(end)
  BY <1>1, <1>2, NumberType, NumberMonotone
<1>5. b.row = row /\ b.start = N(start) - N(lo) /\ b.span = N(end) - N(start) + 1
  BY <1>3, <1>4 DEF BarOver
<1>6. ASSUME NEW day \in days
      PROVE  Column(days, day) \in b.start .. b.start + b.span - 1 <=> day \in start .. end
  <2>1. Column(days, day) = N(day) - N(lo)
    BY ColumnOfWorkday
  <2>2. day \in Int /\ ~IsWeekend(day) /\ N(day) \in Int
    BY <1>1, NumberType
  <2>3. /\ start <= day => N(start) <= N(day)
        /\ day <= end => N(day) <= N(end)
    BY <1>2, <2>2, NumberMonotone
  <2>4. /\ day < start => N(day) < N(start)
        /\ end < day => N(end) < N(day)
    BY <1>2, <2>2, NumberStrict
  <2> HIDE DEF N, b
  <2>5. Column(days, day) \in b.start .. b.start + b.span - 1 <=> N(start) <= N(day) /\ N(day) <= N(end)
    BY <1>4, <1>5, <2>1, <2>2
  <2> QED
    BY <1>2, <1>4, <2>2, <2>3, <2>4, <2>5
<1>7. \A day \in start .. end : ~IsWeekend(day) => day \in days
  BY <1>1, <1>2
<1>8. \A day \in days : ~IsWeekend(day)
  BY <1>1
<1> HIDE DEF b
<1>9. {day \in days : Column(days, day) \in b.start .. b.start + b.span - 1} = Workdays(start, end)
  BY <1>6, <1>7, <1>8 DEF Workdays
<1> QED
  BY <1>3, <1>4, <1>5, <1>9 DEF b

(* Every week of the chart is whole up to its days: five columns each.          *)
LEMMA WeeksHaveFiveColumns ==
  ASSUME NEW days, NEW lo, NEW hi, Framed(days, lo, hi), NEW day \in days
  PROVE  Monday(day) \in days /\ Column(days, Monday(day)) % 5 = 0
<1>1. /\ lo \in Int /\ hi \in Int /\ lo % 7 = 0 /\ days = {d \in lo .. hi : ~IsWeekend(d)}
      /\ day \in Int /\ lo <= day /\ day <= hi /\ ~IsWeekend(day)
  BY DEF Framed
<1> DEFINE m == Monday(day)
<1>2. m \in Int /\ m <= day /\ m % 7 = 0
  BY <1>1, WeekOfWorkday
<1>3. lo <= m
  BY <1>1, MondayIsWorked, MondayMonotone
<1> HIDE DEF m
<1>4. ~IsWeekend(m) /\ WorkdayNumber(m) = 5 * (m \div 7) + 1 /\ WorkdayNumber(lo) = 5 * (lo \div 7) + 1
  BY <1>1, <1>2, MondayIsWorked
<1>5. m \in days
  BY <1>1, <1>2, <1>3, <1>4
<1>6. Column(days, m) = WorkdayNumber(m) - WorkdayNumber(lo)
  BY <1>5, ColumnOfWorkday
<1>7. Column(days, m) = 5 * (m \div 7 - lo \div 7)
  BY <1>1, <1>2, <1>4, <1>6
<1>8. \A k \in Int : (5 * k) % 5 = 0
  OBVIOUS
<1>9. m \div 7 - lo \div 7 \in Int
  BY <1>1, <1>2
<1> QED
  BY <1>5, <1>7, <1>8, <1>9 DEF m

-----------------------------------------------------------------------------
(* The chart's rows.                                                         *)

(* Each task has a row of its own, and no row is empty. *)
LEMMA RowsAreTasks ==
  ASSUME NEW p, IsFiniteSet(p.tasks), \A t \in p.tasks : p.pos[t] \in Int,
         \A t, u \in p.tasks : p.pos[t] = p.pos[u] => t = u
  PROVE  /\ \A t \in p.tasks : RowIndex(p, t) \in Nat
         /\ \A t, u \in p.tasks : RowIndex(p, t) = RowIndex(p, u) => t = u
         /\ {RowIndex(p, t) : t \in p.tasks} = 0 .. Cardinality(p.tasks) - 1
<1> DEFINE above(t) == {u \in p.tasks : p.pos[u] < p.pos[t]}
           n == Cardinality(p.tasks)
           r == [t \in p.tasks |-> RowIndex(p, t)]
           R == {RowIndex(p, t) : t \in p.tasks}
<1>1. n \in Nat
  BY FS_CardinalityType
<1>2. ASSUME NEW t \in p.tasks
      PROVE  /\ above(t) \subseteq p.tasks /\ t \notin above(t) /\ IsFiniteSet(above(t))
             /\ RowIndex(p, t) = Cardinality(above(t)) /\ RowIndex(p, t) \in Nat
             /\ RowIndex(p, t) < n
  <2>1. above(t) \subseteq p.tasks /\ t \notin above(t)
    OBVIOUS
  <2>2. RowIndex(p, t) = Cardinality(above(t))
    BY DEF RowIndex
  <2> HIDE DEF above
  <2>3. above(t) # p.tasks
    BY <2>1
  <2>4. /\ IsFiniteSet(above(t)) /\ Cardinality(above(t)) <= n
        /\ n = Cardinality(above(t)) => p.tasks = above(t)
    BY <2>1, FS_Subset
  <2>5. Cardinality(above(t)) \in Nat
    BY <2>4, FS_CardinalityType
  <2> HIDE DEF n
  <2> QED
    BY <1>1, <2>1, <2>2, <2>3, <2>4, <2>5
<1>3. ASSUME NEW t \in p.tasks, NEW u \in p.tasks, p.pos[t] < p.pos[u]
      PROVE  RowIndex(p, t) < RowIndex(p, u)
  <2>1. above(t) \subseteq above(u) /\ t \in above(u)
    BY <1>3
  <2>2. t \notin above(t)
    OBVIOUS
  <2> HIDE DEF above
  <2>3. /\ Cardinality(above(t)) <= Cardinality(above(u))
        /\ Cardinality(above(u)) = Cardinality(above(t)) => above(u) = above(t)
    BY <1>2, <2>1, FS_Subset
  <2> QED
    BY <1>2, <2>1, <2>2, <2>3
<1>4. \A t, u \in p.tasks : RowIndex(p, t) = RowIndex(p, u) => t = u
  <2> SUFFICES ASSUME NEW t \in p.tasks, NEW u \in p.tasks, t # u
               PROVE  RowIndex(p, t) # RowIndex(p, u)
    OBVIOUS
  <2>1. p.pos[t] < p.pos[u] \/ p.pos[u] < p.pos[t]
    <3>1. p.pos[t] \in Int /\ p.pos[u] \in Int /\ p.pos[t] # p.pos[u]
      OBVIOUS
    <3> QED
      BY <3>1
  <2>2. RowIndex(p, t) \in Nat /\ RowIndex(p, u) \in Nat
    BY <1>2
  <2> QED
    BY <1>3, <2>1, <2>2
<1>5. r \in [p.tasks -> R] /\ (\A t, u \in p.tasks : r[t] = r[u] => t = u)
      /\ \A k \in R : \E t \in p.tasks : r[t] = k
  BY <1>4
<1>6. R \subseteq 0 .. n - 1
  <2>1. ASSUME NEW t \in p.tasks PROVE RowIndex(p, t) \in 0 .. n - 1
    <3>1. RowIndex(p, t) \in Nat /\ RowIndex(p, t) < n
      BY <1>2
    <3> HIDE DEF n
    <3> QED
      BY <1>1, <3>1
  <2> QED
    BY <2>1
<1> HIDE DEF r, R
<1>7. r \in Bijection(p.tasks, R)
  BY <1>5, Fun_IsBij
<1>8. Cardinality(R) = n
  BY <1>7, FS_Bijection DEF ExistsBijection
<1> HIDE DEF n
<1>9. IsFiniteSet(0 .. n - 1) /\ Cardinality(0 .. n - 1) = n
  <2>1. 0 \in Int /\ n - 1 \in Int
    BY <1>1
  <2>2. IsFiniteSet(0 .. n - 1) /\ Cardinality(0 .. n - 1) = IF 0 > n - 1 THEN 0 ELSE (n - 1) - 0 + 1
    BY <2>1, FS_Interval
  <2> QED
    BY <1>1, <2>2
<1>10. R = 0 .. n - 1
  BY <1>6, <1>8, <1>9, FS_Subset
<1> QED
  BY <1>2, <1>4, <1>10 DEF R, n

-----------------------------------------------------------------------------
(* The summary of the backend, adapted, is what the page would find.          *)

(* A task of a plan and its dates, and the dates of two tasks on an edge. *)
Placed(p, t) ==
  /\ p.preds[t] \in Seq(p.tasks) /\ p.dur[t] \in Nat \ {0} /\ p.pos[t] \in Int
  /\ p.begins[t] \in Int /\ ~IsWeekend(p.begins[t])
  /\ p.ends[t] \in Int /\ ~IsWeekend(p.ends[t]) /\ p.begins[t] <= p.ends[t]
  /\ WorkdayNumber(p.ends[t]) = WorkdayNumber(p.begins[t]) + p.dur[t] - 1
  /\ \A q \in PredsOf(p, t) : q \in p.tasks /\ p.ends[q] < p.begins[t]

LEMMA ProjectFacts ==
  ASSUME NEW p \in Projects
  PROVE  /\ IsFiniteSet(p.tasks) /\ p.tasks # {}
         /\ \A t \in p.tasks : Placed(p, t)
         /\ \A t, u \in p.tasks : p.pos[t] = p.pos[u] => t = u
<1>1. PICK q \in Plans : p = Dated(q)
  BY DEF Projects
<1> DEFINE s == StartDates(q)
<1>2. /\ p.tasks = q.tasks /\ p.preds = q.preds /\ p.pos = q.pos /\ p.dur = q.dur
      /\ p.begins = s /\ p.ends = [t \in q.tasks |-> EndFor(q, t, s[t])]
  BY <1>1 DEF Dated
<1>3. /\ IsFiniteSet(q.tasks) /\ q.tasks # {} /\ Schedulable(q)
      /\ \A t \in q.tasks : q.pos[t] \in Int
      /\ \A t, u \in q.tasks : q.pos[t] = q.pos[u] => t = u
  BY PlansAssumption
<1>4. s \in [q.tasks -> Int] /\ Feasible(q, s)
  BY <1>3, StartDatesFeasible
<1> HIDE DEF s
<1>5. ASSUME NEW t \in q.tasks PROVE Placed(p, t)
  <2> DEFINE k == q.dur[t] - 1
  <2>1. s[t] \in Int /\ ~IsWeekend(s[t]) /\ q.preds[t] \in Seq(q.tasks) /\ q.dur[t] \in Nat \ {0}
    BY <1>3, <1>4 DEF Feasible, Schedulable
  <2>2. k \in Nat
    BY <2>1
  <2>3. p.ends[t] = AddWorkdays(s[t], k)
    BY <1>2 DEF EndFor
  <2> HIDE DEF k
  <2>4. /\ p.ends[t] \in Int /\ ~IsWeekend(p.ends[t]) /\ s[t] <= p.ends[t]
        /\ WorkdayNumber(p.ends[t]) = WorkdayNumber(s[t]) + k
    BY <2>1, <2>2, <2>3, AddWorkdaysFacts
  <2>5. WorkdayNumber(p.ends[t]) = WorkdayNumber(s[t]) + q.dur[t] - 1
    BY <2>1, <2>4, NumberType DEF k
  <2>6. PredsOf(p, t) = PredsOf(q, t)
    BY <1>2 DEF PredsOf
  <2>7. ASSUME NEW u \in PredsOf(q, t) PROVE u \in q.tasks /\ p.ends[u] < s[t]
    <3>1. u \in q.tasks
      BY <1>3, PredsFinite
    <3>2. EndFor(q, u, s[u]) < s[t]
      BY <1>4 DEF Feasible
    <3> QED
      BY <1>2, <3>1, <3>2
  <2> QED
    BY <1>2, <1>3, <2>1, <2>4, <2>5, <2>6, <2>7 DEF Placed
<1> QED
  BY <1>2, <1>3, <1>5

(* The positions of a list cover the ids it lists. *)
LEMMA PredsListed ==
  ASSUME NEW S, NEW p, NEW t, p.preds[t] \in Seq(S)
  PROVE  LET a == p.preds[t] IN
           /\ IsFiniteSet(DOMAIN a) /\ Cardinality(DOMAIN a) = Len(a)
           /\ [i \in DOMAIN a |-> a[i]] \in Surjection(DOMAIN a, PredsOf(p, t))
<1> DEFINE a == p.preds[t]
           f == [i \in DOMAIN a |-> a[i]]
<1>1. IsFiniteSet(DOMAIN a) /\ Cardinality(DOMAIN a) = Len(a)
  <2>1. a \in Seq(S)
    OBVIOUS
  <2> HIDE DEF a
  <2>2. DOMAIN a = 1 .. Len(a) /\ Len(a) \in Nat
    BY <2>1
  <2>3. ASSUME NEW n \in Nat
        PROVE  IsFiniteSet(1 .. n) /\ Cardinality(1 .. n) = n
    <3>1. /\ IsFiniteSet(1 .. n)
          /\ Cardinality(1 .. n) = IF 1 > n THEN 0 ELSE n - 1 + 1
      BY FS_Interval
    <3> QED
      BY <3>1
  <2> QED
    BY <2>2, <2>3
<1>2. PredsOf(p, t) = {a[i] : i \in DOMAIN a}
  BY DEF PredsOf
<1>3. f \in Surjection(DOMAIN a, PredsOf(p, t))
  <2>1. f \in [DOMAIN a -> PredsOf(p, t)]
    BY <1>2
  <2>2. \A x \in PredsOf(p, t) : \E i \in DOMAIN a : f[i] = x
    BY <1>2
  <2> HIDE DEF f, a
  <2> QED
    BY <2>1, <2>2, Fun_IsSurj
<1> QED
  BY <1>1, <1>3

(* A list as long as the set of its ids lists none of them twice. *)
LEMMA ListedOnce ==
  ASSUME NEW S, NEW p, NEW t, p.preds[t] \in Seq(S),
         Len(p.preds[t]) = Cardinality(PredsOf(p, t)),
         NEW i \in DOMAIN p.preds[t], NEW j \in DOMAIN p.preds[t],
         p.preds[t][i] = p.preds[t][j]
  PROVE  i = j
<1> DEFINE a == p.preds[t]
           f == [k \in DOMAIN a |-> a[k]]
<1>1. /\ IsFiniteSet(DOMAIN a) /\ Cardinality(DOMAIN a) = Cardinality(PredsOf(p, t))
      /\ f \in Surjection(DOMAIN a, PredsOf(p, t))
  BY PredsListed
<1>2. i \in DOMAIN a /\ j \in DOMAIN a /\ f[i] = f[j]
  OBVIOUS
<1> HIDE DEF f, a
<1>3. f \in Injection(DOMAIN a, PredsOf(p, t))
  BY <1>1, FS_SurjSameCardinalityImpliesInj
<1> QED
  BY <1>2, <1>3 DEF Injection, IsInjective

(* Of two lists that repeat nothing, lengths and one inclusion decide. *)
LEMMA SamePreds ==
  ASSUME NEW S, NEW p, NEW q, NEW t, p.preds[t] \in Seq(S), q.preds[t] \in Seq(S),
         Len(p.preds[t]) = Cardinality(PredsOf(p, t)),
         Len(q.preds[t]) = Cardinality(PredsOf(q, t))
  PROVE  SameIdSet(p.preds[t], q.preds[t]) <=> PredsOf(p, t) = PredsOf(q, t)
<1>1. IsFiniteSet(PredsOf(p, t))
  <2> DEFINE a == p.preds[t]
             f == [i \in DOMAIN a |-> a[i]]
  <2>1. IsFiniteSet(DOMAIN a) /\ f \in Surjection(DOMAIN a, PredsOf(p, t))
    BY PredsListed
  <2> HIDE DEF f, a
  <2> QED
    BY <2>1, FS_Surjection
<1>2. SameIdSet(p.preds[t], q.preds[t])
        <=> Len(p.preds[t]) = Len(q.preds[t]) /\ PredsOf(q, t) \subseteq PredsOf(p, t)
  BY DEF SameIdSet, PredsOf
<1>3. ASSUME Len(p.preds[t]) = Len(q.preds[t]), PredsOf(q, t) \subseteq PredsOf(p, t)
      PROVE  PredsOf(p, t) = PredsOf(q, t)
  BY <1>1, <1>3, FS_Subset
<1>4. PredsOf(p, t) = PredsOf(q, t)
        => Len(p.preds[t]) = Len(q.preds[t]) /\ PredsOf(q, t) \subseteq PredsOf(p, t)
  OBVIOUS
<1> QED
  BY <1>2, <1>3, <1>4

LEMMA SameFields ==
  ASSUME NEW before \in Projects, NEW after \in Grown(before), NEW t \in Kept(before, after),
         NoRepeats(before), NoRepeats(after)
  PROVE  /\ FieldDeltas(before, after, t)
              = UNION {FormatFieldDelta(f) : f \in FieldsChanged(before, after, t)}
         /\ FieldDeltas(before, after, t) = {} <=> FieldsChanged(before, after, t) = {}
<1>1. after \in Projects /\ t \in before.tasks /\ t \in after.tasks /\ before.tasks \subseteq after.tasks
  BY DEF Grown, Kept
<1>2. before.preds[t] \in Seq(after.tasks) /\ after.preds[t] \in Seq(after.tasks)
  <2>1. before.preds[t] \in Seq(before.tasks) /\ after.preds[t] \in Seq(after.tasks)
    BY <1>1, ProjectFacts DEF Placed
  <2> QED
    BY <1>1, <2>1
<1>3. SameIdSet(before.preds[t], after.preds[t]) <=> PredsOf(before, t) = PredsOf(after, t)
  <2>1. /\ Len(before.preds[t]) = Cardinality(PredsOf(before, t))
        /\ Len(after.preds[t]) = Cardinality(PredsOf(after, t))
    BY <1>1 DEF NoRepeats
  <2> QED
    BY <1>2, <2>1, SamePreds
<1>4. /\ FormatFieldDelta("duration_workdays") = {"duration", "effort"}
      /\ FormatFieldDelta("predecessor_ids") = {"predecessors"}
      /\ FormatFieldDelta("start_not_before") = {"notBefore"}
      /\ FormatFieldDelta("text") = {"text"}
  BY DEF FormatFieldDelta
<1> DEFINE text == before.text[t] # after.text[t]
           dur  == before.dur[t] # after.dur[t]
           prd  == PredsOf(before, t) # PredsOf(after, t)
           snb  == before.snb[t] # after.snb[t]
<1>5. FieldsChanged(before, after, t)
        = {f \in {"text", "duration_workdays", "predecessor_ids", "start_not_before"} :
             \/ f = "text" /\ text
             \/ f = "duration_workdays" /\ dur
             \/ f = "predecessor_ids" /\ prd
             \/ f = "start_not_before" /\ snb}
  BY DEF FieldsChanged, If
<1>6. FieldDeltas(before, after, t)
        = {d \in {"duration", "effort", "text", "predecessors", "notBefore"} :
             \/ d \in {"duration", "effort"} /\ dur
             \/ d = "text" /\ text
             \/ d = "predecessors" /\ prd
             \/ d = "notBefore" /\ snb}
  BY <1>3 DEF FieldDeltas, If
<1> HIDE DEF text, dur, prd, snb
<1> QED
  BY <1>4, <1>5, <1>6

LEMMA AdapterAgrees ==
  ASSUME NEW previous, NEW before \in Projects, NEW after \in Grown(before), NEW shown,
         NoRepeats(before), NoRepeats(after)
  PROVE  LET adapted == AdaptServerChangeSummary(ComputeChangeSummary(before, after), previous, shown)
             found   == ComputeChangeSet(before, after)
         IN  /\ \A part \in {"byTask", "modified", "created", "derived", "links"} :
                  adapted[part] = found[part]
             /\ previous = before /\ shown = after => adapted.release = found.release
             /\ adapted.previousSchedule =
                  [t \in DOMAIN found.derived |-> found.previousSchedule[t]]
<1> DEFINE summary  == ComputeChangeSummary(before, after)
           adapted  == AdaptServerChangeSummary(summary, previous, shown)
           found    == ComputeChangeSet(before, after)
           modified == {t \in Kept(before, after) : FieldDeltas(before, after, t) # {}}
           derived  == Moved(before, after) \ modified
           created  == Created(before, after)
<1>1. modified = DirectlyChanged(before, after)
  BY SameFields DEF DirectlyChanged
<1>2. derived = DerivedOnly(before, after)
  BY <1>1 DEF DerivedOnly
<1>3. derived \subseteq Moved(before, after) /\ modified \subseteq Kept(before, after)
  OBVIOUS
<1>4. \A t \in Moved(before, after) :
        WorkdaysFromTo(before.ends[t], after.ends[t]) = WorkdaysBetween(before.ends[t], after.ends[t])
  <2> SUFFICES ASSUME NEW t \in Moved(before, after)
               PROVE  WorkdaysFromTo(before.ends[t], after.ends[t])
                        = WorkdaysBetween(before.ends[t], after.ends[t])
    OBVIOUS
  <2>1. after \in Projects /\ t \in before.tasks /\ t \in after.tasks
    BY DEF Moved, Kept, Grown
  <2>2. before.ends[t] \in Int /\ after.ends[t] \in Int
    BY <2>1, ProjectFacts DEF Placed
  <2> QED
    BY <2>2, LoopCountsWorkdays
<1>5. \A t \in modified : FieldDeltas(before, after, t)
                            = UNION {FormatFieldDelta(f) : f \in FieldsChanged(before, after, t)}
  BY <1>3, SameFields
<1>6. /\ summary.direct_changes = [t \in modified |-> FieldsChanged(before, after, t)]
      /\ summary.created_tasks = created
      /\ summary.dependency_changes = LinkChanges(before, after)
      /\ summary.derived_schedule_changes =
           [t \in derived |->
              [start |-> before.begins[t], end |-> before.ends[t],
               workday_shift |-> WorkdaysBetween(before.ends[t], after.ends[t])]]
  BY <1>1, <1>2 DEF ComputeChangeSummary
<1>7. /\ found.byTask = [t \in created \cup modified \cup derived |->
           CASE t \in created -> "created" [] t \in modified -> "direct" [] OTHER -> "derived"]
      /\ found.modified = [t \in modified |-> FieldDeltas(before, after, t)]
      /\ found.created = created
      /\ found.derived = [t \in derived |-> WorkdaysFromTo(before.ends[t], after.ends[t])]
      /\ found.links = LinkChanges(before, after)
      /\ found.previousSchedule = [t \in Moved(before, after) |->
           [start |-> before.begins[t], end |-> before.ends[t]]]
      /\ found.release = ReleaseImpact(before, after)
  BY DEF ComputeChangeSet
<1> HIDE DEF summary, modified, derived, created, found
<1>8. DOMAIN summary.direct_changes = modified /\ DOMAIN summary.derived_schedule_changes = derived
  BY <1>6
<1>9. /\ adapted.byTask = [t \in created \cup modified \cup derived |->
           CASE t \in created -> "created" [] t \in modified -> "direct" [] OTHER -> "derived"]
      /\ adapted.modified = [t \in modified |->
           UNION {FormatFieldDelta(f) : f \in summary.direct_changes[t]}]
      /\ adapted.created = created
      /\ adapted.derived = [t \in derived |-> summary.derived_schedule_changes[t].workday_shift]
      /\ adapted.links = LinkChanges(before, after)
      /\ adapted.previousSchedule = [t \in derived |->
           [start |-> summary.derived_schedule_changes[t].start,
            end |-> summary.derived_schedule_changes[t].end]]
      /\ adapted.release = ReleaseImpact(previous, shown)
  BY <1>6, <1>8 DEF AdaptServerChangeSummary
<1> HIDE DEF adapted
<1>10. adapted.modified = found.modified
  BY <1>5, <1>6, <1>7, <1>9
<1>11. adapted.derived = found.derived
  BY <1>3, <1>4, <1>6, <1>7, <1>9
<1>12. adapted.previousSchedule = [t \in DOMAIN found.derived |-> found.previousSchedule[t]]
  BY <1>3, <1>6, <1>7, <1>9
<1>13. adapted.byTask = found.byTask /\ adapted.created = found.created /\ adapted.links = found.links
  BY <1>7, <1>9
<1>14. previous = before /\ shown = after => adapted.release = found.release
  BY <1>7, <1>9
<1>15. \A part \in {"byTask", "modified", "created", "derived", "links"} : adapted[part] = found[part]
  BY <1>10, <1>11, <1>13
<1> QED
  BY <1>12, <1>14, <1>15 DEF adapted, found, summary

-----------------------------------------------------------------------------
(* The change set shown, whatever became of the project since.                *)

(* The three classes of a change set, each told twice, are of known tasks. *)
Classed(cs, tasks) ==
  /\ DOMAIN cs.byTask \subseteq tasks
  /\ DOMAIN cs.modified = {t \in DOMAIN cs.byTask : cs.byTask[t] = "direct"}
  /\ cs.created = {t \in DOMAIN cs.byTask : cs.byTask[t] = "created"}
  /\ DOMAIN cs.derived = {t \in DOMAIN cs.byTask : cs.byTask[t] = "derived"}

FromServer ==
  turn.by = "server" =>
    /\ turn.before \in Projects /\ turn.after \in Grown(turn.before)
    /\ changeSet = AdaptServerChangeSummary(
                     ComputeChangeSummary(turn.before, turn.after), turn.previous, turn.shown)

(* The old dates are those of the plan before, workdays in order. *)
OldDates(cs, tasks) ==
  \A t \in DOMAIN cs.previousSchedule :
    LET was == cs.previousSchedule[t] IN
      /\ t \in tasks
      /\ was.start \in Int /\ ~IsWeekend(was.start)
      /\ was.end \in Int /\ ~IsWeekend(was.end) /\ was.start <= was.end

(* The links that changed are those between the plans of the change. *)
FromChange ==
  \/ turn.by = "nobody" /\ changeSet.links = {}
  \/ /\ turn.before \in Projects /\ turn.after \in Grown(turn.before)
     /\ changeSet.links = LinkChanges(turn.before, turn.after)

(* The tasks a change set may tell of, which need not be those shown. *)
ChangedTasks == IF turn.by = "nobody" THEN {} ELSE turn.after.tasks

ChartInv ==
  /\ project \in Projects
  /\ Classed(changeSet, ChangedTasks) /\ OldDates(changeSet, ChangedTasks)
  /\ FromServer /\ FromChange

LEMMA GrownKeeps ==
  ASSUME NEW p, NEW q \in Grown(p)
  PROVE  q \in Projects /\ p.tasks \subseteq q.tasks
BY DEF Grown

LEMMA NothingClassed == ASSUME NEW tasks PROVE Classed(NoChangeSet, tasks)
<1>1. /\ NoChangeSet.byTask = <<>> /\ NoChangeSet.modified = <<>> /\ NoChangeSet.created = {}
      /\ NoChangeSet.derived = <<>>
  BY DEF NoChangeSet
<1>2. DOMAIN <<>> = {}
  OBVIOUS
<1> QED
  BY <1>1, <1>2 DEF Classed

(* Any three sets of tasks, two by two apart, classed the way both tellings do. *)
LEMMA ClassesFit ==
  ASSUME NEW cs, NEW created, NEW modified, NEW derived, NEW tasks,
         created \subseteq tasks, modified \subseteq tasks, derived \subseteq tasks,
         created \cap modified = {}, created \cap derived = {}, modified \cap derived = {},
         cs.byTask = [t \in created \cup modified \cup derived |->
           CASE t \in created -> "created" [] t \in modified -> "direct" [] OTHER -> "derived"],
         DOMAIN cs.modified = modified, cs.created = created, DOMAIN cs.derived = derived
  PROVE  Classed(cs, tasks)
<1> DEFINE all == created \cup modified \cup derived
<1>1. DOMAIN cs.byTask = all
  OBVIOUS
<1>2. \A t \in all : cs.byTask[t] = CASE t \in created -> "created"
                                       [] t \in modified -> "direct"
                                       [] OTHER -> "derived"
  OBVIOUS
<1>3. \A t \in created : cs.byTask[t] = "created"
  BY <1>2
<1>4. \A t \in modified : cs.byTask[t] = "direct"
  BY <1>2
<1>5. \A t \in derived : cs.byTask[t] = "derived"
  BY <1>2
<1>6. "created" # "direct" /\ "created" # "derived" /\ "direct" # "derived"
  OBVIOUS
<1> QED
  BY <1>1, <1>3, <1>4, <1>5, <1>6 DEF Classed

LEMMA ServerClassed ==
  ASSUME NEW previous, NEW before, NEW after, NEW shown
  PROVE  Classed(AdaptServerChangeSummary(ComputeChangeSummary(before, after), previous, shown),
                 after.tasks)
<1> DEFINE summary  == ComputeChangeSummary(before, after)
           adapted  == AdaptServerChangeSummary(summary, previous, shown)
           created  == Created(before, after)
           modified == DirectlyChanged(before, after)
           derived  == DerivedOnly(before, after)
           tasks    == after.tasks
<1>1. /\ created \subseteq tasks /\ modified \subseteq tasks /\ derived \subseteq tasks
      /\ created \cap modified = {} /\ created \cap derived = {} /\ modified \cap derived = {}
  BY DEF Created, DirectlyChanged, DerivedOnly, Moved, Kept
<1>2. /\ DOMAIN summary.direct_changes = modified /\ summary.created_tasks = created
      /\ DOMAIN summary.derived_schedule_changes = derived
  BY DEF ComputeChangeSummary
<1> HIDE DEF summary, created, modified, derived, tasks
<1>3. /\ adapted.byTask = [t \in created \cup modified \cup derived |->
           CASE t \in created -> "created" [] t \in modified -> "direct" [] OTHER -> "derived"]
      /\ DOMAIN adapted.modified = modified /\ adapted.created = created
      /\ DOMAIN adapted.derived = derived
  BY <1>2 DEF AdaptServerChangeSummary
<1> HIDE DEF adapted
<1>4. Classed(adapted, tasks)
  BY <1>1, <1>3, ClassesFit
<1> QED
  BY <1>4 DEF adapted, summary, tasks

LEMMA MockClassed ==
  ASSUME NEW before, NEW after
  PROVE  Classed(ComputeChangeSet(before, after), after.tasks)
<1> DEFINE found    == ComputeChangeSet(before, after)
           created  == Created(before, after)
           modified == {t \in Kept(before, after) : FieldDeltas(before, after, t) # {}}
           derived  == Moved(before, after) \ modified
<1>1. /\ created \subseteq after.tasks /\ modified \subseteq after.tasks
      /\ derived \subseteq after.tasks
      /\ created \cap modified = {} /\ created \cap derived = {} /\ modified \cap derived = {}
  BY DEF Created, Moved, Kept
<1>2. /\ found.byTask = [t \in created \cup modified \cup derived |->
           CASE t \in created -> "created" [] t \in modified -> "direct" [] OTHER -> "derived"]
      /\ DOMAIN found.modified = modified /\ found.created = created
      /\ DOMAIN found.derived = derived
  BY DEF ComputeChangeSet
<1> HIDE DEF found, created, modified, derived
<1>3. Classed(found, after.tasks)
  BY <1>1, <1>2, ClassesFit
<1> QED
  BY <1>3 DEF found

(* What both tellings say of the links and of the dates before. *)
LEMMA NothingDated == ASSUME NEW tasks PROVE OldDates(NoChangeSet, tasks) /\ NoChangeSet.links = {}
<1>1. NoChangeSet.previousSchedule = <<>> /\ NoChangeSet.links = {}
  BY DEF NoChangeSet
<1>2. DOMAIN <<>> = {}
  OBVIOUS
<1> QED
  BY <1>1, <1>2 DEF OldDates

LEMMA OldDatesFit ==
  ASSUME NEW cs, NEW before \in Projects, NEW tasks, before.tasks \subseteq tasks,
         NEW S \in SUBSET before.tasks, DOMAIN cs.previousSchedule = S,
         \A t \in S : /\ cs.previousSchedule[t].start = before.begins[t]
                     /\ cs.previousSchedule[t].end = before.ends[t]
  PROVE  OldDates(cs, tasks)
<1>1. \A t \in S : Placed(before, t) /\ t \in tasks
  BY ProjectFacts
<1> QED
  BY <1>1 DEF OldDates, Placed

LEMMA ServerDated ==
  ASSUME NEW previous, NEW before \in Projects, NEW after, NEW shown, NEW tasks,
         before.tasks \subseteq tasks
  PROVE  LET cs == AdaptServerChangeSummary(ComputeChangeSummary(before, after), previous, shown)
         IN  OldDates(cs, tasks) /\ cs.links = LinkChanges(before, after)
<1> DEFINE summary == ComputeChangeSummary(before, after)
           adapted == AdaptServerChangeSummary(summary, previous, shown)
           derived == DerivedOnly(before, after)
           moved   == summary.derived_schedule_changes
<1>1. derived \in SUBSET before.tasks
  BY DEF DerivedOnly, Moved, Kept
<1>2. /\ summary.dependency_changes = LinkChanges(before, after) /\ DOMAIN moved = derived
      /\ \A t \in derived : moved[t].start = before.begins[t] /\ moved[t].end = before.ends[t]
  BY DEF ComputeChangeSummary
<1> HIDE DEF summary, derived
<1>3. /\ adapted.links = LinkChanges(before, after)
      /\ DOMAIN adapted.previousSchedule = derived
      /\ \A t \in derived : /\ adapted.previousSchedule[t].start = before.begins[t]
                           /\ adapted.previousSchedule[t].end = before.ends[t]
  BY <1>2 DEF AdaptServerChangeSummary
<1> HIDE DEF adapted
<1>4. OldDates(adapted, tasks)
  BY <1>1, <1>3, OldDatesFit
<1> QED
  BY <1>3, <1>4 DEF adapted, summary

LEMMA MockDated ==
  ASSUME NEW before \in Projects, NEW after, NEW tasks, before.tasks \subseteq tasks
  PROVE  LET cs == ComputeChangeSet(before, after)
         IN  OldDates(cs, tasks) /\ cs.links = LinkChanges(before, after)
<1> DEFINE found == ComputeChangeSet(before, after)
           moved == Moved(before, after)
<1>1. moved \in SUBSET before.tasks
  BY DEF Moved, Kept
<1>2. /\ found.links = LinkChanges(before, after)
      /\ DOMAIN found.previousSchedule = moved
      /\ \A t \in moved : /\ found.previousSchedule[t].start = before.begins[t]
                         /\ found.previousSchedule[t].end = before.ends[t]
  BY DEF ComputeChangeSet
<1> HIDE DEF found, moved
<1>3. OldDates(found, tasks)
  BY <1>1, <1>2, OldDatesFit
<1> QED
  BY <1>2, <1>3 DEF found

LEMMA ChartInvariant == Spec => []ChartInv
<1>1. Init => ChartInv
  <2> SUFFICES ASSUME Init
               PROVE  ChartInv
    OBVIOUS
  <2>1. turn.by = "nobody"
    BY DEF Init, Nobody
  <2> QED
    BY <2>1, NothingClassed, NothingDated DEF Init, ChartInv, FromServer, FromChange
<1>2. ChartInv /\ [Next]_vars => ChartInv'
  <2> SUFFICES ASSUME ChartInv, [Next]_vars
               PROVE  ChartInv'
    OBVIOUS
  <2>1. CASE ServerTurn
    <3>0. PICK before \in Projects, previous \in Projects :
            \E after \in Grown(before) : \E shown \in Grown(after) :
            /\ changeSet' = AdaptServerChangeSummary(
                              ComputeChangeSummary(before, after), previous, shown)
            /\ turn' = [by |-> "server", previous |-> previous, before |-> before,
                        after |-> after, shown |-> shown]
            /\ project' = shown
      BY <2>1 DEF ServerTurn
    <3>1. PICK after \in Grown(before) : \E shown \in Grown(after) :
            /\ changeSet' = AdaptServerChangeSummary(
                              ComputeChangeSummary(before, after), previous, shown)
            /\ turn' = [by |-> "server", previous |-> previous, before |-> before,
                        after |-> after, shown |-> shown]
            /\ project' = shown
      BY <3>0
    <3>2. PICK shown \in Grown(after) :
            /\ changeSet' = AdaptServerChangeSummary(
                              ComputeChangeSummary(before, after), previous, shown)
            /\ turn' = [by |-> "server", previous |-> previous, before |-> before,
                        after |-> after, shown |-> shown]
            /\ project' = shown
      BY <3>1
    <3>3. project' \in Projects /\ before.tasks \subseteq after.tasks
      BY <3>2, GrownKeeps
    <3>4. turn'.by = "server" /\ turn'.previous = previous /\ turn'.before = before
          /\ turn'.after = after /\ turn'.shown = shown
      BY <3>2
    <3>5. ChangedTasks' = after.tasks
      BY <3>4 DEF ChangedTasks
    <3>6. Classed(changeSet', ChangedTasks')
      BY <3>2, <3>5, ServerClassed
    <3>7. FromServer'
      BY <3>2, <3>4 DEF FromServer
    <3>8. OldDates(changeSet', ChangedTasks') /\ changeSet'.links = LinkChanges(before, after)
      BY <3>2, <3>3, <3>5, ServerDated
    <3>9. FromChange'
      BY <3>4, <3>8 DEF FromChange
    <3> QED
      BY <3>3, <3>6, <3>7, <3>8, <3>9 DEF ChartInv
  <2>2. CASE UnexplainedTurn
    <3>1. project' \in Projects /\ changeSet' = NoChangeSet /\ turn'.by = "nobody"
      BY <2>2 DEF UnexplainedTurn, Nobody
    <3> QED
      BY <3>1, NothingClassed, NothingDated DEF ChartInv, FromServer, FromChange
  <2>3. CASE MockTurn
    <3>1. PICK after \in Grown(project) :
            /\ changeSet' = ComputeChangeSet(project, after)
            /\ turn' = [by |-> "mock", previous |-> project, before |-> project,
                        after |-> after, shown |-> after]
            /\ project' = after
      BY <2>3 DEF MockTurn
    <3>2. /\ turn'.by = "mock" /\ turn'.before = project /\ turn'.after = after
          /\ project' \in Projects
      BY <3>1, GrownKeeps
    <3>3. ChangedTasks' = after.tasks
      BY <3>2 DEF ChangedTasks
    <3>4. Classed(changeSet', ChangedTasks')
      BY <3>1, <3>3, MockClassed
    <3>5. project \in Projects /\ project.tasks \subseteq after.tasks
      BY GrownKeeps DEF ChartInv
    <3>6. OldDates(changeSet', ChangedTasks') /\ changeSet'.links = LinkChanges(project, after)
      BY <3>1, <3>3, <3>5, MockDated
    <3>7. FromChange'
      BY <3>2, <3>5, <3>6 DEF FromChange
    <3> QED
      BY <3>2, <3>4, <3>6, <3>7 DEF ChartInv, FromServer
  <2>4. CASE Refetch
    <3>1. project' \in Projects /\ changeSet' = changeSet /\ turn' = turn
      BY <2>4 DEF Refetch
    <3> QED
      BY <3>1 DEF ChartInv, FromServer, FromChange, ChangedTasks
  <2>5. CASE ToggleHighlights
    <3>1. project' = project /\ changeSet' = changeSet /\ turn' = turn
      BY <2>5 DEF ToggleHighlights
    <3> QED
      BY <3>1 DEF ChartInv, FromServer, FromChange, ChangedTasks
  <2>6. CASE ShowAnother
    <3>1. project' \in Projects /\ changeSet' = NoChangeSet /\ turn'.by = "nobody"
      BY <2>6 DEF ShowAnother, Nobody
    <3> QED
      BY <3>1, NothingClassed, NothingDated DEF ChartInv, FromServer, FromChange
  <2>7. CASE UNCHANGED vars
    <3>1. project' = project /\ changeSet' = changeSet /\ turn' = turn
      BY <2>7 DEF vars
    <3> QED
      BY <3>1 DEF ChartInv, FromServer, FromChange, ChangedTasks
  <2> QED
    BY <2>1, <2>2, <2>3, <2>4, <2>5, <2>6, <2>7 DEF Next
<1> QED
  BY <1>1, <1>2, PTL DEF Spec

(* The backend's summary, adapted (serverChangeSummaryAdapter.ts), is the change *)
(* set lib/diff.ts would find between the same two versions, for any plans.     *)
THEOREM ServerAndPageAgree == Spec => []SummariesAgree
<1>1. ChartInv => SummariesAgree
  <2> SUFFICES ASSUME ChartInv, turn.by = "server", NoRepeats(turn.before), NoRepeats(turn.after)
               PROVE  LET found == ComputeChangeSet(turn.before, turn.after) IN
                        /\ \A part \in {"byTask", "modified", "created", "derived", "links"} :
                             changeSet[part] = found[part]
                        /\ turn.previous = turn.before /\ turn.shown = turn.after =>
                             changeSet.release = found.release
                        /\ changeSet.previousSchedule =
                             [t \in DOMAIN found.derived |-> found.previousSchedule[t]]
    BY DEF SummariesAgree
  <2>1. /\ turn.before \in Projects /\ turn.after \in Grown(turn.before)
        /\ changeSet = AdaptServerChangeSummary(
                         ComputeChangeSummary(turn.before, turn.after), turn.previous, turn.shown)
    BY DEF ChartInv, FromServer
  <2> QED
    BY <2>1, AdapterAgrees
<1> QED
  BY <1>1, ChartInvariant, PTL

(* The panel's sections and the legend's counts agree whatever plan is shown, one *)
(* of a project left behind included, and the marked rows agree with them on every *)
(* plan that has the tasks of the change (buildGanttModel, changeCounts and       *)
(* ChangeSummary read three different parts of the change set).                *)
THEOREM EveryCountAgrees == Spec => []CountsAgree
<1>1. ChartInv => CountsAgree
  <2> SUFFICES ASSUME ChartInv, NEW type \in ChangeTypes
               PROVE  /\ PanelCounts[type] = ChangeCounts(type)
                      /\ highlightsVisible /\ (turn = Nobody \/ project \in Grown(turn.after)) =>
                           MarkedRows(type) = ChangeCounts(type)
    BY DEF CountsAgree
  <2> DEFINE classed == {t \in DOMAIN changeSet.byTask : changeSet.byTask[t] = type}
             marked  == {t \in project.tasks : Mark(t) = type}
  <2>1. Classed(changeSet, ChangedTasks)
    BY DEF ChartInv
  <2>2. PanelCounts[type] = Cardinality(classed)
    BY <2>1 DEF PanelCounts, Classed, ChangeTypes
  <2>3. ASSUME highlightsVisible, turn = Nobody \/ project \in Grown(turn.after)
        PROVE  marked = classed
    <3>1. ChangedTasks \subseteq project.tasks
      BY <2>3, GrownKeeps DEF ChangedTasks, Nobody
    <3>2. \A t \in DOMAIN changeSet.byTask : t \in project.tasks /\ Mark(t) = changeSet.byTask[t]
      BY <2>1, <2>3, <3>1 DEF Classed, Mark
    <3>3. \A t \in project.tasks \ DOMAIN changeSet.byTask : Mark(t) # type
      BY DEF Mark, ChangeTypes
    <3> QED
      BY <3>2, <3>3
  <2> QED
    BY <2>2, <2>3 DEF ChangeCounts, MarkedRows
<1> QED
  BY <1>1, ChartInvariant, PTL

-----------------------------------------------------------------------------
(* The chart drawn.                                                          *)

(* The columns hold every day a bar or an outline begins or ends on. *)
LEMMA ChartFramed ==
  ASSUME ChartInv
  PROVE  \E lo, hi \in Int :
           /\ Framed(Days, lo, hi)
           /\ \A t \in project.tasks : project.begins[t] \in Days /\ project.ends[t] \in Days
           /\ \A t \in DOMAIN changeSet.previousSchedule :
                LET was == changeSet.previousSchedule[t] IN was.start \in Days /\ was.end \in Days
<1> DEFINE was  == changeSet.previousSchedule
           S    == project.tasks
           olds == {was[t] : t \in DOMAIN was}
           A    == {project.begins[t] : t \in S} \cup {project.ends[t] : t \in S}
           B    == {s.start : s \in olds} \cup {s.end : s \in olds}
           dates == RangeSource(project, changeSet)
<1>1. IsFiniteSet(S) /\ S # {} /\ \A t \in S : Placed(project, t)
  BY ProjectFacts DEF ChartInv
<1>2. dates = A \cup B
  BY DEF RangeSource
<1>3. IsFiniteSet(A)
  <2>1. IsFiniteSet({project.begins[t] : t \in S}) /\ IsFiniteSet({project.ends[t] : t \in S})
    BY <1>1, ImageFinite
  <2> QED
    BY <2>1, FS_Union
<1>4. IsFiniteSet(B)
  <2>0. IsFiniteSet(ChangedTasks)
    <3>1. CASE turn.by = "nobody"
      BY <3>1, FS_EmptySet DEF ChangedTasks
    <3>2. CASE turn.by # "nobody"
      <4>1. turn.after \in Projects
        BY <3>2, GrownKeeps DEF ChartInv, FromChange
      <4> QED
        BY <3>2, <4>1, ProjectFacts DEF ChangedTasks
    <3> QED
      BY <3>1, <3>2
  <2>1. DOMAIN was \subseteq ChangedTasks
    BY DEF ChartInv, OldDates
  <2>2. IsFiniteSet(DOMAIN was)
    BY <2>0, <2>1, FS_Subset
  <2>3. IsFiniteSet(olds)
    BY <2>2, ImageFinite
  <2> DEFINE f == [s \in olds |-> s.start]
             g == [s \in olds |-> s.end]
  <2>4. {s.start : s \in olds} = {f[s] : s \in olds} /\ {s.end : s \in olds} = {g[s] : s \in olds}
    OBVIOUS
  <2> HIDE DEF f, g, olds
  <2>5. IsFiniteSet({f[s] : s \in olds}) /\ IsFiniteSet({g[s] : s \in olds})
    BY <2>3, ImageFinite
  <2> QED
    BY <2>4, <2>5, FS_Union
<1>5. \A t \in S : /\ project.begins[t] \in A /\ project.ends[t] \in A
                   /\ project.begins[t] \in Int /\ ~IsWeekend(project.begins[t])
                   /\ project.ends[t] \in Int /\ ~IsWeekend(project.ends[t])
  BY <1>1 DEF Placed
<1>6. \A t \in DOMAIN was : /\ was[t].start \in B /\ was[t].end \in B
                            /\ was[t].start \in Int /\ ~IsWeekend(was[t].start)
                            /\ was[t].end \in Int /\ ~IsWeekend(was[t].end)
  BY DEF ChartInv, OldDates
<1>7. \A d \in A \cup B : d \in Int /\ ~IsWeekend(d)
  BY <1>5, <1>6
<1>8. A # {}
  BY <1>1, <1>5
<1> HIDE DEF A, B, dates, was, S
<1>9. dates # {} /\ IsFiniteSet(dates) /\ \A d \in dates : d \in Int /\ ~IsWeekend(d)
  BY <1>2, <1>3, <1>4, <1>7, <1>8, FS_Union
<1>10. \E lo, hi \in Int : Framed(BuildColumns(dates), lo, hi) /\ dates \subseteq BuildColumns(dates)
  BY <1>9, ColumnsFramed
<1>11. Days = BuildColumns(dates)
  BY DEF Days, dates
<1> QED
  BY <1>2, <1>5, <1>6, <1>10, <1>11 DEF S, was

(* Where the bar of a task stands, when the columns begin on a day lo. *)
BarStands(t, lo) ==
  /\ StandsOnChart(Bars[t])
  /\ Bars[t].row = RowIndex(project, t)
  /\ Bars[t].start = WorkdayNumber(project.begins[t]) - WorkdayNumber(lo)
  /\ Bars[t].span = WorkdayNumber(project.ends[t]) - WorkdayNumber(project.begins[t]) + 1
  /\ Covered(Bars[t]) = Workdays(project.begins[t], project.ends[t])

LEMMA EveryBarStands ==
  ASSUME ChartInv, NEW lo, NEW hi, Framed(Days, lo, hi),
         \A t \in project.tasks : project.begins[t] \in Days /\ project.ends[t] \in Days,
         NEW t \in project.tasks
  PROVE  BarStands(t, lo)
<1> DEFINE row   == RowIndex(project, t)
           start == project.begins[t]
           end   == project.ends[t]
           b     == BarOver(Days, row, start, end)
<1>1. row \in Nat
  BY ProjectFacts, RowsAreTasks DEF ChartInv, Placed
<1>2. start \in Days /\ end \in Days /\ start <= end
  BY ProjectFacts DEF ChartInv, Placed
<1>3. Bars[t] = b
  BY DEF Bars, Bar
<1> HIDE DEF row, start, end
<1>4. /\ b.row = row /\ b.start = WorkdayNumber(start) - WorkdayNumber(lo) /\ b.start \in Nat
      /\ b.span = WorkdayNumber(end) - WorkdayNumber(start) + 1 /\ b.span \in Nat \ {0}
      /\ {day \in Days : Column(Days, day) \in b.start .. b.start + b.span - 1}
           = Workdays(start, end)
  BY <1>2, BarCovers
<1> HIDE DEF b
<1>5. StandsOnChart(b)
  BY <1>1, <1>4 DEF StandsOnChart
<1>6. Covered(b) = Workdays(start, end)
  BY <1>4 DEF Covered
<1> QED
  BY <1>3, <1>4, <1>5, <1>6 DEF BarStands, row, start, end

(* An edge joins two tasks of the plan, the second begun after the first ended. *)
LEMMA EdgesGoForward ==
  ASSUME NEW p \in Projects, NEW e \in Edges(p)
  PROVE  e[1] \in p.tasks /\ e[2] \in p.tasks /\ e[1] # e[2] /\ p.ends[e[1]] < p.begins[e[2]]
<1>1. PICK t \in p.tasks : \E q \in PredsOf(p, t) : e = <<q, t>>
  BY DEF Edges
<1>2. PICK q \in PredsOf(p, t) : e = <<q, t>>
  BY <1>1
<1>3. e[1] = q /\ e[2] = t
  BY <1>2
<1>4. Placed(p, t) /\ q \in p.tasks /\ p.ends[q] < p.begins[t]
  BY <1>2, ProjectFacts DEF Placed
<1>5. Placed(p, q)
  BY <1>4, ProjectFacts
<1>6. q # t
  BY <1>4, <1>5 DEF Placed
<1> QED
  BY <1>3, <1>4, <1>6

(* An arrow is that of a place in a list of predecessors, or of an edge removed   *)
(* between two tasks shown.                                                  *)
LEMMA LinkEdges ==
  ASSUME NEW l \in Links
  PROVE  \/ /\ \E t \in project.tasks : \E n \in DOMAIN project.preds[t] : l = Arrow(t, n)
            /\ <<l.source, l.target>> \in Edges(project) /\ l.kind # "removed"
         \/ /\ \E k \in changeSet.links :
                  k.kind = "removed" /\ k.source = l.source /\ k.target = l.target
            /\ l = [source |-> l.source, target |-> l.target, nth |-> 0, kind |-> "removed"]
            /\ l.source \in project.tasks /\ l.target \in project.tasks
<1> DEFINE removed == {k \in changeSet.links :
                        k.kind = "removed" /\ {k.source, k.target} \subseteq project.tasks}
           arrows  == UNION {{Arrow(t, n) : n \in DOMAIN project.preds[t]} : t \in project.tasks}
           ghosts  == {[source |-> k.source, target |-> k.target, nth |-> 0, kind |-> "removed"]
                         : k \in removed}
<1>1. CASE l \in ghosts
  <2>1. PICK k \in removed :
          l = [source |-> k.source, target |-> k.target, nth |-> 0, kind |-> "removed"]
    BY <1>1
  <2>2. l.source = k.source /\ l.target = k.target
    BY <2>1
  <2> QED
    BY <2>1, <2>2
<1>2. CASE l \in arrows
  <2>1. PICK t \in project.tasks : l \in {Arrow(t, n) : n \in DOMAIN project.preds[t]}
    BY <1>2
  <2>2. PICK n \in DOMAIN project.preds[t] : l = Arrow(t, n)
    BY <2>1
  <2>3. l.source = project.preds[t][n] /\ l.target = t /\ l.kind # "removed"
    BY <2>2 DEF Arrow
  <2>4. l.source \in PredsOf(project, t)
    BY <2>3 DEF PredsOf
  <2> QED
    BY <2>2, <2>3, <2>4 DEF Edges
<1>3. Links = arrows \cup ghosts
  BY DEF Links
<1> HIDE DEF arrows, ghosts
<1> QED
  BY <1>1, <1>2, <1>3

(* A removed link was an edge of the plan before and is none of the plan after. *)
LEMMA RemovedLink ==
  ASSUME ChartInv, NEW l \in changeSet.links, l.kind = "removed"
  PROVE  /\ turn.before \in Projects
         /\ <<l.source, l.target>> \in Edges(turn.before) \ Edges(turn.after)
         /\ l = [source |-> l.source, target |-> l.target, kind |-> "removed"]
<1>1. /\ turn.before \in Projects
      /\ changeSet.links = LinkChanges(turn.before, turn.after)
  BY DEF ChartInv, FromChange
<1>2. PICK e \in Edges(turn.before) \ Edges(turn.after) :
        l = [source |-> e[1], target |-> e[2], kind |-> "removed"]
  <2>1. \/ \E e \in Edges(turn.after) \ Edges(turn.before) :
             l = [source |-> e[1], target |-> e[2], kind |-> "added"]
        \/ \E e \in Edges(turn.before) \ Edges(turn.after) :
             l = [source |-> e[1], target |-> e[2], kind |-> "removed"]
    BY <1>1 DEF LinkChanges
  <2>2. "added" # "removed"
    OBVIOUS
  <2> QED
    BY <2>1, <2>2
<1>3. e = <<e[1], e[2]>>
  BY DEF Edges
<1>4. l.source = e[1] /\ l.target = e[2]
  BY <1>2
<1> QED
  BY <1>1, <1>2, <1>3, <1>4

(* For every set of plans: each bar and each outline covers the workdays of its   *)
(* task, weeks have five columns, rows are the tasks; and over the plan of its    *)
(* change set no edge is drawn both as kept and as removed, and none that is      *)
(* listed once has two arrows (buildGanttModel, over the change set of App.tsx).  *)
THEOREM ChartIsTrue == Spec => []ChartShowsPlan
<1>1. ChartInv => ChartShowsPlan
  <2> SUFFICES ASSUME ChartInv PROVE ChartShowsPlan
    OBVIOUS
  <2>1. PICK lo \in Int, hi \in Int :
           /\ Framed(Days, lo, hi)
           /\ \A t \in project.tasks : project.begins[t] \in Days /\ project.ends[t] \in Days
           /\ \A t \in DOMAIN changeSet.previousSchedule :
                LET was == changeSet.previousSchedule[t] IN was.start \in Days /\ was.end \in Days
    BY ChartFramed
  <2>2. project \in Projects /\ OldDates(changeSet, ChangedTasks)
    BY DEF ChartInv
  <2>3. ASSUME NEW t \in project.tasks
        PROVE  /\ Covered(Bars[t]) = Workdays(project.begins[t], project.ends[t])
               /\ Bars[t].span = project.dur[t]
               /\ Bars[t].row = RowIndex(project, t)
    <3>1. BarStands(t, lo)
      BY <2>1, EveryBarStands
    <3>2. Placed(project, t)
      BY <2>2, ProjectFacts
    <3>3. /\ WorkdayNumber(project.ends[t]) = WorkdayNumber(project.begins[t]) + project.dur[t] - 1
          /\ project.begins[t] \in Int /\ project.dur[t] \in Nat \ {0}
      BY <3>2 DEF Placed
    <3>4. WorkdayNumber(project.begins[t]) \in Int
      BY <3>3, NumberType
    <3>5. WorkdayNumber(project.ends[t]) - WorkdayNumber(project.begins[t]) + 1 = project.dur[t]
      BY <3>3, <3>4
    <3> QED
      BY <3>1, <3>5 DEF BarStands
  <2>4. ASSUME NEW t \in DOMAIN Ghosts
        PROVE  LET was == changeSet.previousSchedule[t]
               IN  Covered(Ghosts[t]) = Workdays(was.start, was.end)
    <3> DEFINE was == changeSet.previousSchedule[t]
               start == was.start
               end   == was.end
               b == BarOver(Days, RowIndex(project, t), start, end)
    <3>1. t \in DOMAIN changeSet.previousSchedule /\ Ghosts[t] = b
      BY DEF Ghosts
    <3>2. start \in Days /\ end \in Days /\ start <= end
      BY <2>1, <2>2, <3>1 DEF OldDates
    <3> HIDE DEF start, end
    <3>3. {day \in Days : Column(Days, day) \in b.start .. b.start + b.span - 1} = Workdays(start, end)
      BY <2>1, <3>2, BarCovers
    <3> QED
      BY <3>1, <3>3 DEF Covered, start, end
  <2>5. \A day \in Days : Monday(day) \in Days /\ Column(Days, Monday(day)) % 5 = 0
    BY <2>1, WeeksHaveFiveColumns
  <2>6. {Bars[t].row : t \in project.tasks} = 0 .. Cardinality(project.tasks) - 1
    <3>1. {RowIndex(project, t) : t \in project.tasks} = 0 .. Cardinality(project.tasks) - 1
      BY <2>2, ProjectFacts, RowsAreTasks DEF Placed
    <3>2. {Bars[t].row : t \in project.tasks} = {RowIndex(project, t) : t \in project.tasks}
      BY <2>3
    <3> QED
      BY <3>1, <3>2
  <2>7. ASSUME project = turn.after, NEW l \in Links, NEW m \in Links,
               l.source = m.source, l.target = m.target
        PROVE  l.kind = m.kind /\ (NoRepeats(project) => l = m)
    <3>1. CASE <<l.source, l.target>> \in Edges(project)
      <4>1. ASSUME NEW k \in Links, k.source = l.source, k.target = l.target
            PROVE  \E t \in project.tasks : \E n \in DOMAIN project.preds[t] : k = Arrow(t, n)
        BY <2>7, <3>1, <4>1, LinkEdges, RemovedLink
      <4>2. PICK t \in project.tasks : \E n \in DOMAIN project.preds[t] : l = Arrow(t, n)
        BY <4>1
      <4>3. PICK n \in DOMAIN project.preds[t] : l = Arrow(t, n)
        BY <4>2
      <4>4. \E u \in project.tasks : \E k \in DOMAIN project.preds[u] : m = Arrow(u, k)
        BY <2>7, <4>1
      <4>5. PICK k \in DOMAIN project.preds[t] : m = Arrow(t, k)
        BY <2>7, <4>3, <4>4 DEF Arrow
      <4>6. project.preds[t][n] = project.preds[t][k]
        BY <2>7, <4>3, <4>5 DEF Arrow
      <4>7. l.kind = m.kind
        BY <4>3, <4>5, <4>6 DEF Arrow
      <4>8. ASSUME NoRepeats(project)
            PROVE  n = k
        <5>1. project.preds[t] \in Seq(project.tasks)
          BY <2>2, ProjectFacts DEF Placed
        <5>2. Len(project.preds[t]) = Cardinality(PredsOf(project, t))
          BY <4>8 DEF NoRepeats
        <5> QED
          BY <4>6, <5>1, <5>2, ListedOnce
      <4> QED
        BY <4>3, <4>5, <4>7, <4>8
    <3>2. CASE <<l.source, l.target>> \notin Edges(project)
      BY <2>7, <3>2, LinkEdges
    <3> QED
      BY <3>1, <3>2
  <2> QED
    BY <2>3, <2>4, <2>5, <2>6, <2>7 DEF ChartShowsPlan
<1> QED
  BY <1>1, ChartInvariant, PTL

(* For every set of plans: no arrow runs along a bar or crosses one it joins, a   *)
(* removed one included, and a dependency's arrow goes on to the right, or at     *)
(* most two pixels back (dependencyPoints).                                    *)
THEOREM RoutesAreClear == Spec => []RoutesClear
<1>1. ChartInv => RoutesClear
  <2> SUFFICES ASSUME ChartInv, NEW l \in Links
               PROVE  /\ RouteIsClear(Bars[l.source], Bars[l.target],
                                      {Bars[t] : t \in project.tasks})
                      /\ l.kind # "removed" =>
                           EndsAt(Bars[l.target]) >= LeavesAt(Bars[l.source]) - 2
    BY DEF RoutesClear
  <2> DEFINE bars == {Bars[t] : t \in project.tasks}
             source == Bars[l.source]
             target == Bars[l.target]
             N(day) == WorkdayNumber(day)
  <2>1. PICK lo \in Int, hi \in Int :
           /\ Framed(Days, lo, hi)
           /\ \A t \in project.tasks : project.begins[t] \in Days /\ project.ends[t] \in Days
    BY ChartFramed
  <2>2. project \in Projects
    BY DEF ChartInv
  <2>3. \A t \in project.tasks : BarStands(t, lo)
    BY <2>1, EveryBarStands
  <2>4. \A t, u \in project.tasks : RowIndex(project, t) = RowIndex(project, u) => t = u
    BY <2>2, ProjectFacts, RowsAreTasks DEF Placed
  <2>5. l.source \in project.tasks /\ l.target \in project.tasks /\ l.source # l.target
    <3>1. CASE <<l.source, l.target>> \in Edges(project)
      <4>1. <<l.source, l.target>>[1] = l.source /\ <<l.source, l.target>>[2] = l.target
        OBVIOUS
      <4> QED
        BY <2>2, <3>1, <4>1, EdgesGoForward
    <3>2. CASE \E k \in changeSet.links :
                 k.kind = "removed" /\ k.source = l.source /\ k.target = l.target
      <4>1. turn.before \in Projects /\ <<l.source, l.target>> \in Edges(turn.before)
        BY <3>2, RemovedLink
      <4>2. <<l.source, l.target>>[1] = l.source /\ <<l.source, l.target>>[2] = l.target
        OBVIOUS
      <4>3. l.source \in project.tasks /\ l.target \in project.tasks
        BY <2>2, <3>2, LinkEdges, EdgesGoForward
      <4> QED
        BY <4>1, <4>2, <4>3, EdgesGoForward
    <3> QED
      BY <3>1, <3>2, LinkEdges
  <2>6. RouteIsClear(source, target, bars)
    <3>1. \A b \in bars : StandsOnChart(b)
      BY <2>3 DEF BarStands
    <3>2. \A b, c \in bars : b.row = c.row => b = c
      BY <2>3, <2>4 DEF BarStands
    <3>3. source \in bars /\ target \in bars /\ source # target
      <4>1. source.row # target.row
        BY <2>3, <2>4, <2>5 DEF BarStands
      <4> QED
        BY <2>5, <4>1
    <3> HIDE DEF bars, source, target
    <3> QED
      BY <3>1, <3>2, <3>3, RouteAvoidsBars
  <2>7. ASSUME l.kind # "removed"
        PROVE  EndsAt(target) >= LeavesAt(source) - 2
    <3>1. <<l.source, l.target>> \in Edges(project)
      BY <2>7, LinkEdges
    <3>2. project.ends[l.source] < project.begins[l.target]
      <4>1. <<l.source, l.target>>[1] = l.source /\ <<l.source, l.target>>[2] = l.target
        OBVIOUS
      <4> QED
        BY <2>2, <3>1, <4>1, EdgesGoForward
    <3>3. Placed(project, l.source) /\ Placed(project, l.target)
      BY <2>2, <2>5, ProjectFacts
    <3>4. N(project.ends[l.source]) < N(project.begins[l.target])
      BY <3>2, <3>3, NumberStrict DEF Placed
    <3>5. /\ source.start = N(project.begins[l.source]) - N(lo)
          /\ source.span = N(project.ends[l.source]) - N(project.begins[l.source]) + 1
          /\ target.start = N(project.begins[l.target]) - N(lo)
          /\ source.start \in Nat /\ source.span \in Nat \ {0} /\ target.start \in Nat
      BY <2>3, <2>5 DEF BarStands, StandsOnChart
    <3>6. /\ N(project.begins[l.source]) \in Int /\ N(project.ends[l.source]) \in Int
          /\ N(project.begins[l.target]) \in Int /\ N(lo) \in Int
      BY <2>1, <3>3, NumberType DEF Placed
    <3> HIDE DEF N, source, target
    <3>7. target.start >= source.start + source.span
      BY <3>4, <3>5, <3>6
    <3>8. EndsAt(target) = 22 * target.start - 4
      BY <3>5 DEF EndsAt, BarLeft, DayWidth, BarInset, ArrowLength
    <3>9. LeavesAt(source) = 22 * (source.start + source.span) - 2
      BY <3>5 DEF LeavesAt, BarRight, BarLeft, BarWidth, DayWidth, BarInset
    <3> QED
      BY <3>5, <3>7, <3>8, <3>9
  <2> QED
    BY <2>6, <2>7
<1> QED
  BY <1>1, ChartInvariant, PTL

=============================================================================
