---------------------------- MODULE GanttGeometry ----------------------------
(***************************************************************************)
(* features/gantt/ganttGeometry.ts with the METRICS of GanttView.tsx: where,   *)
(* in pixels, the bar of a row stands and by which corners the arrow of a      *)
(* dependency goes from one bar to another.  A bar b is a record of            *)
(*   b.row    its row, from 0,                                               *)
(*   b.start  its first column, from 0,                                      *)
(*   b.span   the columns it covers, at least 1.                              *)
(* Corners are not rounded here, and the head of the arrow is left out.        *)
(***************************************************************************)
EXTENDS Integers

DayWidth    == 22
RowHeight   == 32
BarHeight   == 16
BarInset    == 2
Elbow       == 9
ArrowLength == 5

BarLeft(b)    == b.start * DayWidth + BarInset
BarWidth(b)   == LET width == b.span * DayWidth - 2 * BarInset
                 IN  IF width < 6 THEN 6 ELSE width
BarRight(b)   == BarLeft(b) + BarWidth(b)
BarTop(b)     == b.row * RowHeight + (RowHeight - BarHeight) \div 2
BarBottom(b)  == BarTop(b) + BarHeight
RowCenterY(b) == b.row * RowHeight + RowHeight \div 2

(* Where the arrow leaves the bar it comes from, and where it ends before the   *)
(* bar it goes to.                                                          *)
LeavesAt(b) == BarRight(b)
EndsAt(b)   == BarLeft(b) - ArrowLength - 1

Forward(source, target) == EndsAt(target) >= LeavesAt(source) + Elbow

FarGutter(source, target) ==                    \* a bug: beyond the target's row
  IF target.row > source.row THEN RowCenterY(target) + RowHeight \div 2
                             ELSE RowCenterY(target) - RowHeight \div 2

(* The gutter next to the target's row, on the side the arrow comes from. *)
LaneY(source, target) ==
  IF target.row > source.row THEN RowCenterY(target) - RowHeight \div 2
                             ELSE RowCenterY(target) + RowHeight \div 2

Horizontal(y, from, to) == [y |-> y, from |-> from, to |-> to]
Vertical(x, from, to)   == [x |-> x, from |-> from, to |-> to]

(* The legs of the route, for two different rows: dependencyPoints.  Either a   *)
(* Z, or, when the target does not start far enough after the source, a detour  *)
(* along the gutter.                                                        *)
HorizontalLegs(source, target) ==
  LET out  == LeavesAt(source) + Elbow
      back == EndsAt(target) - Elbow
  IN  {Horizontal(RowCenterY(source), LeavesAt(source), out)} \cup
      IF Forward(source, target)
        THEN {Horizontal(RowCenterY(target), out, EndsAt(target))}
        ELSE {Horizontal(LaneY(source, target), out, back),
              Horizontal(RowCenterY(target), back, EndsAt(target))}

VerticalLegs(source, target) ==
  LET out  == LeavesAt(source) + Elbow
      back == EndsAt(target) - Elbow
  IN  IF Forward(source, target)
        THEN {Vertical(out, RowCenterY(source), RowCenterY(target))}
        ELSE {Vertical(out, RowCenterY(source), LaneY(source, target)),
              Vertical(back, LaneY(source, target), RowCenterY(target))}

-----------------------------------------------------------------------------
(* Whether a value lies strictly between two others, in either order, and      *)
(* whether an open interval meets another.                                  *)
Inside(v, low, high) == low < v /\ v < high
Meets(a, b, low, high) == (a < high \/ b < high) /\ (a > low \/ b > low)

RunsAlong(leg, b) ==
  Inside(leg.y, BarTop(b), BarBottom(b)) /\ Meets(leg.from, leg.to, BarLeft(b), BarRight(b))

Crosses(leg, b) ==
  Inside(leg.x, BarLeft(b), BarRight(b)) /\ Meets(leg.from, leg.to, BarTop(b), BarBottom(b))

(* No leg of a route runs along a bar that stands in a row of its own among     *)
(* bars, and none crosses one of the two bars it joins.                       *)
RouteIsClear(source, target, bars) ==
  /\ \A leg \in HorizontalLegs(source, target), b \in bars : ~RunsAlong(leg, b)
  /\ \A leg \in VerticalLegs(source, target), b \in {source, target} : ~Crosses(leg, b)

=============================================================================
