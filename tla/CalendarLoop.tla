---------------------------- MODULE CalendarLoop ----------------------------
(***************************************************************************)
(* The loops of scheduler/calendar.py and scheduler/calendar_shift.py, one  *)
(* iteration per step.  A behaviour is one call.  next_workday,              *)
(* add_workdays, shift_workdays and workdays_between walk the calendar day   *)
(* by day; Calendar gives in closed form what each of them returns, and      *)
(* ReturnsClosedForm says that the two agree.                                *)
(* Init, Next and the like are named for the loop: SchedulerProofs extends     *)
(* this module and the scheduler, which calls it.                            *)
(***************************************************************************)
EXTENDS Calendar

CONSTANTS
  Days,      \* the dates a caller may pass
  Amounts    \* the numbers of workdays and the offsets a caller may pass

ASSUME CallAssumption == Days \subseteq Int /\ Amounts \subseteq Int

VARIABLES
  call,      \* the call in progress: the function and its two arguments
  walk,      \* "loop", then "returned" or "raised"
  cursor,    \* the local variable cursor (day in next_workday)
  counter,   \* the local variable remaining, or count in workdays_between
  result     \* the value returned (meaningful when walk = "returned")

loopVars == <<call, walk, cursor, counter, result>>

Calls ==
       [fn : {"next_workday"}, start : Days, arg : {0}]
  \cup [fn : {"add_workdays", "shift_workdays"}, start : Days, arg : Amounts]
  \cup [fn : {"workdays_between"}, start : Days, arg : Days]

(* The target and the first cursor of workdays_between: the later and the   *)
(* earlier of its two dates.                                                *)
Later(c)   == IF c.arg > c.start THEN c.arg ELSE c.start
Earlier(c) == IF c.arg > c.start THEN c.start ELSE c.arg

(* A bug Sign must not have: a walk to the past that stays where it is. *)
SignOrZero(n) == IF n > 0 THEN 1 ELSE 0

Sign(n) == IF n > 0 THEN 1 ELSE -1
Abs(n)  == IF n < 0 THEN -n ELSE n

-----------------------------------------------------------------------------
(* Entry of each function: the early returns leave the loop at once with     *)
(* nothing to count.                                                         *)
EnterLoop(c) ==
  /\ walk = (IF c.fn = "add_workdays" /\ c.arg < 0 THEN "raised" ELSE "loop")
  /\ cursor = (IF c.fn = "workdays_between" THEN Earlier(c) ELSE c.start)
  /\ counter = (IF c.fn \in {"add_workdays", "shift_workdays"} THEN Abs(c.arg) ELSE 0)
  /\ result = 0

LoopInit == call \in Calls /\ EnterLoop(call)

(* while is_weekend(day): day += 1 *)
NextWorkdayLoop ==
  /\ call.fn = "next_workday" /\ walk = "loop"
  /\ IF IsWeekend(cursor)
       THEN cursor' = cursor + 1 /\ UNCHANGED <<walk, result>>
       ELSE walk' = "returned" /\ result' = cursor /\ UNCHANGED cursor
  /\ UNCHANGED <<call, counter>>

(* while remaining > 0, walking in the direction of the offset *)
CountDownLoop ==
  /\ call.fn \in {"add_workdays", "shift_workdays"} /\ walk = "loop"
  /\ \/ /\ counter > 0
        /\ cursor' = cursor + Sign(call.arg)
        /\ counter' = IF IsWeekend(cursor') THEN counter ELSE counter - 1
        /\ UNCHANGED <<walk, result>>
     \/ /\ counter = 0
        /\ walk' = "returned" /\ result' = cursor
        /\ UNCHANGED <<cursor, counter>>
  /\ UNCHANGED call

(* while cursor < target, counting; the sign is applied on return *)
BetweenLoop ==
  /\ call.fn = "workdays_between" /\ walk = "loop"
  /\ \/ /\ cursor < Later(call)
        /\ cursor' = cursor + 1
        /\ counter' = IF IsWeekend(cursor') THEN counter ELSE counter + 1
        /\ UNCHANGED <<walk, result>>
     \/ /\ cursor = Later(call)
        /\ walk' = "returned"
        /\ result' = IF call.arg > call.start THEN counter ELSE -counter
        /\ UNCHANGED <<cursor, counter>>
  /\ UNCHANGED call

LoopNext == NextWorkdayLoop \/ CountDownLoop \/ BetweenLoop

LoopSpec     == LoopInit /\ [][LoopNext]_loopVars
LoopFairSpec == LoopSpec /\ WF_loopVars(LoopNext)

-----------------------------------------------------------------------------
LoopTypeOK ==
  /\ call \in Calls
  /\ walk \in {"loop", "returned", "raised"}
  /\ cursor \in Int /\ counter \in Nat /\ result \in Int

(* What a call returns, according to Calendar. *)
ClosedForm(c) ==
  CASE c.fn = "next_workday"     -> NextWorkday(c.start)
    [] c.fn = "add_workdays"     -> AddWorkdays(c.start, c.arg)
    [] c.fn = "shift_workdays"   -> ShiftWorkdays(c.start, c.arg)
    [] c.fn = "workdays_between" -> WorkdaysBetween(c.start, c.arg)

(* The loop invariants: the workdays already walked and those still to walk  *)
(* make up the amount asked for, and a walk only ever stops on a workday.     *)
LoopInv ==
  /\ walk = "raised" <=> call.fn = "add_workdays" /\ call.arg < 0
  /\ call.fn = "next_workday" => NextWorkday(cursor) = NextWorkday(call.start)
  /\ call.fn \in {"add_workdays", "shift_workdays"} /\ call.arg >= 0 =>
       /\ counter <= call.arg
       /\ WorkdayNumber(cursor) + counter = WorkdayNumber(call.start) + call.arg
       /\ counter = 0 => IF call.arg = 0 THEN cursor = call.start ELSE ~IsWeekend(cursor)
  /\ call.fn = "shift_workdays" /\ call.arg < 0 =>
       /\ WorkdayNumber(cursor - 1) - counter = WorkdayNumber(call.start - 1) + call.arg
       /\ counter = 0 => ~IsWeekend(cursor)
  /\ call.fn = "workdays_between" =>
       /\ Earlier(call) <= cursor /\ cursor <= Later(call)
       /\ counter = WorkdayNumber(cursor) - WorkdayNumber(Earlier(call))

(* Every call that returns, returns what Calendar's closed form says: the   *)
(* day-by-day loops of add_workdays, shift_workdays, workdays_between and    *)
(* next_workday may neither skip nor double-count a day at a weekend, in     *)
(* either direction, on a start that is itself a weekend or not.             *)
ReturnsClosedForm == walk = "returned" => result = ClosedForm(call)

(* Every call ends: shift_workdays walks away from its start until the       *)
(* offset is used up, never past a counter that a weekend failed to decrease.*)
LoopEnds == <>(walk # "loop")

=============================================================================
