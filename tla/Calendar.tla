------------------------------ MODULE Calendar ------------------------------
(***************************************************************************)
(* The Monday-to-Friday working calendar of the scheduler.  A day is an     *)
(* integer; day 0 is a Monday, so d % 7 is Python's date.weekday().  The     *)
(* while loops of the source are given here in closed form through the      *)
(* numbering of the working days; module CalendarLoop runs the loops         *)
(* themselves and shows that they compute these closed forms.               *)
(***************************************************************************)
EXTENDS Integers

(* A bug IsWeekend must not have: Saturdays are worked. *)
SundayOnly(day) == (day % 7) >= 6

(* A Saturday or a Sunday. *)
IsWeekend(day) == (day % 7) >= 5

(* The day itself when it is a workday, otherwise the next Monday. *)
NextWorkday(day) == IF IsWeekend(day) THEN day + (7 - (day % 7)) ELSE day

(* A bug FirstWorkdayAfter must not have: a day too many. *)
SecondDayAfter(day) == NextWorkday(day + 2)

FirstWorkdayAfter(day) == NextWorkday(day + 1)

(* How many workdays of the (doubly infinite) calendar lie in 0 .. day,     *)
(* extended to negative days: the number of the last workday <= day.        *)
WorkdayNumber(day) ==
  5 * (day \div 7) + (IF IsWeekend(day) THEN 5 ELSE (day % 7) + 1)

(* The day on which the n-th workday falls: the inverse of WorkdayNumber    *)
(* on workdays.                                                             *)
NthWorkday(n) == 7 * ((n - 1) \div 5) + ((n - 1) % 5)

(* start plus some working days; 0 leaves a weekend start where it is. *)
AddWorkdays(start, workdays) ==
  IF workdays = 0 THEN start ELSE NthWorkday(WorkdayNumber(start) + workdays)

(* The signed shift of a moved task. *)
ShiftWorkdays(start, offset) ==
  IF offset >= 0 THEN AddWorkdays(start, offset)
                 ELSE NthWorkday(WorkdayNumber(start - 1) + offset + 1)

(* Workdays after start up to and including end, negative when end is       *)
(* earlier.                                                                 *)
WorkdaysBetween(start, end) == WorkdayNumber(end) - WorkdayNumber(start)

=============================================================================
