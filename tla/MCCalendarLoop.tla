--------------------------- MODULE MCCalendarLoop ---------------------------
(* Bounds: start dates over two weeks (every weekday, on both sides of day 0)*)
(* and amounts up to two weeks either way, so every walk crosses 0, 1 or 2   *)
(* weekends from each weekday.                                               *)
EXTENDS CalendarLoop

MCDays    == -7 .. 7
MCAmounts == -11 .. 11
=============================================================================
