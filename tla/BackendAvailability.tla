------------------------- MODULE BackendAvailability -------------------------
(***************************************************************************)
(* lib/backendAvailability.ts and api/health.ts: health checks one after the *)
(* other, with a delay after each that fails, until one succeeds or the next *)
(* would start past the budget.  A step is what runs between two awaits;      *)
(* time passes in the awaits and is measured in units.                       *)
(***************************************************************************)
EXTENDS Integers, Sequences

CONSTANTS
  Budget,        \* budgetMs
  Backoff,       \* backoffScheduleMs
  CheckTimeout,  \* timeoutMs: a health check is aborted after this time
  CheckTimes     \* how long a health check may take

ASSUME ProbeAssumption ==
  /\ Budget \in Nat \ {0}
  /\ Backoff \in Seq(Nat \ {0}) /\ Backoff # <<>>
  /\ CheckTimeout \in Nat
  /\ CheckTimes \subseteq 0 .. CheckTimeout /\ CheckTimes # {}

VARIABLE probe  \* the call of waitForBackend: where it is, attempts, time elapsed

NoProbe    == [pc |-> "none", attempt |-> 0, elapsed |-> 0]
FirstCheck == [pc |-> "checking", attempt |-> 0, elapsed |-> 0]

Probing == probe.pc \in {"checking", "sleeping"}

(* The last delay of the schedule repeats. *)
Delay(attempt) ==
  Backoff[IF attempt < Len(Backoff) THEN attempt + 1 ELSE Len(Backoff)]

(* The backend answers the check in time. *)
CheckSucceeds ==
  /\ probe.pc = "checking"
  /\ \E t \in CheckTimes :
       probe' = [probe EXCEPT !.pc = "ready", !.elapsed = @ + t]

GivesUpOnTime(elapsed, attempt) == elapsed >= Budget     \* a bug: the delay forgotten

(* No time is left for another attempt. *)
GivesUp(elapsed, attempt) ==
  elapsed >= Budget \/ elapsed + Delay(attempt) >= Budget

(* The check fails, or is aborted at its timeout: checkHealth never throws.   *)
CheckFails ==
  /\ probe.pc = "checking"
  /\ \E t \in CheckTimes :
       LET elapsed == probe.elapsed + t
       IN  probe' = IF GivesUp(elapsed, probe.attempt)
                      THEN [probe EXCEPT !.pc = "unavailable", !.elapsed = elapsed]
                      ELSE [pc |-> "sleeping", attempt |-> probe.attempt + 1, elapsed |-> elapsed]

SleepEnds ==
  /\ probe.pc = "sleeping"
  /\ probe' = [probe EXCEPT !.pc = "checking", !.elapsed = @ + Delay(probe.attempt - 1)]

ProbeNext == CheckSucceeds \/ CheckFails \/ SleepEnds

ProbeSpec == probe = FirstCheck /\ [][ProbeNext]_probe

-----------------------------------------------------------------------------
ProbeTypeOK ==
  probe \in [pc : {"none", "checking", "sleeping", "ready", "unavailable"},
             attempt : Nat, elapsed : Nat]

(* However long the checks take, waiting for the backend takes less than the  *)
(* budget and one health check: no delay is started that would end past the   *)
(* budget, and a check that starts within it may end past it.  Every attempt   *)
(* after the first costs some of the budget, so they come to an end.          *)
ProbeBounded ==
  /\ probe.elapsed < Budget + CheckTimeout
  /\ probe.pc = "checking" => probe.elapsed < Budget /\ probe.attempt <= probe.elapsed
  /\ probe.pc = "sleeping" => probe.elapsed + Delay(probe.attempt - 1) < Budget

=============================================================================
