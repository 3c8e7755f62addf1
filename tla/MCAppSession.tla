---------------------------- MODULE MCAppSession ----------------------------
(* Bounds: one text, since what is sent again is the text sent before; two     *)
(* projects, so that an answer can come for the one left behind; three         *)
(* revisions, so that a message can be late for one change and another can     *)
(* still commit; two things under way at once: two messages, a message and an  *)
(* export, an export and the timer of the last.  The probe makes two attempts. *)
(* A behaviour jumps with the state switcher once, to a state of each effect   *)
(* that resets and loads do not have, with one thing under way at most;        *)
(* AfterJump bounds what follows: revisions stop at two, nothing new starts    *)
(* next to something under way, except next to the timer of a mock reply, and  *)
(* a probe still running goes first.                                         *)
EXTENDS AppSession

TwoDelays == <<1, 4>>

AfterJump ==
  jumps' < MaxJumps =>
    /\ \A p \in Pids : projects'[p].revision <= 2
    /\ Running' <= 1 \/ Running' <= Running \/ mockTimers' = 1
    /\ jumps' < jumps => Running <= 1
    /\ Probing /\ jumps < MaxJumps => probe' # probe

MCSpec == Init /\ [][Next /\ AfterJump]_vars
=============================================================================
