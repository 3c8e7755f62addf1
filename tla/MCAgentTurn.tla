---------------------------- MODULE MCAgentTurn ----------------------------
(* Bounds: two chat requests and another client; three revisions, so that a   *)
(* request can be late for one change or two, or commit between two others;    *)
(* two completions, so that a turn can search and then change, or send a       *)
(* change again whose answer was lost; one read, so that the budget of reads  *)
(* runs out before the steps do.                                             *)
EXTENDS AgentTurn
=============================================================================
