--------------------------- MODULE MCProjectStore ---------------------------
(* Bounds: three concurrent callers of one project, which may queue behind   *)
(* one another and interleave at every point where a task can be suspended;   *)
(* a change set may name the revision that is stored, one that is past or one *)
(* that is still to come, or none.  With three revisions two change sets can   *)
(* commit one after the other, and one drawn up on a revision can come before, *)
(* between and after them.                                                   *)
EXTENDS ProjectStore
=============================================================================
