---------------------------- MODULE MCWorktreeApi ----------------------------
(***************************************************************************)
(* WorktreeApi for TLC: task ids and requests are interchangeable, and all *)
(* the properties of the run are safety properties.  Nothing looks for a   *)
(* draft that was left behind: the run bounds how many targets hold one.   *)
(***************************************************************************)
EXTENDS WorktreeApi, TLC

MaxDrafts == 1
FewDrafts == Cardinality({t \in Task : "tmp" \in disk[t]}) <= MaxDrafts

Symmetry == Permutations(Task) \cup Permutations(Request)
=============================================================================
