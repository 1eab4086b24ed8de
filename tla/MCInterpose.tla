---------------------------- MODULE MCInterpose ----------------------------
(* Small repositories for the wrappers of Interpose.                       *)
EXTENDS Interpose

(* Two commits that differ, the later one in the second after the first.   *)
MCHistories == {<<[f \in Files |-> "v1"], [f \in Files |-> "v2"]>>}
============================================================================
