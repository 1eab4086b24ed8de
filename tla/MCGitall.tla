------------------------------ MODULE MCGitall ------------------------------
(* Small topologies for GitallOperate alone. *)
EXTENDS GitallOperate, TLC

CONSTANTS a, b, net

Pair == {a, b}

(* Two repositories that are each other's local remote. *)
LoopRemotes == a :> <<b>> @@ b :> <<a>>

(* A working copy and the mirror it is pushed through.                     *)
ChainRemotes == a :> <<b>> @@ b :> <<net>>
=============================================================================
