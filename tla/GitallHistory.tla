--------------------------- MODULE GitallHistory ---------------------------
(***************************************************************************)
(* How gitall brings one branch up to date with its remote counterpart     *)
(* (updateBranchFromRemote, src/gitall/main.go).  A branch tip is          *)
(* represented by its history: the set of commits reachable from it, so    *)
(* "a is an ancestor of b" is set inclusion.                               *)
(***************************************************************************)
EXTENDS Naturals

(* -allow-merge: none, local, remote, pr.                                  *)
MergeModes == 0..3

CanMerge(mode, isLocal) == mode >= 2 \/ (isLocal /\ mode >= 1)

FallsBackToPR(mode, isLocal) == mode = 3 /\ ~isLocal

Diverged(ours, theirs) == ~(ours \subseteq theirs) /\ ~(theirs \subseteq ours)

(* A commit carries a change and was created by someone on top of          *)
(* something; only rebasing gives one change a second commit.              *)
Original(change, author) == [change |-> change, by |-> author, onto |-> {}]

(* commit-tree with both tips as parents.                                  *)
Merged(ours, theirs, by) ==
  ours \cup theirs \cup {[change |-> ours \cup theirs, by |-> by, onto |-> {}]}

(* git commit: uncommitted work becomes a commit on top of the branch.     *)
Committed(history, work, by) ==
  history \cup {[change |-> work, by |-> by, onto |-> history]}

(* Mutant: the branch is moved before anything is replayed.                *)
RebasedOnto(ours, theirs, by) == theirs

(* Every commit of theirs..ours is replayed as a new commit onto theirs.   *)
Rebased(ours, theirs, by) ==
  theirs \cup {[change |-> c.change, by |-> by, onto |-> theirs] : c \in ours \ theirs}

Changes(history) == {c.change : c \in history}

(* Mutant: update-ref without the ancestor checks.                         *)
UpdatedBlindly(ours, theirs, allowMerge, rebase, by) == theirs

(* The tip after the update.  Diverged branches stay as they are when      *)
(* neither rebasing nor merging is allowed.                                *)
Updated(ours, theirs, allowMerge, rebase, by) ==
  CASE theirs \subseteq ours -> ours
    [] ours \subseteq theirs -> theirs
    [] Diverged(ours, theirs) /\ rebase -> Rebased(ours, theirs, by)
    [] Diverged(ours, theirs) /\ ~rebase /\ allowMerge -> Merged(ours, theirs, by)
    [] OTHER -> ours
=============================================================================
