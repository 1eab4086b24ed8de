------------------------- MODULE GitallPullRequest -------------------------
(***************************************************************************)
(* The pull-request fallback of gitall (fallbackCreatePR): what a call     *)
(* whose push was refused does, one git or gh process after the other, in  *)
(* a network repository where other calls fall back too and where people   *)
(* merge, close and delete what was proposed.  A branch gitall-pr/BASE-N   *)
(* is its number N; base is the one branch of GitallDeliver.               *)
(***************************************************************************)
EXTENDS Naturals, FiniteSetsExt, Functions, TLC

CONSTANT MaxReviews  \* bound: pull requests that people merge or close

ASSUME PullRequestAssumption == MaxReviews \in Nat

VARIABLES
  pulls,    \* number to [commits, open]: the branch, is a pull request open for it?
  falling,  \* call to [stage, number]: the calls that are in the fallback
  reviews   \* pull requests merged or closed during the run

pullVars == <<pulls, falling, reviews>>

NoPulls == pulls = <<>> /\ falling = <<>> /\ reviews = 0

At(c, stage) == c \in DOMAIN falling /\ falling[c].stage = stage

Enters(c, stage, n) ==
  falling' = [d \in DOMAIN falling \cup {c} |->
                IF d = c THEN [stage |-> stage, number |-> n] ELSE falling[d]]

Leaves(c) == falling' = Restrict(falling, DOMAIN falling \ {c})

FallBack(c) == Enters(c, "list", 0) /\ UNCHANGED <<pulls, reviews>>

(* gh pr list, then for each pull request its commit is fetched and looked *)
(* up in the branch: one that was found there is taken, but one that could *)
(* not be fetched is passed over.                                          *)
ListPulls(c, history) ==
  /\ At(c, "list")
  /\ \/ Enters(c, "number", 0)
     \/ \E n \in {k \in DOMAIN pulls : pulls[k].open /\ pulls[k].commits \subseteq history} :
          Enters(c, "update", n)
  /\ UNCHANGED <<pulls, reviews>>

(* git ls-remote: one more than the highest number there is.               *)
NumberBranch(c) ==
  /\ At(c, "number")
  /\ Enters(c, "push", 1 + Max(DOMAIN pulls \cup {0}))
  /\ UNCHANGED <<pulls, reviews>>

(* git push without force: to a new branch, or a fast-forward.             *)
PushTo(n, history) ==
  /\ n \in DOMAIN pulls => pulls[n].commits \subseteq history
  /\ pulls' = [k \in DOMAIN pulls \cup {n} |->
                 IF k # n THEN pulls[k]
                 ELSE [commits |-> history, open |-> n \in DOMAIN pulls /\ pulls[n].open]]
  /\ UNCHANGED reviews

UpdatePull(c, history) ==
  /\ At(c, "update")
  /\ PushTo(falling[c].number, history)
  /\ Leaves(c)

PushBranch(c, history) ==
  /\ At(c, "push")
  /\ PushTo(falling[c].number, history)
  /\ Enters(c, "create", falling[c].number)

(* Mutant: that gh pr create fails is not an error.                        *)
CreateUnchecked(c) == At(c, "create") /\ Leaves(c) /\ UNCHANGED <<pulls, reviews>>

(* gh pr create: there is one pull request for a branch.                   *)
CreatePull(c) ==
  LET n == falling[c].number IN
  /\ At(c, "create")
  /\ n \in DOMAIN pulls /\ ~pulls[n].open
  /\ pulls' = [pulls EXCEPT ![n].open = TRUE]
  /\ Leaves(c)
  /\ UNCHANGED reviews

(* Any of the processes fails, or what it is to do is refused.             *)
GiveUp(c) == c \in DOMAIN falling /\ Leaves(c) /\ UNCHANGED <<pulls, reviews>>

(* A pull request is merged or closed; its branch may be deleted.          *)
Review(n) ==
  /\ reviews < MaxReviews
  /\ pulls[n].open
  /\ reviews' = reviews + 1
  /\ \/ pulls' = [pulls EXCEPT ![n].open = FALSE]
     \/ pulls' = Restrict(pulls, DOMAIN pulls \ {n})
  /\ UNCHANGED falling
=============================================================================
