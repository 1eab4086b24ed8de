--------------------------- MODULE GitallDeliver ---------------------------
(***************************************************************************)
(* What a gitall run delivers: the recursion and locking protocol of       *)
(* GitallOperate composed with the histories the repositories hold.  One   *)
(* branch stands for every branch (branches are updated and pushed one by  *)
(* one, independently); Network is the one repository behind all network   *)
(* remotes.                                                                *)
(*                                                                         *)
(* Synchronising with a remote reads the remote's tip and the              *)
(* repository's own in one step (Fetch) and writes the new tip with a      *)
(* plain update-ref in a later one: whatever moved the branch in between   *)
(* is overwritten.  A push, by contrast, is checked by the receiving git.  *)
(***************************************************************************)
EXTENDS GitallOperate, GitallHistory, GitallPullRequest

CONSTANTS
  MergeMode,  \* -allow-merge
  Rebase,     \* -rebase
  Start,      \* the histories the run may start from: [Repo \cup {Network} -> ...]
  Work        \* the change of a commit that gitall makes of uncommitted files

Place == Repo \cup {Network}

ASSUME DeliverAssumption ==
  /\ MergeMode \in MergeModes
  /\ Rebase \in BOOLEAN
  /\ \A histories \in Start : histories = [q \in Place |-> histories[q]]

VARIABLES
  tip,       \* tip[r]: the history of the branch in r
  start,     \* tip when gitall started; in the repositories discovered, the
             \* tip their own call set out with, its commit included
  seen,      \* the tips read by calls that have fetched but not yet updated
  proposed   \* history: commits of pull requests when people answered them,
             \* or pushed to one that had been found open

dataVars == <<tip, start, seen, proposed, pullVars>>
allVars == <<vars, dataVars>>

DeliverInit ==
  /\ Init
  /\ tip \in Start
  /\ start = tip
  /\ seen = <<>>
  /\ proposed = {}
  /\ NoPulls

(* The start of operateLocked: with -m, what git status shows is committed.*)
Prepare(c) ==
  LET r == RepoOf(c) IN
  \E edited \in Restored(r) :
  /\ CommitThenFork(c, edited) \/ CommitThenSync(c, edited)
  /\ tip' = IF CommitMsg /\ r \in edited \cup stale
            THEN [tip EXCEPT ![r] = Committed(@, Work, r)]
            ELSE tip
  /\ start' = IF c \in RootCalls THEN [start EXCEPT ![r] = tip'[r]] ELSE start
  /\ UNCHANGED <<seen, proposed, pullVars>>

(* The call is at the point of its loop where it fetches a remote.         *)
Fetching(c) ==
  \/ Looping(c, "pull")
  \/ Pushing(c) /\ Target(c) = Network /\ c \notin DOMAIN falling
  \/ call[c].pc = "push"

(* git fetch, then rev-parse of both tips.  A failed fetch reads nothing.  *)
Fetch(c) ==
  /\ Fetching(c)
  /\ c \notin DOMAIN seen
  /\ \E fetched \in BOOLEAN :
       seen' = [d \in DOMAIN seen \cup {c} |->
                  IF d # c THEN seen[d]
                  ELSE [fetched |-> fetched, ours |-> tip[RepoOf(c)], theirs |-> tip[Target(c)]]]
  /\ UNCHANGED <<vars, tip, start, proposed, pullVars>>

Forget(c) == seen' = Restrict(seen, DOMAIN seen \ {c})

(* A pull may always merge, and rebase if asked to; a push does what       *)
(* -allow-merge says.                                                      *)
MayMerge(c) == call[c].pc = "pull" \/ CanMerge(MergeMode, Target(c) # Network)
MayRebase(c) == call[c].pc = "pull" /\ Rebase

(* What update-ref makes of the branch once the remote has been fetched.   *)
Synced(c) ==
  Updated(seen[c].ours, seen[c].theirs, MayMerge(c), MayRebase(c), RepoOf(c))

(* A merge or a rebase that conflicts is an error and moves nothing.       *)
MayConflict(c) ==
  Diverged(seen[c].ours, seen[c].theirs) /\ (MayMerge(c) \/ MayRebase(c))

(* pullRepo, one remote.                                                   *)
PullData(c) ==
  /\ c \in DOMAIN seen
  /\ PullRemote(c)
  /\ \/ /\ seen[c].fetched
        /\ tip' = [tip EXCEPT ![RepoOf(c)] = Synced(c)]
     \/ /\ ~seen[c].fetched \/ MayConflict(c)
        /\ UNCHANGED tip
        /\ ~call'[c].ok
  /\ Forget(c)
  /\ UNCHANGED <<start, proposed, pullVars>>

(* The receiving repository accepts fast-forwards only.                    *)
Accepts(q, history) == tip[q] \subseteq history

(* syncAndPushRemote for one branch, once it is synced to history: push,   *)
(* or, when that is refused or fails in any other way, report it or fall   *)
(* back to a pull request.                                                 *)
PushData(c, history) ==
  LET r == RepoOf(c)
      q == Target(c)
      fallback == FallsBackToPR(MergeMode, q # Network) IN
  \/ /\ Accepts(q, history)
     /\ SyncNetwork(c) \/ PushRemote(c)
     /\ tip' = [tip EXCEPT ![r] = history, ![q] = history]
     /\ UNCHANGED pullVars
  \/ /\ ~fallback
     /\ SyncNetwork(c) \/ PushRemote(c)
     /\ ~call'[c].ok
     /\ tip' = [tip EXCEPT ![r] = history]
     /\ UNCHANGED pullVars
  \/ /\ fallback
     /\ tip' = [tip EXCEPT ![r] = history]
     /\ FallBack(c)
     /\ UNCHANGED vars

SyncAndPush(c) ==
  /\ c \in DOMAIN seen
  /\ Pushing(c) \/ call[c].pc = "push"
  /\ \/ /\ seen[c].fetched
        /\ PushData(c, Synced(c))
     \/ /\ ~seen[c].fetched         \* only reported as skipped; the push goes on
        /\ PushData(c, seen[c].ours)
     \/ /\ seen[c].fetched /\ MayConflict(c)
        /\ SyncNetwork(c) \/ PushRemote(c)
        /\ ~call'[c].ok
        /\ UNCHANGED <<tip, pullVars>>
  /\ Forget(c)
  /\ UNCHANGED <<start, proposed>>

(* fallbackCreatePR; with its end the call is done with the remote.        *)
Propose(c) ==
  LET history == tip[RepoOf(c)] IN
  /\ \/ /\ ListPulls(c, history) \/ NumberBranch(c) \/ PushBranch(c, history)
        /\ UNCHANGED <<vars, proposed>>
     \/ /\ UpdatePull(c, history)
        /\ SyncNetwork(c)
        /\ proposed' = proposed \cup history
     \/ /\ CreatePull(c)
        /\ SyncNetwork(c)
        /\ UNCHANGED proposed
     \/ /\ GiveUp(c)
        /\ SyncNetwork(c)
        /\ ~call'[c].ok
        /\ UNCHANGED proposed
  /\ UNCHANGED <<tip, start, seen>>

(* Someone merges a pull request into the network's branch, or closes it.  *)
Answer(n) ==
  /\ Review(n)
  /\ \/ UNCHANGED tip
     \/ tip' = [tip EXCEPT ![Network] = Merged(@, pulls[n].commits, Network)]
  /\ proposed' = proposed \cup pulls[n].commits
  /\ UNCHANGED <<vars, start, seen>>

(* Every other step of a call leaves the histories alone.                  *)
ControlStep(c) ==
  /\ \/ Cycle(c) \/ Enter(c) \/ Lock(c)
     \/ PrepFails(c) \/ JoinPull(c) \/ PullDone(c)
     \/ ReachLocal(c) \/ LockRemote(c) \/ CheckoutRemote(c)
     \/ ForkPush(c) \/ JoinPush(c)
  /\ UNCHANGED dataVars

DeliverStep(c) ==
  \/ ControlStep(c) \/ Prepare(c)
  \/ Fetch(c) \/ PullData(c) \/ SyncAndPush(c) \/ Propose(c)

(* An interruption may come between an update-ref and what follows it; and *)
(* it forgets what calls have read and which fallbacks they were in.       *)
Interrupted ==
  /\ Interrupt
  /\ \E cut \in SUBSET {c \in DOMAIN seen : seen[c].fetched} :
       /\ tip' = [q \in Place |->
                    LET moved == {c \in cut : RepoOf(c) = q} IN
                    IF moved = {} THEN tip[q] ELSE Synced(CHOOSE c \in moved : TRUE)]
       /\ stale' \subseteq stale \cup {RepoOf(c) : c \in cut}
                           \cup {Target(c) : c \in {d \in DOMAIN seen : call[d].pc = "push"}}
  /\ seen' = <<>>
  /\ falling' = <<>>
  /\ UNCHANGED <<start, proposed, pulls, reviews>>

DeliverNext ==
  \/ \E c \in DOMAIN call : DeliverStep(c)
  \/ Interrupted
  \/ \E n \in DOMAIN pulls : Answer(n)
  \/ (\E r \in Repo : Edit(r)) /\ UNCHANGED dataVars
  \/ Exit /\ UNCHANGED dataVars

(* As in GitallOperate: some call that can step does.                      *)
DeliverSpec ==
  /\ DeliverInit /\ [][DeliverNext]_allVars
  /\ WF_allVars(\E c \in DOMAIN call : DeliverStep(c))

----------------------------------------------------------------------------
Succeeded == Finished /\ \A c \in RootCalls : call[c].ok

(* gitall without -rebase only spreads commits: no update-ref overwrites   *)
(* what a push from another repository delivered after the tip was read,   *)
(* no push replaces history, and nothing arrives that nobody had, except   *)
(* merges and what -m commits (updateBranchFromRemote, syncAndPushRepo,    *)
(* fallbackCreatePR, maybeCommit).                                         *)
Sync == INSTANCE GitallSync
          WITH history <- tip, Commits <- CommitMsg,
               proposals <- UNION {pulls[n].commits : n \in DOMAIN pulls}

SpreadsHistories == Sync!Spec

(* With -rebase a pull may rewrite a branch, but each change it carried is *)
(* still there, replayed (rebaseUpdateBranch).                             *)
ChangesSurvive ==
  [][\A q \in Place : Changes(tip[q]) \subseteq Changes(tip'[q])]_tip

(* The repositories in which some call found uncommitted changes: it did   *)
(* not synchronise them.                                                   *)
Skipped == {RepoOf(c) : c \in {d \in DOMAIN call : ~call[d].clean}}

(* The local remotes of r through which it is connected to the network.    *)
Mirrors(r) ==
  {q \in Repo \ Skipped : /\ r \notin Skipped
                        /\ \E i \in DOMAIN Remotes[r] : Remotes[r][i] = q
                        /\ \E j \in DOMAIN Remotes[q] : Remotes[q][j] = Network}

Proposed == proposed \cup UNION {pulls[n].commits : n \in {k \in DOMAIN pulls : pulls[k].open}}

(* A successful push has delivered a repository's commits, the one that -m *)
(* made there when its call began among them, to its mirrors and, directly *)
(* or through them, all the way to the network -- to the branch, or to one *)
(* with a pull request that is open, or was until people answered it -- in *)
(* one run, whatever other sources push into the chain, or propose there,  *)
(* at the same time (operateLocked; operatePush, phase 3;                  *)
(* fallbackCreatePR).                                                      *)
PushReachesNetwork ==
  Action = "push" /\ Succeeded =>
    \A r \in Root \ Skipped :
      /\ \A q \in Mirrors(r) : start[r] \subseteq tip[q]
      /\ Mirrors(r) # {} \/ Network \in Range(Remotes[r]) =>
           start[r] \subseteq tip[Network] \cup Proposed

(* A successful pull brings what the network had, perhaps rebased, to the  *)
(* repositories at the far end of the chain (operateLocked: children       *)
(* first, then pull).                                                      *)
PullReachesEnds ==
  Action = "pull" /\ Succeeded =>
    \A r \in Root : Mirrors(r) # {} => Changes(start[Network]) \subseteq Changes(tip[r])
=============================================================================
