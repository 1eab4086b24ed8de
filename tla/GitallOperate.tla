--------------------------- MODULE GitallOperate ---------------------------
(***************************************************************************)
(* The recursion and locking protocol of gitall (src/gitall/main.go): main *)
(* starts one goroutine per discovered repository, each running operate;   *)
(* operate takes the repository's mutex, recurses into the local remotes   *)
(* (again one goroutine each, joined by the caller) and, when pushing,     *)
(* takes the mutex of every local remote in turn while it pushes into it.  *)
(*                                                                         *)
(* A call of operate is identified by its path: the sequence of frames     *)
(* from the call main made down to the call itself.  The frames below the  *)
(* last one are the code's "stack" map.  Commit contents are abstracted:   *)
(* git succeeds or fails, and moves the checked-out branch or does not.    *)
(***************************************************************************)
EXTENDS Naturals, Sequences

CONSTANTS
  Repo,       \* resolved paths of the repositories on this machine
  Root,       \* the repositories discovery found
  Network,    \* stands for any remote that is not a local repository
  Remotes,    \* Remotes[r]: what each configured remote of r resolves to
  Action,     \* "push" or "pull", from the command line
  CommitMsg,  \* was -m given?
  Unclean,    \* repositories that may have uncommitted changes at the start
  Conflicted, \* repositories some file of which may hold conflict markers
  Editable,   \* repositories whose user may edit files during the run
  MaxMishaps  \* bound: interruptions of gitall, and forced checkouts that fail

ASSUME OperateAssumption ==
  /\ Root \subseteq Repo
  /\ Network \notin Repo
  /\ Remotes \in [Repo -> Seq(Repo \cup {Network})]
  /\ Action \in {"push", "pull"}
  /\ CommitMsg \in BOOLEAN
  /\ Unclean \subseteq Repo
  /\ Conflicted \subseteq Repo
  /\ Editable \subseteq Repo
  /\ MaxMishaps \in Nat

VARIABLES
  call,       \* the calls of operate made so far, with their local variables
  owner,      \* owner[r]: the call that holds the mutex of r
  dirty,      \* repositories with uncommitted changes
  stale,      \* repositories whose index and files are not those of the branch
              \* checked out, though nobody edited them: git status has changes
  discarded,  \* repositories whose uncommitted changes were thrown away
  failed,     \* calls in which some git operation reported an error
  mishaps     \* interruptions and failed checkouts so far

trees == <<dirty, stale, discarded, mishaps>>
vars == <<call, owner, trees, failed>>

----------------------------------------------------------------------------
(* Calls *)

(* opts.action and opts.skipPullFirst: "pushOnly" is a push that skips the  *)
(* phase-1 pull chain.                                                      *)
Mode == {"pull", "push", "pushOnly"}

Frame == [mode : Mode, repo : Repo, via : Nat]

RepoOf(c) == c[Len(c)].repo
ModeOf(c) == c[Len(c)].mode

(* The stack argument: the repositories on the recursion path above c.     *)
Path(c) == {c[k].repo : k \in 1..(Len(c) - 1)}

(* The indices of the remotes of r that are local repositories.            *)
LocalRemotes(r) == {i \in 1..Len(Remotes[r]) : Remotes[r][i] \in Repo}

Child(c, m, i) ==
  Append(c, [mode |-> m, repo |-> Remotes[RepoOf(c)][i], via |-> i])

Children(c, m) == {Child(c, m, i) : i \in LocalRemotes(RepoOf(c))}

(* The remote the push loop of c has reached.                              *)
Target(c) == Remotes[RepoOf(c)][call[c].at]

None == <<>>

PC == {"enter", "lock", "prep", "pullJoin", "pull", "sync", "lockRemote",
       "push", "checkout", "pushJoin", "done"}

(* The local variables of a call: its program counter, the result so far,  *)
(* what maybeCommit returned, and the index of the push loop.              *)
LocalVars == [pc : PC, ok : BOOLEAN, clean : BOOLEAN, at : Nat \ {0}]

NewCall == [pc |-> "enter", ok |-> TRUE, clean |-> TRUE, at |-> 1]

Live == {c \in DOMAIN call : call[c].pc # "done"}

RootCalls == {<<[mode |-> Action, repo |-> r, via |-> 0]>> : r \in Root}

(* main has collected one result per discovered repository.                *)
Finished == \A c \in RootCalls : call[c].pc = "done"

----------------------------------------------------------------------------
(* The calls main starts, and the mutexes they find.                       *)
FirstCalls == [c \in RootCalls |-> NewCall]
AllFree == [r \in Repo |-> None]

Init ==
  /\ call = FirstCalls
  /\ owner = AllFree
  /\ failed = {}
  /\ dirty \in SUBSET Unclean
  /\ stale = {}
  /\ discarded = {}
  /\ mishaps = 0

Goto(c, label) == call' = [call EXCEPT ![c].pc = label]

(* operateAll: one goroutine per local remote, all with the same options;  *)
(* the caller goes on with the local variables given.                      *)
Fork(c, m, local) ==
  call' = [d \in DOMAIN call \cup Children(c, m) |->
             IF d \in Children(c, m) THEN NewCall
             ELSE IF d = c THEN local
             ELSE call[d]]

(* Mutant: the results of the goroutines are not awaited.                  *)
JoinedAtOnce(c, m) == TRUE

Joined(c, m) == \A d \in Children(c, m) : call[d].pc = "done"
AllOk(c, m) == \A d \in Children(c, m) : call[d].ok

Mishap == mishaps < MaxMishaps /\ mishaps' = mishaps + 1

(* git checkout -f HEAD in r throws away what was not committed; a failure *)
(* is only logged, and leaves behind the repositories that were.           *)
ForceCheckout(r, behind) ==
  \/ /\ dirty' = dirty \ {r}
     /\ discarded' = discarded \cup (dirty \cap {r})
     /\ stale' = behind \ {r}
     /\ UNCHANGED mishaps
  \/ /\ Mishap
     /\ stale' = behind
     /\ UNCHANGED <<dirty, discarded>>

(* maybeCheckoutHead after a sync: only when the checked-out branch moved, *)
(* by a plain update-ref that left index and files where they were.        *)
MaybeCheckout(r, moved) ==
  IF moved THEN ForceCheckout(r, stale \cup {r}) ELSE UNCHANGED trees

Record(c, good) == failed' = IF good THEN failed ELSE failed \cup {c}

----------------------------------------------------------------------------
(* operate *)

(* A repository already on the path is a cycle: report success, take no    *)
(* lock.                                                                   *)
Cycle(c) ==
  /\ call[c].pc = "enter"
  /\ RepoOf(c) \in Path(c)
  /\ Goto(c, "done")
  /\ UNCHANGED <<owner, trees, failed>>

Enter(c) ==
  /\ call[c].pc = "enter"
  /\ RepoOf(c) \notin Path(c)
  /\ Goto(c, "lock")
  /\ UNCHANGED <<owner, trees, failed>>

Lock(c) ==
  /\ call[c].pc = "lock"
  /\ owner[RepoOf(c)] = None
  /\ owner' = [owner EXCEPT ![RepoOf(c)] = c]
  /\ Goto(c, "prep")
  /\ UNCHANGED <<trees, failed>>

Return(c, ok) ==
  /\ call' = [call EXCEPT ![c].pc = "done", ![c].ok = ok]
  /\ owner' = [owner EXCEPT ![RepoOf(c)] = None]

(* restoreConflicted: git checkout REF -- PATH puts the last snapshot      *)
(* without markers of a file in the place of what the working copy held.   *)
(* That makes changes to commit of markers that were committed, and may    *)
(* leave none of changes that were not.                                    *)
Restored(r) == IF r \in Conflicted THEN {dirty \cup {r}, dirty \ {r}} ELSE {dirty}

(* Listing remotes, restoring conflicted files or committing failed.  Some *)
(* files may have been restored.                                           *)
PrepFails(c) ==
  /\ call[c].pc = "prep"
  /\ Return(c, FALSE)
  /\ Record(c, FALSE)
  /\ dirty' \in Restored(RepoOf(c))
  /\ UNCHANGED <<stale, discarded, mishaps>>

(* maybeCommit, in repositories of which edited have changes after the     *)
(* restoring: what git status shows is committed when -m was given, and    *)
(* otherwise only remembered as not clean.                                 *)
MaybeCommit(c, edited) ==
  /\ dirty' = IF CommitMsg THEN edited \ {RepoOf(c)} ELSE edited
  /\ stale' = IF CommitMsg THEN stale \ {RepoOf(c)} ELSE stale
  /\ UNCHANGED <<owner, discarded, failed, mishaps>>

(* Mutant: git status is read before conflicted files are restored.        *)
CleanBefore(c, edited) == CommitMsg \/ RepoOf(c) \notin dirty \cup stale

Clean(c, edited) == CommitMsg \/ RepoOf(c) \notin edited \cup stale

(* Phase 1 of a push, and the recursion of a pull, pull the local remotes. *)
CommitThenFork(c, edited) ==
  /\ call[c].pc = "prep"
  /\ ModeOf(c) # "pushOnly"
  /\ MaybeCommit(c, edited)
  /\ Fork(c, "pull", [call[c] EXCEPT !.pc = "pullJoin", !.clean = Clean(c, edited)])

CommitThenSync(c, edited) ==
  /\ call[c].pc = "prep"
  /\ ModeOf(c) = "pushOnly"
  /\ MaybeCommit(c, edited)
  /\ call' = [call EXCEPT ![c].pc = "sync", ![c].clean = Clean(c, edited)]

PrepThenFork(c) == \E edited \in Restored(RepoOf(c)) : CommitThenFork(c, edited)
PrepThenSync(c) == \E edited \in Restored(RepoOf(c)) : CommitThenSync(c, edited)

JoinPull(c) ==
  /\ call[c].pc = "pullJoin"
  /\ Joined(c, "pull")
  /\ call' = [call EXCEPT ![c].ok = @ /\ AllOk(c, "pull"),
                          ![c].pc = IF ModeOf(c) = "pull" THEN "pull" ELSE "sync"]
  /\ UNCHANGED <<owner, trees, failed>>

(* The loops of pullRepo and syncAndPushRepo skip a dirty repository.      *)
Looping(c, label) ==
  /\ call[c].pc = label
  /\ call[c].clean
  /\ call[c].at <= Len(Remotes[RepoOf(c)])

(* One remote of a clean repository: fetch, track new branches, update     *)
(* every branch, refresh the working tree.  Errors do not end the loop.    *)
SyncWith(c) ==
  /\ \E good, moved \in BOOLEAN :
       /\ MaybeCheckout(RepoOf(c), moved)
       /\ call' = [call EXCEPT ![c].at = @ + 1, ![c].ok = @ /\ good]
       /\ Record(c, good)
  /\ UNCHANGED owner

(* Mutant: a remote whose update fails is tried again at once.             *)
PullRemoteRetries(c) ==
  /\ Looping(c, "pull")
  /\ \E good \in BOOLEAN :
       call' = [call EXCEPT ![c].at = IF good THEN @ + 1 ELSE @, ![c].ok = @ /\ good]
  /\ UNCHANGED <<owner, trees, failed>>

PullRemote(c) == Looping(c, "pull") /\ SyncWith(c)

PullDone(c) ==
  /\ call[c].pc = "pull"
  /\ ~Looping(c, "pull")
  /\ Return(c, call[c].ok)
  /\ UNCHANGED <<trees, failed>>

----------------------------------------------------------------------------
(* syncAndPushRepo *)

Pushing(c) == Looping(c, "sync")

(* Fetch, sync and push against a network remote, without any further lock.*)
SyncNetwork(c) == Pushing(c) /\ Target(c) = Network /\ SyncWith(c)

(* ensurePushable configures the target; then withLock waits for it.       *)
ReachLocal(c) ==
  /\ Pushing(c)
  /\ Target(c) \in Repo
  /\ Goto(c, "lockRemote")
  /\ UNCHANGED <<owner, trees, failed>>

(* Mutant: the push into a local remote does not wait for its mutex.       *)
LockRemoteBusy(c) ==
  /\ call[c].pc = "lockRemote"
  /\ owner' = [owner EXCEPT ![Target(c)] = c]
  /\ Goto(c, "push")
  /\ UNCHANGED <<trees, failed>>

LockRemote(c) ==
  /\ call[c].pc = "lockRemote"
  /\ owner[Target(c)] = None
  /\ owner' = [owner EXCEPT ![Target(c)] = c]
  /\ Goto(c, "push")
  /\ UNCHANGED <<trees, failed>>

(* syncAndPushRemote under the target's mutex, which is then released.     *)
PushRemote(c) ==
  /\ call[c].pc = "push"
  /\ \E good, moved \in BOOLEAN :
       /\ MaybeCheckout(RepoOf(c), moved)
       /\ call' = IF good
                  THEN [call EXCEPT ![c].pc = "checkout"]
                  ELSE [call EXCEPT ![c].pc = "sync", ![c].at = @ + 1, ![c].ok = FALSE]
       /\ Record(c, good)
  /\ owner' = [owner EXCEPT ![Target(c)] = None]

(* checkoutHead(localPath) runs after withLock has returned.               *)
CheckoutRemote(c) ==
  /\ call[c].pc = "checkout"
  /\ ForceCheckout(Target(c), stale)
  /\ call' = [call EXCEPT ![c].pc = "sync", ![c].at = @ + 1]
  /\ UNCHANGED <<owner, failed>>

(* Phase 3: push the local remotes onward.                                 *)
ForkPush(c) ==
  /\ call[c].pc = "sync"
  /\ ~Pushing(c)
  /\ Fork(c, "pushOnly", [call[c] EXCEPT !.pc = "pushJoin"])
  /\ UNCHANGED <<owner, trees, failed>>

(* Mutant: the results of phase 3 are dropped.                             *)
JoinPushForgets(c) ==
  /\ call[c].pc = "pushJoin"
  /\ Joined(c, "pushOnly")
  /\ Return(c, call[c].ok)
  /\ UNCHANGED <<trees, failed>>

JoinPush(c) ==
  /\ call[c].pc = "pushJoin"
  /\ Joined(c, "pushOnly")
  /\ Return(c, call[c].ok /\ AllOk(c, "pushOnly"))
  /\ UNCHANGED <<trees, failed>>

----------------------------------------------------------------------------
(* The repositories whose refs the call may be writing in its present step.*)
RefWrites(c) ==
  CASE call[c].pc \in {"prep", "pull", "sync"} -> {RepoOf(c)}
    [] call[c].pc = "push" -> {RepoOf(c), Target(c)}
    [] OTHER -> {}

(* The user of a working copy edits files at any time.                     *)
Edit(r) ==
  /\ r \in Editable \ dirty
  /\ ~Finished
  /\ dirty' = dirty \cup {r}
  /\ UNCHANGED <<call, owner, stale, discarded, failed, mishaps>>

(* The repositories whose checked-out branch some call is moving.          *)
Moving == UNION {RefWrites(c) : c \in {d \in DOMAIN call : call[d].pc # "prep"}}

(* gitall is interrupted together with its git processes (one process      *)
(* group), perhaps between moving a branch and refreshing the files, and   *)
(* the same command is given again.  Repositories stay as they are; the    *)
(* mutexes and the stacks were only in memory.                             *)
Interrupt ==
  /\ ~Finished
  /\ Mishap
  /\ call' = FirstCalls
  /\ owner' = AllFree
  /\ failed' = {}
  /\ \E cut \in SUBSET Moving : stale' = stale \cup cut
  /\ UNCHANGED <<dirty, discarded>>

Step(c) ==
  \/ Cycle(c) \/ Enter(c) \/ Lock(c)
  \/ PrepFails(c) \/ PrepThenFork(c) \/ PrepThenSync(c)
  \/ JoinPull(c) \/ PullRemote(c) \/ PullDone(c)
  \/ SyncNetwork(c) \/ ReachLocal(c) \/ LockRemote(c)
  \/ PushRemote(c) \/ CheckoutRemote(c)
  \/ ForkPush(c) \/ JoinPush(c)

(* main has returned; nothing else happens.                                *)
Exit == Finished /\ UNCHANGED vars

Next ==
  \/ \E c \in DOMAIN call : Step(c)
  \/ \E r \in Repo : Edit(r)
  \/ Interrupt
  \/ Exit

(* The Go scheduler runs every goroutine that can run, and a sync.Mutex is *)
(* handed to a waiter once it is free, so some call that can step does.    *)
Spec == Init /\ [][Next]_vars /\ WF_vars(\E c \in DOMAIN call : Step(c))

----------------------------------------------------------------------------
TypeOK ==
  /\ DOMAIN call \subseteq Seq(Frame) \ {None}
  /\ call \in [DOMAIN call -> LocalVars]
  /\ \A c \in DOMAIN call :
       call[c].pc \in {"lockRemote", "push", "checkout"} =>
         call[c].at \in LocalRemotes(RepoOf(c))
  /\ owner \in [Repo -> DOMAIN call \cup {None}]
  /\ dirty \in SUBSET Repo
  /\ stale \in SUBSET Repo
  /\ discarded \in SUBSET Repo
  /\ failed \in SUBSET (DOMAIN call)
  /\ mishaps \in 0..MaxMishaps

(* Two calls never write the refs of one repository at the same time: own  *)
(* operations, and pushes from other repositories, exclude one another     *)
(* (repoLocks, operate, syncAndPushRepo).                                  *)
RefsExclusive ==
  \A c, d \in DOMAIN call : c # d => RefWrites(c) \cap RefWrites(d) = {}

(* A call never waits for a mutex that it or a caller above it holds: the  *)
(* stack check and the shape of the recursion make re-entry impossible     *)
(* (operate, syncAndPushRepo).                                             *)
NeverWaitsOnOwnPath ==
  \A c \in DOMAIN call :
    /\ call[c].pc = "lock" => RepoOf(c) \notin Path(c)
    /\ call[c].pc = "lockRemote" => Target(c) \notin Path(c) \cup {RepoOf(c)}

(* Every repository on a live call's path is held by the caller that put   *)
(* it there, until the call has returned: no caller releases its mutex     *)
(* while something it started still runs (operateAll joins).               *)
CallersHoldPath ==
  \A c \in Live : \A k \in 1..(Len(c) - 1) :
    owner[c[k].repo] = SubSeq(c, 1, k)

(* The exit status reports every error, and only errors: an error in any   *)
(* call, however deep, makes the result of some root call false, and       *)
(* skipped dirty repositories do not (operateAll, operatePush, main).      *)
ExitReportsErrors ==
  Finished => ((\E c \in RootCalls : ~call[c].ok) <=> failed # {})

(* No forced checkout throws away what is uncommitted in a repository,     *)
(* unless its user edits during the run: neither what was there when       *)
(* gitall started nor what a restore has just put there (restoreConflicted *)
(* and maybeCommit before the loops, checkoutHead in and after them).      *)
NoWorkDiscarded == discarded \subseteq Editable

(* Without -m a repository with uncommitted changes is left alone: they    *)
(* are all still there after any step of gitall (operateLocked).  Does not *)
(* hold: README, section 4.                                                *)
UncommittedStays == [][~CommitMsg => dirty \subseteq dirty']_vars

(* Every run of gitall ends: main has all its results, no call is left     *)
(* running, and every mutex is free again.                                 *)
Termination == <>(Finished /\ Live = {} /\ \A r \in Repo : owner[r] = None)
=============================================================================
