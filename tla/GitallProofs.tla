---------------------------- MODULE GitallProofs ----------------------------
(***************************************************************************)
(* Proofs about gitall, for every set of repositories, every assignment of *)
(* remotes, cyclic ones included, and any number of interruptions: types,  *)
(* who holds which mutex, what a pull leaves alone, in which order mutexes *)
(* are taken, what reaches the exit status; then of the histories: that no *)
(* change is lost, that gitall without -rebase does what GitallSync says,  *)
(* and where the commits of a repository are once a push has succeeded;    *)
(* and last that mutexes are given back, that not everybody waits, and     *)
(* that the recursion and its loops come to an end.                        *)
(***************************************************************************)
EXTENDS GitallDeliver, SequenceTheorems, FiniteSetTheorems, WellFoundedInduction, TLAPS

CallId == Seq(Frame) \ {None}

----------------------------------------------------------------------------
(* Lemmas about call identifiers. *)

(* The last frame of a call names one of the repositories; its callers'    *)
(* repositories are repositories too.                                      *)
LEMMA CallType ==
  ASSUME NEW c \in CallId
  PROVE  RepoOf(c) \in Repo /\ ModeOf(c) \in Mode /\ Path(c) \subseteq Repo
<1>1. Len(c) \in 1..Len(c)
  BY DEF CallId, None
<1>2. \A k \in 1..Len(c) : c[k] \in Frame
  BY DEF CallId
<1> QED
  BY <1>1, <1>2 DEF RepoOf, ModeOf, Path, Frame

(* A call forked for local remote i operates on that remote, and its stack *)
(* is the caller's stack with the caller's own repository added.           *)
LEMMA ChildType ==
  ASSUME NEW c \in CallId, NEW md \in Mode, NEW i \in LocalRemotes(RepoOf(c))
  PROVE  /\ Child(c, md, i) \in CallId
         /\ RepoOf(Child(c, md, i)) = Remotes[RepoOf(c)][i]
         /\ Path(Child(c, md, i)) = Path(c) \cup {RepoOf(c)}
         /\ Child(c, md, i) # c
<1> DEFINE f == [mode |-> md, repo |-> Remotes[RepoOf(c)][i], via |-> i]
           d == Append(c, f)
<1>1. RepoOf(c) \in Repo /\ i \in 1..Len(Remotes[RepoOf(c)])
      /\ Remotes[RepoOf(c)][i] \in Repo /\ i \in Nat
  BY CallType, OperateAssumption DEF LocalRemotes
<1>2. f \in Frame
  BY <1>1 DEF Frame
<1>3. c \in Seq(Frame) /\ d \in Seq(Frame) /\ Len(d) = Len(c) + 1 /\ Len(c) \in Nat \ {0}
  BY <1>2 DEF CallId, None
<1>4. d[Len(c) + 1] = f /\ \A k \in 1..Len(c) : d[k] = c[k]
  BY <1>2, <1>3
<1>5. Child(c, md, i) = d
  BY DEF Child
<1> HIDE DEF d
<1>6. RepoOf(d) = Remotes[RepoOf(c)][i]
  BY <1>3, <1>4 DEF RepoOf
<1>7. Path(d) = {d[k].repo : k \in 1..Len(c)}
  BY <1>3 DEF Path
<1>8. Path(d) = {c[k].repo : k \in 1..Len(c)}
  BY <1>4, <1>7
<1>9. 1..Len(c) = (1..(Len(c) - 1)) \cup {Len(c)}
  BY <1>3
<1>10. Path(d) = Path(c) \cup {RepoOf(c)}
  BY <1>8, <1>9 DEF Path, RepoOf
<1>11. d \in CallId
  BY <1>3 DEF CallId, None
<1>12. d # c
  BY <1>3
<1> QED
  BY <1>5, <1>6, <1>10, <1>11, <1>12

----------------------------------------------------------------------------
(* Type correctness. *)

(* Forking adds well-typed calls and keeps the ones there were.            *)
LEMMA ForkType ==
  ASSUME TypeOK, NEW c \in DOMAIN call, NEW md \in Mode, NEW local \in LocalVars,
         local.pc \notin {"lockRemote", "push", "checkout"},
         Fork(c, md, local),
         UNCHANGED owner
  PROVE  /\ DOMAIN call' \subseteq CallId
         /\ call' \in [DOMAIN call' -> LocalVars]
         /\ \A d \in DOMAIN call' :
              call'[d].pc \in {"lockRemote", "push", "checkout"} =>
                call'[d].at \in LocalRemotes(RepoOf(d))
         /\ DOMAIN call \subseteq DOMAIN call'
         /\ owner' \in [Repo -> DOMAIN call' \cup {None}]
<1> DEFINE kids == Children(c, md)
           dom == DOMAIN call \cup kids
<1>1. c \in CallId
  BY DEF TypeOK, CallId
<1>2. kids \subseteq CallId
  BY <1>1, ChildType DEF Children
<1>3. NewCall \in LocalVars /\ NewCall.pc = "enter"
  BY DEF NewCall, LocalVars, PC
<1>4. call' = [d \in dom |-> IF d \in kids THEN NewCall
                             ELSE IF d = c THEN local ELSE call[d]]
  BY DEF Fork
<1> HIDE DEF kids
<1>5. DOMAIN call' = dom
  BY <1>4
<1>6. dom \subseteq CallId
  BY <1>2 DEF TypeOK, CallId
<1>7. \A d \in dom : call'[d] \in LocalVars
  BY <1>3, <1>4 DEF TypeOK
<1>8. call' \in [dom -> LocalVars]
  BY <1>4, <1>7
<1>9. ASSUME NEW d \in dom, call'[d].pc \in {"lockRemote", "push", "checkout"}
      PROVE  call'[d].at \in LocalRemotes(RepoOf(d))
  <2>1. d \notin kids /\ d # c
    BY <1>3, <1>4, <1>9
  <2>2. d \in DOMAIN call /\ call'[d] = call[d]
    BY <1>4, <2>1
  <2> QED
    BY <1>9, <2>2 DEF TypeOK
<1>10. owner' \in [Repo -> dom \cup {None}]
  BY DEF TypeOK
<1> QED
  BY <1>5, <1>6, <1>8, <1>9, <1>10

(* A step that only changes the caller's own local variables.              *)
LEMMA LocalType ==
  ASSUME TypeOK, NEW c \in DOMAIN call, NEW local \in LocalVars,
         call' = [call EXCEPT ![c] = local],
         local.pc \in {"lockRemote", "push", "checkout"} =>
           local.at \in LocalRemotes(RepoOf(c))
  PROVE  /\ DOMAIN call' = DOMAIN call
         /\ DOMAIN call' \subseteq CallId
         /\ call' \in [DOMAIN call' -> LocalVars]
         /\ \A d \in DOMAIN call' :
              call'[d].pc \in {"lockRemote", "push", "checkout"} =>
                call'[d].at \in LocalRemotes(RepoOf(d))
  BY DEF TypeOK, CallId

(* What maybeCommit and checkoutHead may do to the working trees.          *)
Trees == (SUBSET Repo) \X (SUBSET Repo) \X (SUBSET Repo) \X (0..MaxMishaps)

LEMMA RestoredType ==
  ASSUME trees \in Trees, NEW r \in Repo
  PROVE  Restored(r) \subseteq SUBSET Repo
  BY DEF Restored, trees, Trees

LEMMA CommitTrees ==
  ASSUME trees \in Trees, NEW c \in DOMAIN call, NEW edited \in SUBSET Repo,
         MaybeCommit(c, edited)
  PROVE  trees' \in Trees
  BY DEF MaybeCommit, trees, Trees

LEMMA CheckoutTrees ==
  ASSUME trees \in Trees, NEW r \in Repo
  PROVE  /\ ForceCheckout(r, stale) => trees' \in Trees
         /\ \A moved \in BOOLEAN : MaybeCheckout(r, moved) => trees' \in Trees
<1>1. ASSUME NEW behind \in SUBSET Repo, ForceCheckout(r, behind)
      PROVE  trees' \in Trees
  BY <1>1, OperateAssumption DEF ForceCheckout, Mishap, trees, Trees
<1>2. stale \in SUBSET Repo
  BY DEF trees, Trees
<1> QED
  BY <1>1, <1>2 DEF MaybeCheckout

LEMMA TypeStep ==
  ASSUME TypeOK, NEW c \in DOMAIN call, Step(c)
  PROVE  TypeOK'
<1> USE DEF LocalVars, PC, trees, Trees
<1>0. /\ c \in CallId /\ RepoOf(c) \in Repo /\ ModeOf(c) \in Mode
      /\ call[c] \in LocalVars
      /\ owner \in [Repo -> DOMAIN call \cup {None}]
      /\ trees \in Trees
      /\ failed \in SUBSET (DOMAIN call)
  BY CallType DEF TypeOK, CallId, trees, Trees
<1>1. CASE Cycle(c)
  <2>1. call' = [call EXCEPT ![c] = [call[c] EXCEPT !.pc = "done"]]
    BY <1>1, <1>0 DEF Cycle, Goto
  <2> QED
    BY <1>0, <1>1, <2>1, LocalType DEF Cycle, TypeOK, CallId
<1>2. CASE Enter(c)
  <2>1. call' = [call EXCEPT ![c] = [call[c] EXCEPT !.pc = "lock"]]
    BY <1>2, <1>0 DEF Enter, Goto
  <2> QED
    BY <1>0, <1>2, <2>1, LocalType DEF Enter, TypeOK, CallId
<1>3. CASE Lock(c)
  <2>1. call' = [call EXCEPT ![c] = [call[c] EXCEPT !.pc = "prep"]]
    BY <1>3, <1>0 DEF Lock, Goto
  <2> QED
    BY <1>0, <1>3, <2>1, LocalType DEF Lock, TypeOK, CallId
<1>4. ASSUME NEW ok \in BOOLEAN, Return(c, ok),
             NEW good \in BOOLEAN, Record(c, good),
             trees' \in Trees
      PROVE  TypeOK'
  <2>1. call' = [call EXCEPT ![c] = [call[c] EXCEPT !.pc = "done", !.ok = ok]]
    BY <1>4, <1>0 DEF Return
  <2>2. owner' \in [Repo -> DOMAIN call \cup {None}]
    BY <1>4, <1>0 DEF Return
  <2>3. failed' \in SUBSET (DOMAIN call)
    BY <1>4, <1>0 DEF Record
  <2> QED
    BY <1>0, <1>4, <2>1, <2>2, <2>3, LocalType DEF TypeOK, CallId
<1>5. CASE PrepFails(c)
  <2>1. trees' \in Trees
    BY <1>0, <1>5, RestoredType DEF PrepFails
  <2> QED
    BY <1>0, <1>4, <1>5, <2>1 DEF PrepFails
<1>6. CASE PrepThenFork(c)
  <2>0. PICK edited \in Restored(RepoOf(c)) : CommitThenFork(c, edited)
    BY <1>6 DEF PrepThenFork
  <2> DEFINE local == [call[c] EXCEPT !.pc = "pullJoin", !.clean = Clean(c, edited)]
  <2>1. local \in LocalVars /\ local.pc = "pullJoin"
    BY <1>0, OperateAssumption DEF Clean
  <2>2. Fork(c, "pull", local) /\ UNCHANGED <<owner, failed>> /\ trees' \in Trees
    BY <1>0, <2>0, RestoredType, CommitTrees DEF CommitThenFork, MaybeCommit
  <2> HIDE DEF local
  <2> QED
    BY <1>0, <2>1, <2>2, ForkType DEF TypeOK, CallId, Mode
<1>7. CASE PrepThenSync(c)
  <2>0. PICK edited \in Restored(RepoOf(c)) : CommitThenSync(c, edited)
    BY <1>7 DEF PrepThenSync
  <2>1. call' = [call EXCEPT ![c] = [call[c] EXCEPT !.pc = "sync", !.clean = Clean(c, edited)]]
    BY <1>0, <2>0 DEF CommitThenSync
  <2>2. [call[c] EXCEPT !.pc = "sync", !.clean = Clean(c, edited)] \in LocalVars
    BY <1>0, OperateAssumption DEF Clean
  <2>3. UNCHANGED <<owner, failed>> /\ trees' \in Trees
    BY <1>0, <2>0, RestoredType, CommitTrees DEF CommitThenSync, MaybeCommit
  <2> QED
    BY <1>0, <2>1, <2>2, <2>3, LocalType DEF TypeOK, CallId
<1>8. CASE JoinPull(c)
  <2> DEFINE local == [call[c] EXCEPT !.ok = @ /\ AllOk(c, "pull"),
                         !.pc = IF ModeOf(c) = "pull" THEN "pull" ELSE "sync"]
  <2>1. call' = [call EXCEPT ![c] = local]
    BY <1>8, <1>0 DEF JoinPull
  <2>2. local \in LocalVars /\ local.pc \in {"pull", "sync"}
    BY <1>0 DEF AllOk
  <2>3. UNCHANGED <<trees, owner, failed>>
    BY <1>8 DEF JoinPull
  <2> HIDE DEF local
  <2> QED
    BY <1>0, <2>1, <2>2, <2>3, LocalType DEF TypeOK, CallId
<1>9. ASSUME SyncWith(c), call[c].pc \in {"pull", "sync"}
      PROVE  TypeOK'
  <2> PICK good \in BOOLEAN, moved \in BOOLEAN :
        /\ MaybeCheckout(RepoOf(c), moved)
        /\ call' = [call EXCEPT ![c].at = @ + 1, ![c].ok = @ /\ good]
        /\ Record(c, good)
    BY <1>9 DEF SyncWith
  <2> DEFINE local == [call[c] EXCEPT !.at = @ + 1, !.ok = @ /\ good]
  <2>1. call' = [call EXCEPT ![c] = local]
    BY <1>0
  <2>2. local \in LocalVars /\ local.pc = call[c].pc
    BY <1>0
  <2>3. trees' \in Trees
    BY <1>0, CheckoutTrees
  <2>4. failed' \in SUBSET (DOMAIN call) /\ UNCHANGED owner
    BY <1>0, <1>9 DEF Record, SyncWith
  <2>5. local.pc \notin {"lockRemote", "push", "checkout"}
    BY <1>9, <2>2
  <2> HIDE DEF local
  <2> QED
    BY <1>0, <2>1, <2>2, <2>3, <2>4, <2>5, LocalType DEF TypeOK, CallId
<1>10. CASE PullRemote(c) \/ SyncNetwork(c)
  BY <1>9, <1>10 DEF PullRemote, SyncNetwork, Pushing, Looping
<1>17. CASE PullDone(c)
  <2>1. Record(c, TRUE)
    BY <1>17 DEF PullDone, Record
  <2> QED
    BY <1>0, <1>4, <1>17, <2>1 DEF PullDone
<1>11. CASE ReachLocal(c)
  <2>1. call' = [call EXCEPT ![c] = [call[c] EXCEPT !.pc = "lockRemote"]]
    BY <1>11, <1>0 DEF ReachLocal, Goto
  <2>2. call[c].at \in LocalRemotes(RepoOf(c))
    BY <1>0, <1>11, OperateAssumption DEF ReachLocal, Pushing, Looping, Target, LocalRemotes
  <2> QED
    BY <1>0, <1>11, <2>1, <2>2, LocalType DEF ReachLocal, TypeOK, CallId
<1>12. CASE LockRemote(c)
  <2>1. call' = [call EXCEPT ![c] = [call[c] EXCEPT !.pc = "push"]]
    BY <1>12, <1>0 DEF LockRemote, Goto
  <2>2. call[c].at \in LocalRemotes(RepoOf(c))
    BY <1>12 DEF LockRemote, TypeOK
  <2> QED
    BY <1>0, <1>12, <2>1, <2>2, LocalType DEF LockRemote, TypeOK, CallId
<1>13. CASE PushRemote(c)
  <2> PICK good \in BOOLEAN, moved \in BOOLEAN :
        /\ MaybeCheckout(RepoOf(c), moved)
        /\ call' = IF good
                   THEN [call EXCEPT ![c].pc = "checkout"]
                   ELSE [call EXCEPT ![c].pc = "sync", ![c].at = @ + 1, ![c].ok = FALSE]
        /\ Record(c, good)
    BY <1>13 DEF PushRemote
  <2> DEFINE local == IF good
                      THEN [call[c] EXCEPT !.pc = "checkout"]
                      ELSE [call[c] EXCEPT !.pc = "sync", !.at = @ + 1, !.ok = FALSE]
  <2>1. call' = [call EXCEPT ![c] = local]
    BY <1>0
  <2>2. call[c].at \in LocalRemotes(RepoOf(c))
    BY <1>13 DEF PushRemote, TypeOK
  <2>3. local \in LocalVars
        /\ (local.pc \in {"lockRemote", "push", "checkout"} => local.at = call[c].at)
    BY <1>0
  <2>4. trees' \in Trees
    BY <1>0, CheckoutTrees
  <2>5. failed' \in SUBSET (DOMAIN call)
    BY <1>0 DEF Record
  <2>6. owner' \in [Repo -> DOMAIN call \cup {None}]
    BY <1>0, <1>13 DEF PushRemote
  <2>7. local.pc \in {"lockRemote", "push", "checkout"} =>
          local.at \in LocalRemotes(RepoOf(c))
    BY <2>2, <2>3
  <2>8. local \in LocalVars
    BY <2>3
  <2> HIDE DEF local
  <2>9. /\ DOMAIN call' = DOMAIN call
        /\ DOMAIN call' \subseteq CallId
        /\ call' \in [DOMAIN call' -> LocalVars]
        /\ \A d \in DOMAIN call' :
             call'[d].pc \in {"lockRemote", "push", "checkout"} =>
               call'[d].at \in LocalRemotes(RepoOf(d))
    BY ONLY TypeOK, c \in DOMAIN call, <2>1, <2>7, <2>8, LocalType
  <2> QED
    BY <2>4, <2>5, <2>6, <2>9 DEF TypeOK, CallId
<1>14. CASE CheckoutRemote(c)
  <2> DEFINE local == [call[c] EXCEPT !.pc = "sync", !.at = @ + 1]
  <2>1. call' = [call EXCEPT ![c] = local]
    BY <1>0, <1>14 DEF CheckoutRemote
  <2>2. local \in LocalVars /\ local.pc = "sync"
    <3>1. call[c].at + 1 \in Nat \ {0}
      BY <1>0
    <3> QED
      BY <1>0, <3>1
  <2>3. call[c].at \in LocalRemotes(RepoOf(c))
    BY <1>14 DEF CheckoutRemote, TypeOK
  <2>4. Target(c) \in Repo
    BY <2>3 DEF Target, LocalRemotes
  <2>5. trees' \in Trees /\ UNCHANGED <<owner, failed>>
    BY <1>0, <1>14, <2>4, CheckoutTrees DEF CheckoutRemote
  <2> HIDE DEF local
  <2> QED
    BY <1>0, <2>1, <2>2, <2>5, LocalType DEF TypeOK, CallId
<1>15. CASE ForkPush(c)
  <2> DEFINE local == [call[c] EXCEPT !.pc = "pushJoin"]
  <2>1. local \in LocalVars /\ local.pc = "pushJoin"
    BY <1>0
  <2>2. Fork(c, "pushOnly", local) /\ UNCHANGED <<owner, trees, failed>>
    BY <1>15 DEF ForkPush
  <2> HIDE DEF local
  <2> QED
    BY <1>0, <2>1, <2>2, ForkType DEF TypeOK, CallId, Mode
<1>16. CASE JoinPush(c)
  <2>1. (call[c].ok /\ AllOk(c, "pushOnly")) \in BOOLEAN
    BY DEF AllOk
  <2>2. Record(c, TRUE)
    BY <1>16 DEF JoinPush, Record
  <2> QED
    BY <1>0, <1>4, <1>16, <2>1, <2>2 DEF JoinPush
<1> QED
  BY <1>1, <1>2, <1>3, <1>5, <1>6, <1>7, <1>8, <1>10, <1>11, <1>12,
     <1>13, <1>14, <1>15, <1>16, <1>17 DEF Step

(* The calls main starts are well-typed.                                   *)
LEMMA FirstType ==
  /\ FirstCalls \in [RootCalls -> LocalVars]
  /\ RootCalls \subseteq CallId
  /\ \A c \in RootCalls : FirstCalls[c].pc = "enter"
  /\ AllFree \in [Repo -> RootCalls \cup {None}]
<1>1. \A r \in Root : <<[mode |-> Action, repo |-> r, via |-> 0]>> \in CallId
  BY OperateAssumption DEF Frame, Mode, CallId, None
<1>2. RootCalls \subseteq CallId
  BY <1>1 DEF RootCalls
<1>3. NewCall \in LocalVars /\ NewCall.pc = "enter"
  BY DEF NewCall, LocalVars, PC
<1> QED
  BY <1>2, <1>3 DEF FirstCalls, AllFree

LEMMA InitType == Init => TypeOK
  BY FirstType, OperateAssumption DEF Init, TypeOK, CallId

LEMMA InterruptType == TypeOK /\ Interrupt => TypeOK'
<1> SUFFICES ASSUME TypeOK, Interrupt PROVE TypeOK'
  OBVIOUS
<1>1. \A c \in DOMAIN call : call[c].pc # "prep" => RefWrites(c) \subseteq Repo
  <2> SUFFICES ASSUME NEW c \in DOMAIN call, call[c].pc # "prep"
               PROVE  RefWrites(c) \subseteq Repo
    OBVIOUS
  <2>1. RepoOf(c) \in Repo
    BY CallType DEF TypeOK, CallId
  <2>2. call[c].pc = "push" => Target(c) \in Repo
    BY DEF TypeOK, Target, LocalRemotes
  <2> QED
    BY <2>1, <2>2 DEF RefWrites
<1>2. Moving \subseteq Repo
  BY <1>1 DEF Moving
<1>3. stale' \in SUBSET Repo /\ mishaps' \in 0..MaxMishaps
  BY <1>2, OperateAssumption DEF Interrupt, Mishap, TypeOK
<1> QED
  BY <1>3, FirstType DEF Interrupt, TypeOK, CallId

LEMMA TypeNext == TypeOK /\ [Next]_vars => TypeOK'
<1> SUFFICES ASSUME TypeOK, [Next]_vars PROVE TypeOK'
  OBVIOUS
<1>1. CASE \E c \in DOMAIN call : Step(c)
  BY <1>1, TypeStep
<1>2. CASE \E r \in Repo : Edit(r)
  BY <1>2 DEF Edit, TypeOK
<1>3. CASE UNCHANGED vars
  BY <1>3 DEF vars, trees, TypeOK
<1>4. CASE Interrupt
  BY <1>4, InterruptType
<1> QED
  BY <1>1, <1>2, <1>3, <1>4 DEF Next, Exit

(* Type correctness of the recursion protocol: every call identifier is a  *)
(* non-empty path of frames, and a call that waits for, pushes into or     *)
(* checks out a remote has reached a local one.                            *)
THEOREM TypeCorrect == Spec => []TypeOK
  BY InitType, TypeNext, PTL DEF Spec

----------------------------------------------------------------------------
(* Mutual exclusion. *)

Holding == PC \ {"enter", "lock", "done"}

(* The inductive invariant: a call past Lock owns its repository's mutex,  *)
(* and one inside syncAndPushRemote also owns the target's.                *)
HoldsOwn ==
  \A c \in DOMAIN call : call[c].pc \in Holding => owner[RepoOf(c)] = c

HoldsTarget ==
  \A c \in DOMAIN call :
    call[c].pc = "push" => owner[Target(c)] = c /\ Target(c) # RepoOf(c)

MutexInv == TypeOK /\ HoldsOwn /\ HoldsTarget

(* A step of c changes no other call's local variables.                    *)
LEMMA OthersKept ==
  ASSUME NEW c \in DOMAIN call, Step(c),
         NEW d \in DOMAIN call', d # c
  PROVE  call'[d] = NewCall \/ (d \in DOMAIN call /\ call'[d] = call[d])
<1>1. ASSUME NEW md, NEW local, Fork(c, md, local)
      PROVE  call'[d] = NewCall \/ (d \in DOMAIN call /\ call'[d] = call[d])
  BY <1>1 DEF Fork
<1>2. CASE PrepThenFork(c)
  BY <1>1, <1>2 DEF PrepThenFork, CommitThenFork
<1>3. CASE ForkPush(c)
  BY <1>1, <1>3 DEF ForkPush
<1>4. CASE Cycle(c) \/ Enter(c) \/ Lock(c) \/ ReachLocal(c) \/ LockRemote(c)
  BY <1>4 DEF Cycle, Enter, Lock, ReachLocal, LockRemote, Goto
<1>5. CASE PrepFails(c) \/ PullDone(c) \/ JoinPush(c)
  BY <1>5 DEF PrepFails, PullDone, JoinPush, Return
<1>6. CASE PrepThenSync(c) \/ JoinPull(c) \/ PullRemote(c) \/ SyncNetwork(c)
          \/ CheckoutRemote(c)
  BY <1>6 DEF PrepThenSync, CommitThenSync, JoinPull, PullRemote, SyncNetwork, SyncWith, CheckoutRemote
<1>7. CASE PushRemote(c)
  BY <1>7 DEF PushRemote
<1> QED
  BY <1>2, <1>3, <1>4, <1>5, <1>6, <1>7 DEF Step

(* No step of c takes away a mutex that another call owns.                 *)
LEMMA OwnersKept ==
  ASSUME MutexInv, NEW c \in DOMAIN call, Step(c),
         NEW d \in DOMAIN call, d # c,
         NEW r \in Repo, owner[r] = d
  PROVE  owner'[r] = d
<1>1. /\ d # None /\ owner \in [Repo -> DOMAIN call \cup {None}]
      /\ call[c] \in LocalVars
  BY DEF MutexInv, TypeOK
<1>2. ASSUME NEW ok, Return(c, ok), call[c].pc \in Holding
      PROVE  owner'[r] = d
  BY <1>1, <1>2 DEF Return, MutexInv, HoldsOwn
<1>3. CASE Lock(c)
  BY <1>1, <1>3 DEF Lock
<1>4. CASE LockRemote(c)
  BY <1>1, <1>4 DEF LockRemote
<1>5. CASE PushRemote(c)
  BY <1>1, <1>5 DEF PushRemote, MutexInv, HoldsTarget
<1>6. CASE PrepFails(c) \/ PullDone(c) \/ JoinPush(c)
  BY <1>2, <1>6 DEF PrepFails, PullDone, JoinPush, Holding, PC
<1>7. CASE owner' = owner
  BY <1>7
<1> QED
  BY <1>3, <1>4, <1>5, <1>6, <1>7
  DEF Step, Cycle, Enter, PrepThenFork, CommitThenFork, PrepThenSync, CommitThenSync, MaybeCommit, JoinPull,
      PullRemote, SyncNetwork, SyncWith, ReachLocal, CheckoutRemote, ForkPush

(* The step of c leaves c's own part of the invariant true.                *)
LEMMA OwnPart ==
  ASSUME MutexInv, NEW c \in DOMAIN call, Step(c), c \in DOMAIN call'
  PROVE  /\ call'[c].pc \in Holding => owner'[RepoOf(c)] = c
         /\ call'[c].pc = "push" => owner'[Target(c)'] = c /\ Target(c)' # RepoOf(c)
<1> USE DEF Holding, PC
<1>0. /\ c \in CallId /\ c # None /\ RepoOf(c) \in Repo /\ call[c] \in LocalVars
      /\ owner \in [Repo -> DOMAIN call \cup {None}]
      /\ call \in [DOMAIN call -> LocalVars]
      /\ call[c].pc \in Holding => owner[RepoOf(c)] = c
  BY CallType DEF MutexInv, TypeOK, CallId, HoldsOwn
<1>1. CASE Cycle(c)
  <2>1. call'[c].pc = "done"
    BY <1>0, <1>1 DEF Cycle, Goto, LocalVars
  <2> QED
    BY <2>1
<1>2. CASE Enter(c)
  <2>1. call'[c].pc = "lock"
    BY <1>0, <1>2 DEF Enter, Goto, LocalVars
  <2> QED
    BY <2>1
<1>3. CASE Lock(c)
  <2>1. call'[c].pc = "prep"
    BY <1>0, <1>3 DEF Lock, Goto, LocalVars
  <2>2. owner'[RepoOf(c)] = c
    BY <1>0, <1>3 DEF Lock
  <2> QED
    BY <2>1, <2>2
<1>4. CASE PrepFails(c) \/ PullDone(c) \/ JoinPush(c)
  <2>1. PICK ok \in BOOLEAN : call' = [call EXCEPT ![c].pc = "done", ![c].ok = ok]
    BY <1>4, <1>0 DEF PrepFails, PullDone, JoinPush, Return, LocalVars, AllOk
  <2>2. call'[c].pc = "done"
    BY <1>0, <2>1 DEF LocalVars
  <2> QED
    BY <2>2
<1>5. ASSUME owner' = owner, call[c].pc \in Holding, call'[c].pc # "push"
      PROVE  /\ call'[c].pc \in Holding => owner'[RepoOf(c)] = c
             /\ call'[c].pc = "push" => owner'[Target(c)'] = c /\ Target(c)' # RepoOf(c)
  BY <1>0, <1>5
<1>6. ASSUME NEW md \in Mode, NEW local, Fork(c, md, local)
      PROVE  call'[c] = local
  BY <1>0, <1>6, ChildType DEF Fork, Children
<1>7. CASE PrepThenFork(c)
  <2>0. PICK edited \in Restored(RepoOf(c)) : CommitThenFork(c, edited)
    BY <1>7 DEF PrepThenFork
  <2> DEFINE local == [call[c] EXCEPT !.pc = "pullJoin", !.clean = Clean(c, edited)]
  <2>1. Fork(c, "pull", local) /\ "pull" \in Mode
    BY <2>0, <1>7 DEF PrepThenFork, CommitThenFork, Mode
  <2>2. local.pc = "pullJoin"
    BY <1>0 DEF LocalVars
  <2> HIDE DEF local
  <2>3. call'[c].pc = "pullJoin"
    BY <2>1, <2>2, <1>6
  <2> QED
    BY <2>0, <1>5, <1>7, <2>3 DEF PrepThenFork, CommitThenFork, MaybeCommit
<1>8. CASE ForkPush(c)
  <2> DEFINE local == [call[c] EXCEPT !.pc = "pushJoin"]
  <2>1. Fork(c, "pushOnly", local) /\ "pushOnly" \in Mode
    BY <1>8 DEF ForkPush, Mode
  <2>2. local.pc = "pushJoin"
    BY <1>0 DEF LocalVars
  <2> HIDE DEF local
  <2>3. call'[c].pc = "pushJoin"
    BY <2>1, <2>2, <1>6
  <2> QED
    BY <1>5, <1>8, <2>3 DEF ForkPush
<1>9. CASE PrepThenSync(c)
  <2>1. call'[c].pc = "sync"
    BY <1>0, <1>9 DEF PrepThenSync, CommitThenSync, LocalVars
  <2> QED
    BY <1>5, <1>9, <2>1 DEF PrepThenSync, CommitThenSync, MaybeCommit
<1>10. CASE JoinPull(c)
  <2>1. call'[c].pc \in {"pull", "sync"}
    BY <1>0, <1>10 DEF JoinPull, LocalVars
  <2> QED
    BY <1>5, <1>10, <2>1 DEF JoinPull
<1>11. CASE PullRemote(c) \/ SyncNetwork(c)
  <2>1. SyncWith(c) /\ call[c].pc \in {"pull", "sync"}
    BY <1>11 DEF PullRemote, SyncNetwork, Pushing, Looping
  <2>2. call'[c].pc = call[c].pc
    BY <1>0, <2>1 DEF SyncWith, LocalVars
  <2> QED
    BY <1>5, <2>1, <2>2 DEF SyncWith
<1>12. CASE ReachLocal(c)
  <2>1. call'[c].pc = "lockRemote" /\ call[c].pc = "sync"
    BY <1>0, <1>12 DEF ReachLocal, Pushing, Looping, Goto, LocalVars
  <2> QED
    BY <1>5, <1>12, <2>1 DEF ReachLocal
<1>13. CASE LockRemote(c)
  <2>1. call[c].at \in LocalRemotes(RepoOf(c)) /\ Target(c) \in Repo
    BY <1>13 DEF LockRemote, MutexInv, TypeOK, Target, LocalRemotes
  <2>2. call' = [call EXCEPT ![c].pc = "push"]
    BY <1>13 DEF LockRemote, Goto
  <2>3. call'[c].at = call[c].at
    BY <1>0, <2>2 DEF LocalVars
  <2>4. Target(c)' = Target(c)
    BY <2>3 DEF Target
  <2>5. owner[RepoOf(c)] = c /\ owner[Target(c)] = None
    BY <1>0, <1>13 DEF LockRemote
  <2>6. owner' = [owner EXCEPT ![Target(c)] = c]
    BY <1>13 DEF LockRemote
  <2>7. Target(c) # RepoOf(c)
    BY <1>0, <2>5
  <2>8. owner'[RepoOf(c)] = c /\ owner'[Target(c)] = c
    BY <1>0, <2>1, <2>5, <2>6, <2>7
  <2> QED
    BY <2>4, <2>7, <2>8
<1>14. CASE PushRemote(c)
  <2>1. Target(c) # RepoOf(c) /\ owner[RepoOf(c)] = c
    BY <1>0, <1>14 DEF PushRemote, MutexInv, HoldsTarget
  <2>2. owner'[RepoOf(c)] = c
    BY <1>0, <1>14, <2>1 DEF PushRemote
  <2>3. call'[c].pc \in {"checkout", "sync"}
    BY <1>0, <1>14 DEF PushRemote, LocalVars
  <2> QED
    BY <2>2, <2>3
<1>15. CASE CheckoutRemote(c)
  <2>1. call'[c].pc = "sync"
    BY <1>0, <1>15 DEF CheckoutRemote, LocalVars
  <2> QED
    BY <1>5, <1>15, <2>1 DEF CheckoutRemote
<1> QED
  BY <1>1, <1>2, <1>3, <1>4, <1>7, <1>8, <1>9, <1>10, <1>11, <1>12, <1>13,
     <1>14, <1>15 DEF Step

LEMMA MutexStep ==
  ASSUME MutexInv, NEW c \in DOMAIN call, Step(c)
  PROVE  MutexInv'
<1>1. TypeOK'
  BY TypeStep DEF MutexInv
<1>2. ASSUME NEW d \in DOMAIN call'
      PROVE  /\ call'[d].pc \in Holding => owner'[RepoOf(d)] = d
             /\ call'[d].pc = "push" => owner'[Target(d)'] = d /\ Target(d)' # RepoOf(d)
  <2>1. CASE d = c
    BY <1>2, <2>1, OwnPart
  <2>2. CASE d # c /\ call'[d] = NewCall
    BY <2>2 DEF NewCall, Holding
  <2>3. CASE d # c /\ d \in DOMAIN call /\ call'[d] = call[d]
    <3>1. d \in CallId /\ RepoOf(d) \in Repo
      BY <2>3, CallType DEF MutexInv, TypeOK, CallId
    <3>2. call[d].pc \in Holding => owner'[RepoOf(d)] = d
      BY <2>3, <3>1, OwnersKept DEF MutexInv, HoldsOwn
    <3>3. Target(d)' = Target(d)
      BY <2>3 DEF Target
    <3>4. call[d].pc = "push" => Target(d) \in Repo
      BY <2>3 DEF MutexInv, TypeOK, Target, LocalRemotes
    <3>5. call[d].pc = "push" => owner'[Target(d)] = d /\ Target(d) # RepoOf(d)
      BY <2>3, <3>4, OwnersKept DEF MutexInv, HoldsTarget
    <3> QED
      BY <2>3, <3>2, <3>3, <3>5
  <2> QED
    BY <2>1, <2>2, <2>3, OthersKept
<1> QED
  BY <1>1, <1>2 DEF MutexInv, HoldsOwn, HoldsTarget

LEMMA MutexStutter == MutexInv /\ UNCHANGED <<call, owner>> /\ TypeOK' => MutexInv'
<1> SUFFICES ASSUME MutexInv, UNCHANGED <<call, owner>>, TypeOK'
             PROVE  MutexInv'
  OBVIOUS
<1>1. \A c \in DOMAIN call : Target(c)' = Target(c)
  BY DEF Target
<1> QED
  BY <1>1 DEF MutexInv, HoldsOwn, HoldsTarget

LEMMA MutexInit == Init => MutexInv
<1> SUFFICES ASSUME Init, TypeOK PROVE MutexInv
  BY InitType
<1>1. \A c \in DOMAIN call : call[c].pc = "enter"
  BY FirstType DEF Init, FirstCalls
<1> QED
  BY <1>1 DEF MutexInv, HoldsOwn, HoldsTarget, Holding

LEMMA MutexNext == MutexInv /\ [Next]_vars => MutexInv'
<1> SUFFICES ASSUME MutexInv, [Next]_vars PROVE MutexInv'
  OBVIOUS
<1>1. CASE \E c \in DOMAIN call : Step(c)
  BY <1>1, MutexStep
<1>2. CASE UNCHANGED <<call, owner>>
  BY <1>2, MutexStutter, TypeNext DEF MutexInv
<1>3. CASE Interrupt
  <2>1. \A c \in DOMAIN call' : call'[c].pc = "enter"
    BY <1>3, FirstType DEF Interrupt, FirstCalls
  <2> QED
    BY <1>3, <2>1, InterruptType DEF MutexInv, HoldsOwn, HoldsTarget, Holding
<1> QED
  BY <1>1, <1>2, <1>3 DEF Next, Edit, Exit, vars

(* In every reachable state each call past Lock owns its own mutex, and    *)
(* inside syncAndPushRemote the target's as well (withLock).               *)
THEOREM MutexHeld == Spec => []MutexInv
  BY MutexInit, MutexNext, PTL DEF Spec

LEMMA MutexExcludes == MutexInv => RefsExclusive
<1> SUFFICES ASSUME MutexInv,
                    NEW c \in DOMAIN call, NEW d \in DOMAIN call,
                    NEW r \in RefWrites(c) \cap RefWrites(d)
             PROVE  c = d
  BY DEF RefsExclusive
<1>1. \A e \in DOMAIN call : r \in RefWrites(e) => owner[r] = e
  BY DEF MutexInv, HoldsOwn, HoldsTarget, Holding, PC, RefWrites
<1> QED
  BY <1>1

(* Two calls never write the refs of one repository at the same time, in   *)
(* any topology, however many sources share a local remote: the guarantee  *)
(* of docs/gitall.md, "Per-repo concurrency guard", as far as refs go.     *)
THEOREM RefsAreExclusive == Spec => []RefsExclusive
  BY MutexExcludes, MutexHeld, PTL

----------------------------------------------------------------------------
(* Callers hold their mutexes until all they started has returned. *)

(* The first k frames of a call: the call itself, or a caller above it.    *)
Above(c, k) == SubSeq(c, 1, k)

LEMMA AboveType ==
  ASSUME NEW c \in CallId, NEW k \in 1..Len(c)
  PROVE  /\ Above(c, k) \in CallId
         /\ Len(Above(c, k)) = k
         /\ \A i \in 1..k : Above(c, k)[i] = c[i]
         /\ RepoOf(Above(c, k)) = c[k].repo
<1>1. c \in Seq(Frame) /\ Len(c) \in Nat /\ k \in Nat \ {0}
  BY DEF CallId
<1>2. \A i \in 1..k : c[i] \in Frame
  BY <1>1
<1>3. /\ Above(c, k) \in Seq(Frame)
      /\ Len(Above(c, k)) = k
      /\ \A i \in 1..k : Above(c, k)[i] = c[i]
  BY <1>1, <1>2, SubSeqProperties DEF Above
<1>4. Above(c, k) # None
  BY <1>1, <1>3 DEF None
<1> QED
  BY <1>1, <1>3, <1>4 DEF CallId, RepoOf

LEMMA AboveSelf ==
  ASSUME NEW c \in CallId
  PROVE  Above(c, Len(c)) = c
  BY SubSeqFull DEF Above, CallId

LEMMA SameFrames ==
  ASSUME NEW c \in CallId, NEW d \in CallId, Len(c) = Len(d),
         \A i \in 1..Len(c) : c[i] = d[i]
  PROVE  c = d
  BY DEF CallId

(* The frames of a forked call are those of its caller and one more.       *)
LEMMA AboveChild ==
  ASSUME NEW c \in CallId, NEW md \in Mode, NEW d \in Children(c, md)
  PROVE  /\ d \in CallId /\ Len(d) = Len(c) + 1 /\ d[Len(d)].mode = md
         /\ \A i \in 1..Len(c) : d[i] = c[i]
         /\ \A k \in 1..Len(c) : Above(d, k) = Above(c, k)
         /\ Above(d, Len(c)) = c
<1>1. PICK i \in LocalRemotes(RepoOf(c)) : d = Child(c, md, i)
  BY DEF Children
<1>2. d \in CallId
  BY <1>1, ChildType
<1> DEFINE f == [mode |-> md, repo |-> Remotes[RepoOf(c)][i], via |-> i]
<1>3. f \in Frame
  <2>1. RepoOf(c) \in Repo /\ i \in Nat /\ Remotes[RepoOf(c)][i] \in Repo
    BY CallType, OperateAssumption DEF LocalRemotes
  <2> QED
    BY <2>1 DEF Frame
<1>4. f.mode = md
  OBVIOUS
<1>5. d = Append(c, f) /\ c \in Seq(Frame) /\ Len(c) \in Nat
  BY <1>1 DEF Child, CallId
<1> HIDE DEF f
<1>6. Len(d) = Len(c) + 1 /\ d[Len(c) + 1] = f /\ \A j \in 1..Len(c) : d[j] = c[j]
  BY <1>3, <1>5
<1>7. ASSUME NEW k \in 1..Len(c) PROVE Above(d, k) = Above(c, k)
  <2>1. k \in 1..Len(d)
    BY <1>5, <1>6
  <2>2. /\ Above(c, k) \in CallId /\ Len(Above(c, k)) = k
        /\ \A j \in 1..k : Above(c, k)[j] = c[j]
    BY AboveType
  <2>3. /\ Above(d, k) \in CallId /\ Len(Above(d, k)) = k
        /\ \A j \in 1..k : Above(d, k)[j] = d[j]
    BY <1>2, <2>1, AboveType
  <2>4. \A j \in 1..k : d[j] = c[j]
    BY <1>5, <1>6
  <2> HIDE DEF Above
  <2> QED
    BY <2>2, <2>3, <2>4, SameFrames
<1>8. Above(d, Len(c)) = c
  <2>1. Len(c) \in 1..Len(c)
    BY DEF CallId, None
  <2> QED
    BY <2>1, <1>7, AboveSelf
<1> QED
  BY <1>2, <1>4, <1>6, <1>7, <1>8

----------------------------------------------------------------------------
(* Callers wait. *)

(* Where a caller joins the goroutines it started with mode md.            *)
JoinPC(md) == IF md = "pull" THEN "pullJoin" ELSE "pushJoin"

(* Every call was made by the call above it.                               *)
Ancestry ==
  \A c \in DOMAIN call : \A k \in 1..(Len(c) - 1) :
    /\ Above(c, k) \in DOMAIN call
    /\ c[k + 1].mode \in {"pull", "pushOnly"}
    /\ Above(c, k + 1) \in Children(Above(c, k), c[k + 1].mode)

(* As long as a call runs, every caller above it waits in the join for the *)
(* frame that leads to it.                                                 *)
CallersWait ==
  \A c \in Live : \A k \in 1..(Len(c) - 1) :
    call[Above(c, k)].pc = JoinPC(c[k + 1].mode)

CallerInv == TypeOK /\ Ancestry /\ CallersWait

(* What every step of c other than a Fork does to the calls: it changes    *)
(* only c, which is at no join unless all it waits for is done.            *)
LEMMA OwnStep ==
  ASSUME NEW c \in DOMAIN call, Step(c), ~PrepThenFork(c), ~ForkPush(c), TypeOK
  PROVE  /\ DOMAIN call' = DOMAIN call
         /\ \A d \in DOMAIN call : d # c => call'[d] = call[d]
         /\ call[c].pc # "done"
         /\ call[c].pc = "pullJoin" => Joined(c, "pull")
         /\ call[c].pc = "pushJoin" => Joined(c, "pushOnly")
<1>1. CASE Cycle(c) \/ Enter(c) \/ Lock(c) \/ ReachLocal(c) \/ LockRemote(c)
  BY <1>1 DEF Cycle, Enter, Lock, ReachLocal, LockRemote, Goto, TypeOK, Pushing, Looping
<1>2. CASE PrepFails(c) \/ PullDone(c)
  BY <1>2 DEF PrepFails, PullDone, Return, TypeOK
<1>3. CASE JoinPush(c) \/ JoinPull(c)
  BY <1>3 DEF JoinPush, JoinPull, Return, TypeOK
<1>4. CASE PrepThenSync(c) \/ CheckoutRemote(c) \/ PushRemote(c)
  BY <1>4 DEF PrepThenSync, CommitThenSync, CheckoutRemote, PushRemote, TypeOK
<1>5. CASE PullRemote(c) \/ SyncNetwork(c)
  BY <1>5 DEF PullRemote, SyncNetwork, SyncWith, Pushing, Looping, TypeOK
<1> QED
  BY <1>1, <1>2, <1>3, <1>4, <1>5 DEF Step

LEMMA CallerOwnStep ==
  ASSUME CallerInv, NEW c \in DOMAIN call, Step(c), ~PrepThenFork(c), ~ForkPush(c)
  PROVE  Ancestry' /\ CallersWait'
<1>0. /\ DOMAIN call \subseteq CallId
      /\ DOMAIN call' = DOMAIN call
      /\ \A d \in DOMAIN call : d # c => call'[d] = call[d]
      /\ call[c].pc # "done"
      /\ call[c].pc = "pullJoin" => Joined(c, "pull")
      /\ call[c].pc = "pushJoin" => Joined(c, "pushOnly")
  BY OwnStep DEF CallerInv, TypeOK, CallId
<1>1. Ancestry'
  BY <1>0 DEF CallerInv, Ancestry
<1>2. ASSUME NEW d \in DOMAIN call, call[d].pc # "done", NEW k \in 1..(Len(d) - 1)
      PROVE  Above(d, k) # c
  <2> SUFFICES ASSUME Above(d, k) = c PROVE FALSE
    OBVIOUS
  <2> DEFINE md == d[k + 1].mode
             e == Above(d, k + 1)
  <2>1. d \in CallId /\ Len(d) \in Nat /\ k \in Nat
    BY <1>0 DEF CallId
  <2>2. /\ call[c].pc = JoinPC(md) /\ md \in {"pull", "pushOnly"}
        /\ e \in Children(c, md)
    BY <1>2 DEF CallerInv, Ancestry, CallersWait, Live
  <2>3. Joined(c, md)
    BY <1>0, <2>2 DEF JoinPC
  <2>4. call[e].pc = "done"
    BY <2>2, <2>3 DEF Joined
  <2>5. CASE k + 1 = Len(d)
    BY <1>2, <2>1, <2>4, <2>5, AboveSelf
  <2>6. CASE k + 1 # Len(d)
    <3>1. k + 1 \in 1..(Len(d) - 1)
      BY <2>1, <2>6
    <3>2. call[e].pc = JoinPC(d[(k + 1) + 1].mode)
      BY <1>2, <3>1 DEF CallerInv, CallersWait, Live
    <3> QED
      BY <2>4, <3>2 DEF JoinPC
  <2> QED
    BY <2>5, <2>6
<1>3. ASSUME NEW d \in Live', NEW k \in 1..(Len(d) - 1)
      PROVE  call'[Above(d, k)].pc = JoinPC(d[k + 1].mode)
  <2>1. d \in DOMAIN call /\ call[d].pc # "done"
    BY <1>0, <1>3 DEF Live
  <2>2. Above(d, k) \in DOMAIN call /\ Above(d, k) # c
    BY <1>2, <2>1 DEF CallerInv, Ancestry
  <2>3. call'[Above(d, k)] = call[Above(d, k)]
    BY <1>0, <2>2
  <2> QED
    BY <2>1, <2>3 DEF CallerInv, CallersWait, Live
<1> QED
  BY <1>1, <1>3 DEF CallersWait

(* A Fork of c adds calls right below c, which goes to the join for them.  *)
LEMMA CallerFork ==
  ASSUME CallerInv, NEW c \in DOMAIN call, NEW md \in {"pull", "pushOnly"}, NEW local,
         Fork(c, md, local), local.pc = JoinPC(md), call[c].pc \in {"prep", "sync"}
  PROVE  Ancestry' /\ CallersWait'
<1> DEFINE kids == Children(c, md)
<1>0. /\ c \in CallId /\ md \in Mode
      /\ DOMAIN call \subseteq CallId
      /\ c \in Live
  BY DEF CallerInv, TypeOK, CallId, Mode, Live
<1>1. /\ DOMAIN call' = DOMAIN call \cup kids
      /\ \A d \in kids : call'[d] = NewCall
      /\ c \notin kids => call'[c] = local
      /\ \A d \in DOMAIN call : d \notin kids /\ d # c => call'[d] = call[d]
  BY DEF Fork
<1>2. c \notin kids
  BY <1>0, ChildType DEF Children
<1>3. ASSUME NEW d \in kids
      PROVE  /\ Len(d) = Len(c) + 1
             /\ \A k \in 1..Len(c) : d[k] = c[k] /\ Above(d, k) = Above(c, k)
             /\ d[Len(d)].mode = md /\ Above(d, Len(c)) = c /\ Above(d, Len(d)) = d
  BY <1>0, AboveChild, AboveSelf
<1>4. Len(c) \in Nat \ {0}
  BY <1>0 DEF CallId, None
<1>5. Ancestry'
  <2> SUFFICES ASSUME NEW d \in DOMAIN call', NEW k \in 1..(Len(d) - 1)
               PROVE  /\ Above(d, k) \in DOMAIN call'
                      /\ d[k + 1].mode \in {"pull", "pushOnly"}
                      /\ Above(d, k + 1) \in Children(Above(d, k), d[k + 1].mode)
    BY DEF Ancestry
  <2>1. CASE d \in DOMAIN call
    BY <1>1, <2>1 DEF CallerInv, Ancestry
  <2>2. CASE d \in kids /\ k = Len(c)
    BY <1>1, <1>3, <1>4, <2>2
  <2>3. CASE d \in kids /\ k # Len(c)
    <3>1. k \in 1..(Len(c) - 1) /\ k \in 1..Len(c) /\ k + 1 \in 1..Len(c)
      BY <1>3, <1>4, <2>3
    <3>2. /\ Above(d, k) = Above(c, k) /\ Above(d, k + 1) = Above(c, k + 1)
          /\ d[k + 1] = c[k + 1]
      BY <1>3, <2>3, <3>1
    <3> QED
      BY <1>1, <3>1, <3>2 DEF CallerInv, Ancestry
  <2> QED
    BY <1>1, <2>1, <2>2, <2>3
<1>6. ASSUME NEW d \in Live, NEW k \in 1..(Len(d) - 1)
      PROVE  /\ Above(d, k) # c /\ Above(d, k) \notin kids
             /\ call[Above(d, k)].pc = JoinPC(d[k + 1].mode)
             /\ Above(d, k) \in DOMAIN call
  <2>1. /\ Above(d, k) \in DOMAIN call
        /\ call[Above(d, k)].pc = JoinPC(d[k + 1].mode)
    BY <1>6 DEF CallerInv, Ancestry, CallersWait, Live
  <2>2. Above(d, k) # c
    BY <2>1 DEF JoinPC
  <2>3. ASSUME Above(d, k) \in kids PROVE FALSE
    <3>1. d \in CallId /\ k \in 1..Len(d) /\ Len(d) \in Nat
      BY <1>0, <1>6 DEF CallId, Live
    <3>2. Len(Above(d, k)) = k /\ Above(d, k) \in CallId
      BY <3>1, AboveType
    <3>3. k = Len(c) + 1 /\ Above(Above(d, k), Len(c)) = c
      BY <1>3, <2>3, <3>2
    <3>4. Len(c) \in 1..(Len(d) - 1) /\ Len(c) \in 1..k /\ Len(c) \in 1..Len(d)
      BY <1>4, <3>1, <3>3, <1>6
    <3>5. Above(d, Len(c)) = c
      <4>1. /\ Above(d, Len(c)) \in CallId /\ Len(Above(d, Len(c))) = Len(c)
            /\ \A i \in 1..Len(c) : Above(d, Len(c))[i] = d[i]
        BY <3>1, <3>4, AboveType
      <4>2. \A i \in 1..k : Above(d, k)[i] = d[i]
        BY <3>1, AboveType
      <4>3. \A i \in 1..Len(c) : Above(d, k)[i] = c[i]
        BY <2>3, <1>0, AboveChild
      <4>4. \A i \in 1..Len(c) : i \in 1..k
        BY <1>4, <3>3
      <4> QED
        BY <1>0, <4>1, <4>2, <4>3, <4>4, SameFrames
    <3>6. call[c].pc = JoinPC(d[Len(c) + 1].mode)
      BY <1>6, <3>4, <3>5 DEF CallerInv, CallersWait
    <3> QED
      BY <3>6 DEF JoinPC
  <2> QED
    BY <2>1, <2>2, <2>3
<1>7. CallersWait'
  <2> SUFFICES ASSUME NEW d \in Live', NEW k \in 1..(Len(d) - 1)
               PROVE  call'[Above(d, k)].pc = JoinPC(d[k + 1].mode)
    BY DEF CallersWait
  <2>1. ASSUME NEW b \in Live, NEW j \in 1..(Len(b) - 1)
        PROVE  call'[Above(b, j)].pc = JoinPC(b[j + 1].mode)
    BY <1>1, <1>6, <2>1
  <2>2. CASE d \notin kids
    <3>1. d \in Live
      BY <1>0, <1>1, <2>2 DEF Live
    <3> QED
      BY <2>1, <3>1
  <2>3. CASE d \in kids /\ k = Len(c)
    BY <1>1, <1>2, <1>3, <1>4, <2>3
  <2>4. CASE d \in kids /\ k # Len(c)
    <3>1. k \in 1..(Len(c) - 1) /\ k \in 1..Len(c) /\ k + 1 \in 1..Len(c)
      BY <1>3, <1>4, <2>4
    <3>2. Above(d, k) = Above(c, k) /\ d[k + 1] = c[k + 1]
      BY <1>3, <2>4, <3>1
    <3> QED
      BY <1>0, <2>1, <3>1, <3>2
  <2> QED
    BY <2>2, <2>3, <2>4
<1> QED
  BY <1>5, <1>7

(* The calls of main have no caller.                                       *)
LEMMA NoCallers == \A c \in RootCalls : \A k \in 1..(Len(c) - 1) : FALSE
<1>1. \A c \in RootCalls : Len(c) = 1
  BY DEF RootCalls
<1>2. 1..(1 - 1) = {}
  OBVIOUS
<1> QED
  BY <1>1, <1>2

LEMMA CallerInit == Init => CallerInv
  BY InitType, NoCallers DEF Init, CallerInv, Ancestry, CallersWait, FirstCalls, Live

LEMMA CallerNext == CallerInv /\ [Next]_vars => CallerInv'
<1> SUFFICES ASSUME CallerInv, [Next]_vars PROVE Ancestry' /\ CallersWait'
  BY TypeNext DEF CallerInv
<1>1. ASSUME NEW c \in DOMAIN call, Step(c) PROVE Ancestry' /\ CallersWait'
  <2>1. CASE PrepThenFork(c)
    <3>0. PICK edited \in Restored(RepoOf(c)) : CommitThenFork(c, edited)
      BY <2>1 DEF PrepThenFork
    <3> DEFINE local == [call[c] EXCEPT !.pc = "pullJoin", !.clean = Clean(c, edited)]
    <3>1. Fork(c, "pull", local) /\ call[c].pc = "prep"
      BY <3>0, <2>1 DEF PrepThenFork, CommitThenFork
    <3>2. local.pc = JoinPC("pull")
      BY DEF JoinPC, CallerInv, TypeOK, LocalVars
    <3> HIDE DEF local
    <3> QED
      BY <3>1, <3>2, CallerFork
  <2>2. CASE ForkPush(c)
    <3> DEFINE local == [call[c] EXCEPT !.pc = "pushJoin"]
    <3>1. Fork(c, "pushOnly", local) /\ call[c].pc = "sync"
      BY <2>2 DEF ForkPush
    <3>2. local.pc = JoinPC("pushOnly")
      BY DEF JoinPC, CallerInv, TypeOK, LocalVars
    <3> HIDE DEF local
    <3> QED
      BY <3>1, <3>2, CallerFork
  <2> QED
    BY <1>1, <2>1, <2>2, CallerOwnStep
<1>2. CASE Interrupt
  BY <1>2, NoCallers DEF Interrupt, Ancestry, CallersWait, FirstCalls, Live
<1>3. CASE UNCHANGED call
  BY <1>3 DEF CallerInv, Ancestry, CallersWait, Live
<1> QED
  BY <1>1, <1>2, <1>3 DEF Next, Edit, Exit, vars

LEMMA CallersHolds == Spec => []CallerInv
  BY CallerInit, CallerNext, PTL DEF Spec

LEMMA CallersImply == CallerInv /\ MutexInv => CallersHoldPath
<1> SUFFICES ASSUME CallerInv, MutexInv, NEW c \in Live, NEW k \in 1..(Len(c) - 1)
             PROVE  owner[c[k].repo] = Above(c, k)
  BY DEF CallersHoldPath, Above
<1>1. Above(c, k) \in DOMAIN call /\ call[Above(c, k)].pc \in Holding
  BY DEF CallerInv, Ancestry, CallersWait, Live, JoinPC, Holding, PC
<1>2. owner[RepoOf(Above(c, k))] = Above(c, k)
  BY <1>1 DEF MutexInv, HoldsOwn
<1>3. c \in CallId /\ k \in 1..Len(c)
  BY DEF Live, CallerInv, TypeOK, CallId
<1> QED
  BY <1>2, <1>3, AboveType

(* Whatever the topology, and whatever else uses the repositories, every   *)
(* caller above a call that runs still holds its own mutex (operateAll     *)
(* joins before operateLocked returns).                                    *)
THEOREM CallersHold == Spec => []CallersHoldPath
  BY CallersImply, CallersHolds, MutexHeld, PTL

----------------------------------------------------------------------------
(* Errors reach the calls of main. *)

(* The stages in which a call has not yet started its calls of mode md.    *)
Before(md) == IF md = "pull" THEN {"enter", "lock", "prep"} ELSE PC \ {"pushJoin", "done"}

Forked == {"pull", "pushOnly"}

(* A call starts its calls of either mode once, and then waits for them.   *)
Started ==
  \A c \in DOMAIN call, md \in Forked :
    /\ call[c].pc \in Before(md) => Children(c, md) \cap DOMAIN call = {}
    /\ call[c].pc = JoinPC(md) => Children(c, md) \subseteq DOMAIN call

Rooted == RootCalls \subseteq DOMAIN call /\ \A c \in DOMAIN call : Above(c, 1) \in RootCalls

(* An error of c has made the result of c, or of a caller above it, false; *)
(* and above that one, if it is not a call of main, somebody still waits.  *)
Told(c) ==
  \E k \in 1..Len(c) :
    /\ ~call[Above(c, k)].ok
    /\ k = 1 \/ call[Above(c, k - 1)].pc = JoinPC(c[k].mode)

Reported ==
  /\ \A c \in failed : Told(c)
  /\ failed = {} => \A c \in DOMAIN call : call[c].ok

ReportInv == CallerInv /\ Started /\ Rooted /\ Reported

(* How a step of c can leave its result: as it was, false because of an    *)
(* error of its own, or joined with the results it waited for.             *)
Keeps(c) ==
  /\ call[c].pc \notin {"pullJoin", "pushJoin"}
  /\ call'[c].ok = call[c].ok
  /\ failed' = failed

Fails(c) ==
  /\ call[c].pc \notin {"pullJoin", "pushJoin"}
  /\ ~call'[c].ok
  /\ failed' = failed \cup {c}

Joins(c) ==
  \E md \in Forked :
    /\ call[c].pc = JoinPC(md)
    /\ call'[c].ok <=> call[c].ok /\ AllOk(c, md)
    /\ failed' = failed

LEMMA ResultStep ==
  ASSUME NEW c \in DOMAIN call, Step(c), ~PrepThenFork(c), ~ForkPush(c), TypeOK
  PROVE  Keeps(c) \/ Fails(c) \/ Joins(c)
<1>0. call[c] \in LocalVars /\ call \in [DOMAIN call -> LocalVars]
  BY DEF TypeOK
<1> USE DEF LocalVars
<1>1. CASE Cycle(c) \/ Enter(c) \/ Lock(c) \/ ReachLocal(c) \/ LockRemote(c)
  <2>1. call'[c].ok = call[c].ok /\ failed' = failed
    BY <1>0, <1>1 DEF Cycle, Enter, Lock, ReachLocal, LockRemote, Goto
  <2> QED
    BY <1>1, <2>1 DEF Keeps, Cycle, Enter, Lock, ReachLocal, LockRemote, Pushing, Looping
<1>2. CASE PrepThenSync(c) \/ CheckoutRemote(c)
  <2>1. call'[c].ok = call[c].ok /\ failed' = failed
    <3>1. CASE CheckoutRemote(c)
      BY <1>0, <3>1 DEF CheckoutRemote
    <3>2. CASE PrepThenSync(c)
      <4>1. /\ failed' = failed
            /\ \E edited : call' = [call EXCEPT ![c].pc = "sync", ![c].clean = Clean(c, edited)]
        BY <3>2 DEF PrepThenSync, CommitThenSync, MaybeCommit
      <4> QED
        BY <1>0, <4>1
    <3> QED
      BY <1>2, <3>1, <3>2
  <2> QED
    BY <1>2, <2>1 DEF Keeps, PrepThenSync, CommitThenSync, CheckoutRemote
<1>3. CASE PullDone(c)
  <2>1. call'[c].ok = call[c].ok /\ failed' = failed
    BY <1>0, <1>3 DEF PullDone, Return
  <2> QED
    BY <1>3, <2>1 DEF Keeps, PullDone
<1>4. CASE PrepFails(c)
  <2>1. call'[c].ok = FALSE
    BY <1>0, <1>4 DEF PrepFails, Return
  <2> QED
    BY <1>4, <2>1 DEF Fails, PrepFails, Record
<1>5. CASE JoinPull(c)
  <2>1. call'[c].ok = (call[c].ok /\ AllOk(c, "pull"))
    BY <1>0, <1>5 DEF JoinPull
  <2> QED
    BY <1>5, <2>1 DEF Joins, JoinPull, JoinPC, Forked
<1>6. CASE JoinPush(c)
  <2>1. call'[c].ok = (call[c].ok /\ AllOk(c, "pushOnly"))
    BY <1>0, <1>6 DEF JoinPush, Return
  <2> QED
    BY <1>6, <2>1 DEF Joins, JoinPush, JoinPC, Forked
<1>7. CASE PushRemote(c)
  <2> PICK good \in BOOLEAN :
        /\ call' = IF good
                   THEN [call EXCEPT ![c].pc = "checkout"]
                   ELSE [call EXCEPT ![c].pc = "sync", ![c].at = @ + 1, ![c].ok = FALSE]
        /\ Record(c, good)
    BY <1>7 DEF PushRemote
  <2>1. CASE good
    <3>1. call'[c].ok = call[c].ok
      BY <1>0, <2>1
    <3> QED
      BY <1>7, <2>1, <3>1 DEF Keeps, PushRemote, Record
  <2>2. CASE ~good
    <3>1. call'[c].ok = FALSE
      BY <1>0, <2>2
    <3> QED
      BY <1>7, <2>2, <3>1 DEF Fails, PushRemote, Record
  <2> QED
    BY <2>1, <2>2
<1>8. CASE PullRemote(c) \/ SyncNetwork(c)
  <2>1. SyncWith(c) /\ call[c].pc \notin {"pullJoin", "pushJoin"}
    BY <1>8 DEF PullRemote, SyncNetwork, Pushing, Looping
  <2> PICK good \in BOOLEAN :
        /\ call' = [call EXCEPT ![c].at = @ + 1, ![c].ok = @ /\ good]
        /\ Record(c, good)
    BY <2>1 DEF SyncWith
  <2>2. call'[c].ok = (call[c].ok /\ good)
    BY <1>0
  <2>3. CASE good
    <3>1. failed' = failed
      BY <2>3 DEF Record
    <3>2. call[c].ok \in BOOLEAN
      BY <1>0
    <3>3. call'[c].ok = call[c].ok
      BY <2>2, <2>3, <3>2
    <3> QED
      BY <2>1, <3>1, <3>3 DEF Keeps
  <2>4. CASE ~good
    BY <2>1, <2>2, <2>4 DEF Fails, Record
  <2> QED
    BY <2>3, <2>4
<1> QED
  BY <1>1, <1>2, <1>3, <1>4, <1>5, <1>6, <1>7, <1>8 DEF Step

(* What a step of c other than a Fork does to its stage: it is never at a  *)
(* join afterwards, nor back before one it has left.                       *)
LEMMA StageStep ==
  ASSUME NEW c \in DOMAIN call, Step(c), ~PrepThenFork(c), ~ForkPush(c), TypeOK,
         NEW md \in Forked
  PROVE  /\ call'[c].pc \in Before(md) => call[c].pc \in Before(md)
         /\ call'[c].pc # JoinPC(md)
<1>0. call[c] \in LocalVars /\ call \in [DOMAIN call -> LocalVars]
  BY DEF TypeOK
<1> USE DEF LocalVars, PC, Before, Forked, JoinPC
<1>1. CASE Cycle(c) \/ PrepFails(c) \/ PullDone(c) \/ JoinPush(c)
  <2>1. CASE Cycle(c)
    BY <1>0, <2>1 DEF Cycle, Goto
  <2>2. CASE PrepFails(c) \/ PullDone(c) \/ JoinPush(c)
    <3>1. PICK ok \in BOOLEAN : call' = [call EXCEPT ![c].pc = "done", ![c].ok = ok]
      BY <1>0, <2>2 DEF PrepFails, PullDone, JoinPush, Return, AllOk
    <3>2. call'[c].pc = "done"
      BY <1>0, <3>1
    <3> QED
      BY <3>2
  <2> QED
    BY <1>1, <2>1, <2>2
<1>2. CASE Enter(c)
  <2>1. call'[c].pc = "lock" /\ call[c].pc = "enter"
    BY <1>0, <1>2 DEF Enter, Goto
  <2> QED
    BY <2>1
<1>3. CASE Lock(c)
  <2>1. call'[c].pc = "prep" /\ call[c].pc = "lock"
    BY <1>0, <1>3 DEF Lock, Goto
  <2> QED
    BY <2>1
<1>4. CASE PrepThenSync(c) \/ CheckoutRemote(c)
  <2>1. call'[c].pc = "sync" /\ call[c].pc \in {"prep", "checkout"}
    <3>1. CASE PrepThenSync(c)
      BY <1>0, <3>1 DEF PrepThenSync, CommitThenSync
    <3>2. CASE CheckoutRemote(c)
      BY <1>0, <3>2 DEF CheckoutRemote
    <3> QED
      BY <1>4, <3>1, <3>2
  <2> QED
    BY <2>1
<1>5. CASE JoinPull(c)
  <2>1. call'[c].pc \in {"pull", "sync"} /\ call[c].pc = "pullJoin"
    BY <1>0, <1>5 DEF JoinPull
  <2> QED
    BY <2>1
<1>6. CASE PullRemote(c) \/ SyncNetwork(c)
  <2>1. SyncWith(c) /\ call[c].pc \in {"pull", "sync"}
    BY <1>6 DEF PullRemote, SyncNetwork, Pushing, Looping
  <2>2. call'[c].pc = call[c].pc
    BY <1>0, <2>1 DEF SyncWith
  <2> QED
    BY <2>1, <2>2
<1>7. CASE ReachLocal(c)
  <2>1. call'[c].pc = "lockRemote" /\ call[c].pc = "sync"
    BY <1>0, <1>7 DEF ReachLocal, Pushing, Looping, Goto
  <2> QED
    BY <2>1
<1>8. CASE LockRemote(c)
  <2>1. call'[c].pc = "push" /\ call[c].pc = "lockRemote"
    BY <1>0, <1>8 DEF LockRemote, Goto
  <2> QED
    BY <2>1
<1>9. CASE PushRemote(c)
  <2>1. call'[c].pc \in {"checkout", "sync"} /\ call[c].pc = "push"
    BY <1>0, <1>9 DEF PushRemote
  <2> QED
    BY <2>1
<1> QED
  BY <1>1, <1>2, <1>3, <1>4, <1>5, <1>6, <1>7, <1>8, <1>9 DEF Step

(* A call below c in the tree of calls has c above it.                     *)
LEMMA ChildOnly ==
  ASSUME CallerInv, NEW c \in CallId, NEW md \in Mode,
         NEW e \in Children(c, md) \cap DOMAIN call
  PROVE  c \in DOMAIN call
<1>1. /\ e \in CallId /\ Len(e) = Len(c) + 1 /\ Above(e, Len(c)) = c
      /\ Len(c) \in Nat \ {0}
  BY AboveChild DEF CallId, None
<1>2. Len(c) \in 1..(Len(e) - 1)
  BY <1>1
<1> QED
  BY <1>1, <1>2 DEF CallerInv, Ancestry

(* A Fork makes new calls, and only below c.                               *)
LEMMA StartedFork ==
  ASSUME ReportInv, NEW c \in DOMAIN call, NEW md \in Forked, NEW local,
         Fork(c, md, local), local.pc = JoinPC(md), call[c].pc \in Before(md),
         call[c].pc \in {"prep", "sync"}
  PROVE  Started' /\ Rooted' /\ Children(c, md) \cap DOMAIN call = {} /\ c \notin Children(c, md)
<1> DEFINE kids == Children(c, md)
<1>0. /\ CallerInv /\ Started /\ Rooted
      /\ c \in CallId /\ md \in Mode /\ Forked \subseteq Mode
      /\ DOMAIN call \subseteq CallId
      /\ Len(c) \in Nat \ {0}
  BY DEF ReportInv, CallerInv, TypeOK, CallId, Mode, Forked, None
<1>1. /\ DOMAIN call' = DOMAIN call \cup kids
      /\ \A d \in kids : call'[d] = NewCall
      /\ c \notin kids => call'[c] = local
      /\ \A d \in DOMAIN call : d \notin kids /\ d # c => call'[d] = call[d]
  BY DEF Fork
<1>2. c \notin kids
  BY <1>0, ChildType DEF Children
<1>3. kids \cap DOMAIN call = {}
  BY <1>0 DEF Started
<1>4. ASSUME NEW d \in kids
      PROVE  /\ d \in CallId /\ Len(d) = Len(c) + 1 /\ Above(d, Len(c)) = c
             /\ d[Len(d)].mode = md
             /\ \A k \in 1..Len(c) : Above(d, k) = Above(c, k)
  BY <1>0, AboveChild
<1>5. ASSUME NEW d \in CallId, NEW m \in Forked, NEW e \in Children(d, m)
      PROVE  /\ e \in CallId /\ Len(e) = Len(d) + 1 /\ Above(e, Len(d)) = d
             /\ e[Len(e)].mode = m
             /\ Len(d) \in Nat \ {0}
  BY <1>0, AboveChild DEF CallId, None
<1>6. ASSUME NEW d \in CallId, NEW m \in Forked, NEW e \in Children(d, m), e \in kids
      PROVE  d = c /\ m = md
  <2>1. Len(d) = Len(c)
    BY <1>0, <1>4, <1>5, <1>6
  <2> QED
    BY <1>4, <1>5, <1>6, <2>1
<1>7. NewCall.pc = "enter"
  BY DEF NewCall
<1>8. ASSUME NEW d \in DOMAIN call', NEW m \in Forked
      PROVE  /\ call'[d].pc \in Before(m) => Children(d, m) \cap DOMAIN call' = {}
             /\ call'[d].pc = JoinPC(m) => Children(d, m) \subseteq DOMAIN call'
  <2>1. CASE d \in kids
    <3>1. Children(d, m) \cap DOMAIN call = {}
      BY <1>0, <1>3, <1>4, <2>1, ChildOnly
    <3>2. Children(d, m) \cap kids = {}
      BY <1>2, <1>4, <1>6, <2>1
    <3>3. call'[d].pc # JoinPC(m)
      BY <1>1, <1>7, <2>1 DEF JoinPC
    <3> QED
      BY <1>1, <3>1, <3>2, <3>3
  <2>2. CASE d = c
    <3>1. call'[c].pc = JoinPC(md)
      BY <1>1, <1>2
    <3>2. CASE m = md
      BY <1>1, <2>2, <3>1, <3>2 DEF JoinPC, Before
    <3>3. CASE m # md
      <4>1. call'[c].pc # JoinPC(m)
        BY <3>1, <3>3 DEF JoinPC, Forked
      <4>2. call'[c].pc \in Before(m) => call[c].pc \in Before(m)
        BY <3>1, <3>3 DEF JoinPC, Forked, Before, PC
      <4>3. Children(c, m) \cap kids = {}
        BY <1>0, <1>6, <3>3
      <4> QED
        BY <1>0, <1>1, <2>2, <4>1, <4>2, <4>3 DEF Started
    <3> QED
      BY <3>2, <3>3
  <2>3. CASE d \notin kids /\ d # c
    <3>1. d \in DOMAIN call /\ d \in CallId /\ call'[d] = call[d]
      BY <1>0, <1>1, <2>3
    <3>2. Children(d, m) \cap kids = {}
      BY <1>6, <2>3, <3>1
    <3> QED
      BY <1>0, <1>1, <3>1, <3>2 DEF Started
  <2> QED
    BY <2>1, <2>2, <2>3
<1>9. Rooted'
  <2>1. 1 \in 1..Len(c)
    BY <1>0
  <2>2. \A d \in kids : Above(d, 1) = Above(c, 1)
    BY <1>4, <2>1
  <2> QED
    BY <1>0, <1>1, <2>2 DEF Rooted
<1> QED
  BY <1>2, <1>3, <1>8, <1>9 DEF Started

LEMMA ReportFork ==
  ASSUME ReportInv, NEW c \in DOMAIN call, NEW md \in Forked, NEW local,
         Fork(c, md, local), local.pc = JoinPC(md), call[c].pc \in Before(md),
         call[c].pc \in {"prep", "sync"}, local.ok = call[c].ok, failed' = failed
  PROVE  Started' /\ Rooted' /\ Reported'
<1>1. Started' /\ Rooted' /\ Children(c, md) \cap DOMAIN call = {} /\ c \notin Children(c, md)
  BY StartedFork
<1>2. /\ DOMAIN call' = DOMAIN call \cup Children(c, md)
      /\ \A d \in Children(c, md) : call'[d] = NewCall
      /\ call'[c] = local
      /\ \A d \in DOMAIN call : d # c => call'[d] = call[d]
  BY <1>1 DEF Fork
<1>3. ASSUME NEW d \in DOMAIN call PROVE call'[d].ok = call[d].ok
  BY <1>2
<1>4. ASSUME NEW f \in failed PROVE Told(f)'
  <2>1. f \in DOMAIN call /\ f \in CallId /\ Len(f) \in Nat
    BY DEF ReportInv, CallerInv, TypeOK, CallId
  <2>2. PICK k \in 1..Len(f) :
          /\ ~call[Above(f, k)].ok
          /\ k = 1 \/ call[Above(f, k - 1)].pc = JoinPC(f[k].mode)
    BY DEF ReportInv, Reported, Told
  <2>3. Above(f, k) \in DOMAIN call
    BY <2>1, <2>2, AboveSelf DEF ReportInv, CallerInv, Ancestry
  <2>4. ~call'[Above(f, k)].ok
    BY <1>3, <2>2, <2>3
  <2>5. ASSUME k # 1 PROVE call'[Above(f, k - 1)].pc = JoinPC(f[k].mode)
    <3>1. k - 1 \in 1..(Len(f) - 1)
      BY <2>1, <2>5
    <3>2. Above(f, k - 1) \in DOMAIN call
      BY <2>1, <3>1 DEF ReportInv, CallerInv, Ancestry
    <3>3. Above(f, k - 1) # c
      BY <2>2, <2>5 DEF JoinPC
    <3> QED
      BY <1>2, <2>2, <2>5, <3>2, <3>3
  <2> QED
    BY <2>4, <2>5 DEF Told
<1>5. ASSUME failed = {} PROVE \A d \in DOMAIN call' : call'[d].ok
  BY <1>2, <1>3, <1>5 DEF ReportInv, Reported, NewCall
<1> QED
  BY <1>1, <1>4, <1>5 DEF Reported

LEMMA ReportOwnStep ==
  ASSUME ReportInv, NEW c \in DOMAIN call, Step(c), ~PrepThenFork(c), ~ForkPush(c)
  PROVE  Started' /\ Rooted' /\ Reported'
<1>0. /\ TypeOK /\ Ancestry /\ CallersWait /\ Started /\ Rooted
      /\ DOMAIN call \subseteq CallId
      /\ c \in CallId /\ Len(c) \in Nat \ {0} /\ Above(c, Len(c)) = c
      /\ failed \subseteq DOMAIN call
  BY AboveSelf DEF ReportInv, CallerInv, TypeOK, CallId, None
<1>1. /\ DOMAIN call' = DOMAIN call
      /\ \A d \in DOMAIN call : d # c => call'[d] = call[d]
      /\ c \in Live
  BY <1>0, OwnStep DEF Live
<1>2. \A md \in Forked : /\ call'[c].pc \in Before(md) => call[c].pc \in Before(md)
                         /\ call'[c].pc # JoinPC(md)
  BY <1>0, StageStep
<1>3. Started'
  BY <1>0, <1>1, <1>2 DEF Started
<1>4. Rooted'
  BY <1>0, <1>1 DEF Rooted
<1>5. /\ Keeps(c) \/ Fails(c) \/ Joins(c)
      /\ call'[c].ok => call[c].ok
      /\ failed \subseteq failed'
  BY <1>0, ResultStep DEF Keeps, Fails, Joins
(* Above a call that runs, everybody waits, and still does after the step. *)
<1>6. c # Above(c, 1) => call'[Above(c, Len(c) - 1)].pc = JoinPC(c[Len(c)].mode)
  <2> SUFFICES ASSUME c # Above(c, 1)
               PROVE  call'[Above(c, Len(c) - 1)].pc = JoinPC(c[Len(c)].mode)
    OBVIOUS
  <2>1. Len(c) # 1
    BY <1>0
  <2>2. Len(c) - 1 \in 1..(Len(c) - 1) /\ Len(c) - 1 \in 1..Len(c) /\ (Len(c) - 1) + 1 = Len(c)
    BY <1>0, <2>1
  <2>3. Above(c, Len(c) - 1) # c /\ Above(c, Len(c) - 1) \in DOMAIN call
    <3>1. Len(Above(c, Len(c) - 1)) = Len(c) - 1
      BY <1>0, <2>2, AboveType
    <3>2. Len(c) - 1 # Len(c)
      BY <1>0
    <3> QED
      BY <1>0, <2>2, <3>1, <3>2 DEF Ancestry
  <2>4. call[Above(c, Len(c) - 1)].pc = JoinPC(c[(Len(c) - 1) + 1].mode)
    BY <1>0, <1>1, <2>2 DEF CallersWait
  <2> QED
    BY <1>1, <2>2, <2>3, <2>4
<1>7. ~call'[c].ok => Told(c)'
  <2> SUFFICES ASSUME ~call'[c].ok PROVE Told(c)'
    OBVIOUS
  <2>1. Len(c) \in 1..Len(c)
    BY <1>0
  <2>2. Len(c) = 1 \/ call'[Above(c, Len(c) - 1)].pc = JoinPC(c[Len(c)].mode)
    <3>1. 1 \in 1..Len(c)
      BY <1>0
    <3>2. Len(Above(c, 1)) = 1
      BY <1>0, <3>1, AboveType
    <3> QED
      BY <1>6, <3>2
  <2>3. ~call'[Above(c, Len(c))].ok
    BY <1>0
  <2> QED
    BY <2>1, <2>2, <2>3 DEF Told
<1>8. ASSUME NEW f \in failed PROVE Told(f)'
  <2>1. f \in DOMAIN call /\ f \in CallId /\ Len(f) \in Nat
    BY <1>0 DEF CallId
  <2>2. PICK k \in 1..Len(f) :
          /\ ~call[Above(f, k)].ok
          /\ k = 1 \/ call[Above(f, k - 1)].pc = JoinPC(f[k].mode)
    BY DEF ReportInv, Reported, Told
  <2>3. Above(f, k) \in DOMAIN call
    BY <1>0, <2>1, <2>2, AboveSelf DEF Ancestry
  <2>4. ~call'[Above(f, k)].ok
    BY <1>1, <1>5, <2>2, <2>3
  <2>5. CASE k = 1 \/ Above(f, k - 1) # c
    <3>1. ASSUME k # 1 PROVE call'[Above(f, k - 1)].pc = JoinPC(f[k].mode)
      <4>1. k - 1 \in 1..(Len(f) - 1)
        BY <2>1, <3>1
      <4>2. Above(f, k - 1) \in DOMAIN call
        BY <1>0, <2>1, <4>1 DEF Ancestry
      <4> QED
        BY <1>1, <2>2, <2>5, <3>1, <4>2
    <3> QED
      BY <2>4, <3>1 DEF Told
  <2>6. CASE k # 1 /\ Above(f, k - 1) = c
    <3> DEFINE md == f[k].mode
    <3>1. k - 1 \in 1..(Len(f) - 1) /\ k - 1 \in 1..Len(f) /\ (k - 1) + 1 = k
      BY <2>1, <2>6
    <3>2. md \in Forked /\ Above(f, k) \in Children(c, md) /\ call[c].pc = JoinPC(md)
      BY <1>0, <2>1, <2>2, <2>6, <3>1 DEF Ancestry, Forked
    <3>3. ~AllOk(c, md)
      BY <2>2, <3>2 DEF AllOk
    <3>4. Joins(c)
      BY <1>5, <3>2 DEF Keeps, Fails, JoinPC
    <3>5. ~call'[c].ok
      <4>1. PICK m \in Forked :
             /\ call[c].pc = JoinPC(m)
             /\ (call'[c].ok <=> call[c].ok /\ AllOk(c, m))
        BY <3>4 DEF Joins
      <4>2. m = md
        BY <3>2, <4>1 DEF JoinPC, Forked
      <4> QED
        BY <3>3, <4>1, <4>2
    <3>6. Len(c) = k - 1 /\ (\A i \in 1..Len(c) : c[i] = f[i])
      BY <2>1, <2>6, <3>1, AboveType
    <3>7. k - 1 \in 1..Len(f)
      BY <3>1
    <3>8. Above(f, k - 1) = c /\ ~call'[Above(f, k - 1)].ok
      BY <2>6, <3>5
    <3>9. k - 1 = 1 \/ call'[Above(f, (k - 1) - 1)].pc = JoinPC(f[k - 1].mode)
      <4> SUFFICES ASSUME k - 1 # 1
                   PROVE  call'[Above(f, (k - 1) - 1)].pc = JoinPC(f[k - 1].mode)
        OBVIOUS
      <4>1. Len(Above(c, 1)) = 1
        <5>1. 1 \in 1..Len(c)
          BY <1>0
        <5> QED
          BY <1>0, <5>1, AboveType
      <4>2. c # Above(c, 1)
        BY <3>6, <4>1
      <4>3. call'[Above(c, (k - 1) - 1)].pc = JoinPC(c[k - 1].mode)
        BY <1>6, <3>6, <4>2
      <4>4. c[k - 1] = f[k - 1]
        BY <1>0, <3>6
      <4>5. Above(c, (k - 1) - 1) = Above(f, (k - 1) - 1)
        <5>1. (k - 1) - 1 \in 1..Len(c) /\ (k - 1) - 1 \in 1..Len(f)
          BY <1>0, <2>1, <3>1, <3>6
        <5>2. /\ Above(c, (k - 1) - 1) \in CallId
              /\ Len(Above(c, (k - 1) - 1)) = (k - 1) - 1
              /\ \A i \in 1..((k - 1) - 1) : Above(c, (k - 1) - 1)[i] = c[i]
          BY <1>0, <5>1, AboveType
        <5>3. /\ Above(f, (k - 1) - 1) \in CallId
              /\ Len(Above(f, (k - 1) - 1)) = (k - 1) - 1
              /\ \A i \in 1..((k - 1) - 1) : Above(f, (k - 1) - 1)[i] = f[i]
          BY <2>1, <5>1, AboveType
        <5>4. \A i \in 1..((k - 1) - 1) : i \in 1..Len(c)
          BY <3>6, <5>1
        <5> QED
          BY <3>6, <5>2, <5>3, <5>4, SameFrames
      <4> QED
        BY <4>3, <4>4, <4>5
    <3> QED
      BY <3>7, <3>8, <3>9 DEF Told
  <2> QED
    BY <2>5, <2>6
<1>9. \A f \in failed' : Told(f)'
  BY <1>5, <1>7, <1>8 DEF Keeps, Fails, Joins
<1>10. ASSUME failed' = {}
       PROVE  \A d \in DOMAIN call' : call'[d].ok
  <2>1. \A d \in DOMAIN call : call[d].ok
    BY <1>5, <1>10 DEF ReportInv, Reported
  <2>2. Keeps(c) \/ Joins(c)
    BY <1>5, <1>10 DEF Fails
  <2>3. ASSUME Joins(c) PROVE call'[c].ok
    <3>1. PICK m \in Forked : call[c].pc = JoinPC(m) /\ (call'[c].ok <=> call[c].ok /\ AllOk(c, m))
      BY <2>3 DEF Joins
    <3>2. AllOk(c, m)
      BY <1>0, <2>1, <3>1 DEF AllOk, Started
    <3> QED
      BY <2>1, <3>1, <3>2
  <2>4. Keeps(c) => call'[c].ok
    BY <2>1 DEF Keeps
  <2> QED
    BY <1>1, <2>1, <2>2, <2>3, <2>4
<1> QED
  BY <1>3, <1>4, <1>9, <1>10 DEF Reported

(* The calls of main, before they have done anything.                      *)
LEMMA FirstReport ==
  ASSUME NEW c \in RootCalls
  PROVE  /\ c \in CallId /\ Len(c) = 1 /\ Above(c, 1) = c
         /\ \A md \in Forked : Children(c, md) \cap RootCalls = {}
<1>1. c \in CallId /\ Len(c) = 1 /\ RootCalls \subseteq CallId
  BY FirstType DEF RootCalls
<1>2. \A d \in RootCalls : Len(d) = 1
  BY DEF RootCalls
<1>3. Above(c, 1) = c
  BY <1>1, AboveSelf
<1>4. ASSUME NEW md \in Forked, NEW d \in Children(c, md) PROVE Len(d) = 2
  <2>1. md \in Mode
    BY DEF Forked, Mode
  <2>2. Len(d) = Len(c) + 1
    BY <1>1, <2>1, AboveChild
  <2> QED
    BY <1>1, <2>2
<1> QED
  BY <1>1, <1>2, <1>3, <1>4

LEMMA ReportFirst ==
  ASSUME call = FirstCalls, failed = {}
  PROVE  Started /\ Rooted /\ Reported
<1>1. DOMAIN call = RootCalls /\ \A c \in RootCalls : call[c] = NewCall
  BY DEF FirstCalls
<1>2. NewCall.pc = "enter" /\ NewCall.ok
  BY DEF NewCall
<1>3. Started
  BY <1>1, <1>2, FirstReport DEF Started, JoinPC
<1>4. Rooted
  BY <1>1, FirstReport DEF Rooted
<1>5. Reported
  BY <1>1, <1>2 DEF Reported
<1> QED
  BY <1>3, <1>4, <1>5

LEMMA ReportNext == ReportInv /\ [Next]_vars => ReportInv'
<1> SUFFICES ASSUME ReportInv, [Next]_vars PROVE Started' /\ Rooted' /\ Reported'
  BY CallerNext DEF ReportInv
<1>1. ASSUME NEW c \in DOMAIN call, Step(c) PROVE Started' /\ Rooted' /\ Reported'
  <2>0. call[c] \in LocalVars
    BY DEF ReportInv, CallerInv, TypeOK
  <2>1. CASE PrepThenFork(c)
    <3>0. PICK edited \in Restored(RepoOf(c)) : CommitThenFork(c, edited)
      BY <2>1 DEF PrepThenFork
    <3> DEFINE local == [call[c] EXCEPT !.pc = "pullJoin", !.clean = Clean(c, edited)]
    <3>1. Fork(c, "pull", local) /\ call[c].pc = "prep" /\ failed' = failed
      BY <3>0, <2>1 DEF PrepThenFork, CommitThenFork, MaybeCommit
    <3>2. local.pc = JoinPC("pull") /\ local.ok = call[c].ok
      BY <2>0 DEF JoinPC, LocalVars
    <3>3. "pull" \in Forked /\ call[c].pc \in Before("pull")
      BY <3>1 DEF Forked, Before
    <3> HIDE DEF local
    <3> QED
      BY <3>1, <3>2, <3>3, ReportFork
  <2>2. CASE ForkPush(c)
    <3> DEFINE local == [call[c] EXCEPT !.pc = "pushJoin"]
    <3>1. Fork(c, "pushOnly", local) /\ call[c].pc = "sync" /\ failed' = failed
      BY <2>2 DEF ForkPush
    <3>2. local.pc = JoinPC("pushOnly") /\ local.ok = call[c].ok
      BY <2>0 DEF JoinPC, LocalVars
    <3>3. "pushOnly" \in Forked /\ call[c].pc \in Before("pushOnly")
      BY <3>1 DEF Forked, Before, PC
    <3> HIDE DEF local
    <3> QED
      BY <3>1, <3>2, <3>3, ReportFork
  <2> QED
    BY <1>1, <2>1, <2>2, ReportOwnStep
<1>2. CASE Interrupt
  <2>1. /\ DOMAIN call' = RootCalls /\ \A c \in RootCalls : call'[c] = NewCall
        /\ failed' = {} /\ NewCall.pc = "enter" /\ NewCall.ok
    BY <1>2 DEF Interrupt, FirstCalls, NewCall
  <2>2. Started'
    BY <2>1, FirstReport DEF Started, JoinPC
  <2> QED
    BY <2>1, <2>2, FirstReport DEF Rooted, Reported
<1>3. CASE UNCHANGED <<call, failed>>
  <2>1. \A f : Told(f)' <=> Told(f)
    BY <1>3 DEF Told
  <2> QED
    BY <1>3, <2>1 DEF ReportInv, Started, Rooted, Reported
<1> QED
  BY <1>1, <1>2, <1>3 DEF Next, Edit, Exit, vars

(* When main has all its results, one is bad if and only if there was an   *)
(* error.                                                                  *)
LEMMA ReportImplies == ReportInv => ExitReportsErrors
<1> SUFFICES ASSUME ReportInv, Finished
             PROVE  (\E c \in RootCalls : ~call[c].ok) <=> failed # {}
  BY DEF ExitReportsErrors
<1>0. TypeOK /\ CallersWait /\ Ancestry /\ Rooted /\ DOMAIN call \subseteq CallId
  BY DEF ReportInv, CallerInv, TypeOK, CallId
<1>1. ASSUME NEW f \in failed PROVE \E c \in RootCalls : ~call[c].ok
  <2>1. f \in DOMAIN call /\ f \in CallId /\ Len(f) \in Nat \ {0}
    BY <1>0 DEF TypeOK, CallId, None
  <2>2. PICK k \in 1..Len(f) :
          /\ ~call[Above(f, k)].ok
          /\ k = 1 \/ call[Above(f, k - 1)].pc = JoinPC(f[k].mode)
    BY DEF ReportInv, Reported, Told
  <2>3. Above(f, 1) \in RootCalls /\ call[Above(f, 1)].pc = "done"
    BY <1>0, <2>1 DEF Rooted, Finished
  <2>4. CASE k = 1
    BY <2>2, <2>3, <2>4
  <2>5. CASE k # 1
    <3> DEFINE a == Above(f, k - 1)
    <3>1. k - 1 \in 1..(Len(f) - 1) /\ k - 1 \in 1..Len(f)
      BY <2>1, <2>5
    <3>2. a \in Live /\ a \in CallId /\ Len(a) = k - 1 /\ \A i \in 1..(k - 1) : a[i] = f[i]
      BY <1>0, <2>1, <2>2, <2>5, <3>1, AboveType DEF Ancestry, Live, JoinPC
    <3>3. Above(a, 1) = Above(f, 1)
      <4>1. 1 \in 1..Len(a) /\ 1 \in 1..Len(f) /\ 1 \in 1..(k - 1)
        BY <3>1, <3>2
      <4>2. /\ Above(a, 1) \in CallId /\ Len(Above(a, 1)) = 1
            /\ \A i \in 1..1 : Above(a, 1)[i] = a[i]
        BY <3>2, <4>1, AboveType
      <4>3. /\ Above(f, 1) \in CallId /\ Len(Above(f, 1)) = 1
            /\ \A i \in 1..1 : Above(f, 1)[i] = f[i]
        BY <2>1, <4>1, AboveType
      <4>4. \A i \in 1..1 : i \in 1..(k - 1)
        BY <4>1
      <4> QED
        BY <3>2, <4>2, <4>3, <4>4, SameFrames
    <3>4. CASE k - 1 = 1
      BY <2>3, <3>2, <3>4 DEF Live
    <3>5. CASE k - 1 # 1
      <4>1. 1 \in 1..(Len(a) - 1)
        BY <3>1, <3>2, <3>5
      <4>2. call[Above(a, 1)].pc = JoinPC(a[1 + 1].mode)
        BY <1>0, <3>2, <4>1 DEF CallersWait
      <4> QED
        BY <2>3, <3>3, <4>2 DEF JoinPC
    <3> QED
      BY <3>4, <3>5
  <2> QED
    BY <2>4, <2>5
<1>2. failed = {} => \A c \in RootCalls : call[c].ok
  BY <1>0 DEF ReportInv, Reported, Rooted
<1> QED
  BY <1>1, <1>2

(* An error in any call, however deep in the recursion, makes the result   *)
(* of some call of main false, and without an error no result is: whatever *)
(* the remotes and however the goroutines interleave (operateAll joins     *)
(* with and, operatePush and main pass the result on).                     *)
THEOREM ErrorsReported == Spec => []ExitReportsErrors
<1>1. Init => ReportInv
  BY CallerInit, ReportFirst DEF Init, ReportInv
<1> QED
  BY <1>1, ReportImplies, ReportNext, PTL DEF Spec

----------------------------------------------------------------------------
(* What a pull throws away. *)

(* No call of a pull pushes; and a call that found its repository clean    *)
(* finds in it, later, at most what its user has edited since.             *)
Harmless(c) ==
  /\ ModeOf(c) = "pull"
  /\ call[c].pc \in {"enter", "lock", "prep", "pullJoin", "pull", "done"}
  /\ call[c].pc \in {"pullJoin", "pull"} /\ call[c].clean =>
       RepoOf(c) \notin dirty \ Editable

(* Another call may restore files in the same repository and make it dirty *)
(* again, but not between this call's look and its checkouts: that takes   *)
(* the mutex.                                                              *)
PullInv == MutexInv /\ NoWorkDiscarded /\ \A c \in DOMAIN call : Harmless(c)

(* A call that restores files does so in its own repository, where nobody  *)
(* relies on having found it clean.                                        *)
LEMMA PrepAlone ==
  ASSUME PullInv, NEW c \in DOMAIN call, call[c].pc = "prep",
         NEW d \in DOMAIN call, call[d].pc \in {"pullJoin", "pull"}
  PROVE  RepoOf(c) # RepoOf(d)
<1>1. call[c].pc \in Holding /\ call[d].pc \in Holding /\ c # d
  BY DEF Holding, PC
<1> QED
  BY <1>1 DEF PullInv, MutexInv, HoldsOwn

LEMMA RestoredOwn ==
  ASSUME NEW c \in DOMAIN call, NEW edited \in Restored(RepoOf(c))
  PROVE  edited \ {RepoOf(c)} \subseteq dirty
  BY DEF Restored

LEMMA PullFork ==
  ASSUME PullInv, NEW c \in DOMAIN call, PrepThenFork(c)
  PROVE  \A d \in DOMAIN call' : Harmless(d)'
<1>0. /\ c \in CallId /\ DOMAIN call \subseteq CallId
      /\ call \in [DOMAIN call -> LocalVars]
  BY DEF PullInv, MutexInv, TypeOK, CallId
<1> PICK edited \in Restored(RepoOf(c)) : CommitThenFork(c, edited)
  BY DEF PrepThenFork
<1> DEFINE local == [call[c] EXCEPT !.pc = "pullJoin", !.clean = Clean(c, edited)]
<1>1. Fork(c, "pull", local) /\ call[c].pc = "prep"
  BY DEF CommitThenFork
<1>2. local.pc = "pullJoin" /\ local.clean = Clean(c, edited)
  BY <1>0 DEF LocalVars
<1> HIDE DEF local
<1>3. /\ DOMAIN call' = DOMAIN call \cup Children(c, "pull")
      /\ \A d \in DOMAIN call' :
           call'[d] = IF d \in Children(c, "pull") THEN NewCall
                      ELSE IF d = c THEN local ELSE call[d]
  BY <1>1 DEF Fork
<1>4. /\ Clean(c, edited) => RepoOf(c) \notin dirty'
      /\ dirty' \subseteq edited
  BY DEF Clean, CommitThenFork, MaybeCommit
<1>5. ASSUME NEW d \in Children(c, "pull")
      PROVE  ModeOf(d) = "pull"
  BY <1>0, <1>5, AboveChild DEF ModeOf, Mode
<1>6. ASSUME NEW d \in DOMAIN call' PROVE Harmless(d)'
  <2>1. CASE d \in Children(c, "pull")
    BY <1>3, <1>5, <2>1 DEF Harmless, NewCall
  <2>2. CASE d \notin Children(c, "pull") /\ d = c
    BY <1>2, <1>3, <1>4, <2>2 DEF Harmless, PullInv
  <2>3. CASE d \notin Children(c, "pull") /\ d # c
    <3>1. d \in DOMAIN call /\ call'[d] = call[d] /\ Harmless(d)
      BY <1>3, <1>6, <2>3 DEF PullInv
    <3>2. call[d].pc \in {"pullJoin", "pull"} => RepoOf(d) # RepoOf(c)
      BY <1>1, <3>1, PrepAlone
    <3> QED
      BY <1>4, <3>1, <3>2, RestoredOwn DEF Harmless
  <2> QED
    BY <2>1, <2>2, <2>3
<1> QED
  BY <1>6

(* A step of one call leaves what is known of the others true: outside its *)
(* own start, uncommitted work only becomes less.                          *)
LEMMA PullOwnStep ==
  ASSUME PullInv, NEW c \in DOMAIN call,
         DOMAIN call' = DOMAIN call,
         \A d \in DOMAIN call : d # c => call'[d] = call[d],
         dirty' \subseteq dirty \/ (call[c].pc = "prep" /\ dirty' \ {RepoOf(c)} \subseteq dirty),
         Harmless(c)'
  PROVE  \A d \in DOMAIN call' : Harmless(d)'
<1>1. ASSUME NEW d \in DOMAIN call PROVE Harmless(d)'
  <2>1. CASE d = c
    BY <2>1
  <2>2. CASE d # c
    <3>1. call'[d] = call[d] /\ Harmless(d)
      BY <2>2 DEF PullInv
    <3>2. call[d].pc \in {"pullJoin", "pull"} /\ call[c].pc = "prep" => RepoOf(d) # RepoOf(c)
      BY PrepAlone
    <3> QED
      BY <3>1, <3>2 DEF Harmless
  <2> QED
    BY <2>1, <2>2
<1> QED
  BY <1>1

LEMMA PullStep ==
  ASSUME PullInv, NEW c \in DOMAIN call, Step(c)
  PROVE  PullInv'
<1>0. /\ MutexInv' /\ TypeOK /\ TypeOK' /\ Harmless(c) /\ call[c] \in LocalVars
      /\ RepoOf(c) \in Repo /\ discarded \subseteq Editable
      /\ call \in [DOMAIN call -> LocalVars]
  BY MutexStep, CallType DEF PullInv, MutexInv, TypeOK, CallId, NoWorkDiscarded
<1>1. CASE PrepThenFork(c)
  <2>1. discarded' = discarded
    BY <1>1 DEF PrepThenFork, CommitThenFork, MaybeCommit
  <2> QED
    BY <1>0, <1>1, <2>1, PullFork DEF PullInv, NoWorkDiscarded
<1>2. CASE Cycle(c) \/ Enter(c) \/ Lock(c) \/ PrepFails(c) \/ JoinPull(c) \/ PullDone(c)
  <2>1. /\ UNCHANGED discarded
        /\ DOMAIN call' = DOMAIN call
        /\ \A d \in DOMAIN call : d # c => call'[d] = call[d]
    BY <1>2 DEF Cycle, Enter, Lock, PrepFails, JoinPull, PullDone, Goto, Return, trees
  <2>2. JoinPull(c) => Harmless(c)'
    <3> SUFFICES ASSUME JoinPull(c) PROVE Harmless(c)'
      OBVIOUS
    <3>1. /\ call'[c].pc = "pull" /\ call'[c].clean = call[c].clean
          /\ call[c].pc = "pullJoin" /\ dirty' = dirty
      BY <1>0 DEF JoinPull, Harmless, LocalVars, trees
    <3> QED
      BY <1>0, <2>1, <3>1 DEF Harmless, ModeOf, RepoOf
  <2>3. ~JoinPull(c) => Harmless(c)'
    <3> SUFFICES ASSUME ~JoinPull(c) PROVE Harmless(c)'
      OBVIOUS
    <3>1. call'[c].pc \in {"lock", "prep", "done"}
      <4>1. CASE Cycle(c) \/ Enter(c) \/ Lock(c)
        BY <1>0, <4>1 DEF Cycle, Enter, Lock, Goto, LocalVars
      <4>2. CASE PrepFails(c) \/ PullDone(c)
        <5>1. \E ok : call' = [call EXCEPT ![c].pc = "done", ![c].ok = ok]
          BY <4>2 DEF PrepFails, PullDone, Return
        <5> QED
          BY <1>0, <5>1 DEF LocalVars
      <4> QED
        BY <1>2, <4>1, <4>2
    <3> QED
      BY <1>0, <3>1 DEF Harmless, ModeOf, RepoOf
  <2>4. Harmless(c)'
    BY <2>2, <2>3
  <2>5. dirty' \subseteq dirty \/ (call[c].pc = "prep" /\ dirty' \ {RepoOf(c)} \subseteq dirty)
    <3>1. CASE PrepFails(c)
      BY <3>1, RestoredOwn DEF PrepFails
    <3>2. CASE Cycle(c) \/ Enter(c) \/ Lock(c) \/ JoinPull(c) \/ PullDone(c)
      BY <3>2 DEF Cycle, Enter, Lock, JoinPull, PullDone, trees
    <3> QED
      BY <1>2, <3>1, <3>2
  <2> QED
    BY <1>0, <2>1, <2>4, <2>5, PullOwnStep DEF PullInv, NoWorkDiscarded
<1>3. CASE PullRemote(c)
  <2>1. RepoOf(c) \notin dirty \ Editable
    BY <1>0, <1>3 DEF PullRemote, Looping, Harmless
  <2>2. PICK good \in BOOLEAN, moved \in BOOLEAN :
          /\ MaybeCheckout(RepoOf(c), moved)
          /\ call' = [call EXCEPT ![c].at = @ + 1, ![c].ok = @ /\ good]
    BY <1>3 DEF PullRemote, SyncWith
  <2>3. dirty' \subseteq dirty /\ discarded' \subseteq Editable
    BY <1>0, <2>1, <2>2 DEF MaybeCheckout, ForceCheckout, trees
  <2>4. /\ DOMAIN call' = DOMAIN call
        /\ \A d \in DOMAIN call : d # c => call'[d] = call[d]
        /\ call'[c].pc = call[c].pc
    BY <1>0, <2>2 DEF LocalVars, TypeOK
  <2>5. Harmless(c)'
    BY <1>0, <2>1, <2>3, <2>4 DEF Harmless
  <2> QED
    BY <1>0, <2>3, <2>4, <2>5, PullOwnStep DEF PullInv, NoWorkDiscarded
<1>4. CASE \/ PrepThenSync(c) \/ SyncNetwork(c) \/ ReachLocal(c) \/ LockRemote(c)
           \/ PushRemote(c) \/ CheckoutRemote(c) \/ ForkPush(c) \/ JoinPush(c)
  BY <1>0, <1>4
  DEF PrepThenSync, CommitThenSync, SyncNetwork, ReachLocal, LockRemote, PushRemote, CheckoutRemote,
      ForkPush, JoinPush, Pushing, Looping, Harmless
<1> QED
  BY <1>1, <1>2, <1>3, <1>4 DEF Step

(* The calls main starts in a pull are harmless.                           *)
LEMMA FirstHarmless ==
  ASSUME Action = "pull"
  PROVE  \A c \in RootCalls : ModeOf(c) = "pull" /\ FirstCalls[c].pc = "enter"
<1> SUFFICES ASSUME NEW r \in Root
             PROVE  LET c == <<[mode |-> Action, repo |-> r, via |-> 0]>>
                    IN  c[Len(c)].mode = "pull" /\ NewCall.pc = "enter"
  BY DEF RootCalls, FirstCalls, ModeOf
<1> DEFINE c == <<[mode |-> Action, repo |-> r, via |-> 0]>>
<1>1. Len(c) = 1 /\ c[1] = [mode |-> Action, repo |-> r, via |-> 0]
  OBVIOUS
<1> QED
  BY <1>1 DEF NewCall

LEMMA PullInit == Action = "pull" /\ Init => PullInv
<1> SUFFICES ASSUME Action = "pull", Init PROVE PullInv
  OBVIOUS
<1>1. \A c \in DOMAIN call : Harmless(c)
  BY FirstHarmless DEF Init, FirstCalls, Harmless
<1> QED
  BY <1>1, MutexInit DEF Init, PullInv, NoWorkDiscarded

LEMMA PullNext == Action = "pull" /\ PullInv /\ [Next]_vars => PullInv'
<1> SUFFICES ASSUME Action = "pull", PullInv, [Next]_vars PROVE PullInv'
  OBVIOUS
<1>1. MutexInv'
  BY MutexNext DEF PullInv
<1>2. CASE \E c \in DOMAIN call : Step(c)
  BY <1>2, PullStep
<1>3. CASE \E r \in Repo : Edit(r)
  BY <1>1, <1>3 DEF Edit, PullInv, NoWorkDiscarded, Harmless
<1>4. CASE Interrupt
  <2>1. /\ \A c \in DOMAIN call' : ModeOf(c) = "pull" /\ call'[c].pc = "enter"
        /\ discarded' = discarded
    BY <1>4, FirstHarmless DEF Interrupt, FirstCalls
  <2>2. \A c \in DOMAIN call' : Harmless(c)'
    BY <2>1 DEF Harmless, ModeOf
  <2> QED
    BY <1>1, <2>1, <2>2 DEF PullInv, NoWorkDiscarded
<1>5. CASE UNCHANGED vars
  BY <1>1, <1>5 DEF vars, trees, PullInv, NoWorkDiscarded, Harmless
<1> QED
  BY <1>2, <1>3, <1>4, <1>5 DEF Next, Exit

(* No forced checkout of a pull throws away what is uncommitted, or has    *)
(* just been restored, in a repository that is not edited meanwhile, for   *)
(* every topology and however often the pull is interrupted                *)
(* (restoreConflicted, maybeCommit, pullRepo, checkoutHead).               *)
THEOREM PullDiscardsNothing == Action = "pull" => (Spec => []NoWorkDiscarded)
<1> SUFFICES ASSUME Action = "pull" PROVE Spec => []NoWorkDiscarded
  OBVIOUS
<1>1. Init => PullInv
  BY PullInit
<1>2. PullInv /\ [Next]_vars => PullInv'
  BY PullNext
<1>3. PullInv => NoWorkDiscarded
  BY DEF PullInv
<1> QED
  BY <1>1, <1>2, <1>3, PTL DEF Spec

----------------------------------------------------------------------------
(* The order in which mutexes are taken *)

(* The local remotes can be ranked: every one lies strictly below the      *)
(* repository that names it, as in the chains of docs/gitall.md            *)
(* (work -> mirror -> github.com).  Such topologies are the acyclic ones.  *)
Ranked(Rank) ==
  /\ Rank \in [Repo -> Nat]
  /\ \A r \in Repo : \A i \in LocalRemotes(r) : Rank[Remotes[r][i]] < Rank[r]

Below(Rank, r, held) == \A h \in held : Rank[r] < Rank[h]

(* A call waits only for a mutex below all those held by itself and by the *)
(* callers above it, so waits never form a cycle.                          *)
LockOrder(Rank) ==
  \A c \in DOMAIN call :
    /\ call[c].pc = "lock" => Below(Rank, RepoOf(c), Path(c))
    /\ call[c].pc = "lockRemote" => Below(Rank, Target(c), Path(c) \cup {RepoOf(c)})

(* Every call operates strictly below the repositories on its path.        *)
Descending(Rank) == \A c \in DOMAIN call : Below(Rank, RepoOf(c), Path(c))

OrderInv(Rank) == TypeOK /\ Ranked(Rank) /\ Descending(Rank)

LEMMA ForkDescends ==
  ASSUME NEW Rank, OrderInv(Rank), NEW c \in DOMAIN call, NEW md \in Mode, NEW d \in Children(c, md)
  PROVE  Below(Rank, RepoOf(d), Path(d))
<1>1. c \in CallId /\ Below(Rank, RepoOf(c), Path(c))
  BY DEF OrderInv, Descending, TypeOK, CallId
<1>2. PICK i \in LocalRemotes(RepoOf(c)) : d = Child(c, md, i)
  BY DEF Children
<1>3. /\ RepoOf(d) = Remotes[RepoOf(c)][i]
      /\ Path(d) = Path(c) \cup {RepoOf(c)}
  BY <1>1, <1>2, ChildType
<1>4. /\ RepoOf(c) \in Repo /\ Path(c) \subseteq Repo
      /\ Rank \in [Repo -> Nat]
      /\ RepoOf(d) \in Repo
      /\ Rank[RepoOf(d)] < Rank[RepoOf(c)]
  BY <1>1, <1>3, CallType DEF OrderInv, Ranked, LocalRemotes
<1> QED
  BY <1>1, <1>3, <1>4 DEF Below

LEMMA OrderStep ==
  ASSUME NEW Rank, OrderInv(Rank), NEW c \in DOMAIN call, Step(c)
  PROVE  OrderInv(Rank)'
<1>1. TypeOK'
  BY TypeStep DEF OrderInv
<1>2. ASSUME NEW d \in DOMAIN call' PROVE Below(Rank, RepoOf(d), Path(d))
  <2>1. ASSUME NEW md \in Mode, NEW local, Fork(c, md, local)
        PROVE  d \in DOMAIN call \cup Children(c, md)
    BY <1>2, <2>1 DEF Fork
  <2>2. CASE PrepThenFork(c)
    BY <2>1, <2>2, ForkDescends DEF PrepThenFork, CommitThenFork, Mode, OrderInv, Descending
  <2>3. CASE ForkPush(c)
    BY <2>1, <2>3, ForkDescends DEF ForkPush, Mode, OrderInv, Descending
  <2>4. CASE DOMAIN call' = DOMAIN call
    BY <1>2, <2>4 DEF OrderInv, Descending
  <2>5. CASE Cycle(c) \/ Enter(c) \/ Lock(c) \/ ReachLocal(c) \/ LockRemote(c)
    BY <2>4, <2>5 DEF Cycle, Enter, Lock, ReachLocal, LockRemote, Goto, OrderInv, TypeOK
  <2>6. CASE PrepFails(c) \/ PullDone(c) \/ JoinPush(c)
    BY <2>4, <2>6 DEF PrepFails, PullDone, JoinPush, Return, OrderInv, TypeOK
  <2>7. CASE PrepThenSync(c) \/ JoinPull(c) \/ PullRemote(c) \/ SyncNetwork(c)
          \/ CheckoutRemote(c)
    BY <2>4, <2>7
    DEF PrepThenSync, CommitThenSync, JoinPull, PullRemote, SyncNetwork, SyncWith, CheckoutRemote, OrderInv, TypeOK
  <2>8. CASE PushRemote(c)
    BY <2>4, <2>8 DEF PushRemote, OrderInv, TypeOK
  <2> QED
    BY <2>2, <2>3, <2>5, <2>6, <2>7, <2>8 DEF Step
<1> QED
  BY <1>1, <1>2 DEF OrderInv, Descending

(* Nothing lies on the path of the calls main makes.                       *)
LEMMA RootPaths == \A c \in RootCalls : Path(c) = {}
<1> SUFFICES ASSUME NEW c \in RootCalls PROVE Path(c) = {}
  OBVIOUS
<1>1. Len(c) = 1
  BY DEF RootCalls
<1>2. \A k \in 1..(Len(c) - 1) : FALSE
  BY <1>1
<1> QED
  BY <1>2 DEF Path

LEMMA OrderHolds == ASSUME NEW Rank, Ranked(Rank) PROVE Spec => []OrderInv(Rank)
<1>1. Init => OrderInv(Rank)
  <2> SUFFICES ASSUME Init, TypeOK PROVE OrderInv(Rank)
    BY InitType
  <2> QED
    BY RootPaths DEF Init, FirstCalls, OrderInv, Descending, Below
<1>2. OrderInv(Rank) /\ [Next]_vars => OrderInv(Rank)'
  <2> SUFFICES ASSUME OrderInv(Rank), [Next]_vars PROVE OrderInv(Rank)'
    OBVIOUS
  <2>1. CASE \E c \in DOMAIN call : Step(c)
    BY <2>1, OrderStep
  <2>2. CASE UNCHANGED <<call, owner>>
    BY <2>2, TypeNext DEF OrderInv, Descending
  <2>3. CASE Interrupt
    BY <2>3, RootPaths, InterruptType
    DEF Interrupt, FirstCalls, OrderInv, Descending, Below
  <2> QED
    BY <2>1, <2>2, <2>3 DEF Next, Edit, Exit, vars
<1> QED
  BY <1>1, <1>2, PTL DEF Spec

LEMMA OrderImplies ==
  ASSUME NEW Rank, OrderInv(Rank)
  PROVE  LockOrder(Rank)
<1> SUFFICES ASSUME NEW c \in DOMAIN call
             PROVE  /\ Below(Rank, RepoOf(c), Path(c))
                    /\ call[c].pc = "lockRemote" =>
                         Below(Rank, Target(c), Path(c) \cup {RepoOf(c)})
  BY DEF LockOrder
<1>1. Below(Rank, RepoOf(c), Path(c))
  BY DEF OrderInv, Descending
<1>2. ASSUME call[c].pc = "lockRemote"
      PROVE  Below(Rank, Target(c), Path(c) \cup {RepoOf(c)})
  <2>1. call[c].at \in LocalRemotes(RepoOf(c))
    BY <1>2 DEF OrderInv, TypeOK
  <2>2. RepoOf(c) \in Repo /\ Path(c) \subseteq Repo
    BY CallType DEF OrderInv, TypeOK, CallId
  <2>3. /\ Rank \in [Repo -> Nat] /\ Target(c) \in Repo
        /\ Rank[Target(c)] < Rank[RepoOf(c)]
    BY <2>1, <2>2 DEF OrderInv, Ranked, Target, LocalRemotes
  <2> QED
    BY <1>1, <2>2, <2>3 DEF Below
<1> QED
  BY <1>1, <1>2

(* Mutexes are always requested in strictly decreasing rank along a        *)
(* recursion path, so gitall's waits cannot form a cycle when the local    *)
(* remotes do not (operate, syncAndPushRepo).                              *)
THEOREM LocksAreOrdered ==
  ASSUME NEW Rank, Ranked(Rank)
  PROVE  Spec => []LockOrder(Rank)
<1>1. OrderInv(Rank) => LockOrder(Rank)
  BY OrderImplies
<1> QED
  BY <1>1, OrderHolds, PTL

(* Consequently no call waits for a mutex of its own recursion path: on    *)
(* acyclic topologies the stack check is enough to prevent re-entry.       *)
THEOREM NoReentry ==
  ASSUME NEW Rank, Ranked(Rank)
  PROVE  Spec => []NeverWaitsOnOwnPath
<1>1. OrderInv(Rank) => NeverWaitsOnOwnPath
  <2> SUFFICES ASSUME OrderInv(Rank), NEW c \in DOMAIN call
               PROVE  /\ call[c].pc = "lock" => RepoOf(c) \notin Path(c)
                      /\ call[c].pc = "lockRemote" =>
                           Target(c) \notin Path(c) \cup {RepoOf(c)}
    BY DEF NeverWaitsOnOwnPath
  <2>1. LockOrder(Rank)
    BY OrderImplies
  <2>2. RepoOf(c) \in Repo /\ Rank \in [Repo -> Nat]
    BY CallType DEF Ranked, OrderInv, TypeOK, CallId
  <2>3. call[c].pc = "lockRemote" => Target(c) \in Repo
    BY DEF OrderInv, TypeOK, Target, LocalRemotes
  <2> QED
    BY <2>1, <2>2, <2>3 DEF LockOrder, Below
<1> QED
  BY <1>1, OrderHolds, PTL

----------------------------------------------------------------------------
(* One branch *)

(* A history made from two others: nothing of the first is lost, and what  *)
(* is in neither is their merge.                                           *)
MadeOf(history, ours, theirs) ==
  /\ ours \subseteq history
  /\ \A c \in history \ (ours \cup theirs) : c.change = ours \cup theirs

LEMMA UpdatedGains ==
  ASSUME NEW ours, NEW theirs, NEW allowMerge, NEW by
  PROVE  MadeOf(Updated(ours, theirs, allowMerge, FALSE, by), ours, theirs)
<1>1. MadeOf(ours, ours, theirs)
  BY DEF MadeOf
<1>2. ours \subseteq theirs => MadeOf(theirs, ours, theirs)
  BY DEF MadeOf
<1>3. MadeOf(Merged(ours, theirs, by), ours, theirs)
  BY DEF MadeOf, Merged
<1>4. Updated(ours, theirs, allowMerge, FALSE, by) =
        IF theirs \subseteq ours THEN ours
        ELSE IF ours \subseteq theirs THEN theirs
        ELSE IF allowMerge THEN Merged(ours, theirs, by) ELSE ours
  BY DEF Updated, Diverged
<1> QED
  BY <1>1, <1>2, <1>3, <1>4

(* Rebased or not, every change of ours is still there; and if the update  *)
(* may merge, every commit of theirs.                                      *)
LEMMA UpdatedKeeps ==
  ASSUME NEW ours, NEW theirs, NEW allowMerge, NEW rebase, NEW by
  PROVE  LET history == Updated(ours, theirs, allowMerge, rebase, by) IN
         /\ Changes(ours) \subseteq Changes(history)
         /\ allowMerge => theirs \subseteq history
<1>1. /\ Changes(ours) \subseteq Changes(Rebased(ours, theirs, by))
      /\ theirs \subseteq Rebased(ours, theirs, by)
  <2> SUFFICES ASSUME NEW c \in ours
               PROVE  \E d \in Rebased(ours, theirs, by) : d.change = c.change
    BY DEF Changes, Rebased
  <2>1. CASE c \in theirs
    BY <2>1 DEF Rebased
  <2>2. CASE c \notin theirs
    <3>1. [change |-> c.change, by |-> by, onto |-> theirs] \in Rebased(ours, theirs, by)
      BY <2>2 DEF Rebased
    <3> QED
      BY <3>1
  <2> QED
    BY <2>1, <2>2
<1>2. ours \cup theirs \subseteq Merged(ours, theirs, by)
  BY DEF Merged
<1>3. \/ Updated(ours, theirs, allowMerge, rebase, by) = Rebased(ours, theirs, by)
      \/ Updated(ours, theirs, allowMerge, rebase, by) = Merged(ours, theirs, by)
      \/ /\ Updated(ours, theirs, allowMerge, rebase, by) = theirs
         /\ ours \subseteq theirs
      \/ /\ Updated(ours, theirs, allowMerge, rebase, by) = ours
         /\ theirs \subseteq ours \/ ~allowMerge
  BY DEF Updated, Diverged
<1>4. \A a, b : a \subseteq b => Changes(a) \subseteq Changes(b)
  BY DEF Changes
<1> QED
  BY <1>1, <1>2, <1>3, <1>4

----------------------------------------------------------------------------
(* The invariant *)

Held == UNION {tip[q] : q \in Place}

(* Where a call is that has read the tips of its branch and of a remote.   *)
Reading(c) ==
  \/ Looping(c, "pull")
  \/ Pushing(c) /\ Target(c) = Network
  \/ call[c].pc = "push"

(* What it has read of its own branch is still so.                         *)
ReadRight(c) ==
  /\ c \in DOMAIN call /\ Reading(c)
  /\ seen[c].ours = tip[RepoOf(c)]

FallsRight(c) ==
  /\ c \in DOMAIN call /\ Pushing(c) /\ Target(c) = Network
  /\ c \notin DOMAIN seen

TipType == tip = [q \in Place |-> tip[q]]

PullsType ==
  pulls = [n \in DOMAIN pulls |-> [commits |-> pulls[n].commits, open |-> pulls[n].open]]

StartType == start = [q \in Place |-> start[q]]

ReadInv ==
  /\ CallerInv /\ MutexInv
  /\ TipType /\ StartType /\ PullsType
  /\ \A c \in DOMAIN seen : ReadRight(c)
  /\ \A c \in DOMAIN falling : FallsRight(c)

(* What was read of a remote is held by somebody, unless it was rewritten. *)
SpreadInv ==
  /\ ReadInv
  /\ \A c \in DOMAIN seen : seen[c].theirs \subseteq Held

(* A call that prepares is one that commits, perhaps, on its branch.       *)
LEMMA Prepares ==
  ASSUME NEW c, Prepare(c)
  PROVE  /\ PrepThenFork(c) \/ PrepThenSync(c)
         /\ call[c].pc = "prep"
         /\ \/ tip' = tip
            \/ CommitMsg /\ tip' = [tip EXCEPT ![RepoOf(c)] = Committed(@, Work, RepoOf(c))]
         /\ start' = IF c \in RootCalls THEN [start EXCEPT ![RepoOf(c)] = tip'[RepoOf(c)]] ELSE start
         /\ UNCHANGED <<seen, proposed, pullVars>>
<1>1. PICK edited \in Restored(RepoOf(c)) : CommitThenFork(c, edited) \/ CommitThenSync(c, edited)
  BY DEF Prepare
<1>2. (PrepThenFork(c) \/ PrepThenSync(c)) /\ call[c].pc = "prep"
  BY <1>1 DEF PrepThenFork, PrepThenSync, CommitThenFork, CommitThenSync
<1> QED
  BY <1>2 DEF Prepare

(* Every step of DeliverSpec is one of Spec.                               *)
LEMMA DeliverIsOperate == [DeliverNext]_allVars => [Next]_vars
<1> SUFFICES ASSUME [DeliverNext]_allVars PROVE [Next]_vars
  OBVIOUS
<1>1. CASE UNCHANGED allVars
  BY <1>1 DEF allVars
<1>2. ASSUME NEW c \in DOMAIN call, DeliverStep(c) PROVE Step(c) \/ UNCHANGED vars
  <2>1. CASE ControlStep(c)
    BY <2>1 DEF ControlStep, Step
  <2>2. CASE Fetch(c)
    BY <2>2 DEF Fetch
  <2>3. CASE PullData(c)
    BY <2>3 DEF PullData, Step
  <2>4. CASE SyncAndPush(c)
    BY <2>4 DEF SyncAndPush, PushData, Step
  <2>5. CASE Propose(c)
    BY <2>5 DEF Propose, Step
  <2>6. CASE Prepare(c)
    BY <2>6, Prepares DEF Step
  <2> QED
    BY <1>2, <2>1, <2>2, <2>3, <2>4, <2>5, <2>6 DEF DeliverStep
<1>3. CASE Interrupted
  BY <1>3 DEF Interrupted, Next
<1>4. ASSUME NEW n \in DOMAIN pulls, Answer(n) PROVE UNCHANGED vars
  BY <1>4 DEF Answer
<1> QED
  BY <1>1, <1>2, <1>3, <1>4 DEF DeliverNext, Next

(* A call that has read tips is live, and its repository's refs are its.   *)
LEMMA ReadingWrites ==
  ASSUME ReadInv, NEW c \in DOMAIN call, Reading(c)
  PROVE  /\ c \in Live /\ c \in CallId
         /\ RepoOf(c) \in Repo /\ RepoOf(c) \in RefWrites(c)
         /\ call[c].pc = "push" => Target(c) \in Repo /\ Target(c) \in RefWrites(c)
<1>1. c \in CallId
  BY DEF ReadInv, MutexInv, TypeOK, CallId
<1>2. call[c].pc \in {"pull", "sync", "push"}
  BY DEF Reading, Looping, Pushing
<1>3. call[c].pc = "push" => Target(c) \in Repo
  BY DEF ReadInv, MutexInv, TypeOK, Target, LocalRemotes
<1> QED
  BY <1>1, <1>2, <1>3, CallType DEF Live, RefWrites

(* A step of one call leaves another that has read tips where it is: its   *)
(* caller waits for it and starts nothing.                                 *)
LEMMA ReaderKept ==
  ASSUME ReadInv, NEW d \in DOMAIN call, Step(d),
         NEW c \in DOMAIN call, c # d, Reading(c)
  PROVE  c \in DOMAIN call' /\ call'[c] = call[c]
<1>0. c \in Live /\ c \in CallId /\ d \in CallId /\ TypeOK
  BY ReadingWrites DEF ReadInv, MutexInv, TypeOK, CallId
<1>1. ASSUME NEW md \in {"pull", "pushOnly"}, NEW local, Fork(d, md, local),
             call[d].pc \in {"prep", "sync"}
      PROVE  c \in DOMAIN call' /\ call'[c] = call[c]
  <2>1. c \notin Children(d, md)
    <3> SUFFICES ASSUME c \in Children(d, md) PROVE FALSE
      OBVIOUS
    <3>0. md \in Mode /\ Len(d) \in Nat /\ Len(d) # 0
      BY <1>0 DEF Mode, CallId, None
    <3>1. Len(c) = Len(d) + 1 /\ Above(c, Len(d)) = d
      BY <1>0, <3>0, AboveChild
    <3>2. Len(d) \in 1..(Len(c) - 1)
      BY <3>0, <3>1
    <3>3. call[Above(c, Len(d))].pc = JoinPC(c[Len(d) + 1].mode)
      BY <1>0, <3>2 DEF ReadInv, CallerInv, CallersWait
    <3> QED
      BY <1>1, <3>1, <3>3 DEF JoinPC
  <2> QED
    BY <1>1, <2>1 DEF Fork
<1>2. CASE PrepThenFork(d)
  BY <1>1, <1>2 DEF PrepThenFork, CommitThenFork
<1>3. CASE ForkPush(d)
  BY <1>1, <1>3 DEF ForkPush
<1>4. CASE ~PrepThenFork(d) /\ ~ForkPush(d)
  BY <1>0, <1>4, OwnStep
<1> QED
  BY <1>2, <1>3, <1>4

LEMMA ReadingKept ==
  ASSUME NEW c, Reading(c), call'[c] = call[c]
  PROVE  /\ Reading(c)' /\ Target(c)' = Target(c)
         /\ Pushing(c) => Pushing(c)'
  BY DEF Reading, Looping, Pushing, Target

(* A call that has read tips does nothing but use them.                    *)
LEMMA ReaderUses ==
  ASSUME ReadInv, NEW c \in DOMAIN call, Reading(c)
  PROVE  ~ControlStep(c) /\ ~Prepare(c)
<1>1. Network \notin Repo
  BY OperateAssumption
<1>2. ~ControlStep(c)
  BY <1>1
  DEF ControlStep, Reading, Cycle, Enter, Lock, PrepFails, JoinPull, PullDone, ReachLocal,
      LockRemote, CheckoutRemote, ForkPush, JoinPush, Pushing, Looping
<1>3. ~Prepare(c)
  BY Prepares DEF Reading, Pushing, Looping
<1> QED
  BY <1>2, <1>3

----------------------------------------------------------------------------
(* What a step does to the tips *)

(* The tips a call may have moved, and to what.                            *)
Moves(c, history) ==
  \/ tip' = tip
  \/ tip' = [tip EXCEPT ![RepoOf(c)] = history]
  \/ /\ tip' = [tip EXCEPT ![RepoOf(c)] = history, ![Target(c)] = history]
     /\ tip[Target(c)] \subseteq history
     /\ Target(c) = Network \/ call[c].pc = "push"

LEMMA CallMoves ==
  ASSUME ReadInv, NEW c \in DOMAIN call, PullData(c) \/ SyncAndPush(c)
  PROVE  /\ c \in DOMAIN seen /\ Reading(c)
         /\ \E history \in {Synced(c), seen[c].ours} : Moves(c, history)
<1>1. c \in DOMAIN seen /\ Reading(c)
  BY DEF PullData, SyncAndPush, ReadInv, ReadRight
<1>2. ASSUME NEW history, PushData(c, history) PROVE Moves(c, history)
  BY <1>2 DEF PushData, Moves, Accepts, SyncNetwork, PushRemote
<1>3. PullData(c) => Moves(c, Synced(c))
  BY DEF PullData, Moves
<1>4. SyncAndPush(c) => Moves(c, Synced(c)) \/ Moves(c, seen[c].ours)
  <2>1. SyncAndPush(c) => PushData(c, Synced(c)) \/ PushData(c, seen[c].ours) \/ tip' = tip
    BY DEF SyncAndPush
  <2>2. tip' = tip => Moves(c, Synced(c))
    BY DEF Moves
  <2>3. /\ PushData(c, Synced(c)) => Moves(c, Synced(c))
        /\ PushData(c, seen[c].ours) => Moves(c, seen[c].ours)
    BY <1>2
  <2> QED
    BY <2>1, <2>2, <2>3
<1> QED
  BY <1>1, <1>3, <1>4

(* What may become of the tip of a place.                                  *)
Becomes(q) ==
  \/ tip'[q] = tip[q]
  \/ \E c \in DOMAIN seen :
       /\ tip'[q] \in {Synced(c), seen[c].ours}
       /\ RepoOf(c) = q \/ tip[q] \subseteq tip'[q]
  \/ \E n \in DOMAIN pulls : tip'[q] = Merged(tip[q], pulls[n].commits, Network)
  \/ CommitMsg /\ tip'[q] = Committed(tip[q], Work, q)

Settles == TipType' /\ \A q \in Place : Becomes(q)

LEMMA MoveSettles ==
  ASSUME ReadInv, NEW c \in DOMAIN call, c \in DOMAIN seen, Reading(c),
         NEW history \in {Synced(c), seen[c].ours}, Moves(c, history)
  PROVE  /\ Settles
         /\ \A d \in DOMAIN call : d # c /\ Reading(d) => tip'[RepoOf(d)] = tip[RepoOf(d)]
<1>0. TipType /\ RepoOf(c) \in Place /\ Network \notin Repo
  BY ReadingWrites, OperateAssumption DEF ReadInv, Place
<1>1. Target(c) = Network \/ call[c].pc = "push" => Target(c) \in Place
  BY ReadingWrites DEF Place
<1>2. Settles
  <2>1. TipType'
    BY <1>0 DEF Moves, TipType
  <2>2. ASSUME NEW q \in Place
        PROVE  \/ tip'[q] = tip[q]
               \/ tip'[q] = history /\ (RepoOf(c) = q \/ tip[q] \subseteq history)
    BY <1>0, <1>1 DEF Moves, TipType
  <2> QED
    BY <2>1, <2>2 DEF Settles, Becomes
<1>3. ASSUME NEW d \in DOMAIN call, d # c, Reading(d) PROVE tip'[RepoOf(d)] = tip[RepoOf(d)]
  <2>1. RepoOf(d) \in Repo /\ RepoOf(d) \in RefWrites(d) /\ RepoOf(c) \in RefWrites(c)
    BY <1>3, ReadingWrites
  <2>2. RefWrites(c) \cap RefWrites(d) = {}
    BY <1>3, MutexExcludes DEF ReadInv, RefsExclusive
  <2>3. RepoOf(d) # RepoOf(c)
    BY <2>1, <2>2
  <2>4. Target(c) = Network \/ call[c].pc = "push" => Target(c) # RepoOf(d)
    BY <1>0, <2>1, <2>2, ReadingWrites
  <2> QED
    BY <1>0, <2>1, <2>3, <2>4 DEF Moves, TipType, Place
<1> QED
  BY <1>2, <1>3

LEMMA StillSettles ==
  ASSUME TipType, UNCHANGED tip
  PROVE  Settles
  BY DEF TipType, Settles, Becomes

(* What a call commits, it commits on the branch nobody else is reading.   *)
LEMMA PrepareSettles ==
  ASSUME ReadInv, NEW c \in DOMAIN call, Prepare(c)
  PROVE  /\ Settles
         /\ \A d \in DOMAIN call : d # c /\ Reading(d) => tip'[RepoOf(d)] = tip[RepoOf(d)]
<1>0. TipType /\ RepoOf(c) \in Place /\ call[c].pc = "prep"
  <2>1. c \in CallId
    BY DEF ReadInv, MutexInv, TypeOK, CallId
  <2> QED
    BY <2>1, CallType, Prepares DEF ReadInv, Place
<1>1. CASE tip' = tip
  BY <1>0, <1>1, StillSettles
<1>2. CASE CommitMsg /\ tip' = [tip EXCEPT ![RepoOf(c)] = Committed(@, Work, RepoOf(c))]
  <2>1. /\ TipType'
        /\ tip'[RepoOf(c)] = Committed(tip[RepoOf(c)], Work, RepoOf(c))
        /\ \A q \in Place : q # RepoOf(c) => tip'[q] = tip[q]
    BY <1>0, <1>2 DEF TipType
  <2>2. Settles
    BY <1>2, <2>1 DEF Settles, Becomes
  <2>3. ASSUME NEW d \in DOMAIN call, d # c, Reading(d) PROVE tip'[RepoOf(d)] = tip[RepoOf(d)]
    <3>1. RepoOf(d) \in Repo /\ RepoOf(d) \in RefWrites(d)
      BY <2>3, ReadingWrites
    <3>2. RefWrites(c) \cap RefWrites(d) = {} /\ RepoOf(c) \in RefWrites(c)
      BY <1>0, <2>3, MutexExcludes DEF ReadInv, RefsExclusive, RefWrites
    <3> QED
      BY <2>1, <3>1, <3>2 DEF Place
  <2> QED
    BY <2>2, <2>3
<1> QED
  BY <1>1, <1>2, Prepares

(* A person merges a pull request.                                         *)
LEMMA AnswerSettles ==
  ASSUME ReadInv, NEW n \in DOMAIN pulls, Answer(n)
  PROVE  Settles /\ \A q \in Repo : tip'[q] = tip[q]
<1>1. TipType /\ Network \notin Repo
  BY OperateAssumption DEF ReadInv
<1>2. CASE UNCHANGED tip
  BY <1>1, <1>2, StillSettles
<1>3. CASE tip' = [tip EXCEPT ![Network] = Merged(@, pulls[n].commits, Network)]
  <2>1. /\ tip'[Network] = Merged(tip[Network], pulls[n].commits, Network)
        /\ \A q \in Repo : tip'[q] = tip[q]
    BY <1>1, <1>3 DEF TipType, Place
  <2>2. TipType'
    BY <1>1, <1>3 DEF TipType
  <2> QED
    BY <2>1, <2>2 DEF Settles, Becomes, Place
<1> QED
  BY <1>2, <1>3 DEF Answer

(* An interruption ends some updates between update-ref and what follows.  *)
LEMMA InterruptSettles ==
  ASSUME ReadInv, Interrupted
  PROVE  Settles
<1>1. PICK cut \in SUBSET {c \in DOMAIN seen : seen[c].fetched} :
        tip' = [q \in Place |->
                  LET moved == {c \in cut : RepoOf(c) = q} IN
                  IF moved = {} THEN tip[q] ELSE Synced(CHOOSE c \in moved : TRUE)]
  BY DEF Interrupted
<1>2. TipType'
  BY <1>1 DEF TipType
<1>3. ASSUME NEW q \in Place PROVE Becomes(q)
  <2> DEFINE moved == {c \in cut : RepoOf(c) = q}
             c == CHOOSE d \in moved : TRUE
  <2>1. tip'[q] = IF moved = {} THEN tip[q] ELSE Synced(c)
    BY <1>1
  <2>2. CASE moved = {}
    BY <2>1, <2>2 DEF Becomes
  <2>3. CASE moved # {}
    <3>1. c \in moved
      BY <2>3
    <3> HIDE DEF c
    <3>2. c \in DOMAIN seen /\ RepoOf(c) = q
      BY <1>1, <3>1
    <3> QED
      BY <2>1, <2>3, <3>2 DEF Becomes
  <2> QED
    BY <2>2, <2>3
<1> QED
  BY <1>2, <1>3 DEF Settles

----------------------------------------------------------------------------
(* What a step leaves of what was read *)

LEMMA ReadersRight ==
  ASSUME ReadInv, NEW d \in DOMAIN call, Step(d) \/ UNCHANGED call,
         \A c \in DOMAIN call : c # d /\ Reading(c) => tip'[RepoOf(c)] = tip[RepoOf(c)],
         DOMAIN seen' \subseteq DOMAIN seen \cup {d},
         \A c \in DOMAIN seen' \ {d} : seen'[c] = seen[c]
  PROVE  \A c \in DOMAIN seen' \ {d} : ReadRight(c)'
<1> SUFFICES ASSUME NEW c \in DOMAIN seen' \ {d} PROVE ReadRight(c)'
  OBVIOUS
<1>1. c \in DOMAIN seen /\ ReadRight(c) /\ seen'[c] = seen[c]
  BY DEF ReadInv
<1>2. c \in DOMAIN call' /\ call'[c] = call[c]
  BY <1>1, ReaderKept DEF ReadRight
<1>3. Reading(c)'
  BY <1>1, <1>2, ReadingKept DEF ReadRight
<1>4. seen'[c].ours = tip'[RepoOf(c)]
  BY <1>1 DEF ReadRight
<1> QED
  BY <1>2, <1>3, <1>4 DEF ReadRight

LEMMA FallersRight ==
  ASSUME ReadInv, NEW d \in DOMAIN call, Step(d) \/ UNCHANGED call,
         DOMAIN seen' \subseteq DOMAIN seen \cup {d},
         DOMAIN falling' \subseteq DOMAIN falling \cup {d}
  PROVE  \A c \in DOMAIN falling' \ {d} : FallsRight(c)'
<1> SUFFICES ASSUME NEW c \in DOMAIN falling' \ {d} PROVE FallsRight(c)'
  OBVIOUS
<1>1. FallsRight(c) /\ Reading(c)
  BY DEF ReadInv, FallsRight, Reading
<1>2. c \in DOMAIN call' /\ call'[c] = call[c]
  BY <1>1, ReaderKept DEF FallsRight
<1>3. Pushing(c)' /\ Target(c)' = Network
  BY <1>1, <1>2, ReadingKept DEF FallsRight
<1> QED
  BY <1>1, <1>2, <1>3 DEF FallsRight

LEMMA ForgetDomain ==
  ASSUME NEW c, Forget(c)
  PROVE  DOMAIN seen' = DOMAIN seen \ {c} /\ \A d \in DOMAIN seen' : seen'[d] = seen[d]
  BY DEF Forget, Restrict

LEMMA LeavesDomain ==
  ASSUME NEW c, Leaves(c)
  PROVE  DOMAIN falling' = DOMAIN falling \ {c}
  BY DEF Leaves, Restrict

LEMMA EntersDomain ==
  ASSUME NEW c, NEW stage, NEW n, Enters(c, stage, n)
  PROVE  DOMAIN falling' = DOMAIN falling \cup {c}
  BY DEF Enters

ReadsRight ==
  /\ \A c \in DOMAIN seen : ReadRight(c)
  /\ \A c \in DOMAIN falling : FallsRight(c)

LEMMA ControlReads ==
  ASSUME ReadInv, NEW d \in DOMAIN call, ControlStep(d)
  PROVE  ReadsRight'
<1>1. Step(d) /\ UNCHANGED <<tip, seen, falling>>
  BY DEF ControlStep, Step, dataVars, pullVars
<1>2. d \notin DOMAIN seen /\ d \notin DOMAIN falling
  BY ReaderUses DEF ReadInv, ReadRight, FallsRight, Reading
<1> QED
  BY <1>1, <1>2, ReadersRight, FallersRight DEF ReadsRight

LEMMA PrepareReads ==
  ASSUME ReadInv, NEW d \in DOMAIN call, Prepare(d)
  PROVE  ReadsRight' /\ Settles
<1>1. Step(d) /\ UNCHANGED <<seen, falling>>
  BY Prepares DEF Step, pullVars
<1>2. d \notin DOMAIN seen /\ d \notin DOMAIN falling
  BY ReaderUses DEF ReadInv, ReadRight, FallsRight, Reading
<1>3. /\ Settles
      /\ \A c \in DOMAIN call : c # d /\ Reading(c) => tip'[RepoOf(c)] = tip[RepoOf(c)]
  BY PrepareSettles
<1> QED
  BY <1>1, <1>2, <1>3, ReadersRight, FallersRight DEF ReadsRight

LEMMA FetchReads ==
  ASSUME ReadInv, NEW d \in DOMAIN call, Fetch(d)
  PROVE  ReadsRight'
<1>1. /\ UNCHANGED <<call, tip, falling>> /\ d \notin DOMAIN seen
      /\ Fetching(d)
  BY DEF Fetch, vars, pullVars
<1>2. PICK fetched \in BOOLEAN :
        seen' = [c \in DOMAIN seen \cup {d} |->
                   IF c # d THEN seen[c]
                   ELSE [fetched |-> fetched, ours |-> tip[RepoOf(d)], theirs |-> tip[Target(d)]]]
  BY DEF Fetch
<1>3. /\ DOMAIN seen' = DOMAIN seen \cup {d}
      /\ \A c \in DOMAIN seen : seen'[c] = seen[c]
      /\ seen'[d].ours = tip[RepoOf(d)] /\ seen'[d].theirs = tip[Target(d)]
  BY <1>1, <1>2
<1>4. Reading(d)
  BY <1>1 DEF Fetching, Reading
<1>6. d \notin DOMAIN falling
  BY <1>1 DEF ReadInv, FallsRight, Fetching, Pushing, Looping
<1>8. ReadRight(d)'
  <2>1. Reading(d)'
    BY <1>1, <1>4, ReadingKept
  <2> QED
    BY <1>1, <1>3, <2>1 DEF ReadRight
<1>9. \A c \in DOMAIN seen' \ {d} : ReadRight(c)'
  BY <1>1, <1>3, ReadersRight
<1>10. \A c \in DOMAIN falling' \ {d} : FallsRight(c)'
  BY <1>1, <1>3, FallersRight
<1> QED
  BY <1>1, <1>6, <1>8, <1>9, <1>10 DEF ReadsRight

LEMMA SyncReads ==
  ASSUME ReadInv, NEW d \in DOMAIN call, PullData(d) \/ SyncAndPush(d)
  PROVE  ReadsRight' /\ Settles
<1>1. Step(d) \/ UNCHANGED call
  BY DEF PullData, SyncAndPush, PushData, Step, vars
<1>2. d \in DOMAIN seen /\ Forget(d) /\ Reading(d) /\ d \notin DOMAIN falling
  BY DEF PullData, SyncAndPush, ReadInv, ReadRight, FallsRight
<1>3. /\ Settles
      /\ \A c \in DOMAIN call : c # d /\ Reading(c) => tip'[RepoOf(c)] = tip[RepoOf(c)]
  BY <1>2, CallMoves, MoveSettles
<1>5. /\ d \notin DOMAIN seen' /\ DOMAIN seen' \subseteq DOMAIN seen
      /\ \A c \in DOMAIN seen' : seen'[c] = seen[c]
  BY <1>2, ForgetDomain
<1>6. \A c \in DOMAIN seen' : ReadRight(c)'
  BY <1>1, <1>3, <1>5, ReadersRight
<1>7. CASE UNCHANGED falling
  BY <1>1, <1>2, <1>3, <1>5, <1>6, <1>7, FallersRight DEF ReadsRight
<1>8. CASE /\ SyncAndPush(d) /\ FallBack(d) /\ UNCHANGED vars
           /\ FallsBackToPR(MergeMode, Target(d) # Network)
  <2>1. Target(d) = Network
    BY <1>8 DEF FallsBackToPR
  <2>2. Pushing(d)
    BY <1>2, <1>8, <2>1, ReadingWrites, OperateAssumption DEF SyncAndPush
  <2>3. DOMAIN falling' = DOMAIN falling \cup {d} /\ call' = call
    BY <1>8, EntersDomain DEF FallBack, vars
  <2>4. FallsRight(d)'
    BY <1>5, <2>1, <2>2, <2>3 DEF FallsRight, Pushing, Looping, Target
  <2>5. \A c \in DOMAIN falling' \ {d} : FallsRight(c)'
    BY <1>1, <1>5, <2>3, FallersRight
  <2> QED
    BY <1>3, <1>6, <2>4, <2>5 DEF ReadsRight
<1>9. UNCHANGED falling \/ (/\ SyncAndPush(d) /\ FallBack(d) /\ UNCHANGED vars
                            /\ FallsBackToPR(MergeMode, Target(d) # Network))
  BY DEF PullData, SyncAndPush, PushData, pullVars
<1> QED
  BY <1>3, <1>7, <1>8, <1>9

LEMMA ProposeReads ==
  ASSUME ReadInv, NEW d \in DOMAIN call, Propose(d)
  PROVE  ReadsRight'
<1>1. /\ UNCHANGED <<tip, seen>>
      /\ Step(d) \/ UNCHANGED call
  BY DEF Propose, Step, vars
<1>2. d \in DOMAIN falling
  BY DEF Propose, ListPulls, NumberBranch, PushBranch, UpdatePull, CreatePull, GiveUp, At
<1>3. FallsRight(d)
  BY <1>2 DEF ReadInv
<1>5. \A c \in DOMAIN seen' : ReadRight(c)'
  BY <1>1, <1>3, ReadersRight DEF FallsRight
<1>6. \/ UNCHANGED call /\ DOMAIN falling' = DOMAIN falling
      \/ DOMAIN falling' = DOMAIN falling \ {d}
  <2>1. CASE UNCHANGED vars /\ (\E stage, n : Enters(d, stage, n))
    BY <1>2, <2>1, EntersDomain DEF vars
  <2>2. CASE Leaves(d)
    BY <2>2, LeavesDomain
  <2> QED
    BY <2>1, <2>2 DEF Propose, ListPulls, NumberBranch, PushBranch, UpdatePull, CreatePull, GiveUp
<1>7. \A c \in DOMAIN falling' \ {d} : FallsRight(c)'
  BY <1>1, <1>6, FallersRight
<1>8. d \in DOMAIN falling' => FallsRight(d)'
  BY <1>1, <1>3, <1>6 DEF FallsRight, Pushing, Looping, Target
<1> QED
  BY <1>5, <1>7, <1>8 DEF ReadsRight

----------------------------------------------------------------------------
(* What a step does to the branches of pull requests *)

Proposals == UNION {pulls[n].commits : n \in DOMAIN pulls}

ProposesHeld == PullsType' /\ Proposals' \subseteq Held \cup Proposals

LEMMA PulledHeld ==
  ASSUME PullsType, NEW history, history \subseteq Held, NEW n, PushTo(n, history)
  PROVE  ProposesHeld
<1>1. pulls' = [k \in DOMAIN pulls \cup {n} |->
                  IF k # n THEN pulls[k]
                  ELSE [commits |-> history, open |-> n \in DOMAIN pulls /\ pulls[n].open]]
  BY DEF PushTo
<1>2. DOMAIN pulls' = DOMAIN pulls \cup {n}
  BY <1>1
<1>3. \A k \in DOMAIN pulls' :
        /\ pulls'[k] = [commits |-> pulls'[k].commits, open |-> pulls'[k].open]
        /\ pulls'[k].commits = IF k = n THEN history ELSE pulls[k].commits
  BY <1>1, <1>2 DEF PullsType
<1>4. PullsType'
  BY <1>1, <1>2, <1>3 DEF PullsType
<1>5. Proposals' \subseteq Held \cup Proposals
  BY <1>2, <1>3 DEF Proposals
<1> QED
  BY <1>4, <1>5 DEF ProposesHeld

LEMMA PullsKept == PullsType /\ UNCHANGED pulls => ProposesHeld
  BY DEF PullsType, ProposesHeld, Proposals

LEMMA PullOpened ==
  ASSUME PullsType, NEW n \in DOMAIN pulls, NEW open, pulls' = [pulls EXCEPT ![n].open = open]
  PROVE  ProposesHeld
<1>1. /\ pulls' = [k \in DOMAIN pulls |->
                     IF k = n THEN [pulls[n] EXCEPT !.open = open] ELSE pulls[k]]
      /\ DOMAIN pulls' = DOMAIN pulls
  BY DEF PullsType
<1>2. pulls[n] = [commits |-> pulls[n].commits, open |-> pulls[n].open]
  BY DEF PullsType
<1>3. [pulls[n] EXCEPT !.open = open] = [commits |-> pulls[n].commits, open |-> open]
  BY <1>2
<1>4. \A k \in DOMAIN pulls' :
        /\ pulls'[k] = [commits |-> pulls'[k].commits, open |-> pulls'[k].open]
        /\ pulls'[k].commits = pulls[k].commits
  BY <1>1, <1>3 DEF PullsType
<1>5. PullsType'
  BY <1>1, <1>4 DEF PullsType
<1>6. Proposals' = Proposals
  BY <1>1, <1>4 DEF Proposals
<1> QED
  BY <1>5, <1>6 DEF ProposesHeld

LEMMA ProposeHeld ==
  ASSUME ReadInv, NEW c \in DOMAIN call, Propose(c)
  PROVE  ProposesHeld
<1>1. PullsType
  BY DEF ReadInv
<1>2. tip[RepoOf(c)] \subseteq Held
  <2>1. c \in CallId
    BY DEF ReadInv, MutexInv, TypeOK, CallId
  <2> QED
    BY <2>1, CallType DEF Held, Place
<1>3. CASE UpdatePull(c, tip[RepoOf(c)]) \/ PushBranch(c, tip[RepoOf(c)])
  BY <1>1, <1>2, <1>3, PulledHeld DEF UpdatePull, PushBranch
<1>4. CASE CreatePull(c)
  BY <1>1, <1>4, PullOpened DEF CreatePull
<1>5. CASE UNCHANGED pulls
  BY <1>1, <1>5, PullsKept
<1> QED
  BY <1>3, <1>4, <1>5 DEF Propose, ListPulls, NumberBranch, GiveUp

LEMMA ReviewHeld ==
  ASSUME PullsType, NEW n \in DOMAIN pulls, Review(n)
  PROVE  ProposesHeld
<1>1. CASE pulls' = [pulls EXCEPT ![n].open = FALSE]
  BY <1>1, PullOpened
<1>2. CASE pulls' = Restrict(pulls, DOMAIN pulls \ {n})
  <2>1. /\ DOMAIN pulls' = DOMAIN pulls \ {n}
        /\ pulls' = [k \in DOMAIN pulls \ {n} |-> pulls[k]]
    BY <1>2 DEF Restrict
  <2> QED
    BY <2>1 DEF ProposesHeld, PullsType, Proposals
<1> QED
  BY <1>1, <1>2 DEF Review

----------------------------------------------------------------------------
(* Every step *)

(* What a call set out with changes only at the start of a call of main.   *)
LEMMA StartStep ==
  ASSUME StartType, [DeliverNext]_allVars
  PROVE  /\ StartType'
         /\ \/ start' = start
            \/ \E c \in DOMAIN call \cap RootCalls :
                 /\ Prepare(c)
                 /\ start' = [start EXCEPT ![RepoOf(c)] = tip'[RepoOf(c)]]
<1>1. ASSUME NEW c \in DOMAIN call, Prepare(c)
      PROVE  \/ start' = start
             \/ c \in RootCalls /\ start' = [start EXCEPT ![RepoOf(c)] = tip'[RepoOf(c)]]
  BY <1>1, Prepares
<1>2. \/ start' = start
      \/ \E c \in DOMAIN call : Prepare(c)
  BY DEF DeliverNext, DeliverStep, ControlStep, Fetch, PullData, SyncAndPush, Propose, Interrupted,
         Answer, dataVars, allVars
<1>3. \/ start' = start
      \/ \E c \in DOMAIN call \cap RootCalls :
           /\ Prepare(c)
           /\ start' = [start EXCEPT ![RepoOf(c)] = tip'[RepoOf(c)]]
  BY <1>1, <1>2
<1>4. \A q, history : StartType /\ start' = [start EXCEPT ![q] = history] => StartType'
  BY DEF StartType
<1> QED
  BY <1>3, <1>4 DEF StartType

LEMMA ReadStep ==
  ASSUME ReadInv, [DeliverNext]_allVars
  PROVE  ReadInv' /\ Settles /\ ProposesHeld
<1>t. StartType'
  BY StartStep DEF ReadInv
<1> SUFFICES ReadsRight' /\ Settles /\ ProposesHeld
  BY <1>t, DeliverIsOperate, CallerNext, MutexNext DEF ReadInv, ReadsRight, Settles, ProposesHeld
<1>0. PullsType /\ TipType /\ ReadsRight
  BY DEF ReadInv, ReadsRight
<1>1. ASSUME NEW c \in DOMAIN call, ControlStep(c)
      PROVE  ReadsRight' /\ Settles /\ ProposesHeld
  <2>1. UNCHANGED <<tip, pulls>>
    BY <1>1 DEF ControlStep, dataVars, pullVars
  <2> QED
    BY <1>0, <1>1, <2>1, ControlReads, StillSettles, PullsKept
<1>2. ASSUME NEW c \in DOMAIN call, Fetch(c)
      PROVE  ReadsRight' /\ Settles /\ ProposesHeld
  <2>1. UNCHANGED <<tip, pulls>>
    BY <1>2 DEF Fetch, pullVars
  <2> QED
    BY <1>0, <1>2, <2>1, FetchReads, StillSettles, PullsKept
<1>3. ASSUME NEW c \in DOMAIN call, PullData(c) \/ SyncAndPush(c)
      PROVE  ReadsRight' /\ Settles /\ ProposesHeld
  <2>1. UNCHANGED pulls
    BY <1>3 DEF PullData, SyncAndPush, PushData, FallBack, pullVars
  <2> QED
    BY <1>0, <1>3, <2>1, SyncReads, PullsKept
<1>4. ASSUME NEW c \in DOMAIN call, Propose(c)
      PROVE  ReadsRight' /\ Settles /\ ProposesHeld
  <2>1. UNCHANGED tip
    BY <1>4 DEF Propose
  <2> QED
    BY <1>0, <1>4, <2>1, ProposeReads, StillSettles, ProposeHeld
<1>10. ASSUME NEW c \in DOMAIN call, Prepare(c)
       PROVE  ReadsRight' /\ Settles /\ ProposesHeld
  <2>1. UNCHANGED pulls
    BY <1>10, Prepares DEF pullVars
  <2> QED
    BY <1>0, <1>10, <2>1, PrepareReads, PullsKept
<1>5. CASE Interrupted
  <2>1. UNCHANGED pulls /\ seen' = <<>> /\ falling' = <<>>
    BY <1>5 DEF Interrupted
  <2>2. ReadsRight'
    BY <2>1 DEF ReadsRight
  <2> QED
    BY <1>0, <1>5, <2>1, <2>2, InterruptSettles, PullsKept
<1>6. ASSUME NEW n \in DOMAIN pulls, Answer(n)
      PROVE  ReadsRight' /\ Settles /\ ProposesHeld
  <2>1. UNCHANGED <<call, seen, falling>> /\ ProposesHeld
    BY <1>0, <1>6, ReviewHeld DEF Answer, Review, vars
  <2>2. Settles /\ \A q \in Repo : tip'[q] = tip[q]
    BY <1>6, AnswerSettles
  <2>3. ReadsRight'
    <3>1. \A c \in DOMAIN seen : RepoOf(c) \in Repo
      BY <1>0, ReadingWrites DEF ReadsRight, ReadRight
    <3> QED
      BY <1>0, <2>1, <2>2, <3>1
      DEF ReadsRight, ReadRight, FallsRight, Reading, Pushing, Looping, Target
  <2> QED
    BY <2>1, <2>2, <2>3
<1>7. CASE UNCHANGED <<call, dataVars>>
  <2>1. UNCHANGED <<call, tip, seen, pulls, falling>>
    BY <1>7 DEF dataVars, pullVars
  <2>2. ReadsRight'
    BY <1>0, <2>1
    DEF ReadsRight, ReadRight, FallsRight, Reading, Pushing, Looping, Target
  <2> QED
    BY <1>0, <2>1, <2>2, StillSettles, PullsKept
<1>8. ASSUME NEW r \in Repo, Edit(r), UNCHANGED dataVars PROVE UNCHANGED <<call, dataVars>>
  BY <1>8 DEF Edit
<1>9. (Exit /\ UNCHANGED dataVars) \/ UNCHANGED allVars => UNCHANGED <<call, dataVars>>
  BY DEF Exit, allVars, vars
<1> QED
  BY <1>1, <1>2, <1>3, <1>4, <1>5, <1>6, <1>7, <1>8, <1>9, <1>10 DEF DeliverNext, DeliverStep

LEMMA ReadInit == DeliverInit => ReadInv
<1> SUFFICES ASSUME DeliverInit PROVE ReadInv
  OBVIOUS
<1>1. CallerInv /\ MutexInv
  BY CallerInit, MutexInit DEF DeliverInit
<1>2. TipType /\ StartType /\ seen = <<>> /\ falling = <<>> /\ pulls = <<>>
  BY DeliverAssumption DEF DeliverInit, TipType, StartType, NoPulls
<1>3. PullsType
  BY <1>2 DEF PullsType
<1> QED
  BY <1>1, <1>2, <1>3 DEF ReadInv

(* What is read of a remote is there.                                      *)
LEMMA TargetPlace ==
  ASSUME ReadInv, NEW d \in DOMAIN call, Reading(d)
  PROVE  Target(d) \in Place
<1>1. RepoOf(d) \in Repo /\ call[d].at \in Nat \ {0}
  BY ReadingWrites DEF ReadInv, MutexInv, TypeOK, LocalVars
<1>2. CASE Looping(d, "pull") \/ Pushing(d)
  BY <1>1, <1>2, OperateAssumption DEF Looping, Pushing, Target, Place
<1>3. CASE call[d].pc = "push"
  BY <1>3, ReadingWrites DEF Place
<1> QED
  BY <1>2, <1>3 DEF Reading

(* Only a fetch reads.                                                     *)
LEMMA SeenStep ==
  ASSUME ReadInv, [DeliverNext]_allVars, NEW c \in DOMAIN seen'
  PROVE  \/ c \in DOMAIN seen /\ seen'[c] = seen[c]
         \/ /\ c \in DOMAIN call /\ Fetch(c) /\ Target(c) \in Place
            /\ seen'[c].theirs = tip[Target(c)]
<1>1. ASSUME NEW d \in DOMAIN call, Fetch(d)
      PROVE  \/ c \in DOMAIN seen /\ seen'[c] = seen[c]
             \/ /\ c = d /\ Target(d) \in Place
                /\ seen'[c].theirs = tip[Target(d)]
  <2>1. PICK fetched \in BOOLEAN :
          seen' = [e \in DOMAIN seen \cup {d} |->
                     IF e # d THEN seen[e]
                     ELSE [fetched |-> fetched, ours |-> tip[RepoOf(d)], theirs |-> tip[Target(d)]]]
    BY <1>1 DEF Fetch
  <2>2. Target(d) \in Place
    BY <1>1, TargetPlace DEF Fetch, Fetching, Reading
  <2> QED
    BY <2>1, <2>2
<1>2. ASSUME NEW d \in DOMAIN call, PullData(d) \/ SyncAndPush(d)
      PROVE  c \in DOMAIN seen /\ seen'[c] = seen[c]
  <2>1. Forget(d)
    BY <1>2 DEF PullData, SyncAndPush
  <2> QED
    BY <2>1, ForgetDomain
<1>3. CASE UNCHANGED seen \/ seen' = <<>>
  BY <1>3
<1>4. ASSUME NEW d \in DOMAIN call, Prepare(d) PROVE UNCHANGED seen
  BY <1>4, Prepares
<1> QED
  BY <1>1, <1>2, <1>3, <1>4
  DEF DeliverNext, DeliverStep, ControlStep, Propose, Interrupted, Answer, dataVars, allVars

----------------------------------------------------------------------------
(* Changes *)

(* What c makes of its branch has the changes that were there.             *)
LEMMA SyncedKeeps ==
  ASSUME ReadInv, NEW c \in DOMAIN seen, NEW history \in {Synced(c), seen[c].ours}
  PROVE  Changes(tip[RepoOf(c)]) \subseteq Changes(history)
<1>1. seen[c].ours = tip[RepoOf(c)]
  BY DEF ReadInv, ReadRight
<1>2. Changes(seen[c].ours) \subseteq Changes(Synced(c))
  BY UpdatedKeeps DEF Synced
<1> QED
  BY <1>1, <1>2

LEMMA ChangesKept ==
  ASSUME ReadInv, Settles, NEW q \in Place
  PROVE  Changes(tip[q]) \subseteq Changes(tip'[q])
<1>1. tip[q] \subseteq tip'[q] => Changes(tip[q]) \subseteq Changes(tip'[q])
  BY DEF Changes
<1>2. ASSUME NEW n \in DOMAIN pulls, tip'[q] = Merged(tip[q], pulls[n].commits, Network)
      PROVE  tip[q] \subseteq tip'[q]
  BY <1>2 DEF Merged
<1>3. tip'[q] = Committed(tip[q], Work, q) => tip[q] \subseteq tip'[q]
  BY DEF Committed
<1> QED
  BY <1>1, <1>2, <1>3, SyncedKeeps DEF Settles, Becomes

(* ChangesSurvive: whatever is pulled, rebased or merged, pushed, proposed *)
(* or interrupted, by however many calls at once, a branch never loses a   *)
(* change (updateBranchFromRemote, rebaseUpdateBranch).                    *)
THEOREM ChangesAreKept == DeliverSpec => ChangesSurvive
<1>1. ReadInv /\ [DeliverNext]_allVars =>
        [\A q \in Place : Changes(tip[q]) \subseteq Changes(tip'[q])]_tip
  BY ReadStep, ChangesKept
<1>2. ReadInv /\ [DeliverNext]_allVars => ReadInv'
  BY ReadStep
<1> QED
  BY ReadInit, <1>1, <1>2, PTL DEF DeliverSpec, ChangesSurvive

----------------------------------------------------------------------------
(* Without -rebase *)

(* What c makes of its branch then has the commits that were there, and    *)
(* new ones are merges of what somebody holds.                             *)
LEMMA SyncedGrows ==
  ASSUME SpreadInv, Rebase = FALSE, NEW c \in DOMAIN seen,
         NEW history \in {Synced(c), seen[c].ours}
  PROVE  /\ tip[RepoOf(c)] \subseteq history
         /\ \A x \in history \ Held : x.change \subseteq Held
<1>1. ReadRight(c) /\ c \in DOMAIN call /\ ReadInv
  BY DEF SpreadInv, ReadInv, ReadRight
<1>2. RepoOf(c) \in Place
  BY <1>1, ReadingWrites DEF ReadRight, Place
<1>3. seen[c].ours = tip[RepoOf(c)] /\ seen[c].ours \subseteq Held /\ seen[c].theirs \subseteq Held
  BY <1>1, <1>2 DEF ReadRight, Held, SpreadInv
<1>4. MayRebase(c) = FALSE
  BY DEF MayRebase
<1>5. MadeOf(Synced(c), seen[c].ours, seen[c].theirs)
  BY <1>4, UpdatedGains DEF Synced
<1> QED
  BY <1>3, <1>5 DEF MadeOf

LEMMA KnownIs == Sync!Known = Held \cup Proposals
  BY DEF Sync!Known, Held, Proposals

LEMMA SpreadStep ==
  ASSUME SpreadInv, Rebase = FALSE, [DeliverNext]_allVars
  PROVE  SpreadInv' /\ Sync!Gain /\ Sync!Propose
<1>1. ReadInv /\ ReadInv' /\ Settles /\ ProposesHeld /\ TipType'
  BY ReadStep DEF SpreadInv, Settles
<1>2. ASSUME NEW q \in Place
      PROVE  /\ tip[q] \subseteq tip'[q]
             /\ \A x \in tip'[q] \ (Held \cup Proposals) :
                  Sync!WorkAt(x, q) \/ x.change \subseteq Held \cup Proposals
  <2>1. tip[q] \subseteq Held /\ Becomes(q)
    BY <1>1 DEF Held, Settles
  <2>2. CASE tip'[q] = tip[q]
    BY <2>1, <2>2
  <2>3. ASSUME NEW c \in DOMAIN seen, tip'[q] \in {Synced(c), seen[c].ours},
               RepoOf(c) = q \/ tip[q] \subseteq tip'[q]
        PROVE  /\ tip[q] \subseteq tip'[q]
               /\ \A x \in tip'[q] \ Held : x.change \subseteq Held
    BY <2>3, SyncedGrows
  <2>4. ASSUME NEW n \in DOMAIN pulls, tip'[q] = Merged(tip[q], pulls[n].commits, Network)
        PROVE  /\ tip[q] \subseteq tip'[q]
               /\ \A x \in tip'[q] \ (Held \cup Proposals) : x.change \subseteq Held \cup Proposals
    <3>1. pulls[n].commits \subseteq Proposals
      BY DEF Proposals
    <3> QED
      BY <2>1, <2>4, <3>1 DEF Merged
  <2>5. CASE CommitMsg /\ tip'[q] = Committed(tip[q], Work, q)
    BY <2>1, <2>5 DEF Committed, Sync!WorkAt
  <2> QED
    BY <2>1, <2>2, <2>3, <2>4, <2>5 DEF Becomes
<1>3. Held \subseteq Held'
  BY <1>2 DEF Held, Place
<1>4. ASSUME NEW c \in DOMAIN seen' PROVE seen'[c].theirs \subseteq Held'
  <2>1. CASE c \in DOMAIN seen /\ seen'[c] = seen[c]
    BY <1>3, <2>1 DEF SpreadInv
  <2>2. CASE Target(c) \in Place /\ seen'[c].theirs = tip[Target(c)]
    BY <1>3, <2>2 DEF Held
  <2> QED
    BY <1>1, <2>1, <2>2, SeenStep
<1> QED
  BY <1>1, <1>2, <1>4, KnownIs
  DEF SpreadInv, Sync!Gain, Sync!Propose, Sync!MergesKnown, TipType, ProposesHeld, Proposals

(* However many sources push into, pull from and fall back beside one      *)
(* another, and whenever gitall is interrupted and started again, without  *)
(* -rebase no commit is lost from a branch, and none comes from nowhere    *)
(* but merges and what -m commits on the spot: no update-ref writes over   *)
(* what arrived after the tip was read (updateBranchFromRemote,            *)
(* maybeCommit).                                                           *)
THEOREM SpreadsOnly == Rebase = FALSE => (DeliverSpec => SpreadsHistories)
<1> SUFFICES ASSUME Rebase = FALSE PROVE DeliverSpec => SpreadsHistories
  OBVIOUS
<1>1. DeliverInit => SpreadInv
  BY ReadInit DEF DeliverInit, SpreadInv
<1>2. DeliverInit => Sync!Init
  BY DeliverAssumption DEF DeliverInit, Sync!Init, NoPulls
<1>3. SpreadInv /\ [DeliverNext]_allVars => SpreadInv'
  BY SpreadStep
<1>4. SpreadInv /\ [DeliverNext]_allVars =>
        [Sync!Gain /\ Sync!Propose]_<<tip, Proposals>>
  BY SpreadStep
<1> QED
  BY <1>1, <1>2, <1>3, <1>4, PTL DEF DeliverSpec, SpreadsHistories, Sync!Spec, Proposals

----------------------------------------------------------------------------
(* What a call has done *)

(* A step of d leaves the other calls as they are, makes new ones, and is  *)
(* not taken by a call that has returned; no result turns good again.      *)
LEMMA StepFrame ==
  ASSUME ReportInv, NEW d \in DOMAIN call, Step(d)
  PROVE  /\ call[d].pc # "done"
         /\ \A c \in DOMAIN call :
              /\ c \in DOMAIN call'
              /\ c # d => call'[c] = call[c]
              /\ call'[c].ok => call[c].ok
         /\ \A c \in DOMAIN call' \ DOMAIN call :
              /\ call'[c] = NewCall
              /\ \/ PrepThenFork(d) /\ c \in Children(d, "pull")
                 \/ ForkPush(d) /\ c \in Children(d, "pushOnly")
<1>0. TypeOK /\ call[d] \in LocalVars
  BY DEF ReportInv, CallerInv, TypeOK
<1>1. CASE PrepThenFork(d)
  <2>0. PICK edited \in Restored(RepoOf(d)) : CommitThenFork(d, edited)
    BY <1>1 DEF PrepThenFork
  <2> DEFINE local == [call[d] EXCEPT !.pc = "pullJoin", !.clean = Clean(d, edited)]
  <2>1. Fork(d, "pull", local) /\ call[d].pc = "prep"
    BY <2>0, <1>1 DEF PrepThenFork, CommitThenFork
  <2>2. /\ local.pc = JoinPC("pull") /\ local.ok = call[d].ok
        /\ "pull" \in Forked /\ "prep" \in Before("pull")
    BY <1>0 DEF JoinPC, LocalVars, Forked, Before
  <2> HIDE DEF local
  <2>3. Children(d, "pull") \cap DOMAIN call = {}
    BY <2>1, <2>2, StartedFork
  <2> QED
    BY <1>1, <2>1, <2>2, <2>3 DEF Fork
<1>2. CASE ForkPush(d)
  <2> DEFINE local == [call[d] EXCEPT !.pc = "pushJoin"]
  <2>1. Fork(d, "pushOnly", local) /\ call[d].pc = "sync"
    BY <1>2 DEF ForkPush
  <2>2. /\ local.pc = JoinPC("pushOnly") /\ local.ok = call[d].ok
        /\ "pushOnly" \in Forked /\ "sync" \in Before("pushOnly")
    BY <1>0 DEF JoinPC, LocalVars, Forked, Before, PC
  <2> HIDE DEF local
  <2>3. Children(d, "pushOnly") \cap DOMAIN call = {}
    BY <2>1, <2>2, StartedFork
  <2> QED
    BY <1>2, <2>1, <2>2, <2>3 DEF Fork
<1>3. CASE ~PrepThenFork(d) /\ ~ForkPush(d)
  <2>1. call'[d].ok => call[d].ok
    BY <1>0, <1>3, ResultStep DEF Keeps, Fails, Joins
  <2> QED
    BY <1>0, <1>3, <2>1, OwnStep
<1> QED
  BY <1>1, <1>2, <1>3

(* The calls of mode md that c started have all returned a good result.    *)
Returned(c, md) ==
  \A d \in Children(c, md) : d \in DOMAIN call /\ call[d].pc = "done" /\ call[d].ok

(* A call with a good result has gone through all its remotes, if it is    *)
(* past them and was not told to skip them, and its calls had good results *)
(* too. Only a call that finds its repository on its path does nothing.    *)
Walked(c) ==
  /\ IF ModeOf(c) = "pull" THEN call[c].pc \in {"enter", "lock", "prep", "pullJoin", "pull", "done"}
     ELSE call[c].pc # "pull"
  /\ CommitMsg => call[c].clean
  /\ call[c].ok /\ RepoOf(c) \notin Path(c) =>
       /\ call[c].pc \in {"pushJoin", "done"} =>
            ~call[c].clean \/ call[c].at > Len(Remotes[RepoOf(c)])
       /\ call[c].pc \in {"pull", "done"} =>
            Returned(c, IF ModeOf(c) = "pull" THEN "pull" ELSE "pushOnly")

WalkInv == ReportInv /\ \A c \in DOMAIN call : Walked(c)

LEMMA ReturnedKept ==
  ASSUME ReportInv, NEW d \in DOMAIN call, Step(d), NEW c, NEW md, Returned(c, md)
  PROVE  Returned(c, md)'
  BY StepFrame DEF Returned, Children, Child

(* A step of the call itself, apart from those that make other calls.      *)
LEMMA WalkedOwn ==
  ASSUME WalkInv, NEW c \in DOMAIN call, Step(c), ~PrepThenFork(c), ~ForkPush(c)
  PROVE  Walked(c)'
<1>0. /\ call \in [DOMAIN call -> LocalVars] /\ call[c] \in LocalVars /\ Walked(c) /\ c \in CallId
      /\ RepoOf(c) \in Repo
  BY CallType DEF WalkInv, ReportInv, CallerInv, TypeOK, CallId
<1>00. Len(Remotes[RepoOf(c)]) \in Nat
  BY <1>0, OperateAssumption
<1> DEFINE md == IF ModeOf(c) = "pull" THEN "pull" ELSE "pushOnly"
<1>1. CASE Cycle(c)
  <2>1. RepoOf(c) \in Path(c) /\ call'[c].pc = "done" /\ call'[c].clean = call[c].clean
    BY <1>0, <1>1 DEF Cycle, Goto, LocalVars
  <2> QED
    BY <1>0, <2>1 DEF Walked
<1>2. CASE Enter(c) \/ Lock(c) \/ PrepThenSync(c)
  <2>1. call'[c].pc \in {"lock", "prep"} \/ (call'[c].pc = "sync" /\ ModeOf(c) = "pushOnly")
    <3>1. CASE Enter(c) \/ Lock(c)
      BY <1>0, <3>1 DEF Enter, Lock, Goto, LocalVars
    <3>2. CASE PrepThenSync(c)
      <4>1. /\ ModeOf(c) = "pushOnly"
            /\ \E edited : call' = [call EXCEPT ![c].pc = "sync", ![c].clean = Clean(c, edited)]
        BY <3>2 DEF PrepThenSync, CommitThenSync
      <4> QED
        BY <1>0, <4>1 DEF LocalVars
    <3> QED
      BY <1>2, <3>1, <3>2
  <2>2. CommitMsg => call'[c].clean
    <3>1. CASE Enter(c) \/ Lock(c)
      BY <1>0, <3>1 DEF Enter, Lock, Goto, LocalVars, Walked
    <3>2. CASE PrepThenSync(c)
      <4>1. PICK edited :
              call' = [call EXCEPT ![c].pc = "sync", ![c].clean = Clean(c, edited)]
        BY <3>2 DEF PrepThenSync, CommitThenSync
      <4>2. call'[c].clean = Clean(c, edited)
        BY <1>0, <4>1 DEF LocalVars
      <4> QED
        BY <4>2 DEF Clean
    <3> QED
      BY <1>2, <3>1, <3>2
  <2> QED
    BY <2>1, <2>2 DEF Walked
<1>3. CASE PrepFails(c)
  <2>1. call'[c].pc = "done" /\ call'[c].ok = FALSE /\ call'[c].clean = call[c].clean
    BY <1>0, <1>3 DEF PrepFails, Return, LocalVars
  <2> QED
    BY <1>0, <2>1 DEF Walked
<1>4. CASE JoinPull(c)
  <2>1. /\ call'[c].pc = IF ModeOf(c) = "pull" THEN "pull" ELSE "sync"
        /\ call'[c].ok = (call[c].ok /\ AllOk(c, "pull"))
        /\ call'[c].clean = call[c].clean
        /\ call[c].pc = "pullJoin" /\ Joined(c, "pull")
    BY <1>0, <1>4 DEF JoinPull, LocalVars
  <2>2. Children(c, "pull") \subseteq DOMAIN call
    BY <2>1 DEF WalkInv, ReportInv, Started, Forked, JoinPC
  <2>3. call'[c].ok => Returned(c, "pull")
    BY <2>1, <2>2 DEF Joined, AllOk, Returned
  <2>4. call'[c].ok => Returned(c, "pull")'
    BY <2>3, ReturnedKept DEF WalkInv
  <2> QED
    BY <1>0, <2>1, <2>4 DEF Walked
<1>5. CASE PullDone(c)
  <2>1. /\ call[c].pc = "pull" /\ ~Looping(c, "pull") /\ ModeOf(c) = "pull"
        /\ call'[c] = [call[c] EXCEPT !.pc = "done", !.ok = call[c].ok]
    BY <1>0, <1>5 DEF PullDone, Return, Walked
  <2>2. /\ call'[c].pc = "done" /\ call'[c].ok = call[c].ok
        /\ call'[c].clean = call[c].clean /\ call'[c].at = call[c].at
    BY <1>0, <2>1 DEF LocalVars
  <2>3. ~call[c].clean \/ call[c].at > Len(Remotes[RepoOf(c)])
    BY <1>0, <1>00, <2>1 DEF Looping, LocalVars
  <2>4. Returned(c, "pull") => Returned(c, "pull")'
    BY ReturnedKept, <1>5 DEF WalkInv, Step
  <2> QED
    BY <1>0, <2>1, <2>2, <2>3, <2>4 DEF Walked
<1>6. CASE JoinPush(c)
  <2>1. /\ call[c].pc = "pushJoin" /\ Joined(c, "pushOnly") /\ ModeOf(c) # "pull"
        /\ call'[c] = [call[c] EXCEPT !.pc = "done", !.ok = call[c].ok /\ AllOk(c, "pushOnly")]
    BY <1>0, <1>6 DEF JoinPush, Return, Walked
  <2>2. /\ call'[c].pc = "done" /\ call'[c].ok = (call[c].ok /\ AllOk(c, "pushOnly"))
        /\ call'[c].clean = call[c].clean /\ call'[c].at = call[c].at
    BY <1>0, <2>1 DEF LocalVars
  <2>3. Children(c, "pushOnly") \subseteq DOMAIN call
    BY <2>1 DEF WalkInv, ReportInv, Started, Forked, JoinPC
  <2>4. call'[c].ok => Returned(c, "pushOnly")
    BY <2>1, <2>2, <2>3 DEF Joined, AllOk, Returned
  <2>5. call'[c].ok => Returned(c, "pushOnly")'
    BY <2>4, ReturnedKept DEF WalkInv
  <2> QED
    BY <1>0, <2>1, <2>2, <2>5 DEF Walked
<1>7. CASE PullRemote(c)
  <2>1. /\ call[c].pc = "pull" /\ SyncWith(c)
    BY <1>7 DEF PullRemote, Looping
  <2>2. /\ call'[c].pc = call[c].pc /\ call'[c].clean = call[c].clean
        /\ call'[c].ok => call[c].ok
    BY <1>0, <2>1 DEF SyncWith, LocalVars
  <2>3. Returned(c, md) => Returned(c, md)'
    BY ReturnedKept DEF WalkInv
  <2> QED
    BY <1>0, <2>1, <2>2, <2>3 DEF Walked
<1>8. CASE SyncNetwork(c) \/ ReachLocal(c) \/ LockRemote(c) \/ PushRemote(c) \/ CheckoutRemote(c)
  <2>1. /\ call[c].pc \in {"sync", "lockRemote", "push", "checkout"}
        /\ call'[c].pc \in {"sync", "lockRemote", "push", "checkout"}
        /\ call'[c].clean = call[c].clean
    <3>1. CASE SyncNetwork(c)
      <4>1. call[c].pc = "sync" /\ SyncWith(c)
        BY <3>1 DEF SyncNetwork, Pushing, Looping
      <4>2. call'[c].pc = call[c].pc /\ call'[c].clean = call[c].clean
        BY <1>0, <4>1 DEF SyncWith, LocalVars
      <4> QED
        BY <4>1, <4>2
    <3>2. CASE ReachLocal(c) \/ LockRemote(c) \/ CheckoutRemote(c)
      BY <1>0, <3>2 DEF ReachLocal, LockRemote, CheckoutRemote, Pushing, Looping, Goto, LocalVars
    <3>3. CASE PushRemote(c)
      BY <1>0, <3>3 DEF PushRemote, LocalVars
    <3> QED
      BY <1>8, <3>1, <3>2, <3>3
  <2> QED
    BY <1>0, <2>1 DEF Walked
<1> QED
  BY <1>1, <1>2, <1>3, <1>4, <1>5, <1>6, <1>7, <1>8 DEF Step

LEMMA WalkedStep ==
  ASSUME WalkInv, NEW d \in DOMAIN call, Step(d)
  PROVE  \A c \in DOMAIN call' : Walked(c)'
<1>0. /\ ReportInv /\ call[d] \in LocalVars /\ Walked(d) /\ d \in CallId
      /\ RepoOf(d) \in Repo
  BY CallType DEF WalkInv, ReportInv, CallerInv, TypeOK, CallId
<1>1. ASSUME NEW c \in DOMAIN call, c # d PROVE Walked(c)'
  <2>1. call'[c] = call[c] /\ Walked(c)
    BY <1>0, <1>1, StepFrame DEF WalkInv
  <2>2. \A md : Returned(c, md) => Returned(c, md)'
    BY <1>0, ReturnedKept
  <2> QED
    BY <2>1, <2>2 DEF Walked
<1>2. ASSUME NEW c \in DOMAIN call' \ DOMAIN call PROVE Walked(c)'
  <2>1. call'[c] = NewCall
    BY <1>0, <1>2, StepFrame
  <2> QED
    BY <2>1 DEF Walked, NewCall
<1>3. CASE PrepThenFork(d)
  <2>1. d \notin Children(d, "pull")
    BY <1>0, ChildType DEF Children, Mode
  <2>2. PICK edited : call'[d] = [call[d] EXCEPT !.pc = "pullJoin", !.clean = Clean(d, edited)]
    BY <1>3, <2>1 DEF PrepThenFork, CommitThenFork, Fork
  <2>3. call'[d].pc = "pullJoin" /\ call'[d].clean = Clean(d, edited)
    BY <1>0, <2>2 DEF LocalVars
  <2>4. Walked(d)'
    BY <2>3 DEF Walked, Clean
  <2> QED
    BY <1>1, <1>2, <2>4
<1>4. CASE ForkPush(d)
  <2>1. d \notin Children(d, "pushOnly")
    BY <1>0, ChildType DEF Children, Mode
  <2>2. call'[d] = [call[d] EXCEPT !.pc = "pushJoin"]
    BY <1>4, <2>1 DEF ForkPush, Fork
  <2>3. /\ call'[d].pc = "pushJoin" /\ call'[d].clean = call[d].clean /\ call'[d].at = call[d].at
        /\ call[d].pc = "sync"
    BY <1>0, <1>4, <2>2 DEF LocalVars, ForkPush
  <2>4. ~call[d].clean \/ call[d].at > Len(Remotes[RepoOf(d)])
    BY <1>0, <1>4, <2>3, OperateAssumption DEF ForkPush, Pushing, Looping, LocalVars
  <2>5. Walked(d)'
    BY <1>0, <2>3, <2>4 DEF Walked
  <2> QED
    BY <1>1, <1>2, <2>5
<1> QED
  BY <1>1, <1>2, <1>3, <1>4, WalkedOwn

LEMMA WalkNext == WalkInv /\ [Next]_vars => WalkInv'
<1> SUFFICES ASSUME WalkInv, [Next]_vars PROVE \A c \in DOMAIN call' : Walked(c)'
  BY ReportNext DEF WalkInv
<1>1. CASE \E c \in DOMAIN call : Step(c)
  BY <1>1, WalkedStep
<1>2. CASE Interrupt
  <2>1. \A c \in DOMAIN call' : call'[c] = NewCall
    BY <1>2 DEF Interrupt, FirstCalls
  <2> QED
    BY <2>1 DEF Walked, NewCall
<1>3. CASE UNCHANGED call
  <2>1. \A c, md : Returned(c, md)' <=> Returned(c, md)
    BY <1>3 DEF Returned
  <2> QED
    BY <1>3, <2>1 DEF WalkInv, Walked
<1> QED
  BY <1>1, <1>2, <1>3 DEF Next, Edit, Exit, vars

LEMMA WalkInit == Init => WalkInv
  BY CallerInit, ReportFirst DEF Init, ReportInv, WalkInv, Walked, FirstCalls, NewCall

(* What a call is, wherever it is.                                         *)
LEMMA CallRight ==
  ASSUME WalkInv, NEW c \in DOMAIN call
  PROVE  /\ c \in CallId /\ Len(c) \in Nat \ {0}
         /\ RepoOf(c) \in Repo /\ RepoOf(c) \in Place
         /\ call[c] \in LocalVars /\ call[c].at \in Nat \ {0} /\ call[c].ok \in BOOLEAN
         /\ call[c].pc \in {"lockRemote", "push", "checkout"} => Target(c) \in Repo
         /\ Above(c, Len(c)) = c
<1>1. c \in CallId /\ call[c] \in LocalVars
  BY DEF WalkInv, ReportInv, CallerInv, TypeOK, CallId
<1>2. call[c].pc \in {"lockRemote", "push", "checkout"} => Target(c) \in Repo
  BY DEF WalkInv, ReportInv, CallerInv, TypeOK, Target, LocalRemotes
<1> QED
  BY <1>1, <1>2, CallType, AboveSelf DEF LocalVars, CallId, None, Place

----------------------------------------------------------------------------
(* What is skipped, and for how long *)

(* A call starts clean, before its first remote. One that works has its    *)
(* repository not on its path; one that pushes into a local remote has     *)
(* found its own clean; and while it pushes, no caller above it can have   *)
(* the remote.                                                             *)
Aims(c) ==
  /\ call[c].pc \in {"enter", "lock", "prep"} => call[c].clean /\ call[c].at = 1
  /\ call[c].pc \notin {"enter", "done"} => RepoOf(c) \notin Path(c)
  /\ call[c].pc \in {"lockRemote", "push", "checkout"} => call[c].clean
  /\ call[c].pc \in {"push", "checkout"} => Target(c) \notin Path(c) \cup {RepoOf(c)}

AimInv == WalkInv /\ MutexInv /\ \A c \in DOMAIN call : Aims(c)

(* A call waits for a mutex that none of its callers has.                  *)
LEMMA LockAims ==
  ASSUME WalkInv, MutexInv, NEW c \in DOMAIN call, LockRemote(c)
  PROVE  Target(c) \notin Path(c) \cup {RepoOf(c)}
<1>0. /\ c \in CallId /\ c \in Live /\ call[c].pc = "lockRemote" /\ owner[Target(c)] = None
      /\ CallerInv /\ \A k \in 1..(Len(c) - 1) : owner[c[k].repo] = Above(c, k)
  BY CallRight, CallersImply DEF LockRemote, Live, WalkInv, ReportInv, CallersHoldPath, Above
<1>1. owner[RepoOf(c)] = c
  BY <1>0 DEF MutexInv, HoldsOwn, Holding, PC
<1>2. ASSUME NEW k \in 1..(Len(c) - 1) PROVE Above(c, k) # None
  BY <1>0, <1>2 DEF CallerInv, Ancestry, TypeOK, None
<1> QED
  BY <1>0, <1>1, <1>2 DEF Path, CallId

LEMMA AimsStep ==
  ASSUME AimInv, NEW c \in DOMAIN call, Step(c)
  PROVE  Aims(c)'
<1>0. /\ call[c] \in LocalVars /\ call \in [DOMAIN call -> LocalVars] /\ Aims(c) /\ c \in CallId
      /\ Walked(c) /\ WalkInv /\ MutexInv
  BY CallRight DEF AimInv, WalkInv, ReportInv, CallerInv, TypeOK
<1>1. ASSUME call'[c].pc = "done" PROVE Aims(c)'
  BY <1>1 DEF Aims
<1>2. ASSUME call'[c].pc \in {"pullJoin", "pull", "sync", "pushJoin"}, RepoOf(c) \notin Path(c)
      PROVE  Aims(c)'
  BY <1>2 DEF Aims
<1>3. CASE Cycle(c) \/ PrepFails(c) \/ PullDone(c) \/ JoinPush(c)
  <2>1. call'[c].pc = "done"
    <3>1. CASE Cycle(c)
      BY <1>0, <3>1 DEF Cycle, Goto, LocalVars
    <3>2. CASE ~Cycle(c)
      <4>1. \E ok : call' = [call EXCEPT ![c].pc = "done", ![c].ok = ok]
        BY <1>3, <3>2 DEF PrepFails, PullDone, JoinPush, Return
      <4> QED
        BY <1>0, <4>1 DEF LocalVars
    <3> QED
      BY <3>1, <3>2
  <2> QED
    BY <1>1, <2>1
<1>11. CASE Enter(c) \/ Lock(c)
  <2>1. /\ call'[c].pc \in {"lock", "prep"} /\ call[c].pc \in {"enter", "lock"}
        /\ call'[c].clean = call[c].clean /\ call'[c].at = call[c].at
    BY <1>0, <1>11 DEF Enter, Lock, Goto, LocalVars
  <2>2. RepoOf(c) \notin Path(c)
    BY <1>0, <1>11 DEF Enter, Lock, Aims
  <2> QED
    BY <1>0, <2>1, <2>2 DEF Aims
<1>4. CASE PrepThenSync(c) \/ JoinPull(c)
  <2>1. /\ call'[c].pc \in {"sync", "pull"}
        /\ call[c].pc \in {"prep", "pullJoin"}
    <3>3. CASE PrepThenSync(c)
      BY <1>0, <3>3 DEF PrepThenSync, CommitThenSync, LocalVars
    <3>4. CASE JoinPull(c)
      BY <1>0, <3>4 DEF JoinPull, LocalVars
    <3> QED
      BY <1>4, <3>3, <3>4
  <2>2. RepoOf(c) \notin Path(c)
    BY <1>0, <2>1 DEF Aims
  <2> QED
    BY <1>2, <2>1, <2>2
<1>5. CASE PrepThenFork(c) \/ ForkPush(c)
  <2>1. c \notin Children(c, "pull") /\ c \notin Children(c, "pushOnly")
    BY <1>0, ChildType DEF Children, Mode
  <2>2. call'[c].pc \in {"pullJoin", "pushJoin"} /\ call[c].pc \in {"prep", "sync"}
    <3>1. CASE PrepThenFork(c)
      <4>1. /\ call[c].pc = "prep"
            /\ \E edited :
                 call'[c] = [call[c] EXCEPT !.pc = "pullJoin", !.clean = Clean(c, edited)]
        BY <2>1, <3>1 DEF PrepThenFork, CommitThenFork, Fork
      <4> QED
        BY <1>0, <4>1 DEF LocalVars
    <3>2. CASE ForkPush(c)
      BY <1>0, <2>1, <3>2 DEF ForkPush, Fork, LocalVars
    <3> QED
      BY <1>5, <3>1, <3>2
  <2> QED
    BY <1>0, <1>2, <2>2 DEF Aims
<1>6. CASE PullRemote(c) \/ SyncNetwork(c)
  <2>1. SyncWith(c) /\ call[c].pc \in {"pull", "sync"}
    BY <1>6 DEF PullRemote, SyncNetwork, Pushing, Looping
  <2>2. call'[c].pc = call[c].pc
    BY <1>0, <2>1 DEF SyncWith, LocalVars
  <2> QED
    BY <1>0, <1>2, <2>1, <2>2 DEF Aims
<1>7. CASE ReachLocal(c)
  <2>1. /\ call[c].pc = "sync" /\ call[c].clean
        /\ call'[c].pc = "lockRemote" /\ call'[c].clean = call[c].clean
    BY <1>0, <1>7 DEF ReachLocal, Pushing, Looping, Goto, LocalVars
  <2> QED
    BY <1>0, <2>1 DEF Aims
<1>8. CASE LockRemote(c)
  <2>1. /\ call[c].pc = "lockRemote" /\ call'[c].pc = "push"
        /\ call'[c].clean = call[c].clean /\ call'[c].at = call[c].at
    BY <1>0, <1>8 DEF LockRemote, Goto, LocalVars
  <2>2. Target(c) \notin Path(c) \cup {RepoOf(c)}
    BY <1>0, <1>8, LockAims
  <2> QED
    BY <1>0, <2>1, <2>2 DEF Aims, Target
<1>9. CASE PushRemote(c)
  <2>1. PICK good \in BOOLEAN :
          call' = IF good
                  THEN [call EXCEPT ![c].pc = "checkout"]
                  ELSE [call EXCEPT ![c].pc = "sync", ![c].at = @ + 1, ![c].ok = FALSE]
    BY <1>9 DEF PushRemote
  <2>2. CASE good
    <3>1. /\ call[c].pc = "push" /\ call'[c].pc = "checkout"
          /\ call'[c].clean = call[c].clean /\ call'[c].at = call[c].at
      BY <1>0, <1>9, <2>1, <2>2 DEF PushRemote, LocalVars
    <3> QED
      BY <1>0, <3>1 DEF Aims, Target
  <2>3. CASE ~good
    <3>1. call[c].pc = "push" /\ call'[c].pc = "sync"
      BY <1>0, <1>9, <2>1, <2>3 DEF PushRemote, LocalVars
    <3> QED
      BY <1>0, <1>2, <3>1 DEF Aims
  <2> QED
    BY <2>2, <2>3
<1>10. CASE CheckoutRemote(c)
  <2>1. call[c].pc = "checkout" /\ call'[c].pc = "sync"
    BY <1>0, <1>10 DEF CheckoutRemote, LocalVars
  <2> QED
    BY <1>0, <1>2, <2>1 DEF Aims
<1> QED
  BY <1>3, <1>4, <1>5, <1>6, <1>7, <1>8, <1>9, <1>10, <1>11 DEF Step

LEMMA AimNext == AimInv /\ [Next]_vars => AimInv'
<1> SUFFICES ASSUME AimInv, [Next]_vars PROVE \A c \in DOMAIN call' : Aims(c)'
  BY WalkNext, MutexNext DEF AimInv
<1>0. ReportInv
  BY DEF AimInv, WalkInv
<1>1. ASSUME NEW d \in DOMAIN call, Step(d), NEW c \in DOMAIN call' PROVE Aims(c)'
  <2>1. CASE c = d
    BY <1>1, <2>1, AimsStep
  <2>2. CASE c \in DOMAIN call /\ c # d
    <3>1. call'[c] = call[c] /\ Aims(c)
      BY <1>0, <1>1, <2>2, StepFrame DEF AimInv
    <3> QED
      BY <3>1 DEF Aims, Target
  <2>3. CASE c \notin DOMAIN call
    <3>1. call'[c] = NewCall
      BY <1>0, <1>1, <2>3, StepFrame
    <3> QED
      BY <3>1 DEF Aims, NewCall
  <2> QED
    BY <2>1, <2>2, <2>3
<1>2. CASE Interrupt
  <2>1. \A c \in DOMAIN call' : call'[c] = NewCall
    BY <1>2 DEF Interrupt, FirstCalls
  <2> QED
    BY <2>1 DEF Aims, NewCall
<1>3. CASE UNCHANGED call
  BY <1>3 DEF AimInv, Aims, Target
<1> QED
  BY <1>1, <1>2, <1>3 DEF Next, Edit, Exit, vars

LEMMA AimInit == Init => AimInv
  BY WalkInit, MutexInit DEF Init, FirstCalls, NewCall, AimInv, Aims

(* What a call found when it looked it does not look for again.            *)
LEMMA CleanKept ==
  ASSUME AimInv, NEW d \in DOMAIN call, Step(d)
  PROVE  /\ call'[d].clean => call[d].clean
         /\ call[d].pc = "prep" => call'[d].at = call[d].at
<1>0. call[d] \in LocalVars /\ call \in [DOMAIN call -> LocalVars] /\ Aims(d) /\ d \in CallId
  BY CallRight DEF AimInv, WalkInv, ReportInv, CallerInv, TypeOK
<1>1. CASE call[d].pc = "prep"
  <2>1. call[d].clean
    BY <1>0, <1>1 DEF Aims
  <2>2. CASE PrepFails(d)
    BY <1>0, <2>1, <2>2 DEF PrepFails, Return, LocalVars
  <2>3. CASE PrepThenSync(d)
    BY <1>0, <2>1, <2>3 DEF PrepThenSync, CommitThenSync, LocalVars
  <2>4. CASE PrepThenFork(d)
    <3>1. d \notin Children(d, "pull")
      BY <1>0, ChildType DEF Children, Mode
    <3>2. \E edited : call'[d] = [call[d] EXCEPT !.pc = "pullJoin", !.clean = Clean(d, edited)]
      BY <2>4, <3>1 DEF PrepThenFork, CommitThenFork, Fork
    <3> QED
      BY <1>0, <2>1, <3>2 DEF LocalVars
  <2> QED
    BY <1>1, <2>2, <2>3, <2>4
    DEF Step, Cycle, Enter, Lock, JoinPull, PullRemote, PullDone, SyncNetwork, ReachLocal,
        LockRemote, PushRemote, CheckoutRemote, ForkPush, JoinPush, Pushing, Looping
<1>2. CASE call[d].pc # "prep"
  <2>1. CASE Cycle(d) \/ Enter(d) \/ Lock(d) \/ JoinPull(d) \/ ReachLocal(d) \/ LockRemote(d)
    BY <1>0, <2>1
    DEF Cycle, Enter, Lock, JoinPull, ReachLocal, LockRemote, Goto, LocalVars
  <2>2. CASE PullDone(d) \/ JoinPush(d)
    <3>1. \E ok : call' = [call EXCEPT ![d].pc = "done", ![d].ok = ok]
      BY <2>2 DEF PullDone, JoinPush, Return
    <3> QED
      BY <1>0, <1>2, <3>1 DEF LocalVars
  <2>3. CASE PullRemote(d) \/ SyncNetwork(d)
    <3>1. SyncWith(d)
      BY <2>3 DEF PullRemote, SyncNetwork
    <3> QED
      BY <1>0, <1>2, <3>1 DEF SyncWith, LocalVars
  <2>4. CASE PushRemote(d) \/ CheckoutRemote(d)
    BY <1>0, <1>2, <2>4 DEF PushRemote, CheckoutRemote, LocalVars
  <2>5. CASE ForkPush(d)
    <3>1. d \notin Children(d, "pushOnly")
      BY <1>0, ChildType DEF Children, Mode
    <3>2. call'[d] = [call[d] EXCEPT !.pc = "pushJoin"]
      BY <2>5, <3>1 DEF ForkPush, Fork
    <3> QED
      BY <1>0, <1>2, <3>2 DEF LocalVars
  <2> QED
    BY <1>2, <2>1, <2>2, <2>3, <2>4, <2>5
    DEF Step, PrepFails, PrepThenFork, PrepThenSync, CommitThenFork, CommitThenSync
<1> QED
  BY <1>1, <1>2

(* So what was skipped stays skipped until gitall is interrupted.          *)
LEMMA SkippedKept ==
  ASSUME AimInv, NEW d \in DOMAIN call, Step(d)
  PROVE  Skipped \subseteq Skipped'
<1> SUFFICES ASSUME NEW c \in DOMAIN call, ~call[c].clean PROVE RepoOf(c) \in Skipped'
  BY DEF Skipped
<1>1. c \in DOMAIN call' /\ ~call'[c].clean
  BY StepFrame, CleanKept DEF AimInv, WalkInv
<1> QED
  BY <1>1 DEF Skipped

----------------------------------------------------------------------------
(* What a push has delivered *)

(* What is in q, or has been proposed to it.                               *)
Reach(q) == tip[q] \cup (IF q = Network THEN Proposed ELSE {})

(* The branch c has pushed for a pull request that is still to be created. *)
Pushed(c, h) ==
  c \in DOMAIN falling /\ falling[c].stage = "create" =>
    h \subseteq
      proposed \cup (IF falling[c].number \in DOMAIN pulls
                     THEN pulls[falling[c].number].commits ELSE {})

(* The commits h are in c's repository, and in what c has pushed to.       *)
Carries(c, h) ==
  /\ h \subseteq tip[RepoOf(c)]
  /\ \A i \in 1..Len(Remotes[RepoOf(c)]) :
       i < call[c].at => h \subseteq Reach(Remotes[RepoOf(c)][i])
  /\ call[c].pc = "checkout" => h \subseteq tip[Target(c)]
  /\ Pushed(c, h)

(* A branch of a pull request only gains commits, until people have had it *)
(* before them.                                                            *)
PullsGrow ==
  /\ proposed \subseteq proposed'
  /\ \A n \in DOMAIN pulls :
       \/ /\ n \in DOMAIN pulls' /\ pulls[n].commits \subseteq pulls'[n].commits
          /\ pulls[n].open => pulls'[n].open \/ pulls[n].commits \subseteq proposed'
       \/ pulls[n].commits \subseteq proposed'

LEMMA PullsStep ==
  ASSUME ReadInv, [DeliverNext]_allVars
  PROVE  PullsGrow
<1>0. PullsType
  BY DEF ReadInv
<1>1. CASE UNCHANGED <<pulls, proposed>>
  BY <1>1 DEF PullsGrow
<1>2. ASSUME NEW n, NEW history, PushTo(n, history), proposed \subseteq proposed'
      PROVE  PullsGrow
  BY <1>2 DEF PushTo, PullsGrow
<1>3. ASSUME NEW n \in DOMAIN pulls, NEW open, open = TRUE,
               pulls' = [pulls EXCEPT ![n].open = open], UNCHANGED proposed
      PROVE  PullsGrow
  <2>1. pulls[n] = [commits |-> pulls[n].commits, open |-> pulls[n].open]
    BY <1>0 DEF PullsType
  <2>2. [pulls[n] EXCEPT !.open = open] = [commits |-> pulls[n].commits, open |-> open]
    BY <2>1
  <2>3. /\ DOMAIN pulls' = DOMAIN pulls
        /\ pulls'[n] = [commits |-> pulls[n].commits, open |-> open]
        /\ \A k \in DOMAIN pulls : k # n => pulls'[k] = pulls[k]
    BY <1>0, <1>3, <2>2 DEF PullsType
  <2> QED
    BY <1>3, <2>3 DEF PullsGrow
<1>4. ASSUME NEW n \in DOMAIN pulls, Answer(n) PROVE PullsGrow
  <2>1. /\ proposed' = proposed \cup pulls[n].commits
        /\ \/ pulls' = [pulls EXCEPT ![n].open = FALSE]
           \/ pulls' = Restrict(pulls, DOMAIN pulls \ {n})
    BY <1>4 DEF Answer, Review
  <2>2. \A k \in DOMAIN pulls : k # n => k \in DOMAIN pulls' /\ pulls'[k] = pulls[k]
    BY <2>1 DEF Restrict
  <2> QED
    BY <2>1, <2>2 DEF PullsGrow
<1>5. ASSUME NEW c \in DOMAIN call, DeliverStep(c) PROVE PullsGrow
  <2>1. CASE Propose(c)
    <3>1. CASE UNCHANGED pulls /\ UNCHANGED proposed
      BY <1>1, <3>1
    <3>2. CASE PushBranch(c, tip[RepoOf(c)]) /\ UNCHANGED proposed
      BY <1>2, <3>2 DEF PushBranch
    <3>3. CASE UpdatePull(c, tip[RepoOf(c)]) /\ proposed' = proposed \cup tip[RepoOf(c)]
      BY <1>2, <3>3 DEF UpdatePull
    <3>4. CASE CreatePull(c) /\ UNCHANGED proposed
      BY <1>3, <3>4 DEF CreatePull
    <3> QED
      BY <2>1, <3>1, <3>2, <3>3, <3>4 DEF Propose, ListPulls, NumberBranch, GiveUp
  <2>2. CASE ControlStep(c) \/ Fetch(c) \/ PullData(c) \/ SyncAndPush(c)
    BY <1>1, <2>2
    DEF ControlStep, Fetch, PullData, SyncAndPush, PushData, FallBack, dataVars, pullVars
  <2>3. CASE Prepare(c)
    BY <1>1, <2>3, Prepares DEF pullVars
  <2> QED
    BY <1>5, <2>1, <2>2, <2>3 DEF DeliverStep
<1>6. CASE Interrupted
  BY <1>1, <1>6 DEF Interrupted
<1> QED
  BY <1>1, <1>4, <1>5, <1>6 DEF DeliverNext, dataVars, allVars, pullVars

LEMMA ProposedGrows == PullsGrow => Proposed \subseteq Proposed'
<1> SUFFICES ASSUME PullsGrow, NEW x \in Proposed PROVE x \in Proposed'
  OBVIOUS
<1>1. CASE x \in proposed
  BY <1>1 DEF PullsGrow, Proposed
<1>2. ASSUME NEW n \in DOMAIN pulls, pulls[n].open, x \in pulls[n].commits
      PROVE  x \in Proposed'
  BY <1>2 DEF PullsGrow, Proposed
<1> QED
  BY <1>1, <1>2 DEF Proposed

(* What holds of every step: nothing that was delivered is taken back.     *)
Onward ==
  /\ \A q \in Place : tip[q] \subseteq tip'[q]
  /\ PullsGrow

LEMMA OnwardStep ==
  ASSUME SpreadInv, Rebase = FALSE, [DeliverNext]_allVars
  PROVE  Onward
<1>1. Sync!Gain /\ PullsGrow
  BY SpreadStep, PullsStep DEF SpreadInv
<1> QED
  BY <1>1 DEF Onward, Sync!Gain

LEMMA ReachGrows ==
  ASSUME Onward, NEW q \in Place
  PROVE  Reach(q) \subseteq Reach(q)'
  BY ProposedGrows DEF Onward, Reach

LEMMA PushedKept ==
  ASSUME Onward, NEW c, NEW h, Pushed(c, h),
         c \in DOMAIN falling' => c \in DOMAIN falling /\ falling'[c] = falling[c]
  PROVE  Pushed(c, h)'
  BY DEF Onward, PullsGrow, Pushed

LEMMA RemotePlace ==
  ASSUME NEW r \in Repo, NEW i \in 1..Len(Remotes[r])
  PROVE  Remotes[r][i] \in Place
  BY OperateAssumption DEF Place

(* What c has delivered stays delivered; and what it delivers with a step  *)
(* of its own is said here.                                                *)
LEMMA CarriesOn ==
  ASSUME WalkInv, Onward, NEW c \in DOMAIN call, NEW h, Carries(c, h),
         \/ call'[c].at = call[c].at
         \/ /\ call'[c].at = call[c].at + 1
            /\ \E q \in Place : q = Target(c) /\ h \subseteq Reach(q)',
         call'[c].pc = "checkout" =>
           call'[c].at = call[c].at /\ (call[c].pc = "checkout" \/ h \subseteq tip'[Target(c)]),
         Pushed(c, h)'
  PROVE  Carries(c, h)'
<1>1. /\ RepoOf(c) \in Repo /\ RepoOf(c) \in Place /\ call[c].at \in Nat
      /\ call[c].pc = "checkout" => Target(c) \in Repo
  BY CallRight
<1>2. ASSUME NEW i \in 1..Len(Remotes[RepoOf(c)]), i < call'[c].at
      PROVE  h \subseteq Reach(Remotes[RepoOf(c)][i])'
  <2>1. CASE i < call[c].at
    BY <1>1, <2>1, RemotePlace, ReachGrows DEF Carries
  <2>2. CASE ~(i < call[c].at)
    <3>1. i = call[c].at /\ call'[c].at = call[c].at + 1
      BY <1>1, <1>2, <2>2
    <3>2. Remotes[RepoOf(c)][i] = Target(c)
      BY <3>1 DEF Target
    <3> QED
      BY <3>1, <3>2
  <2> QED
    BY <2>1, <2>2
<1>3. call'[c].pc = "checkout" => h \subseteq tip'[Target(c)']
  BY <1>1 DEF Carries, Onward, Target, Place
<1>4. h \subseteq tip'[RepoOf(c)]
  BY <1>1 DEF Carries, Onward
<1> QED
  BY <1>2, <1>3, <1>4 DEF Carries

LEMMA ControlCarries ==
  ASSUME WalkInv, SpreadInv, Onward, NEW c \in DOMAIN call, NEW h, ControlStep(c), Carries(c, h)
  PROVE  Carries(c, h)'
<1>0. /\ WalkInv /\ call[c] \in LocalVars /\ call \in [DOMAIN call -> LocalVars] /\ c \in CallId
      /\ UNCHANGED <<tip, falling>>
  BY CallRight DEF WalkInv, ReportInv, CallerInv, TypeOK, ControlStep, dataVars, pullVars
<1>1. Pushed(c, h)'
  BY <1>0, PushedKept DEF Carries
<1>2. CASE Cycle(c) \/ Enter(c) \/ Lock(c) \/ ReachLocal(c) \/ LockRemote(c)
  <2>1. call'[c].at = call[c].at /\ call'[c].pc # "checkout"
    BY <1>0, <1>2 DEF Cycle, Enter, Lock, ReachLocal, LockRemote, Goto, LocalVars
  <2> QED
    BY <1>0, <1>1, <2>1, CarriesOn
<1>3. CASE PrepFails(c) \/ PullDone(c) \/ JoinPush(c)
  <2>0. PICK ok \in BOOLEAN : call' = [call EXCEPT ![c].pc = "done", ![c].ok = ok]
    BY <1>0, <1>3 DEF PrepFails, PullDone, JoinPush, Return, AllOk, LocalVars
  <2>1. call'[c].at = call[c].at /\ call'[c].pc # "checkout"
    BY <1>0, <2>0 DEF LocalVars
  <2> QED
    BY <1>0, <1>1, <2>1, CarriesOn
<1>4. CASE JoinPull(c)
  <2>1. call'[c].at = call[c].at /\ call'[c].pc # "checkout"
    BY <1>0, <1>4 DEF JoinPull, LocalVars
  <2> QED
    BY <1>0, <1>1, <2>1, CarriesOn
<1>5. CASE ForkPush(c)
  <2>1. c \notin Children(c, "pushOnly")
    BY <1>0, ChildType DEF Children, Mode
  <2>2. call'[c].at = call[c].at /\ call'[c].pc # "checkout"
    BY <1>0, <1>5, <2>1 DEF ForkPush, Fork, LocalVars
  <2> QED
    BY <1>0, <1>1, <2>2, CarriesOn
<1>6. CASE CheckoutRemote(c)
  <2>1. call'[c].at = call[c].at + 1 /\ call'[c].pc = "sync" /\ call[c].pc = "checkout"
    BY <1>0, <1>6 DEF CheckoutRemote, LocalVars
  <2>2. Target(c) \in Place /\ h \subseteq tip[Target(c)]
    BY <1>0, <2>1, CallRight DEF Carries, Place
  <2>3. PICK q \in Place : q = Target(c) /\ h \subseteq tip[q]
    BY <2>2
  <2>4. h \subseteq Reach(q)'
    BY <2>3 DEF Onward, Reach
  <2> QED
    BY <1>0, <1>1, <2>1, <2>3, <2>4, CarriesOn
<1> QED
  BY <1>2, <1>3, <1>4, <1>5, <1>6 DEF ControlStep

LEMMA PrepareStays ==
  ASSUME WalkInv, NEW c \in DOMAIN call, Prepare(c)
  PROVE  call'[c].pc # "checkout"
<1>0. call[c] \in LocalVars /\ call \in [DOMAIN call -> LocalVars] /\ c \in CallId
  BY CallRight DEF WalkInv, ReportInv, CallerInv, TypeOK
<1>1. c \notin Children(c, "pull")
  BY <1>0, ChildType DEF Children, Mode
<1>2. CASE PrepThenSync(c)
  BY <1>0, <1>2 DEF PrepThenSync, CommitThenSync, LocalVars
<1>3. CASE PrepThenFork(c)
  <2>1. \E edited : call'[c] = [call[c] EXCEPT !.pc = "pullJoin", !.clean = Clean(c, edited)]
    BY <1>1, <1>3 DEF PrepThenFork, CommitThenFork, Fork
  <2> QED
    BY <1>0, <2>1 DEF LocalVars
<1> QED
  BY <1>2, <1>3, Prepares

(* Committing takes nothing away.                                          *)
LEMMA PrepareCarries ==
  ASSUME WalkInv, AimInv, Onward, NEW c \in DOMAIN call, NEW h, Prepare(c), Carries(c, h)
  PROVE  Carries(c, h)'
<1>1. Step(c) /\ call[c].pc = "prep" /\ UNCHANGED falling
  BY Prepares DEF Step, pullVars
<1>2. Pushed(c, h)'
  BY <1>1, PushedKept DEF Carries
<1>3. call'[c].at = call[c].at
  BY <1>1, CleanKept
<1>4. call'[c].pc # "checkout"
  BY PrepareStays
<1> QED
  BY <1>2, <1>3, <1>4, CarriesOn

(* A step of the loop: the remote is done with, or the files of a local    *)
(* one are still to be refreshed, or there was an error.                   *)
LEMMA LoopStep ==
  ASSUME WalkInv, NEW c \in DOMAIN call
  PROVE  /\ SyncNetwork(c) =>
              /\ call'[c].at = call[c].at + 1 /\ call'[c].pc = "sync"
              /\ Target(c) = Network
         /\ PushRemote(c) /\ call'[c].ok =>
              call'[c].at = call[c].at /\ call'[c].pc = "checkout"
<1>0. call[c] \in LocalVars /\ call \in [DOMAIN call -> LocalVars]
  BY CallRight DEF WalkInv, ReportInv, CallerInv, TypeOK
<1>1. ASSUME SyncNetwork(c)
      PROVE  call'[c].at = call[c].at + 1 /\ call'[c].pc = "sync" /\ Target(c) = Network
  <2>1. SyncWith(c) /\ call[c].pc = "sync" /\ Target(c) = Network
    BY <1>1 DEF SyncNetwork, Pushing, Looping
  <2>2. call'[c].at = call[c].at + 1 /\ call'[c].pc = call[c].pc
    BY <1>0, <2>1 DEF SyncWith, LocalVars
  <2> QED
    BY <2>1, <2>2
<1>2. ASSUME PushRemote(c), call'[c].ok
      PROVE  call'[c].at = call[c].at /\ call'[c].pc = "checkout"
  <2> PICK good \in BOOLEAN :
        call' = IF good
                THEN [call EXCEPT ![c].pc = "checkout"]
                ELSE [call EXCEPT ![c].pc = "sync", ![c].at = @ + 1, ![c].ok = FALSE]
    BY <1>2 DEF PushRemote
  <2>1. CASE good
    BY <1>0, <2>1 DEF LocalVars
  <2>2. CASE ~good
    <3>1. call'[c].ok = FALSE
      BY <1>0, <2>2 DEF LocalVars
    <3> QED
      BY <1>2, <3>1
  <2> QED
    BY <2>1, <2>2
<1> QED
  BY <1>1, <1>2

LEMMA SyncCarries ==
  ASSUME WalkInv, SpreadInv, Rebase = FALSE, Onward, NEW c \in DOMAIN call, NEW h, SyncAndPush(c),
         Carries(c, h), call'[c].ok
  PROVE  Carries(c, h)'
<1>0. /\ WalkInv /\ ReadInv /\ TipType /\ RepoOf(c) \in Place
      /\ c \in DOMAIN seen /\ Reading(c) /\ Target(c) \in Place
  BY CallMoves, TargetPlace, CallRight DEF SpreadInv, ReadInv
<1>1. PICK history \in {Synced(c), seen[c].ours} : PushData(c, history)
  BY DEF SyncAndPush
<1>2. h \subseteq history
  <2>1. tip[RepoOf(c)] \subseteq history
    BY <1>0, SyncedGrows
  <2> QED
    BY <2>1 DEF Carries
<1>3. CASE /\ Accepts(Target(c), history)
           /\ SyncNetwork(c) \/ PushRemote(c)
           /\ tip' = [tip EXCEPT ![RepoOf(c)] = history, ![Target(c)] = history]
           /\ UNCHANGED pullVars
  <2>1. Pushed(c, h)'
    BY <1>3, PushedKept DEF pullVars, Carries
  <2>2. tip'[Target(c)] = history
    BY <1>0, <1>3 DEF TipType
  <2>3. PICK q \in Place : q = Target(c) /\ tip'[q] = history
    BY <1>0, <2>2
  <2>4. h \subseteq Reach(q)'
    BY <1>2, <2>3 DEF Reach
  <2>5. CASE SyncNetwork(c)
    BY <1>0, <2>1, <2>3, <2>4, <2>5, LoopStep, CarriesOn
  <2>6. CASE PushRemote(c)
    BY <1>0, <1>2, <2>1, <2>2, <2>6, LoopStep, CarriesOn
  <2> QED
    BY <1>3, <2>5, <2>6
<1>4. CASE FallBack(c) /\ UNCHANGED vars
  <2>1. call' = call /\ falling'[c].stage = "list"
    BY <1>4 DEF vars, FallBack, Enters
  <2>2. Pushed(c, h)'
    BY <2>1 DEF Pushed
  <2>3. call[c].pc # "checkout"
    BY <1>0 DEF Reading, Looping, Pushing
  <2> QED
    BY <1>0, <2>1, <2>2, <2>3, CarriesOn
<1> QED
  BY <1>1, <1>3, <1>4 DEF PushData

LEMMA ProposeCarries ==
  ASSUME WalkInv, SpreadInv, Onward, NEW c \in DOMAIN call, NEW h, Propose(c),
         Carries(c, h), call'[c].ok
  PROVE  Carries(c, h)'
<1>0. /\ WalkInv /\ ReadInv /\ RepoOf(c) \in Place /\ UNCHANGED tip
      /\ h \subseteq tip[RepoOf(c)] /\ Network \in Place
  BY CallRight DEF SpreadInv, Propose, Carries, Onward, Place
<1>1. c \in DOMAIN falling /\ FallsRight(c) /\ Target(c) = Network /\ call[c].pc = "sync"
  BY <1>0 DEF Propose, ListPulls, NumberBranch, PushBranch, UpdatePull, CreatePull, GiveUp, At,
              ReadInv, FallsRight, Pushing, Looping
<1> DEFINE history == tip[RepoOf(c)]
<1>2. CASE /\ ListPulls(c, history) \/ NumberBranch(c) \/ PushBranch(c, history)
           /\ UNCHANGED vars
  <2>1. call' = call
    BY <1>2 DEF vars
  <2>2. CASE ListPulls(c, history) \/ NumberBranch(c)
    <3>1. falling'[c].stage # "create"
      BY <2>2 DEF ListPulls, NumberBranch, Enters
    <3>2. Pushed(c, h)'
      BY <3>1 DEF Pushed
    <3> QED
      BY <1>0, <1>1, <2>1, <3>2, CarriesOn
  <2>3. CASE PushBranch(c, history)
    <3>1. /\ falling'[c].number \in DOMAIN pulls'
          /\ pulls'[falling'[c].number].commits = history
      BY <2>3 DEF PushBranch, PushTo, Enters
    <3>2. Pushed(c, h)'
      BY <1>0, <3>1 DEF Pushed
    <3> QED
      BY <1>0, <1>1, <2>1, <3>2, CarriesOn
  <2> QED
    BY <1>2, <2>2, <2>3
<1>3. CASE UpdatePull(c, history) /\ SyncNetwork(c) /\ proposed' = proposed \cup history
  <2>1. c \notin DOMAIN falling'
    BY <1>3, LeavesDomain DEF UpdatePull
  <2>2. Pushed(c, h)'
    BY <2>1 DEF Pushed
  <2>3. h \subseteq Reach(Network)'
    BY <1>0, <1>3 DEF Reach, Proposed
  <2> QED
    BY <1>0, <1>1, <1>3, <2>2, <2>3, LoopStep, CarriesOn
<1>4. CASE CreatePull(c) /\ SyncNetwork(c) /\ UNCHANGED proposed
  <2>1. c \notin DOMAIN falling'
    BY <1>4, LeavesDomain DEF CreatePull
  <2>2. Pushed(c, h)'
    BY <2>1 DEF Pushed
  <2>3. PICK n : /\ n = falling[c].number /\ n \in DOMAIN pulls
                 /\ pulls' = [pulls EXCEPT ![n].open = TRUE]
    BY <1>4 DEF CreatePull
  <2>4. n \in DOMAIN pulls' /\ pulls'[n].open /\ pulls'[n].commits = pulls[n].commits
    <3>1. pulls[n] = [commits |-> pulls[n].commits, open |-> pulls[n].open]
      BY <1>0, <2>3 DEF ReadInv, PullsType
    <3>2. n \in DOMAIN pulls' /\ pulls'[n] = [pulls[n] EXCEPT !.open = TRUE]
      BY <1>0, <2>3 DEF ReadInv, PullsType
    <3> QED
      BY <3>1, <3>2
  <2>5. h \subseteq proposed \cup pulls[n].commits
    BY <1>1, <1>4, <2>3 DEF Carries, Pushed, CreatePull, At
  <2>6. proposed' \cup pulls'[n].commits \subseteq Proposed'
    BY <2>4 DEF Proposed
  <2>7. h \subseteq Reach(Network)'
    BY <1>0, <1>4, <2>4, <2>5, <2>6 DEF Reach
  <2> QED
    BY <1>0, <1>1, <1>4, <2>2, <2>7, LoopStep, CarriesOn
<1> QED
  BY <1>2, <1>3, <1>4 DEF Propose

----------------------------------------------------------------------------
(* Who pushes onward *)

Loop == {"sync", "lockRemote", "push", "checkout"}

(* A call is still in its push loop that will start a push of r.           *)
Owed(r) ==
  \E d \in DOMAIN call :
    /\ ModeOf(d) # "pull" /\ call[d].pc \in Loop
    /\ r \notin Path(d) \cup {RepoOf(d)}
    /\ \E i \in LocalRemotes(RepoOf(d)) : Remotes[RepoOf(d)][i] = r

(* A call of a push works on r, or will, and has the commits h to deliver. *)
Carrier(e, h, r) ==
  /\ ModeOf(e) # "pull" /\ RepoOf(e) = r /\ r \notin Path(e)
  /\ call[e].clean
  /\ Carries(e, h)

(* The commits h have come to r and, if r was not skipped because it had   *)
(* changes, somebody pushes them onward, has done so, or is about to:      *)
(* whoever pushed into it still owes it a push.                            *)
Served(h, r) ==
  /\ h \subseteq tip[r]
  /\ r \in Skipped \/ Owed(r) \/ \E e \in DOMAIN call : Carrier(e, h, r)

(* The same, and from the local remotes of r on.                           *)
Relayed(h, r) ==
  /\ h \subseteq tip[r]
  /\ \/ r \in Skipped \/ Owed(r)
     \/ \E e \in DOMAIN call :
          /\ Carrier(e, h, r)
          /\ \A i \in LocalRemotes(r) : i < call[e].at => Served(h, Remotes[r][i])

PushInv ==
  /\ AimInv /\ SpreadInv
  /\ \A q \in Place : start[q] \subseteq tip[q]
  /\ failed = {} => \A r \in Root : Relayed(start[r], r)

(* The fallback of another call is another one.                            *)
LEMMA FallingKept ==
  ASSUME NEW d \in DOMAIN call, DeliverStep(d),
         NEW c, c # d, c \in DOMAIN falling'
  PROVE  c \in DOMAIN falling /\ falling'[c] = falling[c]
<1>1. ASSUME NEW stage, NEW n, Enters(d, stage, n)
      PROVE  c \in DOMAIN falling /\ falling'[c] = falling[c]
  BY <1>1 DEF Enters
<1>2. ASSUME Leaves(d)
      PROVE  c \in DOMAIN falling /\ falling'[c] = falling[c]
  BY <1>2 DEF Leaves, Restrict
<1>3. CASE Propose(d)
  BY <1>1, <1>2, <1>3
  DEF Propose, ListPulls, NumberBranch, PushBranch, UpdatePull, CreatePull, GiveUp
<1>4. CASE SyncAndPush(d)
  BY <1>1, <1>4 DEF SyncAndPush, PushData, FallBack, pullVars
<1>5. CASE ControlStep(d) \/ Fetch(d) \/ PullData(d)
  BY <1>5 DEF ControlStep, Fetch, PullData, dataVars, pullVars
<1>6. CASE Prepare(d)
  BY <1>6, Prepares DEF pullVars
<1> QED
  BY <1>3, <1>4, <1>5, <1>6 DEF DeliverStep

(* Every step of a call, and all other steps.                              *)
LEMMA StepKinds ==
  ASSUME [DeliverNext]_allVars
  PROVE  \/ Interrupted
         \/ \E d \in DOMAIN call : DeliverStep(d) /\ (Step(d) \/ UNCHANGED vars)
         \/ UNCHANGED <<call, stale, failed, falling, seen>> /\ dirty \subseteq dirty'
<1>1. ASSUME NEW d \in DOMAIN call, DeliverStep(d) PROVE Step(d) \/ UNCHANGED vars
  <2>1. Fetch(d) => UNCHANGED vars
    BY DEF Fetch
  <2>2. Propose(d) => Step(d) \/ UNCHANGED vars
    BY DEF Propose, Step
  <2>3. SyncAndPush(d) => Step(d) \/ UNCHANGED vars
    BY DEF SyncAndPush, PushData, Step
  <2>4. Prepare(d) => Step(d)
    BY Prepares DEF Step
  <2> QED
    BY <1>1, <2>1, <2>2, <2>3, <2>4 DEF DeliverStep, ControlStep, PullData, Step
<1> QED
  BY <1>1
  DEF DeliverNext, Answer, Review, Edit, Exit, allVars, vars, trees, dataVars, pullVars

(* A call of a push that has good news carries on what it carried.         *)
LEMMA CarriesStep ==
  ASSUME AimInv, AimInv', SpreadInv, Rebase = FALSE, Onward, [DeliverNext]_allVars, ~Interrupted,
         failed' = {}, NEW c \in DOMAIN call, ModeOf(c) # "pull", NEW h, Carries(c, h)
  PROVE  c \in DOMAIN call' /\ Carries(c, h)'
<1>0. WalkInv /\ ReportInv /\ ReadInv
  BY DEF AimInv, WalkInv, SpreadInv
<1>1. CASE UNCHANGED <<call, stale, failed, falling>>
  <2>1. Pushed(c, h)'
    BY <1>1, PushedKept DEF Carries
  <2> QED
    BY <1>0, <1>1, <2>1, CarriesOn
<1>2. ASSUME NEW d \in DOMAIN call, DeliverStep(d), Step(d) \/ UNCHANGED vars
      PROVE  c \in DOMAIN call' /\ Carries(c, h)'
  <2>0. c \in DOMAIN call' /\ (c # d => call'[c] = call[c])
    BY <1>0, <1>2, StepFrame DEF vars
  <2>1. call'[c].ok
    BY <2>0 DEF AimInv, WalkInv, ReportInv, Reported
  <2>2. CASE c # d
    <3>1. Pushed(c, h)'
      BY <1>2, <2>2, FallingKept, PushedKept DEF Carries
    <3> QED
      BY <1>0, <2>0, <2>2, <3>1, CarriesOn
  <2>3. CASE c = d
    <3>1. CASE ControlStep(c)
      BY <1>0, <2>0, <3>1, ControlCarries
    <3>2. CASE Fetch(c)
      <4>1. UNCHANGED <<call, falling>>
        BY <3>2 DEF Fetch, vars, pullVars
      <4>2. Pushed(c, h)'
        BY <4>1, PushedKept DEF Carries
      <4> QED
        BY <1>0, <4>1, <4>2, CarriesOn
    <3>3. CASE PullData(c)
      BY <1>0, <3>3 DEF PullData, PullRemote, Looping, WalkInv, Walked
    <3>4. CASE SyncAndPush(c)
      BY <1>0, <2>0, <2>1, <3>4, SyncCarries
    <3>5. CASE Propose(c)
      BY <1>0, <2>0, <2>1, <3>5, ProposeCarries
    <3>6. CASE Prepare(c)
      BY <1>0, <2>0, <3>6, PrepareCarries
    <3> QED
      BY <1>2, <2>3, <3>1, <3>2, <3>3, <3>4, <3>5, <3>6 DEF DeliverStep
  <2> QED
    BY <2>2, <2>3
<1> QED
  BY <1>1, <1>2, StepKinds

(* A call in its push loop stays in it, or starts the pushes it owes.      *)
LEMMA LoopStays ==
  ASSUME WalkInv, NEW d \in DOMAIN call, Step(d), call[d].pc \in Loop, ~ForkPush(d)
  PROVE  call'[d].pc \in Loop
<1>0. call[d] \in LocalVars /\ call \in [DOMAIN call -> LocalVars]
  BY CallRight DEF WalkInv, ReportInv, CallerInv, TypeOK
<1>1. CASE SyncNetwork(d)
  BY <1>0, <1>1, LoopStep DEF Loop
<1>2. CASE ReachLocal(d) \/ LockRemote(d) \/ CheckoutRemote(d)
  BY <1>0, <1>2 DEF ReachLocal, LockRemote, CheckoutRemote, Goto, LocalVars, Loop
<1>3. CASE PushRemote(d)
  BY <1>0, <1>3 DEF PushRemote, LocalVars, Loop
<1> QED
  BY <1>1, <1>2, <1>3
  DEF Step, Loop, Cycle, Enter, Lock, PrepFails, PrepThenFork, CommitThenFork, PrepThenSync, CommitThenSync, JoinPull,
      PullRemote, PullDone, Looping, JoinPush

(* A call with a remote before it that is not the network's gets past it   *)
(* by checking it out.                                                     *)
LEMMA AtStep ==
  ASSUME WalkInv, NEW c \in DOMAIN call, Step(c), ModeOf(c) # "pull", call'[c].ok
  PROVE  \/ call'[c].at = call[c].at
         \/ /\ call'[c].at = call[c].at + 1
            /\ Target(c) = Network \/ CheckoutRemote(c)
<1>0. call[c] \in LocalVars /\ call \in [DOMAIN call -> LocalVars] /\ Walked(c) /\ c \in CallId
  BY CallRight DEF WalkInv, ReportInv, CallerInv, TypeOK
<1>1. CASE Cycle(c) \/ Enter(c) \/ Lock(c) \/ ReachLocal(c) \/ LockRemote(c)
  BY <1>0, <1>1 DEF Cycle, Enter, Lock, ReachLocal, LockRemote, Goto, LocalVars
<1>2. CASE PrepFails(c) \/ PullDone(c) \/ JoinPush(c)
  <2>1. \E ok : call' = [call EXCEPT ![c].pc = "done", ![c].ok = ok]
    BY <1>2 DEF PrepFails, PullDone, JoinPush, Return
  <2> QED
    BY <1>0, <2>1 DEF LocalVars
<1>3. CASE PrepThenSync(c)
  <2>1. PICK edited :
          call' = [call EXCEPT ![c].pc = "sync", ![c].clean = Clean(c, edited)]
    BY <1>3 DEF PrepThenSync, CommitThenSync
  <2> QED
    BY <1>0, <2>1 DEF LocalVars
<1>8. CASE JoinPull(c)
  BY <1>0, <1>8 DEF JoinPull, LocalVars
<1>4. CASE PrepThenFork(c) \/ ForkPush(c)
  <2>1. c \notin Children(c, "pull") /\ c \notin Children(c, "pushOnly")
    BY <1>0, ChildType DEF Children, Mode
  <2> QED
    <3>1. CASE PrepThenFork(c)
      <4>1. \E edited : call'[c] = [call[c] EXCEPT !.pc = "pullJoin", !.clean = Clean(c, edited)]
        BY <2>1, <3>1 DEF PrepThenFork, CommitThenFork, Fork
      <4> QED
        BY <1>0, <4>1 DEF LocalVars
    <3>2. CASE ForkPush(c)
      <4>1. call'[c] = [call[c] EXCEPT !.pc = "pushJoin"]
        BY <2>1, <3>2 DEF ForkPush, Fork
      <4> QED
        BY <1>0, <4>1 DEF LocalVars
    <3> QED
      BY <1>4, <3>1, <3>2
<1>5. CASE SyncNetwork(c) \/ PushRemote(c)
  BY <1>5, LoopStep
<1>6. CASE CheckoutRemote(c)
  BY <1>0, <1>6 DEF CheckoutRemote, LocalVars
<1>7. ~PullRemote(c)
  BY <1>0 DEF PullRemote, Looping, Walked
<1> QED
  BY <1>1, <1>2, <1>3, <1>4, <1>5, <1>6, <1>7, <1>8 DEF Step

(* Whoever checks r out after a push into it owes it a push.               *)
LEMMA CheckoutOwes ==
  ASSUME AimInv, NEW d \in DOMAIN call, CheckoutRemote(d), NEW r, r = Target(d)
  PROVE  Owed(r)'
<1>0. /\ call[d] \in LocalVars /\ call \in [DOMAIN call -> LocalVars]
      /\ Aims(d) /\ Walked(d) /\ call[d].pc = "checkout"
  BY CallRight DEF AimInv, WalkInv, ReportInv, CallerInv, TypeOK, CheckoutRemote
<1>1. call'[d].pc = "sync" /\ d \in DOMAIN call'
  BY <1>0 DEF CheckoutRemote, LocalVars
<1>2. call[d].at \in LocalRemotes(RepoOf(d))
  BY <1>0 DEF AimInv, WalkInv, ReportInv, CallerInv, TypeOK
<1>3. ModeOf(d) # "pull"
  BY <1>0 DEF Walked
<1>4. r \notin Path(d) \cup {RepoOf(d)} /\ Remotes[RepoOf(d)][call[d].at] = r
  BY <1>0 DEF Aims, Target
<1> QED
  BY <1>1, <1>2, <1>3, <1>4 DEF Owed, Loop

LEMMA FreshCarries ==
  ASSUME AimInv', SpreadInv', NEW e \in DOMAIN call', call'[e] = NewCall,
         NEW h, h \subseteq tip'[RepoOf(e)]
  PROVE  Carries(e, h)'
<1>1. e \notin DOMAIN falling'
  BY DEF NewCall, SpreadInv, ReadInv, FallsRight, Pushing, Looping
<1>2. e \in CallId
  BY DEF AimInv, WalkInv, ReportInv, CallerInv, TypeOK, CallId
<1>3. \A i \in 1..Len(Remotes[RepoOf(e)]) : ~(i < 1)
  BY <1>2, CallType, OperateAssumption
<1> QED
  BY <1>1, <1>3 DEF Carries, Pushed, NewCall

(* What was skipped stays so, and who owes a push starts it.               *)
LEMMA HandsOn ==
  ASSUME AimInv, AimInv', SpreadInv', [DeliverNext]_allVars, ~Interrupted,
         NEW r, r \in Skipped \/ Owed(r), NEW h, h \subseteq tip'[r]
  PROVE  \/ r \in Skipped' \/ Owed(r)'
         \/ \E e \in DOMAIN call' : Carrier(e, h, r)' /\ call'[e].at = 1
<1>0. WalkInv /\ ReportInv
  BY DEF AimInv, WalkInv
<1>1. CASE UNCHANGED call
  BY <1>1 DEF Owed, Skipped
<1>3. ASSUME NEW d \in DOMAIN call, Step(d)
      PROVE  \/ r \in Skipped' \/ Owed(r)'
             \/ \E e \in DOMAIN call' : Carrier(e, h, r)' /\ call'[e].at = 1
  <2>1. CASE r \in Skipped
    BY <1>3, <2>1, SkippedKept
  <2>2. CASE Owed(r)
    <3>0. PICK b \in DOMAIN call :
            /\ ModeOf(b) # "pull" /\ call[b].pc \in Loop
            /\ r \notin Path(b) \cup {RepoOf(b)}
            /\ \E i \in LocalRemotes(RepoOf(b)) : Remotes[RepoOf(b)][i] = r
      BY <2>2 DEF Owed
    <3>1. PICK i \in LocalRemotes(RepoOf(b)) : Remotes[RepoOf(b)][i] = r
      BY <3>0
    <3>2. b \in DOMAIN call' /\ (b # d => call'[b] = call[b])
      BY <1>0, <1>3, StepFrame
    <3>3. CASE call'[b].pc \in Loop
      BY <3>0, <3>2, <3>3 DEF Owed
    <3>4. CASE b = d /\ ForkPush(b)
      <4> DEFINE e == Child(b, "pushOnly", i)
      <4>0. b \in CallId
        BY <1>0, CallRight
      <4>1. e \in Children(b, "pushOnly") /\ e \in CallId /\ RepoOf(e) = r
            /\ Path(e) = Path(b) \cup {RepoOf(b)}
        BY <3>1, <4>0, ChildType DEF Children, Mode
      <4>2. ModeOf(e) = "pushOnly"
        BY <4>0, <4>1, AboveChild DEF ModeOf, Mode
      <4> HIDE DEF e
      <4>3. e \in DOMAIN call' /\ call'[e] = NewCall
        BY <3>4, <4>1 DEF ForkPush, Fork
      <4>4. Carries(e, h)'
        BY <4>1, <4>3, FreshCarries
      <4>5. Carrier(e, h, r)' /\ call'[e].at = 1
        BY <3>0, <4>1, <4>2, <4>3, <4>4 DEF Carrier, NewCall
      <4> QED
        BY <4>3, <4>5
    <3> QED
      BY <1>0, <1>3, <3>0, <3>2, <3>3, <3>4, LoopStays
  <2> QED
    BY <1>3, <2>1, <2>2
<1> QED
  BY <1>1, <1>3, StepKinds DEF vars

LEMMA CarrierStep ==
  ASSUME AimInv, AimInv', SpreadInv, Rebase = FALSE, Onward, [DeliverNext]_allVars, ~Interrupted,
         failed' = {}, NEW e \in DOMAIN call, NEW h, NEW r, Carrier(e, h, r)
  PROVE  e \in DOMAIN call' /\ (Carrier(e, h, r)' \/ r \in Skipped')
<1>1. e \in DOMAIN call' /\ Carries(e, h)'
  BY CarriesStep DEF Carrier
<1>2. call'[e].clean \/ r \in Skipped'
  BY <1>1 DEF Carrier, Skipped
<1> QED
  BY <1>1, <1>2 DEF Carrier

LEMMA ServedStep ==
  ASSUME AimInv, AimInv', SpreadInv, SpreadInv', Rebase = FALSE, Onward,
         [DeliverNext]_allVars, ~Interrupted, failed' = {},
         NEW r \in Repo, NEW h, Served(h, r)
  PROVE  Served(h, r)'
<1>1. h \subseteq tip'[r]
  BY DEF Served, Onward, Place
<1>2. CASE r \in Skipped \/ Owed(r)
  BY <1>1, <1>2, HandsOn DEF Served
<1>3. ASSUME NEW e \in DOMAIN call, Carrier(e, h, r) PROVE Served(h, r)'
  BY <1>1, <1>3, CarrierStep DEF Served
<1> QED
  BY <1>2, <1>3 DEF Served

(* And when a call gets past a local remote, that one is served.           *)
LEMMA RelayedStep ==
  ASSUME AimInv, AimInv', SpreadInv, SpreadInv', Rebase = FALSE, Onward,
         [DeliverNext]_allVars, ~Interrupted, failed' = {},
         NEW r \in Repo, NEW h, Relayed(h, r)
  PROVE  Relayed(h, r)'
<1>0. WalkInv /\ ReportInv /\ Network \notin Repo
  BY OperateAssumption DEF AimInv, WalkInv
<1>1. h \subseteq tip'[r]
  BY DEF Relayed, Onward, Place
<1>2. CASE r \in Skipped \/ Owed(r)
  <2>1. ASSUME NEW e \in DOMAIN call', Carrier(e, h, r)', call'[e].at = 1 PROVE Relayed(h, r)'
    <3>1. \A i \in LocalRemotes(r) : ~(i < 1)
      BY OperateAssumption DEF LocalRemotes
    <3> QED
      BY <1>1, <2>1, <3>1 DEF Relayed
  <2> QED
    BY <1>1, <1>2, <2>1, HandsOn DEF Relayed
<1>3. ASSUME NEW e \in DOMAIN call, Carrier(e, h, r),
             \A i \in LocalRemotes(r) : i < call[e].at => Served(h, Remotes[r][i])
      PROVE  Relayed(h, r)'
  <2>1. e \in DOMAIN call' /\ (Carrier(e, h, r)' \/ r \in Skipped')
    BY <1>3, CarrierStep
  <2>2. ASSUME NEW i \in LocalRemotes(r), i < call'[e].at
        PROVE  Served(h, Remotes[r][i])'
    <3>1. Remotes[r][i] \in Repo /\ i \in Nat
      BY OperateAssumption DEF LocalRemotes
    <3>2. CASE i < call[e].at
      BY <1>3, <3>1, <3>2, ServedStep
    <3>3. CASE ~(i < call[e].at)
      <4>1. PICK d \in DOMAIN call : Step(d)
        BY <2>2, <3>3, StepKinds DEF vars
      <4>2. d = e
        BY <1>0, <2>2, <3>3, <4>1, StepFrame
      <4>3. call'[e].ok
        BY <2>1 DEF AimInv, WalkInv, ReportInv, Reported
      <4>4. call[e].at \in Nat /\ ModeOf(e) # "pull" /\ RepoOf(e) = r
        BY <1>0, <1>3, CallRight DEF Carrier
      <4>5. /\ call'[e].at = call[e].at + 1
            /\ Target(e) = Network \/ CheckoutRemote(e)
        BY <1>0, <2>2, <3>3, <4>1, <4>2, <4>3, <4>4, AtStep
      <4>6. i = call[e].at
        BY <2>2, <3>1, <3>3, <4>4, <4>5
      <4>7. Target(e) = Remotes[r][i] /\ CheckoutRemote(e)
        BY <1>0, <3>1, <4>4, <4>5, <4>6 DEF Target
      <4>8. PICK q \in Repo : q = Remotes[r][i]
        BY <3>1
      <4>9. h \subseteq tip'[q]
        BY <1>3, <4>7, <4>8 DEF Carrier, Carries, CheckoutRemote, Onward, Place
      <4>10. Owed(q)'
        BY <4>7, <4>8, CheckoutOwes
      <4> QED
        BY <4>8, <4>9, <4>10 DEF Served
    <3> QED
      BY <3>2, <3>3
  <2>3. CASE r \in Skipped'
    BY <1>1, <2>3 DEF Relayed
  <2>4. CASE Carrier(e, h, r)'
    BY <1>1, <2>1, <2>2, <2>4 DEF Relayed
  <2> QED
    BY <2>1, <2>3, <2>4
<1> QED
  BY <1>2, <1>3 DEF Relayed

(* main's own calls carry what their repositories had at the start.        *)
Afresh == AimInv /\ SpreadInv /\ call = FirstCalls

RelayedAll == \A r \in Root : \A h : h \subseteq tip[r] => Relayed(h, r)

LEMMA FirstRelays == Action = "push" /\ Afresh => RelayedAll
<1> SUFFICES ASSUME AimInv, SpreadInv, Action = "push", call = FirstCalls,
                    NEW r \in Root, NEW h, h \subseteq tip[r]
             PROVE  Relayed(h, r)
  BY DEF Afresh, RelayedAll
<1> DEFINE e == <<[mode |-> Action, repo |-> r, via |-> 0]>>
<1>1. e \in RootCalls
  BY DEF RootCalls
<1>2. e[1] = [mode |-> Action, repo |-> r, via |-> 0] /\ Len(e) = 1
  OBVIOUS
<1>3. RepoOf(e) = r /\ ModeOf(e) = "push"
  BY <1>2 DEF RepoOf, ModeOf
<1> HIDE DEF e
<1>4. e \in DOMAIN call /\ call[e] = NewCall /\ Path(e) = {}
  BY <1>1, RootPaths DEF FirstCalls
<1>5. call[e].pc = "enter" /\ call[e].clean /\ call[e].at = 1
  BY <1>4 DEF NewCall
<1>6. e \notin DOMAIN falling
  BY <1>5 DEF SpreadInv, ReadInv, FallsRight, Pushing, Looping
<1>7. r \in Repo /\ Len(Remotes[r]) \in Nat /\ \A i \in 1..Len(Remotes[r]) : ~(i < 1)
  BY OperateAssumption
<1>8. Carrier(e, h, r)
  BY <1>3, <1>4, <1>5, <1>6, <1>7 DEF Carrier, Carries, Pushed
<1> QED
  BY <1>4, <1>5, <1>7, <1>8 DEF Relayed, LocalRemotes

(* An error is remembered until gitall is interrupted.                     *)
LEMMA FailedKept ==
  ASSUME [DeliverNext]_allVars, ~Interrupted
  PROVE  failed \subseteq failed'
<1>1. ASSUME NEW d \in DOMAIN call, Step(d) PROVE failed \subseteq failed'
  BY <1>1
  DEF Step, Cycle, Enter, Lock, PrepFails, PrepThenFork, CommitThenFork, PrepThenSync, CommitThenSync, MaybeCommit, JoinPull,
      PullRemote, PullDone, SyncNetwork, SyncWith, ReachLocal, LockRemote, PushRemote,
      CheckoutRemote, ForkPush, JoinPush, Record
<1> QED
  BY <1>1, StepKinds DEF vars

LEMMA PushInit == Action = "push" /\ DeliverInit => PushInv
<1> SUFFICES ASSUME Action = "push", DeliverInit PROVE PushInv
  OBVIOUS
<1>1. AimInv /\ SpreadInv /\ start = tip /\ call = FirstCalls
  BY AimInit, ReadInit DEF DeliverInit, SpreadInv, Init
<1> QED
  BY <1>1, FirstRelays DEF PushInv, Afresh, RelayedAll

(* A call of main that has committed carries what its repository has now.  *)
LEMMA PrepareRelays ==
  ASSUME Action = "push", AimInv, AimInv', SpreadInv, SpreadInv',
         NEW c \in DOMAIN call \cap RootCalls, Prepare(c),
         NEW r \in Repo, RepoOf(c) = r, start'[r] = tip'[r]
  PROVE  Relayed(start[r], r)'
<1>1. PICK h : h = start'[r]
  OBVIOUS
<1>2. Step(c) /\ call[c].pc = "prep" /\ UNCHANGED falling
  BY Prepares DEF Step, pullVars
<1>3. c \in DOMAIN call' /\ call'[c].at = 1
  BY <1>2, CleanKept, StepFrame DEF AimInv, WalkInv, Aims
<1>4. c \notin DOMAIN falling'
  BY <1>2 DEF SpreadInv, ReadInv, FallsRight, Pushing, Looping
<1>5. ModeOf(c) = "push" /\ Path(c) = {}
  <2>1. PICK q \in Root : c = <<[mode |-> Action, repo |-> q, via |-> 0]>>
    BY DEF RootCalls
  <2>2. Len(c) = 1 /\ c[1] = [mode |-> Action, repo |-> q, via |-> 0]
    BY <2>1
  <2> QED
    BY <2>2, RootPaths DEF ModeOf
<1>6. call'[c].pc # "checkout"
  BY PrepareStays DEF AimInv
<1>7. \A i \in 1..Len(Remotes[r]) : ~(i < 1)
  BY OperateAssumption
<1>8. r \in Skipped' \/ Carrier(c, h, r)'
  BY <1>1, <1>3, <1>4, <1>5, <1>6, <1>7 DEF Skipped, Carrier, Carries, Pushed
<1> QED
  BY <1>1, <1>3, <1>7, <1>8 DEF Relayed, LocalRemotes

LEMMA PushStep ==
  ASSUME Action = "push", Rebase = FALSE, PushInv, [DeliverNext]_allVars
  PROVE  PushInv'
<1>1. AimInv' /\ SpreadInv' /\ Onward
  BY DeliverIsOperate, AimNext, SpreadStep, OnwardStep DEF PushInv
<1>2. /\ StartType'
      /\ \/ start' = start
         \/ \E c \in DOMAIN call \cap RootCalls :
              /\ Prepare(c)
              /\ start' = [start EXCEPT ![RepoOf(c)] = tip'[RepoOf(c)]]
  BY StartStep DEF PushInv, SpreadInv, ReadInv
<1>3. ASSUME NEW q \in Place
      PROVE  \/ start'[q] = start[q]
             \/ /\ start'[q] = tip'[q]
                /\ \E c \in DOMAIN call \cap RootCalls : Prepare(c) /\ RepoOf(c) = q
  BY <1>2 DEF PushInv, SpreadInv, ReadInv, StartType
<1>4. \A q \in Place : start'[q] \subseteq tip'[q]
  BY <1>1, <1>3 DEF PushInv, Onward
<1>5. ASSUME failed' = {}, NEW r \in Root PROVE Relayed(start[r], r)'
  <2>0. r \in Repo /\ r \in Place
    BY OperateAssumption DEF Place
  <2>1. CASE Interrupted
    <3>1. call' = FirstCalls
      BY <2>1 DEF Interrupted, Interrupt
    <3>2. Afresh'
      BY <1>1, <3>1 DEF Afresh, FirstCalls
    <3>3. RelayedAll'
      BY <3>2, FirstRelays, PTL
    <3> QED
      BY <1>4, <2>0, <3>3 DEF RelayedAll
  <2>2. CASE ~Interrupted /\ start'[r] = start[r]
    <3>1. failed = {}
      BY <1>5, <2>2, FailedKept
    <3>2. PICK h : h = start[r]
      OBVIOUS
    <3>3. Relayed(h, r)'
      BY <1>1, <1>5, <2>0, <2>2, <3>1, <3>2, RelayedStep DEF PushInv
    <3> QED
      BY <2>2, <3>2, <3>3 DEF Relayed
  <2>3. ASSUME NEW c \in DOMAIN call \cap RootCalls, Prepare(c), RepoOf(c) = r,
               start'[r] = tip'[r]
        PROVE  Relayed(start[r], r)'
    BY <1>1, <2>0, <2>3, PrepareRelays DEF PushInv
  <2> QED
    BY <1>3, <2>0, <2>1, <2>2, <2>3
<1> QED
  BY <1>1, <1>4, <1>5 DEF PushInv

(* When main has all its results no call is left running.                  *)
LEMMA AllDone ==
  ASSUME ReportInv, Finished, NEW d \in DOMAIN call
  PROVE  call[d].pc = "done"
<1> SUFFICES ASSUME d \in Live PROVE FALSE
  BY DEF Live
<1>1. d \in CallId /\ Len(d) \in Nat \ {0} /\ Above(d, 1) \in RootCalls
  BY DEF ReportInv, CallerInv, TypeOK, CallId, Rooted, None
<1>2. call[Above(d, 1)].pc = "done"
  BY <1>1 DEF Finished
<1>3. CASE Len(d) = 1
  BY <1>1, <1>2, <1>3, AboveSelf DEF Live
<1>4. CASE Len(d) # 1
  <2>1. \A n \in Nat \ {0, 1} : 1 \in 1..(n - 1)
    OBVIOUS
  <2>2. 1 \in 1..(Len(d) - 1)
    BY <1>1, <1>4, <2>1
  <2> QED
    BY <1>2, <2>2 DEF ReportInv, CallerInv, CallersWait, JoinPC
<1> QED
  BY <1>3, <1>4

(* What a call has carried to all its remotes.                             *)
LEMMA Delivered ==
  ASSUME PushInv, Succeeded, failed = {}, NEW r \in Repo, NEW h,
         NEW e \in DOMAIN call, Carrier(e, h, r)
  PROVE  \A i \in 1..Len(Remotes[r]) : i < call[e].at /\ h \subseteq Reach(Remotes[r][i])
<1>0. WalkInv /\ ReportInv
  BY DEF PushInv, AimInv, WalkInv
<1>1. call[e].pc = "done" /\ call[e].ok
  BY <1>0, AllDone DEF Succeeded, ReportInv, Reported
<1>2. call[e].at > Len(Remotes[r]) /\ call[e].at \in Nat /\ Len(Remotes[r]) \in Nat
  BY <1>0, <1>1, CallRight, OperateAssumption DEF WalkInv, Walked, Carrier
<1> QED
  BY <1>2 DEF Carrier, Carries

(* PushReachesNetwork: without -rebase, a push that reports no error has   *)
(* delivered: over the local remotes and on to the network, or into a pull *)
(* request, whatever others push, propose, merge, close or edit at the     *)
(* same time, and however often gitall was interrupted before (operatePush,*)
(* syncAndPushRepo, fallbackCreatePR): of every repository that no call    *)
(* skipped, what it had when the run began and what -m committed there     *)
(* when main's call of it began (maybeCommit).                             *)
THEOREM PushDelivers ==
  ASSUME Rebase = FALSE
  PROVE  DeliverSpec => []PushReachesNetwork
<1>1. PushInv => PushReachesNetwork
  <2> SUFFICES ASSUME PushInv, Action = "push", Succeeded, NEW r \in Root \ Skipped
               PROVE  /\ \A q \in Mirrors(r) : start[r] \subseteq tip[q]
                      /\ Mirrors(r) # {} \/ Network \in Range(Remotes[r]) =>
                           start[r] \subseteq tip[Network] \cup Proposed
    BY DEF PushReachesNetwork
  <2>0. WalkInv /\ ReportInv /\ r \in Repo /\ Network \notin Repo
    BY OperateAssumption DEF PushInv, AimInv, WalkInv
  <2>1. failed = {}
    BY <2>0, ReportImplies DEF ExitReportsErrors, Succeeded
  <2>2. \A q : ~Owed(q)
    BY <2>0, AllDone DEF Owed, Loop, Succeeded
  <2>3. PICK h : h = start[r]
    OBVIOUS
  <2>4. Relayed(h, r)
    BY <2>1, <2>3 DEF PushInv
  <2>5. PICK e \in DOMAIN call :
          /\ Carrier(e, h, r)
          /\ \A i \in LocalRemotes(r) : i < call[e].at => Served(h, Remotes[r][i])
    BY <2>2, <2>4 DEF Relayed
  <2>6. \A i \in 1..Len(Remotes[r]) : i < call[e].at /\ h \subseteq Reach(Remotes[r][i])
    BY <2>0, <2>1, <2>5, Delivered
  <2>7. Network \in Range(Remotes[r]) => h \subseteq Reach(Network)
    <3>1. Network \in Range(Remotes[r]) => \E i \in 1..Len(Remotes[r]) : Remotes[r][i] = Network
      BY <2>0, OperateAssumption DEF Range
    <3> QED
      BY <2>6, <3>1
  <2>8. ASSUME NEW q \in Mirrors(r)
        PROVE  h \subseteq tip[q] /\ h \subseteq Reach(Network)
    <3>1. /\ q \in Repo /\ q # Network /\ q \notin Skipped
          /\ \E i \in DOMAIN Remotes[r] : Remotes[r][i] = q
          /\ \E j \in DOMAIN Remotes[q] : Remotes[q][j] = Network
      BY <2>0 DEF Mirrors
    <3>2. PICK i \in 1..Len(Remotes[r]) : Remotes[r][i] = q
      BY <2>0, <3>1, OperateAssumption
    <3>3. PICK j \in 1..Len(Remotes[q]) : Remotes[q][j] = Network
      BY <3>1, OperateAssumption
    <3>4. h \subseteq tip[q] /\ Served(h, q)
      BY <2>5, <2>6, <3>1, <3>2 DEF Reach, LocalRemotes
    <3>5. PICK d \in DOMAIN call : Carrier(d, h, q)
      BY <2>2, <3>1, <3>4 DEF Served
    <3>6. h \subseteq Reach(Remotes[q][j])
      BY <2>1, <3>1, <3>5, Delivered
    <3> QED
      BY <3>3, <3>4, <3>6
  <2> QED
    BY <2>3, <2>7, <2>8 DEF Reach
<1>2. CASE Action = "push"
  <2>1. DeliverInit => PushInv
    BY <1>2, PushInit
  <2>2. PushInv /\ [DeliverNext]_allVars => PushInv'
    BY <1>2, PushStep
  <2> QED
    BY <1>1, <2>1, <2>2, PTL DEF DeliverSpec
<1>3. CASE Action # "push"
  <2>1. PushReachesNetwork
    BY <1>3 DEF PushReachesNetwork
  <2> QED
    BY <2>1, PTL
<1> QED
  BY <1>2, <1>3

----------------------------------------------------------------------------
(* What a pull has brought *)

(* Of a successful run, each call of main has returned a good result.      *)
LEMMA RootWalked ==
  ASSUME WalkInv, Succeeded, NEW r \in Root
  PROVE  \E c \in RootCalls :
           /\ c \in DOMAIN call /\ c \in CallId /\ Len(c) = 1
           /\ RepoOf(c) = r /\ ModeOf(c) = Action /\ c[1].repo = r /\ Path(c) = {}
           /\ call[c].pc = "done" /\ call[c].ok
<1> DEFINE c == <<[mode |-> Action, repo |-> r, via |-> 0]>>
<1>1. c \in RootCalls
  BY DEF RootCalls
<1>2. c[1] = [mode |-> Action, repo |-> r, via |-> 0] /\ Len(c) = 1
  OBVIOUS
<1>3. RepoOf(c) = r /\ ModeOf(c) = Action /\ c[1].repo = r
  BY <1>2 DEF RepoOf, ModeOf
<1> HIDE DEF c
<1>4. c \in DOMAIN call /\ c \in CallId /\ Path(c) = {}
  BY <1>1, RootPaths, FirstReport DEF WalkInv, ReportInv, Rooted
<1> QED
  BY <1>1, <1>2, <1>3, <1>4 DEF Succeeded, Finished

(* The changes the network had at the start.                               *)
Passed == Changes(start[Network])

(* Remote i of c's repository is the network, or has been pulled from it   *)
(* by a call that c started and that skipped nothing.                      *)
Fed(c, i) ==
  LET q == Remotes[RepoOf(c)][i] IN
  \/ q = Network
  \/ /\ i \in LocalRemotes(RepoOf(c))
     /\ q \notin Path(c) \cup {RepoOf(c)}
     /\ call[Child(c, "pull", i)].clean
     /\ \E j \in 1..Len(Remotes[q]) : Remotes[q][j] = Network

(* What c has brought to its repository, and what it is about to bring.    *)
Brings(c) ==
  /\ \A i \in 1..Len(Remotes[RepoOf(c)]) :
       i < call[c].at /\ Fed(c, i) => Passed \subseteq Changes(tip[RepoOf(c)])
  /\ c \in DOMAIN seen /\ Fed(c, call[c].at) => Passed \subseteq Changes(seen[c].theirs)

Gets(c) ==
  /\ call[c].pc \notin {"pull", "done"} => call[c].at = 1
  /\ call[c].pc \notin {"enter", "done"} => RepoOf(c) \notin Path(c)
  /\ call[c].ok /\ RepoOf(c) \notin Path(c) /\ call[c].pc \in {"pull", "done"} => Brings(c)

FeedInv ==
  /\ AimInv /\ ReadInv /\ PullInv
  /\ Passed \subseteq Changes(tip[Network])
  /\ \A c \in DOMAIN call : Gets(c)

(* Whether c is fed by a remote is settled once its calls have returned.   *)
LEMMA FedKept ==
  ASSUME FeedInv, NEW d \in DOMAIN call, Step(d), NEW c \in DOMAIN call,
         Returned(c, "pull"), NEW i
  PROVE  Fed(c, i)' = Fed(c, i)
<1>1. ASSUME i \in LocalRemotes(RepoOf(c))
      PROVE  call'[Child(c, "pull", i)] = call[Child(c, "pull", i)]
  <2>1. /\ Child(c, "pull", i) \in DOMAIN call /\ call[Child(c, "pull", i)].pc = "done"
    BY <1>1 DEF Returned, Children
  <2> QED
    BY <2>1, StepFrame DEF FeedInv, AimInv, WalkInv
<1> QED
  BY <1>1 DEF Fed

LEMMA PassedKept ==
  ASSUME ReadInv, [DeliverNext]_allVars
  PROVE  /\ Passed' = Passed
         /\ \A q \in Place : Changes(tip[q]) \subseteq Changes(tip'[q])
<1>1. start'[Network] = start[Network]
  <2>1. \A c \in DOMAIN call : RepoOf(c) \in Repo
    BY CallType DEF ReadInv, MutexInv, TypeOK, CallId
  <2>2. \A q \in Repo : \A history :
          StartType /\ start' = [start EXCEPT ![q] = history] => start'[Network] = start[Network]
    BY OperateAssumption DEF StartType
  <2>3. StartType
    BY DEF ReadInv
  <2> QED
    BY <2>1, <2>2, <2>3, StartStep
<1>2. \A q \in Place : Changes(tip[q]) \subseteq Changes(tip'[q])
  BY ReadStep, ChangesKept
<1> QED
  BY <1>1, <1>2 DEF Passed

(* A remote that feeds c, once c's calls have returned, has what the       *)
(* network had.                                                            *)
LEMMA FedHas ==
  ASSUME FeedInv, NEW c \in DOMAIN call, Returned(c, "pull"),
         NEW i \in 1..Len(Remotes[RepoOf(c)]), Fed(c, i)
  PROVE  Passed \subseteq Changes(tip[Remotes[RepoOf(c)][i]])
<1> DEFINE q == Remotes[RepoOf(c)][i]
           d == Child(c, "pull", i)
<1>1. CASE q = Network
  BY <1>1 DEF FeedInv
<1>2. CASE q # Network
  <2>0. WalkInv /\ c \in CallId
    BY CallRight DEF FeedInv, AimInv
  <2>1. /\ i \in LocalRemotes(RepoOf(c)) /\ q \notin Path(c) \cup {RepoOf(c)}
        /\ call[d].clean
    BY <1>2 DEF Fed
  <2>2. PICK j \in 1..Len(Remotes[q]) : Remotes[q][j] = Network
    BY <1>2 DEF Fed
  <2>3. d \in DOMAIN call /\ call[d].pc = "done" /\ call[d].ok
    BY <2>1 DEF Returned, Children
  <2>4. RepoOf(d) = q /\ Path(d) = Path(c) \cup {RepoOf(c)}
    BY <2>0, <2>1, ChildType DEF Mode
  <2> HIDE DEF q, d
  <2>5. Brings(d) /\ call[d].at > Len(Remotes[q])
    BY <2>0, <2>1, <2>3, <2>4 DEF FeedInv, Gets, WalkInv, Walked
  <2>6. q \in Repo /\ call[d].at \in Nat
    BY <2>0, <2>3, <2>4, CallRight
  <2>7. j < call[d].at
    BY <2>5, <2>6, OperateAssumption
  <2>8. Fed(d, j)
    BY <2>2, <2>4 DEF Fed
  <2> QED
    BY <2>2, <2>4, <2>5, <2>7, <2>8 DEF Brings, q
<1> QED
  BY <1>1, <1>2

(* A call whose own variables stay as they are.                            *)
LEMMA BringsKept ==
  ASSUME FeedInv, [DeliverNext]_allVars, NEW c \in DOMAIN call, Brings(c),
         Fed(c, call[c].at)' = Fed(c, call[c].at),
         call'[c].at = call[c].at,
         \A i : Fed(c, i)' = Fed(c, i),
         c \in DOMAIN seen' => c \in DOMAIN seen /\ seen'[c] = seen[c]
  PROVE  Brings(c)'
<1>1. RepoOf(c) \in Place
  BY CallRight DEF FeedInv, AimInv
<1>2. /\ Passed' = Passed
      /\ Changes(tip[RepoOf(c)]) \subseteq Changes(tip'[RepoOf(c)])
  BY <1>1, PassedKept DEF FeedInv
<1> QED
  BY <1>2 DEF Brings

(* A call of a pull that has a good result and may have gone through its   *)
(* remotes: those it started have good results too.                        *)
LEMMA PullReturned ==
  ASSUME FeedInv, NEW c \in DOMAIN call, call[c].ok, RepoOf(c) \notin Path(c),
         call[c].pc \in {"pull", "done"}
  PROVE  Returned(c, "pull") /\ Brings(c)
  BY DEF FeedInv, AimInv, WalkInv, Walked, PullInv, Harmless, Gets

LEMMA FetchGets ==
  ASSUME FeedInv, [DeliverNext]_allVars, NEW c \in DOMAIN call, Fetch(c)
  PROVE  Gets(c)'
<1>0. UNCHANGED <<call, tip>> /\ Gets(c) /\ Harmless(c)
  BY DEF Fetch, vars, FeedInv, PullInv
<1>1. Looping(c, "pull") /\ call[c].pc = "pull"
  BY <1>0 DEF Fetch, Fetching, Pushing, Looping, Harmless
<1>2. call[c].at \in 1..Len(Remotes[RepoOf(c)])
  BY <1>1, CallRight, OperateAssumption DEF FeedInv, AimInv, Looping
<1>3. c \in DOMAIN seen' /\ seen'[c].theirs = tip[Remotes[RepoOf(c)][call[c].at]]
  <2>1. PICK fetched \in BOOLEAN :
          seen' = [e \in DOMAIN seen \cup {c} |->
                     IF e # c THEN seen[e]
                     ELSE [fetched |-> fetched, ours |-> tip[RepoOf(c)], theirs |-> tip[Target(c)]]]
    BY DEF Fetch
  <2> QED
    BY <2>1 DEF Target
<1>4. Passed' = Passed
  BY PassedKept DEF FeedInv
<1>5. \A i : Fed(c, i)' = Fed(c, i)
  BY <1>0 DEF Fed
<1>6. ASSUME call[c].ok PROVE Brings(c)'
  <2>1. RepoOf(c) \notin Path(c)
    BY <1>0, <1>1 DEF Gets
  <2>2. Returned(c, "pull") /\ Brings(c)
    BY <1>1, <1>6, <2>1, PullReturned
  <2>3. Fed(c, call[c].at) => Passed \subseteq Changes(seen'[c].theirs)
    BY <1>2, <1>3, <2>2, FedHas
  <2> QED
    BY <1>0, <1>4, <1>5, <2>2, <2>3 DEF Brings
<1> QED
  BY <1>0, <1>6 DEF Gets

(* The remote has been fetched and the branch updated: what c read of it   *)
(* is there.                                                               *)
LEMMA PullDataGets ==
  ASSUME FeedInv, [DeliverNext]_allVars, NEW c \in DOMAIN call, PullData(c)
  PROVE  Gets(c)'
<1>0. /\ Gets(c) /\ c \in DOMAIN seen /\ PullRemote(c)
      /\ call[c] \in LocalVars /\ call \in [DOMAIN call -> LocalVars]
      /\ call[c].at \in Nat \ {0} /\ RepoOf(c) \in Place /\ WalkInv
  BY CallRight DEF PullData, FeedInv, AimInv, PullInv, MutexInv, TypeOK
<1>1. /\ call[c].pc = "pull" /\ call'[c].pc = "pull" /\ call'[c].at = call[c].at + 1
      /\ call'[c].ok => call[c].ok
  <2>1. call[c].pc = "pull" /\ SyncWith(c)
    BY <1>0 DEF PullRemote, Looping
  <2> QED
    BY <1>0, <2>1 DEF SyncWith, LocalVars
<1>2. RepoOf(c) \notin Path(c)
  BY <1>0, <1>1 DEF Gets
<1>3. c \notin DOMAIN seen'
  BY ForgetDomain DEF PullData
<1>4. /\ Passed' = Passed
      /\ Changes(tip[RepoOf(c)]) \subseteq Changes(tip'[RepoOf(c)])
  BY <1>0, PassedKept DEF FeedInv
<1>5. ASSUME call'[c].ok PROVE Brings(c)'
  <2>1. Returned(c, "pull") /\ Brings(c)
    BY <1>1, <1>2, <1>5, PullReturned
  <2>2. \A i : Fed(c, i)' = Fed(c, i)
    BY <1>0, <2>1, FedKept DEF Step
  <2>3. tip' = [tip EXCEPT ![RepoOf(c)] = Synced(c)]
    BY <1>5 DEF PullData
  <2>4. seen[c].theirs \subseteq tip'[RepoOf(c)]
    <3>1. tip'[RepoOf(c)] = Synced(c)
      BY <1>0, <2>3 DEF FeedInv, ReadInv, TipType
    <3>2. MayMerge(c)
      BY <1>1 DEF MayMerge
    <3>3. MayMerge(c) => seen[c].theirs \subseteq Synced(c)
      BY UpdatedKeeps DEF Synced
    <3> QED
      BY <3>1, <3>2, <3>3
  <2>5. Changes(seen[c].theirs) \subseteq Changes(tip'[RepoOf(c)])
    BY <2>4 DEF Changes
  <2>6. ASSUME NEW i \in 1..Len(Remotes[RepoOf(c)]), i < call'[c].at, Fed(c, i)
        PROVE  Passed \subseteq Changes(tip'[RepoOf(c)])
    <3>1. i < call[c].at \/ i = call[c].at
      BY <1>0, <1>1, <2>6
    <3> QED
      BY <1>0, <1>4, <2>1, <2>5, <2>6, <3>1 DEF Brings
  <2> QED
    BY <1>3, <1>4, <2>2, <2>6 DEF Brings
<1> QED
  BY <1>1, <1>2, <1>5 DEF Gets

LEMMA ControlGets ==
  ASSUME FeedInv, [DeliverNext]_allVars, NEW c \in DOMAIN call, ControlStep(c)
  PROVE  Gets(c)'
<1>0. /\ Gets(c) /\ Harmless(c) /\ WalkInv /\ c \in CallId
      /\ call[c] \in LocalVars /\ call \in [DOMAIN call -> LocalVars]
  BY CallRight DEF FeedInv, AimInv, PullInv, MutexInv, TypeOK
<1>1. c \notin DOMAIN seen' /\ Step(c)
  <2>1. c \notin DOMAIN seen /\ UNCHANGED seen
    BY ReaderUses DEF FeedInv, ReadInv, ReadRight, ControlStep, dataVars
  <2> QED
    BY <2>1 DEF ControlStep, Step
<1>2. CASE Cycle(c)
  <2>1. RepoOf(c) \in Path(c) /\ call'[c].pc = "done"
    BY <1>0, <1>2 DEF Cycle, Goto, LocalVars
  <2> QED
    BY <2>1 DEF Gets
<1>3. CASE Enter(c) \/ Lock(c)
  <2>1. /\ call'[c].pc \in {"lock", "prep"} /\ call'[c].at = call[c].at
        /\ RepoOf(c) \notin Path(c) /\ call[c].pc \in {"enter", "lock"}
    BY <1>0, <1>3 DEF Enter, Lock, Goto, LocalVars, Gets
  <2> QED
    BY <1>0, <2>1 DEF Gets
<1>4. CASE PrepFails(c)
  <2>1. call'[c].pc = "done" /\ ~call'[c].ok
    BY <1>0, <1>4 DEF PrepFails, Return, LocalVars
  <2> QED
    BY <2>1 DEF Gets
<1>6. CASE JoinPull(c)
  <2>1. /\ call'[c].pc = "pull" /\ call'[c].at = call[c].at /\ call[c].pc = "pullJoin"
    BY <1>0, <1>6 DEF JoinPull, LocalVars, Harmless
  <2>2. call'[c].at = 1 /\ RepoOf(c) \notin Path(c)
    BY <1>0, <2>1 DEF Gets
  <2>3. \A i \in 1..Len(Remotes[RepoOf(c)]) : ~(i < 1)
    BY <1>0, CallType, OperateAssumption
  <2> QED
    BY <1>1, <2>1, <2>2, <2>3 DEF Gets, Brings
<1>7. CASE PullDone(c)
  <2>1. call[c].pc = "pull" /\ call' = [call EXCEPT ![c].pc = "done", ![c].ok = call[c].ok]
    BY <1>7 DEF PullDone, Return
  <2>2. call'[c].pc = "done" /\ call'[c].at = call[c].at /\ call'[c].ok = call[c].ok
    BY <1>0, <2>1 DEF LocalVars
  <2>3. RepoOf(c) \notin Path(c)
    BY <1>0, <2>1 DEF Gets
  <2>4. ASSUME call[c].ok PROVE Brings(c)'
    <3>1. Returned(c, "pull") /\ Brings(c)
      BY <2>1, <2>3, <2>4, PullReturned
    <3> QED
      BY <1>1, <2>2, <3>1, FedKept, BringsKept
  <2> QED
    BY <2>2, <2>4 DEF Gets
<1>8. ~\/ ReachLocal(c) \/ LockRemote(c) \/ CheckoutRemote(c) \/ ForkPush(c) \/ JoinPush(c)
  BY <1>0 DEF ReachLocal, LockRemote, CheckoutRemote, ForkPush, JoinPush, Pushing, Looping, Harmless
<1> QED
  BY <1>2, <1>3, <1>4, <1>6, <1>7, <1>8 DEF ControlStep

LEMMA PrepareGets ==
  ASSUME FeedInv, NEW c \in DOMAIN call, Prepare(c)
  PROVE  Gets(c)'
<1>0. /\ Gets(c) /\ Harmless(c) /\ c \in CallId
      /\ call[c] \in LocalVars /\ call \in [DOMAIN call -> LocalVars]
  BY CallRight DEF FeedInv, AimInv, PullInv, MutexInv, TypeOK
<1>1. PrepThenFork(c) /\ call[c].pc = "prep"
  BY <1>0, Prepares DEF PrepThenSync, CommitThenSync, Harmless
<1>2. c \notin Children(c, "pull")
  BY <1>0, ChildType DEF Children, Mode
<1>3. PICK edited : call'[c] = [call[c] EXCEPT !.pc = "pullJoin", !.clean = Clean(c, edited)]
  BY <1>1, <1>2 DEF PrepThenFork, CommitThenFork, Fork
<1>4. call'[c].pc = "pullJoin" /\ call'[c].at = call[c].at
  BY <1>0, <1>3 DEF LocalVars
<1> QED
  BY <1>0, <1>1, <1>4 DEF Gets

LEMMA GetsStep ==
  ASSUME FeedInv, [DeliverNext]_allVars, NEW d \in DOMAIN call, DeliverStep(d),
         NEW c \in DOMAIN call'
  PROVE  Gets(c)'
<1>0. ReportInv /\ Harmless(d) /\ ReadInv
  BY DEF FeedInv, AimInv, WalkInv, PullInv
<1>1. Step(d) \/ (UNCHANGED call /\ Fetch(d))
  <2>1. ~Propose(d)
    BY <1>0
    DEF Propose, ListPulls, NumberBranch, PushBranch, UpdatePull, CreatePull, GiveUp, At,
        ReadInv, FallsRight, Pushing, Looping, Harmless
  <2>2. ~SyncAndPush(d)
    BY <1>0 DEF SyncAndPush, Pushing, Looping, Harmless
  <2> QED
    BY <2>1, <2>2, Prepares DEF DeliverStep, ControlStep, Fetch, PullData, Step, vars
<1>2. CASE c = d
  <2>1. ~Propose(d) /\ ~SyncAndPush(d)
    BY <1>0
    DEF Propose, ListPulls, NumberBranch, PushBranch, UpdatePull, CreatePull, GiveUp, At,
        ReadInv, FallsRight, Pushing, Looping, Harmless, SyncAndPush
  <2> QED
    BY <1>2, <2>1, FetchGets, PullDataGets, ControlGets, PrepareGets DEF DeliverStep
<1>3. CASE c \in DOMAIN call /\ c # d
  <2>1. call'[c] = call[c] /\ Gets(c)
    BY <1>0, <1>1, <1>3, StepFrame DEF FeedInv
  <2>2. CASE Fetch(c)
    BY <1>3, <2>2, FetchGets
  <2>3. CASE ~Fetch(c)
    <3>1. c \in DOMAIN seen' => c \in DOMAIN seen /\ seen'[c] = seen[c]
      BY <1>0, <2>3, SeenStep
    <3>2. ASSUME call[c].ok, RepoOf(c) \notin Path(c), call[c].pc \in {"pull", "done"}
          PROVE  Brings(c)'
      <4>1. Returned(c, "pull") /\ Brings(c)
        BY <1>3, <3>2, PullReturned
      <4>2. \A i : Fed(c, i)' = Fed(c, i)
        BY <1>1, <1>3, <4>1, FedKept DEF Fed
      <4> QED
        BY <1>3, <2>1, <3>1, <4>1, <4>2, BringsKept
    <3> QED
      BY <2>1, <3>2 DEF Gets
  <2> QED
    BY <2>2, <2>3
<1>4. CASE c \notin DOMAIN call
  <2>1. call'[c] = NewCall
    BY <1>0, <1>1, <1>4, StepFrame
  <2> QED
    BY <2>1 DEF Gets, NewCall
<1> QED
  BY <1>2, <1>3, <1>4

LEMMA FeedInit == Action = "pull" /\ DeliverInit => FeedInv
<1> SUFFICES ASSUME Action = "pull", DeliverInit PROVE FeedInv
  OBVIOUS
<1>1. AimInv /\ ReadInv /\ PullInv /\ start = tip
  BY AimInit, ReadInit, PullInit DEF DeliverInit
<1>2. \A c \in DOMAIN call : call[c] = NewCall
  BY DEF DeliverInit, Init, FirstCalls
<1> QED
  BY <1>1, <1>2 DEF FeedInv, Passed, Gets, NewCall

LEMMA FeedStep ==
  ASSUME Action = "pull", FeedInv, [DeliverNext]_allVars
  PROVE  FeedInv'
<1>1. AimInv' /\ ReadInv' /\ PullInv' /\ [Next]_vars
  BY DeliverIsOperate, AimNext, ReadStep, PullNext DEF FeedInv
<1>2. (Passed \subseteq Changes(tip[Network]))'
  BY PassedKept DEF FeedInv, Place
<1>3. ASSUME NEW c \in DOMAIN call' PROVE Gets(c)'
  <2>1. CASE Interrupted
    <3>1. call'[c] = NewCall
      BY <1>3, <2>1 DEF Interrupted, Interrupt, FirstCalls
    <3> QED
      BY <3>1 DEF Gets, NewCall
  <2>2. ASSUME NEW d \in DOMAIN call, DeliverStep(d) PROVE Gets(c)'
    BY <1>3, <2>2, GetsStep
  <2>3. CASE UNCHANGED <<call, seen>>
    <3>1. c \in DOMAIN call /\ Gets(c)
      BY <1>3, <2>3 DEF FeedInv
    <3>3. \A i : Fed(c, i)' = Fed(c, i)
      BY <2>3 DEF Fed
    <3>4. Brings(c) => Brings(c)'
      BY <2>3, <3>1, <3>3, BringsKept
    <3> QED
      BY <2>3, <3>1, <3>4 DEF Gets
  <2> QED
    BY <2>1, <2>2, <2>3, StepKinds
<1> QED
  BY <1>1, <1>2, <1>3 DEF FeedInv

(* PullReachesEnds: a pull that reports no error, with -rebase or without, *)
(* has brought every change the network had into each repository that has  *)
(* a mirror of it, whatever was interrupted before, edited meanwhile, or   *)
(* skipped elsewhere (operateLocked: children first, then pull; pullRepo). *)
THEOREM PullDelivers == DeliverSpec => []PullReachesEnds
<1>1. Action = "pull" /\ FeedInv /\ [DeliverNext]_allVars => FeedInv'
  BY FeedStep
<1>2. FeedInv => PullReachesEnds
  <2> SUFFICES ASSUME FeedInv, Action = "pull", Succeeded, NEW r \in Root, NEW q \in Mirrors(r)
               PROVE  Passed \subseteq Changes(tip[r])
    BY DEF PullReachesEnds, Passed
  <2>0. WalkInv /\ r \in Repo /\ q \in Repo /\ Network \notin Repo
    BY OperateAssumption DEF FeedInv, AimInv, Mirrors
  <2>1. PICK c \in RootCalls :
           /\ c \in DOMAIN call /\ c \in CallId /\ Len(c) = 1
           /\ RepoOf(c) = r /\ ModeOf(c) = Action /\ c[1].repo = r /\ Path(c) = {}
           /\ call[c].pc = "done" /\ call[c].ok
    BY <2>0, RootWalked
  <2>2. /\ {r, q} \cap Skipped = {}
        /\ \E i \in DOMAIN Remotes[r] : Remotes[r][i] = q
        /\ \E j \in DOMAIN Remotes[q] : Remotes[q][j] = Network
    BY DEF Mirrors
  <2>3. PICK i \in 1..Len(Remotes[r]) : Remotes[r][i] = q
    BY <2>0, <2>2, OperateAssumption
  <2>4. PICK j \in 1..Len(Remotes[q]) : Remotes[q][j] = Network
    BY <2>0, <2>2, OperateAssumption
  <2>5. Returned(c, "pull") /\ Brings(c)
    BY <2>1, PullReturned
  <2>6. call[c].clean
    BY <2>1, <2>2 DEF Skipped
  <2>7. call[c].at > Len(Remotes[r])
    BY <2>1, <2>6 DEF FeedInv, AimInv, WalkInv, Walked
  <2>8. \A k \in 1..Len(Remotes[r]) : k < call[c].at
    BY <2>0, <2>1, <2>7, CallRight, OperateAssumption
  <2>9. CASE q = r
    BY <2>1, <2>4, <2>5, <2>8, <2>9 DEF Brings, Fed
  <2>10. CASE q # r
    <3> DEFINE d == Child(c, "pull", i)
    <3>1. i \in LocalRemotes(r) /\ d \in Children(c, "pull")
      BY <2>0, <2>1, <2>3 DEF LocalRemotes, Children
    <3>2. d \in DOMAIN call
      BY <2>5, <3>1 DEF Returned
    <3>3. RepoOf(d) = q
      BY <2>1, <2>3, <3>1, ChildType DEF Mode
    <3>4. call[d].clean
      BY <2>2, <3>2, <3>3 DEF Skipped
    <3>5. Fed(c, i)
      BY <2>1, <2>3, <2>4, <2>10, <3>1, <3>4 DEF Fed
    <3> QED
      BY <2>1, <2>3, <2>5, <2>8, <3>5 DEF Brings
  <2> QED
    BY <2>9, <2>10
<1>3. CASE Action = "pull"
  <2>1. DeliverInit => FeedInv
    BY <1>3, FeedInit
  <2>2. FeedInv /\ [DeliverNext]_allVars => FeedInv'
    BY <1>1, <1>3
  <2> QED
    BY <1>2, <2>1, <2>2, PTL DEF DeliverSpec
<1>4. CASE Action # "pull"
  <2>1. PullReachesEnds
    BY <1>4 DEF PullReachesEnds
  <2> QED
    BY <2>1, PTL
<1> QED
  BY <1>3, <1>4

----------------------------------------------------------------------------
(* Every mutex is used, and given back *)

(* The converse of MutexInv: a call that owns a mutex is past Lock in that *)
(* repository, or pushes into it.                                          *)
Uses(c, r) ==
  \/ RepoOf(c) = r /\ call[c].pc \in Holding
  \/ call[c].pc = "push" /\ Target(c) = r

OwnersUse == \A r \in Repo : owner[r] # None => Uses(owner[r], r)

UseInv == ReportInv /\ MutexInv /\ OwnersUse

(* What c owns after a step of its own it uses.                            *)
LEMMA OwnUses ==
  ASSUME UseInv, NEW c \in DOMAIN call, Step(c), NEW r \in Repo, owner'[r] = c
  PROVE  Uses(c, r)'
<1>0. /\ call[c] \in LocalVars /\ call \in [DOMAIN call -> LocalVars]
      /\ owner \in [Repo -> DOMAIN call \cup {None}]
      /\ c \in CallId /\ c # None /\ RepoOf(c) \in Repo
      /\ owner[r] = c => Uses(c, r)
  BY CallType DEF UseInv, OwnersUse, MutexInv, TypeOK, CallId
<1>1. ASSUME owner[r] = c, RepoOf(c) = r, call'[c].pc \in Holding PROVE Uses(c, r)'
  BY <1>1 DEF Uses
<1>2. ASSUME owner' = owner, call[c].pc # "push", call'[c].pc \in Holding PROVE Uses(c, r)'
  BY <1>0, <1>1, <1>2 DEF Uses
<1>3. CASE Cycle(c) \/ Enter(c)
  <2>1. owner[r] = c /\ call[c].pc = "enter"
    BY <1>3 DEF Cycle, Enter
  <2> QED
    BY <1>0, <2>1 DEF Uses, Holding
<1>4. CASE Lock(c)
  <2>1. /\ call[c].pc = "lock" /\ call'[c].pc = "prep"
        /\ owner' = [owner EXCEPT ![RepoOf(c)] = c]
    BY <1>0, <1>4 DEF Lock, Goto, LocalVars
  <2>2. RepoOf(c) = r
    BY <1>0, <2>1 DEF Uses, Holding
  <2> QED
    BY <2>1, <2>2 DEF Uses, Holding, PC
<1>5. CASE PrepFails(c) \/ PullDone(c) \/ JoinPush(c)
  <2>1. /\ call[c].pc \in {"prep", "pull", "pushJoin"}
        /\ owner' = [owner EXCEPT ![RepoOf(c)] = None]
    BY <1>5 DEF PrepFails, PullDone, JoinPush, Return
  <2>2. RepoOf(c) # r /\ owner[r] = c
    BY <1>0, <2>1
  <2> QED
    BY <1>0, <2>1, <2>2 DEF Uses
<1>6. CASE PrepThenFork(c) \/ ForkPush(c)
  <2>1. c \notin Children(c, "pull") /\ c \notin Children(c, "pushOnly")
    BY <1>0, ChildType DEF Children, Mode
  <2>2. call[c] \in LocalVars
    BY <1>0
  <2>3. call'[c].pc \in {"pullJoin", "pushJoin"} /\ call[c].pc \in {"prep", "sync"}
    <3>1. CASE PrepThenFork(c)
      <4>1. \E edited : call'[c] = [call[c] EXCEPT !.pc = "pullJoin", !.clean = Clean(c, edited)]
        BY <2>1, <3>1 DEF PrepThenFork, CommitThenFork, Fork
      <4> QED
        BY <2>2, <3>1, <4>1 DEF PrepThenFork, CommitThenFork, LocalVars
    <3>2. CASE ForkPush(c)
      <4>1. call'[c] = [call[c] EXCEPT !.pc = "pushJoin"]
        BY <2>1, <3>2 DEF ForkPush, Fork
      <4> QED
        BY <2>2, <3>2, <4>1 DEF ForkPush, LocalVars
    <3> QED
      BY <1>6, <3>1, <3>2
  <2> QED
    BY <1>2, <1>6, <2>3 DEF PrepThenFork, CommitThenFork, ForkPush, MaybeCommit, Holding, PC
<1>7. CASE PrepThenSync(c) \/ JoinPull(c) \/ CheckoutRemote(c) \/ ReachLocal(c)
  <2>1. call[c].pc # "push" /\ owner' = owner
    BY <1>7 DEF PrepThenSync, CommitThenSync, MaybeCommit, JoinPull, CheckoutRemote, ReachLocal, Pushing, Looping
  <2>2. call'[c].pc \in {"sync", "pull", "lockRemote"}
    <3>1. call[c] \in LocalVars /\ call \in [DOMAIN call -> LocalVars]
      BY <1>0
    <3>2. CASE CheckoutRemote(c) \/ ReachLocal(c)
      BY <3>1, <3>2 DEF CheckoutRemote, ReachLocal, Goto, LocalVars
    <3>3. CASE JoinPull(c)
      BY <3>1, <3>3 DEF JoinPull, LocalVars
    <3>4. CASE PrepThenSync(c)
      <4>1. \E edited :
              call' = [call EXCEPT ![c].pc = "sync", ![c].clean = Clean(c, edited)]
        BY <3>4 DEF PrepThenSync, CommitThenSync
      <4> QED
        BY <3>1, <4>1 DEF LocalVars
    <3> QED
      BY <1>7, <3>2, <3>3, <3>4
  <2> QED
    BY <1>2, <2>1, <2>2 DEF Holding, PC
<1>8. CASE PullRemote(c) \/ SyncNetwork(c)
  <2>1. SyncWith(c) /\ call[c].pc \in {"pull", "sync"}
    BY <1>8 DEF PullRemote, SyncNetwork, Pushing, Looping
  <2>2. call'[c].pc = call[c].pc /\ owner' = owner
    BY <1>0, <2>1 DEF SyncWith, LocalVars
  <2> QED
    BY <1>2, <2>1, <2>2 DEF Holding, PC
<1>9. CASE LockRemote(c)
  <2>1. /\ call[c].pc = "lockRemote" /\ call'[c].pc = "push" /\ call'[c].at = call[c].at
        /\ owner' = [owner EXCEPT ![Target(c)] = c]
    BY <1>0, <1>9 DEF LockRemote, Goto, LocalVars
  <2>2. Target(c)' = Target(c)
    BY <2>1 DEF Target
  <2>3. CASE Target(c) = r
    BY <2>1, <2>2, <2>3 DEF Uses
  <2>4. CASE Target(c) # r
    <3>1. owner[r] = c
      BY <1>0, <2>1, <2>4
    <3>2. RepoOf(c) = r
      BY <1>0, <2>1, <3>1 DEF Uses
    <3> QED
      BY <2>1, <3>2 DEF Uses, Holding, PC
  <2> QED
    BY <2>3, <2>4
<1>10. CASE PushRemote(c)
  <2>1. /\ call[c].pc = "push" /\ call'[c].pc \in {"checkout", "sync"}
        /\ owner' = [owner EXCEPT ![Target(c)] = None]
    BY <1>0, <1>10 DEF PushRemote, LocalVars
  <2>2. Target(c) # r /\ owner[r] = c
    BY <1>0, <2>1
  <2>3. RepoOf(c) = r
    BY <1>0, <2>1, <2>2 DEF Uses
  <2> QED
    BY <2>1, <2>3 DEF Uses, Holding, PC
<1> QED
  BY <1>3, <1>4, <1>5, <1>6, <1>7, <1>8, <1>9, <1>10 DEF Step

(* A step of c gives no mutex to another call.                             *)
LEMMA OwnersOld ==
  ASSUME TypeOK, NEW c \in DOMAIN call, Step(c), NEW r \in Repo,
         owner'[r] # None, owner'[r] # c
  PROVE  owner[r] = owner'[r]
<1>1. owner \in [Repo -> DOMAIN call \cup {None}]
  BY DEF TypeOK
<1>2. CASE Lock(c)
  BY <1>1, <1>2 DEF Lock
<1>3. CASE LockRemote(c)
  BY <1>1, <1>3 DEF LockRemote
<1>4. CASE PrepFails(c) \/ PullDone(c) \/ JoinPush(c)
  BY <1>1, <1>4 DEF PrepFails, PullDone, JoinPush, Return
<1>5. CASE PushRemote(c)
  BY <1>1, <1>5 DEF PushRemote
<1>6. CASE owner' = owner
  BY <1>6
<1> QED
  BY <1>2, <1>3, <1>4, <1>5, <1>6
  DEF Step, Cycle, Enter, PrepThenFork, CommitThenFork, PrepThenSync, CommitThenSync, MaybeCommit, JoinPull,
      PullRemote, SyncNetwork, SyncWith, ReachLocal, CheckoutRemote, ForkPush

LEMMA UseNext == UseInv /\ [Next]_vars => UseInv'
<1> SUFFICES ASSUME UseInv, [Next]_vars, NEW r \in Repo, owner'[r] # None
             PROVE  Uses(owner[r], r)'
  BY ReportNext, MutexNext DEF UseInv, OwnersUse
<1>0. ReportInv /\ TypeOK
  BY DEF UseInv, MutexInv
<1>1. ASSUME NEW c \in DOMAIN call, Step(c) PROVE Uses(owner[r], r)'
  <2>1. CASE owner'[r] = c
    BY <1>1, <2>1, OwnUses DEF Uses
  <2>2. CASE owner'[r] # c
    <3> DEFINE d == owner[r]
    <3>1. owner'[r] = d /\ d \in DOMAIN call /\ d # c
      BY <1>0, <1>1, <2>2, OwnersOld DEF TypeOK
    <3>2. call'[d] = call[d] /\ Uses(d, r)
      BY <1>0, <1>1, <3>1, StepFrame DEF UseInv, OwnersUse
    <3> HIDE DEF d
    <3> QED
      BY <3>1, <3>2 DEF Uses, Target
  <2> QED
    BY <2>1, <2>2
<1>2. CASE UNCHANGED <<call, owner>>
  BY <1>2 DEF UseInv, OwnersUse, Uses, Target
<1>3. CASE Interrupt
  BY <1>3 DEF Interrupt, AllFree
<1> QED
  BY <1>1, <1>2, <1>3 DEF Next, Edit, Exit, vars

LEMMA UseInit == Init => UseInv
  BY CallerInit, ReportFirst, MutexInit DEF Init, ReportInv, UseInv, OwnersUse, AllFree

LEMMA UseHolds == Spec => []UseInv
  BY UseInit, UseNext, PTL DEF Spec

(* Once main has all its results, no call is left running and every mutex  *)
(* is free again: the safety half of Termination.                          *)
ExitsClean == Finished => Live = {} /\ \A r \in Repo : owner[r] = None

LEMMA UseImplies == UseInv => ExitsClean
<1> SUFFICES ASSUME UseInv, Finished
             PROVE  Live = {} /\ \A r \in Repo : owner[r] = None
  BY DEF ExitsClean
<1>0. /\ CallersWait /\ Rooted /\ DOMAIN call \subseteq CallId
      /\ owner \in [Repo -> DOMAIN call \cup {None}]
  BY DEF UseInv, ReportInv, CallerInv, TypeOK, CallId
<1>1. ASSUME NEW c \in Live PROVE FALSE
  <2>1. c \in CallId /\ Len(c) \in Nat \ {0} /\ call[c].pc # "done"
    BY <1>0 DEF Live, CallId, None
  <2>2. Above(c, 1) \in RootCalls /\ call[Above(c, 1)].pc = "done"
    BY <1>0 DEF Rooted, Live, Finished
  <2>3. CASE Len(c) = 1
    <3>1. Above(c, 1) = c
      BY <2>1, <2>3, AboveSelf
    <3> QED
      BY <2>1, <2>2, <3>1
  <2>4. CASE Len(c) # 1
    <3>1. 1 \in 1..(Len(c) - 1)
      <4>1. \A n \in Nat \ {0, 1} : 1 \in 1..(n - 1)
        OBVIOUS
      <4> QED
        BY <2>1, <2>4, <4>1
    <3>2. call[Above(c, 1)].pc = JoinPC(c[1 + 1].mode)
      BY <1>0, <3>1 DEF CallersWait
    <3> QED
      BY <2>2, <3>2 DEF JoinPC
  <2> QED
    BY <2>3, <2>4
<1>2. ASSUME NEW r \in Repo, owner[r] # None PROVE FALSE
  <2>1. owner[r] \in DOMAIN call /\ Uses(owner[r], r)
    BY <1>0, <1>2 DEF UseInv, OwnersUse
  <2>2. call[owner[r]].pc # "done"
    BY <2>1 DEF Uses, Holding
  <2> QED
    BY <1>1, <2>1, <2>2 DEF Live
<1> QED
  BY <1>1, <1>2

(* When main returns, no goroutine it started, however deep, is still at   *)
(* work, and no mutex has been left locked, whatever failed on the way and *)
(* however often gitall was interrupted (operateAll waits for its          *)
(* goroutines; every withLock unlocks, also when its operation fails).     *)
THEOREM NothingLeftRunning == Spec => []ExitsClean
  BY UseHolds, UseImplies, PTL

----------------------------------------------------------------------------
(* Waits end *)

LessThan == {p \in Nat \X Nat : p[1] < p[2]}

(* A set of numbers has a least element.                                   *)
LEMMA Least ==
  ASSUME NEW S, S \subseteq Nat, S # {}
  PROVE  \E x \in S : \A y \in S : x <= y
<1>1. IsWellFoundedOn(LessThan, Nat)
  <2>1. LessThan = OpToRel(<, Nat)
    BY DEF LessThan, OpToRel
  <2> QED
    BY <2>1, NatLessThanWellFounded
<1>2. PICK x \in S : \A y \in S : ~(<<y, x>> \in LessThan)
  BY <1>1, WFMin
<1>3. ASSUME NEW y \in S PROVE x <= y
  <2>1. x \in Nat /\ y \in Nat /\ ~(<<y, x>> \in LessThan)
    BY <1>2
  <2>2. ~(y < x)
    BY <2>1 DEF LessThan
  <2> QED
    BY <2>1, <2>2
<1> QED
  BY <1>3

(* What keeps a call from its next step: a mutex that somebody owns, or a  *)
(* goroutine that has not returned.  No other step waits.                  *)
Blocked(c) ==
  \/ call[c].pc = "lock" /\ owner[RepoOf(c)] # None
  \/ call[c].pc = "lockRemote" /\ owner[Target(c)] # None
  \/ call[c].pc = "pullJoin" /\ ~Joined(c, "pull")
  \/ call[c].pc = "pushJoin" /\ ~Joined(c, "pushOnly")

NoDeadlock == Live # {} => \E c \in Live : ~Blocked(c)

(* The rank of the mutex a call waits for, if it waits for one.            *)
Wanted(Rank, c) ==
  IF call[c].pc = "lockRemote" THEN Rank[Target(c)] ELSE Rank[RepoOf(c)]

LEMMA WantedType ==
  ASSUME NEW Rank, OrderInv(Rank), NEW c \in DOMAIN call
  PROVE  /\ RepoOf(c) \in Repo /\ Rank[RepoOf(c)] \in Nat
         /\ Wanted(Rank, c) \in Nat /\ Wanted(Rank, c) <= Rank[RepoOf(c)]
         /\ call[c].pc = "lockRemote" =>
              Target(c) \in Repo /\ Wanted(Rank, c) < Rank[RepoOf(c)]
<1>1. RepoOf(c) \in Repo /\ Rank \in [Repo -> Nat]
  BY CallType DEF OrderInv, Ranked, TypeOK, CallId
<1>2. call[c].pc = "lockRemote" => Target(c) \in Repo /\ Rank[Target(c)] < Rank[RepoOf(c)]
  BY <1>1 DEF OrderInv, Ranked, TypeOK, Target, LocalRemotes
<1> QED
  BY <1>1, <1>2 DEF Wanted

(* Whoever waits for goroutines waits for one that wants less.             *)
LEMMA JoinDescends ==
  ASSUME NEW Rank, OrderInv(Rank), ReportInv, NEW c \in DOMAIN call, Blocked(c),
         call[c].pc \in {"pullJoin", "pushJoin"}
  PROVE  \E d \in Live : Wanted(Rank, d) < Rank[RepoOf(c)]
<1>1. PICK md \in Forked : call[c].pc = JoinPC(md) /\ ~Joined(c, md)
  BY DEF Blocked, Forked, JoinPC
<1>2. PICK d \in Children(c, md) : d \in DOMAIN call /\ call[d].pc # "done"
  BY <1>1 DEF Joined, ReportInv, Started
<1>3. PICK i \in LocalRemotes(RepoOf(c)) : d = Child(c, md, i)
  BY <1>2 DEF Children
<1>4. c \in CallId /\ md \in Mode /\ RepoOf(c) \in Repo
  BY CallType DEF OrderInv, TypeOK, CallId, Forked, Mode
<1>5. RepoOf(d) = Remotes[RepoOf(c)][i]
  BY <1>3, <1>4, ChildType
<1>6. Rank[RepoOf(d)] < Rank[RepoOf(c)]
  BY <1>4, <1>5 DEF OrderInv, Ranked
<1>7. /\ Wanted(Rank, d) <= Rank[RepoOf(d)] /\ Wanted(Rank, d) \in Nat
      /\ Rank[RepoOf(d)] \in Nat /\ Rank[RepoOf(c)] \in Nat
  BY <1>2, WantedType
<1> QED
  BY <1>2, <1>6, <1>7 DEF Live

(* Whoever waits for a mutex waits for a call that can go on, or that      *)
(* itself waits for one that wants less.                                   *)
LEMMA LockDescends ==
  ASSUME NEW Rank, OrderInv(Rank), UseInv, NEW r \in Repo, owner[r] # None
  PROVE  \E d \in Live : ~Blocked(d) \/ Wanted(Rank, d) < Rank[r]
<1> DEFINE d == owner[r]
<1>1. d \in DOMAIN call /\ Uses(d, r) /\ ReportInv
  BY DEF UseInv, OwnersUse, MutexInv, TypeOK
<1>2. d \in Live
  BY <1>1 DEF Uses, Live, Holding
<1> HIDE DEF d
<1>3. ASSUME Blocked(d)
      PROVE  call[d].pc \in {"lockRemote", "pullJoin", "pushJoin"} /\ RepoOf(d) = r
  BY <1>1, <1>3 DEF Blocked, Uses, Holding, PC
<1>4. CASE Blocked(d) /\ call[d].pc = "lockRemote"
  BY <1>1, <1>2, <1>3, <1>4, WantedType
<1>5. CASE Blocked(d) /\ call[d].pc # "lockRemote"
  BY <1>1, <1>3, <1>5, JoinDescends
<1> QED
  BY <1>2, <1>3, <1>4, <1>5

LEMMA CalmImplies ==
  ASSUME NEW Rank, OrderInv(Rank), UseInv
  PROVE  NoDeadlock
<1> SUFFICES ASSUME Live # {}, \A c \in Live : Blocked(c)
             PROVE  FALSE
  BY DEF NoDeadlock
<1> DEFINE All == {Wanted(Rank, c) : c \in Live}
<1>1. All \subseteq Nat /\ All # {}
  BY WantedType DEF Live
<1>2. PICK c \in Live : \A d \in Live : Wanted(Rank, c) <= Wanted(Rank, d)
  <2>1. PICK x \in All : \A y \in All : x <= y
    BY <1>1, Least
  <2> QED
    BY <2>1
<1>3. ASSUME NEW d \in Live PROVE ~(Wanted(Rank, d) < Wanted(Rank, c))
  <2>1. Wanted(Rank, d) \in Nat /\ Wanted(Rank, c) \in Nat
    BY <1>2, WantedType DEF Live
  <2> QED
    BY <1>2, <2>1
<1>4. c \in DOMAIN call /\ Blocked(c) /\ ReportInv
  BY <1>2 DEF Live, UseInv
<1>5. CASE call[c].pc \in {"pullJoin", "pushJoin"}
  <2>1. Wanted(Rank, c) = Rank[RepoOf(c)]
    BY <1>5 DEF Wanted
  <2> QED
    BY <1>3, <1>4, <1>5, <2>1, JoinDescends
<1>6. CASE call[c].pc \in {"lock", "lockRemote"}
  <2>1. PICK r \in Repo : owner[r] # None /\ Wanted(Rank, c) = Rank[r]
    BY <1>4, <1>6, WantedType DEF Blocked, Wanted
  <2> QED
    BY <1>3, <2>1, LockDescends
<1> QED
  BY <1>4, <1>5, <1>6 DEF Blocked

(* As long as calls are running, one of them can take its next step, when  *)
(* the local remotes of the repositories form no cycle, however many calls *)
(* compete for a shared remote: pushes, which wait for a second mutex      *)
(* while they hold their own, included (operate, syncAndPushRepo,          *)
(* withLock).  With remotes in a cycle the code does come to a standstill. *)
THEOREM NeverStuck ==
  ASSUME NEW Rank, Ranked(Rank)
  PROVE  Spec => []NoDeadlock
<1>1. OrderInv(Rank) /\ UseInv => NoDeadlock
  BY CalmImplies
<1> QED
  BY <1>1, OrderHolds, UseHolds, PTL

----------------------------------------------------------------------------
(* How far calls go *)

(* The callers of a call work on different repositories.                   *)
Simple(c) == \A i, j \in 1..(Len(c) - 1) : c[i].repo = c[j].repo => i = j

PathInv == AimInv /\ \A c \in DOMAIN call : Simple(c)

LEMMA SimpleChild ==
  ASSUME NEW c \in CallId, Simple(c), RepoOf(c) \notin Path(c),
         NEW md \in Mode, NEW d \in Children(c, md)
  PROVE  Simple(d)
<1>1. /\ Len(d) = Len(c) + 1 /\ Len(c) \in Nat \ {0}
      /\ \A i \in 1..Len(c) : d[i] = c[i]
  BY AboveChild DEF CallId, None
<1>2. \A i \in 1..(Len(c) - 1) : c[i].repo # c[Len(c)].repo
  BY DEF Path, RepoOf
<1> DEFINE n == Len(c)
<1>3. /\ n \in Nat \ {0} /\ \A i, j \in 1..(n - 1) : c[i].repo = c[j].repo => i = j
      /\ \A i \in 1..(n - 1) : c[i].repo # c[n].repo
  BY <1>1, <1>2 DEF Simple
<1>4. Len(d) - 1 = n /\ \A i \in 1..n : d[i].repo = c[i].repo
  BY <1>1
<1> HIDE DEF n
<1>5. \A i, j \in 1..n : c[i].repo = c[j].repo => i = j
  <2>1. \A i \in 1..n : i = n \/ i \in 1..(n - 1)
    BY <1>3
  <2> QED
    BY <1>3, <2>1
<1> QED
  BY <1>4, <1>5 DEF Simple

LEMMA SimpleFirst == \A c \in RootCalls : Simple(c)
  BY NoCallers DEF Simple

LEMMA PathNext == PathInv /\ [Next]_vars => PathInv'
<1> SUFFICES ASSUME PathInv, [Next]_vars PROVE \A c \in DOMAIN call' : Simple(c)
  BY AimNext DEF PathInv, Simple
<1>0. AimInv /\ WalkInv /\ ReportInv
  BY DEF PathInv, AimInv, WalkInv
<1>1. ASSUME NEW d \in DOMAIN call, Step(d), NEW c \in DOMAIN call' \ DOMAIN call PROVE Simple(c)
  <2>1. d \in CallId /\ call[d] \in LocalVars
    BY <1>0, CallRight
  <2>2. PICK md \in Forked :
          c \in Children(d, md) /\ call[d].pc \in {"prep", "sync"}
    BY <1>0, <1>1, StepFrame DEF PrepThenFork, CommitThenFork, ForkPush, Forked
  <2>3. RepoOf(d) \notin Path(d) /\ md \in Mode
    BY <1>0, <2>2 DEF AimInv, Aims, Forked, Mode
  <2> QED
    BY <2>1, <2>2, <2>3, SimpleChild DEF PathInv
<1>2. CASE Interrupt
  BY <1>2, SimpleFirst DEF Interrupt, FirstCalls
<1>3. CASE UNCHANGED call
  BY <1>3 DEF PathInv
<1>4. CASE \E d \in DOMAIN call : Step(d)
  BY <1>1, <1>4 DEF PathInv
<1> QED
  BY <1>2, <1>3, <1>4 DEF Next, Edit, Exit, vars

(* No call lies deeper in the recursion than there are repositories.       *)
DepthBounded == \A c \in DOMAIN call : Len(c) <= Cardinality(Repo) + 1

LEMMA PathImplies == IsFiniteSet(Repo) /\ PathInv => DepthBounded
<1> SUFFICES ASSUME IsFiniteSet(Repo), PathInv, NEW c \in DOMAIN call
             PROVE  Len(c) <= Cardinality(Repo) + 1
  BY DEF DepthBounded
<1> DEFINE n == Len(c) - 1
           on == [i \in 1..n |-> c[i].repo]
<1>1. c \in CallId /\ Len(c) \in Nat \ {0} /\ n \in Nat
  BY CallRight DEF PathInv, AimInv
<1>2. \A i \in 1..n : c[i].repo \in Repo
  BY <1>1, CallType DEF Path
<1>3. \A i, j \in 1..n : c[i].repo = c[j].repo => i = j
  BY DEF PathInv, Simple
<1>4. on \in Injection(1..n, Repo)
  <2>1. on \in [1..n -> Repo]
    BY <1>2
  <2>2. \A i, j \in 1..n : on[i] = on[j] => i = j
    BY <1>3
  <2> HIDE DEF on, n
  <2> QED
    BY <2>1, <2>2 DEF Injection, IsInjective
<1>5. Cardinality(1..n) <= Cardinality(Repo)
  BY <1>4, FS_Injection
<1>6. Cardinality(1..n) = n
  <2>1. Cardinality(1..n) = IF 1 > n THEN 0 ELSE n - 1 + 1
    <3> HIDE DEF n
    <3>1. n \in Int /\ 1 \in Int
      BY <1>1
    <3> QED
      BY <3>1, FS_Interval
  <2> HIDE DEF n
  <2> QED
    BY <1>1, <2>1
<1>7. Cardinality(Repo) \in Nat
  BY FS_CardinalityType
<1> QED
  BY <1>1, <1>5, <1>6, <1>7

(* Whatever the remotes, cyclic ones included, the recursion is no deeper  *)
(* than the number of repositories: the stack check of operate turns back  *)
(* every call that comes to a repository a second time (operate,           *)
(* docs/gitall.md: "Cycles are prevented by tracking repositories on the   *)
(* current recursion path").                                               *)
THEOREM RecursionEnds == IsFiniteSet(Repo) => (Spec => []DepthBounded)
<1> SUFFICES ASSUME IsFiniteSet(Repo) PROVE Spec => []DepthBounded
  OBVIOUS
<1>1. Init => PathInv
  BY AimInit, SimpleFirst DEF Init, FirstCalls, PathInv
<1>2. PathInv => DepthBounded
  BY PathImplies
<1> QED
  BY <1>1, <1>2, PathNext, PTL DEF Spec

----------------------------------------------------------------------------
(* Calls only go forward *)

(* The stages of a call, in order; the loops over remotes come back to     *)
(* "sync" with the next remote.                                            *)
StageOf ==
  [enter |-> 0, lock |-> 1, prep |-> 2, pullJoin |-> 3, pull |-> 4, sync |-> 5,
   lockRemote |-> 6, push |-> 7, checkout |-> 8, pushJoin |-> 9, done |-> 10]

(* The call goes on to a later remote, or to a later stage with the same.  *)
Forward(c) ==
  \/ call'[c].at = call[c].at + 1
  \/ call'[c].at = call[c].at /\ StageOf[call'[c].pc] > StageOf[call[c].pc]

(* No call is further than one past its last remote.                       *)
InLoop == \A c \in DOMAIN call : call[c].at <= Len(Remotes[RepoOf(c)]) + 1

LoopInv == WalkInv /\ InLoop

LEMMA ForwardStep ==
  ASSUME WalkInv, NEW c \in DOMAIN call, Step(c)
  PROVE  /\ Forward(c)
         /\ call'[c].at # call[c].at =>
              call[c].pc \in {"push", "checkout"} \/ call[c].at <= Len(Remotes[RepoOf(c)])
<1>0. call[c] \in LocalVars /\ call \in [DOMAIN call -> LocalVars] /\ c \in CallId
  BY CallRight DEF WalkInv, ReportInv, CallerInv, TypeOK
<1>1. ASSUME call'[c].at = call[c].at, call[c].pc \in PC, call'[c].pc \in PC,
             StageOf[call'[c].pc] > StageOf[call[c].pc]
      PROVE  /\ Forward(c)
             /\ call'[c].at # call[c].at =>
                  call[c].pc \in {"push", "checkout"} \/ call[c].at <= Len(Remotes[RepoOf(c)])
  BY <1>1 DEF Forward
<1>2. CASE Cycle(c) \/ Enter(c) \/ Lock(c) \/ ReachLocal(c) \/ LockRemote(c)
  <2>1. \E l \in PC : Goto(c, l) /\ StageOf[l] > StageOf[call[c].pc]
    <3>1. CASE Cycle(c)
      BY <3>1 DEF Cycle, StageOf, PC
    <3>2. CASE Enter(c)
      BY <3>2 DEF Enter, StageOf, PC
    <3>3. CASE Lock(c)
      BY <3>3 DEF Lock, StageOf, PC
    <3>4. CASE ReachLocal(c)
      BY <3>4 DEF ReachLocal, Pushing, Looping, StageOf, PC
    <3>5. CASE LockRemote(c)
      BY <3>5 DEF LockRemote, StageOf, PC
    <3> QED
      BY <1>2, <3>1, <3>2, <3>3, <3>4, <3>5
  <2>2. PICK l \in PC : Goto(c, l) /\ StageOf[l] > StageOf[call[c].pc]
    BY <2>1
  <2>3. call'[c].pc = l /\ call'[c].at = call[c].at
    BY <1>0, <2>2 DEF Goto, LocalVars
  <2> QED
    BY <2>2, <2>3 DEF Forward
<1>3. CASE PrepFails(c) \/ PullDone(c) \/ JoinPush(c)
  <2>1. call[c].pc \in {"prep", "pull", "pushJoin"}
        /\ \E ok : call' = [call EXCEPT ![c].pc = "done", ![c].ok = ok]
    BY <1>3 DEF PrepFails, PullDone, JoinPush, Return
  <2>2. call'[c].pc = "done" /\ call'[c].at = call[c].at
    BY <1>0, <2>1 DEF LocalVars
  <2> QED
    BY <2>1, <2>2 DEF Forward, StageOf
<1>4. CASE PrepThenFork(c) \/ ForkPush(c)
  <2>1. c \notin Children(c, "pull") /\ c \notin Children(c, "pushOnly")
    BY <1>0, ChildType DEF Children, Mode
  <2>2. CASE PrepThenFork(c)
    <3>1. call[c].pc = "prep"
          /\ \E edited :
               call'[c] = [call[c] EXCEPT !.pc = "pullJoin", !.clean = Clean(c, edited)]
      BY <2>1, <2>2 DEF PrepThenFork, CommitThenFork, Fork
    <3>2. call'[c].pc = "pullJoin" /\ call'[c].at = call[c].at
      BY <1>0, <3>1 DEF LocalVars
    <3> QED
      BY <3>1, <3>2 DEF Forward, StageOf
  <2>3. CASE ForkPush(c)
    <3>1. call[c].pc = "sync" /\ call'[c] = [call[c] EXCEPT !.pc = "pushJoin"]
      BY <2>1, <2>3 DEF ForkPush, Fork
    <3>2. call'[c].pc = "pushJoin" /\ call'[c].at = call[c].at
      BY <1>0, <3>1 DEF LocalVars
    <3> QED
      BY <3>1, <3>2 DEF Forward, StageOf
  <2> QED
    BY <1>4, <2>2, <2>3
<1>5. CASE PrepThenSync(c)
  <2>1. call[c].pc = "prep" /\ call'[c].pc = "sync" /\ call'[c].at = call[c].at
    BY <1>0, <1>5 DEF PrepThenSync, CommitThenSync, LocalVars
  <2> QED
    BY <2>1 DEF Forward, StageOf
<1>6. CASE JoinPull(c)
  <2>1. call[c].pc = "pullJoin" /\ call'[c].pc \in {"pull", "sync"} /\ call'[c].at = call[c].at
    BY <1>0, <1>6 DEF JoinPull, LocalVars
  <2> QED
    BY <2>1 DEF Forward, StageOf
<1>7. CASE PullRemote(c) \/ SyncNetwork(c)
  <2>1. SyncWith(c) /\ call[c].at <= Len(Remotes[RepoOf(c)])
    BY <1>7 DEF PullRemote, SyncNetwork, Pushing, Looping
  <2>2. call'[c].at = call[c].at + 1
    BY <1>0, <2>1 DEF SyncWith, LocalVars
  <2> QED
    BY <2>1, <2>2 DEF Forward
<1>8. CASE PushRemote(c)
  <2>1. PICK good \in BOOLEAN :
          call' = IF good
                  THEN [call EXCEPT ![c].pc = "checkout"]
                  ELSE [call EXCEPT ![c].pc = "sync", ![c].at = @ + 1, ![c].ok = FALSE]
    BY <1>8 DEF PushRemote
  <2>2. call[c].pc = "push"
    BY <1>8 DEF PushRemote
  <2>3. CASE good
    <3>1. call'[c].pc = "checkout" /\ call'[c].at = call[c].at
      BY <1>0, <2>1, <2>3 DEF LocalVars
    <3> QED
      BY <2>2, <3>1 DEF Forward, StageOf
  <2>4. CASE ~good
    <3>1. call'[c].at = call[c].at + 1
      BY <1>0, <2>1, <2>4 DEF LocalVars
    <3> QED
      BY <2>2, <3>1 DEF Forward
  <2> QED
    BY <2>3, <2>4
<1>9. CASE CheckoutRemote(c)
  <2>1. call[c].pc = "checkout" /\ call'[c].at = call[c].at + 1
    BY <1>0, <1>9 DEF CheckoutRemote, LocalVars
  <2> QED
    BY <2>1 DEF Forward
<1> QED
  BY <1>2, <1>3, <1>4, <1>5, <1>6, <1>7, <1>8, <1>9 DEF Step

LEMMA LoopNext == LoopInv /\ [Next]_vars => LoopInv'
<1> SUFFICES ASSUME LoopInv, [Next]_vars, NEW c \in DOMAIN call'
             PROVE  call'[c].at <= Len(Remotes[RepoOf(c)]) + 1
  BY WalkNext DEF LoopInv, InLoop
<1>0. WalkInv /\ WalkInv' /\ ReportInv
  BY WalkNext DEF LoopInv, WalkInv
<1>1. RepoOf(c) \in Repo /\ Len(Remotes[RepoOf(c)]) \in Nat
  <2>1. c \in CallId
    BY <1>0 DEF WalkInv, ReportInv, CallerInv, TypeOK, CallId
  <2> QED
    BY <2>1, CallType, OperateAssumption
<1>2. ASSUME call'[c] = NewCall PROVE call'[c].at <= Len(Remotes[RepoOf(c)]) + 1
  BY <1>1, <1>2 DEF NewCall
<1>3. ASSUME NEW d \in DOMAIN call, Step(d) PROVE call'[c].at <= Len(Remotes[RepoOf(c)]) + 1
  <2>1. CASE c = d
    <3>1. call[c].at \in Nat /\ call[c].at <= Len(Remotes[RepoOf(c)]) + 1
      BY <1>0, <1>3, <2>1, CallRight DEF LoopInv, InLoop
    <3>2. call[c].pc \in {"push", "checkout"} => call[c].at <= Len(Remotes[RepoOf(c)])
      <4>1. call[c].pc \in {"push", "checkout"} => call[c].at \in LocalRemotes(RepoOf(c))
        BY <1>0, <1>3, <2>1 DEF WalkInv, ReportInv, CallerInv, TypeOK
      <4> QED
        BY <1>1, <4>1 DEF LocalRemotes
    <3>3. Forward(c) /\ (call'[c].at # call[c].at => call[c].at <= Len(Remotes[RepoOf(c)]))
      BY <1>0, <1>3, <2>1, <3>2, ForwardStep
    <3> QED
      BY <1>1, <3>1, <3>3 DEF Forward
  <2>2. CASE c # d
    BY <1>0, <1>2, <1>3, <2>2, StepFrame DEF LoopInv, InLoop
  <2> QED
    BY <2>1, <2>2
<1>4. CASE Interrupt
  BY <1>2, <1>4 DEF Interrupt, FirstCalls
<1>5. CASE UNCHANGED call
  BY <1>5 DEF LoopInv, InLoop
<1> QED
  BY <1>3, <1>4, <1>5 DEF Next, Edit, Exit, vars

(* Unless gitall is interrupted, a step takes one call forward, keeps the  *)
(* others, and starts calls from the beginning; no call goes back.         *)
GoesForward ==
  \/ Interrupt
  \/ UNCHANGED call
  \/ \E c \in DOMAIN call :
       /\ Forward(c)
       /\ \A d \in DOMAIN call : d \in DOMAIN call' /\ (d # c => call'[d] = call[d])
       /\ \A d \in DOMAIN call' \ DOMAIN call : call'[d] = NewCall

(* Calls only go forward, and have an end to go to: with RecursionEnds and *)
(* NeverStuck, what Termination asks beyond is that the scheduler runs     *)
(* somebody (operate, pullRepo, syncAndPushRepo: no loop goes over a       *)
(* remote twice, no failure is tried again).                               *)
THEOREM CallsGoForward == Spec => []InLoop /\ [][GoesForward]_vars
<1>1. Init => LoopInv
  <2> SUFFICES ASSUME Init, WalkInv, NEW c \in RootCalls, c \in DOMAIN call
               PROVE  call[c].at <= Len(Remotes[RepoOf(c)]) + 1
    BY WalkInit DEF LoopInv, InLoop, Init, FirstCalls
  <2>1. call[c].at = 1 /\ Len(Remotes[RepoOf(c)]) \in Nat
    BY CallRight, OperateAssumption DEF Init, FirstCalls, NewCall
  <2> QED
    BY <2>1
<1>2. LoopInv => InLoop
  BY DEF LoopInv
<1>3. LoopInv /\ [Next]_vars => [GoesForward]_vars
  <2> SUFFICES ASSUME LoopInv, Next PROVE GoesForward
    OBVIOUS
  <2>0. WalkInv /\ ReportInv
    BY DEF LoopInv, WalkInv
  <2>1. ASSUME NEW c \in DOMAIN call, Step(c) PROVE GoesForward
    BY <2>0, <2>1, ForwardStep, StepFrame DEF GoesForward
  <2>2. CASE Interrupt \/ UNCHANGED call
    BY <2>2 DEF GoesForward
  <2> QED
    BY <2>1, <2>2 DEF Next, Edit, Exit, vars
<1> QED
  BY <1>1, <1>2, <1>3, LoopNext, PTL DEF Spec
=============================================================================
