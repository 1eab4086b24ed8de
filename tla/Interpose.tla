----------------------------- MODULE Interpose -----------------------------
(***************************************************************************)
(* The command wrappers (src/interpose) around git and the process-control *)
(* commands, in the two realms they run in: the installed interposer,      *)
(* which works in its own process (Hosts), and sandboxd, which evaluates a *)
(* guest's execve and has every operation of the wrapper done by the guest *)
(* over the connection of the transaction (Guests).  The git wrapper       *)
(* repairs files that hold conflict markers from snapshot branches         *)
(* (src/internal/restoreconflict), one goroutine per file, and makes a     *)
(* snapshot branch before a destructive command.                           *)
(*                                                                         *)
(* All calls work on one repository, which the user edits meanwhile.  A    *)
(* commit is its number; its ancestors are stored with it.  "reset" stands *)
(* for git reset --hard HEAD~1 and the other destructive commands,         *)
(* "commit" for git commit -a and the others that trigger a repair.        *)
(***************************************************************************)
EXTENDS Naturals, FiniteSets, Sequences, FiniteSetsExt

CONSTANTS
  Hosts, Guests,  \* calls: commands through the interposer, execves of guests
  Kinds,          \* the commands: among "commit", "reset", "status", "kill"
  Files,          \* the files of the repository
  Versions,       \* what a file may be without markers; "none": it is not there
  Histories,      \* sequences of trees: the commits the repository may begin with
  MaxCommits,     \* bound: commits of the repository
  MaxSecond,      \* bound: the clock, in seconds
  MaxEdits,       \* bound: edits of the user
  MaxFaults       \* bound: operations that fail, connections that break

ASSUME InterposeAssumption ==
  /\ Hosts \cap Guests = {}
  /\ Kinds \subseteq {"commit", "reset", "status", "kill"}
  /\ "marked" \notin Versions /\ "main" \notin Files
  /\ Histories \subseteq Seq([Files -> Versions \cup {"marked"}]) \ {<<>>}
  /\ \A trees \in Histories : Len(trees) \in 1..MaxCommits /\ Len(trees) - 1 <= MaxSecond
  /\ {MaxCommits, MaxSecond, MaxEdits, MaxFaults} \subseteq Nat

VARIABLES
  commits,  \* sequence of [tree, past]: the files of a commit, its ancestors and itself
  head,     \* the commit of the branch that is checked out
  work,     \* the files of the working tree
  refs,     \* the snapshot branches: name to commit
  now,      \* the clock
  call,     \* per call: the wrapper's variables
  thread,   \* per call, main goroutine and goroutine per file: where it is
  conn,     \* per guest call: the connection of its transaction
  edits, faults,
  troubled, \* history: calls an operation of which failed
  lost,     \* history: pairs of a call and a commit it left without a branch
  sawMarks, \* history: pairs of a call and a file that held markers during it
  others,   \* history: pairs of a call and a file that others wrote during it
  owed      \* history: per call and file, what a repair may leave there

repo == <<commits, head, work, refs>>
history == <<troubled, lost, sawMarks, others, owed>>
vars == <<repo, now, call, thread, conn, edits, faults, history>>

Calls == Hosts \cup Guests
Threads == Files \cup {"main"}
Contents == Versions \cup {"marked"}

(* A snapshot is named by the second, the branch and the short hash of     *)
(* HEAD; the hash is empty (0) when git rev-parse --short exits with an    *)
(* error.  The model has one branch.                                       *)
Name == [second : 0..MaxSecond, short : 0..MaxCommits]

(* Mutant: the name does not have the hash.                                *)
SecondOnly(second, short) == [second |-> second, short |-> 0]

SnapshotName(second, short) == [second |-> second, short |-> short]

(* Mutant: the refs are sorted the other way round.                        *)
Oldest(names) ==
  CHOOSE n \in names : \A m \in names :
    m.second > n.second \/ (m.second = n.second /\ m.short <= n.short)

(* The order of for-each-ref --sort=-refname; hashes have no order that    *)
(* means anything.                                                         *)
Newest(names) ==
  CHOOSE n \in names : \A m \in names :
    m.second < n.second \/ (m.second = n.second /\ m.short <= n.short)

(* What a run of a command gives: its output; nothing, with an exit status *)
(* that is not 0; or an error, when it could not be run.                   *)
Ok(v) == [how |-> "ok", val |-> v]
Exit == [how |-> "exit", val |-> "none"]
Err == [how |-> "err", val |-> "none"]

At(l) == [loc |-> l, ph |-> "ready", id |-> 0]

NoJob == [file |-> "main", ref |-> SnapshotName(0, 0)]

NoCall ==
  [outcome |-> "none", kind |-> "status", where |-> "repo", short |-> 0,
   second |-> 0, found |-> {}, job |-> NoJob, left |-> [f \in Files |-> {}]]

NoConn == [next |-> 0, asks |-> <<>>, answers |-> <<>>, broken |-> FALSE]

Init ==
  /\ \E trees \in Histories :
       commits = [n \in DOMAIN trees |-> [tree |-> trees[n], past |-> 1..n]]
  /\ head = Len(commits)
  /\ work = commits[head].tree
  /\ now = head - 1
  /\ \E named \in SUBSET DOMAIN commits :
       refs = [n \in {SnapshotName(m - 1, m) : m \in named} |-> n.second + 1]
  /\ call = [c \in Calls |-> NoCall]
  /\ thread = [c \in Calls |-> [t \in Threads |-> At("rest")]]
  /\ conn = [c \in Guests |-> NoConn]
  /\ edits = 0 /\ faults = 0
  /\ troubled = {} /\ lost = {} /\ sawMarks = {} /\ others = {}
  /\ owed = [c \in Calls |-> [f \in Files |-> {}]]

Loc(c, t) == thread[c][t].loc

Open(c) == call[c].outcome = "open"

Broken(c) == c \in Guests /\ conn[c].broken

----------------------------------------------------------------------------
(* History: who was there when a file was written.                         *)
Noted(writers) ==
  /\ sawMarks' = sawMarks \cup
       {<<d, f>> : d \in {e \in Calls : Open(e)}, f \in {g \in Files : work'[g] = "marked"}}
  /\ others' = others \cup
       {<<d, f>> : d \in {e \in Calls : Open(e)} \ writers, f \in {g \in Files : work'[g] # work[g]}}

----------------------------------------------------------------------------
(* What the call is about: wrapper, policy, arguments.                     *)

(* Git and the other wrappers strip --no-interpose in Transform, those of  *)
(* the process-control commands do not.                                    *)
StripNoInterpose(args) == [args EXCEPT !.bypass = FALSE]

Transform(args) == IF args.kind = "kill" THEN args ELSE StripNoInterpose(args)

NeedsRestore(kind) == kind = "commit"
NeedsSnapshot(kind) == kind = "reset"

(* Where Before begins, once the arguments are transformed.                *)
Before(args, listed) ==
  IF args.kind = "kill" THEN IF listed THEN "pass" ELSE "confirm"
  ELSE IF args.bypass \/ ~(NeedsRestore(args.kind) \/ NeedsSnapshot(args.kind))
  THEN "pass" ELSE "root"

Entered(c, kind, where, loc) ==
  /\ call' = [call EXCEPT ![c] =
       [@ EXCEPT !.outcome = "open", !.kind = kind, !.where = where]]
  /\ thread' = [thread EXCEPT ![c]["main"] = At(loc)]
  /\ sawMarks' = sawMarks \cup {<<c, f>> : f \in {g \in Files : work[g] = "marked"}}
  /\ UNCHANGED <<repo, now, conn, edits, faults, troubled, lost, others, owed>>

(* Where the call is: in the repository, in it with snapshots disabled by  *)
(* the configuration or the policy, or in no repository.                   *)
Places == {"repo", "disabled", "outside"}

(* The allowlist counts only if it verifies against the anchor.            *)
Listed == {matches /\ verified : matches, verified \in BOOLEAN}

BeginHost(c) ==
  /\ call[c].outcome = "none"
  /\ \E kind \in Kinds, bypass \in BOOLEAN, where \in Places,
        listed \in Listed :
       Entered(c, kind, where, Before(Transform([kind |-> kind, bypass |-> bypass]), listed))

(* evaluateExec: the peer must be registered, the policy trusted and the   *)
(* request well formed; a command without a wrapper is allowed as it is.   *)
BeginGuest(c) ==
  /\ call[c].outcome = "none"
  /\ \E kind \in Kinds, bypass \in BOOLEAN, where \in Places,
        listed, accepted, wrapped \in BOOLEAN :
       Entered(c, kind, IF wrapped THEN where ELSE "unwrapped",
         IF ~accepted THEN "refuse"
         ELSE IF ~wrapped THEN "pass"
         ELSE Before(Transform([kind |-> kind, bypass |-> bypass]), listed))

----------------------------------------------------------------------------
(* What an operation does where it is carried out.                         *)

ReadOnly == {"root", "bare", "files", "refs", "read", "show", "head", "short", "confirm"}
Writing == {"checkout", "snap"}
Operations == ReadOnly \cup Writing

Committed(n, f) == commits[refs[n]].tree[f]

(* git show REF:PATH, git checkout REF -- PATH                             *)
Shown(n, f) == IF Committed(n, f) = "none" THEN Exit ELSE Ok(Committed(n, f))

SnapName(c) == SnapshotName(call[c].second, call[c].short)

Output(c, t) ==
  CASE Loc(c, t) = "root" -> IF call[c].where = "outside" THEN Exit ELSE Ok("repo")
    [] Loc(c, t) = "refs" -> Ok(DOMAIN refs)
    [] Loc(c, t) = "read" -> IF work[t] = "none" THEN Err ELSE Ok(work[t])
    [] Loc(c, t) = "show" -> Shown(Newest(call[c].left[t]), t)
    [] Loc(c, t) = "checkout" -> Shown(call[c].job.ref, call[c].job.file)
    [] Loc(c, t) = "short" -> Ok(head)
    [] Loc(c, t) = "snap" -> IF SnapName(c) \in DOMAIN refs THEN Exit ELSE Ok("none")
    [] OTHER -> Ok("none")

CheckOut(c, r) ==
  /\ work' = IF r = Exit THEN work ELSE [work EXCEPT ![call[c].job.file] = r.val]
  /\ Noted({c})
  /\ UNCHANGED refs

(* Mutant: git branch -f NAME HEAD.                                        *)
ForceBranch(c) ==
  /\ refs' = [n \in DOMAIN refs \cup {SnapName(c)} |-> IF n = SnapName(c) THEN head ELSE refs[n]]
  /\ UNCHANGED <<work, sawMarks, others>>

(* git branch NAME HEAD; an existing branch is left as it is, and the exit *)
(* status is not looked at.                                                *)
MakeSnapshot(c) ==
  /\ refs' = [n \in DOMAIN refs \cup {SnapName(c)} |-> IF n \in DOMAIN refs THEN refs[n] ELSE head]
  /\ UNCHANGED <<work, sawMarks, others>>

(* Reading a file and asking the user have no exit status.                 *)
Failures(c, t) == IF Loc(c, t) \in {"read", "confirm"} THEN {Err} ELSE {Exit, Err}

(* An operation succeeds, or fails and changes nothing.                    *)
Perform(c, t, r) ==
  \/ /\ r = Output(c, t)
     /\ \/ Loc(c, t) \in ReadOnly /\ UNCHANGED <<work, refs, sawMarks, others>>
        \/ Loc(c, t) = "checkout" /\ CheckOut(c, r)
        \/ Loc(c, t) = "snap" /\ MakeSnapshot(c)
     /\ UNCHANGED <<commits, head, faults, troubled>>
  \/ /\ r \in Failures(c, t)
     /\ faults < MaxFaults
     /\ faults' = faults + 1
     /\ troubled' = troubled \cup {c}
     /\ UNCHANGED <<repo, sawMarks, others>>

Results(c, t) == {Output(c, t)} \cup Failures(c, t)

----------------------------------------------------------------------------
(* What the wrapper does with the result.                                  *)

Goto(c, l) == thread' = [thread EXCEPT ![c]["main"] = At(l)]

Same == UNCHANGED <<call, owed>>

(* What a repair owes: the newest snapshots with a version without markers *)
(* decide, for the files that hold markers when it begins.                 *)
LatestClean(names, f) ==
  LET clean == {n \in names : Committed(n, f) \notin {"marked", "none"}}
      last == Max({n.second : n \in clean})
  IN {Committed(n, f) : n \in {m \in clean : m.second = last}}

(* gitRepoRoot: an exit status or an error: no repository, nothing to do.  *)
AfterRoot(c, r) ==
  /\ Goto(c, IF r.how # "ok" \/ call[c].where = "disabled" THEN "pass"
             ELSE IF NeedsRestore(call[c].kind) THEN "bare" ELSE "head")
  /\ Same

(* Restore; that it failed is only a warning.                              *)
AfterBare(c, r) == Goto(c, IF r = Err THEN "pass" ELSE "files") /\ Same

AfterFiles(c, r) == Goto(c, IF r.how # "ok" THEN "pass" ELSE "refs") /\ Same

AfterRefs(c, r) ==
  LET none == r.how # "ok" \/ r.val = {} IN
  /\ thread' = [thread EXCEPT ![c] =
       [t \in Threads |->
          IF t = "main" THEN At(IF none THEN "pass" ELSE "gather")
          ELSE At(IF none THEN "rest" ELSE "read")]]
  /\ call' = IF none THEN call ELSE [call EXCEPT ![c].left = [f \in Files |-> r.val]]
  /\ owed' = IF none THEN owed ELSE [owed EXCEPT ![c] =
       [f \in Files |->
          IF work[f] # "marked" \/ \A n \in r.val : Committed(n, f) \in {"marked", "none"}
          THEN {} ELSE LatestClean(r.val, f)]]

(* One goroutine per file.                                                 *)
AfterRead(c, f, r) ==
  /\ thread' = [thread EXCEPT ![c][f] =
       At(IF r.how = "ok" /\ r.val = "marked" THEN "show" ELSE "rest")]
  /\ Same

(* findCleanRef: what is not an error and holds no markers is clean, also  *)
(* the empty output of a git show that failed.                             *)
AfterShow(c, f, r) ==
  LET n == Newest(call[c].left[f])
      left == call[c].left[f] \ {n}
      clean == r # Err /\ r.val # "marked"
  IN
  /\ call' = IF clean THEN [call EXCEPT ![c].found = @ \cup {[file |-> f, ref |-> n]}]
             ELSE [call EXCEPT ![c].left[f] = left]
  /\ thread' = [thread EXCEPT ![c][f] = At(IF clean \/ left = {} THEN "rest" ELSE "show")]
  /\ UNCHANGED owed

AfterCheckOut(c) == Goto(c, "gather") /\ Same

(* gitSnapshot                                                             *)
AfterHead(c, r) == Goto(c, IF r = Err THEN "pass" ELSE "short") /\ Same

AfterShort(c, r) ==
  /\ Goto(c, IF r = Err THEN "refuse" ELSE "snap")
  /\ call' = [call EXCEPT ![c].short = IF r.how = "ok" THEN r.val ELSE 0,
                          ![c].second = now]
  /\ UNCHANGED owed

AfterSnap(c, r) == Goto(c, IF r = Err THEN "refuse" ELSE "pass") /\ Same

(* ProtectedCommand.Before                                                 *)
AfterConfirm(c, r) == Goto(c, IF r = Err THEN "refuse" ELSE "pass") /\ Same

Continue(c, t, r) ==
  \/ Loc(c, t) = "root" /\ AfterRoot(c, r)
  \/ Loc(c, t) = "bare" /\ AfterBare(c, r)
  \/ Loc(c, t) = "files" /\ AfterFiles(c, r)
  \/ Loc(c, t) = "refs" /\ AfterRefs(c, r)
  \/ Loc(c, t) = "read" /\ AfterRead(c, t, r)
  \/ Loc(c, t) = "show" /\ AfterShow(c, t, r)
  \/ Loc(c, t) = "checkout" /\ AfterCheckOut(c)
  \/ Loc(c, t) = "head" /\ AfterHead(c, r)
  \/ Loc(c, t) = "short" /\ AfterShort(c, r)
  \/ Loc(c, t) = "snap" /\ AfterSnap(c, r)
  \/ Loc(c, t) = "confirm" /\ AfterConfirm(c, r)

----------------------------------------------------------------------------
(* The main goroutine takes the results as they come, while the others go  *)
(* on; it ends when the channel is closed and empty.                       *)
Take(c) ==
  /\ Loc(c, "main") = "gather"
  /\ \E j \in call[c].found :
       call' = [call EXCEPT ![c].job = j, ![c].found = @ \ {j}]
  /\ Goto(c, "checkout")
  /\ UNCHANGED <<repo, now, conn, edits, faults, history>>

Gathered(c) ==
  /\ Loc(c, "main") = "gather"
  /\ call[c].found = {}
  /\ \A f \in Files : Loc(c, f) = "rest"
  /\ Goto(c, "pass")
  /\ UNCHANGED <<repo, now, call, conn, edits, faults, history>>

(* HostOperations: the interposer carries the operation out itself.        *)
HostStep(c, t) ==
  /\ Loc(c, t) \in Operations
  /\ \E r \in Results(c, t) : Perform(c, t, r) /\ Continue(c, t, r)
  /\ UNCHANGED <<now, conn, edits, lost>>

----------------------------------------------------------------------------
(* remoteGuestOperations: numbered frames over the transaction's           *)
(* connection.  Neither the number nor the frames are guarded by a lock:   *)
(* a frame is written in three pieces and read in two, so those of two     *)
(* goroutines may be torn, and the connection is of no use from there on.  *)

Still == UNCHANGED <<repo, now, call, edits, history>>

Torn == [NoConn EXCEPT !.broken = TRUE]

TornBy(c, t, ph) == {Torn : u \in {v \in Threads \ {t} : thread[c][v].ph = ph}}

Number(c, t) ==
  /\ Loc(c, t) \in Operations /\ thread[c][t].ph = "ready" /\ ~Broken(c)
  /\ thread' = [thread EXCEPT ![c][t].ph = "numbered", ![c][t].id = conn[c].next + 1]
  /\ Still /\ UNCHANGED <<conn, faults>>

Send(c, t) ==
  /\ thread[c][t].ph = "numbered" /\ ~Broken(c)
  /\ LET sent == [conn[c] EXCEPT !.next = thread[c][t].id,
                                 !.asks = Append(@, [id |-> thread[c][t].id, for |-> t])]
     IN \E k \in {sent} \cup TornBy(c, t, "numbered") : conn' = [conn EXCEPT ![c] = k]
  /\ thread' = [thread EXCEPT ![c][t].ph = "waiting"]
  /\ Still /\ UNCHANGED faults

(* service_operation: one request after the other, in the guest.           *)
Serve(c) ==
  /\ conn[c].asks # <<>> /\ ~Broken(c)
  /\ LET ask == Head(conn[c].asks) IN
       \E r \in Results(c, ask.for) :
         /\ Perform(c, ask.for, r)
         /\ conn' = [conn EXCEPT ![c].asks = Tail(@),
                                 ![c].answers = Append(@, [id |-> ask.id, r |-> r])]
  /\ UNCHANGED <<now, call, thread, edits, lost, owed>>

(* Whoever waits may read the next frame; an answer with another number    *)
(* than one's own is an error.                                             *)
Receive(c, t) ==
  /\ thread[c][t].ph = "waiting" /\ conn[c].answers # <<>> /\ ~Broken(c)
  /\ LET answer == Head(conn[c].answers)
         read == [conn[c] EXCEPT !.answers = Tail(@)]
     IN \E k \in {read} \cup TornBy(c, t, "waiting") :
          /\ Continue(c, t, IF k = read /\ answer.id = thread[c][t].id THEN answer.r ELSE Err)
          /\ conn' = [conn EXCEPT ![c] = k]
  /\ UNCHANGED <<repo, now, edits, faults, troubled, lost, sawMarks, others>>

(* The guest is killed, or the daemon.                                     *)
Break(c) ==
  /\ Open(c) /\ ~Broken(c)
  /\ faults < MaxFaults
  /\ faults' = faults + 1
  /\ troubled' = troubled \cup {c}
  /\ conn' = [conn EXCEPT ![c] = Torn]
  /\ UNCHANGED <<repo, now, call, thread, edits, lost, sawMarks, others, owed>>

FailBroken(c, t) ==
  /\ Broken(c) /\ Loc(c, t) \in Operations
  /\ Continue(c, t, Err)
  /\ UNCHANGED <<repo, now, conn, edits, faults, troubled, lost, sawMarks, others>>

----------------------------------------------------------------------------
(* The end of a call.  A guest executes the command when the daemon's      *)
(* decision reaches it; it refuses when it is negative, or does not come.  *)

(* The wrapper's variables and the history of the call go with it.         *)
Ended(c, outcome) ==
  /\ call' = [call EXCEPT ![c] =
       [NoCall EXCEPT !.outcome = outcome, !.where = call[c].where, !.short = call[c].short]]
  /\ thread' = [thread EXCEPT ![c]["main"] = At("rest")]
  /\ conn' = IF c \in Guests THEN [conn EXCEPT ![c] = NoConn] ELSE conn
  /\ owed' = [owed EXCEPT ![c] = [f \in Files |-> {}]]
  /\ UNCHANGED <<now, edits, faults, troubled>>

Commit(c) ==
  /\ work # commits[head].tree /\ Len(commits) < MaxCommits
  /\ LET n == Len(commits) + 1 IN
       /\ commits' = Append(commits, [tree |-> work, past |-> commits[head].past \cup {n}])
       /\ head' = n
  /\ UNCHANGED <<work, refs, lost, sawMarks, others>>

Reachable(h) == UNION {commits[n].past : n \in {h} \cup {refs[s] : s \in DOMAIN refs}}

Reset(c) ==
  LET parent == Max(commits[head].past \ {head}) IN
  /\ commits[head].past # {head}
  /\ head' = parent
  /\ work' = commits[parent].tree
  /\ lost' = lost \cup {<<c, n>> : n \in commits[head].past \ Reachable(parent)}
  /\ Noted({c})
  /\ UNCHANGED <<commits, refs>>

(* The command itself may also fail, or have nothing to do.                *)
Run(c) ==
  /\ Open(c) /\ Loc(c, "main") = "pass" /\ ~Broken(c)
  /\ \/ call[c].kind = "commit" /\ Commit(c)
     \/ call[c].kind = "reset" /\ Reset(c)
     \/ UNCHANGED <<repo, lost, sawMarks, others>>
  /\ Ended(c, "ran")

Refuse(c) ==
  /\ Open(c)
  /\ \/ Loc(c, "main") = "refuse"
     \/ Loc(c, "main") = "pass" /\ Broken(c)
  /\ Ended(c, "refused")
  /\ UNCHANGED <<repo, lost, sawMarks, others>>

----------------------------------------------------------------------------
(* The user edits files, and a merge leaves markers in them.               *)
Edit(f) ==
  /\ edits < MaxEdits
  /\ edits' = edits + 1
  /\ \E v \in Contents \ {work[f]} : work' = [work EXCEPT ![f] = v]
  /\ Noted({})
  /\ UNCHANGED <<commits, head, refs, now, call, thread, conn, faults, troubled, lost, owed>>

Tick ==
  /\ now < MaxSecond
  /\ now' = now + 1
  /\ UNCHANGED <<repo, call, thread, conn, edits, faults, history>>

Step(c) ==
  \/ Take(c) \/ Gathered(c) \/ Run(c) \/ Refuse(c)
  \/ c \in Hosts /\ \E t \in Threads : HostStep(c, t)
  \/ c \in Guests /\ Serve(c)
  \/ c \in Guests /\ \E t \in Threads :
       Number(c, t) \/ Send(c, t) \/ Receive(c, t) \/ FailBroken(c, t)

Next ==
  \/ \E c \in Hosts : BeginHost(c)
  \/ \E c \in Guests : BeginGuest(c) \/ Break(c)
  \/ \E c \in Calls : Step(c)
  \/ \E f \in Files : Edit(f)
  \/ Tick

Spec == Init /\ [][Next]_vars

----------------------------------------------------------------------------
(* Type correctness.                                                       *)
TypeOK ==
  /\ head \in DOMAIN commits
  /\ \A n \in DOMAIN commits :
       commits[n].tree \in [Files -> Contents] /\ n \in commits[n].past
  /\ work \in [Files -> Contents]
  /\ DOMAIN refs \subseteq Name /\ \A n \in DOMAIN refs : refs[n] \in DOMAIN commits
  /\ \A c \in Calls : call[c].outcome \in {"none", "open", "ran", "refused"}
  /\ \A c \in Calls, t \in Threads :
       Loc(c, t) \in Operations \cup {"rest", "gather", "pass", "refuse"}

(* A destructive command loses no commit that was on the branch when its   *)
(* wrapper asked for the HEAD to name the snapshot: the new snapshot, or   *)
(* the one that already had the name, still leads to it, whatever other    *)
(* calls do meanwhile -- unless an operation failed, or snapshots were     *)
(* disabled for the repository or not asked for.                           *)
NothingLost ==
  \A c \in Calls, n \in DOMAIN commits :
    /\ <<c, n>> \in lost
    /\ c \notin troubled
    /\ call[c].where = "repo"
    => call[c].short # 0 /\ n \notin commits[call[c].short].past

(* When a repair is over and none of its operations failed, every file     *)
(* that held markers when it began, and that some snapshot has without     *)
(* them, is as the newest such snapshot has it, if nobody else wrote it.   *)
MarkersRestored ==
  \A c \in Calls, f \in Files :
    /\ Open(c) /\ Loc(c, "main") = "pass" /\ ~Broken(c)
    /\ c \notin troubled
    /\ owed[c][f] # {} /\ <<c, f>> \notin others
    => work[f] \in owed[c][f]

(* A repair takes from a snapshot only files that held markers at some     *)
(* moment since the call began (runRestore).  Does not hold for guests     *)
(* with several files: README, section 4.                                  *)
OnlyMarkedRestored ==
  \A c \in Calls : \A j \in call[c].found \cup {call[c].job} :
    j = NoJob \/ <<c, j.file>> \in sawMarks

(* What a call of the interposer checks out of a snapshot replaces a file  *)
(* that holds markers at that moment: a file the user has written since it *)
(* was read is left alone (restore).  Does not hold: README, section 4.    *)
OnlyMarkedOverwritten ==
  [][\A c \in Hosts :
       LET f == call[c].job.file IN
       /\ Loc(c, "main") = "checkout"
       /\ Loc(c, "main")' = "gather"
       /\ work'[f] # work[f]
       => work[f] = "marked"]_vars

(* A snapshot branch is never moved.                                       *)
SnapshotsStay == [][\A n \in DOMAIN refs : n \in DOMAIN refs' /\ refs'[n] = refs[n]]_vars
============================================================================
