# A verification project for `scripts`

The repository is a collection of tools around git repositories, coding agents
and command execution. Most are Go programs; they share a few packages and a
few files on disk. This directory holds TLA+ models of the tools whose
behaviour depends on the order in which things happen: concurrent goroutines,
several processes over one file or database, failures between two writes, and
signals. TLC checks them on small instances; TLAPS proves the most important
safety properties for every value of the constants.

`PROJECT.json` is the machine-readable index: components, runs, mutants (for
every checked property a plausible bug in the code that breaks it), the map
from each definition to the lines it translates, findings, hazards, theorems.

To check everything here: `tlc -config X.cfg M` for each pair in the table of
runs, `tlapm GitallProofs.tla` and so on for the proof modules.

## 1. Inventory

| Component | State it keeps | Operations | What is hard about it | What makes it correct |
|---|---|---|---|---|
| **gitall**, recursion and locks (`src/gitall/main.go`) | one mutex per resolved path, the recursion stack of each goroutine, uncommitted changes of each repository | `main`, `operateAll`, `operate`, `operateLocked`, `pullRepo`, `syncAndPushRepo` | a goroutine per repository and per local remote; callers hold a mutex while they wait for children and while they push into a remote | exclusive ref updates, ordered waiting, no lost result, exit status, no uncommitted work lost by a forced checkout, termination, also when gitall is interrupted and started again |
| **gitall**, branch histories | the tip of each branch in each repository | fetch, `updateBranchFromRemote` (fast-forward, merge, rebase), push | the tip is read, then moved by `update-ref` without an old value; several sources share a mirror; an end between moving a branch and refreshing its files | commits are only spread and merged, changes survive a rebase, one successful run delivers end to end |
| **gitall**, pull-request fallback | branches and pull requests of the network repository | `fallbackCreatePR`: `gh pr list`, fetch of the candidates, `git ls-remote`, push, `gh pr create` | other calls fall back at once, people merge, close and delete between the processes | what a successful push could not deliver is in a pull request, branches are never overwritten |
| **agentweave** index (`src/agentweave/core/index.go`, `daemon/daemon.go`) | `sources` rows, artifacts, chunks, search rows in SQLite | `Sync` = `ScanAll`, `fileFingerprint`, `sourceUnchanged`, `replaceSource`, `recordStatus`, `pruneMissingSources` | poller and client requests sync at once; files change during a sync; one database connection; failures and cancellation between any two statements | what can be searched is replaced and removed as a whole with its row, fingerprints tell the truth, the index converges to the files |
| **agentweave** extraction, search, MCP front ends | none, or the socket | adapters, `Search`, `ReadArtifact`, dossiers, JSON-RPC | taking over the daemon's socket | requests and answers correspond |
| **pulse** (`src/pulse`) | configuration as loaded, ticker channels, goroutines | `Scheduler.Run/fire`, `TaskSupervisor.Run/runService`, `main` | signal against tick, verification against a concurrent commit, restart policies, shutdown order | only committed commands run, shutdown is complete and happens, jobs heal after a recommit |
| **agentcommit / commitment** (`src/agentcommit`, `src/commitment`, the installer) | proof files, the anchor's plist | `runCommitWithTasks`, `Build`, `ProofFor`, `VerifyProof`, `launchagent_install` | three files replaced one after the other, with failures in between; odd numbers of leaves | proofs are exact; a proof and a root that belong together verify |
| **extclean** (`src/extclean`) | the agents' registration files, temporary files | four `Scan`s, `SortFindings`, `RemoveFinding`, `ApplyJSONRemoval`, `RemoveTomlTable` | findings are applied after the scan, by identity, to files that change; failures and kills in between | no partial file, nothing healthy removed, the exit status tells what is left |
| **archive-repack** (`src/archive-repack`) | the volumes written, the claims on member names | `walkSource`, `addZip`, `addTar`, `archiveSet` | members must be spread over volumes whose size is only known when written | every member in exactly one volume, the volumes before the current one stay, nothing invalid is left |
| **proxy passthrough** (`src/internal/proxypass`) | listener, the two sockets of each connection, a wait group | `Start`, `handleConnect`, `handleHTTP`, `dialTCP`, `dialViaProxy`, `Close`, `Shutdown` | two goroutines per tunnel that end each other's reads; either side may stall, end, half-close or break; an answer may be none, or not the last; `Close` beside hijacked connections | no upload and no final answer that could arrive is lost, sockets are released, tunnels and requests end unless a side stalls, `Close` waits for the copies it has counted |
| **sandbox rewrite cache** (`src/sandbox/daemon/main.go`, `run.sh`) | on disk: an entry per executable (the shim's copy and the rewritten program), two files for codesign shared by all entries | `rewrite`, `readOriginalEntitlements`, `rewriteMachO`, `signHardened` | goroutines of several daemons over one directory, without a lock; lookups that fail of themselves; a daemon may end between any two steps, without the codesign it started, and the next one finds what it left | what was answered with is whole and signed as it should be, a rewritten program loads the library and is otherwise the same |
| **sandbox daemon and shim**, the rest (`src/sandbox`) | process table, hash maps | text commands, exec transactions, `updateHash` | a wrapper's goroutines over the one connection of a transaction | a decision is the wrapper's |
| **interposers** (`src/interpose`, `src/internal/restoreconflict`) | none (one process per command); the repository's snapshot branches | `Execute`, the wrappers for git (`gitSnapshot`, `Restore`), find, grep and process control; verification of the allowlist | commands of several processes and the user's edits in one repository; a goroutine per file of a repair; names made of a second and a hash | nothing destroyed that was not snapshotted, a repair takes the newest clean version and nothing else, snapshots stay |
| **cleanartifacts**, **clonetree**, **forfiles**, **prtag**, **workspace** | files only | one walk each | removal or copy interrupted half way | what is kept is complete |
| shell scripts, installers | rc files, plists | one-line pipelines, block replacement | repeated installation | blocks appear once |

How they interact: `gitall` and `pulse` start the **proxy** and give its
address to their children; `pulse`, the **sandbox daemon** and the
**interposers** verify what they run against the **commitment** that
`agentcommit` writes and the anchor LaunchAgent carries; the sandbox daemon
evaluates the interposers' wrappers for its guests and dials through the proxy
package; `gitall` repairs conflicted files with **restoreconflict**; `agentweave`
reads the transcripts and `extclean` the registrations of the same four agents,
which go on writing them.

## 2. Modules

| Module | Models | Extends |
|---|---|---|
| `GitallOperate` | recursion, locks, working-tree state of gitall | |
| `GitallHistory` | what fast-forward, merge and rebase do to a history (operators) | |
| `GitallPullRequest` | the pull-request fallback and the people who answer | |
| `GitallDeliver` | the protocol composed with histories and fallback | `GitallOperate`, `GitallHistory`, `GitallPullRequest` |
| `GitallSync` | abstract: places exchange commits | |
| `GitallProofs` | proofs: types, mutexes, callers, errors, uncommitted work, order of waiting; `GitallDeliver` implements `GitallSync`; changes survive; what push and pull deliver | `GitallDeliver` |
| `AgentWeaveIndex` | `Sync` and its environment | |
| `AgentWeaveCatalog` | abstract: what the index promises to those who search it | |
| `AgentWeaveIndexProofs` | proofs | `AgentWeaveIndex` |
| `Commitment` | the Merkle tree (operators) | |
| `AgentCommit` | committing, installing and removing the anchor | `Commitment` |
| `Pulse` | the daemon, composed with `AgentCommit` | `AgentCommit` |
| `PulseProofs` | proofs about the tree, committing and the daemon | `Pulse` |
| `Extclean` | a run of `extclean -apply` and its environment | |
| `ExtcleanProofs` | proofs | `Extclean` |
| `ArchiveRepack` | a run of `archive-repack` and its surroundings | |
| `ArchiveRepackProofs` | proofs | `ArchiveRepack` |
| `ProxyPass` | the passthrough proxy between children and destinations | |
| `ProxyPassProofs` | proofs | `ProxyPass` |
| `Interpose` | the git and process-control wrappers, in the interposer and for guests of sandboxd | |
| `InterposeProofs` | proofs | `Interpose` |
| `MachO` | `rewriteMachO` over the words of an executable (operators) | |
| `RewriteCache` | `rewrite` in the goroutines of several sandboxd, and what is on disk | `MachO` |
| `RewriteCacheProofs` | proofs | `RewriteCache` |
| `MC*` | instances: topologies, contents, orders | |

### gitall

`call` maps the *path* of each call of `operate` (the frames from the call that
`main` made down to itself) to its local variables. The frames above the last
one are the code's `stack` map, so "is this repository on the stack" is a
question about the path. `owner` is `repoLocks`; `dirty` the repositories with
uncommitted changes; `discarded` and `failed` are history: what a forced
checkout threw away, and where an error was reported. One action stands for
each stretch of `operate` between two points where it can wait: `Enter`/`Cycle`
(the stack check), `Lock`, `PrepFails`/`PrepThenFork`/`PrepThenSync` (remotes,
restore, commit), `JoinPull`, `PullRemote`, `SyncNetwork`, `ReachLocal`,
`LockRemote`, `PushRemote`, `CheckoutRemote`, `ForkPush`, `JoinPush`. git itself
succeeds or fails at each of them, and moves the checked-out branch or not. A
step that fails may have done a part of its work (some of the files restored, the
branch updated from one source and not pushed); a single git process that
reports failure is taken to have changed nothing.

Before anything else `restoreConflicted` rolls files with conflict markers back to a snapshot. `Conflicted` are the repositories that may
have such files, at every call that works on them, and `Restored` says what becomes of the uncommitted changes there: new ones where the
markers were committed, none where the file was all that was uncommitted, or, when other files are changed too, no difference. Only then is
the repository found clean or not, or committed.

`stale` holds the repositories whose branch was moved while their files were left as they were: a forced checkout may fail
(`ForceCheckout`; the code only logs it), and gitall may be ended between `git update-ref` and `git checkout -f HEAD`. `Interrupt` ends the whole
process group between any two steps; every mutex and every call is gone, what is in the repositories stays, and the same command is
given again. `mishaps` counts both.

`GitallDeliver` adds `tip`, the history (set of commits) of one branch in each
repository; branches are handled one by one and independently, so one stands
for all. `Fetch` reads both tips; `PullData` or `SyncAndPush` writes later what
was computed from them. `update-ref` carries no old value, so anything that
moved the branch in between would be overwritten; the receiving git, on the
other hand, checks a push (`Accepts`). Commits are records that say which change they
carry and what they were replayed onto, so that a rebased change is recognised.
With `-m`, `Prepare` adds a commit of the uncommitted changes on top of the branch
(`Committed`); the changes of such commits are told apart by where and on
what they were made, not by content, so the commit that reverses an
interrupted update (section 4) is one like any other. `start` holds, for each repository, what a
successful run has to deliver: what it held when gitall was started and, for
the calls of `main`, what `-m` committed there when the call began. A rebase gives all commits of
`-m` one change, so the run with `-rebase` is without `-m`.

When a push to the network fails with `-allow-merge=pr`, the call enters the
fallback of `GitallPullRequest` (`falling`): `ListPulls`, then `UpdatePull` on a
pull request whose commit the branch contains, or else `NumberBranch`,
`PushBranch`, `CreatePull`; each is one git or gh process and may fail (`GiveUp`).
`pulls` maps the number N of each branch gitall-pr/BASE-N to its commits and to whether a pull request is open for it;
`Answer` is a person who merges or closes one and may delete its branch. With
the end of the fallback the call is done with the remote; the forced checkout after the sync is part of that last step.

`GitallSync` says what all this is for: places (repositories and the network) exchange commits, and a place only gains what somebody holds, a
merge of such histories, or (`Work`, with `Commits`) a commit made there of work done there. `GitallDeliver` implements it without `-rebase`: `history` is `tip`, `proposals` the commits on the
branches of pull requests (`SpreadsHistories`).

### agentweave

A file is its content, a fingerprint is the content it was taken of, and the
artifacts of a source are the content they were extracted from. Each worker (the
poller, a client's request) has the local variables of one `Sync`; `conn` is
the single database connection (`SetMaxOpenConns(1)`), held by an open
transaction or result set. `late` records the files that were written while some
`Sync` was running: the code fingerprints a file after it has scanned it, and
what can be promised differs for these. `had` records the contents a file has had.

`AgentWeaveCatalog` is the index as those who search it may see it: a record and the content that can be found for each source, which are
replaced together, fail without touching what can be found, and go together. `AgentWeaveIndex` implements it with `record` the
committed row, `holds` the committed artifacts and `had` itself (`KeepsCatalog`).

### commitment, agentcommit, pulse

`Commitment` computes levels, roots and proofs; a hash is the record of what was
hashed, with the tag that separates leaves from nodes, so two hashes are equal
only if the inputs are. `AgentCommit` is one install: read both configuration
files, replace the jobs' proof file, the tasks' proof file, then the anchor;
it may stop after each step, and the configuration may be edited at any time.
`Pulse` composes this with the daemon: `proc` holds the goroutine of each job and
service, `tick` the one-element channel of each ticker, `main` the progress of
`main`. Verification is two steps, reading the anchor and reading the proof.

### extclean

A registration file is the sequence of its entries; `Kind` says how entries are
identified in it: by what they point to (Claude's hooks and plugin paths, pi's packages), by a
unique key (MCP servers, marketplaces), by a name that may occur twice (Cursor's
extensions), or by the header of a TOML table (Codex), whose spelling in the
file may be another than the one `extclean` looks for, and whose subtables stay
behind. A run (`run`) scans the files in `ScanOrder`, of which `scan` is the next position; `found` is the set of its findings, each with the place
of the entry in its file. A failing file drops what was found for its tool, and the run goes on with the next tool;
then it takes the findings in the order of `SortFindings`, and for each one reads, edits,
creates the temporary file, writes it and renames it. Applications edit files and targets
come and go between any two steps. `os.Stat` answers or fails, and a failure counts as
"does not exist": a file whose stat fails is passed over without an error (`StatFails`; `overlooked`), and an entry the
stat of whose target fails is flagged as dangling (`Misjudge`; `misjudged`). `ReadFails` is a read that fails, which is an error.
`expected` records which entries the run has no reason to
remove; `calm` whether anybody else changed something.

### archive-repack

A walk is a sequence of members (name, kind, size) and of things that are refused, the first of them the directory itself
(`walkSource`), so that it is never empty. `run` holds the local variables of
`run` and `archiveSet`; `disk` the files with the names of the parts, of which some may be there before
(`theirs`). What a format holds back until it is closed is a block size: a member is accepted while the whole
blocks written so far fit, and EFBIG may surface with a later member or with the trailer. `rollover` is four steps
(`Discard`, `Rebuild`, `Continue`, `Retry`), the search for a prefix in `close` is one step per candidate
(`Repack`, `Packed`, `RepackFails`); between any two of them a source may change, an operation fail or the
process be killed. Sizes add up: that a compressed member's size depends on its neighbours is left out. An
`os.Remove` whose error the code ignores is taken to succeed.

### proxypass

`link` has a record for each connection: the stage of its handler (`req`), the child's end and the proxy's own socket
to it (`client`, `conn`), the proxy's socket to the destination or upstream proxy and that one's end (`dest`, `peer`),
the two goroutines of a tunnel (`up`, `down`), and what was sent, is on its way and has arrived in either direction. `held` is what
the reader of the hijacked connection had already taken. `wg` is the wait group, `server` the progress of `Close` or
`Shutdown`. What `dialTCP` does is `DialOk`, `DialHard`, `DialTimeout`, `ContextEnds` and `Retry`; `dialViaProxy` adds `GreetOk` and
`GreetFails`; `handleHTTP` is `WriteRequest` to `BodyEnds`, `handleConnect` is `Hijack` to `DownDone`. Children and destinations
may speak, stall (`Stall`, `Resume`), end their direction or break off at any time. A side that stalls neither reads what is written to it nor gets on with a
request body or a greeting; a copy to it may then be stuck in its write (`UpSticks`, `DownSticks`), which nothing but the side itself ends, and
`Waits` says which goroutines wait for a stall and have no deadline. What the destination sends is `answer`: a proper response, an interim one (1xx) with the
final one behind it (`TakeInterim`), or something else (`ReadResponseFails`, as for no answer at all). TCP is a pair of queues: a reset may lose what is on its way, an
orderly end does not. A connection carries one request, so keep-alive is left out; the end of a response's body, by its length, its last chunk or the connection, is `PeerFin`.

### sandbox rewrite cache

`program` and `shimCopy` are the two files of each entry (absent, being written, unsigned, or signed with which entitlements and for which shim), and
`plist` and `constraint` the two files for codesign that all entries share. An entry's name is the record of what the code hashes: the executable's
content, the shim's, and the entitlements. `req` is the `rewrite` a connection's goroutine is at; one action stands for each stretch between two
file operations or runs of codesign, and a file that is written in place is torn between two of them. `up` and `shim` are the
daemons that run and the library each has built. A step may fail, an executable be replaced, and a daemon end at any point and be started again
by the next `run.sh` (`Stop`, `Start`); what is on disk stays, and a codesign that was signing goes on without its daemon and reads the two files when it
does (`orphans`, `OrphanSigns`). Entitlements that cannot be read count as none (`EntitlementsUnread`, `NoEnts`), and a lookup that fails of itself, as an entry
that is not there, which is then made anew in its place (`LookupFails`). `redone` and `mixed` record which entries were begun anew while they were good or
somebody was at them (`Anew`), and which were about to be signed while a different one was (`Noticed`): the code locks nothing, and for these it promises less.

`MachO` is `rewriteMachO` as operators over the load-command table in words of 8 bytes: where commands begin, which of them give way
(`Anchor`), whether every command is within the file and there is room (`Accepted`), and the rewritten file (`Rewrite`). A version of an executable stands for a set of such
tables. `cacheSources` is left out: it feeds `process.path` only, which nothing reads.

### interposers and exec transactions

The repository is `commits`, `head`, `work` (the files), and `refs`, the snapshot branches, each named by a second and the
hash of a commit. `call` holds a command's wrapper: its `Context`, what `Restore` has found and what is left to
look at; `thread` says where its main goroutine and the goroutine of each file are. Every operation of a wrapper is
one step with a result: the output, an exit status (which neither realm reports as an error), or an error. In the
interposer (`Hosts`) the step is `HostStep`; for a guest (`Guests`) it is `Number`, `Send`, `Serve` (in the guest) and `Receive`
over the frames in `conn`, with a number that two goroutines may take at once, and frames that may be torn. What
the wrapper does with a result (`AfterRoot` to `AfterConfirm`) is the same in both. A command ends in `Run` or
`Refuse`. Between any two steps the user may edit a file, the clock go on, an operation fail or a guest's
connection break. One branch, one commit per command, and `reset --hard HEAD~1` stands for what is destructive, `commit -a` for
what triggers a repair.

## 3. Runs

| Run | Instance | Shows |
|---|---|---|
| `gitall_push` | a working copy, which may have uncommitted changes and files to restore, with a mirror and the network as remotes, the mirror discovered too; commits in the working copy and on the network; `-m`, `-allow-merge=pr`; one pull request answered | refs are written by one call at a time; callers hold what their children rely on; nobody waits for ever (deadlock is checked); every error reaches the exit status; success means delivered to the network or proposed there, the commit that `-m` has just made included; histories are only spread, merged and committed on, never overwritten (`GitallSync`) |
| `gitall_pull` | one working copy, two mirrors, one of which names it in return; dirty repositories, files to restore, edits during the run, `-rebase`; one interruption with a second start, or one forced checkout that fails | no forced checkout throws uncommitted files away, the network's changes arrive, no change is lost by rebasing, the run ends in spite of the cycle and every mutex is free |
| `gitall_discard` | a clean working copy is pushed into a mirror with uncommitted changes | **violated**: the mirror's changes are thrown away (finding) |
| `gitall_loop_push` | two repositories that are each other's remote, push | **violated**: a call waits for a mutex its caller holds (finding) |
| `agentweave_sync` | one file, three contents (one without text), poller and client, two edits, one fault | the index is a catalog of contents the files had (`AgentWeaveCatalog`), true fingerprints, termination, rows settle, convergence |
| `pulse` | a job and a rapid service, or a service; two policies; one edit, two commits, one fault | exact proofs, only committed commands run, shutdown complete and reached, jobs heal |
| `extclean` | one file of each of three kinds, two names, duplicates, other spellings, subtables; one change by others, one fault, a failing stat among them | no partial file; healthy registrations survive unless misjudged or confused with a suspected one; status and count are true of the files that were not passed over; the run ends |
| `archive_repack` | three to five items, sizes from 1 to the limit, two formats, directories listed twice, conflicts, names that are taken, two failures | success is complete and in order; finished parts other than the current one stay; what is left is valid; errors have causes |
| `proxypass` | one connection, two pieces in either direction, six dials, stalls on either side, interim answers and what is no response, every way of ending | uploads in order and complete, final answers complete, sockets released, `Close` waits for the copies it has counted, and what does not wait for a stalled side ends |
| `interpose` | an interposed command and a guest's execve (commit, reset or protected kill), two commits, up to two snapshots, one file; one edit, two seconds, one failure | what a reset discards is in a snapshot; a repair takes the newest clean version; snapshots are never moved |
| `interpose_guest` | a guest's commit, two files, two edits, no failure | **violated**: a marked file is not repaired (finding) |
| `sandboxd` | two daemons with one cache, a connection each, two executables of three versions, two builds of the shim; three requests, two mishaps (a failing step or lookup, a replaced executable, a daemon that ends with or without its codesign); load-command tables, some of them malformed | what was answered with is whole and signed unless its entry was begun anew; entitlements and constraint are an entry's own unless it met another at signing; a rewritten program loads the library and keeps everything else |

Twelve further configurations show what the code does not keep of what it or its documents say; each is the trace of a finding in
section 4 and states a single property, which TLC finds violated: `GitallRestore.cfg` (`MCGitall`), `ArchiveRepackParts.cfg`, `ArchiveRepackFull.cfg`
(`MCArchiveRepack`), `ExtcleanNames.cfg`, `ExtcleanEdited.cfg`, `ExtcleanStat.cfg` (`MCExtclean`), `ProxyPassInterim.cfg`, `ProxyPassClose.cfg` (`ProxyPass`),
`SandboxdShim.cfg`, `SandboxdConstraint.cfg` (`MCSandboxd`), `InterposeSwapped.cfg`, `InterposeWritten.cfg` (`MCInterpose`). `InterposeFiles.cfg`
is the counterpart of `InterposeSwapped.cfg` and passes: two commands of the host repair two files each, and `OnlyMarkedRestored` holds.

The type invariants are proved (section 5) and not checked again by a run, as are `LockOrder`, `NoDeadlock` and
`NeverWaitsOnOwnPath` on acyclic remotes (with a cycle, the last is what `gitall_loop_push` violates), `OnlyMarkedRestored` for the host's commands, `ExitsClean`, and `ConnHeldInUse`.

### Bounds, and why they are enough

* *gitall*: two repositories and the network for pushing, three for pulling. Exclusion, ordering and
  accounting concern pairs of calls; a mirror that is a root itself and the target of another root produces
  the pairs (own operation against own operation, and against a push
  from outside), and two repositories with the network as remote fall back beside one another. A chain of two hops is enough to see that
  a phase is skipped or entered too early. One answered pull request (`MaxReviews`) falls into every gap of a
  fallback, and frees a number that is then used again. One mishap falls between any two steps of a pull; a push with an interruption
  has too many states, but `PullDiscardsNothing`, `CallersHold`, `SpreadsOnly` and `PushDelivers` hold for any number of them, and for files to
  restore and uncommitted changes in any repository, not only the working copy. What does not depend on the
  size is proved for every topology (section 5).
* *agentweave*: one path, because sources are handled independently apart from
  the connection, which `agentweave_sync` contends for with two workers. Two
  edits let a file change, and change back, during a stale sync; one fault hits
  any step, including between the replacement and the recording of statuses.
  The proofs cover any number of paths, workers, edits and faults.
* *pulse*: the trees have two to five leaves, the first sizes with a carried node on
  the first and on the second level. Two commits are the first number at which an old proof
  meets a new root, and one fault stops the script between its files.
  `MaxAttempts = 1` reaches both sides of the restart limit (the configuration requires it to be
  positive).
* *extclean*: two entries per file suffice for duplicates and for a table with
  its subtable; one change by others falls into every gap between scan, read and
  rename; one fault into every file operation. A second run would start from a
  content that is among the initial ones.

* *proxypass*: connections share nothing but the wait group and the server's state. One connection shows every order of
  the ends, goroutines and closings of a tunnel, two pieces show order and a part read by the HTTP reader while another is in the socket.
  What involves several connections, the wait group, is proved for any number of them. Stalls are not bounded: a side may stall and go on again at any time, as the fairness requires nothing of it. `MaxAttempts = 6` is the code's number.
* *sandboxd*: three requests are an entry being built, a second goroutine beside it (on the same entry or on another), and one that comes after a
  replacement or a restart and finds what was left; two mishaps are a daemon that ends in the middle and a replaced executable, or two daemons that
  end, or a lookup that fails; a codesign that outlives its daemon is one end and goes on at any later moment. Builds of the shim are not told apart, and neither are the two runs: the cfg states that symmetry. The tables have the commands that give way in
  front, behind, in the middle and twice, longer and shorter than what replaces them, and just enough room, more, or too little; and tables with a stray half of a pair or a malformed command, which the
  daemon has to refuse. `OwnSignatures`, `AnswersAreWhole` and `ShimIsLoaded` are proved for any numbers and any table.
* *archive-repack*: a limit of 6 with sizes 1 to 6 gives every way in which members, trailer and blocks may
  meet the limit, with up to four parts; two failures are a changed source and a failing operation in one run.
  `MaxPart = 5` is one more than the number of members that are ever written, so it never holds a run up.

* *interposers*: two commands make every pair of realms and kinds, and two commits in two seconds make a newest
  snapshot, names that agree in the second or in the hash, and a HEAD that moves between the reading of the hash and `git branch`.
  One file keeps a guest's operations one after the other, where the promises hold; with two files they do not
  (`interpose_guest`, `InterposeSwapped.cfg`), while for the host's commands they do (`InterposeFiles.cfg`, and the proofs). One failure hits any operation in either realm, one edit any moment of a repair.

### Fairness

* *gitall*: weak fairness of "some call steps". The Go scheduler runs goroutines
  that can run, and an unlocked `sync.Mutex` is handed to a waiter; no order among calls is assumed.
  git commands are assumed to return (the program has a timeout for them).
* *agentweave*: weak fairness of the poller's ticker, strong fairness of each
  Sync's steps: the steps wait for the connection, which `database/sql` hands to
  waiters in order. Edits, requests and faults are not fair.
* *pulse*: weak fairness of each goroutine, ticker and wait; strong fairness of a
  job's reaction to the cancellation, because Go's `select` picks among ready
  cases at random and does not pass over one for ever. Commands are assumed to end. Signals, edits and
  commits are not fair; `JobsHeal` speaks of what follows once they have happened.
* *extclean*: a started process runs on. *archive-repack* is checked for safety only.
* *proxypass*: weak fairness of each goroutine as long as it does not wait for a side that has stalled (`Waits`): the writes of a request, an answer or
  a piece have no deadline, and neither has a greeting that comes byte by byte (`readLine` renews its deadline with each), so nothing but the side itself
  ends such a wait. Dials, and reads of a greeting that has stopped coming, do have deadlines. Children and destinations owe nothing, so
  `ConnectionsEnd` speaks of connections that do not wait for a stall for ever, or again and again, and of plain requests whose answer has ended.
* *interposers*, *sandboxd*: safety only, no fairness.

## 4. Findings

1. **A push in a cycle of local remotes hangs** (`gitall_loop_push`,
   `main.go:475`): the recursion stack is consulted when `operate` is entered,
   not when `syncAndPushRepo` takes the mutex of a local remote.
2. **A push throws away the uncommitted changes of a mirror** (`gitall_discard`, `main.go:477`): `git checkout -f HEAD` runs in a local
   remote after every successful push, whether or not its checked-out branch moved, and nobody asks whether the remote is clean.
   `docs/gitall.md:91-94` promises the checkout for a moved branch, `main.go:11` that a repository is pushed or pulled only when it
   has no uncommitted changes.
3. **A guest's commit may go ahead with a file unrepaired** (`interpose_guest`, `sandbox/daemon/main.go:283`): the goroutines
   of a repair number, send and read over one connection without a lock; who reads another's answer takes it for a failure.
4. **A guest's repair may overwrite a file that never had markers** (`InterposeSwapped.cfg`, `OnlyMarkedRestored`, `sandbox/daemon/main.go:283`): two
   goroutines may send under one number, and an answer is told from another's by that number alone (`:304`). One whose file holds no markers reads the answer for
   one that does, and its own file is checked out from a snapshot; `restore.go:1-2` speaks of files that contain markers.
5. **A repair may overwrite what the user has just resolved** (`InterposeWritten.cfg`, `OnlyMarkedOverwritten`, `restore.go:152`): between reading a
   file (`:132`) and checking it out lie a `git show` for each snapshot and the repairs of other files, and it is not looked at again.
6. **gitall overwrites uncommitted changes without `-m`** (`GitallRestore.cfg`, `UncommittedStays`, `gitall/main.go:372`): `restoreConflicted` comes before `isClean` (`:378`), so a
   file with markers is rolled back, and the repository may then pass for a clean one and be pulled. `main.go:11-12` and `docs/gitall.md:50` promise that a repository with uncommitted
   changes is left alone; neither mentions a restore.
7. **extclean may remove a registration that is in order**, although `docs/extclean.md:6-7` limits removals to stale and unwanted ones (`OnlyStaleRemoved`), for three
   reasons. Of two versions of a Cursor extension, each is judged by its directory (`cursor.go:95`) but removed by its identifier (`:144`), and the first one
   goes (`ExtcleanNames.cfg`; no fault and nobody else is needed). A flagged MCP server that has been given another command, or whose command has come back, is
   removed by its key without being judged again (`claude.go:325`; `ExtcleanEdited.cfg`). `Exists` is `os.Stat` without an error (`fsdeps.go:27`), so one that fails
   for another reason makes an existing target dangling (`ExtcleanStat.cfg`).
8. **archive-repack fails over members that fit** (`ArchiveRepackFull.cfg`, `OnlyUnfitFails`, `archive-repack/main.go:443`): `docs/archive-repack.md:31-34` says a member that does not fit is
   retried in a continuation, and `:42-43` that one that cannot fit in an empty archive is an error. When the part before
   it has no room for its trailer, `rebuilt.close()` makes the whole run fail, although every member would fit into a part of its own (for zip, whose
   trailer grows with every member, this is the ordinary case). `ErrorsHaveCauses`, which holds, counts this as a cause.
9. **archive-repack may remove a finished part** (`ArchiveRepackParts.cfg`, `FinalizedRemain`, `archive-repack/main.go:446`, `:824`): `main.go:818` says that earlier finalized parts
   remain, but the current output, which `run` removes after an error, is the finished part when the continuation cannot be opened, and the first repacked part when the
   repacking fails later. `OtherPartsKept`, which holds, leaves out the current one.
10. **The proxy loses the answer behind an interim one** (`ProxyPassInterim.cfg`, `PassedOn`, `proxypass.go:196`): `http.ReadResponse` returns a 1xx answer like any other; its status is passed on,
    nothing is copied, and the connection with the real answer is closed, although the server "forwards HTTP/HTTPS traffic without inspecting or modifying it" (`:30-31`).
    `DownloadComplete`, which holds, speaks of answers that `handleHTTP` found to be final.
11. **A tunnel may start after `Close` has returned** (`ProxyPassClose.cfg`, `QuietOnceClosed`, `proxypass.go:248`): a connection that is hijacked is no longer
    `http.Server`'s and not yet counted, so `Close` and `Shutdown`, which "waits for active connections" (`:95`), wait for nothing. `CloseWaitsForCopies`, which holds, is about the
    moment of the return.
12. **sandboxd rewrites an entry it has answered with** (`SandboxdShim.cfg`, `ShimStaysWhole`, `sandbox/daemon/main.go:712`, `:723`): a failing `os.Stat` or `codesign --verify` counts as a missing
    entry, and building it truncates first the library beside the signed program, then the program. The schema (`hardened-runtime-library-validation-schema.md:95-97`) forbids
    to copy a signed shim after signing the executable. Two goroutines or daemons at one entry need no failure. `AnsweredIsWhole` leaves out entries that were begun anew (`redone`).
13. **sandboxd answers with entries signed for another** (`SandboxdConstraint.cfg`, `OldEntriesMatch`, `sandbox/daemon/main.go:712`): the files with entitlements and constraint are shared by all
    entries, so of two that are signed at once one may get the other's; a later lookup verifies the signature but not what was signed, although the schema (`:166-167`) asks
    for that. `SignedAsItsOwn` leaves out entries that met another at signing (`mixed`).

`PROJECT.json` lists the first three; for the others section 3 names the configurations. Seen while modelling, without a run of their own:

In gitall, `ensurePushable` sets `receive.denyCurrentBranch=updateInstead`, so a push that would move the checked-out branch of a dirty mirror is
refused by git; finding 2 is about every other push. When gitall ends, or a checkout fails, between `update-ref` and `checkout -f HEAD`,
the files stay those of the old commit: the same command given again skips the repository as one with uncommitted
changes and reports success; with `-m` it commits the reversal of what had been fetched and pushes it (the model makes that commit,
as `MaybeCommit` of a stale repository, but no property says what a commit's files should be). A pull fetches from local remotes without taking their
mutexes. `docs/gitall.md:97-102` describes the refresh of a mirror's working tree as part of the locked push, but `checkoutHead` (`main.go:477`)
runs after `withLock` has returned, and may meet another git on `index.lock`; that failure is only logged. The comment at `main.go:1197` says that
the number of a closed pull request is never used again, but it is when its branch was deleted (`NumberBranch`). A pull request that is closed
between `gh pr list` and the push gets the commits, and the run reports success although nobody is asked to look at them (`UpdatePull`;
`PushReachesNetwork` allows for it); when the branch was deleted as well, that push creates it again without a pull request. Two repositories that
are each other's remote and both discovered can also block one another in a pull, each goroutine holding its own repository.

In agentweave, a transcript written during a sync can stay unindexed: the fingerprint is taken after the scan (`index.go:170`), and the next sync
finds it unchanged, although the comment at `:148-149` speaks of indexing what has changed; the index is then behind until the file changes
again, which is why `QuietChangesReachIndex` speaks of files that change between syncs. A source that was indexed, then failed to parse and was then
deleted is never pruned (`index.go:296` looks at the latest state only), so search still returns it.

In extclean, `docs/extclean.md` anchors relative commands at
`~/.codex/`, `codex.go` at `~/.codex/<server>/`; once `extclean` has removed a Codex table but left its
subtable, every later run flags the subtable and fails to remove it. A registration file whose `os.Stat` fails (`claude.go:107`, `cursor.go:69`, `codex.go:136`,
`pi.go:30`) is passed over as if it did not exist, with exit status 0: `ExitTellsTruth` speaks of the other files (`overlooked`). What an application adds survives
unless it has the identity of an entry that the run has already read or found, or is added while the file is being replaced: `HealthyKept` leaves these out.

In the sandbox daemon, entitlements that cannot be read count as none (`main.go:690`, `EntitlementsUnread`), although its README says that entitlements are preserved.
`rewriteMachO` accepts a table whose commands end before the size stated in the header, although it looks for a lone signature by that size; `LoadsShim`
says nothing of the result, as no linker writes such a table.

Elsewhere: archive-repack deletes a continuation that another run left behind, because
`os.Remove` follows every failed `writeEntries`, also when the name was taken (`archive-repack/main.go:549`); pulse parses and commits `shutdown-grace` (`tasks/config.go:210`) but uses it nowhere.

In pulse, `docs/pulse.md:61` says that no new ticks are honoured after a signal, but the `select` of `Run` (`scheduler.go:72`) prefers no
case: a tick that is ready together with the cancellation may be taken, and the job's command started once more. A service whose
check fails once, for example while agentcommit is between proof file and anchor, is not started again (`task_supervisor.go:62`).

In the proxy, a write to a side that does not read, a request's body that does not come and a greeting that comes byte by byte (`:450` renews the deadline
with each) block a goroutine without a deadline, and `Close` with it. Cancelling the context of `Start` does not stop the listener, although the comment at `:39-41`
says so; it only makes dials fail, and the test of the cancellation calls `Shutdown` itself. Neither gitall nor pulse calls `Close`.
After pulse's signal, connections of jobs that are still finishing get 502. A child that half-closes loses the rest of its answer,
because the upward copy closes the destination's socket (`:254`): `DownloadComplete` speaks of children that keep their direction open.

In the interposers, `Git.Transform` strips `--no-interpose` before `Git.Before` looks for it (`git.go:22`, `:27`), so repairs and snapshots are
made although `docs/interpose.md:108` says they are skipped. An exit status is no error (`context.go:137`): when `git branch` fails, the
destructive command goes on without a snapshot (`git.go:187`), although `sandbox/daemon/README.md` says that the failure of an operation
prevents the execve; and a snapshot that lacks a file counts as a clean version of it, because the output of the failed `git show` has
no markers (`restore.go:210`), so an older version is not looked for. A commit made by somebody else between the reading of HEAD and
a reset is lost: `NothingLost` speaks of what was on the branch when its hash was read.

## 5. Proofs

Every theorem is proved from the named assumption on the constants in the module that declares them, and from nothing else unless it says so; a further
condition is a hypothesis of the theorem, and TLC finds a violation where it does not hold.

`GitallProofs`, for every set of repositories, every topology of remotes, both actions and any number of interruptions and failing
checkouts:

* `TypeCorrect`: `Spec => []TypeOK`. The only part that is not a matter of
  types is that a call in the middle of a local push stands at an index that is
  a local remote.
* `MutexHeld`: a call past `Lock` owns its repository's mutex until it returns,
  and a call past `LockRemote` owns its target's.
  This is the inductive invariant behind the next theorem: exclusion cannot be
  shown by induction from itself, since it says nothing about who holds what
  when a step begins.
* `RefsAreExclusive`: two calls never write the refs of one repository at once.
  Both would own the same mutex.
* `CallersHold`: every caller on the path of a running call waits for it and owns its mutex. The strengthening says where the callers of
  a live call are, which `Joined` (nobody returns before what it started) keeps.
* `PullDiscardsNothing`: no forced checkout of a pull throws away files that were not committed, those just restored included. The strengthening says that all calls
  are pulls, and that in a repository a call has found clean there are no such files, however long ago it looked: another call may restore files there and make it
  dirty again, but has to wait for the mutex, which is why `MutexInv` is a part of it (`PrepAlone`). What the restoring itself overwrites is finding 6.

* `ErrorsReported`: what failed in any call makes the result of some call of `main` false, and nothing else does. The strengthening (`Reported`)
  says for each error how far it has come: some call on the path of the one that failed has a false result, and the call above it
  still waits to join it; and no result is false without an error. `Started` says that children are started once, before they are waited for.
* `LocksAreOrdered`, `NoReentry`, for topologies with a ranking (hypothesis `Ranked`: every local remote lies below the repository that names it):
  a call waits only for a mutex below everything its path holds, hence never for one its own path holds; the hang of finding 1 needs a cycle of
  remotes. The strengthening says that ranks fall strictly along every path, which each `Fork` preserves.
* `NeverStuck`, under the same hypothesis: as long as calls are running, one of them is not `Blocked` (waiting for a mutex that is owned, or for
  a goroutine that has not returned). Of the running calls, take one that wants the lowest mutex (`Wanted`). If it waits for goroutines, one of them works
  on a lower repository; if it waits for a mutex, the owner can step, or waits for goroutines or for a second mutex, either of which is
  lower. That the owner is a call which uses the mutex is not said by `MutexHeld` but by its converse (`OwnersUse`). `Blocked` stands for the negation of the
  guards, since `ENABLED` is out of reach; on the instances of `gitall_push` and `gitall_pull`, TLC confirms that it is the same, and with
  `gitall_loop_push`'s cycle it finds `NoDeadlock` violated.
* `NothingLeftRunning`: once `main` has its results, no call is at work and every mutex is free (`ExitsClean`, the safety half of `Termination`). From the same
  invariant, and from `CallersWait`.
* `RecursionEnds`, for finitely many repositories and every topology: no call is deeper than there are repositories (callers of a call
  work on different ones, `Simple`). `CallsGoForward`: unless gitall is interrupted, a step takes one call to a later stage or a
  later remote and undoes no other. With `NeverStuck`, what `Termination` asks beyond is that the scheduler runs somebody, and that stays with TLC.
* `SpreadsOnly`, for every set of histories and `-allow-merge`, without `-rebase`: the composed specification implements `GitallSync`, with the commits of `-m` as the work done at a place. A branch is
  moved long after its tip was read, so the invariant says that what a call has read of its own branch is still the tip (nobody else may write it,
  which needs `MutexHeld`), that what it has read of the remote is held by somebody, and that a call in the fallback, which pushes its own branch,
  has nothing else read.
* `ChangesAreKept`: the action property `ChangesSurvive`, for all options. From the same invariant: a rebase replays what was read of the branch, and
  that is all there is.
* `PushDelivers`: `[]PushReachesNetwork`, without `-rebase`; a rebase replaces the commits of a mirror that has its own, and TLC finds the
  property violated then. Only commits that
  were there at the start count, or that `-m` made when `main`'s call on a repository began (`start`; `PrepareRelays`), and `SpreadsOnly` says that they stay. The
  invariant (`PushInv`) says, unless there was an error, where
  those of each repository of `main` are: some call on it (`Carrier`) has found it clean, or committed what was there, and has brought them to every remote it is past, into the branch
  or into a pull request (`Carries`), and each local remote that it is past is served in turn (`Served`). A repository in which a call found uncommitted changes (`Skipped`) is
  left alone, and `main` succeeds all the same; of these nothing is claimed, and they stay skipped, since a call does not look again. Until a call on the remote has started, whoever
  pushed into it still has its phase 3 to come (`Owed`), and the call it starts then either finds the remote clean and takes the commits over, or skips it.
* `PullDelivers`: `[]PullReachesEnds`, for all options. A call (`Brings`) has in its repository what the network had, as soon as it is past a remote that has it
  (`Fed`): the network, or a repository that a call it started has pulled without skipping it. What is in `Skipped` is left out again, and stays so.

`AgentWeaveIndexProofs`, for any files, contents, workers and numbers of edits and faults:

* `IndexTypeCorrect`: types.
* `ConnectionAccounted`: the connection is held exactly by the Sync with an open transaction or result set; nobody
  waits for a connection he holds.
* `IndexIsCatalog`: the index implements `AgentWeaveCatalog`, initial states and steps. It rests on what workers carry from one step to the
  next: what a Sync scanned, and the fingerprint it took, are of contents that the file has had.
* `PrintsAreTrue`: the fingerprint recorded for a file that only changes between
  Syncs is that of what is stored. The strengthening follows a Sync through its
  phases: for such a file, what it scanned, the fingerprint it took and what it is about to
  write agree with the file.

`ArchiveRepackProofs`, for every walk, limit, format, set of taken names and number of failures:

* `TypeCorrect`: types; the strengthening (`Progress`) says that a rollover is about a member of the walk, that a
  candidate is a prefix of the entries, and that repacking goes on from the current part.
* `OthersStay`: the action property `OtherPartsKept`. Every step writes the current part, the next one, of which there was nothing, or the one a prefix is packed
  into, which is no archive until then (`Ahead`).
* `ValidPartsLeft`: `[]LeavesValidParts`. The inductive invariant has two parts. `Apart`: what parts hold is pairwise disjoint
  and claimed, the entries are claimed, distinct and in no part but the one being written, and a member that is
  rolled over is in none. `Finished`: only the current part may be incomplete, and it is complete before
  another becomes current. Neither follows from the property itself, which speaks of the end of a run only.
* `SuccessHasAll`: `[]SuccessIsComplete`. The invariant has two parts. `Recorded`: exactly what the walk has come to is claimed, and the entries are the
  last of it. `Filled`: until there is an error, the parts before the one being written are complete and, followed by the entries, hold
  in order what was found so far; it is kept by a rollover, which makes the entries a part, and by repacking, which makes a prefix of them one.
* `ErrorsAreCaused`: `[]ErrorsHaveCauses`. The invariant (`Caused`) says that a source is lost and a later part's name is taken only if something else went wrong,
  and that the entries could be written. When they, a prefix of one, or a member in a part of its own do not fit, they are a stretch of the
  members that leaves no space for the trailer, which `Recorded` tells where to find.

`ProxyPassProofs`, for any finite set of connections, any number of pieces and any limit on dials:

* `ProxyTypeCorrect`: types, with the bound on the attempts.
* `SocketsReleased`: `[]DestReleased`.
* `UploadsArrive`: `[]UploadComplete`. What has arrived, what is on its way and what the reader of net/http still holds are, in this order,
  the numbers from 1 up to the last piece said, unless somebody broke off; then what has arrived is still in order, though not all of it.
* `AnswersArrive`: `[]DownloadComplete`, for every answer that is not an interim one or no response at all (finding 10), however long either side stalls. The invariant (`Shape`, `Whole`) says for each connection how handler, goroutines and
  sockets fit: a tunnel's goroutines exist from the handler's last step on, the destination's socket is open as long as the upward copy
  runs, and unless a side broke off, the upward copy does not end before the downward one has read all.
* `WaitIsForAll`: the action property `CloseWaitsForCopies`. The invariant `Counted` says that the wait group's value is the number of upward
  copies that run plus the number of downward copies that have not called `Done`; it needs cardinalities, as the number of tunnels is arbitrary.
* `TunnelsGoOn`: `[]EndingGoesOn`, the safety half of `ConnectionsEnd` for a tunnel. Once a side or a copy has ended and until both copies are over, one of the two
  goroutines can go on, unless one of them is in a write to a side that has stalled: it has a piece to copy, its reading or writing has come to an end, or `doneA` is closed. Each copy waits in a read that only the other's closing
  of a socket ends, so the invariant (`Shut`) says that a copy that is over has left the destination's, or the child's, socket closed. That the guards of
  `UpGoesOn` and `DownGoesOn` are those of the goroutines' actions was compared with `ENABLED` by TLC; that who can go on does is the fairness `ConnectionsEnd` assumes.

`PulseProofs`, for any jobs, services, policies and numbers of edits, commits and faults:

* `PulseTypes`: types; among them that a service still running has not used up its attempts.
* `StopsComplete`: `[]StopIsComplete`. The strengthening (`Waited`) says that what the later stages of `main` have waited for
  has ended for good: no goroutine leaves its end, and no step starts one after the signal.
* `CommittedRuns`: `[]OnlyCommittedRuns`. A proof file and an anchor are read at different times, so the invariant does not say that they
  agree. `Committing` says that the installed root is that of leaves that are all recorded as anchored, and
  `Verified` the same of the root each goroutine has read, and that whoever passed its check runs one of the recorded leaves. Between the two stands soundness of the tree: what verifies against the root of a set of
  leaves is one of them.
* `ProofsAreExact`: `[]ProofsExact`, for trees of every size: the proof of an entry accepts the command it was made for (completeness) and no other.

Both rest on lemmas about the tree for any number of leaves. Levels are a recursive function, shown to exist and to halve; completeness follows the
path from a leaf to the root, soundness the path from the root down, where the tags keep a leaf from being taken for a node. A hash is injective in
the model, so "no other" stands for "unless two inputs collide".

`ExtcleanProofs`, for any files, kinds, tools and numbers of runs, edits and faults:

* `TypeCorrect`: types.
* `WritesAreAtomic`: `[]NeverPartial`. What is renamed over a registration file is the whole of what was computed (`Written`): a temporary file that was
  not written to its end is never renamed, whatever an earlier run left under the same name.
* `HealthyStay`, `HealthyAreKept`: registrations that nobody has a reason to remove stay (`expected`; a failing stat that makes the run misjudge one, and an identity that the run already
  suspects, are such reasons, finding 7). The invariant (`Guarded`) follows an entry that is in order through a
  run: no finding names it in a way that the removal would take for it, neither the buffer nor the temporary file lacks it, and for a table no
  header that is looked for is its own. `HealthyAreKept` is about runs without files whose entries share a name, and `HealthyStay` about the other files beside such
  ones: of two versions of a Cursor extension, the one that is in order may go, and TLC finds `HealthyKept` violated when
  the instance has such a file.
* `ExitStatusTells`: `[]ExitTellsTruth`, under the same hypothesis: with two versions under one name, a removal may take the one that is not stale, and
  TLC finds the property violated. It speaks of the files whose stat did not fail (`File \ overlooked`). The invariant (`Told`) speaks of runs in which nobody else changes anything. While extclean scans (`Scans`), whatever it has found is stale in
  a file that parses, everything stale in the files read so far was found unless there was an error, and an error without a fault is that of a file whose
  whole tool is passed over. While it removes (`Applies`), whatever a finding's removal would take is stale, what is still stale counts at most the failures
  and the findings that are left, and a finding is found again as often as it was flagged, unless its table is spelled differently. What is stale is
  counted in the files as they will be after the removal under way (`Current`), so that each removal lowers the count when its finding is taken.

`InterposeProofs`, for any commands in either realm, files, commits, seconds and numbers of edits and failures:

* `TypeCorrect`: types, with the shape of the graph of commits (`Graph`: a commit's past is before it) and of a call at each stage (`Stages`).
* `SnapshotsNeverMove`: the action property `SnapshotsStay`.
* `NothingIsLost`: `[]NothingLost`. A call that has its snapshot keeps it (`Snapshotted`), and what a finished reset has left without a branch is
  not in the past of the commit whose hash it read (`Lost`).
* `MarkedOnly`, `MarkersAreRestored`: a repair restores only files that held markers, and each of them to its newest clean version. The invariant
  (`Searches`, `Repaired`) says for each file which snapshots are still to be looked at, that those already passed had markers, and that nobody else has written what
  was restored; `Matched` says that the answer on a guest's connection is the one to the operation it waits for. That is true of guests with one file only, since with two the
  goroutines share a number (finding 3), so the hypothesis is that there are no guests or one file. `MarkersAreRestored` needs as well that no
  snapshot lacks a file (`"none"` is no version), because the failed `git show` counts as a clean version (`restore.go:210`).

`RewriteCacheProofs`, for any daemons, connections, executables, versions and builds of the shim, and any number of mishaps:

* `CacheTypes`: types.
* `OwnSignatures`: `[]SignedAsItsOwn`. Whoever is between writing the shared files and signing finds there what he wrote, or
  his entry is in `mixed`, and the same of a codesign whose daemon has ended (`orphans`); what others left behind is overwritten before it is used.
* `AnswersAreWhole`: `[]AnsweredIsWhole`. An entry that is not in `redone` has one builder at most, a goroutine or a codesign left behind, was not signed before he began, and at
  each of his steps the files are as far as he is.

* `RewriteRight`, `ShimIsLoaded`: `[]LoadsShim`. A rewritten executable has the command that loads the library where the commands that gave way were, every other
  command in order and whole, a table as long as stated, and its code in place. `RewriteRight` says this of the rewriting alone, for every executable that
  `rewriteMachO` accepts and whose commands fill the stated size, whatever their kinds and lengths; it follows the walk over the table before and after
  (`BeginsUnique`, `BeginsGrow`). The invariant (`ShimInv`) adds that whatever is written was made from a version that was accepted (`Rewritable`).

Model-checked only: the liveness properties (`Termination`, `SyncsEnd`, `PrintsSettle`, `QuietChangesReachIndex`, `RunsEnd`, `ConnectionsEnd`, `SignalStops`,
`JobsHeal`), because liveness under fairness is out of the prover's reach here. Every safety and action property of a passing run is proved.

The library's induction theorems take an operator as parameter and cannot be cited here. Where a lemma is about every natural number (the levels of
the tree, the versions a repair looks through, the items of a walk, the parts of an archive), it is proved with a least counterexample instead: the set of counterexamples, were it not empty, would have a least
element (`Least`, from `NatLessThanWellFounded`), and a recursive function is shown to exist in the same way, from its finite beginnings. No module with a theorem has
a `RECURSIVE` operator.

## 6. Not modelled, and why

Searching, reading and formatting (agentweave's search and dossiers, workspace
reports, prtag, docs) have no state that changes. Discovery, flags and configuration parsing
determine constants. One-shot sequential programs (cleanartifacts, clonetree, forfiles, prtag,
shell pipelines) have no interleaving; they are
in the plan only where a failure between two steps matters. Of the sandbox daemon, the process table and the hash map are left out: each text
command is one access under one mutex; of its shim, everything but the transactions of an execve. In modelled components:
pulse's `-once` and a restart of pulse itself, the tags that `gitall -all` pushes and the tracking branches a pull
creates (one branch stands for all), a push URL that is another repository than the fetch URL, the formats that
agentweave and extclean parse, two `extclean -apply` at once (they would share the
name of the temporary file), timing other than "before" and "after".

## 7. Plan

Done: the core of each component; the abstract specifications of gitall's histories and of agentweave's index with their refinements; interruptions
of gitall; the sandbox daemon's rewrite cache. What could follow, in this order:

1. the shim's hash chain (which file a process may open after which execve) with the commitment of `AgentCommit` as its policy.
2. gitall with several branches to a repository, tracking branches, and a push URL that is not the fetch URL.
3. clonetree, as far as steps can fail between each other; what the find and grep wrappers keep from being entered.
