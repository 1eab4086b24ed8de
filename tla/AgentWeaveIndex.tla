-------------------------- MODULE AgentWeaveIndex --------------------------
(***************************************************************************)
(* The synchronisation of AgentWeave's index with the files of the agent   *)
(* applications (src/agentweave/core/index.go, driven by the daemon's      *)
(* poller and by its clients).  A Sync first scans every file, then goes   *)
(* through the files that yielded artifacts: it fingerprints the file,     *)
(* compares with the stored fingerprint and replaces the artifacts in one  *)
(* transaction.  It then records the errors and prunes deleted sources.    *)
(* Several Syncs may run at once; the database has a single connection.    *)
(*                                                                         *)
(* A file is represented by its content, a fingerprint by the content it   *)
(* was taken of, and the artifacts, chunks and search rows of a source by  *)
(* the content they were extracted from.                                   *)
(***************************************************************************)
EXTENDS FiniteSets, Naturals

CONSTANTS
  Path,       \* source files
  Content,    \* what a file may contain
  Blank,      \* contents without indexable text, or not parseable
  Worker,     \* goroutines that may be running a Sync
  Poller,     \* the one of ServeWithPoll
  MaxEdits,   \* bound: how often files change
  MaxFaults   \* bound: database errors, cancellations and crashes

Absent == "absent"
NoPrint == "no fingerprint"
Free == "free"

ASSUME IndexAssumption ==
  /\ Path # {}
  /\ Blank \subseteq Content
  /\ {Absent, NoPrint} \cap Content = {}
  /\ Poller \in Worker
  /\ Free \notin Worker
  /\ MaxEdits \in Nat /\ MaxFaults \in Nat

VARIABLES
  file,    \* the files on disk
  row,     \* the sources table: state and fingerprint
  stored,  \* the content whose artifacts the index holds
  conn,    \* who uses the database connection
  sync,    \* the local variables of each worker's Sync
  late,    \* files that were written while some Sync was running (history)
  had,     \* what each file has contained so far (history)
  edits, faults

vars == <<file, row, stored, conn, sync, late, had, edits, faults>>

NoRow == [state |-> "none", print |-> NoPrint]

Indexable == Content \ Blank

(* What the adapters extract: a conversation, plan or task without text is *)
(* an error.                                                               *)
Extract(content) == IF content \in Indexable THEN content ELSE Absent

Row == [state : {"none", "indexed", "error"}, print : Content \cup {NoPrint}]

PC == {"idle", "scan", "file", "compare", "begin", "write", "report", "rows", "prune"}

Local == [pc      : PC,
          todo    : SUBSET Path,                      \* still to scan, or to index
          scan    : [Path -> Indexable \cup {Absent}],
          at      : Path,                             \* the file being indexed
          print   : Content \cup {NoPrint},           \* its fingerprint
          report  : SUBSET Path,                      \* error statuses collected
          missing : SUBSET Path]                      \* sources to prune

Idle == [pc |-> "idle", todo |-> Path, scan |-> [p \in Path |-> Absent],
         at |-> CHOOSE p \in Path : TRUE, print |-> NoPrint,
         report |-> {}, missing |-> {}]

Init ==
  /\ file \in [Path -> Content \cup {Absent}]
  /\ row = [p \in Path |-> NoRow]
  /\ stored = [p \in Path |-> Absent]
  /\ conn = Free
  /\ sync = [w \in Worker |-> Idle]
  /\ late = {} /\ had = [p \in Path |-> {file[p]} \ {Absent}]
  /\ edits = 0 /\ faults = 0

At(w, label) == sync[w].pc = label

Become(w, local) == sync' = [sync EXCEPT ![w] = local]

(* Mutant: the loop stays at the file.                                     *)
SameFile(w, local) == Become(w, [local EXCEPT !.pc = "file"])

(* The file is dealt with; the loop goes on.                               *)
NextFile(w, local) ==
  Become(w, [local EXCEPT !.pc = "file", !.todo = @ \ {sync[w].at}])

Failing(w, p) == [sync[w] EXCEPT !.report = @ \cup {p}]

Fault == faults < MaxFaults /\ faults' = faults + 1

DbUnchanged == UNCHANGED <<row, stored>>
OutsideUnchanged == UNCHANGED <<file, late, had, edits>>

----------------------------------------------------------------------------
(* A tick of the poller or a "sync" request.                               *)
Start(w) ==
  /\ At(w, "idle")
  /\ Become(w, [Idle EXCEPT !.pc = "scan"])
  /\ UNCHANGED <<conn, faults>> /\ DbUnchanged /\ OutsideUnchanged

(* ScanAll reads one file; a file that cannot be parsed is reported.       *)
ScanFile(w) ==
  /\ At(w, "scan")
  /\ \E p \in sync[w].todo :
       Become(w, [sync[w] EXCEPT
                    !.todo = @ \ {p},
                    !.scan[p] = Extract(file[p]),
                    !.report = @ \cup {q \in {p} : file[q] \in Blank}])
  /\ UNCHANGED <<conn, faults>> /\ DbUnchanged /\ OutsideUnchanged

(* Sync groups the artifacts by source file.                               *)
GroupFiles(w) ==
  /\ At(w, "scan") /\ sync[w].todo = {}
  /\ Become(w, [sync[w] EXCEPT !.pc = "file",
                               !.todo = {p \in Path : sync[w].scan[p] # Absent}])
  /\ UNCHANGED <<conn, faults>> /\ DbUnchanged /\ OutsideUnchanged

(* fileFingerprint reads the file again, as it is now.                     *)
Fingerprint(w) ==
  /\ At(w, "file")
  /\ \E p \in sync[w].todo :
       IF file[p] = Absent
       THEN Become(w, [Failing(w, p) EXCEPT !.todo = @ \ {p}])
       ELSE Become(w, [sync[w] EXCEPT !.pc = "compare", !.at = p, !.print = file[p]])
  /\ UNCHANGED <<conn, faults>> /\ DbUnchanged /\ OutsideUnchanged

(* Mutant: any row of the source will do.                                  *)
KnownIsUnchanged(w) == row[sync[w].at] # NoRow

SourceUnchanged(w) ==
  row[sync[w].at].print = sync[w].print

Compare(w) ==
  /\ At(w, "compare") /\ conn = Free
  /\ IF SourceUnchanged(w) THEN NextFile(w, sync[w])
                           ELSE Become(w, [sync[w] EXCEPT !.pc = "begin"])
  /\ UNCHANGED <<conn, faults>> /\ DbUnchanged /\ OutsideUnchanged

Indexed(w) == [state |-> "indexed", print |-> sync[w].print]

(* Mutant: the status is recorded outside the transaction.                 *)
BeginRecorded(w) ==
  /\ At(w, "begin") /\ conn = Free
  /\ conn' = w
  /\ row' = [row EXCEPT ![sync[w].at] = Indexed(w)]
  /\ Become(w, [sync[w] EXCEPT !.pc = "write"])
  /\ UNCHANGED <<stored, faults>> /\ OutsideUnchanged

(* replaceSource: the transaction keeps the connection until it ends.      *)
BeginReplace(w) ==
  /\ At(w, "begin") /\ conn = Free
  /\ conn' = w
  /\ Become(w, [sync[w] EXCEPT !.pc = "write"])
  /\ UNCHANGED faults /\ DbUnchanged /\ OutsideUnchanged

CommitReplace(w) ==
  /\ At(w, "write")
  /\ conn' = Free
  /\ stored' = [stored EXCEPT ![sync[w].at] = sync[w].scan[sync[w].at]]
  /\ row' = [row EXCEPT ![sync[w].at] = Indexed(w)]
  /\ NextFile(w, sync[w])
  /\ UNCHANGED faults /\ OutsideUnchanged

(* A statement or the commit fails: rolled back and reported.              *)
RollbackReplace(w) ==
  /\ At(w, "write") /\ Fault
  /\ conn' = Free
  /\ NextFile(w, Failing(w, sync[w].at))
  /\ DbUnchanged /\ OutsideUnchanged

FilesDone(w) ==
  /\ At(w, "file") /\ sync[w].todo = {}
  /\ Become(w, [sync[w] EXCEPT !.pc = "report"])
  /\ UNCHANGED <<conn, faults>> /\ DbUnchanged /\ OutsideUnchanged

(* Mutant: the error status keeps the fingerprint of the row.              *)
ErrorKeepsPrint(p) ==
  [state |-> "error", print |-> row[p].print]

(* The row of a failed source: no fingerprint, so that the next Sync that  *)
(* can read the file replaces its artifacts.                               *)
ErrorRow(p) == [state |-> "error", print |-> NoPrint]

(* recordStatus of one collected error; its own failure is ignored.        *)
RecordError(w) ==
  /\ At(w, "report") /\ conn = Free
  /\ \E p \in sync[w].report :
       /\ Become(w, [sync[w] EXCEPT !.report = @ \ {p}])
       /\ \/ row' = [row EXCEPT ![p] = ErrorRow(p)] /\ UNCHANGED faults
          \/ Fault /\ UNCHANGED row
  /\ UNCHANGED <<stored, conn>> /\ OutsideUnchanged

(* pruneMissingSources: the open result set keeps the connection ...       *)
QuerySources(w) ==
  /\ At(w, "report") /\ sync[w].report = {} /\ conn = Free
  /\ conn' = w
  /\ Become(w, [sync[w] EXCEPT !.pc = "rows"])
  /\ UNCHANGED faults /\ DbUnchanged /\ OutsideUnchanged

Prunable(p) == row[p].state = "indexed" /\ file[p] = Absent

(* ... until the last row was read, and every file looked for.             *)
ReadSources(w) ==
  /\ At(w, "rows")
  /\ conn' = Free
  /\ Become(w, [sync[w] EXCEPT !.pc = "prune", !.missing = {p \in Path : Prunable(p)}])
  /\ UNCHANGED faults /\ DbUnchanged /\ OutsideUnchanged

(* Mutant: only the row of the source is deleted.                          *)
PruneRowOnly(w) ==
  /\ At(w, "prune") /\ conn = Free
  /\ \E p \in sync[w].missing :
       /\ row' = [row EXCEPT ![p] = NoRow]
       /\ Become(w, [sync[w] EXCEPT !.missing = @ \ {p}])
  /\ UNCHANGED <<stored, conn, faults>> /\ OutsideUnchanged

PruneSource(w) ==
  /\ At(w, "prune") /\ conn = Free
  /\ \E p \in sync[w].missing :
       /\ stored' = [stored EXCEPT ![p] = Absent]
       /\ row' = [row EXCEPT ![p] = NoRow]
       /\ Become(w, [sync[w] EXCEPT !.missing = @ \ {p}])
  /\ UNCHANGED <<conn, faults>> /\ OutsideUnchanged

Finish(w) ==
  /\ At(w, "prune") /\ sync[w].missing = {}
  /\ Become(w, Idle)
  /\ UNCHANGED <<conn, faults>> /\ DbUnchanged /\ OutsideUnchanged

(* A database error that Sync returns, a cancelled context or the end of   *)
(* the process: the Sync stops where it is and an open transaction is      *)
(* rolled back.                                                            *)
Stop(w) ==
  /\ ~At(w, "idle") /\ Fault
  /\ Become(w, Idle)
  /\ conn' = IF conn = w THEN Free ELSE conn
  /\ DbUnchanged /\ OutsideUnchanged

----------------------------------------------------------------------------
(* An application creates, rewrites or deletes one of its files.           *)
Edit(p) ==
  /\ edits < MaxEdits /\ edits' = edits + 1
  /\ late' = IF \A w \in Worker : At(w, "idle") THEN late ELSE late \cup {p}
  /\ \E content \in (Content \cup {Absent}) \ {file[p]} :
       /\ file' = [file EXCEPT ![p] = content]
       /\ had' = [had EXCEPT ![p] = @ \cup ({content} \ {Absent})]
  /\ UNCHANGED <<row, stored, conn, sync, faults>>

Work(w) ==
  \/ ScanFile(w) \/ GroupFiles(w) \/ Fingerprint(w) \/ Compare(w)
  \/ BeginReplace(w) \/ CommitReplace(w) \/ RollbackReplace(w) \/ FilesDone(w)
  \/ RecordError(w) \/ QuerySources(w) \/ ReadSources(w)
  \/ PruneSource(w) \/ Finish(w)

Next ==
  \/ \E w \in Worker : Start(w) \/ Work(w) \/ Stop(w)
  \/ \E p \in Path : Edit(p)

(* The ticker goes on, and database/sql hands the connection to those that *)
(* wait for it.                                                            *)
Fairness ==
  /\ WF_vars(Start(Poller))
  /\ \A w \in Worker : SF_vars(Work(w))

Spec == Init /\ [][Next]_vars /\ Fairness

----------------------------------------------------------------------------
TypeOK ==
  /\ file \in [Path -> Content \cup {Absent}]
  /\ row \in [Path -> Row]
  /\ stored \in [Path -> Indexable \cup {Absent}]
  /\ conn \in Worker \cup {Free}
  /\ sync \in [Worker -> Local]
  /\ late \in SUBSET Path
  /\ had \in [Path -> SUBSET Content]
  /\ edits \in 0..MaxEdits /\ faults \in 0..MaxFaults

(* The connection is held exactly by the Sync that has a transaction or a  *)
(* result set open, so nobody waits for a connection he holds himself      *)
(* (replaceSource, pruneMissingSources under SetMaxOpenConns(1)).          *)
ConnHeldInUse ==
  \A w \in Worker : conn = w <=> sync[w].pc \in {"write", "rows"}

(* The recorded fingerprint of a file that changes only between Syncs is   *)
(* the fingerprint of what is stored, so that "unchanged" means that the   *)
(* index is up to date, through every failure and crash (replaceSource).   *)
PrintIsOfStored ==
  \A p \in Path \ late : row[p].print # NoPrint => stored[p] = row[p].print

(* Every Sync ends, whatever the others do.                                *)
SyncsEnd == \A w \in Worker : ~At(w, "idle") ~> At(w, "idle")

(* When the files no longer change, the rows become and stay the           *)
(* fingerprints of the files, however stale the Syncs that were under way  *)
(* (Sync, sourceUnchanged, pruneMissingSources).                           *)
PrintsSettle ==
  <>[](\A p \in Path : file[p] \in Indexable =>
         row[p] = [state |-> "indexed", print |-> file[p]])

(* A file that changes only between Syncs ends up in the index as it is on *)
(* disk, in spite of failures, crashes and overlapping Syncs.              *)
QuietChangesReachIndex ==
  <>[](\A p \in Path \ late : file[p] \in Indexable => stored[p] = file[p])

(* The index keeps what is promised to those who search it                 *)
(* (AgentWeaveCatalog): whole replacements of what the file has contained, *)
(* together with their rows, one source at a time.                         *)
Catalog ==
  INSTANCE AgentWeaveCatalog WITH record <- row, holds <- stored,
                                  None <- Absent, NoRecord <- NoRow

KeepsCatalog == Catalog!Spec
=============================================================================
