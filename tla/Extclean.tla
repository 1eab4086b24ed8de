------------------------------ MODULE Extclean ------------------------------
(***************************************************************************)
(* extclean -apply (src/extclean): scan the registration files of the      *)
(* agents tool by tool, collect the entries that are dangling or orphaned, *)
(* and remove these findings one at a time.  Each removal reads the file   *)
(* anew, looks the entry up by its identity, and replaces the file through *)
(* a temporary file and a rename.  The applications that own the files,    *)
(* and the file system the entries point to, change at any time.           *)
(*                                                                         *)
(* A file is the sequence of its entries.  How an entry is identified      *)
(* depends on the file: by what it points to (hooks, plugin paths, pi's    *)
(* packages), by a unique key (MCP servers, marketplaces), by a name that  *)
(* need not be unique (Cursor's extensions), or by the header of a TOML    *)
(* table (Codex), which another spelling or a subtable does not match.     *)
(***************************************************************************)
EXTENDS Naturals, Sequences, FiniteSets, SequencesExt

CONSTANTS
  File,        \* the registration files
  ScanOrder,   \* all of them, in the order of the scan: tool by tool
  ApplyRank,   \* their order in SortFindings: by tool, then kind
  ToolOf,      \* the tool a file belongs to
  Kind,        \* how its entries are identified
  Name,        \* identities of entries, and what entries point to
  Nothing,     \* no target, no finding
  Partial,     \* the content of a file while it is written
  NoFile,      \* there is no such file
  Start,       \* the contents to begin with: a set of [File -> Seq(Entry)]
  MaxEntries,  \* bound: entries of one file
  MaxEdits,    \* bound: changes made by others
  MaxFaults,   \* bound: failing file operations and crashes
  MaxRuns      \* bound: how often extclean is run

(* How a TOML table appears: with the header extclean would write, with    *)
(* another spelling of it, or as a subtable of its own.  JSON entries have *)
(* the one form "plain".                                                   *)
Form == {"plain", "respelled", "subtable"}

Entry == [id : Name, target : Name \cup {Nothing}, form : Form]

(* What a scan holds against an entry; place tells duplicates apart.       *)
Finding == [file : File, id : Name, place : Nat]

(* Contents the applications write, or users leave behind.                 *)
WellFormed(f, content) ==
  \A i, j \in DOMAIN content :
    /\ Kind[f] = "value" => content[i].target = content[i].id
    /\ Kind[f] = "key" /\ i # j => content[i].id # content[j].id
    /\ Kind[f] # "table" => content[i].form = "plain"
    /\ content[i].form = "subtable" <=> content[i].target = Nothing

ASSUME ExtcleanAssumption ==
  /\ ScanOrder \in Seq(File) /\ \A f \in File : \E i \in 1..Len(ScanOrder) : ScanOrder[i] = f
  /\ \A i, j, k \in 1..Len(ScanOrder) :
       i <= j /\ j <= k /\ ToolOf[ScanOrder[i]] = ToolOf[ScanOrder[k]] =>
         ToolOf[ScanOrder[j]] = ToolOf[ScanOrder[k]]
  /\ ApplyRank \in [File -> Nat]
  /\ Kind \in [File -> {"value", "key", "name", "table"}]
  /\ Nothing \notin Name /\ Nothing \notin Finding
  /\ {Partial, NoFile} \cap Seq(Entry) = {}
  /\ \A s \in Start : s \in [File -> Seq(Entry)] /\ \A f \in File : WellFormed(f, s[f])
  /\ {MaxEntries, MaxEdits, MaxFaults, MaxRuns} \subseteq Nat

VARIABLES
  file,       \* the registration files
  tmp,        \* <file>.extclean.tmp
  exists,     \* what is there to be pointed to
  installed,  \* the tools that are installed
  run,        \* the local variables of the running extclean
  exit,       \* the exit status of the last run that ended by itself
  expected,   \* entries that a run has no reason to remove
  overlooked, \* files the run took for missing
  misjudged,  \* findings about entries that were in order
  calm,       \* has nobody else changed anything since the run began?
  edits, faults, runs

ghosts == <<expected, overlooked, misjudged, calm>>
vars == <<file, tmp, exists, installed, run, exit, ghosts, edits, faults, runs>>

(* scan: the position in ScanOrder; at: the finding that is being removed. *)
Idle == [pc |-> "idle", scan |-> 1, buf |-> <<>>, found |-> {},
         at |-> Nothing, failed |-> 0, error |-> FALSE]

Init ==
  /\ file \in Start
  /\ tmp = [f \in File |-> NoFile]
  /\ exists \in SUBSET Name
  /\ installed \in SUBSET {ToolOf[f] : f \in File}
  /\ run = Idle
  /\ exit = 0
  /\ expected = [f \in File |-> {}] /\ overlooked = {} /\ misjudged = {} /\ calm = TRUE
  /\ edits = 0 /\ faults = 0 /\ runs = 0

At(label) == run.pc = label

Scanning == run.scan \in 1..Len(ScanOrder)

Scanned == ScanOrder[run.scan]

FaultCounted == faults < MaxFaults /\ faults' = faults + 1

----------------------------------------------------------------------------
(* What a scan makes of a file *)

(* Two tables of one name are not TOML.                                    *)
Parses(f, content) ==
  Kind[f] = "table" =>
    \A i, j \in DOMAIN content :
      i # j /\ content[i].id = content[j].id =>
        /\ content[i].form # content[j].form
        /\ "subtable" \in {content[i].form, content[j].form}

(* Where the registrations of a file are.  A table that consists of        *)
(* subtables only is a registration without a command.                     *)
Registrations(f, content) ==
  {i \in DOMAIN content :
     content[i].form = "subtable" => \A d \in Range(content) : d.id = content[i].id => d = content[i]}

Stale(f, e) == ToolOf[f] \notin installed \/ e.target \notin exists

FindingsAt(f, content, places) == {[file |-> f, id |-> content[i].id, place |-> i] : i \in places}

(* Mutant: one stale entry makes the whole file stale.                     *)
FlaggedWithRest(f, content) ==
  FindingsAt(f, content, {i \in Registrations(f, content) : \E d \in Range(content) : Stale(f, d)})

Flagged(f, content) ==
  FindingsAt(f, content, {i \in Registrations(f, content) : Stale(f, content[i])})

(* What is only flagged when the stat of something that exists fails.      *)
Wrongful(f, content) ==
  FindingsAt(f, content, {i \in Registrations(f, content) : ~Stale(f, content[i])})

(* The entries that nothing can be said against.                           *)
Healthy(f, content) == {e \in Range(content) : ~Stale(f, e)}

----------------------------------------------------------------------------
(* Scan *)

Begin ==
  /\ At("idle") /\ runs < MaxRuns
  /\ runs' = runs + 1
  /\ run' = [Idle EXCEPT !.pc = "scan"]
  /\ expected' = [f \in File |-> Healthy(f, file[f])]
  /\ overlooked' = {} /\ misjudged' = {} /\ calm' = TRUE
  /\ UNCHANGED <<file, tmp, exists, installed, exit, edits, faults>>

OnlyRun == UNCHANGED <<file, tmp, exists, installed, exit, ghosts, edits, runs>>

ReadScanned ==
  /\ At("scan") /\ Scanning
  /\ run' = [run EXCEPT !.pc = "judge", !.buf = file[Scanned]]
  /\ OnlyRun /\ UNCHANGED faults

(* Exists is TRUE when os.Stat returns no error: a file whose stat fails   *)
(* of itself is passed over like one that is not there.                    *)
StatFails ==
  /\ At("scan") /\ Scanning /\ FaultCounted
  /\ run' = [run EXCEPT !.scan = @ + 1]
  /\ overlooked' = overlooked \cup {Scanned}
  /\ UNCHANGED <<file, tmp, exists, installed, exit, expected, misjudged, calm, edits, runs>>

Found(findings) ==
  run' = [run EXCEPT !.pc = "scan", !.scan = @ + 1, !.buf = <<>>, !.found = @ \cup findings]

Judge ==
  /\ At("judge") /\ Parses(Scanned, run.buf)
  /\ Found(Flagged(Scanned, run.buf))
  /\ OnlyRun /\ UNCHANGED faults

(* So is what an entry points to, or its tool: held against an entry that  *)
(* is in order, and removed as if it were not.                             *)
Misjudge ==
  /\ At("judge") /\ Parses(Scanned, run.buf) /\ FaultCounted
  /\ \E wrong \in SUBSET Wrongful(Scanned, run.buf) \ {{}} :
       /\ Found(Flagged(Scanned, run.buf) \cup wrong)
       /\ misjudged' = misjudged \cup wrong
       /\ expected' = [expected EXCEPT ![Scanned] = {e \in @ : \A x \in wrong : e.id # x.id}]
  /\ UNCHANGED <<file, tmp, exists, installed, exit, overlooked, calm, edits, runs>>

OfThisTool(f) == ToolOf[f] = ToolOf[Scanned]

(* The first file of the next tool is at n.                                *)
NextTool(n) ==
  /\ \A i \in run.scan..(n - 1) : OfThisTool(ScanOrder[i])
  /\ n <= Len(ScanOrder) => ~OfThisTool(ScanOrder[n])

(* The scan of the tool ends with an error: nothing of it is reported.     *)
DropTool ==
  \E n \in (run.scan + 1)..(Len(ScanOrder) + 1) :
    /\ NextTool(n)
    /\ run' = [run EXCEPT !.pc = "scan", !.scan = n, !.buf = <<>>,
                          !.found = {x \in @ : ~OfThisTool(x.file)}, !.error = TRUE]

Unparseable ==
  /\ At("judge") /\ ~Parses(Scanned, run.buf)
  /\ DropTool
  /\ OnlyRun /\ UNCHANGED faults

(* The file is there but unreadable, or the TOML reader does not run.      *)
ReadFails ==
  /\ At("judge") /\ FaultCounted
  /\ DropTool
  /\ OnlyRun

ScanDone ==
  /\ At("scan") /\ ~Scanning
  /\ run' = [run EXCEPT !.pc = "apply"]
  /\ OnlyRun /\ UNCHANGED faults

----------------------------------------------------------------------------
(* Apply *)

(* The entries a removal may take for the one that was found.              *)
Matches(content, id) ==
  {i \in DOMAIN content : content[i].id = id /\ content[i].form = "plain"}

(* Without the first match.                                                *)
Without(content, id) ==
  RemoveAt(content, CHOOSE i \in Matches(content, id) : \A j \in Matches(content, id) : i <= j)

(* The entry is still there; of a table there must be exactly one.         *)
Located(f, content, id) ==
  /\ Matches(content, id) # {}
  /\ Kind[f] = "table" => Cardinality(Matches(content, id)) = 1

(* The next finding in the order of SortFindings; the order within a file  *)
(* depends on the names.                                                   *)
NextFindings ==
  {x \in run.found : \A y \in run.found : ApplyRank[x.file] <= ApplyRank[y.file]}

Failing(count) == [run EXCEPT !.pc = "apply", !.at = Nothing, !.buf = <<>>, !.failed = @ + count]

(* Mutant: a finding that is not found is not given up.                    *)
ReadAndEditAgain ==
  /\ At("apply")
  /\ \E x \in NextFindings :
       /\ Located(x.file, file[x.file], x.id)
       /\ run' = [run EXCEPT !.pc = "create", !.found = @ \ {x}, !.at = x,
                             !.buf = Without(file[x.file], x.id)]
  /\ OnlyRun /\ UNCHANGED faults

(* RemoveFinding reads the file and edits what it read.                    *)
ReadAndEdit ==
  /\ At("apply")
  /\ \E x \in NextFindings :
       run' = IF Located(x.file, file[x.file], x.id)
              THEN [run EXCEPT !.pc = "create", !.found = @ \ {x}, !.at = x,
                               !.buf = Without(file[x.file], x.id)]
              ELSE [run EXCEPT !.found = @ \ {x}, !.failed = @ + 1]
  /\ OnlyRun /\ UNCHANGED faults

(* Mutant: the file itself is truncated and written.                       *)
CreateInPlace ==
  /\ At("create")
  /\ file' = [file EXCEPT ![run.at.file] = Partial]
  /\ run' = [run EXCEPT !.pc = "write"]
  /\ UNCHANGED <<tmp, exists, installed, exit, ghosts, edits, faults, runs>>

CreateTmp ==
  /\ At("create")
  /\ tmp' = [tmp EXCEPT ![run.at.file] = Partial]
  /\ run' = [run EXCEPT !.pc = "write"]
  /\ UNCHANGED <<file, exists, installed, exit, ghosts, edits, faults, runs>>

WriteTmp ==
  /\ At("write")
  /\ tmp' = [tmp EXCEPT ![run.at.file] = run.buf]
  /\ run' = [run EXCEPT !.pc = "rename"]
  /\ UNCHANGED <<file, exists, installed, exit, ghosts, edits, faults, runs>>

Rename ==
  /\ At("rename")
  /\ file' = [file EXCEPT ![run.at.file] = tmp[run.at.file]]
  /\ tmp' = [tmp EXCEPT ![run.at.file] = NoFile]
  /\ run' = Failing(0)
  /\ UNCHANGED <<exists, installed, exit, ghosts, edits, faults, runs>>

(* Reading or replacing the file fails: reported, and on to the next       *)
(* finding.                                                                *)
ApplyFails ==
  /\ run.pc \in {"create", "write", "rename"} /\ FaultCounted
  /\ run' = Failing(1)
  /\ OnlyRun

(* Mutant: an error of the scan does not reach the exit status.            *)
ExitOfApply == IF run.failed > 0 THEN 1 ELSE 0

ExitStatus == IF run.error \/ run.failed > 0 THEN 1 ELSE 0

Exit ==
  /\ At("apply") /\ run.found = {}
  /\ run' = [run EXCEPT !.pc = "idle"]
  /\ exit' = ExitStatus
  /\ UNCHANGED <<file, tmp, exists, installed, ghosts, edits, faults, runs>>

(* extclean is killed; what it wrote stays.                                *)
Crash ==
  /\ ~At("idle") /\ FaultCounted
  /\ run' = [Idle EXCEPT !.error = TRUE]
  /\ calm' = FALSE
  /\ UNCHANGED <<file, tmp, exists, installed, exit, expected, overlooked, misjudged, edits, runs>>

----------------------------------------------------------------------------
(* The others *)

(* The identities the running extclean may already hold something against. *)
Suspected(f) ==
  {x.id : x \in {y \in run.found : y.file = f}}
    \cup (IF At("judge") /\ Scanned = f THEN {e.id : e \in Range(run.buf)} ELSE {})

(* extclean has read the file and is about to replace it.                  *)
InWindow(f) == run.at # Nothing /\ run.at.file = f

Edited(f) ==
  LET content == file[f] IN
     {Append(content, e) : e \in Entry}
  \cup {RemoveAt(content, i) : i \in DOMAIN content}
  \cup {ReplaceAt(content, i, e) : i \in DOMAIN content, e \in Entry}

(* An application, or the user, adds, removes or changes an entry.         *)
Edit(f) ==
  /\ edits < MaxEdits /\ edits' = edits + 1
  /\ \E content \in Edited(f) :
       /\ content # file[f] /\ Len(content) <= MaxEntries /\ WellFormed(f, content)
       /\ file' = [file EXCEPT ![f] = content]
       /\ expected' = [expected EXCEPT ![f] =
            (@ \cap Range(content))
              \cup {e \in Healthy(f, content) : ~InWindow(f) /\ e.id \notin Suspected(f)}]
  /\ calm' = FALSE
  /\ UNCHANGED <<tmp, exists, installed, run, exit, overlooked, misjudged, faults, runs>>

(* What an entry points to appears or goes away.                           *)
Move(n) ==
  /\ edits < MaxEdits /\ edits' = edits + 1
  /\ exists' = IF n \in exists THEN exists \ {n} ELSE exists \cup {n}
  /\ expected' = [f \in File |-> {e \in expected[f] : e.target # n}]
  /\ calm' = FALSE
  /\ UNCHANGED <<file, tmp, installed, run, exit, overlooked, misjudged, faults, runs>>

(* No extclean is running.                                                 *)
Rest == At("idle") /\ UNCHANGED vars

Work ==
  \/ ReadScanned \/ Judge \/ Unparseable \/ ScanDone
  \/ ReadAndEdit \/ CreateTmp \/ WriteTmp \/ Rename \/ Exit

Next ==
  \/ Begin \/ Rest \/ Work \/ StatFails \/ Misjudge \/ ReadFails \/ ApplyFails \/ Crash
  \/ \E f \in File : Edit(f)
  \/ \E n \in Name : Move(n)

(* A process that was started runs on.                                     *)
Spec == Init /\ [][Next]_vars /\ WF_vars(Work)
----------------------------------------------------------------------------
Stage == {"idle", "scan", "judge", "apply", "create", "write", "rename"}

(* Every variable has its type; a file is always a complete sequence of    *)
(* entries, and only a removal under way has something to remove.          *)
TypeOK ==
  /\ file \in [File -> Seq(Entry)]
  /\ tmp \in [File -> Seq(Entry) \cup {Partial, NoFile}]
  /\ exists \subseteq Name /\ installed \subseteq {ToolOf[f] : f \in File}
  /\ run \in [pc : Stage, scan : 1..(Len(ScanOrder) + 1), buf : Seq(Entry), found : SUBSET Finding,
              at : Finding \cup {Nothing}, failed : Nat, error : BOOLEAN]
  /\ At("judge") => Scanning
  /\ run.pc \in {"create", "write", "rename"} <=> run.at # Nothing
  /\ exit \in {0, 1} /\ calm \in BOOLEAN
  /\ expected \in [File -> SUBSET Entry]
  /\ overlooked \subseteq File /\ misjudged \subseteq Finding
  /\ edits \in 0..MaxEdits /\ faults \in 0..MaxFaults /\ runs \in 0..MaxRuns

(* docs/extclean.md: "Every write (JSON or TOML) goes through a temp-file + *)
(* atomic rename, so a reader never observes a partial write", whenever    *)
(* extclean fails or is killed (atomicWriteFile).                          *)
NeverPartial == \A f \in File : file[f] # Partial

(* A registration that is in order all through a run survives it, although *)
(* entries are looked up again in files that have changed since the scan:  *)
(* what was there from the beginning, and what its application adds before *)
(* or after the replacement of its file.  Not so what is added while the   *)
(* file is replaced, what is given the identity of an entry that the run   *)
(* has already read or found (it is looked up by that alone), and what was *)
(* flagged because a stat failed (RemoveFinding, ApplyJSONRemoval,         *)
(* RemoveTomlTable; the last two are OnlyStaleRemoved).                    *)
HealthyKept == \A f \in File : expected[f] \subseteq Range(file[f])

(* docs/extclean.md: "removes ... entries matching two criteria": an entry *)
(* is stale when a removal takes it out (RemoveFinding).  Does not hold:   *)
(* README, section 4.                                                      *)
OnlyStaleRemoved ==
  [][At("apply") /\ run'.pc = "create" =>
       LET f == run'.at.file IN
         \E i \in DOMAIN file[f] : run'.buf = RemoveAt(file[f], i) /\ Stale(f, file[f][i])]_vars

RunEnded == At("idle") /\ runs > 0

(* Entries the removal is made for; a subtable is left behind on purpose.  *)
Removable(f) ==
  {i \in DOMAIN file[f] : file[f][i].form # "subtable" /\ Stale(f, file[f][i])}

(* Exit status 0 means that nothing stale is left, if nobody else changed  *)
(* anything meanwhile, but for the files whose stat failed: they are       *)
(* passed over without an error (main: scanErrored, applyFailed).          *)
ExitZeroIsClean ==
  RunEnded /\ calm /\ exit = 0 => \A f \in File \ overlooked : Removable(f) = {}

(* docs/extclean.md: "Each finding is applied independently; a failure on  *)
(* one ... is reported and skipped": no more stale entries are left, in    *)
(* the same files, than failures were counted (main).                      *)
OnlyFailuresRemain ==
  RunEnded /\ calm /\ ~run.error =>
    Cardinality(UNION {{f} \X Removable(f) : f \in File \ overlooked}) <= run.failed

(* Without a fault and without changes by others only a table that is      *)
(* spelled differently, or not at all, fails: duplicates of an entry are   *)
(* found again as often as they were flagged (filterOutFirst,              *)
(* removeClaudeHook, RemoveTomlTable).                                     *)
FailuresHaveCauses ==
  RunEnded /\ calm /\ faults = 0 /\ exit = 1 =>
    \E f \in File :
      \/ ~Parses(f, file[f])
      \/ \E i \in Registrations(f, file[f]) : file[f][i].form # "plain" /\ Stale(f, file[f][i])

(* The exit status and the number of failures tell what was removed and    *)
(* what was not (the end of main).                                         *)
ExitTellsTruth == ExitZeroIsClean /\ OnlyFailuresRemain /\ FailuresHaveCauses

(* Every run ends.                                                         *)
RunsEnd == []<>At("idle")
=============================================================================
