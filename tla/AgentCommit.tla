---------------------------- MODULE AgentCommit ----------------------------
(***************************************************************************)
(* How the commands and policies on this machine are committed: the        *)
(* install script runs "agentcommit commit", which reads the               *)
(* configuration files, builds one Merkle tree over all of them and writes *)
(* the proofs of each file beside it (src/agentcommit/commit.go); the      *)
(* script then writes the root into the plist of the anchor LaunchAgent.   *)
(* Each of these files is replaced atomically, but not all of them at      *)
(* once: whoever verifies meanwhile sees a new proof and an old root.      *)
(***************************************************************************)
EXTENDS Commitment, Functions, FiniteSets

CONSTANTS
  Job, Task,      \* names in pulse's jobs file, and in its tasks file
  Policy,         \* the policies, which are always committed
  KeyOrder,       \* all these, in the order of their keys
  Command,        \* what may be configured
  Start,          \* the configurations to begin with: [Entry -> ...]
  MaxEdits,       \* bound: how often a configuration file is edited
  MaxCommits,     \* bound: how often the script is run, or uninstalled
  MaxFaults       \* bound: how often something fails

Entry == Job \cup Task
Absent == "absent"
NotInstalled == [tag |-> 2, of |-> <<>>]   \* no hash

ASSUME CommitAssumption ==
  /\ Job \cap Task = {} /\ Entry \cap Policy = {} /\ Policy # {}
  /\ KeyOrder \in Seq(Entry \cup Policy)
  /\ \A k \in Entry \cup Policy : Cardinality({i \in 1..Len(KeyOrder) : KeyOrder[i] = k}) = 1
  /\ Absent \notin Command
  /\ Start \subseteq [Entry -> Command \cup {Absent}]

VARIABLES
  config,    \* the two configuration files: a command for each entry
  sidecar,   \* the two proof files, as one function on the entries they prove
  anchor,    \* the root in the plist
  script,    \* the running install script
  anchored,  \* all leaves that were ever under an installed root
  edits, commits, faults

commitVars == <<config, sidecar, anchor, script, anchored, edits, commits, faults>>

CommitLeaf(e, command) == [key |-> e, payload |-> command]

(* What agentcommit found in the files, and the policies, sorted by key.   *)
Leaves(found) ==
  LET sorted[n \in 0..Len(KeyOrder)] ==
        IF n = 0 THEN <<>>
        ELSE LET k == KeyOrder[n] IN
             IF k \in Policy THEN Append(sorted[n - 1], CommitLeaf(k, k))
             ELSE IF k \in DOMAIN found THEN Append(sorted[n - 1], CommitLeaf(k, found[k]))
             ELSE sorted[n - 1]
  IN sorted[Len(KeyOrder)]

Proofs(found, names) ==
  LET leaves == Leaves(found) IN
  [e \in DOMAIN found \cap names |->
     ProofFor(leaves, CHOOSE i \in 1..Len(leaves) : leaves[i].key = e)]

CommitInit ==
  /\ config \in Start
  /\ sidecar = <<>>
  /\ anchor = NotInstalled
  /\ script = [pc |-> "idle", found |-> <<>>]
  /\ anchored = {}
  /\ edits = 0 /\ commits = 0 /\ faults = 0

Fault == faults < MaxFaults /\ faults' = faults + 1

----------------------------------------------------------------------------
(* The operator edits one of the configuration files.                      *)
EditConfig(e) ==
  /\ edits < MaxEdits /\ edits' = edits + 1
  /\ \E command \in (Command \cup {Absent}) \ {config[e]} :
       config' = [config EXCEPT ![e] = command]
  /\ UNCHANGED <<sidecar, anchor, script, anchored, commits, faults>>

(* agentcommit reads both files and builds the tree.                       *)
Commit ==
  /\ script.pc = "idle"
  /\ commits < MaxCommits /\ commits' = commits + 1
  /\ script' = [pc |-> "writeJobs",
                found |-> Restrict(config, {e \in Entry : config[e] # Absent})]
  /\ UNCHANGED <<config, sidecar, anchor, anchored, edits, faults>>

(* writeProofSidecar replaces one proof file; a file that would be empty   *)
(* is left as it is.                                                       *)
WriteSidecar(label, names, next) ==
  LET proofs == Proofs(script.found, names) IN
  /\ script.pc = label
  /\ script' = [script EXCEPT !.pc = next]
  /\ sidecar' = IF DOMAIN proofs = {} THEN sidecar
                ELSE [e \in (DOMAIN sidecar \ names) \cup DOMAIN proofs |->
                        IF e \in names THEN proofs[e] ELSE sidecar[e]]
  /\ UNCHANGED <<config, anchor, anchored, edits, commits, faults>>

(* launchagent_install replaces the plist.                                 *)
InstallAnchor ==
  /\ script.pc = "install"
  /\ anchor' = Root(Leaves(script.found))
  /\ anchored' = anchored \cup Range(Leaves(script.found))
  /\ script' = [pc |-> "idle", found |-> <<>>]
  /\ UNCHANGED <<config, sidecar, edits, commits, faults>>

(* The script fails or is interrupted; what it wrote stays.                *)
CommitFails ==
  /\ script.pc # "idle" /\ Fault
  /\ script' = [pc |-> "idle", found |-> <<>>]
  /\ UNCHANGED <<config, sidecar, anchor, anchored, edits, commits>>

(* install-agentcommit-anchor.sh --uninstall leaves the proof files.       *)
Uninstall ==
  /\ script.pc = "idle" /\ anchor # NotInstalled
  /\ commits < MaxCommits /\ commits' = commits + 1
  /\ anchor' = NotInstalled
  /\ UNCHANGED <<config, sidecar, script, anchored, edits, faults>>

CommitNext ==
  \/ \E e \in Entry : EditConfig(e)
  \/ Commit
  \/ WriteSidecar("writeJobs", Job, "writeTasks")
  \/ WriteSidecar("writeTasks", Task, "install")
  \/ InstallAnchor \/ CommitFails \/ Uninstall

----------------------------------------------------------------------------
(* Everything in a commitment verifies, and nothing else does: neither     *)
(* another command nor another entry's proof passes against the root,      *)
(* whatever the number of leaves (Build, ProofFor, VerifyProof).           *)
ProofsExact ==
  script.pc = "writeJobs" =>
    LET found == script.found
        proofs == Proofs(found, Entry)
        root == Root(Leaves(found)) IN
    \A e \in DOMAIN proofs, other \in Entry, command \in Command :
      VerifyProof(CommitLeaf(other, command), proofs[e], root)
        <=> other = e /\ command = found[e]
=============================================================================
