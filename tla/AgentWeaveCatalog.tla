------------------------- MODULE AgentWeaveCatalog -------------------------
(***************************************************************************)
(* What AgentWeave's index promises to those who search it, whoever        *)
(* synchronises it and whatever fails: the artifacts of a source are those *)
(* of one content the file has had, are replaced as a whole together with  *)
(* the record of it, stay as they are when the source cannot be read, and  *)
(* go with their record.                                                   *)
(***************************************************************************)
CONSTANTS Path, Content, None, NoRecord, NoPrint

VARIABLES
  had,     \* had[p]: the contents the file has had
  record,  \* record[p]: the source's state and fingerprint
  holds    \* holds[p]: the content whose artifacts can be found

Init ==
  /\ had \in [Path -> SUBSET Content]
  /\ record = [p \in Path |-> NoRecord]
  /\ holds = [p \in Path |-> None]

Write(p) ==
  /\ \E c \in Content : had' = [had EXCEPT ![p] = @ \cup {c}]
  /\ UNCHANGED <<record, holds>>

Replace(p) ==
  /\ \E c \in had[p] : holds' = [holds EXCEPT ![p] = c]
  /\ \E c \in had[p] : record' = [record EXCEPT ![p] = [state |-> "indexed", print |-> c]]
  /\ UNCHANGED had

(* Nothing is claimed of the content any more.                             *)
Fail(p) ==
  /\ record' = [record EXCEPT ![p] = [state |-> "error", print |-> NoPrint]]
  /\ UNCHANGED <<had, holds>>

Remove(p) ==
  /\ record' = [record EXCEPT ![p] = NoRecord]
  /\ holds' = [holds EXCEPT ![p] = None]
  /\ UNCHANGED had

Next == \E p \in Path : Write(p) \/ Replace(p) \/ Fail(p) \/ Remove(p)

Spec == Init /\ [][Next]_<<had, record, holds>>
=============================================================================
