----------------------- MODULE AgentWeaveIndexProofs -----------------------
(***************************************************************************)
(* Invariance proofs for AgentWeaveIndex, for any number of files and of   *)
(* concurrent Syncs.                                                       *)
(***************************************************************************)
EXTENDS AgentWeaveIndex, TLAPS

(* The constant sets the proofs expand. *)
LEMMA IdleType == Idle \in Local
  BY IndexAssumption DEF Idle, Local, PC, Indexable

(* Changing the local variables of one worker keeps the type of sync. *)
LEMMA BecomeType ==
  ASSUME sync \in [Worker -> Local], NEW w \in Worker, NEW local \in Local, Become(w, local)
  PROVE  sync' \in [Worker -> Local]
  BY DEF Become

(* Every step keeps the types (all actions of Sync, and edits). *)
LEMMA TypeStep == TypeOK /\ [Next]_vars => TypeOK'
<1> SUFFICES ASSUME TypeOK, [Next]_vars PROVE TypeOK'
  OBVIOUS
<1> USE IndexAssumption
<1>1. ASSUME NEW w \in Worker, Start(w) PROVE TypeOK'
  <2>1. [Idle EXCEPT !.pc = "scan"] \in Local
    BY IdleType DEF Local, PC
  <2>2. sync' \in [Worker -> Local]
    BY <1>1, <2>1, BecomeType DEF Start, TypeOK
  <2> QED BY <1>1, <2>2 DEF Start, TypeOK, DbUnchanged, OutsideUnchanged
<1>2. ASSUME NEW w \in Worker, Work(w) PROVE TypeOK'
  <2>0. sync[w] \in Local
    BY DEF TypeOK
  <2>1. CASE ScanFile(w)
    <3>1. PICK p \in sync[w].todo :
            Become(w, [sync[w] EXCEPT
                    !.todo = @ \ {p},
                    !.scan[p] = Extract(file[p]),
                    !.report = @ \cup {q \in {p} : file[q] \in Blank}])
      BY <2>1 DEF ScanFile
    <3>2. p \in Path /\ Extract(file[p]) \in Indexable \cup {Absent}
      BY <2>0 DEF Local, Extract
    <3>3. [sync[w] EXCEPT !.todo = @ \ {p},
                          !.scan[p] = Extract(file[p]),
                          !.report = @ \cup {q \in {p} : file[q] \in Blank}] \in Local
      BY <2>0, <3>2 DEF Local
    <3> QED BY <2>1, <3>1, <3>3, BecomeType DEF ScanFile, TypeOK, DbUnchanged, OutsideUnchanged
  <2>2. CASE GroupFiles(w)
    <3>1. [sync[w] EXCEPT !.pc = "file", !.todo = {p \in Path : sync[w].scan[p] # Absent}] \in Local
      BY <2>0 DEF Local, PC
    <3> QED BY <2>2, <3>1, BecomeType DEF GroupFiles, TypeOK, DbUnchanged, OutsideUnchanged
  <2>3. CASE Fingerprint(w)
    <3>1. PICK p \in sync[w].todo :
       IF file[p] = Absent
       THEN Become(w, [Failing(w, p) EXCEPT !.todo = @ \ {p}])
       ELSE Become(w, [sync[w] EXCEPT !.pc = "compare", !.at = p, !.print = file[p]])
      BY <2>3 DEF Fingerprint
    <3>2. p \in Path /\ file[p] \in Content \cup {Absent}
      BY <2>0 DEF Local, TypeOK
    <3>3. [Failing(w, p) EXCEPT !.todo = @ \ {p}] \in Local
      BY <2>0, <3>2 DEF Local, Failing
    <3>4. file[p] # Absent =>
            [sync[w] EXCEPT !.pc = "compare", !.at = p, !.print = file[p]] \in Local
      BY <2>0, <3>2 DEF Local, PC
    <3>5. sync' \in [Worker -> Local]
      BY <3>1, <3>3, <3>4, BecomeType DEF TypeOK
    <3> QED BY <2>3, <3>5 DEF Fingerprint, TypeOK, DbUnchanged, OutsideUnchanged
  <2>4. \A local \in Local :
          [local EXCEPT !.pc = "file", !.todo = @ \ {sync[w].at}] \in Local
    BY DEF Local, PC
  <2>5. CASE Compare(w)
    <3>1. [sync[w] EXCEPT !.pc = "begin"] \in Local
      BY <2>0 DEF Local, PC
    <3>2. sync' \in [Worker -> Local]
      BY <2>0, <2>4, <2>5, <3>1, BecomeType DEF Compare, NextFile, TypeOK
    <3> QED BY <2>5, <3>2 DEF Compare, TypeOK, DbUnchanged, OutsideUnchanged
  <2>6. CASE BeginReplace(w)
    <3>1. [sync[w] EXCEPT !.pc = "write"] \in Local
      BY <2>0 DEF Local, PC
    <3>2. sync' \in [Worker -> Local]
      BY <2>6, <3>1, BecomeType DEF BeginReplace, TypeOK
    <3> QED BY <2>6, <3>2 DEF BeginReplace, TypeOK, DbUnchanged, OutsideUnchanged
  <2>7. CASE CommitReplace(w)
    <3>1. sync' \in [Worker -> Local]
      BY <2>0, <2>4, <2>7, BecomeType DEF CommitReplace, NextFile, TypeOK
    <3>2. Indexed(w) \in Row /\ sync[w].at \in Path /\ sync[w].scan[sync[w].at] \in Indexable \cup {Absent}
      BY <2>0 DEF Local, Row, Indexed
    <3> QED BY <2>7, <3>1, <3>2 DEF CommitReplace, TypeOK, OutsideUnchanged
  <2>8. CASE RollbackReplace(w)
    <3>1. Failing(w, sync[w].at) \in Local
      BY <2>0 DEF Local, Failing
    <3>2. sync' \in [Worker -> Local]
      BY <2>4, <2>8, <3>1, BecomeType DEF RollbackReplace, NextFile, TypeOK
    <3> QED BY <2>8, <3>2 DEF RollbackReplace, Fault, TypeOK, DbUnchanged, OutsideUnchanged
  <2>9. CASE FilesDone(w)
    <3>1. [sync[w] EXCEPT !.pc = "report"] \in Local
      BY <2>0 DEF Local, PC
    <3>2. sync' \in [Worker -> Local]
      BY <2>9, <3>1, BecomeType DEF FilesDone, TypeOK
    <3> QED BY <2>9, <3>2 DEF FilesDone, TypeOK, DbUnchanged, OutsideUnchanged
  <2>10. CASE RecordError(w)
    <3>1. PICK p \in sync[w].report :
            /\ Become(w, [sync[w] EXCEPT !.report = @ \ {p}])
            /\ \/ row' = [row EXCEPT ![p] = ErrorRow(p)] /\ UNCHANGED faults
               \/ Fault /\ UNCHANGED row
      BY <2>10 DEF RecordError
    <3>2. [sync[w] EXCEPT !.report = @ \ {p}] \in Local
      BY <2>0 DEF Local
    <3>3. sync' \in [Worker -> Local]
      BY <3>1, <3>2, BecomeType DEF TypeOK
    <3>4. ErrorRow(p) \in Row
      BY DEF ErrorRow, Row
    <3> QED BY <2>10, <3>1, <3>3, <3>4 DEF RecordError, Fault, TypeOK, OutsideUnchanged
  <2>11. CASE QuerySources(w)
    <3>1. [sync[w] EXCEPT !.pc = "rows"] \in Local
      BY <2>0 DEF Local, PC
    <3>2. sync' \in [Worker -> Local]
      BY <2>11, <3>1, BecomeType DEF QuerySources, TypeOK
    <3> QED BY <2>11, <3>2 DEF QuerySources, TypeOK, DbUnchanged, OutsideUnchanged
  <2>12. CASE ReadSources(w)
    <3>1. [sync[w] EXCEPT !.pc = "prune", !.missing = {p \in Path : Prunable(p)}] \in Local
      BY <2>0 DEF Local, PC
    <3>2. sync' \in [Worker -> Local]
      BY <2>12, <3>1, BecomeType DEF ReadSources, TypeOK
    <3> QED BY <2>12, <3>2 DEF ReadSources, TypeOK, DbUnchanged, OutsideUnchanged
  <2>13. CASE PruneSource(w)
    <3>1. PICK p \in sync[w].missing :
            /\ stored' = [stored EXCEPT ![p] = Absent]
            /\ row' = [row EXCEPT ![p] = NoRow]
            /\ Become(w, [sync[w] EXCEPT !.missing = @ \ {p}])
      BY <2>13 DEF PruneSource
    <3>2. [sync[w] EXCEPT !.missing = @ \ {p}] \in Local
      BY <2>0 DEF Local
    <3>3. sync' \in [Worker -> Local]
      BY <3>1, <3>2, BecomeType DEF TypeOK
    <3>4. NoRow \in Row
      BY DEF NoRow, Row
    <3> QED BY <2>13, <3>1, <3>3, <3>4 DEF PruneSource, TypeOK, OutsideUnchanged
  <2>14. CASE Finish(w)
    BY <2>14, IdleType, BecomeType DEF Finish, TypeOK, DbUnchanged, OutsideUnchanged
  <2> QED BY <1>2, <2>1, <2>2, <2>3, <2>5, <2>6, <2>7, <2>8, <2>9, <2>10, <2>11, <2>12,
             <2>13, <2>14 DEF Work
<1>3. ASSUME NEW w \in Worker, Stop(w) PROVE TypeOK'
  BY <1>3, IdleType, BecomeType DEF Stop, Fault, TypeOK, DbUnchanged, OutsideUnchanged
<1>4. ASSUME NEW p \in Path, Edit(p) PROVE TypeOK'
  BY <1>4 DEF Edit, TypeOK
<1>5. CASE UNCHANGED vars
  BY <1>5 DEF vars, TypeOK
<1> QED BY <1>1, <1>2, <1>3, <1>4, <1>5 DEF Next

(* The initial state is well typed. *)
LEMMA TypeInit == Init => TypeOK
  BY IdleType, IndexAssumption DEF Init, TypeOK, NoRow, Row, Indexable

(* Type correctness of the index and of every Sync under way. *)
THEOREM IndexTypeCorrect == Spec => []TypeOK
  BY TypeInit, TypeStep, PTL DEF Spec

----------------------------------------------------------------------------
(* Every step keeps the account of the single database connection.         *)
LEMMA ConnStep == TypeOK /\ ConnHeldInUse /\ [Next]_vars => ConnHeldInUse'
<1> SUFFICES ASSUME TypeOK, ConnHeldInUse, [Next]_vars PROVE ConnHeldInUse'
  OBVIOUS
<1> USE IndexAssumption
<1>0. Idle.pc = "idle"
  BY DEF Idle
<1>1. ASSUME NEW w \in Worker, NEW label \in PC, At(w, label), label \notin {"write", "rows"},
             UNCHANGED conn, \A v \in Worker \ {w} : sync'[v] = sync[v],
             sync'[w].pc \notin {"write", "rows"}
      PROVE  ConnHeldInUse'
  BY <1>1 DEF ConnHeldInUse, At
<1>2. ASSUME NEW w \in Worker, conn = Free, conn' = w,
             \A v \in Worker \ {w} : sync'[v] = sync[v], sync'[w].pc \in {"write", "rows"}
      PROVE  ConnHeldInUse'
  BY <1>2 DEF ConnHeldInUse
<1>3. ASSUME NEW w \in Worker, conn' = Free, sync[w].pc \in {"write", "rows"},
             \A v \in Worker \ {w} : sync'[v] = sync[v], sync'[w].pc \notin {"write", "rows"}
      PROVE  ConnHeldInUse'
  BY <1>3 DEF ConnHeldInUse
<1>4. ASSUME NEW w \in Worker, NEW local, Become(w, local)
      PROVE  sync'[w] = local /\ \A v \in Worker \ {w} : sync'[v] = sync[v]
  BY <1>4 DEF Become, TypeOK
<1>5. ASSUME NEW w \in Worker, Start(w) \/ Work(w) PROVE ConnHeldInUse'
  <2>0. sync[w] \in Local
    BY DEF TypeOK
  <2>1. CASE Start(w)
    <3>1. [Idle EXCEPT !.pc = "scan"].pc = "scan"
      BY IdleType DEF Local
    <3> QED BY <2>1, <3>1, <1>1, <1>4 DEF Start, PC
  <2>2. CASE ScanFile(w)
    <3> DEFINE L(p) == [sync[w] EXCEPT
                          !.todo = @ \ {p},
                          !.scan[p] = Extract(file[p]),
                          !.report = @ \cup {q \in {p} : file[q] \in Blank}]
    <3>1. PICK p \in sync[w].todo : Become(w, L(p))
      BY <2>2 DEF ScanFile
    <3>2. L(p).pc = "scan"
      BY <2>0, <2>2 DEF ScanFile, At, Local
    <3> HIDE DEF L
    <3>3. sync'[w] = L(p) /\ \A v \in Worker \ {w} : sync'[v] = sync[v]
      BY <3>1, <1>4
    <3> QED BY <2>2, <3>2, <3>3, <1>1 DEF ScanFile, PC
  <2>3. CASE GroupFiles(w)
    <3> DEFINE L == [sync[w] EXCEPT !.pc = "file",
                                    !.todo = {p \in Path : sync[w].scan[p] # Absent}]
    <3>1. Become(w, L) /\ L.pc = "file"
      BY <2>0, <2>3 DEF GroupFiles, Local
    <3> HIDE DEF L
    <3>2. sync'[w] = L /\ \A v \in Worker \ {w} : sync'[v] = sync[v]
      BY <3>1, <1>4
    <3> QED BY <2>3, <3>1, <3>2, <1>1 DEF GroupFiles, PC
  <2>12. CASE FilesDone(w)
    <3>1. sync'[w].pc = "report" /\ \A v \in Worker \ {w} : sync'[v] = sync[v]
      BY <2>0, <2>12, <1>4 DEF FilesDone, Local
    <3> QED BY <2>12, <3>1, <1>1 DEF FilesDone, PC
  <2>4. CASE Fingerprint(w)
    <3>1. PICK p \in sync[w].todo :
       IF file[p] = Absent
       THEN Become(w, [Failing(w, p) EXCEPT !.todo = @ \ {p}])
       ELSE Become(w, [sync[w] EXCEPT !.pc = "compare", !.at = p, !.print = file[p]])
      BY <2>4 DEF Fingerprint
    <3> DEFINE L1 == [Failing(w, p) EXCEPT !.todo = @ \ {p}]
               L2 == [sync[w] EXCEPT !.pc = "compare", !.at = p, !.print = file[p]]
    <3>2. L1.pc = "file" /\ L2.pc = "compare"
      BY <2>0, <2>4 DEF Fingerprint, At, Failing, Local
    <3>4. Become(w, L1) \/ Become(w, L2)
      BY <3>1
    <3> HIDE DEF L1, L2
    <3>3. sync'[w] \in {L1, L2} /\ \A v \in Worker \ {w} : sync'[v] = sync[v]
      BY <3>4, <1>4
    <3> QED BY <2>4, <3>2, <3>3, <1>1 DEF Fingerprint, PC
  <2>5. CASE Compare(w)
    <3> DEFINE L1 == [sync[w] EXCEPT !.pc = "file", !.todo = @ \ {sync[w].at}]
               L2 == [sync[w] EXCEPT !.pc = "begin"]
    <3>1. (Become(w, L1) \/ Become(w, L2)) /\ L1.pc = "file" /\ L2.pc = "begin"
      BY <2>0, <2>5 DEF Compare, NextFile, Local
    <3> HIDE DEF L1, L2
    <3>2. sync'[w] \in {L1, L2} /\ \A v \in Worker \ {w} : sync'[v] = sync[v]
      BY <3>1, <1>4
    <3> QED BY <2>5, <3>1, <3>2, <1>1 DEF Compare, PC
  <2>6. CASE BeginReplace(w) \/ QuerySources(w)
    <3>1. sync'[w].pc \in {"write", "rows"} /\ \A v \in Worker \ {w} : sync'[v] = sync[v]
      BY <2>0, <2>6, <1>4 DEF BeginReplace, QuerySources, Local
    <3> QED BY <2>6, <3>1, <1>2 DEF BeginReplace, QuerySources
  <2>7. CASE CommitReplace(w) \/ RollbackReplace(w)
    <3>1. Failing(w, sync[w].at) \in Local
      BY <2>0 DEF Failing, Local
    <3> DEFINE L(local) == [local EXCEPT !.pc = "file", !.todo = @ \ {sync[w].at}]
    <3>2. L(sync[w]).pc = "file" /\ L(Failing(w, sync[w].at)).pc = "file"
      BY <2>0, <3>1 DEF Local
    <3>4. Become(w, L(sync[w])) \/ Become(w, L(Failing(w, sync[w].at)))
      BY <2>7 DEF CommitReplace, RollbackReplace, NextFile
    <3> HIDE DEF L
    <3>3. sync'[w].pc = "file" /\ \A v \in Worker \ {w} : sync'[v] = sync[v]
      BY <3>2, <3>4, <1>4
    <3> QED BY <2>7, <3>3, <1>3 DEF CommitReplace, RollbackReplace, At
  <2>8. CASE RecordError(w)
    <3>1. sync'[w].pc = "report" /\ \A v \in Worker \ {w} : sync'[v] = sync[v]
      BY <2>0, <2>8, <1>4 DEF RecordError, At, Local
    <3> QED BY <2>8, <3>1, <1>1 DEF RecordError, PC
  <2>9. CASE ReadSources(w)
    <3> DEFINE L == [sync[w] EXCEPT !.pc = "prune", !.missing = {p \in Path : Prunable(p)}]
    <3>1. Become(w, L) /\ L.pc = "prune"
      BY <2>0, <2>9 DEF ReadSources, Local
    <3> HIDE DEF L
    <3>2. sync'[w] = L /\ \A v \in Worker \ {w} : sync'[v] = sync[v]
      BY <3>1, <1>4
    <3> QED BY <2>9, <3>1, <3>2, <1>3 DEF ReadSources, At
  <2>10. CASE PruneSource(w)
    <3>1. sync'[w].pc = "prune" /\ \A v \in Worker \ {w} : sync'[v] = sync[v]
      BY <2>0, <2>10, <1>4 DEF PruneSource, At, Local
    <3> QED BY <2>10, <3>1, <1>1 DEF PruneSource, PC
  <2>11. CASE Finish(w)
    BY <2>11, <1>0, <1>1, <1>4 DEF Finish, PC
  <2> QED BY <1>5, <2>1, <2>2, <2>3, <2>4, <2>5, <2>6, <2>7, <2>8, <2>9, <2>10, <2>11, <2>12 DEF Work
<1>6. ASSUME NEW w \in Worker, Stop(w) PROVE ConnHeldInUse'
  BY <1>6, <1>0, <1>4 DEF Stop, ConnHeldInUse
<1>7. ASSUME NEW p \in Path, Edit(p) PROVE ConnHeldInUse'
  BY <1>7 DEF Edit, ConnHeldInUse
<1>8. CASE UNCHANGED vars
  BY <1>8 DEF vars, ConnHeldInUse
<1> QED BY <1>5, <1>6, <1>7, <1>8 DEF Next

(* The connection is held exactly while it is in use: no Sync waits for a  *)
(* connection that it keeps itself.                                        *)
THEOREM ConnectionAccounted == Spec => []ConnHeldInUse
<1>1. Init => ConnHeldInUse
  BY IndexAssumption DEF Init, ConnHeldInUse, Idle
<1> QED BY <1>1, TypeInit, TypeStep, ConnStep, PTL DEF Spec

----------------------------------------------------------------------------
(* What a Sync knows of the files that change only between Syncs: what it  *)
(* scanned is what is there, and so is what it fingerprinted.              *)
Fresh(l) ==
  l.pc # "idle" =>
    /\ \A p \in Path \ late : l.scan[p] # Absent => l.scan[p] = file[p]
    /\ l.pc # "scan" => \A p \in l.todo : l.scan[p] # Absent
    /\ l.pc \in {"compare", "begin", "write"} =>
         l.scan[l.at] # Absent /\ (l.at \notin late => l.print = file[l.at])

SyncsFresh == \A w \in Worker : Fresh(sync[w])

(* Every step keeps that knowledge: a file written during a Sync is late.  *)
LEMMA FreshStep == TypeOK /\ SyncsFresh /\ [Next]_vars => SyncsFresh'
<1> SUFFICES ASSUME TypeOK, SyncsFresh, [Next]_vars PROVE SyncsFresh'
  OBVIOUS
<1> USE IndexAssumption
<1>0. Fresh(Idle)
  BY DEF Fresh, Idle
<1>1. ASSUME NEW w \in Worker, NEW L, Become(w, L), UNCHANGED <<file, late>>, Fresh(L)
      PROVE  SyncsFresh'
  BY <1>1 DEF Become, SyncsFresh, Fresh, TypeOK
<1>2. ASSUME NEW w \in Worker, Start(w) PROVE SyncsFresh'
  <2>1. Fresh([Idle EXCEPT !.pc = "scan"])
    BY IdleType DEF Fresh, Idle
  <2> QED BY <1>1, <1>2, <2>1 DEF Start, OutsideUnchanged
<1>3. ASSUME NEW w \in Worker, Work(w) PROVE SyncsFresh'
  <2>0. sync[w] \in Local /\ Fresh(sync[w])
    BY DEF TypeOK, SyncsFresh
  <2>1. CASE ScanFile(w)
    <3> DEFINE L(p) == [sync[w] EXCEPT
                          !.todo = @ \ {p},
                          !.scan[p] = Extract(file[p]),
                          !.report = @ \cup {q \in {p} : file[q] \in Blank}]
    <3>1. PICK p \in sync[w].todo : Become(w, L(p))
      BY <2>1 DEF ScanFile
    <3>2. L(p).pc = "scan" /\ \A q \in Path : L(p).scan[q] = IF q = p THEN Extract(file[p]) ELSE sync[w].scan[q]
      BY <2>0, <2>1 DEF ScanFile, At, Local
    <3>3. Fresh(L(p))
      <4> HIDE DEF L
      <4> QED BY <2>0, <2>1, <3>2 DEF ScanFile, At, Fresh, Extract
    <3> HIDE DEF L
    <3> QED BY <1>1, <2>1, <3>1, <3>3 DEF ScanFile, OutsideUnchanged
  <2>2. CASE GroupFiles(w)
    <3> DEFINE L == [sync[w] EXCEPT !.pc = "file",
                                    !.todo = {p \in Path : sync[w].scan[p] # Absent}]
    <3>1. Become(w, L) /\ L.pc = "file" /\ L.scan = sync[w].scan
             /\ L.todo = {p \in Path : sync[w].scan[p] # Absent}
      BY <2>0, <2>2 DEF GroupFiles, Local
    <3> HIDE DEF L
    <3>2. Fresh(L)
      BY <2>0, <2>2, <3>1 DEF GroupFiles, At, Fresh
    <3> QED BY <1>1, <2>2, <3>1, <3>2 DEF GroupFiles, OutsideUnchanged
  <2>3. CASE Fingerprint(w)
    <3>1. PICK p \in sync[w].todo :
       IF file[p] = Absent
       THEN Become(w, [Failing(w, p) EXCEPT !.todo = @ \ {p}])
       ELSE Become(w, [sync[w] EXCEPT !.pc = "compare", !.at = p, !.print = file[p]])
      BY <2>3 DEF Fingerprint
    <3> DEFINE L1 == [Failing(w, p) EXCEPT !.todo = @ \ {p}]
               L2 == [sync[w] EXCEPT !.pc = "compare", !.at = p, !.print = file[p]]
    <3>2. L1.pc = "file" /\ L1.scan = sync[w].scan /\ L1.todo = sync[w].todo \ {p}
      BY <2>0, <2>3 DEF Fingerprint, At, Failing, Local
    <3>3. L2.pc = "compare" /\ L2.scan = sync[w].scan /\ L2.at = p /\ L2.print = file[p]
      BY <2>0 DEF Local
    <3>4. Become(w, L1) \/ Become(w, L2)
      BY <3>1
    <3>6. sync[w].pc = "file"
      BY <2>3 DEF Fingerprint, At
    <3> HIDE DEF L1, L2
    <3>7. /\ \A q \in Path \ late : sync[w].scan[q] # Absent => sync[w].scan[q] = file[q]
          /\ \A q \in sync[w].todo : sync[w].scan[q] # Absent
      BY <2>0, <3>6 DEF Fresh
    <3>8. Fresh(L1)
      BY <3>2, <3>7 DEF Fresh
    <3>10. p \in Path /\ sync[w].scan[p] # Absent
      BY <2>0, <3>7 DEF Local
    <3>9. Fresh(L2)
      <4>1. /\ \A q \in Path \ late : L2.scan[q] # Absent => L2.scan[q] = file[q]
            /\ L2.scan[L2.at] # Absent /\ L2.print = file[L2.at]
        BY <3>3, <3>7, <3>10
      <4>2. L2.todo = sync[w].todo
        BY <2>0 DEF L2, Local
      <4>3. \A q \in L2.todo : L2.scan[q] # Absent
        BY <3>3, <3>7, <4>2
      <4> QED BY <4>1, <4>3 DEF Fresh
    <3>5. Fresh(L1) /\ Fresh(L2)
      BY <3>8, <3>9
    <3> QED BY <1>1, <2>3, <3>4, <3>5 DEF Fingerprint, OutsideUnchanged
  <2>4. CASE Compare(w) \/ CommitReplace(w) \/ RollbackReplace(w)
    <3> DEFINE L(local) == [local EXCEPT !.pc = "file", !.todo = @ \ {sync[w].at}]
               L1 == L(sync[w])
               L2 == L(Failing(w, sync[w].at))
               L3 == [sync[w] EXCEPT !.pc = "begin"]
    <3>1. Become(w, L1) \/ Become(w, L2) \/ (Compare(w) /\ Become(w, L3))
      BY <2>4 DEF Compare, CommitReplace, RollbackReplace, NextFile
    <3>2. L1.pc = "file" /\ L1.scan = sync[w].scan /\ L1.todo \subseteq sync[w].todo
      BY <2>0 DEF Local
    <3>3. L2.pc = "file" /\ L2.scan = sync[w].scan /\ L2.todo \subseteq sync[w].todo
      BY <2>0 DEF Local, Failing
    <3>4. L3.pc = "begin" /\ L3.scan = sync[w].scan /\ L3.todo = sync[w].todo
             /\ L3.at = sync[w].at /\ L3.print = sync[w].print
      BY <2>0 DEF Local
    <3> HIDE DEF L, L1, L2, L3
    <3>5. sync[w].pc \in {"compare", "write"} /\ (Compare(w) => sync[w].pc = "compare")
      BY <2>4 DEF Compare, CommitReplace, RollbackReplace, At
    <3>6. Fresh(L1) /\ Fresh(L2) /\ (Compare(w) => Fresh(L3))
      BY <2>0, <3>2, <3>3, <3>4, <3>5 DEF Fresh
    <3> QED
      BY <1>1, <2>4, <3>1, <3>6 DEF Compare, CommitReplace, RollbackReplace, OutsideUnchanged
  <2>5. CASE BeginReplace(w)
    <3> DEFINE L == [sync[w] EXCEPT !.pc = "write"]
    <3>1. Become(w, L) /\ L.pc = "write" /\ L.scan = sync[w].scan /\ L.todo = sync[w].todo
             /\ L.at = sync[w].at /\ L.print = sync[w].print
      BY <2>0, <2>5 DEF BeginReplace, Local
    <3> HIDE DEF L
    <3>2. Fresh(L)
      BY <2>0, <2>5, <3>1 DEF BeginReplace, At, Fresh
    <3> QED BY <1>1, <2>5, <3>1, <3>2 DEF BeginReplace, OutsideUnchanged
  <2>6. ASSUME NEW label \in {"report", "rows", "prune"}, NEW L,
               Become(w, L), L.pc = label, L.scan = sync[w].scan, L.todo = sync[w].todo,
               sync[w].pc \in {"file", "report", "rows", "prune"}, UNCHANGED <<file, late>>
        PROVE  SyncsFresh'
    <3>1. Fresh(L)
      BY <2>0, <2>6 DEF Fresh
    <3> QED BY <1>1, <2>6, <3>1
  <2>7. CASE FilesDone(w)
    <3> DEFINE L == [sync[w] EXCEPT !.pc = "report"]
    <3>1. Become(w, L) /\ L.pc = "report" /\ L.scan = sync[w].scan /\ L.todo = sync[w].todo
      BY <2>0, <2>7 DEF FilesDone, Local
    <3> HIDE DEF L
    <3> QED BY <2>6, <2>7, <3>1 DEF FilesDone, At, OutsideUnchanged
  <2>8. CASE RecordError(w)
    <3> DEFINE L(p) == [sync[w] EXCEPT !.report = @ \ {p}]
    <3>1. PICK p \in sync[w].report : Become(w, L(p))
      BY <2>8 DEF RecordError
    <3>2. L(p).pc = "report" /\ L(p).scan = sync[w].scan /\ L(p).todo = sync[w].todo
      BY <2>0, <2>8 DEF RecordError, At, Local
    <3> HIDE DEF L
    <3> QED BY <2>6, <2>8, <3>1, <3>2 DEF RecordError, At, OutsideUnchanged
  <2>9. CASE QuerySources(w)
    <3> DEFINE L == [sync[w] EXCEPT !.pc = "rows"]
    <3>1. Become(w, L) /\ L.pc = "rows" /\ L.scan = sync[w].scan /\ L.todo = sync[w].todo
      BY <2>0, <2>9 DEF QuerySources, Local
    <3> HIDE DEF L
    <3> QED BY <2>6, <2>9, <3>1 DEF QuerySources, At, OutsideUnchanged
  <2>10. CASE ReadSources(w)
    <3> DEFINE L == [sync[w] EXCEPT !.pc = "prune", !.missing = {p \in Path : Prunable(p)}]
    <3>0. Become(w, L)
      BY <2>10 DEF ReadSources
    <3>1. L.pc = "prune" /\ L.scan = sync[w].scan /\ L.todo = sync[w].todo
      BY <2>0 DEF Local
    <3>2. sync[w].pc = "rows" /\ UNCHANGED <<file, late>>
      BY <2>10 DEF ReadSources, At, OutsideUnchanged
    <3> HIDE DEF L
    <3> QED BY <2>6, <3>0, <3>1, <3>2
  <2>11. CASE PruneSource(w)
    <3> DEFINE L(p) == [sync[w] EXCEPT !.missing = @ \ {p}]
    <3>1. PICK p \in sync[w].missing : Become(w, L(p))
      BY <2>11 DEF PruneSource
    <3>2. L(p).pc = "prune" /\ L(p).scan = sync[w].scan /\ L(p).todo = sync[w].todo
      BY <2>0, <2>11 DEF PruneSource, At, Local
    <3> HIDE DEF L
    <3> QED BY <2>6, <2>11, <3>1, <3>2 DEF PruneSource, At, OutsideUnchanged
  <2>12. CASE Finish(w)
    BY <1>0, <1>1, <2>12 DEF Finish, OutsideUnchanged
  <2> QED BY <1>3, <2>1, <2>2, <2>3, <2>4, <2>5, <2>7, <2>8, <2>9, <2>10, <2>11, <2>12 DEF Work
<1>4. ASSUME NEW w \in Worker, Stop(w) PROVE SyncsFresh'
  BY <1>0, <1>1, <1>4 DEF Stop, OutsideUnchanged
<1>5. ASSUME NEW p \in Path, Edit(p) PROVE SyncsFresh'
  BY <1>5 DEF Edit, At, SyncsFresh, Fresh
<1>6. CASE UNCHANGED vars
  BY <1>6 DEF vars, SyncsFresh, Fresh
<1> QED BY <1>2, <1>3, <1>4, <1>5, <1>6 DEF Next

(* Every step keeps the stored fingerprints true: only a commit stores one,*)
(* together with what was scanned.                                         *)
LEMMA PrintStep == TypeOK /\ SyncsFresh /\ PrintIsOfStored /\ [Next]_vars => PrintIsOfStored'
<1> SUFFICES ASSUME TypeOK, SyncsFresh, PrintIsOfStored, [Next]_vars PROVE PrintIsOfStored'
  OBVIOUS
<1>0. late \subseteq late'
  BY DEF Next, vars, Start, Work, ScanFile, GroupFiles, Fingerprint, Compare, BeginReplace,
      CommitReplace, RollbackReplace, FilesDone, RecordError, QuerySources, ReadSources,
      PruneSource, Finish, Stop, Edit, OutsideUnchanged
<1>1. CASE UNCHANGED <<row, stored>>
  BY <1>0, <1>1 DEF PrintIsOfStored
<1>2. ASSUME NEW w \in Worker, CommitReplace(w) PROVE PrintIsOfStored'
  <2>0. sync[w] \in Local /\ sync[w].at \in Path
    BY DEF TypeOK, Local
  <2>1. sync[w].at \notin late => sync[w].scan[sync[w].at] = sync[w].print
    BY <1>2, <2>0 DEF SyncsFresh, Fresh, CommitReplace, At
  <2>2. Indexed(w).print = sync[w].print
    BY DEF Indexed
  <2> QED BY <1>0, <1>2, <2>0, <2>1, <2>2 DEF CommitReplace, PrintIsOfStored, TypeOK
<1>3. ASSUME NEW w \in Worker, RecordError(w) PROVE PrintIsOfStored'
  <2>1. \A p \in Path : ErrorRow(p).print = NoPrint
    BY DEF ErrorRow
  <2> QED BY <1>0, <1>3, <2>1 DEF RecordError, PrintIsOfStored, TypeOK
<1>4. ASSUME NEW w \in Worker, PruneSource(w) PROVE PrintIsOfStored'
  <2>1. NoRow.print = NoPrint
    BY DEF NoRow
  <2> QED BY <1>0, <1>4, <2>1 DEF PruneSource, PrintIsOfStored, TypeOK
<1> QED
  BY <1>1, <1>2, <1>3, <1>4
  DEF Next, vars, Start, Work, ScanFile, GroupFiles, Fingerprint, Compare, BeginReplace,
      RollbackReplace, FilesDone, QuerySources, ReadSources, Finish, Stop, Edit, DbUnchanged

(* The recorded fingerprint of a file that changes only between Syncs is   *)
(* the fingerprint of what is stored, whatever fails, crashes or overlaps. *)
THEOREM PrintsAreTrue == Spec => []PrintIsOfStored
<1>1. Init => SyncsFresh /\ PrintIsOfStored
  BY DEF Init, SyncsFresh, Fresh, Idle, PrintIsOfStored, NoRow
<1>2. TypeOK /\ SyncsFresh /\ [Next]_vars => SyncsFresh'
  BY FreshStep
<1> QED BY <1>1, <1>2, TypeInit, TypeStep, PrintStep, PTL DEF Spec
----------------------------------------------------------------------------
(* What a Sync carries was in the file at some time: what it scanned, and  *)
(* what it fingerprinted.                                                  *)
Taken(l) ==
  /\ \A p \in Path : l.scan[p] \in had[p] \cup {Absent}
  /\ l.pc \in {"compare", "begin", "write"} => l.print \in had[l.at]

AllTaken ==
  /\ \A p \in Path : file[p] \in had[p] \cup {Absent}
  /\ \A w \in Worker : Taken(sync[w])

(* Every step keeps that: only ScanFile and Fingerprint take anything, and *)
(* from the file as it is.                                                 *)
LEMMA TakenStep == TypeOK /\ AllTaken /\ [Next]_vars => AllTaken'
<1> SUFFICES ASSUME TypeOK, AllTaken, [Next]_vars PROVE AllTaken'
  OBVIOUS
<1>0. Taken(Idle) /\ Taken([Idle EXCEPT !.pc = "scan"])
  BY IdleType DEF Taken, Idle
<1>1. ASSUME NEW w \in Worker, NEW L, Become(w, L), UNCHANGED <<file, had>>, Taken(L)
      PROVE  AllTaken'
  BY <1>1 DEF Become, AllTaken, Taken, TypeOK
<1>2. ASSUME NEW w \in Worker, NEW L, Become(w, L), UNCHANGED <<file, had>>,
             L.scan = sync[w].scan,
             L.pc \in {"compare", "begin", "write"} =>
               L.print = sync[w].print /\ L.at = sync[w].at /\ sync[w].pc \in {"compare", "begin"}
      PROVE  AllTaken'
  <2>1. Taken(sync[w])
    BY DEF AllTaken
  <2>2. Taken(L)
    BY <1>2, <2>1 DEF Taken
  <2> QED
    BY <1>1, <1>2, <2>2
<1>3. ASSUME NEW w \in Worker, Start(w) \/ Finish(w) \/ Stop(w) PROVE AllTaken'
  BY <1>0, <1>1, <1>3 DEF Start, Finish, Stop, OutsideUnchanged
<1>4. ASSUME NEW w \in Worker, ScanFile(w) PROVE AllTaken'
  <2> DEFINE L(p) == [sync[w] EXCEPT
                        !.todo = @ \ {p},
                        !.scan[p] = Extract(file[p]),
                        !.report = @ \cup {q \in {p} : file[q] \in Blank}]
  <2>0. sync[w] \in Local /\ Taken(sync[w])
    BY DEF TypeOK, AllTaken
  <2>1. PICK p \in sync[w].todo : Become(w, L(p))
    BY <1>4 DEF ScanFile
  <2>2. L(p).pc = "scan" /\ \A q \in Path : L(p).scan[q] = IF q = p THEN Extract(file[p]) ELSE sync[w].scan[q]
    BY <1>4, <2>0 DEF ScanFile, At, Local
  <2>3. Extract(file[p]) \in had[p] \cup {Absent}
    BY <2>0, <2>1 DEF Extract, AllTaken, Local
  <2> HIDE DEF L
  <2>4. Taken(L(p))
    BY <2>0, <2>2, <2>3 DEF Taken
  <2> QED
    BY <1>1, <1>4, <2>1, <2>4 DEF ScanFile, OutsideUnchanged
<1>5. ASSUME NEW w \in Worker, Fingerprint(w) PROVE AllTaken'
  <2>0. sync[w] \in Local /\ Taken(sync[w]) /\ UNCHANGED <<file, had>>
    BY <1>5 DEF TypeOK, AllTaken, Fingerprint, OutsideUnchanged
  <2>1. PICK p \in sync[w].todo :
     IF file[p] = Absent
     THEN Become(w, [Failing(w, p) EXCEPT !.todo = @ \ {p}])
     ELSE Become(w, [sync[w] EXCEPT !.pc = "compare", !.at = p, !.print = file[p]])
    BY <1>5 DEF Fingerprint
  <2>2. CASE file[p] = Absent
    <3> DEFINE L == [Failing(w, p) EXCEPT !.todo = @ \ {p}]
    <3>1. Become(w, L) /\ L.scan = sync[w].scan /\ L.pc = "file"
      BY <1>5, <2>0, <2>1, <2>2 DEF Fingerprint, At, Failing, Local
    <3> HIDE DEF L
    <3> QED
      BY <1>2, <2>0, <3>1
  <2>3. CASE file[p] # Absent
    <3> DEFINE L == [sync[w] EXCEPT !.pc = "compare", !.at = p, !.print = file[p]]
    <3>1. Become(w, L) /\ L.scan = sync[w].scan /\ L.at = p /\ L.print = file[p]
      BY <2>0, <2>1, <2>3 DEF Local
    <3>2. file[p] \in had[p]
      BY <2>0, <2>3 DEF AllTaken, Local
    <3> HIDE DEF L
    <3>3. Taken(L)
      BY <2>0, <3>1, <3>2 DEF Taken
    <3> QED
      BY <1>1, <2>0, <3>1, <3>3
  <2> QED
    BY <2>2, <2>3
<1>6. ASSUME NEW w \in Worker,
             \/ GroupFiles(w) \/ Compare(w) \/ BeginReplace(w) \/ CommitReplace(w)
             \/ RollbackReplace(w) \/ FilesDone(w) \/ RecordError(w) \/ QuerySources(w)
             \/ ReadSources(w) \/ PruneSource(w)
      PROVE  AllTaken'
  <2>0. sync[w] \in Local
    BY DEF TypeOK
  <2>1. UNCHANGED <<file, had>>
    BY <1>6 DEF GroupFiles, Compare, BeginReplace, CommitReplace, RollbackReplace, FilesDone,
                RecordError, QuerySources, ReadSources, PruneSource, OutsideUnchanged
  <2>2. CASE GroupFiles(w)
    <3> DEFINE L == [sync[w] EXCEPT !.pc = "file", !.todo = {p \in Path : sync[w].scan[p] # Absent}]
    <3>1. Become(w, L) /\ L.scan = sync[w].scan /\ L.pc = "file"
      BY <2>0, <2>2 DEF GroupFiles, Local
    <3> HIDE DEF L
    <3> QED
      BY <1>2, <2>1, <3>1
  <2>3. CASE Compare(w) \/ CommitReplace(w) \/ RollbackReplace(w)
    <3> DEFINE L(local) == [local EXCEPT !.pc = "file", !.todo = @ \ {sync[w].at}]
               L1 == L(sync[w])
               L2 == L(Failing(w, sync[w].at))
               L3 == [sync[w] EXCEPT !.pc = "begin"]
    <3>1. Become(w, L1) \/ Become(w, L2) \/ (sync[w].pc = "compare" /\ Become(w, L3))
      BY <2>3 DEF Compare, CommitReplace, RollbackReplace, NextFile, At
    <3>2. /\ L1.pc = "file" /\ L1.scan = sync[w].scan
          /\ L2.pc = "file" /\ L2.scan = sync[w].scan
          /\ L3.scan = sync[w].scan /\ L3.at = sync[w].at /\ L3.print = sync[w].print
      BY <2>0 DEF Local, Failing
    <3> HIDE DEF L, L1, L2, L3
    <3> QED
      BY <1>2, <2>1, <3>1, <3>2
  <2>4. CASE BeginReplace(w)
    <3> DEFINE L == [sync[w] EXCEPT !.pc = "write"]
    <3>1. /\ Become(w, L) /\ L.scan = sync[w].scan /\ L.at = sync[w].at
          /\ L.print = sync[w].print /\ sync[w].pc = "begin"
      BY <2>0, <2>4 DEF BeginReplace, At, Local
    <3> HIDE DEF L
    <3> QED
      BY <1>2, <2>1, <3>1
  <2>5. ASSUME NEW label \in {"report", "rows"}, Become(w, [sync[w] EXCEPT !.pc = label])
        PROVE  AllTaken'
    <3> DEFINE L == [sync[w] EXCEPT !.pc = label]
    <3>1. Become(w, L) /\ L.scan = sync[w].scan /\ L.pc = label
      BY <2>0, <2>5 DEF Local
    <3> HIDE DEF L
    <3> QED
      BY <1>2, <2>1, <2>5, <3>1
  <2>6. CASE FilesDone(w) \/ QuerySources(w)
    BY <2>5, <2>6 DEF FilesDone, QuerySources
  <2>7. CASE ReadSources(w)
    <3> DEFINE L == [sync[w] EXCEPT !.pc = "prune", !.missing = {p \in Path : Prunable(p)}]
    <3>1. Become(w, L) /\ L.scan = sync[w].scan /\ L.pc = "prune"
      BY <2>0, <2>7 DEF ReadSources, Local
    <3> HIDE DEF L
    <3> QED
      BY <1>2, <2>1, <3>1
  <2>8. CASE RecordError(w)
    <3> DEFINE L(p) == [sync[w] EXCEPT !.report = @ \ {p}]
    <3>1. PICK p \in sync[w].report : Become(w, L(p))
      BY <2>8 DEF RecordError
    <3>2. L(p).scan = sync[w].scan /\ L(p).pc = "report"
      BY <2>0, <2>8 DEF RecordError, At, Local
    <3> HIDE DEF L
    <3> QED
      BY <1>2, <2>1, <3>1, <3>2
  <2>9. CASE PruneSource(w)
    <3> DEFINE L(p) == [sync[w] EXCEPT !.missing = @ \ {p}]
    <3>1. PICK p \in sync[w].missing : Become(w, L(p))
      BY <2>9 DEF PruneSource
    <3>2. L(p).scan = sync[w].scan /\ L(p).pc = "prune"
      BY <2>0, <2>9 DEF PruneSource, At, Local
    <3> HIDE DEF L
    <3> QED
      BY <1>2, <2>1, <3>1, <3>2
  <2> QED
    BY <1>6, <2>2, <2>3, <2>4, <2>6, <2>7, <2>8, <2>9
<1>7. ASSUME NEW p \in Path, Edit(p) PROVE AllTaken'
  BY <1>7 DEF Edit, AllTaken, Taken, TypeOK
<1>8. CASE UNCHANGED vars
  BY <1>8 DEF vars, AllTaken, Taken
<1> QED
  BY <1>3, <1>4, <1>5, <1>6, <1>7, <1>8 DEF Next, Work

(* Every step is one the catalog allows: only a commit, an error status, a *)
(* prune and an edit are seen at all.                                      *)
LEMMA CatalogStep ==
  TypeOK /\ SyncsFresh /\ AllTaken /\ [Next]_vars =>
    [Catalog!Next]_<<had, row, stored>>
<1> SUFFICES ASSUME TypeOK, SyncsFresh, AllTaken, [Next]_vars
             PROVE  Catalog!Next \/ UNCHANGED <<had, row, stored>>
  OBVIOUS
<1>1. ASSUME NEW w \in Worker, CommitReplace(w) PROVE Catalog!Next
  <2>1. /\ sync[w].at \in Path
        /\ sync[w].scan[sync[w].at] \in had[sync[w].at]
        /\ sync[w].print \in had[sync[w].at]
    BY <1>1 DEF CommitReplace, At, TypeOK, Local, SyncsFresh, Fresh, AllTaken, Taken
  <2>2. Catalog!Replace(sync[w].at)
    BY <1>1, <2>1 DEF CommitReplace, Indexed, OutsideUnchanged, Catalog!Replace
  <2> QED
    BY <2>1, <2>2 DEF Catalog!Next
<1>2. ASSUME NEW w \in Worker, RecordError(w) PROVE Catalog!Next \/ UNCHANGED <<had, row, stored>>
  <2>1. PICK p \in sync[w].report :
          row' = [row EXCEPT ![p] = ErrorRow(p)] \/ UNCHANGED row
    BY <1>2 DEF RecordError
  <2>2. p \in Path /\ UNCHANGED <<had, stored>>
    BY <1>2 DEF RecordError, OutsideUnchanged, TypeOK, Local
  <2>3. row' = [row EXCEPT ![p] = ErrorRow(p)] => Catalog!Fail(p)
    BY <2>2 DEF ErrorRow, Catalog!Fail
  <2> QED
    BY <2>1, <2>2, <2>3 DEF Catalog!Next
<1>3. ASSUME NEW w \in Worker, PruneSource(w) PROVE Catalog!Next
  <2>1. PICK p \in sync[w].missing :
          row' = [row EXCEPT ![p] = NoRow] /\ stored' = [stored EXCEPT ![p] = Absent]
    BY <1>3 DEF PruneSource
  <2>2. p \in Path /\ UNCHANGED had
    BY <1>3 DEF PruneSource, OutsideUnchanged, TypeOK, Local
  <2> QED
    BY <2>1, <2>2 DEF Catalog!Next, Catalog!Remove
<1>4. ASSUME NEW p \in Path, Edit(p) PROVE Catalog!Next \/ UNCHANGED <<had, row, stored>>
  <2>1. PICK content \in Content \cup {Absent} :
          had' = [had EXCEPT ![p] = @ \cup ({content} \ {Absent})]
    BY <1>4 DEF Edit
  <2>2. UNCHANGED <<row, stored>>
    BY <1>4 DEF Edit
  <2>3. content = Absent => UNCHANGED had
    BY <2>1 DEF TypeOK
  <2>4. content # Absent => Catalog!Write(p)
    <3> SUFFICES ASSUME content # Absent PROVE Catalog!Write(p)
      OBVIOUS
    <3>1. {content} \ {Absent} = {content}
      OBVIOUS
    <3>2. content \in Content /\ had' = [had EXCEPT ![p] = @ \cup {content}]
      BY <2>1, <3>1
    <3> QED
      BY <2>2, <3>2 DEF Catalog!Write
  <2> QED
    BY <2>2, <2>3, <2>4 DEF Catalog!Next
<1> QED
  BY <1>1, <1>2, <1>3, <1>4
  DEF Next, vars, Start, Work, ScanFile, GroupFiles, Fingerprint, Compare, BeginReplace,
      RollbackReplace, FilesDone, QuerySources, ReadSources, Finish, Stop, DbUnchanged,
      OutsideUnchanged

(* The index implements the catalog, for any number of files, contents and *)
(* Syncs at once, through database errors, cancellations and crashes.      *)
THEOREM IndexIsCatalog == Spec => KeepsCatalog
<1>1. Init => SyncsFresh /\ AllTaken
  BY DEF Init, SyncsFresh, Fresh, AllTaken, Taken, Idle
<1>2. Init => Catalog!Init
  BY IndexAssumption DEF Init, Catalog!Init
<1> QED
  BY <1>1, <1>2, TypeInit, TypeStep, FreshStep, TakenStep, CatalogStep, PTL
  DEF Spec, KeepsCatalog, Catalog!Spec
=============================================================================
