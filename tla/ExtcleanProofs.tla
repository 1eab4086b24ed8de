--------------------------- MODULE ExtcleanProofs ---------------------------
(***************************************************************************)
(* Invariance proofs for Extclean, for any files, tools, entries and       *)
(* changes made by others: no file is ever partial, and a registration     *)
(* that is in order all through a run survives it, in every file whose     *)
(* entries are not identified by a name that two of them may share. If no  *)
(* file has such entries, the exit status of a run that nobody interfered  *)
(* with tells what it removed.                                             *)
(***************************************************************************)
EXTENDS Extclean, SequenceTheorems, FiniteSetTheorems, TLAPS

(* The applications keep their files in shape; so are the copies extclean  *)
(* judges and is about to write.                                           *)
Shaped ==
  /\ \A f \in File : WellFormed(f, file[f])
  /\ At("judge") => WellFormed(Scanned, run.buf)
  /\ run.at # Nothing => WellFormed(run.at.file, run.buf)

(* What is renamed is what was written.                                    *)
Written == At("rename") => tmp[run.at.file] = run.buf

(* Nothing is held against an expected entry: not by a finding, nor by     *)
(* what was read for judgement, and what replaces the file has it.         *)
Innocent(f, e) ==
  /\ e \in Range(file[f])
  /\ ~Stale(f, e)
  /\ \A x \in run.found : x.file = f => x.id # e.id
  /\ At("judge") /\ Scanned = f =>
       e \in Range(run.buf) \/ \A d \in Range(run.buf) : d.id # e.id
  /\ InWindow(f) => e \in Range(run.buf)

Guarded == \A f \in File : Kind[f] # "name" => \A e \in expected[f] : Innocent(f, e)

IInv == TypeOK /\ Shaped /\ Written /\ Guarded

----------------------------------------------------------------------------
(* Sequences of entries *)

LessThan == {p \in Nat \X Nat : p[1] < p[2]}

(* A set of positions has a first one.                                     *)
LEMMA Least ==
  ASSUME NEW S, S \subseteq Nat, S # {}
  PROVE  \E x \in S : \A y \in S : x <= y
<1>1. IsWellFoundedOn(LessThan, Nat)
  <2>1. LessThan = OpToRel(<, Nat)
    BY DEF LessThan, OpToRel
  <2> QED
    BY <2>1, NatLessThanWellFounded
<1>2. PICK x \in S : \A y \in S : ~(<<y, x>> \in LessThan)
  BY <1>1, WFMin
<1>3. ASSUME NEW y \in S PROVE x <= y
  <2>1. x \in Nat /\ y \in Nat /\ ~(<<y, x>> \in LessThan)
    BY <1>2
  <2> QED
    BY <2>1 DEF LessThan
<1> QED
  BY <1>3

(* The elements of a sequence without one of its positions.                *)
LEMMA Removed ==
  ASSUME NEW content \in Seq(Entry), NEW i \in DOMAIN content
  PROVE  LET rest == RemoveAt(content, i)
             old(k) == IF k < i THEN k ELSE k + 1
         IN /\ rest \in Seq(Entry) /\ Len(rest) = Len(content) - 1
            /\ \A k \in DOMAIN rest : old(k) \in DOMAIN content /\ rest[k] = content[old(k)]
            /\ \A j \in DOMAIN content \ {i} : \E k \in DOMAIN rest : rest[k] = content[j]
<1> DEFINE head == SubSeq(content, 1, i - 1)
           tail == SubSeq(content, i + 1, Len(content))
           rest == RemoveAt(content, i)
           old(k) == IF k < i THEN k ELSE k + 1
<1>1. i \in 1..Len(content) /\ Len(content) \in Nat /\ DOMAIN content = 1..Len(content)
  OBVIOUS
<1>2. /\ head \in Seq(Entry) /\ Len(head) = i - 1
      /\ \A k \in 1..(i - 1) : head[k] = content[k]
  BY <1>1
<1>3. /\ tail \in Seq(Entry) /\ Len(tail) = Len(content) - i
      /\ \A k \in 1..(Len(content) - i) : tail[k] = content[i + k]
  BY <1>1
<1>4. rest = head \o tail
  BY DEF RemoveAt
<1> HIDE DEF head, tail, rest
<1>5. /\ rest \in Seq(Entry) /\ Len(rest) = Len(content) - 1 /\ DOMAIN rest = 1..(Len(content) - 1)
      /\ \A k \in 1..(i - 1) : rest[k] = head[k]
      /\ \A k \in i..(Len(content) - 1) : rest[k] = tail[k - (i - 1)]
  <2>1. /\ head \o tail \in Seq(Entry)
        /\ Len(head \o tail) = Len(head) + Len(tail)
        /\ \A k \in 1..(Len(head) + Len(tail)) :
             (head \o tail)[k] = IF k <= Len(head) THEN head[k] ELSE tail[k - Len(head)]
    BY <1>2, <1>3, ConcatProperties
  <2>2. Len(head) = i - 1 /\ Len(tail) = Len(content) - i /\ Len(head) + Len(tail) = Len(content) - 1
    BY <1>1, <1>2, <1>3
  <2>3. rest \in Seq(Entry) /\ Len(rest) = Len(content) - 1
    BY <1>4, <2>1, <2>2
  <2>4. DOMAIN rest = 1..(Len(content) - 1)
    BY <2>3
  <2>5. \A k \in 1..(Len(content) - 1) : rest[k] = IF k <= i - 1 THEN head[k] ELSE tail[k - (i - 1)]
    BY <1>4, <2>1, <2>2
  <2> QED
    BY <1>1, <2>3, <2>4, <2>5
<1>6. ASSUME NEW k \in DOMAIN rest
      PROVE  old(k) \in DOMAIN content /\ rest[k] = content[old(k)]
  <2>1. CASE k < i
    <3>1. k \in 1..(i - 1) /\ k \in DOMAIN content
      BY <1>1, <1>5, <1>6, <2>1
    <3>2. rest[k] = content[k]
      BY <1>2, <1>5, <3>1
    <3> QED
      BY <2>1, <3>1, <3>2
  <2>2. CASE i <= k
    <3>1. k - (i - 1) \in 1..(Len(content) - i) /\ i + (k - (i - 1)) = k + 1
      BY <1>1, <1>5, <1>6, <2>2
    <3>2. tail[k - (i - 1)] = content[k + 1]
      BY <1>3, <3>1
    <3> QED
      BY <1>1, <1>5, <1>6, <2>2, <3>2
  <2> QED
    BY <1>1, <1>5, <2>1, <2>2
<1>7. ASSUME NEW j \in DOMAIN content \ {i}
      PROVE  \E k \in DOMAIN rest : rest[k] = content[j]
  <2>1. PICK k \in DOMAIN rest : old(k) = j
    <3>1. CASE j < i
      <4>1. j \in DOMAIN rest /\ old(j) = j
        BY <1>1, <1>5, <1>7, <3>1
      <4> QED
        BY <4>1
    <3>2. CASE i < j
      <4>1. j - 1 \in DOMAIN rest /\ old(j - 1) = j
        BY <1>1, <1>5, <1>7, <3>2
      <4> QED
        BY <4>1
    <3> QED
      BY <1>1, <1>7, <3>1, <3>2
  <2> QED
    BY <1>6, <2>1
<1> QED
  BY <1>5, <1>6, <1>7 DEF rest

(* Without takes one entry with the given identity away.                   *)
LEMMA WithoutKeeps ==
  ASSUME NEW content \in Seq(Entry), NEW id, Matches(content, id) # {}
  PROVE  /\ Without(content, id) \in Seq(Entry)
         /\ \A f : WellFormed(f, content) => WellFormed(f, Without(content, id))
         /\ \A e \in Range(content) : e.id # id => e \in Range(Without(content, id))
<1> DEFINE M == Matches(content, id)
           i == CHOOSE n \in M : \A m \in M : n <= m
           rest == RemoveAt(content, i)
           old(k) == IF k < i THEN k ELSE k + 1
<1>1. M \subseteq DOMAIN content /\ DOMAIN content \subseteq Nat
  BY DEF Matches
<1>2. i \in M
  <2>1. \E n \in M : \A m \in M : n <= m
    BY <1>1, Least
  <2> HIDE DEF M
  <2> QED
    BY <2>1
<1>3. i \in DOMAIN content /\ content[i].id = id
  BY <1>1, <1>2 DEF Matches
<1>4. Without(content, id) = rest
  BY DEF Without
<1> HIDE DEF M, i
<1>5. /\ rest \in Seq(Entry)
      /\ \A k \in DOMAIN rest : old(k) \in DOMAIN content /\ rest[k] = content[old(k)]
      /\ \A j \in DOMAIN content \ {i} : \E k \in DOMAIN rest : rest[k] = content[j]
  BY <1>3, Removed
<1>6. ASSUME NEW f, WellFormed(f, content)
      PROVE  WellFormed(f, rest)
  <2>1. DOMAIN rest \subseteq Nat /\ i \in Nat
    BY <1>1, <1>3, <1>5
  <2>2. \A j, k \in DOMAIN rest : j # k => old(j) # old(k)
    BY <2>1
  <2> HIDE DEF rest, old
  <2> QED
    BY <1>5, <1>6, <2>2 DEF WellFormed
<1>7. ASSUME NEW e \in Range(content), e.id # id
      PROVE  e \in Range(rest)
  <2>1. PICK j \in DOMAIN content : e = content[j]
    BY DEF Range
  <2>2. j # i
    BY <1>3, <1>7, <2>1
  <2> HIDE DEF rest
  <2> QED
    BY <1>5, <2>1, <2>2 DEF Range
<1> HIDE DEF rest
<1> QED
  BY <1>4, <1>5, <1>6, <1>7

(* Whatever others write is a sequence of entries.                         *)
LEMMA EditedType ==
  ASSUME NEW f \in File, file[f] \in Seq(Entry), NEW content \in Edited(f)
  PROVE  content \in Seq(Entry)
<1>1. CASE content \in {Append(file[f], e) : e \in Entry}
  <2>1. PICK e \in Entry : content = Append(file[f], e)
    BY <1>1
  <2> QED
    BY <2>1, AppendProperties
<1>2. CASE content \in {RemoveAt(file[f], i) : i \in DOMAIN file[f]}
  BY <1>2, Removed
<1>3. CASE content \in {ReplaceAt(file[f], i, e) : i \in DOMAIN file[f], e \in Entry}
  <2>1. PICK i \in DOMAIN file[f], e \in Entry : content = [file[f] EXCEPT ![i] = e]
    BY <1>3 DEF ReplaceAt
  <2> QED
    BY <2>1
<1> QED
  BY <1>1, <1>2, <1>3 DEF Edited

(* A finding is about an entry of the file that was read ...               *)
LEMMA FlaggedType ==
  ASSUME NEW f \in File, NEW content \in Seq(Entry)
  PROVE  /\ Flagged(f, content) \subseteq Finding
         /\ \A x \in Flagged(f, content) : x.file = f /\ \E d \in Range(content) : x.id = d.id
<1>1. ASSUME NEW i \in DOMAIN content
      PROVE  content[i].id \in Name /\ i \in Nat /\ content[i] \in Range(content)
  <2>1. content[i] \in Entry /\ i \in Nat
    BY <1>1
  <2> QED
    BY <1>1, <2>1 DEF Entry, Range
<1> QED
  BY <1>1 DEF Flagged, FindingsAt, Registrations, Finding

(* So is one that the scan is wrong about.                                 *)
LEMMA WrongfulType ==
  ASSUME NEW f \in File, NEW content \in Seq(Entry), NEW wrong \in SUBSET Wrongful(f, content)
  PROVE  /\ wrong \subseteq Finding
         /\ \A x \in wrong : x.file = f /\ x \notin Flagged(f, content)
<1>1. ASSUME NEW i \in DOMAIN content
      PROVE  content[i].id \in Name /\ i \in Nat
  <2>1. content[i] \in Entry /\ i \in Nat
    BY <1>1
  <2> QED
    BY <1>1, <2>1 DEF Entry
<1> QED
  BY <1>1 DEF Wrongful, Flagged, FindingsAt, Registrations, Finding

(* ... and never has the identity of one that is in order, unless two      *)
(* entries may share a name.                                               *)
LEMMA NotFlagged ==
  ASSUME NEW f \in File, NEW content \in Seq(Entry),
         Kind[f] \in {"value", "key", "table"}, exists \subseteq Name,
         WellFormed(f, content), Parses(f, content),
         NEW e \in Range(content), ~Stale(f, e)
  PROVE  \A x \in Flagged(f, content) : x.id # e.id
<1> SUFFICES ASSUME NEW i \in Registrations(f, content), Stale(f, content[i]), content[i].id = e.id
             PROVE  FALSE
  BY DEF Flagged, FindingsAt
<1>1. PICK j \in DOMAIN content : e = content[j]
  BY DEF Range
<1>2. i \in DOMAIN content /\ i # j /\ content[i].target # content[j].target
  BY <1>1 DEF Registrations, Stale
<1>3. content[j].form # "subtable"
  <2>1. e.target \in Name /\ Nothing \notin Name
    BY ExtcleanAssumption DEF Stale
  <2>2. content[j].form = "subtable" <=> content[j].target = Nothing
    BY <1>1 DEF WellFormed
  <2> QED
    BY <1>1, <2>1, <2>2
<1>4. CASE Kind[f] = "value"
  BY <1>1, <1>2, <1>4 DEF WellFormed
<1>5. CASE Kind[f] = "key"
  BY <1>1, <1>2, <1>5 DEF WellFormed
<1>6. CASE Kind[f] = "table"
  <2>1. content[i].form = "subtable"
    BY <1>1, <1>2, <1>3, <1>6 DEF Parses
  <2>2. e = content[i]
    BY <1>1, <2>1 DEF Registrations
  <2> QED
    BY <1>1, <1>2, <2>2
<1> QED
  BY <1>4, <1>5, <1>6

----------------------------------------------------------------------------
(* Steps *)

LEMMA InitHolds == Init => IInv
<1> SUFFICES ASSUME Init PROVE IInv
  OBVIOUS
<1>1. file \in [File -> Seq(Entry)] /\ \A f \in File : WellFormed(f, file[f])
  BY ExtcleanAssumption DEF Init
<1>2. TypeOK
  <2>1. Len(ScanOrder) \in Nat /\ MaxEdits \in Nat /\ MaxFaults \in Nat /\ MaxRuns \in Nat
    BY ExtcleanAssumption
  <2> QED
    BY <1>1, <2>1 DEF Init, TypeOK, Idle, Stage, At
<1>3. Shaped /\ Written /\ Guarded
  BY <1>1 DEF Init, Idle, At, Shaped, Written, Guarded
<1> QED
  BY <1>2, <1>3 DEF IInv

(* A step of extclean that finds nothing new, reads nothing to judge and   *)
(* replaces no file.                                                       *)
LEMMA NothingNew ==
  ASSUME Guarded, UNCHANGED <<file, exists, installed, expected>>,
         run'.found \subseteq run.found, run'.pc # "judge",
         run'.at = Nothing \/ (run'.at = run.at /\ run'.buf = run.buf)
  PROVE  Guarded'
<1> SUFFICES ASSUME NEW f \in File, Kind[f] # "name", NEW e \in expected[f]
             PROVE  Innocent(f, e)'
  BY DEF Guarded
<1>1. Innocent(f, e)
  BY DEF Guarded
<1> QED
  BY <1>1 DEF Innocent, InWindow, At, Stale

LEMMA Bounds ==
  /\ Len(ScanOrder) \in Nat /\ Scanning => Scanned \in File
  /\ MaxEdits \in Nat /\ MaxFaults \in Nat /\ MaxRuns \in Nat
<1>1. ScanOrder \in Seq(File)
  BY ExtcleanAssumption
<1>2. ASSUME Scanning PROVE Scanned \in File
  <2>1. \A i \in 1..Len(ScanOrder) : ScanOrder[i] \in File
    BY <1>1
  <2> QED
    BY <1>2, <2>1 DEF Scanning, Scanned
<1> QED
  BY <1>1, <1>2, ExtcleanAssumption

(* The parts of TypeOK that a step of extclean alone changes.              *)
Running(r) ==
  /\ r \in [pc : Stage, scan : 1..(Len(ScanOrder) + 1), buf : Seq(Entry), found : SUBSET Finding,
            at : Finding \cup {Nothing}, failed : Nat, error : BOOLEAN]
  /\ r.pc = "judge" => r.scan \in 1..Len(ScanOrder)
  /\ r.pc \in {"create", "write", "rename"} <=> r.at # Nothing

Typing ==
  /\ file \in [File -> Seq(Entry)]
  /\ tmp \in [File -> Seq(Entry) \cup {Partial, NoFile}]
  /\ exists \subseteq Name /\ installed \subseteq {ToolOf[f] : f \in File}
  /\ Running(run)
  /\ exit \in {0, 1} /\ calm \in BOOLEAN
  /\ expected \in [File -> SUBSET Entry]
  /\ overlooked \subseteq File /\ misjudged \subseteq Finding
  /\ edits \in 0..MaxEdits /\ faults \in 0..MaxFaults /\ runs \in 0..MaxRuns

LEMMA Typed == (TypeOK <=> Typing) /\ (TypeOK' <=> Typing')
BY DEF TypeOK, Typing, Running, At, Scanning

LEMMA BeginStep == IInv /\ Begin => IInv'
<1> SUFFICES ASSUME IInv, Begin PROVE IInv'
  OBVIOUS
<1>1. /\ run' = [Idle EXCEPT !.pc = "scan"]
      /\ UNCHANGED <<file, tmp, exists, installed, exit, edits, faults>>
      /\ runs < MaxRuns /\ runs' = runs + 1 /\ calm' = TRUE
      /\ overlooked' = {} /\ misjudged' = {}
      /\ expected' = [f \in File |-> Healthy(f, file[f])]
  BY DEF Begin
<1>2. /\ run'.pc = "scan" /\ run'.scan = 1 /\ run'.buf = <<>> /\ run'.found = {}
      /\ run'.at = Nothing /\ run'.failed = 0 /\ run'.error = FALSE
      /\ run' = [pc |-> "scan", scan |-> 1, buf |-> <<>>, found |-> {},
                 at |-> Nothing, failed |-> 0, error |-> FALSE]
  BY <1>1 DEF Idle
<1>3. \A f \in File : Healthy(f, file[f]) \in SUBSET Entry
  BY DEF IInv, TypeOK, Healthy, Range
<1>4. TypeOK'
  <2>1. Running(run')
    BY <1>2, Bounds DEF Running, Stage
  <2>2. runs' \in 0..MaxRuns
    BY <1>1, Bounds DEF IInv, TypeOK
  <2>3. expected' \in [File -> SUBSET Entry]
    BY <1>1, <1>3
  <2> QED
    BY <1>1, <2>1, <2>2, <2>3, Typed DEF IInv, Typing
<1>5. Shaped' /\ Written'
  BY <1>1, <1>2 DEF IInv, Shaped, Written, At
<1>6. Guarded'
  BY <1>1, <1>2 DEF Guarded, Innocent, Healthy, Stale, At, InWindow
<1> QED
  BY <1>4, <1>5, <1>6 DEF IInv

LEMMA ReadStep == IInv /\ ReadScanned => IInv'
<1> SUFFICES ASSUME IInv, ReadScanned PROVE IInv'
  OBVIOUS
<1> DEFINE f == Scanned
<1>1. /\ run.pc = "scan" /\ Scanning /\ run.at = Nothing
      /\ run' = [run EXCEPT !.pc = "judge", !.buf = file[f]]
      /\ UNCHANGED <<file, tmp, exists, installed, exit, ghosts, edits, runs, faults>>
  BY DEF ReadScanned, OnlyRun, At, IInv, TypeOK
<1>2. f \in File /\ file[f] \in Seq(Entry) /\ WellFormed(f, file[f])
  BY <1>1, Bounds DEF IInv, TypeOK, Shaped
<1>3. /\ run'.pc = "judge" /\ run'.scan = run.scan /\ run'.buf = file[f] /\ run'.found = run.found
      /\ run'.at = Nothing /\ Scanned' = f
  BY <1>1 DEF IInv, TypeOK, Scanned
<1> HIDE DEF f
<1>4. TypeOK'
  <2>1. Running(run')
    BY <1>1, <1>2, <1>3, Typed DEF IInv, Typing, Running, Stage, Scanning
  <2> QED
    BY <1>1, <2>1, Typed DEF IInv, Typing, ghosts
<1>5. Shaped' /\ Written'
  BY <1>1, <1>2, <1>3 DEF IInv, Shaped, Written, At, ghosts
<1>6. Guarded'
  <2> SUFFICES ASSUME NEW g \in File, Kind[g] # "name", NEW e \in expected[g]
               PROVE  Innocent(g, e)'
    BY <1>1 DEF Guarded, ghosts
  <2>1. Innocent(g, e)
    BY DEF IInv, Guarded
  <2> QED
    BY <1>1, <1>3, <2>1 DEF Innocent, InWindow, At, Stale, ghosts
<1> QED
  BY <1>4, <1>5, <1>6 DEF IInv

LEMMA Faulty == IInv /\ FaultCounted => faults' \in 0..MaxFaults
BY Bounds DEF IInv, TypeOK, FaultCounted

(* A file is judged; no entry that is still expected is wrongly found.     *)
LEMMA Judged ==
  ASSUME IInv, At("judge"), Parses(Scanned, run.buf),
         UNCHANGED <<file, tmp, exists, installed, exit, calm, overlooked, edits, runs>>,
         faults' \in 0..MaxFaults,
         NEW wrong \in SUBSET Wrongful(Scanned, run.buf),
         Found(Flagged(Scanned, run.buf) \cup wrong), misjudged' = misjudged \cup wrong,
         expected' = [expected EXCEPT ![Scanned] = {e \in @ : \A x \in wrong : e.id # x.id}]
  PROVE  IInv'
<1> DEFINE f == Scanned
           right == Flagged(f, run.buf)
           new == right \cup wrong
<1>1. /\ run.pc = "judge" /\ Scanning /\ run.at = Nothing /\ Parses(f, run.buf)
      /\ run' = [run EXCEPT !.pc = "scan", !.scan = @ + 1, !.buf = <<>>, !.found = @ \cup new]
  BY DEF Found, At, IInv, TypeOK
<1>2. f \in File /\ run.buf \in Seq(Entry) /\ WellFormed(f, run.buf)
  BY <1>1, Bounds DEF IInv, TypeOK, Shaped, At
<1>3. /\ run'.pc = "scan" /\ run'.scan = run.scan + 1 /\ run'.buf = <<>>
      /\ run'.found = run.found \cup new /\ run'.at = Nothing
  BY <1>1 DEF IInv, TypeOK
<1>4. /\ right \subseteq Finding /\ \A x \in right : x.file = f /\ \E d \in Range(run.buf) : x.id = d.id
      /\ wrong \subseteq Finding /\ \A x \in wrong : x.file = f
  BY <1>2, FlaggedType, WrongfulType
<1>4a. /\ \A g \in File : expected'[g] \subseteq expected[g]
       /\ \A e \in expected'[f], x \in wrong : e.id # x.id
       /\ expected' \in [File -> SUBSET Entry]
  <2>1. expected \in [File -> SUBSET Entry]
    BY DEF IInv, TypeOK
  <2> QED
    BY <1>2, <2>1
<1>5. ASSUME NEW e \in Range(run.buf), Kind[f] # "name", ~Stale(f, e)
      PROVE  \A x \in right : x.id # e.id
  <2>1. Kind[f] \in {"value", "key", "table"} /\ exists \subseteq Name
    <3>1. Kind[f] \in {"value", "key", "name", "table"}
      BY <1>2, ExtcleanAssumption
    <3>2. exists \subseteq Name
      BY DEF IInv, TypeOK
    <3> QED
      BY <1>5, <3>1, <3>2
  <2> QED
    BY <1>1, <1>2, <1>5, <2>1, NotFlagged
<1> HIDE DEF right
<1>6. TypeOK'
  <2>1. run.scan + 1 \in 1..(Len(ScanOrder) + 1)
    BY <1>1, Bounds DEF Scanning
  <2>2. run.found \cup new \in SUBSET Finding
    BY <1>4 DEF IInv, TypeOK
  <2>3. Running(run) /\ <<>> \in Seq(Entry)
    BY Typed DEF IInv, Typing
  <2>4. Running(run')
    <3> DEFINE n == run.scan + 1
               all == run.found \cup new
    <3>1. run' = [run EXCEPT !.pc = "scan", !.scan = n, !.buf = <<>>, !.found = all]
      BY <1>1
    <3>2. n \in 1..(Len(ScanOrder) + 1) /\ all \in SUBSET Finding
      BY <2>1, <2>2
    <3> HIDE DEF n, all
    <3> QED
      BY <1>1, <2>3, <3>1, <3>2 DEF Running, Stage
  <2>5. misjudged' \subseteq Finding
    BY <1>4 DEF IInv, TypeOK
  <2> QED
    BY <1>4a, <2>4, <2>5, Typed DEF IInv, Typing
<1>7. Shaped' /\ Written'
  BY <1>1, <1>3 DEF IInv, Shaped, Written, At
<1>8. Guarded'
  <2> SUFFICES ASSUME NEW g \in File, Kind[g] # "name", NEW e \in expected'[g]
               PROVE  Innocent(g, e)'
    BY DEF Guarded
  <2>1. Innocent(g, e)
    BY <1>4a DEF IInv, Guarded
  <2>2. \A x \in new : x.file = g => x.id # e.id
    <3>1. CASE g # f
      BY <1>4, <3>1
    <3>2. CASE g = f
      <4>1. ~Stale(f, e) /\ (e \in Range(run.buf) \/ \A d \in Range(run.buf) : d.id # e.id)
        BY <1>1, <2>1, <3>2 DEF Innocent, At
      <4>2. \A x \in right : x.id # e.id
        BY <1>4, <1>5, <3>2, <4>1
      <4> QED
        BY <1>4a, <3>2, <4>2
    <3> QED
      BY <3>1, <3>2
  <2> QED
    BY <1>1, <1>3, <2>1, <2>2 DEF Innocent, InWindow, At, Stale
<1> QED
  BY <1>6, <1>7, <1>8 DEF IInv

LEMMA JudgeStep == IInv /\ (Judge \/ Misjudge) => IInv'
<1> SUFFICES ASSUME IInv, Judge \/ Misjudge PROVE IInv'
  OBVIOUS
<1>1. CASE Judge
  <2>1. /\ {} \in SUBSET Wrongful(Scanned, run.buf)
        /\ Flagged(Scanned, run.buf) = Flagged(Scanned, run.buf) \cup {}
        /\ misjudged' = misjudged \cup {}
    BY <1>1 DEF Judge, OnlyRun, ghosts
  <2>2. expected' = [expected EXCEPT ![Scanned] = {e \in @ : \A x \in {} : e.id # x.id}]
    <3>1. expected' = expected /\ expected \in [File -> SUBSET Entry]
      BY <1>1 DEF Judge, OnlyRun, ghosts, IInv, TypeOK
    <3> QED
      BY <3>1
  <2>3. faults' \in 0..MaxFaults
    BY <1>1 DEF Judge, IInv, TypeOK
  <2>4. Found(Flagged(Scanned, run.buf) \cup {})
    BY <1>1, <2>1 DEF Judge
  <2> QED
    BY <1>1, <2>1, <2>2, <2>3, <2>4, Judged DEF Judge, OnlyRun, ghosts
<1>2. CASE Misjudge
  BY <1>2, Judged, Faulty DEF Misjudge
<1> QED
  BY <1>1, <1>2

(* Steps after which nothing is being judged or removed.                   *)
LEMMA PutDown ==
  ASSUME IInv, UNCHANGED <<file, tmp, exists, installed, expected>>,
         overlooked' \subseteq File, misjudged' \subseteq Finding,
         Running(run'), exit' \in {0, 1}, calm' \in BOOLEAN,
         edits' \in 0..MaxEdits, faults' \in 0..MaxFaults, runs' \in 0..MaxRuns,
         run'.found \subseteq run.found,
         run'.pc \in {"idle", "scan", "apply"}
  PROVE  IInv'
<1>1. run'.at = Nothing /\ run'.pc # "judge"
  BY DEF Running
<1>2. TypeOK'
  BY Typed DEF IInv, Typing
<1>3. Shaped' /\ Written'
  BY <1>1 DEF IInv, Shaped, Written, At
<1>4. Guarded'
  BY <1>1, NothingNew DEF IInv
<1> QED
  BY <1>2, <1>3, <1>4 DEF IInv

LEMMA DropStep ==
  ASSUME IInv, At("judge"), DropTool, OnlyRun, faults' \in 0..MaxFaults
  PROVE  IInv'
<1>1. PICK n \in (run.scan + 1)..(Len(ScanOrder) + 1) :
        run' = [run EXCEPT !.pc = "scan", !.scan = n, !.buf = <<>>,
                           !.found = {x \in @ : ~OfThisTool(x.file)}, !.error = TRUE]
  BY DEF DropTool
<1> DEFINE kept == {x \in run.found : ~OfThisTool(x.file)}
<1>2. Running(run) /\ run.at = Nothing
  BY Typed DEF IInv, Typing, TypeOK, At
<1>3. n \in 1..(Len(ScanOrder) + 1) /\ kept \in SUBSET Finding
  <2>1. run.scan \in Nat /\ run.scan >= 1 /\ run.found \in SUBSET Finding
    BY <1>2, Bounds DEF Running
  <2> QED
    BY <1>1, <2>1, Bounds
<1>4. run' = [run EXCEPT !.pc = "scan", !.scan = n, !.buf = <<>>, !.found = kept, !.error = TRUE]
  BY <1>1, <1>2 DEF Running
<1>5. kept \subseteq run.found
  OBVIOUS
<1> HIDE DEF kept
<1>6. Running(run') /\ run'.found = kept /\ run'.pc = "scan"
  <2>1. <<>> \in Seq(Entry)
    OBVIOUS
  <2> QED
    BY <1>2, <1>3, <1>4, <2>1 DEF Running, Stage
<1> QED
  BY <1>5, <1>6, PutDown, Typed DEF IInv, Typing, OnlyRun, ghosts

LEMMA ScanStep == IInv /\ (StatFails \/ Unparseable \/ ReadFails \/ ScanDone) => IInv'
<1> SUFFICES ASSUME IInv, StatFails \/ Unparseable \/ ReadFails \/ ScanDone PROVE IInv'
  OBVIOUS
<1>1. CASE Unparseable
  <2>1. faults' \in 0..MaxFaults
    BY <1>1 DEF Unparseable, IInv, TypeOK
  <2> QED
    BY <1>1, <2>1, DropStep DEF Unparseable
<1>2. CASE ReadFails
  BY <1>2, DropStep, Faulty DEF ReadFails
<1>3. CASE ScanDone
  <2>1. Running(run) /\ run.pc = "scan" /\ run' = [run EXCEPT !.pc = "apply"]
    BY <1>3, Typed DEF IInv, Typing, ScanDone, At
  <2>2. Running(run') /\ run'.found = run.found /\ run'.pc = "apply"
    BY <2>1 DEF Running, Stage
  <2> QED
    BY <1>3, <2>2, PutDown, Typed DEF IInv, Typing, ScanDone, OnlyRun, ghosts
<1>4. CASE StatFails
  <2>1. Running(run) /\ run.pc = "scan" /\ run.scan \in 1..Len(ScanOrder)
        /\ run' = [run EXCEPT !.scan = @ + 1]
    BY <1>4, Typed DEF IInv, Typing, StatFails, At, Scanning
  <2>2. run.scan + 1 \in 1..(Len(ScanOrder) + 1)
    BY <2>1, Bounds
  <2>3. Running(run') /\ run'.found = run.found /\ run'.pc = "scan"
    BY <2>1, <2>2 DEF Running
  <2>4. overlooked' \subseteq File
    BY <1>4, Bounds DEF StatFails, IInv, TypeOK
  <2> QED
    BY <1>4, <2>3, <2>4, PutDown, Faulty, Typed DEF IInv, Typing, StatFails
<1> QED
  BY <1>1, <1>2, <1>3, <1>4

LEMMA EndStep == IInv /\ (ApplyFails \/ Exit \/ Crash \/ Rest) => IInv'
<1> SUFFICES ASSUME IInv, ApplyFails \/ Exit \/ Crash \/ Rest PROVE IInv'
  OBVIOUS
<1>1. Running(run) /\ Typing
  BY Typed DEF IInv, Typing
<1>2. CASE ApplyFails
  <2>1. run' = [run EXCEPT !.pc = "apply", !.at = Nothing, !.buf = <<>>, !.failed = run.failed + 1]
    BY <1>1, <1>2 DEF ApplyFails, Failing, Running
  <2>2. run.failed + 1 \in Nat /\ <<>> \in Seq(Entry)
    BY <1>1 DEF Running
  <2>3. Running(run') /\ run'.found = run.found /\ run'.pc = "apply"
    BY <1>1, <2>1, <2>2 DEF Running, Stage
  <2> QED
    BY <1>1, <1>2, <2>3, PutDown, Faulty DEF Typing, ApplyFails, OnlyRun, ghosts
<1>3. CASE Exit
  <2>1. run.pc = "apply" /\ run' = [run EXCEPT !.pc = "idle"]
    BY <1>3 DEF Exit, At
  <2>2. Running(run') /\ run'.found = run.found /\ run'.pc = "idle"
    BY <1>1, <2>1 DEF Running, Stage
  <2> QED
    BY <1>1, <1>3, <2>2, PutDown DEF Typing, Exit, ExitStatus, ghosts
<1>4. CASE Crash
  <2>1. run' = [pc |-> "idle", scan |-> 1, buf |-> <<>>, found |-> {},
                at |-> Nothing, failed |-> 0, error |-> TRUE]
    BY <1>4 DEF Crash, Idle
  <2>2. Running(run') /\ run'.found \subseteq run.found /\ run'.pc = "idle"
    BY <2>1, Bounds DEF Running, Stage
  <2> QED
    BY <1>1, <1>4, <2>2, PutDown, Faulty DEF Typing, Crash
<1>5. CASE Rest
  <2>1. Running(run') /\ run'.found = run.found /\ run'.pc = "idle"
    BY <1>1, <1>5 DEF Rest, vars, At
  <2> QED
    BY <1>1, <1>5, <2>1, PutDown DEF Typing, Rest, vars, ghosts
<1> QED
  BY <1>2, <1>3, <1>4, <1>5

(* RemoveFinding: what is taken out has the identity of a finding, so it   *)
(* is not expected.                                                        *)
LEMMA RemoveStep == IInv /\ ReadAndEdit => IInv'
<1> SUFFICES ASSUME IInv, ReadAndEdit PROVE IInv'
  OBVIOUS
<1>1. PICK x \in NextFindings :
        run' = IF Located(x.file, file[x.file], x.id)
               THEN [run EXCEPT !.pc = "create", !.found = @ \ {x}, !.at = x,
                                !.buf = Without(file[x.file], x.id)]
               ELSE [run EXCEPT !.found = @ \ {x}, !.failed = @ + 1]
  BY DEF ReadAndEdit
<1> DEFINE f == x.file
           rest == run.found \ {x}
           buf == Without(file[f], x.id)
<1>2. /\ Running(run) /\ Typing /\ run.pc = "apply"
      /\ UNCHANGED <<file, tmp, exists, installed, exit, ghosts, edits, runs, faults>>
  BY Typed DEF IInv, Typing, ReadAndEdit, At, OnlyRun
<1>3. x \in run.found /\ x \in Finding /\ f \in File /\ file[f] \in Seq(Entry) /\ WellFormed(f, file[f])
  BY <1>2 DEF NextFindings, Running, Finding, Typing, IInv, Shaped
<1>4. rest \in SUBSET Finding /\ rest \subseteq run.found
  BY <1>2 DEF Running
<1>5. CASE ~Located(f, file[f], x.id)
  <2>1. run' = [run EXCEPT !.found = rest, !.failed = run.failed + 1] /\ run.failed + 1 \in Nat
    BY <1>1, <1>2, <1>5 DEF Running
  <2> HIDE DEF rest
  <2>2. Running(run') /\ run'.found = rest /\ run'.pc = "apply"
    BY <1>2, <1>4, <2>1 DEF Running, Stage
  <2> QED
    BY <1>2, <1>4, <2>2, PutDown DEF Typing, ghosts
<1>6. CASE Located(f, file[f], x.id)
  <2>1. run' = [run EXCEPT !.pc = "create", !.found = rest, !.at = x, !.buf = buf]
    BY <1>1, <1>6
  <2>2. /\ buf \in Seq(Entry) /\ WellFormed(f, buf)
        /\ \A e \in Range(file[f]) : e.id # x.id => e \in Range(buf)
    BY <1>3, <1>6, WithoutKeeps DEF Located
  <2>3. x # Nothing
    BY <1>3, ExtcleanAssumption
  <2> HIDE DEF rest, buf
  <2>4. /\ Running(run') /\ run'.found = rest /\ run'.pc = "create"
        /\ run'.at = x /\ run'.buf = buf
    BY <1>2, <1>3, <1>4, <2>1, <2>2, <2>3 DEF Running, Stage
  <2>5. TypeOK'
    BY <1>2, <2>4, Typed DEF Typing, ghosts
  <2>6. Shaped' /\ Written'
    BY <1>2, <2>2, <2>4 DEF IInv, Shaped, Written, At
  <2>7. Guarded'
    <3> SUFFICES ASSUME NEW g \in File, Kind[g] # "name", NEW e \in expected[g]
                 PROVE  Innocent(g, e)'
      BY <1>2 DEF Guarded, ghosts
    <3>1. Innocent(g, e)
      BY DEF IInv, Guarded
    <3>2. g = f => e \in Range(buf)
      BY <1>3, <2>2, <3>1 DEF Innocent
    <3> QED
      BY <1>2, <1>4, <2>4, <3>1, <3>2 DEF Innocent, InWindow, At, Stale
  <2> QED
    BY <2>5, <2>6, <2>7 DEF IInv
<1> QED
  BY <1>5, <1>6

(* atomicWriteFile: until the rename only the temporary file is written.   *)
LEMMA TmpStep == IInv /\ (CreateTmp \/ WriteTmp) => IInv'
<1> SUFFICES ASSUME IInv, CreateTmp \/ WriteTmp PROVE IInv'
  OBVIOUS
<1>1. Running(run) /\ Typing /\ run.pc \in {"create", "write"}
  BY Typed DEF IInv, Typing, CreateTmp, WriteTmp, At
<1>2. /\ UNCHANGED <<file, exists, installed, exit, ghosts, edits, faults, runs>>
      /\ run' = [run EXCEPT !.pc = IF CreateTmp THEN "write" ELSE "rename"]
      /\ tmp' \in [File -> Seq(Entry) \cup {Partial, NoFile}]
      /\ ~CreateTmp => tmp'[run.at.file] = run.buf
  <2>1. run.at.file \in File /\ run.buf \in Seq(Entry)
    BY <1>1 DEF Running, Finding
  <2>2. CASE CreateTmp
    BY <1>1, <2>2 DEF CreateTmp, Typing
  <2>3. CASE ~CreateTmp
    BY <1>1, <2>1, <2>3 DEF WriteTmp, Typing
  <2> QED
    BY <2>2, <2>3
<1>3. /\ run'.pc = (IF CreateTmp THEN "write" ELSE "rename")
      /\ run'.at = run.at /\ run'.buf = run.buf /\ run'.found = run.found
      /\ Running(run')
  BY <1>1, <1>2 DEF Running, Stage
<1>4. TypeOK'
  BY <1>1, <1>2, <1>3, Typed DEF Typing, ghosts
<1>5. Shaped' /\ Written'
  BY <1>2, <1>3 DEF IInv, Shaped, Written, At
<1>6. Guarded'
  BY <1>2, <1>3, NothingNew DEF IInv, ghosts
<1> QED
  BY <1>4, <1>5, <1>6 DEF IInv

(* The rename puts in place what was made of the file some time ago: the   *)
(* entries that are still expected are in it.                              *)
LEMMA RenameStep == IInv /\ Rename => IInv'
<1> SUFFICES ASSUME IInv, Rename PROVE IInv'
  OBVIOUS
<1> DEFINE f == run.at.file
<1>1. Running(run) /\ Typing /\ run.pc = "rename" /\ tmp[f] = run.buf
  BY Typed DEF IInv, Typing, Rename, At, Written
<1>2. run.at # Nothing /\ f \in File /\ run.buf \in Seq(Entry) /\ WellFormed(f, run.buf)
  BY <1>1 DEF Running, Finding, IInv, Shaped
<1>3. /\ UNCHANGED <<exists, installed, exit, ghosts, edits, faults, runs>>
      /\ file' = [file EXCEPT ![f] = run.buf] /\ tmp' = [tmp EXCEPT ![f] = NoFile]
      /\ run' = [run EXCEPT !.pc = "apply", !.at = Nothing, !.buf = <<>>, !.failed = run.failed + 0]
  BY <1>1 DEF Rename, Failing, Running
<1>4. run.failed + 0 \in Nat /\ <<>> \in Seq(Entry)
  BY <1>1 DEF Running
<1>5. Running(run') /\ run'.pc = "apply" /\ run'.at = Nothing /\ run'.found = run.found
  BY <1>1, <1>3, <1>4 DEF Running, Stage
<1>6. TypeOK'
  BY <1>1, <1>2, <1>3, <1>5, Typed DEF Typing, ghosts
<1>7. Shaped' /\ Written'
  BY <1>1, <1>2, <1>3, <1>5 DEF IInv, Shaped, Written, At, Typing
<1>8. Guarded'
  <2> SUFFICES ASSUME NEW g \in File, Kind[g] # "name", NEW e \in expected[g]
               PROVE  Innocent(g, e)'
    BY <1>3 DEF Guarded, ghosts
  <2>1. Innocent(g, e)
    BY DEF IInv, Guarded
  <2>2. e \in Range(file'[g])
    BY <1>1, <1>2, <1>3, <2>1 DEF Innocent, InWindow, Typing
  <2> QED
    BY <1>3, <1>5, <2>1, <2>2 DEF Innocent, InWindow, At, Stale
<1> QED
  BY <1>6, <1>7, <1>8 DEF IInv

(* Others write a file: what they keep stays expected, and what they add   *)
(* is, unless extclean already holds something against its identity.       *)
LEMMA EditStep == ASSUME IInv, NEW f \in File, Edit(f) PROVE IInv'
<1>1. /\ edits < MaxEdits /\ edits' = edits + 1 /\ calm' = FALSE
      /\ UNCHANGED <<tmp, exists, installed, run, exit, overlooked, misjudged, faults, runs>>
  BY DEF Edit
<1>2. PICK content \in Edited(f) :
        /\ WellFormed(f, content)
        /\ file' = [file EXCEPT ![f] = content]
        /\ expected' = [expected EXCEPT ![f] =
             (@ \cap Range(content))
               \cup {e \in Healthy(f, content) : ~InWindow(f) /\ e.id \notin Suspected(f)}]
  BY DEF Edit
<1> DEFINE kept == expected[f] \cap Range(content)
           added == {e \in Healthy(f, content) : ~InWindow(f) /\ e.id \notin Suspected(f)}
<1>3. Typing
  BY Typed DEF IInv
<1>4. content \in Seq(Entry)
  BY <1>2, <1>3, EditedType DEF Typing
<1>5. kept \cup added \in SUBSET Entry
  BY <1>3, <1>4 DEF Typing, Healthy, Range
<1>6. expected' = [expected EXCEPT ![f] = kept \cup added]
  BY <1>2, <1>3 DEF Typing
<1>7. TypeOK'
  <2>1. file' \in [File -> Seq(Entry)]
    BY <1>2, <1>3, <1>4 DEF Typing
  <2>2. expected' \in [File -> SUBSET Entry]
    BY <1>3, <1>5, <1>6 DEF Typing
  <2>3. edits' \in 0..MaxEdits
    BY <1>1, <1>3, Bounds DEF Typing
  <2> QED
    BY <1>1, <1>3, <2>1, <2>2, <2>3, Typed DEF Typing
<1>8. Shaped' /\ Written'
  BY <1>1, <1>2, <1>3 DEF IInv, Shaped, Written, At, Scanned, Typing
<1>9. Guarded'
  <2> SUFFICES ASSUME NEW g \in File, Kind[g] # "name", NEW e \in expected'[g]
               PROVE  Innocent(g, e)'
    BY DEF Guarded
  <2>1. CASE g # f
    <3>1. e \in expected[g] /\ file'[g] = file[g]
      BY <1>2, <1>3, <1>6, <2>1 DEF Typing
    <3>2. Innocent(g, e)
      BY <3>1 DEF IInv, Guarded
    <3> QED
      BY <1>1, <3>1, <3>2 DEF Innocent, InWindow, At, Scanned, Stale
  <2>2. CASE g = f
    <3>1. file'[f] = content /\ e \in kept \cup added
      BY <1>2, <1>3, <1>6, <2>2 DEF Typing
    <3>2. CASE e \in kept
      <4>1. Innocent(f, e)
        BY <2>2, <3>2 DEF IInv, Guarded
      <4> QED
        BY <1>1, <2>2, <3>1, <3>2, <4>1 DEF Innocent, InWindow, At, Scanned, Stale
    <3>3. CASE e \in added
      <4>1. e \in Range(content) /\ ~Stale(f, e) /\ ~InWindow(f)
        BY <3>3 DEF Healthy
      <4>2. e.id \notin {x.id : x \in {y \in run.found : y.file = f}}
        BY <3>3 DEF Suspected
      <4>3. At("judge") /\ Scanned = f => e.id \notin {d.id : d \in Range(run.buf)}
        BY <3>3 DEF Suspected
      <4> HIDE DEF added
      <4> QED
        BY <1>1, <2>2, <3>1, <4>1, <4>2, <4>3 DEF Innocent, InWindow, At, Scanned, Stale
    <3> QED
      BY <3>1, <3>2, <3>3
  <2> QED
    BY <2>1, <2>2
<1> QED
  BY <1>7, <1>8, <1>9 DEF IInv

(* What entries point to comes and goes.                                   *)
LEMMA MoveStep == ASSUME IInv, NEW n \in Name, Move(n) PROVE IInv'
<1>1. /\ edits < MaxEdits /\ edits' = edits + 1 /\ calm' = FALSE
      /\ exists' = IF n \in exists THEN exists \ {n} ELSE exists \cup {n}
      /\ expected' = [f \in File |-> {e \in expected[f] : e.target # n}]
      /\ UNCHANGED <<file, tmp, installed, run, exit, overlooked, misjudged, faults, runs>>
  BY DEF Move
<1>2. Typing
  BY Typed DEF IInv
<1>3. TypeOK'
  <2>1. exists' \subseteq Name
    BY <1>1, <1>2 DEF Typing
  <2>2. expected' \in [File -> SUBSET Entry]
    BY <1>1, <1>2 DEF Typing
  <2>3. edits' \in 0..MaxEdits
    BY <1>1, <1>2, Bounds DEF Typing
  <2> QED
    BY <1>1, <1>2, <2>1, <2>2, <2>3, Typed DEF Typing
<1>4. Shaped' /\ Written'
  BY <1>1 DEF IInv, Shaped, Written, At, Scanned
<1>5. Guarded'
  <2> SUFFICES ASSUME NEW f \in File, Kind[f] # "name", NEW e \in expected'[f]
               PROVE  Innocent(f, e)'
    BY DEF Guarded
  <2>1. e \in expected[f] /\ e.target # n
    BY <1>1
  <2>2. Innocent(f, e)
    BY <2>1 DEF IInv, Guarded
  <2>3. ~Stale(f, e)'
    BY <1>1, <2>1, <2>2 DEF Innocent, Stale
  <2> QED
    BY <1>1, <2>2, <2>3 DEF Innocent, InWindow, At, Scanned
<1> QED
  BY <1>3, <1>4, <1>5 DEF IInv

LEMMA NextKeeps == IInv /\ [Next]_vars => IInv'
<1> SUFFICES ASSUME IInv, [Next]_vars PROVE IInv'
  OBVIOUS
<1>1. CASE UNCHANGED vars
  <2>1. UNCHANGED <<file, tmp, exists, installed, run, exit, expected, overlooked, misjudged, calm, edits, faults, runs>>
    BY <1>1 DEF vars, ghosts
  <2> QED
    BY <2>1 DEF IInv, TypeOK, Shaped, Written, Guarded, Innocent, InWindow, At, Scanned, Scanning, Stale
<1>2. CASE Work
  BY <1>2, ReadStep, JudgeStep, ScanStep, RemoveStep, TmpStep, RenameStep, EndStep DEF Work
<1>3. CASE Begin \/ Rest \/ StatFails \/ Misjudge \/ ReadFails \/ ApplyFails \/ Crash
  BY <1>3, BeginStep, EndStep, ScanStep, JudgeStep
<1>4. CASE (\E f \in File : Edit(f)) \/ (\E n \in Name : Move(n))
  BY <1>4, EditStep, MoveStep
<1> QED
  BY <1>1, <1>2, <1>3, <1>4 DEF Next

(* The invariant holds in every state.                                     *)
THEOREM Invariant == Spec => []IInv
BY InitHolds, NextKeeps, PTL DEF Spec

----------------------------------------------------------------------------
(* Results *)

(* Every variable keeps its type, whatever fails or changes meanwhile.     *)
THEOREM TypeCorrect == Spec => []TypeOK
<1>1. IInv => TypeOK
  BY DEF IInv
<1> QED
  BY <1>1, Invariant, PTL

(* No reader ever finds a registration file partially written              *)
(* (atomicWriteFile), wherever extclean fails or is killed.                *)
THEOREM WritesAreAtomic == Spec => []NeverPartial
<1>1. IInv => NeverPartial
  BY ExtcleanAssumption DEF IInv, TypeOK, NeverPartial
<1> QED
  BY <1>1, Invariant, PTL

(* The files whose entries extclean identifies by what they point to, by a *)
(* unique key or by their table keep every registration that is in order.  *)
THEOREM HealthyStay ==
  Spec => [](\A f \in File : Kind[f] # "name" => expected[f] \subseteq Range(file[f]))
<1>1. IInv => \A f \in File : Kind[f] # "name" => expected[f] \subseteq Range(file[f])
  BY DEF IInv, Guarded, Innocent
<1> QED
  BY <1>1, Invariant, PTL

(* So all of them do if no file has entries that share a name, as Cursor's *)
(* extensions may.                                                         *)
THEOREM HealthyAreKept ==
  ASSUME \A f \in File : Kind[f] # "name"
  PROVE  Spec => []HealthyKept
<1>1. IInv => HealthyKept
  BY DEF IInv, Guarded, Innocent, HealthyKept
<1> QED
  BY <1>1, Invariant, PTL

----------------------------------------------------------------------------
(* Counting entries *)

(* Which entry Without takes away.                                         *)
LEMMA WithoutIs ==
  ASSUME NEW content \in Seq(Entry), NEW id, Matches(content, id) # {}
  PROVE  \E i \in Matches(content, id) : Without(content, id) = RemoveAt(content, i)
<1> DEFINE M == Matches(content, id)
           i == CHOOSE n \in M : \A m \in M : n <= m
<1>1. M \subseteq Nat
  BY DEF Matches
<1>2. i \in M
  <2>1. \E n \in M : \A m \in M : n <= m
    BY <1>1, Least
  <2> HIDE DEF M
  <2> QED
    BY <2>1
<1> QED
  BY <1>2 DEF Without

(* The positions of entries of some set.                                   *)
Places(content, those) == {k \in DOMAIN content : content[k] \in those}

LEMMA PlacesFinite ==
  ASSUME NEW content \in Seq(Entry), NEW those
  PROVE  IsFiniteSet(Places(content, those)) /\ Cardinality(Places(content, those)) \in Nat
<1>1. IsFiniteSet(1..Len(content))
  BY FS_Interval
<1>2. Places(content, those) \in SUBSET (1..Len(content))
  BY DEF Places
<1> QED
  BY <1>1, <1>2, FS_Subset, FS_CardinalityType

(* Taking an entry away leaves one of its kind less, and all others.       *)
LEMMA OneLess ==
  ASSUME NEW content \in Seq(Entry), NEW i \in DOMAIN content, NEW those
  PROVE  Cardinality(Places(RemoveAt(content, i), those)) =
           Cardinality(Places(content, those)) - (IF content[i] \in those THEN 1 ELSE 0)
<1> DEFINE rest == RemoveAt(content, i)
           old(k) == IF k < i THEN k ELSE k + 1
           S == Places(content, those) \ {i}
           T == Places(rest, those)
           g == [k \in T |-> old(k)]
<1>1. /\ rest \in Seq(Entry) /\ Len(rest) = Len(content) - 1
      /\ \A k \in DOMAIN rest : old(k) \in DOMAIN content /\ rest[k] = content[old(k)]
  BY Removed
<1>2. DOMAIN rest = 1..(Len(content) - 1) /\ DOMAIN content = 1..Len(content) /\ i \in Nat /\ Len(content) \in Nat
  BY <1>1
<1> HIDE DEF rest
<1>3. \A k \in DOMAIN rest : old(k) # i /\ \A j \in DOMAIN rest : j # k => old(j) # old(k)
  BY <1>2
<1>4. \A k \in T : old(k) \in S
  BY <1>1, <1>3 DEF Places
<1>5. ASSUME NEW j \in S
      PROVE  \E k \in T : old(k) = j
  <2>1. PICK k \in DOMAIN rest : old(k) = j
    <3>1. CASE j < i
      <4>1. j \in DOMAIN rest /\ old(j) = j
        BY <1>2, <3>1 DEF Places
      <4> QED
        BY <4>1
    <3>2. CASE ~(j < i)
      <4>1. j - 1 \in DOMAIN rest /\ old(j - 1) = j
        BY <1>2, <3>2 DEF Places
      <4> QED
        BY <4>1
    <3> QED
      BY <3>1, <3>2
  <2> QED
    BY <1>1, <2>1 DEF Places
<1>6. g \in Bijection(T, S)
  <2> HIDE DEF old, S
  <2>1. g \in [T -> S]
    BY <1>4
  <2>2. \A j, k \in T : g[j] = g[k] => j = k
    BY <1>3 DEF Places
  <2>3. \A s \in S : \E k \in T : g[k] = s
    BY <1>5
  <2> QED
    BY <2>1, <2>2, <2>3 DEF Bijection, Injection, Surjection, IsInjective
<1>7. IsFiniteSet(T) /\ IsFiniteSet(Places(content, those)) /\ Cardinality(Places(content, those)) \in Nat
  BY <1>1, PlacesFinite
<1>8. Cardinality(S) = Cardinality(T)
  <2>1. ExistsBijection(T, S)
    BY <1>6 DEF ExistsBijection
  <2> HIDE DEF S, T
  <2> QED
    BY <1>7, <2>1, FS_Bijection
<1>9. Cardinality(S) = IF i \in Places(content, those) THEN Cardinality(Places(content, those)) - 1
                       ELSE Cardinality(Places(content, those))
  BY <1>7, FS_RemoveElement
<1>10. i \in Places(content, those) <=> content[i] \in those
  BY DEF Places
<1> HIDE DEF S, T
<1>11. Cardinality(T) = Cardinality(Places(content, those)) - (IF content[i] \in those THEN 1 ELSE 0)
  BY <1>7, <1>8, <1>9, <1>10
<1> QED
  BY <1>11 DEF T, rest

----------------------------------------------------------------------------
(* What is left to remove *)

Outdated(f, content) == {k \in DOMAIN content : content[k].form # "subtable" /\ Stale(f, content[k])}

(* In the files whose stat did not fail.                                   *)
Left(contents) == UNION {{f} \X Outdated(f, contents[f]) : f \in File \ overlooked}

LEMMA FilesFinite == IsFiniteSet(File)
<1> DEFINE g == [i \in 1..Len(ScanOrder) |-> ScanOrder[i]]
<1>1. ScanOrder \in Seq(File) /\ \A f \in File : \E i \in 1..Len(ScanOrder) : ScanOrder[i] = f
  BY ExtcleanAssumption
<1>2. g \in Surjection(1..Len(ScanOrder), File)
  BY <1>1 DEF Surjection
<1>3. IsFiniteSet(1..Len(ScanOrder))
  BY <1>1, FS_Interval
<1> HIDE DEF g
<1> QED
  BY <1>2, <1>3, FS_Surjection

LEMMA LeftFinite ==
  ASSUME NEW contents \in [File -> Seq(Entry)], NEW some \in SUBSET File
  PROVE  IsFiniteSet(UNION {{f} \X Outdated(f, contents[f]) : f \in some})
<1> DEFINE of(f) == {f} \X Outdated(f, contents[f])
           all == {of(f) : f \in some}
           g == [f \in some |-> of(f)]
<1>1. IsFiniteSet(some)
  BY FilesFinite, FS_Subset
<1>2. g \in Surjection(some, all)
  <2> HIDE DEF of
  <2> QED
    BY DEF Surjection
<1>3. IsFiniteSet(all)
  <2> HIDE DEF g, all
  <2> QED
    BY <1>1, <1>2, FS_Surjection
<1>4. ASSUME NEW f \in some PROVE IsFiniteSet(of(f))
  <2>1. IsFiniteSet(1..Len(contents[f])) /\ IsFiniteSet({f})
    <3>1. contents[f] \in Seq(Entry)
      BY <1>4
    <3>2. Len(contents[f]) \in Int
      BY <3>1
    <3>3. IsFiniteSet(1..Len(contents[f]))
      BY <3>2, FS_Interval
    <3> QED
      BY <3>3, FS_Singleton
  <2>2. Outdated(f, contents[f]) \in SUBSET (1..Len(contents[f]))
    BY DEF Outdated
  <2>3. IsFiniteSet(Outdated(f, contents[f]))
    BY <2>1, <2>2, FS_Subset
  <2> QED
    BY <2>1, <2>3, FS_Product
<1>5. \A t \in all : IsFiniteSet(t)
  BY <1>4
<1> HIDE DEF all
<1>6. IsFiniteSet(UNION all)
  BY <1>3, <1>5, FS_UNION
<1> QED
  BY <1>6 DEF all

(* One file and the others.                                                *)
LEMMA LeftSplit ==
  ASSUME NEW contents \in [File -> Seq(Entry)], NEW f \in File \ overlooked
  PROVE  LET others == UNION {{g} \X Outdated(g, contents[g]) : g \in File \ (overlooked \cup {f})} IN
         /\ Cardinality(others) \in Nat /\ Cardinality(Outdated(f, contents[f])) \in Nat
         /\ Cardinality(Left(contents)) = Cardinality(others) + Cardinality(Outdated(f, contents[f]))
<1> DEFINE others == UNION {{g} \X Outdated(g, contents[g]) : g \in File \ (overlooked \cup {f})}
           here == Outdated(f, contents[f])
           own == {f} \X here
<1>1. IsFiniteSet(others) /\ Cardinality(others) \in Nat
  BY LeftFinite, FS_CardinalityType
<1>2. IsFiniteSet(here) /\ Cardinality(here) \in Nat
  <2>1. here \in SUBSET (1..Len(contents[f])) /\ IsFiniteSet(1..Len(contents[f]))
    BY FS_Interval DEF Outdated
  <2> HIDE DEF here
  <2> QED
    BY <2>1, FS_Subset, FS_CardinalityType
<1>3. IsFiniteSet(own) /\ Cardinality(own) = Cardinality(here)
  <2>1. IsFiniteSet({f}) /\ Cardinality({f}) = 1
    BY FS_Singleton
  <2> HIDE DEF here
  <2>2. IsFiniteSet(own) /\ Cardinality(own) = Cardinality({f}) * Cardinality(here)
    BY <1>2, <2>1, FS_Product
  <2> QED
    BY <1>2, <2>1, <2>2
<1>4. Left(contents) = others \cup own /\ others \cap own = {}
  <2> HIDE DEF here
  <2>1. \A p \in Left(contents) : p \in others \/ p \in own
    BY DEF Left, here
  <2>2. \A p \in others : p \in Left(contents) /\ p \notin own
    BY DEF Left
  <2>3. \A p \in own : p \in Left(contents)
    BY DEF Left, here
  <2> QED
    BY <2>1, <2>2, <2>3
<1> HIDE DEF others, here, own
<1>5. Cardinality(others \cup own) = Cardinality(others) + Cardinality(own) - Cardinality(others \cap own)
  BY <1>1, <1>3, FS_Union
<1>6. Cardinality({}) = 0
  BY FS_EmptySet
<1>7. Cardinality(Left(contents)) = Cardinality(others) + Cardinality(here)
  <2>1. Cardinality(others \cap own) = 0
    BY <1>4, <1>6
  <2>2. Cardinality(Left(contents)) = Cardinality(others \cup own)
    BY <1>4
  <2>3. Cardinality(Left(contents)) = Cardinality(others) + Cardinality(here) - 0
    BY <1>3, <1>5, <2>1, <2>2
  <2> QED
    BY <1>1, <1>2, <2>3
<1> QED
  BY <1>1, <1>2, <1>7 DEF others, here

(* Taking an entry away leaves at most one less, and one less if it was    *)
(* stale and its file was not overlooked.                                  *)
LEMMA LeftLess ==
  ASSUME NEW contents \in [File -> Seq(Entry)], NEW f \in File, NEW i \in DOMAIN contents[f]
  PROVE  LET then == [contents EXCEPT ![f] = RemoveAt(contents[f], i)] IN
         /\ then \in [File -> Seq(Entry)]
         /\ Cardinality(Left(contents)) \in Nat /\ Cardinality(Left(then)) \in Nat
         /\ Cardinality(Left(then)) <= Cardinality(Left(contents))
         /\ Cardinality(Left(contents)) <= Cardinality(Left(then)) + 1
         /\ f \notin overlooked /\ contents[f][i].form # "subtable" /\ Stale(f, contents[f][i]) =>
              Cardinality(Left(then)) = Cardinality(Left(contents)) - 1
<1> DEFINE content == contents[f]
           rest == RemoveAt(content, i)
           then == [contents EXCEPT ![f] = rest]
           those == {e \in Entry : e.form # "subtable" /\ Stale(f, e)}
           others == UNION {{g} \X Outdated(g, contents[g]) : g \in File \ (overlooked \cup {f})}
           taken == IF content[i] \in those THEN 1 ELSE 0
<1>1. content \in Seq(Entry) /\ rest \in Seq(Entry) /\ content[i] \in Entry
  BY Removed
<1>2. Outdated(f, content) = Places(content, those) /\ Outdated(f, rest) = Places(rest, those)
  <2>1. \A c \in Seq(Entry) : Outdated(f, c) = Places(c, those)
    <3> TAKE c \in Seq(Entry)
    <3>1. \A k \in DOMAIN c : c[k] \in Entry
      OBVIOUS
    <3> QED
      BY <3>1 DEF Outdated, Places
  <2> HIDE DEF rest, those
  <2> QED
    BY <1>1, <2>1
<1>3. Cardinality(Outdated(f, rest)) = Cardinality(Outdated(f, content)) - taken
  <2> HIDE DEF those
  <2> QED
    BY <1>1, <1>2, OneLess
<1>3a. taken \in {0, 1} /\ (content[i].form # "subtable" /\ Stale(f, content[i]) => taken = 1)
  BY <1>1
<1> HIDE DEF rest, taken, those
<1>4. then \in [File -> Seq(Entry)] /\ then[f] = rest /\ \A g \in File \ {f} : then[g] = contents[g]
  BY <1>1
<1> HIDE DEF then
<1>5. UNION {{g} \X Outdated(g, then[g]) : g \in File \ (overlooked \cup {f})} = others
  BY <1>4
<1>6. CASE f \in overlooked
  <2>1. \A g \in File \ overlooked : then[g] = contents[g]
    BY <1>4, <1>6
  <2>2. Left(then) = Left(contents)
    BY <2>1 DEF Left
  <2>3. IsFiniteSet(Left(contents))
    BY LeftFinite DEF Left
  <2>4. Cardinality(Left(contents)) \in Nat
    BY <2>3, FS_CardinalityType
  <2> QED
    BY <1>4, <1>6, <2>2, <2>4 DEF then, rest
<1>7. CASE f \notin overlooked
  <2>1. /\ Cardinality(others) \in Nat /\ Cardinality(Outdated(f, contents[f])) \in Nat
        /\ Cardinality(Left(contents)) = Cardinality(others) + Cardinality(Outdated(f, contents[f]))
    BY <1>7, LeftSplit
  <2>2. /\ Cardinality(Outdated(f, then[f])) \in Nat
        /\ Cardinality(Left(then)) =
             Cardinality(UNION {{g} \X Outdated(g, then[g]) : g \in File \ (overlooked \cup {f})})
               + Cardinality(Outdated(f, then[f]))
    BY <1>4, <1>7, LeftSplit
  <2>3. Cardinality(Left(then)) = Cardinality(others) + Cardinality(Outdated(f, then[f]))
    BY <1>5, <2>2
  <2>4. Cardinality(Outdated(f, then[f])) = Cardinality(Outdated(f, contents[f])) - taken
    BY <1>3, <1>4
  <2> HIDE DEF others
  <2>5. /\ Cardinality(Left(contents)) \in Nat /\ Cardinality(Left(then)) \in Nat
        /\ Cardinality(Left(then)) = Cardinality(Left(contents)) - taken
    BY <1>3a, <2>1, <2>2, <2>3, <2>4
  <2> QED
    BY <1>3a, <1>4, <2>5 DEF then, rest
<1> QED
  BY <1>6, <1>7

(* A table that is stale and that a removal does not find.                 *)
Odd(f, content) ==
  \E i \in Registrations(f, content) : content[i].form # "plain" /\ Stale(f, content[i])

(* Other removals do not change this, nor break a file.                    *)
LEMMA StillSo ==
  ASSUME NEW f \in File, NEW content \in Seq(Entry), NEW i \in DOMAIN content, content[i].form = "plain"
  PROVE  LET rest == RemoveAt(content, i) IN
         /\ Odd(f, content) => Odd(f, rest)
         /\ Parses(f, content) => Parses(f, rest)
         /\ Range(rest) \subseteq Range(content)
<1> DEFINE rest == RemoveAt(content, i)
           old(k) == IF k < i THEN k ELSE k + 1
<1>1. /\ rest \in Seq(Entry)
      /\ \A k \in DOMAIN rest : old(k) \in DOMAIN content /\ rest[k] = content[old(k)]
      /\ \A j \in DOMAIN content \ {i} : \E k \in DOMAIN rest : rest[k] = content[j]
  BY Removed
<1>2. \A j, k \in DOMAIN rest : j # k => old(j) # old(k)
  BY <1>1
<1> HIDE DEF rest, old
<1>3. Range(rest) \subseteq Range(content)
  BY <1>1 DEF Range
<1>4. Parses(f, content) => Parses(f, rest)
  BY <1>1, <1>2 DEF Parses
<1>5. ASSUME Odd(f, content) PROVE Odd(f, rest)
  <2>1. PICK j \in Registrations(f, content) : content[j].form # "plain" /\ Stale(f, content[j])
    BY <1>5 DEF Odd
  <2>2. j \in DOMAIN content \ {i}
    BY <2>1 DEF Registrations
  <2>3. PICK k \in DOMAIN rest : rest[k] = content[j]
    BY <1>1, <2>2
  <2>4. k \in Registrations(f, rest)
    BY <1>3, <2>1, <2>3 DEF Registrations
  <2> QED
    BY <2>1, <2>3, <2>4 DEF Odd
<1> QED
  BY <1>3, <1>4, <1>5 DEF rest

LEMMA MatchesFinite ==
  ASSUME NEW content \in Seq(Entry), NEW id
  PROVE  IsFiniteSet(Matches(content, id)) /\ Cardinality(Matches(content, id)) \in Nat
<1>1. Len(content) \in Int
  OBVIOUS
<1>2. IsFiniteSet(1..Len(content))
  BY <1>1, FS_Interval
<1>3. Matches(content, id) \in SUBSET (1..Len(content))
  BY DEF Matches
<1> QED
  BY <1>2, <1>3, FS_Subset, FS_CardinalityType

(* Entries of one identity are found as often as they are flagged, unless  *)
(* one of them is such a table.                                            *)
LEMMA FoundAgain ==
  ASSUME NEW f \in File, NEW content \in Seq(Entry), NEW id, NEW those \in SUBSET Flagged(f, content),
         \A y \in those : y.id = id, ~Odd(f, content)
  PROVE  Cardinality(those) <= Cardinality(Matches(content, id))
<1> DEFINE g == [y \in those |-> y.place]
<1>1. ASSUME NEW y \in those
      PROVE  /\ y.place \in Matches(content, id)
             /\ y = [file |-> f, id |-> id, place |-> y.place]
  <2>1. PICK i \in Registrations(f, content) :
          Stale(f, content[i]) /\ y = [file |-> f, id |-> content[i].id, place |-> i]
    BY DEF Flagged, FindingsAt
  <2>2. content[i].form = "plain" /\ i \in DOMAIN content /\ y.id = id
    BY <2>1 DEF Odd, Registrations
  <2> QED
    BY <2>1, <2>2 DEF Matches
<1>2. g \in Injection(those, Matches(content, id))
  <2>1. g \in [those -> Matches(content, id)]
    BY <1>1
  <2>2. \A y, z \in those : g[y] = g[z] => y = z
    BY <1>1
  <2> QED
    BY <2>1, <2>2 DEF Injection, IsInjective
<1>3. IsFiniteSet(Matches(content, id))
  BY MatchesFinite
<1> HIDE DEF g
<1> QED
  BY <1>2, <1>3, FS_Injection

(* What is found in a file is finite.                                      *)
LEMMA FindingsFinite ==
  ASSUME NEW f \in File, NEW content \in Seq(Entry), NEW wrong \in SUBSET Wrongful(f, content)
  PROVE  IsFiniteSet(Flagged(f, content) \cup wrong)
<1> DEFINE new == Flagged(f, content) \cup wrong
           g == [y \in new |-> y.place]
<1>1. ASSUME NEW y \in new
      PROVE  y.place \in 1..Len(content) /\ y = [file |-> f, id |-> content[y.place].id, place |-> y.place]
  BY DEF Flagged, Wrongful, FindingsAt, Registrations
<1> HIDE DEF new
<1>2. g \in Injection(new, 1..Len(content))
  <2>1. g \in [new -> 1..Len(content)]
    BY <1>1
  <2>2. \A y, z \in new : g[y] = g[z] => y = z
    BY <1>1
  <2> QED
    BY <2>1, <2>2 DEF Injection, IsInjective
<1>3. IsFiniteSet(1..Len(content))
  <2>1. Len(content) \in Int
    OBVIOUS
  <2> QED
    BY <2>1, FS_Interval
<1> HIDE DEF g
<1>4. IsFiniteSet(new)
  BY <1>2, <1>3, FS_Injection
<1> QED
  BY <1>4 DEF new

----------------------------------------------------------------------------
(* What the exit status tells *)

(* What the files will be when the removal that is under way is done.      *)
Current == [f \in File |-> IF InWindow(f) THEN run.buf ELSE file[f]]

Of(x) == {y \in run.found : y.file = x.file /\ y.id = x.id}

(* The findings about entries that are stale, in files that are counted.   *)
Owed == {x \in run.found : x \notin misjudged /\ x.file \notin overlooked}

Pending == run.found \cup ({run.at} \ {Nothing})

Cause == \E f \in File : ~Parses(f, file[f]) \/ Odd(f, file[f])

(* While it scans, extclean has found what is stale in the files it has    *)
(* read, unless there was an error, and errors are about whole tools.      *)
Scans ==
  /\ run.failed = 0
  /\ At("judge") => run.buf = file[Scanned]
  /\ \A x \in run.found :
       /\ Parses(x.file, file[x.file])
       /\ x \in misjudged \/ x \in Flagged(x.file, file[x.file])
  /\ \A x \in misjudged : x \notin Flagged(x.file, file[x.file])
  /\ faults = 0 => misjudged = {}
  /\ ~run.error =>
       \A i \in 1..(run.scan - 1) :
         ScanOrder[i] \in overlooked \/ Flagged(ScanOrder[i], file[ScanOrder[i]]) \subseteq run.found
  /\ run.error /\ faults = 0 =>
       \E f \in File : ~Parses(f, file[f]) /\ \A j \in run.scan..Len(ScanOrder) : ToolOf[ScanOrder[j]] # ToolOf[f]

(* The entries a removal would take for this finding are stale.            *)
Deserved(x) ==
  \A e \in Range(file[x.file]) : e.id = x.id /\ e.form = "plain" => Stale(x.file, e)

(* Then, what it would remove is stale, unless it was misjudged, what is   *)
(* stale was found or has failed, and what was found is found again.       *)
Applies ==
  /\ \A x \in Pending : Parses(x.file, file[x.file]) /\ (x \in misjudged \/ Deserved(x))
  /\ run.at # Nothing =>
       /\ Located(run.at.file, file[run.at.file], run.at.id)
       /\ run.buf = Without(file[run.at.file], run.at.id)
  /\ ~run.error => Cardinality(Left(Current)) <= run.failed + Cardinality(Owed)
  /\ faults = 0 =>
       /\ run.error \/ run.failed > 0 => Cause
       /\ \A x \in run.found :
            \/ Odd(x.file, Current[x.file])
            \/ Cardinality(Of(x)) <= Cardinality(Matches(Current[x.file], x.id))

(* All of this as long as nobody else changes anything.                    *)
Told ==
  calm =>
    /\ IsFiniteSet(run.found)
    /\ run.pc \in {"scan", "judge"} => Scans
    /\ run.pc \notin {"idle", "scan", "judge"} => Applies
    /\ RunEnded => Applies /\ run.found = {} /\ exit = ExitStatus

(* At the end this is what the exit status is to tell.                     *)
LEMMA ToldTruth == IInv /\ Told => ExitTellsTruth
<1> SUFFICES ASSUME IInv, Told, RunEnded, calm PROVE ExitTellsTruth
  BY DEF ExitTellsTruth, ExitZeroIsClean, OnlyFailuresRemain, FailuresHaveCauses
<1>1. Applies /\ run.found = {} /\ exit = ExitStatus /\ run.at = Nothing
  BY DEF Told, RunEnded, At, IInv, TypeOK
<1>2. run.failed \in Nat /\ run.error \in BOOLEAN /\ file \in [File -> Seq(Entry)]
  BY DEF IInv, TypeOK
<1>3. Current = file
  BY <1>1, <1>2 DEF Current, InWindow
<1>4. Left(file) = UNION {{f} \X Removable(f) : f \in File \ overlooked}
  BY DEF Left, Outdated, Removable
<1>5. ~run.error => Cardinality(Left(file)) <= run.failed
  <2>1. Cardinality({}) = 0
    BY FS_EmptySet
  <2>2. Owed = {}
    BY <1>1 DEF Owed
  <2>3. run.failed + Cardinality(Owed) = run.failed
    BY <1>2, <2>1, <2>2
  <2> QED
    BY <1>1, <1>3, <2>3 DEF Applies
<1>6. OnlyFailuresRemain
  BY <1>4, <1>5 DEF OnlyFailuresRemain
<1>7. ExitZeroIsClean
  <2> SUFFICES ASSUME exit = 0, NEW f \in File \ overlooked PROVE Removable(f) = {}
    BY DEF ExitZeroIsClean
  <2>1. ~run.error /\ run.failed = 0
    BY <1>1, <1>2 DEF ExitStatus
  <2>2. IsFiniteSet(Left(file))
    BY <1>2, LeftFinite DEF Left
  <2>3. Left(file) = {}
    <3>1. Cardinality(Left(file)) \in Nat
      BY <2>2, FS_CardinalityType
    <3>2. Cardinality(Left(file)) = 0
      BY <1>5, <2>1, <3>1
    <3> QED
      BY <2>2, <3>2, FS_EmptySet
  <2>4. \A k \in Removable(f) : <<f, k>> \in Left(file)
    BY <1>4
  <2> QED
    BY <2>3, <2>4
<1>8. FailuresHaveCauses
  <2> SUFFICES ASSUME faults = 0, exit = 1 PROVE Cause
    BY DEF FailuresHaveCauses, Cause, Odd
  <2>1. run.error \/ run.failed > 0
    BY <1>1 DEF ExitStatus
  <2> QED
    BY <1>1, <2>1 DEF Applies
<1> QED
  BY <1>6, <1>7, <1>8 DEF ExitTellsTruth

(* A run begins with nothing found.                                        *)
LEMMA BeginTells == Begin => Told'
<1> SUFFICES ASSUME Begin PROVE Told'
  OBVIOUS
<1>1. /\ run'.pc = "scan" /\ run'.found = {} /\ run'.failed = 0 /\ run'.error = FALSE /\ run'.scan = 1
      /\ run'.at = Nothing /\ misjudged' = {}
  BY DEF Begin, Idle
<1>2. IsFiniteSet({})
  BY FS_EmptySet
<1>3. 1..(1 - 1) = {}
  OBVIOUS
<1>4. Scans'
  BY <1>1, <1>3 DEF Scans, At
<1> QED
  BY <1>1, <1>2, <1>4 DEF Told, RunEnded, At

LEMMA ReadTells == IInv /\ Told /\ ReadScanned => Told'
<1> SUFFICES ASSUME IInv, Told, ReadScanned, calm' PROVE Told'
  BY DEF Told
<1>1. /\ run.pc = "scan" /\ run' = [run EXCEPT !.pc = "judge", !.buf = file[Scanned]]
      /\ UNCHANGED <<file, exists, installed, overlooked, misjudged, faults, calm>>
  BY DEF ReadScanned, OnlyRun, At, ghosts
<1>2. /\ run'.pc = "judge" /\ run'.buf = file[Scanned] /\ run'.scan = run.scan /\ run'.found = run.found
      /\ run'.failed = run.failed /\ run'.error = run.error
  BY <1>1 DEF IInv, TypeOK
<1>3. Scans /\ IsFiniteSet(run.found)
  BY <1>1 DEF Told, At
<1>4. Scans'
  BY <1>1, <1>2, <1>3 DEF Scans, At, Flagged, FindingsAt, Stale, Scanned
<1> QED
  BY <1>2, <1>3, <1>4 DEF Told, RunEnded, At

(* What is found in the file that was judged is stale, but for what was    *)
(* misjudged.                                                              *)
LEMMA JudgedTells ==
  ASSUME IInv, Told, At("judge"), Parses(Scanned, run.buf),
         UNCHANGED <<file, exists, installed, overlooked, calm>>,
         NEW wrong \in SUBSET Wrongful(Scanned, run.buf),
         Found(Flagged(Scanned, run.buf) \cup wrong), misjudged' = misjudged \cup wrong,
         faults' = 0 => faults = 0 /\ wrong = {}
  PROVE  Told'
<1> SUFFICES ASSUME calm' PROVE Told'
  BY DEF Told
<1> DEFINE f == Scanned
           right == Flagged(f, file[f])
           new == right \cup wrong
<1>1. /\ run.pc = "judge" /\ Parses(f, run.buf)
      /\ run' = [run EXCEPT !.pc = "scan", !.scan = @ + 1, !.buf = <<>>,
                            !.found = @ \cup (Flagged(f, run.buf) \cup wrong)]
  BY DEF Found, At
<1>2. Scans /\ IsFiniteSet(run.found) /\ run.buf = file[f]
  BY <1>1 DEF Told, Scans, At
<1>3. f \in File /\ file[f] \in Seq(Entry) /\ run.scan \in 1..Len(ScanOrder) /\ Len(ScanOrder) \in Nat
  BY <1>1, Bounds DEF IInv, TypeOK, At, Scanning
<1>4. /\ run'.pc = "scan" /\ run'.scan = run.scan + 1 /\ run'.found = run.found \cup new
      /\ run'.failed = run.failed /\ run'.error = run.error
  BY <1>1, <1>2 DEF IInv, TypeOK
<1>5. IsFiniteSet(run'.found)
  <2>1. IsFiniteSet(new)
    BY <1>2, <1>3, FindingsFinite
  <2> HIDE DEF new
  <2>2. IsFiniteSet(run.found \cup new)
    BY <1>2, <2>1, FS_Union
  <2> QED
    BY <1>4, <2>2
<1>6. (\A x \in right : x.file = f) /\ (\A x \in wrong : x.file = f /\ x \notin Flagged(f, file[f]))
  BY <1>2, <1>3, WrongfulType DEF Flagged, FindingsAt
<1>7. Scans'
  <2>1. ASSUME NEW x \in run'.found
        PROVE  /\ Parses(x.file, file[x.file])
               /\ x \in misjudged' \/ x \in Flagged(x.file, file[x.file])
    BY <1>1, <1>2, <1>4, <1>6 DEF Scans
  <2>2. ASSUME ~run'.error, NEW i \in 1..(run'.scan - 1)
        PROVE  ScanOrder[i] \in overlooked \/ Flagged(ScanOrder[i], file[ScanOrder[i]]) \subseteq run'.found
    <3>1. i \in 1..(run.scan - 1) \/ i = run.scan
      BY <1>3, <1>4
    <3>2. i = run.scan => ScanOrder[i] = f
      BY DEF Scanned
    <3> QED
      BY <1>2, <1>4, <2>2, <3>1, <3>2 DEF Scans
  <2>3. ASSUME run'.error, faults' = 0
        PROVE  \E g \in File : ~Parses(g, file[g]) /\ \A j \in run'.scan..Len(ScanOrder) : ToolOf[ScanOrder[j]] # ToolOf[g]
    <3>1. \A j \in run'.scan..Len(ScanOrder) : j \in run.scan..Len(ScanOrder)
      BY <1>3, <1>4
    <3> QED
      BY <1>2, <1>4, <2>3, <3>1 DEF Scans
  <2>4. \A x \in misjudged' : x \notin Flagged(x.file, file[x.file])
    BY <1>2, <1>6 DEF Scans
  <2>5. faults' = 0 => misjudged' = {}
    BY <1>2 DEF Scans
  <2> HIDE DEF right
  <2>6. /\ \A g, c : (Parses(g, c))' = Parses(g, c)
        /\ \A g, c : (Flagged(g, c))' = Flagged(g, c)
    BY DEF Parses, Flagged, FindingsAt, Registrations, Stale
  <2> QED
    BY <1>2, <1>4, <2>1, <2>2, <2>3, <2>4, <2>5, <2>6 DEF Scans, At
<1> QED
  BY <1>4, <1>5, <1>7 DEF Told, RunEnded, At

LEMMA JudgeTells == IInv /\ Told /\ (Judge \/ Misjudge) => Told'
<1> SUFFICES ASSUME IInv, Told, Judge \/ Misjudge PROVE Told'
  OBVIOUS
<1>1. CASE Judge
  <2>1. /\ {} \in SUBSET Wrongful(Scanned, run.buf)
        /\ Flagged(Scanned, run.buf) = Flagged(Scanned, run.buf) \cup {}
        /\ misjudged' = misjudged \cup {}
    BY <1>1 DEF Judge, OnlyRun, ghosts
  <2>2. Found(Flagged(Scanned, run.buf) \cup {})
    BY <1>1, <2>1 DEF Judge
  <2> QED
    BY <1>1, <2>1, <2>2, JudgedTells DEF Judge, OnlyRun, ghosts
<1>2. CASE Misjudge
  <2>1. faults' # 0
    BY <1>2, Bounds DEF Misjudge, FaultCounted, IInv, TypeOK
  <2> QED
    BY <1>2, <2>1, JudgedTells DEF Misjudge
<1> QED
  BY <1>1, <1>2

(* A file whose stat fails is passed over, and no longer counted.          *)
LEMMA StatTells == IInv /\ Told /\ StatFails => Told'
<1> SUFFICES ASSUME IInv, Told, StatFails, calm' PROVE Told'
  BY DEF Told
<1>1. /\ run.pc = "scan" /\ run' = [run EXCEPT !.scan = @ + 1] /\ overlooked' = overlooked \cup {Scanned}
      /\ UNCHANGED <<file, exists, installed, misjudged, calm>>
  BY DEF StatFails, At
<1>2. Scans /\ IsFiniteSet(run.found)
  BY <1>1 DEF Told, At
<1>3. /\ run'.pc = "scan" /\ run'.scan = run.scan + 1 /\ run'.found = run.found
      /\ run'.failed = run.failed /\ run'.error = run.error
  BY <1>1 DEF IInv, TypeOK
<1>4. faults' # 0 /\ run.scan \in 1..Len(ScanOrder)
  BY Bounds DEF StatFails, FaultCounted, Scanning, IInv, TypeOK
<1>5. ASSUME ~run'.error, NEW i \in 1..(run'.scan - 1)
      PROVE  ScanOrder[i] \in overlooked' \/ Flagged(ScanOrder[i], file[ScanOrder[i]]) \subseteq run'.found
  <2>1. i \in 1..(run.scan - 1) \/ i = run.scan
    BY <1>3, <1>4
  <2>2. i = run.scan => ScanOrder[i] \in overlooked'
    BY <1>1 DEF Scanned
  <2> QED
    BY <1>1, <1>2, <1>3, <1>5, <2>1, <2>2 DEF Scans
<1>6. /\ \A g, c : (Parses(g, c))' = Parses(g, c)
      /\ \A g, c : (Flagged(g, c))' = Flagged(g, c)
  BY <1>1 DEF Parses, Flagged, FindingsAt, Registrations, Stale
<1>7. Scans'
  BY <1>1, <1>2, <1>3, <1>4, <1>5, <1>6 DEF Scans, At
<1> QED
  BY <1>2, <1>3, <1>7 DEF Told, RunEnded, At

(* A tool is given up: its files are read no more.                         *)
LEMMA DropTells ==
  ASSUME IInv, Told, At("judge"), DropTool, OnlyRun,
         (~Parses(Scanned, run.buf) /\ faults' = faults) \/ faults' # 0
  PROVE  Told'
<1> SUFFICES ASSUME calm' PROVE Told'
  BY DEF Told
<1> DEFINE f == Scanned
           kept == {x \in run.found : ~OfThisTool(x.file)}
<1>1. PICK n \in (run.scan + 1)..(Len(ScanOrder) + 1) :
        /\ NextTool(n)
        /\ run' = [run EXCEPT !.pc = "scan", !.scan = n, !.buf = <<>>, !.found = kept, !.error = TRUE]
  BY DEF DropTool, IInv, TypeOK
<1>2. run.pc = "judge" /\ UNCHANGED <<file, exists, installed, overlooked, misjudged, calm>>
  BY DEF OnlyRun, At, ghosts
<1>3. Scans /\ IsFiniteSet(run.found) /\ run.buf = file[f]
  BY <1>2 DEF Told, Scans, At
<1>4. f \in File /\ run.scan \in 1..Len(ScanOrder) /\ Len(ScanOrder) \in Nat /\ f = ScanOrder[run.scan]
  BY <1>2, Bounds DEF IInv, TypeOK, At, Scanning, Scanned
<1> HIDE DEF kept
<1>5. run'.pc = "scan" /\ run'.scan = n /\ run'.found = kept /\ run'.failed = run.failed /\ run'.error = TRUE
  BY <1>1 DEF IInv, TypeOK
<1>6. kept \subseteq run.found /\ IsFiniteSet(kept)
  BY <1>3, FS_Subset DEF kept
<1>7. \A j \in n..Len(ScanOrder) : ToolOf[ScanOrder[j]] # ToolOf[f]
  <2> SUFFICES ASSUME NEW j \in n..Len(ScanOrder), ToolOf[ScanOrder[j]] = ToolOf[f] PROVE FALSE
    OBVIOUS
  <2>1. /\ n \in 1..Len(ScanOrder) /\ j \in 1..Len(ScanOrder) /\ run.scan <= n /\ n <= j
        /\ n <= Len(ScanOrder)
    BY <1>1, <1>4
  <2>2. ToolOf[ScanOrder[n]] = ToolOf[ScanOrder[j]]
    <3>1. \A i, m, k \in 1..Len(ScanOrder) :
            i <= m /\ m <= k /\ ToolOf[ScanOrder[i]] = ToolOf[ScanOrder[k]] =>
              ToolOf[ScanOrder[m]] = ToolOf[ScanOrder[k]]
      BY ExtcleanAssumption
    <3>2. ToolOf[ScanOrder[run.scan]] = ToolOf[ScanOrder[j]]
      BY <1>4
    <3> QED
      BY <1>4, <2>1, <3>1, <3>2
  <2>3. ToolOf[ScanOrder[n]] # ToolOf[f]
    BY <1>1, <2>1 DEF NextTool, OfThisTool
  <2> QED
    BY <2>2, <2>3
<1>8. Scans'
  <2>1. ASSUME faults' = 0
        PROVE  \E g \in File : ~Parses(g, file[g]) /\ \A j \in run'.scan..Len(ScanOrder) : ToolOf[ScanOrder[j]] # ToolOf[g]
    BY <1>3, <1>4, <1>5, <1>7, <2>1
  <2>2. /\ \A x \in run'.found :
             Parses(x.file, file[x.file]) /\ (x \in misjudged \/ x \in Flagged(x.file, file[x.file]))
        /\ \A x \in misjudged : x \notin Flagged(x.file, file[x.file])
    BY <1>3, <1>5, <1>6 DEF Scans
  <2>3. run'.failed = 0 /\ (faults' = 0 => misjudged = {})
    BY <1>3, <1>5 DEF Scans
  <2>4. /\ \A g, c : (Parses(g, c))' = Parses(g, c)
        /\ \A g, c : (Flagged(g, c))' = Flagged(g, c)
    BY <1>2 DEF Parses, Flagged, FindingsAt, Registrations, Stale
  <2> QED
    BY <1>2, <1>5, <2>1, <2>2, <2>3, <2>4 DEF Scans, At
<1> QED
  BY <1>5, <1>6, <1>8 DEF Told, RunEnded, At

(* What is stale in a file that was scanned was found.                     *)
LEMMA AllFound ==
  ASSUME IInv, Scans, ~run.error, run.scan = Len(ScanOrder) + 1, IsFiniteSet(run.found)
  PROVE  Cardinality(Left(file)) <= Cardinality(Owed)
<1> DEFINE as(p) == [file |-> p[1], id |-> file[p[1]][p[2]].id, place |-> p[2]]
           g == [p \in Left(file) |-> as(p)]
<1>1. ASSUME NEW p \in Left(file)
      PROVE  as(p) \in Owed /\ p = <<as(p).file, as(p).place>>
  <2>1. PICK f \in File \ overlooked : p \in {f} \X Outdated(f, file[f])
    BY DEF Left
  <2>2. PICK k \in Outdated(f, file[f]) : p = <<f, k>>
    BY <2>1
  <2>3. as(p) = [file |-> f, id |-> file[f][k].id, place |-> k]
    BY <2>2
  <2>4. as(p) \in Flagged(f, file[f])
    BY <2>3 DEF Outdated, Flagged, FindingsAt, Registrations
  <2>5. PICK i \in 1..Len(ScanOrder) : ScanOrder[i] = f
    BY ExtcleanAssumption
  <2>6. i \in 1..(run.scan - 1)
    BY Bounds
  <2>7. as(p) \in run.found /\ as(p) \notin misjudged
    BY <2>3, <2>4, <2>5, <2>6 DEF Scans
  <2> QED
    BY <2>2, <2>3, <2>7 DEF Owed
<1>2. g \in Injection(Left(file), Owed)
  <2> HIDE DEF as
  <2>1. g \in [Left(file) -> Owed]
    BY <1>1
  <2>2. \A p, q \in Left(file) : g[p] = g[q] => p = q
    BY <1>1
  <2> QED
    BY <2>1, <2>2 DEF Injection, IsInjective
<1>3. IsFiniteSet(Owed)
  <2>1. Owed \in SUBSET run.found
    BY DEF Owed
  <2> QED
    BY <2>1, FS_Subset
<1> HIDE DEF g
<1> QED
  BY <1>2, <1>3, FS_Injection

(* Files are what they will be unless a removal is under way.              *)
LEMMA CurrentIs ==
  ASSUME file \in [File -> Seq(Entry)]
  PROVE  run.at = Nothing => Current = file
BY DEF Current, InWindow

LEMMA LeftThen ==
  ASSUME UNCHANGED <<exists, installed, overlooked>>
  PROVE  Left(Current)' = Left(Current')
BY DEF Left, Outdated, Stale

LEMMA ScanTells == (\A f \in File : Kind[f] # "name") /\ IInv /\ Told /\ ScanDone => Told'
<1> SUFFICES ASSUME \A f \in File : Kind[f] # "name", IInv, Told, ScanDone, calm' PROVE Told'
  BY DEF Told
<1>1. /\ run.pc = "scan" /\ run' = [run EXCEPT !.pc = "apply"]
      /\ UNCHANGED <<file, exists, installed, overlooked, misjudged, faults, calm>>
  BY DEF ScanDone, OnlyRun, At, ghosts
<1>2. Scans /\ IsFiniteSet(run.found)
  BY <1>1 DEF Told, At
<1>3. /\ file \in [File -> Seq(Entry)] /\ run.found \in SUBSET Finding /\ run.at = Nothing
      /\ exists \subseteq Name
  BY <1>1 DEF IInv, TypeOK, At
<1>4. run.scan = Len(ScanOrder) + 1
  BY <1>1, Bounds DEF IInv, TypeOK, ScanDone, Scanning
<1>5. /\ run'.pc = "apply" /\ run'.found = run.found /\ run'.at = Nothing
      /\ run'.failed = 0 /\ run'.error = run.error
  BY <1>1, <1>2, <1>3 DEF IInv, TypeOK, Scans
<1>6. Current' = file /\ Left(Current)' = Left(file)
  <2>1. Current' = file
    BY <1>1, <1>3, <1>5 DEF Current, InWindow
  <2> QED
    BY <1>1, <2>1, LeftThen
<1>7. ASSUME NEW x \in run.found
      PROVE  /\ Parses(x.file, file[x.file])
             /\ x \in misjudged \/ x \in Flagged(x.file, file[x.file])
             /\ x.file \in File /\ file[x.file] \in Seq(Entry)
             /\ x \in misjudged \/ Deserved(x)
  <2>1. x.file \in File /\ file[x.file] \in Seq(Entry)
    BY <1>3 DEF Finding
  <2>2. Parses(x.file, file[x.file]) /\ (x \in misjudged \/ x \in Flagged(x.file, file[x.file]))
    BY <1>2 DEF Scans
  <2>3. WellFormed(x.file, file[x.file])
    BY <2>1 DEF IInv, Shaped
  <2>4. Kind[x.file] \in {"value", "key", "table"}
    BY <2>1, ExtcleanAssumption
  <2> QED
    BY <1>3, <2>1, <2>2, <2>3, <2>4, NotFlagged DEF Deserved
<1>8. ASSUME ~run.error PROVE Cardinality(Left(file)) <= 0 + Cardinality(Owed)
  <2>1. Cardinality(Owed) \in Nat
    <3>1. Owed \in SUBSET run.found
      BY DEF Owed
    <3> QED
      BY <1>2, <3>1, FS_Subset, FS_CardinalityType
  <2> QED
    BY <1>2, <1>4, <1>8, <2>1, AllFound
<1>9. ASSUME faults = 0, run.error PROVE Cause
  BY <1>2, <1>9 DEF Scans, Cause
<1>10. ASSUME faults = 0, NEW x \in run.found
       PROVE  \/ Odd(x.file, file[x.file])
              \/ Cardinality(Of(x)) <= Cardinality(Matches(file[x.file], x.id))
  <2>1. misjudged = {}
    BY <1>2, <1>10 DEF Scans
  <2>2. Of(x) \in SUBSET Flagged(x.file, file[x.file]) /\ \A y \in Of(x) : y.id = x.id
    BY <1>7, <2>1 DEF Of
  <2> QED
    BY <1>7, <2>2, FoundAgain
<1>11. Applies'
  <2>1. Pending' = run.found /\ Owed' = Owed
    BY <1>1, <1>5 DEF Pending, Owed
  <2>2. \A x : Of(x)' = Of(x) /\ Deserved(x)' = Deserved(x)
    BY <1>1, <1>5 DEF Of, Deserved, Stale
  <2>3. \A f, c : Odd(f, c)' = Odd(f, c)
    BY <1>1 DEF Odd, Stale, Registrations
  <2>4. Cause' = Cause
    BY <1>1 DEF Cause, Odd, Stale, Registrations, Parses
  <2>5. /\ \A x \in Pending' : Parses(x.file, file'[x.file]) /\ (x \in misjudged' \/ Deserved(x))
        /\ ~run'.error => Cardinality(Left(Current)') <= run'.failed + Cardinality(Owed')
        /\ faults' = 0 => (run'.error \/ run'.failed > 0 => Cause')
    BY <1>1, <1>5, <1>6, <1>7, <1>8, <1>9, <2>1, <2>4
  <2>6. faults' = 0 =>
          \A x \in run'.found :
            \/ Odd(x.file, Current'[x.file])
            \/ Cardinality(Of(x)) <= Cardinality(Matches(Current'[x.file], x.id))
    BY <1>1, <1>5, <1>6, <1>10
  <2> QED
    BY <1>5, <2>2, <2>3, <2>5, <2>6 DEF Applies, Parses, Matches
<1> QED
  BY <1>2, <1>5, <1>11 DEF Told, RunEnded, At

(* A removal leaves one match of its own identity less.                    *)
LEMMA MatchesLess ==
  ASSUME NEW content \in Seq(Entry), NEW id, NEW i \in Matches(content, id), NEW other
  PROVE  /\ Cardinality(Matches(content, other)) \in Nat
         /\ Cardinality(Matches(RemoveAt(content, i), other)) =
              Cardinality(Matches(content, other)) - (IF other = id THEN 1 ELSE 0)
<1> DEFINE those == {e \in Entry : e.id = other /\ e.form = "plain"}
<1>1. i \in DOMAIN content /\ content[i].id = id /\ content[i].form = "plain"
  BY DEF Matches
<1>2. RemoveAt(content, i) \in Seq(Entry)
  BY <1>1, Removed
<1>3. \A c \in Seq(Entry) : Matches(c, other) = Places(c, those)
  <2> TAKE c \in Seq(Entry)
  <2>1. \A k \in DOMAIN c : c[k] \in Entry
    OBVIOUS
  <2> QED
    BY <2>1 DEF Matches, Places
<1>4. content[i] \in those <=> other = id
  BY <1>1
<1> HIDE DEF those
<1> QED
  BY <1>1, <1>2, <1>3, <1>4, OneLess, PlacesFinite

(* The finding a removal is about, among the others of its identity.       *)
LEMMA OfLess ==
  ASSUME IsFiniteSet(run.found), NEW x \in run.found, NEW y \in run.found,
         run'.found = run.found \ {x}
  PROVE  /\ Cardinality(Of(y)) \in Nat /\ Cardinality(Of(y)') \in Nat
         /\ Cardinality(Of(y)') <= Cardinality(Of(y))
         /\ y.file = x.file /\ y.id = x.id => Cardinality(Of(y)') = Cardinality(Of(y)) - 1
<1>1. Of(y) \in SUBSET run.found
  BY DEF Of
<1>2. IsFiniteSet(Of(y)) /\ Cardinality(Of(y)) \in Nat
  BY <1>1, FS_Subset, FS_CardinalityType
<1>3. Of(y)' \in SUBSET Of(y)
  BY DEF Of
<1>4. IsFiniteSet(Of(y)') /\ Cardinality(Of(y)') \in Nat /\ Cardinality(Of(y)') <= Cardinality(Of(y))
  BY <1>2, <1>3, FS_Subset, FS_CardinalityType
<1>5. ASSUME y.file = x.file, y.id = x.id PROVE Cardinality(Of(y)') = Cardinality(Of(y)) - 1
  <2>1. Of(y)' = Of(y) \ {x} /\ x \in Of(y)
    BY <1>5 DEF Of
  <2> QED
    BY <1>2, <2>1, FS_RemoveElement
<1> QED
  BY <1>2, <1>4, <1>5

(* Without faults a finding that is not found again is about a table that  *)
(* is spelled differently.                                                 *)
LEMMA NotFound ==
  ASSUME IInv, Applies, At("apply"), faults = 0, IsFiniteSet(run.found), NEW x \in run.found,
         ~Located(x.file, file[x.file], x.id)
  PROVE  Cause
<1> DEFINE f == x.file
           M == Matches(file[f], x.id)
<1>1. run.at = Nothing /\ file \in [File -> Seq(Entry)] /\ x \in Finding /\ f \in File
  BY DEF IInv, TypeOK, At, Finding
<1>2. Current[f] = file[f] /\ Parses(f, file[f])
  BY <1>1, CurrentIs, ExtcleanAssumption DEF Applies, Pending
<1>3. Odd(f, file[f]) \/ Cardinality(Of(x)) <= Cardinality(M)
  BY <1>2 DEF Applies
<1>4. ASSUME Cardinality(Of(x)) <= Cardinality(M) PROVE FALSE
  <2>1. IsFiniteSet(Of(x)) /\ x \in Of(x)
    <3>1. Of(x) \in SUBSET run.found
      BY DEF Of
    <3> QED
      BY <3>1, FS_Subset DEF Of
  <2>2. Cardinality(Of(x)) \in Nat /\ Cardinality(Of(x)) # 0
    BY <2>1, FS_CardinalityType, FS_EmptySet
  <2>3. M # {}
    <3>1. Cardinality({}) = 0
      BY FS_EmptySet
    <3> HIDE DEF M
    <3> QED
      BY <1>4, <2>2, <3>1
  <2>4. Kind[f] = "table" /\ Cardinality(M) # 1
    BY <2>3 DEF Located
  <2>5. PICK i \in M : TRUE
    BY <2>3
  <2>6. \A j \in M : j = i
    BY <1>2, <2>4, <2>5 DEF Parses, Matches
  <2>7. M = {i}
    BY <2>5, <2>6
  <2> HIDE DEF M
  <2> QED
    BY <2>4, <2>7, FS_Singleton
<1> QED
  BY <1>1, <1>3, <1>4 DEF Cause

LEMMA EditTells == IInv /\ Told /\ ReadAndEdit => Told'
<1> SUFFICES ASSUME IInv, Told, ReadAndEdit, calm' PROVE Told'
  BY DEF Told
<1>1. PICK x \in NextFindings :
        run' = IF Located(x.file, file[x.file], x.id)
               THEN [run EXCEPT !.pc = "create", !.found = @ \ {x}, !.at = x,
                                !.buf = Without(file[x.file], x.id)]
               ELSE [run EXCEPT !.found = @ \ {x}, !.failed = @ + 1]
  BY DEF ReadAndEdit
<1> DEFINE f == x.file
           content == file[f]
<1>2. run.pc = "apply" /\ At("apply") /\ UNCHANGED <<file, exists, installed, overlooked, misjudged, faults, calm>>
  BY DEF ReadAndEdit, OnlyRun, At, ghosts
<1>3. Applies /\ IsFiniteSet(run.found)
  BY <1>2 DEF Told
<1>4. /\ run.at = Nothing /\ file \in [File -> Seq(Entry)] /\ run.found \in SUBSET Finding
      /\ run.failed \in Nat /\ run.error \in BOOLEAN
  BY <1>2 DEF IInv, TypeOK, At
<1>5. x \in run.found /\ x \in Finding /\ f \in File /\ content \in Seq(Entry) /\ x # Nothing
  BY <1>4, ExtcleanAssumption DEF NextFindings, Finding
<1>6. Current = file /\ Pending = run.found
  BY <1>4, CurrentIs DEF Pending
<1>7. run'.found = run.found \ {x} /\ run'.error = run.error
  BY <1>1 DEF IInv, TypeOK
<1>8. /\ IsFiniteSet(run'.found) /\ Cardinality(Owed) \in Nat /\ Cardinality(Owed') \in Nat
      /\ Cardinality(Owed') = Cardinality(Owed) - (IF x \in Owed THEN 1 ELSE 0)
  <2>1. Owed' = Owed \ {x} /\ Owed \in SUBSET run.found
    BY <1>2, <1>7 DEF Owed
  <2>2. IsFiniteSet(run'.found) /\ IsFiniteSet(Owed) /\ Cardinality(Owed) \in Nat
    BY <1>3, <1>7, <2>1, FS_RemoveElement, FS_Subset, FS_CardinalityType
  <2>3. x \notin Owed => Owed' = Owed
    BY <2>1
  <2>4. x \in Owed => Cardinality(Owed') = Cardinality(Owed) - 1
    BY <2>1, <2>2, FS_RemoveElement
  <2>5. IsFiniteSet(Owed') /\ Cardinality(Owed') \in Nat
    BY <2>1, <2>2, FS_RemoveElement, FS_CardinalityType
  <2> QED
    BY <2>2, <2>3, <2>4, <2>5
<1>9. \A y \in run.found :
        /\ Cardinality(Of(y)) \in Nat /\ Cardinality(Of(y)') \in Nat
        /\ Cardinality(Of(y)') <= Cardinality(Of(y))
        /\ y.file = f /\ y.id = x.id => Cardinality(Of(y)') = Cardinality(Of(y)) - 1
  BY <1>3, <1>5, <1>7, OfLess
<1>10. /\ \A g, c : Odd(g, c)' = Odd(g, c)
       /\ \A y : Deserved(y)' = Deserved(y)
       /\ Cause' = Cause /\ Left(Current)' = Left(Current')
  BY <1>2, LeftThen DEF Odd, Stale, Registrations, Cause, Parses, Deserved
<1>11. IsFiniteSet(Left(file)) /\ Cardinality(Left(file)) \in Nat
  <2>1. IsFiniteSet(Left(file))
    BY <1>4, LeftFinite DEF Left
  <2> QED
    BY <2>1, FS_CardinalityType
<1>12. CASE ~Located(f, content, x.id)
  <2>1. run'.failed = run.failed + 1 /\ run'.at = Nothing /\ run'.pc = "apply"
    BY <1>1, <1>2, <1>4, <1>12 DEF IInv, TypeOK
  <2>2. Current' = file /\ Pending' \subseteq Pending
    BY <1>2, <1>4, <1>6, <1>7, <2>1 DEF Current, InWindow, Pending
  <2>3. faults = 0 => Cause
    BY <1>2, <1>3, <1>5, <1>12, NotFound
  <2>4. ~run'.error => Cardinality(Left(Current)') <= run'.failed + Cardinality(Owed')
    <3>1. ~run.error => Cardinality(Left(file)) <= run.failed + Cardinality(Owed)
      BY <1>3, <1>6 DEF Applies
    <3>2. Cardinality(Left(Current)') = Cardinality(Left(file))
      BY <1>10, <2>2
    <3> QED
      BY <1>4, <1>7, <1>8, <1>11, <2>1, <3>1, <3>2
  <2>5. \A y \in Pending' : Parses(y.file, file[y.file]) /\ (y \in misjudged \/ Deserved(y))
    BY <1>3, <2>2 DEF Applies
  <2>6. faults = 0 => \A y \in run'.found :
          \/ Odd(y.file, file[y.file])
          \/ Cardinality(Of(y)') <= Cardinality(Matches(file[y.file], y.id))
    <3> SUFFICES ASSUME faults = 0, NEW y \in run'.found, ~Odd(y.file, file[y.file])
                 PROVE  Cardinality(Of(y)') <= Cardinality(Matches(file[y.file], y.id))
      OBVIOUS
    <3>1. y \in run.found /\ y.file \in File /\ file[y.file] \in Seq(Entry)
      BY <1>4, <1>7 DEF Finding
    <3>2. Cardinality(Of(y)) <= Cardinality(Matches(file[y.file], y.id))
      BY <1>3, <1>6, <3>1 DEF Applies
    <3>3. Cardinality(Matches(file[y.file], y.id)) \in Nat
      BY <3>1, MatchesFinite
    <3> QED
      BY <1>9, <3>1, <3>2, <3>3
  <2>7. Applies'
    BY <1>2, <1>10, <2>1, <2>2, <2>3, <2>4, <2>5, <2>6 DEF Applies, Parses, Matches
  <2> QED
    BY <1>8, <2>1, <2>7 DEF Told, RunEnded, At
<1>13. CASE Located(f, content, x.id)
  <2> DEFINE buf == Without(content, x.id)
  <2>1. /\ run'.failed = run.failed /\ run'.at = x /\ run'.pc = "create" /\ run'.buf = buf
    BY <1>1, <1>13 DEF IInv, TypeOK
  <2>2. PICK i \in Matches(content, x.id) : buf = RemoveAt(content, i)
    BY <1>5, <1>13, WithoutIs DEF Located
  <2>3. /\ i \in DOMAIN content /\ content[i].id = x.id /\ content[i].form = "plain"
        /\ x \in Owed => f \notin overlooked /\ Stale(f, content[i])
    <3>1. i \in DOMAIN content /\ content[i].id = x.id /\ content[i].form = "plain"
      BY DEF Matches
    <3>2. content[i] \in Range(content)
      BY <3>1 DEF Range
    <3> QED
      BY <1>3, <1>5, <1>6, <3>1, <3>2 DEF Applies, Deserved, Owed
  <2> HIDE DEF buf
  <2>4. Current' = [file EXCEPT ![f] = buf]
    <3>1. \A g \in File : InWindow(g)' <=> g = f
      BY <1>5, <2>1 DEF InWindow
    <3> QED
      BY <1>2, <1>4, <2>1, <3>1 DEF Current
  <2>5. /\ Cardinality(Left(Current')) \in Nat /\ Cardinality(Left(Current')) <= Cardinality(Left(file))
        /\ x \in Owed => Cardinality(Left(Current')) = Cardinality(Left(file)) - 1
    <3>1. content[i].form # "subtable"
      BY <2>3
    <3> DEFINE then == [file EXCEPT ![f] = RemoveAt(content, i)]
    <3>2. /\ Cardinality(Left(then)) \in Nat /\ Cardinality(Left(then)) <= Cardinality(Left(file))
          /\ f \notin overlooked /\ content[i].form # "subtable" /\ Stale(f, content[i]) =>
               Cardinality(Left(then)) = Cardinality(Left(file)) - 1
      BY <1>4, <1>5, <2>3, LeftLess
    <3>3. Current' = then
      BY <2>2, <2>4
    <3> HIDE DEF then
    <3> QED
      BY <2>3, <3>1, <3>2, <3>3
  <2>6. Pending' \subseteq Pending
    BY <1>5, <1>6, <1>7, <2>1 DEF Pending
  <2>7. ~run'.error => Cardinality(Left(Current)') <= run'.failed + Cardinality(Owed')
    <3>1. ~run.error => Cardinality(Left(file)) <= run.failed + Cardinality(Owed)
      BY <1>3, <1>6 DEF Applies
    <3> QED
      BY <1>4, <1>7, <1>8, <1>10, <1>11, <2>1, <2>5, <3>1
  <2>8. \A y \in Pending' : Parses(y.file, file[y.file]) /\ (y \in misjudged \/ Deserved(y))
    BY <1>3, <2>6 DEF Applies
  <2>9. faults = 0 => \A y \in run'.found :
          \/ Odd(y.file, Current'[y.file])
          \/ Cardinality(Of(y)') <= Cardinality(Matches(Current'[y.file], y.id))
    <3> SUFFICES ASSUME faults = 0, NEW y \in run'.found, ~Odd(y.file, Current'[y.file])
                 PROVE  Cardinality(Of(y)') <= Cardinality(Matches(Current'[y.file], y.id))
      OBVIOUS
    <3>1. y \in run.found /\ y.file \in File /\ file[y.file] \in Seq(Entry)
      BY <1>4, <1>7 DEF Finding
    <3>2. ~Odd(y.file, file[y.file])
      <4>1. y.file = f => Current'[y.file] = RemoveAt(content, i)
        BY <1>4, <2>2, <2>4, <3>1
      <4>2. y.file # f => Current'[y.file] = file[y.file]
        BY <2>4, <3>1, <1>4
      <4> QED
        BY <1>5, <2>3, <4>1, <4>2, StillSo
    <3>3. Cardinality(Of(y)) <= Cardinality(Matches(file[y.file], y.id))
      BY <1>3, <1>6, <3>1, <3>2 DEF Applies
    <3>4. CASE y.file # f
      <4>1. Current'[y.file] = file[y.file]
        BY <1>4, <2>4, <3>1, <3>4
      <4>2. Cardinality(Matches(file[y.file], y.id)) \in Nat
        BY <3>1, MatchesFinite
      <4> QED
        BY <1>9, <3>1, <3>3, <4>1, <4>2
    <3>5. CASE y.file = f
      <4>1. Current'[y.file] = RemoveAt(content, i)
        BY <1>4, <2>2, <2>4, <3>1, <3>5
      <4>2. /\ Cardinality(Matches(content, y.id)) \in Nat
            /\ Cardinality(Matches(RemoveAt(content, i), y.id)) =
                 Cardinality(Matches(content, y.id)) - (IF y.id = x.id THEN 1 ELSE 0)
        BY <1>5, MatchesLess
      <4> QED
        BY <1>9, <3>1, <3>3, <3>5, <4>1, <4>2
    <3> QED
      BY <3>4, <3>5
  <2>10. faults = 0 /\ (run.error \/ run.failed > 0) => Cause
    BY <1>3 DEF Applies
  <2>11. Applies'
    <3>1. /\ run'.at = x /\ file' = file
          /\ Located(x.file, file[x.file], x.id) /\ run'.buf = Without(file[x.file], x.id)
      BY <1>2, <1>13, <2>1 DEF buf
    <3>2. (run.at # Nothing =>
             /\ Located(run.at.file, file[run.at.file], run.at.id)
             /\ run.buf = Without(file[run.at.file], run.at.id))'
      BY <3>1 DEF Located, Matches, Without
    <3>3. (\A y \in Pending : Parses(y.file, file[y.file]) /\ (y \in misjudged \/ Deserved(y)))'
      BY <1>2, <1>10, <2>8 DEF Parses
    <3>4. (~run.error => Cardinality(Left(Current)) <= run.failed + Cardinality(Owed))'
      BY <2>7
    <3>5. (faults = 0 =>
             /\ run.error \/ run.failed > 0 => Cause
             /\ \A y \in run.found :
                  \/ Odd(y.file, Current[y.file])
                  \/ Cardinality(Of(y)) <= Cardinality(Matches(Current[y.file], y.id)))'
      BY <1>2, <1>7, <1>10, <2>1, <2>9, <2>10 DEF Matches
    <3> QED
      BY <3>2, <3>3, <3>4, <3>5 DEF Applies
  <2> QED
    BY <1>8, <2>1, <2>11 DEF Told, RunEnded, At
<1> QED
  BY <1>12, <1>13

(* Steps that change nothing that counts.                                  *)
LEMMA AppliesStays ==
  ASSUME Applies, UNCHANGED <<file, exists, installed, overlooked, misjudged, faults>>,
         run'.found = run.found, run'.at = run.at, run'.buf = run.buf,
         run'.failed = run.failed, run'.error = run.error
  PROVE  Applies'
<1>1. Current' = Current /\ Left(Current)' = Left(Current) /\ Pending' = Pending /\ Cause' = Cause
  <2>1. Current' = Current
    BY DEF Current, InWindow
  <2> QED
    BY <2>1, LeftThen DEF Pending, Cause, Parses, Odd, Registrations, Stale
<1>2. /\ \A x : Of(x)' = Of(x) /\ Deserved(x)' = Deserved(x)
      /\ \A f, c : Odd(f, c)' = Odd(f, c)
      /\ Owed' = Owed
  BY DEF Of, Odd, Registrations, Stale, Deserved, Owed
<1>3. (\A x \in Pending : Parses(x.file, file[x.file]) /\ (x \in misjudged \/ Deserved(x)))'
  <2>1. \A x \in Pending' : Parses(x.file, file[x.file]) /\ (x \in misjudged \/ Deserved(x))
    BY <1>1 DEF Applies
  <2> QED
    BY <1>2, <2>1 DEF Parses
<1>4. (run.at # Nothing =>
         /\ Located(run.at.file, file[run.at.file], run.at.id)
         /\ run.buf = Without(file[run.at.file], run.at.id))'
  BY DEF Applies, Located, Matches, Without
<1>5. (~run.error => Cardinality(Left(Current)) <= run.failed + Cardinality(Owed))'
  BY <1>1, <1>2 DEF Applies
<1>6. (faults = 0 =>
         /\ run.error \/ run.failed > 0 => Cause
         /\ \A x \in run.found :
              \/ Odd(x.file, Current[x.file])
              \/ Cardinality(Of(x)) <= Cardinality(Matches(Current[x.file], x.id)))'
  <2>1. faults' = 0 =>
         /\ run'.error \/ run'.failed > 0 => Cause'
         /\ \A x \in run'.found :
              \/ Odd(x.file, Current'[x.file])
              \/ Cardinality(Of(x)) <= Cardinality(Matches(Current'[x.file], x.id))
    BY <1>1 DEF Applies
  <2> QED
    BY <1>2, <2>1 DEF Matches
<1> QED
  BY <1>3, <1>4, <1>5, <1>6 DEF Applies

(* Until the rename nothing that counts is changed.                        *)
LEMMA TmpTells == IInv /\ Told /\ (CreateTmp \/ WriteTmp) => Told'
<1> SUFFICES ASSUME IInv, Told, CreateTmp \/ WriteTmp, calm' PROVE Told'
  BY DEF Told
<1>1. /\ run.pc \in {"create", "write"}
      /\ UNCHANGED <<file, exists, installed, overlooked, misjudged, faults, calm>>
      /\ run' = [run EXCEPT !.pc = "write"] \/ run' = [run EXCEPT !.pc = "rename"]
  BY DEF CreateTmp, WriteTmp, At, ghosts
<1>2. Applies /\ IsFiniteSet(run.found)
  BY <1>1 DEF Told
<1>3. /\ run'.pc \in {"write", "rename"} /\ run'.found = run.found /\ run'.at = run.at /\ run'.buf = run.buf
      /\ run'.failed = run.failed /\ run'.error = run.error
  BY <1>1 DEF IInv, TypeOK
<1>4. Applies'
  BY <1>1, <1>2, <1>3, AppliesStays
<1> QED
  BY <1>2, <1>3, <1>4 DEF Told, RunEnded, At

(* The entry that a removal under way takes out.                           *)
LEMMA Taken ==
  ASSUME IInv, Applies, run.at # Nothing
  PROVE  /\ run.at.file \in File
         /\ \E i \in DOMAIN file[run.at.file] :
              /\ run.buf = RemoveAt(file[run.at.file], i)
              /\ file[run.at.file][i].form = "plain"
         /\ Current = [file EXCEPT ![run.at.file] = run.buf]
<1> DEFINE f == run.at.file
           content == file[f]
<1>1. run.at \in Finding /\ f \in File /\ file \in [File -> Seq(Entry)] /\ content \in Seq(Entry)
  BY DEF IInv, TypeOK, Finding
<1>2. PICK i \in Matches(content, run.at.id) : run.buf = RemoveAt(content, i)
  BY <1>1, WithoutIs DEF Applies, Located
<1>3. i \in DOMAIN content /\ content[i].id = run.at.id /\ content[i].form = "plain"
  BY <1>2 DEF Matches
<1>4. Current = [file EXCEPT ![f] = run.buf]
  <2>1. \A g \in File : InWindow(g) <=> g = f
    BY DEF InWindow
  <2>2. Current = [g \in File |-> IF g = f THEN run.buf ELSE file[g]]
    BY <2>1 DEF Current
  <2> QED
    BY <1>1, <2>2
<1> QED
  BY <1>1, <1>2, <1>3, <1>4

LEMMA RenameTells == IInv /\ Told /\ Rename => Told'
<1> SUFFICES ASSUME IInv, Told, Rename, calm' PROVE Told'
  BY DEF Told
<1> DEFINE f == run.at.file
<1>1. /\ run.pc = "rename" /\ UNCHANGED <<exists, installed, overlooked, misjudged, faults, calm>>
      /\ file' = [file EXCEPT ![f] = tmp[f]] /\ tmp[f] = run.buf /\ run.at # Nothing
      /\ run' = [run EXCEPT !.pc = "apply", !.at = Nothing, !.buf = <<>>, !.failed = @ + 0]
  BY DEF Rename, Failing, At, ghosts, IInv, Written, TypeOK
<1>2. Applies /\ IsFiniteSet(run.found)
  BY <1>1 DEF Told
<1>3. /\ file \in [File -> Seq(Entry)] /\ run.found \in SUBSET Finding /\ run.failed \in Nat
      /\ run.at \in Pending
  BY <1>1 DEF IInv, TypeOK, Pending
<1>4. /\ run'.pc = "apply" /\ run'.found = run.found /\ run'.at = Nothing /\ run'.failed = run.failed
      /\ run'.error = run.error
  BY <1>1 DEF IInv, TypeOK
<1>5. /\ f \in File /\ Current = [file EXCEPT ![f] = run.buf]
      /\ \E j \in DOMAIN file[f] :
           run.buf = RemoveAt(file[f], j) /\ file[f][j].form = "plain"
  BY <1>1, <1>2, Taken
<1>5a. PICK i \in DOMAIN file[f] : run.buf = RemoveAt(file[f], i) /\ file[f][i].form = "plain"
  BY <1>5
<1>6. file' = Current /\ Current' = Current /\ Left(Current)' = Left(Current)
  <2>1. file' = Current
    BY <1>1, <1>5
  <2>2. Current' = Current
    BY <1>3, <1>4, <2>1 DEF Current, InWindow
  <2> QED
    BY <1>1, <2>1, <2>2, LeftThen
<1>7. /\ \A g \in File : g # f => file'[g] = file[g]
      /\ file'[f] = RemoveAt(file[f], i) /\ file[f] \in Seq(Entry) /\ Parses(f, file[f])
  BY <1>1, <1>2, <1>3, <1>5, <1>5a DEF Applies
<1>8. ASSUME NEW g \in File
      PROVE  /\ Odd(g, file[g]) => Odd(g, file'[g])
             /\ Parses(g, file[g]) => Parses(g, file'[g])
             /\ Range(file'[g]) \subseteq Range(file[g])
  BY <1>5, <1>5a, <1>7, StillSo
<1>9. /\ \A x : Of(x)' = Of(x)
      /\ \A g, c : Odd(g, c)' = Odd(g, c) /\ Stale(g, c)' = Stale(g, c)
      /\ Pending' \subseteq Pending /\ Owed' = Owed
  BY <1>1, <1>4 DEF Of, Odd, Registrations, Stale, Pending, Owed
<1>10. Cause => Cause'
  <2> SUFFICES ASSUME NEW g \in File, ~Parses(g, file[g]) \/ Odd(g, file[g]) PROVE Cause'
    BY DEF Cause
  <2>1. ~Parses(g, file'[g]) \/ Odd(g, file'[g])
    BY <1>7, <1>8
  <2> QED
    BY <1>9, <2>1 DEF Cause, Parses
<1>11. (\A x \in Pending : Parses(x.file, file[x.file]) /\ (x \in misjudged \/ Deserved(x)))'
  <2> SUFFICES ASSUME NEW x \in run.found
               PROVE  Parses(x.file, file'[x.file]) /\ (x \in misjudged \/ Deserved(x)')
    BY <1>1, <1>4, <1>9 DEF Parses, Pending
  <2>1. x \in Pending /\ x.file \in File
    BY <1>3 DEF Finding, Pending, IInv, TypeOK
  <2>2. Parses(x.file, file[x.file]) /\ (x \in misjudged \/ Deserved(x))
    BY <1>2, <2>1 DEF Applies
  <2>3. Deserved(x) => Deserved(x)'
    BY <1>8, <1>9, <2>1 DEF Deserved
  <2> QED
    BY <1>8, <2>1, <2>2, <2>3
<1>12. Applies'
  <2>1. (run.at # Nothing =>
           /\ Located(run.at.file, file[run.at.file], run.at.id)
           /\ run.buf = Without(file[run.at.file], run.at.id))'
    BY <1>4
  <2>2. (~run.error => Cardinality(Left(Current)) <= run.failed + Cardinality(Owed))'
    BY <1>2, <1>4, <1>6, <1>9 DEF Applies
  <2>3. (faults = 0 =>
           /\ run.error \/ run.failed > 0 => Cause
           /\ \A y \in run.found :
                \/ Odd(y.file, Current[y.file])
                \/ Cardinality(Of(y)) <= Cardinality(Matches(Current[y.file], y.id)))'
    BY <1>1, <1>2, <1>4, <1>6, <1>9, <1>10 DEF Applies, Matches
  <2> QED
    BY <1>11, <2>1, <2>2, <2>3 DEF Applies
<1> QED
  BY <1>2, <1>4, <1>12 DEF Told, RunEnded, At

(* A removal that fails leaves its entry where it was, and is counted.     *)
LEMMA FailTells == IInv /\ Told /\ ApplyFails => Told'
<1> SUFFICES ASSUME IInv, Told, ApplyFails, calm' PROVE Told'
  BY DEF Told
<1> DEFINE f == run.at.file
<1>1. /\ run.pc \in {"create", "write", "rename"} /\ UNCHANGED <<file, exists, installed, overlooked, misjudged, calm>>
      /\ faults' = faults + 1 /\ run.at # Nothing
      /\ run' = [run EXCEPT !.pc = "apply", !.at = Nothing, !.buf = <<>>, !.failed = @ + 1]
  BY DEF ApplyFails, FaultCounted, Failing, OnlyRun, ghosts, IInv, TypeOK
<1>2. Applies /\ IsFiniteSet(run.found) /\ Cardinality(Owed) \in Nat
  <2>1. IsFiniteSet(run.found)
    BY <1>1 DEF Told
  <2>2. Owed \in SUBSET run.found
    BY DEF Owed
  <2> QED
    BY <1>1, <2>1, <2>2, FS_Subset, FS_CardinalityType DEF Told
<1>3. file \in [File -> Seq(Entry)] /\ run.failed \in Nat /\ faults' # 0 /\ run.error \in BOOLEAN
  <2>1. faults \in Nat
    BY Bounds DEF IInv, TypeOK
  <2> QED
    BY <1>1, <2>1 DEF IInv, TypeOK
<1>4. /\ run'.pc = "apply" /\ run'.found = run.found /\ run'.at = Nothing /\ run'.failed = run.failed + 1
      /\ run'.error = run.error
  BY <1>1 DEF IInv, TypeOK
<1>5. /\ f \in File /\ Current = [file EXCEPT ![f] = run.buf]
      /\ \E j \in DOMAIN file[f] :
           run.buf = RemoveAt(file[f], j) /\ file[f][j].form = "plain"
  BY <1>1, <1>2, Taken
<1>6. /\ Cardinality(Left(file)) \in Nat /\ Cardinality(Left(Current)) \in Nat
      /\ Cardinality(Left(file)) <= Cardinality(Left(Current)) + 1
  <2>1. PICK i \in DOMAIN file[f] : run.buf = RemoveAt(file[f], i)
    BY <1>5
  <2> DEFINE then == [file EXCEPT ![f] = RemoveAt(file[f], i)]
  <2>2. Current = then
    BY <1>5, <2>1
  <2>3. /\ Cardinality(Left(file)) \in Nat /\ Cardinality(Left(then)) \in Nat
        /\ Cardinality(Left(file)) <= Cardinality(Left(then)) + 1
    <3> HIDE DEF f
    <3> QED
      BY <1>3, <1>5, <2>1, LeftLess
  <2> HIDE DEF then
  <2> QED
    BY <2>2, <2>3
<1>7. Current' = file /\ Left(Current)' = Left(file)
  <2>1. Current' = file
    BY <1>1, <1>3, <1>4 DEF Current, InWindow
  <2> QED
    BY <1>1, <2>1, LeftThen
<1>8. (~run.error => Cardinality(Left(Current)) <= run.failed + Cardinality(Owed))'
  <2>1. ~run.error => Cardinality(Left(Current)) <= run.failed + Cardinality(Owed)
    BY <1>2 DEF Applies
  <2>2. ~run.error => Cardinality(Left(file)) <= run.failed + 1 + Cardinality(Owed)
    BY <1>2, <1>3, <1>6, <2>1
  <2>3. Owed' = Owed
    BY <1>1, <1>4 DEF Owed
  <2> QED
    BY <1>4, <1>7, <2>2, <2>3
<1>9. Pending' \subseteq Pending /\ \A x : Deserved(x)' = Deserved(x)
  BY <1>1, <1>4 DEF Pending, Deserved, Stale
<1>10. (\A x \in Pending : Parses(x.file, file[x.file]) /\ (x \in misjudged \/ Deserved(x)))'
  <2>1. \A x \in Pending' : Parses(x.file, file[x.file]) /\ (x \in misjudged \/ Deserved(x))
    BY <1>2, <1>9 DEF Applies
  <2> QED
    BY <1>1, <1>9, <2>1 DEF Parses
<1>11. Applies'
  BY <1>3, <1>4, <1>8, <1>10 DEF Applies
<1> QED
  BY <1>2, <1>4, <1>11 DEF Told, RunEnded, At

LEMMA ExitTells == IInv /\ Told /\ Exit => Told'
<1> SUFFICES ASSUME IInv, Told, Exit, calm' PROVE Told'
  BY DEF Told
<1>1. /\ run.pc = "apply" /\ UNCHANGED <<file, exists, installed, overlooked, misjudged, faults, calm>> /\ run.found = {}
      /\ run' = [run EXCEPT !.pc = "idle"] /\ exit' = ExitStatus
  BY DEF Exit, At, ghosts
<1>2. Applies /\ IsFiniteSet(run.found) /\ run.at = Nothing
  BY <1>1 DEF Told, IInv, TypeOK
<1>3. /\ run'.pc = "idle" /\ run'.found = run.found /\ run'.at = run.at /\ run'.buf = run.buf
      /\ run'.failed = run.failed /\ run'.error = run.error
  BY <1>1 DEF IInv, TypeOK
<1>4. Applies'
  BY <1>1, <1>2, <1>3, AppliesStays
<1>5. exit' = ExitStatus'
  BY <1>1, <1>3 DEF ExitStatus
<1> QED
  BY <1>1, <1>2, <1>3, <1>4, <1>5 DEF Told, At

LEMMA NextTells == (\A f \in File : Kind[f] # "name") /\ IInv /\ Told /\ [Next]_vars => Told'
<1> SUFFICES ASSUME \A f \in File : Kind[f] # "name", IInv, Told, [Next]_vars PROVE Told'
  OBVIOUS
<1>1. CASE UNCHANGED vars
  <2>1. UNCHANGED <<file, tmp, exists, installed, run, exit, expected, overlooked, misjudged, calm, edits, faults, runs>>
    BY <1>1 DEF vars, ghosts
  <2>2. Applies => Applies'
    BY <2>1, AppliesStays
  <2>3. Scans => Scans'
    BY <2>1 DEF Scans, At, Scanned, Flagged, FindingsAt, Registrations, Stale, Parses
  <2>4. ExitStatus' = ExitStatus
    BY <2>1 DEF ExitStatus
  <2> QED
    BY <2>1, <2>2, <2>3, <2>4 DEF Told, RunEnded, At
<1>2. CASE Work
  <2>1. ASSUME Unparseable PROVE Told'
    BY <2>1, DropTells DEF Unparseable
  <2> QED
    BY <1>2, <2>1, ReadTells, JudgeTells, ScanTells, EditTells, TmpTells, RenameTells, ExitTells DEF Work
<1>3. CASE ReadFails
  <2>1. faults' # 0
    BY <1>3, Bounds DEF ReadFails, FaultCounted, IInv, TypeOK
  <2> QED
    BY <1>3, <2>1, DropTells DEF ReadFails
<1>4. CASE Begin \/ StatFails \/ Misjudge \/ ApplyFails \/ Rest
  BY <1>1, <1>4, BeginTells, StatTells, JudgeTells, FailTells DEF Rest
<1>5. CASE Crash \/ (\E f \in File : Edit(f)) \/ (\E n \in Name : Move(n))
  BY <1>5 DEF Crash, Edit, Move, Told
<1> QED
  BY <1>1, <1>2, <1>3, <1>4, <1>5 DEF Next

(* ExitTellsTruth: the exit status and the number of failures tell what    *)
(* was removed and what was not (the end of main), if no file has entries  *)
(* that share a name and nobody else changed anything meanwhile, in all    *)
(* the files whose stat did not fail (StatFails), and whatever was         *)
(* misjudged (Misjudge).                                                   *)
THEOREM ExitStatusTells ==
  ASSUME \A f \in File : Kind[f] # "name"
  PROVE  Spec => []ExitTellsTruth
<1>1. Init => Told
  BY FS_EmptySet DEF Init, Idle, Told, RunEnded, At
<1>2. IInv /\ IInv' /\ Told /\ [Next]_vars => Told'
  BY NextTells
<1> QED
  BY <1>1, <1>2, ToldTruth, Invariant, PTL DEF Spec

=============================================================================
