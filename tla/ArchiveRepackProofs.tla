------------------------- MODULE ArchiveRepackProofs -------------------------
(***************************************************************************)
(* Invariance proofs for ArchiveRepack, for every walk, limit and format   *)
(* and any number of failures.                                             *)
(***************************************************************************)
EXTENDS ArchiveRepack, SequenceTheorems, WellFoundedInduction, TLAPS

(* Rolling over is about a member of the walk; repacking is about a prefix *)
(* of the entries, and goes on from the current part.                      *)
Progress ==
  /\ run.pc \in {"discard", "rebuild", "continue", "retry"} => run.next <= Len(walk)
  /\ At("repack") => run.count \in 1..Len(run.entries) /\ run.current <= run.at
  /\ At("create") => run.current = 1
  /\ run.current <= run.part

Shape == TypeOK /\ Progress

(* The initial states are well formed. *)
LEMMA ShapeInit == Init => Shape
<1> SUFFICES ASSUME Init PROVE Shape
  OBVIOUS
<1>1. 1 \in Part
  BY ArchiveAssumption DEF Part
<1>2. run \in Local
  BY <1>1 DEF Init, Local, PC
<1>3. TypeOK
  BY <1>2, ArchiveAssumption DEF Init, TypeOK
<1>4. Progress
  BY DEF Init, Progress, At
<1> QED BY <1>3, <1>4 DEF Shape

(* A part of the entries is a sequence of items. *)
LEMMA PrefixType ==
  ASSUME Shape, At("repack")
  PROVE  Candidate \in Seq(Item) /\ Rest \in Seq(Item) /\ Len(Rest) = Len(run.entries) - run.count
<1>1. run.entries \in Seq(Item) /\ run.count \in 1..Len(run.entries)
  BY DEF Shape, TypeOK, Local, Progress
<1>2. Candidate \in Seq(Item)
  BY <1>1, SubSeqProperties DEF Candidate
<1>3. Rest \in Seq(Item) /\ Len(Rest) = Len(run.entries) - run.count
  <2>1. /\ run.count + 1 \in 1..(Len(run.entries) + 1)
        /\ Len(run.entries) \in (run.count + 1 - 1)..Len(run.entries)
    BY <1>1, LenProperties
  <2>2. Rest \in Seq(Item) /\ Len(Rest) = IF run.count + 1 <= Len(run.entries)
                                            THEN Len(run.entries) - (run.count + 1) + 1 ELSE 0
    BY <1>1, <2>1, SubSeqProperties DEF Rest
  <2> QED BY <1>1, <2>2, LenProperties
<1> QED BY <1>2, <1>3

(* Sequences of members, one behind the other. *)
LEMMA Associative ==
  ASSUME NEW s \in Seq(Item), NEW t \in Seq(Item), NEW u \in Seq(Item)
  PROVE  s \o t \in Seq(Item) /\ (s \o t) \o u = s \o (t \o u)
<1>1. s \o t \in Seq(Item)
  BY ConcatProperties
<1>2. (s \o t) \o u = s \o (t \o u)
  BY ConcatAssociative
<1> QED BY <1>1, <1>2

LEMMA AppendedType ==
  ASSUME NEW t \in Seq(Item), NEW e \in Item
  PROVE  Append(t, e) \in Seq(Item) /\ Append(t, e) # <<>>
  BY AppendProperties

(* Adding to the end of what follows.                                      *)
LEMMA AppendBehind ==
  ASSUME NEW s \in Seq(Item), NEW t \in Seq(Item), NEW e \in Item
  PROVE  Append(s \o t, e) = s \o Append(t, e)
<1>1. s \o t \in Seq(Item) /\ <<e>> \in Seq(Item)
  BY ConcatProperties
<1>2. Append(s \o t, e) = (s \o t) \o <<e>> /\ Append(t, e) = t \o <<e>>
  BY <1>1, AppendIsConcat
<1>3. (s \o t) \o <<e>> = s \o (t \o <<e>>)
  BY <1>1, Associative
<1> QED BY <1>2, <1>3

(* The part that a step writes is well formed. *)
LEMMA PutType ==
  ASSUME disk \in [Part -> Volume \cup {Theirs, Absent}], NEW p \in Part,
         NEW volume \in Volume \cup {Theirs, Absent}, Put(p, volume)
  PROVE  disk' \in [Part -> Volume \cup {Theirs, Absent}]
  BY DEF Put

(* What a step writes is an archive. *)
LEMMA VolumeType ==
  ASSUME NEW members \in Seq(Item), NEW valid \in BOOLEAN
  PROVE  [members |-> members, valid |-> valid] \in Volume
  BY DEF Volume

LEMMA EmptyType == [members |-> <<>>, valid |-> FALSE] \in Volume
  BY DEF Volume

(* Every step keeps the variables well formed. *)
LEMMA ShapeStep == Shape /\ [Next]_vars => Shape'
<1> SUFFICES ASSUME Shape, [Next]_vars PROVE Shape'
  OBVIOUS
<1> USE DEF Shape
<1>0. /\ run \in Local /\ run.entries \in Seq(Item) /\ run.current \in Part /\ run.part \in Part
      /\ run.next \in Nat \ {0} /\ run.at \in Part /\ run.count \in Nat
      /\ run.error \in BOOLEAN /\ run.closed \in BOOLEAN
  BY DEF TypeOK, Local
<1>a. \A label \in PC, closed, error \in BOOLEAN :
         /\ [run EXCEPT !.pc = label] \in Local
         /\ [run EXCEPT !.pc = label, !.error = error] \in Local
         /\ [run EXCEPT !.pc = label, !.closed = closed] \in Local
         /\ [run EXCEPT !.pc = label, !.error = error, !.closed = closed] \in Local
  BY <1>0 DEF Local
<1>b. Part \subseteq Nat /\ 1 \in Part /\ \A part \in Part : part < MaxPart => part + 1 \in Part
  BY ArchiveAssumption DEF Part
<1>c. run.current \in Nat /\ run.part \in Nat /\ run.at \in Nat
  BY <1>0, <1>b
<1>f. {"pc", "next", "part", "current", "entries", "error"} \subseteq DOMAIN run
  BY <1>0 DEF Local
<1>d. \A members \in Seq(Item) : [run EXCEPT !.pc = "walk", !.next = @ + 1, !.entries = members] \in Local
  <2>1. run.next + 1 \in Nat \ {0}
    BY <1>0
  <2> QED BY <1>0, <2>1 DEF Local, PC
<1>e. \A part \in Part, members \in Seq(Item), count \in Nat :
        /\ [run EXCEPT !.pc = "retry", !.part = part, !.current = part, !.closed = FALSE, !.entries = <<>>] \in Local
        /\ [run EXCEPT !.pc = "close", !.error = TRUE, !.part = part] \in Local
        /\ [run EXCEPT !.part = part, !.at = part, !.entries = members, !.count = count] \in Local
        /\ [run EXCEPT !.pc = "repack", !.closed = TRUE, !.at = part, !.count = count] \in Local
        /\ [run EXCEPT !.count = count] \in Local
  <2> SUFFICES ASSUME NEW part \in Part, NEW members \in Seq(Item), NEW count \in Nat
      PROVE  /\ [run EXCEPT !.pc = "retry", !.part = part, !.current = part, !.closed = FALSE, !.entries = <<>>] \in Local
             /\ [run EXCEPT !.pc = "close", !.error = TRUE, !.part = part] \in Local
             /\ [run EXCEPT !.part = part, !.at = part, !.entries = members, !.count = count] \in Local
             /\ [run EXCEPT !.pc = "repack", !.closed = TRUE, !.at = part, !.count = count] \in Local
             /\ [run EXCEPT !.count = count] \in Local
    OBVIOUS
  <2>1. [run EXCEPT !.pc = "retry", !.part = part, !.current = part, !.closed = FALSE, !.entries = <<>>] \in Local
    BY <1>0, EmptySeq DEF Local, PC
  <2>2. [run EXCEPT !.pc = "close", !.error = TRUE, !.part = part] \in Local
    BY <1>0 DEF Local, PC
  <2>3. [run EXCEPT !.part = part, !.at = part, !.entries = members, !.count = count] \in Local
    BY <1>0 DEF Local, PC
  <2>4. [run EXCEPT !.pc = "repack", !.closed = TRUE, !.at = part, !.count = count] \in Local
    BY <1>0 DEF Local, PC
  <2>5. [run EXCEPT !.count = count] \in Local
    BY <1>0 DEF Local, PC
  <2> QED BY <2>1, <2>2, <2>3, <2>4, <2>5
<1>1. CASE Create
  <2>1. run' \in Local
    BY <1>0, <1>1, <1>a DEF Create, Go, PC
  <2>2. TypeOK'
    BY <1>0, <1>1, <2>1, <1>b, EmptyType, PutType DEF Create, Go, TypeOK, given
  <2>3. Progress'
    BY <1>0, <1>1, <1>b DEF Create, Go, Progress, At, given, Local
  <2> QED BY <2>2, <2>3
<1>2. CASE AddMember
  <2>a. Found \in Item /\ Extended(Found) \in Seq(Item)
    BY <1>0, <1>2 DEF AddMember, Walking, Found, Extended, TypeOK
  <2>b. [members |-> Extended(Found), valid |-> FALSE] \in Volume
    BY <2>a, VolumeType
  <2>1. run' \in Local
    BY <1>d, <1>2, <2>a DEF AddMember, Add
  <2>2. TypeOK'
    BY <1>0, <1>2, <2>1, <2>a, <2>b, PutType DEF AddMember, Walking, Add, TypeOK, given
  <2>3. Progress'
    BY <1>0, <1>2, <1>b DEF AddMember, Walking, Add, Fail, Progress, At, given, Local
  <2> QED BY <2>2, <2>3
<1>3. CASE SkipRepeated
  <2>1. run' \in Local
    BY <1>0, <1>3 DEF SkipRepeated, Local
  <2>2. TypeOK'
    BY <1>0, <1>3, <2>1 DEF SkipRepeated, TypeOK, given
  <2>3. Progress'
    BY <1>0, <1>3, <1>b DEF SkipRepeated, Walking, Progress, At, given, Local
  <2> QED BY <2>2, <2>3
<1>4. CASE Refuse
  <2>1. run' \in Local
    BY <1>0, <1>4, <1>a DEF Refuse, Walking, Fail, PC
  <2>2. TypeOK'
    BY <1>0, <1>4, <2>1 DEF Refuse, Walking, Fail, TypeOK, given
  <2>3. Progress'
    BY <1>0, <1>4, <1>b DEF Refuse, Walking, Fail, Progress, At, given, Local
  <2> QED BY <2>2, <2>3
<1>5. CASE TooLarge
  <2>1. run' \in Local
    BY <1>0, <1>5, <1>a DEF TooLarge, Walking, Fail, Go, PC
  <2>2. TypeOK'
    BY <1>0, <1>5, <2>1 DEF TooLarge, Walking, Fail, Go, TypeOK, given
  <2>3. Progress'
    <3>1. run'.current = run.current /\ run'.part = run.part /\ run'.next = run.next /\ walk' = walk
      BY <1>f, <1>5 DEF TooLarge, Fail, Go, given
    <3>2. run'.pc \in {"close", "discard"} /\ run.next <= Len(walk)
      BY <1>f, <1>5 DEF TooLarge, Walking, Fail, Go
    <3> QED BY <1>0, <3>1, <3>2 DEF Progress, At
  <2> QED BY <2>2, <2>3
<1>6. CASE WalkDone
  <2>1. run' \in Local
    BY <1>0, <1>6, <1>a DEF WalkDone, Go, PC
  <2>2. TypeOK'
    BY <1>0, <1>6, <2>1 DEF WalkDone, Go, TypeOK, given
  <2>3. Progress'
    BY <1>0, <1>6, <1>b DEF WalkDone, Go, Progress, At, given, Local
  <2> QED BY <2>2, <2>3
<1>7. CASE Discard
  <2>1. run' \in Local
    BY <1>0, <1>7, <1>a DEF Discard, PC
  <2>2. TypeOK'
    BY <1>0, <1>7, <2>1, <1>b, PutType DEF Discard, TypeOK, given
  <2>3. Progress'
    BY <1>0, <1>7, <1>b DEF Discard, Progress, At, given, Local
  <2> QED BY <2>2, <2>3
<1>8. CASE Rebuild
  <2>1. run' \in Local
    BY <1>0, <1>8, <1>a DEF Rebuild, Go, Fail, PC
  <2>2. TypeOK'
    BY <1>0, <1>8, <2>1, <1>b, PutType, VolumeType DEF Rebuild, Go, Fail, TypeOK, given
  <2>3. Progress'
    <3>1. run'.current = run.current /\ run'.part = run.part /\ run'.next = run.next /\ walk' = walk
      BY <1>f, <1>8 DEF Rebuild, Fail, Go, given
    <3>2. run.pc = "rebuild" /\ run'.pc \in {"close", "continue"}
      BY <1>f, <1>8 DEF Rebuild, Fail, Go, At
    <3> QED BY <1>0, <3>1, <3>2 DEF Progress, At
  <2> QED BY <2>2, <2>3
<1>9. CASE Continue
  <2>a. run.part + 1 \in Part
    BY <1>0, <1>9, <1>b DEF Continue
  <2>1. run' \in Local
    BY <1>0, <1>9, <1>e, <2>a DEF Continue
  <2>2. TypeOK'
    BY <1>0, <1>9, <2>1, <2>a, EmptyType, PutType DEF Continue, TypeOK, given
  <2>3. Progress'
    <3>1. run.next <= Len(walk) /\ walk' = walk /\ run.part + 1 <= run.part + 1 /\ run.current <= run.part + 1
      BY <1>0, <1>9, <1>b DEF Continue, Progress, At, given
    <3>2. /\ run'.pc \in {"retry", "close"} /\ run'.next = run.next /\ run'.part = run.part + 1
          /\ run'.current \in {run.current, run.part + 1}
      BY <1>0, <1>9 DEF Continue, Local
    <3> QED BY <3>1, <3>2 DEF Progress, At
  <2> QED BY <2>2, <2>3
<1>10. CASE Retry
  <2>a. Found \in Item /\ Extended(Found) \in Seq(Item)
    BY <1>0, <1>10 DEF Retry, Found, Extended, TypeOK, Progress, At
  <2>b. [members |-> Extended(Found), valid |-> FALSE] \in Volume
    BY <2>a, VolumeType
  <2>1. run' \in Local
    BY <1>a, <1>d, <1>10, <2>a DEF Retry, Add, Fail, PC
  <2>2. TypeOK'
    BY <1>0, <1>10, <2>1, <2>a, <2>b, PutType DEF Retry, Add, TypeOK, given
  <2>3. Progress'
    <3>1. run'.current = run.current /\ run'.part = run.part
      BY <1>f, <1>10 DEF Retry, Add, Fail
    <3>2. run'.pc \in {"walk", "close"}
      BY <1>f, <1>10 DEF Retry, Add, Fail
    <3> QED BY <1>0, <3>1, <3>2 DEF Progress, At
  <2> QED BY <2>2, <2>3
<1>11. CASE CloseLast
  <2>1. run' \in Local
    BY <1>0, <1>11, <1>a DEF CloseLast, Return, Go, PC
  <2>2. TypeOK'
    BY <1>0, <1>11, <2>1, <1>b, PutType, VolumeType DEF CloseLast, Return, Go, TypeOK, given
  <2>3. Progress'
    BY <1>0, <1>11, <1>b DEF CloseLast, Return, Go, Progress, At, given, Local
  <2> QED BY <2>2, <2>3
<1>12. CASE CloseTooLarge
  <2>a. Len(run.entries) \in Nat /\ (run.entries # <<>> => Len(run.entries) \in 1..Len(run.entries))
    BY <1>0, LenProperties, EmptySeq
  <2>1. run' \in Local
    <3>1. CASE run.entries = <<>>
      BY <1>12, <1>a, <3>1 DEF CloseTooLarge, Return, Go, PC
    <3>2. CASE run.entries # <<>>
      <4>1. run' = [run EXCEPT !.pc = "repack", !.closed = TRUE, !.at = run.current, !.count = Len(run.entries)]
        BY <1>12, <3>2 DEF CloseTooLarge
      <4> QED BY <1>0, <1>e, <2>a, <4>1
    <3> QED BY <3>1, <3>2
  <2>2. TypeOK'
    BY <1>0, <1>12, <2>1, PutType DEF CloseTooLarge, Return, TypeOK, given
  <2>3. Progress'
    <3>1. CASE run.entries = <<>>
      BY <1>0, <1>12, <3>1 DEF CloseTooLarge, Return, Go, Progress, At, given, Local
    <3>2. CASE run.entries # <<>>
      <4>1. run' = [run EXCEPT !.pc = "repack", !.closed = TRUE, !.at = run.current, !.count = Len(run.entries)]
        BY <1>12, <3>2 DEF CloseTooLarge
      <4>2. run'.pc = "repack" /\ run'.part = run.part /\ run'.at = run.current /\ run'.current = run.current
            /\ run'.entries = run.entries /\ run'.count = Len(run.entries)
        BY <1>0, <4>1 DEF Local
      <4> QED BY <1>c, <2>a, <3>2, <4>2 DEF Progress, At
    <3> QED BY <3>1, <3>2
  <2> QED BY <2>2, <2>3
<1>13. CASE Repack
  <2>a. run.count \in 1..Len(run.entries) /\ run.current <= run.at /\ (run.count # 1 => run.count - 1 \in 1..Len(run.entries))
    BY <1>0, <1>13, LenProperties DEF Repack, Progress, At
  <2>1. run' \in Local
    <3>1. CASE run.count = 1
      BY <1>13, <1>a, <3>1 DEF Repack, Shorter, Return, PC
    <3>2. CASE run.count # 1
      <4>1. run' = [run EXCEPT !.count = run.count - 1] /\ run.count - 1 \in Nat
        BY <1>0, <1>13, <2>a, <3>2 DEF Repack, Shorter
      <4> QED BY <1>0, <1>e, <4>1
    <3> QED BY <3>1, <3>2
  <2>2. TypeOK'
    BY <1>0, <1>13, <2>1 DEF Repack, Shorter, Return, TypeOK, given
  <2>3. Progress'
    BY <1>0, <1>13, <2>a DEF Repack, Shorter, Return, Progress, At, given, Local
  <2> QED BY <2>2, <2>3
<1>14. CASE Packed
  <2>a. Candidate \in Seq(Item) /\ Rest \in Seq(Item)
    BY <1>14, PrefixType DEF Packed
  <2>b. Rest # <<>> => run.part + 1 \in Part
    BY <1>0, <1>14, <1>b DEF Packed
  <2>c. Len(Rest) \in Nat /\ (Rest # <<>> => Len(Rest) \in 1..Len(Rest))
    BY <2>a, LenProperties, EmptySeq
  <2>1. run' \in Local
    <3>1. CASE Rest = <<>>
      BY <1>0, <1>14, <1>a, <3>1 DEF Packed, Return, Go, PC
    <3>2. CASE Rest # <<>>
      <4>1. run' = [run EXCEPT !.part = run.part + 1, !.at = run.part + 1, !.entries = Rest, !.count = Len(Rest)]
        BY <1>14, <3>2 DEF Packed
      <4> QED BY <1>e, <2>a, <2>b, <2>c, <3>2, <4>1
    <3> QED BY <3>1, <3>2
  <2>2. TypeOK'
    BY <1>0, <1>14, <2>1, <2>a, VolumeType, PutType DEF Packed, Return, TypeOK, given
  <2>3. Progress'
    <3>1. CASE Rest = <<>>
      BY <1>0, <1>14, <3>1 DEF Packed, Return, Go, Progress, At, given, Local
    <3>2. CASE Rest # <<>>
      <4>1. run' = [run EXCEPT !.part = run.part + 1, !.at = run.part + 1, !.entries = Rest, !.count = Len(Rest)]
        BY <1>14, <3>2 DEF Packed
      <4>2. run'.pc = "repack" /\ run'.part = run.part + 1 /\ run'.at = run.part + 1 /\ run'.current = run.current
            /\ run'.entries = Rest /\ run'.count = Len(Rest)
        BY <1>0, <1>14, <4>1 DEF Packed, At, Local
      <4>3. run.current <= run.part + 1
        BY <1>c DEF Progress
      <4> QED BY <2>c, <3>2, <4>2, <4>3 DEF Progress, At
    <3> QED BY <3>1, <3>2
  <2> QED BY <2>2, <2>3
<1>15. CASE RepackFails
  <2>1. run' \in Local
    BY <1>0, <1>15, <1>a DEF RepackFails, FaultCounted, Return, PC
  <2>2. TypeOK'
    BY <1>0, <1>15, <2>1, <1>b, PutType DEF RepackFails, FaultCounted, Return, TypeOK, given
  <2>3. Progress'
    <3>1. run'.current = run.current /\ run'.part = run.part
      BY <1>f, <1>15 DEF RepackFails, Return
    <3>2. run'.pc \in {"remove"}
      BY <1>f, <1>15 DEF RepackFails, Return
    <3> QED BY <1>0, <3>1, <3>2 DEF Progress, At
  <2> QED BY <2>2, <2>3
<1>16. CASE RemoveCurrent
  <2>1. run' \in Local
    BY <1>0, <1>16, <1>a DEF RemoveCurrent, Go, PC
  <2>2. TypeOK'
    BY <1>0, <1>16, <2>1, <1>b, PutType DEF RemoveCurrent, Go, TypeOK, given
  <2>3. Progress'
    BY <1>0, <1>16, <1>b DEF RemoveCurrent, Go, Progress, At, given, Local
  <2> QED BY <2>2, <2>3
<1>17. CASE WriteFails
  <2>1. run' \in Local
    BY <1>0, <1>17, <1>a DEF WriteFails, FaultCounted, Fail, PC
  <2>2. TypeOK'
    BY <1>0, <1>17, <2>1 DEF WriteFails, FaultCounted, Fail, TypeOK, given
  <2>3. Progress'
    BY <1>0, <1>17, <1>b DEF WriteFails, FaultCounted, Fail, Progress, At, given, Local
  <2> QED BY <2>2, <2>3
<1>18. CASE RolloverFails
  <2>a. run.part < MaxPart => run.part + 1 \in Part
    BY <1>0, ArchiveAssumption DEF Part
  <2>1. run' \in Local
    BY <1>0, <1>18, <1>b, <2>a DEF RolloverFails, PC, Local
  <2>2. TypeOK'
    BY <1>0, <1>18, <2>1 DEF RolloverFails, FaultCounted, TypeOK, given
  <2>3. Progress'
    BY <1>0, <1>18, <1>b DEF RolloverFails, Progress, At, given, Local
  <2> QED BY <2>2, <2>3
<1>19. CASE CloseFails
  <2>1. run' \in Local
    BY <1>0, <1>19, <1>a DEF CloseFails, FaultCounted, Return, PC
  <2>2. TypeOK'
    BY <1>0, <1>19, <2>1 DEF CloseFails, FaultCounted, Return, TypeOK, given
  <2>3. Progress'
    <3>1. run'.current = run.current /\ run'.part = run.part
      BY <1>f, <1>19 DEF CloseFails, Return
    <3>2. run'.pc \in {"remove"}
      BY <1>f, <1>19 DEF CloseFails, Return
    <3> QED BY <1>0, <3>1, <3>2 DEF Progress, At
  <2> QED BY <2>2, <2>3
<1>20. CASE Kill
  <2>1. run' \in Local
    BY <1>0, <1>20, <1>a DEF Kill, FaultCounted, Go, PC
  <2>2. TypeOK'
    BY <1>0, <1>20, <2>1 DEF Kill, FaultCounted, Go, TypeOK, given
  <2>3. Progress'
    BY <1>0, <1>20, <1>b DEF Kill, FaultCounted, Go, Progress, At, given, Local
  <2> QED BY <2>2, <2>3
<1>21. ASSUME NEW i \in DOMAIN walk, Lose(i) PROVE Shape'
  BY <1>21 DEF Lose, FaultCounted, TypeOK, Progress, At, given
<1>22. CASE UNCHANGED vars
  BY <1>22 DEF vars, given, TypeOK, Progress, At
<1> QED BY <1>1, <1>2, <1>3, <1>4, <1>5, <1>6, <1>7, <1>8, <1>9, <1>10, <1>11, <1>12, <1>13,
           <1>14, <1>15, <1>16, <1>17, <1>18, <1>19, <1>20, <1>21, <1>22
        DEF Next, Work, Ended

(* The variables stay well formed throughout a run (TypeOK). *)
THEOREM TypeCorrect == Spec => []TypeOK
<1>1. Spec => []Shape
  BY ShapeInit, ShapeStep, PTL DEF Spec
<1> QED BY <1>1, PTL DEF Shape

(* A step that writes one part leaves the others as they are. *)
LEMMA PutOther ==
  ASSUME disk \in [Part -> Volume \cup {Theirs, Absent}], NEW q \in Part, NEW volume, Put(q, volume)
  PROVE  disk'[q] = volume /\ \A p \in Part : p # q => disk'[p] = disk[p]
  BY DEF Put

(* Nothing that is not a file is an archive. *)
LEMMA NoVolume == Theirs \notin Volume /\ Absent \notin Volume
  BY ArchiveAssumption

(* No part is an archive before its turn comes, and when a prefix is to be *)
(* packed, the part it is meant for is not.                                *)
Ahead ==
  /\ \A p \in Part : run.part < p => disk[p] \notin Volume
  /\ At("repack") => run.at <= run.part /\ disk[run.at] \notin Volume

LEMMA AheadInit == Init => Ahead
  BY NoVolume DEF Init, Ahead, At

LEMMA Returned ==
  ASSUME Shape, NEW error, Return(error)
  PROVE  run'.part = run.part /\ run'.pc # "repack"
<1>1. {"pc", "part"} \subseteq DOMAIN run
  BY DEF Shape, TypeOK, Local
<1>2. CASE error
  BY <1>1, <1>2 DEF Return
<1>3. CASE ~error
  BY <1>1, <1>3 DEF Return, Go
<1> QED BY <1>2, <1>3

LEMMA AheadStep == Shape /\ Ahead /\ [Next]_vars => Ahead'
<1> SUFFICES ASSUME Shape, Ahead, [Next]_vars PROVE Ahead'
  OBVIOUS
<1>1. /\ disk \in [Part -> Volume \cup {Theirs, Absent}] /\ run.current <= run.part
      /\ run.current \in Nat /\ run.part \in Nat /\ run.at \in Nat /\ Part \subseteq Nat
      /\ run.current \in Part /\ run.at \in Part
      /\ (At("create") => run.current = 1)
  BY ArchiveAssumption DEF Shape, TypeOK, Local, Progress, Part, At
<1>2. {"pc", "at", "part"} \subseteq DOMAIN run
  BY DEF Shape, TypeOK, Local
<1>3. ASSUME disk' = disk, run'.part >= run.part, run'.part \in Nat, run'.pc # "repack" PROVE Ahead'
  BY <1>1, <1>3 DEF Ahead, At
<1>4. ASSUME NEW volume, Put(run.current, volume), run'.part = run.part, run'.pc # "repack" PROVE Ahead'
  BY <1>1, <1>4, PutOther DEF Ahead, At
<1>5. CASE Create
  <2>1. CASE disk[1] = Absent
    BY <1>1, <1>2, <1>4, <1>5, <2>1 DEF Create, Go, At
  <2>2. CASE disk[1] # Absent
    BY <1>1, <1>2, <1>3, <1>5, <2>2 DEF Create, Go, At
  <2> QED BY <2>1, <2>2
<1>6. CASE AddMember
  BY <1>2, <1>4, <1>6 DEF AddMember, Add
<1>7. CASE Retry
  <2>1. CASE Found \notin lost /\ Written(Extended(Found))
    BY <1>2, <1>4, <1>7, <2>1 DEF Retry, Add
  <2>2. CASE ~(Found \notin lost /\ Written(Extended(Found)))
    <3>1. disk' = disk /\ run' = [run EXCEPT !.pc = "close", !.error = TRUE]
      BY <1>7, <2>2 DEF Retry, Fail
    <3>2. run'.part = run.part /\ run'.pc # "repack"
      BY <1>2, <3>1
    <3> QED BY <1>1, <1>3, <3>1, <3>2
  <2> QED BY <2>1, <2>2
<1>8. CASE Discard
  BY <1>2, <1>4, <1>8 DEF Discard
<1>9. CASE Rebuild
  BY <1>2, <1>4, <1>9 DEF Rebuild, Go, Fail
<1>10. CASE Continue
  <2>1. run.part + 1 \in Part /\ run'.part = run.part + 1 /\ run'.pc # "repack"
    <3>1. run.part + 1 \in Part
      BY <1>1, <1>10, ArchiveAssumption DEF Continue, Part
    <3>2. run'.part = run.part + 1 /\ run'.pc # "repack"
      <4>1. CASE disk[run.part + 1] = Absent
        BY <1>2, <1>10, <4>1 DEF Continue
      <4>2. CASE disk[run.part + 1] # Absent
        BY <1>2, <1>10, <4>2 DEF Continue
      <4> QED BY <4>1, <4>2
    <3> QED BY <3>1, <3>2
  <2>2. \A p \in Part : p # run.part + 1 => disk'[p] = disk[p]
    BY <1>1, <1>10, <2>1, PutOther DEF Continue
  <2> QED BY <1>1, <2>1, <2>2 DEF Ahead, At
<1>11. CASE CloseLast
  <2>1. run'.part = run.part /\ run'.pc # "repack"
    <3>1. Return(run.error)
      BY <1>11 DEF CloseLast
    <3> QED BY <3>1, Returned
  <2> QED BY <1>1, <1>3, <1>4, <1>11, <2>1 DEF CloseLast
<1>12. CASE CloseTooLarge
  <2>1. /\ run'.part = run.part
        /\ run'.pc = "repack" => run'.at = run.current
    BY <1>2, <1>12 DEF CloseTooLarge, Return, Go
  <2>2. disk'[run.current] = Absent /\ \A p \in Part : p # run.current => disk'[p] = disk[p]
    BY <1>1, <1>12, PutOther DEF CloseTooLarge
  <2> QED BY <1>1, <2>1, <2>2, NoVolume DEF Ahead, At
<1>13. CASE RemoveCurrent
  BY <1>2, <1>4, <1>13 DEF RemoveCurrent, Go
<1>14. CASE Repack
  <2>1. At("repack") /\ disk' = disk /\ run'.part = run.part /\ run'.at = run.at
    BY <1>2, <1>14 DEF Repack, Shorter, Return
  <2> QED BY <2>1 DEF Ahead, At
<1>15. CASE Packed
  <2>0. At("repack") /\ \A p \in Part : p # run.at => disk'[p] = disk[p]
    BY <1>1, <1>15, PutOther DEF Packed
  <2>1. \/ run'.part = run.part /\ run'.pc # "repack"
        \/ run'.part = run.part + 1 /\ run'.at = run.part + 1 /\ run.part < MaxPart
    <3>1. CASE Rest = <<>>
      <4>1. Return(run.error)
        BY <1>15, <3>1 DEF Packed
      <4> QED BY <4>1, Returned
    <3>2. CASE Rest # <<>>
      BY <1>2, <1>15, <3>2 DEF Packed
    <3> QED BY <3>1, <3>2
  <2>2. CASE run'.part = run.part /\ run'.pc # "repack"
    BY <1>1, <2>0, <2>2 DEF Ahead, At
  <2>3. CASE run'.part = run.part + 1 /\ run'.at = run.part + 1 /\ run.part < MaxPart
    <3>1. run.part + 1 \in Part /\ run.part + 1 # run.at
      BY <1>1, <2>0, <2>3, ArchiveAssumption DEF Ahead, Part
    <3> QED BY <1>1, <2>0, <2>3, <3>1 DEF Ahead, At
  <2> QED BY <2>1, <2>2, <2>3
<1>16. CASE RepackFails
  <2>1. At("repack") /\ run'.part = run.part /\ run'.pc # "repack"
    BY <1>2, <1>16 DEF RepackFails, Return
  <2>2. \A p \in Part : p # run.at => disk'[p] = disk[p]
    BY <1>1, <1>16, PutOther DEF RepackFails
  <2> QED BY <1>1, <2>1, <2>2 DEF Ahead, At
<1>17. CASE SkipRepeated \/ Refuse \/ TooLarge \/ WalkDone
  <2>1. disk' = disk /\ run'.part = run.part /\ run'.pc # "repack"
    BY <1>2, <1>17 DEF SkipRepeated, Refuse, TooLarge, WalkDone, Walking, Fail, Go, At
  <2> QED BY <1>1, <1>3, <2>1
<1>18. CASE RolloverFails
  <2>1. disk' = disk /\ run'.part \in {run.part, run.part + 1} /\ run'.pc # "repack"
    BY <1>2, <1>18 DEF RolloverFails
  <2> QED BY <1>1, <1>3, <2>1
<1>19. CASE WriteFails \/ CloseFails \/ Kill
  <2>1. disk' = disk /\ run'.part = run.part /\ run'.pc # "repack"
    BY <1>2, <1>19 DEF WriteFails, CloseFails, Kill, Fail, Return, Go
  <2> QED BY <1>1, <1>3, <2>1
<1>20. CASE (\E i \in DOMAIN walk : Lose(i)) \/ UNCHANGED vars
  BY <1>20 DEF Lose, vars, Ahead, At
<1> QED BY <1>5, <1>6, <1>7, <1>8, <1>9, <1>10, <1>11, <1>12, <1>13, <1>14, <1>15, <1>16, <1>17,
           <1>18, <1>19, <1>20 DEF Next, Work, Ended

(* Only the current part and those that are no archives yet are written.   *)
LEMMA KeepStep ==
  Shape /\ Ahead /\ [Next]_vars => \A p \in Part : p # run.current /\ Finalized(p) => disk'[p] = disk[p]
<1> SUFFICES ASSUME Shape, Ahead, [Next]_vars, NEW p \in Part, p # run.current, disk[p] \in Volume
             PROVE  disk'[p] = disk[p]
  BY DEF Finalized
<1>1. /\ disk \in [Part -> Volume \cup {Theirs, Absent}]
      /\ run.current \in Part /\ run.at \in Part
      /\ (At("create") => run.current = 1) /\ disk[p] # Absent
  BY NoVolume DEF Shape, TypeOK, Local, Progress
<1>2. CASE Create
  <2>1. p # 1 /\ 1 \in Part
    BY <1>1, <1>2, ArchiveAssumption DEF Create, Part
  <2> QED BY <1>1, <1>2, <2>1, PutOther DEF Create
<1>3. CASE AddMember \/ Discard \/ Rebuild \/ CloseLast \/ CloseTooLarge \/ RemoveCurrent
  BY <1>1, <1>3, PutOther DEF AddMember, Add, Discard, Rebuild, CloseLast, CloseTooLarge, RemoveCurrent
<1>4. CASE Continue
  <2>1. CASE disk[run.part + 1] = Absent
    <3>1. run.part + 1 \in Part /\ p # run.part + 1
      BY <1>1, <1>4, <2>1, ArchiveAssumption DEF Continue, Part, Shape, TypeOK, Local
    <3> QED BY <1>1, <1>4, <3>1, PutOther DEF Continue
  <2> QED BY <1>4, <2>1 DEF Continue
<1>5. CASE Retry
  BY <1>1, <1>5, PutOther DEF Retry, Add
<1>6. CASE Packed \/ RepackFails
  <2>0. At("repack")
    BY <1>6 DEF Packed, RepackFails
  <2>1. p # run.at
    BY <2>0 DEF Ahead
  <2> QED BY <1>1, <1>6, <2>1, PutOther DEF Packed, RepackFails
<1>7. CASE SkipRepeated \/ Refuse \/ TooLarge \/ WalkDone \/ Repack
  BY <1>7 DEF SkipRepeated, Refuse, TooLarge, WalkDone, Repack
<1>8. CASE WriteFails \/ RolloverFails \/ CloseFails \/ Kill \/ (\E i \in DOMAIN walk : Lose(i)) \/ UNCHANGED vars
  BY <1>8 DEF WriteFails, RolloverFails, CloseFails, Kill, Lose, vars
<1> QED BY <1>2, <1>3, <1>4, <1>5, <1>6, <1>7, <1>8 DEF Next, Work, Ended

(* OtherPartsKept: whatever fails later, a part that was finished and is   *)
(* not the current output stays as it is (rollover, close, run).           *)
THEOREM OthersStay == Spec => OtherPartsKept
<1>1. Spec => [](Shape /\ Ahead)
  BY ShapeInit, ShapeStep, AheadInit, AheadStep, PTL DEF Spec
<1>2. Shape /\ Ahead /\ [Next]_vars =>
        [\A p \in Part : p # run.current /\ Finalized(p) => disk'[p] = disk[p]]_vars
  BY KeepStep
<1> QED BY <1>1, <1>2, PTL DEF Spec, OtherPartsKept

----------------------------------------------------------------------------
(* What the parts hold *)

Held(p) == IF disk[p] \in Volume THEN Range(disk[p].members) ELSE {}

(* The part that is being written.                                         *)
Home == IF At("repack") THEN run.at ELSE run.current

(* Every member is in one place, everything that was written is claimed,   *)
(* and the member a rollover is about is not.                              *)
Apart ==
  /\ Range(run.entries) \subseteq claims
  /\ \A i, j \in DOMAIN run.entries : i # j => run.entries[i] # run.entries[j]
  /\ \A p \in Part : Held(p) \subseteq claims
  /\ \A p, q \in Part : p # q => Held(p) \cap Held(q) = {}
  /\ run.pc \notin {"remove", "end"} => \A p \in Part : p # Home => Held(p) \cap Range(run.entries) = {}
  /\ run.pc \in {"discard", "rebuild", "continue", "retry"} => Found \notin claims

(* Only the current part may be incomplete, and not once it is about to be *)
(* continued or has been repacked.                                         *)
Finished ==
  /\ \A p \in Part : p # run.current /\ disk[p] \in Volume => disk[p].valid
  /\ At("create") => disk[run.current] \in {Theirs, Absent}
  /\ run.pc \in {"continue", "repack"} => (disk[run.current] \in Volume => disk[run.current].valid)
  /\ run.pc \in {"create", "walk", "retry"} => ~run.closed
  /\ At("close") /\ run.closed => run.error
  /\ exit # "none" => At("end")
  /\ exit = "ok" => (disk[run.current] \in Volume => disk[run.current].valid)
  /\ exit = "error" => disk[run.current] \in {Theirs, Absent}

LEMMA RangeAppend ==
  ASSUME NEW s \in Seq(Item), NEW e \in Item
  PROVE  Range(Append(s, e)) = Range(s) \cup {e}
<1>1. /\ DOMAIN s = 1..Len(s) /\ Len(s) \in Nat
      /\ DOMAIN Append(s, e) = 1..(Len(s) + 1)
      /\ \A i \in 1..Len(s) : Append(s, e)[i] = s[i]
      /\ Append(s, e)[Len(s) + 1] = e
  BY AppendProperties, LenProperties
<1>2. \A i \in 1..(Len(s) + 1) : i \in 1..Len(s) \/ i = Len(s) + 1
  BY <1>1
<1>3. 1..Len(s) \subseteq 1..(Len(s) + 1) /\ Len(s) + 1 \in 1..(Len(s) + 1)
  BY <1>1
<1> QED BY <1>1, <1>2, <1>3 DEF Range

LEMMA HeldPut ==
  ASSUME disk \in [Part -> Volume \cup {Theirs, Absent}], NEW q \in Part, NEW volume, Put(q, volume)
  PROVE  /\ Held(q)' = IF volume \in Volume THEN Range(volume.members) ELSE {}
         /\ \A p \in Part : p # q => Held(p)' = Held(p)
  BY PutOther DEF Held

(* A prefix and the rest have no member in common. *)
LEMMA RestApart ==
  ASSUME Shape, Apart, At("repack")
  PROVE  /\ Range(Candidate) \subseteq Range(run.entries) /\ Range(Rest) \subseteq Range(run.entries)
         /\ Range(Candidate) \cap Range(Rest) = {}
         /\ \A i, j \in DOMAIN Rest : i # j => Rest[i] # Rest[j]
<1> DEFINE n == Len(run.entries)
           k == run.count
<1>1. run.entries \in Seq(Item) /\ k \in 1..n /\ n \in Nat /\ DOMAIN run.entries = 1..n
  BY LenProperties DEF Shape, TypeOK, Local, Progress
<1>2. /\ Candidate \in Seq(Item) /\ DOMAIN Candidate = 1..k
      /\ \A i \in 1..k : Candidate[i] = run.entries[i]
  BY <1>1, SubSeqProperties, LenProperties DEF Candidate
<1>3. /\ DOMAIN Rest = 1..(n - k)
      /\ \A i \in 1..(n - k) : Rest[i] = run.entries[k + i]
  <2>1. Rest \in Seq(Item) /\ Len(Rest) = n - k
    BY PrefixType
  <2>2. DOMAIN Rest = 1..(n - k)
    BY <2>1
  <2>3. /\ k + 1 \in Int /\ n \in Int /\ \A i \in (k + 1)..n : i \in 1..n
        /\ n - (k + 1) + 1 = n - k /\ \A i \in 1..(n - k) : k + 1 + i - 1 = k + i
    <3> HIDE DEF n, k
    <3> QED BY <1>1
  <2>4. \A i \in (k + 1)..n : run.entries[i] \in Item
    BY <1>1, <2>3
  <2>5. \A i \in 1..(n - (k + 1) + 1) : SubSeq(run.entries, k + 1, n)[i] = run.entries[k + 1 + i - 1]
    <3> HIDE DEF n, k
    <3> QED BY <2>3, <2>4, SubSeqProperties
  <2>6. Rest = SubSeq(run.entries, k + 1, n)
    BY DEF Rest
  <2> HIDE DEF n, k
  <2> QED BY <2>2, <2>3, <2>5, <2>6
<1>4. \A i \in 1..k : i \in 1..n
  BY <1>1
<1>5. \A i \in 1..(n - k) : k + i \in 1..n /\ k + i \notin 1..k
  BY <1>1
<1>6. \A i, j \in 1..(n - k) : i # j => k + i # k + j
  BY <1>1
<1>7. \A i, j \in 1..n : i # j => run.entries[i] # run.entries[j]
  BY <1>1 DEF Apart
<1>8. Range(Candidate) \subseteq Range(run.entries) /\ Range(Rest) \subseteq Range(run.entries)
  BY <1>1, <1>2, <1>3, <1>4, <1>5 DEF Range
<1>9. ASSUME NEW i \in 1..k, NEW j \in 1..(n - k) PROVE Candidate[i] # Rest[j]
  BY <1>2, <1>3, <1>4, <1>5, <1>7
<1>10. Range(Candidate) \cap Range(Rest) = {}
  BY <1>2, <1>3, <1>9 DEF Range
<1>11. \A i, j \in DOMAIN Rest : i # j => Rest[i] # Rest[j]
  BY <1>3, <1>5, <1>6, <1>7
<1> QED BY <1>8, <1>10, <1>11

(* Writing one part keeps the parts apart if what is written is claimed    *)
(* and in no other part.                                                   *)
LEMMA WriteApart ==
  ASSUME Apart, NEW h \in Part, claims \subseteq claims',
         \A p \in Part : p # h => Held(p)' = Held(p),
         Held(h)' \subseteq claims',
         \A p \in Part : p # h => Held(p) \cap Held(h)' = {}
  PROVE  /\ \A p \in Part : Held(p)' \subseteq claims'
         /\ \A p, q \in Part : p # q => Held(p)' \cap Held(q)' = {}
<1>1. ASSUME NEW p \in Part PROVE Held(p)' \subseteq claims'
  BY <1>1 DEF Apart
<1>2. ASSUME NEW p \in Part, NEW q \in Part, p # q PROVE Held(p)' \cap Held(q)' = {}
  <2>1. CASE p = h
    BY <1>2, <2>1
  <2>2. CASE q = h
    BY <1>2, <2>2
  <2>3. CASE p # h /\ q # h
    BY <1>2, <2>3 DEF Apart
  <2> QED BY <2>1, <2>2, <2>3
<1> QED BY <1>1, <1>2

(* Steps that write nothing and claim nothing. *)
LEMMA QuietApart ==
  ASSUME Apart, UNCHANGED <<walk, disk, claims>>, run'.entries = run.entries,
         run'.pc \in {"remove", "end"} \/ (Home' = Home /\ run.pc \notin {"remove", "end"}),
         run'.pc \in {"discard", "rebuild", "continue", "retry"} => Found' \notin claims
  PROVE  Apart'
<1>1. \A p \in Part : Held(p)' = Held(p)
  BY DEF Held
<1> QED BY <1>1 DEF Apart

(* A member that is added is in no archive yet. *)
LEMMA FoundFresh ==
  ASSUME Shape, Walking, ~Refused, ~Repeated(Found, claims)
  PROVE  Found \in Item /\ Found \notin claims
<1>1. Found \in Item
  BY DEF Shape, TypeOK, Local, Walking, Found
<1>2. Found.kind \in {"dir", "file"}
  BY <1>1 DEF Refused, Item
<1> QED BY <1>1, <1>2 DEF Refused, Conflicts, Repeated

(* Adding a member to the current output. *)
LEMMA AddApart ==
  ASSUME Shape, Apart, Add(Found), Found \in Item, Found \notin claims, Home = run.current,
         run.pc \notin {"remove", "end"}, UNCHANGED walk
  PROVE  Apart'
<1>1. /\ disk \in [Part -> Volume \cup {Theirs, Absent}] /\ run.current \in Part
      /\ run.entries \in Seq(Item) /\ run \in Local
  BY DEF Shape, TypeOK, Local
<1>2. /\ Extended(Found) \in Seq(Item) /\ Range(Extended(Found)) = Range(run.entries) \cup {Found}
      /\ [members |-> Extended(Found), valid |-> FALSE] \in Volume
  <2>1. Extended(Found) \in Seq(Item)
    BY <1>1, AppendProperties DEF Extended
  <2>2. Range(Extended(Found)) = Range(run.entries) \cup {Found}
    BY <1>1, RangeAppend DEF Extended
  <2> QED BY <2>1, <2>2, VolumeType
<1>3. /\ Held(run.current)' = Range(run.entries) \cup {Found}
      /\ \A p \in Part : p # run.current => Held(p)' = Held(p)
  BY <1>1, <1>2, HeldPut DEF Add
<1>4. claims' = claims \cup {Found} /\ run'.entries = Extended(Found) /\ run'.pc = "walk" /\ run'.current = run.current
  BY <1>1 DEF Add, Local
<1>5. Range(run.entries) \subseteq claims
  BY DEF Apart
<1>6. \A p \in Part : p # run.current => Held(p) \cap (Range(run.entries) \cup {Found}) = {}
  BY DEF Apart
<1>7. /\ \A p \in Part : Held(p)' \subseteq claims'
      /\ \A p, q \in Part : p # q => Held(p)' \cap Held(q)' = {}
  BY <1>1, <1>3, <1>4, <1>5, <1>6, WriteApart
<1>8. \A i, j \in DOMAIN Extended(Found) : i # j => Extended(Found)[i] # Extended(Found)[j]
  <2>1. /\ DOMAIN run.entries = 1..Len(run.entries) /\ Len(run.entries) \in Nat
        /\ DOMAIN Extended(Found) = 1..(Len(run.entries) + 1)
        /\ \A i \in 1..Len(run.entries) : Extended(Found)[i] = run.entries[i]
        /\ Extended(Found)[Len(run.entries) + 1] = Found
    BY <1>1, AppendProperties, LenProperties DEF Extended
  <2>2. \A i \in 1..Len(run.entries) : run.entries[i] # Found
    BY <1>5, <2>1 DEF Range
  <2>3. \A i \in 1..(Len(run.entries) + 1) : i \in 1..Len(run.entries) \/ i = Len(run.entries) + 1
    BY <2>1
  <2>4. \A i, j \in 1..Len(run.entries) : i # j => run.entries[i] # run.entries[j]
    BY <2>1 DEF Apart
  <2> QED BY <2>1, <2>2, <2>3, <2>4
<1>9. Home' = run.current
  BY <1>4 DEF Home, At
<1> QED BY <1>2, <1>3, <1>4, <1>5, <1>6, <1>7, <1>8, <1>9 DEF Apart

(* Writing the entries, or nothing, where they belong. *)
LEMMA HomeApart ==
  ASSUME Shape, Apart, NEW home \in Part, home = Home,
         NEW volume \in Volume \cup {Theirs, Absent}, Put(home, volume),
         volume \in Volume => volume.members = run.entries,
         run.pc \notin {"remove", "end"}, UNCHANGED <<walk, claims>>, run'.entries = run.entries,
         run'.pc \in {"remove", "end"} \/ Home' = home,
         run'.pc \in {"discard", "rebuild", "continue", "retry"} => Found' \notin claims
  PROVE  Apart'
<1>1. disk \in [Part -> Volume \cup {Theirs, Absent}]
  BY DEF Shape, TypeOK
<1>2. /\ Held(home)' \subseteq Range(run.entries)
      /\ \A p \in Part : p # home => Held(p)' = Held(p)
  BY <1>1, HeldPut
<1>3. Range(run.entries) \subseteq claims /\ \A p \in Part : p # home => Held(p) \cap Range(run.entries) = {}
  BY DEF Apart
<1>4. /\ Held(home)' \subseteq claims'
      /\ \A p \in Part : p # home => Held(p) \cap Held(home)' = {}
  BY <1>2, <1>3
<1>5. /\ \A p \in Part : Held(p)' \subseteq claims'
      /\ \A p, q \in Part : p # q => Held(p)' \cap Held(q)' = {}
  BY <1>2, <1>4, WriteApart
<1>6. run'.pc \notin {"remove", "end"} => \A p \in Part : p # Home' => Held(p)' \cap Range(run'.entries) = {}
  BY <1>2, <1>3
<1>7. /\ Range(run'.entries) \subseteq claims'
      /\ \A i, j \in DOMAIN run'.entries : i # j => run'.entries[i] # run'.entries[j]
  BY DEF Apart
<1> QED BY <1>5, <1>6, <1>7 DEF Apart

LEMMA ApartInit == Init => Apart
<1> SUFFICES ASSUME Init PROVE Apart
  OBVIOUS
<1>1. \A p \in Part : Held(p) = {}
  BY NoVolume DEF Init, Held
<1>2. run.entries = <<>> /\ run.pc = "create" /\ Range(run.entries) = {} /\ DOMAIN run.entries = {}
  BY DEF Init, Range
<1> QED BY <1>1, <1>2 DEF Apart

(* Every step keeps the parts apart. *)
LEMMA ApartStep == Shape /\ Apart /\ [Next]_vars => Apart'
<1> SUFFICES ASSUME Shape, Apart, [Next]_vars PROVE Apart'
  OBVIOUS
<1>0. /\ run \in Local /\ run.entries \in Seq(Item) /\ run.current \in Part /\ run.at \in Part
      /\ disk \in [Part -> Volume \cup {Theirs, Absent}] /\ 1 \in Part
  BY ArchiveAssumption DEF Shape, TypeOK, Local, Part
<1>a. ~At("repack") => Home = run.current
  BY DEF Home
<1>b. run'.pc # "repack" => Home' = run'.current
  BY DEF Home, At
<1>1. CASE Create
  <2>1. CASE disk[1] = Absent
    <3>1. /\ Put(1, [members |-> <<>>, valid |-> FALSE]) /\ UNCHANGED <<walk, claims>>
          /\ run' = [run EXCEPT !.pc = "walk"]
      BY <1>1, <2>1 DEF Create, Go, given
    <3>2. Held(1)' = {} /\ \A p \in Part : p # 1 => Held(p)' = Held(p)
      BY <1>0, <3>1, EmptyType, HeldPut DEF Range
    <3>3. /\ \A p \in Part : Held(p)' \subseteq claims'
          /\ \A p, q \in Part : p # q => Held(p)' \cap Held(q)' = {}
      BY <1>0, <3>1, <3>2, WriteApart
    <3>4. run'.entries = run.entries /\ run'.pc = "walk" /\ run'.current = run.current /\ run.pc = "create"
      BY <1>0, <1>1, <3>1 DEF Local, Create, At
    <3>5. Home' = run.current /\ Home = run.current
      BY <3>4 DEF Home, At
    <3>6. \A p \in Part : p # run.current => Held(p)' \cap Range(run'.entries) = {}
      BY <3>2, <3>4, <3>5 DEF Apart
    <3> QED BY <3>1, <3>3, <3>4, <3>5, <3>6 DEF Apart
  <2>2. CASE disk[1] # Absent
    <3>1. run' = [run EXCEPT !.pc = "end"] /\ UNCHANGED <<walk, disk, claims>>
      BY <1>1, <2>2 DEF Create, Go, given
    <3> QED BY <1>0, <3>1, QuietApart DEF Local
  <2> QED BY <2>1, <2>2
<1>2. CASE AddMember
  <2>1. Walking /\ ~Refused /\ ~Repeated(Found, claims) /\ Add(Found) /\ UNCHANGED walk /\ run.pc = "walk"
    BY <1>2 DEF AddMember, Walking, At, given
  <2> QED BY <1>a, <2>1, FoundFresh, AddApart DEF At
<1>3. CASE SkipRepeated \/ Refuse \/ WalkDone \/ WriteFails
  <2>1. /\ run.pc \in {"walk", "retry"} /\ run'.pc \in {"walk", "close"}
        /\ run'.entries = run.entries /\ run'.current = run.current
    BY <1>0, <1>3 DEF SkipRepeated, Refuse, WalkDone, WriteFails, Walking, Fail, Go, At, Local
  <2>2. UNCHANGED <<walk, disk, claims>>
    BY <1>3 DEF SkipRepeated, Refuse, WalkDone, WriteFails, given
  <2> QED BY <1>a, <1>b, <2>1, <2>2, QuietApart DEF At
<1>4. CASE TooLarge
  <2>1. Found \notin claims /\ UNCHANGED <<walk, disk, claims>>
    BY <1>4, FoundFresh DEF TooLarge, given
  <2>2. /\ run.pc = "walk" /\ run'.pc \in {"discard", "close"} /\ run'.next = run.next
        /\ run'.entries = run.entries /\ run'.current = run.current
    BY <1>0, <1>4 DEF TooLarge, Walking, Fail, Go, At, Local
  <2>3. Found' = Found
    BY <2>1, <2>2 DEF Found
  <2> QED BY <1>a, <1>b, <2>1, <2>2, <2>3, QuietApart DEF At
<1>5. CASE Discard
  <2>1. /\ run.pc = "discard" /\ run'.pc = "rebuild" /\ run'.next = run.next /\ run'.entries = run.entries
        /\ run'.current = run.current /\ UNCHANGED <<walk, claims>>
    BY <1>0, <1>5 DEF Discard, At, given, Local
  <2>2. Found' = Found /\ Found \notin claims
    BY <2>1 DEF Found, Apart
  <2> QED BY <1>0, <1>5, <1>a, <1>b, <2>1, <2>2, HomeApart, NoVolume DEF Discard, At
<1>6. CASE Rebuild
  <2>1. /\ run.pc = "rebuild" /\ run'.pc \in {"continue", "close"} /\ run'.next = run.next /\ run'.entries = run.entries
        /\ run'.current = run.current /\ UNCHANGED <<walk, claims>>
    BY <1>0, <1>6 DEF Rebuild, Go, Fail, At, given, Local
  <2>2. Found' = Found /\ Found \notin claims
    BY <2>1 DEF Found, Apart
  <2>3. PICK valid \in BOOLEAN : Put(run.current, [members |-> run.entries, valid |-> valid])
    BY <1>6 DEF Rebuild
  <2> QED BY <1>0, <1>a, <1>b, <2>1, <2>2, <2>3, HomeApart, VolumeType DEF At
<1>7. CASE Continue
  <2>1. CASE disk[run.part + 1] = Absent
    <3>1. /\ UNCHANGED <<walk, claims>> /\ run.pc = "continue"
          /\ run'.pc = "retry" /\ run'.entries = <<>> /\ run'.next = run.next
      BY <1>0, <1>7, <2>1 DEF Continue, At, given, Local
    <3>a. run.part + 1 \in Part
      BY <1>0, <1>7, ArchiveAssumption DEF Continue, Local, Part
    <3>2. PICK h \in Part : Put(h, [members |-> <<>>, valid |-> FALSE])
      BY <1>7, <2>1, <3>a DEF Continue
    <3>3. Held(h)' = {} /\ \A p \in Part : p # h => Held(p)' = Held(p)
      BY <1>0, <3>2, EmptyType, HeldPut DEF Range
    <3>4. /\ \A p \in Part : Held(p)' \subseteq claims'
          /\ \A p, q \in Part : p # q => Held(p)' \cap Held(q)' = {}
      BY <3>1, <3>3, WriteApart
    <3>5. Range(run'.entries) = {} /\ DOMAIN run'.entries = {}
      BY <3>1 DEF Range
    <3>6. Found' = Found /\ Found \notin claims
      BY <3>1 DEF Found, Apart
    <3> QED BY <3>1, <3>4, <3>5, <3>6 DEF Apart
  <2>2. CASE disk[run.part + 1] # Absent
    <3>1. /\ UNCHANGED <<walk, disk, claims>> /\ run.pc = "continue"
          /\ run'.pc = "close" /\ run'.entries = run.entries /\ run'.current = run.current
      BY <1>0, <1>7, <2>2 DEF Continue, At, given, Local
    <3> QED BY <1>a, <1>b, <3>1, QuietApart DEF At
  <2> QED BY <2>1, <2>2
<1>8. CASE Retry
  <2>1. run.pc = "retry" /\ UNCHANGED walk
    BY <1>8 DEF Retry, At, given
  <2>2. CASE Add(Found)
    <3>1. Found \in Item /\ Found \notin claims
      BY <1>0, <2>1 DEF Shape, TypeOK, Progress, Found, Apart, Local
    <3> QED BY <1>a, <2>1, <2>2, <3>1, AddApart DEF At
  <2>3. CASE Fail /\ UNCHANGED <<disk, claims>>
    <3>1. run'.pc = "close" /\ run'.entries = run.entries /\ run'.current = run.current
      BY <1>0, <2>3 DEF Fail, Local
    <3> QED BY <1>a, <1>b, <2>1, <2>3, <3>1, QuietApart DEF At
  <2> QED BY <1>8, <2>2, <2>3 DEF Retry
<1>9. CASE RolloverFails \/ CloseFails \/ Kill
  <2>1. /\ run'.entries = run.entries /\ run'.current = run.current /\ UNCHANGED <<walk, disk, claims>>
        /\ run'.pc \in {"remove", "end"} \/ (run'.pc = "close" /\ run.pc \in {"discard", "rebuild", "continue"})
    BY <1>0, <1>9 DEF RolloverFails, CloseFails, Kill, Return, Go, given, Local
  <2> QED BY <1>a, <1>b, <2>1, QuietApart DEF At
<1>10. CASE CloseLast
  <2>1. /\ run.pc = "close" /\ run'.pc \in {"remove", "end"} /\ run'.entries = run.entries /\ UNCHANGED <<walk, claims>>
    BY <1>0, <1>10 DEF CloseLast, Return, Go, At, given, Local
  <2>2. CASE UNCHANGED disk
    BY <2>1, <2>2, QuietApart
  <2>3. CASE Put(run.current, [members |-> run.entries, valid |-> TRUE])
    BY <1>0, <1>a, <2>1, <2>3, HomeApart, VolumeType DEF At
  <2> QED BY <1>10, <2>2, <2>3 DEF CloseLast
<1>11. CASE CloseTooLarge
  <2>1. /\ run.pc = "close" /\ Put(run.current, Absent) /\ run'.entries = run.entries /\ UNCHANGED <<walk, claims>>
        /\ run'.pc \in {"remove", "end"} \/ (run'.pc = "repack" /\ run'.at = run.current)
    BY <1>0, <1>11 DEF CloseTooLarge, Return, Go, At, given, Local
  <2>2. run'.pc \in {"remove", "end"} \/ Home' = run.current
    BY <2>1 DEF Home, At
  <2> QED BY <1>0, <1>a, <2>1, <2>2, HomeApart, NoVolume DEF At
<1>12. CASE Repack
  <2>1. /\ run.pc = "repack" /\ run'.entries = run.entries /\ UNCHANGED <<walk, disk, claims>>
        /\ run'.pc = "remove" \/ (run'.pc = "repack" /\ run'.at = run.at)
    BY <1>0, <1>12 DEF Repack, Shorter, Return, At, given, Local
  <2>2. run'.pc = "remove" \/ Home' = Home
    BY <2>1 DEF Home, At
  <2> QED BY <2>1, <2>2, QuietApart
<1>13. CASE Packed
  <2>1. /\ At("repack") /\ run.pc = "repack" /\ UNCHANGED <<walk, claims>>
        /\ Put(run.at, [members |-> Candidate, valid |-> TRUE])
    BY <1>13 DEF Packed, At, given
  <2>2. PICK h \in Part : h = run.at /\ h = Home /\ Put(h, [members |-> Candidate, valid |-> TRUE])
    BY <1>0, <2>1 DEF Home
  <2>3. [members |-> Candidate, valid |-> TRUE] \in Volume
    BY <2>1, PrefixType, VolumeType
  <2>4. Held(h)' = Range(Candidate) /\ \A p \in Part : p # h => Held(p)' = Held(p)
    BY <1>0, <2>2, <2>3, HeldPut
  <2>5. /\ Range(Candidate) \subseteq Range(run.entries) /\ Range(Rest) \subseteq Range(run.entries)
        /\ Range(Candidate) \cap Range(Rest) = {}
        /\ \A i, j \in DOMAIN Rest : i # j => Rest[i] # Rest[j]
    BY <2>1, RestApart
  <2>6. /\ Range(run.entries) \subseteq claims
        /\ \A p \in Part : p # h => Held(p) \cap Range(run.entries) = {}
    BY <2>1, <2>2 DEF Apart
  <2>7. /\ \A p \in Part : Held(p)' \subseteq claims'
        /\ \A p, q \in Part : p # q => Held(p)' \cap Held(q)' = {}
    <3>1. Held(h)' \subseteq claims' /\ \A p \in Part : p # h => Held(p) \cap Held(h)' = {}
      BY <2>1, <2>4, <2>5, <2>6
    <3> QED BY <2>1, <2>4, <3>1, WriteApart
  <2>8. CASE Rest = <<>>
    <3>1. run'.pc \in {"remove", "end"} /\ run'.entries = run.entries
      BY <1>0, <1>13, <2>8 DEF Packed, Return, Go, Local
    <3> QED BY <2>1, <2>7, <3>1 DEF Apart
  <2>9. CASE Rest # <<>>
    <3>1. run'.pc = "repack" /\ run'.entries = Rest
      BY <1>0, <1>13, <2>1, <2>9 DEF Packed, Local
    <3>2. \A p \in Part : Held(p)' \cap Range(Rest) = {}
      BY <2>4, <2>5, <2>6
    <3> QED BY <2>1, <2>5, <2>6, <2>7, <3>1, <3>2 DEF Apart
  <2> QED BY <2>8, <2>9
<1>14. CASE RepackFails
  <2>1. /\ At("repack") /\ run.pc = "repack" /\ Put(run.at, Absent) /\ UNCHANGED <<walk, claims>>
        /\ run'.pc = "remove" /\ run'.entries = run.entries
    BY <1>0, <1>14 DEF RepackFails, Return, At, given, Local
  <2> QED BY <1>0, <2>1, HomeApart, NoVolume DEF Home
<1>15. CASE RemoveCurrent
  <2>1. /\ run.pc = "remove" /\ Put(run.current, Absent) /\ UNCHANGED <<walk, claims>>
        /\ run'.pc = "end" /\ run'.entries = run.entries
    BY <1>0, <1>15 DEF RemoveCurrent, Go, At, given, Local
  <2>2. PICK h \in Part : Put(h, Absent)
    BY <1>0, <2>1
  <2>3. Held(h)' = {} /\ \A p \in Part : p # h => Held(p)' = Held(p)
    BY <1>0, <2>2, NoVolume, HeldPut
  <2>4. /\ \A p \in Part : Held(p)' \subseteq claims'
        /\ \A p, q \in Part : p # q => Held(p)' \cap Held(q)' = {}
    BY <2>1, <2>3, WriteApart
  <2> QED BY <2>1, <2>4 DEF Apart
<1>16. CASE (\E i \in DOMAIN walk : Lose(i)) \/ UNCHANGED vars
  <2>1. UNCHANGED <<walk, disk, claims, run>>
    BY <1>16 DEF Lose, vars, given
  <2>2. \A p \in Part : Held(p)' = Held(p)
    BY <2>1 DEF Held
  <2>3. Home' = Home /\ Found' = Found
    BY <2>1 DEF Home, At, Found
  <2> QED BY <2>1, <2>2, <2>3 DEF Apart
<1> QED BY <1>1, <1>2, <1>3, <1>4, <1>5, <1>6, <1>7, <1>8, <1>9, <1>10, <1>11, <1>12, <1>13,
           <1>14, <1>15, <1>16
        DEF Next, Work, Ended

LEMMA FinishedInit == Init => Finished
  BY NoVolume, ArchiveAssumption DEF Init, Finished, At, Part

(* Every step leaves at most the current part incomplete. *)
LEMMA FinishedStep == Shape /\ Finished /\ [Next]_vars => Finished'
<1> SUFFICES ASSUME Shape, Finished, [Next]_vars PROVE Finished'
  OBVIOUS
<1>0. /\ run \in Local /\ run.entries \in Seq(Item) /\ run.current \in Part /\ run.at \in Part /\ run.part \in Part
      /\ run.closed \in BOOLEAN /\ run.error \in BOOLEAN
      /\ disk \in [Part -> Volume \cup {Theirs, Absent}] /\ 1 \in Part
      /\ (At("create") => run.current = 1)
  BY ArchiveAssumption DEF Shape, TypeOK, Local, Part, Progress
(* Steps of a run that goes on, writing no part but the current one. *)
<1>a. ASSUME exit' = exit, run.pc # "end", run'.current = run.current,
             \A p \in Part : p # run.current => disk'[p] = disk[p],
             run'.pc \notin {"create", "continue", "repack"},
             run'.pc \in {"walk", "retry"} => ~run'.closed,
             run'.pc = "close" /\ run'.closed => run'.error
      PROVE  Finished'
  BY <1>a DEF Finished, At
(* Steps that do not write. *)
<1>b. ASSUME UNCHANGED disk, exit' \notin {"ok", "error"}, run'.current = run.current,
             exit' # "none" => run'.pc = "end",
             run'.pc \notin {"create", "continue", "repack"},
             run'.pc \in {"walk", "retry"} => ~run'.closed,
             run'.pc = "close" /\ run'.closed => run'.error
      PROVE  Finished'
  BY <1>b DEF Finished, At
<1>1. CASE Create
  <2>1. run'.current = 1 /\ run.current = 1 /\ run.pc = "create" /\ run'.closed = run.closed
    BY <1>0, <1>1 DEF Create, Go, Local, At
  <2>2. CASE disk[1] = Absent
    <3>1. exit' = exit /\ Put(1, [members |-> <<>>, valid |-> FALSE]) /\ run'.pc = "walk"
      BY <1>0, <1>1, <2>2 DEF Create, Go, Local
    <3>2. \A p \in Part : p # run.current => disk'[p] = disk[p]
      BY <1>0, <2>1, <3>1, PutOther
    <3> QED BY <1>a, <2>1, <3>1, <3>2 DEF Finished
  <2>3. CASE disk[1] # Absent
    <3>1. exit' = "error" /\ run'.pc = "end" /\ disk' = disk
      BY <1>0, <1>1, <2>3 DEF Create, Go, Local
    <3>2. disk[run.current] \in {Theirs, Absent}
      BY <1>1 DEF Create, Finished
    <3> QED BY <2>1, <3>1, <3>2 DEF Finished, At
  <2> QED BY <2>2, <2>3
<1>2. CASE AddMember \/ (Retry /\ Add(Found))
  <2>1. Add(Found) /\ exit' = exit /\ run.pc \in {"walk", "retry"}
    BY <1>2 DEF AddMember, Retry, Walking, At
  <2>2. run'.pc = "walk" /\ run'.current = run.current /\ run'.closed = run.closed
    BY <1>0, <2>1 DEF Add, Local
  <2>3. \A p \in Part : p # run.current => disk'[p] = disk[p]
    BY <1>0, <2>1, PutOther DEF Add
  <2> QED BY <1>a, <2>1, <2>2, <2>3 DEF Finished
<1>3. CASE SkipRepeated \/ Refuse \/ TooLarge \/ WalkDone \/ WriteFails \/ (Retry /\ Fail /\ UNCHANGED disk)
  <2>1. /\ run.pc \in {"walk", "retry"} /\ run'.pc \in {"walk", "close", "discard"}
        /\ run'.current = run.current /\ run'.closed = run.closed
    BY <1>0, <1>3 DEF SkipRepeated, Refuse, TooLarge, WalkDone, WriteFails, Retry, Walking, Fail, Go, At, Local
  <2>2. UNCHANGED <<disk, exit>>
    BY <1>3 DEF SkipRepeated, Refuse, TooLarge, WalkDone, WriteFails, Retry
  <2> QED BY <1>a, <2>1, <2>2 DEF Finished
<1>4. CASE Discard
  <2>1. /\ run.pc = "discard" /\ run'.pc = "rebuild" /\ run'.current = run.current /\ exit' = exit
        /\ Put(run.current, Absent)
    BY <1>0, <1>4 DEF Discard, At, Local
  <2> QED BY <1>0, <1>a, <2>1, PutOther
<1>5. CASE Rebuild
  <2>1. PICK valid \in BOOLEAN :
          /\ Put(run.current, [members |-> run.entries, valid |-> valid])
          /\ IF valid THEN run'.pc = "continue" ELSE run'.pc = "close" /\ run'.error = TRUE
    BY <1>0, <1>5 DEF Rebuild, Go, Fail, Local
  <2>2. run'.current = run.current /\ exit' = exit /\ run.pc = "rebuild"
    BY <1>0, <1>5 DEF Rebuild, Go, Fail, At, Local
  <2>3. \A p \in Part : p # run.current => disk'[p] = disk[p]
    BY <1>0, <2>1, PutOther
  <2>4. disk'[run.current].valid = valid
    BY <1>0, <2>1, PutOther
  <2> QED BY <2>1, <2>2, <2>3, <2>4 DEF Finished, At
<1>6. CASE Continue
  <2>1. run.pc = "continue" /\ exit' = exit
    BY <1>6 DEF Continue, At
  <2>2. CASE disk[run.part + 1] = Absent
    <3>1. /\ run'.pc = "retry" /\ run'.current = run.part + 1 /\ run'.closed = FALSE
          /\ Put(run.part + 1, [members |-> <<>>, valid |-> FALSE])
      BY <1>0, <1>6, <2>2 DEF Continue, Local
    <3>2. run.part + 1 \in Part
      BY <1>0, <1>6, ArchiveAssumption DEF Continue, Part
    <3>3. \A p \in Part : p # run'.current => disk'[p] = disk[p]
      BY <1>0, <3>1, <3>2, PutOther
    <3>4. \A p \in Part : disk[p] \in Volume => disk[p].valid
      BY <2>1 DEF Finished
    <3> QED BY <2>1, <3>1, <3>3, <3>4 DEF Finished, At
  <2>3. CASE disk[run.part + 1] # Absent
    <3>1. run'.pc = "close" /\ run'.error = TRUE /\ run'.current = run.current /\ disk' = disk
      BY <1>0, <1>6, <2>3 DEF Continue, Local
    <3> QED BY <1>a, <2>1, <3>1
  <2> QED BY <2>2, <2>3
<1>7. CASE RolloverFails \/ CloseFails \/ Kill
  <2>1. /\ run'.current = run.current /\ disk' = disk
        /\ \/ run.pc # "end" /\ exit' = exit /\ run'.pc \in {"close", "remove"} /\ run'.error = TRUE
           \/ run'.pc = "end" /\ exit' = "killed"
    BY <1>0, <1>7 DEF RolloverFails, CloseFails, Kill, Return, Go, At, Local
  <2>2. run.pc # "end" => exit = "none"
    BY DEF Finished, At
  <2> QED BY <1>a, <1>b, <2>1, <2>2
<1>8. CASE CloseLast
  <2>1. run.pc = "close" /\ run'.current = run.current /\ exit = "none"
    BY <1>0, <1>8 DEF CloseLast, Return, Go, At, Local, Finished
  <2>2. CASE run.error
    <3>1. run'.pc = "remove" /\ exit' = exit /\ disk' = disk
      BY <1>0, <1>8, <2>2 DEF CloseLast, Return, Local
    <3> QED BY <1>a, <2>1, <3>1
  <2>3. CASE ~run.error
    <3>1. ~run.closed
      BY <2>1, <2>3 DEF Finished, At
    <3>2. /\ Put(run.current, [members |-> run.entries, valid |-> TRUE])
          /\ run'.pc = "end" /\ exit' = "ok"
      BY <1>0, <1>8, <2>3, <3>1 DEF CloseLast, Return, Go, Local
    <3>3. disk'[run.current].valid /\ \A p \in Part : p # run.current => disk'[p] = disk[p]
      BY <1>0, <3>2, PutOther
    <3> QED BY <2>1, <3>2, <3>3 DEF Finished, At
  <2> QED BY <2>2, <2>3
<1>9. CASE CloseTooLarge
  <2>1. /\ run.pc = "close" /\ run'.current = run.current /\ exit = "none" /\ Put(run.current, Absent)
        /\ run'.pc \in {"remove", "end", "repack"} /\ exit' \in {exit, "ok"} /\ (exit' # exit => run'.pc = "end")
    BY <1>0, <1>9 DEF CloseTooLarge, Return, Go, At, Local, Finished
  <2>2. disk'[run.current] = Absent /\ \A p \in Part : p # run.current => disk'[p] = disk[p]
    BY <1>0, <2>1, PutOther
  <2> QED BY <2>1, <2>2, NoVolume DEF Finished, At
<1>10. CASE Repack
  <2>1. /\ run.pc = "repack" /\ disk' = disk /\ exit' = exit /\ run'.current = run.current
        /\ run'.pc \in {"repack", "remove"}
    BY <1>0, <1>10 DEF Repack, Shorter, Return, At, Local
  <2> QED BY <2>1 DEF Finished, At
<1>11. CASE Packed
  <2>1. /\ run.pc = "repack" /\ run'.current = run.current /\ exit = "none"
        /\ Put(run.at, [members |-> Candidate, valid |-> TRUE])
        /\ run'.pc \in {"remove", "end", "repack"} /\ exit' \in {exit, "ok"} /\ (exit' # exit => run'.pc = "end")
    BY <1>0, <1>11 DEF Packed, Return, Go, At, Local, Finished
  <2>2. disk'[run.at].valid /\ \A p \in Part : p # run.at => disk'[p] = disk[p]
    BY <1>0, <2>1, PutOther
  <2>3. \A p \in Part : disk[p] \in Volume => disk[p].valid
    BY <2>1 DEF Finished
  <2>4. \A p \in Part : disk'[p] \in Volume => disk'[p].valid
    BY <2>2, <2>3
  <2> QED BY <1>0, <2>1, <2>4 DEF Finished, At
<1>12. CASE RepackFails
  <2>1. /\ run.pc = "repack" /\ run'.current = run.current /\ exit' = exit
        /\ Put(run.at, Absent) /\ run'.pc = "remove"
    BY <1>0, <1>12 DEF RepackFails, Return, At, Local
  <2>2. disk'[run.at] = Absent /\ \A p \in Part : p # run.at => disk'[p] = disk[p]
    BY <1>0, <2>1, PutOther
  <2> QED BY <2>1, <2>2, NoVolume DEF Finished, At
<1>13. CASE RemoveCurrent
  <2>1. /\ run'.current = run.current /\ run'.pc = "end" /\ exit' = "error" /\ Put(run.current, Absent)
    BY <1>0, <1>13 DEF RemoveCurrent, Go, Local
  <2>2. disk'[run.current] = Absent /\ \A p \in Part : p # run.current => disk'[p] = disk[p]
    BY <1>0, <2>1, PutOther
  <2> QED BY <2>1, <2>2 DEF Finished, At
<1>14. CASE (\E i \in DOMAIN walk : Lose(i)) \/ UNCHANGED vars
  <2>1. UNCHANGED <<disk, run, exit>>
    BY <1>14 DEF Lose, vars
  <2> QED BY <2>1 DEF Finished, At
<1>15. Retry => (Retry /\ Add(Found)) \/ (Retry /\ Fail /\ UNCHANGED disk)
  BY DEF Retry
<1> QED BY <1>1, <1>2, <1>3, <1>4, <1>5, <1>6, <1>7, <1>8, <1>9, <1>10, <1>11, <1>12, <1>13,
           <1>14, <1>15
        DEF Next, Work, Ended

(* LeavesValidParts: a run that ends by itself leaves archives that are    *)
(* complete, and no member in two of them, whatever failed before.         *)
THEOREM ValidPartsLeft == Spec => []LeavesValidParts
<1>1. Shape /\ Apart /\ Finished => LeavesValidParts
  <2> SUFFICES ASSUME Shape, Apart, Finished, exit \in {"ok", "error"}, NEW p \in Part, NEW q \in Part,
                      disk[p] \notin {Theirs, Absent}
      PROVE  /\ disk[p].valid
             /\ p # q /\ disk[q] \notin {Theirs, Absent} =>
                  Range(disk[p].members) \cap Range(disk[q].members) = {}
    BY DEF LeavesValidParts
  <2>1. disk \in [Part -> Volume \cup {Theirs, Absent}] /\ disk[p] \in Volume
    BY DEF Shape, TypeOK
  <2>2. disk[p].valid
    BY <2>1 DEF Finished
  <2>3. ASSUME p # q, disk[q] \notin {Theirs, Absent} PROVE Held(p) \cap Held(q) = {} /\ disk[q] \in Volume
    BY <2>1, <2>3 DEF Apart
  <2> QED BY <2>1, <2>2, <2>3 DEF Held
<1>2. Spec => [](Shape /\ Apart /\ Finished)
  BY ShapeInit, ShapeStep, ApartInit, ApartStep, FinishedInit, FinishedStep, PTL DEF Spec
<1> QED BY <1>1, <1>2, PTL

----------------------------------------------------------------------------
(* The members of a walk, and what files hold one after the other *)

LessThan == {p \in Nat \X Nat : p[1] < p[2]}

(* A set of numbers has a least element.                                   *)
LEMMA Least ==
  ASSUME NEW S, S \subseteq Nat, S # {}
  PROVE  \E x \in S : \A y \in S : x <= y
<1>1. IsWellFoundedOn(LessThan, Nat)
  <2>1. LessThan = OpToRel(<, Nat)
    BY DEF LessThan, OpToRel
  <2> QED BY <2>1, NatLessThanWellFounded
<1>2. PICK x \in S : \A y \in S : ~(<<y, x>> \in LessThan)
  BY <1>1, WFMin
<1>3. ASSUME NEW y \in S PROVE x <= y
  <2>1. x \in Nat /\ y \in Nat /\ ~(<<y, x>> \in LessThan)
    BY <1>2
  <2> QED BY <2>1 DEF LessThan
<1> QED BY <1>3

(* Walking on, a member is appended unless it was seen.                    *)
LEMMA FirstsSteps ==
  ASSUME NEW items, Len(items) \in Nat
  PROVE  /\ Firsts(items)[0] = <<>>
         /\ \A n \in 1..Len(items) :
              Firsts(items)[n] = IF items[n] \in Range(Firsts(items)[n - 1]) THEN Firsts(items)[n - 1]
                                 ELSE Append(Firsts(items)[n - 1], items[n])
<1> DEFINE First == <<>>
           Next2(x, n) == IF items[n] \in Range(x) THEN x ELSE Append(x, items[n])
           Is(f, m) == f = [n \in 0..m |-> IF n = 0 THEN First ELSE Next2(f[n - 1], n)]
           Without == {m \in Nat : ~\E f : Is(f, m)}
<1>1. Firsts(items) = CHOOSE f : Is(f, Len(items))
  BY DEF Firsts
<1> HIDE DEF First, Next2
<1>2. Without = {}
  <2>1. SUFFICES ASSUME Without # {} PROVE FALSE
    OBVIOUS
  <2>2. PICK m \in Without : \A k \in Without : m <= k
    BY <2>1, Least
  <2>3. Is([n \in 0..0 |-> First], 0)
    OBVIOUS
  <2>4. m # 0
    <3> HIDE DEF Is
    <3> QED BY <2>3
  <2>5. m - 1 \in Nat /\ m - 1 \notin Without
    <3>1. m \in Nat
      BY <2>2
    <3> HIDE DEF Without
    <3> QED BY <2>2, <2>4, <3>1
  <2>6. PICK f : Is(f, m - 1)
    BY <2>5
  <2> DEFINE g == [n \in 0..m |-> IF n = m THEN Next2(f[m - 1], m) ELSE f[n]]
  <2>7. g[0] = First
    BY <2>5, <2>6
  <2>8. \A n \in 0..m : n = 0 \/ g[n] = Next2(g[n - 1], n)
    BY <2>5, <2>6
  <2>9. Is(g, m)
    BY <2>5, <2>7, <2>8
  <2> QED BY <2>2, <2>9
<1>3. \E f : Is(f, Len(items))
  BY <1>2
<1>4. Is(Firsts(items), Len(items))
  <2> HIDE DEF Is
  <2> QED BY <1>1, <1>3
<1>5. /\ Firsts(items)[0] = First
      /\ \A n \in 1..Len(items) : Firsts(items)[n] = Next2(Firsts(items)[n - 1], n)
  BY <1>4
<1> QED BY <1>5 DEF First, Next2

(* Going through the files, what an archive holds is appended.             *)
LEMMA JoinedSteps ==
  ASSUME NEW files
  PROVE  /\ Joined(files)[0] = <<>>
         /\ \A p \in Part :
              Joined(files)[p] = IF files[p] \in {Theirs, Absent} THEN Joined(files)[p - 1]
                                 ELSE Joined(files)[p - 1] \o files[p].members
<1> DEFINE First == <<>>
           Next2(x, p) == IF files[p] \in {Theirs, Absent} THEN x ELSE x \o files[p].members
           Is(f, m) == f = [p \in 0..m |-> IF p = 0 THEN First ELSE Next2(f[p - 1], p)]
           Without == {m \in Nat : ~\E f : Is(f, m)}
<1>1. Joined(files) = CHOOSE f : Is(f, MaxPart)
  BY DEF Joined
<1> HIDE DEF First, Next2
<1>2. Without = {}
  <2>1. SUFFICES ASSUME Without # {} PROVE FALSE
    OBVIOUS
  <2>2. PICK m \in Without : \A k \in Without : m <= k
    BY <2>1, Least
  <2>3. Is([p \in 0..0 |-> First], 0)
    OBVIOUS
  <2>4. m # 0
    <3> HIDE DEF Is
    <3> QED BY <2>3
  <2>5. m - 1 \in Nat /\ m - 1 \notin Without
    <3>1. m \in Nat /\ m - 1 \in Nat /\ ~(m <= m - 1)
      BY <2>2, <2>4
    <3> HIDE DEF Without
    <3> QED BY <2>2, <3>1
  <2>6. PICK f : Is(f, m - 1)
    BY <2>5
  <2> DEFINE g == [p \in 0..m |-> IF p = m THEN Next2(f[m - 1], m) ELSE f[p]]
  <2>7. g[0] = First
    BY <2>5, <2>6
  <2>8. \A p \in 0..m : p = 0 \/ g[p] = Next2(g[p - 1], p)
    BY <2>5, <2>6
  <2>9. Is(g, m)
    BY <2>5, <2>7, <2>8
  <2> QED BY <2>2, <2>9
<1>3. \E f : Is(f, MaxPart)
  BY <1>2, ArchiveAssumption
<1>4. Is(Joined(files), MaxPart)
  <2> HIDE DEF Is
  <2> QED BY <1>1, <1>3
<1>5. /\ Joined(files)[0] = First
      /\ \A p \in 1..MaxPart : Joined(files)[p] = Next2(Joined(files)[p - 1], p)
  BY <1>4, ArchiveAssumption
<1> QED BY <1>5 DEF First, Next2, Part

(* The members seen so far are the first of those seen later.              *)
LEMMA FirstsType ==
  ASSUME NEW items \in Seq(Item)
  PROVE  \A n \in 0..Len(items) :
           /\ Firsts(items)[n] \in Seq(Item)
           /\ Range(Firsts(items)[n]) = {items[j] : j \in 1..n}
<1> DEFINE Good(n) == /\ Firsts(items)[n] \in Seq(Item)
                      /\ Range(Firsts(items)[n]) = {items[j] : j \in 1..n}
           Bad == {n \in Nat : n <= Len(items) /\ ~Good(n)}
<1>0. Len(items) \in Nat /\ \A n \in 1..Len(items) : items[n] \in Item
  OBVIOUS
<1>a. SUFFICES \A n \in 0..Len(items) : Good(n)
  OBVIOUS
<1>1. SUFFICES ASSUME Bad # {} PROVE FALSE
  <2> HIDE DEF Good
  <2> QED BY <1>0
<1>2. PICK n \in Bad : \A k \in Bad : n <= k
  BY <1>1, Least
<1>3. Good(0)
  <2>1. Firsts(items)[0] = <<>> /\ Range(<<>>) = {}
    BY <1>0, FirstsSteps DEF Range
  <2> QED BY <2>1
<1>4. n \in 1..Len(items) /\ Good(n - 1)
  <2>1. n # 0
    BY <1>2, <1>3
  <2>2. n \in Nat /\ n <= Len(items) /\ n - 1 \in Nat /\ ~(n <= n - 1)
    BY <1>2, <2>1
  <2>3. n - 1 \notin Bad /\ n - 1 <= Len(items)
    <3> HIDE DEF Bad
    <3> QED BY <1>0, <1>2, <2>2
  <2> HIDE DEF Good
  <2> QED BY <1>0, <2>1, <2>2, <2>3
<1>5. {items[j] : j \in 1..n} = {items[j] : j \in 1..(n - 1)} \cup {items[n]}
  BY <1>4
<1>6. Firsts(items)[n] = IF items[n] \in Range(Firsts(items)[n - 1]) THEN Firsts(items)[n - 1]
                         ELSE Append(Firsts(items)[n - 1], items[n])
  BY <1>0, <1>4, FirstsSteps
<1>7. Good(n)
  <2>1. CASE items[n] \in Range(Firsts(items)[n - 1])
    BY <1>4, <1>5, <1>6, <2>1
  <2>2. CASE items[n] \notin Range(Firsts(items)[n - 1])
    <3> DEFINE s == Firsts(items)[n - 1]
    <3>1. s \in Seq(Item) /\ Range(s) = {items[j] : j \in 1..(n - 1)} /\ items[n] \in Item
      BY <1>0, <1>4
    <3>2. Firsts(items)[n] = Append(s, items[n])
      BY <1>6, <2>2
    <3> HIDE DEF s
    <3>3. Append(s, items[n]) \in Seq(Item) /\ Range(Append(s, items[n])) = Range(s) \cup {items[n]}
      BY <3>1, AppendProperties, RangeAppend
    <3> QED BY <1>5, <3>1, <3>2, <3>3
  <2> QED BY <2>1, <2>2
<1> QED BY <1>2, <1>7

LEMMA FirstsGrow ==
  ASSUME NEW items \in Seq(Item), NEW m \in 0..Len(items)
  PROVE  \A n \in m..Len(items) :
           \E more \in Seq(Item) : Firsts(items)[n] = Firsts(items)[m] \o more
<1> DEFINE Good(n) == \E more \in Seq(Item) : Firsts(items)[n] = Firsts(items)[m] \o more
           Bad == {n \in Nat : m <= n /\ n <= Len(items) /\ ~Good(n)}
<1>0. Len(items) \in Nat /\ m \in Nat /\ Firsts(items)[m] \in Seq(Item)
  BY FirstsType
<1>a. SUFFICES \A n \in m..Len(items) : Good(n)
  OBVIOUS
<1>1. SUFFICES ASSUME Bad # {} PROVE FALSE
  <2> HIDE DEF Good
  <2> QED BY <1>0
<1>2. PICK n \in Bad : \A k \in Bad : n <= k
  BY <1>1, Least
<1>3. Good(m)
  <2>1. Firsts(items)[m] = Firsts(items)[m] \o <<>> /\ <<>> \in Seq(Item)
    BY <1>0, ConcatEmptySeq
  <2> QED BY <2>1
<1>4. n \in 1..Len(items) /\ Good(n - 1) /\ n - 1 \in 0..Len(items)
  <2> HIDE DEF Good
  <2>1. n # m
    BY <1>2, <1>3
  <2>2. n \in Nat /\ n <= Len(items) /\ n - 1 \in Nat /\ ~(n <= n - 1) /\ m <= n - 1
    BY <1>0, <1>2, <2>1
  <2>3. n - 1 \notin Bad /\ n - 1 <= Len(items)
    BY <1>0, <1>2, <2>2
  <2> QED BY <1>0, <2>2, <2>3
<1>5. PICK more \in Seq(Item) : Firsts(items)[n - 1] = Firsts(items)[m] \o more
  BY <1>4
<1>6. items[n] \in Item
  BY <1>4
<1>7. Append(Firsts(items)[m] \o more, items[n]) = Firsts(items)[m] \o Append(more, items[n])
  <2> DEFINE s == Firsts(items)[m]
             e == items[n]
  <2>0. s \in Seq(Item) /\ e \in Item
    BY <1>0, <1>6
  <2> HIDE DEF s, e
  <2>1. Append(s \o more, e) = s \o Append(more, e)
    BY <2>0, AppendBehind
  <2> QED BY <2>1 DEF s, e
<1>8. Append(more, items[n]) \in Seq(Item)
  BY <1>6, AppendProperties
<1>9. Good(n)
  BY <1>0, <1>4, <1>5, <1>7, <1>8, FirstsSteps
<1> QED BY <1>2, <1>9

LEMMA JoinedType ==
  ASSUME NEW files \in [Part -> Volume \cup {Theirs, Absent}]
  PROVE  \A p \in 0..MaxPart : Joined(files)[p] \in Seq(Item)
<1> DEFINE Bad == {p \in Nat : p <= MaxPart /\ Joined(files)[p] \notin Seq(Item)}
<1>0. MaxPart \in Nat
  BY ArchiveAssumption
<1>1. SUFFICES ASSUME Bad # {} PROVE FALSE
  BY <1>0
<1>2. PICK p \in Bad : \A k \in Bad : p <= k
  BY <1>1, Least
<1>3. p # 0
  <2>1. Joined(files)[0] \in Seq(Item)
    BY JoinedSteps, EmptySeq
  <2> QED BY <1>2, <2>1
<1>4. p \in Part /\ Joined(files)[p - 1] \in Seq(Item)
  BY <1>0, <1>2, <1>3 DEF Part
<1>5. files[p] \notin {Theirs, Absent} => files[p].members \in Seq(Item)
  BY <1>4 DEF Volume
<1>6. files[p] \notin {Theirs, Absent} => Joined(files)[p - 1] \o files[p].members \in Seq(Item)
  BY <1>4, <1>5, ConcatProperties
<1> QED BY <1>2, <1>4, <1>6, JoinedSteps

(* It depends on these files only.                                         *)
LEMMA JoinedSame ==
  ASSUME NEW files, NEW others, NEW n \in 0..MaxPart, \A p \in 1..n : others[p] = files[p]
  PROVE  Joined(others)[n] = Joined(files)[n]
<1> DEFINE Bad == {p \in Nat : p <= n /\ Joined(others)[p] # Joined(files)[p]}
<1>0. MaxPart \in Nat /\ n \in Nat /\ n <= MaxPart
  BY ArchiveAssumption
<1>1. SUFFICES ASSUME Bad # {} PROVE FALSE
  BY <1>0
<1>2. PICK p \in Bad : \A k \in Bad : p <= k
  BY <1>1, Least
<1>3. p # 0
  BY <1>2, JoinedSteps
<1>4. p \in Part /\ p \in 1..n /\ Joined(others)[p - 1] = Joined(files)[p - 1]
  BY <1>0, <1>2, <1>3 DEF Part
<1> QED BY <1>2, <1>4, JoinedSteps

(* One more item of the walk.                                              *)
LEMMA FirstsNext ==
  ASSUME walk \in Seq(Item), NEW n \in 1..Len(walk)
  PROVE  /\ Firsts(walk)[n - 1] \in Seq(Item) /\ Firsts(walk)[n] \in Seq(Item) /\ walk[n] \in Item
         /\ walk[n] \in {walk[j] : j \in 1..(n - 1)} => Firsts(walk)[n] = Firsts(walk)[n - 1]
         /\ walk[n] \notin {walk[j] : j \in 1..(n - 1)} =>
              Firsts(walk)[n] = Append(Firsts(walk)[n - 1], walk[n])
<1>1. Len(walk) \in Nat /\ n - 1 \in 0..Len(walk) /\ n \in 0..Len(walk)
  OBVIOUS
<1>2. /\ Firsts(walk)[n - 1] \in Seq(Item) /\ Firsts(walk)[n] \in Seq(Item)
      /\ Range(Firsts(walk)[n - 1]) = {walk[j] : j \in 1..(n - 1)}
  BY <1>1, FirstsType
<1>3. Firsts(walk)[n] = IF walk[n] \in Range(Firsts(walk)[n - 1]) THEN Firsts(walk)[n - 1]
                        ELSE Append(Firsts(walk)[n - 1], walk[n])
  BY <1>1, FirstsSteps
<1> QED BY <1>2, <1>3

(* A prefix and the rest.                                                  *)
LEMMA Split ==
  ASSUME NEW t \in Seq(Item), NEW c \in 1..Len(t)
  PROVE  t = SubSeq(t, 1, c) \o SubSeq(t, c + 1, Len(t))
<1>1. 1 \in 1..(Len(t) + 1) /\ c \in (1 - 1)..Len(t) /\ Len(t) \in c..Len(t)
  OBVIOUS
<1>2. SubSeq(t, 1, c) \o SubSeq(t, c + 1, Len(t)) = SubSeq(t, 1, Len(t))
  BY <1>1, ConcatAdjacentSubSeq
<1>3. SubSeq(t, 1, Len(t)) = t
  BY SubSeqFull
<1> QED BY <1>2, <1>3

LEMMA EntriesSplit ==
  ASSUME Shape, At("repack")
  PROVE  Candidate \in Seq(Item) /\ Rest \in Seq(Item) /\ run.entries = Candidate \o Rest
<1>1. run.entries \in Seq(Item) /\ run.count \in 1..Len(run.entries)
  BY DEF Shape, TypeOK, Local, Progress
<1>2. run.entries = Candidate \o Rest
  BY <1>1, Split DEF Candidate, Rest
<1> QED BY <1>2, PrefixType

----------------------------------------------------------------------------
(* What has been found so far *)

Passed == Firsts(walk)[run.next - 1]

(* Everything found so far is claimed, and the entries are the last of it. *)
Recorded ==
  /\ run.next \in 1..(Len(walk) + 1)
  /\ claims = {walk[j] : j \in 1..(run.next - 1)}
  /\ \E before \in Seq(Item) : Passed = before \o run.entries

LEMMA RecordedInit == Init => Recorded
<1> SUFFICES ASSUME Init PROVE Recorded
  OBVIOUS
<1>1. walk \in Seq(Item) /\ Len(walk) \in Nat
  BY ArchiveAssumption DEF Init
<1>2. run.next = 1 /\ run.entries = <<>> /\ claims = {}
  BY DEF Init
<1>3. Passed = <<>>
  BY <1>1, <1>2, FirstsSteps DEF Passed
<1>4. <<>> \in Seq(Item) /\ <<>> \o <<>> = <<>>
  BY ConcatEmptySeq
<1>5. run.next \in 1..(Len(walk) + 1) /\ 1..(run.next - 1) = {}
  BY <1>1, <1>2
<1>6. claims = {walk[j] : j \in 1..(run.next - 1)}
  BY <1>2, <1>5
<1>7. \E before \in Seq(Item) : Passed = before \o run.entries
  BY <1>2, <1>3, <1>4
<1> QED BY <1>5, <1>6, <1>7 DEF Recorded

(* A member that is added is the next of the walk's members.               *)
LEMMA FoundNext ==
  ASSUME Shape, Recorded, run.next <= Len(walk), Found \notin claims, Add(Found), walk' = walk
  PROVE  /\ Recorded'
         /\ Passed' = Append(Passed, Found)
         /\ run'.entries = Append(run.entries, Found) /\ run'.entries # <<>>
         /\ run'.next = run.next + 1 /\ run'.pc = "walk"
<1> DEFINE n == run.next
<1>1. /\ walk \in Seq(Item) /\ Len(walk) \in Nat /\ n \in 1..Len(walk) /\ run \in Local
      /\ run.entries \in Seq(Item)
  BY DEF Shape, TypeOK, Local, Recorded
<1>2. /\ run'.next = n + 1 /\ run'.pc = "walk" /\ run'.entries = Append(run.entries, Found)
      /\ claims' = claims \cup {Found}
  BY <1>1 DEF Add, Extended, Local
<1>3. /\ Passed = Firsts(walk)[n - 1] /\ Passed' = Firsts(walk)[n] /\ Found = walk[n]
      /\ claims = {walk[j] : j \in 1..(n - 1)}
  <2>1. run'.next - 1 = n
    BY <1>1, <1>2
  <2> QED BY <2>1 DEF Passed, Found, Recorded
<1> HIDE DEF n
<1>4. Found \in Item /\ Passed' = Append(Passed, Found)
  BY <1>1, <1>3, FirstsNext
<1>5. PICK before \in Seq(Item) : Passed = before \o run.entries
  BY DEF Recorded
<1>6. Passed' = before \o run'.entries
  BY <1>1, <1>2, <1>4, <1>5, AppendBehind
<1>7. claims' = {walk[j] : j \in 1..n}
  <2>1. \A j \in 1..n : j \in 1..(n - 1) \/ j = n
    BY <1>1
  <2>2. n \in 1..n /\ \A j \in 1..(n - 1) : j \in 1..n
    BY <1>1
  <2> QED BY <1>2, <1>3, <2>1, <2>2
<1>8. Recorded'
  <2>1. run'.next \in 1..(Len(walk') + 1) /\ run'.next - 1 = n
    BY <1>1, <1>2
  <2>2. claims' = {walk'[j] : j \in 1..(run'.next - 1)}
    BY <1>7, <2>1
  <2>3. \E b \in Seq(Item) : Passed' = b \o run'.entries
    BY <1>6
  <2> QED BY <2>1, <2>2, <2>3 DEF Recorded
<1>9. run'.entries # <<>>
  <2>1. Append(run.entries, Found) # <<>>
    BY <1>1, <1>4, AppendedType
  <2> QED BY <1>2, <2>1
<1> QED BY <1>2, <1>4, <1>8, <1>9 DEF n

(* Steps that neither go on with the walk nor change the entries.          *)
LEMMA RecordedQuiet ==
  ASSUME Recorded, UNCHANGED <<walk, claims>>, run'.next = run.next, run'.entries = run.entries
  PROVE  Recorded' /\ Passed' = Passed
  BY DEF Recorded, Passed

(* A directory that is there already adds nothing.                         *)
LEMMA SkipSeen ==
  ASSUME Shape, Recorded, SkipRepeated
  PROVE  /\ run'.next = run.next + 1 /\ run'.next - 1 = run.next /\ run.next \in 1..Len(walk)
         /\ Found = walk[run.next] /\ Found \in claims /\ Passed' = Passed
<1>1. /\ run \in Local /\ walk \in Seq(Item) /\ Len(walk) \in Nat
      /\ run.next \in 1..(Len(walk) + 1)
  BY DEF Shape, TypeOK, Local, Recorded
<1>2. run'.next = run.next + 1 /\ walk' = walk
  BY <1>1 DEF SkipRepeated, given, Local
<1>3. run.next \in 1..Len(walk) /\ Found = walk[run.next] /\ Found \in claims
  BY <1>1 DEF SkipRepeated, Walking, Found, Repeated
<1>4. run'.next - 1 = run.next
  BY <1>1, <1>2
<1>5. Passed' = Firsts(walk)[run.next] /\ Passed = Firsts(walk)[run.next - 1]
  BY <1>2, <1>4 DEF Passed
<1>6. Passed' = Passed
  BY <1>1, <1>3, <1>5, FirstsNext DEF Recorded
<1> QED BY <1>2, <1>3, <1>4, <1>6

(* Every step keeps the account of what has been found.                    *)
LEMMA RecordedStep == Shape /\ Apart /\ Recorded /\ [Next]_vars => Recorded'
<1> SUFFICES ASSUME Shape, Apart, Recorded, [Next]_vars PROVE Recorded'
  OBVIOUS
<1>0. /\ run \in Local /\ run.entries \in Seq(Item) /\ walk \in Seq(Item) /\ Len(walk) \in Nat
      /\ run.next \in 1..(Len(walk) + 1)
  BY DEF Shape, TypeOK, Local, Recorded
<1>1. CASE AddMember
  BY <1>1, FoundFresh, FoundNext DEF AddMember, Walking, given
<1>2. CASE Retry /\ Add(Found)
  <2>1. run.next <= Len(walk) /\ Found \notin claims
    BY <1>2 DEF Retry, At, Shape, Progress, Apart
  <2> QED BY <1>2, <2>1, FoundNext DEF Retry, given
<1>3. CASE SkipRepeated
  <2>1. run'.next = run.next + 1 /\ run'.entries = run.entries /\ claims' = claims /\ walk' = walk
    BY <1>0, <1>3 DEF SkipRepeated, given, Local
  <2>2. /\ run.next \in 1..Len(walk) /\ walk[run.next] \in claims /\ Passed' = Passed
        /\ run'.next - 1 = run.next /\ run'.next \in 1..(Len(walk) + 1)
    BY <1>0, <1>3, SkipSeen
  <2>3. claims = {walk[j] : j \in 1..(run.next - 1)}
    BY DEF Recorded
  <2>4. {walk[j] : j \in 1..run.next} = claims
    <3>1. \A j \in 1..run.next : j \in 1..(run.next - 1) \/ j = run.next
      BY <1>0
    <3>2. \A j \in 1..(run.next - 1) : j \in 1..run.next
      BY <1>0
    <3> QED BY <2>2, <2>3, <3>1, <3>2
  <2>5. claims' = {walk'[j] : j \in 1..(run'.next - 1)}
    BY <2>1, <2>2, <2>4
  <2>6. \E before \in Seq(Item) : Passed' = before \o run'.entries
    BY <2>1, <2>2 DEF Recorded
  <2> QED BY <2>1, <2>2, <2>5, <2>6 DEF Recorded
<1>4. CASE Continue /\ run'.entries # run.entries
  <2>1. run'.entries = <<>> /\ run'.next = run.next /\ UNCHANGED <<walk, claims>>
    BY <1>0, <1>4 DEF Continue, given, Local
  <2>2. Passed' = Passed /\ Passed \in Seq(Item)
    <3>1. run.next - 1 \in 0..Len(walk)
      BY <1>0
    <3> QED BY <1>0, <2>1, <3>1, FirstsType DEF Passed
  <2>3. Passed' = Passed \o run'.entries
    BY <2>1, <2>2, ConcatEmptySeq
  <2>4. \E before \in Seq(Item) : Passed' = before \o run'.entries
    BY <2>2, <2>3
  <2> QED BY <2>1, <2>4 DEF Recorded
<1>5. CASE Packed /\ Rest # <<>>
  <2>1. At("repack") /\ run'.entries = Rest /\ run'.next = run.next /\ UNCHANGED <<walk, claims>>
    BY <1>0, <1>5 DEF Packed, given, Local
  <2>2. PICK before \in Seq(Item) : Passed = before \o run.entries
    BY DEF Recorded
  <2>3. Candidate \in Seq(Item) /\ Rest \in Seq(Item) /\ run.entries = Candidate \o Rest
    BY <2>1, EntriesSplit
  <2>4. Passed = (before \o Candidate) \o Rest /\ before \o Candidate \in Seq(Item)
    <3> DEFINE c == Candidate
               r == Rest
    <3>1. before \in Seq(Item) /\ c \in Seq(Item) /\ r \in Seq(Item)
      BY <2>3
    <3>2. Passed = before \o (c \o r)
      BY <2>2, <2>3
    <3> HIDE DEF c, r
    <3>3. before \o c \in Seq(Item) /\ (before \o c) \o r = before \o (c \o r)
      BY <3>1, Associative
    <3> QED BY <3>2, <3>3 DEF c, r
  <2>5. Passed' = (before \o Candidate) \o run'.entries
    BY <2>1, <2>4 DEF Passed
  <2>6. \E b \in Seq(Item) : Passed' = b \o run'.entries
    BY <2>4, <2>5
  <2> QED BY <2>1, <2>6 DEF Recorded
<1>6. ASSUME UNCHANGED <<walk, claims>>, run'.next = run.next, run'.entries = run.entries
      PROVE  Recorded'
  BY <1>6, RecordedQuiet
<1>7. CASE Create \/ Refuse \/ TooLarge \/ WalkDone \/ Discard \/ Rebuild \/ WriteFails \/ RolloverFails
  BY <1>0, <1>6, <1>7
     DEF Create, Refuse, TooLarge, WalkDone, Discard, Rebuild, WriteFails, RolloverFails, Go, Fail, given, Local
<1>8. CASE (Continue /\ run'.entries = run.entries) \/ (Retry /\ Fail /\ UNCHANGED <<disk, claims>>)
  BY <1>0, <1>6, <1>8 DEF Continue, Retry, Fail, given, Local
<1>9. CASE CloseLast \/ CloseTooLarge \/ CloseFails \/ Repack \/ (Packed /\ Rest = <<>>) \/ RepackFails
  BY <1>0, <1>6, <1>9
     DEF CloseLast, CloseTooLarge, CloseFails, Repack, Shorter, Packed, RepackFails, Return, Go, given, Local
<1>10. CASE RemoveCurrent \/ Kill \/ (\E i \in DOMAIN walk : Lose(i)) \/ UNCHANGED vars
  BY <1>0, <1>6, <1>10 DEF RemoveCurrent, Kill, Lose, Go, vars, given, Local
<1>11. Retry => (Retry /\ Add(Found)) \/ (Retry /\ Fail /\ UNCHANGED <<disk, claims>>)
  BY DEF Retry
<1> QED BY <1>1, <1>2, <1>3, <1>4, <1>5, <1>7, <1>8, <1>9, <1>10, <1>11 DEF Next, Work, Ended

----------------------------------------------------------------------------
(* Success *)

Complete(p) == disk[p] \in Volume /\ disk[p].valid /\ Closes(disk[p].members)

(* The parts before the one that is being written are complete, and with   *)
(* the entries they hold what has been found, in order.                    *)
Laid ==
  /\ run.part = Home
  /\ \A p \in 1..(run.part - 1) : Complete(p)
  /\ Passed = Joined(disk)[run.part - 1] \o run.entries

(* ... as long as there is no error.  A part that is about to be continued *)
(* holds the entries; a part is not finished without any, nor the last one *)
(* before the walk is.                                                     *)
Going == ~run.error /\ run.pc \notin {"remove", "end"}

Filled ==
  /\ walk # <<>>
  /\ Going =>
       /\ Laid
       /\ At("continue") => Complete(run.part) /\ disk[run.part].members = run.entries
       /\ run.entries = <<>> => At("retry") \/ run.next = 1
       /\ run.pc \in {"close", "repack"} => run.next > Len(walk)
  /\ SuccessIsComplete

LEMMA FilledInit == Init => Filled
<1> SUFFICES ASSUME Init PROVE Filled
  OBVIOUS
<1>1. walk \in Seq(Item) /\ Len(walk) \in Nat /\ walk # <<>>
  BY ArchiveAssumption DEF Init
<1>2. /\ run.next = 1 /\ run.entries = <<>> /\ run.part = 1 /\ run.current = 1
      /\ run.pc = "create" /\ exit = "none"
  BY DEF Init
<1>3. Passed = <<>> /\ Joined(disk)[0] = <<>> /\ <<>> \o <<>> = <<>>
  BY <1>1, <1>2, FirstsSteps, JoinedSteps, ConcatEmptySeq DEF Passed
<1>4. Laid
  BY <1>2, <1>3 DEF Laid, Home, At
<1> QED BY <1>1, <1>2, <1>4 DEF Filled, At, SuccessIsComplete

(* An error, or an end of another kind than success, leaves nothing to     *)
(* account for.                                                            *)
LEMMA FilledVoid ==
  ASSUME Filled, walk' = walk, run'.error \/ run'.pc \in {"remove", "end"}, exit' # "ok"
  PROVE  Filled'
  BY DEF Filled, Going, SuccessIsComplete

(* Steps that write the current part only, or nothing.                     *)
LEMMA LaidKeeps ==
  ASSUME Shape, Laid, walk' = walk, run'.part = run.part, run'.next = run.next,
         run'.entries = run.entries, Home' = Home,
         \A p \in Part : p # Home => disk'[p] = disk[p]
  PROVE  Laid'
<1>1. run.part \in Part /\ run.part = Home
  BY DEF Shape, TypeOK, Local, Laid
<1>2. run.part - 1 \in 0..MaxPart /\ \A p \in 1..(run.part - 1) : p \in Part /\ p # Home
  BY <1>1, ArchiveAssumption DEF Part
<1>3. \A p \in 1..(run.part - 1) : disk'[p] = disk[p]
  BY <1>2
<1>4. Joined(disk')[run.part - 1] = Joined(disk)[run.part - 1]
  BY <1>2, <1>3, JoinedSame
<1>5. \A p \in 1..(run.part - 1) : Complete(p)'
  BY <1>3 DEF Laid, Complete, Closes
<1>6. Passed' = Passed
  BY DEF Passed
<1> QED BY <1>1, <1>4, <1>5, <1>6 DEF Laid

(* The current part is finished with these members.                        *)
LEMMA LaidFinish ==
  ASSUME Shape, Laid, walk' = walk, run'.next = run.next,
         NEW members \in Seq(Item), NEW rest \in Seq(Item), run.entries = members \o rest,
         Closes(members), Put(run.part, [members |-> members, valid |-> TRUE])
  PROVE  /\ \A p \in 1..run.part : Complete(p)'
         /\ Passed' = Joined(disk')[run.part] \o rest
         /\ disk'[run.part].members = members
<1>1. /\ run.part \in Part /\ run.part = Home
      /\ disk \in [Part -> Volume \cup {Theirs, Absent}]
  BY DEF Shape, TypeOK, Local, Laid
<1>2. /\ run.part - 1 \in 0..MaxPart /\ run.part \in Nat /\ run.part - 1 \in Nat
      /\ \A p \in 1..(run.part - 1) : p \in Part /\ p # run.part
  BY <1>1, ArchiveAssumption DEF Part
<1> DEFINE volume == [members |-> members, valid |-> TRUE]
<1>3. volume \in Volume /\ volume.members = members /\ volume.valid
  BY VolumeType
<1>4. disk'[run.part] = volume /\ \A p \in Part : p # run.part => disk'[p] = disk[p]
  BY <1>1, PutOther
<1> HIDE DEF volume
<1>5. disk' \in [Part -> Volume \cup {Theirs, Absent}]
  BY <1>1, <1>3, PutType DEF volume
<1>6. Joined(disk')[run.part - 1] = Joined(disk)[run.part - 1] /\ Joined(disk)[run.part - 1] \in Seq(Item)
  BY <1>1, <1>2, <1>4, JoinedSame, JoinedType
<1>7. Joined(disk')[run.part] = Joined(disk)[run.part - 1] \o members
  <2>1. volume \notin {Theirs, Absent}
    BY <1>3, NoVolume
  <2>2. Joined(disk')[run.part] = Joined(disk')[run.part - 1] \o disk'[run.part].members
    BY <1>1, <1>4, <2>1, JoinedSteps
  <2> QED BY <1>3, <1>4, <1>6, <2>2
<1>8. Joined(disk')[run.part] \o rest = Joined(disk)[run.part - 1] \o run.entries
  <2>1. \A s \in Seq(Item) : (s \o members) \o rest = s \o (members \o rest)
    BY ConcatAssociative
  <2> QED BY <1>6, <1>7, <2>1
<1>9. ASSUME NEW p \in 1..run.part PROVE Complete(p)'
  <2>1. CASE p = run.part
    BY <1>3, <1>4, <2>1 DEF Complete, Closes
  <2>2. CASE p # run.part
    <3>1. p \in 1..(run.part - 1)
      BY <1>2, <2>2
    <3> QED BY <1>2, <1>4, <3>1 DEF Laid, Complete, Closes
  <2> QED BY <2>1, <2>2
<1>10. Passed' = Passed
  BY DEF Passed
<1> QED BY <1>3, <1>4, <1>8, <1>9, <1>10 DEF Laid

(* The last part has been finished.                                        *)
LEMMA LaidLast ==
  ASSUME Shape, Recorded, Laid, walk' = walk, run'.next = run.next, run'.part = run.part,
         run.next > Len(walk), Closes(run.entries),
         Put(run.part, [members |-> run.entries, valid |-> TRUE])
  PROVE  SuccessIsComplete'
<1>1. run.entries \in Seq(Item) /\ disk \in [Part -> Volume \cup {Theirs, Absent}] /\ run.part \in Part
  BY DEF Shape, TypeOK, Local
<1>2. <<>> \in Seq(Item) /\ run.entries = run.entries \o <<>>
  BY <1>1, ConcatEmptySeq
<1>3. /\ \A p \in 1..run.part : Complete(p)'
      /\ Passed' = Joined(disk')[run.part] \o <<>>
  BY <1>1, <1>2, LaidFinish
<1>4. Passed' = Members'
  <2>1. walk \in Seq(Item) /\ run.next - 1 = Len(walk)
    BY DEF Shape, TypeOK, Recorded
  <2> QED BY <2>1 DEF Passed, Members
<1>5. Joined(disk')[run.part] \in Seq(Item)
  <2>1. disk' \in [Part -> Volume \cup {Theirs, Absent}]
    BY <1>1, VolumeType, PutType
  <2>2. run.part \in 0..MaxPart
    BY <1>1, ArchiveAssumption DEF Part
  <2> QED BY <2>1, <2>2, JoinedType
<1>6. Joined(disk')[run'.part] = Members'
  BY <1>3, <1>4, <1>5, ConcatEmptySeq
<1>7. \A p \in 1..run'.part : Complete(p)'
  BY <1>3
<1> QED BY <1>6, <1>7 DEF SuccessIsComplete, Complete

(* The current part takes one more member.                                 *)
LEMMA LaidAdd ==
  ASSUME Shape, Recorded, Laid, ~At("repack"), Add(Found), Found \notin claims,
         run.next <= Len(walk), walk' = walk
  PROVE  Laid'
<1>1. /\ run \in Local /\ run.part \in Part /\ run.part = run.current /\ run.current \in Part
      /\ disk \in [Part -> Volume \cup {Theirs, Absent}]
      /\ run.entries \in Seq(Item) /\ walk \in Seq(Item)
  BY DEF Shape, TypeOK, Local, Laid, Home
<1>2. /\ Passed' = Append(Passed, Found) /\ run'.entries = Append(run.entries, Found)
      /\ run'.pc = "walk"
  BY FoundNext
<1>3. run'.part = run.part /\ Home' = run.part
  BY <1>1, <1>2 DEF Add, Home, At, Local
<1>4. run.part - 1 \in 0..MaxPart /\ \A p \in 1..(run.part - 1) : p \in Part /\ p # run.current
  BY <1>1, ArchiveAssumption DEF Part
<1>5. \A p \in 1..(run.part - 1) : disk'[p] = disk[p]
  BY <1>1, <1>4, PutOther DEF Add
<1>6. /\ Joined(disk')[run.part - 1] = Joined(disk)[run.part - 1]
      /\ Joined(disk)[run.part - 1] \in Seq(Item)
  BY <1>1, <1>4, <1>5, JoinedSame, JoinedType
<1>7. \A p \in 1..(run.part - 1) : Complete(p)'
  BY <1>5 DEF Laid, Complete, Closes
<1>8. Found \in Item
  <2>1. run.next \in 1..Len(walk)
    BY <1>1 DEF Recorded
  <2> QED BY <1>1, <2>1 DEF Found
<1>9. Append(Joined(disk)[run.part - 1] \o run.entries, Found)
        = Joined(disk)[run.part - 1] \o Append(run.entries, Found)
  BY <1>1, <1>6, <1>8, AppendBehind
<1> QED BY <1>2, <1>3, <1>6, <1>7, <1>9 DEF Laid

(* The finished part is continued.                                         *)
LEMMA LaidContinue ==
  ASSUME Shape, Laid, At("continue"), Complete(run.part), disk[run.part].members = run.entries,
         Continue, disk[run.part + 1] = Absent
  PROVE  Laid'
<1>1. /\ run \in Local /\ run.part \in Part /\ run.part \in Nat
      /\ disk \in [Part -> Volume \cup {Theirs, Absent}] /\ run.entries \in Seq(Item)
      /\ run.part + 1 \in Part
  <2>1. /\ run \in Local /\ run.part \in Part /\ run.entries \in Seq(Item)
        /\ disk \in [Part -> Volume \cup {Theirs, Absent}]
    BY DEF Shape, TypeOK, Local
  <2>2. run.part < MaxPart
    BY DEF Continue
  <2> QED BY <2>1, <2>2, ArchiveAssumption DEF Part
<1>2. /\ run'.pc = "retry" /\ run'.part = run.part + 1 /\ run'.current = run.part + 1
      /\ run'.entries = <<>> /\ run'.next = run.next /\ walk' = walk
      /\ Put(run.part + 1, [members |-> <<>>, valid |-> FALSE])
  BY <1>1 DEF Continue, given, Local
<1>3. Home' = run.part + 1 /\ run'.part - 1 = run.part
  BY <1>1, <1>2 DEF Home, At
<1>4. run.part \in 0..MaxPart /\ \A p \in 1..run.part : p \in Part /\ p # run.part + 1
  BY <1>1, ArchiveAssumption DEF Part
<1>5. \A p \in 1..run.part : disk'[p] = disk[p]
  BY <1>1, <1>2, <1>4, PutOther
<1>6. \A p \in 1..run.part : Complete(p)'
  <2>1. \A p \in 1..run.part : p = run.part \/ p \in 1..(run.part - 1)
    BY <1>1
  <2>2. \A p \in 1..run.part : Complete(p)
    BY <2>1 DEF Laid
  <2> QED BY <1>5, <2>2 DEF Complete, Closes
<1>7. /\ Joined(disk')[run.part] = Joined(disk)[run.part]
      /\ Joined(disk)[run.part] \in Seq(Item)
  <2>1. Joined(disk')[run.part] = Joined(disk)[run.part]
    BY <1>4, <1>5, JoinedSame
  <2>2. Joined(disk)[run.part] \in Seq(Item)
    BY <1>1, <1>4, JoinedType
  <2> QED BY <2>1, <2>2
<1>8. Joined(disk)[run.part] = Joined(disk)[run.part - 1] \o run.entries
  <2>1. disk[run.part] \notin {Theirs, Absent}
    BY NoVolume DEF Complete
  <2>2. Joined(disk)[run.part] = Joined(disk)[run.part - 1] \o disk[run.part].members
    BY <1>1, <2>1, JoinedSteps
  <2> QED BY <2>2
<1>9. Passed' = Joined(disk')[run.part] \o <<>>
  <2>1. Passed' = Passed
    BY <1>2 DEF Passed
  <2>2. Passed = Joined(disk)[run.part]
    BY <1>8 DEF Laid
  <2>3. Joined(disk)[run.part] = Joined(disk)[run.part] \o <<>>
    BY <1>7, ConcatEmptySeq
  <2> QED BY <1>7, <2>1, <2>2, <2>3
<1> QED BY <1>2, <1>3, <1>6, <1>9 DEF Laid

(* Every step keeps the account of what has been written.                  *)
LEMMA FilledStep ==
  Shape /\ Apart /\ Finished /\ Recorded /\ Filled /\ [Next]_vars => Filled'
<1> SUFFICES ASSUME Shape, Apart, Finished, Recorded, Filled, [Next]_vars PROVE Filled'
  OBVIOUS
<1>0. /\ run \in Local /\ run.entries \in Seq(Item) /\ run.current \in Part /\ run.at \in Part /\ run.part \in Part
      /\ run.next \in 1..(Len(walk) + 1) /\ Len(walk) \in Nat /\ walk # <<>> /\ walk \in Seq(Item)
      /\ disk \in [Part -> Volume \cup {Theirs, Absent}] /\ 1 \in Part
      /\ (At("create") => run.current = 1)
  <2>1. /\ run \in Local /\ run.entries \in Seq(Item) /\ run.current \in Part /\ run.at \in Part
        /\ run.part \in Part /\ walk \in Seq(Item) /\ disk \in [Part -> Volume \cup {Theirs, Absent}]
    BY DEF Shape, TypeOK, Local
  <2>2. run.next \in 1..(Len(walk) + 1) /\ walk # <<>> /\ (At("create") => run.current = 1)
    BY DEF Shape, Progress, Recorded, Filled
  <2>3. 1 \in Part
    BY ArchiveAssumption DEF Part
  <2>4. Len(walk) \in Nat
    BY <2>1
  <2> QED BY <2>1, <2>2, <2>3, <2>4
<1>1. CASE UNCHANGED vars
  <2>1. /\ run' = run /\ disk' = disk /\ walk' = walk /\ exit' = exit
        /\ Home' = Home /\ Passed' = Passed /\ Members' = Members
    BY <1>1 DEF vars, given, Home, At, Passed, Members
  <2>2. \A p : Complete(p)' = Complete(p)
    BY <2>1 DEF Complete, Closes
  <2> QED BY <2>1, <2>2 DEF Filled, Going, Laid, SuccessIsComplete, At, Closes
<1>2. CASE At("end") /\ Next
  <2>1. UNCHANGED vars
    BY <1>2
       DEF Next, Work, Ended, Create, AddMember, SkipRepeated, Refuse, TooLarge, WalkDone, Walking,
           Discard, Rebuild, Continue, Retry, CloseLast, CloseTooLarge, Repack, Packed, RepackFails,
           RemoveCurrent, WriteFails, RolloverFails, CloseFails, Kill, Lose, At
  <2> QED BY <1>1, <2>1
<1>3. ASSUME ~At("end"), Next, run.error \/ At("remove") PROVE Filled'
  <2>1. exit = "none" /\ walk' = walk
    BY <1>3
       DEF Finished, At, Next, Work, Ended, Create, AddMember, SkipRepeated, Refuse, TooLarge, WalkDone,
           Discard, Rebuild, Continue, Retry, CloseLast, CloseTooLarge, Repack, Packed, RepackFails,
           RemoveCurrent, WriteFails, RolloverFails, CloseFails, Kill, Lose, given
  <2>2. CASE RemoveCurrent \/ Kill \/ \E i \in DOMAIN walk : Lose(i)
    BY <1>0, <1>3, <2>1, <2>2, FilledVoid DEF RemoveCurrent, Kill, Lose, Go, Local, At
  <2>3. CASE WriteFails \/ RolloverFails \/ CloseFails \/ RepackFails \/ Refuse
    BY <1>0, <1>3, <2>1, <2>3, FilledVoid
       DEF WriteFails, RolloverFails, CloseFails, RepackFails, Refuse, Fail, Return, Local
  <2>4. ASSUME ~At("remove"), run.error,
               Create \/ AddMember \/ SkipRepeated \/ TooLarge \/ WalkDone \/ Discard \/ Rebuild
               \/ Continue \/ Retry
        PROVE  run'.error /\ exit' # "ok"
    BY <1>0, <2>1, <2>4
       DEF Create, AddMember, SkipRepeated, TooLarge, WalkDone, Discard, Rebuild, Continue, Retry,
           Add, Fail, Go, Local
  <2>5. ASSUME ~At("remove"), run.error, CloseLast \/ CloseTooLarge \/ Repack \/ Packed
        PROVE  run'.error /\ exit' # "ok"
    BY <1>0, <2>1, <2>5 DEF CloseLast, CloseTooLarge, Repack, Shorter, Packed, Return, Go, Local
  <2>6. ASSUME At("remove"), Next PROVE RemoveCurrent \/ Kill \/ \E i \in DOMAIN walk : Lose(i)
    BY <2>6
       DEF Next, Work, Ended, Create, AddMember, SkipRepeated, Refuse, TooLarge, WalkDone, Walking,
           Discard, Rebuild, Continue, Retry, CloseLast, CloseTooLarge, Repack, Packed, RepackFails,
           WriteFails, RolloverFails, CloseFails, At
  <2> QED
    BY <1>3, <2>1, <2>2, <2>3, <2>4, <2>5, <2>6, FilledVoid DEF Next, Work, Ended, At
<1>4. ASSUME ~At("end"), Next, Going PROVE Filled'
  <2>0. /\ exit = "none" /\ ~run.error /\ ~At("remove") /\ Laid /\ run.part = Home
        /\ At("continue") => Complete(run.part) /\ disk[run.part].members = run.entries
        /\ run.entries = <<>> => At("retry") \/ run.next = 1
        /\ run.pc \in {"close", "repack"} => run.next > Len(walk)
    BY <1>4 DEF Finished, Filled, Going, Laid, At
  <2>a. ASSUME Laid', exit' # "ok", walk' = walk, run'.pc # "continue",
               run'.entries = <<>> => run'.pc = "retry" \/ run'.next = 1,
               run'.pc \in {"close", "repack"} => run'.next > Len(walk)
        PROVE  Filled'
    BY <1>0, <2>a DEF Filled, SuccessIsComplete, At
  <2>1. CASE Create
    <3>1. run.pc = "create" /\ run.current = 1 /\ Home = 1 /\ walk' = walk /\ run'.error = run.error
      BY <1>0, <2>1 DEF Create, Go, Home, At, given, Local
    <3>2. CASE disk[1] = Absent
      <4>1. /\ run' = [run EXCEPT !.pc = "walk"] /\ exit' = exit
            /\ Put(1, [members |-> <<>>, valid |-> FALSE])
        BY <2>1, <3>2 DEF Create, Go
      <4>2. /\ run'.pc = "walk" /\ run'.part = run.part /\ run'.next = run.next
            /\ run'.entries = run.entries /\ run'.current = 1
        BY <1>0, <3>1, <4>1 DEF Local
      <4>3. Home' = Home /\ \A p \in Part : p # Home => disk'[p] = disk[p]
        BY <1>0, <3>1, <4>1, <4>2, PutOther DEF Home, At
      <4> QED BY <2>0, <2>a, <3>1, <4>1, <4>2, <4>3, LaidKeeps DEF At
    <3>3. CASE disk[1] # Absent
      <4>1. run'.pc = "end" /\ exit' = "error"
        BY <1>0, <2>1, <3>3 DEF Create, Go, Local
      <4> QED BY <3>1, <4>1, FilledVoid
    <3> QED BY <3>2, <3>3
  <2>2. CASE AddMember \/ (Retry /\ Add(Found))
    <3>1. /\ Add(Found) /\ Found \notin claims /\ run.next <= Len(walk) /\ walk' = walk /\ exit' = exit
          /\ ~At("repack")
      BY <2>2, FoundFresh DEF AddMember, Retry, Walking, given, At, Shape, Progress, Apart
    <3>2. Laid'
      BY <2>0, <3>1, LaidAdd
    <3>3. run'.entries # <<>> /\ run'.pc = "walk"
      BY <3>1, FoundNext
    <3> QED BY <2>0, <2>a, <3>1, <3>2, <3>3
  <2>3. CASE SkipRepeated
    <3>1. /\ run' = [run EXCEPT !.next = @ + 1] /\ disk' = disk /\ walk' = walk /\ exit' = exit
          /\ run.pc = "walk"
      BY <2>3 DEF SkipRepeated, Walking, At, given
    <3>2. /\ run'.pc = "walk" /\ run'.part = run.part /\ run'.entries = run.entries
          /\ run'.current = run.current
      BY <1>0, <3>1 DEF Local
    <3>3. Found \in claims /\ Passed' = Passed
      BY <2>3, SkipSeen
    <3>4. run.next # 1
      <4>1. run.next = 1 => claims = {}
        BY DEF Recorded
      <4> QED BY <3>3, <4>1
    <3>5. Laid'
      BY <2>0, <3>1, <3>2, <3>3 DEF Laid, Home, At, Complete, Closes
    <3> QED BY <2>0, <2>a, <3>1, <3>2, <3>4, <3>5 DEF At
  <2>4. CASE Refuse \/ WriteFails \/ RolloverFails \/ CloseFails \/ RepackFails \/ Kill
    <3>1. walk' = walk /\ (run'.error \/ run'.pc = "end") /\ exit' # "ok"
      BY <1>0, <2>0, <2>4
         DEF Refuse, WriteFails, RolloverFails, CloseFails, RepackFails, Kill, Fail, Return, Go, given, Local
    <3> QED BY <3>1, FilledVoid
  <2>5. CASE TooLarge \/ WalkDone
    <3>1. /\ disk' = disk /\ walk' = walk /\ exit' = exit /\ run.pc = "walk"
          /\ run' = [run EXCEPT !.pc = "close", !.error = TRUE]
             \/ (run' = [run EXCEPT !.pc = "discard"] /\ run.entries # <<>>)
             \/ (run' = [run EXCEPT !.pc = "close"] /\ run.next > Len(walk))
      BY <1>0, <2>5 DEF TooLarge, WalkDone, Walking, Fail, Go, At, given
    <3>2. CASE run' = [run EXCEPT !.pc = "close", !.error = TRUE]
      <4>1. run'.error
        BY <1>0, <3>2 DEF Local
      <4> QED BY <2>0, <3>1, <4>1, FilledVoid
    <3>3. CASE run' # [run EXCEPT !.pc = "close", !.error = TRUE]
      <4>1. /\ run'.part = run.part /\ run'.entries = run.entries /\ run'.next = run.next
            /\ run'.current = run.current
            /\ run'.pc = "discard" \/ (run'.pc = "close" /\ run.next > Len(walk))
        BY <1>0, <3>1, <3>3 DEF Local
      <4>2. Home' = Home /\ \A p \in Part : p # Home => disk'[p] = disk[p]
        BY <3>1, <4>1 DEF Home, At
      <4>3. Laid'
        BY <2>0, <3>1, <4>1, <4>2, LaidKeeps
      <4> QED BY <2>0, <2>a, <3>1, <4>1, <4>3 DEF At
    <3> QED BY <3>2, <3>3
  <2>6. CASE Discard
    <3>1. /\ run' = [run EXCEPT !.pc = "rebuild", !.closed = TRUE] /\ walk' = walk /\ exit' = exit
          /\ run.pc = "discard" /\ Put(run.current, Absent)
      BY <2>6 DEF Discard, At, given
    <3>2. /\ run'.part = run.part /\ run'.entries = run.entries /\ run'.next = run.next
          /\ run'.current = run.current /\ run'.pc = "rebuild"
      BY <1>0, <3>1 DEF Local
    <3>3. Home = run.current /\ Home' = Home /\ \A p \in Part : p # Home => disk'[p] = disk[p]
      BY <1>0, <3>1, <3>2, PutOther DEF Home, At
    <3> QED BY <2>0, <2>a, <3>1, <3>2, <3>3, LaidKeeps DEF At
  <2>7. CASE Rebuild
    <3>1. run.pc = "rebuild" /\ run.current = run.part /\ walk' = walk /\ exit' = exit
      BY <2>0, <2>7 DEF Rebuild, At, Home, given
    <3>2. CASE Readable(run.entries) /\ Closes(run.entries)
      <4>1. /\ Put(run.part, [members |-> run.entries, valid |-> TRUE])
            /\ run' = [run EXCEPT !.pc = "continue"]
        BY <2>7, <3>1, <3>2 DEF Rebuild, Go
      <4>2. /\ run'.part = run.part /\ run'.entries = run.entries /\ run'.next = run.next
            /\ run'.current = run.current /\ run'.pc = "continue"
        BY <1>0, <4>1 DEF Local
      <4>3. Home = run.part /\ Home' = Home /\ \A p \in Part : p # Home => disk'[p] = disk[p]
        BY <1>0, <3>1, <4>1, <4>2, PutOther DEF Home, At
      <4>4. Laid'
        BY <2>0, <3>1, <4>2, <4>3, LaidKeeps
      <4>5. <<>> \in Seq(Item) /\ run.entries = run.entries \o <<>>
        BY <1>0, ConcatEmptySeq
      <4>6. run.part \in 1..run.part
        BY <1>0, ArchiveAssumption DEF Part
      <4>7. Complete(run.part)' /\ disk'[run.part].members = run.entries
        BY <1>0, <2>0, <3>1, <3>2, <4>1, <4>2, <4>5, <4>6, LaidFinish
      <4> QED BY <1>0, <2>0, <3>1, <4>2, <4>4, <4>7 DEF Filled, SuccessIsComplete, At, Complete
    <3>3. CASE ~(Readable(run.entries) /\ Closes(run.entries))
      <4>1. run'.error
        BY <1>0, <2>7, <3>3 DEF Rebuild, Fail, Local
      <4> QED BY <2>0, <3>1, <4>1, FilledVoid
    <3> QED BY <3>2, <3>3
  <2>8. CASE Continue
    <3>1. run.pc = "continue" /\ walk' = walk /\ exit' = exit
      BY <2>8 DEF Continue, At, given
    <3>2. CASE disk[run.part + 1] = Absent
      <4>1. Laid'
        BY <2>0, <2>8, <3>1, <3>2, LaidContinue DEF At
      <4>2. run'.pc = "retry"
        BY <1>0, <2>8, <3>2 DEF Continue, Local
      <4> QED BY <2>0, <2>a, <3>1, <4>1, <4>2
    <3>3. CASE disk[run.part + 1] # Absent
      <4>1. run'.error
        BY <1>0, <2>8, <3>3 DEF Continue, Local
      <4> QED BY <2>0, <3>1, <4>1, FilledVoid
    <3> QED BY <3>2, <3>3
  <2>9. CASE Retry /\ Fail
    <3>1. run'.error /\ walk' = walk /\ exit' = exit
      BY <1>0, <2>9 DEF Retry, Fail, given, Local
    <3> QED BY <2>0, <3>1, FilledVoid
  <2>10. CASE CloseLast
    <3>1. /\ run.pc = "close" /\ ~run.closed /\ run.current = run.part /\ walk' = walk
          /\ run.next > Len(walk)
      BY <2>0, <2>10 DEF CloseLast, At, Home, given, Finished
    <3>2. /\ Closes(run.entries) /\ Put(run.part, [members |-> run.entries, valid |-> TRUE])
          /\ run' = [run EXCEPT !.pc = "end"] /\ exit' = "ok"
      BY <2>0, <2>10, <3>1 DEF CloseLast, Return, Go
    <3>3. run'.pc = "end" /\ run'.next = run.next /\ run'.part = run.part
      BY <1>0, <3>2 DEF Local
    <3>4. SuccessIsComplete'
      BY <2>0, <3>1, <3>2, <3>3, LaidLast
    <3> QED BY <1>0, <3>1, <3>3, <3>4 DEF Filled, Going
  <2>11. CASE CloseTooLarge
    <3>1. /\ run.pc = "close" /\ walk' = walk /\ run.next > Len(walk) /\ Put(run.current, Absent)
          /\ Home = run.current
      BY <2>0, <2>11 DEF CloseTooLarge, At, Home, given
    <3>2. run.entries # <<>>
      <4>1. Len(walk) # 0
        BY <1>0
      <4> QED BY <1>0, <2>0, <3>1, <4>1 DEF At
    <3>3. /\ run' = [run EXCEPT !.pc = "repack", !.closed = TRUE, !.at = run.current,
                                !.count = Len(run.entries)]
          /\ exit' = exit
      BY <2>11, <3>2 DEF CloseTooLarge
    <3>4. /\ run'.part = run.part /\ run'.entries = run.entries /\ run'.next = run.next
          /\ run'.at = run.current /\ run'.pc = "repack"
      BY <1>0, <3>3 DEF Local
    <3>5. Home' = Home /\ \A p \in Part : p # Home => disk'[p] = disk[p]
      BY <1>0, <3>1, <3>4, PutOther DEF Home, At
    <3> QED BY <2>0, <2>a, <3>1, <3>2, <3>3, <3>4, <3>5, LaidKeeps
  <2>12. CASE Repack
    <3>1. run.pc = "repack" /\ walk' = walk /\ disk' = disk /\ run.next > Len(walk)
      BY <2>0, <2>12 DEF Repack, At, given
    <3>2. CASE run.count = 1
      <4>1. run'.error /\ exit' = exit
        BY <1>0, <2>12, <3>2 DEF Repack, Shorter, Return, Local
      <4> QED BY <2>0, <3>1, <4>1, FilledVoid
    <3>3. CASE run.count # 1
      <4>1. run' = [run EXCEPT !.count = @ - 1] /\ exit' = exit
        BY <2>12, <3>3 DEF Repack, Shorter
      <4>2. /\ run'.part = run.part /\ run'.entries = run.entries /\ run'.next = run.next
            /\ run'.at = run.at /\ run'.pc = "repack"
        BY <1>0, <3>1, <4>1 DEF Local
      <4>3. Home' = Home
        BY <3>1, <4>2 DEF Home, At
      <4> QED BY <2>0, <2>a, <3>1, <4>1, <4>2, <4>3, LaidKeeps DEF At
    <3> QED BY <3>2, <3>3
  <2>13. CASE Packed
    <3>1. /\ At("repack") /\ run.pc = "repack" /\ walk' = walk /\ run.next > Len(walk)
          /\ run.at = run.part /\ Closes(Candidate)
          /\ Put(run.part, [members |-> Candidate, valid |-> TRUE])
      BY <2>0, <2>13 DEF Packed, At, Home, given
    <3>2. Candidate \in Seq(Item) /\ Rest \in Seq(Item) /\ run.entries = Candidate \o Rest
      BY <3>1, EntriesSplit
    <3>3. CASE Rest = <<>>
      <4>1. run' = [run EXCEPT !.pc = "end"] /\ exit' = "ok"
        BY <2>0, <2>13, <3>3 DEF Packed, Return, Go
      <4>2. run'.pc = "end" /\ run'.next = run.next /\ run'.part = run.part
        BY <1>0, <4>1 DEF Local
      <4>3. Candidate = run.entries
        BY <3>2, <3>3, ConcatEmptySeq
      <4>4. SuccessIsComplete'
        BY <2>0, <3>1, <4>2, <4>3, LaidLast
      <4> QED BY <1>0, <3>1, <4>2, <4>4 DEF Filled, Going
    <3>4. CASE Rest # <<>>
      <4>1. /\ run' = [run EXCEPT !.part = @ + 1, !.at = run.part + 1, !.entries = Rest, !.count = Len(Rest)]
            /\ exit' = exit
        BY <2>13, <3>4 DEF Packed
      <4>2. /\ run'.part = run.part + 1 /\ run'.at = run.part + 1 /\ run'.entries = Rest
            /\ run'.next = run.next /\ run'.pc = "repack"
        BY <1>0, <3>1, <4>1 DEF Local
      <4>3. Home' = run'.part /\ run'.part - 1 = run.part
        BY <1>0, <4>2, ArchiveAssumption DEF Home, At, Part
      <4>4. /\ \A p \in 1..run.part : Complete(p)'
            /\ Passed' = Joined(disk')[run.part] \o Rest
        BY <2>0, <3>1, <3>2, <4>2, LaidFinish
      <4>5. Laid'
        BY <4>2, <4>3, <4>4 DEF Laid
      <4> QED BY <2>0, <2>a, <3>1, <3>4, <4>1, <4>2, <4>5
    <3> QED BY <3>3, <3>4
  <2>14. CASE \E i \in DOMAIN walk : Lose(i)
    <3>1. run' = run /\ disk' = disk /\ walk' = walk /\ exit' = exit
      BY <2>14 DEF Lose, given
    <3>2. /\ Home' = Home /\ Passed' = Passed
          /\ \A p : Complete(p)' = Complete(p)
      BY <3>1 DEF Home, At, Passed, Complete, Closes
    <3> QED BY <2>0, <3>1, <3>2 DEF Filled, Going, Laid, SuccessIsComplete, At
  <2>15. Retry => (Retry /\ Add(Found)) \/ (Retry /\ Fail)
    BY DEF Retry
  <2> QED
    BY <1>4, <2>0, <2>1, <2>2, <2>3, <2>4, <2>5, <2>6, <2>7, <2>8, <2>9, <2>10, <2>11, <2>12,
       <2>13, <2>14, <2>15 DEF Next, Work, Ended, RemoveCurrent
<1> QED BY <1>1, <1>2, <1>3, <1>4 DEF Going, At

LEMMA Accounted == Spec => [](Shape /\ Apart /\ Finished /\ Recorded /\ Filled)
<1>1. Init => Shape /\ Apart /\ Finished /\ Recorded /\ Filled
  BY ShapeInit, ApartInit, FinishedInit, RecordedInit, FilledInit
<1>2. Shape /\ Apart /\ Finished /\ Recorded /\ Filled /\ [Next]_vars
        => (Shape /\ Apart /\ Finished /\ Recorded /\ Filled)'
  BY ShapeStep, ApartStep, FinishedStep, RecordedStep, FilledStep
<1> QED BY <1>1, <1>2, PTL DEF Spec

(* SuccessIsComplete: a run that succeeds has written every member of the  *)
(* walk exactly once, in order, into parts that are valid and not too      *)
(* large, however it rolled over and repacked (archiveSet).                *)
THEOREM SuccessHasAll == Spec => []SuccessIsComplete
<1>1. Filled => SuccessIsComplete
  BY DEF Filled
<1> QED BY <1>1, Accounted, PTL

----------------------------------------------------------------------------
(* Errors *)

(* What can make a run fail.                                               *)
Cause ==
  \/ faults > 0 \/ theirs # {} \/ NoSpaceToClose
  \/ \E i \in DOMAIN walk :
       walk[i].kind = "bad" \/ Conflicts(walk[i], {walk[j] : j \in 1..(i - 1)})

(* An error has a cause, and what may still become one is not there        *)
(* without: members that are lost, names that are taken.  The entries have *)
(* been written: there are some when a run rolls over, and none when the   *)
(* member it is about is tried again.                                      *)
Caused ==
  /\ run.error \/ At("remove") \/ exit = "error" => Cause
  /\ lost # {} => faults > 0
  /\ \A p \in Part : At("create") \/ run.part < p => disk[p] = Absent \/ theirs # {}
  /\ At("repack") => run.at <= run.part /\ (disk[run.at] = Absent \/ theirs # {})
  /\ run.pc \notin {"repack", "remove", "end"} => run.entries = <<>> \/ Written(run.entries)
  /\ At("retry") => run.entries = <<>>
  /\ run.pc \in {"discard", "rebuild", "continue"} => run.entries # <<>>

LEMMA SpaceOfOne ==
  ASSUME NEW e \in Item
  PROVE  Space(Append(<<>>, e)) = e.size /\ e.size \in Nat
<1> DEFINE s == Append(<<>>, e)
           Is(f) == f = [n \in 0..Len(s) |-> IF n = 0 THEN 0 ELSE f[n - 1] + s[n].size]
<1>1. Len(s) = 1 /\ s[1] = e /\ e.size \in Nat
  <2>1. <<>> \in Seq(Item) /\ Len(<<>>) = 0
    BY EmptySeq
  <2> QED BY <2>1, AppendProperties DEF Item
<1>2. Space(s) = (CHOOSE f : Is(f))[Len(s)]
  BY DEF Space
<1> HIDE DEF s
<1>3. Is([n \in 0..1 |-> IF n = 0 THEN 0 ELSE e.size])
  <2> DEFINE g == [n \in 0..1 |-> IF n = 0 THEN 0 ELSE e.size]
  <2>1. g[0] = 0 /\ g[1] = e.size
    OBVIOUS
  <2>2. \A n \in 0..1 : g[n] = IF n = 0 THEN 0 ELSE g[n - 1] + s[n].size
    <3>1. \A n \in 0..1 : n = 0 \/ n = 1
      OBVIOUS
    <3>2. 0 + s[1].size = e.size /\ 1 - 1 = 0
      BY <1>1
    <3> QED BY <2>1, <3>1, <3>2, <1>1
  <2>3. g = [n \in 0..1 |-> g[n]]
    OBVIOUS
  <2> HIDE DEF g
  <2>4. [n \in 0..1 |-> g[n]] = [n \in 0..1 |-> IF n = 0 THEN 0 ELSE g[n - 1] + s[n].size]
    BY <2>2
  <2>5. Is(g)
    BY <1>1, <2>3, <2>4
  <2> QED BY <2>5 DEF g
<1>4. Is(CHOOSE f : Is(f))
  <2> HIDE DEF Is
  <2> QED BY <1>3
<1>5. (CHOOSE f : Is(f))[1] = e.size
  <2> DEFINE h == CHOOSE f : Is(f)
  <2>1. Is(h)
    BY <1>4
  <2> HIDE DEF h
  <2>2. h[0] = 0 /\ h[1] = h[0] + s[1].size
    BY <1>1, <2>1
  <2>3. h[1] = e.size
    BY <1>1, <2>2
  <2> QED BY <2>3 DEF h
<1> QED BY <1>1, <1>2, <1>5 DEF s

(* A member whose data alone do not fit has no space for the trailer.      *)
LEMMA TooLargeAlone ==
  ASSUME block \in Nat \ {0}, NEW e \in Item, ~Written(Append(<<>>, e))
  PROVE  ~Closes(Append(<<>>, e))
<1>1. Space(Append(<<>>, e)) \in Nat
  BY SpaceOfOne
<1> DEFINE n == Space(Append(<<>>, e))
<1>2. n \in Nat /\ n % block \in Nat /\ Limit \in Nat /\ Trailer \in Nat
  BY <1>1, ArchiveAssumption
<1>3. ~(n - (n % block) <= Limit)
  BY DEF Written
<1> HIDE DEF n
<1>4. ~(n + Trailer <= Limit)
  BY <1>2, <1>3
<1> QED BY <1>4 DEF n, Closes

(* One sequence behind another.                                            *)
LEMMA Behind ==
  ASSUME NEW s \in Seq(Item), NEW t \in Seq(Item)
  PROVE  /\ s \o t \in Seq(Item) /\ Len(s \o t) = Len(s) + Len(t)
         /\ \A i \in 1..(Len(s) + Len(t)) : (s \o t)[i] = IF i <= Len(s) THEN s[i] ELSE t[i - Len(s)]
  OBVIOUS

(* Where entries are among the members.                                    *)
LEMMA Window ==
  ASSUME NEW s \in Seq(Item), NEW e \in Seq(Item), NEW t \in Seq(Item), NEW c \in 1..Len(e)
  PROVE  /\ Len(s) + 1 \in DOMAIN ((s \o e) \o t) /\ Len(s) + c \in DOMAIN ((s \o e) \o t)
         /\ SubSeq((s \o e) \o t, Len(s) + 1, Len(s) + c) = SubSeq(e, 1, c)
<1> DEFINE u == s \o e
           m == u \o t
<1>1. /\ u \in Seq(Item) /\ Len(u) = Len(s) + Len(e)
      /\ \A i \in 1..(Len(s) + Len(e)) : u[i] = IF i <= Len(s) THEN s[i] ELSE e[i - Len(s)]
  BY Behind
<1> HIDE DEF u
<1>2. /\ m \in Seq(Item) /\ Len(m) = Len(u) + Len(t)
      /\ \A i \in 1..(Len(u) + Len(t)) : m[i] = IF i <= Len(u) THEN u[i] ELSE t[i - Len(u)]
  BY <1>1, Behind
<1> HIDE DEF m
<1>3. Len(s) \in Nat /\ Len(e) \in Nat /\ Len(t) \in Nat /\ c \in Nat /\ 1 <= c /\ c <= Len(e)
  OBVIOUS
<1>4. ASSUME NEW i \in 1..c PROVE m[Len(s) + i] = e[i]
  <2>1. Len(s) + i \in 1..(Len(s) + Len(e)) /\ ~(Len(s) + i <= Len(s)) /\ (Len(s) + i) - Len(s) = i
    BY <1>3
  <2>2. Len(s) + i \in 1..(Len(u) + Len(t)) /\ Len(s) + i <= Len(u)
    BY <1>1, <1>3, <2>1
  <2> QED BY <1>1, <1>2, <2>1, <2>2
<1>5. DOMAIN m = 1..Len(m) /\ Len(s) + 1 \in 1..Len(m) /\ Len(s) + c \in 1..Len(m)
  BY <1>1, <1>2, <1>3, LenProperties
<1>6. /\ SubSeq(m, Len(s) + 1, Len(s) + c) \in Seq(Item)
      /\ Len(SubSeq(m, Len(s) + 1, Len(s) + c)) = c
      /\ \A i \in 1..c : SubSeq(m, Len(s) + 1, Len(s) + c)[i] = m[Len(s) + i]
  <2>1. \A i \in (Len(s) + 1)..(Len(s) + c) : m[i] \in Item
    <3>1. \A i \in (Len(s) + 1)..(Len(s) + c) : i \in 1..Len(m)
      BY <1>3, <1>5
    <3> QED BY <1>2, <3>1
  <2>2. (Len(s) + c) - (Len(s) + 1) + 1 = c /\ Len(s) + 1 <= Len(s) + c
    BY <1>3
  <2>3. Len(s) + 1 \in Int /\ Len(s) + c \in Int
    BY <1>3
  <2>4. \A i \in 1..c : Len(s) + 1 + i - 1 = Len(s) + i
    BY <1>3
  <2> QED BY <2>1, <2>2, <2>3, <2>4, SubSeqProperties
<1>7. /\ SubSeq(e, 1, c) \in Seq(Item) /\ Len(SubSeq(e, 1, c)) = c
      /\ \A i \in 1..c : SubSeq(e, 1, c)[i] = e[i]
  <2>1. \A i \in 1..c : e[i] \in Item
    BY <1>3
  <2>2. c - 1 + 1 = c /\ \A i \in 1..c : 1 + i - 1 = i
    BY <1>3
  <2> QED BY <1>3, <2>1, <2>2, SubSeqProperties
<1>8. SubSeq(m, Len(s) + 1, Len(s) + c) = SubSeq(e, 1, c)
  BY <1>4, <1>6, <1>7, SeqEqual
<1> QED BY <1>5, <1>8 DEF m, u

(* The first entries, when they leave no space for the trailer.            *)
LEMMA NoSpace ==
  ASSUME walk \in Seq(Item), NEW n \in 0..Len(walk), NEW s \in Seq(Item), NEW e \in Seq(Item),
         NEW c \in 1..Len(e), Firsts(walk)[n] = s \o e,
         ~Closes(SubSeq(e, 1, c)), c = 1 \/ Written(SubSeq(e, 1, c))
  PROVE  NoSpaceToClose
<1>1. PICK t \in Seq(Item) : Members = (s \o e) \o t
  <2>1. Len(walk) \in n..Len(walk)
    OBVIOUS
  <2> QED BY <2>1, FirstsGrow DEF Members
<1>2. /\ Len(s) + 1 \in DOMAIN Members /\ Len(s) + c \in DOMAIN Members
      /\ SubSeq(Members, Len(s) + 1, Len(s) + c) = SubSeq(e, 1, c)
  <2> DEFINE m == (s \o e) \o t
  <2>1. /\ Len(s) + 1 \in DOMAIN m /\ Len(s) + c \in DOMAIN m
        /\ SubSeq(m, Len(s) + 1, Len(s) + c) = SubSeq(e, 1, c)
    BY Window
  <2>2. Members = m
    BY <1>1
  <2> HIDE DEF m
  <2> QED BY <2>1, <2>2
<1>3. Len(s) + 1 <= Len(s) + c /\ (c = 1 => Len(s) + 1 = Len(s) + c)
  OBVIOUS
<1> DEFINE i == Len(s) + 1
           j == Len(s) + c
<1>4. /\ i \in DOMAIN Members /\ j \in DOMAIN Members /\ i <= j /\ ~Closes(SubSeq(Members, i, j))
      /\ i = j \/ Written(SubSeq(Members, i, j))
  BY <1>2, <1>3
<1> HIDE DEF i, j
<1> QED BY <1>4 DEF NoSpaceToClose

(* All entries, the first of them, a member on its own.                    *)
LEMMA EntriesTooLarge ==
  ASSUME Shape, Recorded, run.entries # <<>>, Written(run.entries), ~Closes(run.entries)
  PROVE  NoSpaceToClose
<1>1. /\ walk \in Seq(Item) /\ run.entries \in Seq(Item) /\ run.next \in 1..(Len(walk) + 1)
      /\ Len(walk) \in Nat
  BY DEF Shape, TypeOK, Local, Recorded
<1>2. run.next - 1 \in 0..Len(walk) /\ Len(run.entries) \in 1..Len(run.entries)
  <2>1. Len(run.entries) # 0 /\ Len(run.entries) \in Nat
    BY <1>1
  <2> QED BY <1>1, <2>1
<1>3. PICK before \in Seq(Item) : Firsts(walk)[run.next - 1] = before \o run.entries
  BY DEF Recorded, Passed
<1>4. SubSeq(run.entries, 1, Len(run.entries)) = run.entries
  BY <1>1, SubSeqFull
<1> QED BY <1>1, <1>2, <1>3, <1>4, NoSpace

LEMMA FirstTooLarge ==
  ASSUME Shape, Recorded, At("repack"), run.count = 1, ~Closes(Candidate)
  PROVE  NoSpaceToClose
<1>1. /\ walk \in Seq(Item) /\ run.entries \in Seq(Item) /\ run.next \in 1..(Len(walk) + 1)
      /\ Len(walk) \in Nat /\ 1 \in 1..Len(run.entries)
  BY DEF Shape, TypeOK, Local, Recorded, Progress
<1>2. run.next - 1 \in 0..Len(walk)
  BY <1>1
<1>3. PICK before \in Seq(Item) : Firsts(walk)[run.next - 1] = before \o run.entries
  BY DEF Recorded, Passed
<1> QED BY <1>1, <1>2, <1>3, NoSpace DEF Candidate

LEMMA FoundTooLarge ==
  ASSUME Shape, Recorded, run.next <= Len(walk), Found \notin claims, ~Written(Append(<<>>, Found))
  PROVE  NoSpaceToClose
<1>1. /\ walk \in Seq(Item) /\ run.next \in 1..Len(walk) /\ Len(walk) \in Nat /\ block \in Nat \ {0}
  BY DEF Shape, TypeOK, Local, Recorded
<1>2. /\ Found \in Item /\ Firsts(walk)[run.next - 1] \in Seq(Item)
      /\ Firsts(walk)[run.next] = Append(Firsts(walk)[run.next - 1], Found)
  BY <1>1, FirstsNext DEF Found, Recorded
<1> DEFINE s == Firsts(walk)[run.next - 1]
           e == Append(<<>>, Found)
<1>3. e \in Seq(Item) /\ Len(e) = 1 /\ e = <<Found>>
  BY <1>2
<1>4. Firsts(walk)[run.next] = s \o e
  BY <1>2, <1>3, AppendIsConcat
<1>5. SubSeq(e, 1, 1) = e
  BY <1>3, SubSeqFull
<1>6. ~Closes(e)
  BY <1>1, <1>2, TooLargeAlone
<1>7. run.next \in 0..Len(walk) /\ 1 \in 1..Len(e) /\ s \in Seq(Item)
  BY <1>1, <1>2, <1>3
<1> HIDE DEF s, e
<1> QED BY <1>1, <1>3, <1>4, <1>5, <1>6, <1>7, NoSpace

(* What was a cause stays one.                                             *)
LEMMA CauseStays ==
  ASSUME TypeOK, Cause, UNCHANGED given, faults' \in Nat, faults' >= faults
  PROVE  Cause'
<1>1. walk' = walk /\ block' = block /\ theirs' = theirs /\ Members' = Members
  BY DEF given, Members
<1>2. NoSpaceToClose => NoSpaceToClose'
  BY <1>1 DEF NoSpaceToClose, Closes, Written
<1>3. faults > 0 => faults' > 0
  BY DEF TypeOK
<1> QED BY <1>1, <1>2, <1>3 DEF Cause, Conflicts

LEMMA CausedInit == Init => Caused
<1> SUFFICES ASSUME Init PROVE Caused
  OBVIOUS
<1>1. \A p \in Part : disk[p] = Absent \/ theirs # {}
  BY DEF Init
<1> QED BY <1>1 DEF Init, Caused, At

(* Every error that a step brings about has a cause.                       *)
LEMMA ErrorCaused ==
  ASSUME Shape, Apart, Recorded, Caused, Next,
         run'.error \/ run'.pc = "remove" \/ exit' = "error"
  PROVE  Cause \/ faults' > 0
<1>0. /\ run \in Local /\ run.entries \in Seq(Item) /\ faults \in Nat /\ 1 \in Part
      /\ run.next \in 1..(Len(walk) + 1) /\ Len(walk) \in Nat /\ DOMAIN walk = 1..Len(walk)
      /\ lost # {} => faults > 0
      /\ run.current \in Part /\ run.at \in Part /\ run.part \in Part
  <2>1. /\ run \in Local /\ run.entries \in Seq(Item) /\ faults \in Nat /\ walk \in Seq(Item)
        /\ run.current \in Part /\ run.at \in Part /\ run.part \in Part
    BY DEF Shape, TypeOK, Local
  <2>2. run.next \in 1..(Len(walk) + 1) /\ (lost # {} => faults > 0)
    BY DEF Recorded, Caused
  <2>3. 1 \in Part
    BY ArchiveAssumption DEF Part
  <2>4. Len(walk) \in Nat /\ DOMAIN walk = 1..Len(walk)
    BY <2>1
  <2> QED BY <2>1, <2>2, <2>3, <2>4
<1>1. CASE run.error \/ At("remove") \/ exit = "error"
  BY <1>1 DEF Caused
<1>2. ASSUME ~run.error, ~At("remove"), exit # "error" PROVE Cause \/ faults' > 0
  <2>0. faults > 0 \/ theirs # {} \/ NoSpaceToClose => Cause
    BY DEF Cause
  <2>1. CASE Create
    <3>1. disk[1] # Absent
      BY <1>0, <1>2, <2>1 DEF Create, Go, At, Local
    <3> QED BY <1>0, <2>0, <2>1, <3>1 DEF Create, Caused
  <2>2. CASE Refuse
    <3>1. run.next \in DOMAIN walk /\ Found = walk[run.next]
      BY <1>0, <2>2 DEF Refuse, Walking, Found
    <3>2. claims = {walk[j] : j \in 1..(run.next - 1)}
      BY DEF Recorded
    <3>3. Refused => Cause
      BY <3>1, <3>2 DEF Refused, Cause
    <3>4. Found \in lost => Cause
      BY <1>0, <2>0
    <3> QED BY <2>2, <3>3, <3>4 DEF Refuse
  <2>3. CASE TooLarge
    <3>1. run.entries = <<>> /\ ~Written(Append(<<>>, Found)) /\ Walking /\ Found \notin claims
      BY <1>0, <1>2, <2>3, FoundFresh DEF TooLarge, Go, At, Extended, Local
    <3> QED BY <2>0, <3>1, FoundTooLarge DEF Walking
  <2>4. CASE Retry
    <3>1. /\ run.entries = <<>> /\ Found \notin claims /\ run.next <= Len(walk)
      BY <2>4 DEF Retry, At, Caused, Apart, Shape, Progress
    <3>2. Found \in lost \/ ~Written(Append(<<>>, Found))
      BY <1>0, <1>2, <2>4, <3>1 DEF Retry, Add, Extended, At, Local
    <3> QED BY <1>0, <2>0, <3>1, <3>2, FoundTooLarge
  <2>5. CASE Rebuild
    <3>1. ~Readable(run.entries) \/ ~Closes(run.entries)
      BY <1>0, <1>2, <2>5 DEF Rebuild, Go, At, Local
    <3>2. ~Readable(run.entries) => Cause
      BY <1>0, <2>0 DEF Readable
    <3>3. run.entries # <<>> /\ ~Closes(run.entries) => Cause
      BY <2>0, <2>5, EntriesTooLarge DEF Rebuild, At, Caused
    <3>4. run.entries # <<>>
      BY <2>5 DEF Rebuild, At, Caused
    <3> QED BY <3>1, <3>2, <3>3, <3>4
  <2>6. CASE Continue
    <3>1. disk[run.part + 1] # Absent
      BY <1>0, <1>2, <2>6 DEF Continue, Local, At
    <3>2. run.part + 1 \in Part /\ run.part < run.part + 1
      <4>1. run.part < MaxPart /\ run.part \in Part
        BY <1>0, <2>6 DEF Continue
      <4> QED BY <4>1, ArchiveAssumption DEF Part
    <3> QED BY <2>0, <3>1, <3>2 DEF Caused
  <2>7. CASE Repack
    <3>1. run.count = 1 /\ At("repack") /\ ~Closes(Candidate)
      BY <1>0, <1>2, <2>7 DEF Repack, Shorter, At, Local
    <3> QED BY <2>0, <3>1, FirstTooLarge
  <2>8. CASE RepackFails
    <3>1. CASE disk[run.at] # Absent
      BY <2>0, <2>8, <3>1 DEF RepackFails, Caused
    <3>2. CASE ~Readable(Candidate)
      BY <1>0, <2>0, <3>2 DEF Readable
    <3>3. CASE ~(disk[run.at] # Absent \/ ~Readable(Candidate))
      BY <1>0, <2>8, <3>3 DEF RepackFails, FaultCounted
    <3> QED BY <3>1, <3>2, <3>3
  <2>9. CASE WriteFails \/ RolloverFails \/ CloseFails \/ Kill \/ \E i \in DOMAIN walk : Lose(i)
    <3>1. faults' = faults + 1
      BY <2>9 DEF WriteFails, RolloverFails, CloseFails, Kill, Lose, FaultCounted
    <3> QED BY <1>0, <3>1
  <2>10. ~(AddMember \/ SkipRepeated \/ WalkDone)
    BY <1>0, <1>2 DEF AddMember, SkipRepeated, WalkDone, Add, Go, Local, At, Walking
  <2>11. ~(Discard \/ CloseLast \/ CloseTooLarge \/ Packed)
    BY <1>0, <1>2 DEF Discard, CloseLast, CloseTooLarge, Packed, Return, Go, Local, At
  <2>12. ~(RemoveCurrent \/ Ended)
    BY <1>0, <1>2 DEF RemoveCurrent, Ended, At, vars
  <2> QED
    BY <2>1, <2>2, <2>3, <2>4, <2>5, <2>6, <2>7, <2>8, <2>9, <2>10, <2>11, <2>12 DEF Next, Work
<1> QED BY <1>1, <1>2

LEMMA CausedStep ==
  Shape /\ Apart /\ Finished /\ Recorded /\ Caused /\ [Next]_vars => Caused'
<1> SUFFICES ASSUME Shape, Apart, Finished, Recorded, Caused, [Next]_vars PROVE Caused'
  OBVIOUS
<1>0. /\ run \in Local /\ run.entries \in Seq(Item) /\ faults \in Nat /\ 1 \in Part
      /\ run.current \in Part /\ run.at \in Part /\ run.part \in Part /\ run.current <= run.part
      /\ disk \in [Part -> Volume \cup {Theirs, Absent}] /\ TypeOK
      /\ (At("create") => run.current = 1)
  BY ArchiveAssumption DEF Shape, TypeOK, Local, Progress, Part
<1>a. /\ run.current \in Nat /\ run.at \in Nat /\ run.part \in Nat /\ run.part >= 1
      /\ run'.part \in Nat /\ \A p \in Part : p \in Nat /\ p >= 1
  <2>1. Shape'
    BY ShapeStep
  <2>2. run'.part \in Part
    BY <2>1 DEF Shape, TypeOK, Local
  <2>3. \A p \in Part : p \in Nat /\ p >= 1
    BY ArchiveAssumption DEF Part
  <2> QED BY <1>0, <2>2, <2>3
<1>1. UNCHANGED given /\ (faults' = faults \/ faults' = faults + 1)
  BY DEF Next, Work, Create, AddMember, SkipRepeated, Refuse, TooLarge, WalkDone, Discard, Rebuild,
         Continue, Retry, CloseLast, CloseTooLarge, Repack, Packed, RepackFails, RemoveCurrent,
         WriteFails, RolloverFails, CloseFails, Kill, Lose, Ended, vars, FaultCounted
<1>2. block' = block /\ theirs' = theirs /\ faults' \in Nat /\ faults' >= faults
  BY <1>0, <1>1 DEF given
<1>3. run'.error \/ At("remove")' \/ exit' = "error" => Cause'
  <2>1. Cause => Cause'
    BY <1>0, <1>1, <1>2, CauseStays
  <2>2. faults' > 0 => Cause'
    BY DEF Cause
  <2>3. CASE UNCHANGED vars
    BY <2>1, <2>3 DEF Caused, vars, At
  <2>4. CASE Next
    BY <2>1, <2>2, <2>4, ErrorCaused DEF At
  <2> QED BY <2>3, <2>4
<1>4. lost' # {} => faults' > 0
  <2>1. lost' = lost \/ faults' = faults + 1
    BY DEF Next, Work, Create, AddMember, SkipRepeated, Refuse, TooLarge, WalkDone, Discard, Rebuild,
           Continue, Retry, CloseLast, CloseTooLarge, Repack, Packed, RepackFails, RemoveCurrent,
           WriteFails, RolloverFails, CloseFails, Kill, Lose, Ended, vars, FaultCounted
  <2> QED BY <1>0, <1>2, <2>1 DEF Caused
<1>5. \A p \in Part : At("create")' \/ run'.part < p => disk'[p] = Absent \/ theirs' # {}
  <2> SUFFICES ASSUME NEW p \in Part, At("create")' \/ run'.part < p
               PROVE  disk'[p] = Absent \/ theirs # {}
    BY <1>2
  <2>a. At("create")' => UNCHANGED <<run, disk>>
    <3>1. ~At("create")' \/ UNCHANGED vars \/ (\E i \in DOMAIN walk : Lose(i))
      <4>1. CASE Create \/ AddMember \/ SkipRepeated \/ Refuse \/ TooLarge \/ WalkDone
        BY <1>0, <4>1 DEF Create, AddMember, SkipRepeated, Refuse, TooLarge, WalkDone, Walking, Add,
           Go, Fail, Local, At
      <4>2. CASE Discard \/ Rebuild \/ Continue \/ Retry
        BY <1>0, <4>2 DEF Discard, Rebuild, Continue, Retry, Add, Go, Fail, Local, At
      <4>3. CASE CloseLast \/ CloseTooLarge \/ Repack \/ Packed \/ RepackFails \/ RemoveCurrent
        BY <1>0, <4>3 DEF CloseLast, CloseTooLarge, Repack, Shorter, Packed, RepackFails,
           RemoveCurrent, Return, Go, Local, At
      <4>4. CASE WriteFails \/ RolloverFails \/ CloseFails \/ Kill
        BY <1>0, <4>4 DEF WriteFails, RolloverFails, CloseFails, Kill, Return, Go, Fail, Local, At
      <4> QED BY <4>1, <4>2, <4>3, <4>4 DEF Next, Work, Ended
    <3> QED BY <3>1 DEF Lose, vars
  <2>b. CASE UNCHANGED <<run, disk>>
    BY <2>b DEF Caused, At
  <2>1. run.part <= run'.part
    <3>1. run'.part = run.part \/ run'.part = run.part + 1
      <4>1. CASE Create \/ AddMember \/ SkipRepeated \/ Refuse \/ TooLarge \/ WalkDone
        BY <1>0, <4>1 DEF Create, AddMember, SkipRepeated, Refuse, TooLarge, WalkDone, Add, Go, Fail, Local
      <4>2. CASE Discard \/ Rebuild \/ Continue \/ Retry
        BY <1>0, <4>2 DEF Discard, Rebuild, Continue, Retry, Add, Go, Fail, Local
      <4>3. CASE CloseLast \/ CloseTooLarge \/ Repack \/ Packed \/ RepackFails \/ RemoveCurrent
        BY <1>0, <4>3 DEF CloseLast, CloseTooLarge, Repack, Shorter, Packed, RepackFails,
           RemoveCurrent, Return, Go, Local
      <4>4. CASE WriteFails \/ RolloverFails \/ CloseFails \/ Kill
        BY <1>0, <4>4 DEF WriteFails, RolloverFails, CloseFails, Kill, Return, Go, Fail, Local
      <4>5. CASE UNCHANGED vars \/ \E i \in DOMAIN walk : Lose(i)
        BY <4>5 DEF Lose, vars
      <4> QED BY <4>1, <4>2, <4>3, <4>4, <4>5 DEF Next, Work, Ended
    <3>2. run.part \in Int
      <4>1. run.part \in Nat
        BY <1>a
      <4> QED BY <4>1
    <3> QED BY <3>1, <3>2
  <2>2. At("repack") => run.at <= run.part
    BY DEF Caused
  <2>3. CASE run'.part < p
    <3>0. /\ run.part \in Nat /\ run.part >= 1 /\ run.current \in Nat /\ run.at \in Nat /\ p \in Nat
          /\ run.part < p
      <4>1. p \in Nat
        BY <1>a
      <4> QED BY <1>a, <2>1, <2>3, <4>1
    <3>1. run.part < p /\ run.current # p /\ (At("repack") => run.at # p) /\ p # 1
      BY <1>0, <2>2, <3>0
    <3>2. disk'[p] = disk[p]
      <4>1. CASE Create \/ AddMember \/ Discard \/ Rebuild \/ Retry \/ CloseLast \/ CloseTooLarge \/ RemoveCurrent
        BY <1>0, <3>1, <4>1 DEF Create, AddMember, Add, Discard, Rebuild, Retry, CloseLast,
           CloseTooLarge, RemoveCurrent, Put
      <4>2. CASE Packed \/ RepackFails
        BY <1>0, <3>1, <4>2 DEF Packed, RepackFails, Put
      <4>3. CASE Continue
        <5>1. run'.part = run.part + 1
          BY <1>0, <4>3 DEF Continue, Local
        <5>2. run.part + 1 # p
            <6>1. p \in Nat
            BY <1>a
          <6> QED BY <1>a, <2>3, <5>1, <6>1
        <5> QED BY <1>0, <4>3, <5>2 DEF Continue, Put
      <4>4. CASE SkipRepeated \/ Refuse \/ TooLarge \/ WalkDone \/ Repack \/ WriteFails \/ RolloverFails
                 \/ CloseFails \/ Kill \/ (\E i \in DOMAIN walk : Lose(i)) \/ UNCHANGED vars
        BY <4>4 DEF SkipRepeated, Refuse, TooLarge, WalkDone, Repack, WriteFails, RolloverFails,
           CloseFails, Kill, Lose, vars
      <4> QED BY <4>1, <4>2, <4>3, <4>4 DEF Next, Work, Ended
    <3> QED BY <3>1, <3>2 DEF Caused
  <2> QED BY <2>a, <2>b, <2>3
<1>6. At("repack")' => run'.at <= run'.part /\ (disk'[run'.at] = Absent \/ theirs' # {})
  <2> SUFFICES ASSUME At("repack")' PROVE run'.at <= run'.part /\ (disk'[run'.at] = Absent \/ theirs # {})
    BY <1>2
  <2>1. CASE CloseTooLarge
    <3>1. run'.at = run.current /\ run'.part = run.part
      BY <1>0, <2>1 DEF CloseTooLarge, Return, Go, At, Local
    <3>2. disk'[run.current] = Absent
      BY <1>0, <2>1 DEF CloseTooLarge, Put
    <3> QED BY <1>0, <3>1, <3>2
  <2>2. CASE Packed
    <3>1. run'.part = run.part + 1 /\ run'.at = run.part + 1 /\ run.part < MaxPart
      BY <1>0, <2>2 DEF Packed, Return, Go, At, Local
    <3>2. run.part + 1 \in Part /\ run.at # run.part + 1 /\ run.part < run.part + 1
      BY <1>0, <2>2, <3>1, ArchiveAssumption DEF Packed, Caused, Part
    <3>3. disk'[run.part + 1] = disk[run.part + 1]
      BY <1>0, <2>2, <3>2 DEF Packed, Put
    <3>4. disk[run.part + 1] = Absent \/ theirs # {}
      BY <3>2 DEF Caused
    <3>5. run'.at <= run'.part
      BY <1>a, <3>1
    <3> QED BY <3>1, <3>3, <3>4, <3>5
  <2>3. CASE Repack \/ (\E i \in DOMAIN walk : Lose(i)) \/ UNCHANGED vars
    <3>1. At("repack") /\ run'.at = run.at /\ run'.part = run.part /\ disk' = disk
      BY <1>0, <2>3 DEF Repack, Shorter, Return, Go, Lose, vars, At, Local
    <3> QED BY <3>1 DEF Caused
  <2>4. ~(Create \/ AddMember \/ SkipRepeated \/ Refuse \/ TooLarge \/ WalkDone \/ Discard \/ Rebuild
          \/ Continue \/ Retry)
    BY <1>0 DEF Create, AddMember, SkipRepeated, Refuse, TooLarge, WalkDone, Discard, Rebuild, Continue,
         Retry, Add, Go, Fail, Walking, At, Local
  <2>5. ~(CloseLast \/ RepackFails \/ RemoveCurrent \/ WriteFails \/ RolloverFails \/ CloseFails \/ Kill)
    BY <1>0 DEF CloseLast, RepackFails, RemoveCurrent, WriteFails, RolloverFails, CloseFails, Kill,
         Return, Go, Fail, At, Local
  <2> QED BY <2>1, <2>2, <2>3, <2>4, <2>5 DEF Next, Work, Ended
<1>7. /\ run'.pc \notin {"repack", "remove", "end"} => run'.entries = <<>> \/ Written(run.entries)'
      /\ At("retry")' => run'.entries = <<>>
      /\ run'.pc \in {"discard", "rebuild", "continue"} => run'.entries # <<>>
  <2>0. \A members : Written(members)' = Written(members)
    BY <1>2 DEF Written
  <2>1. CASE AddMember \/ (Retry /\ Add(Found))
    <3>1. Add(Found) /\ Written(Extended(Found))
      <4>1. Retry /\ Add(Found) => Written(Extended(Found))
        BY <1>0 DEF Retry, Add, Fail, At, Local
      <4> QED BY <2>1, <4>1 DEF AddMember
    <3>2. run'.entries = Extended(Found) /\ run'.pc = "walk"
      BY <1>0, <3>1 DEF Add, Local
    <3>3. Written(run'.entries)
      BY <3>1, <3>2
    <3>4. block' = block
      BY <1>2
    <3> QED BY <3>2, <3>3, <3>4 DEF At, Written
  <2>2. CASE Continue /\ disk[run.part + 1] = Absent
    <3>1. run'.entries = <<>> /\ run'.pc = "retry"
      BY <1>0, <2>2 DEF Continue, Local
    <3> QED BY <3>1 DEF At
  <2>3. CASE Packed
    <3>1. run'.pc \in {"repack", "remove", "end"}
      BY <1>0, <2>3 DEF Packed, Return, Go, At, Local
    <3> QED BY <3>1 DEF At
  <2>4. CASE ~(AddMember \/ (Retry /\ Add(Found)) \/ (Continue /\ disk[run.part + 1] = Absent) \/ Packed)
    <3>1. run'.entries = run.entries
      BY <1>0, <2>4 DEF Next, Work, Create, SkipRepeated, Refuse, TooLarge, WalkDone, Discard,
         Rebuild, Continue, Retry, CloseLast, CloseTooLarge, Repack, Shorter, RepackFails,
         RemoveCurrent, WriteFails, RolloverFails, CloseFails, Kill, Lose, Ended, vars, Go, Fail,
         Return, Local
    <3>2. run'.pc \notin {"repack", "remove", "end"} =>
             /\ run.pc \notin {"repack", "remove", "end"} \/ run' = run
             /\ At("create") => run.entries = <<>> \/ Written(run.entries)
      BY <1>0, <2>4 DEF Next, Work, Create, SkipRepeated, Refuse, TooLarge, WalkDone, Discard,
         Rebuild, Continue, Retry, CloseLast, CloseTooLarge, Repack, Shorter, RepackFails, Caused,
         RemoveCurrent, WriteFails, RolloverFails, CloseFails, Kill, Lose, Ended, vars, Go, Fail,
         Return, Local, At, Walking
    <3>3. At("retry")' => run.pc = "retry"
      BY <1>0, <2>4 DEF Next, Work, Create, SkipRepeated, Refuse, TooLarge, WalkDone, Discard,
         Rebuild, Continue, Retry, CloseLast, CloseTooLarge, Repack, Shorter, RepackFails,
         RemoveCurrent, WriteFails, RolloverFails, CloseFails, Kill, Lose, Ended, vars, Go, Fail,
         Return, Local, At
    <3>4. run'.pc \in {"discard", "rebuild", "continue"} =>
            run.pc \in {"discard", "rebuild", "continue"} \/ run.entries # <<>>
      BY <1>0, <2>4 DEF Next, Work, Create, SkipRepeated, Refuse, TooLarge, WalkDone, Discard,
         Rebuild, Continue, Retry, CloseLast, CloseTooLarge, Repack, Shorter, RepackFails,
         RemoveCurrent, WriteFails, RolloverFails, CloseFails, Kill, Lose, Ended, vars, Go, Fail,
         Return, Local, At
    <3>5. run'.pc \notin {"repack", "remove", "end"} => run.entries = <<>> \/ Written(run.entries)
      BY <3>2 DEF Caused
    <3>6. block' = block
      BY <1>2
    <3>7. run'.pc \notin {"repack", "remove", "end"} => run'.entries = <<>> \/ Written(run.entries)'
      BY <3>1, <3>5, <3>6 DEF Written
    <3>8. At("retry")' => run'.entries = <<>>
      BY <3>1, <3>3 DEF Caused, At
    <3>9. run'.pc \in {"discard", "rebuild", "continue"} => run'.entries # <<>>
      BY <3>1, <3>4 DEF Caused
    <3> QED BY <3>7, <3>8, <3>9
  <2> QED BY <2>1, <2>2, <2>3, <2>4
<1> QED BY <1>3, <1>4, <1>5, <1>6, <1>7 DEF Caused

(* ErrorsHaveCauses: a run fails only over what is wrong with the source,  *)
(* a name that is taken, a failing operation, or members that leave no     *)
(* space for the trailer, not over a member the part before left no room   *)
(* for (addFile, rollover, close).                                         *)
THEOREM ErrorsAreCaused == Spec => []ErrorsHaveCauses
<1>1. Init => Caused
  BY CausedInit
<1>2. Shape /\ Apart /\ Finished /\ Recorded /\ Filled /\ Caused /\ [Next]_vars => Caused'
  BY CausedStep
<1>3. Caused => ErrorsHaveCauses
  BY DEF Caused, Cause, ErrorsHaveCauses, OtherCauses
<1> QED BY <1>1, <1>2, <1>3, Accounted, PTL DEF Spec

=============================================================================
