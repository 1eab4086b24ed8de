---------------------------- MODULE ArchiveRepack ----------------------------
(***************************************************************************)
(* archive-repack (src/archive-repack/main.go): the members found below a  *)
(* directory are written to an archive, one after the other.  When the     *)
(* file gets too large (EFBIG), the archive is rebuilt from the members    *)
(* that were complete and the member is tried again in a continuation      *)
(* archive; what only shows when an archive is closed is repacked then.    *)
(*                                                                         *)
(* A member is its name, its kind and the space it takes.  A writer passes *)
(* on whole blocks of what it was given, and the rest with the trailer     *)
(* when it is closed: a plain tar has blocks of 1, zip and the compressed  *)
(* formats hold more back.  What a walk comes across besides members -     *)
(* symbolic links, unsafe names, member types that are not supported - is  *)
(* one kind, "bad"; the outputs of the run itself are skipped.  Parts are  *)
(* the names of the archives: the destination, destination-2, and so on.   *)
(***************************************************************************)
EXTENDS Naturals, Sequences, Functions

CONSTANTS
  Name,       \* the names of members
  Below,      \* the pairs <<n, m>> of names with n below the directory m
  Walks,      \* the walks to begin with: sequences of items, the root first
  Blocks,     \* the output formats, by what they hold back
  Limit,      \* the largest possible size of a file
  Trailer,    \* the size of what closes an archive
  Theirs,     \* a file that is not an output of this run
  Absent,     \* there is no such file
  Before,     \* parts whose names may be taken: a set of sets of parts
  MaxPart,    \* bound: parts
  MaxFaults   \* bound: failing operations, unreadable sources and kills

Item == [kind : {"dir", "file", "bad"}, name : Name, size : Nat]

Part == 1..MaxPart

(* An archive; it is valid when it was closed without an error.            *)
Volume == [members : Seq(Item), valid : BOOLEAN]

ASSUME ArchiveAssumption ==
  /\ Walks \subseteq Seq(Item) \ {<<>>}
  /\ Blocks \subseteq Nat \ {0}
  /\ {Limit, Trailer, MaxFaults} \subseteq Nat
  /\ MaxPart \in Nat \ {0}
  /\ Before \subseteq SUBSET Part
  /\ Theirs # Absent /\ {Theirs, Absent} \cap Volume = {}

VARIABLES
  walk, block, theirs,  \* the source, the format, the names that are taken
  disk,                 \* the files with the names of the parts
  claims,               \* archiveSet.claims
  lost,                 \* members that can no longer be read
  run,                  \* the other variables of run and archiveSet
  exit,                 \* how the run has ended
  faults

given == <<walk, block, theirs>>
vars == <<given, disk, claims, lost, run, exit, faults>>

Init ==
  /\ walk \in Walks /\ block \in Blocks /\ theirs \in Before
  /\ disk = [p \in Part |-> IF p \in theirs THEN Theirs ELSE Absent]
  /\ claims = {} /\ lost = {}
  /\ run = [pc |-> "create", next |-> 1, current |-> 1, closed |-> FALSE, part |-> 1,
            entries |-> <<>>, at |-> 1, count |-> 0, error |-> FALSE]
  /\ exit = "none" /\ faults = 0

At(label) == run.pc = label

Go(label) == run' = [run EXCEPT !.pc = label]

(* run returns the error it was given, once the archive is closed.         *)
Fail == run' = [run EXCEPT !.pc = "close", !.error = TRUE]

FaultCounted == faults < MaxFaults /\ faults' = faults + 1

Put(p, volume) == disk' = [disk EXCEPT ![p] = volume]

----------------------------------------------------------------------------
(* Members and space *)

Space(members) ==
  LET upTo[n \in 0..Len(members)] == IF n = 0 THEN 0 ELSE upTo[n - 1] + members[n].size
  IN upTo[Len(members)]

(* The writer has passed on no more than fits.                             *)
Written(members) == Space(members) - (Space(members) % block) <= Limit

(* The whole archive fits.                                                 *)
Closes(members) == Space(members) + Trailer <= Limit

Readable(members) == \A e \in Range(members) : e \notin lost

(* canAdd: a file is in the way, or would be.                              *)
Conflicts(e, claimed) ==
  \E c \in claimed :
    \/ c.kind = "file" /\ <<e.name, c.name>> \in Below
    \/ e.kind = "file" /\ <<c.name, e.name>> \in Below
    \/ c.name = e.name /\ "file" \in {c.kind, e.kind}

(* A directory that is there already.                                      *)
Repeated(e, claimed) == e.kind = "dir" /\ e \in claimed

----------------------------------------------------------------------------
(* The walk *)

(* run refuses a destination that exists; os.O_EXCL does, too.             *)
Create ==
  /\ At("create")
  /\ IF disk[1] = Absent
     THEN /\ Put(1, [members |-> <<>>, valid |-> FALSE])
          /\ Go("walk") /\ UNCHANGED exit
     ELSE /\ Go("end") /\ exit' = "error" /\ UNCHANGED disk
  /\ UNCHANGED <<given, claims, lost, faults>>

Found == walk[run.next]

Walking == At("walk") /\ run.next <= Len(walk)

(* The current output takes one more member.                               *)
Extended(e) == Append(run.entries, e)

Add(e) ==
  /\ Put(run.current, [members |-> Extended(e), valid |-> FALSE])
  /\ claims' = claims \cup {e}
  /\ run' = [run EXCEPT !.pc = "walk", !.next = @ + 1, !.entries = Extended(e)]

Refused == Found.kind = "bad" \/ Conflicts(Found, claims)

AddMember ==
  /\ Walking /\ ~Refused /\ ~Repeated(Found, claims)
  /\ Found \notin lost /\ Written(Extended(Found))
  /\ Add(Found)
  /\ UNCHANGED <<given, lost, exit, faults>>

SkipRepeated ==
  /\ Walking /\ ~Refused /\ Repeated(Found, claims)
  /\ run' = [run EXCEPT !.next = @ + 1]
  /\ UNCHANGED <<given, disk, claims, lost, exit, faults>>

Refuse ==
  /\ Walking /\ (Refused \/ Found \in lost)
  /\ Fail
  /\ UNCHANGED <<given, disk, claims, lost, exit, faults>>

(* EFBIG: roll over, unless there is nothing to put into a part of its     *)
(* own.                                                                    *)
TooLarge ==
  /\ Walking /\ ~Refused /\ ~Repeated(Found, claims) /\ ~Written(Extended(Found))
  /\ IF run.entries = <<>> THEN Fail ELSE Go("discard")
  /\ UNCHANGED <<given, disk, claims, lost, exit, faults>>

(* Writing fails for another reason.                                       *)
WriteFails ==
  /\ run.pc \in {"walk", "retry"} /\ FaultCounted
  /\ Fail
  /\ UNCHANGED <<given, disk, claims, lost, exit>>

WalkDone ==
  /\ At("walk") /\ run.next > Len(walk)
  /\ Go("close")
  /\ UNCHANGED <<given, disk, claims, lost, exit, faults>>

----------------------------------------------------------------------------
(* rollover *)

(* The incomplete archive is closed and removed.                           *)
Discard ==
  /\ At("discard")
  /\ Put(run.current, Absent)
  /\ run' = [run EXCEPT !.pc = "rebuild", !.closed = TRUE]
  /\ UNCHANGED <<given, claims, lost, exit, faults>>

(* It is written again from the members that were complete.                *)
Rebuild ==
  /\ At("rebuild")
  /\ LET done == Readable(run.entries) /\ Closes(run.entries) IN
     /\ Put(run.current, [members |-> run.entries, valid |-> done])
     /\ IF done THEN Go("continue") ELSE Fail
  /\ UNCHANGED <<given, claims, lost, exit, faults>>

(* Mutant: entries are not reset.                                          *)
ContinueWithEntries ==
  /\ At("continue") /\ run.part < MaxPart
  /\ IF disk[run.part + 1] = Absent
     THEN /\ Put(run.part + 1, [members |-> <<>>, valid |-> FALSE])
          /\ run' = [run EXCEPT !.pc = "retry", !.part = @ + 1, !.current = run.part + 1,
                                !.closed = FALSE]
     ELSE run' = [run EXCEPT !.pc = "close", !.error = TRUE, !.part = @ + 1] /\ UNCHANGED disk
  /\ UNCHANGED <<given, claims, lost, exit, faults>>

(* The continuation archive becomes the current output, if its name is not *)
(* taken.                                                                  *)
Continue ==
  /\ At("continue") /\ run.part < MaxPart
  /\ IF disk[run.part + 1] = Absent
     THEN /\ Put(run.part + 1, [members |-> <<>>, valid |-> FALSE])
          /\ run' = [run EXCEPT !.pc = "retry", !.part = @ + 1, !.current = run.part + 1,
                                !.closed = FALSE, !.entries = <<>>]
     ELSE run' = [run EXCEPT !.pc = "close", !.error = TRUE, !.part = @ + 1] /\ UNCHANGED disk
  /\ UNCHANGED <<given, claims, lost, exit, faults>>

(* The member that did not fit is tried once more, not again and again.    *)
Retry ==
  /\ At("retry")
  /\ IF Found \notin lost /\ Written(Extended(Found))
     THEN Add(Found)
     ELSE Fail /\ UNCHANGED <<disk, claims>>
  /\ UNCHANGED <<given, lost, exit, faults>>

(* Removing the archive, or creating the next one, fails.                  *)
RolloverFails ==
  /\ run.pc \in {"discard", "rebuild", "continue"} /\ FaultCounted
  /\ run' = [run EXCEPT !.pc = "close", !.error = TRUE, !.closed = TRUE,
                        !.part = IF At("continue") /\ run.part < MaxPart THEN @ + 1 ELSE @]
  /\ UNCHANGED <<given, disk, claims, lost, exit>>

----------------------------------------------------------------------------
(* close *)

(* What is left to do when close has returned.                             *)
Return(error) ==
  IF error THEN run' = [run EXCEPT !.pc = "remove", !.error = TRUE] /\ UNCHANGED exit
           ELSE Go("end") /\ exit' = "ok"

(* The last archive is complete, or closed before.  After an error the     *)
(* writer may not get as far as the trailer.                               *)
CloseLast ==
  /\ At("close") /\ (Closes(run.entries) \/ run.closed \/ run.error)
  /\ IF run.closed \/ run.error
     THEN UNCHANGED disk
     ELSE Put(run.current, [members |-> run.entries, valid |-> TRUE])
  /\ Return(run.error)
  /\ UNCHANGED <<given, claims, lost, faults>>

(* EFBIG on closing: the archive is removed and its members are repacked.  *)
CloseTooLarge ==
  /\ At("close") /\ ~Closes(run.entries) /\ ~run.closed
  /\ Put(run.current, Absent)
  /\ IF run.entries = <<>>
     THEN Return(run.error)
     ELSE /\ run' = [run EXCEPT !.pc = "repack", !.closed = TRUE, !.at = run.current,
                                !.count = Len(run.entries)]
          /\ UNCHANGED exit
  /\ UNCHANGED <<given, claims, lost, faults>>

(* Closing fails for another reason.                                       *)
CloseFails ==
  /\ At("close") /\ FaultCounted
  /\ Return(TRUE)
  /\ UNCHANGED <<given, disk, claims, lost>>

Candidate == SubSeq(run.entries, 1, run.count)

(* Mutant: the rest begins one too late.                                   *)
RestSkipping == SubSeq(run.entries, run.count + 2, Len(run.entries))

Rest == SubSeq(run.entries, run.count + 1, Len(run.entries))

(* The next smaller prefix, if there is one.                               *)
Shorter ==
  IF run.count = 1 THEN Return(TRUE) ELSE run' = [run EXCEPT !.count = @ - 1] /\ UNCHANGED exit

(* A prefix does not fit: its archive is removed.                          *)
Repack ==
  /\ At("repack") /\ disk[run.at] = Absent /\ Readable(Candidate) /\ ~Closes(Candidate)
  /\ Shorter
  /\ UNCHANGED <<given, disk, claims, lost, faults>>

(* A prefix fits: on with the rest, in the next part.                      *)
Packed ==
  /\ At("repack") /\ disk[run.at] = Absent /\ Readable(Candidate) /\ Closes(Candidate)
  /\ Put(run.at, [members |-> Candidate, valid |-> TRUE])
  /\ IF Rest = <<>>
     THEN Return(run.error)
     ELSE /\ run.part < MaxPart
          /\ run' = [run EXCEPT !.part = @ + 1, !.at = run.part + 1, !.entries = Rest, !.count = Len(Rest)]
          /\ UNCHANGED exit
  /\ UNCHANGED <<given, claims, lost, faults>>

(* The name is taken, a member cannot be read again, or writing fails:     *)
(* os.Remove(path) is called for any error of writeEntries.                *)
RepackFails ==
  /\ At("repack")
  /\ IF disk[run.at] # Absent \/ ~Readable(Candidate) THEN UNCHANGED faults ELSE FaultCounted
  /\ Put(run.at, Absent)
  /\ Return(TRUE)
  /\ UNCHANGED <<given, claims, lost>>

(* Mutant: the current output stays.                                       *)
KeepCurrent ==
  /\ At("remove")
  /\ Go("end") /\ exit' = "error"
  /\ UNCHANGED <<given, disk, claims, lost, faults>>

(* Mutant: the destination is removed.                                     *)
RemoveDestination ==
  /\ At("remove")
  /\ Put(1, Absent)
  /\ Go("end") /\ exit' = "error"
  /\ UNCHANGED <<given, claims, lost, faults>>

(* After an error run removes the current output.                          *)
RemoveCurrent ==
  /\ At("remove")
  /\ Put(run.current, Absent)
  /\ Go("end") /\ exit' = "error"
  /\ UNCHANGED <<given, claims, lost, faults>>

----------------------------------------------------------------------------
(* The surroundings *)

(* A source is changed or removed while archive-repack runs.               *)
Lose(i) ==
  /\ ~At("end") /\ FaultCounted
  /\ walk[i].kind = "file" /\ lost' = lost \cup {walk[i]}
  /\ UNCHANGED <<given, disk, claims, run, exit>>

Kill ==
  /\ ~At("end") /\ FaultCounted
  /\ Go("end") /\ exit' = "killed"
  /\ UNCHANGED <<given, disk, claims, lost>>

Ended == At("end") /\ UNCHANGED vars

Work ==
  \/ Create \/ AddMember \/ SkipRepeated \/ Refuse \/ TooLarge \/ WalkDone
  \/ Discard \/ Rebuild \/ Continue \/ Retry
  \/ CloseLast \/ CloseTooLarge \/ Repack \/ Packed \/ RepackFails \/ RemoveCurrent

Next ==
  \/ Work \/ WriteFails \/ RolloverFails \/ CloseFails \/ Kill \/ Ended
  \/ \E i \in DOMAIN walk : Lose(i)

Spec == Init /\ [][Next]_vars /\ WF_vars(Work)
----------------------------------------------------------------------------
PC == {"create", "walk", "discard", "rebuild", "continue", "retry", "close", "repack", "remove", "end"}

Local == [pc : PC, next : Nat \ {0}, current : Part, closed : BOOLEAN, part : Part,
          entries : Seq(Item), at : Part, count : Nat, error : BOOLEAN]

TypeOK ==
  /\ walk \in Seq(Item) /\ block \in Nat \ {0} /\ theirs \in SUBSET Part
  /\ disk \in [Part -> Volume \cup {Theirs, Absent}]
  /\ claims \in SUBSET Item /\ lost \in SUBSET Item
  /\ run \in Local
  /\ exit \in {"none", "ok", "error", "killed"}
  /\ faults \in Nat

(* The members that the first n of these items stand for: directories      *)
(* once.                                                                   *)
Firsts(items) ==
  LET seen[n \in 0..Len(items)] ==
        IF n = 0 THEN <<>>
        ELSE LET before == seen[n - 1] IN
             IF items[n] \in Range(before) THEN before ELSE Append(before, items[n])
  IN seen

Members == Firsts(walk)[Len(walk)]

(* What the first p of these files hold, one after the other.              *)
Joined(files) ==
  LET upTo[p \in 0..MaxPart] ==
        IF p = 0 THEN <<>>
        ELSE IF files[p] \in {Theirs, Absent} THEN upTo[p - 1] ELSE upTo[p - 1] \o files[p].members
  IN upTo

(* Success means that the parts, all of them valid and none too large,     *)
(* hold every member exactly once, in the order of the walk, however often *)
(* the run rolled over or repacked (archiveSet).                           *)
SuccessIsComplete ==
  exit = "ok" =>
    /\ \A p \in 1..run.part : disk[p] \in Volume /\ disk[p].valid /\ Closes(disk[p].members)
    /\ Joined(disk)[run.part] = Members

Finalized(p) == disk[p] \in Volume /\ disk[p].valid

(* A part that was finished is not touched again by what fails later, in   *)
(* another rollover or repacking, as long as it is not the one that the    *)
(* run still takes for its current output (rollover, close, run).          *)
OtherPartsKept == [][\A p \in Part : p # run.current /\ Finalized(p) => disk'[p] = disk[p]]_vars

(* run: "Earlier finalized parts, if any, remain available": the one that  *)
(* rollover has just rebuilt, or close repacked first, is no exception.    *)
(* Does not hold: README, section 4.                                       *)
FinalizedRemain == [][\A p \in Part : Finalized(p) => disk'[p] = disk[p]]_vars

(* A run that ends by itself leaves only archives that "are valid on their *)
(* own" (docs/archive-repack.md), and every member in one of them at most  *)
(* (rollover, close, run).                                                 *)
LeavesValidParts ==
  exit \in {"ok", "error"} =>
    \A p, q \in Part :
      disk[p] \notin {Theirs, Absent} =>
        /\ disk[p].valid
        /\ p # q /\ disk[q] \notin {Theirs, Absent} =>
             Range(disk[p].members) \cap Range(disk[q].members) = {}

(* Consecutive members that can be written but leave no space for the      *)
(* trailer, as a single member that is too large does.                     *)
NoSpaceToClose ==
  \E i, j \in DOMAIN Members :
    LET members == SubSeq(Members, i, j) IN
    /\ i <= j /\ ~Closes(members)
    /\ i = j \/ Written(members)

(* What is wrong with the source, or the surroundings.                     *)
OtherCauses ==
  \/ faults > 0 \/ theirs # {}
  \/ \E i \in DOMAIN walk :
       walk[i].kind = "bad" \/ Conflicts(walk[i], {walk[j] : j \in 1..(i - 1)})

(* Where nothing else is wrong, a run fails only over members that can be  *)
(* written and leave no space for the trailer; it does not fail over a     *)
(* member the part before left no room for otherwise (addFile, close).     *)
(* The docs promise more, which is OnlyUnfitFails.                         *)
ErrorsHaveCauses == exit = "error" => OtherCauses \/ NoSpaceToClose

(* docs/archive-repack.md: the tool "retries that member in a continuation *)
(* archive", and "a member that cannot fit in an empty archive still       *)
(* reports an error": one that fits does not (rollover).  Does not hold:   *)
(* README, section 4.                                                      *)
OnlyUnfitFails == exit = "error" => OtherCauses \/ \E i \in DOMAIN Members : ~Closes(<<Members[i]>>)

=============================================================================
