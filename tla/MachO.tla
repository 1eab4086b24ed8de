------------------------------- MODULE MachO -------------------------------
(***************************************************************************)
(* rewriteMachO (src/sandbox/daemon/main.go): how the load-command table   *)
(* of a thin 64-bit executable is made to name the sandbox's library.  A   *)
(* command that can be done without gives way to the new one, the commands *)
(* behind it move into the empty space in front of the code, and nothing   *)
(* else of the file changes place.                                         *)
(*                                                                         *)
(* Everything after the 32-byte header is counted in words of 8 bytes.  A  *)
(* file is [ncmds, size, words]: the number of load commands, the words    *)
(* they take, and the words themselves.  The first word of a command tells *)
(* its kind and length; "tag" stands for what else the word holds.         *)
(***************************************************************************)
EXTENDS Integers, Sequences, FiniteSetsExt

(* Words of the new command: 24 bytes and "@executable_path/x", rounded up. *)
ShimWords == 6

Zero == [kind |-> "zero", len |-> 0, tag |-> 0]

(* LC_LOAD_DYLIB with the name of the library.                             *)
ShimCommand ==
  [j \in 1..ShimWords |-> [kind |-> IF j = 1 THEN "load_dylib" ELSE "body",
                           len  |-> IF j = 1 THEN ShimWords ELSE 0,
                           tag  |-> j]]

(* Where each command begins, walking the table by the commands' lengths;  *)
(* the last element is where the walk ends.  It gets no further than to a  *)
(* command that begins behind the end of the file.                         *)
Begins(f) ==
  LET at[i \in 1..(f.ncmds + 1)] ==
        IF i = 1 THEN 1
        ELSE IF at[i - 1] <= Len(f.words)
        THEN at[i - 1] + f.words[at[i - 1]].len
        ELSE at[i - 1]
  IN  at

First(f, i) == f.words[Begins(f)[i]]

(* The table is within the file, and so is every command, none empty.  (A  *)
(* file that ends between the two halves of a pair makes the code panic,   *)
(* and its daemon end: Stop of RewriteCache, in place of an answer.)       *)
Walked(f) ==
  /\ f.size <= Len(f.words)
  /\ \A i \in 1..f.ncmds :
       /\ Begins(f)[i] <= Len(f.words) /\ First(f, i).len >= 1
       /\ Begins(f)[i + 1] <= Len(f.words) + 1

(* 0x29 of 16 bytes followed by 0x1d of 16 bytes, wherever they are.       *)
Pairs(f) ==
  {i \in 1..(f.ncmds - 1) :
     /\ First(f, i).kind = "data_in_code" /\ First(f, i).len = 2
     /\ First(f, i + 1).kind = "code_signature" /\ First(f, i + 1).len = 2}

(* 0x1d that ends where the table is said to end.                          *)
Lone(f) ==
  {i \in 1..f.ncmds :
     First(f, i).kind = "code_signature" /\ Begins(f)[i + 1] = f.size + 1}

(* The commands that give way: the last such pair, else the signature.     *)
Anchor(f) ==
  LET count == IF Pairs(f) # {} THEN 2 ELSE 1
      i == IF Pairs(f) # {} THEN Max(Pairs(f)) ELSE Min(Lone(f)) IN
  [at    |-> Begins(f)[i],
   len   |-> Begins(f)[i + count] - Begins(f)[i],
   count |-> count]

(* The words the table ends later than before (fewer, when negative, are   *)
(* left as they were behind the new end).                                  *)
Grown(f) == f.size + ShimWords - Anchor(f).len

Accepted(f) ==
  /\ Walked(f)
  /\ Pairs(f) \cup Lone(f) # {}
  /\ \A j \in (f.size + 1)..Grown(f) : j <= Len(f.words) /\ f.words[j] = Zero

(* Mutant: the commands behind the anchor are overwritten, not moved.      *)
RewriteInPlace(f) ==
  LET a == Anchor(f) IN
  [ncmds |-> f.ncmds + 1 - a.count,
   size  |-> Grown(f),
   words |-> [j \in 1..Len(f.words) |->
                IF j \in a.at..(a.at + ShimWords - 1)
                THEN ShimCommand[j + 1 - a.at] ELSE f.words[j]]]

Rewrite(f) ==
  LET a == Anchor(f)
      tail == a.at + ShimWords IN
  [ncmds |-> f.ncmds + 1 - a.count,
   size  |-> Grown(f),
   words |-> [j \in 1..Len(f.words) |->
                IF j \in a.at..(tail - 1) THEN ShimCommand[j + 1 - a.at]
                ELSE IF j \in tail..Grown(f) THEN f.words[j + a.len - ShimWords]
                ELSE f.words[j]]]

(* The commands of a file, each with its words.                            *)
Commands(f) ==
  [i \in 1..f.ncmds |->
     [j \in 1..(Begins(f)[i + 1] - Begins(f)[i]) |-> f.words[Begins(f)[i] + j - 1]]]

(* What a file is, and what a linker makes of it: the commands fill the    *)
(* table, and the code lies behind it.  rewriteMachO asks for neither; of  *)
(* a file that is otherwise nothing is promised.                           *)
Kind ==
  {"load_dylib", "data_in_code", "code_signature", "other", "body", "zero", "code"}

Word == [kind : Kind, len : Nat, tag : Nat]

File == [ncmds : Nat, size : Nat, words : Seq(Word)]

WellFormed(f) ==
  /\ Walked(f)
  /\ Begins(f)[f.ncmds + 1] = f.size + 1
  /\ \A j \in 1..f.size : f.words[j].kind # "code"

(* What a loader finds in the rewritten file: every command that did not   *)
(* give way, in order and whole, the new one where the others were, the    *)
(* table exactly filled; and the code where it was.                        *)
RewrittenRight(f) ==
  LET g == Rewrite(f)
      old == Commands(f)
      new == Commands(g) IN
  /\ Begins(g)[g.ncmds + 1] = g.size + 1
  /\ \E i \in 1..g.ncmds, gone \in 1..2 :
       /\ g.ncmds + gone = f.ncmds + 1
       /\ new[i] = ShimCommand
       /\ \A k \in 1..(i - 1) : new[k] = old[k]
       /\ \A k \in i..(i + gone - 1) : old[k][1].kind \in {"data_in_code", "code_signature"}
       /\ \A k \in (i + 1)..g.ncmds : new[k] = old[k + gone - 1]
  /\ Len(g.words) = Len(f.words)
  /\ \A j \in 1..Len(f.words) : f.words[j].kind = "code" => g.words[j] = f.words[j]
=============================================================================
