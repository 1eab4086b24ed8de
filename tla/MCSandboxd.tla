----------------------------- MODULE MCSandboxd -----------------------------
(* Two runs of sandbox/run.sh that share one cache directory, two programs *)
(* and a version one of them may be replaced by; and what a version may    *)
(* look like to rewriteMachO.                                              *)
EXTENDS RewriteCache, SequencesExt, TLC

CONSTANTS d1, d2, c1, c2, e1, e2, paired, lone, cramped, s1, s2

Connections == c1 :> d1 @@ c2 :> d2
Installed == e1 :> paired @@ e2 :> lone
Entitled == paired :> "jit" @@ lone :> "none" @@ cramped :> "none"

CommandWords(command, i) ==
  [j \in 1..command.len |-> [kind |-> IF j = 1 THEN command.kind ELSE "body",
                             len  |-> IF j = 1 THEN command.len ELSE 0,
                             tag  |-> 10 * i + j]]

(* A well-formed executable: its commands, room, and two words of code.    *)
Executable(commands, room) ==
  LET words == FlattenSeq([i \in DOMAIN commands |-> CommandWords(commands[i], i)]) IN
  [ncmds |-> Len(commands),
   size  |-> Len(words),
   words |-> words \o [j \in 1..room |-> Zero]
                   \o [j \in 1..2 |-> [kind |-> "code", len |-> 0, tag |-> j]]]

Command(kind, len) == [kind |-> kind, len |-> len]
Data == Command("data_in_code", 2)
Signature == Command("code_signature", 2)
Others == {<<>>} \cup {<<Command("other", n)>> : n \in {1, 3}}

(* The pair first, last, in the middle, or twice; the signature alone, at  *)
(* the end, of different lengths.                                          *)
PairTables ==
  {before \o <<Data, Signature>> \o after : before, after \in Others \cup {<<Data, Signature>>}}
LoneTables ==
  {before \o <<Command("code_signature", n)>> : before \in Others \cup {<<Data>>}, n \in {1, 3, 6, 8}}
  \ PairTables

(* What rewriteMachO refuses: a table longer than the file, an empty       *)
(* command, and one that the file ends in; and room for less than it needs.*)
Plain == Executable(<<Command("other", 3), Data, Signature>>, 2)
Refused ==
  {[Plain EXCEPT !.size = Len(Plain.words) + 1],
   [Plain EXCEPT !.words[1].len = 0],
   [Plain EXCEPT !.size = 6, !.words = SubSeq(@, 1, 6)]}

Images ==
  paired  :> {Executable(t, room) : t \in PairTables, room \in 2..4} @@
  lone    :> {Executable(t, room) : t \in LoneTables, room \in 5..6} @@
  cramped :> {Executable(t, 1) : t \in PairTables} \cup Refused

(* One of each, where the tables are not what a run is about.              *)
FewImages ==
  paired :> {Plain} @@ lone :> {Executable(<<Command("code_signature", 1)>>, 5)}
  @@ cramped :> {Executable(<<Data, Signature>>, 1)}

(* Neither builds of the shim nor the two runs are told apart.             *)
Runs == d1 :> d2 @@ d2 :> d1 @@ c1 :> c2 @@ c2 :> c1
Alike == Permutations(Shim) \cup {p @@ Runs : p \in Permutations(Shim)}
=============================================================================
