--------------------------- MODULE MCArchiveRepack ---------------------------
(* Walks of a directory and up to three files; one with an archive that    *)
(* lists a directory again, one with two members of one name.              *)
EXTENDS ArchiveRepack

CONSTANTS root, a, b, c, d

Dir(name) == [kind |-> "dir", name |-> name, size |-> 1]
Of(name, size) == [kind |-> "file", name |-> name, size |-> size]
Bad == [kind |-> "bad", name |-> c, size |-> 0]

Names == {root, a, b, c, d}
UnderRoot == {<<n, root>> : n \in {a, b, c, d}} \cup {<<c, b>>}

SomeWalks ==
     {<<Dir(root), Of(a, x), Of(b, y), Of(d, 2)>> : x, y \in 1..6}
  \cup {<<Dir(root), Dir(b), Of(a, x), Dir(b), Of(c, y)>> : x, y \in 1..5}
  \cup {<<Dir(root), Of(a, x), Of(c, y), Bad>> : x, y \in 1..4}
  \cup {<<Dir(root), Of(a, x), Of(a, y)>> : x, y \in {1, 4}}
  \cup {<<Dir(root), Of(c, x), Of(b, y)>> : x, y \in {1, 4}}

NamesTaken == {{}, {2}, {1}, {3}}
=============================================================================
