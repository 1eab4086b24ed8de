----------------------------- MODULE GitallSync -----------------------------
(***************************************************************************)
(* What gitall promises about histories, whatever the topology and however *)
(* its calls interleave: places exchange commits.  A place only gains      *)
(* commits, and it gains only what another place (or a branch proposed to  *)
(* the network) holds, a merge of such histories made on the spot, or the  *)
(* work done at that place.                                                *)
(***************************************************************************)
CONSTANTS
  Place,
  Work,    \* the change of a commit of work done at a place
  Commits  \* is such work committed at all?

VARIABLES
  history,   \* history[q]: the commits place q holds
  proposals  \* the commits on branches of pull requests

Known == proposals \cup UNION {history[q] : q \in Place}

(* A commit with two parents, both of which somebody holds.                *)
MergesKnown(c) == c.change \subseteq Known

(* A commit of the work done at q, on top of what q holds.                 *)
WorkAt(c, q) == Commits /\ c.change = Work /\ c.by = q /\ c.onto = history[q]

Init == DOMAIN history = Place /\ proposals = {}

Gain ==
  /\ DOMAIN history' = Place
  /\ \A q \in Place :
       /\ history[q] \subseteq history'[q]
       /\ \A c \in history'[q] \ Known : WorkAt(c, q) \/ MergesKnown(c)

(* Branches of pull requests are pushed from places, and deleted by people.*)
Propose == proposals' \subseteq Known

Spec == Init /\ [][Gain /\ Propose]_<<history, proposals>>
=============================================================================
