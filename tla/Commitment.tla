----------------------------- MODULE Commitment -----------------------------
(***************************************************************************)
(* The Merkle tree of src/commitment/tree.go over a sequence of leaves,    *)
(* already sorted by key.  The hash function is taken to be perfect: a     *)
(* hash is a record of what was hashed, with the domain tag that separates *)
(* leaves from inner nodes.                                                *)
(***************************************************************************)
EXTENDS Naturals, Sequences

leafHash(leaf) == [tag |-> 0, of |-> <<leaf.key, leaf.payload>>]

nodeHash(left, right) == [tag |-> 1, of |-> <<left, right>>]

(* Mutant: an unpaired node is paired with itself.                         *)
UpDuplicating(level) ==
  [i \in 1..((Len(level) + 1) \div 2) |->
     nodeHash(level[2 * i - 1], level[IF 2 * i <= Len(level) THEN 2 * i ELSE 2 * i - 1])]

(* The next level of the tree; an unpaired node is carried up unchanged.   *)
Up(level) ==
  [i \in 1..((Len(level) + 1) \div 2) |->
     IF 2 * i <= Len(level) THEN nodeHash(level[2 * i - 1], level[2 * i])
                            ELSE level[2 * i - 1]]

(* The levels of the tree, from the leaves (0) upwards.                    *)
Levels(leaves) ==
  LET level[n \in 0..Len(leaves)] ==
        IF n = 0 THEN [i \in 1..Len(leaves) |-> leafHash(leaves[i])] ELSE Up(level[n - 1])
  IN level

(* Build goes on until one node is left.                                   *)
Height(leaves) ==
  LET levels == Levels(leaves) IN
  CHOOSE n \in 0..Len(leaves) :
    Len(levels[n]) = 1 /\ (n = 0 \/ Len(levels[n - 1]) # 1)

Root(leaves) == Levels(leaves)[Height(leaves)][1]

(* Where the ancestors of the leaf at index are: idx is halved on every    *)
(* level.                                                                  *)
Positions(leaves, index) ==
  LET at[n \in 0..Len(leaves)] == IF n = 0 THEN index ELSE (at[n - 1] + 1) \div 2
  IN at

(* What the node at a position is paired with on its level.                *)
Sibling(level, at) ==
  IF at % 2 = 0 THEN [side |-> "left", hash |-> level[at - 1]]
  ELSE IF at < Len(level) THEN [side |-> "right", hash |-> level[at + 1]]
  ELSE [side |-> "carry"]

ProofFor(leaves, index) ==
  LET levels == Levels(leaves)
      at == Positions(leaves, index)
  IN [n \in 1..Height(leaves) |-> Sibling(levels[n - 1], at[n - 1])]

Climb(hash, step) ==
  CASE step.side = "left" -> nodeHash(step.hash, hash)
    [] step.side = "right" -> nodeHash(hash, step.hash)
    [] OTHER -> hash

(* The hashes that are recomputed from the leaf upwards.                   *)
Climbed(leaf, proof) ==
  LET hash[n \in 0..Len(proof)] ==
        IF n = 0 THEN leafHash(leaf) ELSE Climb(hash[n - 1], proof[n])
  IN hash

VerifyProof(leaf, proof, root) == Climbed(leaf, proof)[Len(proof)] = root
=============================================================================
