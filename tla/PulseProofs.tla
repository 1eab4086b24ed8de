---------------------------- MODULE PulseProofs ----------------------------
(***************************************************************************)
(* Proofs about the commitment tree, for any number of leaves: the proof   *)
(* of a leaf verifies, and nothing else does.  And about pulse, for any    *)
(* number of jobs, services and policies, whatever is edited, committed    *)
(* and fails meanwhile: its goroutines keep to their states, run what was  *)
(* committed, and a daemon that has said it has stopped runs nothing.      *)
(***************************************************************************)
EXTENDS Pulse, WellFoundedInduction, SequenceTheorems, FiniteSetTheorems, TLAPS

----------------------------------------------------------------------------
(* The tree of a commitment: what verifies against its root.               *)

LessThan == {p \in Nat \X Nat : p[1] < p[2]}

(* A set of numbers has a least element.                                   *)
LEMMA Least ==
  ASSUME NEW S, S \subseteq Nat, S # {}
  PROVE  \E x \in S : \A y \in S : x <= y
<1>1. IsWellFoundedOn(LessThan, Nat)
  <2>1. LessThan = OpToRel(<, Nat)
    BY DEF LessThan, OpToRel
  <2> QED
    BY <2>1, NatLessThanWellFounded
<1>2. PICK x \in S : \A y \in S : ~(<<y, x>> \in LessThan)
  BY <1>1, WFMin
<1>3. ASSUME NEW y \in S PROVE x <= y
  <2>1. x \in Nat /\ y \in Nat /\ ~(<<y, x>> \in LessThan)
    BY <1>2
  <2>2. ~(y < x)
    BY <2>1 DEF LessThan
  <2> QED
    BY <2>1, <2>2
<1> QED
  BY <1>3

(* The leaves' hashes are level 0, and each level is made from the one      *)
(* below.                                                                  *)
LEMMA LevelsType ==
  ASSUME NEW leaves, Len(leaves) \in Nat
  PROVE  /\ Levels(leaves)[0] = [i \in 1..Len(leaves) |-> leafHash(leaves[i])]
         /\ \A n \in 1..Len(leaves) : Levels(leaves)[n] = Up(Levels(leaves)[n - 1])
<1> DEFINE First == [i \in 1..Len(leaves) |-> leafHash(leaves[i])]
           Next(x, n) == Up(x)
           Is(f, m) == f = [n \in 0..m |-> IF n = 0 THEN First ELSE Next(f[n - 1], n)]
           Without == {m \in Nat : ~\E f : Is(f, m)}
<1>1. Levels(leaves) = CHOOSE f : Is(f, Len(leaves))
  BY DEF Levels
<1> HIDE DEF First, Next
<1>2. Without = {}
  <2>1. SUFFICES ASSUME Without # {} PROVE FALSE
    OBVIOUS
  <2>2. PICK m \in Without : \A k \in Without : m <= k
    BY <2>1, Least
  <2>3. Is([n \in 0..0 |-> First], 0)
    OBVIOUS
  <2>4. m # 0
    <3> HIDE DEF Is
    <3> QED BY <2>3
  <2>5. m - 1 \in Nat /\ m - 1 \notin Without
    <3>1. m \in Nat
      BY <2>2
    <3> HIDE DEF Without
    <3> QED BY <2>2, <2>4, <3>1
  <2>6. PICK f : Is(f, m - 1)
    BY <2>5
  <2> DEFINE g == [n \in 0..m |-> IF n = m THEN Next(f[m - 1], m) ELSE f[n]]
  <2>7. g[0] = First
    BY <2>5, <2>6
  <2>8. \A n \in 0..m : n = 0 \/ g[n] = Next(g[n - 1], n)
    BY <2>5, <2>6
  <2>9. Is(g, m)
    BY <2>5, <2>7, <2>8
  <2> QED
    BY <2>2, <2>9
<1>3. \E f : Is(f, Len(leaves))
  BY <1>2
<1>4. Is(Levels(leaves), Len(leaves))
  <2> HIDE DEF Is
  <2> QED BY <1>1, <1>3
<1>5. /\ Levels(leaves)[0] = First
      /\ \A n \in 1..Len(leaves) : Levels(leaves)[n] = Next(Levels(leaves)[n - 1], n)
  BY <1>4
<1> QED
  BY <1>5 DEF First, Next

(* The position is halved on each level.                                   *)
LEMMA PositionsType ==
  ASSUME NEW leaves, NEW index, Len(leaves) \in Nat
  PROVE  /\ Positions(leaves, index)[0] = index
         /\ \A n \in 1..Len(leaves) :
              Positions(leaves, index)[n] = (Positions(leaves, index)[n - 1] + 1) \div 2
<1> DEFINE First == index
           Next(x, n) == (x + 1) \div 2
           Is(f, m) == f = [n \in 0..m |-> IF n = 0 THEN First ELSE Next(f[n - 1], n)]
           Without == {m \in Nat : ~\E f : Is(f, m)}
<1>1. Positions(leaves, index) = CHOOSE f : Is(f, Len(leaves))
  BY DEF Positions
<1> HIDE DEF First, Next
<1>2. Without = {}
  <2>1. SUFFICES ASSUME Without # {} PROVE FALSE
    OBVIOUS
  <2>2. PICK m \in Without : \A k \in Without : m <= k
    BY <2>1, Least
  <2>3. Is([n \in 0..0 |-> First], 0)
    OBVIOUS
  <2>4. m # 0
    <3> HIDE DEF Is
    <3> QED BY <2>3
  <2>5. m - 1 \in Nat /\ m - 1 \notin Without
    <3>1. m \in Nat
      BY <2>2
    <3> HIDE DEF Without
    <3> QED BY <2>2, <2>4, <3>1
  <2>6. PICK f : Is(f, m - 1)
    BY <2>5
  <2> DEFINE g == [n \in 0..m |-> IF n = m THEN Next(f[m - 1], m) ELSE f[n]]
  <2>7. g[0] = First
    BY <2>5, <2>6
  <2>8. \A n \in 0..m : n = 0 \/ g[n] = Next(g[n - 1], n)
    BY <2>5, <2>6
  <2>9. Is(g, m)
    BY <2>5, <2>7, <2>8
  <2> QED
    BY <2>2, <2>9
<1>3. \E f : Is(f, Len(leaves))
  BY <1>2
<1>4. Is(Positions(leaves, index), Len(leaves))
  <2> HIDE DEF Is
  <2> QED BY <1>1, <1>3
<1>5. /\ Positions(leaves, index)[0] = First
      /\ \A n \in 1..Len(leaves) : Positions(leaves, index)[n] = Next(Positions(leaves, index)[n - 1], n)
  BY <1>4
<1> QED
  BY <1>5 DEF First, Next

(* VerifyProof climbs one step of the proof at a time.                     *)
LEMMA ClimbedType ==
  ASSUME NEW leaf, NEW proof, Len(proof) \in Nat
  PROVE  /\ Climbed(leaf, proof)[0] = leafHash(leaf)
         /\ \A n \in 1..Len(proof) :
              Climbed(leaf, proof)[n] = Climb(Climbed(leaf, proof)[n - 1], proof[n])
<1> DEFINE First == leafHash(leaf)
           Next(x, n) == Climb(x, proof[n])
           Is(f, m) == f = [n \in 0..m |-> IF n = 0 THEN First ELSE Next(f[n - 1], n)]
           Without == {m \in Nat : ~\E f : Is(f, m)}
<1>1. Climbed(leaf, proof) = CHOOSE f : Is(f, Len(proof))
  BY DEF Climbed
<1> HIDE DEF First, Next
<1>2. Without = {}
  <2>1. SUFFICES ASSUME Without # {} PROVE FALSE
    OBVIOUS
  <2>2. PICK m \in Without : \A k \in Without : m <= k
    BY <2>1, Least
  <2>3. Is([n \in 0..0 |-> First], 0)
    OBVIOUS
  <2>4. m # 0
    <3> HIDE DEF Is
    <3> QED BY <2>3
  <2>5. m - 1 \in Nat /\ m - 1 \notin Without
    <3>1. m \in Nat
      BY <2>2
    <3> HIDE DEF Without
    <3> QED BY <2>2, <2>4, <3>1
  <2>6. PICK f : Is(f, m - 1)
    BY <2>5
  <2> DEFINE g == [n \in 0..m |-> IF n = m THEN Next(f[m - 1], m) ELSE f[n]]
  <2>7. g[0] = First
    BY <2>5, <2>6
  <2>8. \A n \in 0..m : n = 0 \/ g[n] = Next(g[n - 1], n)
    BY <2>5, <2>6
  <2>9. Is(g, m)
    BY <2>5, <2>7, <2>8
  <2> QED
    BY <2>2, <2>9
<1>3. \E f : Is(f, Len(proof))
  BY <1>2
<1>4. Is(Climbed(leaf, proof), Len(proof))
  <2> HIDE DEF Is
  <2> QED BY <1>1, <1>3
<1>5. /\ Climbed(leaf, proof)[0] = First
      /\ \A n \in 1..Len(proof) : Climbed(leaf, proof)[n] = Next(Climbed(leaf, proof)[n - 1], n)
  BY <1>4
<1> QED
  BY <1>5 DEF First, Next

(* Hashes of leaves and of inner nodes are never taken for one another.    *)
LEMMA PerfectHash ==
  /\ \A leaf, left, right : leafHash(leaf) # nodeHash(left, right)
  /\ \A left, right, left2, right2 :
       nodeHash(left, right) = nodeHash(left2, right2) => left = left2 /\ right = right2
  /\ \A leaf, other : leafHash(leaf) = leafHash(other) => leaf.key = other.key /\ leaf.payload = other.payload
<1>1. \A leaf : leafHash(leaf).tag = 0 /\ leafHash(leaf).of = <<leaf.key, leaf.payload>>
  BY DEF leafHash
<1>2. \A left, right : nodeHash(left, right).tag = 1 /\ nodeHash(left, right).of = <<left, right>>
  BY DEF nodeHash
<1> QED
  BY <1>1, <1>2

(* Each level has half the nodes of the one below, rounded up; after as    *)
(* many levels as there are leaves at most one node is left.               *)
LevelType(leaves, n) ==
  /\ Len(Levels(leaves)[n]) \in Nat \ {0}
  /\ DOMAIN Levels(leaves)[n] = 1..Len(Levels(leaves)[n])
  /\ Len(Levels(leaves)[n]) = 1 \/ Len(Levels(leaves)[n]) + n <= Len(leaves)

LEMMA UpType ==
  ASSUME NEW level, Len(level) \in Nat \ {0}
  PROVE  Len(Up(level)) = (Len(level) + 1) \div 2 /\ DOMAIN Up(level) = 1..((Len(level) + 1) \div 2)
<1>1. (Len(level) + 1) \div 2 \in Nat
  OBVIOUS
<1> DEFINE size == (Len(level) + 1) \div 2
<1>2. DOMAIN Up(level) = 1..size
  BY DEF Up
<1>3. Up(level) = [i \in 1..size |-> Up(level)[i]]
  BY DEF Up
<1> HIDE DEF size
<1>4. Len(Up(level)) = size
  BY <1>1, <1>3 DEF size
<1> QED
  BY <1>2, <1>4 DEF size

LEMMA LevelsSized ==
  ASSUME NEW leaves, Len(leaves) \in Nat \ {0}
  PROVE  \A n \in 0..Len(leaves) : LevelType(leaves, n)
<1> DEFINE Bad == {n \in Nat : n <= Len(leaves) /\ ~LevelType(leaves, n)}
<1>1. SUFFICES ASSUME Bad # {} PROVE FALSE
  OBVIOUS
<1>2. PICK n \in Bad : \A k \in Bad : n <= k
  BY <1>1, Least
<1>3. LevelType(leaves, 0)
  <2>1. Levels(leaves)[0] = [i \in 1..Len(leaves) |-> leafHash(leaves[i])]
    BY LevelsType
  <2>2. Len(Levels(leaves)[0]) = Len(leaves)
    BY <2>1
  <2> QED
    BY <2>1, <2>2 DEF LevelType
<1>4. n \in 1..Len(leaves) /\ LevelType(leaves, n - 1)
  BY <1>2, <1>3
<1>5. Levels(leaves)[n] = Up(Levels(leaves)[n - 1])
  BY <1>4, LevelsType
<1> DEFINE below == Len(Levels(leaves)[n - 1])
<1>6. /\ Len(Levels(leaves)[n]) = (below + 1) \div 2
      /\ DOMAIN Levels(leaves)[n] = 1..((below + 1) \div 2)
  BY <1>4, <1>5, UpType DEF LevelType
<1>7. below \in Nat \ {0} /\ (below = 1 \/ below + (n - 1) <= Len(leaves))
  BY <1>4 DEF LevelType
<1> HIDE DEF below
<1>8. (below + 1) \div 2 \in Nat \ {0} /\ (below = 1 => (below + 1) \div 2 = 1)
      /\ (below # 1 => (below + 1) \div 2 <= below - 1)
  BY <1>7
<1> DEFINE half == (below + 1) \div 2
<1>9. half = 1 \/ half + n <= Len(leaves)
  <2> HIDE DEF half
  <2> QED BY <1>4, <1>7, <1>8 DEF half
<1>10. LevelType(leaves, n)
  BY <1>6, <1>8, <1>9 DEF LevelType
<1> QED
  BY <1>2, <1>10

LEMMA HeightType ==
  ASSUME NEW leaves, Len(leaves) \in Nat \ {0}
  PROVE  Height(leaves) \in 0..Len(leaves) /\ Len(Levels(leaves)[Height(leaves)]) = 1
<1> DEFINE Single == {n \in Nat : n <= Len(leaves) /\ Len(Levels(leaves)[n]) = 1}
<1>1. Len(leaves) \in Single
  BY LevelsSized DEF LevelType
<1>2. PICK n \in Single : \A k \in Single : n <= k
  BY <1>1, Least
<1>3. n = 0 \/ n - 1 \notin Single
  BY <1>2
<1>4. n = 0 \/ Len(Levels(leaves)[n - 1]) # 1
  BY <1>3
<1> QED
  BY <1>2, <1>4 DEF Height

(* The hashes of a tree.                                                   *)
IsNode(leaves, hash) ==
  \E n \in 0..Len(leaves) : \E i \in 1..Len(Levels(leaves)[n]) : hash = Levels(leaves)[n][i]

(* An inner node is made of two nodes, and a hash in the tree that is a    *)
(* leaf's is the hash of one of its leaves.                                *)
LEMMA NodesBelow ==
  ASSUME NEW leaves, Len(leaves) \in Nat \ {0}, NEW hash, IsNode(leaves, hash)
  PROVE  \/ \E i \in 1..Len(leaves) : hash = leafHash(leaves[i])
         \/ \E left, right : /\ hash = nodeHash(left, right)
                             /\ IsNode(leaves, left) /\ IsNode(leaves, right)
<1> DEFINE At(n) == \E i \in 1..Len(Levels(leaves)[n]) : hash = Levels(leaves)[n][i]
           Where == {n \in Nat : n <= Len(leaves) /\ At(n)}
<1>1. PICK n \in Where : \A k \in Where : n <= k
  <2>1. Where # {} /\ Where \subseteq Nat
    BY DEF IsNode
  <2> HIDE DEF Where
  <2> QED BY <2>1, Least
<1>2. PICK i \in 1..Len(Levels(leaves)[n]) : hash = Levels(leaves)[n][i]
  BY <1>1
<1>3. CASE n = 0
  <2>1. Levels(leaves)[0] = [k \in 1..Len(leaves) |-> leafHash(leaves[k])]
    BY LevelsType
  <2>2. Len(Levels(leaves)[0]) = Len(leaves)
    BY <2>1
  <2> QED BY <1>2, <1>3, <2>1, <2>2
<1>4. CASE n # 0
  <2> DEFINE below == Levels(leaves)[n - 1]
  <2>1. n \in 1..Len(leaves) /\ n - 1 \in 0..Len(leaves) /\ n - 1 \notin Where
    BY <1>1, <1>4
  <2>2. Levels(leaves)[n] = Up(below)
    BY <2>1, LevelsType
  <2>3. Len(below) \in Nat \ {0}
    BY <2>1, LevelsSized DEF LevelType
  <2>4. i \in 1..((Len(below) + 1) \div 2)
    BY <1>2, <2>2, <2>3, UpType
  <2>5. ~At(n - 1)
    BY <2>1
  <2>6. \A k \in 1..Len(below) : IsNode(leaves, below[k]) /\ hash # below[k]
    BY <2>1, <2>5 DEF IsNode
  <2> HIDE DEF below, At, Where
  <2>7. hash = IF 2 * i <= Len(below) THEN nodeHash(below[2 * i - 1], below[2 * i]) ELSE below[2 * i - 1]
    BY <1>2, <2>2, <2>4 DEF Up
  <2>8. 2 * i - 1 \in 1..Len(below)
    BY <2>3, <2>4
  <2>9. 2 * i <= Len(below)
    BY <2>6, <2>7, <2>8
  <2>10. 2 * i \in 1..Len(below)
    BY <2>3, <2>4, <2>9
  <2> QED BY <2>6, <2>7, <2>8, <2>9, <2>10
<1> QED
  BY <1>3, <1>4

(* Soundness: whatever a proof file says, only the leaves of a tree verify *)
(* against its root.                                                       *)
LEMMA OnlyLeavesVerify ==
  ASSUME NEW leaves, Len(leaves) \in Nat \ {0}, NEW leaf, NEW proof, Len(proof) \in Nat,
         VerifyProof(leaf, proof, Root(leaves))
  PROVE  \E i \in 1..Len(leaves) : leafHash(leaf) = leafHash(leaves[i])
<1> DEFINE hash == Climbed(leaf, proof)
           Inside == {n \in Nat : n <= Len(proof) /\ IsNode(leaves, hash[n])}
<1>1. IsNode(leaves, Root(leaves))
  BY HeightType DEF Root, IsNode
<1>2. Len(proof) \in Inside
  BY <1>1 DEF VerifyProof
<1>3. PICK n \in Inside : \A k \in Inside : n <= k
  <2>1. Inside \subseteq Nat /\ Inside # {}
    BY <1>2
  <2> HIDE DEF Inside
  <2> QED BY <2>1, Least
<1>4. n = 0
  <2>1. SUFFICES ASSUME n # 0 PROVE FALSE
    OBVIOUS
  <2>2. n \in 1..Len(proof) /\ n - 1 \in Nat /\ n - 1 <= Len(proof) /\ n - 1 \notin Inside
    BY <1>3, <2>1
  <2>3. ~IsNode(leaves, hash[n - 1]) /\ IsNode(leaves, hash[n])
    BY <1>3, <2>2
  <2>4. hash[n] = Climb(hash[n - 1], proof[n])
    BY <2>2, ClimbedType
  <2> HIDE DEF hash, Inside
  <2>5. PICK other : \/ hash[n] = nodeHash(other, hash[n - 1])
                     \/ hash[n] = nodeHash(hash[n - 1], other)
    BY <2>3, <2>4 DEF Climb
  <2>6. ~\E i \in 1..Len(leaves) : hash[n] = leafHash(leaves[i])
    BY <2>5, PerfectHash
  <2>7. PICK left, right : /\ hash[n] = nodeHash(left, right)
                           /\ IsNode(leaves, left) /\ IsNode(leaves, right)
    BY <2>3, <2>6, NodesBelow
  <2>8. hash[n - 1] \in {left, right}
    BY <2>5, <2>7, PerfectHash
  <2> QED BY <2>3, <2>7, <2>8
<1>5. hash[0] = leafHash(leaf)
  BY ClimbedType
<1>6. IsNode(leaves, leafHash(leaf))
  BY <1>3, <1>4, <1>5
<1> QED
  BY <1>6, NodesBelow, PerfectHash

(* Where a leaf's ancestors are, and what the next one is made of.         *)
LEMMA PositionsInside ==
  ASSUME NEW leaves, Len(leaves) \in Nat \ {0}, NEW index \in 1..Len(leaves)
  PROVE  \A n \in 0..Len(leaves) : Positions(leaves, index)[n] \in 1..Len(Levels(leaves)[n])
<1> DEFINE at == Positions(leaves, index)
           size(n) == Len(Levels(leaves)[n])
           Bad == {n \in Nat : n <= Len(leaves) /\ at[n] \notin 1..size(n)}
<1>1. SUFFICES ASSUME Bad # {} PROVE FALSE
  OBVIOUS
<1>2. PICK n \in Bad : \A k \in Bad : n <= k
  <2>1. Bad \subseteq Nat
    OBVIOUS
  <2> HIDE DEF Bad
  <2> QED BY <1>1, <2>1, Least
<1>3. 0 \notin Bad
  <2>1. Levels(leaves)[0] = [k \in 1..Len(leaves) |-> leafHash(leaves[k])]
    BY LevelsType
  <2>2. size(0) = Len(leaves)
    BY <2>1
  <2>3. at[0] = index
    BY PositionsType
  <2> QED BY <2>2, <2>3
<1>4. n \in 1..Len(leaves) /\ n - 1 \in 0..Len(leaves) /\ n - 1 \notin Bad
  BY <1>2, <1>3
<1>5. at[n - 1] \in 1..size(n - 1)
  BY <1>4
<1>6. at[n] = (at[n - 1] + 1) \div 2
  BY <1>4, PositionsType
<1>7. size(n - 1) \in Nat \ {0}
  BY <1>4, LevelsSized DEF LevelType
<1>8. size(n) = (size(n - 1) + 1) \div 2
  BY <1>4, <1>7, LevelsType, UpType
<1>9. at[n] \in 1..size(n)
  <2> HIDE DEF at, size
  <2> QED BY <1>5, <1>6, <1>7, <1>8
<1> QED
  BY <1>2, <1>9

LEMMA SiblingClimbs ==
  ASSUME NEW level, Len(level) \in Nat \ {0}, NEW at \in 1..Len(level)
  PROVE  Climb(level[at], Sibling(level, at)) = Up(level)[(at + 1) \div 2]
<1> DEFINE up == (at + 1) \div 2
<1>1. up \in 1..((Len(level) + 1) \div 2)
  OBVIOUS
<1>2. Up(level)[up] = IF 2 * up <= Len(level) THEN nodeHash(level[2 * up - 1], level[2 * up]) ELSE level[2 * up - 1]
  BY <1>1 DEF Up
<1>3. CASE at % 2 = 0
  <2>1. 2 * up = at
    BY <1>3
  <2>2. Up(level)[up] = nodeHash(level[at - 1], level[at])
    BY <1>2, <2>1
  <2> HIDE DEF up
  <2> QED BY <1>3, <2>2 DEF Sibling, Climb, up
<1>4. CASE at % 2 # 0
  <2>1. 2 * up = at + 1
    BY <1>4
  <2>2. Up(level)[up] = IF at < Len(level) THEN nodeHash(level[at], level[at + 1]) ELSE level[at]
    <3> HIDE DEF up
    <3> QED BY <1>2, <2>1
  <2> HIDE DEF up
  <2> QED BY <1>4, <2>2 DEF Sibling, Climb, up
<1> QED
  BY <1>3, <1>4

LEMMA ProofForType ==
  ASSUME NEW leaves, Len(leaves) \in Nat \ {0}, NEW index
  PROVE  /\ Len(ProofFor(leaves, index)) = Height(leaves)
         /\ Height(leaves) \in 0..Len(leaves)
         /\ \A n \in 1..Height(leaves) :
              ProofFor(leaves, index)[n] = Sibling(Levels(leaves)[n - 1], Positions(leaves, index)[n - 1])
<1>1. Height(leaves) \in 0..Len(leaves)
  BY HeightType
<1>2. ProofFor(leaves, index) =
        [n \in 1..Height(leaves) |-> Sibling(Levels(leaves)[n - 1], Positions(leaves, index)[n - 1])]
  BY DEF ProofFor
<1>3. Len(ProofFor(leaves, index)) = Height(leaves)
  BY <1>1, <1>2
<1> QED
  BY <1>1, <1>2, <1>3

(* Completeness: every leaf of a tree verifies with its own proof.         *)
LEMMA LeavesVerify ==
  ASSUME NEW leaves, Len(leaves) \in Nat \ {0}, NEW index \in 1..Len(leaves)
  PROVE  VerifyProof(leaves[index], ProofFor(leaves, index), Root(leaves))
<1> DEFINE hash == Climbed(leaves[index], ProofFor(leaves, index))
           at == Positions(leaves, index)
           level(n) == Levels(leaves)[n]
           Bad == {n \in Nat : n <= Height(leaves) /\ hash[n] # level(n)[at[n]]}
<1>1. Bad = {}
  <2>1. SUFFICES ASSUME Bad # {} PROVE FALSE
    OBVIOUS
  <2>2. PICK n \in Bad : \A k \in Bad : n <= k
    <3>1. Bad \subseteq Nat
      OBVIOUS
    <3> HIDE DEF Bad
    <3> QED BY <2>1, <3>1, Least
  <2>3. 0 \notin Bad
    <3>1. hash[0] = leafHash(leaves[index])
      BY ProofForType, ClimbedType
    <3>2. level(0) = [k \in 1..Len(leaves) |-> leafHash(leaves[k])] /\ at[0] = index
      BY LevelsType, PositionsType
    <3> HIDE DEF hash, level, at
    <3>3. hash[0] = level(0)[at[0]]
      BY <3>1, <3>2
    <3> QED BY <3>3
  <2>4. /\ n \in 1..Height(leaves) /\ n \in 1..Len(leaves) /\ n - 1 \in 0..Len(leaves)
        /\ n - 1 \in Nat /\ n - 1 <= Height(leaves) /\ n - 1 \notin Bad
    BY <2>2, <2>3, ProofForType
  <2>5. hash[n - 1] = level(n - 1)[at[n - 1]]
    BY <2>4
  <2>6. hash[n] = Climb(hash[n - 1], Sibling(level(n - 1), at[n - 1]))
    BY <2>4, ProofForType, ClimbedType
  <2>7. at[n - 1] \in 1..Len(level(n - 1)) /\ Len(level(n - 1)) \in Nat \ {0}
    BY <2>4, PositionsInside, LevelsSized DEF LevelType
  <2>8. level(n) = Up(level(n - 1))
    BY <2>4, LevelsType
  <2>10. at[n] = (at[n - 1] + 1) \div 2
    BY <2>4, PositionsType
  <2>9. hash[n] # level(n)[at[n]]
    BY <2>2
  <2> HIDE DEF hash, at, level
  <2> QED BY <2>5, <2>6, <2>7, <2>8, <2>9, <2>10, SiblingClimbs
<1>2. Height(leaves) \in Nat /\ Height(leaves) \in 0..Len(leaves) /\ Len(level(Height(leaves))) = 1
  BY HeightType
<1>3. hash[Height(leaves)] = level(Height(leaves))[at[Height(leaves)]]
  BY <1>1, <1>2
<1>4. at[Height(leaves)] = 1
  <2>1. at[Height(leaves)] \in 1..Len(level(Height(leaves)))
    BY <1>2, PositionsInside
  <2> QED BY <1>2, <2>1
<1> QED
  BY <1>3, <1>4, ProofForType DEF VerifyProof, Root

(* A proof leads from different hashes to different roots.                 *)
LEMMA OneLeafPerProof ==
  ASSUME NEW leaf, NEW other, NEW proof, NEW root, Len(proof) \in Nat,
         VerifyProof(leaf, proof, root), VerifyProof(other, proof, root)
  PROVE  leafHash(leaf) = leafHash(other)
<1> DEFINE one == Climbed(leaf, proof)
           two == Climbed(other, proof)
           Same == {n \in Nat : n <= Len(proof) /\ one[n] = two[n]}
<1>1. PICK n \in Same : \A k \in Same : n <= k
  <2>1. Same \subseteq Nat /\ Len(proof) \in Same
    BY DEF VerifyProof
  <2> HIDE DEF Same
  <2> QED BY <2>1, Least
<1>2. CASE n = 0
  BY <1>1, <1>2, ClimbedType
<1>3. CASE n # 0
  <2>1. n \in 1..Len(proof) /\ n - 1 \notin Same /\ n - 1 \in Nat /\ n - 1 <= Len(proof)
    BY <1>1, <1>3
  <2>2. one[n - 1] # two[n - 1] /\ one[n] = two[n]
    BY <1>1, <2>1
  <2>3. one[n] = Climb(one[n - 1], proof[n]) /\ two[n] = Climb(two[n - 1], proof[n])
    BY <2>1, ClimbedType
  <2> HIDE DEF one, two
  <2> QED BY <2>2, <2>3, PerfectHash DEF Climb
<1> QED
  BY <1>2, <1>3

----------------------------------------------------------------------------
(* The daemon: types, and how it stops.                                    *)

(* The local variables of a goroutine.  A service that still runs has not  *)
(* used up its attempts.                                                   *)
Proc(p) ==
  /\ DOMAIN p = {"pc", "root", "attempts"}
  /\ p.pc \in PC
  /\ p.attempts \in 0..(MaxAttempts + 1)
  /\ p.pc # "end" => p.attempts <= MaxAttempts

Procs == DOMAIN proc = Entry /\ \A e \in Entry : Proc(proc[e])

(* The files and the install script.                                       *)
Files ==
  /\ config \in [Entry -> Command \cup {Absent}]
  /\ DOMAIN sidecar \subseteq Entry
  /\ DOMAIN script = {"pc", "found"}
  /\ script.pc \in {"idle", "writeJobs", "writeTasks", "install"}
  /\ DOMAIN script.found \subseteq Entry

Main ==
  /\ main \in {"off", "jobs", "services", "stopped"}
  /\ loaded \in [Entry -> Command \cup {Absent}]
  /\ tick \subseteq Job

TypeInv == Files /\ Main /\ Procs

(* What the last stages of main wait for has ended for good.               *)
Waited ==
  /\ main \in {"services", "stopped"} => Ended(Job)
  /\ main = "stopped" => Ended(Task)

----------------------------------------------------------------------------
(* A goroutine that does one of its steps leaves the others alone and does *)
(* not go beyond its attempts.                                             *)
LEMMA GotoKeeps ==
  ASSUME PulseAssumption, Procs, NEW e \in Entry, NEW label \in PC, ~In(e, "end"), Goto(e, label)
  PROVE  Procs' /\ \A d \in Entry \ {e} : proc'[d] = proc[d]
<1>1. DOMAIN proc' = Entry /\ \A d \in Entry \ {e} : proc'[d] = proc[d]
  BY DEF Goto, Procs
<1>2. DOMAIN proc'[e] = {"pc", "root", "attempts"}
  BY DEF Goto, Procs, Proc
<1>3. proc'[e].pc = label /\ proc'[e].attempts = proc[e].attempts
  BY DEF Goto, Procs, Proc
<1>4. Proc(proc'[e])
  BY <1>2, <1>3, PulseAssumption DEF Procs, Proc, In
<1>5. \A d \in Entry : Proc(proc'[d])
  BY <1>1, <1>4 DEF Procs
<1> QED BY <1>1, <1>5 DEF Procs

(* The steps of goroutines.                                                *)
GoStep(e) ==
  \/ Work(e) \/ ReadFails(e)
  \/ e \in Job /\ (Tick(e) \/ TakeTick(e) \/ EndJob(e))

LEMMA GoStepKeeps ==
  ASSUME PulseAssumption, CommitAssumption, TypeInv, NEW e \in Entry, GoStep(e)
  PROVE  /\ TypeInv'
         /\ UNCHANGED main
         /\ \A d \in Entry : In(d, "end") => In(d, "end")'
<1> DEFINE Moved == Procs' /\ ~In(e, "end") /\ \A d \in Entry \ {e} : proc'[d] = proc[d]
<1> USE DEF TypeInv
<1>1. ASSUME NEW label \in PC, ~In(e, "end"), Goto(e, label) PROVE Moved
  BY <1>1, GotoKeeps
<1>2. ASSUME ReadAnchor(e) PROVE Moved
  <2>1. CASE anchor = NotInstalled /\ e \in Task
    BY <1>1, <1>2, <2>1 DEF ReadAnchor, Skip, In, PC
  <2>2. CASE ~(anchor = NotInstalled /\ e \in Task)
    <3> DEFINE label == IF anchor = NotInstalled THEN "gate" ELSE "proof"
    <3>1. proc' = [proc EXCEPT ![e].pc = label, ![e].root = anchor]
      BY <1>2, <2>2 DEF ReadAnchor
    <3>2. label \in PC /\ ~In(e, "end")
      BY <1>2 DEF ReadAnchor, PC, In
    <3> HIDE DEF label
    <3>3. DOMAIN proc' = Entry /\ \A d \in Entry \ {e} : proc'[d] = proc[d]
      BY <3>1 DEF Procs
    <3>4. DOMAIN proc'[e] = {"pc", "root", "attempts"}
          /\ proc'[e].pc = label /\ proc'[e].attempts = proc[e].attempts
      BY <3>1 DEF Procs, Proc
    <3>5. Proc(proc'[e])
      BY <3>2, <3>4, PulseAssumption DEF Procs, Proc, In
    <3> QED BY <3>2, <3>3, <3>5 DEF Procs
  <2> QED BY <2>1, <2>2
<1>3. ASSUME ServiceEnds(e) PROVE Moved
  <2>1. CASE Goto(e, "end")
    BY <1>1, <1>3, <2>1 DEF ServiceEnds, In, PC
  <2>2. CASE ~Goto(e, "end")
    <3> DEFINE label == IF proc[e].attempts >= MaxAttempts THEN "end" ELSE "sleep"
    <3>1. proc' = [proc EXCEPT ![e].attempts = @ + 1, ![e].pc = label]
      BY <1>3, <2>2 DEF ServiceEnds
    <3>2. label \in PC /\ In(e, "run")
      BY <1>3 DEF ServiceEnds, PC
    <3>3. proc[e].attempts \in 0..MaxAttempts
      BY <3>2, PulseAssumption DEF Procs, Proc, In
    <3>4. DOMAIN proc' = Entry /\ \A d \in Entry \ {e} : proc'[d] = proc[d]
      BY <3>1 DEF Procs
    <3>5. DOMAIN proc'[e] = {"pc", "root", "attempts"}
          /\ proc'[e].pc = label /\ proc'[e].attempts = proc[e].attempts + 1
      BY <3>1 DEF Procs, Proc
    <3>6. Proc(proc'[e])
      BY <3>2, <3>3, <3>5, PulseAssumption DEF Proc
    <3> QED BY <3>2, <3>4, <3>6 DEF Procs, In
  <2> QED BY <2>1, <2>2
<1>4. ASSUME CheckProof(e) PROVE Moved
  BY <1>1, <1>4 DEF CheckProof, Skip, In, PC
<1>5. ASSUME Gate(e) PROVE Moved
  BY <1>1, <1>5 DEF Gate, In, PC
<1>6. ASSUME JobEnds(e) \/ RapidEnds(e) \/ CheckContext(e) \/ Wake(e) PROVE Moved
  BY <1>1, <1>6 DEF JobEnds, RapidEnds, CheckContext, Wake, In, PC
<1>7. ASSUME ReadFails(e) PROVE Moved
  BY <1>1, <1>7 DEF ReadFails, Skip, In, PC
<1>8. ASSUME TakeTick(e) \/ EndJob(e) PROVE Moved
  BY <1>1, <1>8 DEF TakeTick, EndJob, In, PC
<1>9. Moved \/ UNCHANGED proc
  BY <1>2, <1>3, <1>4, <1>5, <1>6, <1>7, <1>8 DEF GoStep, Work, Tick
<1>10. OthersUnchanged /\ tick' \subseteq Job
  BY DEF GoStep, Work, ReadFails, ReadAnchor, CheckProof, Gate, JobEnds, ServiceEnds, RapidEnds,
         CheckContext, Wake, Tick, TakeTick, EndJob, Main
<1>11. Procs' /\ \A d \in Entry : In(d, "end") => In(d, "end")'
  BY <1>9 DEF Procs, Proc, In
<1>12. Files' /\ Main'
  BY <1>10 DEF OthersUnchanged, Files, Main
<1> QED BY <1>10, <1>11, <1>12 DEF OthersUnchanged

(* The operator and the install script change files only.                  *)
LEMMA CommitKeeps ==
  ASSUME CommitAssumption, Files, CommitNext
  PROVE  Files'
<1> USE DEF Files
<1>1. ASSUME NEW e \in Entry, EditConfig(e) PROVE Files'
  BY <1>1 DEF EditConfig
<1>2. ASSUME Commit PROVE Files'
  BY <1>2 DEF Commit, Restrict
<1>3. ASSUME NEW label, NEW names, NEW next \in {"writeTasks", "install"},
             WriteSidecar(label, names, next)
      PROVE  Files'
  <2>1. DOMAIN Proofs(script.found, names) \subseteq Entry
    BY DEF Proofs
  <2>2. DOMAIN sidecar' \subseteq Entry
    BY <1>3, <2>1 DEF WriteSidecar
  <2>3. DOMAIN script' = {"pc", "found"} /\ script'.pc = next /\ script'.found = script.found
    BY <1>3 DEF WriteSidecar
  <2> QED BY <1>3, <2>2, <2>3 DEF WriteSidecar
<1>4. ASSUME InstallAnchor \/ CommitFails PROVE Files'
  BY <1>4 DEF InstallAnchor, CommitFails
<1>5. ASSUME Uninstall PROVE Files'
  BY <1>5 DEF Uninstall
<1> QED BY <1>1, <1>2, <1>3, <1>4, <1>5 DEF CommitNext

LEMMA InvInit ==
  ASSUME PulseAssumption, CommitAssumption, PulseInit
  PROVE  TypeInv /\ Waited
<1>1. Files
  BY DEF PulseInit, CommitInit, Files, CommitAssumption
<1>2. Main
  BY DEF PulseInit, Main
<1>3. Procs
  <2>1. Proc(NoProc)
    BY PulseAssumption DEF Proc, NoProc, PC
  <2> QED BY <2>1 DEF PulseInit, Procs
<1> QED BY <1>1, <1>2, <1>3 DEF TypeInv, PulseInit, Waited

LEMMA InvNext ==
  ASSUME PulseAssumption, CommitAssumption, TypeInv, Waited, [PulseNext]_vars
  PROVE  TypeInv' /\ Waited'
<1> USE DEF TypeInv
<1>1. CASE UNCHANGED vars
  BY <1>1 DEF vars, commitVars, pulseVars, Files, Main, Procs, Waited, Ended, In
<1>2. ASSUME CommitNext, UNCHANGED pulseVars PROVE TypeInv' /\ Waited'
  BY <1>2, CommitKeeps DEF pulseVars, Main, Procs, Waited, Ended, In
<1>3. ASSUME Run PROVE TypeInv' /\ Waited'
  <2>1. Files' /\ Main' /\ Waited'
    BY <1>3 DEF Run, commitVars, Files, Main, Waited
  <2>2. Proc(NoProc) /\ \A pc \in PC : Proc([NoProc EXCEPT !.pc = pc])
    BY PulseAssumption DEF Proc, NoProc, PC
  <2>3. DOMAIN proc' = Entry /\ \A e \in Entry : Proc(proc'[e])
    BY <1>3, <2>2 DEF Run, PC
  <2> QED BY <2>1, <2>3 DEF Procs
<1>4. ASSUME Signal PROVE TypeInv' /\ Waited'
  BY <1>4 DEF Signal, commitVars, Files, Main, Procs, Waited, Ended, In
<1>5. ASSUME JobsDone \/ ServicesDone PROVE TypeInv' /\ Waited'
  BY <1>5 DEF JobsDone, ServicesDone, commitVars, Files, Main, Procs, Waited, Ended, In
<1>6. ASSUME NEW e \in Entry, GoStep(e) PROVE TypeInv' /\ Waited'
  BY <1>6, GoStepKeeps DEF Waited, Ended, Entry
<1>7. ASSUME Stopped PROVE UNCHANGED vars
  BY <1>7 DEF Stopped
<1> QED BY <1>1, <1>2, <1>3, <1>4, <1>5, <1>6, <1>7 DEF PulseNext, GoStep, Entry

(* The invariant of the daemon.                                            *)
LEMMA Invariance == Spec => [](TypeInv /\ Waited)
<1>1. PulseInit => TypeInv /\ Waited
  BY InvInit, PulseAssumption, CommitAssumption
<1>2. TypeInv /\ Waited /\ [PulseNext]_vars => (TypeInv /\ Waited)'
  BY InvNext, PulseAssumption, CommitAssumption
<1> QED BY <1>1, <1>2, PTL DEF Spec

(* Every goroutine of pulse, and the install script beside it, keeps to    *)
(* its states, and no service is restarted beyond its attempts             *)
(* (runService).                                                           *)
THEOREM PulseTypes == Spec => []TypeOK
<1>1. TypeInv => TypeOK
  BY DEF TypeInv, Files, Main, Procs, Proc, TypeOK
<1> QED BY <1>1, Invariance, PTL

(* When pulse says that it has stopped, no job and no service is left, and *)
(* none begins afterwards (main).                                          *)
THEOREM StopsComplete == Spec => []StopIsComplete
<1>1. Waited => StopIsComplete
  BY DEF Waited, StopIsComplete, Ended, Entry
<1>2. TypeInv /\ Waited => StopIsComplete
  BY <1>1
<1> QED BY <1>2, Invariance, PTL

----------------------------------------------------------------------------
(* What is committed                                                       *)

Found == UNION {[names -> Command] : names \in SUBSET Entry}

LeafSet(found) ==
  {CommitLeaf(k, k) : k \in Policy} \cup {CommitLeaf(e, found[e]) : e \in DOMAIN found}

(* The leaves are those of the policies and of the entries found; there is *)
(* at least one.                                                           *)
LEMMA LeavesType ==
  ASSUME CommitAssumption, NEW found, DOMAIN found \subseteq Entry
  PROVE  /\ Leaves(found) \in Seq(LeafSet(found))
         /\ Len(Leaves(found)) \in Nat \ {0}
         /\ \A e \in DOMAIN found :
              \E i \in 1..Len(Leaves(found)) : Leaves(found)[i] = CommitLeaf(e, found[e])
<1> DEFINE Keys == DOMAIN found \cup Policy
           leaf(k) == IF k \in Policy THEN CommitLeaf(k, k) ELSE CommitLeaf(k, found[k])
           Next(x, n) == IF KeyOrder[n] \in Policy
                         THEN Append(x, CommitLeaf(KeyOrder[n], KeyOrder[n]))
                         ELSE IF KeyOrder[n] \in DOMAIN found
                         THEN Append(x, CommitLeaf(KeyOrder[n], found[KeyOrder[n]]))
                         ELSE x
           Is(f, m) == f = [n \in 0..m |-> IF n = 0 THEN <<>> ELSE Next(f[n - 1], n)]
           Without == {m \in Nat : ~\E f : Is(f, m)}
           size == Len(KeyOrder)
           sorted == CHOOSE f : Is(f, size)
           Has(x, k) == \E i \in 1..Len(x) : x[i] = leaf(k)
           Good(n) == /\ sorted[n] \in Seq(LeafSet(found))
                      /\ \A j \in 1..n : KeyOrder[j] \in Keys => Has(sorted[n], KeyOrder[j])
           Bad == {n \in Nat : n <= size /\ ~Good(n)}
<1>1. Leaves(found) = sorted[size]
  BY DEF Leaves
<1>2. size \in Nat
  BY DEF CommitAssumption
<1>3. Without = {}
  <2> HIDE DEF Next
  <2>1. SUFFICES ASSUME Without # {} PROVE FALSE
    OBVIOUS
  <2>2. PICK m \in Without : \A k \in Without : m <= k
    BY <2>1, Least
  <2>3. Is([n \in 0..0 |-> <<>>], 0)
    OBVIOUS
  <2>4. m # 0
    <3> HIDE DEF Is
    <3> QED BY <2>3
  <2>5. m - 1 \in Nat /\ m - 1 \notin Without
    <3>1. m \in Nat
      BY <2>2
    <3> HIDE DEF Without
    <3> QED BY <2>2, <2>4, <3>1
  <2>6. PICK f : Is(f, m - 1)
    BY <2>5
  <2> DEFINE g == [n \in 0..m |-> IF n = m THEN Next(f[m - 1], m) ELSE f[n]]
  <2>7. g[0] = <<>>
    BY <2>5, <2>6
  <2>8. \A n \in 0..m : n = 0 \/ g[n] = Next(g[n - 1], n)
    BY <2>5, <2>6
  <2>9. Is(g, m)
    BY <2>5, <2>7, <2>8
  <2> QED
    BY <2>2, <2>9
<1>4. Is(sorted, size)
  <2>1. \E f : Is(f, size)
    BY <1>2, <1>3
  <2> HIDE DEF Is
  <2> QED BY <2>1
<1> HIDE DEF sorted
<1>5. sorted[0] = <<>> /\ \A n \in 1..size : sorted[n] = Next(sorted[n - 1], n)
  <2> HIDE DEF Next
  <2> QED BY <1>2, <1>4
<1>6. \A k \in Keys : leaf(k) \in LeafSet(found)
  BY DEF LeafSet
<1>7. Bad = {}
  <2>1. SUFFICES ASSUME Bad # {} PROVE FALSE
    OBVIOUS
  <2>2. PICK n \in Bad : \A k \in Bad : n <= k
    <3>1. Bad \subseteq Nat
      OBVIOUS
    <3> HIDE DEF Bad
    <3> QED BY <2>1, <3>1, Least
  <2>3. Good(0)
    BY <1>5
  <2>4. n \in 1..size /\ n - 1 \in Nat /\ n - 1 <= size /\ n - 1 \notin Bad
    <3> HIDE DEF Good
    <3> QED BY <1>2, <2>2, <2>3
  <2>5. Good(n - 1)
    <3> HIDE DEF Good
    <3> QED BY <2>4
  <2>6. sorted[n] = IF KeyOrder[n] \in Keys THEN Append(sorted[n - 1], leaf(KeyOrder[n])) ELSE sorted[n - 1]
    BY <1>5, <2>4
  <2> HIDE DEF leaf, Keys
  <2>7. sorted[n] \in Seq(LeafSet(found))
    BY <1>6, <2>5, <2>6
  <2>8. ASSUME NEW j \in 1..n, KeyOrder[j] \in Keys PROVE Has(sorted[n], KeyOrder[j])
    <3>1. CASE j = n
      <4>1. sorted[n] = Append(sorted[n - 1], leaf(KeyOrder[n])) /\ leaf(KeyOrder[n]) \in LeafSet(found)
        BY <1>6, <2>6, <2>8, <3>1
      <4>2. Len(sorted[n]) = Len(sorted[n - 1]) + 1 /\ Len(sorted[n]) \in 1..Len(sorted[n])
            /\ sorted[n][Len(sorted[n])] = leaf(KeyOrder[n])
        BY <2>5, <4>1
      <4> QED BY <3>1, <4>2
    <3>2. CASE j # n
      <4>1. j \in 1..(n - 1)
        BY <2>4, <3>2
      <4>2. PICK i \in 1..Len(sorted[n - 1]) : sorted[n - 1][i] = leaf(KeyOrder[j])
        BY <2>5, <2>8, <4>1
      <4>3. i \in 1..Len(sorted[n]) /\ sorted[n][i] = sorted[n - 1][i]
        BY <1>6, <2>5, <2>6
      <4> QED BY <4>2, <4>3
    <3> QED BY <3>1, <3>2
  <2>9. Good(n)
    BY <2>7, <2>8
  <2> QED
    BY <2>2, <2>9
<1>8. Good(size)
  <2> HIDE DEF Good
  <2> QED BY <1>2, <1>7
<1>9. \A k \in Keys : Has(sorted[size], k)
  <2>1. SUFFICES ASSUME NEW k \in Keys PROVE Has(sorted[size], k)
    OBVIOUS
  <2>2. k \in Entry \cup Policy
    OBVIOUS
  <2>3. Cardinality({i \in 1..size : KeyOrder[i] = k}) = 1
    BY <2>2 DEF CommitAssumption
  <2>4. {i \in 1..size : KeyOrder[i] = k} # {}
    BY <2>3, FS_EmptySet
  <2> HIDE DEF Has
  <2> QED BY <1>8, <2>4
<1>10. sorted[size] \in Seq(LeafSet(found)) /\ Len(sorted[size]) \in Nat
  BY <1>8
<1>11. PICK p \in Policy : TRUE
  BY DEF CommitAssumption
<1>12. Len(sorted[size]) # 0
  BY <1>9, <1>11
<1>13. ASSUME NEW e \in DOMAIN found PROVE e \in Keys /\ leaf(e) = CommitLeaf(e, found[e])
  BY DEF CommitAssumption
<1> QED
  <2> HIDE DEF leaf, Keys, LeafSet
  <2> QED BY <1>1, <1>9, <1>10, <1>12, <1>13

(* What verifies against the root of a commitment is one of its leaves.    *)
LEMMA CommittedVerify ==
  ASSUME CommitAssumption, NEW found, DOMAIN found \subseteq Entry, NEW e, NEW command,
         NEW proof, Len(proof) \in Nat,
         VerifyProof(CommitLeaf(e, command), proof, Root(Leaves(found)))
  PROVE  CommitLeaf(e, command) \in Range(Leaves(found))
<1>1. PICK i \in 1..Len(Leaves(found)) : leafHash(CommitLeaf(e, command)) = leafHash(Leaves(found)[i])
  BY LeavesType, OnlyLeavesVerify
<1>2. Leaves(found)[i] \in LeafSet(found) /\ DOMAIN Leaves(found) = 1..Len(Leaves(found))
  BY LeavesType
<1>3. PICK k, payload : Leaves(found)[i] = CommitLeaf(k, payload)
  BY <1>2 DEF LeafSet
<1>4. k = e /\ payload = command
  BY <1>1, <1>3, PerfectHash DEF CommitLeaf
<1> QED
  BY <1>2, <1>3, <1>4 DEF Range

(* The proof written for an entry is the one of its leaf.                  *)
LEMMA ProofsType ==
  ASSUME CommitAssumption, NEW found, DOMAIN found \subseteq Entry, NEW names,
         NEW e \in DOMAIN Proofs(found, names)
  PROVE  /\ e \in DOMAIN found
         /\ Len(Proofs(found, names)[e]) \in Nat
         /\ \E i \in 1..Len(Leaves(found)) :
              /\ Leaves(found)[i] = CommitLeaf(e, found[e])
              /\ Proofs(found, names)[e] = ProofFor(Leaves(found), i)
<1> DEFINE leaves == Leaves(found)
           i == CHOOSE k \in 1..Len(leaves) : leaves[k].key = e
<1>1. e \in DOMAIN found /\ Proofs(found, names)[e] = ProofFor(leaves, i)
  BY DEF Proofs
<1>2. i \in 1..Len(leaves) /\ leaves[i].key = e
  <2>1. PICK k \in 1..Len(leaves) : leaves[k] = CommitLeaf(e, found[e])
    BY <1>1, LeavesType
  <2>2. leaves[k].key = e
    BY <2>1 DEF CommitLeaf
  <2> QED BY <2>2
<1>3. leaves[i] \in LeafSet(found)
  BY <1>2, LeavesType
<1>4. e \notin Policy
  BY <1>1 DEF CommitAssumption
<1> HIDE DEF leaves, i
<1>5. leaves[i] = CommitLeaf(e, found[e])
  BY <1>2, <1>3, <1>4 DEF LeafSet, CommitLeaf
<1>6. Len(leaves) \in Nat \ {0}
  BY LeavesType DEF leaves
<1>7. Len(ProofFor(leaves, i)) \in Nat
  BY <1>6, ProofForType
<1> QED
  BY <1>1, <1>2, <1>5, <1>7 DEF leaves

(* Everything in a commitment verifies, and nothing else does.             *)
LEMMA Exact ==
  ASSUME CommitAssumption, NEW found, DOMAIN found \subseteq Entry,
         NEW e \in DOMAIN Proofs(found, Entry), NEW other, NEW command
  PROVE  VerifyProof(CommitLeaf(other, command), Proofs(found, Entry)[e], Root(Leaves(found)))
           <=> other = e /\ command = found[e]
<1> DEFINE proof == Proofs(found, Entry)[e]
           root == Root(Leaves(found))
<1>1. PICK i \in 1..Len(Leaves(found)) :
        Leaves(found)[i] = CommitLeaf(e, found[e]) /\ proof = ProofFor(Leaves(found), i)
  BY ProofsType
<1>2. Len(proof) \in Nat /\ Len(Leaves(found)) \in Nat \ {0}
  BY ProofsType, LeavesType
<1>3. VerifyProof(CommitLeaf(e, found[e]), proof, root)
  BY <1>1, <1>2, LeavesVerify
<1> HIDE DEF proof, root
<1>4. ASSUME VerifyProof(CommitLeaf(other, command), proof, root)
      PROVE  other = e /\ command = found[e]
  <2>1. leafHash(CommitLeaf(other, command)) = leafHash(CommitLeaf(e, found[e]))
    BY <1>2, <1>3, <1>4, OneLeafPerProof
  <2> QED BY <2>1, PerfectHash DEF CommitLeaf
<1> QED
  BY <1>3, <1>4 DEF proof, root

----------------------------------------------------------------------------
(* What runs was committed                                                 *)

(* A root that was installed belongs to leaves that are recorded.          *)
Genuine(root) ==
  root = NotInstalled \/
  \E found \in Found : root = Root(Leaves(found)) /\ Range(Leaves(found)) \subseteq anchored

Committing ==
  /\ script.pc # "idle" => script.found \in Found
  /\ \A e \in DOMAIN sidecar : Len(sidecar[e]) \in Nat
  /\ Genuine(anchor)

(* A goroutine past its check has verified what it runs, unless it is a    *)
(* job and there was no anchor.                                            *)
Verified ==
  \A e \in Entry :
    /\ Genuine(proc[e].root)
    /\ In(e, "proof") => proc[e].root # NotInstalled
    /\ In(e, "gate") \/ In(e, "run") =>
         \/ e \in Job /\ proc[e].root = NotInstalled
         \/ CommitLeaf(e, loaded[e]) \in anchored

LEMMA FoundType ==
  ASSUME NEW found \in Found
  PROVE  DOMAIN found \subseteq Entry
BY DEF Found

LEMMA CommittingKeeps ==
  ASSUME CommitAssumption, Files, Committing, CommitNext
  PROVE  Committing' /\ anchored \subseteq anchored'
<1> USE DEF Files, Committing
<1>1. ASSUME NEW e \in Entry, EditConfig(e) PROVE Committing' /\ anchored \subseteq anchored'
  BY <1>1 DEF EditConfig, Genuine
<1>2. ASSUME Commit PROVE Committing' /\ anchored \subseteq anchored'
  <2> DEFINE names == {e \in Entry : config[e] # Absent}
  <2>1. Restrict(config, names) \in [names -> Command]
    BY DEF Restrict
  <2>2. names \subseteq Entry
    OBVIOUS
  <2> HIDE DEF names
  <2>3. Restrict(config, names) \in Found
    BY <2>1, <2>2 DEF Found
  <2>4. script'.found = Restrict(config, names)
    BY <1>2 DEF Commit, names
  <2> QED BY <1>2, <2>3, <2>4 DEF Commit, Genuine
<1>3. ASSUME NEW label \in {"writeJobs", "writeTasks"}, NEW names, NEW next, WriteSidecar(label, names, next)
      PROVE  Committing' /\ anchored \subseteq anchored'
  <2> DEFINE proofs == Proofs(script.found, names)
  <2>1. script.found \in Found /\ script'.found = script.found /\ UNCHANGED <<anchor, anchored>>
    BY <1>3 DEF WriteSidecar
  <2>2. \A e \in DOMAIN proofs : Len(proofs[e]) \in Nat
    BY <2>1, FoundType, ProofsType
  <2>3. sidecar' = IF DOMAIN proofs = {} THEN sidecar
                   ELSE [e \in (DOMAIN sidecar \ names) \cup DOMAIN proofs |->
                           IF e \in names THEN proofs[e] ELSE sidecar[e]]
    BY <1>3 DEF WriteSidecar
  <2>4. DOMAIN proofs \subseteq names
    BY DEF Proofs
  <2> HIDE DEF proofs
  <2>5. \A e \in DOMAIN sidecar' : Len(sidecar'[e]) \in Nat
    BY <2>2, <2>3, <2>4
  <2> QED BY <2>1, <2>5 DEF Genuine
<1>4. ASSUME InstallAnchor PROVE Committing' /\ anchored \subseteq anchored'
  <2>1. script.found \in Found
    BY <1>4 DEF InstallAnchor
  <2>2. anchor' = Root(Leaves(script.found)) /\ Range(Leaves(script.found)) \subseteq anchored'
    BY <1>4 DEF InstallAnchor
  <2>3. Genuine(anchor)'
    BY <2>1, <2>2 DEF Genuine
  <2> QED BY <1>4, <2>3 DEF InstallAnchor
<1>5. ASSUME CommitFails PROVE Committing' /\ anchored \subseteq anchored'
  BY <1>5 DEF CommitFails, Genuine
<1>6. ASSUME Uninstall PROVE Committing' /\ anchored \subseteq anchored'
  BY <1>6 DEF Uninstall, Genuine
<1> QED BY <1>1, <1>2, <1>3, <1>4, <1>5, <1>6 DEF CommitNext

(* The step of a goroutine that verifies: it reads the anchor, or checks   *)
(* the proof against the root it has read, or takes a verified command     *)
(* further, or gives it up.                                                *)
LEMMA VerifiedKeeps ==
  ASSUME CommitAssumption, TypeInv, Committing, Verified, NEW e \in Entry, GoStep(e)
  PROVE  Verified' /\ Committing'
<1> USE DEF TypeInv
<1> DEFINE Fine(root, pc) ==
             /\ Genuine(root)
             /\ pc = "proof" => root # NotInstalled
             /\ pc \in {"gate", "run"} =>
                  \/ e \in Job /\ root = NotInstalled
                  \/ CommitLeaf(e, loaded[e]) \in anchored
           Moved == /\ Fine(proc'[e].root, proc'[e].pc)
                    /\ \A d \in Entry \ {e} : proc'[d] = proc[d]
<1>1. ASSUME NEW label, Goto(e, label), label # "proof",
             label \in {"gate", "run"} => Fine(proc[e].root, label)
      PROVE  Moved
  <2>1. proc'[e].pc = label
        /\ proc'[e].root = IF label \in {"gate", "run"} THEN proc[e].root ELSE NotInstalled
    BY <1>1 DEF Goto, Procs, Proc
  <2>2. \A d \in Entry \ {e} : proc'[d] = proc[d]
    BY <1>1 DEF Goto, Procs
  <2> QED BY <1>1, <2>1, <2>2 DEF Genuine
<1>2. ASSUME ReadAnchor(e) PROVE Moved
  <2>1. CASE anchor = NotInstalled /\ e \in Task
    BY <1>1, <1>2, <2>1 DEF ReadAnchor, Skip
  <2>2. CASE ~(anchor = NotInstalled /\ e \in Task)
    <3> DEFINE label == IF anchor = NotInstalled THEN "gate" ELSE "proof"
    <3>1. proc' = [proc EXCEPT ![e].pc = label, ![e].root = anchor]
      BY <1>2, <2>2 DEF ReadAnchor
    <3>2. label # "run" /\ (label = "proof" => anchor # NotInstalled)
          /\ (label = "gate" => e \in Job /\ anchor = NotInstalled)
      BY <2>2 DEF Entry
    <3> HIDE DEF label
    <3>3. proc'[e].pc = label /\ proc'[e].root = anchor /\ \A d \in Entry \ {e} : proc'[d] = proc[d]
      BY <3>1 DEF Procs, Proc
    <3>4. Genuine(anchor)
      BY DEF Committing
    <3> QED BY <3>2, <3>3, <3>4
  <2> QED BY <2>1, <2>2
<1>3. ASSUME CheckProof(e) PROVE Moved
  <2>1. CASE ~Verifies(e, proc[e].root)
    BY <1>1, <1>3, <2>1 DEF CheckProof, Skip
  <2>2. CASE Verifies(e, proc[e].root)
    <3>1. proc[e].root # NotInstalled /\ Genuine(proc[e].root)
      BY <1>3 DEF CheckProof, Verified
    <3>2. PICK found \in Found : proc[e].root = Root(Leaves(found)) /\ Range(Leaves(found)) \subseteq anchored
      BY <3>1 DEF Genuine
    <3>3. Len(sidecar[e]) \in Nat /\ VerifyProof(CommitLeaf(e, loaded[e]), sidecar[e], Root(Leaves(found)))
      BY <2>2, <3>2 DEF Verifies, Committing
    <3>4. CommitLeaf(e, loaded[e]) \in anchored
      BY <3>2, <3>3, FoundType, CommittedVerify
    <3>5. Goto(e, "gate")
      BY <1>3, <2>2 DEF CheckProof
    <3> QED BY <1>1, <3>1, <3>4, <3>5
  <2> QED BY <2>1, <2>2
<1>4. ASSUME Gate(e) PROVE Moved
  BY <1>1, <1>4 DEF Gate, Verified, In
<1>5. ASSUME ServiceEnds(e) PROVE Moved
  <2>1. CASE Goto(e, "end")
    BY <1>1, <2>1
  <2>2. CASE ~Goto(e, "end")
    <3> DEFINE label == IF proc[e].attempts >= MaxAttempts THEN "end" ELSE "sleep"
    <3>1. proc' = [proc EXCEPT ![e].attempts = @ + 1, ![e].pc = label]
      BY <1>5, <2>2 DEF ServiceEnds
    <3>2. label \notin {"proof", "gate", "run"}
      OBVIOUS
    <3> HIDE DEF label
    <3>3. proc'[e].pc = label /\ proc'[e].root = proc[e].root /\ \A d \in Entry \ {e} : proc'[d] = proc[d]
      BY <3>1 DEF Procs, Proc
    <3> QED BY <3>2, <3>3 DEF Verified
  <2> QED BY <2>1, <2>2
<1>6. ASSUME JobEnds(e) \/ RapidEnds(e) \/ CheckContext(e) \/ Wake(e) PROVE Moved
  BY <1>1, <1>6 DEF JobEnds, RapidEnds, CheckContext, Wake
<1>7. ASSUME ReadFails(e) PROVE Moved
  BY <1>1, <1>7 DEF ReadFails, Skip
<1>8. ASSUME TakeTick(e) \/ EndJob(e) PROVE Moved
  BY <1>1, <1>8 DEF TakeTick, EndJob
<1>9. Moved \/ UNCHANGED proc
  BY <1>2, <1>3, <1>4, <1>5, <1>6, <1>7, <1>8 DEF GoStep, Work, Tick
<1>10. OthersUnchanged
  BY DEF GoStep, Work, ReadFails, ReadAnchor, CheckProof, Gate, JobEnds, ServiceEnds, RapidEnds,
         CheckContext, Wake, Tick, TakeTick, EndJob
<1>11. Committing' /\ \A root : Genuine(root) => Genuine(root)'
  BY <1>10 DEF OthersUnchanged, Committing, Genuine
<1>12. Verified'
  BY <1>9, <1>10 DEF OthersUnchanged, Verified, In, Genuine
<1> QED BY <1>11, <1>12

LEMMA CommittedInit ==
  ASSUME PulseInit
  PROVE  Committing /\ Verified
BY DEF PulseInit, CommitInit, Committing, Verified, Genuine, NoProc, In

LEMMA CommittedNext ==
  ASSUME CommitAssumption, TypeInv, Committing, Verified, [PulseNext]_vars
  PROVE  Committing' /\ Verified'
<1> USE DEF TypeInv
<1>1. CASE UNCHANGED vars
  BY <1>1 DEF vars, commitVars, pulseVars, Committing, Verified, Genuine, In
<1>2. ASSUME CommitNext, UNCHANGED pulseVars PROVE Committing' /\ Verified'
  <2>1. Committing' /\ anchored \subseteq anchored'
    BY <1>2, CommittingKeeps
  <2> QED BY <1>2, <2>1 DEF pulseVars, Verified, Genuine, In
<1>3. ASSUME Run PROVE Committing' /\ Verified'
  <2>1. Committing'
    BY <1>3 DEF Run, commitVars, Committing, Genuine
  <2>2. \A e \in Entry : proc'[e].root = NotInstalled /\ proc'[e].pc \in {"end", "wait", "check"}
    BY <1>3 DEF Run, NoProc
  <2> QED BY <2>1, <2>2 DEF Verified, Genuine, In
<1>4. ASSUME Signal \/ JobsDone \/ ServicesDone PROVE Committing' /\ Verified'
  BY <1>4 DEF Signal, JobsDone, ServicesDone, commitVars, Committing, Verified, Genuine, In
<1>5. ASSUME NEW e \in Entry, GoStep(e) PROVE Committing' /\ Verified'
  BY <1>5, VerifiedKeeps
<1>6. ASSUME Stopped PROVE UNCHANGED vars
  BY <1>6 DEF Stopped
<1> QED BY <1>1, <1>2, <1>3, <1>4, <1>5, <1>6 DEF PulseNext, GoStep, Entry

LEMMA CommitInvariance == Spec => [](TypeInv /\ Committing /\ Verified)
<1>1. PulseInit => TypeInv /\ Waited /\ Committing /\ Verified
  BY InvInit, CommittedInit, PulseAssumption, CommitAssumption
<1>2. TypeInv /\ Waited /\ Committing /\ Verified /\ [PulseNext]_vars
        => (TypeInv /\ Waited /\ Committing /\ Verified)'
  BY InvNext, CommittedNext, PulseAssumption, CommitAssumption
<1> QED BY <1>1, <1>2, PTL DEF Spec

(* A service runs only a command that was a leaf of an installed root, and *)
(* so does a job that found an anchor, for any number of entries and       *)
(* policies, whatever proof files and anchors its check reads while they   *)
(* are replaced (realCommitmentVerifier, taskCommitmentVerifier).          *)
THEOREM CommittedRuns == Spec => []OnlyCommittedRuns
<1>1. Verified => OnlyCommittedRuns
  <2>1. SUFFICES ASSUME Verified, NEW e \in Entry, In(e, "run"),
                        e \in Task \/ proc[e].root # NotInstalled
                 PROVE  CommitLeaf(e, loaded[e]) \in anchored
    BY DEF OnlyCommittedRuns
  <2>2. ~(e \in Job /\ proc[e].root = NotInstalled)
    BY <2>1, CommitAssumption DEF CommitAssumption
  <2> QED BY <2>1, <2>2 DEF Verified
<1> QED BY <1>1, CommitInvariance, PTL

(* For any number of leaves, odd levels included, the proof of an entry    *)
(* accepts the command that was found for it and nothing else (Build,      *)
(* ProofFor, VerifyProof).                                                 *)
THEOREM ProofsAreExact == Spec => []ProofsExact
<1>1. TypeInv => ProofsExact
  BY Exact, CommitAssumption DEF TypeInv, Files, ProofsExact
<1> QED BY <1>1, CommitInvariance, PTL

=============================================================================
