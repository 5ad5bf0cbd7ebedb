----------------------------- MODULE MerkleTree -----------------------------
(***************************************************************************)
(* The Merkle trees of the streaming trace commitment (bef_zk/stc/merkle): *)
(* binary trees over the values of a chunk, trees of any arity over the    *)
(* roots of the chunks, single openings of both, and openings of several   *)
(* leaves at once.                                                         *)
(*                                                                         *)
(* Indices start at 0, as in the code: a level is a function on 0..n-1.    *)
(* A digest is the term that was hashed, so two digests are equal exactly  *)
(* when the hashed data are: the hash is taken to be free of collisions.   *)
(***************************************************************************)
EXTENDS Naturals, FiniteSets, SequencesExt

Least(m, n) == IF m < n THEN m ELSE n

CeilDiv(m, n) == (m + n - 1) \div n

Size(level) == Cardinality(DOMAIN level)

\* The digest of a node with these children.
_hash_children(children) == [node |-> children]

\* The loops end at the first level that has one node.
Top(level) ==
    CHOOSE k \in DOMAIN level : Size(level[k]) = 1 /\ \A m \in 0..k - 1 : Size(level[m]) # 1

\* The positions above i, level by level.
Ancestors(i, arity, height) ==
    LET idx[k \in 0..height] == IF k = 0 THEN i ELSE idx[k - 1] \div arity
    IN  idx

(* --------------------------- binary trees ------------------------------ *)

\* The level above; the last node of an odd level is paired with itself.
PairUp(level) ==
    LET n == Size(level)
    IN  [i \in 0..CeilDiv(n, 2) - 1 |->
            _hash_children(<<level[2 * i], level[Least(2 * i + 1, n - 1)]>>)]

LevelsOver(leaves) ==
    LET level[k \in 0..Size(leaves)] == IF k = 0 THEN leaves ELSE PairUp(level[k - 1])
    IN  level

build_levels(leaves) ==
    LET level == LevelsOver(leaves)
    IN  [k \in 1..Top(level) + 1 |-> level[k - 1]]

root_from_levels(levels) == Last(levels)[0]

\* The position hashed together with i: its neighbour, or i at an odd end.
Beside(i, n) == IF i % 2 = 0 THEN Least(i + 1, n - 1) ELSE i - 1

prove(levels, index) ==
    LET idx == Ancestors(index, 2, Len(levels) - 1)
    IN  [k \in 1..Len(levels) - 1 |-> levels[k][Beside(idx[k - 1], Size(levels[k]))]]

PairStep(acc, idx, sibling) ==
    IF idx % 2 = 0 THEN _hash_children(<<acc, sibling>>) ELSE _hash_children(<<sibling, acc>>)

\* The verifier's node, level by level.
PairClimb(leaf, index, path) ==
    LET idx == Ancestors(index, 2, Len(path))
        at[k \in 0..Len(path)] ==
            IF k = 0 THEN leaf ELSE PairStep(at[k - 1], idx[k - 1], path[k])
    IN  at

verify(root, leaf, index, path) == root = PairClimb(leaf, index, path)[Len(path)]

(* --------------------------- trees of any arity ------------------------ *)

\* The positions hashed together with position i of a level of n nodes: a
\* group that reaches past the end repeats the last node.
Group(i, arity, n) ==
    [o \in 1..arity |-> Least((i \div arity) * arity + o - 1, n - 1)]

\* The level above; a last node that is alone in its group is not hashed.
GroupUp(level, arity) ==
    LET n == Size(level)
    IN  [i \in 0..CeilDiv(n, arity) - 1 |->
            IF i * arity = n - 1 THEN level[n - 1]
            ELSE _hash_children([o \in 1..arity |-> level[Group(i * arity, arity, n)[o]]])]

KaryLevelsOver(leaves, arity) ==
    LET level[k \in 0..Size(leaves)] ==
            IF k = 0 THEN leaves ELSE GroupUp(level[k - 1], arity)
    IN  level

build_kary_levels(leaves, arity) ==
    LET level == KaryLevelsOver(leaves, arity)
    IN  [k \in 1..Top(level) + 1 |-> level[k - 1]]

\* The places of i's group that hold another node, and how many of them there
\* are up to place o: the siblings of a level are listed in this order.
Others(i, arity, n) == {o \in 1..arity : Group(i, arity, n)[o] # i}
Rank(places, o) == Cardinality({q \in places : q <= o})
PlaceOf(places, j) == CHOOSE o \in places : Rank(places, o) = j

SiblingsOf(level, i, arity) ==
    LET Theirs == Others(i, arity, Size(level))
    IN  [j \in 1..Cardinality(Theirs) |->
            level[Group(i, arity, Size(level))[PlaceOf(Theirs, j)]]]

prove_kary(levels, index, arity) ==
    LET idx == Ancestors(index, arity, Len(levels) - 1)
    IN  [k \in 1..Len(levels) - 1 |-> SiblingsOf(levels[k], idx[k - 1], arity)]

\* One turn of the verifier's loop: the group is rebuilt from the own node and
\* the siblings in order; without siblings the node is carried up as it is.
ClimbStep(at, siblings, arity) ==
    LET Theirs == Others(at.idx, arity, at.size)
    IN  [acc |-> IF Len(siblings) = 0 THEN at.acc
                 ELSE _hash_children([o \in 1..arity |->
                        IF o \in Theirs THEN siblings[Rank(Theirs, o)] ELSE at.acc]),
         idx |-> at.idx \div arity,
         size |-> CeilDiv(at.size, arity)]

Climb(leaf, index, proof, arity, total_leaves) ==
    LET at[k \in 0..Len(proof)] ==
            IF k = 0 THEN [acc |-> leaf, idx |-> index, size |-> total_leaves]
            ELSE ClimbStep(at[k - 1], proof[k], arity)
    IN  at

\* A level with too few or too many siblings is refused.
verify_kary(root, leaf, index, proof, arity, total_leaves) ==
    LET at == Climb(leaf, index, proof, arity, total_leaves)
    IN  /\ index \in 0..total_leaves - 1
        /\ \A k \in 1..Len(proof) :
              Len(proof[k]) = Cardinality(Others(at[k - 1].idx, arity, at[k - 1].size))
        /\ root = at[Len(proof)].acc

(* --------------------------- several leaves ---------------------------- *)

\* The places of the groups that hold these nodes.
GroupPlaces(nodes, arity) ==
    UNION {(i \div arity) * arity .. (i \div arity) * arity + arity - 1 : i \in nodes}

\* Those of them that need a sibling: places past the end repeat the last node.
Asked(nodes, arity, n) == {p \in GroupPlaces(nodes, arity) : Least(p, n - 1) \notin nodes}

multiproof(levels, indices, arity) ==
    [tree_size |-> Size(levels[1]), arity |-> arity,
     sibling_levels |->
        [k \in 1..Len(levels) - 1 |->
            LET A == Asked({Ancestors(i, arity, Len(levels) - 1)[k - 1] : i \in indices},
                           arity, Size(levels[k]))
            IN  [j \in 1..Cardinality(A) |->
                    levels[k][Least(PlaceOf(A, j), Size(levels[k]) - 1)]]]]

\* The nodes above those at hand. Unlike GroupUp it hashes every group, one
\* with a single node too.
NodesAbove(nodes, siblings, arity, n) ==
    LET A == Asked(DOMAIN nodes, arity, n)
        Child(p) == IF p \in A THEN siblings[Rank(A, p)] ELSE nodes[Least(p, n - 1)]
    IN  [i \in {j \div arity : j \in DOMAIN nodes} |->
            _hash_children([o \in 1..arity |-> Child(i * arity + o - 1)])]

\* A level with too few or too many siblings leaves no nodes.
ClimbTogether(leaves, proof) ==
    LET at[k \in 0..Len(proof.sibling_levels)] ==
            IF k = 0 THEN [nodes |-> leaves, size |-> proof.tree_size]
            ELSE LET nodes == at[k - 1].nodes
                     n == at[k - 1].size
                     siblings == proof.sibling_levels[k]
                     A == Asked(DOMAIN nodes, proof.arity, n)
                 IN  [nodes |-> IF Len(siblings) # Cardinality(A) THEN <<>>
                                ELSE NodesAbove(nodes, siblings, proof.arity, n),
                      size |-> CeilDiv(n, proof.arity)]
    IN  at

\* leaf_hashes is a function of the opened indices.
verify_multiproof(root, leaf_hashes, proof) ==
    LET top == ClimbTogether(leaf_hashes, proof)[Len(proof.sibling_levels)].nodes
    IN  0 \in DOMAIN top /\ top[0] = root
=============================================================================
