------------------------ MODULE TraceCommitmentProofs ------------------------
(***************************************************************************)
(* Theorems about the trees of MerkleTree and the batches of               *)
(* TraceCommitment, for trees of any size and arity. A digest is the term  *)
(* that was hashed, so two trees of the same size with one root are equal  *)
(* from the root down, and a path is right or wrong level by level on the  *)
(* way up. The binary trees come first, then the trees of any arity, then  *)
(* the openings of several leaves: which leaves they verify with, and when *)
(* the opener's own verifies. Paths and openings that the opener has not   *)
(* made come last.                                                         *)
(***************************************************************************)
EXTENDS TraceCommitment, FiniteSetTheorems, SequenceTheorems, TLAPS

(* -------------------------- natural numbers --------------------------- *)

\* A set of natural numbers that is not empty has a least element.
LEMMA LeastNatural ==
  ASSUME NEW T, T \subseteq Nat, T # {}
  PROVE  \E x \in T : \A y \in T : x <= y
<1>1. PICK x \in T : \A y \in T : <<y, x>> \notin OpToRel(<, Nat)
  BY NatLessThanWellFounded, WFMin
<1>2. \A y \in T : x \in Nat /\ y \in Nat /\ ~ (y < x)
  BY <1>1 DEF OpToRel
<1> QED BY <1>2

\* Induction over the natural numbers, for a set.
LEMMA SetInduction ==
  ASSUME NEW S, 0 \in S, \A n \in Nat : n \in S => n + 1 \in S
  PROVE  Nat \subseteq S
<1> SUFFICES ASSUME Nat \ S # {} PROVE FALSE
  OBVIOUS
<1>1. PICK x \in Nat \ S : \A y \in Nat \ S : x <= y
  BY LeastNatural
<1>2. x # 0 /\ x - 1 \in Nat /\ x - 1 \in S
  BY <1>1
<1> QED BY <1>1, <1>2

\* The elements of an interval from 0 are counted by its end.
LEMMA SizeOfLevel ==
  ASSUME NEW level, NEW n \in Nat, DOMAIN level = 0..n - 1
  PROVE  Size(level) = n
<1>1. Cardinality(0..n - 1) = IF 0 > n - 1 THEN 0 ELSE n - 1 - 0 + 1
  BY FS_Interval
<1> QED BY <1>1 DEF Size

\* Quotient and remainder.
LEMMA Quotient ==
  ASSUME NEW i \in Nat, NEW a \in Nat \ {0}
  PROVE  /\ i \div a \in Nat /\ i % a \in 0..a - 1
         /\ i = (i \div a) * a + (i % a)
         /\ (i \div a) * a \in Nat
         /\ (i \div a) * a <= i
OBVIOUS

\* The group that contains i is the only one.
LEMMA QuotientUnique ==
  ASSUME NEW i \in Nat, NEW a \in Nat \ {0}, NEW q \in Nat, NEW r \in 0..a - 1, i = q * a + r
  PROVE  i \div a = q /\ i % a = r
OBVIOUS

\* The size of the level above, never zero: smaller as long as there is more
\* than one node.
LEMMA LevelAbove ==
  ASSUME NEW n \in Nat \ {0}, NEW a \in Nat \ {0, 1}
  PROVE  /\ CeilDiv(n, a) \in Nat \ {0}
         /\ n # 1 => CeilDiv(n, a) < n
         /\ n = 1 => CeilDiv(n, a) = 1
BY DEF CeilDiv

\* A node of a level lies below a node of the level above.
LEMMA ParentInLevel ==
  ASSUME NEW n \in Nat \ {0}, NEW a \in Nat \ {0, 1}, NEW i \in 0..n - 1
  PROVE  i \div a \in 0..CeilDiv(n, a) - 1
BY DEF CeilDiv

(* ---------------------------- the levels ------------------------------ *)

SingleFirstAt(level, t) == \A m \in 0..t - 1 : Size(level[m]) # 1

\* Levels that shrink by their arity reach a single node, and Top is the
\* first that has one.
LEMMA TopReached ==
  ASSUME NEW n \in Nat \ {0}, NEW a \in Nat \ {0, 1}, NEW level,
         DOMAIN level = 0..n, Size(level[0]) = n,
         \A k \in 1..n : Size(level[k]) = CeilDiv(Size(level[k - 1]), a)
  PROVE  /\ Top(level) \in 0..n
         /\ Size(level[Top(level)]) = 1
         /\ SingleFirstAt(level, Top(level))
         /\ \A k \in 0..n : Size(level[k]) \in Nat \ {0}
<1> DEFINE size == [k \in 0..n |-> Size(level[k])]
           Shrinks == {k \in Nat : k <= n => /\ size[k] \in Nat \ {0}
                                             /\ size[k] = 1 \/ size[k] <= n - k}
           Single == {k \in 0..n : Size(level[k]) = 1}
<1>1. \A k \in 1..n : size[k] = CeilDiv(size[k - 1], a)
  OBVIOUS
<1>2. size[0] = n
  OBVIOUS
<1>3. \A k \in 0..n : size[k] = Size(level[k])
  OBVIOUS
<1> HIDE DEF size
<1>4. 0 \in Shrinks
  BY <1>2
<1>5. ASSUME NEW k \in Nat, k \in Shrinks
      PROVE  k + 1 \in Shrinks
  <2> SUFFICES ASSUME k + 1 <= n PROVE /\ size[k + 1] \in Nat \ {0}
                                       /\ size[k + 1] = 1 \/ size[k + 1] <= n - (k + 1)
    OBVIOUS
  <2>1. size[k] \in Nat \ {0} /\ (size[k] = 1 \/ size[k] <= n - k)
    BY <1>5
  <2>2. size[k + 1] = CeilDiv(size[k], a)
    <3> k + 1 \in 1..n /\ (k + 1) - 1 = k
      OBVIOUS
    <3> QED BY <1>1
  <2>3. /\ CeilDiv(size[k], a) \in Nat \ {0}
        /\ size[k] # 1 => CeilDiv(size[k], a) < size[k]
        /\ size[k] = 1 => CeilDiv(size[k], a) = 1
    BY <2>1, LevelAbove
  <2> QED BY <2>1, <2>2, <2>3
<1>6. Nat \subseteq Shrinks
  <2> HIDE DEF Shrinks
  <2> QED BY <1>4, <1>5, SetInduction
<1>7. \A k \in 0..n : size[k] \in Nat \ {0}
  BY <1>6
<1>8. n \in Single
  <2>1. n \in Nat /\ n \in Shrinks
    BY <1>6
  <2> QED BY <2>1, <1>3
<1>9. PICK k \in Single : \A m \in Single : k <= m
  <2>1. Single \subseteq Nat
    OBVIOUS
  <2> HIDE DEF Single
  <2> QED BY <1>8, <2>1, LeastNatural
<1>10. \A m \in 0..k - 1 : Size(level[m]) # 1
  <2> SUFFICES ASSUME NEW m \in 0..k - 1, Size(level[m]) = 1 PROVE FALSE
    OBVIOUS
  <2> m \in Single
    OBVIOUS
  <2> QED BY <1>9
<1>11. \E t \in DOMAIN level : Size(level[t]) = 1 /\ \A m \in 0..t - 1 : Size(level[m]) # 1
  BY <1>10
<1>12. /\ Top(level) \in DOMAIN level
       /\ Size(level[Top(level)]) = 1 /\ \A m \in 0..Top(level) - 1 : Size(level[m]) # 1
  BY <1>11 DEF Top
<1> QED BY <1>3, <1>7, <1>12 DEF SingleFirstAt

\* The top of two trees whose levels have the same sizes is the same.
LEMMA SameTop ==
  ASSUME NEW n \in Nat, NEW one, NEW other, DOMAIN one = 0..n, DOMAIN other = 0..n,
         \A k \in 0..n : Size(one[k]) = Size(other[k])
  PROVE  Top(one) = Top(other)
<1>1. \A k \in 0..n : (Size(one[k]) = 1 /\ \A m \in 0..k - 1 : Size(one[m]) # 1)
        <=> (Size(other[k]) = 1 /\ \A m \in 0..k - 1 : Size(other[m]) # 1)
  OBVIOUS
<1> QED BY <1>1 DEF Top

(* --------------------------- binary trees ----------------------------- *)

\* The recursion of LevelsOver, level by level.
LEMMA LevelsUnfold ==
  ASSUME NEW leaves, Size(leaves) \in Nat
  PROVE  /\ DOMAIN LevelsOver(leaves) = 0..Size(leaves)
         /\ LevelsOver(leaves)[0] = leaves
         /\ \A k \in 1..Size(leaves) : LevelsOver(leaves)[k] = PairUp(LevelsOver(leaves)[k - 1])
<1> DEFINE n == Size(leaves)
           Up(g, d) == [k \in 0..d |-> IF k = 0 THEN leaves ELSE PairUp(g[k - 1])]
           Built == {d \in Nat : \E g : g = Up(g, d)}
<1>1. 0 \in Built
  <2> DEFINE g == [k \in 0..0 |-> leaves]
  <2>1. g = Up(g, 0)
    OBVIOUS
  <2> QED BY <2>1
<1>2. ASSUME NEW d \in Nat, d \in Built
      PROVE  d + 1 \in Built
  <2>1. PICK g : g = Up(g, d)
    BY <1>2
  <2> DEFINE h == Up(g, d + 1)
  <2>2. \A k \in 0..d : h[k] = g[k]
    BY <2>1
  <2>3. h = Up(h, d + 1)
    <3>1. \A k \in 0..d + 1 : k # 0 => k - 1 \in 0..d
      OBVIOUS
    <3> QED BY <2>2, <3>1
  <2> HIDE DEF h
  <2> QED BY <2>3
<1>3. PICK g : g = Up(g, n)
  <2>1. n \in Built
    <3> HIDE DEF Built
    <3> QED BY <1>1, <1>2, SetInduction
  <2> QED BY <2>1
<1>4. LevelsOver(leaves) = Up(LevelsOver(leaves), n)
  BY <1>3 DEF LevelsOver
<1> HIDE DEF n
<1>5. n \in Nat /\ n = Size(leaves)
  BY DEF n
<1> QED BY <1>4, <1>5

\* A level of n nodes.
Level(level, n) ==
    /\ DOMAIN level = 0..n - 1
    /\ level = [i \in DOMAIN level |-> level[i]]

LEMMA LevelSize ==
  ASSUME NEW level, NEW n \in Nat, Level(level, n)
  PROVE  DOMAIN level = 0..n - 1 /\ Size(level) = n
BY SizeOfLevel DEF Level

LEMMA SameLevel ==
  ASSUME NEW n \in Nat, NEW one, NEW other, Level(one, n), Level(other, n),
         \A i \in 0..n - 1 : one[i] = other[i]
  PROVE  one = other
BY DEF Level

LEMMA PairUpLevel ==
  ASSUME NEW level, NEW n \in Nat \ {0}, Level(level, n)
  PROVE  /\ CeilDiv(n, 2) \in Nat \ {0} /\ Size(PairUp(level)) = CeilDiv(n, 2)
         /\ Level(PairUp(level), CeilDiv(n, 2))
<1>1. Size(level) = n
  BY LevelSize
<1>2. CeilDiv(n, 2) \in Nat \ {0}
  BY DEF CeilDiv
<1>3. Level(PairUp(level), CeilDiv(n, 2))
  BY <1>1, <1>2 DEF PairUp, Level
<1> QED BY <1>2, <1>3, LevelSize

\* The levels of a tree with leaves are not empty, and the first with a
\* single node is found.
LEMMA LevelsShape ==
  ASSUME NEW leaves, NEW n \in Nat \ {0}, Level(leaves, n)
  PROVE  LET level == LevelsOver(leaves)
         IN  /\ DOMAIN level = 0..n /\ level[0] = leaves
             /\ \A k \in 1..n : level[k] = PairUp(level[k - 1])
             /\ \A k \in 0..n : /\ Size(level[k]) \in Nat \ {0}
                                  /\ Level(level[k], Size(level[k]))
             /\ Top(level) \in 0..n /\ Size(level[Top(level)]) = 1
<1> DEFINE level == LevelsOver(leaves)
           Whole == {k \in Nat : k <= n => \E m \in Nat \ {0} : Level(level[k], m)}
<1>1. Size(leaves) = n
  BY LevelSize
<1>2. /\ DOMAIN level = 0..n /\ level[0] = leaves
      /\ \A k \in 1..n : level[k] = PairUp(level[k - 1])
  BY <1>1, LevelsUnfold
<1> HIDE DEF level
<1>3. 0 \in Whole
  BY <1>2
<1>4. ASSUME NEW k \in Nat, k \in Whole
      PROVE  k + 1 \in Whole
  <2> SUFFICES ASSUME k + 1 <= n
               PROVE  \E m \in Nat \ {0} : Level(level[k + 1], m)
    OBVIOUS
  <2>1. PICK m \in Nat \ {0} : Level(level[k], m)
    BY <1>4
  <2>2. level[k + 1] = PairUp(level[k])
    <3> k + 1 \in 1..n /\ (k + 1) - 1 = k
      OBVIOUS
    <3> QED BY <1>2
  <2> QED BY <2>1, <2>2, PairUpLevel
<1>5. \A k \in Nat : k \in Whole
  <2> HIDE DEF Whole
  <2> QED BY <1>3, <1>4, SetInduction
<1>6. ASSUME NEW k \in 0..n
      PROVE  Size(level[k]) \in Nat \ {0} /\ Level(level[k], Size(level[k]))
  <2>1. PICK m \in Nat \ {0} : Level(level[k], m)
    BY <1>5
  <2> QED BY <2>1, LevelSize
<1>7. \A k \in 1..n : Size(level[k]) = CeilDiv(Size(level[k - 1]), 2)
  <2> TAKE k \in 1..n
  <2> k - 1 \in 0..n
    OBVIOUS
  <2> QED BY <1>2, <1>6, PairUpLevel
<1>8. Top(level) \in 0..n /\ Size(level[Top(level)]) = 1
  <2>1. PICK a \in Nat \ {0, 1} : a = 2
    OBVIOUS
  <2>2. Size(level[0]) = n /\ \A k \in 1..n : Size(level[k]) = CeilDiv(Size(level[k - 1]), a)
    BY <1>1, <1>2, <1>7, <2>1
  <2> QED BY <1>2, <2>2, TopReached
<1> QED BY <1>2, <1>6, <1>8 DEF level

\* The level above determines a level of known size.
LEMMA PairUpInjective ==
  ASSUME NEW one, NEW other, NEW n \in Nat \ {0}, Level(one, n), Level(other, n),
         PairUp(one) = PairUp(other)
  PROVE  one = other
<1>1. Size(one) = n /\ Size(other) = n
  BY LevelSize
<1> SUFFICES ASSUME NEW i \in 0..n - 1 PROVE one[i] = other[i]
  BY SameLevel
<1> DEFINE h == i \div 2
           left == 2 * h
           right == Least(2 * h + 1, n - 1)
<1>2. h \in 0..CeilDiv(n, 2) - 1
  BY DEF CeilDiv
<1>3. i = left \/ i = right
  BY DEF Least
<1>4. <<one[left], one[right]>> = <<other[left], other[right]>>
  <2>1. PairUp(one)[h] = _hash_children(<<one[left], one[right]>>)
    BY <1>1, <1>2 DEF PairUp
  <2>2. PairUp(other)[h] = _hash_children(<<other[left], other[right]>>)
    BY <1>1, <1>2 DEF PairUp
  <2> HIDE DEF left, right
  <2>3. _hash_children(<<one[left], one[right]>>).node
            = _hash_children(<<other[left], other[right]>>).node
    BY <2>1, <2>2
  <2> QED BY <2>3 DEF _hash_children
<1> HIDE DEF left, right
<1> QED BY <1>3, <1>4

\* The root of a binary tree is that of its first level with one node.
LEMMA RootOfLevels ==
  ASSUME NEW leaves, NEW n \in Nat \ {0}, Level(leaves, n)
  PROVE  root_from_levels(build_levels(leaves)) = LevelsOver(leaves)[Top(LevelsOver(leaves))][0]
<1> DEFINE level == LevelsOver(leaves)
           T == Top(level)
           levels == [k \in 1..T + 1 |-> level[k - 1]]
<1>1. T \in Nat
  BY LevelsShape
<1>2. build_levels(leaves) = levels
  BY DEF build_levels
<1> HIDE DEF T, level
<1>3. Len(levels) = T + 1 /\ levels[T + 1] = level[T]
  BY <1>1
<1> QED BY <1>2, <1>3 DEF root_from_levels, Last, T, level

\* Two binary trees of the same size with the same root have the same leaves.
THEOREM TreeBinds ==
  ASSUME NEW n \in Nat \ {0}, NEW leaves, NEW others, Level(leaves, n), Level(others, n),
         root_from_levels(build_levels(leaves)) = root_from_levels(build_levels(others))
  PROVE  leaves = others
<1> DEFINE one == LevelsOver(leaves)
           two == LevelsOver(others)
           T == Top(one)
           Same == {d \in Nat : d <= T => one[T - d] = two[T - d]}
<1>1. /\ DOMAIN one = 0..n /\ one[0] = leaves
      /\ \A k \in 1..n : one[k] = PairUp(one[k - 1])
      /\ \A k \in 0..n : Size(one[k]) \in Nat \ {0} /\ Level(one[k], Size(one[k]))
      /\ T \in 0..n /\ Size(one[T]) = 1
  BY LevelsShape
<1>2. /\ DOMAIN two = 0..n /\ two[0] = others
      /\ \A k \in 1..n : two[k] = PairUp(two[k - 1])
      /\ \A k \in 0..n : Size(two[k]) \in Nat \ {0} /\ Level(two[k], Size(two[k]))
  BY LevelsShape
<1>3. one[T][0] = two[Top(two)][0]
  BY RootOfLevels
<1> HIDE DEF one, two
<1>4. \A k \in 0..n : Size(one[k]) = Size(two[k])
  <2> DEFINE Alike == {k \in Nat : k <= n => Size(one[k]) = Size(two[k])}
  <2>1. 0 \in Alike
    BY <1>1, <1>2, LevelSize
  <2>2. ASSUME NEW k \in Nat, k \in Alike PROVE k + 1 \in Alike
    <3> SUFFICES ASSUME k + 1 <= n PROVE Size(one[k + 1]) = Size(two[k + 1])
      OBVIOUS
    <3>1. k \in 0..n /\ k + 1 \in 1..n /\ (k + 1) - 1 = k /\ Size(one[k]) = Size(two[k])
      BY <2>2
    <3>2. one[k + 1] = PairUp(one[k]) /\ two[k + 1] = PairUp(two[k])
      BY <1>1, <1>2, <3>1
    <3>3. /\ Size(one[k]) \in Nat \ {0} /\ Level(one[k], Size(one[k]))
          /\ Size(two[k]) \in Nat \ {0} /\ Level(two[k], Size(two[k]))
      BY <1>1, <1>2, <3>1
    <3> QED BY <3>1, <3>2, <3>3, PairUpLevel
  <2>3. \A k \in Nat : k \in Alike
    <3> HIDE DEF Alike
    <3> QED BY <2>1, <2>2, SetInduction
  <2> QED BY <2>3
<1>5. T = Top(two)
  <2>1. DOMAIN one = 0..n /\ DOMAIN two = 0..n
    BY <1>1, <1>2
  <2> QED BY <2>1, <1>4, SameTop
<1> HIDE DEF T
<1>6. one[T] = two[T]
  <2>1. one[T][0] = two[T][0] /\ Level(one[T], 1) /\ Level(two[T], 1)
    BY <1>1, <1>2, <1>3, <1>4, <1>5
  <2>2. \A i \in 0..1 - 1 : one[T][i] = two[T][i]
    BY <2>1
  <2> QED BY <2>1, <2>2, SameLevel
<1>7. 0 \in Same
  BY <1>1, <1>6
<1>8. ASSUME NEW d \in Nat, d \in Same
      PROVE  d + 1 \in Same
  <2> SUFFICES ASSUME d + 1 <= T PROVE one[T - (d + 1)] = two[T - (d + 1)]
    OBVIOUS
  <2>1. PICK k \in 1..n : k = T - d /\ k - 1 \in 0..n /\ T - (d + 1) = k - 1
    BY <1>1
  <2>2. one[k] = two[k]
    BY <1>8, <1>1, <2>1
  <2>3. PairUp(one[k - 1]) = PairUp(two[k - 1])
    BY <1>1, <1>2, <2>2
  <2>4. one[k - 1] = two[k - 1]
    BY <1>1, <1>2, <1>4, <2>1, <2>3, PairUpInjective
  <2> QED BY <2>1, <2>4
<1>9. \A d \in Nat : d \in Same
  <2> HIDE DEF Same
  <2> QED BY <1>7, <1>8, SetInduction
<1>10. one[T - T] = two[T - T]
  BY <1>1, <1>9
<1> QED BY <1>1, <1>2, <1>10

\* The recursion of Ancestors.
LEMMA AncestorsUnfold ==
  ASSUME NEW i, NEW arity, NEW height \in Nat
  PROVE  LET idx == Ancestors(i, arity, height)
         IN  /\ DOMAIN idx = 0..height /\ idx[0] = i
             /\ \A k \in 1..height : idx[k] = idx[k - 1] \div arity
<1> DEFINE Up(g, d) == [k \in 0..d |-> IF k = 0 THEN i ELSE g[k - 1] \div arity]
           Built == {d \in Nat : \E g : g = Up(g, d)}
<1>1. 0 \in Built
  <2> DEFINE h == Up([k \in 0..0 |-> 0], 0)
  <2>1. h = Up(h, 0)
    OBVIOUS
  <2> HIDE DEF h
  <2> QED BY <2>1
<1>2. ASSUME NEW d \in Nat, d \in Built
      PROVE  d + 1 \in Built
  <2>1. PICK g : g = Up(g, d)
    BY <1>2
  <2> DEFINE h == Up(g, d + 1)
  <2>2. \A k \in 0..d : h[k] = g[k]
    BY <2>1
  <2>3. h = Up(h, d + 1)
    <3>1. \A k \in 0..d + 1 : k # 0 => k - 1 \in 0..d
      OBVIOUS
    <3> QED BY <2>2, <3>1
  <2> HIDE DEF h
  <2> QED BY <2>3
<1>3. \A d \in Nat : d \in Built
  <2> HIDE DEF Built
  <2> QED BY <1>1, <1>2, SetInduction
<1>4. PICK g : g = Up(g, height)
  BY <1>3
<1>5. Ancestors(i, arity, height) = Up(Ancestors(i, arity, height), height)
  BY <1>4 DEF Ancestors
<1> QED BY <1>5

\* The loop of verify, turn by turn.
LEMMA PairClimbUnfold ==
  ASSUME NEW leaf, NEW index, NEW path, Len(path) \in Nat
  PROVE  LET at == PairClimb(leaf, index, path)
             idx == Ancestors(index, 2, Len(path))
         IN  /\ at[0] = leaf
             /\ \A k \in 1..Len(path) : at[k] = PairStep(at[k - 1], idx[k - 1], path[k])
<1> DEFINE idx == Ancestors(index, 2, Len(path))
           Up(g, d) == [k \in 0..d |-> IF k = 0 THEN leaf
                                       ELSE PairStep(g[k - 1], idx[k - 1], path[k])]
           Built == {d \in Nat : \E g : g = Up(g, d)}
<1>1. PairClimb(leaf, index, path) = CHOOSE g : g = Up(g, Len(path))
  BY Zenon DEF PairClimb
<1>2. 0 \in Built
  <2> DEFINE h == Up([k \in 0..0 |-> 0], 0)
  <2>1. h = Up(h, 0)
    OBVIOUS
  <2> HIDE DEF h
  <2> QED BY <2>1
<1>3. ASSUME NEW d \in Nat, d \in Built
      PROVE  d + 1 \in Built
  <2>1. PICK g : g = Up(g, d)
    BY <1>3
  <2> DEFINE h == Up(g, d + 1)
  <2>2. \A k \in 0..d : h[k] = g[k]
    BY <2>1
  <2>3. h = Up(h, d + 1)
    <3>1. \A k \in 0..d + 1 : k # 0 => k - 1 \in 0..d
      OBVIOUS
    <3> QED BY <2>2, <3>1
  <2> HIDE DEF h
  <2> QED BY <2>3
<1>4. \A d \in Nat : d \in Built
  <2> HIDE DEF Built
  <2> QED BY <1>2, <1>3, SetInduction
<1>5. PICK g : g = Up(g, Len(path))
  BY <1>4
<1>6. PairClimb(leaf, index, path) = Up(PairClimb(leaf, index, path), Len(path))
  BY <1>1, <1>5
<1> QED BY <1>6

\* With the sibling at its side, a node leads to its parent, and another
\* value in its place does not.
LEMMA PairBinds ==
  ASSUME NEW level, NEW n \in Nat \ {0}, Level(level, n)
  PROVE  \A i \in 0..n - 1 :
            /\ i \div 2 \in 0..Size(PairUp(level)) - 1
            /\ \A x : PairStep(x, i, level[Beside(i, n)]) = PairUp(level)[i \div 2]
                         <=> x = level[i]
<1> SUFFICES ASSUME NEW i \in 0..n - 1, NEW x
             PROVE  /\ i \div 2 \in 0..Size(PairUp(level)) - 1
                    /\ PairStep(x, i, level[Beside(i, n)]) = PairUp(level)[i \div 2]
                          <=> x = level[i]
  BY Zenon
<1> DEFINE h == i \div 2
           sibling == level[Beside(i, n)]
           left == 2 * h
           right == Least(2 * h + 1, n - 1)
<1>1. h \in Nat /\ h \in 0..CeilDiv(n, 2) - 1
  BY DEF CeilDiv
<1>2. PairUp(level)[h] = [node |-> <<level[left], level[right]>>]
  BY <1>1, LevelSize DEF PairUp, _hash_children
<1>5. Size(PairUp(level)) = CeilDiv(n, 2)
  BY PairUpLevel
<1>3. CASE i % 2 = 0
  <2>1. i = left /\ Beside(i, n) = right
    BY <1>3 DEF Beside
  <2> DEFINE y == level[left]
             z == level[right]
  <2>2. [node |-> <<x, z>>] = [node |-> <<y, z>>] <=> x = y
    <3> HIDE DEF y, z
    <3>1. [node |-> <<x, z>>] = [node |-> <<y, z>>] => <<x, z>> = <<y, z>>
      OBVIOUS
    <3>2. <<x, z>> = <<y, z>> => x = y
      OBVIOUS
    <3> QED BY <3>1, <3>2
  <2> HIDE DEF right, h
  <2> QED BY <1>1, <1>2, <1>3, <1>5, <2>1, <2>2 DEF PairStep, _hash_children, h
<1>4. CASE i % 2 # 0
  <2>1. i = 2 * h + 1 /\ right = i /\ Beside(i, n) = left
    BY <1>4 DEF Beside, Least
  <2> DEFINE y == level[left]
             z == level[i]
  <2>2. [node |-> <<y, x>>] = [node |-> <<y, z>>] <=> x = z
    <3> HIDE DEF y, z
    <3>1. [node |-> <<y, x>>] = [node |-> <<y, z>>] => <<y, x>> = <<y, z>>
      OBVIOUS
    <3>2. <<y, x>> = <<y, z>> => x = z
      OBVIOUS
    <3> QED BY <3>1, <3>2
  <2> HIDE DEF right, h
  <2> QED BY <1>1, <1>2, <1>4, <1>5, <2>1, <2>2 DEF PairStep, _hash_children, h
<1> QED BY <1>3, <1>4

\* The path of leaf i verifies with that leaf and with no other.
THEOREM PathBinds ==
  ASSUME NEW leaves, NEW n \in Nat \ {0}, Level(leaves, n), NEW i \in 0..n - 1, NEW leaf
  PROVE  LET levels == build_levels(leaves)
         IN  verify(root_from_levels(levels), leaf, i, prove(levels, i)) <=> leaf = leaves[i]
<1> DEFINE level == LevelsOver(leaves)
           T == Top(level)
           levels == build_levels(leaves)
           path == prove(levels, i)
           idx == Ancestors(i, 2, T)
           at == PairClimb(leaf, i, path)
           OnPath(k) == /\ idx[k] \in 0..Size(level[k]) - 1
                        /\ at[k] = level[k][idx[k]] <=> leaf = leaves[i]
           Up == {k \in Nat : k <= T => OnPath(k)}
<1>1. /\ level[0] = leaves
      /\ \A k \in 1..n : level[k] = PairUp(level[k - 1])
      /\ \A k \in 0..n : Size(level[k]) \in Nat \ {0} /\ Level(level[k], Size(level[k]))
      /\ T \in 0..n /\ Size(level[T]) = 1
  BY LevelsShape
<1>2. root_from_levels(levels) = level[T][0]
  BY RootOfLevels
<1>3. Len(levels) - 1 = T /\ \A k \in 1..T : levels[k] = level[k - 1]
  <2>1. levels = [k \in 1..T + 1 |-> level[k - 1]]
    BY DEF build_levels
  <2>2. T \in Nat
    BY <1>1
  <2> HIDE DEF T, level, levels
  <2> QED BY <2>1, <2>2
<1>4. path = [k \in 1..T |-> levels[k][Beside(idx[k - 1], Size(levels[k]))]]
  BY <1>3 DEF prove
<1>5. idx[0] = i /\ \A k \in 1..T : idx[k] = idx[k - 1] \div 2
  <2> T \in Nat
    BY <1>1
  <2> HIDE DEF T
  <2> QED BY AncestorsUnfold
<1>6. Len(path) = T
  <2> T \in Nat
    BY <1>1
  <2> HIDE DEF T, path, levels, idx
  <2> QED BY <1>4
<1>7. /\ at[0] = leaf
      /\ \A k \in 1..T : at[k] = PairStep(at[k - 1], idx[k - 1], path[k])
  <2> T \in Nat
    BY <1>1
  <2> HIDE DEF T, path
  <2> QED BY <1>6, PairClimbUnfold
<1> HIDE DEF level, T, levels, path, idx, at
<1>8. 0 \in Up
  BY <1>1, <1>5, <1>7, LevelSize
<1>9. ASSUME NEW k \in Nat, k \in Up
      PROVE  k + 1 \in Up
  <2> SUFFICES ASSUME k + 1 <= T PROVE OnPath(k + 1)
    OBVIOUS
  <2>1. k \in 0..n /\ k + 1 \in 1..T /\ k + 1 \in 1..n /\ (k + 1) - 1 = k
    BY <1>1
  <2>2. OnPath(k)
    BY <1>9, <1>1
  <2> DEFINE m == Size(level[k])
  <2>3. m \in Nat \ {0} /\ Level(level[k], m) /\ level[k + 1] = PairUp(level[k])
    BY <1>1, <2>1
  <2>4. path[k + 1] = level[k][Beside(idx[k], m)]
    BY <1>3, <1>4, <2>1
  <2>5. /\ idx[k + 1] = idx[k] \div 2
        /\ at[k + 1] = PairStep(at[k], idx[k], path[k + 1])
    BY <1>5, <1>7, <2>1
  <2> HIDE DEF m
  <2>6. idx[k] \in 0..m - 1
    BY <2>2 DEF m
  <2>7. /\ idx[k + 1] \in 0..Size(PairUp(level[k])) - 1
        /\ PairStep(at[k], idx[k], path[k + 1]) = PairUp(level[k])[idx[k + 1]]
              <=> at[k] = level[k][idx[k]]
    <3>1. \A j \in 0..m - 1 :
            /\ j \div 2 \in 0..Size(PairUp(level[k])) - 1
            /\ \A x : PairStep(x, j, level[k][Beside(j, m)]) = PairUp(level[k])[j \div 2]
                         <=> x = level[k][j]
      BY <2>3, PairBinds
    <3> QED BY <2>4, <2>5, <2>6, <3>1
  <2> QED BY <2>2, <2>3, <2>5, <2>7
<1>10. \A k \in Nat : k \in Up
  <2> HIDE DEF Up
  <2> QED BY <1>8, <1>9, SetInduction
<1>11. OnPath(T)
  BY <1>1, <1>10
<1>12. at[T] = level[T][0] <=> leaf = leaves[i]
  <2>1. idx[T] = 0
    BY <1>1, <1>11
  <2> QED BY <1>11, <2>1
<1>13. verify(root_from_levels(levels), leaf, i, path) <=> leaf = leaves[i]
  <2>1. verify(root_from_levels(levels), leaf, i, path) <=> root_from_levels(levels) = at[Len(path)]
    BY DEF verify, at
  <2> QED BY <1>2, <1>6, <1>12, <2>1
<1> QED BY <1>13 DEF levels, path

(* ------------------------ trees of any arity -------------------------- *)

\* The recursion of KaryLevelsOver, level by level.
LEMMA KaryLevelsUnfold ==
  ASSUME NEW leaves, NEW arity, NEW n \in Nat, Size(leaves) = n
  PROVE  LET level == KaryLevelsOver(leaves, arity)
         IN  /\ DOMAIN level = 0..n /\ level[0] = leaves
             /\ \A k \in 1..n : level[k] = GroupUp(level[k - 1], arity)
<1> DEFINE Up(g, d) == [k \in 0..d |-> IF k = 0 THEN leaves ELSE GroupUp(g[k - 1], arity)]
           Built == {d \in Nat : \E g : g = Up(g, d)}
<1>1. 0 \in Built
  <2> DEFINE h == Up([k \in 0..0 |-> 0], 0)
  <2>1. h = Up(h, 0)
    OBVIOUS
  <2> HIDE DEF h
  <2> QED BY <2>1
<1>2. ASSUME NEW d \in Nat, d \in Built
      PROVE  d + 1 \in Built
  <2>1. PICK g : g = Up(g, d)
    BY <1>2
  <2> DEFINE h == Up(g, d + 1)
  <2>2. \A k \in 0..d : h[k] = g[k]
    BY <2>1
  <2>3. h = Up(h, d + 1)
    <3>1. \A k \in 0..d + 1 : k # 0 => k - 1 \in 0..d
      OBVIOUS
    <3> QED BY <2>2, <3>1
  <2> HIDE DEF h
  <2> QED BY <2>3
<1>3. \A d \in Nat : d \in Built
  <2> HIDE DEF Built
  <2> QED BY <1>1, <1>2, SetInduction
<1>4. PICK g : g = Up(g, n)
  BY <1>3
<1>5. KaryLevelsOver(leaves, arity) = Up(KaryLevelsOver(leaves, arity), n)
  BY <1>4 DEF KaryLevelsOver
<1> QED BY <1>5

\* The loop of verify_kary, turn by turn.
LEMMA ClimbUnfold ==
  ASSUME NEW leaf, NEW index, NEW proof, NEW arity, NEW total_leaves, Len(proof) \in Nat
  PROVE  LET at == Climb(leaf, index, proof, arity, total_leaves)
         IN  /\ DOMAIN at = 0..Len(proof)
             /\ at[0] = [acc |-> leaf, idx |-> index, size |-> total_leaves]
             /\ \A k \in 1..Len(proof) : at[k] = ClimbStep(at[k - 1], proof[k], arity)
<1> DEFINE Up(g, d) == [k \in 0..d |-> IF k = 0 THEN [acc |-> leaf, idx |-> index, size |-> total_leaves]
                                   ELSE ClimbStep(g[k - 1], proof[k], arity)]
           Built == {d \in Nat : \E g : g = Up(g, d)}
<1>1. 0 \in Built
  <2> DEFINE h == Up([k \in 0..0 |-> 0], 0)
  <2>1. h = Up(h, 0)
    OBVIOUS
  <2> HIDE DEF h
  <2> QED BY <2>1
<1>2. ASSUME NEW d \in Nat, d \in Built
      PROVE  d + 1 \in Built
  <2>1. PICK g : g = Up(g, d)
    BY <1>2
  <2> DEFINE h == Up(g, d + 1)
  <2>2. \A k \in 0..d : h[k] = g[k]
    BY <2>1
  <2>3. h = Up(h, d + 1)
    <3>1. \A k \in 0..d + 1 : k # 0 => k - 1 \in 0..d
      OBVIOUS
    <3> QED BY <2>2, <3>1
  <2> HIDE DEF h
  <2> QED BY <2>3
<1>3. \A d \in Nat : d \in Built
  <2> HIDE DEF Built
  <2> QED BY <1>1, <1>2, SetInduction
<1>4. PICK g : g = Up(g, Len(proof))
  BY <1>3
<1>5. Climb(leaf, index, proof, arity, total_leaves) = Up(Climb(leaf, index, proof, arity, total_leaves), Len(proof))
  BY <1>4 DEF Climb
<1> QED BY <1>5

\* The n-th of the places of a set, counted from the first, is one place.
LEMMA PlaceOfRank ==
  ASSUME NEW a \in Nat, NEW places, places \subseteq 0..a, NEW o \in places
  PROVE  /\ Rank(places, o) \in 1..Cardinality(places)
         /\ PlaceOf(places, Rank(places, o)) = o
<1> DEFINE Upto(p) == {q \in places : q <= p}
<1>1. IsFiniteSet(places)
  <2>1. IsFiniteSet(0..a)
    BY FS_Interval
  <2> QED BY <2>1, FS_Subset
<1>2. \A p \in places : /\ IsFiniteSet(Upto(p)) /\ Cardinality(Upto(p)) \in Nat
                         /\ Cardinality(Upto(p)) <= Cardinality(places)
  BY <1>1, FS_Subset, FS_CardinalityType
<1>3. ASSUME NEW p \in places, NEW q \in places, p < q
      PROVE  Cardinality(Upto(p)) # Cardinality(Upto(q))
  <2>1. Upto(p) \subseteq Upto(q) /\ q \in Upto(q) /\ q \notin Upto(p)
    <3>1. p \in Nat /\ q \in Nat /\ \A x \in places : x \in Nat
      OBVIOUS
    <3>2. (\A x \in places : x <= p => x <= q) /\ q <= q /\ ~ (q <= p)
      BY <1>3, <3>1
    <3> QED BY <3>2, Zenon
  <2> HIDE DEF Upto
  <2> QED BY <1>2, <2>1, FS_Subset
<1>4. \A p \in places : Rank(places, p) = Rank(places, o) => p = o
  <2> TAKE p \in places
  <2>1. p = o \/ p < o \/ o < p
    OBVIOUS
  <2>2. Rank(places, p) = Cardinality(Upto(p)) /\ Rank(places, o) = Cardinality(Upto(o))
    BY DEF Rank
  <2> HIDE DEF Upto
  <2> QED BY <1>3, <2>1, <2>2
<1>5. Rank(places, o) # 0
  <2>1. o \in Upto(o)
    OBVIOUS
  <2> QED BY <1>2, <2>1, FS_EmptySet DEF Rank
<1>6. Rank(places, o) \in 1..Cardinality(places)
  <2>1. Cardinality(places) \in Nat
    BY <1>1, FS_CardinalityType
  <2> QED BY <1>2, <1>5, <2>1 DEF Rank
<1> QED BY <1>4, <1>6 DEF PlaceOf

\* The own place of a node in its group.
LEMMA OwnPlace ==
  ASSUME NEW n \in Nat \ {0}, NEW a \in Nat \ {0, 1}, NEW i \in 0..n - 1
  PROVE  /\ (i % a) + 1 \in 1..a
         /\ Group(i, a, n)[(i % a) + 1] = i
         /\ (i % a) + 1 \notin Others(i, a, n)
<1>1. /\ i % a \in 0..a - 1 /\ i = (i \div a) * a + (i % a)
      /\ (i \div a) * a \in Nat
  <2> i \in Nat
    OBVIOUS
  <2> QED BY Quotient
<1>2. (i % a) + 1 \in 1..a
  BY <1>1
<1>3. Group(i, a, n)[(i % a) + 1] = Least((i \div a) * a + ((i % a) + 1) - 1, n - 1)
  BY <1>2 DEF Group
<1>4. Least((i \div a) * a + ((i % a) + 1) - 1, n - 1) = i
  BY <1>1 DEF Least
<1> QED BY <1>2, <1>3, <1>4 DEF Others

\* A node without siblings is the last one, alone in its group.
LEMMA NoOthers ==
  ASSUME NEW n \in Nat \ {0}, NEW a \in Nat \ {0, 1}, NEW i \in 0..n - 1
  PROVE  Others(i, a, n) = {} <=> (i \div a) * a = n - 1
<1> DEFINE s == (i \div a) * a
<1>1. s \in Nat /\ s <= i /\ i \in Nat
  <2> i \in Nat
    OBVIOUS
  <2> QED BY Quotient
<1>2. \A o \in 1..a : Group(i, a, n)[o] = Least(s + o - 1, n - 1)
  BY DEF Group
<1> HIDE DEF s
<1>3. CASE s = n - 1
  <2>1. \A o \in 1..a : Least(s + o - 1, n - 1) = i
    BY <1>1, <1>3 DEF Least
  <2> QED BY <1>2, <1>3, <2>1 DEF Others, s
<1>4. CASE s # n - 1
  <2>1. 1 \in 1..a /\ 2 \in 1..a
    OBVIOUS
  <2>2. Least(s + 1 - 1, n - 1) # i \/ Least(s + 2 - 1, n - 1) # i
    BY <1>1, <1>4 DEF Least
  <2>3. Group(i, a, n)[1] # i \/ Group(i, a, n)[2] # i
    BY <1>2, <2>1, <2>2
  <2> QED BY <1>4, <2>1, <2>3 DEF Others, s
<1> QED BY <1>3, <1>4

\* Nodes of one group have the same group.
LEMMA GroupOfParent ==
  ASSUME NEW n \in Nat \ {0}, NEW a \in Nat \ {0, 1}, NEW i \in 0..n - 1
  PROVE  Group((i \div a) * a, a, n) = Group(i, a, n)
<1>1. (i \div a) * a \in Nat /\ i \div a \in Nat
  BY Quotient
<1>2. ((i \div a) * a) \div a = i \div a
  <2>1. 0 \in 0..a - 1 /\ (i \div a) * a = (i \div a) * a + 0
    BY <1>1
  <2> QED BY <1>1, <2>1, QuotientUnique
<1> QED BY <1>2 DEF Group

\* A group of one node is that node, every other one is hashed.
Grouped(above, level, i, a, n) ==
    /\ (i \div a) * a = n - 1 => above[i \div a] = level[n - 1]
    /\ (i \div a) * a # n - 1 =>
          above[i \div a] = _hash_children([o \in 1..a |-> level[Group(i, a, n)[o]]])

LEMMA GroupUpLevel ==
  ASSUME NEW level, NEW n \in Nat \ {0}, NEW a \in Nat \ {0, 1}, Level(level, n)
  PROVE  /\ CeilDiv(n, a) \in Nat \ {0} /\ Size(GroupUp(level, a)) = CeilDiv(n, a)
         /\ Level(GroupUp(level, a), CeilDiv(n, a))
         /\ \A i \in 0..n - 1 : Grouped(GroupUp(level, a), level, i, a, n)
<1>1. Size(level) = n
  BY LevelSize
<1>2. CeilDiv(n, a) \in Nat \ {0}
  BY LevelAbove
<1>3. GroupUp(level, a) =
        [i \in 0..CeilDiv(n, a) - 1 |->
            IF i * a = n - 1 THEN level[n - 1]
            ELSE _hash_children([o \in 1..a |-> level[Group(i * a, a, n)[o]]])]
  BY <1>1 DEF GroupUp
<1>4. Level(GroupUp(level, a), CeilDiv(n, a))
  BY <1>3 DEF Level
<1>5. ASSUME NEW i \in 0..n - 1
      PROVE  /\ (i \div a) * a = n - 1 => GroupUp(level, a)[i \div a] = level[n - 1]
             /\ (i \div a) * a # n - 1 =>
                   GroupUp(level, a)[i \div a]
                      = _hash_children([o \in 1..a |-> level[Group(i, a, n)[o]]])
  <2>1. i \div a \in 0..CeilDiv(n, a) - 1
    BY ParentInLevel
  <2>2. GroupUp(level, a)[i \div a] =
            IF (i \div a) * a = n - 1 THEN level[n - 1]
            ELSE _hash_children([o \in 1..a |-> level[Group((i \div a) * a, a, n)[o]]])
    BY <1>3, <2>1
  <2> QED BY <2>2, GroupOfParent
<1>6. \A i \in 0..n - 1 : Grouped(GroupUp(level, a), level, i, a, n)
  BY <1>5 DEF Grouped
<1> QED BY <1>2, <1>4, <1>6, LevelSize

LEMMA SiblingsOfNode ==
  ASSUME NEW level, NEW n \in Nat \ {0}, NEW a \in Nat \ {0, 1}, Level(level, n),
         NEW i \in 0..n - 1
  PROVE  /\ Len(SiblingsOf(level, i, a)) = Cardinality(Others(i, a, n))
         /\ Cardinality(Others(i, a, n)) \in Nat
         /\ Cardinality(Others(i, a, n)) = 0 <=> Others(i, a, n) = {}
         /\ \A o \in Others(i, a, n) :
               SiblingsOf(level, i, a)[Rank(Others(i, a, n), o)] = level[Group(i, a, n)[o]]
<1> DEFINE Theirs == Others(i, a, n)
<1>1. IsFiniteSet(Theirs)
  <2>1. IsFiniteSet(1..a) /\ Theirs \subseteq 1..a
    BY FS_Interval DEF Others
  <2> QED BY <2>1, FS_Subset
<1>2. Cardinality(Theirs) \in Nat /\ (Cardinality(Theirs) = 0 <=> Theirs = {})
  BY <1>1, FS_CardinalityType, FS_EmptySet
<1>3. SiblingsOf(level, i, a)
        = [j \in 1..Cardinality(Theirs) |-> level[Group(i, a, n)[PlaceOf(Theirs, j)]]]
  BY LevelSize DEF SiblingsOf
<1>4. \A o \in Theirs : /\ Rank(Theirs, o) \in 1..Cardinality(Theirs)
                         /\ PlaceOf(Theirs, Rank(Theirs, o)) = o
  <2> Theirs \subseteq 0..a /\ a \in Nat
    BY DEF Others
  <2> HIDE DEF Theirs
  <2> QED BY PlaceOfRank
<1> HIDE DEF Theirs
<1>5. Len(SiblingsOf(level, i, a)) = Cardinality(Theirs)
  BY <1>2, <1>3
<1>6. \A o \in Theirs : SiblingsOf(level, i, a)[Rank(Theirs, o)] = level[Group(i, a, n)[o]]
  BY <1>3, <1>4
<1> QED BY <1>2, <1>5, <1>6 DEF Theirs

\* A turn of the verifier's loop at a node of a level, with the siblings that
\* the prover lists for it, yields the node above; from anything else than
\* that node it yields something else.
LEMMA ClimbStepBinds ==
  ASSUME NEW level, NEW n \in Nat \ {0}, NEW a \in Nat \ {0, 1}, Level(level, n),
         NEW i \in 0..n - 1, NEW value
  PROVE  LET At(x) == [acc |-> x, idx |-> i, size |-> n]
             Step(x) == ClimbStep(At(x), SiblingsOf(level, i, a), a)
         IN  /\ Step(value).idx = i \div a /\ Step(value).size = CeilDiv(n, a)
             /\ Step(value).acc = GroupUp(level, a)[i \div a] <=> value = level[i]
<1> DEFINE Theirs == Others(i, a, n)
           siblings == SiblingsOf(level, i, a)
           At == [acc |-> value, idx |-> i, size |-> n]
           Step == ClimbStep(At, siblings, a)
           own == (i % a) + 1
           Above == GroupUp(level, a)[i \div a]
<1>1. /\ Step.idx = i \div a /\ Step.size = CeilDiv(n, a)
      /\ Step.acc = IF Len(siblings) = 0 THEN value
                    ELSE _hash_children([o \in 1..a |->
                            IF o \in Theirs THEN siblings[Rank(Theirs, o)] ELSE value])
  BY DEF ClimbStep
<1>2. /\ Len(siblings) = 0 <=> Theirs = {}
      /\ \A o \in Theirs : siblings[Rank(Theirs, o)] = level[Group(i, a, n)[o]]
  BY SiblingsOfNode
<1>3. own \in 1..a /\ own \notin Theirs /\ Group(i, a, n)[own] = i
  BY OwnPlace
<1>4. \A o \in 1..a : o \notin Theirs => Group(i, a, n)[o] = i
  BY DEF Others
<1>5. Theirs = {} <=> (i \div a) * a = n - 1
  BY NoOthers
<1>6. /\ (i \div a) * a = n - 1 => Above = level[n - 1]
      /\ (i \div a) * a # n - 1 => Above = _hash_children([o \in 1..a |-> level[Group(i, a, n)[o]]])
  <2>1. Grouped(GroupUp(level, a), level, i, a, n)
    BY GroupUpLevel
  <2> QED BY <2>1 DEF Grouped
<1>7. Theirs = {} => i = n - 1
  <2>1. i \in Nat /\ (i \div a) * a <= i
    <3> i \in Nat
      OBVIOUS
    <3> QED BY Quotient
  <2> QED BY <1>5, <2>1
<1> HIDE DEF Theirs, siblings, own, Above, Step
<1>8. ASSUME Theirs = {} PROVE Step.acc = Above <=> value = level[i]
  BY <1>1, <1>2, <1>5, <1>6, <1>7, <1>8
<1>9. ASSUME Theirs # {} PROVE Step.acc = Above <=> value = level[i]
  <2> DEFINE mine == [o \in 1..a |-> IF o \in Theirs THEN siblings[Rank(Theirs, o)] ELSE value]
             built == [o \in 1..a |-> level[Group(i, a, n)[o]]]
  <2>1. Step.acc = _hash_children(mine) /\ Above = _hash_children(built)
    BY <1>1, <1>2, <1>5, <1>6, <1>9
  <2>2. mine[own] = value /\ built[own] = level[i]
    BY <1>3
  <2>3. value = level[i] => mine = built
    BY <1>2, <1>4
  <2>4. _hash_children(mine) = _hash_children(built) <=> mine = built
    <3> HIDE DEF mine, built
    <3>1. _hash_children(mine).node = mine /\ _hash_children(built).node = built
      BY DEF _hash_children
    <3> QED BY <3>1
  <2> HIDE DEF mine, built
  <2> QED BY <1>1, <2>1, <2>2, <2>3, <2>4
<1> QED BY <1>1, <1>8, <1>9 DEF Step, siblings, Above

\* The levels of a tree of any arity, as for a binary one.
KaryShape(level, leaves, n, a) ==
    /\ DOMAIN level = 0..n /\ level[0] = leaves
    /\ \A k \in 1..n : level[k] = GroupUp(level[k - 1], a)
    /\ \A k \in 0..n : /\ Size(level[k]) \in Nat \ {0}
                         /\ Level(level[k], Size(level[k]))
    /\ \A k \in 1..n : Size(level[k]) = CeilDiv(Size(level[k - 1]), a)
    /\ Top(level) \in 0..n /\ Size(level[Top(level)]) = 1

LEMMA KaryLevelsShape ==
  ASSUME NEW leaves, NEW n \in Nat \ {0}, NEW a \in Nat \ {0, 1}, Level(leaves, n)
  PROVE  KaryShape(KaryLevelsOver(leaves, a), leaves, n, a)
<1> DEFINE level == KaryLevelsOver(leaves, a)
           Whole == {k \in Nat : k <= n => \E m \in Nat \ {0} : Level(level[k], m)}
<1>1. Size(leaves) = n
  BY LevelSize
<1>2. /\ DOMAIN level = 0..n /\ level[0] = leaves
      /\ \A k \in 1..n : level[k] = GroupUp(level[k - 1], a)
  BY <1>1, KaryLevelsUnfold
<1> HIDE DEF level
<1>3. 0 \in Whole
  BY <1>2
<1>4. ASSUME NEW k \in Nat, k \in Whole
      PROVE  k + 1 \in Whole
  <2> SUFFICES ASSUME k + 1 <= n
               PROVE  \E m \in Nat \ {0} : Level(level[k + 1], m)
    OBVIOUS
  <2>1. PICK m \in Nat \ {0} : Level(level[k], m)
    BY <1>4
  <2>2. level[k + 1] = GroupUp(level[k], a)
    <3> k + 1 \in 1..n /\ (k + 1) - 1 = k
      OBVIOUS
    <3> QED BY <1>2
  <2> QED BY <2>1, <2>2, GroupUpLevel
<1>5. \A k \in Nat : k \in Whole
  <2> HIDE DEF Whole
  <2> QED BY <1>3, <1>4, SetInduction
<1>6. ASSUME NEW k \in 0..n
      PROVE  Size(level[k]) \in Nat \ {0} /\ Level(level[k], Size(level[k]))
  <2>1. PICK m \in Nat \ {0} : Level(level[k], m)
    BY <1>5
  <2> QED BY <2>1, LevelSize
<1>7. \A k \in 1..n : Size(level[k]) = CeilDiv(Size(level[k - 1]), a)
  <2> TAKE k \in 1..n
  <2>1. k - 1 \in 0..n
    OBVIOUS
  <2>2. Size(level[k - 1]) \in Nat \ {0} /\ Level(level[k - 1], Size(level[k - 1]))
    BY <1>6, <2>1
  <2>3. level[k] = GroupUp(level[k - 1], a)
    BY <1>2
  <2> QED BY <2>2, <2>3, GroupUpLevel
<1>8. Top(level) \in 0..n /\ Size(level[Top(level)]) = 1
  <2> Size(level[0]) = n
    BY <1>1, <1>2
  <2> QED BY <1>2, <1>7, TopReached
<1> QED BY <1>2, <1>6, <1>7, <1>8 DEF level, KaryShape

\* The path that the prover gives out for leaf i: the siblings of the node
\* above it on every level below the top.
LEMMA HonestPath ==
  ASSUME NEW leaves, NEW n \in Nat \ {0}, NEW a \in Nat \ {0, 1}, Level(leaves, n),
         NEW i \in 0..n - 1
  PROVE  LET level == KaryLevelsOver(leaves, a)
             idx == Ancestors(i, a, Top(level))
             path == prove_kary(build_kary_levels(leaves, a), i, a)
         IN  /\ root_from_levels(build_kary_levels(leaves, a)) = level[Top(level)][0]
             /\ Len(path) = Top(level)
             /\ \A k \in 1..Top(level) : path[k] = SiblingsOf(level[k - 1], idx[k - 1], a)
<1> DEFINE level == KaryLevelsOver(leaves, a)
           T == Top(level)
           idx == Ancestors(i, a, T)
           levels == [k \in 1..T + 1 |-> level[k - 1]]
<1>1. T \in Nat
  BY KaryLevelsShape DEF KaryShape
<1>2. build_kary_levels(leaves, a) = levels
  BY DEF build_kary_levels
<1> HIDE DEF T, level
<1>3. Len(levels) = T + 1 /\ levels[T + 1] = level[T] /\ (T + 1) - 1 = T
  BY <1>1
<1>4. \A k \in 1..T : levels[k] = level[k - 1]
  BY <1>1
<1> HIDE DEF levels
<1>5. prove_kary(levels, i, a) = [k \in 1..T |-> SiblingsOf(levels[k], idx[k - 1], a)]
  BY <1>3 DEF prove_kary
<1>6. Len(prove_kary(levels, i, a)) = T
  BY <1>1, <1>5
<1>7. \A k \in 1..T : prove_kary(levels, i, a)[k] = SiblingsOf(level[k - 1], idx[k - 1], a)
  BY <1>4, <1>5
<1>8. root_from_levels(levels) = level[T][0]
  BY <1>3 DEF root_from_levels, Last
<1> QED BY <1>2, <1>6, <1>7, <1>8 DEF T, level

\* An honest path for leaf i verifies with that leaf and with no other.
THEOREM KaryTreeBinds ==
  ASSUME NEW leaves, NEW n \in Nat \ {0}, NEW a \in Nat \ {0, 1}, Level(leaves, n),
         NEW i \in 0..n - 1, NEW leaf
  PROVE  LET levels == build_kary_levels(leaves, a)
         IN  verify_kary(root_from_levels(levels), leaf, i, prove_kary(levels, i, a), a, n)
                <=> leaf = leaves[i]
<1> DEFINE level == KaryLevelsOver(leaves, a)
           T == Top(level)
           idx == Ancestors(i, a, T)
           levels == build_kary_levels(leaves, a)
           path == prove_kary(levels, i, a)
           at == Climb(leaf, i, path, a, n)
           OnPath(k) == /\ at[k] = [acc |-> at[k].acc, idx |-> idx[k], size |-> Size(level[k])]
                        /\ idx[k] \in 0..Size(level[k]) - 1
                        /\ at[k].acc = level[k][idx[k]] <=> leaf = leaves[i]
           Up == {k \in Nat : k <= T => OnPath(k)}
<1>1. /\ level[0] = leaves
      /\ \A k \in 1..n : level[k] = GroupUp(level[k - 1], a)
      /\ \A k \in 0..n : Size(level[k]) \in Nat \ {0} /\ Level(level[k], Size(level[k]))
      /\ \A k \in 1..n : Size(level[k]) = CeilDiv(Size(level[k - 1]), a)
      /\ T \in 0..n /\ Size(level[T]) = 1
  BY KaryLevelsShape DEF KaryShape
<1>2. /\ root_from_levels(levels) = level[T][0]
      /\ Len(path) = T
      /\ \A k \in 1..T : path[k] = SiblingsOf(level[k - 1], idx[k - 1], a)
  BY HonestPath
<1>3. idx[0] = i /\ \A k \in 1..T : idx[k] = idx[k - 1] \div a
  <2> T \in Nat
    BY <1>1
  <2> HIDE DEF T
  <2> QED BY AncestorsUnfold
<1>4. /\ at[0] = [acc |-> leaf, idx |-> i, size |-> n]
      /\ \A k \in 1..T : at[k] = ClimbStep(at[k - 1], path[k], a)
  <2> Len(path) \in Nat
    BY <1>1, <1>2
  <2> HIDE DEF path, T
  <2> QED BY <1>2, ClimbUnfold
<1> HIDE DEF level, idx, levels, path, at
<1>5. 0 \in Up
  BY <1>1, <1>3, <1>4, LevelSize
<1>6. ASSUME NEW k \in Nat, k \in Up
      PROVE  k + 1 \in Up
  <2> SUFFICES ASSUME k + 1 <= T PROVE OnPath(k + 1)
    OBVIOUS
  <2>1. k \in 0..n /\ k + 1 \in 1..T /\ k + 1 \in 1..n /\ (k + 1) - 1 = k
    BY <1>1
  <2>2. OnPath(k)
    BY <1>6, <1>1
  <2>3. at[k + 1] = ClimbStep([acc |-> at[k].acc, idx |-> idx[k], size |-> Size(level[k])],
                              SiblingsOf(level[k], idx[k], a), a)
    BY <1>2, <1>4, <2>1, <2>2
  <2>4. /\ idx[k + 1] = idx[k] \div a
        /\ level[k + 1] = GroupUp(level[k], a)
        /\ Size(level[k + 1]) = CeilDiv(Size(level[k]), a)
        /\ Size(level[k]) \in Nat \ {0} /\ Level(level[k], Size(level[k]))
    BY <1>1, <1>3, <2>1
  <2>5. /\ at[k + 1].idx = idx[k] \div a
        /\ at[k + 1].size = CeilDiv(Size(level[k]), a)
        /\ at[k + 1].acc = GroupUp(level[k], a)[idx[k] \div a] <=> at[k].acc = level[k][idx[k]]
    BY <2>2, <2>3, <2>4, ClimbStepBinds
  <2>6. at[k + 1] = [acc |-> at[k + 1].acc, idx |-> at[k + 1].idx, size |-> at[k + 1].size]
    BY <2>3 DEF ClimbStep
  <2>7. idx[k] \div a \in 0..CeilDiv(Size(level[k]), a) - 1
    BY <2>2, <2>4, ParentInLevel
  <2> QED BY <2>2, <2>4, <2>5, <2>6, <2>7
<1>7. \A k \in Nat : k \in Up
  <2> HIDE DEF Up
  <2> QED BY <1>5, <1>6, SetInduction
<1>8. \A k \in 0..T : OnPath(k)
  BY <1>1, <1>7
<1>9. \A k \in 1..T : Len(path[k]) = Cardinality(Others(at[k - 1].idx, a, at[k - 1].size))
  <2> TAKE k \in 1..T
  <2>1. k - 1 \in 0..T /\ k - 1 \in 0..n
    BY <1>1
  <2>2. OnPath(k - 1)
    BY <1>8, <2>1
  <2>3. Size(level[k - 1]) \in Nat \ {0} /\ Level(level[k - 1], Size(level[k - 1]))
    BY <1>1, <2>1
  <2>4. Len(path[k]) = Cardinality(Others(idx[k - 1], a, Size(level[k - 1])))
    BY <1>2, <2>2, <2>3, SiblingsOfNode
  <2> QED BY <2>2, <2>4
<1>10. at[T].acc = level[T][0] <=> leaf = leaves[i]
  <2>1. OnPath(T)
    BY <1>1, <1>8
  <2>2. idx[T] = 0
    BY <1>1, <2>1
  <2> QED BY <2>1, <2>2
<1>11. verify_kary(root_from_levels(levels), leaf, i, path, a, n) <=> leaf = leaves[i]
  <2>1. verify_kary(root_from_levels(levels), leaf, i, path, a, n)
          <=> /\ i \in 0..n - 1
              /\ \A k \in 1..Len(path) :
                    Len(path[k]) = Cardinality(Others(at[k - 1].idx, a, at[k - 1].size))
              /\ root_from_levels(levels) = at[Len(path)].acc
    BY DEF verify_kary, at
  <2> QED BY <1>2, <1>9, <1>10, <2>1
<1> QED BY <1>11 DEF path, levels

(* ---------------------- several leaves at once ------------------------ *)

\* The node at a place of a group, and the group that holds node i.
ChildAt(nodes, siblings, a, n, p) ==
    LET A == Asked(DOMAIN nodes, a, n)
    IN  IF p \in A THEN siblings[Rank(A, p)] ELSE nodes[Least(p, n - 1)]

Family(nodes, siblings, a, n, i) ==
    [o \in 1..a |-> ChildAt(nodes, siblings, a, n, (i \div a) * a + o - 1)]

\* The parent of a node at hand is the hash of its group.
LEMMA NodeAbove ==
  ASSUME NEW n, NEW a, NEW nodes, NEW siblings, NEW i \in DOMAIN nodes
  PROVE  NodesAbove(nodes, siblings, a, n)[i \div a]
            = _hash_children(Family(nodes, siblings, a, n, i))
BY DEF NodesAbove, ChildAt, Family

\* A node at hand is hashed at its own place of its group, which is not one
\* that asks for a sibling.
LEMMA NodeHashed ==
  ASSUME NEW n \in Nat \ {0}, NEW a \in Nat \ {0, 1}, NEW nodes, NEW siblings,
         DOMAIN nodes \subseteq 0..n - 1, NEW i \in DOMAIN nodes
  PROVE  /\ i \div a \in 0..CeilDiv(n, a) - 1
         /\ (i % a) + 1 \in 1..a
         /\ Family(nodes, siblings, a, n, i)[(i % a) + 1] = nodes[i]
         /\ NodesAbove(nodes, siblings, a, n)[i \div a]
               = _hash_children(Family(nodes, siblings, a, n, i))
<1> DEFINE Child(p) == ChildAt(nodes, siblings, a, n, p)
<1>1. i \in 0..n - 1 /\ i \in Nat
  OBVIOUS
<1>2. Child(i) = nodes[i]
  <2>1. Least(i, n - 1) = i
    BY <1>1 DEF Least
  <2>2. i \notin Asked(DOMAIN nodes, a, n)
    BY <2>1 DEF Asked
  <2> QED BY <2>1, <2>2 DEF ChildAt
<1>3. (i % a) + 1 \in 1..a /\ (i \div a) * a + ((i % a) + 1) - 1 = i
  <2> DEFINE first == (i \div a) * a
             r == i % a
  <2>1. i = first + r /\ r \in 0..a - 1 /\ first \in Nat
    BY <1>1, Quotient
  <2> HIDE DEF first, r
  <2>2. r + 1 \in 1..a /\ first + (r + 1) - 1 = i
    BY <2>1
  <2> QED BY <2>2 DEF first, r
<1>4. Family(nodes, siblings, a, n, i)[(i % a) + 1] = nodes[i]
  <2>1. Family(nodes, siblings, a, n, i)[(i % a) + 1] = Child((i \div a) * a + ((i % a) + 1) - 1)
    BY <1>3 DEF Family
  <2> QED BY <1>2, <1>3, <2>1
<1>5. NodesAbove(nodes, siblings, a, n)[i \div a] = _hash_children(Family(nodes, siblings, a, n, i))
  BY NodeAbove
<1> QED BY <1>1, <1>3, <1>4, <1>5, ParentInLevel

\* A function, of whatever kind.
Mapping(f) == f = [i \in DOMAIN f |-> f[i]]

\* The places of the nodes above those at hand.
LEMMA NodesAboveShape ==
  ASSUME NEW n \in Nat \ {0}, NEW a \in Nat \ {0, 1}, NEW nodes, NEW siblings,
         DOMAIN nodes \subseteq 0..n - 1
  PROVE  /\ Mapping(NodesAbove(nodes, siblings, a, n))
         /\ DOMAIN NodesAbove(nodes, siblings, a, n) = {i \div a : i \in DOMAIN nodes}
         /\ DOMAIN NodesAbove(nodes, siblings, a, n) \subseteq 0..CeilDiv(n, a) - 1
<1> DEFINE above == NodesAbove(nodes, siblings, a, n)
           Parents == {i \div a : i \in DOMAIN nodes}
<1>1. above = [j \in Parents |-> above[j]]
  BY DEF NodesAbove
<1>2. Parents \subseteq 0..CeilDiv(n, a) - 1
  <2>1. \A i \in DOMAIN nodes : i \div a \in 0..CeilDiv(n, a) - 1
    BY ParentInLevel
  <2> QED BY <2>1
<1> HIDE DEF above, Parents
<1>3. DOMAIN above = Parents
  BY <1>1
<1> QED BY <1>1, <1>2, <1>3 DEF above, Parents, Mapping

\* With the same siblings, the nodes above determine those at hand.
LEMMA NodesAboveInjective ==
  ASSUME NEW n \in Nat \ {0}, NEW a \in Nat \ {0, 1}, NEW siblings,
         NEW one, NEW other, Mapping(one), Mapping(other),
         DOMAIN one = DOMAIN other, DOMAIN one \subseteq 0..n - 1,
         NodesAbove(one, siblings, a, n) = NodesAbove(other, siblings, a, n)
  PROVE  one = other
<1>1. DOMAIN other \subseteq 0..n - 1
  OBVIOUS
<1>2. ASSUME NEW i \in DOMAIN one
      PROVE  one[i] = other[i]
  <2>1. /\ NodesAbove(one, siblings, a, n)[i \div a] = _hash_children(Family(one, siblings, a, n, i))
        /\ Family(one, siblings, a, n, i)[(i % a) + 1] = one[i]
    BY NodeHashed
  <2>2. /\ NodesAbove(other, siblings, a, n)[i \div a] = _hash_children(Family(other, siblings, a, n, i))
        /\ Family(other, siblings, a, n, i)[(i % a) + 1] = other[i]
    BY <1>1, NodeHashed
  <2>3. Family(one, siblings, a, n, i) = Family(other, siblings, a, n, i)
    BY <2>1, <2>2 DEF _hash_children
  <2> QED BY <2>1, <2>2, <2>3
<1> QED BY <1>2 DEF Mapping

\* A turn of the loop of verify_multiproof.
Turn(at, siblings, a) ==
    LET A == Asked(DOMAIN at.nodes, a, at.size)
    IN  [nodes |-> IF Len(siblings) # Cardinality(A) THEN <<>>
                   ELSE NodesAbove(at.nodes, siblings, a, at.size),
         size |-> CeilDiv(at.size, a)]

\* The loop, turn by turn.
LEMMA TogetherUnfold ==
  ASSUME NEW leaves, NEW proof, Len(proof.sibling_levels) \in Nat
  PROVE  /\ ClimbTogether(leaves, proof)[0] = [nodes |-> leaves, size |-> proof.tree_size]
         /\ \A k \in 1..Len(proof.sibling_levels) :
               ClimbTogether(leaves, proof)[k]
                 = Turn(ClimbTogether(leaves, proof)[k - 1], proof.sibling_levels[k], proof.arity)
<1> DEFINE height == Len(proof.sibling_levels)
           Up(g, d) == [k \in 0..d |-> IF k = 0 THEN [nodes |-> leaves, size |-> proof.tree_size]
                                       ELSE Turn(g[k - 1], proof.sibling_levels[k], proof.arity)]
           Built == {d \in Nat : \E g : g = Up(g, d)}
<1>1. ClimbTogether(leaves, proof) = CHOOSE g : g = Up(g, height)
  BY DEF ClimbTogether, Turn
<1>2. 0 \in Built
  <2> DEFINE h == Up([k \in 0..0 |-> 0], 0)
  <2>1. h = Up(h, 0)
    OBVIOUS
  <2> HIDE DEF h, Up
  <2> QED BY <2>1
<1>3. ASSUME NEW d \in Nat, d \in Built
      PROVE  d + 1 \in Built
  <2>1. PICK g : g = Up(g, d)
    BY <1>3
  <2> DEFINE h == Up(g, d + 1)
  <2>2. \A k \in 0..d : h[k] = g[k]
    BY <2>1
  <2>3. h = Up(h, d + 1)
    <3>1. \A k \in 0..d + 1 : k # 0 => k - 1 \in 0..d
      OBVIOUS
    <3> QED BY <2>2, <3>1
  <2> HIDE DEF h, Up
  <2> QED BY <2>3
<1>4. \A d \in Nat : d \in Built
  <2> HIDE DEF Built
  <2> QED BY <1>2, <1>3, SetInduction
<1>5. PICK g : g = Up(g, height)
  BY <1>4
<1> DEFINE at == ClimbTogether(leaves, proof)
<1>6. at = Up(at, height)
  BY <1>1, <1>5
<1> HIDE DEF at
<1>7. /\ at[0] = [nodes |-> leaves, size |-> proof.tree_size]
      /\ \A k \in 1..height : at[k] = Turn(at[k - 1], proof.sibling_levels[k], proof.arity)
  <2>1. 0 \in 0..height /\ \A k \in 1..height : k \in 0..height /\ k # 0
    OBVIOUS
  <2>2. \A k \in 0..height :
           at[k] = IF k = 0 THEN [nodes |-> leaves, size |-> proof.tree_size]
                   ELSE Turn(at[k - 1], proof.sibling_levels[k], proof.arity)
    BY <1>6
  <2> HIDE DEF height
  <2> QED BY <2>1, <2>2
<1> QED BY <1>7 DEF at

\* Nodes of a level of n nodes.
AtLevel(at, n) == at.size = n /\ DOMAIN at.nodes \subseteq 0..n - 1 /\ Mapping(at.nodes)

LEMMA TurnLevel ==
  ASSUME NEW n \in Nat \ {0}, NEW a \in Nat \ {0, 1}, NEW siblings, NEW at, AtLevel(at, n)
  PROVE  AtLevel(Turn(at, siblings, a), CeilDiv(n, a))
<1> DEFINE up == Turn(at, siblings, a)
           above == NodesAbove(at.nodes, siblings, a, n)
<1>1. at.size = n /\ DOMAIN at.nodes \subseteq 0..n - 1
  BY DEF AtLevel
<1>2. (up.nodes = <<>> \/ up.nodes = above) /\ up.size = CeilDiv(n, a)
  BY <1>1 DEF Turn
<1>3. Mapping(above) /\ DOMAIN above \subseteq 0..CeilDiv(n, a) - 1
  BY <1>1, NodesAboveShape
<1>4. DOMAIN <<>> = {} /\ Mapping(<<>>)
  BY DEF Mapping
<1> HIDE DEF up, above
<1> QED BY <1>2, <1>3, <1>4 DEF AtLevel, up

\* Turns from the same places of a level lead to the same places above, and
\* to the same nodes only from the same nodes.
LEMMA TurnBinds ==
  ASSUME NEW n \in Nat \ {0}, NEW a \in Nat \ {0, 1}, NEW siblings, NEW one, NEW other,
         AtLevel(one, n), AtLevel(other, n), DOMAIN one.nodes = DOMAIN other.nodes
  PROVE  /\ DOMAIN Turn(one, siblings, a).nodes = DOMAIN Turn(other, siblings, a).nodes
         /\ DOMAIN Turn(one, siblings, a).nodes # {} => DOMAIN one.nodes # {}
         /\ DOMAIN Turn(one, siblings, a).nodes # {}
              /\ Turn(one, siblings, a).nodes = Turn(other, siblings, a).nodes
                => one.nodes = other.nodes
<1> DEFINE f == Turn(one, siblings, a)
           g == Turn(other, siblings, a)
           A == Asked(DOMAIN one.nodes, a, n)
           above == NodesAbove(one.nodes, siblings, a, n)
           beside == NodesAbove(other.nodes, siblings, a, n)
<1>1. /\ one.size = n /\ DOMAIN one.nodes \subseteq 0..n - 1 /\ Mapping(one.nodes)
      /\ other.size = n /\ DOMAIN other.nodes \subseteq 0..n - 1 /\ Mapping(other.nodes)
  BY DEF AtLevel
<1>2. /\ f.nodes = IF Len(siblings) # Cardinality(A) THEN <<>> ELSE above
      /\ g.nodes = IF Len(siblings) # Cardinality(A) THEN <<>> ELSE beside
  BY <1>1 DEF Turn
<1>3. /\ DOMAIN above = {i \div a : i \in DOMAIN one.nodes}
      /\ DOMAIN beside = {i \div a : i \in DOMAIN other.nodes}
  BY <1>1, NodesAboveShape
<1>4. above = beside => one.nodes = other.nodes
  BY <1>1, NodesAboveInjective
<1>5. DOMAIN <<>> = {}
  OBVIOUS
<1> HIDE DEF f, g, above, beside, A
<1>6. DOMAIN above # {} => DOMAIN one.nodes # {}
  BY <1>3
<1> QED BY <1>2, <1>3, <1>4, <1>5, <1>6 DEF f, g

\* Where one loop ends, with the root of a single node, so does the other
\* only if it started from the same leaves.
LEMMA TogetherBinds ==
  ASSUME NEW proof, NEW height \in Nat, Len(proof.sibling_levels) = height,
         NEW a \in Nat \ {0, 1}, proof.arity = a,
         NEW size, size[0] = proof.tree_size, size[height] = 1,
         \A k \in 0..height : size[k] \in Nat \ {0},
         \A k \in 1..height : size[k] = CeilDiv(size[k - 1], a),
         NEW root, NEW one, NEW other, Mapping(one), Mapping(other),
         DOMAIN one = DOMAIN other, DOMAIN one \subseteq 0..size[0] - 1,
         verify_multiproof(root, one, proof), verify_multiproof(root, other, proof)
  PROVE  one = other
<1> DEFINE f == ClimbTogether(one, proof)
           g == ClimbTogether(other, proof)
           Alike(k) == /\ AtLevel(f[k], size[k]) /\ AtLevel(g[k], size[k])
                       /\ DOMAIN f[k].nodes = DOMAIN g[k].nodes
           Forward == {k \in Nat : k <= height => Alike(k)}
           Same(k) == f[k].nodes = g[k].nodes /\ DOMAIN f[k].nodes # {}
           Back == {d \in Nat : d <= height => Same(height - d)}
<1>1. /\ f[0] = [nodes |-> one, size |-> size[0]]
      /\ \A k \in 1..height : f[k] = Turn(f[k - 1], proof.sibling_levels[k], a)
      /\ g[0] = [nodes |-> other, size |-> size[0]]
      /\ \A k \in 1..height : g[k] = Turn(g[k - 1], proof.sibling_levels[k], a)
  <2>1. Len(proof.sibling_levels) \in Nat
    OBVIOUS
  <2>2. /\ f[0] = [nodes |-> one, size |-> proof.tree_size]
        /\ \A k \in 1..Len(proof.sibling_levels) :
              f[k] = Turn(f[k - 1], proof.sibling_levels[k], proof.arity)
    BY <2>1, TogetherUnfold
  <2>3. /\ g[0] = [nodes |-> other, size |-> proof.tree_size]
        /\ \A k \in 1..Len(proof.sibling_levels) :
              g[k] = Turn(g[k - 1], proof.sibling_levels[k], proof.arity)
    BY <2>1, TogetherUnfold
  <2> HIDE DEF f, g
  <2> QED BY <2>2, <2>3
<1>2. /\ 0 \in DOMAIN f[height].nodes /\ f[height].nodes[0] = root
      /\ 0 \in DOMAIN g[height].nodes /\ g[height].nodes[0] = root
  BY DEF verify_multiproof
<1> HIDE DEF f, g
<1>3. 0 \in Forward
  BY <1>1 DEF AtLevel
<1>4. ASSUME NEW k \in Nat, k \in Forward
      PROVE  k + 1 \in Forward
  <2> SUFFICES ASSUME k + 1 <= height PROVE Alike(k + 1)
    OBVIOUS
  <2>1. k \in 0..height /\ k + 1 \in 1..height /\ (k + 1) - 1 = k /\ Alike(k)
    BY <1>4
  <2> DEFINE siblings == proof.sibling_levels[k + 1]
  <2>2. f[k + 1] = Turn(f[k], siblings, a) /\ g[k + 1] = Turn(g[k], siblings, a)
    BY <1>1, <2>1
  <2>3. size[k] \in Nat \ {0} /\ size[k + 1] = CeilDiv(size[k], a)
    BY <2>1
  <2> HIDE DEF siblings
  <2>4. AtLevel(f[k + 1], size[k + 1]) /\ AtLevel(g[k + 1], size[k + 1])
    <3>1. AtLevel(f[k], size[k]) /\ AtLevel(g[k], size[k])
      BY <2>1
    <3>2. /\ AtLevel(Turn(f[k], siblings, a), CeilDiv(size[k], a))
          /\ AtLevel(Turn(g[k], siblings, a), CeilDiv(size[k], a))
      BY <2>3, <3>1, TurnLevel
    <3> QED BY <2>2, <2>3, <3>2
  <2>5. DOMAIN f[k + 1].nodes = DOMAIN g[k + 1].nodes
    <3>1. /\ AtLevel(f[k], size[k]) /\ AtLevel(g[k], size[k])
          /\ DOMAIN f[k].nodes = DOMAIN g[k].nodes
      BY <2>1
    <3>2. DOMAIN Turn(f[k], siblings, a).nodes = DOMAIN Turn(g[k], siblings, a).nodes
      <4> DEFINE d == size[k]
                 one_ == f[k]
                 other_ == g[k]
      <4>1. /\ d \in Nat \ {0} /\ AtLevel(one_, d) /\ AtLevel(other_, d)
            /\ DOMAIN one_.nodes = DOMAIN other_.nodes
        BY <2>3, <3>1
      <4> HIDE DEF d, one_, other_
      <4>2. DOMAIN Turn(one_, siblings, a).nodes = DOMAIN Turn(other_, siblings, a).nodes
        BY <4>1, TurnBinds
      <4> QED BY <4>2 DEF one_, other_
    <3> QED BY <2>2, <3>2
  <2> QED BY <2>4, <2>5
<1>5. \A k \in 0..height : Alike(k)
  <2>1. \A k \in Nat : k \in Forward
    <3> HIDE DEF Forward
    <3> QED BY <1>3, <1>4, SetInduction
  <2> HIDE DEF Alike
  <2> QED BY <2>1
<1>6. 0 \in Back
  <2>1. Alike(height)
    BY <1>5
  <2>2. DOMAIN f[height].nodes = {0} /\ DOMAIN g[height].nodes = {0}
    BY <1>2, <2>1 DEF AtLevel
  <2>3. f[height].nodes = g[height].nodes
    BY <1>2, <2>1, <2>2 DEF AtLevel, Mapping
  <2>4. height - 0 = height /\ Same(height)
    BY <2>2, <2>3
  <2> HIDE DEF Same
  <2> QED BY <2>4
<1>7. ASSUME NEW d \in Nat, d \in Back
      PROVE  d + 1 \in Back
  <2> SUFFICES ASSUME d + 1 <= height PROVE Same(height - (d + 1))
    OBVIOUS
  <2>1. PICK k \in 0..height : /\ k = height - (d + 1) /\ k + 1 = height - d
                                /\ k + 1 \in 1..height /\ (k + 1) - 1 = k
    OBVIOUS
  <2>2. Same(k + 1)
    <3> HIDE DEF Same
    <3> QED BY <1>7, <2>1
  <2>3. Alike(k)
    <3> HIDE DEF Alike
    <3> QED BY <1>5, <2>1
  <2> DEFINE siblings == proof.sibling_levels[k + 1]
             here == f[k]
             there == g[k]
             n == size[k]
  <2>4. f[k + 1] = Turn(here, siblings, a) /\ g[k + 1] = Turn(there, siblings, a)
    BY <1>1, <2>1
  <2>5. n \in Nat \ {0}
    BY <2>1
  <2>6. AtLevel(here, n) /\ AtLevel(there, n) /\ DOMAIN here.nodes = DOMAIN there.nodes
    BY <2>3
  <2>7. /\ Turn(here, siblings, a).nodes = Turn(there, siblings, a).nodes
        /\ DOMAIN Turn(here, siblings, a).nodes # {}
    BY <2>2, <2>4
  <2>8. here.nodes = there.nodes /\ DOMAIN here.nodes # {}
    <3> HIDE DEF here, there, n, siblings, Alike, Same
    <3> QED BY <2>5, <2>6, <2>7, TurnBinds
  <2> QED BY <2>1, <2>8
<1>8. Same(0)
  <2>1. \A d \in Nat : d \in Back
    <3> HIDE DEF Back
    <3> QED BY <1>6, <1>7, SetInduction
  <2>2. height \in Back /\ height - height = 0
    BY <2>1
  <2> HIDE DEF Same
  <2> QED BY <2>2
<1> QED BY <1>1, <1>8

\* A proof of several leaves of a binary tree, whichever they are, has as
\* many levels as the tree.
LEMMA PairMultiproofShape ==
  ASSUME NEW n \in Nat \ {0}, NEW leaves, Level(leaves, n), NEW S
  PROVE  LET level == LevelsOver(leaves)
             proof == multiproof(build_levels(leaves), S, 2)
         IN  /\ proof.tree_size = n /\ proof.arity = 2
             /\ Top(level) \in Nat /\ Len(proof.sibling_levels) = Top(level)
             /\ Size(level[0]) = n /\ Size(level[Top(level)]) = 1
             /\ \A k \in 0..Top(level) : Size(level[k]) \in Nat \ {0}
             /\ \A k \in 1..Top(level) : Size(level[k]) = CeilDiv(Size(level[k - 1]), 2)
<1> DEFINE level == LevelsOver(leaves)
           T == Top(level)
           levels == [k \in 1..T + 1 |-> level[k - 1]]
           proof == multiproof(levels, S, 2)
<1>1. /\ level[0] = leaves
      /\ \A k \in 1..n : level[k] = PairUp(level[k - 1])
      /\ \A k \in 0..n : Size(level[k]) \in Nat \ {0} /\ Level(level[k], Size(level[k]))
      /\ T \in 0..n /\ Size(level[T]) = 1
  BY LevelsShape
<1>2. Size(level[0]) = n
  BY <1>1, LevelSize
<1>3. build_levels(leaves) = levels
  BY DEF build_levels
<1> HIDE DEF T, level
<1>4. ASSUME NEW k \in 1..T PROVE Size(level[k]) = CeilDiv(Size(level[k - 1]), 2)
  <2>1. k \in 1..n /\ k - 1 \in 0..n
    BY <1>1
  <2>2. Size(level[k - 1]) \in Nat \ {0} /\ Level(level[k - 1], Size(level[k - 1]))
    BY <1>1, <2>1
  <2>3. level[k] = PairUp(level[k - 1])
    BY <1>1, <2>1
  <2> QED BY <2>2, <2>3, PairUpLevel
<1>5. levels[1] = level[0] /\ Len(levels) = T + 1
  BY <1>1
<1> HIDE DEF levels
<1>6. proof.tree_size = n /\ proof.arity = 2 /\ Len(proof.sibling_levels) = T
  <2>1. T \in Nat /\ Len(levels) - 1 = T
    BY <1>1, <1>5
  <2>2. \E f : proof.sibling_levels = [k \in 1..T |-> f[k]]
    <3> DEFINE Siblings(k) ==
                  LET A == Asked({Ancestors(i, 2, Len(levels) - 1)[k - 1] : i \in S}, 2, Size(levels[k]))
                  IN  [j \in 1..Cardinality(A) |->
                          levels[k][Least(PlaceOf(A, j), Size(levels[k]) - 1)]]
               f == [k \in 1..T |-> Siblings(k)]
    <3>1. proof.sibling_levels = [k \in 1..T |-> Siblings(k)]
      BY <2>1 DEF multiproof
    <3> HIDE DEF Siblings
    <3>2. f = [k \in 1..T |-> f[k]]
      OBVIOUS
    <3> QED BY <3>1, <3>2
  <2>3. proof.tree_size = Size(levels[1]) /\ proof.arity = 2
    BY DEF multiproof
  <2> HIDE DEF proof
  <2> QED BY <1>2, <1>5, <2>1, <2>2, <2>3
<1> HIDE DEF proof
<1>7. \A k \in 0..T : Size(level[k]) \in Nat \ {0}
  BY <1>1
<1> QED BY <1>1, <1>2, <1>3, <1>4, <1>6, <1>7 DEF proof, T, level

\* Values at the same places of a chunk verify with one proof only if they
\* are the same.
LEMMA PairMultiproofBinds ==
  ASSUME NEW n \in Nat \ {0}, NEW leaves, Level(leaves, n), NEW S, NEW root,
         NEW one, NEW other, Mapping(one), Mapping(other),
         DOMAIN one = DOMAIN other, DOMAIN one \subseteq 0..n - 1,
         verify_multiproof(root, one, multiproof(build_levels(leaves), S, 2)),
         verify_multiproof(root, other, multiproof(build_levels(leaves), S, 2))
  PROVE  one = other
<1> DEFINE level == LevelsOver(leaves)
           T == Top(level)
           proof == multiproof(build_levels(leaves), S, 2)
           size == [k \in 0..T |-> Size(level[k])]
<1>1. /\ proof.tree_size = n /\ proof.arity = 2
      /\ T \in Nat /\ Len(proof.sibling_levels) = T
      /\ Size(level[0]) = n /\ Size(level[T]) = 1
      /\ \A k \in 0..T : Size(level[k]) \in Nat \ {0}
      /\ \A k \in 1..T : Size(level[k]) = CeilDiv(Size(level[k - 1]), 2)
  BY PairMultiproofShape
<1> HIDE DEF proof, level, T
<1>2. \A k \in 0..T : size[k] = Size(level[k])
  OBVIOUS
<1>3. size[0] = n /\ size[T] = 1 /\ \A k \in 0..T : size[k] \in Nat \ {0}
  BY <1>1, <1>2
<1>4. \A k \in 1..T : size[k] = CeilDiv(size[k - 1], 2)
  BY <1>1, <1>2
<1>5. 2 \in Nat \ {0, 1}
  OBVIOUS
<1> HIDE DEF size
<1>6. /\ verify_multiproof(root, one, proof) /\ verify_multiproof(root, other, proof)
      /\ DOMAIN one \subseteq 0..size[0] - 1 /\ size[0] = proof.tree_size
  BY <1>1, <1>3 DEF proof
<1> QED BY <1>1, <1>3, <1>4, <1>5, <1>6, TogetherBinds

\* The part of a batch that concerns chunk c.
Entries(batch, c) == {i \in DOMAIN batch.entries : batch.entries[i].chunk_index = c}
ValueAt(batch, c, pos) ==
    batch.entries[CHOOSE i \in Entries(batch, c) : batch.entries[i].leaf_pos = pos].value
LeafHashes(batch, c) ==
    [pos \in batch.chunk_leaf_proofs[c].leaf_positions |->
        chunk_leaf_hash(batch.chunk_leaf_proofs[c].chunk_offset, pos, ValueAt(batch, c, pos))]

LEMMA BatchChunkOpens ==
  ASSUME NEW C, NEW batch, verify_batch(C, batch), NEW i \in DOMAIN batch.entries
  PROVE  LET c == batch.entries[i].chunk_index
         IN  verify_multiproof(batch.chunk_roots[c], LeafHashes(batch, c),
                               batch.chunk_leaf_proofs[c].proof)
<1> DEFINE c == batch.entries[i].chunk_index
<1>1. c \in DOMAIN batch.chunk_roots
  BY DEF verify_batch
<1>2. \A d \in DOMAIN batch.chunk_roots :
        verify_multiproof(batch.chunk_roots[d], LeafHashes(batch, d), batch.chunk_leaf_proofs[d].proof)
  BY DEF verify_batch, LeafHashes, ValueAt, Entries
<1> QED BY <1>1, <1>2

\* A batch that the opener built verifies with no other value at one of its
\* indices.
LEMMA BatchBinds ==
  ASSUME NEW a, NEW cl \in Nat \ {0}, a.chunk_len = cl, NEW I, I \subseteq Nat, NEW chunks,
         NEW i \in I, NEW m \in Nat \ {0},
         Level(LeavesOf(chunks[i \div cl + 1], (i \div cl) * cl), m),
         \A j \in I : j \div cl = i \div cl => j % cl \in 0..m - 1,
         NEW C, verify_batch(C, open_batch(a, I, chunks)),
         NEW w, w % Modulus # chunks[i \div cl + 1][(i % cl) + 1] % Modulus
  PROVE  ~ verify_batch(C, [open_batch(a, I, chunks) EXCEPT !.entries[i].value = w])
<1> DEFINE c == i \div cl
           pos == i % cl
           b == open_batch(a, I, chunks)
           d == [b EXCEPT !.entries[i].value = w]
           S == {j % cl : j \in {j \in I : j \div cl = c}}
           Entry(j) == [value |-> chunks[j \div cl + 1][(j % cl) + 1], chunk_index |-> j \div cl,
                        chunk_offset |-> (j \div cl) * cl, leaf_pos |-> j % cl]
           leaves == LeavesOf(chunks[c + 1], c * cl)
           proof == multiproof(build_levels(leaves), S, 2)
<1> SUFFICES ASSUME verify_batch(C, d) PROVE FALSE
  OBVIOUS
<1>1. i \in Nat /\ \A j \in I : j \in Nat /\ j \div cl \in Nat /\ j % cl \in 0..cl - 1
                                 /\ j = (j \div cl) * cl + (j % cl)
  <2>1. \A j \in I : j \in Nat
    OBVIOUS
  <2> QED BY <2>1, Quotient
<1>2. b.entries = [j \in I |-> Entry(j)]
  BY DEF open_batch
<1>3. /\ b.chunk_leaf_proofs[c] = [chunk_offset |-> c * cl, leaf_positions |-> S, proof |-> proof]
  <2>1. c \in {j \div cl : j \in I}
    OBVIOUS
  <2> QED BY <2>1 DEF open_batch
<1>4. /\ d.chunk_leaf_proofs = b.chunk_leaf_proofs /\ d.chunk_roots = b.chunk_roots
      /\ d.entries = [b.entries EXCEPT ![i].value = w]
  BY DEF open_batch
<1> HIDE DEF b, d, proof, leaves, Entry
<1>5. /\ DOMAIN d.entries = I /\ DOMAIN b.entries = I
      /\ b.entries[i] = Entry(i) /\ d.entries[i] = [Entry(i) EXCEPT !.value = w]
      /\ \A j \in I \ {i} : b.entries[j] = Entry(j) /\ d.entries[j] = Entry(j)
  BY <1>2, <1>4
<1>6. /\ \A j \in I : /\ b.entries[j].chunk_index = j \div cl /\ b.entries[j].leaf_pos = j % cl
                      /\ d.entries[j].chunk_index = j \div cl /\ d.entries[j].leaf_pos = j % cl
      /\ b.entries[i].value = chunks[c + 1][pos + 1] /\ d.entries[i].value = w
  <2>1. \A j \in I : Entry(j).chunk_index = j \div cl /\ Entry(j).leaf_pos = j % cl
    BY DEF Entry
  <2>2. LET e == [Entry(i) EXCEPT !.value = w]
        IN  e.chunk_index = i \div cl /\ e.leaf_pos = i % cl /\ e.value = w
    BY DEF Entry
  <2>3. Entry(i).value = chunks[c + 1][pos + 1]
    BY DEF Entry
  <2>4. ASSUME NEW j \in I
        PROVE  /\ b.entries[j].chunk_index = j \div cl /\ b.entries[j].leaf_pos = j % cl
               /\ d.entries[j].chunk_index = j \div cl /\ d.entries[j].leaf_pos = j % cl
    <3>1. CASE j = i
      BY <1>5, <2>1, <2>2, <3>1
    <3>2. CASE j # i
      <4>1. b.entries[j] = Entry(j) /\ d.entries[j] = Entry(j)
        BY <1>5, <3>2
      <4> QED BY <2>1, <4>1
    <3> QED BY <3>1, <3>2
  <2> QED BY <1>5, <2>2, <2>3, <2>4
<1>7. ASSUME NEW x \in {b, d} PROVE ValueAt(x, c, pos) = x.entries[i].value
  <2>1. /\ DOMAIN x.entries = I
        /\ \A j \in I : x.entries[j].chunk_index = j \div cl /\ x.entries[j].leaf_pos = j % cl
    BY <1>5, <1>6
  <2>2. Entries(x, c) = {j \in I : j \div cl = c}
    BY <2>1 DEF Entries
  <2>3. i \in Entries(x, c) /\ x.entries[i].leaf_pos = pos
    BY <2>1, <2>2
  <2>4. \A j \in Entries(x, c) : x.entries[j].leaf_pos = pos => j = i
    <3> SUFFICES ASSUME NEW j \in I, j \div cl = c, j % cl = pos PROVE j = i
      BY <2>1, <2>2
    <3> QED BY <1>1
  <2>5. (CHOOSE j \in Entries(x, c) : x.entries[j].leaf_pos = pos) = i
    BY <2>3, <2>4
  <2> QED BY <2>5 DEF ValueAt
<1> DEFINE one == LeafHashes(b, c)
           other == LeafHashes(d, c)
<1>8. /\ verify_multiproof(b.chunk_roots[c], one, proof)
      /\ verify_multiproof(b.chunk_roots[c], other, proof)
  <2>1. verify_multiproof(b.chunk_roots[c], one, b.chunk_leaf_proofs[c].proof)
    <3>1. verify_batch(C, b) /\ i \in DOMAIN b.entries /\ b.entries[i].chunk_index = c
      BY <1>5, <1>6 DEF b
    <3> QED BY <3>1, BatchChunkOpens
  <2>2. verify_multiproof(d.chunk_roots[c], other, d.chunk_leaf_proofs[c].proof)
    <3>1. verify_batch(C, d) /\ i \in DOMAIN d.entries /\ d.entries[i].chunk_index = c
      BY <1>5, <1>6
    <3> QED BY <3>1, BatchChunkOpens
  <2> QED BY <1>3, <1>4, <2>1, <2>2
<1>9. /\ one = [p \in S |-> chunk_leaf_hash(c * cl, p, ValueAt(b, c, p))]
      /\ other = [p \in S |-> chunk_leaf_hash(c * cl, p, ValueAt(d, c, p))]
  BY <1>3, <1>4 DEF LeafHashes
<1>10. S \subseteq 0..m - 1 /\ pos \in S
  OBVIOUS
<1> HIDE DEF one, other, S, c, pos
<1>11. Mapping(one) /\ Mapping(other) /\ DOMAIN one = S /\ DOMAIN other = S
  BY <1>9 DEF Mapping
<1>12. one = other
  <2>1. Level(leaves, m)
    BY DEF leaves, c
  <2> QED BY <1>8, <1>10, <1>11, <2>1, PairMultiproofBinds DEF proof
<1>13. /\ one[pos] = chunk_leaf_hash(c * cl, pos, chunks[c + 1][pos + 1])
       /\ other[pos] = chunk_leaf_hash(c * cl, pos, w)
  BY <1>6, <1>7, <1>9, <1>10
<1>14. [leaf |-> <<c * cl, pos, chunks[c + 1][pos + 1] % Modulus>>].leaf
         = [leaf |-> <<c * cl, pos, w % Modulus>>].leaf
  BY <1>12, <1>13 DEF chunk_leaf_hash
<1> DEFINE u == chunks[c + 1][pos + 1] % Modulus
           v == w % Modulus
<1>15. u # v
  BY DEF c, pos
<1> HIDE DEF u, v
<1>16. <<c * cl, pos, u>>[3] = <<c * cl, pos, v>>[3]
  BY <1>14 DEF u, v
<1> QED BY <1>15, <1>16

(* ------------------ several leaves opened together -------------------- *)

\* The siblings that the opener lists for the nodes of a level.
JointSiblings(level, nodes, a, n) ==
    [j \in 1..Cardinality(Asked(nodes, a, n)) |->
        level[Least(PlaceOf(Asked(nodes, a, n), j), n - 1)]]

\* They are as many as the verifier asks for, and each is at its place.
Listed(siblings, level, nodes, a, n) ==
    /\ Len(siblings) = Cardinality(Asked(nodes, a, n))
    /\ \A p \in Asked(nodes, a, n) :
          siblings[Rank(Asked(nodes, a, n), p)] = level[Least(p, n - 1)]

LEMMA JointSiblingsAsked ==
  ASSUME NEW n \in Nat \ {0}, NEW a \in Nat \ {0, 1}, NEW S, S \subseteq 0..n - 1, NEW level
  PROVE  Listed(JointSiblings(level, S, a, n), level, S, a, n)
<1> DEFINE A == Asked(S, a, n)
           siblings == JointSiblings(level, S, a, n)
<1>1. A \subseteq 0..n + a
  <2>1. \A i \in S : (i \div a) * a \in Nat /\ (i \div a) * a <= i /\ i \in 0..n - 1
    <3> TAKE i \in S
    <3>1. i \in Nat /\ i \in 0..n - 1
      OBVIOUS
    <3> QED BY <3>1, Quotient
  <2>2. \A i \in S : (i \div a) * a .. (i \div a) * a + a - 1 \subseteq 0..n + a
    BY <2>1
  <2>3. A \subseteq UNION {(i \div a) * a .. (i \div a) * a + a - 1 : i \in S}
    BY DEF Asked, GroupPlaces
  <2> QED BY <2>2, <2>3
<1>2. Cardinality(A) \in Nat
  <2>1. IsFiniteSet(0..n + a)
    BY FS_Interval
  <2>2. IsFiniteSet(A)
    BY <1>1, <2>1, FS_Subset
  <2> QED BY <2>2, FS_CardinalityType
<1>3. siblings = [j \in 1..Cardinality(A) |-> level[Least(PlaceOf(A, j), n - 1)]]
  BY DEF JointSiblings
<1>4. \A p \in A : Rank(A, p) \in 1..Cardinality(A) /\ PlaceOf(A, Rank(A, p)) = p
  <2> n + a \in Nat
    OBVIOUS
  <2> HIDE DEF A
  <2> QED BY <1>1, PlaceOfRank
<1> HIDE DEF A, siblings
<1>5. Len(siblings) = Cardinality(A)
  BY <1>2, <1>3
<1>6. \A p \in A : siblings[Rank(A, p)] = level[Least(p, n - 1)]
  BY <1>3, <1>4
<1> QED BY <1>5, <1>6 DEF A, siblings, Listed

\* The node at place o of the group of j, and the nodes above made of them.
Members(level, a, n, j) == [o \in 1..a |-> level[Least((j \div a) * a + o - 1, n - 1)]]
Hashed(above, level, nodes, a, n) ==
    \A j \in nodes : above[j \div a] = _hash_children(Members(level, a, n, j))

\* Some nodes of a level, and the nodes above.
Part(level, nodes) == [j \in nodes |-> level[j]]
PartOf(level, nodes, n) == [nodes |-> Part(level, nodes), size |-> n]
Above(nodes, a) == {j \div a : j \in nodes}

\* With the siblings that the opener lists, a turn of the verifier's loop leads
\* from nodes of one level to those above them, if these are hashed.
LEMMA TurnCompletes ==
  ASSUME NEW n \in Nat \ {0}, NEW a \in Nat \ {0, 1}, NEW S, S \subseteq 0..n - 1,
         NEW level, NEW above, Hashed(above, level, S, a, n)
  PROVE  Turn(PartOf(level, S, n), JointSiblings(level, S, a, n), a)
           = PartOf(above, Above(S, a), CeilDiv(n, a))
<1> DEFINE nodes == Part(level, S)
           siblings == JointSiblings(level, S, a, n)
           A == Asked(S, a, n)
           up == NodesAbove(nodes, siblings, a, n)
<1>1. DOMAIN nodes = S /\ \A j \in S : nodes[j] = level[j]
  BY DEF Part
<1>2. Len(siblings) = Cardinality(A) /\ \A p \in A : siblings[Rank(A, p)] = level[Least(p, n - 1)]
  <2>1. Listed(siblings, level, S, a, n)
    BY JointSiblingsAsked
  <2> HIDE DEF siblings
  <2> QED BY <2>1 DEF Listed
<1> HIDE DEF nodes, siblings
<1>3. ASSUME NEW j \in S PROVE Family(nodes, siblings, a, n, j) = Members(level, a, n, j)
  <2>1. ASSUME NEW o \in 1..a
        PROVE  ChildAt(nodes, siblings, a, n, (j \div a) * a + o - 1)
                 = level[Least((j \div a) * a + o - 1, n - 1)]
    <3> DEFINE p == (j \div a) * a + o - 1
    <3>1. ChildAt(nodes, siblings, a, n, p)
             = IF p \in A THEN siblings[Rank(A, p)] ELSE nodes[Least(p, n - 1)]
      BY <1>1 DEF ChildAt
    <3>2. CASE p \in A
      BY <1>2, <3>1, <3>2
    <3>3. CASE p \notin A
      <4>1. p \in (j \div a) * a .. (j \div a) * a + a - 1
        <5>1. j \in Nat
          OBVIOUS
        <5>2. (j \div a) * a \in Nat
          BY <5>1, Quotient
        <5> QED BY <5>2
      <4>2. p \in GroupPlaces(S, a)
        BY <4>1 DEF GroupPlaces
      <4>3. Least(p, n - 1) \in S
        BY <3>3, <4>2 DEF Asked
      <4> QED BY <1>1, <3>1, <3>3, <4>3
    <3> QED BY <3>2, <3>3
  <2> QED BY <2>1 DEF Family, Members
<1>4. Mapping(up) /\ DOMAIN up = Above(S, a)
  BY <1>1, NodesAboveShape DEF Above
<1>5. \A j \in S : up[j \div a] = above[j \div a]
  <2> TAKE j \in S
  <2>1. up[j \div a] = _hash_children(Family(nodes, siblings, a, n, j))
    <3>1. DOMAIN nodes \subseteq 0..n - 1 /\ j \in DOMAIN nodes
      BY <1>1
    <3> QED BY <3>1, NodeHashed
  <2> QED BY <1>3, <2>1 DEF Hashed
<1>6. up = Part(above, Above(S, a))
  <2>1. \A i \in Above(S, a) : up[i] = above[i]
    BY <1>5 DEF Above
  <2> HIDE DEF up
  <2> QED BY <1>4, <2>1 DEF Mapping, Part
<1>7. PartOf(level, S, n) = [nodes |-> nodes, size |-> n]
  BY DEF PartOf, nodes
<1>8. Turn([nodes |-> nodes, size |-> n], siblings, a) = [nodes |-> up, size |-> CeilDiv(n, a)]
  BY <1>1, <1>2 DEF Turn
<1> QED BY <1>6, <1>7, <1>8 DEF PartOf, siblings

\* A proof for the places at[0] of level[0], whose levels up to a root are all
\* hashed: at gives the places above them, size the sizes of the levels.
HonestLevels(proof, height, a, size, level, at) ==
    /\ height \in Nat /\ Len(proof.sibling_levels) = height
    /\ a \in Nat \ {0, 1} /\ proof.arity = a
    /\ size[0] = proof.tree_size /\ size[height] = 1
    /\ \A k \in 0..height : size[k] \in Nat \ {0}
    /\ at[0] # {} /\ at[0] \subseteq 0..size[0] - 1
    /\ \A k \in 1..height :
          /\ size[k] = CeilDiv(size[k - 1], a)
          /\ at[k] = Above(at[k - 1], a)
          /\ proof.sibling_levels[k] = JointSiblings(level[k - 1], at[k - 1], a, size[k - 1])
          /\ Hashed(level[k], level[k - 1], at[k - 1], a, size[k - 1])

\* The verifier's loop, from leaves of a tree whose groups are all hashed, ends
\* at the root.
LEMMA TogetherCompletes ==
  ASSUME NEW proof, NEW height, NEW a, NEW size, NEW level, NEW at,
         HonestLevels(proof, height, a, size, level, at)
  PROVE  verify_multiproof(level[height][0], Part(level[0], at[0]), proof)
<1> DEFINE leaves == Part(level[0], at[0])
           f == ClimbTogether(leaves, proof)
           Reached(k) == /\ at[k] # {} /\ at[k] \subseteq 0..size[k] - 1
                         /\ f[k] = PartOf(level[k], at[k], size[k])
           Forward == {k \in Nat : k <= height => Reached(k)}
<1>0. height \in Nat /\ Len(proof.sibling_levels) = height /\ proof.arity = a /\ size[height] = 1
        /\ size[0] = proof.tree_size /\ a \in Nat \ {0, 1}
  BY DEF HonestLevels
<1>1. /\ f[0] = PartOf(level[0], at[0], size[0])
      /\ \A k \in 1..height : f[k] = Turn(f[k - 1], proof.sibling_levels[k], a)
  <2>1. Len(proof.sibling_levels) \in Nat
    BY <1>0
  <2>2. f[0] = [nodes |-> leaves, size |-> proof.tree_size]
    BY <2>1, TogetherUnfold
  <2>3. \A k \in 1..Len(proof.sibling_levels) :
           f[k] = Turn(f[k - 1], proof.sibling_levels[k], proof.arity)
    BY <2>1, TogetherUnfold
  <2> HIDE DEF f
  <2> QED BY <1>0, <2>2, <2>3 DEF PartOf, leaves
<1> HIDE DEF f
<1>2. 0 \in Forward
  BY <1>0, <1>1 DEF HonestLevels
<1>3. ASSUME NEW k \in Nat, k \in Forward
      PROVE  k + 1 \in Forward
  <2> SUFFICES ASSUME k + 1 <= height PROVE Reached(k + 1)
    OBVIOUS
  <2>1. k \in 0..height /\ k + 1 \in 1..height /\ (k + 1) - 1 = k /\ Reached(k)
    BY <1>0, <1>3
  <2> DEFINE S == at[k]
             n == size[k]
             above == level[k + 1]
             here == level[k]
  <2>2. n \in Nat \ {0} /\ size[k + 1] = CeilDiv(n, a) /\ S # {} /\ S \subseteq 0..n - 1
    BY <2>1 DEF HonestLevels
  <2>3. /\ proof.sibling_levels[k + 1] = JointSiblings(here, S, a, n)
        /\ Hashed(above, here, S, a, n)
        /\ at[k + 1] = Above(S, a)
    BY <2>1 DEF HonestLevels
  <2>4. f[k + 1] = Turn(PartOf(here, S, n), JointSiblings(here, S, a, n), a)
    <3>1. f[k + 1] = Turn(f[k], proof.sibling_levels[k + 1], a)
      BY <1>1, <2>1
    <3>2. f[k] = PartOf(here, S, n)
      BY <2>1
    <3> QED BY <2>3, <3>1, <3>2
  <2> HIDE DEF S, n, above, here
  <2>5. f[k + 1] = PartOf(above, Above(S, a), CeilDiv(n, a))
    <3>1. Turn(PartOf(here, S, n), JointSiblings(here, S, a, n), a)
             = PartOf(above, Above(S, a), CeilDiv(n, a))
      BY <1>0, <2>2, <2>3, TurnCompletes
    <3> QED BY <2>4, <3>1
  <2>6. \A j \in S : j \div a \in 0..CeilDiv(n, a) - 1
    <3> TAKE j \in S
    <3>1. j \in 0..n - 1
      BY <2>2
    <3> QED BY <1>0, <2>2, <3>1, ParentInLevel
  <2>7. at[k + 1] # {} /\ at[k + 1] \subseteq 0..size[k + 1] - 1
    <3>1. at[k + 1] = Above(S, a) /\ size[k + 1] = CeilDiv(n, a) /\ S # {}
      BY <2>2, <2>3
    <3> QED BY <2>6, <3>1 DEF Above
  <2>8. f[k + 1] = PartOf(above, at[k + 1], size[k + 1])
    BY <2>2, <2>3, <2>5
  <2> QED BY <2>7, <2>8 DEF above
<1>4. Reached(height)
  <2>1. \A k \in Nat : k \in Forward
    <3> HIDE DEF Forward
    <3> QED BY <1>2, <1>3, SetInduction
  <2> HIDE DEF Reached
  <2> QED BY <1>0, <2>1
<1>5. at[height] = {0}
  BY <1>0, <1>4
<1>6. f[height].nodes = [j \in {0} |-> level[height][j]]
  BY <1>4, <1>5 DEF PartOf, Part
<1> QED BY <1>0, <1>6 DEF verify_multiproof, f

\* The nodes on level k above some leaves.
NodesAt(S, a, height, k) == {Ancestors(i, a, height)[k] : i \in S}

LEMMA NodesAtUnfold ==
  ASSUME NEW height \in Nat, NEW a, NEW S
  PROVE  /\ NodesAt(S, a, height, 0) = S
         /\ \A k \in 1..height :
               NodesAt(S, a, height, k) = Above(NodesAt(S, a, height, k - 1), a)
<1>1. \A i \in S : Ancestors(i, a, height)[0] = i
  BY AncestorsUnfold
<1>2. \A i \in S : \A k \in 1..height :
         Ancestors(i, a, height)[k] = Ancestors(i, a, height)[k - 1] \div a
  BY AncestorsUnfold
<1>3. ASSUME NEW k \in 1..height
      PROVE  NodesAt(S, a, height, k) = Above(NodesAt(S, a, height, k - 1), a)
  BY <1>2 DEF NodesAt, Above
<1> QED BY <1>1, <1>3 DEF NodesAt

\* The parts of an opener's proof.
Parts(proof, level, T, S, a) ==
    /\ proof.tree_size = Size(level[0]) /\ proof.arity = a
    /\ Len(proof.sibling_levels) = T
    /\ \A k \in 1..T :
          proof.sibling_levels[k]
            = JointSiblings(level[k - 1], NodesAt(S, a, T, k - 1), a, Size(level[k - 1]))

LEMMA MultiproofParts ==
  ASSUME NEW T \in Nat, NEW level, NEW levels, levels = [k \in 1..T + 1 |-> level[k - 1]],
         NEW S, NEW a
  PROVE  Parts(multiproof(levels, S, a), level, T, S, a)
<1> DEFINE proof == multiproof(levels, S, a)
           Siblings(k) == JointSiblings(levels[k], NodesAt(S, a, T, k - 1), a, Size(levels[k]))
<1>1. Len(levels) - 1 = T /\ levels[1] = level[0] /\ \A k \in 1..T : levels[k] = level[k - 1]
  BY Zenon, SMT
<1>2. proof.sibling_levels = [k \in 1..T |-> Siblings(k)]
  <2>1. \A k \in 1..T : {Ancestors(i, a, T)[k - 1] : i \in S} = NodesAt(S, a, T, k - 1)
    BY DEF NodesAt
  <2>2. proof.sibling_levels
          = [k \in 1..T |->
              JointSiblings(levels[k], {Ancestors(i, a, T)[k - 1] : i \in S}, a, Size(levels[k]))]
    <3> DEFINE At(h, k) ==
                 JointSiblings(levels[k], {Ancestors(i, a, h)[k - 1] : i \in S}, a, Size(levels[k]))
               Listing(h) == [k \in 1..h |-> At(h, k)]
    <3>1. proof.sibling_levels = Listing(Len(levels) - 1)
      BY DEF multiproof, JointSiblings
    <3> HIDE DEF Listing
    <3>2. proof.sibling_levels = Listing(T)
      BY <1>1, <3>1
    <3> QED BY <3>2 DEF Listing
  <2> QED BY <2>1, <2>2
<1>3. proof.tree_size = Size(levels[1]) /\ proof.arity = a
  BY DEF multiproof
<1> HIDE DEF proof, Siblings
<1>4. Len(proof.sibling_levels) = T /\ \A k \in 1..T : proof.sibling_levels[k] = Siblings(k)
  BY <1>2
<1> QED BY <1>1, <1>3, <1>4 DEF proof, Siblings, Parts

\* Levels of a tree up to its root.
Sized(level, T, a) ==
    /\ T \in Nat /\ a \in Nat \ {0, 1}
    /\ \A k \in 0..T : Size(level[k]) \in Nat \ {0}
    /\ \A k \in 1..T : Size(level[k]) = CeilDiv(Size(level[k - 1]), a)
    /\ Size(level[T]) = 1

\* The nodes above some leaves lie in their levels.
LEMMA NodesInside ==
  ASSUME NEW level, NEW T, NEW a, Sized(level, T, a), NEW i \in 0..Size(level[0]) - 1
  PROVE  \A k \in 0..T : Ancestors(i, a, T)[k] \in 0..Size(level[k]) - 1
<1> DEFINE idx == Ancestors(i, a, T)
           Forward == {k \in Nat : k <= T => idx[k] \in 0..Size(level[k]) - 1}
<1>1. T \in Nat /\ a \in Nat \ {0, 1}
  BY DEF Sized
<1>2. idx[0] = i /\ \A k \in 1..T : idx[k] = idx[k - 1] \div a
  BY <1>1, AncestorsUnfold
<1> HIDE DEF idx
<1>3. 0 \in Forward
  BY <1>2
<1>4. ASSUME NEW k \in Nat, k \in Forward PROVE k + 1 \in Forward
  <2> SUFFICES ASSUME k + 1 <= T PROVE idx[k + 1] \in 0..Size(level[k + 1]) - 1
    OBVIOUS
  <2>1. k \in 0..T /\ k + 1 \in 1..T /\ (k + 1) - 1 = k /\ idx[k] \in 0..Size(level[k]) - 1
    BY <1>1, <1>4
  <2>2. Size(level[k]) \in Nat \ {0} /\ Size(level[k + 1]) = CeilDiv(Size(level[k]), a)
    BY <2>1 DEF Sized
  <2>3. idx[k + 1] = idx[k] \div a
    BY <1>2, <2>1
  <2>4. idx[k] \div a \in 0..CeilDiv(Size(level[k]), a) - 1
    BY <1>1, <2>1, <2>2, ParentInLevel
  <2> QED BY <2>2, <2>3, <2>4
<1>5. \A k \in Nat : k \in Forward
  <2> HIDE DEF Forward
  <2> QED BY <1>3, <1>4, SetInduction
<1> QED BY <1>1, <1>5 DEF idx

\* The openings of several leaves verify when all the groups above them are
\* hashed.
LEMMA MultiproofVerifies ==
  ASSUME NEW level, NEW T, NEW a, Sized(level, T, a),
         NEW levels, levels = [k \in 1..T + 1 |-> level[k - 1]],
         NEW S, S # {}, S \subseteq 0..Size(level[0]) - 1,
         \A k \in 1..T :
            Hashed(level[k], level[k - 1], NodesAt(S, a, T, k - 1), a, Size(level[k - 1]))
  PROVE  verify_multiproof(level[T][0], Part(level[0], S), multiproof(levels, S, a))
<1> DEFINE proof == multiproof(levels, S, a)
           size == [k \in 0..T |-> Size(level[k])]
           at == [k \in 0..T |-> NodesAt(S, a, T, k)]
<1>1. T \in Nat /\ a \in Nat \ {0, 1}
  BY DEF Sized
<1>2. Parts(proof, level, T, S, a)
  BY <1>1, MultiproofParts
<1>3. /\ NodesAt(S, a, T, 0) = S
      /\ \A k \in 1..T : NodesAt(S, a, T, k) = Above(NodesAt(S, a, T, k - 1), a)
  BY <1>1, NodesAtUnfold
<1> HIDE DEF proof
<1>4. /\ \A k \in 0..T : size[k] = Size(level[k]) /\ at[k] = NodesAt(S, a, T, k)
      /\ 0 \in 0..T /\ T \in 0..T /\ \A k \in 1..T : k \in 0..T /\ k - 1 \in 0..T
  BY <1>1
<1> HIDE DEF size, at
<1>5. HonestLevels(proof, T, a, size, level, at)
  <2>1. size[0] = proof.tree_size /\ size[T] = 1 /\ \A k \in 0..T : size[k] \in Nat \ {0}
    BY <1>2, <1>4 DEF Sized, Parts
  <2>2. at[0] = S /\ at[0] # {} /\ at[0] \subseteq 0..size[0] - 1
    BY <1>3, <1>4
  <2>3. ASSUME NEW k \in 1..T
        PROVE  /\ size[k] = CeilDiv(size[k - 1], a)
               /\ at[k] = Above(at[k - 1], a)
               /\ proof.sibling_levels[k]
                    = JointSiblings(level[k - 1], at[k - 1], a, size[k - 1])
               /\ Hashed(level[k], level[k - 1], at[k - 1], a, size[k - 1])
    <3>1. /\ size[k] = Size(level[k]) /\ size[k - 1] = Size(level[k - 1])
          /\ at[k] = NodesAt(S, a, T, k) /\ at[k - 1] = NodesAt(S, a, T, k - 1)
      BY <1>4
    <3>2. Size(level[k]) = CeilDiv(Size(level[k - 1]), a)
      BY DEF Sized
    <3> QED BY <1>2, <1>3, <3>1, <3>2 DEF Parts
  <2> QED BY <1>1, <1>2, <2>1, <2>2, <2>3 DEF HonestLevels, Parts
<1>6. verify_multiproof(level[T][0], Part(level[0], at[0]), proof)
  BY <1>5, TogetherCompletes
<1>7. at[0] = S
  BY <1>3, <1>4
<1> QED BY <1>6, <1>7 DEF proof

\* A binary tree hashes every group, the last one too.
LEMMA PairsHashed ==
  ASSUME NEW level, NEW n \in Nat \ {0}, Level(level, n), NEW S, S \subseteq 0..n - 1
  PROVE  Hashed(PairUp(level), level, S, 2, n)
<1>1. Size(level) = n
  BY LevelSize
<1>2. ASSUME NEW j \in S PROVE PairUp(level)[j \div 2] = _hash_children(Members(level, 2, n, j))
  <2> DEFINE i == j \div 2
  <2>1. j \in 0..n - 1 /\ i \in Nat /\ i * 2 <= j /\ i \in 0..CeilDiv(n, 2) - 1
    BY Quotient, ParentInLevel
  <2> HIDE DEF i
  <2>2. PairUp(level)[i] = _hash_children(<<level[2 * i], level[Least(2 * i + 1, n - 1)]>>)
    BY <1>1, <2>1 DEF PairUp
  <2>3. /\ Least(i * 2 + 1 - 1, n - 1) = 2 * i
        /\ i * 2 + 2 - 1 = 2 * i + 1
    BY <2>1 DEF Least
  <2>4. [o \in 1..2 |-> level[Least(i * 2 + o - 1, n - 1)]]
          = <<level[2 * i], level[Least(2 * i + 1, n - 1)]>>
    BY <2>3
  <2> QED BY <2>2, <2>4 DEF Members, i
<1> QED BY <1>2 DEF Hashed

\* A tree of any arity hashes every group but one of a single node.
LEMMA GroupHashed ==
  ASSUME NEW level, NEW n \in Nat \ {0}, NEW a \in Nat \ {0, 1}, Level(level, n),
         NEW j \in 0..n - 1, (j \div a) * a # n - 1
  PROVE  GroupUp(level, a)[j \div a] = _hash_children(Members(level, a, n, j))
<1> DEFINE Above_j == GroupUp(level, a)[j \div a]
<1>1. /\ (j \div a) * a = n - 1 => Above_j = level[n - 1]
      /\ (j \div a) * a # n - 1 =>
            Above_j = _hash_children([o \in 1..a |-> level[Group(j, a, n)[o]]])
  <2>1. Grouped(GroupUp(level, a), level, j, a, n)
    BY GroupUpLevel
  <2> QED BY <2>1 DEF Grouped
<1>2. [o \in 1..a |-> level[Group(j, a, n)[o]]] = Members(level, a, n, j)
  BY DEF Group, Members
<1> QED BY <1>1, <1>2

LEMMA GroupsHashed ==
  ASSUME NEW level, NEW n \in Nat \ {0}, NEW a \in Nat \ {0, 1}, Level(level, n),
         NEW S, S \subseteq 0..n - 1, \A j \in S : (j \div a) * a # n - 1
  PROVE  Hashed(GroupUp(level, a), level, S, a, n)
<1>1. ASSUME NEW j \in S
      PROVE  GroupUp(level, a)[j \div a] = _hash_children(Members(level, a, n, j))
  <2>1. j \in 0..n - 1 /\ (j \div a) * a # n - 1
    OBVIOUS
  <2> QED BY <2>1, GroupHashed
<1> QED BY <1>1 DEF Hashed

\* The openings of several leaves of a binary tree verify.
LEMMA PairMultiproofVerifies ==
  ASSUME NEW n \in Nat \ {0}, NEW leaves, Level(leaves, n), NEW S, S # {}, S \subseteq 0..n - 1
  PROVE  verify_multiproof(root_from_levels(build_levels(leaves)), Part(leaves, S),
                           multiproof(build_levels(leaves), S, 2))
<1> DEFINE level == LevelsOver(leaves)
           T == Top(level)
           levels == [k \in 1..T + 1 |-> level[k - 1]]
<1>1. /\ level[0] = leaves
      /\ \A k \in 1..n : level[k] = PairUp(level[k - 1])
      /\ \A k \in 0..n : Size(level[k]) \in Nat \ {0} /\ Level(level[k], Size(level[k]))
      /\ T \in 0..n /\ Size(level[T]) = 1
  BY LevelsShape
<1>2. root_from_levels(build_levels(leaves)) = level[T][0]
  BY RootOfLevels
<1>3. build_levels(leaves) = levels
  BY DEF build_levels
<1>4. Size(level[0]) = n
  BY <1>1, LevelSize
<1> HIDE DEF T, level
<1>5. \A k \in 1..T : k \in 1..n /\ k - 1 \in 0..n /\ k - 1 \in 0..T
  BY <1>1
<1>6. Sized(level, T, 2)
  <2>1. ASSUME NEW k \in 1..T PROVE Size(level[k]) = CeilDiv(Size(level[k - 1]), 2)
    <3>1. Size(level[k - 1]) \in Nat \ {0} /\ Level(level[k - 1], Size(level[k - 1]))
      BY <1>1, <1>5
    <3>2. level[k] = PairUp(level[k - 1])
      BY <1>1, <1>5
    <3> QED BY <3>1, <3>2, PairUpLevel
  <2>2. \A k \in 0..T : k \in 0..n
    BY <1>1
  <2> QED BY <1>1, <2>1, <2>2 DEF Sized
<1>7. ASSUME NEW k \in 1..T
      PROVE  Hashed(level[k], level[k - 1], NodesAt(S, 2, T, k - 1), 2, Size(level[k - 1]))
  <2>1. Size(level[k - 1]) \in Nat \ {0} /\ Level(level[k - 1], Size(level[k - 1]))
    BY <1>1, <1>5
  <2>2. level[k] = PairUp(level[k - 1])
    BY <1>1, <1>5
  <2>3. NodesAt(S, 2, T, k - 1) \subseteq 0..Size(level[k - 1]) - 1
    <3>1. ASSUME NEW i \in S PROVE Ancestors(i, 2, T)[k - 1] \in 0..Size(level[k - 1]) - 1
      <4>1. i \in 0..Size(level[0]) - 1
        BY <1>4
      <4> QED BY <1>5, <1>6, <4>1, NodesInside
    <3> QED BY <3>1 DEF NodesAt
  <2> QED BY <2>1, <2>2, <2>3, PairsHashed
<1> HIDE DEF levels
<1>8. verify_multiproof(level[T][0], Part(level[0], S), multiproof(levels, S, 2))
  <2>1. S # {} /\ S \subseteq 0..Size(level[0]) - 1
    BY <1>4
  <2> QED BY <1>6, <1>7, <2>1, MultiproofVerifies DEF levels
<1> QED BY <1>1, <1>2, <1>3, <1>8

\* The sizes of the levels, from the number of leaves alone.
LEMMA WidthsOfLevels ==
  ASSUME NEW n \in Nat \ {0}, NEW leaves, Level(leaves, n)
  PROVE  \A k \in 0..n : Widths(n)[k] = Size(KaryLevelsOver(leaves, CHUNK_TREE_ARITY)[k])
<1> DEFINE a == CHUNK_TREE_ARITY
           level == KaryLevelsOver(leaves, a)
           size == [k \in 0..n |-> Size(level[k])]
           F(g) == [k \in 0..n |-> IF k = 0 THEN n ELSE CeilDiv(g[k - 1], a)]
           width == Widths(n)
           Same == {k \in Nat : k <= n => width[k] = size[k]}
<1>1. a \in Nat \ {0, 1}
  BY CommitmentAssumption
<1>2. /\ level[0] = leaves
      /\ \A k \in 1..n : level[k] = GroupUp(level[k - 1], a)
      /\ \A k \in 0..n : Size(level[k]) \in Nat \ {0} /\ Level(level[k], Size(level[k]))
      /\ \A k \in 1..n : Size(level[k]) = CeilDiv(Size(level[k - 1]), a)
  <2> HIDE DEF a, level, size, width, Same, F
  <2>1. KaryShape(level, leaves, n, a)
    BY <1>1, KaryLevelsShape DEF level
  <2> QED BY <2>1 DEF KaryShape
<1>3. Size(level[0]) = n
  BY <1>2, LevelSize
<1> HIDE DEF a, level
<1>4. size[0] = n /\ \A k \in 1..n : size[k] = CeilDiv(size[k - 1], a)
  BY <1>2, <1>3
<1>5. size = F(size)
  <2>1. \A k \in 0..n : size[k] = IF k = 0 THEN n ELSE CeilDiv(size[k - 1], a)
    BY <1>4
  <2>2. size = [k \in 0..n |-> size[k]]
    OBVIOUS
  <2> HIDE DEF size
  <2> QED BY <2>1, <2>2
<1>6. width = CHOOSE g : g = F(g)
  BY DEF Widths, a
<1>7. width = F(width)
  <2> HIDE DEF F, size, width
  <2> QED BY <1>5, <1>6
<1>8. \A k \in Nat : k \in Same
  <2>1. 0 \in Same
    BY <1>4, <1>7
  <2>2. ASSUME NEW k \in Nat, k \in Same PROVE k + 1 \in Same
    <3> SUFFICES ASSUME k + 1 <= n PROVE width[k + 1] = size[k + 1]
      OBVIOUS
    <3>1. k + 1 \in 0..n /\ k + 1 \in 1..n /\ (k + 1) - 1 = k /\ k + 1 # 0 /\ width[k] = size[k]
      BY <2>2
    <3>2. width[k + 1] = CeilDiv(width[k], a)
      <4> HIDE DEF width
      <4> QED BY <1>7, <3>1
    <3>3. size[k + 1] = CeilDiv(size[k], a)
      BY <1>4, <3>1
    <3> QED BY <3>1, <3>2, <3>3
  <2> HIDE DEF Same
  <2> QED BY <2>1, <2>2, SetInduction
<1>9. ASSUME NEW k \in 0..n PROVE width[k] = Size(level[k])
  <2>1. k \in Nat
    OBVIOUS
  <2>2. k \in Same
    <3> HIDE DEF Same
    <3> QED BY <1>8, <2>1
  <2> QED BY <2>2
<1> QED BY <1>9 DEF level, a

\* The root of a tree of any arity is that of its first level with one node.
LEMMA RootOfKaryLevels ==
  ASSUME NEW leaves, NEW n \in Nat \ {0}, NEW a \in Nat \ {0, 1}, Level(leaves, n)
  PROVE  root_from_levels(build_kary_levels(leaves, a))
           = KaryLevelsOver(leaves, a)[Top(KaryLevelsOver(leaves, a))][0]
<1> DEFINE level == KaryLevelsOver(leaves, a)
           T == Top(level)
           levels == [k \in 1..T + 1 |-> level[k - 1]]
<1>1. T \in Nat
  BY KaryLevelsShape DEF KaryShape
<1>2. build_kary_levels(leaves, a) = levels
  BY DEF build_kary_levels
<1> HIDE DEF T, level
<1>3. Len(levels) = T + 1 /\ levels[T + 1] = level[T]
  BY <1>1
<1> QED BY <1>2, <1>3 DEF root_from_levels, Last, T, level

\* The way up is the same whatever the height.
LEMMA SameAncestors ==
  ASSUME NEW i, NEW a, NEW n \in Nat, NEW T \in 0..n
  PROVE  \A k \in 0..T : Ancestors(i, a, T)[k] = Ancestors(i, a, n)[k]
<1> DEFINE one == Ancestors(i, a, T)
           other == Ancestors(i, a, n)
           Same == {k \in Nat : k <= T => one[k] = other[k]}
<1>1. one[0] = i /\ \A k \in 1..T : one[k] = one[k - 1] \div a
  BY AncestorsUnfold
<1>2. other[0] = i /\ \A k \in 1..n : other[k] = other[k - 1] \div a
  BY AncestorsUnfold
<1> HIDE DEF one, other
<1>3. \A k \in Nat : k \in Same
  <2>1. 0 \in Same
    BY <1>1, <1>2
  <2>2. ASSUME NEW k \in Nat, k \in Same PROVE k + 1 \in Same
    <3> SUFFICES ASSUME k + 1 <= T PROVE one[k + 1] = other[k + 1]
      OBVIOUS
    <3>1. k + 1 \in 1..T /\ k + 1 \in 1..n /\ (k + 1) - 1 = k /\ one[k] = other[k]
      BY <2>2
    <3>2. one[k + 1] = one[k] \div a
      BY <1>1, <3>1
    <3>3. other[k + 1] = other[k] \div a
      BY <1>2, <3>1
    <3> QED BY <3>1, <3>2, <3>3
  <2> HIDE DEF Same
  <2> QED BY <2>1, <2>2, SetInduction
<1>4. ASSUME NEW k \in 0..T PROVE one[k] = other[k]
  <2>1. k \in Nat
    OBVIOUS
  <2>2. k \in Same
    <3> HIDE DEF Same
    <3> QED BY <1>3, <2>1
  <2> QED BY <2>2
<1> QED BY <1>4 DEF one, other

\* The levels below the top have more than one node.
LEMMA TopFirst ==
  ASSUME NEW n \in Nat \ {0}, NEW a \in Nat \ {0, 1}, NEW level,
         DOMAIN level = 0..n, Size(level[0]) = n,
         \A k \in 1..n : Size(level[k]) = CeilDiv(Size(level[k - 1]), a)
  PROVE  \A m \in 0..Top(level) - 1 : Size(level[m]) # 1
<1>1. SingleFirstAt(level, Top(level))
  BY TopReached
<1> QED BY <1>1 DEF SingleFirstAt

\* The openings of several chunks verify, unless one of them is alone in a
\* group on its way up.
LEMMA KaryMultiproofVerifies ==
  ASSUME NEW n \in Nat \ {0}, NEW leaves, Level(leaves, n), NEW S, S # {}, S \subseteq 0..n - 1,
         \A c \in S : ~ Alone(c, n)
  PROVE  verify_multiproof(root_from_levels(build_kary_levels(leaves, CHUNK_TREE_ARITY)),
                           Part(leaves, S),
                           multiproof(build_kary_levels(leaves, CHUNK_TREE_ARITY), S,
                                      CHUNK_TREE_ARITY))
<1> DEFINE a == CHUNK_TREE_ARITY
           level == KaryLevelsOver(leaves, a)
           T == Top(level)
           levels == [k \in 1..T + 1 |-> level[k - 1]]
<1>0. a \in Nat \ {0, 1}
  BY CommitmentAssumption
<1>1. /\ DOMAIN level = 0..n /\ level[0] = leaves
      /\ \A k \in 1..n : level[k] = GroupUp(level[k - 1], a)
      /\ \A k \in 0..n : Size(level[k]) \in Nat \ {0} /\ Level(level[k], Size(level[k]))
      /\ \A k \in 1..n : Size(level[k]) = CeilDiv(Size(level[k - 1]), a)
      /\ T \in 0..n /\ Size(level[T]) = 1
  <2> HIDE DEF a, level, T
  <2>1. KaryShape(level, leaves, n, a)
    BY <1>0, KaryLevelsShape DEF level
  <2>2. T = Top(level)
    BY DEF T
  <2> QED BY <2>1, <2>2 DEF KaryShape
<1>2. root_from_levels(build_kary_levels(leaves, a)) = level[T][0]
  <2> HIDE DEF a
  <2> QED BY <1>0, RootOfKaryLevels
<1>3. build_kary_levels(leaves, a) = levels
  BY DEF build_kary_levels
<1>4. \A k \in 0..n : Widths(n)[k] = Size(level[k])
  BY WidthsOfLevels
<1> HIDE DEF a, level
<1>5. Size(level[0]) = n
  BY <1>1, LevelSize
<1>6. \A m \in 0..T - 1 : Size(level[m]) # 1
  BY <1>0, <1>1, <1>5, TopFirst
<1> HIDE DEF T
<1>7. \A k \in 1..T : k \in 1..n /\ k - 1 \in 0..n /\ k - 1 \in 0..T /\ k - 1 \in 0..T - 1
  BY <1>1
<1>8. Sized(level, T, a)
  <2>1. \A k \in 0..T : k \in 0..n
    BY <1>1
  <2> QED BY <1>0, <1>1, <1>7, <2>1 DEF Sized
<1>9. ASSUME NEW k \in 1..T
      PROVE  Hashed(level[k], level[k - 1], NodesAt(S, a, T, k - 1), a, Size(level[k - 1]))
  <2> DEFINE size == Size(level[k - 1])
             nodes == NodesAt(S, a, T, k - 1)
  <2>1. size \in Nat \ {0} /\ size # 1 /\ Level(level[k - 1], size)
    BY <1>1, <1>6, <1>7
  <2>2. level[k] = GroupUp(level[k - 1], a)
    BY <1>1, <1>7
  <2>3. ASSUME NEW i \in S
        PROVE  /\ Ancestors(i, a, T)[k - 1] \in 0..size - 1
               /\ (Ancestors(i, a, T)[k - 1] \div a) * a # size - 1
    <3> DEFINE j == Ancestors(i, a, T)[k - 1]
    <3>1. j \in 0..size - 1
      <4>1. i \in 0..Size(level[0]) - 1
        BY <1>5
      <4> QED BY <1>7, <1>8, <4>1, NodesInside
    <3>2. j = Ancestors(i, a, n)[k - 1]
      BY <1>1, <1>7, SameAncestors
    <3>3. k - 1 \in 0..n /\ Widths(n)[k - 1] = size
      BY <1>4, <1>7
    <3>4. ~ (size > 1 /\ j = size - 1 /\ j % a = 0)
      <4>1. ~ Alone(i, n)
        OBVIOUS
      <4> HIDE DEF size, j
      <4> QED BY <3>2, <3>3, <4>1 DEF Alone, a
    <3>5. ~ (j = size - 1 /\ j % a = 0)
      BY <2>1, <3>4
    <3> HIDE DEF j, size
    <3>6. ASSUME (j \div a) * a = size - 1 PROVE FALSE
      <4>1. j \in Nat /\ (j \div a) * a <= j /\ j % a \in 0..a - 1 /\ (j \div a) * a \in Nat
            /\ j = (j \div a) * a + (j % a)
        <5>1. j \in Nat /\ a \in Nat \ {0}
          BY <1>0, <2>1, <3>1
        <5> QED BY <5>1, Quotient
      <4>2. j = size - 1 /\ j % a = 0
        <5> DEFINE g == (j \div a) * a
                   r == j % a
        <5>1. g \in Nat /\ g <= j /\ r \in 0..a - 1 /\ j = g + r /\ g = size - 1
          BY <3>6, <4>1
        <5> HIDE DEF g
        <5>2. j = size - 1
          BY <2>1, <3>1, <5>1
        <5> HIDE DEF r
        <5>3. r = 0
          BY <1>0, <2>1, <5>1, <5>2
        <5> QED BY <5>2, <5>3 DEF r
      <4> QED BY <3>5, <4>2
    <3> QED BY <3>1, <3>6 DEF j
  <2>4. nodes \subseteq 0..size - 1 /\ \A j \in nodes : (j \div a) * a # size - 1
    BY <2>3 DEF NodesAt
  <2> HIDE DEF size, nodes
  <2>5. Hashed(GroupUp(level[k - 1], a), level[k - 1], nodes, a, size)
    BY <1>0, <2>1, <2>4, GroupsHashed
  <2> QED BY <2>2, <2>5 DEF size, nodes
<1> HIDE DEF levels
<1>10. verify_multiproof(level[T][0], Part(level[0], S), multiproof(levels, S, a))
  <2>1. S # {} /\ S \subseteq 0..Size(level[0]) - 1
    BY <1>5
  <2> QED BY <1>8, <1>9, <2>1, MultiproofVerifies DEF levels
<1> QED BY <1>1, <1>2, <1>3, <1>10 DEF a

(* ------------------ another place or another value -------------------- *)

\* Only the node at its place and the node beside it lead to the parent.
LEMMA PairStepSound ==
  ASSUME NEW level, NEW n \in Nat \ {0}, Level(level, n), NEW i \in 0..n - 1, NEW x, NEW sibling,
         PairStep(x, i, sibling) = PairUp(level)[i \div 2]
  PROVE  x = level[i] /\ sibling = level[Beside(i, n)]
<1> DEFINE h == i \div 2
           left == 2 * h
           right == Least(2 * h + 1, n - 1)
<1>1. h \in Nat /\ h \in 0..CeilDiv(n, 2) - 1
  BY DEF CeilDiv
<1>2. PairUp(level)[h] = [node |-> <<level[left], level[right]>>]
  BY <1>1, LevelSize DEF PairUp, _hash_children
<1>3. ASSUME NEW u, NEW v, NEW y, NEW z, [node |-> <<u, v>>] = [node |-> <<y, z>>]
      PROVE  u = y /\ v = z
  <2>1. <<u, v>> = <<y, z>>
    <3>1. [node |-> <<u, v>>].node = [node |-> <<y, z>>].node
      BY <1>3
    <3> QED BY <3>1
  <2> QED BY <2>1
<1>4. CASE i % 2 = 0
  <2>1. i = left /\ Beside(i, n) = right
    BY <1>4 DEF Beside
  <2>2. [node |-> <<x, sibling>>] = [node |-> <<level[left], level[right]>>]
    BY <1>2, <1>4 DEF PairStep, _hash_children
  <2> HIDE DEF right, left
  <2> QED BY <1>3, <2>1, <2>2
<1>5. CASE i % 2 # 0
  <2>1. i = 2 * h + 1 /\ right = i /\ Beside(i, n) = left
    BY <1>5 DEF Beside, Least
  <2>2. [node |-> <<sibling, x>>] = [node |-> <<level[left], level[right]>>]
    BY <1>2, <1>5 DEF PairStep, _hash_children
  <2> HIDE DEF right, left
  <2> QED BY <1>3, <2>1, <2>2
<1> QED BY <1>4, <1>5

\* A path as long as the tree is high, whoever made it, verifies only for the
\* leaf at its position, and only if it begins with the leaf beside it.
THEOREM PathSound ==
  ASSUME NEW leaves, NEW n \in Nat \ {0}, Level(leaves, n), NEW i \in 0..n - 1, NEW leaf,
         NEW path, Len(path) = Top(LevelsOver(leaves)),
         verify(root_from_levels(build_levels(leaves)), leaf, i, path)
  PROVE  leaf = leaves[i] /\ (n # 1 => path[1] = leaves[Beside(i, n)])
<1> DEFINE level == LevelsOver(leaves)
           T == Top(level)
           idx == Ancestors(i, 2, T)
           at == PairClimb(leaf, i, path)
           Inside == {k \in Nat : k <= T => idx[k] \in 0..Size(level[k]) - 1}
           Right(k) == at[k] = level[k][idx[k]]
           Down == {d \in Nat : d <= T => Right(T - d)}
<1>1. /\ level[0] = leaves
      /\ \A k \in 1..n : level[k] = PairUp(level[k - 1])
      /\ \A k \in 0..n : Size(level[k]) \in Nat \ {0} /\ Level(level[k], Size(level[k]))
      /\ T \in 0..n /\ Size(level[T]) = 1
  BY LevelsShape
<1>2. level[T][0] = at[T]
  <2>1. root_from_levels(build_levels(leaves)) = level[T][0]
    BY RootOfLevels
  <2>2. root_from_levels(build_levels(leaves)) = at[Len(path)]
    BY DEF verify, at
  <2> QED BY <2>1, <2>2
<1>3. idx[0] = i /\ \A k \in 1..T : idx[k] = idx[k - 1] \div 2
  <2> T \in Nat
    BY <1>1
  <2> HIDE DEF T
  <2> QED BY AncestorsUnfold
<1>4. /\ at[0] = leaf
      /\ \A k \in 1..T : at[k] = PairStep(at[k - 1], idx[k - 1], path[k])
  <2>1. T \in Nat /\ Len(path) = T
    BY <1>1
  <2> HIDE DEF T
  <2> QED BY <2>1, PairClimbUnfold
<1> HIDE DEF level, T, idx, at
<1>5. \A k \in 0..T : idx[k] \in 0..Size(level[k]) - 1
  <2>1. 0 \in Inside
    BY <1>1, <1>3, LevelSize
  <2>2. ASSUME NEW k \in Nat, k \in Inside PROVE k + 1 \in Inside
    <3> SUFFICES ASSUME k + 1 <= T PROVE idx[k + 1] \in 0..Size(level[k + 1]) - 1
      OBVIOUS
    <3>1. k \in 0..n /\ k + 1 \in 1..T /\ k + 1 \in 1..n /\ (k + 1) - 1 = k
      BY <1>1
    <3> DEFINE m == Size(level[k])
    <3>2. m \in Nat \ {0} /\ Level(level[k], m) /\ level[k + 1] = PairUp(level[k])
      BY <1>1, <3>1
    <3>3. idx[k] \in 0..m - 1 /\ idx[k + 1] = idx[k] \div 2
      BY <1>1, <1>3, <2>2, <3>1
    <3> HIDE DEF m
    <3>4. idx[k] \div 2 \in 0..Size(PairUp(level[k])) - 1
      BY <3>2, <3>3, PairBinds
    <3> QED BY <3>2, <3>3, <3>4
  <2>3. \A k \in Nat : k \in Inside
    <3> HIDE DEF Inside
    <3> QED BY <2>1, <2>2, SetInduction
  <2> QED BY <1>1, <2>3
<1>6. ASSUME NEW k \in 1..T, Right(k)
      PROVE  Right(k - 1) /\ path[k] = level[k - 1][Beside(idx[k - 1], Size(level[k - 1]))]
  <2>1. k \in 1..n /\ k - 1 \in 0..n /\ k - 1 \in 0..T
    BY <1>1
  <2> DEFINE m == Size(level[k - 1])
             below == level[k - 1]
             j == idx[k - 1]
  <2>2. /\ m \in Nat \ {0} /\ Level(below, m) /\ level[k] = PairUp(below)
        /\ j \in 0..m - 1 /\ idx[k] = j \div 2
        /\ at[k] = PairStep(at[k - 1], j, path[k])
    BY <1>1, <1>3, <1>4, <1>5, <2>1
  <2>3. PairStep(at[k - 1], j, path[k]) = PairUp(below)[j \div 2]
    BY <1>6, <2>2
  <2> HIDE DEF m, below, j
  <2>4. at[k - 1] = below[j] /\ path[k] = below[Beside(j, m)]
    BY <2>2, <2>3, PairStepSound
  <2> QED BY <2>4 DEF m, below, j
<1>7. \A k \in 0..T : Right(k)
  <2>1. 0 \in Down
    <3>1. T \in Nat /\ Size(level[T]) = 1
      BY <1>1
    <3>2. idx[T] \in 0..Size(level[T]) - 1
      BY <1>5, <3>1
    <3>3. idx[T] = 0 /\ T - 0 = T
      BY <3>1, <3>2
    <3> QED BY <1>2, <3>3
  <2>2. ASSUME NEW d \in Nat, d \in Down PROVE d + 1 \in Down
    <3> SUFFICES ASSUME d + 1 <= T PROVE Right(T - (d + 1))
      OBVIOUS
    <3> T \in Nat
      BY <1>1
    <3>1. T - d \in 1..T /\ T - (d + 1) = (T - d) - 1 /\ d <= T
      OBVIOUS
    <3>2. Right(T - d)
      BY <2>2, <3>1
    <3> HIDE DEF Right
    <3>3. Right((T - d) - 1)
      BY <1>6, <3>1, <3>2
    <3> QED BY <3>1, <3>3
  <2>3. \A d \in Nat : d \in Down
    <3> HIDE DEF Down
    <3> QED BY <2>1, <2>2, SetInduction
  <2> TAKE k \in 0..T
  <2>4. T - k \in Nat /\ T - k <= T /\ T - (T - k) = k
    BY <1>1
  <2>5. Right(T - (T - k))
    BY <2>3, <2>4
  <2> HIDE DEF Right
  <2> QED BY <2>4, <2>5
<1>8. leaf = leaves[i]
  <2>1. Right(0)
    BY <1>1, <1>7
  <2> QED BY <1>1, <1>3, <1>4, <2>1
<1>9. ASSUME n # 1 PROVE path[1] = leaves[Beside(i, n)]
  <2>1. Size(level[0]) = n
    BY <1>1, LevelSize
  <2>2. T # 0
    BY <1>1, <1>9, <2>1
  <2>3. 1 \in 1..T /\ 1 - 1 = 0
    BY <1>1, <2>2
  <2>4. Right(1)
    BY <1>1, <1>7, <2>3
  <2>5. path[1] = level[0][Beside(idx[0], Size(level[0]))]
    BY <1>6, <2>3, <2>4
  <2> QED BY <1>1, <1>3, <2>1, <2>5
<1> QED BY <1>8, <1>9

\* What a turn of the verifier's loop leaves beside the value.
LEMMA ClimbStepRest ==
  ASSUME NEW at, NEW siblings, NEW a
  PROVE  ClimbStep(at, siblings, a)
            = [acc |-> ClimbStep(at, siblings, a).acc, idx |-> at.idx \div a,
               size |-> CeilDiv(at.size, a)]
BY DEF ClimbStep

\* Only a node at its place leads to the node above, whatever its siblings.
LEMMA ClimbStepSound ==
  ASSUME NEW level, NEW n \in Nat \ {0}, NEW a \in Nat \ {0, 1}, Level(level, n),
         NEW i \in 0..n - 1, NEW value, NEW siblings, Len(siblings) = Cardinality(Others(i, a, n)),
         ClimbStep([acc |-> value, idx |-> i, size |-> n], siblings, a).acc
            = GroupUp(level, a)[i \div a]
  PROVE  value = level[i]
<1> DEFINE Theirs == Others(i, a, n)
           own == (i % a) + 1
           Above_i == GroupUp(level, a)[i \div a]
           mine == [o \in 1..a |-> IF o \in Theirs THEN siblings[Rank(Theirs, o)] ELSE value]
           built == [o \in 1..a |-> level[Group(i, a, n)[o]]]
<1>1. Above_i = IF Len(siblings) = 0 THEN value ELSE _hash_children(mine)
  BY DEF ClimbStep
<1>2. Len(siblings) = 0 <=> Theirs = {}
  <2>1. Cardinality(Others(i, a, n)) = 0 <=> Others(i, a, n) = {}
    BY SiblingsOfNode
  <2> QED BY <2>1 DEF Theirs
<1>3. own \in 1..a /\ own \notin Theirs /\ Group(i, a, n)[own] = i
  <2>1. (i % a) + 1 \in 1..a /\ Group(i, a, n)[(i % a) + 1] = i
        /\ (i % a) + 1 \notin Others(i, a, n)
    BY OwnPlace
  <2> QED BY <2>1 DEF Theirs, own
<1>4. Theirs = {} <=> (i \div a) * a = n - 1
  BY NoOthers
<1>5. /\ (i \div a) * a = n - 1 => Above_i = level[n - 1]
      /\ (i \div a) * a # n - 1 => Above_i = _hash_children(built)
  <2>1. Grouped(GroupUp(level, a), level, i, a, n)
    BY GroupUpLevel
  <2> QED BY <2>1 DEF Grouped
<1>6. Theirs = {} => i = n - 1
  <2>1. i \in Nat /\ (i \div a) * a <= i
    <3> i \in Nat
      OBVIOUS
    <3> QED BY Quotient
  <2> QED BY <1>4, <2>1
<1>7. mine[own] = value /\ built[own] = level[i]
  BY <1>3
<1> HIDE DEF Theirs, own, Above_i, mine, built
<1>8. CASE Theirs = {}
  BY <1>1, <1>2, <1>4, <1>5, <1>6, <1>8
<1>9. CASE Theirs # {}
  <2>1. _hash_children(mine) = _hash_children(built)
    BY <1>1, <1>2, <1>4, <1>5, <1>9
  <2>2. mine = built
    <3>1. _hash_children(mine).node = mine /\ _hash_children(built).node = built
      BY DEF _hash_children
    <3> QED BY <2>1, <3>1
  <2> QED BY <1>7, <2>2
<1> QED BY <1>8, <1>9

\* The same of trees of any arity.
THEOREM KaryPathSound ==
  ASSUME NEW leaves, NEW n \in Nat \ {0}, NEW a \in Nat \ {0, 1}, Level(leaves, n), NEW i, NEW leaf,
         NEW path, Len(path) = Top(KaryLevelsOver(leaves, a)),
         verify_kary(root_from_levels(build_kary_levels(leaves, a)), leaf, i, path, a, n)
  PROVE  i \in 0..n - 1 /\ leaf = leaves[i]
<1> DEFINE level == KaryLevelsOver(leaves, a)
           T == Top(level)
           idx == Ancestors(i, a, T)
           at == Climb(leaf, i, path, a, n)
           Placed(k) == /\ at[k] = [acc |-> at[k].acc, idx |-> idx[k], size |-> Size(level[k])]
                        /\ idx[k] \in 0..Size(level[k]) - 1
           Up == {k \in Nat : k <= T => Placed(k)}
           Right(k) == at[k].acc = level[k][idx[k]]
           Down == {d \in Nat : d <= T => Right(T - d)}
<1>1. KaryShape(level, leaves, n, a)
  BY KaryLevelsShape
<1>2. i \in 0..n - 1
  BY DEF verify_kary
<1>3. level[T][0] = at[T].acc
  <2>1. root_from_levels(build_kary_levels(leaves, a)) = level[T][0]
    BY HonestPath, <1>2
  <2>2. root_from_levels(build_kary_levels(leaves, a)) = at[Len(path)].acc
    BY DEF verify_kary, at
  <2> QED BY <2>1, <2>2
<1>4. \A k \in 1..T : Len(path[k]) = Cardinality(Others(at[k - 1].idx, a, at[k - 1].size))
  BY DEF verify_kary, at
<1>5. idx[0] = i /\ \A k \in 1..T : idx[k] = idx[k - 1] \div a
  <2> T \in Nat
    BY <1>1 DEF KaryShape
  <2> HIDE DEF T
  <2> QED BY AncestorsUnfold
<1>6. /\ at[0] = [acc |-> leaf, idx |-> i, size |-> n]
      /\ \A k \in 1..T : at[k] = ClimbStep(at[k - 1], path[k], a)
  <2>1. T \in Nat /\ Len(path) = T
    BY <1>1 DEF KaryShape
  <2> HIDE DEF T
  <2> QED BY <2>1, ClimbUnfold
<1>7. T \in 0..n /\ T \in Nat /\ Size(level[T]) = 1 /\ level[0] = leaves
  BY <1>1 DEF KaryShape
<1> HIDE DEF level, T, idx, at
<1>8. ASSUME NEW k \in 1..T
      PROVE  /\ k - 1 \in 0..T /\ idx[k] = idx[k - 1] \div a
             /\ Size(level[k - 1]) \in Nat \ {0} /\ Level(level[k - 1], Size(level[k - 1]))
             /\ level[k] = GroupUp(level[k - 1], a)
             /\ Size(level[k]) = CeilDiv(Size(level[k - 1]), a)
             /\ at[k] = ClimbStep(at[k - 1], path[k], a)
  <2>1. k \in 1..n /\ k - 1 \in 0..n /\ k - 1 \in 0..T
    BY <1>7
  <2> QED BY <1>1, <1>5, <1>6, <2>1 DEF KaryShape
<1>9. \A k \in 0..T : Placed(k)
  <2>1. 0 \in Up
    BY <1>2, <1>5, <1>6, <1>7, LevelSize
  <2>2. ASSUME NEW k \in Nat, k \in Up PROVE k + 1 \in Up
    <3> SUFFICES ASSUME k + 1 <= T PROVE Placed(k + 1)
      OBVIOUS
    <3>0. k + 1 \in 1..T /\ (k + 1) - 1 = k /\ k <= T
      BY <1>7
    <3>1. k + 1 \in 1..T /\ (k + 1) - 1 = k /\ Placed(k)
      BY <2>2, <3>0
    <3>2. /\ idx[k + 1] = idx[k] \div a /\ Size(level[k]) \in Nat \ {0}
          /\ Size(level[k + 1]) = CeilDiv(Size(level[k]), a)
          /\ at[k + 1] = ClimbStep(at[k], path[k + 1], a)
      BY <1>8, <3>1
    <3>3. at[k].idx = idx[k] /\ at[k].size = Size(level[k])
      BY <3>1
    <3>4. at[k + 1] = [acc |-> at[k + 1].acc, idx |-> idx[k] \div a,
                       size |-> CeilDiv(Size(level[k]), a)]
      BY <3>2, <3>3, ClimbStepRest
    <3>5. idx[k] \div a \in 0..CeilDiv(Size(level[k]), a) - 1
      BY <3>1, <3>2, ParentInLevel
    <3> QED BY <3>2, <3>4, <3>5
  <2>3. \A k \in Nat : k \in Up
    <3> HIDE DEF Up
    <3> QED BY <2>1, <2>2, SetInduction
  <2> QED BY <1>7, <2>3
<1>10. ASSUME NEW k \in 1..T, Right(k) PROVE Right(k - 1)
  <2> DEFINE m == Size(level[k - 1])
             below == level[k - 1]
             j == idx[k - 1]
             value == at[k - 1].acc
             siblings == path[k]
  <2>1. /\ m \in Nat \ {0} /\ Level(below, m) /\ level[k] = GroupUp(below, a) /\ idx[k] = j \div a
    BY <1>8
  <2>2. at[k - 1] = [acc |-> value, idx |-> j, size |-> m] /\ j \in 0..m - 1
    BY <1>8, <1>9
  <2>3. Len(siblings) = Cardinality(Others(j, a, m))
    <3>1. at[k - 1].idx = j /\ at[k - 1].size = m
      BY <2>2
    <3> QED BY <1>4, <3>1
  <2>4. at[k] = ClimbStep([acc |-> value, idx |-> j, size |-> m], siblings, a)
    BY <1>8, <2>2
  <2>5. ClimbStep([acc |-> value, idx |-> j, size |-> m], siblings, a).acc = GroupUp(below, a)[j \div a]
    BY <1>10, <2>1, <2>4
  <2> HIDE DEF m, below, j, value, siblings
  <2>6. value = below[j]
    BY <2>1, <2>2, <2>3, <2>5, ClimbStepSound
  <2> QED BY <2>6 DEF value, below, j
<1>11. Right(0)
  <2>1. 0 \in Down
    <3>1. idx[T] = 0
      <4>1. T \in 0..T /\ Size(level[T]) - 1 = 0
        BY <1>7
      <4>2. idx[T] \in 0..Size(level[T]) - 1
        BY <1>9, <4>1
      <4> QED BY <4>1, <4>2
    <3> QED BY <1>3, <1>7, <3>1
  <2>2. ASSUME NEW d \in Nat, d \in Down PROVE d + 1 \in Down
    <3> SUFFICES ASSUME d + 1 <= T PROVE Right(T - (d + 1))
      OBVIOUS
    <3> T \in Nat
      BY <1>7
    <3>1. T - d \in 1..T /\ T - (d + 1) = (T - d) - 1 /\ d <= T
      OBVIOUS
    <3>2. Right(T - d)
      BY <2>2, <3>1
    <3> HIDE DEF Right
    <3>3. Right((T - d) - 1)
      BY <1>10, <3>1, <3>2
    <3> QED BY <3>1, <3>3
  <2>3. \A d \in Nat : d \in Down
    <3> HIDE DEF Down
    <3> QED BY <2>1, <2>2, SetInduction
  <2>4. T \in Nat /\ T <= T /\ T - T = 0
    BY <1>7
  <2>5. Right(T - T)
    BY <2>3, <2>4
  <2> HIDE DEF Right
  <2> QED BY <2>4, <2>5
<1>12. leaf = leaves[i]
  BY <1>5, <1>6, <1>7, <1>11
<1> QED BY <1>2, <1>12

(* -------------------- a chunk alone in its group ---------------------- *)

\* A digest is nodes all the way down its last children to a leaf: the number
\* of nodes on the way is its depth.
LastChild(digest) == digest.node[Len(digest.node)]

Descent(way, digest, d) ==
    /\ way[0] = digest
    /\ \A j \in 0..d - 1 : way[j] = [node |-> way[j].node] /\ way[j + 1] = LastChild(way[j])
    /\ way[d] = [leaf |-> way[d].leaf]

HasDepth(digest, d) == \E way : Descent(way, digest, d)

LEMMA NoShorterDescent ==
  ASSUME NEW digest, NEW d \in Nat, NEW e \in Nat, HasDepth(digest, d), HasDepth(digest, e)
  PROVE  ~ d < e
<1> SUFFICES ASSUME d < e PROVE FALSE
  OBVIOUS
<1>1. PICK one : Descent(one, digest, d)
  BY DEF HasDepth
<1>2. PICK two : Descent(two, digest, e)
  BY DEF HasDepth
<1> DEFINE Same == {j \in Nat : j <= d => one[j] = two[j]}
<1>3. 0 \in Same
  BY <1>1, <1>2 DEF Descent
<1>4. ASSUME NEW j \in Nat, j \in Same PROVE j + 1 \in Same
  <2> SUFFICES ASSUME j + 1 <= d PROVE one[j + 1] = two[j + 1]
    OBVIOUS
  <2>1. j \in 0..d - 1 /\ j \in 0..e - 1 /\ one[j] = two[j]
    BY <1>4
  <2>2. one[j + 1] = LastChild(one[j]) /\ two[j + 1] = LastChild(two[j])
    BY <1>1, <1>2, <2>1 DEF Descent
  <2> QED BY <2>1, <2>2
<1>5. \A j \in Nat : j \in Same
  <2> HIDE DEF Same
  <2> QED BY <1>3, <1>4, SetInduction
<1>6. one[d] = two[d] /\ d \in 0..e - 1
  BY <1>5
<1>7. one[d] = [leaf |-> one[d].leaf] /\ two[d] = [node |-> two[d].node]
  BY <1>1, <1>2, <1>6 DEF Descent
<1>8. DOMAIN one[d] = {"leaf"} /\ DOMAIN two[d] = {"node"}
  <2>1. DOMAIN [leaf |-> one[d].leaf] = {"leaf"} /\ DOMAIN [node |-> two[d].node] = {"node"}
    OBVIOUS
  <2> QED BY <1>7, <2>1
<1> QED BY <1>6, <1>8

LEMMA DepthOfLeaf ==
  ASSUME NEW data
  PROVE  HasDepth([leaf |-> data], 0)
<1>1. Descent([j \in {0} |-> [leaf |-> data]], [leaf |-> data], 0)
  BY DEF Descent
<1> QED BY <1>1 DEF HasDepth

LEMMA DepthOfNode ==
  ASSUME NEW m \in Nat \ {0}, NEW children, children = [o \in 1..m |-> children[o]],
         NEW d \in Nat, HasDepth(children[m], d)
  PROVE  HasDepth(_hash_children(children), d + 1)
<1>1. PICK way : Descent(way, children[m], d)
  BY DEF HasDepth
<1> DEFINE digest == [node |-> children]
           up == [j \in 0..d + 1 |-> IF j = 0 THEN digest ELSE way[j - 1]]
<1>2. Len(children) = m
  OBVIOUS
<1>3. digest.node = children /\ LastChild(digest) = children[m]
  BY <1>2 DEF LastChild
<1> HIDE DEF digest
<1>4. up[0] = digest /\ \A j \in 1..d + 1 : up[j] = way[j - 1]
  OBVIOUS
<1> HIDE DEF up
<1>5. up[0] = [node |-> up[0].node] /\ up[0 + 1] = LastChild(up[0])
  <2>1. up[1] = way[0] /\ way[0] = children[m]
    BY <1>1, <1>4 DEF Descent
  <2>2. digest = [node |-> digest.node]
    BY <1>3 DEF digest
  <2> QED BY <1>3, <1>4, <2>1, <2>2
<1>6. ASSUME NEW j \in 0..d, j # 0
      PROVE  up[j] = [node |-> up[j].node] /\ up[j + 1] = LastChild(up[j])
  <2>1. j - 1 \in 0..d - 1 /\ (j - 1) + 1 = j /\ j \in 1..d + 1 /\ j + 1 \in 1..d + 1
        /\ (j + 1) - 1 = j
    BY <1>6
  <2>2. way[j - 1] = [node |-> way[j - 1].node] /\ way[j] = LastChild(way[j - 1])
    BY <1>1, <2>1 DEF Descent
  <2>3. up[j] = way[j - 1] /\ up[j + 1] = way[j]
    BY <1>4, <2>1
  <2> QED BY <2>2, <2>3
<1>7. up[d + 1] = [leaf |-> up[d + 1].leaf]
  <2>1. up[d + 1] = way[d]
    BY <1>4
  <2> QED BY <1>1, <2>1 DEF Descent
<1>8. \A j \in 0..(d + 1) - 1 : up[j] = [node |-> up[j].node] /\ up[j + 1] = LastChild(up[j])
  <2>1. (d + 1) - 1 = d
    OBVIOUS
  <2> QED BY <1>5, <1>6, <2>1
<1>9. Descent(up, digest, d + 1)
  BY <1>4, <1>7, <1>8 DEF Descent
<1> QED BY <1>9 DEF HasDepth, digest, _hash_children

\* The root of a binary tree over leaves that are not nodes has a depth.
LEMMA DepthOfTree ==
  ASSUME NEW leaves, NEW n \in Nat \ {0}, Level(leaves, n), NEW data,
         leaves[n - 1] = [leaf |-> data]
  PROVE  \E d \in Nat : HasDepth(root_from_levels(build_levels(leaves)), d)
<1> DEFINE level == LevelsOver(leaves)
           T == Top(level)
           LastOf(k) == level[k][Size(level[k]) - 1]
           Deep == {k \in Nat : k <= T => \E d \in Nat : HasDepth(LastOf(k), d)}
<1>1. /\ level[0] = leaves
      /\ \A k \in 1..n : level[k] = PairUp(level[k - 1])
      /\ \A k \in 0..n : Size(level[k]) \in Nat \ {0} /\ Level(level[k], Size(level[k]))
      /\ T \in 0..n /\ Size(level[T]) = 1
  BY LevelsShape
<1>2. root_from_levels(build_levels(leaves)) = level[T][0]
  BY RootOfLevels
<1> HIDE DEF level, T
<1>3. 0 \in Deep
  <2>1. Size(level[0]) = n
    BY <1>1, LevelSize
  <2>2. LastOf(0) = [leaf |-> data]
    BY <1>1, <2>1
  <2> HIDE DEF LastOf
  <2> QED BY <2>2, DepthOfLeaf
<1>4. ASSUME NEW k \in Nat, k \in Deep PROVE k + 1 \in Deep
  <2> SUFFICES ASSUME k + 1 <= T PROVE \E d \in Nat : HasDepth(LastOf(k + 1), d)
    OBVIOUS
  <2> DEFINE m == Size(level[k])
             h == CeilDiv(m, 2) - 1
             children == <<level[k][2 * h], level[k][Least(2 * h + 1, m - 1)]>>
  <2>1. k + 1 \in 1..n /\ (k + 1) - 1 = k /\ k \in 0..n /\ k <= T
    BY <1>1
  <2>2. level[k + 1] = PairUp(level[k]) /\ m \in Nat \ {0} /\ Level(level[k], m)
    BY <1>1, <2>1
  <2>3. Size(level[k + 1]) = CeilDiv(m, 2) /\ Size(level[k]) = m
    BY <2>2, PairUpLevel
  <2> HIDE DEF m
  <2>4. h \in 0..CeilDiv(m, 2) - 1 /\ Least(2 * h + 1, m - 1) = m - 1
    BY <2>2 DEF CeilDiv, Least
  <2>5. PairUp(level[k])[h] = _hash_children(children)
    BY <2>3, <2>4 DEF PairUp
  <2>6. LastOf(k + 1) = _hash_children(children)
    BY <2>2, <2>3, <2>5
  <2>7. PICK d \in Nat : HasDepth(LastOf(k), d)
    BY <1>4, <2>1
  <2>8. children[2] = LastOf(k) /\ children = [o \in 1..2 |-> children[o]]
    BY <2>4 DEF m
  <2> HIDE DEF children, LastOf
  <2>9. HasDepth(_hash_children(children), d + 1)
    <3>1. HasDepth(children[2], d) /\ 2 \in Nat \ {0}
      BY <2>7, <2>8
    <3> QED BY <2>8, <3>1, DepthOfNode
  <2> QED BY <2>6, <2>9
<1>5. \A k \in Nat : k \in Deep
  <2> HIDE DEF Deep
  <2> QED BY <1>3, <1>4, SetInduction
<1>6. \E d \in Nat : HasDepth(LastOf(T), d)
  BY <1>1, <1>5
<1> QED BY <1>1, <1>2, <1>6

\* The place of the last node of a level in the level above.
LEMMA LastParent ==
  ASSUME NEW n \in Nat \ {0}, NEW a \in Nat \ {0, 1}
  PROVE  /\ (n - 1) \div a = CeilDiv(n, a) - 1 /\ (n - 1) \div a \in Nat
         /\ (n - 1) % a \in 0..a - 1 /\ n - 1 = ((n - 1) \div a) * a + ((n - 1) % a)
         /\ ((n - 1) \div a) * a \in Nat
<1> DEFINE q == (n - 1) \div a
           r == (n - 1) % a
<1>1. q \in Nat /\ r \in 0..a - 1 /\ n - 1 = q * a + r /\ q * a \in Nat
  <2> n - 1 \in Nat /\ a \in Nat \ {0}
    OBVIOUS
  <2> QED BY Quotient
<1> HIDE DEF q, r
<1>2. (q + 1) * a = q * a + a
  BY <1>1
<1>3. n + a - 1 = (q + 1) * a + r /\ n + a - 1 \in Nat /\ q + 1 \in Nat
  BY <1>1, <1>2
<1>4. (n + a - 1) \div a = q + 1
  BY <1>1, <1>3, QuotientUnique
<1> QED BY <1>1, <1>4 DEF q, r, CeilDiv

\* How the last group of a level is hashed by the opener of several leaves.
LEMMA LastGroupJoint ==
  ASSUME NEW n \in Nat \ {0}, NEW a \in Nat \ {0, 1}, NEW S, S \subseteq 0..n - 1, NEW level,
         NEW nodes, DOMAIN nodes = S, (n - 1) \div a \in Above(S, a)
  PROVE  LET siblings == JointSiblings(level, S, a, n)
             below == IF n - 1 \in S THEN nodes[n - 1] ELSE level[n - 1]
         IN  \A d \in Nat :
                HasDepth(below, d)
                  => HasDepth(NodesAbove(nodes, siblings, a, n)[(n - 1) \div a], d + 1)
<1> DEFINE siblings == JointSiblings(level, S, a, n)
           below == IF n - 1 \in S THEN nodes[n - 1] ELSE level[n - 1]
           q == (n - 1) \div a
           p == q * a + a - 1
           A == Asked(S, a, n)
<1>1. PICK i \in S : i \div a = q
  BY DEF Above
<1>2. q * a \in Nat /\ p \in Nat /\ Least(p, n - 1) = n - 1
  <2>1. q * a \in Nat /\ (n - 1) % a \in 0..a - 1 /\ n - 1 = q * a + ((n - 1) % a)
    BY LastParent
  <2> DEFINE r == (n - 1) % a
             g == q * a
  <2>2. g \in Nat /\ r \in 0..a - 1 /\ n - 1 = g + r
    BY <2>1
  <2> HIDE DEF r, g, q
  <2>3. p = g + a - 1
    BY DEF g
  <2>4. p \in Nat /\ p >= n - 1
    BY <2>2, <2>3
  <2> QED BY <2>2, <2>4 DEF Least, g
<1>3. Listed(siblings, level, S, a, n)
  BY JointSiblingsAsked
<1> HIDE DEF siblings, q
<1> DEFINE family == Family(nodes, siblings, a, n, i)
<1>4. family[a] = ChildAt(nodes, siblings, a, n, p)
  <2>1. a \in 1..a
    OBVIOUS
  <2> QED BY <1>1, <2>1 DEF Family
<1>5. ChildAt(nodes, siblings, a, n, p) = below
  <2>1. p \in (i \div a) * a .. (i \div a) * a + a - 1
    BY <1>1, <1>2
  <2>2. p \in GroupPlaces(S, a)
    BY <2>1 DEF GroupPlaces
  <2>3. p \in A <=> n - 1 \notin S
    BY <1>2, <2>2 DEF Asked
  <2>4. p \in A => siblings[Rank(A, p)] = level[n - 1]
    BY <1>2, <1>3 DEF Listed
  <2>5. ChildAt(nodes, siblings, a, n, p)
           = IF p \in A THEN siblings[Rank(A, p)] ELSE nodes[Least(p, n - 1)]
    BY DEF ChildAt
  <2> HIDE DEF A, p
  <2> QED BY <1>2, <2>3, <2>4, <2>5
<1>6. NodesAbove(nodes, siblings, a, n)[q] = _hash_children(family)
  <2>1. i \in DOMAIN nodes
    OBVIOUS
  <2> HIDE DEF p, below, A
  <2>2. NodesAbove(nodes, siblings, a, n)[i \div a]
          = _hash_children(Family(nodes, siblings, a, n, i))
    BY <2>1, NodeAbove
  <2> QED BY <1>1, <2>2 DEF family
<1>7. family = [o \in 1..a |-> family[o]]
  BY DEF Family
<1> HIDE DEF family, below, p
<1>8. ASSUME NEW d \in Nat, HasDepth(below, d) PROVE HasDepth(_hash_children(family), d + 1)
  <2>1. HasDepth(family[a], d) /\ a \in Nat \ {0}
    BY <1>4, <1>5, <1>8
  <2> QED BY <1>7, <2>1, DepthOfNode
<1> QED BY <1>6, <1>8 DEF siblings, below, q

\* How the tree itself hashes it: not at all if it has one node.
LEMMA LastGroupUp ==
  ASSUME NEW n \in Nat \ {0}, NEW a \in Nat \ {0, 1}, NEW level, Level(level, n), NEW d \in Nat,
         HasDepth(level[n - 1], d)
  PROVE  LET last == GroupUp(level, a)[CeilDiv(n, a) - 1]
         IN  /\ (n - 1) % a = 0 => HasDepth(last, d)
             /\ (n - 1) % a # 0 => HasDepth(last, d + 1)
<1> DEFINE q == (n - 1) \div a
           r == (n - 1) % a
           built == [o \in 1..a |-> level[Group(n - 1, a, n)[o]]]
<1>1. q = CeilDiv(n, a) - 1 /\ r \in 0..a - 1 /\ n - 1 = q * a + r /\ q * a \in Nat
  BY LastParent
<1>2. /\ q * a = n - 1 => GroupUp(level, a)[q] = level[n - 1]
      /\ q * a # n - 1 => GroupUp(level, a)[q] = _hash_children(built)
  <2>1. n - 1 \in 0..n - 1
    OBVIOUS
  <2>2. Grouped(GroupUp(level, a), level, n - 1, a, n)
    BY <2>1, GroupUpLevel
  <2> QED BY <2>2 DEF Grouped
<1>3. built[a] = level[n - 1] /\ built = [o \in 1..a |-> built[o]]
  <2>1. Least(q * a + a - 1, n - 1) = n - 1
    <3> DEFINE g == q * a
    <3>1. g \in Nat /\ n - 1 = g + r /\ r \in 0..a - 1
      BY <1>1
    <3> HIDE DEF g, r
    <3>2. Least(g + a - 1, n - 1) = n - 1
      BY <3>1 DEF Least
    <3> QED BY <3>2 DEF g
  <2>2. a \in 1..a /\ Group(n - 1, a, n)[a] = n - 1
    BY <2>1 DEF Group
  <2> QED BY <2>2
<1>4. q * a = n - 1 <=> r = 0
  <2> DEFINE g == q * a
  <2>1. g \in Nat /\ n - 1 = g + r /\ r \in 0..a - 1
    BY <1>1
  <2> HIDE DEF g, r
  <2> QED BY <2>1 DEF g
<1> HIDE DEF built, q, r
<1>5. HasDepth(_hash_children(built), d + 1)
  <2>1. HasDepth(built[a], d) /\ a \in Nat \ {0}
    BY <1>3
  <2> QED BY <1>3, <2>1, DepthOfNode
<1> QED BY <1>1, <1>2, <1>4, <1>5 DEF r

\* The last node of a level at hand is at least as deep as the node of the
\* tree, by gap at least; nodes are those at hand, at the places S.
Ahead(level, n, nodes, S, gap) ==
    \E d \in Nat :
       /\ HasDepth(level[n - 1], d)
       /\ n - 1 \in S => \E e \in Nat : HasDepth(nodes[n - 1], e) /\ d + gap <= e
       /\ gap = 1 => n - 1 \in S

GapAbove(n, a, S, gap) == IF n - 1 \in S /\ (n - 1) % a = 0 THEN 1 ELSE gap

LEMMA TurnAhead ==
  ASSUME NEW n \in Nat \ {0}, NEW a \in Nat \ {0, 1}, NEW level, Level(level, n),
         NEW S, S \subseteq 0..n - 1, NEW nodes, DOMAIN nodes = S, NEW gap \in {0, 1},
         Ahead(level, n, nodes, S, gap)
  PROVE  Ahead(GroupUp(level, a), CeilDiv(n, a),
               NodesAbove(nodes, JointSiblings(level, S, a, n), a, n), Above(S, a),
               GapAbove(n, a, S, gap))
<1> DEFINE N == CeilDiv(n, a)
           level_up == GroupUp(level, a)
           up == NodesAbove(nodes, JointSiblings(level, S, a, n), a, n)
           S_up == Above(S, a)
           gap_up == GapAbove(n, a, S, gap)
           lone == (n - 1) % a = 0
<1>1. PICK d \in Nat :
         /\ HasDepth(level[n - 1], d)
         /\ n - 1 \in S => \E e \in Nat : HasDepth(nodes[n - 1], e) /\ d + gap <= e
         /\ gap = 1 => n - 1 \in S
  BY DEF Ahead
<1>2. N - 1 = (n - 1) \div a /\ N - 1 \in Nat
  BY LastParent
<1>3. /\ (n - 1) % a = 0 => HasDepth(level_up[N - 1], d)
      /\ (n - 1) % a # 0 => HasDepth(level_up[N - 1], d + 1)
  BY <1>1, LastGroupUp
<1>4. CASE n - 1 \in S
  <2>1. PICK e \in Nat : HasDepth(nodes[n - 1], e) /\ d + gap <= e
    BY <1>1, <1>4
  <2>2. N - 1 \in S_up
    BY <1>2, <1>4 DEF Above
  <2>3. HasDepth(up[N - 1], e + 1)
    BY <1>2, <1>4, <2>1, <2>2, LastGroupJoint
  <2> HIDE DEF up, level_up, S_up, N
  <2>4. CASE (n - 1) % a = 0
    <3>1. gap_up = 1
      BY <1>4, <2>4 DEF GapAbove
    <3>2. HasDepth(level_up[N - 1], d) /\ d + 1 <= e + 1 /\ e + 1 \in Nat
      BY <1>3, <2>1, <2>4
    <3> QED BY <2>2, <2>3, <3>1, <3>2 DEF Ahead, up, level_up, S_up, N
  <2>5. CASE (n - 1) % a # 0
    <3>1. gap_up = gap
      BY <2>5 DEF GapAbove
    <3>2. /\ HasDepth(level_up[N - 1], d + 1) /\ (d + 1) + gap <= e + 1
          /\ e + 1 \in Nat /\ d + 1 \in Nat
      BY <1>3, <2>1, <2>5
    <3> HIDE DEF gap_up
    <3> QED BY <2>2, <2>3, <3>1, <3>2 DEF Ahead, up, level_up, S_up, N, gap_up
  <2> QED BY <2>4, <2>5
<1>5. CASE n - 1 \notin S
  <2>1. gap = 0 /\ gap_up = 0
    BY <1>1, <1>5 DEF GapAbove
  <2>2. ASSUME N - 1 \in S_up PROVE (n - 1) % a # 0 /\ HasDepth(up[N - 1], d + 1)
    <3>1. HasDepth(up[N - 1], d + 1)
      BY <1>1, <1>2, <1>5, <2>2, LastGroupJoint
    <3>2. PICK i \in S : i \div a = (n - 1) \div a
      BY <1>2, <2>2 DEF Above
    <3>3. ASSUME (n - 1) % a = 0 PROVE FALSE
      <4>1. i \in Nat /\ i \in 0..n - 1 /\ i # n - 1
        BY <1>5
      <4>2. (i \div a) * a <= i
        BY <4>1, Quotient
      <4>3. n - 1 = ((n - 1) \div a) * a + ((n - 1) % a) /\ ((n - 1) \div a) * a \in Nat
        BY LastParent
      <4>4. n - 1 <= i
        BY <3>2, <3>3, <4>2, <4>3
      <4> QED BY <4>1, <4>4
    <3> QED BY <3>1, <3>3
  <2> HIDE DEF up, level_up, S_up, N, gap_up
  <2>3. \E h \in Nat : /\ HasDepth(level_up[N - 1], h)
                       /\ N - 1 \in S_up => HasDepth(up[N - 1], h) 
    <3>1. d + 1 \in Nat
      OBVIOUS
    <3>2. CASE N - 1 \in S_up
      BY <1>3, <2>2, <3>1, <3>2
    <3>3. CASE N - 1 \notin S_up
      BY <1>3, <3>1, <3>3
    <3> QED BY <3>2, <3>3
  <2>4. PICK h \in Nat : /\ HasDepth(level_up[N - 1], h)
                         /\ N - 1 \in S_up => HasDepth(up[N - 1], h) 
    BY <2>3
  <2>5. h + gap_up <= h /\ gap_up # 1
    BY <2>1, <2>4
  <2> QED BY <2>4, <2>5 DEF Ahead, up, level_up, S_up, N, gap_up
<1> QED BY <1>4, <1>5

\* A level with one node is the last: those above it have one node too.
LEMMA NarrowLevels ==
  ASSUME NEW n \in Nat, NEW a \in Nat \ {0, 1}, NEW level, NEW T \in 0..n, Size(level[T]) = 1,
         \A k \in 1..n : Size(level[k]) = CeilDiv(Size(level[k - 1]), a)
  PROVE  \A k \in T..n : Size(level[k]) = 1
<1> DEFINE Narrow == {h \in Nat : T + h <= n => Size(level[T + h]) = 1}
<1>1. 0 \in Narrow
  OBVIOUS
<1>2. ASSUME NEW h \in Nat, h \in Narrow PROVE h + 1 \in Narrow
  <2> SUFFICES ASSUME T + (h + 1) <= n PROVE Size(level[T + (h + 1)]) = 1
    OBVIOUS
  <2>1. T + (h + 1) \in 1..n /\ (T + (h + 1)) - 1 = T + h /\ Size(level[T + h]) = 1
    BY <1>2
  <2>2. Size(level[T + (h + 1)]) = CeilDiv(Size(level[T + h]), a)
    BY <2>1
  <2>3. CeilDiv(1, a) = 1
    BY LevelAbove
  <2> QED BY <2>1, <2>2, <2>3
<1>3. \A h \in Nat : h \in Narrow
  <2> HIDE DEF Narrow
  <2> QED BY <1>1, <1>2, SetInduction
<1>4. ASSUME NEW k \in T..n PROVE Size(level[k]) = 1
  <2>1. k - T \in Nat /\ T + (k - T) = k /\ k <= n
    OBVIOUS
  <2>2. k - T \in Narrow
    <3> HIDE DEF Narrow
    <3> QED BY <1>3, <2>1
  <2> QED BY <2>1, <2>2
<1> QED BY <1>4

\* An opened node of level k that is alone in its group.
LoneAt(level, S, a, T, k) ==
    Size(level[k]) - 1 \in NodesAt(S, a, T, k) /\ (Size(level[k]) - 1) % a = 0

LEMMA AloneBelowTop ==
  ASSUME NEW n \in Nat \ {0}, NEW leaves, Level(leaves, n), NEW S, NEW c \in S, Alone(c, n)
  PROVE  LET level == KaryLevelsOver(leaves, CHUNK_TREE_ARITY)
         IN  \E k \in 0..Top(level) - 1 : LoneAt(level, S, CHUNK_TREE_ARITY, Top(level), k)
<1> DEFINE a == CHUNK_TREE_ARITY
           level == KaryLevelsOver(leaves, a)
           T == Top(level)
<1>1. a \in Nat \ {0, 1}
  BY CommitmentAssumption
<1>2. PICK k \in 0..n : /\ Widths(n)[k] > 1 /\ Ancestors(c, a, n)[k] = Widths(n)[k] - 1
                        /\ Ancestors(c, a, n)[k] % a = 0
  BY DEF Alone
<1>3. Widths(n)[k] = Size(level[k])
  BY WidthsOfLevels
<1> HIDE DEF a
<1>4. KaryShape(level, leaves, n, a)
  BY <1>1, KaryLevelsShape
<1> HIDE DEF level
<1>5. T \in 0..n /\ Size(level[T]) = 1
      /\ \A j \in 1..n : Size(level[j]) = CeilDiv(Size(level[j - 1]), a)
  BY <1>4 DEF KaryShape
<1> HIDE DEF T
<1>6. \A j \in T..n : Size(level[j]) = 1
  BY <1>1, <1>5, NarrowLevels
<1>7. k \in 0..T - 1
  BY <1>2, <1>3, <1>5, <1>6
<1>8. Ancestors(c, a, T)[k] = Ancestors(c, a, n)[k]
  <2> k \in 0..T
    BY <1>5, <1>7
  <2> QED BY <1>5, SameAncestors
<1>9. LoneAt(level, S, a, T, k)
  BY <1>2, <1>3, <1>8 DEF LoneAt, NodesAt
<1> QED BY <1>7, <1>9 DEF T, level, a

\* The gap between the loop's last node and the tree's on level k.
GapAt(level, S, a, T, k) == IF \E j \in 0..k - 1 : LoneAt(level, S, a, T, j) THEN 1 ELSE 0

LEMMA GapNext ==
  ASSUME NEW level, NEW S, NEW a, NEW T, NEW k \in Nat
  PROVE  GapAt(level, S, a, T, k + 1)
           = GapAbove(Size(level[k]), a, NodesAt(S, a, T, k), GapAt(level, S, a, T, k))
<1>1. 0..(k + 1) - 1 = 0..k - 1 \cup {k}
  OBVIOUS
<1>2. (\E j \in 0..(k + 1) - 1 : LoneAt(level, S, a, T, j))
        <=> (\E j \in 0..k - 1 : LoneAt(level, S, a, T, j)) \/ LoneAt(level, S, a, T, k)
  BY <1>1
<1> QED BY <1>2 DEF GapAt, GapAbove, LoneAt

LEMMA NodesAtNext ==
  ASSUME NEW T \in Nat, NEW a, NEW S, NEW k \in 0..T - 1
  PROVE  NodesAt(S, a, T, k + 1) = Above(NodesAt(S, a, T, k), a)
<1>1. k + 1 \in 1..T /\ (k + 1) - 1 = k
  OBVIOUS
<1>2. \A j \in 1..T : NodesAt(S, a, T, j) = Above(NodesAt(S, a, T, j - 1), a)
  BY NodesAtUnfold
<1> QED BY <1>1, <1>2

\* Where the verifier's loop is on level k, in a tree of any arity.
LoopAt(at, level, S, a, T, k) ==
    /\ at.size = Size(level[k]) /\ DOMAIN at.nodes = NodesAt(S, a, T, k)
    /\ Ahead(level[k], Size(level[k]), at.nodes, NodesAt(S, a, T, k), GapAt(level, S, a, T, k))

LEMMA LoopTurn ==
  ASSUME NEW level, NEW T, NEW a, Sized(level, T, a), NEW S, S \subseteq 0..Size(level[0]) - 1,
         NEW k \in 0..T - 1, Level(level[k], Size(level[k])), level[k + 1] = GroupUp(level[k], a),
         NEW at, LoopAt(at, level, S, a, T, k)
  PROVE  LoopAt(Turn(at, JointSiblings(level[k], NodesAt(S, a, T, k), a, Size(level[k])), a),
                level, S, a, T, k + 1)
<1> DEFINE n == Size(level[k])
           nodes == NodesAt(S, a, T, k)
           siblings == JointSiblings(level[k], nodes, a, n)
           up == Turn(at, siblings, a)
           above == NodesAbove(at.nodes, siblings, a, n)
           gap == GapAt(level, S, a, T, k)
<1>1. /\ T \in Nat /\ a \in Nat \ {0, 1} /\ n \in Nat \ {0} /\ k + 1 \in 1..T /\ (k + 1) - 1 = k
      /\ k \in 0..T /\ k \in Nat
  BY DEF Sized
<1>2. Size(level[k + 1]) = CeilDiv(n, a)
  BY <1>1 DEF Sized
<1>3. nodes \subseteq 0..n - 1
  <2>1. \A i \in S : Ancestors(i, a, T)[k] \in 0..n - 1
    BY <1>1, NodesInside
  <2> QED BY <2>1 DEF NodesAt
<1>4. NodesAt(S, a, T, k + 1) = Above(nodes, a)
  BY <1>1, NodesAtNext
<1>5. at.size = n /\ DOMAIN at.nodes = nodes /\ Ahead(level[k], n, at.nodes, nodes, gap)
  BY DEF LoopAt
<1>6. gap \in {0, 1} /\ GapAt(level, S, a, T, k + 1) = GapAbove(n, a, nodes, gap)
  BY <1>1, GapNext DEF GapAt
<1> HIDE DEF n, nodes, gap
<1>7. Len(siblings) = Cardinality(Asked(nodes, a, n))
  <2>1. Listed(siblings, level[k], nodes, a, n)
    BY <1>1, <1>3, JointSiblingsAsked
  <2> HIDE DEF siblings
  <2> QED BY <2>1 DEF Listed
<1>8. up = [nodes |-> above, size |-> CeilDiv(n, a)]
  BY <1>5, <1>7 DEF Turn
<1>9. DOMAIN above = Above(nodes, a)
  <2>1. DOMAIN at.nodes \subseteq 0..n - 1
    BY <1>3, <1>5
  <2>2. DOMAIN above = {i \div a : i \in DOMAIN at.nodes}
    BY <1>1, <2>1, NodesAboveShape
  <2> HIDE DEF above
  <2> QED BY <1>5, <2>2 DEF Above
<1>10. Level(level[k], n)
  BY DEF n
<1>11. Ahead(GroupUp(level[k], a), CeilDiv(n, a), above, Above(nodes, a), GapAbove(n, a, nodes, gap))
  BY <1>1, <1>3, <1>5, <1>6, <1>10, TurnAhead
<1> HIDE DEF above, up
<1>12. up.nodes = above /\ up.size = CeilDiv(n, a)
  BY <1>8
<1> QED BY <1>2, <1>4, <1>6, <1>9, <1>11, <1>12 DEF LoopAt, up, siblings, nodes, n

\* The verifier refuses chunks one of which is alone in a group on its way up:
\* it hashes that node again, and its last nodes stay deeper than the tree's.
LEMMA AloneRefused ==
  ASSUME NEW n \in Nat \ {0}, NEW leaves, Level(leaves, n), NEW S, S \subseteq 0..n - 1,
         NEW c \in S, Alone(c, n), \E d \in Nat : HasDepth(leaves[n - 1], d)
  PROVE  ~ verify_multiproof(root_from_levels(build_kary_levels(leaves, CHUNK_TREE_ARITY)),
                             Part(leaves, S),
                             multiproof(build_kary_levels(leaves, CHUNK_TREE_ARITY), S,
                                        CHUNK_TREE_ARITY))
<1> DEFINE a == CHUNK_TREE_ARITY
           level == KaryLevelsOver(leaves, a)
           T == Top(level)
           levels == [k \in 1..T + 1 |-> level[k - 1]]
           proof == multiproof(build_kary_levels(leaves, a), S, a)
           at == ClimbTogether(Part(leaves, S), proof)
           On(k) == LoopAt(at[k], level, S, a, T, k)
           Reached == {k \in Nat : k <= T => On(k)}
<1>1. a \in Nat \ {0, 1}
  BY CommitmentAssumption
<1>2. \E k \in 0..T - 1 : LoneAt(level, S, a, T, k)
  BY AloneBelowTop
<1>3. root_from_levels(build_kary_levels(leaves, a)) = level[T][0]
  <2> HIDE DEF a
  <2> QED BY <1>1, RootOfKaryLevels
<1> HIDE DEF a
<1>4. KaryShape(level, leaves, n, a)
  BY <1>1, KaryLevelsShape
<1>5. build_kary_levels(leaves, a) = levels
  BY DEF build_kary_levels
<1> HIDE DEF level
<1>6. /\ level[0] = leaves /\ T \in 0..n /\ T \in Nat /\ Size(level[T]) = 1
      /\ \A k \in 1..n : level[k] = GroupUp(level[k - 1], a)
      /\ \A k \in 0..n : Size(level[k]) \in Nat \ {0} /\ Level(level[k], Size(level[k]))
      /\ \A k \in 1..n : Size(level[k]) = CeilDiv(Size(level[k - 1]), a)
  BY <1>4 DEF KaryShape
<1> HIDE DEF T
<1>7. Sized(level, T, a) /\ Size(level[0]) = n
  <2>1. \A k \in 0..T : k \in 0..n
    BY <1>6
  <2>2. \A k \in 1..T : k \in 1..n
    BY <1>6
  <2>3. Size(level[0]) = n
    BY <1>6, LevelSize
  <2> QED BY <1>1, <1>6, <2>1, <2>2, <2>3 DEF Sized
<1>8. Parts(proof, level, T, S, a)
  <2>1. Parts(multiproof(levels, S, a), level, T, S, a)
    BY <1>6, MultiproofParts
  <2> QED BY <1>5, <2>1
<1> HIDE DEF levels, proof
<1>9. /\ at[0] = [nodes |-> Part(leaves, S), size |-> n]
      /\ \A k \in 1..T : at[k] = Turn(at[k - 1], proof.sibling_levels[k], a)
      /\ Len(proof.sibling_levels) = T
  <2>1. Len(proof.sibling_levels) = T /\ proof.tree_size = n /\ proof.arity = a
    BY <1>7, <1>8 DEF Parts
  <2>2. /\ at[0] = [nodes |-> Part(leaves, S), size |-> proof.tree_size]
        /\ \A k \in 1..Len(proof.sibling_levels) :
              at[k] = Turn(at[k - 1], proof.sibling_levels[k], proof.arity)
    <3> Len(proof.sibling_levels) \in Nat
      BY <1>6, <2>1
    <3> QED BY TogetherUnfold
  <2> QED BY <2>1, <2>2
<1> HIDE DEF at
<1>10. 0 \in Reached
  <2>1. NodesAt(S, a, T, 0) = S
    BY <1>6, NodesAtUnfold
  <2>2. GapAt(level, S, a, T, 0) = 0
    BY DEF GapAt
  <2>3. at[0].nodes = Part(leaves, S) /\ at[0].size = n
    BY <1>9
  <2>4. DOMAIN Part(leaves, S) = S /\ \A i \in S : Part(leaves, S)[i] = leaves[i]
    BY DEF Part
  <2>5. Ahead(leaves, n, Part(leaves, S), S, 0)
    <3>1. PICK d \in Nat : HasDepth(leaves[n - 1], d)
      OBVIOUS
    <3>2. d + 0 <= d /\ 0 # 1
      OBVIOUS
    <3> QED BY <2>4, <3>1, <3>2 DEF Ahead
  <2>6. LoopAt(at[0], level, S, a, T, 0)
    BY <1>6, <1>7, <2>1, <2>2, <2>3, <2>4, <2>5 DEF LoopAt
  <2> QED BY <2>6
<1>11. ASSUME NEW k \in Nat, k \in Reached PROVE k + 1 \in Reached
  <2> SUFFICES ASSUME k + 1 <= T PROVE On(k + 1)
    OBVIOUS
  <2>1. k \in 0..T - 1 /\ k + 1 \in 1..T /\ k + 1 \in 1..n /\ (k + 1) - 1 = k /\ k \in 0..n /\ k <= T
    BY <1>6
  <2>2. On(k)
    BY <1>11, <2>1
  <2>3. Level(level[k], Size(level[k])) /\ level[k + 1] = GroupUp(level[k], a)
    BY <1>6, <2>1
  <2>4. at[k + 1] = Turn(at[k], JointSiblings(level[k], NodesAt(S, a, T, k), a, Size(level[k])), a)
    BY <1>8, <1>9, <2>1 DEF Parts
  <2>5. S \subseteq 0..Size(level[0]) - 1
    BY <1>7
  <2> QED BY <1>7, <2>1, <2>2, <2>3, <2>4, <2>5, LoopTurn
<1>12. \A k \in Nat : k \in Reached
  <2> HIDE DEF Reached
  <2> QED BY <1>10, <1>11, SetInduction
<1>13. LoopAt(at[T], level, S, a, T, T)
  BY <1>6, <1>12
<1>14. Ahead(level[T], 1, at[T].nodes, DOMAIN at[T].nodes, 1)
  <2>1. GapAt(level, S, a, T, T) = 1
    BY <1>2 DEF GapAt
  <2> QED BY <1>6, <1>13, <2>1 DEF LoopAt
<1>15. at[T].nodes[0] # level[T][0]
  <2>1. 1 - 1 = 0
    OBVIOUS
  <2>2. \E d, e \in Nat : HasDepth(level[T][0], d) /\ HasDepth(at[T].nodes[0], e) /\ d + 1 <= e
    BY <1>14, <2>1 DEF Ahead
  <2>3. PICK d \in Nat, e \in Nat :
           HasDepth(level[T][0], d) /\ HasDepth(at[T].nodes[0], e) /\ d + 1 <= e
    BY <2>2
  <2>4. d < e
    BY <2>3
  <2> QED BY <2>3, <2>4, NoShorterDescent
<1> QED BY <1>3, <1>9, <1>15 DEF verify_multiproof, at, proof, a
=============================================================================
