------------------------- MODULE OfferExchangeProofs -------------------------
(***************************************************************************)
(* Proofs about Merkle, Bolt12 and OfferExchange, for every number of      *)
(* records and of changes on the way: the queue of CalculateRoot builds    *)
(* the tree of the reference, the root covers every record, and so nothing *)
(* that is signed can be altered and a request that names an offer fits    *)
(* it; and reading undoes writing, so that the library accepts what it     *)
(* makes.                                                                  *)
(***************************************************************************)
EXTENDS OfferExchange, TLAPS, FiniteSetTheorems, WellFoundedInduction

-----------------------------------------------------------------------------
(***************************************************************************)
(* Records in order.                                                       *)
(***************************************************************************)

\* Every set of naturals that is not empty has a least member.
LEMMA LeastNatural ==
    ASSUME NEW T, T \subseteq Nat, T # {}
    PROVE  \E x \in T : \A y \in T : x <= y
<1>1. PICK x \in T : \A y \in T : <<y, x>> \notin OpToRel(<, Nat)
  BY NatLessThanWellFounded, WFMin
<1>2. \A y \in T : ~(y < x)
  BY <1>1 DEF OpToRel
<1> QED BY <1>2

\* A set of records that can be put in order.
RecordSet(S) ==
    /\ IsFiniteSet(S)
    /\ \A r \in S : r.type \in Nat
    /\ \A r, s \in S : r.type = s.type => r = s

UpTo(S, r) == {q \in S : q.type <= r.type}
Rank(S, r) == Cardinality(UpTo(S, r))

\* Each record has a rank of its own, and each rank its record.
LEMMA Ranks ==
    ASSUME NEW S, RecordSet(S)
    PROVE  /\ Cardinality(S) \in Nat
           /\ \A r \in S : Rank(S, r) \in 1..Cardinality(S)
           /\ \A r, s \in S : Rank(S, r) = Rank(S, s) => r = s
           /\ \A i \in 1..Cardinality(S) : \E r \in S : Rank(S, r) = i
<1>1. Cardinality(S) \in Nat
  BY FS_CardinalityType DEF RecordSet
<1>2. ASSUME NEW r \in S
      PROVE  /\ IsFiniteSet(UpTo(S, r)) /\ Rank(S, r) \in Nat
             /\ Rank(S, r) \in 1..Cardinality(S)
  <2>1. UpTo(S, r) \in SUBSET S /\ r \in UpTo(S, r)
    BY <1>2 DEF UpTo, RecordSet
  <2>2. IsFiniteSet(UpTo(S, r)) /\ Rank(S, r) <= Cardinality(S)
    BY <2>1, FS_Subset DEF RecordSet, Rank
  <2>3. Rank(S, r) \in Nat
    BY <2>2, FS_CardinalityType DEF Rank
  <2>4. Rank(S, r) # 0
    BY <2>1, <2>2, FS_EmptySet DEF Rank
  <2> QED BY <1>1, <2>2, <2>3, <2>4
<1>3. ASSUME NEW r \in S, NEW s \in S, r.type < s.type
      PROVE  Rank(S, r) # Rank(S, s)
  <2>1. UpTo(S, r) \in SUBSET UpTo(S, s)
    BY <1>3 DEF UpTo, RecordSet
  <2>2. s \in UpTo(S, s) /\ s \notin UpTo(S, r)
    BY <1>3 DEF UpTo, RecordSet
  <2>3. UpTo(S, s) # UpTo(S, r)
    BY <2>2
  <2> QED BY <1>2, <1>3, <2>1, <2>3, FS_Subset DEF Rank
<1>4. ASSUME NEW r \in S, NEW s \in S, Rank(S, r) = Rank(S, s)
      PROVE  r = s
  <2>1. r.type \in Nat /\ s.type \in Nat
    BY DEF RecordSet
  <2>2. ~(r.type < s.type) /\ ~(s.type < r.type)
    BY <1>3, <1>4
  <2>3. r.type = s.type
    BY <2>1, <2>2
  <2> QED BY <2>3 DEF RecordSet
<1>5. ASSUME NEW i \in 1..Cardinality(S)
      PROVE  \E r \in S : Rank(S, r) = i
  <2> DEFINE T == 1..Cardinality(S)
             f == [r \in S |-> Rank(S, r)]
  <2>1. f \in Injection(S, T)
    BY <1>2, <1>4 DEF Injection, IsInjective
  <2>2. IsFiniteSet(T) /\ Cardinality(T) = Cardinality(S)
    <3>1. 1 \in Int /\ Cardinality(S) \in Int
      BY <1>1
    <3>2. PICK n \in Nat : n = Cardinality(S)
      BY <1>1
    <3>3. IsFiniteSet(1..n) /\ Cardinality(1..n) = IF 1 > n THEN 0 ELSE n - 1 + 1
      BY FS_Interval
    <3>4. (IF 1 > n THEN 0 ELSE n - 1 + 1) = n
      OBVIOUS
    <3> QED BY <3>2, <3>3, <3>4
  <2>3. f \in Surjection(S, T)
    BY <2>1, <2>2, FS_Injection
  <2> QED BY <2>3 DEF Surjection
<1> QED BY <1>1, <1>2, <1>4, <1>5

\* SortRecords lists the records of the set, each once.
LEMMA Sorted ==
    ASSUME NEW S, RecordSet(S)
    PROVE  /\ SortRecords(S) \in Seq(S)
           /\ Len(SortRecords(S)) = Cardinality(S)
           /\ \A r \in S : \E i \in 1..Cardinality(S) : SortRecords(S)[i] = r
           /\ \A i, j \in 1..Cardinality(S) :
                 SortRecords(S)[i] = SortRecords(S)[j] => i = j
<1>1. PICK n \in Nat : n = Cardinality(S)
  BY Ranks
<1>2. SortRecords(S) = [i \in 1..n |-> CHOOSE r \in S : Rank(S, r) = i]
  BY <1>1 DEF SortRecords, Rank, UpTo
<1>3. ASSUME NEW i \in 1..n
      PROVE  SortRecords(S)[i] \in S /\ Rank(S, SortRecords(S)[i]) = i
  <2>1. \E r \in S : Rank(S, r) = i
    BY <1>1, <1>3, Ranks
  <2>2. SortRecords(S)[i] = CHOOSE r \in S : Rank(S, r) = i
    BY <1>2, <1>3
  <2> QED BY <2>1, <2>2
<1>4. PICK s : s = SortRecords(S)
  OBVIOUS
<1>5. s = [i \in 1..n |-> s[i]] /\ \A i \in 1..n : s[i] \in S
  BY <1>2, <1>3, <1>4
<1>6. s \in Seq(S) /\ Len(s) = n
  BY <1>5
<1>7. ASSUME NEW r \in S
      PROVE  \E i \in 1..n : s[i] = r
  <2>1. PICK i \in 1..n : i = Rank(S, r)
    BY <1>1, <1>7, Ranks
  <2>2. s[i] \in S /\ Rank(S, s[i]) = Rank(S, r)
    BY <1>3, <1>4, <2>1
  <2>3. s[i] = r
    BY <2>2, Ranks
  <2> QED BY <2>3
<1>8. \A i, j \in 1..n : s[i] = s[j] => i = j
  BY <1>3, <1>4
<1> QED BY <1>1, <1>4, <1>6, <1>7, <1>8

\* Sets with the same order are the same.
LEMMA SortedSame ==
    ASSUME NEW S, NEW T, RecordSet(S), RecordSet(T),
           SortRecords(S) = SortRecords(T)
    PROVE  S = T
<1>1. PICK n \in Nat : n = Cardinality(S) /\ n = Len(SortRecords(S))
  BY Ranks, Sorted
<1>2. n = Cardinality(T)
  BY <1>1, Sorted
<1>3. \A i \in 1..n : SortRecords(S)[i] \in S
  BY <1>1, Sorted
<1>4. \A i \in 1..n : SortRecords(T)[i] \in T
  BY <1>1, Sorted
<1>5. ASSUME NEW r \in S PROVE r \in T
  <2>1. PICK i \in 1..n : SortRecords(S)[i] = r
    BY <1>1, Sorted
  <2> QED BY <1>4, <2>1
<1>6. ASSUME NEW r \in T PROVE r \in S
  <2>1. PICK i \in 1..n : SortRecords(T)[i] = r
    BY <1>2, Sorted
  <2> QED BY <1>3, <2>1
<1> QED BY <1>5, <1>6

-----------------------------------------------------------------------------
(***************************************************************************)
(* The queue of CalculateRoot and the levels of TreeRoot.                  *)
(***************************************************************************)
IsQueue(b, n, q) ==
    q = [k \in 0..n |-> IF k = 0 THEN b ELSE Combined(q[k - 1])]
IsLevels(b, n, q) ==
    q = [k \in 0..n |-> IF k = 0 THEN b ELSE Above(q[k - 1])]

\* The loop has a queue for each of its rounds.
LEMMA QueueExists ==
    ASSUME NEW b, NEW n \in Nat
    PROVE  \E q : IsQueue(b, n, q)
<1> DEFINE Bad == {m \in Nat : ~\E q : IsQueue(b, m, q)}
<1> SUFFICES ASSUME Bad # {} PROVE FALSE
  OBVIOUS
<1>1. PICK m \in Bad : \A j \in Bad : m <= j
  BY LeastNatural
<1>2. m # 0
  <2>1. IsQueue(b, 0, [k \in 0..0 |-> b])
    BY DEF IsQueue
  <2> QED BY <1>1, <2>1
<1>3. m - 1 \in Nat /\ m - 1 \notin Bad
  BY <1>1, <1>2
<1>4. PICK q : IsQueue(b, m - 1, q)
  BY <1>3
<1>5. PICK p : p = [k \in 0..m |-> IF k = m THEN Combined(q[m - 1]) ELSE q[k]]
  OBVIOUS
<1>6. ASSUME NEW k \in 0..m
      PROVE  p[k] = IF k = 0 THEN b ELSE Combined(p[k - 1])
  <2>1. CASE k = m
    BY <1>2, <1>3, <1>5, <2>1
  <2>2. CASE k # m
    <3>1. k \in 0..(m - 1) /\ q[k] = IF k = 0 THEN b ELSE Combined(q[k - 1])
      BY <1>3, <1>4, <2>2 DEF IsQueue
    <3>2. p[k] = q[k]
      BY <1>5, <2>2
    <3>3. k # 0 => p[k - 1] = q[k - 1]
      BY <1>5, <3>1
    <3> QED BY <3>1, <3>2, <3>3
  <2> QED BY <2>1, <2>2
<1>7. p = [k \in 0..m |-> p[k]]
  BY <1>5
<1>8. IsQueue(b, m, p)
  BY <1>6, <1>7 DEF IsQueue
<1> QED BY <1>1, <1>8

\* The reference has a level for each number.
LEMMA LevelsExist ==
    ASSUME NEW b, NEW n \in Nat
    PROVE  \E q : IsLevels(b, n, q)
<1> DEFINE Bad == {m \in Nat : ~\E q : IsLevels(b, m, q)}
<1> SUFFICES ASSUME Bad # {} PROVE FALSE
  OBVIOUS
<1>1. PICK m \in Bad : \A j \in Bad : m <= j
  BY LeastNatural
<1>2. m # 0
  <2>1. IsLevels(b, 0, [k \in 0..0 |-> b])
    BY DEF IsLevels
  <2> QED BY <1>1, <2>1
<1>3. m - 1 \in Nat /\ m - 1 \notin Bad
  BY <1>1, <1>2
<1>4. PICK q : IsLevels(b, m - 1, q)
  BY <1>3
<1>5. PICK p : p = [k \in 0..m |-> IF k = m THEN Above(q[m - 1]) ELSE q[k]]
  OBVIOUS
<1>6. ASSUME NEW k \in 0..m
      PROVE  p[k] = IF k = 0 THEN b ELSE Above(p[k - 1])
  <2>1. CASE k = m
    BY <1>2, <1>3, <1>5, <2>1
  <2>2. CASE k # m
    <3>1. k \in 0..(m - 1) /\ q[k] = IF k = 0 THEN b ELSE Above(q[k - 1])
      BY <1>3, <1>4, <2>2 DEF IsLevels
    <3>2. p[k] = q[k]
      BY <1>5, <2>2
    <3>3. k # 0 => p[k - 1] = q[k - 1]
      BY <1>5, <3>1
    <3> QED BY <3>1, <3>2, <3>3
  <2> QED BY <2>1, <2>2
<1>7. p = [k \in 0..m |-> p[k]]
  BY <1>5
<1>8. IsLevels(b, m, p)
  BY <1>6, <1>7 DEF IsLevels
<1> QED BY <1>1, <1>8

\* The root is the first branch of the last queue.
LEMMA RootOfQueue ==
    ASSUME NEW b, Len(b) \in Nat, Len(b) # 0
    PROVE  \E q : /\ IsQueue(b, Len(b) - 1, q)
                  /\ CalculateRoot(b) = q[Len(b) - 1][1]
<1>1. PICK n \in Nat : n = Len(b) - 1
  OBVIOUS
<1>2. PICK p : IsQueue(b, n, p)
  BY QueueExists
<1> DEFINE queue[k \in 0..(Len(b) - 1)] ==
               IF k = 0 THEN b ELSE Combined(queue[k - 1])
<1>3. IsQueue(b, Len(b) - 1, queue)
  BY <1>1, <1>2 DEF IsQueue
<1> QED BY <1>3 DEF CalculateRoot

\* The reference takes the first node of the last level.
LEMMA RootOfLevels ==
    ASSUME NEW b, Len(b) \in Nat
    PROVE  \E q : /\ IsLevels(b, Len(b), q)
                  /\ TreeRoot(b) = q[Len(b)][1]
<1>2. PICK p : IsLevels(b, Len(b), p)
  BY LevelsExist
<1> DEFINE level[k \in 0..Len(b)] == IF k = 0 THEN b ELSE Above(level[k - 1])
<1>3. IsLevels(b, Len(b), level)
  BY <1>2 DEF IsLevels
<1> QED BY <1>3 DEF TreeRoot

\* A sequence of nodes.
Listing(s) == \E S : s \in Seq(S)

\* What one round does to the queue.
LEMMA OneRound ==
    ASSUME NEW q, Listing(q), Len(q) >= 2
    PROVE  /\ Listing(Combined(q)) /\ Len(Combined(q)) = Len(q) - 1
           /\ \A i \in 1..(Len(q) - 2) : Combined(q)[i] = q[i + 2]
           /\ Combined(q)[Len(q) - 1] = Branch(q[1], q[2])
<1>1. PICK S : q \in Seq(S)
  BY DEF Listing
<1>2. PICK n \in Nat : n = Len(q)
  BY <1>1
<1>3. PICK s : s = SubSeq(q, 3, n)
  OBVIOUS
<1>4. PICK x : x = Branch(q[1], q[2])
  OBVIOUS
<1>5. s \in Seq(S) /\ Len(s) = n - 2 /\ \A i \in 1..(n - 2) : s[i] = q[i + 2]
  BY <1>1, <1>2, <1>3
<1>6. s \in Seq(S \cup {x})
  BY <1>5
<1>7. /\ Append(s, x) \in Seq(S \cup {x}) /\ Len(Append(s, x)) = n - 1
      /\ \A i \in 1..(n - 2) : Append(s, x)[i] = q[i + 2]
      /\ Append(s, x)[n - 1] = x
  BY <1>5, <1>6
<1>8. Combined(q) = Append(s, x)
  BY <1>2, <1>3, <1>4 DEF Combined
<1>9. Listing(Combined(q))
  BY <1>7, <1>8 DEF Listing
<1> QED BY <1>2, <1>4, <1>7, <1>8, <1>9

\* The queue loses one branch in each round.
LEMMA QueueLengths ==
    ASSUME NEW b, Listing(b), NEW n \in Nat, Len(b) = n + 1,
           NEW q, IsQueue(b, n, q)
    PROVE  \A k \in 0..n : Listing(q[k]) /\ Len(q[k]) = n + 1 - k
<1> DEFINE Bad == {k \in 0..n : ~(Listing(q[k]) /\ Len(q[k]) = n + 1 - k)}
<1> SUFFICES ASSUME Bad # {} PROVE FALSE
  OBVIOUS
<1>1. PICK k \in Bad : \A j \in Bad : k <= j
  <2>1. Bad \subseteq Nat
    OBVIOUS
  <2> HIDE DEF Bad
  <2> QED BY <2>1, LeastNatural
<1>2. k # 0
  <2>1. q[0] = b
    BY DEF IsQueue
  <2> QED BY <1>1, <2>1
<1>3. k \in 0..n /\ k - 1 \in 0..n /\ k - 1 \notin Bad
  BY <1>1, <1>2
<1>4. Listing(q[k - 1]) /\ Len(q[k - 1]) = n + 1 - (k - 1)
  BY <1>3
<1>5. q[k] = Combined(q[k - 1])
  BY <1>2, <1>3 DEF IsQueue
<1>6. Len(q[k - 1]) >= 2
  BY <1>3, <1>4
<1>7. Listing(q[k]) /\ Len(q[k]) = Len(q[k - 1]) - 1
  BY <1>4, <1>5, <1>6, OneRound
<1>8. Len(q[k]) = n + 1 - k
  BY <1>3, <1>4, <1>7
<1> QED BY <1>1, <1>7, <1>8

\* A branch in the queue of a round was in the one before, or is over two that
\* were.
LEMMA QueueElements ==
    ASSUME NEW b, Listing(b), NEW n \in Nat, Len(b) = n + 1,
           NEW q, IsQueue(b, n, q),
           NEW k \in 1..n, NEW i \in 1..(n + 1 - k)
    PROVE  \/ i + 2 \in 1..(n + 1 - (k - 1)) /\ q[k][i] = q[k - 1][i + 2]
           \/ /\ 1 \in 1..(n + 1 - (k - 1)) /\ 2 \in 1..(n + 1 - (k - 1))
              /\ q[k][i] = Branch(q[k - 1][1], q[k - 1][2])
<1>1. k - 1 \in 0..n /\ k \in 0..n
  OBVIOUS
<1>2. Listing(q[k - 1]) /\ Len(q[k - 1]) = n + 1 - (k - 1)
  BY <1>1, QueueLengths
<1>3. q[k] = Combined(q[k - 1])
  BY DEF IsQueue
<1>4. PICK m \in Nat : m = n + 1 - (k - 1)
  BY <1>1
<1>5. m >= 2 /\ i \in 1..(m - 1)
  BY <1>4
<1>6. /\ \A j \in 1..(m - 2) : q[k][j] = q[k - 1][j + 2]
      /\ q[k][m - 1] = Branch(q[k - 1][1], q[k - 1][2])
  BY <1>2, <1>3, <1>4, <1>5, OneRound
<1>7. i \in 1..(m - 2) \/ i = m - 1
  BY <1>5
<1>8. CASE i = m - 1
  BY <1>4, <1>5, <1>6, <1>8
<1>9. CASE i \in 1..(m - 2)
  BY <1>4, <1>5, <1>6, <1>9
<1> QED BY <1>7, <1>8, <1>9

-----------------------------------------------------------------------------
(***************************************************************************)
(* The root tells what it was computed over.                               *)
(***************************************************************************)
Leaf(r) == [tag |-> "LnLeaf", value |-> <<r>>]
Nonce(r, all) == [tag |-> "LnAll", value |-> <<r, all>>]
OverRecord(r, all) == Branch(Leaf(r), Nonce(r, all))

\* The branches over the leaves of a list of records.
Bottom(all) == [i \in 1..Len(all) |-> OverRecord(all[i], all)]

\* The queue over these branches, and what is in it after k rounds.
QueueOver(all, n, q) == Len(all) = n + 1 /\ IsQueue(Bottom(all), n, q)
InRound(q, n, k, x) == \E i \in 1..(n + 1 - k) : x = q[k][i]
Occurs(q, n, x) == \E k \in 0..n : InRound(q, n, k, x)

\* Branches and leaves can be told apart.
LEMMA NodesDiffer ==
    /\ \A a, b, c, d : Branch(a, b) = Branch(c, d) => {a, b} = {c, d}
    /\ \A a, b : Branch(a, b).tag = "LnBranch"
    /\ \A r : Leaf(r).tag = "LnLeaf"
    /\ \A r, A : Nonce(r, A).tag = "LnAll"
    /\ \A r, A, s, B : Nonce(r, A) = Nonce(s, B) => A = B
<1>1. \A a, b, c, d : Branch(a, b) = Branch(c, d) => {a, b} = {c, d}
  BY DEF Branch
<1>2. \A a, b : Branch(a, b).tag = "LnBranch"
  BY DEF Branch
<1>3. (\A r : Leaf(r).tag = "LnLeaf") /\ \A r, A : Nonce(r, A).tag = "LnAll"
  BY DEF Leaf, Nonce
<1>4. ASSUME NEW r, NEW A, NEW s, NEW B, Nonce(r, A) = Nonce(s, B)
      PROVE  A = B
  <2>1. Nonce(r, A).value = <<r, A>> /\ Nonce(s, B).value = <<s, B>>
    BY DEF Nonce
  <2>2. <<r, A>> = <<s, B>>
    BY <1>4, <2>1
  <2> QED BY <2>2
<1> QED BY <1>1, <1>2, <1>3, <1>4

\* A branch tells its two nodes.
LEMMA SameNodes ==
    ASSUME NEW a, NEW b, NEW c, NEW d, Branch(a, b) = Branch(c, d)
    PROVE  {a, b} = {c, d}
<1>1. Branch(a, b).nodes = {a, b} /\ Branch(c, d).nodes = {c, d}
  BY DEF Branch
<1> QED BY <1>1

\* The bottom is a sequence as long as the list.
LEMMA BottomIsListing ==
    ASSUME NEW all, Len(all) \in Nat
    PROVE  Listing(Bottom(all)) /\ Len(Bottom(all)) = Len(all)
<1>1. PICK n \in Nat : n = Len(all)
  OBVIOUS
<1>2. PICK S : S = {OverRecord(all[i], all) : i \in 1..n}
  OBVIOUS
<1>3. PICK b : b = Bottom(all)
  OBVIOUS
<1>4. b = [i \in 1..n |-> b[i]] /\ \A i \in 1..n : b[i] \in S
  BY <1>1, <1>2, <1>3 DEF Bottom
<1>5. b \in Seq(S) /\ Len(b) = n
  BY <1>4
<1> QED BY <1>1, <1>3, <1>5 DEF Listing

\* What occurs in the queue is over a record, or over two branches that were in
\* it before.
LEMMA Occurrences ==
    ASSUME NEW all, NEW n \in Nat, NEW q, QueueOver(all, n, q)
    PROVE  \A k \in 0..n : \A x : InRound(q, n, k, x) =>
              \/ \E r : x = OverRecord(r, all)
              \/ \E y, z : \E j \in 0..n :
                    /\ j < k /\ x = Branch(y, z)
                    /\ InRound(q, n, j, y) /\ InRound(q, n, j, z)
<1> DEFINE Fine(k, x) ==
              \/ \E r : x = OverRecord(r, all)
              \/ \E y, z : \E j \in 0..n :
                    /\ j < k /\ x = Branch(y, z)
                    /\ InRound(q, n, j, y) /\ InRound(q, n, j, z)
           Bad == {k \in 0..n : \E x : InRound(q, n, k, x) /\ ~Fine(k, x)}
<1> SUFFICES ASSUME Bad # {} PROVE FALSE
  OBVIOUS
<1>1. PICK k \in Bad : \A j \in Bad : k <= j
  <2>1. Bad \subseteq Nat
    OBVIOUS
  <2> HIDE DEF Bad
  <2> QED BY <2>1, LeastNatural
<1>2. PICK x : InRound(q, n, k, x) /\ ~Fine(k, x)
  BY <1>1
<1>3. PICK i \in 1..(n + 1 - k) : x = q[k][i]
  BY <1>2 DEF InRound
<1>4. Listing(Bottom(all)) /\ Len(Bottom(all)) = n + 1
  BY BottomIsListing DEF QueueOver
<1>5. CASE k = 0
  <2>1. q[0] = Bottom(all)
    BY DEF QueueOver, IsQueue
  <2>2. Bottom(all)[i] = OverRecord(all[i], all)
    BY <1>3, <1>5 DEF Bottom, QueueOver
  <2> QED BY <1>2, <1>3, <1>5, <2>1, <2>2
<1>6. CASE k # 0
  <2>1. k \in 1..n /\ k - 1 \in 0..n
    BY <1>6
  <2>2. IsQueue(Bottom(all), n, q)
    BY DEF QueueOver
  <2>3. \/ i + 2 \in 1..(n + 1 - (k - 1)) /\ q[k][i] = q[k - 1][i + 2]
        \/ /\ 1 \in 1..(n + 1 - (k - 1)) /\ 2 \in 1..(n + 1 - (k - 1))
           /\ q[k][i] = Branch(q[k - 1][1], q[k - 1][2])
    BY <1>4, <2>1, <2>2, QueueElements
  <2>4. CASE i + 2 \in 1..(n + 1 - (k - 1)) /\ q[k][i] = q[k - 1][i + 2]
    <3>1. InRound(q, n, k - 1, x)
      BY <1>3, <2>4 DEF InRound
    <3>2. k - 1 \notin Bad
      BY <1>1, <2>1
    <3>3. Fine(k - 1, x)
      BY <2>1, <3>1, <3>2
    <3>4. \A j \in 0..n : j < k - 1 => j < k
      BY <2>1
    <3> QED BY <1>2, <3>3, <3>4
  <2>5. CASE /\ 1 \in 1..(n + 1 - (k - 1)) /\ 2 \in 1..(n + 1 - (k - 1))
             /\ q[k][i] = Branch(q[k - 1][1], q[k - 1][2])
    <3>1. InRound(q, n, k - 1, q[k - 1][1]) /\ InRound(q, n, k - 1, q[k - 1][2])
      BY <2>5 DEF InRound
    <3>2. k - 1 < k
      BY <2>1
    <3> QED BY <1>2, <1>3, <2>1, <2>5, <3>1, <3>2
  <2> QED BY <2>3, <2>4, <2>5
<1> QED BY <1>5, <1>6

\* Two queues in which the same branch occurs are over the same list.
LEMMA QueuesApart ==
    ASSUME NEW A, NEW m \in Nat, NEW p, QueueOver(A, m, p),
           NEW B, NEW n \in Nat, NEW q, QueueOver(B, n, q),
           NEW root, Occurs(p, m, root), Occurs(q, n, root)
    PROVE  A = B
<1> DEFINE Bad == {k \in 0..m : \E x : InRound(p, m, k, x) /\ Occurs(q, n, x)}
<1> SUFFICES ASSUME A # B PROVE FALSE
  OBVIOUS
<1>1. PICK k \in Bad : \A j \in Bad : k <= j
  <2>2. PICK j \in 0..m : InRound(p, m, j, root)
    BY DEF Occurs
  <2>3. j \in Bad
    BY <2>2
  <2>1. Bad \subseteq Nat /\ Bad # {}
    BY <2>3
  <2> HIDE DEF Bad
  <2> QED BY <2>1, LeastNatural
<1>2. PICK x : InRound(p, m, k, x) /\ Occurs(q, n, x)
  BY <1>1
<1>3. \/ \E r : x = OverRecord(r, A)
      \/ \E y, z : \E j \in 0..m :
            /\ j < k /\ x = Branch(y, z)
            /\ InRound(p, m, j, y) /\ InRound(p, m, j, z)
  BY <1>1, <1>2, Occurrences
<1>4. \/ \E r : x = OverRecord(r, B)
      \/ \E y, z : x = Branch(y, z) /\ Occurs(q, n, y) /\ Occurs(q, n, z)
  BY <1>2, Occurrences DEF Occurs
<1>a. ASSUME NEW y, Occurs(p, m, y) \/ Occurs(q, n, y)
      PROVE  y.tag = "LnBranch"
  <2>1. \E c, d : y = Branch(c, d)
    BY <1>a, Occurrences DEF Occurs, OverRecord
  <2> QED BY <2>1, NodesDiffer
<1>b. "LnBranch" # "LnLeaf" /\ "LnBranch" # "LnAll" /\ "LnLeaf" # "LnAll"
  OBVIOUS
<1>5. ASSUME NEW r, x = OverRecord(r, A), NEW s, x = OverRecord(s, B)
      PROVE  FALSE
  <2>a. Branch(Leaf(r), Nonce(r, A)) = Branch(Leaf(s), Nonce(s, B))
    BY <1>5 DEF OverRecord
  <2>1. {Leaf(r), Nonce(r, A)} = {Leaf(s), Nonce(s, B)}
    BY <2>a, SameNodes
  <2>2. Nonce(r, A) # Leaf(s)
    BY <1>b, NodesDiffer
  <2>3. Nonce(r, A) = Nonce(s, B)
    BY <2>1, <2>2
  <2> QED BY <2>3, NodesDiffer
<1>6. ASSUME NEW r, x = OverRecord(r, A), NEW y, NEW z, x = Branch(y, z),
             Occurs(q, n, y), Occurs(q, n, z)
      PROVE  FALSE
  <2>a. Branch(Leaf(r), Nonce(r, A)) = Branch(y, z)
    BY <1>6 DEF OverRecord
  <2>1. {Leaf(r), Nonce(r, A)} = {y, z}
    BY <2>a, SameNodes
  <2>2. Leaf(r) = y \/ Leaf(r) = z
    BY <2>1
  <2> QED BY <1>6, <1>a, <1>b, <2>2, NodesDiffer
<1>7. ASSUME NEW r, x = OverRecord(r, B), NEW y, NEW z, NEW j \in 0..m,
             x = Branch(y, z), InRound(p, m, j, y), InRound(p, m, j, z)
      PROVE  FALSE
  <2>a. Branch(Leaf(r), Nonce(r, B)) = Branch(y, z)
    BY <1>7 DEF OverRecord
  <2>1. {Leaf(r), Nonce(r, B)} = {y, z}
    BY <2>a, SameNodes
  <2>2. Leaf(r) = y \/ Leaf(r) = z
    BY <2>1
  <2>3. Occurs(p, m, y) /\ Occurs(p, m, z)
    BY <1>7 DEF Occurs
  <2> QED BY <1>a, <1>b, <2>2, <2>3, NodesDiffer
<1>8. ASSUME NEW y, NEW z, NEW j \in 0..m, j < k, x = Branch(y, z),
             InRound(p, m, j, y), InRound(p, m, j, z),
             NEW c, NEW d, x = Branch(c, d), Occurs(q, n, c), Occurs(q, n, d)
      PROVE  FALSE
  <2>a. Branch(y, z) = Branch(c, d)
    BY <1>8
  <2>1. {y, z} = {c, d}
    BY <2>a, SameNodes
  <2>2. Occurs(q, n, y)
    BY <1>8, <2>1
  <2>3. j \in Bad
    BY <1>8, <2>2
  <2> QED BY <1>1, <1>8, <2>3
<1> QED BY <1>3, <1>4, <1>5, <1>6, <1>7, <1>8

\* The root occurs in the queue, in the round that leaves one branch.
LEMMA RootOccurs ==
    ASSUME NEW all, NEW n \in Nat, Len(all) = n + 1
    PROVE  \E q : QueueOver(all, n, q)
                  /\ Occurs(q, n, CalculateRoot(Bottom(all)))
<1>1. PICK b : b = Bottom(all)
  OBVIOUS
<1>2. Len(b) = n + 1
  BY <1>1, BottomIsListing
<1>3. PICK q : IsQueue(b, Len(b) - 1, q) /\ CalculateRoot(b) = q[Len(b) - 1][1]
  BY <1>2, RootOfQueue
<1>4. QueueOver(all, n, q)
  BY <1>1, <1>2, <1>3 DEF QueueOver
<1>5. CalculateRoot(b) = q[n][1]
  BY <1>2, <1>3
<1>6. n \in 0..n /\ 1 \in 1..(n + 1 - n)
  OBVIOUS
<1>7. Occurs(q, n, CalculateRoot(b))
  BY <1>5, <1>6 DEF Occurs, InRound
<1> QED BY <1>1, <1>4, <1>7

\* Lists with the same root are the same.
LEMMA RootTells ==
    ASSUME NEW A, NEW B, Len(A) \in Nat \ {0}, Len(B) \in Nat \ {0},
           CalculateRoot(Bottom(A)) = CalculateRoot(Bottom(B))
    PROVE  A = B
<1>1. PICK m \in Nat : Len(A) = m + 1
  <2>1. Len(A) - 1 \in Nat /\ Len(A) = (Len(A) - 1) + 1
    OBVIOUS
  <2> QED BY <2>1
<1>2. PICK n \in Nat : Len(B) = n + 1
  <2>1. Len(B) - 1 \in Nat /\ Len(B) = (Len(B) - 1) + 1
    OBVIOUS
  <2> QED BY <2>1
<1>3. PICK root : root = CalculateRoot(Bottom(A)) /\ root = CalculateRoot(Bottom(B))
  OBVIOUS
<1>4. PICK p : QueueOver(A, m, p) /\ Occurs(p, m, root)
  BY <1>1, <1>3, RootOccurs
<1>5. PICK q : QueueOver(B, n, q) /\ Occurs(q, n, root)
  BY <1>2, <1>3, RootOccurs
<1> QED BY <1>4, <1>5, QueuesApart

\* The root of a list is a branch.
LEMMA RootIsBranch ==
    ASSUME NEW all, Len(all) \in Nat \ {0}
    PROVE  CalculateRoot(Bottom(all)).tag = "LnBranch"
<1>1. PICK n \in Nat : Len(all) = n + 1
  <2>1. Len(all) - 1 \in Nat /\ Len(all) = (Len(all) - 1) + 1
    OBVIOUS
  <2> QED BY <2>1
<1>2. PICK q : QueueOver(all, n, q) /\ Occurs(q, n, CalculateRoot(Bottom(all)))
  BY <1>1, RootOccurs
<1>3. \E c, d : CalculateRoot(Bottom(all)) = Branch(c, d)
  BY <1>2, Occurrences DEF Occurs, OverRecord
<1> QED BY <1>3, NodesDiffer

\* The records that are hashed.
Hashed(S) == {r \in S : ~isSignatureTLV(r)}

\* The leaves of a set of records in pairs, record by record in order.
LEMMA BottomOf ==
    ASSUME NEW S, RecordSet(S)
    PROVE  LET all == SortRecords(Hashed(S))
           IN  /\ RecordSet(Hashed(S)) /\ Len(all) \in Nat
               /\ CreateTLVBranches(CreateTLVLeaves(S)) = Bottom(all)
               /\ CreateTLVLeaves(S) = <<>> <=> Len(all) = 0
               /\ Len(all) = 0 <=> Hashed(S) = {}
<1>1. RecordSet(Hashed(S))
  <2>1. Hashed(S) \in SUBSET S
    BY DEF Hashed
  <2> QED BY <2>1, FS_Subset DEF RecordSet
<1>2. PICK all : all = SortRecords(Hashed(S))
  OBVIOUS
<1>3. PICK n \in Nat : n = Len(all) /\ n = Cardinality(Hashed(S))
  BY <1>1, <1>2, Sorted, Ranks
<1>4. PICK leaves : leaves = CreateTLVLeaves(S)
  OBVIOUS
<1>5. leaves = [i \in 1..(2 * n) |->
                   createLeafPair(all[(i + 1) \div 2], all)[2 - (i % 2)]]
  BY <1>2, <1>3, <1>4 DEF CreateTLVLeaves, Hashed
<1>6. DOMAIN leaves = 1..(2 * n) /\ 2 * n \in Nat
  BY <1>5
<1>7. Len(leaves) = 2 * n
  <2>1. PICK T : T = {leaves[i] : i \in 1..(2 * n)}
    OBVIOUS
  <2>2. leaves = [i \in 1..(2 * n) |-> leaves[i]]
        /\ \A i \in 1..(2 * n) : leaves[i] \in T
    BY <1>5, <2>1
  <2>3. leaves \in Seq(T)
    BY <1>6, <2>2
  <2> QED BY <1>6, <2>3
<1>8. Len(leaves) \div 2 = n
  BY <1>7
<1>9. ASSUME NEW i \in 1..n
      PROVE  leaves[2 * i - 1] = Leaf(all[i]) /\ leaves[2 * i] = Nonce(all[i], all)
  <2>1. 2 * i - 1 \in 1..(2 * n) /\ 2 * i \in 1..(2 * n)
    OBVIOUS
  <2>2. (2 * i - 1 + 1) \div 2 = i /\ 2 - ((2 * i - 1) % 2) = 1
    OBVIOUS
  <2>3. (2 * i + 1) \div 2 = i /\ 2 - ((2 * i) % 2) = 2
    OBVIOUS
  <2>4. leaves[2 * i - 1] = createLeafPair(all[i], all)[1]
    BY <1>5, <2>1, <2>2
  <2>5. leaves[2 * i] = createLeafPair(all[i], all)[2]
    BY <1>5, <2>1, <2>3
  <2> QED BY <2>4, <2>5 DEF createLeafPair, Leaf, Nonce
<1>10. CreateTLVBranches(leaves)
           = [i \in 1..n |-> Branch(leaves[2 * i - 1], leaves[2 * i])]
  BY <1>8 DEF CreateTLVBranches
<1>11. CreateTLVBranches(leaves) = [i \in 1..n |-> Branch(Leaf(all[i]), Nonce(all[i], all))]
  BY <1>9, <1>10
<1>12. CreateTLVBranches(leaves) = Bottom(all)
  BY <1>3, <1>11 DEF Bottom, OverRecord
<1>13. leaves = <<>> <=> n = 0
  BY <1>6, <1>7
<1>14. n = 0 <=> Hashed(S) = {}
  BY <1>1, <1>3, FS_EmptySet DEF RecordSet
<1> QED BY <1>1, <1>2, <1>3, <1>4, <1>12, <1>13, <1>14

\* The root of a set of records.
LEMMA RootOfRecords ==
    ASSUME NEW S, RecordSet(S)
    PROVE  MerkleRoot(S) = IF Hashed(S) = {} THEN ErrNoTLVs
                           ELSE CalculateRoot(Bottom(SortRecords(Hashed(S))))
  BY BottomOf DEF MerkleRoot

\* Two sets of records with the same merkle root have the same records, but for
\* signatures: createLeafPair, CreateTLVBranches and CalculateRoot lose none of
\* them, and no other set has a root of the same shape.
THEOREM RootCovers ==
    ASSUME NEW S, NEW T, RecordSet(S), RecordSet(T),
           MerkleRoot(S) = MerkleRoot(T)
    PROVE  Hashed(S) = Hashed(T)
<1> DEFINE A == SortRecords(Hashed(S))
           B == SortRecords(Hashed(T))
<1>1. /\ RecordSet(Hashed(S)) /\ Len(A) \in Nat
      /\ Len(A) = 0 <=> Hashed(S) = {}
  BY BottomOf
<1>2. /\ RecordSet(Hashed(T)) /\ Len(B) \in Nat
      /\ Len(B) = 0 <=> Hashed(T) = {}
  BY BottomOf
<1>3. ErrNoTLVs.tag = "ErrNoTLVs"
  BY DEF ErrNoTLVs
<1>4. Hashed(S) # {} => MerkleRoot(S) = CalculateRoot(Bottom(A))
                        /\ MerkleRoot(S).tag = "LnBranch"
  BY <1>1, RootOfRecords, RootIsBranch
<1>5. Hashed(T) # {} => MerkleRoot(T) = CalculateRoot(Bottom(B))
                        /\ MerkleRoot(T).tag = "LnBranch"
  BY <1>2, RootOfRecords, RootIsBranch
<1>6. Hashed(S) = {} => MerkleRoot(S).tag = "ErrNoTLVs"
  BY <1>3, RootOfRecords
<1>7. Hashed(T) = {} => MerkleRoot(T).tag = "ErrNoTLVs"
  BY <1>3, RootOfRecords
<1>8. CASE Hashed(S) = {}
  BY <1>5, <1>6, <1>8
<1>9. CASE Hashed(S) # {}
  <2>1. Hashed(T) # {}
    BY <1>4, <1>7, <1>9
  <2>2. A = B
    BY <1>1, <1>2, <1>4, <1>5, <1>9, <2>1, RootTells
  <2> QED BY <1>1, <1>2, <2>2, SortedSame
<1> QED BY <1>8, <1>9

-----------------------------------------------------------------------------
(***************************************************************************)
(* The queue builds the tree of the reference.                             *)
(***************************************************************************)

\* Sequences are the same if their elements are.
LEMMA SameListing ==
    ASSUME NEW s, NEW t, Listing(s), Listing(t), NEW n \in Nat,
           Len(s) = n, Len(t) = n, \A i \in 1..n : s[i] = t[i]
    PROVE  s = t
<1>1. PICK S : s \in Seq(S)
  BY DEF Listing
<1>2. PICK T : t \in Seq(T)
  BY DEF Listing
<1>3. s = [i \in 1..n |-> s[i]] /\ t = [i \in 1..n |-> t[i]]
  BY <1>1, <1>2
<1> QED BY <1>3

\* After j rounds from round k, when the queue held m branches, it holds what
\* is left of them and then the branches over the pairs that are gone.
AfterRounds(q, k, m, j) ==
    /\ \A i \in 1..(m - 2 * j) : q[k + j][i] = q[k][i + 2 * j]
    /\ \A i \in 1..j : q[k + j][m - 2 * j + i]
                           = Branch(q[k][2 * i - 1], q[k][2 * i])

\* So it is for every number of rounds that half of the branches last for.
LEMMA Rounds ==
    ASSUME NEW b, Listing(b), NEW n \in Nat, Len(b) = n + 1,
           NEW q, IsQueue(b, n, q),
           NEW k \in 0..n, NEW m \in Nat, m = n + 1 - k,
           NEW h \in Nat, 2 * h <= m
    PROVE  \A j \in 0..h : k + j \in 0..n /\ AfterRounds(q, k, m, j)
<1> DEFINE Left(j) == \A i \in 1..(m - 2 * j) : q[k + j][i] = q[k][i + 2 * j]
           Built(j) == \A i \in 1..j : q[k + j][m - 2 * j + i]
                                     = Branch(q[k][2 * i - 1], q[k][2 * i])
           Bad == {j \in 0..h : ~(Left(j) /\ Built(j))}
<1>0. \A j \in 0..h : k + j \in 0..n
  OBVIOUS
<1> SUFFICES ASSUME Bad # {} PROVE FALSE
  BY <1>0 DEF AfterRounds
<1>1. PICK j \in Bad : \A l \in Bad : j <= l
  <2>1. Bad \subseteq Nat
    OBVIOUS
  <2> HIDE DEF Bad
  <2> QED BY <2>1, LeastNatural
<1>2. j # 0
  <2>1. k + 0 = k /\ \A i \in 1..(m - 2 * 0) : i \in Nat /\ i + 2 * 0 = i
    OBVIOUS
  <2>2. Left(0)
    BY <2>1
  <2>3. Built(0)
    OBVIOUS
  <2> QED BY <1>1, <2>2, <2>3
<1>3. j \in 1..h /\ j - 1 \in 0..h /\ j - 1 \notin Bad
  <2>1. j \in 0..h
    BY <1>1
  <2>2. j \in 1..h /\ j - 1 \in 0..h /\ ~(j <= j - 1)
    BY <1>2, <2>1
  <2> HIDE DEF Bad
  <2> QED BY <1>1, <2>2
<1>4. Left(j - 1) /\ Built(j - 1)
  BY <1>3
<1>5. k + j \in 1..n /\ k + (j - 1) \in 0..n /\ k + j - 1 = k + (j - 1)
  <2> HIDE DEF Bad
  <2>1. j \in Nat /\ 1 <= j /\ 2 * j <= m
    BY <1>3
  <2>2. k \in Nat /\ k + j <= n
    BY <2>1
  <2> QED BY <2>1, <2>2
<1>6. PICK p : p = q[k + (j - 1)]
  OBVIOUS
<1>7. Listing(p) /\ Len(p) = m - (j - 1)
  <2>1. Len(p) = n + 1 - (k + (j - 1)) /\ Listing(p)
    BY <1>5, <1>6, QueueLengths
  <2> QED BY <2>1
<1>8. q[k + j] = Combined(p)
  BY <1>5, <1>6 DEF IsQueue
<1>9. m >= 2 * j /\ m - (j - 1) >= 2 /\ m - (j - 1) - 2 = m - j - 1
      /\ m - (j - 1) - 1 = m - j
  BY <1>3
<1>10. /\ \A i \in 1..(m - j - 1) : q[k + j][i] = p[i + 2]
       /\ q[k + j][m - j] = Branch(p[1], p[2])
  <2>1. PICK l \in Nat : l = Len(p)
    BY <1>7, <1>9
  <2>2. /\ \A i \in 1..(l - 2) : q[k + j][i] = p[i + 2]
        /\ q[k + j][l - 1] = Branch(p[1], p[2])
    BY <1>7, <1>8, <1>9, <2>1, OneRound
  <2>3. l - 2 = m - j - 1 /\ l - 1 = m - j
    BY <1>7, <1>9, <2>1
  <2> QED BY <2>2, <2>3
<1>11. \A i \in 1..(m - 2 * (j - 1)) : p[i] = q[k][i + 2 * (j - 1)]
  BY <1>4, <1>6
<1>12. \A i \in 1..(j - 1) : p[m - 2 * (j - 1) + i]
                                 = Branch(q[k][2 * i - 1], q[k][2 * i])
  BY <1>4, <1>6
<1>13. Left(j)
  <2> SUFFICES ASSUME NEW i \in 1..(m - 2 * j)
               PROVE  q[k + j][i] = q[k][i + 2 * j]
    OBVIOUS
  <2>1. i \in 1..(m - j - 1) /\ i + 2 \in 1..(m - 2 * (j - 1))
        /\ (i + 2) + 2 * (j - 1) = i + 2 * j
    BY <1>3, <1>9
  <2>2. p[i + 2] = q[k][(i + 2) + 2 * (j - 1)]
    BY <1>11, <2>1
  <2> QED BY <1>10, <2>1, <2>2
<1>14. Built(j)
  <2> SUFFICES ASSUME NEW i \in 1..j
               PROVE  q[k + j][m - 2 * j + i]
                          = Branch(q[k][2 * i - 1], q[k][2 * i])
    OBVIOUS
  <2>1. CASE i = j
    <3>1. m - 2 * j + i = m - j
      BY <2>1, <1>3
    <3>2. 1 \in 1..(m - 2 * (j - 1)) /\ 2 \in 1..(m - 2 * (j - 1))
          /\ 1 + 2 * (j - 1) = 2 * j - 1 /\ 2 + 2 * (j - 1) = 2 * j
      BY <1>3, <1>9
    <3>3. p[1] = q[k][1 + 2 * (j - 1)] /\ p[2] = q[k][2 + 2 * (j - 1)]
      BY <1>11, <3>2
    <3>4. p[1] = q[k][2 * j - 1] /\ p[2] = q[k][2 * j]
      BY <3>2, <3>3
    <3> QED BY <1>10, <2>1, <3>1, <3>4
  <2>2. CASE i # j
    <3>1. i \in 1..(j - 1) /\ m - 2 * j + i \in 1..(m - j - 1)
          /\ (m - 2 * j + i) + 2 = m - 2 * (j - 1) + i
      BY <1>3, <1>9, <2>2
    <3>2. q[k + j][m - 2 * j + i] = p[(m - 2 * j + i) + 2]
      BY <1>10, <3>1
    <3>3. p[m - 2 * (j - 1) + i] = Branch(q[k][2 * i - 1], q[k][2 * i])
      BY <1>12, <3>1
    <3> QED BY <3>1, <3>2, <3>3
  <2> QED BY <2>1, <2>2
<1> QED BY <1>1, <1>13, <1>14

\* The level above: a node left over, and the branches over the pairs.
LEMMA LevelAbove ==
    ASSUME NEW s, Listing(s), NEW m \in Nat, m = Len(s),
           NEW h \in Nat, m = 2 * h \/ m = 2 * h + 1
    PROVE  /\ Listing(Parents(s)) /\ Len(Parents(s)) = m - h
           /\ m = 2 * h + 1 => Parents(s)[1] = s[m]
           /\ \A i \in 1..h : Parents(s)[m - 2 * h + i]
                                  = Branch(s[2 * i - 1], s[2 * i])
<1>1. m \div 2 = h /\ (m % 2 = 1 <=> m = 2 * h + 1)
  OBVIOUS
<1>2. PICK pairs : pairs = [i \in 1..h |-> Branch(s[2 * i - 1], s[2 * i])]
  OBVIOUS
<1>3. PICK T : T = {pairs[i] : i \in 1..h} \cup {s[m]}
  OBVIOUS
<1>4. pairs = [i \in 1..h |-> pairs[i]] /\ (\A i \in 1..h : pairs[i] \in T)
      /\ s[m] \in T
  BY <1>2, <1>3
<1>5. pairs \in Seq(T) /\ Len(pairs) = h
  BY <1>4
<1>6. Parents(s) = IF m % 2 = 1 THEN <<s[m]>> \o pairs ELSE pairs
  BY <1>1, <1>2 DEF Parents
<1>7. CASE m = 2 * h
  <2>1. Parents(s) = pairs
    BY <1>1, <1>6, <1>7
  <2>2. \A i \in 1..h : m - 2 * h + i = i
    BY <1>7
  <2>3. Listing(pairs)
    BY <1>5 DEF Listing
  <2> QED BY <1>2, <1>5, <1>7, <2>1, <2>2, <2>3
<1>8. CASE m = 2 * h + 1
  <2>1. PICK t : t = <<s[m]>> \o pairs
    OBVIOUS
  <2>2. <<s[m]>> \in Seq(T) /\ Len(<<s[m]>>) = 1
    BY <1>4
  <2>3. t \in Seq(T) /\ Len(t) = h + 1 /\ t[1] = s[m]
        /\ \A i \in 1..h : t[1 + i] = pairs[i]
    BY <1>5, <2>1, <2>2
  <2>4. Listing(t)
    BY <2>3 DEF Listing
  <2>5. Parents(s) = t
    BY <1>1, <1>6, <1>8, <2>1
  <2>6. m - h = h + 1 /\ m - 2 * h = 1
    BY <1>8
  <2> QED BY <1>2, <2>3, <2>4, <2>5, <2>6
<1> QED BY <1>7, <1>8

\* Half of a number.
LEMMA Half ==
    ASSUME NEW m \in Nat
    PROVE  \E h \in Nat : m = 2 * h \/ m = 2 * h + 1
<1>1. m \div 2 \in Nat /\ (m = 2 * (m \div 2) \/ m = 2 * (m \div 2) + 1)
  OBVIOUS
<1> QED BY <1>1

\* Every level is the queue of some round.
LEMMA QueueReachesLevel ==
    ASSUME NEW b, Listing(b), NEW n \in Nat, Len(b) = n + 1,
           NEW q, IsQueue(b, n, q),
           NEW k \in 0..n, NEW m \in Nat, m = n + 1 - k, m >= 2
    PROVE  \E l \in 0..n : l > k /\ q[l] = Above(q[k])
<1>1. PICK h \in Nat : m = 2 * h \/ m = 2 * h + 1
  BY Half
<1>2. 2 * h <= m /\ h \in 0..h /\ h >= 1 /\ k + h > k
  BY <1>1
<1>a. k + h \in 0..n /\ AfterRounds(q, k, m, h)
  BY <1>2, Rounds
<1>3. /\ k + h \in 0..n
      /\ \A i \in 1..(m - 2 * h) : q[k + h][i] = q[k][i + 2 * h]
      /\ \A i \in 1..h : q[k + h][m - 2 * h + i]
                             = Branch(q[k][2 * i - 1], q[k][2 * i])
  BY <1>a DEF AfterRounds
<1>4. PICK s : s = q[k]
  OBVIOUS
<1>5. PICK t : t = q[k + h]
  OBVIOUS
<1>6. Listing(s) /\ Len(s) = m
  BY <1>4, QueueLengths
<1>7. Listing(t) /\ Len(t) = m - h
  <2>1. Listing(t) /\ Len(t) = n + 1 - (k + h)
    BY <1>3, <1>5, QueueLengths
  <2> QED BY <2>1
<1>8. /\ Listing(Parents(s)) /\ Len(Parents(s)) = m - h
      /\ m = 2 * h + 1 => Parents(s)[1] = s[m]
      /\ \A i \in 1..h : Parents(s)[m - 2 * h + i]
                             = Branch(s[2 * i - 1], s[2 * i])
  BY <1>1, <1>6, LevelAbove
<1>9. m - h \in Nat
  BY <1>1
<1>10. ASSUME NEW i \in 1..(m - h)
       PROVE  t[i] = Parents(s)[i]
  <2>1. CASE i \in 1..(m - 2 * h)
    <3>1. m = 2 * h + 1 /\ i = 1 /\ i + 2 * h = m
      BY <1>1, <2>1
    <3>2. t[1] = s[m]
      BY <1>3, <1>4, <1>5, <2>1, <3>1
    <3> QED BY <1>8, <3>1, <3>2
  <2>2. CASE i \notin 1..(m - 2 * h)
    <3>1. PICK j \in 1..h : i = m - 2 * h + j
      <4>1. i - (m - 2 * h) \in 1..h /\ i = m - 2 * h + (i - (m - 2 * h))
        BY <1>1, <2>2
      <4> QED BY <4>1
    <3>2. t[m - 2 * h + j] = Branch(s[2 * j - 1], s[2 * j])
      BY <1>3, <1>4, <1>5
    <3>3. Parents(s)[m - 2 * h + j] = Branch(s[2 * j - 1], s[2 * j])
      BY <1>8
    <3> QED BY <3>1, <3>2, <3>3
  <2> QED BY <2>1, <2>2
<1>11. t = Parents(s)
  BY <1>7, <1>8, <1>9, <1>10, SameListing
<1>12. Above(s) = Parents(s)
  BY <1>6 DEF Above
<1> QED BY <1>2, <1>3, <1>4, <1>5, <1>11, <1>12

\* The queue of CalculateRoot builds the tree of the reference, for every number
\* of branches: each level of the tree is the queue of some round, and the last
\* one is the queue of the last round.
THEOREM CalculateRootIsTree ==
    ASSUME NEW b, Listing(b), Len(b) \in Nat \ {0}
    PROVE  CalculateRoot(b) = TreeRoot(b)
<1>1. PICK n \in Nat : Len(b) = n + 1
  <2>1. Len(b) - 1 \in Nat /\ Len(b) = (Len(b) - 1) + 1
    OBVIOUS
  <2> QED BY <2>1
<1>2. PICK q : IsQueue(b, n, q) /\ CalculateRoot(b) = q[n][1]
  <2>1. PICK q : IsQueue(b, Len(b) - 1, q)
                 /\ CalculateRoot(b) = q[Len(b) - 1][1]
    BY RootOfQueue
  <2>2. Len(b) - 1 = n
    BY <1>1
  <2> QED BY <2>1, <2>2
<1>3. PICK l : IsLevels(b, n + 1, l) /\ TreeRoot(b) = l[n + 1][1]
  BY <1>1, RootOfLevels
<1> DEFINE Reached(j) == \E k \in 0..n :
               /\ l[j] = q[k]
               /\ n + 1 - k <= n + 1 - j \/ k = n
           Bad == {j \in 0..(n + 1) : ~Reached(j)}
<1>4. Bad = {}
  <2> SUFFICES ASSUME Bad # {} PROVE FALSE
    OBVIOUS
  <2>1. PICK j \in Bad : \A i \in Bad : j <= i
    <3>1. Bad \subseteq Nat
      OBVIOUS
    <3> HIDE DEF Bad
    <3> QED BY <3>1, LeastNatural
  <2>2. j # 0
    <3>1. l[0] = b /\ q[0] = b
      BY <1>2, <1>3 DEF IsLevels, IsQueue
    <3>2. Reached(0)
      BY <3>1
    <3> QED BY <2>1, <3>2
  <2>3. j - 1 \in 0..(n + 1) /\ j \in 0..(n + 1) /\ j - 1 \notin Bad
    BY <2>1, <2>2
  <2>4. PICK k \in 0..n : /\ l[j - 1] = q[k]
                          /\ n + 1 - k <= n + 1 - (j - 1) \/ k = n
    BY <2>3
  <2>5. l[j] = Above(q[k])
    BY <1>3, <2>2, <2>3, <2>4 DEF IsLevels
  <2>6. CASE k = n
    <3>0. n \in 0..n /\ n + 1 - n = 1
      OBVIOUS
    <3>1. Len(q[n]) = 1
      BY <1>1, <1>2, <3>0, QueueLengths
    <3>2. l[j] = q[n]
      BY <2>5, <2>6, <3>1 DEF Above
    <3>3. Reached(j)
      BY <2>6, <3>2
    <3> QED BY <2>1, <3>3
  <2>7. CASE k # n
    <3>1. PICK m \in Nat : m = n + 1 - k
      OBVIOUS
    <3>2. m >= 2
      BY <2>7, <3>1
    <3>3. PICK i \in 0..n : i > k /\ q[i] = Above(q[k])
      BY <1>1, <1>2, <3>1, <3>2, QueueReachesLevel
    <3>4. n + 1 - i <= n + 1 - j
      BY <2>3, <2>4, <2>7, <3>3
    <3>5. Reached(j)
      BY <2>5, <3>3, <3>4
    <3> QED BY <2>1, <3>5
  <2> QED BY <2>6, <2>7
<1>5. PICK k \in 0..n : /\ l[n + 1] = q[k]
                        /\ n + 1 - k <= n + 1 - (n + 1) \/ k = n
  BY <1>4
<1>6. k = n
  BY <1>5
<1> QED BY <1>2, <1>3, <1>5, <1>6

-----------------------------------------------------------------------------
(***************************************************************************)
(* Schemas and the records of fields.                                      *)
(***************************************************************************)

\* What the three schemas have in common.
IsSchema(schema) ==
    /\ DOMAIN schema \in SUBSET (0..240)
    /\ IsFiniteSet(DOMAIN schema)
    /\ signatureType \in DOMAIN schema
    /\ schema[signatureType] = "signature"

LEMMA Schemas == \A k \in Artefacts : IsSchema(Schema(k))
<1>1. ASSUME NEW schema, DOMAIN schema \in SUBSET (0..240)
      PROVE  IsFiniteSet(DOMAIN schema)
  <2>1. IsFiniteSet(0..240)
    <3>1. 0 \in Int /\ 240 \in Int
      OBVIOUS
    <3> QED BY <3>1, FS_Interval
  <2> QED BY <1>1, <2>1, FS_Subset
<1>2. IsSchema(OfferSchema)
  <2>1. DOMAIN OfferSchema \in SUBSET (0..240) /\ signatureType \in DOMAIN OfferSchema
    BY DEF OfferSchema, chainType, amountType, descriptionType, featuresType,
        expiryType, issuerType, quantityMinType, quantityMaxType, nodeIDType,
        signatureType
  <2>2. OfferSchema[signatureType] = "signature"
    BY DEF OfferSchema, chainType, amountType, descriptionType, featuresType,
        expiryType, issuerType, quantityMinType, quantityMaxType, nodeIDType,
        signatureType
  <2> QED BY <1>1, <2>1, <2>2 DEF IsSchema
<1>3. IsSchema(InvoiceRequestSchema)
  <2>1. DOMAIN InvoiceRequestSchema \in SUBSET (0..240)
        /\ signatureType \in DOMAIN InvoiceRequestSchema
    BY DEF InvoiceRequestSchema, invReqChainType, invReqOfferIDType,
        invReqAmountType, invReqFeaturesType, invReqQuantityType,
        invReqPayerKeyType, invReqPayerNoteType, invReqPayerInfoType,
        invReqSignatureType, signatureType
  <2>2. InvoiceRequestSchema[signatureType] = "signature"
    BY DEF InvoiceRequestSchema, invReqChainType, invReqOfferIDType,
        invReqAmountType, invReqFeaturesType, invReqQuantityType,
        invReqPayerKeyType, invReqPayerNoteType, invReqPayerInfoType,
        invReqSignatureType, signatureType
  <2> QED BY <1>1, <2>1, <2>2 DEF IsSchema
<1>4. IsSchema(InvoiceSchema)
  <2>1. DOMAIN InvoiceSchema \in SUBSET (0..240)
        /\ signatureType \in DOMAIN InvoiceSchema
    BY DEF InvoiceSchema, invChainType, invOfferIDType, invAmountType,
        invDescType, invFeatType, invNodeIDType, invQuantityType,
        invPayerKeyType, invPayerNoteType, invCreatedAtType,
        invPaymentHashType, invRelativeExpiryType, inCLTVType,
        invPayerInfoType, invSigType, signatureType
  <2>2. InvoiceSchema[signatureType] = "signature"
    BY DEF InvoiceSchema, invChainType, invOfferIDType, invAmountType,
        invDescType, invFeatType, invNodeIDType, invQuantityType,
        invPayerKeyType, invPayerNoteType, invCreatedAtType,
        invPaymentHashType, invRelativeExpiryType, inCLTVType,
        invPayerInfoType, invSigType, signatureType
  <2> QED BY <1>1, <2>1, <2>2 DEF IsSchema
<1> QED BY <1>2, <1>3, <1>4 DEF Artefacts, Schema

\* The image of a finite set under a function is finite.
LEMMA FiniteRange ==
    ASSUME NEW f, IsFiniteSet(DOMAIN f)
    PROVE  IsFiniteSet({f[x] : x \in DOMAIN f})
<1>1. PICK S : S = DOMAIN f
  OBVIOUS
<1>2. PICK T : T = {f[x] : x \in DOMAIN f}
  OBVIOUS
<1>3. PICK g : g = [x \in S |-> f[x]]
  OBVIOUS
<1>4. g \in [S -> T] /\ \A t \in T : \E x \in S : g[x] = t
  BY <1>1, <1>2, <1>3
<1>5. g \in Surjection(S, T)
  BY <1>4 DEF Surjection
<1> QED BY <1>1, <1>2, <1>5, FS_Surjection

\* What a record is made of.
LEMMA RecordParts ==
    ASSUME NEW t, NEW v
    PROVE  Record(t, v).type = t /\ Record(t, v).bytes = v
  BY DEF Record

\* The records of fields: one for each that is set.
LEMMA FieldRecords ==
    ASSUME NEW schema, IsSchema(schema), NEW f
    PROVE  /\ RecordSet(records(schema, f))
           /\ \A r \in records(schema, f) :
                 /\ r.type \in DOMAIN schema /\ f[r.type] # Unset
                 /\ r.bytes = Write(schema[r.type], f[r.type])
           /\ \A t \in DOMAIN schema : f[t] # Unset =>
                 Record(t, Write(schema[t], f[t])) \in records(schema, f)
<1>1. PICK D : D = {t \in DOMAIN schema : f[t] # Unset}
  OBVIOUS
<1>2. PICK g : g = [t \in D |-> Record(t, Write(schema[t], f[t]))]
  OBVIOUS
<1>3. D \in SUBSET DOMAIN schema /\ IsFiniteSet(DOMAIN schema)
  BY <1>1 DEF IsSchema
<1>4. IsFiniteSet(D) /\ DOMAIN g = D
  BY <1>2, <1>3, FS_Subset
<1>5. records(schema, f) = {Record(t, Write(schema[t], f[t])) : t \in D}
  BY <1>1 DEF records
<1>6. records(schema, f) = {g[t] : t \in DOMAIN g}
  BY <1>2, <1>4, <1>5
<1>7. IsFiniteSet(records(schema, f))
  BY <1>4, <1>6, FiniteRange
<1>8. ASSUME NEW r \in records(schema, f)
      PROVE  \E t \in D : r = Record(t, Write(schema[t], f[t])) /\ r.type = t
                          /\ r.bytes = Write(schema[t], f[t])
  BY <1>5, RecordParts
<1>9. \A t \in D : t \in Nat
  BY <1>3 DEF IsSchema
<1>10. \A r \in records(schema, f) : r.type \in Nat
  BY <1>8, <1>9
<1>11. \A r, s \in records(schema, f) : r.type = s.type => r = s
  BY <1>8
<1>12. RecordSet(records(schema, f))
  BY <1>7, <1>10, <1>11 DEF RecordSet
<1>13. \A r \in records(schema, f) :
          /\ r.type \in DOMAIN schema /\ f[r.type] # Unset
          /\ r.bytes = Write(schema[r.type], f[r.type])
  BY <1>1, <1>8
<1>14. \A t \in DOMAIN schema : f[t] # Unset =>
          Record(t, Write(schema[t], f[t])) \in records(schema, f)
  BY <1>1, <1>5
<1> QED BY <1>12, <1>13, <1>14

\* Records of other types than a schema's.
Others(schema, U) == RecordSet(U) /\ \A r \in U : r.type \notin DOMAIN schema

LEMMA WithOthers ==
    ASSUME NEW schema, IsSchema(schema), NEW f, NEW U, Others(schema, U)
    PROVE  RecordSet(records(schema, f) \cup U)
<1>1. IsFiniteSet(records(schema, f) \cup U)
  BY FieldRecords, FS_Union DEF Others, RecordSet
<1>2. \A r \in records(schema, f) \cup U : r.type \in Nat
  BY FieldRecords DEF Others, RecordSet
<1>3. \A r, s \in records(schema, f) \cup U : r.type = s.type => r = s
  BY FieldRecords DEF Others, RecordSet
<1> QED BY <1>1, <1>2, <1>3 DEF RecordSet

\* A field that one artefact has is in the other if the roots are the same.
LEMMA FieldKept ==
    ASSUME NEW schema, IsSchema(schema), NEW f, NEW g,
           NEW U, Others(schema, U), NEW V, Others(schema, V),
           MerkleRoot(records(schema, f) \cup U)
               = MerkleRoot(records(schema, g) \cup V),
           NEW t \in DOMAIN schema, t # signatureType, f[t] # Unset
    PROVE  g[t] # Unset /\ Write(schema[t], f[t]) = Write(schema[t], g[t])
<1>1. PICK S : S = records(schema, f) \cup U
  OBVIOUS
<1>2. PICK T : T = records(schema, g) \cup V
  OBVIOUS
<1>3. Hashed(S) = Hashed(T)
  BY <1>1, <1>2, WithOthers, RootCovers
<1>4. PICK r : r = Record(t, Write(schema[t], f[t]))
  OBVIOUS
<1>5. r \in S /\ r.type = t /\ r.bytes = Write(schema[t], f[t])
  BY <1>1, <1>4, FieldRecords, RecordParts
<1>6. t \in Nat /\ t < 240
  BY DEF IsSchema, signatureType
<1>7. r \in Hashed(S)
  <2>0. \A x \in Nat : x < 240 => x \notin 240..1000
    OBVIOUS
  <2>1. t \notin 240..1000
    BY <1>6, <2>0
  <2> QED BY <1>5, <2>1 DEF Hashed, isSignatureTLV
<1>8. r \in T
  BY <1>3, <1>7 DEF Hashed
<1>9. r \in records(schema, g)
  BY <1>2, <1>5, <1>8 DEF Others
<1> QED BY <1>5, <1>9, FieldRecords

\* Artefacts with the same root show the same fields, but for the signature,
\* whatever other records were hashed with them.
LEMMA FieldsFromRoots ==
    ASSUME NEW k \in Artefacts, NEW f, NEW g,
           NEW U, Others(Schema(k), U), NEW V, Others(Schema(k), V),
           MerkleRoot(records(Schema(k), f) \cup U)
               = MerkleRoot(records(Schema(k), g) \cup V),
           NEW t \in DOMAIN Schema(k), t # signatureType
    PROVE  Shown(k, f, t) = Shown(k, g, t)
<1>1. PICK schema : schema = Schema(k)
  OBVIOUS
<1>2. IsSchema(schema)
  BY <1>1, Schemas
<1>3. f[t] # Unset => g[t] # Unset /\ Write(schema[t], f[t]) = Write(schema[t], g[t])
  BY <1>1, <1>2, FieldKept
<1>4. g[t] # Unset => f[t] # Unset /\ Write(schema[t], g[t]) = Write(schema[t], f[t])
  BY <1>1, <1>2, FieldKept
<1> QED BY <1>1, <1>3, <1>4 DEF Shown

\* Signatures do not count for the root, and something that is hashed gives one.
LEMMA RootWithoutSignature ==
    ASSUME NEW schema, IsSchema(schema), NEW f, NEW g,
           NEW U, Others(schema, U),
           \A t \in DOMAIN schema : t # signatureType => f[t] = g[t]
    PROVE  MerkleRoot(records(schema, f) \cup U)
               = MerkleRoot(records(schema, g) \cup U)
<1>1. PICK S : S = records(schema, f) \cup U
  OBVIOUS
<1>2. PICK T : T = records(schema, g) \cup U
  OBVIOUS
<1>3. ASSUME NEW r \in records(schema, f), ~isSignatureTLV(r)
      PROVE  r \in records(schema, g)
  <2>1. PICK t \in DOMAIN schema : f[t] # Unset
                                   /\ r = Record(t, Write(schema[t], f[t]))
    BY DEF records
  <2>2. r.type = t
    BY <2>1, RecordParts
  <2>3. t # signatureType
    BY <1>3, <2>2 DEF isSignatureTLV, signatureType
  <2> QED BY <2>1, <2>3, FieldRecords
<1>4. ASSUME NEW r \in records(schema, g), ~isSignatureTLV(r)
      PROVE  r \in records(schema, f)
  <2>1. PICK t \in DOMAIN schema : g[t] # Unset
                                   /\ r = Record(t, Write(schema[t], g[t]))
    BY DEF records
  <2>2. r.type = t
    BY <2>1, RecordParts
  <2>3. t # signatureType
    BY <1>4, <2>2 DEF isSignatureTLV, signatureType
  <2> QED BY <2>1, <2>3, FieldRecords
<1>5. Hashed(S) = Hashed(T)
  BY <1>1, <1>2, <1>3, <1>4 DEF Hashed
<1>6. RecordSet(S) /\ RecordSet(T)
  BY <1>1, <1>2, WithOthers
<1> QED BY <1>1, <1>2, <1>5, <1>6, RootOfRecords

-----------------------------------------------------------------------------
(***************************************************************************)
(* The inductive invariant. Its parts are about s and g, the values of     *)
(* sent and got.                                                           *)
(***************************************************************************)
Author(k) == IF k = "request" THEN Payer ELSE Issuer
Purpose(k) == IF k = "request" THEN "invoice_request" ELSE k

\* What an author made: the root is over the fields and the author's other
\* records, something is hashed, and a signature is over that root.
MadeOK(k, a) ==
    /\ a.fields = [t \in DOMAIN Schema(k) |-> a.fields[t]]
    /\ Others(Schema(k), a.foreign)
    /\ a.root = MerkleRoot(records(Schema(k), a.fields) \cup a.foreign)
    /\ \E t \in DOMAIN Schema(k) \ {signatureType} : a.fields[t] # Unset
    /\ a.fields[signatureType] \in
          {Unset, <<Sign(Author(k), signatureDigest(Purpose(k), a.root))>>}
SentOK(s, k) == s[k] # NotSent => MadeOK(k, s[k])

\* A signature is that of an artefact.
Genuine(s, v) ==
    \/ v = <<>> \/ v[1].tag # "signature"
    \/ \E k \in Artefacts : s[k] # NotSent /\ v = s[k].fields[signatureType]

\* What an artefact was read as: it is valid, its signature is genuine, and if
\* it has the root of what was sent it has the fields of what was sent.
GotOK(s, k, a) ==
    a.ok =>
        /\ s[k] # NotSent
        /\ DOMAIN a.fields = DOMAIN Schema(k)
        /\ \A t \in DOMAIN Schema(k) :
              Schema(k)[t] \in {"hash", "features", "tu64", "uint64"}
                  => a.fields[t] # <<Num(0)>>
        /\ Validate(k, a)
        /\ Genuine(s, a.fields[signatureType])
        /\ a.root = s[k].root =>
              \A t \in DOMAIN Schema(k) \ {signatureType} :
                  Shown(k, a.fields, t) = Shown(k, s[k].fields, t)

\* A request was made for the offer that the payer read, which allows it.
RequestFor(r, o) ==
    /\ o.ok
    /\ r.fields[invReqOfferIDType] = <<o.root>>
    /\ \E a \in Amounts, n \in Quantities :
          /\ RequestAllowed(o, a, n)
          /\ r.fields[invReqAmountType] = Value(a)
          /\ r.fields[invReqQuantityType] = Value(n)
RequestOK(s, g) == s["request"] # NotSent => RequestFor(s["request"], g["offer"])

\* The records of a stream, and those in the letters of a string, have types,
\* and signatures that are genuine.
RecordOK(s, r) ==
    r.type \in Nat /\ (r.type = signatureType => Genuine(s, r.bytes))
LetterOK(s, c) ==
    /\ "tag" \in DOMAIN c
    /\ c.tag = "data" => "record" \in DOMAIN c /\ RecordOK(s, c.record)
TextOK(s, text) ==
    \E R : text \in Seq(R) /\ \A c \in R : LetterOK(s, c)
StreamOK(s, stream) ==
    \E R : /\ stream \in Seq(R) /\ \A r \in R : RecordOK(s, r)
           /\ \A i, j \in DOMAIN stream :
                 stream[i].type = stream[j].type => i = j

\* What is on its way was sent.
TransitOK(s, x) ==
    /\ x = [kind |-> x.kind, data |-> x.data]
    /\ x.kind \in Artefacts \cup {"none"}
    /\ x.kind # "none" => s[x.kind] # NotSent
    /\ x.kind = "offer" => TextOK(s, x.data)
    /\ x.kind \in {"request", "invoice"} => StreamOK(s, x.data)

IndInv ==
    /\ sent = [k \in Artefacts |-> sent[k]]
    /\ got = [k \in Artefacts |-> got[k]]
    /\ changes \in 0..MaxChanges
    /\ \A k \in Artefacts : SentOK(sent, k) /\ GotOK(sent, k, got[k])
    /\ RequestOK(sent, got)
    /\ TransitOK(sent, transit)

-----------------------------------------------------------------------------
(***************************************************************************)
(* Reading.                                                                *)
(***************************************************************************)

\* The bytes of a type of a stream are those of a record of the stream.
LEMMA BytesFound ==
    ASSUME NEW R, NEW stream \in Seq(R), NEW t \in Types(stream)
    PROVE  \E r \in R : r.type = t /\ BytesOf(stream, t) = r.bytes
<1>1. \E i \in DOMAIN stream : stream[i].type = t
  BY DEF Types
<1>2. PICK i \in DOMAIN stream :
         i = CHOOSE l \in DOMAIN stream : stream[l].type = t
  BY <1>1
<1>3. stream[i].type = t
  BY <1>1, <1>2
<1>4. stream[i] \in R
  OBVIOUS
<1> QED BY <1>2, <1>3, <1>4 DEF BytesOf

\* The records that were not known have types of their own, one for each type.
LEMMA UnknownRecords ==
    ASSUME NEW schema, NEW R, NEW stream \in Seq(R),
           \A r \in R : r.type \in Nat, NEW last
    PROVE  Others(schema,
               unknownRecordsFromParsed(ParsedTypes(schema, stream), last))
<1>1. PICK m : m = ParsedTypes(schema, stream)
  OBVIOUS
<1>2. PICK D : D = {t \in DOMAIN m : m[t] # <<>>}
  OBVIOUS
<1>3. PICK f : f = [t \in D |-> [type |-> t, len |-> Len(m[t]), bytes |-> m[last]]]
  OBVIOUS
<1>4. PICK U : U = unknownRecordsFromParsed(m, last)
  OBVIOUS
<1>5. DOMAIN f = D /\ U = {f[t] : t \in DOMAIN f} /\ \A t \in D : f[t].type = t
  BY <1>2, <1>3, <1>4 DEF unknownRecordsFromParsed
<1>6. DOMAIN m = Types(stream) /\ \A t \in D : t \notin DOMAIN schema
  BY <1>1, <1>2 DEF ParsedTypes
<1>7. IsFiniteSet(D)
  <2>1. PICK n \in Nat : n = Len(stream) /\ DOMAIN stream = 1..n
    OBVIOUS
  <2>2. IsFiniteSet(1..n)
    BY FS_Interval
  <2>3. PICK g : g = [i \in 1..n |-> stream[i].type]
    OBVIOUS
  <2>4. DOMAIN g = 1..n /\ Types(stream) = {g[i] : i \in DOMAIN g}
    BY <2>1, <2>3 DEF Types
  <2>5. IsFiniteSet(Types(stream))
    BY <2>2, <2>4, FiniteRange
  <2>6. D \in SUBSET Types(stream)
    BY <1>2, <1>6
  <2> QED BY <2>5, <2>6, FS_Subset
<1>8. \A t \in D : t \in Nat
  <2>1. \A t \in Types(stream) : t \in Nat
    BY DEF Types
  <2> QED BY <1>2, <1>6, <2>1
<1>9. IsFiniteSet(U)
  BY <1>5, <1>7, FiniteRange
<1>10. \A r \in U : r.type \in D /\ r = f[r.type]
  BY <1>5
<1>11. RecordSet(U)
  BY <1>8, <1>9, <1>10 DEF RecordSet
<1> QED BY <1>1, <1>4, <1>6, <1>10, <1>11 DEF Others

\* What a stream is decoded to: fields with a genuine signature and no zeros,
\* and the root over them and over other records.
ReadAs(s, k, a) ==
    /\ DOMAIN a.fields = DOMAIN Schema(k)
    /\ \A t \in DOMAIN Schema(k) :
          Schema(k)[t] \in {"hash", "features", "tu64", "uint64"}
              => a.fields[t] # <<Num(0)>>
    /\ Genuine(s, a.fields[signatureType])
    /\ \E U : /\ Others(Schema(k), U)
              /\ a.root = MerkleRoot(records(Schema(k), a.fields) \cup U)

\* Decode makes that of every stream.
LEMMA Decoded ==
    ASSUME NEW k \in Artefacts, NEW s, NEW R, NEW stream \in Seq(R),
           \A r \in R : RecordOK(s, r), NEW last,
           NEW a, a = Decode(Schema(k), stream, last), a.ok
    PROVE  ReadAs(s, k, a)
<1>1. PICK schema : schema = Schema(k)
  OBVIOUS
<1>2. IsSchema(schema)
  BY <1>1, Schemas
<1>3. PICK known : known = Types(stream) \cap DOMAIN schema
  OBVIOUS
<1>4. PICK f : f = [t \in DOMAIN schema |->
                      IF t \in known THEN Read(schema[t], BytesOf(stream, t))
                      ELSE Unset]
  OBVIOUS
<1>5. PICK U : U = unknownRecordsFromParsed(ParsedTypes(schema, stream), last)
  OBVIOUS
<1>6. PICK root : root = MerkleRoot(records(schema, f) \cup U)
  OBVIOUS
<1>7. a = IF \/ ~Canonical(stream) \/ UnknownEven(schema, stream)
             \/ \E t \in known : ~Readable(schema[t], BytesOf(stream, t))
             \/ root = ErrNoTLVs
          THEN Failed
          ELSE [ok |-> TRUE, fields |-> f, root |-> root]
  BY <1>1, <1>3, <1>4, <1>5, <1>6 DEF Decode, decodeMerkleRoot
<1>8. ~Failed.ok
  BY DEF Failed
<1>9. /\ a = [ok |-> TRUE, fields |-> f, root |-> root]
      /\ \A t \in known : Readable(schema[t], BytesOf(stream, t))
  BY <1>7, <1>8
<1>10. a.fields = f /\ a.root = root /\ DOMAIN f = DOMAIN schema
  BY <1>4, <1>9
<1>11. Others(schema, U)
  <2>1. \A r \in R : r.type \in Nat
    BY DEF RecordOK
  <2> QED BY <1>5, <2>1, UnknownRecords
<1>12. ASSUME NEW t \in DOMAIN schema,
              schema[t] \in {"hash", "features", "tu64", "uint64"}
       PROVE  f[t] # <<Num(0)>>
  <2>0. Unset # <<Num(0)>>
    BY DEF Unset
  <2>1. CASE t \notin known
    BY <1>4, <2>0, <2>1
  <2>2. CASE t \in known
    <3>1. PICK v : v = BytesOf(stream, t)
      OBVIOUS
    <3>2. f[t] = Read(schema[t], v) /\ Readable(schema[t], v)
      BY <1>4, <1>9, <2>2, <3>1
    <3>3. CASE schema[t] = "tu64"
      <4>1. v # <<Num(0)>>
        BY <3>2, <3>3 DEF Readable
      <4>2. Read("tu64", v) = v
        BY DEF Read
      <4> QED BY <3>2, <3>3, <4>1, <4>2
    <3>4. CASE schema[t] \in {"hash", "features", "uint64"}
      <4>1. CASE v = <<Num(0)>>
        <5>1. Read(schema[t], v) = Unset
          BY <3>4, <4>1 DEF Read
        <5> QED BY <2>0, <3>2, <5>1
      <4>2. CASE v # <<Num(0)>>
        <5>1. Read(schema[t], v) = v
          BY <3>4, <4>2 DEF Read
        <5> QED BY <3>2, <4>2, <5>1
      <4> QED BY <4>1, <4>2
    <3> QED BY <1>12, <3>3, <3>4
  <2> QED BY <2>1, <2>2
<1>13. Genuine(s, f[signatureType])
  <2>1. signatureType \in DOMAIN schema /\ schema[signatureType] = "signature"
    BY <1>2 DEF IsSchema
  <2>2. CASE signatureType \notin known
    <3>1. f[signatureType] = <<>>
      BY <1>4, <2>1, <2>2 DEF Unset
    <3> QED BY <3>1 DEF Genuine
  <2>3. CASE signatureType \in known
    <3>1. PICK v : v = BytesOf(stream, signatureType)
      OBVIOUS
    <3>2. f[signatureType] = Read("signature", v)
      BY <1>4, <2>1, <2>3, <3>1
    <3>3. Read("signature", v) = v
      BY DEF Read
    <3>4. signatureType \in Types(stream)
      BY <1>3, <2>3
    <3>5. PICK r \in R : r.type = signatureType /\ v = r.bytes
      BY <3>1, <3>4, BytesFound
    <3>6. Genuine(s, v)
      BY <3>5 DEF RecordOK
    <3> QED BY <3>2, <3>3, <3>6
  <2> QED BY <2>2, <2>3
<1> QED BY <1>1, <1>6, <1>10, <1>11, <1>12, <1>13 DEF ReadAs

\* What is accepted of a stream fits what was sent.
LEMMA AcceptedOK ==
    ASSUME NEW k \in Artefacts, NEW s, SentOK(s, k), s[k] # NotSent,
           NEW R, NEW stream \in Seq(R), \A r \in R : RecordOK(s, r), NEW last
    PROVE  GotOK(s, k, Accepted(k, Decode(Schema(k), stream, last)))
<1>1. PICK a : a = Decode(Schema(k), stream, last)
  OBVIOUS
<1>2. ~Failed.ok
  BY DEF Failed
<1>3. CASE Accepted(k, a) = Failed
  BY <1>1, <1>2, <1>3 DEF GotOK
<1>4. CASE Accepted(k, a) # Failed
  <2>1. a.ok /\ Validate(k, a) /\ Accepted(k, a) = a
    BY <1>4 DEF Accepted
  <2>2. /\ DOMAIN a.fields = DOMAIN Schema(k)
        /\ \A t \in DOMAIN Schema(k) :
              Schema(k)[t] \in {"hash", "features", "tu64", "uint64"}
                  => a.fields[t] # <<Num(0)>>
        /\ Genuine(s, a.fields[signatureType])
        /\ \E U : /\ Others(Schema(k), U)
                  /\ a.root = MerkleRoot(records(Schema(k), a.fields) \cup U)
    <3>1. ReadAs(s, k, a)
      BY <1>1, <2>1, Decoded
    <3> QED BY <3>1 DEF ReadAs
  <2>3. PICK U : /\ Others(Schema(k), U)
                 /\ a.root = MerkleRoot(records(Schema(k), a.fields) \cup U)
    BY <2>2
  <2>4. PICK f : f = a.fields
    OBVIOUS
  <2>5. PICK h : h = s[k].fields
    OBVIOUS
  <2>6. PICK V : V = s[k].foreign
    OBVIOUS
  <2>7. /\ Others(Schema(k), V)
        /\ s[k].root = MerkleRoot(records(Schema(k), h) \cup V)
    BY <2>5, <2>6 DEF SentOK, MadeOK
  <2>8. ASSUME a.root = s[k].root,
               NEW t \in DOMAIN Schema(k), t # signatureType
        PROVE  Shown(k, f, t) = Shown(k, h, t)
    BY <2>3, <2>4, <2>7, <2>8, FieldsFromRoots, ZenonT(30)
  <2>9. a.root = s[k].root =>
           \A t \in DOMAIN Schema(k) \ {signatureType} :
               Shown(k, a.fields, t) = Shown(k, s[k].fields, t)
    BY <2>4, <2>5, <2>8
  <2> QED BY <1>1, <2>1, <2>2, <2>9 DEF GotOK
<1> QED BY <1>3, <1>4

-----------------------------------------------------------------------------
(***************************************************************************)
(* Strings.                                                                *)
(***************************************************************************)

\* One more letter is kept, or not.
Keep(text, i, kept) ==
    IF text[i] \in {Plus, Space} THEN kept ELSE Append(kept, text[i])
IsKept(text, n, f) ==
    f = [i \in 0..n |-> IF i = 0 THEN <<>> ELSE Keep(text, i, f[i - 1])]

\* There is something to keep of every beginning of a text.
LEMMA KeptExists ==
    ASSUME NEW text, NEW n \in Nat
    PROVE  \E f : IsKept(text, n, f)
<1> DEFINE Bad == {m \in Nat : ~\E f : IsKept(text, m, f)}
<1> SUFFICES ASSUME Bad # {} PROVE FALSE
  OBVIOUS
<1>1. PICK m \in Bad : \A j \in Bad : m <= j
  BY LeastNatural
<1>2. m # 0
  <2>1. IsKept(text, 0, [i \in 0..0 |-> <<>>])
    BY DEF IsKept
  <2> QED BY <1>1, <2>1
<1>3. m - 1 \in Nat /\ m - 1 \notin Bad
  BY <1>1, <1>2
<1>4. PICK f : IsKept(text, m - 1, f)
  BY <1>3
<1>5. PICK p : p = [i \in 0..m |-> IF i = m THEN Keep(text, m, f[m - 1]) ELSE f[i]]
  OBVIOUS
<1>6. ASSUME NEW i \in 0..m
      PROVE  p[i] = IF i = 0 THEN <<>> ELSE Keep(text, i, p[i - 1])
  <2>1. CASE i = m
    BY <1>2, <1>3, <1>5, <2>1
  <2>2. CASE i # m
    <3>1. i \in 0..(m - 1)
          /\ f[i] = IF i = 0 THEN <<>> ELSE Keep(text, i, f[i - 1])
      BY <1>3, <1>4, <2>2 DEF IsKept
    <3>2. p[i] = f[i]
      BY <1>5, <2>2
    <3>3. i # 0 => p[i - 1] = f[i - 1]
      BY <1>5, <3>1
    <3> QED BY <3>1, <3>2, <3>3
  <2> QED BY <2>1, <2>2
<1>7. p = [i \in 0..m |-> p[i]]
  BY <1>5
<1>8. IsKept(text, m, p)
  BY <1>6, <1>7 DEF IsKept
<1> QED BY <1>1, <1>8

\* The letters of a text are a sequence of letters of it.
LEMMA LettersKept ==
    ASSUME NEW R, NEW text \in Seq(R)
    PROVE  Letters(text) \in Seq(R)
<1>1. PICK n \in Nat : n = Len(text) /\ DOMAIN text = 1..n
  OBVIOUS
<1>2. PICK p : IsKept(text, n, p)
  BY KeptExists
<1> DEFINE kept[i \in 0..Len(text)] ==
               IF i = 0 THEN <<>>
               ELSE IF text[i] \in {Plus, Space} THEN kept[i - 1]
               ELSE Append(kept[i - 1], text[i])
<1>3. IsKept(text, Len(text), kept)
  BY <1>1, <1>2 DEF IsKept, Keep
<1>4. PICK f : IsKept(text, n, f) /\ Letters(text) = f[n]
  BY <1>1, <1>3 DEF Letters
<1> HIDE DEF kept
<1> DEFINE Bad == {i \in 0..n : f[i] \notin Seq(R)}
<1>5. Bad = {}
  <2> SUFFICES ASSUME Bad # {} PROVE FALSE
    OBVIOUS
  <2>1. PICK i \in Bad : \A j \in Bad : i <= j
    <3>1. Bad \subseteq Nat
      OBVIOUS
    <3> HIDE DEF Bad
    <3> QED BY <3>1, LeastNatural
  <2>2. i # 0
    <3>1. f[0] = <<>>
      BY <1>4 DEF IsKept
    <3>2. <<>> \in Seq(R)
      OBVIOUS
    <3> QED BY <2>1, <3>1, <3>2
  <2>3. i \in 1..n /\ i - 1 \in 0..n /\ i - 1 \notin Bad
    BY <2>1, <2>2
  <2>4. f[i - 1] \in Seq(R) /\ text[i] \in R
    BY <1>1, <2>3
  <2>5. f[i] = Keep(text, i, f[i - 1])
    BY <1>4, <2>2, <2>3 DEF IsKept
  <2>6. f[i] \in Seq(R)
    BY <2>4, <2>5 DEF Keep
  <2> QED BY <2>1, <2>6
<1> QED BY <1>4, <1>5

\* A string is read as a stream whose signatures are genuine, if at all.
Strung(s, text, last) ==
    \E R : \E stream \in Seq(R) :
        /\ \A r \in R : RecordOK(s, r)
        /\ DecodeOfferStr(text, last)
               = Accepted("offer", Decode(Schema("offer"), stream, last))

LEMMA StringStream ==
    ASSUME NEW s, NEW text, TextOK(s, text), NEW last
    PROVE  DecodeOfferStr(text, last) = Failed \/ Strung(s, text, last)
<1>1. PICK R : text \in Seq(R) /\ \A c \in R : LetterOK(s, c)
  BY DEF TextOK
<1>2. PICK clean : clean = stripOffer(text)
  OBVIOUS
<1>3. clean \in Seq(R)
  BY <1>1, <1>2, LettersKept DEF stripOffer
<1>4. CASE ~ReadsAsOffer(clean)
  <2>1. DecodeOfferStr(text, last) = Failed
    BY <1>2, <1>4 DEF DecodeOfferStr
  <2> QED BY <2>1
<1>5. CASE ReadsAsOffer(clean)
  <2>1. PICK n \in Nat : n = Len(clean) - 2 /\ DOMAIN clean = 1..(n + 2)
                         /\ \A i \in 3..(n + 2) : clean[i].tag = "data"
    BY <1>3, <1>5 DEF ReadsAsOffer
  <2>2. PICK stream : stream = StreamOf(clean)
    OBVIOUS
  <2>3. stream = [i \in 1..n |-> clean[i + 2].record]
    BY <2>1, <2>2 DEF StreamOf
  <2>4. PICK T : T = {stream[i] : i \in 1..n}
    OBVIOUS
  <2>5. stream = [i \in 1..n |-> stream[i]] /\ \A i \in 1..n : stream[i] \in T
    BY <2>3, <2>4
  <2>6. stream \in Seq(T)
    BY <2>5
  <2>7. ASSUME NEW i \in 1..n PROVE RecordOK(s, stream[i])
    <3>1. i + 2 \in 3..(n + 2) /\ i + 2 \in 1..(n + 2)
      OBVIOUS
    <3>2. clean[i + 2] \in R /\ clean[i + 2].tag = "data"
      BY <1>3, <2>1, <3>1
    <3>3. RecordOK(s, clean[i + 2].record)
      BY <1>1, <3>2 DEF LetterOK
    <3> QED BY <2>3, <3>3
  <2>8. \A r \in T : RecordOK(s, r)
    BY <2>4, <2>7
  <2>9. Schema("offer") = OfferSchema
    BY DEF Schema
  <2>10. DecodeOfferStr(text, last)
             = Accepted("offer", Decode(Schema("offer"), stream, last))
    BY <1>2, <1>5, <2>2, <2>9 DEF DecodeOfferStr, DecodeOffer
  <2> QED BY <2>6, <2>8, <2>10 DEF Strung
<1> QED BY <1>4, <1>5

\* What a string is read as fits what was sent.
LEMMA OfferReadOK ==
    ASSUME NEW s, SentOK(s, "offer"), s["offer"] # NotSent,
           NEW text, TextOK(s, text), NEW last
    PROVE  GotOK(s, "offer", DecodeOfferStr(text, last))
<1>1. CASE DecodeOfferStr(text, last) = Failed
  BY <1>1 DEF GotOK, Failed
<1>2. CASE DecodeOfferStr(text, last) # Failed
  <2>1. PICK R, stream : /\ stream \in Seq(R) /\ \A r \in R : RecordOK(s, r)
                         /\ DecodeOfferStr(text, last)
                                = Accepted("offer",
                                           Decode(Schema("offer"), stream, last))
    BY <1>2, StringStream DEF Strung
  <2>2. "offer" \in Artefacts
    BY DEF Artefacts
  <2>3. GotOK(s, "offer", Accepted("offer", Decode(Schema("offer"), stream, last)))
    BY <2>1, <2>2, AcceptedOK
  <2> QED BY <2>1, <2>3
<1> QED BY <1>1, <1>2

\* What is read of a request or an invoice fits what was sent.
LEMMA StreamReadOK ==
    ASSUME NEW s, NEW k \in {"request", "invoice"}, SentOK(s, k), s[k] # NotSent,
           NEW stream, StreamOK(s, stream), NEW last
    PROVE  GotOK(s, k, Accepted(k, Decode(Schema(k), stream, last)))
<1>1. PICK R : stream \in Seq(R) /\ \A r \in R : RecordOK(s, r)
  BY DEF StreamOK
<1>2. k \in Artefacts
  BY DEF Artefacts
<1> QED BY <1>1, <1>2, AcceptedOK

-----------------------------------------------------------------------------
(***************************************************************************)
(* What may happen on the way keeps strings and streams in order.          *)
(***************************************************************************)

\* A sequence without one of its elements.
LEMMA WithoutOne ==
    ASSUME NEW R, NEW x \in Seq(R), NEW i \in DOMAIN x
    PROVE  /\ Without(x, i) \in Seq(R)
           /\ Len(Without(x, i)) = Len(x) - 1
           /\ \A j \in 1..(Len(x) - 1) :
                 Without(x, i)[j] = IF j < i THEN x[j] ELSE x[j + 1]
<1>1. PICK n \in Nat : n = Len(x) /\ i \in 1..n
  OBVIOUS
<1>2. PICK y : y = SubSeq(x, 1, i - 1)
  OBVIOUS
<1>3. PICK z : z = SubSeq(x, i + 1, n)
  OBVIOUS
<1>4. y \in Seq(R) /\ Len(y) = i - 1 /\ \A j \in 1..(i - 1) : y[j] = x[j]
  BY <1>1, <1>2
<1>5. z \in Seq(R) /\ Len(z) = n - i /\ \A j \in 1..(n - i) : z[j] = x[j + i]
  BY <1>1, <1>3
<1>6. Without(x, i) = y \o z
  BY <1>1, <1>2, <1>3 DEF Without
<1>7. PICK w : w = y \o z
  OBVIOUS
<1>8. w \in Seq(R) /\ Len(w) = n - 1
  BY <1>1, <1>4, <1>5, <1>7
<1>9. ASSUME NEW j \in 1..(n - 1) PROVE w[j] = IF j < i THEN x[j] ELSE x[j + 1]
  <2>1. CASE j < i
    BY <1>1, <1>4, <1>5, <1>7, <2>1
  <2>2. CASE ~(j < i)
    <3>1. j - (i - 1) \in 1..(n - i) /\ (j - (i - 1)) + i = j + 1
      BY <1>1, <2>2
    <3>2. w[j] = z[j - (i - 1)]
      BY <1>1, <1>4, <1>5, <1>7, <2>2, SMTT(20)
    <3>3. w[j] = x[j + 1]
      BY <1>5, <3>1, <3>2
    <3> QED BY <2>2, <3>3
  <2> QED BY <2>1, <2>2
<1> QED BY <1>1, <1>6, <1>7, <1>8, <1>9

\* Joins are no data.
LEMMA JoinsOK ==
    ASSUME NEW s
    PROVE  /\ LetterOK(s, Plus) /\ LetterOK(s, Space)
           /\ \A j \in Joins : j \in Seq({Plus, Space})
<1>1. LetterOK(s, Plus) /\ LetterOK(s, Space)
  BY DEF LetterOK, Plus, Space
<1>2. ASSUME NEW p, NEW q
      PROVE  /\ <<p>> \in Seq({p, q}) /\ <<q>> \in Seq({p, q})
             /\ <<p, q>> \in Seq({p, q}) /\ <<q, p>> \in Seq({p, q})
             /\ <<p, p>> \in Seq({p, q}) /\ <<p, q, p>> \in Seq({p, q})
  OBVIOUS
<1>3. \A j \in Joins : j \in Seq({Plus, Space})
  BY <1>2 DEF Joins
<1> QED BY <1>1, <1>3

\* A letter in upper case is as good.
LEMMA RaisedOK ==
    ASSUME NEW s, NEW c, LetterOK(s, c)
    PROVE  LetterOK(s, [c EXCEPT !.upper = TRUE])
<1>1. PICK d : d = [c EXCEPT !.upper = TRUE]
  OBVIOUS
<1>2. DOMAIN d = DOMAIN c /\ \A x \in DOMAIN c : x # "upper" => d[x] = c[x]
  BY <1>1
<1>3. "tag" \in DOMAIN c /\ "tag" # "upper" /\ "record" # "upper"
  BY DEF LetterOK
<1>4. d.tag = c.tag
  BY <1>2, <1>3
<1>5. "record" \in DOMAIN c => d.record = c.record
  BY <1>2, <1>3
<1> QED BY <1>1, <1>2, <1>4, <1>5 DEF LetterOK

\* So is one with another record.
LEMMA OtherRecordOK ==
    ASSUME NEW s, NEW c, LetterOK(s, c), c.tag = "data",
           NEW r, RecordOK(s, r)
    PROVE  LetterOK(s, [c EXCEPT !.record = r])
<1>1. PICK d : d = [c EXCEPT !.record = r]
  OBVIOUS
<1>2. DOMAIN d = DOMAIN c /\ \A x \in DOMAIN c : x # "record" => d[x] = c[x]
  BY <1>1
<1>3. "tag" \in DOMAIN c /\ "record" \in DOMAIN c /\ "tag" # "record"
  BY DEF LetterOK
<1>4. d.tag = c.tag /\ d.record = r
  BY <1>1, <1>2, <1>3
<1> QED BY <1>1, <1>2, <1>3, <1>4 DEF LetterOK

\* Joins in a string, the beginning of one, one without a letter, and one with
\* another letter.
LEMMA TextsOK ==
    ASSUME NEW s, NEW text, TextOK(s, text)
    PROVE  /\ \A i \in 1..(Len(text) + 1), j \in Joins :
                 TextOK(s, Inserted(text, i, j))
           /\ \A i \in 0..(Len(text) - 1) : TextOK(s, SubSeq(text, 1, i))
           /\ \A i \in DOMAIN text :
                 /\ LetterOK(s, text[i])
                 /\ TextOK(s, Without(text, i))
                 /\ \A c : LetterOK(s, c) => TextOK(s, [text EXCEPT ![i] = c])
<1>1. PICK R : text \in Seq(R) /\ \A c \in R : LetterOK(s, c)
  BY DEF TextOK
<1>2. PICK n \in Nat : n = Len(text) /\ DOMAIN text = 1..n
  BY <1>1
<1>3. ASSUME NEW i \in 1..(n + 1), NEW j \in Joins
      PROVE  TextOK(s, Inserted(text, i, j))
  <2>1. PICK T : T = R \cup {Plus, Space}
    OBVIOUS
  <2>2. \A c \in T : LetterOK(s, c)
    BY <1>1, <2>1, JoinsOK
  <2>3. j \in Seq(T)
    <3>1. j \in Seq({Plus, Space})
      BY JoinsOK
    <3> QED BY <2>1, <3>1
  <2>4. PICK y : y = SubSeq(text, 1, i - 1)
    OBVIOUS
  <2>5. PICK z : z = SubSeq(text, i, n)
    OBVIOUS
  <2>6. y \in Seq(R) /\ z \in Seq(R)
    BY <1>1, <1>2, <2>4, <2>5
  <2>7. y \in Seq(T) /\ z \in Seq(T)
    BY <2>1, <2>6
  <2>8. y \o j \o z \in Seq(T)
    BY <2>3, <2>7
  <2>9. Inserted(text, i, j) = y \o j \o z
    BY <1>2, <2>4, <2>5 DEF Inserted
  <2> QED BY <2>2, <2>8, <2>9 DEF TextOK
<1>4. ASSUME NEW i \in 0..(n - 1) PROVE TextOK(s, SubSeq(text, 1, i))
  <2>1. SubSeq(text, 1, i) \in Seq(R)
    BY <1>1, <1>2
  <2> QED BY <1>1, <2>1 DEF TextOK
<1>5. ASSUME NEW i \in DOMAIN text
      PROVE  /\ LetterOK(s, text[i])
             /\ TextOK(s, Without(text, i))
  <2>1. text[i] \in R
    BY <1>1
  <2>2. Without(text, i) \in Seq(R)
    BY <1>1, WithoutOne
  <2> QED BY <1>1, <2>1, <2>2 DEF TextOK
<1>6. ASSUME NEW i \in DOMAIN text, NEW c, LetterOK(s, c)
      PROVE  TextOK(s, [text EXCEPT ![i] = c])
  <2>1. PICK T : T = R \cup {c}
    OBVIOUS
  <2>2. [text EXCEPT ![i] = c] \in Seq(T)
    BY <1>1, <2>1
  <2>3. \A d \in T : LetterOK(s, d)
    BY <1>1, <1>6, <2>1
  <2> QED BY <2>2, <2>3 DEF TextOK
<1> QED BY <1>2, <1>3, <1>4, <1>5, <1>6

\* A string put into upper case.
LEMMA RaisedTextOK ==
    ASSUME NEW s, NEW text, TextOK(s, text),
           NEW x, x = [i \in DOMAIN text |->
                          IF IsLetter(text[i]) THEN [text[i] EXCEPT !.upper = TRUE]
                          ELSE text[i]]
    PROVE  TextOK(s, x)
<1>1. PICK R : text \in Seq(R) /\ \A c \in R : LetterOK(s, c)
  BY DEF TextOK
<1>2. PICK n \in Nat : n = Len(text) /\ DOMAIN text = 1..n
  BY <1>1
<1>3. PICK T : T = {x[i] : i \in 1..n}
  OBVIOUS
<1>4. x = [i \in 1..n |-> x[i]] /\ \A i \in 1..n : x[i] \in T
  BY <1>2, <1>3
<1>5. x \in Seq(T)
  <2>1. PICK y : y = x
    OBVIOUS
  <2>2. y = [i \in 1..n |-> y[i]] /\ \A i \in 1..n : y[i] \in T
    BY <1>4, <2>1
  <2>3. y \in Seq(T)
    BY ONLY n \in Nat, <2>2
  <2> QED BY <2>1, <2>3
<1>6. ASSUME NEW i \in 1..n PROVE LetterOK(s, x[i])
  <2>1. LetterOK(s, text[i])
    BY <1>1, <1>2
  <2>2. CASE IsLetter(text[i])
    <3>1. x[i] = [text[i] EXCEPT !.upper = TRUE]
      BY <1>2, <2>2
    <3> QED BY <2>1, <3>1, RaisedOK
  <2>3. CASE ~IsLetter(text[i])
    <3>1. x[i] = text[i]
      BY <1>2, <2>3
    <3> QED BY <2>1, <3>1
  <2> QED BY <2>2, <2>3
<1>7. \A c \in T : LetterOK(s, c)
  BY <1>3, <1>6
<1> QED BY <1>5, <1>7 DEF TextOK

\* The records in order of a set are a stream in order.
LEMMA SortedOK ==
    ASSUME NEW s, NEW S, RecordSet(S), \A r \in S : RecordOK(s, r)
    PROVE  StreamOK(s, SortRecords(S))
<1>1. PICK x : x = SortRecords(S)
  OBVIOUS
<1>2. PICK n \in Nat : n = Cardinality(S)
  BY Ranks
<1>3. x \in Seq(S) /\ Len(x) = n /\ \A i, j \in 1..n : x[i] = x[j] => i = j
  BY <1>1, <1>2, Sorted
<1>4. DOMAIN x = 1..n /\ \A i \in 1..n : x[i] \in S
  BY <1>3
<1>5. \A i, j \in DOMAIN x : x[i].type = x[j].type => i = j
  BY <1>3, <1>4 DEF RecordSet
<1> QED BY <1>1, <1>3, <1>5 DEF StreamOK

\* A stream with a record changed, lost or added.
LEMMA StreamsOK ==
    ASSUME NEW s, NEW x, StreamOK(s, x)
    PROVE  /\ \A i \in DOMAIN x : StreamOK(s, Without(x, i))
           /\ \A i \in DOMAIN x : \A r :
                 RecordOK(s, r) /\ r.type = x[i].type
                     => StreamOK(s, [x EXCEPT ![i] = r])
           /\ \A r : RecordOK(s, r) /\ r.type \notin Types(x)
                     => StreamOK(s, SortRecords({x[i] : i \in DOMAIN x} \cup {r}))
<1>1. PICK R : x \in Seq(R) /\ \A r \in R : RecordOK(s, r)
  BY DEF StreamOK
<1>2. PICK n \in Nat : n = Len(x) /\ DOMAIN x = 1..n
  BY <1>1
<1>3. \A i, j \in 1..n : x[i].type = x[j].type => i = j
  BY <1>2 DEF StreamOK
<1>4. ASSUME NEW i \in DOMAIN x PROVE StreamOK(s, Without(x, i))
  <2>1. PICK y : y = Without(x, i)
    OBVIOUS
  <2>2. y \in Seq(R) /\ Len(y) = n - 1
        /\ \A j \in 1..(n - 1) : y[j] = IF j < i THEN x[j] ELSE x[j + 1]
    BY <1>1, <1>2, <2>1, WithoutOne
  <2>3. DOMAIN y = 1..(n - 1) /\ i \in 1..n
    BY <1>2, <2>2
  <2>4. ASSUME NEW j \in 1..(n - 1), NEW l \in 1..(n - 1), y[j].type = y[l].type
        PROVE  j = l
    <3>1. PICK a \in 1..n : y[j] = x[a] /\ a = IF j < i THEN j ELSE j + 1
      BY <1>2, <2>2
    <3>2. PICK b \in 1..n : y[l] = x[b] /\ b = IF l < i THEN l ELSE l + 1
      BY <1>2, <2>2
    <3>3. a = b
      BY <1>3, <2>4, <3>1, <3>2
    <3> QED BY <2>3, <3>1, <3>2, <3>3
  <2> QED BY <1>1, <2>1, <2>2, <2>3, <2>4 DEF StreamOK
<1>5. ASSUME NEW i \in DOMAIN x, NEW r, RecordOK(s, r), r.type = x[i].type
      PROVE  StreamOK(s, [x EXCEPT ![i] = r])
  <2>1. PICK y : y = [x EXCEPT ![i] = r]
    OBVIOUS
  <2>2. PICK T : T = R \cup {r}
    OBVIOUS
  <2>3. y \in Seq(T) /\ \A q \in T : RecordOK(s, q)
    BY <1>1, <1>5, <2>1, <2>2
  <2>4. DOMAIN y = 1..n /\ \A j \in 1..n : y[j].type = x[j].type
    BY <1>2, <1>5, <2>1
  <2> QED BY <1>3, <2>1, <2>3, <2>4 DEF StreamOK
<1>6. ASSUME NEW r, RecordOK(s, r), r.type \notin Types(x)
      PROVE  StreamOK(s, SortRecords({x[i] : i \in DOMAIN x} \cup {r}))
  <2>1. PICK S : S = {x[i] : i \in DOMAIN x}
    OBVIOUS
  <2>2. IsFiniteSet(S)
    <3>1. IsFiniteSet(1..n)
      BY FS_Interval
    <3> QED BY <1>2, <2>1, <3>1, FiniteRange
  <2>3. IsFiniteSet(S \cup {r})
    BY <2>2, FS_AddElement
  <2>4. \A q \in S : q.type \in Types(x) /\ RecordOK(s, q)
    BY <1>1, <1>2, <2>1 DEF Types
  <2>5. \A p, q \in S : p.type = q.type => p = q
    BY <1>2, <1>3, <2>1
  <2>6. \A q \in S \cup {r} : RecordOK(s, q)
    BY <1>6, <2>4
  <2>7. \A p, q \in S \cup {r} : p.type = q.type => p = q
    BY <1>6, <2>4, <2>5
  <2>8. RecordSet(S \cup {r})
    BY <2>3, <2>6, <2>7 DEF RecordSet, RecordOK
  <2> QED BY <2>1, <2>6, <2>8, SortedOK
<1> QED BY <1>4, <1>5, <1>6

-----------------------------------------------------------------------------
(***************************************************************************)
(* Making and sending artefacts.                                           *)
(***************************************************************************)

\* What was sent is more than nothing.
LEMMA SentSomething ==
    ASSUME NEW f, NEW root, NEW foreign,
           NEW m, m = [fields |-> f, root |-> root, foreign |-> foreign]
    PROVE  m # NotSent /\ m.fields = f /\ m.root = root /\ m.foreign = foreign
<1>1. "root" \in DOMAIN m /\ "root" \notin DOMAIN NotSent
  BY DEF NotSent
<1> QED BY <1>1

\* The artefact with fields f and its signed form b.
SignedAs(b, f, root, D, id, purpose) ==
    /\ b.root = root
    /\ b.fields = [t \in D |-> b.fields[t]]
    /\ b.fields[signatureType] = <<Sign(id, signatureDigest(purpose, root))>>
    /\ \A t \in D : t # signatureType => b.fields[t] = f[t]

\* Signing changes the one field.
LEMMA SignedFields ==
    ASSUME NEW f, NEW root, NEW a, a = [fields |-> f, root |-> root],
           NEW D, f = [t \in D |-> f[t]], signatureType \in D,
           NEW id, NEW purpose,
           NEW b, b = Signed(a, signatureType, id, purpose)
    PROVE  SignedAs(b, f, root, D, id, purpose)
<1>1. PICK x : x = <<Sign(id, signatureDigest(purpose, root))>>
  OBVIOUS
<1>2. a.root = root /\ a.fields = f
  OBVIOUS
<1>3. b = [a EXCEPT !.fields[signatureType] = x]
  BY <1>1, <1>2 DEF Signed
<1>4. PICK g : g = [f EXCEPT ![signatureType] = x]
  OBVIOUS
<1>5. b.fields = g /\ b.root = root
  BY <1>2, <1>3, <1>4
<1>6. g = [t \in D |-> g[t]] /\ g[signatureType] = x
      /\ \A t \in D : t # signatureType => g[t] = f[t]
  BY <1>4
<1> QED BY <1>1, <1>5, <1>6 DEF SignedAs

\* An artefact that was made, with a signature of its author or without.
LEMMA MadeAsSaid ==
    ASSUME NEW k \in Artefacts, NEW f, f = [t \in DOMAIN Schema(k) |-> f[t]],
           NEW U, Others(Schema(k), U),
           \E t \in DOMAIN Schema(k) \ {signatureType} : f[t] # Unset,
           f[signatureType] = Unset,
           NEW root, root = MerkleRoot(records(Schema(k), f) \cup U),
           NEW a, a = [fields |-> f, root |-> root],
           NEW b, b = a \/ b = Signed(a, signatureType, Author(k), Purpose(k)),
           NEW m, m = [fields |-> b.fields, root |-> b.root, foreign |-> U]
    PROVE  MadeOK(k, m)
<1>1. m.fields = b.fields /\ m.root = b.root /\ m.foreign = U
  OBVIOUS
<1>2. PICK D : D = DOMAIN Schema(k)
  OBVIOUS
<1>3. IsSchema(Schema(k)) /\ signatureType \in D
  BY <1>2, Schemas DEF IsSchema
<1>4. CASE b = a
  <2>1. b.fields = f /\ b.root = root
    BY <1>4
  <2> QED BY <1>1, <2>1 DEF MadeOK
<1>5. CASE b = Signed(a, signatureType, Author(k), Purpose(k))
  <2>1. PICK g : g = b.fields
    OBVIOUS
  <2>2. /\ b.root = root
        /\ g = [t \in D |-> g[t]]
        /\ g[signatureType] = <<Sign(Author(k), signatureDigest(Purpose(k), root))>>
        /\ \A t \in D : t # signatureType => g[t] = f[t]
    <3>1. SignedAs(b, f, root, D, Author(k), Purpose(k))
      BY <1>2, <1>3, <1>5, SignedFields
    <3> QED BY <2>1, <3>1 DEF SignedAs
  <2>3. MerkleRoot(records(Schema(k), f) \cup U)
            = MerkleRoot(records(Schema(k), g) \cup U)
    <3>1. \A t \in DOMAIN Schema(k) : t # signatureType => f[t] = g[t]
      BY <1>2, <2>2
    <3> QED BY <1>3, <3>1, RootWithoutSignature
  <2>4. \E t \in DOMAIN Schema(k) \ {signatureType} : g[t] # Unset
    BY <1>2, <2>2
  <2> QED BY <1>1, <1>2, <2>1, <2>2, <2>3, <2>4 DEF MadeOK
<1> QED BY <1>4, <1>5

\* What is written of an artefact is in order.
LEMMA WrittenOK ==
    ASSUME NEW k \in Artefacts, NEW s, s[k] # NotSent, MadeOK(k, s[k]),
           NEW x, x = SortRecords(records(Schema(k), s[k].fields)
                                      \cup s[k].foreign)
    PROVE  StreamOK(s, x) /\ TextOK(s, Text(x))
<1>1. PICK f : f = s[k].fields
  OBVIOUS
<1>2. PICK schema : schema = Schema(k)
  OBVIOUS
<1>3. PICK U : U = s[k].foreign
  OBVIOUS
<1>4. IsSchema(schema) /\ Others(schema, U)
  BY <1>2, <1>3, Schemas DEF MadeOK
<1>5. PICK S : S = records(schema, f) \cup U
  OBVIOUS
<1>6. RecordSet(S)
  BY <1>4, <1>5, WithOthers
<1>7. ASSUME NEW r \in S PROVE RecordOK(s, r)
  <2>1. r.type \in Nat
    BY <1>6 DEF RecordSet
  <2>2. ASSUME r.type = signatureType PROVE Genuine(s, r.bytes)
    <3>1. signatureType \in DOMAIN schema /\ schema[signatureType] = "signature"
      BY <1>4 DEF IsSchema
    <3>2. r \in records(schema, f)
      BY <1>4, <1>5, <2>2, <3>1 DEF Others
    <3>3. r.bytes = Write("signature", f[signatureType])
      BY <1>4, <2>2, <3>1, <3>2, FieldRecords
    <3>4. Write("signature", f[signatureType]) = f[signatureType]
      BY DEF Write
    <3> QED BY <1>1, <3>3, <3>4 DEF Genuine
  <2> QED BY <2>1, <2>2 DEF RecordOK
<1>8. x = SortRecords(S)
  BY <1>1, <1>2, <1>3, <1>5
<1>9. StreamOK(s, x)
  BY <1>6, <1>7, <1>8, SortedOK
<1>10. TextOK(s, Text(x))
  <2>1. PICK n \in Nat : n = Cardinality(S)
    BY <1>6, Ranks
  <2>2. x \in Seq(S) /\ DOMAIN x = 1..n
    BY <1>6, <1>8, <2>1, Sorted
  <2>3. PICK y : y = [i \in 1..n |-> Data(x[i])]
    OBVIOUS
  <2>4. PICK T : T = {Data(r) : r \in S}
    OBVIOUS
  <2>5. y \in Seq(T)
    <3>1. \A i \in 1..n : Data(x[i]) \in T
      BY <2>2, <2>4
    <3>2. y = [i \in 1..n |-> y[i]] /\ \A i \in 1..n : y[i] \in T
      BY <2>3, <3>1
    <3> QED BY <3>2
  <2>6. PICK p : p = HRP
    OBVIOUS
  <2>7. PICK o : o = One
    OBVIOUS
  <2>8. <<p, o>> \in Seq(T \cup {p, o}) /\ y \in Seq(T \cup {p, o})
    BY <2>5
  <2>9. <<p, o>> \o y \in Seq(T \cup {p, o})
    BY <2>8
  <2>10. Text(x) = <<p, o>> \o y
    BY <2>2, <2>3, <2>6, <2>7 DEF Text
  <2>11. LetterOK(s, p) /\ LetterOK(s, o)
    BY <2>6, <2>7 DEF LetterOK, HRP, One
  <2>12. ASSUME NEW r \in S PROVE LetterOK(s, Data(r))
    <3>1. PICK c : c = Data(r)
      OBVIOUS
    <3>2. "tag" \in DOMAIN c /\ "record" \in DOMAIN c /\ c.record = r
      BY <3>1 DEF Data
    <3> QED BY <1>7, <3>1, <3>2 DEF LetterOK
  <2>13. \A c \in T \cup {p, o} : LetterOK(s, c)
    BY <2>4, <2>11, <2>12
  <2> QED BY <2>9, <2>10, <2>13 DEF TextOK
<1> QED BY <1>9, <1>10

\* Sending an artefact as it was made keeps the invariant.
LEMMA SendStep ==
    ASSUME IndInv, NEW k \in Artefacts, NEW a, NEW foreign, NEW data,
           Sends(k, a, foreign, data),
           MadeOK(k, [fields |-> a.fields, root |-> a.root, foreign |-> foreign]),
           NEW x, x = SortRecords(records(Schema(k), a.fields) \cup foreign),
           data = IF k = "offer" THEN Text(x) ELSE x,
           k = "request" => RequestFor(a, got["offer"])
    PROVE  IndInv'
<1>1. PICK m : m = [fields |-> a.fields, root |-> a.root, foreign |-> foreign]
  OBVIOUS
<1>2. m # NotSent /\ m.fields = a.fields /\ m.root = a.root /\ m.foreign = foreign
  BY <1>1, SentSomething
<1>3. PICK s : s = sent
  OBVIOUS
<1>4. PICK t : t = sent'
  OBVIOUS
<1>5. PICK g : g = got
  OBVIOUS
<1>6. /\ s[k] = NotSent /\ s = [j \in Artefacts |-> s[j]]
      /\ t = [s EXCEPT ![k] = m]
      /\ got' = g /\ changes' = changes
      /\ transit' = [kind |-> k, data |-> data]
  BY <1>1, <1>3, <1>4, <1>5 DEF Sends, IndInv
<1>7. t = [j \in Artefacts |-> t[j]] /\ t[k] = m
      /\ \A j \in Artefacts : j # k => t[j] = s[j]
  BY <1>6
<1>8. \A j \in Artefacts : s[j] # NotSent => t[j] = s[j] /\ t[j] # NotSent
  BY <1>6, <1>7
<1>9. \A v : Genuine(s, v) => Genuine(t, v)
  BY <1>8 DEF Genuine
<1>10. ASSUME NEW j \in Artefacts PROVE SentOK(t, j)
  <2>1. CASE j = k
    BY <1>1, <1>7, <2>1 DEF SentOK
  <2>2. CASE j # k
    <3>1. SentOK(s, j)
      BY <1>3 DEF IndInv
    <3> QED BY <1>7, <2>2, <3>1 DEF SentOK
  <2> QED BY <2>1, <2>2
<1>11. ASSUME NEW j \in Artefacts PROVE GotOK(t, j, g[j])
  <2>1. GotOK(s, j, g[j])
    BY <1>3, <1>5 DEF IndInv
  <2> QED BY <1>8, <1>9, <2>1 DEF GotOK
<1>12. RequestOK(t, g)
  <2>1. "request" \in Artefacts
    BY DEF Artefacts
  <2>2. CASE k = "request"
    <3>1. t["request"].fields = a.fields
      BY <1>2, <1>7, <2>2
    <3>2. RequestFor(a, g["offer"])
      BY <1>5, <2>2
    <3> QED BY <3>1, <3>2 DEF RequestOK, RequestFor
  <2>3. CASE k # "request"
    <3>1. RequestOK(s, g)
      BY <1>3, <1>5 DEF IndInv
    <3> QED BY <1>7, <2>1, <2>3, <3>1 DEF RequestOK
  <2> QED BY <2>2, <2>3
<1>13. StreamOK(t, x) /\ TextOK(t, Text(x))
  <2>1. t[k] # NotSent /\ MadeOK(k, t[k])
    BY <1>1, <1>2, <1>7
  <2>2. x = SortRecords(records(Schema(k), t[k].fields) \cup t[k].foreign)
    BY <1>2, <1>7
  <2> QED BY <2>1, <2>2, WrittenOK
<1>14. TransitOK(t, transit')
  <2>1. PICK w : w = transit'
    OBVIOUS
  <2>2. w.kind = k /\ w.data = data /\ w = [kind |-> w.kind, data |-> w.data]
    BY <1>6, <2>1
  <2>3. t[k] # NotSent
    BY <1>2, <1>7
  <2>4. k = "offer" => data = Text(x)
    OBVIOUS
  <2>5. k \in {"request", "invoice"} => data = x
    OBVIOUS
  <2> QED BY <1>13, <2>1, <2>2, <2>3, <2>4, <2>5 DEF TransitOK
<1>15. got' = [j \in Artefacts |-> got'[j]] /\ changes' \in 0..MaxChanges
  BY <1>5, <1>6 DEF IndInv
<1> QED BY <1>4, <1>6, <1>7, <1>10, <1>11, <1>12, <1>14, <1>15 DEF IndInv

\* An offer is made and sent.
LEMMA IssueStep ==
    ASSUME IndInv, NEW offer \in Offers, IssueOffer(offer)
    PROVE  IndInv'
<1>1. PICK f : f = offer.fields
  OBVIOUS
<1>2. PICK U : U = offer.foreign
  OBVIOUS
<1>3. /\ f = [t \in DOMAIN OfferSchema |-> f[t]]
      /\ \E t \in DOMAIN OfferSchema : f[t] # Unset
      /\ f[signatureType] = Unset
      /\ IsFiniteSet(U)
      /\ \A r \in U : r.type \in Nat \ DOMAIN OfferSchema
      /\ \A r, s \in U : r.type = s.type => r = s
  BY <1>1, <1>2, OffersAssumption
<1>4. Others(OfferSchema, U)
  BY <1>3 DEF Others, RecordSet
<1>5. \E t \in DOMAIN OfferSchema \ {signatureType} : f[t] # Unset
  BY <1>3
<1>6. PICK root : root = MerkleRoot(records(OfferSchema, f) \cup U)
  OBVIOUS
<1>7. PICK a : a = [fields |-> f, root |-> root]
  OBVIOUS
<1>8. PICK b : b = IF offer.sign THEN Signed(a, signatureType, Issuer, "offer") ELSE a
  OBVIOUS
<1>9. PICK x : x = SortRecords(records(OfferSchema, b.fields) \cup U)
  OBVIOUS
<1>10. Sends("offer", b, U, Text(x))
  BY <1>1, <1>2, <1>6, <1>7, <1>8, <1>9 DEF IssueOffer
<1>11. "offer" \in Artefacts /\ Schema("offer") = OfferSchema
       /\ Author("offer") = Issuer /\ Purpose("offer") = "offer"
  BY DEF Artefacts, Schema, Author, Purpose
<1>12. b = a \/ b = Signed(a, signatureType, Author("offer"), Purpose("offer"))
  BY <1>8, <1>11
<1>13. PICK m : m = [fields |-> b.fields, root |-> b.root, foreign |-> U]
  OBVIOUS
<1>14. PICK k : k = "offer"
  OBVIOUS
<1>15. MadeOK(k, m)
  BY <1>3, <1>4, <1>5, <1>6, <1>7, <1>11, <1>12, <1>13, <1>14, MadeAsSaid
<1>16. PICK data : data = Text(x)
  OBVIOUS
<1>17. Sends(k, b, U, data) /\ k \in Artefacts
  BY <1>10, <1>11, <1>14, <1>16
<1>18. x = SortRecords(records(Schema(k), b.fields) \cup U)
  BY <1>9, <1>11, <1>14
<1>19. data = IF k = "offer" THEN Text(x) ELSE x
  BY <1>14, <1>16
<1>20. k = "request" => RequestFor(b, got["offer"])
  BY <1>14
<1> QED BY <1>13, <1>15, <1>17, <1>18, <1>19, <1>20, SendStep

\* No other records.
LEMMA NoOthers ==
    ASSUME NEW k \in Artefacts
    PROVE  Others(Schema(k), {}) /\ \A S : S \cup {} = S
  BY FS_EmptySet DEF Others, RecordSet

\* A request is made and sent.
LEMMA RequestStep ==
    ASSUME IndInv, NEW amount \in Amounts, NEW quantity \in Quantities, NEW note,
           RequestInvoice(amount, quantity, note)
    PROVE  IndInv'
<1>1. PICK o : o = got["offer"]
  OBVIOUS
<1>2. PICK k : k = "request"
  OBVIOUS
<1>3. k \in Artefacts /\ Schema(k) = InvoiceRequestSchema
      /\ Author(k) = Payer /\ Purpose(k) = "invoice_request"
  BY <1>2 DEF Artefacts, Schema, Author, Purpose
<1>4. PICK f : f = [t \in DOMAIN InvoiceRequestSchema |->
            CASE t = invReqChainType     -> o.fields[chainType]
              [] t = invReqOfferIDType   -> <<o.root>>
              [] t = invReqAmountType    -> Value(amount)
              [] t = invReqFeaturesType  -> o.fields[featuresType]
              [] t = invReqQuantityType  -> Value(quantity)
              [] t = invReqPayerKeyType  -> <<payerKey>>
              [] t = invReqPayerNoteType -> note
              [] OTHER                   -> Unset]
  OBVIOUS
<1>5. PICK root : root = MerkleRoot(records(InvoiceRequestSchema, f))
  OBVIOUS
<1>6. PICK a : a = [fields |-> f, root |-> root]
  OBVIOUS
<1>7. a = NewInvoiceRequest(o, amount, quantity, payerKey, note)
  BY <1>4, <1>5, <1>6 DEF NewInvoiceRequest
<1>8. invReqSignatureType = signatureType
  BY DEF invReqSignatureType, signatureType
<1>9. PICK b : b = Signed(a, signatureType, Payer, "invoice_request")
  OBVIOUS
<1>10. PICK x : x = SortRecords(records(InvoiceRequestSchema, b.fields))
  OBVIOUS
<1>11. /\ o.ok /\ RequestAllowed(o, amount, quantity)
       /\ Sends("request", b, {}, x)
  BY <1>1, <1>7, <1>8, <1>9, <1>10 DEF RequestInvoice, EncodeInvoiceRequest, Encode
<1>12. /\ f = [t \in DOMAIN InvoiceRequestSchema |-> f[t]]
       /\ {signatureType, invReqOfferIDType, invReqAmountType, invReqQuantityType}
              \subseteq DOMAIN InvoiceRequestSchema
       /\ f[signatureType] = Unset /\ f[invReqOfferIDType] = <<o.root>>
       /\ f[invReqAmountType] = Value(amount)
       /\ f[invReqQuantityType] = Value(quantity)
       /\ signatureType \notin {invReqOfferIDType, invReqAmountType, invReqQuantityType}
  <2>1. {signatureType, invReqOfferIDType, invReqAmountType, invReqQuantityType}
              \subseteq DOMAIN InvoiceRequestSchema
    BY DEF InvoiceRequestSchema, signatureType, invReqSignatureType,
        invReqOfferIDType, invReqAmountType, invReqQuantityType
  <2>2. f = [t \in DOMAIN InvoiceRequestSchema |-> f[t]]
    BY <1>4
  <2> QED BY <1>4, <2>1, <2>2 DEF invReqChainType, invReqOfferIDType,
        invReqAmountType, invReqFeaturesType, invReqQuantityType,
        invReqPayerKeyType, invReqPayerNoteType, signatureType
<1>13. \E t \in DOMAIN Schema(k) \ {signatureType} : f[t] # Unset
  <2>1. <<o.root>> # Unset
    BY DEF Unset
  <2> QED BY <1>3, <1>12, <2>1
<1>14. PICK U : U = {}
  OBVIOUS
<1>15. Others(Schema(k), U) /\ root = MerkleRoot(records(Schema(k), f) \cup U)
       /\ x = SortRecords(records(Schema(k), b.fields) \cup U)
  BY <1>3, <1>5, <1>10, <1>14, NoOthers
<1>16. PICK m : m = [fields |-> b.fields, root |-> b.root, foreign |-> U]
  OBVIOUS
<1>17. MadeOK(k, m)
  BY <1>3, <1>6, <1>9, <1>12, <1>13, <1>15, <1>16, MadeAsSaid
<1>18. RequestFor(b, o)
  <2>1. PICK D : D = DOMAIN InvoiceRequestSchema
    OBVIOUS
  <2>2. PICK id : id = Payer
    OBVIOUS
  <2>3. PICK purpose : purpose = "invoice_request"
    OBVIOUS
  <2>4. SignedAs(b, f, root, D, id, purpose)
    BY <1>6, <1>9, <1>12, <2>1, <2>2, <2>3, SignedFields
  <2>5. /\ b.fields[invReqOfferIDType] = <<o.root>>
        /\ b.fields[invReqAmountType] = Value(amount)
        /\ b.fields[invReqQuantityType] = Value(quantity)
    BY <1>12, <2>1, <2>4 DEF SignedAs
  <2> QED BY <1>11, <2>5 DEF RequestFor
<1>19. Sends(k, b, U, x) /\ k \in Artefacts
  BY <1>2, <1>3, <1>11, <1>14
<1>20. x = IF k = "offer" THEN Text(x) ELSE x
  BY <1>2
<1>21. k = "request" => RequestFor(b, got["offer"])
  BY <1>1, <1>18
<1> QED BY <1>15, <1>16, <1>17, <1>19, <1>20, <1>21, SendStep

\* An invoice is made and sent.
LEMMA InvoiceStep ==
    ASSUME IndInv, NEW expiry, NEW sign \in BOOLEAN, SendInvoice(expiry, sign)
    PROVE  IndInv'
<1>1. PICK q : q = got["request"].fields
  OBVIOUS
<1>2. PICK o : o = sent["offer"].fields
  OBVIOUS
<1>3. PICK k : k = "invoice"
  OBVIOUS
<1>4. k \in Artefacts /\ Schema(k) = InvoiceSchema
      /\ Author(k) = Issuer /\ Purpose(k) = "invoice"
  BY <1>3 DEF Artefacts, Schema, Author, Purpose
<1>5. PICK f : f = [t \in DOMAIN InvoiceSchema |-> InvoiceField(q, o, expiry, t)]
  OBVIOUS
<1>6. PICK root : root = MerkleRoot(records(InvoiceSchema, f))
  OBVIOUS
<1>7. PICK a : a = [fields |-> f, root |-> root]
  OBVIOUS
<1>8. invSigType = signatureType
  BY DEF invSigType, signatureType
<1>9. PICK b : b = IF sign THEN Signed(a, signatureType, Issuer, "invoice") ELSE a
  OBVIOUS
<1>10. PICK x : x = SortRecords(records(InvoiceSchema, b.fields))
  OBVIOUS
<1>11. Sends("invoice", b, {}, x)
  BY <1>1, <1>2, <1>5, <1>6, <1>7, <1>8, <1>9, <1>10
     DEF SendInvoice, EncodeInvoice, Encode
<1>12. /\ f = [t \in DOMAIN InvoiceSchema |-> f[t]]
       /\ signatureType \in DOMAIN InvoiceSchema
       /\ invNodeIDType \in DOMAIN InvoiceSchema
       /\ f[signatureType] = Unset /\ f[invNodeIDType] = <<issuerKey>>
       /\ signatureType # invNodeIDType
  <2>1. signatureType \in DOMAIN InvoiceSchema /\ invNodeIDType \in DOMAIN InvoiceSchema
    BY DEF InvoiceSchema, signatureType, invSigType, invNodeIDType
  <2>2. f = [t \in DOMAIN InvoiceSchema |-> f[t]]
    BY <1>5
  <2>3. InvoiceField(q, o, expiry, signatureType) = Unset
        /\ InvoiceField(q, o, expiry, invNodeIDType) = <<issuerKey>>
        /\ signatureType # invNodeIDType
    BY DEF InvoiceField, invChainType, invOfferIDType, invAmountType,
        invFeatType, invQuantityType, invPayerKeyType, invPayerNoteType,
        invPayerInfoType, invDescType, invNodeIDType, invCreatedAtType,
        invPaymentHashType, invRelativeExpiryType, inCLTVType, signatureType
  <2> QED BY <1>5, <2>1, <2>2, <2>3
<1>13. \E t \in DOMAIN Schema(k) \ {signatureType} : f[t] # Unset
  <2>1. <<issuerKey>> # Unset
    BY DEF Unset
  <2> QED BY <1>4, <1>12, <2>1
<1>14. PICK U : U = {}
  OBVIOUS
<1>15. Others(Schema(k), U) /\ root = MerkleRoot(records(Schema(k), f) \cup U)
       /\ x = SortRecords(records(Schema(k), b.fields) \cup U)
  BY <1>4, <1>6, <1>10, <1>14, NoOthers
<1>16. PICK m : m = [fields |-> b.fields, root |-> b.root, foreign |-> U]
  OBVIOUS
<1>17. b = a \/ b = Signed(a, signatureType, Author(k), Purpose(k))
  BY <1>4, <1>9
<1>18. MadeOK(k, m)
  BY <1>4, <1>7, <1>12, <1>13, <1>15, <1>16, <1>17, MadeAsSaid
<1>19. Sends(k, b, U, x) /\ k \in Artefacts
  BY <1>3, <1>4, <1>11, <1>14
<1>20. x = IF k = "offer" THEN Text(x) ELSE x
  BY <1>3
<1>21. k = "request" => RequestFor(b, got["offer"])
  BY <1>3
<1> QED BY <1>15, <1>16, <1>18, <1>19, <1>20, <1>21, SendStep

-----------------------------------------------------------------------------
(***************************************************************************)
(* The invariant is inductive.                                             *)
(***************************************************************************)

\* Reading an artefact keeps the invariant.
LEMMA ReadStep ==
    ASSUME IndInv, NEW k \in Artefacts, NEW result, Reads(k, result),
           GotOK(sent, k, result)
    PROVE  IndInv'
<1>1. PICK s : s = sent
  OBVIOUS
<1>2. PICK g : g = got
  OBVIOUS
<1>3. PICK h : h = got'
  OBVIOUS
<1>4. /\ g[k] = NotRead /\ g = [j \in Artefacts |-> g[j]]
      /\ h = [g EXCEPT ![k] = result]
      /\ sent' = s /\ transit' = transit /\ changes' = changes
  BY <1>1, <1>2, <1>3 DEF Reads, IndInv
<1>5. h = [j \in Artefacts |-> h[j]] /\ h[k] = result
      /\ \A j \in Artefacts : j # k => h[j] = g[j]
  BY <1>4
<1>6. \A j \in Artefacts : GotOK(s, j, h[j])
  <2>1. \A j \in Artefacts : GotOK(s, j, g[j])
    BY <1>1, <1>2 DEF IndInv
  <2> QED BY <1>1, <1>5, <2>1
<1>7. RequestOK(s, h)
  <2>1. RequestOK(s, g) /\ "offer" \in Artefacts
    BY <1>1, <1>2 DEF IndInv, Artefacts
  <2>2. ~NotRead.ok
    BY DEF NotRead
  <2>3. s["request"] # NotSent => g["offer"] # NotRead
    BY <2>1, <2>2 DEF RequestOK, RequestFor
  <2>4. s["request"] # NotSent => h["offer"] = g["offer"]
    BY <1>4, <1>5, <2>1, <2>3
  <2> QED BY <2>1, <2>4 DEF RequestOK
<1> QED BY <1>1, <1>3, <1>4, <1>5, <1>6, <1>7 DEF IndInv

\* Each of the readers does.
LEMMA ReadersStep ==
    ASSUME IndInv, ReadOffer \/ ReadRequest \/ ReadInvoice
    PROVE  IndInv'
<1>1. PICK s : s = sent
  OBVIOUS
<1>2. PICK x : x = transit
  OBVIOUS
<1>3. TransitOK(s, x) /\ \A k \in Artefacts : SentOK(s, k)
  BY <1>1, <1>2 DEF IndInv
<1>4. CASE ReadOffer
  <2>1. PICK last : x.kind = "offer"
                    /\ Reads("offer", DecodeOfferStr(x.data, last))
    BY <1>2, <1>4 DEF ReadOffer
  <2>2. "offer" \in Artefacts
    BY DEF Artefacts
  <2>3. TextOK(s, x.data) /\ s["offer"] # NotSent /\ SentOK(s, "offer")
    BY <1>3, <2>1, <2>2 DEF TransitOK
  <2>4. PICK result : result = DecodeOfferStr(x.data, last)
    OBVIOUS
  <2>5. GotOK(s, "offer", result)
    BY <2>3, <2>4, OfferReadOK
  <2> QED BY <1>1, <2>1, <2>2, <2>4, <2>5, ReadStep
<1>5. CASE ReadRequest
  <2>1. PICK last : x.kind = "request"
          /\ Reads("request", Accepted("request", DecodeInvoiceRequest(x.data, last)))
    BY <1>2, <1>5 DEF ReadRequest
  <2>2. "request" \in Artefacts /\ "request" \in {"request", "invoice"}
        /\ Schema("request") = InvoiceRequestSchema
    BY DEF Artefacts, Schema
  <2>3. StreamOK(s, x.data) /\ s["request"] # NotSent /\ SentOK(s, "request")
    BY <1>3, <2>1, <2>2 DEF TransitOK
  <2>4. PICK result : result = Accepted("request",
                                        Decode(Schema("request"), x.data, last))
    OBVIOUS
  <2>5. GotOK(s, "request", result)
    BY <2>2, <2>3, <2>4, StreamReadOK
  <2>6. Reads("request", result)
    BY <2>1, <2>2, <2>4 DEF DecodeInvoiceRequest
  <2> QED BY <1>1, <2>2, <2>5, <2>6, ReadStep
<1>6. CASE ReadInvoice
  <2>1. PICK last : x.kind = "invoice"
          /\ Reads("invoice", Accepted("invoice", DecodeInvoice(x.data, last)))
    BY <1>2, <1>6 DEF ReadInvoice
  <2>2. "invoice" \in Artefacts /\ "invoice" \in {"request", "invoice"}
        /\ Schema("invoice") = InvoiceSchema
    BY DEF Artefacts, Schema
  <2>3. StreamOK(s, x.data) /\ s["invoice"] # NotSent /\ SentOK(s, "invoice")
    BY <1>3, <2>1, <2>2 DEF TransitOK
  <2>4. PICK result : result = Accepted("invoice",
                                        Decode(Schema("invoice"), x.data, last))
    OBVIOUS
  <2>5. GotOK(s, "invoice", result)
    BY <2>2, <2>3, <2>4, StreamReadOK
  <2>6. Reads("invoice", result)
    BY <2>1, <2>2, <2>4 DEF DecodeInvoice
  <2> QED BY <1>1, <2>2, <2>5, <2>6, ReadStep
<1> QED BY <1>4, <1>5, <1>6

\* What may happen on the way keeps the invariant, if the data stay in order.
LEMMA WayStep ==
    ASSUME IndInv, NEW data, OnTheWay(data),
           transit.kind = "offer" => TextOK(sent, data),
           transit.kind \in {"request", "invoice"} => StreamOK(sent, data)
    PROVE  IndInv'
<1>1. PICK s : s = sent
  OBVIOUS
<1>2. PICK x : x = transit
  OBVIOUS
<1>3. PICK y : y = transit'
  OBVIOUS
<1>4. /\ y = [x EXCEPT !.data = data] /\ changes < MaxChanges
      /\ changes' = changes + 1 /\ sent' = s /\ got' = got
  BY <1>1, <1>2, <1>3 DEF OnTheWay
<1>5. TransitOK(s, x) /\ x = [kind |-> x.kind, data |-> x.data]
  BY <1>1, <1>2 DEF IndInv, TransitOK
<1>6. y = [kind |-> x.kind, data |-> data]
  BY <1>4, <1>5
<1>7. y.kind = x.kind /\ y.data = data /\ y = [kind |-> y.kind, data |-> y.data]
  BY <1>6
<1>8. TransitOK(s, y)
  BY <1>1, <1>2, <1>5, <1>7 DEF TransitOK
<1>9. changes' \in 0..MaxChanges
  BY <1>4, ChangesAssumption DEF IndInv
<1> QED BY <1>1, <1>3, <1>4, <1>8, <1>9 DEF IndInv

\* What replaces the bytes of a record makes up no signature.
LEMMA ReplacementOK ==
    ASSUME NEW t \in Nat, NEW v \in Replacements(t)
    PROVE  RecordOK(sent, Record(t, v)) /\ Record(t, v).type = t
<1>1. Record(t, v).type = t /\ Record(t, v).bytes = v
  BY RecordParts
<1>2. ASSUME t = signatureType PROVE Genuine(sent, v)
  <2>1. CASE v \in Changes(t)
    BY <1>2, <2>1, ChangesAssumption DEF Genuine
  <2>2. CASE v \notin Changes(t)
    <3>1. PICK k \in Artefacts : sent[k] # NotSent /\ v = sent[k].fields[t]
      BY <1>2, <2>2 DEF Replacements
    <3> QED BY <1>2, <3>1 DEF Genuine
  <2> QED BY <2>1, <2>2
<1> QED BY <1>1, <1>2 DEF RecordOK

\* Strings on their way.
LEMMA RewriteStep ==
    ASSUME IndInv, Rewrite \/ ChangeData
    PROVE  IndInv'
<1>1. PICK s : s = sent
  OBVIOUS
<1>2. PICK text : text = transit.data
  OBVIOUS
<1>3. transit.kind = "offer"
  BY DEF Rewrite, ChangeData
<1>4. TextOK(s, text)
  BY <1>1, <1>2, <1>3 DEF IndInv, TransitOK
<1>5. ASSUME NEW data, OnTheWay(data), TextOK(s, data)
      PROVE  IndInv'
  BY <1>1, <1>3, <1>5, WayStep
<1>6. CASE Rewrite
  <2>1. \/ \E i \in 1..(Len(text) + 1), j \in Joins : OnTheWay(Inserted(text, i, j))
        \/ OnTheWay([i \in DOMAIN text |->
                        IF IsLetter(text[i]) THEN [text[i] EXCEPT !.upper = TRUE]
                        ELSE text[i]])
        \/ \E i \in DOMAIN text : /\ IsLetter(text[i])
              /\ OnTheWay([text EXCEPT ![i] =
                     IF IsLetter(@) THEN [@ EXCEPT !.upper = TRUE] ELSE @])
        \/ \E i \in 0..(Len(text) - 1) : OnTheWay(SubSeq(text, 1, i))
    BY <1>2, <1>6 DEF Rewrite
  <2>2. ASSUME NEW i \in 1..(Len(text) + 1), NEW j \in Joins,
               OnTheWay(Inserted(text, i, j))
        PROVE  IndInv'
    <3>1. PICK data : data = Inserted(text, i, j)
      OBVIOUS
    <3> QED BY <1>4, <1>5, <2>2, <3>1, TextsOK
  <2>3. ASSUME OnTheWay([i \in DOMAIN text |->
                        IF IsLetter(text[i]) THEN [text[i] EXCEPT !.upper = TRUE]
                        ELSE text[i]])
        PROVE  IndInv'
    <3>1. PICK data : data = [i \in DOMAIN text |->
                        IF IsLetter(text[i]) THEN [text[i] EXCEPT !.upper = TRUE]
                        ELSE text[i]]
      OBVIOUS
    <3>2. TextOK(s, data)
      BY <1>4, <3>1, RaisedTextOK
    <3>3. OnTheWay(data)
      BY <2>3, <3>1
    <3> QED BY <1>5, <3>2, <3>3
  <2>4. ASSUME NEW i \in DOMAIN text, IsLetter(text[i]),
               OnTheWay([text EXCEPT ![i] =
                     IF IsLetter(@) THEN [@ EXCEPT !.upper = TRUE] ELSE @])
        PROVE  IndInv'
    <3>1. PICK c : c = [text[i] EXCEPT !.upper = TRUE]
      OBVIOUS
    <3>2. LetterOK(s, c)
      BY <1>4, <3>1, TextsOK, RaisedOK
    <3>3. PICK data : data = [text EXCEPT ![i] = c]
      OBVIOUS
    <3>4. TextOK(s, data)
      BY <1>4, <3>2, <3>3, TextsOK
    <3>5. data = [text EXCEPT ![i] =
                     IF IsLetter(@) THEN [@ EXCEPT !.upper = TRUE] ELSE @]
      BY <2>4, <3>1, <3>3
    <3>6. OnTheWay(data)
      BY <2>4, <3>5
    <3> QED BY <1>5, <3>4, <3>6
  <2>5. ASSUME NEW i \in 0..(Len(text) - 1), OnTheWay(SubSeq(text, 1, i))
        PROVE  IndInv'
    <3>1. PICK data : data = SubSeq(text, 1, i)
      OBVIOUS
    <3> QED BY <1>4, <1>5, <2>5, <3>1, TextsOK
  <2> QED BY <2>1, <2>2, <2>3, <2>4, <2>5
<1>7. CASE ChangeData
  <2>1. PICK i \in {i \in DOMAIN text : text[i].tag = "data"} :
          \/ \E v \in Replacements(text[i].record.type) :
                OnTheWay([text EXCEPT ![i].record = Record(text[i].record.type, v)])
          \/ OnTheWay(Without(text, i))
    BY <1>2, <1>7 DEF ChangeData
  <2>2. i \in DOMAIN text /\ text[i].tag = "data" /\ LetterOK(s, text[i])
    BY <1>4, <2>1, TextsOK
  <2>3. CASE OnTheWay(Without(text, i))
    <3>1. PICK data : data = Without(text, i)
      OBVIOUS
    <3> QED BY <1>4, <1>5, <2>2, <2>3, <3>1, TextsOK
  <2>4. ASSUME NEW v \in Replacements(text[i].record.type),
               OnTheWay([text EXCEPT ![i].record = Record(text[i].record.type, v)])
        PROVE  IndInv'
    <3>1. PICK t \in Nat : t = text[i].record.type
      BY <2>2 DEF LetterOK, RecordOK
    <3>2. PICK r : r = Record(t, v)
      OBVIOUS
    <3>3. RecordOK(s, r)
      BY <1>1, <2>4, <3>1, <3>2, ReplacementOK
    <3>4. PICK c : c = [text[i] EXCEPT !.record = r]
      OBVIOUS
    <3>5. LetterOK(s, c)
      BY <2>2, <3>3, <3>4, OtherRecordOK
    <3>6. PICK data : data = [text EXCEPT ![i] = c]
      OBVIOUS
    <3>7. TextOK(s, data)
      BY <1>4, <2>2, <3>5, <3>6, TextsOK
    <3>8. data = [text EXCEPT ![i].record = r]
      BY <2>2, <3>4, <3>6
    <3>9. OnTheWay(data)
      BY <2>4, <3>1, <3>2, <3>8
    <3> QED BY <1>5, <3>7, <3>9
  <2> QED BY <2>1, <2>3, <2>4
<1> QED BY <1>6, <1>7

\* Streams on their way.
LEMMA ChangeStep ==
    ASSUME IndInv, Change
    PROVE  IndInv'
<1>1. PICK s : s = sent
  OBVIOUS
<1>2. PICK x : x = transit.data
  OBVIOUS
<1>3. transit.kind \in {"request", "invoice"}
  BY DEF Change
<1>4. StreamOK(s, x)
  BY <1>1, <1>2, <1>3 DEF IndInv, TransitOK
<1>5. ASSUME NEW data, OnTheWay(data), StreamOK(s, data)
      PROVE  IndInv'
  BY <1>1, <1>3, <1>5, WayStep
<1>6. \/ \E i \in DOMAIN x : \E v \in Replacements(x[i].type) :
            OnTheWay([x EXCEPT ![i] = Record(x[i].type, v)])
      \/ \E i \in DOMAIN x : OnTheWay(Without(x, i))
      \/ \E t \in DOMAIN Schema(transit.kind) \ Types(x) :
            \E v \in Replacements(t) :
               OnTheWay(SortRecords({x[i] : i \in DOMAIN x} \cup {Record(t, v)}))
  BY <1>2 DEF Change
<1>7. ASSUME NEW i \in DOMAIN x, NEW v \in Replacements(x[i].type),
             OnTheWay([x EXCEPT ![i] = Record(x[i].type, v)])
      PROVE  IndInv'
  <2>1. PICK t \in Nat : t = x[i].type
    <3>1. PICK R : x \in Seq(R) /\ \A r \in R : RecordOK(s, r)
      BY <1>4 DEF StreamOK
    <3>2. x[i] \in R
      BY <3>1
    <3> QED BY <3>1, <3>2 DEF RecordOK
  <2>2. PICK r : r = Record(t, v)
    OBVIOUS
  <2>3. RecordOK(s, r) /\ r.type = x[i].type
    BY <1>1, <1>7, <2>1, <2>2, ReplacementOK
  <2>4. PICK data : data = [x EXCEPT ![i] = r]
    OBVIOUS
  <2>5. StreamOK(s, data)
    BY <1>4, <2>3, <2>4, StreamsOK
  <2>6. OnTheWay(data)
    BY <1>7, <2>1, <2>2, <2>4
  <2> QED BY <1>5, <2>5, <2>6
<1>8. ASSUME NEW i \in DOMAIN x, OnTheWay(Without(x, i))
      PROVE  IndInv'
  <2>1. PICK data : data = Without(x, i)
    OBVIOUS
  <2> QED BY <1>4, <1>5, <1>8, <2>1, StreamsOK
<1>9. ASSUME NEW t \in DOMAIN Schema(transit.kind) \ Types(x),
             NEW v \in Replacements(t),
             OnTheWay(SortRecords({x[i] : i \in DOMAIN x} \cup {Record(t, v)}))
      PROVE  IndInv'
  <2>1. t \in Nat /\ t \notin Types(x)
    <3>1. transit.kind \in Artefacts
      BY <1>3 DEF Artefacts
    <3>2. IsSchema(Schema(transit.kind))
      BY <3>1, Schemas
    <3> QED BY <3>2 DEF IsSchema
  <2>2. PICK r : r = Record(t, v)
    OBVIOUS
  <2>3. RecordOK(s, r) /\ r.type \notin Types(x)
    BY <1>1, <1>9, <2>1, <2>2, ReplacementOK
  <2>4. PICK data : data = SortRecords({x[i] : i \in DOMAIN x} \cup {r})
    OBVIOUS
  <2>5. StreamOK(s, data)
    BY <1>4, <2>3, <2>4, StreamsOK
  <2>6. OnTheWay(data)
    BY <1>9, <2>2, <2>4
  <2> QED BY <1>5, <2>5, <2>6
<1> QED BY <1>6, <1>7, <1>8, <1>9

\* Nothing has happened yet.
LEMMA Fresh ==
    ASSUME NEW s, s = [k \in Artefacts |-> NotSent],
           NEW g, g = [k \in Artefacts |-> NotRead]
    PROVE  /\ s = [k \in Artefacts |-> s[k]] /\ g = [k \in Artefacts |-> g[k]]
           /\ \A k \in Artefacts : SentOK(s, k) /\ GotOK(s, k, g[k])
           /\ RequestOK(s, g)
           /\ TransitOK(s, Nothing)
<1>1. \A k \in Artefacts : s[k] = NotSent /\ g[k] = NotRead
  OBVIOUS
<1>2. ~NotRead.ok
  BY DEF NotRead
<1>3. \A k \in Artefacts : SentOK(s, k) /\ GotOK(s, k, g[k])
  BY <1>1, <1>2 DEF SentOK, GotOK
<1>4. RequestOK(s, g)
  <2>1. "request" \in Artefacts
    BY DEF Artefacts
  <2> QED BY <1>1, <2>1 DEF RequestOK
<1>5. TransitOK(s, Nothing)
  BY DEF TransitOK, Nothing
<1> QED BY <1>3, <1>4, <1>5

\* The invariant holds at first and in every state that follows.
THEOREM Inductive == Spec => []IndInv
<1>1. Init => IndInv
  <2> SUFFICES ASSUME Init PROVE IndInv
    OBVIOUS
  <2>1. changes \in 0..MaxChanges
    BY ChangesAssumption DEF Init
  <2> QED BY <2>1, Fresh DEF Init, IndInv
<1>2. IndInv /\ [Next]_vars => IndInv'
  <2> SUFFICES ASSUME IndInv, [Next]_vars PROVE IndInv'
    OBVIOUS
  <2>1. CASE UNCHANGED vars
    BY <2>1 DEF vars, IndInv
  <2>2. ASSUME NEW o \in Offers, IssueOffer(o) PROVE IndInv'
    BY <2>2, IssueStep
  <2>3. ASSUME ReadOffer \/ ReadRequest \/ ReadInvoice PROVE IndInv'
    BY <2>3, ReadersStep
  <2>4. ASSUME NEW a \in Amounts, NEW n \in Quantities, NEW note \in Notes,
               RequestInvoice(a, n, note)
        PROVE  IndInv'
    BY <2>4, RequestStep
  <2>5. ASSUME NEW e \in Expiries, NEW b \in BOOLEAN, SendInvoice(e, b)
        PROVE  IndInv'
    BY <2>5, InvoiceStep
  <2>6. ASSUME Rewrite \/ ChangeData PROVE IndInv'
    BY <2>6, RewriteStep
  <2>7. ASSUME Change PROVE IndInv'
    BY <2>7, ChangeStep
  <2>8. ASSUME StartOver PROVE IndInv'
    <3>1. /\ sent' = [k \in Artefacts |-> NotSent] /\ transit' = Nothing
          /\ got' = [k \in Artefacts |-> NotRead] /\ changes' = 0
      BY <2>8 DEF StartOver
    <3>2. PICK s : s = [k \in Artefacts |-> NotSent]
      OBVIOUS
    <3>3. PICK g : g = [k \in Artefacts |-> NotRead]
      OBVIOUS
    <3>4. /\ s = [k \in Artefacts |-> s[k]] /\ g = [k \in Artefacts |-> g[k]]
          /\ \A k \in Artefacts : SentOK(s, k) /\ GotOK(s, k, g[k])
          /\ RequestOK(s, g)
          /\ TransitOK(s, Nothing)
      BY <3>2, <3>3, Fresh
    <3>5. changes' \in 0..MaxChanges
      BY <3>1, ChangesAssumption
    <3> QED BY <3>1, <3>2, <3>3, <3>4, <3>5 DEF IndInv
  <2> QED BY <2>1, <2>2, <2>3, <2>4, <2>5, <2>6, <2>7, <2>8 DEF Next
<1> QED BY <1>1, <1>2, PTL DEF Spec

-----------------------------------------------------------------------------
(***************************************************************************)
(* What follows.                                                           *)
(***************************************************************************)

\* Fields keep their kinds: a number, hash or feature vector of an artefact that
\* was accepted is never a zero that records() would write.
THEOREM TypeCorrect == Spec => []TypeOK
<1>1. IndInv => TypeOK
  <2> SUFFICES ASSUME IndInv PROVE TypeOK
    OBVIOUS
  <2>1. transit.kind \in Artefacts \cup {"none"} /\ changes \in 0..MaxChanges
    BY DEF IndInv, TransitOK
  <2>2. ASSUME NEW k \in Artefacts, sent[k] # NotSent
        PROVE  DOMAIN sent[k].fields = DOMAIN Schema(k)
    <3>1. MadeOK(k, sent[k])
      BY <2>2 DEF IndInv, SentOK
    <3>2. sent[k].fields = [t \in DOMAIN Schema(k) |-> sent[k].fields[t]]
      BY <3>1 DEF MadeOK
    <3> QED BY <3>2
  <2>3. ASSUME NEW k \in Artefacts, got[k].ok
        PROVE  /\ DOMAIN got[k].fields = DOMAIN Schema(k)
               /\ \A t \in DOMAIN Schema(k) :
                     Schema(k)[t] \in {"hash", "features", "tu64", "uint64"}
                         => got[k].fields[t] # <<Num(0)>>
    <3>1. GotOK(sent, k, got[k])
      BY DEF IndInv
    <3> QED BY <2>3, <3>1 DEF GotOK
  <2> QED BY <2>1, <2>2, <2>3 DEF TypeOK
<1> QED BY <1>1, Inductive, PTL

\* The root of an artefact is that of the tree.
LEMMA MadeRootIsTree ==
    ASSUME NEW k \in Artefacts, NEW a, MadeOK(k, a)
    PROVE  a.root = TreeRoot(CreateTLVBranches(CreateTLVLeaves(
                        records(Schema(k), a.fields) \cup a.foreign)))
<1>1. PICK schema : schema = Schema(k)
  OBVIOUS
<1>2. PICK f : f = a.fields
  OBVIOUS
<1>3. PICK U : U = a.foreign
  OBVIOUS
<1>4. IsSchema(schema) /\ Others(schema, U)
  BY <1>1, <1>3, Schemas DEF MadeOK
<1>5. PICK S : S = records(schema, f) \cup U
  OBVIOUS
<1>6. RecordSet(S) /\ a.root = MerkleRoot(S)
  BY <1>1, <1>2, <1>3, <1>4, <1>5, WithOthers DEF MadeOK
<1>7. Hashed(S) # {}
  <2>1. PICK t \in DOMAIN schema : t # signatureType /\ f[t] # Unset
    BY <1>1, <1>2 DEF MadeOK
  <2>2. PICK r : r = Record(t, Write(schema[t], f[t]))
    OBVIOUS
  <2>3. r \in S /\ r.type = t
    BY <1>4, <1>5, <2>1, <2>2, FieldRecords, RecordParts
  <2>4. t \in Nat /\ t < 240
    BY <1>4, <2>1 DEF IsSchema, signatureType
  <2>5. \A n \in Nat : n < 240 => n \notin 240..1000
    OBVIOUS
  <2>6. r \in Hashed(S)
    BY <2>3, <2>4, <2>5 DEF Hashed, isSignatureTLV
  <2> QED BY <2>6
<1>8. PICK all : all = SortRecords(Hashed(S))
  OBVIOUS
<1>9. /\ Len(all) \in Nat /\ Len(all) # 0
      /\ CreateTLVBranches(CreateTLVLeaves(S)) = Bottom(all)
  BY <1>6, <1>7, <1>8, BottomOf
<1>10. a.root = CalculateRoot(Bottom(all))
  BY <1>6, <1>7, <1>8, RootOfRecords
<1>11. CalculateRoot(Bottom(all)) = TreeRoot(Bottom(all))
  <2>1. Listing(Bottom(all)) /\ Len(Bottom(all)) = Len(all)
    BY <1>9, BottomIsListing
  <2> QED BY <1>9, <2>1, CalculateRootIsTree
<1> QED BY <1>1, <1>2, <1>3, <1>5, <1>9, <1>10, <1>11

\* The root of every artefact on its way is the root of the tree over its
\* records, however many there are.
THEOREM RootsAreTrees == Spec => []RootIsTree
<1>1. IndInv => RootIsTree
  <2> SUFFICES ASSUME IndInv, NEW k \in Artefacts, transit.kind = k
               PROVE  sent[k].root =
                         TreeRoot(CreateTLVBranches(CreateTLVLeaves(
                             records(Schema(k), sent[k].fields)
                                 \cup sent[k].foreign)))
    BY DEF RootIsTree
  <2>1. PICK a : a = sent[k]
    OBVIOUS
  <2>2. k # "none"
    BY DEF Artefacts
  <2>3. sent[k] # NotSent
    BY <2>2 DEF IndInv, TransitOK
  <2>4. MadeOK(k, a)
    BY <2>1, <2>3 DEF IndInv, SentOK
  <2> QED BY <2>1, <2>4, MadeRootIsTree
<1> QED BY <1>1, Inductive, PTL

\* A signature that is accepted is the author's, over the root of what it sent.
LEMMA SignatureTells ==
    ASSUME NEW s, \A k \in Artefacts : SentOK(s, k),
           NEW k \in Artefacts, NEW a, GotOK(s, k, a), a.ok,
           a.fields[signatureType] # Unset
    PROVE  s[k] # NotSent /\ a.root = s[k].root
           /\ a.fields[signatureType] = s[k].fields[signatureType]
<1>1. PICK v : v = a.fields[signatureType]
  OBVIOUS
<1>2. s[k] # NotSent /\ Validate(k, a) /\ Genuine(s, v)
  BY <1>1 DEF GotOK
<1>3. \E key : SignedBy(a, v, key, Purpose(k))
  <2>1. CASE k = "offer"
    <3>1. ValidateOffer(a) /\ Purpose(k) = "offer"
      BY <1>2, <2>1 DEF Validate, Purpose
    <3> QED BY <1>1, <3>1 DEF ValidateOffer
  <2>2. CASE k = "request"
    <3>1. ValidateInvoiceRequest(a) /\ Purpose(k) = "invoice_request"
      BY <1>2, <2>2 DEF Validate, Purpose
    <3>2. invReqSignatureType = signatureType
      BY DEF invReqSignatureType, signatureType
    <3> QED BY <1>1, <3>1, <3>2 DEF ValidateInvoiceRequest
  <2>3. CASE k = "invoice"
    <3>1. ValidateInvoice(a) /\ Purpose(k) = "invoice"
      BY <1>2, <2>3 DEF Validate, Purpose
    <3>2. invSigType = signatureType
      BY DEF invSigType, signatureType
    <3> QED BY <1>1, <3>1, <3>2 DEF ValidateInvoice
  <2> QED BY <2>1, <2>2, <2>3 DEF Artefacts
<1>4. v[1].tag = "signature" /\ v[1].digest = signatureDigest(Purpose(k), a.root)
  BY <1>3 DEF SignedBy, validateSignature
<1>5. PICK j \in Artefacts : s[j] # NotSent /\ v = s[j].fields[signatureType]
  BY <1>1, <1>2, <1>4 DEF Genuine, Unset
<1>6. MadeOK(j, s[j])
  BY <1>5 DEF SentOK
<1>7. v = <<Sign(Author(j), signatureDigest(Purpose(j), s[j].root))>>
  BY <1>1, <1>5, <1>6 DEF MadeOK
<1>8. v[1].digest = signatureDigest(Purpose(j), s[j].root)
  BY <1>7 DEF Sign
<1>9. PICK d : d = v[1].digest
  OBVIOUS
<1>10. d.tag = Purpose(k) /\ d.root = a.root
  BY <1>4, <1>9 DEF signatureDigest
<1>11. d.tag = Purpose(j) /\ d.root = s[j].root
  BY <1>8, <1>9 DEF signatureDigest
<1>12. j = k
  BY <1>10, <1>11 DEF Purpose, Artefacts
<1> QED BY <1>1, <1>2, <1>5, <1>10, <1>11, <1>12

\* A signed artefact that is accepted shows the fields its author signed,
\* whatever was changed, lost, added or swapped on its way: the signature is the
\* author's over the root that was computed again, and the root covers the
\* fields.
THEOREM AlterationsRefused == Spec => []NothingAltered
<1>1. IndInv => NothingAltered
  <2> SUFFICES ASSUME IndInv, NEW k \in Artefacts, got[k].ok,
                      got[k].fields[signatureType] # Unset,
                      NEW t \in DOMAIN Schema(k)
               PROVE  Shown(k, got[k].fields, t) = Shown(k, sent[k].fields, t)
    BY DEF NothingAltered, SameFields
  <2>1. PICK s : s = sent
    OBVIOUS
  <2>2. PICK a : a = got[k]
    OBVIOUS
  <2>3. GotOK(s, k, a) /\ \A j \in Artefacts : SentOK(s, j)
    BY <2>1, <2>2 DEF IndInv
  <2>4. a.root = s[k].root /\ a.fields[signatureType] = s[k].fields[signatureType]
    BY <2>2, <2>3, SignatureTells
  <2>5. CASE t = signatureType
    BY <2>1, <2>2, <2>4, <2>5 DEF Shown
  <2>6. CASE t # signatureType
    <3>1. Shown(k, a.fields, t) = Shown(k, s[k].fields, t)
      BY <2>2, <2>3, <2>4, <2>6 DEF GotOK
    <3> QED BY <2>1, <2>2, <3>1
  <2> QED BY <2>5, <2>6
<1> QED BY <1>1, Inductive, PTL

\* Numbers that are written the same are the same.
LEMMA ValueTells ==
    /\ \A m, n : Value(m) = Value(n) => m = n
    /\ \A n : Number(Value(n)) = n
<1>1. \A n : <<Num(n)>> # <<>> /\ <<Num(n)>>[1].n = n
  BY DEF Num
<1>2. ASSUME NEW n PROVE Number(Value(n)) = n
  <2>1. CASE n = 0
    BY <2>1 DEF Number, Value, Unset
  <2>2. CASE n # 0
    <3>1. Value(n) = <<Num(n)>>
      BY <2>2 DEF Value
    <3> QED BY <1>1, <3>1 DEF Number, Unset
  <2> QED BY <2>1, <2>2
<1> QED BY <1>2

LEMMA ShownNumber ==
    ASSUME NEW k, NEW f, NEW g, NEW t, Schema(k)[t] = "tu64",
           Shown(k, f, t) = Shown(k, g, t)
    PROVE  Number(f[t]) = Number(g[t])
<1>1. ASSUME NEW h
      PROVE  Shown(k, h, t) = Value(Number(h[t]))
  <2>1. CASE h[t] = Unset
    BY <2>1 DEF Shown, Number, Value, Unset
  <2>2. CASE h[t] # Unset
    <3>1. Shown(k, h, t) = Write("tu64", h[t])
      BY <2>2 DEF Shown
    <3>2. Write("tu64", h[t]) = Value(h[t][1].n)
      BY DEF Write
    <3> QED BY <2>2, <3>1, <3>2 DEF Number
  <2> QED BY <2>1, <2>2
<1> QED BY <1>1, ValueTells

\* What a request that was made says, and an offer that was read.
LEMMA SchemaKinds ==
    /\ InvoiceRequestSchema[invReqOfferIDType] = "hash"
    /\ InvoiceRequestSchema[invReqAmountType] = "tu64"
    /\ InvoiceRequestSchema[invReqQuantityType] = "tu64"
    /\ OfferSchema[amountType] = "tu64"
    /\ OfferSchema[quantityMinType] = "tu64"
    /\ OfferSchema[quantityMaxType] = "tu64"
    /\ {invReqOfferIDType, invReqAmountType, invReqQuantityType}
           \subseteq DOMAIN InvoiceRequestSchema \ {signatureType}
    /\ {amountType, quantityMinType, quantityMaxType}
           \subseteq DOMAIN OfferSchema \ {signatureType}
<1>1. /\ InvoiceRequestSchema[invReqOfferIDType] = "hash"
      /\ InvoiceRequestSchema[invReqAmountType] = "tu64"
      /\ InvoiceRequestSchema[invReqQuantityType] = "tu64"
      /\ {invReqOfferIDType, invReqAmountType, invReqQuantityType}
             \subseteq DOMAIN InvoiceRequestSchema \ {signatureType}
  BY DEF InvoiceRequestSchema, invReqChainType, invReqOfferIDType,
      invReqAmountType, invReqFeaturesType, invReqQuantityType,
      invReqPayerKeyType, invReqPayerNoteType, invReqPayerInfoType,
      invReqSignatureType, signatureType
<1>2. /\ OfferSchema[amountType] = "tu64"
      /\ OfferSchema[quantityMinType] = "tu64"
      /\ OfferSchema[quantityMaxType] = "tu64"
      /\ {amountType, quantityMinType, quantityMaxType}
             \subseteq DOMAIN OfferSchema \ {signatureType}
  BY DEF OfferSchema, chainType, amountType, descriptionType, featuresType,
      expiryType, issuerType, quantityMinType, quantityMaxType, nodeIDType,
      signatureType
<1> QED BY <1>1, <1>2

\* A request that is accepted and names the offer of its reader asks for what
\* that offer allows: it is the request that its payer made, for an offer with
\* the same root, which therefore has the same amount and quantities.
THEOREM RequestsFit == Spec => []RequestFitsOffer
<1>1. IndInv => RequestFitsOffer
  <2>1. PICK s : s = sent
    OBVIOUS
  <2>2. PICK g : g = got
    OBVIOUS
  <2>3. PICK q : q = g["request"].fields
    OBVIOUS
  <2>4. PICK f : f = s["offer"].fields
    OBVIOUS
  <2> DEFINE min == Number(f[quantityMinType])
             max == Number(f[quantityMaxType])
             n   == Number(q[invReqQuantityType])
  <2> SUFFICES ASSUME IndInv, g["request"].ok,
                      q[invReqOfferIDType] = <<s["offer"].root>>
               PROVE  /\ Number(q[invReqAmountType]) >= Number(f[amountType])
                      /\ min # 0 => min <= n
                      /\ max # 0 => n <= max
                      /\ min = 0 /\ max = 0 => n = 0
    BY <2>1, <2>2, <2>3, <2>4 DEF RequestFitsOffer
  <2>5. "request" \in Artefacts /\ "offer" \in Artefacts
        /\ Schema("request") = InvoiceRequestSchema /\ Schema("offer") = OfferSchema
    BY DEF Artefacts, Schema
  <2>6. /\ \A j \in Artefacts : SentOK(s, j)
        /\ GotOK(s, "request", g["request"]) /\ GotOK(s, "offer", g["offer"])
        /\ RequestOK(s, g)
    BY <2>1, <2>2, <2>5 DEF IndInv
  <2>7. q[signatureType] # Unset
    <3>1. ValidateInvoiceRequest(g["request"])
      BY <2>6 DEF GotOK, Validate
    <3>2. invReqSignatureType = signatureType
      BY DEF invReqSignatureType, signatureType
    <3> QED BY <2>3, <3>1, <3>2 DEF ValidateInvoiceRequest
  <2>8. s["request"] # NotSent /\ g["request"].root = s["request"].root
    BY <2>3, <2>5, <2>6, <2>7, SignatureTells
  <2>9. PICK r : r = s["request"].fields
    OBVIOUS
  <2>10. \A t \in DOMAIN InvoiceRequestSchema \ {signatureType} :
            Shown("request", q, t) = Shown("request", r, t)
    BY <2>3, <2>5, <2>6, <2>8, <2>9 DEF GotOK
  <2>11. PICK o : o = g["offer"]
    OBVIOUS
  <2>12. PICK a \in Amounts, m \in Quantities :
            /\ o.ok /\ r[invReqOfferIDType] = <<o.root>>
            /\ RequestAllowed(o, a, m)
            /\ r[invReqAmountType] = Value(a) /\ r[invReqQuantityType] = Value(m)
    BY <2>6, <2>8, <2>9, <2>11 DEF RequestOK, RequestFor
  <2>13. o.root = s["offer"].root
    <3>1. Shown("request", q, invReqOfferIDType)
              = Shown("request", r, invReqOfferIDType)
      BY <2>10, SchemaKinds
    <3>2. \A v : Write("hash", v) = v
      BY DEF Write
    <3>3. \A x : <<x>> # Unset
      BY DEF Unset
    <3>4. Shown("request", q, invReqOfferIDType) = <<s["offer"].root>>
      BY <2>5, <3>2, <3>3, SchemaKinds DEF Shown
    <3>5. Shown("request", r, invReqOfferIDType) = <<o.root>>
      BY <2>5, <2>12, <3>2, <3>3, SchemaKinds DEF Shown
    <3>6. <<s["offer"].root>> = <<o.root>>
      BY <3>1, <3>4, <3>5
    <3> QED BY <3>6
  <2>14. Number(q[invReqAmountType]) = a /\ n = m
    <3>1. Number(q[invReqAmountType]) = Number(r[invReqAmountType])
      BY <2>5, <2>10, SchemaKinds, ShownNumber
    <3>2. n = Number(r[invReqQuantityType])
      BY <2>5, <2>10, SchemaKinds, ShownNumber
    <3> QED BY <2>12, <3>1, <3>2, ValueTells
  <2>15. PICK h : h = o.fields
    OBVIOUS
  <2>16. \A t \in DOMAIN OfferSchema \ {signatureType} :
            Shown("offer", h, t) = Shown("offer", f, t)
    BY <2>4, <2>5, <2>6, <2>11, <2>12, <2>13, <2>15 DEF GotOK
  <2>17. /\ Number(h[amountType]) = Number(f[amountType])
         /\ Number(h[quantityMinType]) = min /\ Number(h[quantityMaxType]) = max
    BY <2>5, <2>16, SchemaKinds, ShownNumber
  <2>18. a \in Nat /\ m \in Nat
    BY RequestsAssumption
  <2>19. /\ a >= Number(h[amountType])
         /\ Number(h[quantityMinType]) # 0 => m >= Number(h[quantityMinType])
         /\ Number(h[quantityMaxType]) # 0 => m <= Number(h[quantityMaxType])
         /\ ~(Number(h[quantityMinType]) # 0 /\ Number(h[quantityMaxType]) # 0)
                => m = 0
    BY <2>12, <2>15 DEF RequestAllowed
  <2>20. min # 0 => min <= n
    <3>1. min # 0 => m >= min
      BY <2>17, <2>19
    <3> QED BY <2>14, <3>1
  <2> QED BY <2>14, <2>17, <2>19, <2>20
<1> QED BY <1>1, Inductive, PTL

-----------------------------------------------------------------------------
(***************************************************************************)
(* What the library makes, its readers accept.                             *)
(***************************************************************************)

\* The value of a field of that kind is one that reading gives back: not a zero
\* that counts as not set, a number, a key.
Sound(kind, v) ==
    v # Unset =>
        /\ kind \in {"hash", "features", "uint64"} => v # <<Num(0)>>
        /\ kind = "tu64" => v[1].n # 0
        /\ kind = "expiry" => v = <<Num(v[1].n)>>
        /\ kind = "duration" => v = <<Num(v[1].n)>> /\ v[1].n \in Nat \ {0}
        /\ kind = "xonly" => v[1] = Key(v[1].id, v[1].odd)
        /\ kind = "point" => v[1].tag = "key"
SoundFields(k, a) ==
    k # "offer" \/ a.foreign = {} =>
        \A t \in DOMAIN Schema(k) : Sound(Schema(k)[t], a.fields[t])

\* The fields that are set in b are set in a.
SetIn(k, b, a) ==
    \A t \in DOMAIN Schema(k) \ {signatureType} :
        b.fields[t] # Unset => a.fields[t] # Unset

\* What the reader of an artefact of kind k makes of the data.
ReadFrom(k, data, a) ==
    IF k = "offer" THEN \E last \in Last(TextTypes(data)) : a = DecodeOfferStr(data, last)
    ELSE \E last \in Last(Types(data)) :
            a = Accepted(k, Decode(Schema(k), data, last))

\* Beside the invariant: only what was sent is read, what was made is sound, a
\* root that was read is no zero and tells which fields were set, and while an
\* artefact is on its way, what was read is what its data say.
ReadOK(s, g, x, k) ==
    /\ g[k] # NotRead => s[k] # NotSent
    /\ s[k] # NotSent => SoundFields(k, s[k])
    /\ g[k].ok => /\ g[k].root # Num(0)
                  /\ g[k].root = s[k].root => SetIn(k, g[k], s[k])
    /\ x.kind = k /\ g[k] # NotRead => ReadFrom(k, x.data, g[k])
ReadInv == \A k \in Artefacts : ReadOK(sent, got, transit, k)

\* The root of a set of records that has any to hash is a branch.
LEMMA RootIsABranch ==
    ASSUME NEW S, RecordSet(S)
    PROVE  IF Hashed(S) = {} THEN MerkleRoot(S) = ErrNoTLVs
           ELSE MerkleRoot(S).tag = "LnBranch"
<1>1. PICK all : all = SortRecords(Hashed(S))
  OBVIOUS
<1>2. Len(all) \in Nat /\ (Len(all) = 0 <=> Hashed(S) = {})
  BY <1>1, BottomOf
<1>3. CASE Hashed(S) = {}
  BY <1>3, RootOfRecords
<1>4. CASE Hashed(S) # {}
  <2>1. Len(all) \in Nat \ {0}
    BY <1>2, <1>4
  <2> QED BY <1>1, <1>4, <2>1, RootOfRecords, RootIsBranch
<1> QED BY <1>3, <1>4

\* The field can be written so that nothing of it is lost: it is no expiry at the
\* epoch, and no duration with a part of a second.
Kept(kind, v) ==
    /\ kind = "expiry" => v # <<Num(0)>>
    /\ kind = "duration" => v[1].n % Second = 0

\* What u, read again, has to do with the field v: it is written as v was, is
\* the same number or the same key, and the same value unless parity is lost.
ReadBack(kind, v, u) ==
    /\ u # Unset
    /\ Write(kind, u) = Write(kind, v)
    /\ kind = "tu64" => Number(u) = Number(v)
    /\ kind = "xonly" => u[1].id = v[1].id
    /\ kind \notin {"tu64", "xonly"} => u = v

\* Read undoes Write, for every kind of field and every sound value that is set:
\* the bytes can be read, and what is read is written as the same bytes again.
THEOREM ReadUndoesWrite ==
    ASSUME NEW kind, NEW v, v # Unset, Sound(kind, v), Kept(kind, v)
    PROVE  /\ Readable(kind, Write(kind, v))
           /\ ReadBack(kind, v, Read(kind, Write(kind, v)))
<1>1. \A x : <<x>> # Unset /\ <<x>> # <<>> /\ <<x>>[1] = x
  BY DEF Unset
<1>2. \A n : Num(n).n = n
  BY DEF Num
<1>3. \A n, m : <<Num(n)>> = <<Num(m)>> => n = m
  BY <1>1, <1>2
<1>4. CASE kind \in {"tu64", "expiry"}
  <2>1. PICK n : n = v[1].n
    OBVIOUS
  <2>2. n # 0
    <3>1. CASE kind = "tu64"
      BY <2>1, <3>1 DEF Sound
    <3>2. CASE kind = "expiry"
      BY <2>1, <3>2 DEF Sound, Kept
    <3> QED BY <1>4, <3>1, <3>2
  <2>3. Write(kind, v) = <<Num(n)>>
    BY <1>4, <2>1, <2>2 DEF Write, Value
  <2>4. Readable(kind, <<Num(n)>>)
    BY <1>1, <1>3, <1>4, <2>2 DEF Readable
  <2>5. Read(kind, <<Num(n)>>) = <<Num(n)>>
    BY <1>4 DEF Read
  <2>6. Write(kind, <<Num(n)>>) = <<Num(n)>>
    BY <1>1, <1>2, <1>4, <2>2 DEF Write, Value
  <2>7. Number(<<Num(n)>>) = Number(v)
    BY <1>1, <1>2, <2>1 DEF Number
  <2>8. kind = "expiry" => <<Num(n)>> = v
    BY <2>1 DEF Sound
  <2> QED BY <1>1, <1>4, <2>3, <2>4, <2>5, <2>6, <2>7, <2>8 DEF ReadBack
<1>5. CASE kind = "duration"
  <2>1. PICK n \in Nat \ {0} : v = <<Num(n)>> /\ v[1].n = n
    BY <1>5 DEF Sound
  <2>2. n % Second = 0
    BY <1>5, <2>1 DEF Kept
  <2>3. PICK m \in Nat : m = n \div Second /\ m * Second = n
    BY <2>2, SecondAssumption
  <2>4. Write(kind, v) = <<Num(m)>>
    BY <1>5, <2>1, <2>3 DEF Write
  <2>5. Readable(kind, <<Num(m)>>)
    BY <1>1, <1>5 DEF Readable
  <2>6. Read(kind, <<Num(m)>>) = Value(m * Second)
    BY <1>1, <1>2, <1>5 DEF Read
  <2>7. Value(m * Second) = v
    BY <2>1, <2>3 DEF Value
  <2> QED BY <1>5, <2>4, <2>5, <2>6, <2>7 DEF ReadBack
<1>6. CASE kind = "xonly"
  <2>1. PICK id, odd : v[1] = Key(id, odd)
    BY <1>6 DEF Sound
  <2>2. PICK x : x = Key(id, FALSE)
    OBVIOUS
  <2>3. XOnly(v[1]) = x /\ XOnly(x) = x /\ x.tag = "key" /\ x.id = id /\ v[1].id = id
    <3>1. PICK y : y = v[1]
      OBVIOUS
    <3>2. y = [tag |-> "key", id |-> id, odd |-> odd]
          /\ x = [tag |-> "key", id |-> id, odd |-> FALSE]
      BY <2>1, <2>2, <3>1 DEF Key
    <3>3. [y EXCEPT !.odd = FALSE] = x /\ [x EXCEPT !.odd = FALSE] = x
      <4>1. ASSUME NEW o, NEW b
            PROVE  [[tag |-> "key", id |-> id, odd |-> o] EXCEPT !.odd = b]
                       = [tag |-> "key", id |-> id, odd |-> b]
        OBVIOUS
      <4> QED BY <3>2, <4>1
    <3>4. x.tag = "key" /\ x.id = id /\ y.id = id
      BY <3>2
    <3> QED BY <3>1, <3>3, <3>4 DEF XOnly
  <2>4. Write(kind, v) = <<x>> /\ Write(kind, <<x>>) = <<x>>
    BY <1>1, <1>6, <2>3 DEF Write
  <2>5. Readable(kind, <<x>>)
    BY <1>1, <1>6, <2>3 DEF Readable
  <2>6. Read(kind, <<x>>) = <<x>>
    BY <1>6 DEF Read
  <2> QED BY <1>1, <1>6, <2>3, <2>4, <2>5, <2>6 DEF ReadBack
<1>7. CASE kind \notin {"tu64", "expiry", "duration", "xonly"}
  <2>1. Write(kind, v) = v
    BY <1>7 DEF Write
  <2>2. Readable(kind, v)
    <3>1. kind = "point" => v[1].tag = "key"
      BY DEF Sound
    <3> QED BY <1>7, <3>1 DEF Readable, Unset
  <2>3. Read(kind, v) = v
    <3>1. kind \in {"hash", "features", "uint64"} => v # <<Num(0)>>
      BY DEF Sound
    <3> QED BY <1>7, <3>1 DEF Read
  <2> QED BY <1>7, <2>1, <2>2, <2>3 DEF ReadBack
<1> QED BY <1>4, <1>5, <1>6, <1>7

\* The records of a sorted set are in the order of their types.
LEMMA SortedAscends ==
    ASSUME NEW S, RecordSet(S), NEW i \in 1..Cardinality(S),
           NEW j \in 1..Cardinality(S), i < j
    PROVE  SortRecords(S)[i].type < SortRecords(S)[j].type
<1>1. PICK n \in Nat : n = Cardinality(S)
  BY Ranks
<1>2. SortRecords(S) = [l \in 1..n |-> CHOOSE r \in S : Rank(S, r) = l]
  BY <1>1 DEF SortRecords, Rank, UpTo
<1>3. ASSUME NEW l \in 1..n
      PROVE  SortRecords(S)[l] \in S /\ Rank(S, SortRecords(S)[l]) = l
  <2>1. \E r \in S : Rank(S, r) = l
    BY <1>1, <1>3, Ranks
  <2>2. SortRecords(S)[l] = CHOOSE r \in S : Rank(S, r) = l
    BY <1>2, <1>3
  <2> QED BY <2>1, <2>2
<1>4. PICK q \in S : q = SortRecords(S)[i] /\ Rank(S, q) = i
  BY <1>1, <1>3
<1>5. PICK r \in S : r = SortRecords(S)[j] /\ Rank(S, r) = j
  BY <1>1, <1>3
<1>6. q.type \in Nat /\ r.type \in Nat
  BY <1>4, <1>5 DEF RecordSet
<1>7. ASSUME r.type <= q.type PROVE FALSE
  <2>1. UpTo(S, r) \in SUBSET UpTo(S, q) /\ UpTo(S, q) \in SUBSET S
    BY <1>6, <1>7 DEF UpTo, RecordSet
  <2>2. IsFiniteSet(UpTo(S, q))
    BY <2>1, FS_Subset DEF RecordSet
  <2>3. Rank(S, r) <= Rank(S, q)
    BY <2>1, <2>2, FS_Subset DEF Rank
  <2> QED BY <1>1, <1>4, <1>5, <2>3
<1> QED BY <1>4, <1>5, <1>6, <1>7

\* What the stream of fields says of each type of the schema.
SaysFields(schema, f, stream) ==
    /\ Canonical(stream)
    /\ stream # <<>> <=> \E t \in DOMAIN schema : f[t] # Unset
    /\ Types(stream) = {t \in DOMAIN schema : f[t] # Unset}
    /\ \A t \in Types(stream) : BytesOf(stream, t) = Write(schema[t], f[t])

\* Encode writes each field that is set once, in order.
LEMMA StreamOfFields ==
    ASSUME NEW schema, IsSchema(schema), NEW f,
           NEW stream, stream = SortRecords(records(schema, f))
    PROVE  SaysFields(schema, f, stream)
<1>1. PICK S : S = records(schema, f)
  OBVIOUS
<1>2. RecordSet(S)
  BY <1>1, FieldRecords
<1>3. PICK n \in Nat : n = Cardinality(S)
  BY <1>2, Ranks
<1>4. /\ stream \in Seq(S) /\ Len(stream) = n /\ DOMAIN stream = 1..n
      /\ \A r \in S : \E i \in 1..n : stream[i] = r
      /\ \A i \in 1..n : stream[i] \in S
  <2>1. stream \in Seq(S) /\ Len(stream) = n
        /\ \A r \in S : \E i \in 1..n : stream[i] = r
    BY <1>1, <1>2, <1>3, Sorted
  <2> QED BY <2>1
<1>5. Canonical(stream)
  <2>1. ASSUME NEW i \in 1..(n - 1) PROVE stream[i].type < stream[i + 1].type
    <3>1. i \in 1..n /\ i + 1 \in 1..n /\ i < i + 1
      OBVIOUS
    <3> QED BY <1>1, <1>2, <1>3, <3>1, SortedAscends
  <2> QED BY <1>4, <2>1 DEF Canonical
<1>6. ASSUME NEW t \in Types(stream)
      PROVE  /\ t \in DOMAIN schema /\ f[t] # Unset
             /\ BytesOf(stream, t) = Write(schema[t], f[t])
  <2>1. PICK r \in S : r.type = t /\ BytesOf(stream, t) = r.bytes
    BY <1>4, <1>6, BytesFound
  <2> QED BY <1>1, <2>1, FieldRecords
<1>7. ASSUME NEW t \in DOMAIN schema, f[t] # Unset
      PROVE  t \in Types(stream)
  <2>1. PICK r : r = Record(t, Write(schema[t], f[t]))
    OBVIOUS
  <2>2. r \in S /\ r.type = t
    BY <1>1, <1>7, <2>1, FieldRecords, RecordParts
  <2>3. PICK i \in 1..n : stream[i] = r
    BY <1>4, <2>2
  <2> QED BY <1>4, <2>2, <2>3 DEF Types
<1>8. Types(stream) = {t \in DOMAIN schema : f[t] # Unset}
  BY <1>6, <1>7
<1>9. stream # <<>> <=> Types(stream) # {}
  BY <1>4 DEF Types
<1> QED BY <1>5, <1>6, <1>8, <1>9 DEF SaysFields

\* A stream of known types has no unknown records.
LEMMA NoneUnknown ==
    ASSUME NEW schema, NEW stream, Types(stream) \subseteq DOMAIN schema, NEW last
    PROVE  unknownRecordsFromParsed(ParsedTypes(schema, stream), last) = {}
<1>1. PICK m : m = ParsedTypes(schema, stream)
  OBVIOUS
<1>2. \A t \in DOMAIN m : m[t] = <<>>
  BY <1>1 DEF ParsedTypes
<1>3. {t \in DOMAIN m : m[t] # <<>>} = {}
  BY <1>2
<1> QED BY <1>1, <1>3 DEF unknownRecordsFromParsed

\* Fields that are read back are written as the same records.
LEMMA SameRecords ==
    ASSUME NEW schema, NEW f, NEW g,
           \A t \in DOMAIN schema : f[t] = Unset => g[t] = Unset,
           \A t \in DOMAIN schema : f[t] # Unset => ReadBack(schema[t], f[t], g[t])
    PROVE  records(schema, g) = records(schema, f)
<1>1. \A t \in DOMAIN schema : f[t] # Unset <=> g[t] # Unset
  BY DEF ReadBack
<1>2. PICK D : D = {t \in DOMAIN schema : f[t] # Unset}
  OBVIOUS
<1>3. D = {t \in DOMAIN schema : g[t] # Unset}
  BY <1>1, <1>2
<1>4. \A t \in D : Write(schema[t], g[t]) = Write(schema[t], f[t])
  BY <1>2 DEF ReadBack
<1>5. records(schema, f) = {Record(t, Write(schema[t], f[t])) : t \in D}
  BY <1>2 DEF records
<1>6. records(schema, g) = {Record(t, Write(schema[t], g[t])) : t \in D}
  BY <1>3 DEF records
<1> QED BY <1>4, <1>5, <1>6

\* The root of what was made is a branch.
LEMMA MadeRootIsBranch ==
    ASSUME NEW k \in Artefacts, NEW a, MadeOK(k, a)
    PROVE  a.root.tag = "LnBranch"
<1>1. PICK schema : schema = Schema(k)
  OBVIOUS
<1>2. PICK f : f = a.fields
  OBVIOUS
<1>3. PICK U : U = a.foreign
  OBVIOUS
<1>4. IsSchema(schema) /\ Others(schema, U)
  BY <1>1, <1>3, Schemas DEF MadeOK
<1>5. PICK S : S = records(schema, f) \cup U
  OBVIOUS
<1>6. RecordSet(S) /\ a.root = MerkleRoot(S)
  BY <1>1, <1>2, <1>3, <1>4, <1>5, WithOthers DEF MadeOK
<1>7. Hashed(S) # {}
  <2>1. PICK t \in DOMAIN schema : t # signatureType /\ f[t] # Unset
    BY <1>1, <1>2 DEF MadeOK
  <2>2. PICK r : r = Record(t, Write(schema[t], f[t]))
    OBVIOUS
  <2>3. r \in S /\ r.type = t
    BY <1>4, <1>5, <2>1, <2>2, FieldRecords, RecordParts
  <2>4. t \in Nat /\ t < 240
    BY <1>4, <2>1 DEF IsSchema, signatureType
  <2>5. \A n \in Nat : n < 240 => n \notin 240..1000
    OBVIOUS
  <2>6. r \in Hashed(S)
    BY <2>3, <2>4, <2>5 DEF Hashed, isSignatureTLV
  <2> QED BY <2>6
<1> QED BY <1>6, <1>7, RootIsABranch

\* The artefact b is read as a was made.
TakenFor(k, a, b) ==
    /\ b.ok
    /\ b.root = a.root
    /\ \A t \in DOMAIN Schema(k) :
          IF a.fields[t] = Unset THEN b.fields[t] = Unset
          ELSE ReadBack(Schema(k)[t], a.fields[t], b.fields[t])

\* All fields of an artefact survive.
AllKept(k, a) ==
    \A t \in DOMAIN Schema(k) :
        a.fields[t] # Unset => Kept(Schema(k)[t], a.fields[t])

\* Decode undoes Encode: the fields are read back and the root is the same.
LEMMA DecodeUndoesEncode ==
    ASSUME NEW k \in Artefacts, NEW a, MadeOK(k, a), a.foreign = {},
           SoundFields(k, a), AllKept(k, a),
           NEW stream, stream = SortRecords(records(Schema(k), a.fields)),
           NEW last, NEW b, b = Decode(Schema(k), stream, last)
    PROVE  TakenFor(k, a, b)
<1>1. PICK schema : schema = Schema(k)
  OBVIOUS
<1>2. IsSchema(schema)
  BY <1>1, Schemas
<1>3. PICK f : f = a.fields
  OBVIOUS
<1>4. SaysFields(schema, f, stream)
  BY <1>1, <1>2, <1>3, StreamOfFields
<1>5. PICK known : known = Types(stream) \cap DOMAIN schema
  OBVIOUS
<1>6. known = {t \in DOMAIN schema : f[t] # Unset}
      /\ \A t \in known : BytesOf(stream, t) = Write(schema[t], f[t])
  BY <1>4, <1>5 DEF SaysFields
<1>7. PICK g : g = [t \in DOMAIN schema |->
                      IF t \in known THEN Read(schema[t], BytesOf(stream, t))
                      ELSE Unset]
  OBVIOUS
<1>8. PICK root : root = MerkleRoot(records(schema, g) \cup
                     unknownRecordsFromParsed(ParsedTypes(schema, stream), last))
  OBVIOUS
<1>9. b = IF \/ ~Canonical(stream) \/ UnknownEven(schema, stream)
             \/ \E t \in known : ~Readable(schema[t], BytesOf(stream, t))
             \/ root = ErrNoTLVs
          THEN Failed
          ELSE [ok |-> TRUE, fields |-> g, root |-> root]
  BY <1>1, <1>5, <1>7, <1>8 DEF Decode, decodeMerkleRoot
<1>10. ASSUME NEW t \in DOMAIN schema
       PROVE  IF f[t] = Unset THEN g[t] = Unset
              ELSE /\ t \in known
                   /\ Readable(schema[t], BytesOf(stream, t))
                   /\ ReadBack(schema[t], f[t], g[t])
  <2>1. CASE f[t] = Unset
    BY <1>6, <1>7, <2>1
  <2>2. CASE f[t] # Unset
    <3>1. t \in known /\ BytesOf(stream, t) = Write(schema[t], f[t])
      BY <1>6, <2>2
    <3>2. g[t] = Read(schema[t], Write(schema[t], f[t]))
      BY <1>7, <3>1
    <3>3. Sound(schema[t], f[t]) /\ Kept(schema[t], f[t])
      BY <1>1, <1>3, <2>2 DEF SoundFields, AllKept
    <3>4. PICK kind : kind = schema[t]
      OBVIOUS
    <3>5. PICK v : v = f[t]
      OBVIOUS
    <3>6. Readable(kind, Write(kind, v)) /\ ReadBack(kind, v, Read(kind, Write(kind, v)))
      BY <2>2, <3>3, <3>4, <3>5, ReadUndoesWrite
    <3> QED BY <2>2, <3>1, <3>2, <3>4, <3>5, <3>6
  <2> QED BY <2>1, <2>2
<1>11. Canonical(stream) /\ \A t \in known : Readable(schema[t], BytesOf(stream, t))
  BY <1>4, <1>6, <1>10 DEF SaysFields
<1>12. records(schema, g) = records(schema, f)
  <2>1. \A t \in DOMAIN schema : f[t] = Unset => g[t] = Unset
    BY <1>10
  <2>2. \A t \in DOMAIN schema : f[t] # Unset => ReadBack(schema[t], f[t], g[t])
    BY <1>10
  <2> QED BY <2>1, <2>2, SameRecords
<1>13. root = a.root
  <2>1. Types(stream) \subseteq DOMAIN schema
    BY <1>4 DEF SaysFields
  <2>2. unknownRecordsFromParsed(ParsedTypes(schema, stream), last) = {}
    BY <2>1, NoneUnknown
  <2>3. a.root = MerkleRoot(records(schema, f) \cup {})
    BY <1>1, <1>3 DEF MadeOK
  <2> QED BY <1>8, <1>12, <2>2, <2>3
<1>14. root # ErrNoTLVs
  <2>1. root.tag = "LnBranch"
    BY <1>13, MadeRootIsBranch
  <2> QED BY <2>1 DEF ErrNoTLVs
<1>a. ~UnknownEven(schema, stream)
  BY <1>4 DEF UnknownEven, SaysFields
<1>15. b = [ok |-> TRUE, fields |-> g, root |-> root]
  BY <1>9, <1>11, <1>14, <1>a
<1>16. b.ok /\ b.root = a.root /\ b.fields = g
  BY <1>13, <1>15
<1>17. \A t \in DOMAIN schema :
          IF f[t] = Unset THEN g[t] = Unset ELSE ReadBack(schema[t], f[t], g[t])
  BY <1>10
<1> QED BY <1>1, <1>3, <1>16, <1>17 DEF TakenFor

\* Where the schemas have which kinds.
LEMMA KindsOf ==
    /\ OfferSchema[descriptionType] = "bytes" /\ OfferSchema[nodeIDType] = "xonly"
    /\ {descriptionType, nodeIDType, expiryType} \subseteq DOMAIN OfferSchema
    /\ OfferSchema[expiryType] = "expiry"
    /\ InvoiceRequestSchema[invReqPayerKeyType] = "xonly"
    /\ invReqPayerKeyType \in DOMAIN InvoiceRequestSchema
    /\ InvoiceSchema[invNodeIDType] = "point"
    /\ InvoiceSchema[invRelativeExpiryType] = "duration"
    /\ {invAmountType, invPaymentHashType, invCreatedAtType, invNodeIDType,
        invDescType, invRelativeExpiryType} \subseteq DOMAIN InvoiceSchema
<1>1. /\ OfferSchema[descriptionType] = "bytes" /\ OfferSchema[nodeIDType] = "xonly"
      /\ {descriptionType, nodeIDType, expiryType} \subseteq DOMAIN OfferSchema
      /\ OfferSchema[expiryType] = "expiry"
  BY DEF OfferSchema, chainType, amountType, descriptionType, featuresType,
      expiryType, issuerType, quantityMinType, quantityMaxType, nodeIDType,
      signatureType
<1>2. /\ InvoiceRequestSchema[invReqPayerKeyType] = "xonly"
      /\ invReqPayerKeyType \in DOMAIN InvoiceRequestSchema
  BY DEF InvoiceRequestSchema, invReqChainType, invReqOfferIDType,
      invReqAmountType, invReqFeaturesType, invReqQuantityType,
      invReqPayerKeyType, invReqPayerNoteType, invReqPayerInfoType,
      invReqSignatureType
<1>3. /\ InvoiceSchema[invNodeIDType] = "point"
      /\ InvoiceSchema[invRelativeExpiryType] = "duration"
      /\ {invAmountType, invPaymentHashType, invCreatedAtType, invNodeIDType,
          invDescType, invRelativeExpiryType} \subseteq DOMAIN InvoiceSchema
  BY DEF InvoiceSchema, invChainType, invOfferIDType, invAmountType,
      invDescType, invFeatType, invNodeIDType, invQuantityType,
      invPayerKeyType, invPayerNoteType, invCreatedAtType,
      invPaymentHashType, invRelativeExpiryType, inCLTVType,
      invPayerInfoType, invSigType
<1> QED BY <1>1, <1>2, <1>3

\* What is read as a valid artefact was made is valid.
LEMMA StaysValid ==
    ASSUME NEW k \in Artefacts, NEW a, NEW b, TakenFor(k, a, b), Validate(k, a)
    PROVE  Validate(k, b)
<1>1. PICK f : f = a.fields
  OBVIOUS
<1>2. PICK g : g = b.fields
  OBVIOUS
<1>3. PICK schema : schema = Schema(k)
  OBVIOUS
<1>4. \A t \in DOMAIN schema :
         IF f[t] = Unset THEN g[t] = Unset ELSE ReadBack(schema[t], f[t], g[t])
  BY <1>1, <1>2, <1>3 DEF TakenFor
<1>5. \A t \in DOMAIN schema : f[t] = Unset <=> g[t] = Unset
  BY <1>4 DEF ReadBack
<1>6. signatureType \in DOMAIN schema /\ schema[signatureType] = "signature"
  BY <1>3, Schemas DEF IsSchema
<1>7. g[signatureType] = f[signatureType]
  BY <1>4, <1>6 DEF ReadBack
<1>8. b.root = a.root
  BY DEF TakenFor
<1>9. ASSUME NEW x, NEW y, NEW purpose, x[1].id = y[1].id,
             SignedBy(a, f[signatureType], x, purpose)
      PROVE  SignedBy(b, g[signatureType], y, purpose)
  BY <1>7, <1>8, <1>9 DEF SignedBy, validateSignature
<1>10. CASE k = "offer"
  <2>1. schema = OfferSchema
    BY <1>3, <1>10 DEF Schema
  <2>2. ASSUME NEW t \in {quantityMinType, quantityMaxType}
        PROVE  Number(g[t]) = Number(f[t])
    <3>1. t \in DOMAIN schema /\ schema[t] = "tu64"
      BY <2>1, <2>2, SchemaKinds
    <3> QED BY <1>4, <3>1 DEF ReadBack
  <2>3. nodeIDType \in DOMAIN schema /\ schema[nodeIDType] = "xonly"
        /\ descriptionType \in DOMAIN schema
    BY <2>1, KindsOf
  <2>4. f[nodeIDType] # Unset => g[nodeIDType][1].id = f[nodeIDType][1].id
    BY <1>4, <2>3 DEF ReadBack
  <2>5. ValidateOffer(a)
    BY <1>10 DEF Validate
  <2>6. f[nodeIDType] # Unset /\ f[descriptionType] # Unset
        /\ ~(Number(f[quantityMinType]) # 0 /\ Number(f[quantityMaxType]) # 0
                /\ Number(f[quantityMinType]) > Number(f[quantityMaxType]))
        /\ (f[signatureType] # Unset =>
               SignedBy(a, f[signatureType], f[nodeIDType], "offer"))
    BY <1>1, <2>5 DEF ValidateOffer
  <2>7. g[signatureType] # Unset => SignedBy(b, g[signatureType], g[nodeIDType], "offer")
    BY <1>7, <1>9, <2>4, <2>6
  <2>8. g[nodeIDType] # Unset /\ g[descriptionType] # Unset
    BY <1>5, <2>3, <2>6
  <2>9. Number(g[quantityMinType]) = Number(f[quantityMinType])
        /\ Number(g[quantityMaxType]) = Number(f[quantityMaxType])
    BY <2>2
  <2>10. ValidateOffer(b)
    BY <1>2, <2>6, <2>7, <2>8, <2>9 DEF ValidateOffer
  <2> QED BY <1>10, <2>10 DEF Validate
<1>11. CASE k = "request"
  <2>1. schema = InvoiceRequestSchema /\ invReqSignatureType = signatureType
    BY <1>3, <1>11 DEF Schema, invReqSignatureType, signatureType
  <2>2. invReqPayerKeyType \in DOMAIN schema /\ schema[invReqPayerKeyType] = "xonly"
        /\ invReqOfferIDType \in DOMAIN schema
    BY <2>1, KindsOf, SchemaKinds
  <2>3. ValidateInvoiceRequest(a)
    BY <1>11 DEF Validate
  <2>4. /\ f[invReqOfferIDType] # Unset /\ f[invReqPayerKeyType] # Unset
        /\ f[signatureType] # Unset
        /\ SignedBy(a, f[signatureType], f[invReqPayerKeyType], "invoice_request")
    BY <1>1, <2>1, <2>3 DEF ValidateInvoiceRequest
  <2>5. g[invReqPayerKeyType][1].id = f[invReqPayerKeyType][1].id
    BY <1>4, <2>2, <2>4 DEF ReadBack
  <2>6. SignedBy(b, g[signatureType], g[invReqPayerKeyType], "invoice_request")
    BY <1>9, <2>4, <2>5
  <2>7. g[invReqOfferIDType] # Unset /\ g[invReqPayerKeyType] # Unset
        /\ g[signatureType] # Unset
    BY <1>5, <1>6, <2>2, <2>4
  <2>8. ValidateInvoiceRequest(b)
    BY <1>2, <2>1, <2>6, <2>7 DEF ValidateInvoiceRequest
  <2> QED BY <1>11, <2>8 DEF Validate
<1>12. CASE k = "invoice"
  <2>1. schema = InvoiceSchema /\ invSigType = signatureType
    BY <1>3, <1>12 DEF Schema, invSigType, signatureType
  <2>2. /\ {invAmountType, invPaymentHashType, invCreatedAtType, invNodeIDType,
            invDescType} \subseteq DOMAIN schema
        /\ schema[invNodeIDType] = "point"
    BY <2>1, KindsOf
  <2>3. ValidateInvoice(a)
    BY <1>12 DEF Validate
  <2>4. /\ f[invAmountType] # Unset /\ f[invPaymentHashType] # Unset
        /\ f[invCreatedAtType] # Unset /\ f[invNodeIDType] # Unset
        /\ f[invDescType] # Unset
        /\ f[signatureType] # Unset =>
              SignedBy(a, f[signatureType], f[invNodeIDType], "invoice")
    BY <1>1, <2>1, <2>3 DEF ValidateInvoice
  <2>5. g[invNodeIDType] = f[invNodeIDType]
    BY <1>4, <2>2, <2>4 DEF ReadBack
  <2>6. g[signatureType] # Unset =>
           SignedBy(b, g[signatureType], g[invNodeIDType], "invoice")
    BY <1>7, <1>9, <2>4, <2>5
  <2>7. /\ g[invAmountType] # Unset /\ g[invPaymentHashType] # Unset
        /\ g[invCreatedAtType] # Unset /\ g[invNodeIDType] # Unset
        /\ g[invDescType] # Unset
    BY <1>5, <2>2, <2>4
  <2>8. ValidateInvoice(b)
    BY <1>2, <2>1, <2>6, <2>7 DEF ValidateInvoice
  <2> QED BY <1>12, <2>8 DEF Validate
<1> QED BY <1>10, <1>11, <1>12 DEF Artefacts

\* What was made and is valid is accepted by its reader, as it was made.
LEMMA AcceptsOwn ==
    ASSUME NEW k \in Artefacts, NEW a, MadeOK(k, a), a.foreign = {},
           SoundFields(k, a), AllKept(k, a), Validate(k, a),
           NEW stream, stream = SortRecords(records(Schema(k), a.fields)),
           NEW last
    PROVE  TakenFor(k, a, Accepted(k, Decode(Schema(k), stream, last)))
<1>1. PICK b : b = Decode(Schema(k), stream, last)
  OBVIOUS
<1>2. TakenFor(k, a, b)
  BY <1>1, DecodeUndoesEncode
<1>3. Validate(k, b)
  BY <1>2, StaysValid
<1>4. b.ok
  BY <1>2 DEF TakenFor
<1>5. Accepted(k, b) = b
  BY <1>3, <1>4 DEF Accepted
<1> QED BY <1>1, <1>2, <1>5

\* Whitespace in a text that is well joined follows a join, so it is trimmed.
LEMMA JoinsAreTrimmed ==
    ASSUME NEW R, NEW text \in Seq(R), WellJoined(text),
           NEW p \in DOMAIN text, text[p] = Space
    PROVE  Trimmed(text, p)
<1> DEFINE After(i) == \E j \in 0..(i - 1) :
                          /\ j = 0 \/ text[j] = Plus
                          /\ \A k \in (j + 1)..i : text[k] = Space
           Bad == {i \in DOMAIN text : text[i] = Space /\ ~After(i)}
<1>1. PICK n \in Nat : n = Len(text) /\ DOMAIN text = 1..n
  OBVIOUS
<1>2. Bad = {}
  <2> SUFFICES ASSUME Bad # {} PROVE FALSE
    OBVIOUS
  <2>1. PICK i \in Bad : \A j \in Bad : i <= j
    <3>1. Bad \subseteq Nat
      BY <1>1
    <3> HIDE DEF Bad
    <3> QED BY <3>1, LeastNatural
  <2>2. i \in 1..n /\ text[i] = Space /\ ~After(i)
    BY <1>1, <2>1
  <2>3. i \in 1..n /\ 1 < i /\ text[i - 1] \in {Plus, Space}
    BY <1>1, <2>2 DEF WellJoined
  <2>4. i - 1 \in 1..n /\ ~(i <= i - 1)
    BY <2>3
  <2>5. CASE text[i - 1] = Plus
    <3>1. i - 1 \in 0..(i - 1) /\ \A k \in ((i - 1) + 1)..i : k = i
      BY <2>3
    <3> QED BY <2>2, <2>5, <3>1
  <2>6. CASE text[i - 1] = Space
    <3>1. After(i - 1)
      BY <1>1, <2>1, <2>4, <2>6
    <3>2. PICK j \in 0..((i - 1) - 1) :
             /\ j = 0 \/ text[j] = Plus
             /\ \A k \in (j + 1)..(i - 1) : text[k] = Space
      BY <3>1
    <3>3. j \in 0..(i - 1) /\ \A k \in (j + 1)..i : k = i \/ k \in (j + 1)..(i - 1)
      BY <2>3, <3>2
    <3>4. \A k \in (j + 1)..i : text[k] = Space
      BY <2>2, <3>2, <3>3
    <3> QED BY <2>2, <3>2, <3>3, <3>4
  <2> QED BY <2>3, <2>5, <2>6
<1>3. After(p)
  BY <1>2
<1> QED BY <1>3 DEF Trimmed

\* The letters of a text that is well joined are what stripOffer leaves of it.
LEMMA StripsJoins ==
    ASSUME NEW R, NEW text \in Seq(R), text # <<>>, WellJoined(text)
    PROVE  stripOffer(text) = Letters(text)
<1>1. DOMAIN text = 1..Len(text)
  OBVIOUS
<1>2. ASSUME NEW i \in DOMAIN text, text[i] = Plus
      PROVE  ~(i = 1 \/ i = Len(text) \/ text[i - 1] = Plus)
  <2>1. 1 < i /\ i < Len(text) /\ text[i - 1] \notin {Plus, Space}
    BY <1>2 DEF WellJoined
  <2> QED BY <1>1, <2>1
<1>3. ASSUME NEW i \in DOMAIN text, text[i] = Space PROVE Trimmed(text, i)
  BY <1>3, JoinsAreTrimmed
<1> QED BY <1>2, <1>3 DEF stripOffer

\* A letter in lower case says what it is.
LEMMA LowerTells ==
    /\ \A c : Lower(c) = HRP => c.tag = "hrp"
    /\ \A c : Lower(c) = One => c = One
    /\ \A c, r : Lower(c) = Data(r) => c.tag = "data" /\ c.record = r
<1>1. ASSUME NEW c, IsLetter(c), NEW d, d = [c EXCEPT !.upper = FALSE]
      PROVE  DOMAIN d = DOMAIN c /\ \A x \in DOMAIN d : x # "upper" => d[x] = c[x]
  BY <1>1
<1>2. ASSUME NEW c, Lower(c) = HRP PROVE c.tag = "hrp"
  <2>0. HRP.tag = "hrp" /\ "tag" \in DOMAIN HRP
    BY DEF HRP
  <2>1. CASE IsLetter(c)
    <3>1. HRP = [c EXCEPT !.upper = FALSE]
      BY <1>2, <2>1 DEF Lower
    <3>2. HRP["tag"] = c["tag"]
      BY <1>1, <2>0, <2>1, <3>1
    <3> QED BY <2>0, <3>2
  <2>2. CASE ~IsLetter(c)
    BY <1>2, <2>0, <2>2 DEF Lower
  <2> QED BY <2>1, <2>2
<1>3. ASSUME NEW c, Lower(c) = One PROVE c = One
  <2>0. One.tag = "one" /\ "tag" \in DOMAIN One
    BY DEF One
  <2>1. CASE IsLetter(c)
    <3>1. One = [c EXCEPT !.upper = FALSE]
      BY <1>3, <2>1 DEF Lower
    <3>2. One["tag"] = c["tag"]
      BY <1>1, <2>0, <2>1, <3>1
    <3> QED BY <2>0, <2>1, <3>2 DEF IsLetter
  <2>2. CASE ~IsLetter(c)
    BY <1>3, <2>2 DEF Lower
  <2> QED BY <2>1, <2>2
<1>4. ASSUME NEW c, NEW r, Lower(c) = Data(r)
      PROVE  c.tag = "data" /\ c.record = r
  <2>1. PICK d : d = Data(r)
    OBVIOUS
  <2>2. d.tag = "data" /\ d.record = r /\ "tag" \in DOMAIN d /\ "record" \in DOMAIN d
    BY <2>1 DEF Data
  <2>3. CASE IsLetter(c)
    <3>1. d = [c EXCEPT !.upper = FALSE]
      BY <1>4, <2>1, <2>3 DEF Lower
    <3>2. d["tag"] = c["tag"] /\ d["record"] = c["record"]
      BY <1>1, <2>2, <2>3, <3>1
    <3> QED BY <2>2, <3>2
  <2>4. CASE ~IsLetter(c)
    <3>1. c = d
      BY <1>4, <2>1, <2>4 DEF Lower
    <3> QED BY <2>2, <3>1
  <2> QED BY <2>3, <2>4
<1> QED BY <1>2, <1>3, <1>4

\* There are no letters in nothing.
LEMMA NoLetters == Letters(<<>>) = <<>>
<1>1. Letters(<<>>) \in Seq({})
  <2>1. <<>> \in Seq({})
    OBVIOUS
  <2> QED BY <2>1, LettersKept
<1> QED BY <1>1

\* One sequence after another.
LEMMA AfterEachOther ==
    ASSUME NEW Z, NEW z \in Seq(Z), NEW y \in Seq(Z), NEW x, x = z \o y
    PROVE  /\ x \in Seq(Z) /\ Len(x) = Len(z) + Len(y)
           /\ \A i \in 1..Len(z) : x[i] = z[i]
           /\ \A i \in 1..Len(y) : x[Len(z) + i] = y[i]
  OBVIOUS

\* The positions after the first two.
LEMMA LessTwo ==
    ASSUME NEW n \in Nat
    PROVE  \A i \in 3..(n + 2) : i - 2 \in 1..n /\ (i - 2) + 2 = i
  OBVIOUS

\* A text is read as the stream s: its letters are those of s, in one case.
SaysText(text, s) ==
    /\ WellJoined(text)
    /\ LET letters == Letters(text)
       IN  [i \in DOMAIN letters |-> Lower(letters[i])] = Text(s)

\* An offer string is read as it was written, however it was split and in
\* whichever case: stripOffer takes the joins away and nothing else, and
\* decodeBech32 finds the stream that was written.
THEOREM SplitsAreUndone ==
    ASSUME NEW R, NEW text \in Seq(R), NEW T, NEW s \in Seq(T), s # <<>>,
           SaysText(text, s)
    PROVE  ReadsAsOffer(stripOffer(text)) /\ StreamOf(stripOffer(text)) = s
<1>1. PICK n \in Nat : n = Len(s) /\ n > 0 /\ DOMAIN s = 1..n
                       /\ s = [i \in 1..n |-> s[i]]
  OBVIOUS
<1>2. PICK C : C = {text[i] : i \in DOMAIN text}
  OBVIOUS
<1>3. text \in Seq(C)
  BY <1>2
<1>4. PICK clean : clean = Letters(text)
  OBVIOUS
<1>5. clean \in Seq(C)
  BY <1>3, <1>4, LettersKept
<1>6. PICK low : low = [i \in DOMAIN clean |-> Lower(clean[i])]
  OBVIOUS
<1>7. low = Text(s)
  BY <1>4, <1>6 DEF SaysText
<1>8. DOMAIN low = 1..(n + 2) /\ low[1] = HRP /\ low[2] = One
      /\ \A i \in 1..n : low[i + 2] = Data(s[i])
  <2>1. PICK y : y = [i \in 1..n |-> Data(s[i])]
    OBVIOUS
  <2>2. PICK h : h = HRP
    OBVIOUS
  <2>3. PICK o : o = One
    OBVIOUS
  <2>4. PICK D : D = {y[i] : i \in 1..n}
    OBVIOUS
  <2>5. y = [i \in 1..n |-> y[i]] /\ \A i \in 1..n : y[i] \in D
    BY <2>1, <2>4
  <2>6. y \in Seq(D \cup {h, o}) /\ Len(y) = n
    BY <2>5
  <2>7. <<h, o>> \in Seq(D \cup {h, o}) /\ Len(<<h, o>>) = 2
    OBVIOUS
  <2>8. low = <<h, o>> \o y
    BY <1>1, <1>7, <2>1, <2>2, <2>3 DEF Text
  <2>9. DOMAIN low = 1..(n + 2) /\ low[1] = h /\ low[2] = o
        /\ \A i \in 1..n : low[i + 2] = y[i]
    <3>1. PICK z : z = <<h, o>>
      OBVIOUS
    <3>2. z \in Seq(D \cup {h, o}) /\ Len(z) = 2 /\ z[1] = h /\ z[2] = o
      BY <2>7, <3>1
    <3>3. low = z \o y
      BY <2>8, <3>1
    <3>4. /\ low \in Seq(D \cup {h, o}) /\ Len(low) = Len(z) + Len(y)
          /\ \A i \in 1..Len(z) : low[i] = z[i]
          /\ \A i \in 1..Len(y) : low[Len(z) + i] = y[i]
      <4>1. PICK Z : Z = D \cup {h, o}
        OBVIOUS
      <4>2. z \in Seq(Z) /\ y \in Seq(Z)
        BY <2>6, <3>2, <4>1
      <4> QED BY <3>3, <4>1, <4>2, AfterEachOther
    <3>5. DOMAIN low = 1..(n + 2)
      <4>1. Len(low) = n + 2
        BY <2>6, <3>2, <3>4
      <4> QED BY <3>4, <4>1
    <3>6. low[1] = z[1] /\ low[2] = z[2]
      BY <3>2, <3>4
    <3>7. \A i \in 1..n : low[2 + i] = y[i] /\ 2 + i = i + 2
      BY <2>6, <3>2, <3>4
    <3> QED BY <3>2, <3>5, <3>6, <3>7
  <2> QED BY <2>1, <2>2, <2>3, <2>9
<1>9. DOMAIN clean = 1..(n + 2) /\ Len(clean) = n + 2
      /\ \A i \in 1..(n + 2) : Lower(clean[i]) = low[i]
  BY <1>5, <1>6, <1>8
<1>10. clean[1].tag = "hrp" /\ clean[2] = One
  BY <1>8, <1>9, LowerTells
<1>11. ASSUME NEW i \in 1..n
       PROVE  clean[i + 2].tag = "data" /\ clean[i + 2].record = s[i]
  <2>1. i + 2 \in 1..(n + 2)
    OBVIOUS
  <2>2. Lower(clean[i + 2]) = Data(s[i])
    BY <1>8, <1>9, <2>1
  <2> QED BY <2>2, LowerTells
<1>12. \A i \in 3..(n + 2) : clean[i].tag = "data"
  <2>1. \A i \in 3..(n + 2) : i - 2 \in 1..n /\ (i - 2) + 2 = i
    BY LessTwo
  <2>2. ASSUME NEW i \in 3..(n + 2) PROVE clean[i].tag = "data"
    <3>1. PICK j \in 1..n : j + 2 = i
      BY <2>1, <2>2
    <3> QED BY <1>11, <3>1
  <2> QED BY <2>2
<1>13. \E upper \in BOOLEAN :
          \A i \in DOMAIN clean : IsLetter(clean[i]) => clean[i].upper = upper
  <2>1. PICK upper \in BOOLEAN :
           \A i \in DOMAIN text : IsLetter(text[i]) => text[i].upper = upper
    BY DEF SaysText, WellJoined
  <2>2. \A c \in C : IsLetter(c) => c.upper = upper
    BY <1>2, <2>1
  <2>3. \A i \in DOMAIN clean : clean[i] \in C
    BY <1>5
  <2> QED BY <2>2, <2>3
<1>14. ReadsAsOffer(clean)
  <2>1. Len(clean) > 2
    BY <1>1, <1>9
  <2> QED BY <1>9, <1>10, <1>12, <1>13, <2>1 DEF ReadsAsOffer
<1>15. StreamOf(clean) = s
  <2>1. StreamOf(clean) = [i \in 1..n |-> clean[i + 2].record]
    BY <1>9 DEF StreamOf
  <2> QED BY <1>1, <1>11, <2>1
<1>16. text # <<>>
  BY <1>4, <1>9, NoLetters
<1>17. stripOffer(text) = clean
  BY <1>4, <1>16, StripsJoins DEF SaysText
<1> QED BY <1>14, <1>15, <1>17

-----------------------------------------------------------------------------
(***************************************************************************)
(* What is made is sound, and what is read says so.                        *)
(***************************************************************************)

\* Values that are sound in fields of which kind.
LEMMA SoundValues ==
    /\ \A kind : Sound(kind, Unset)
    /\ \A v : Sound("bytes", v) /\ Sound("signature", v) /\ Sound("time", v)
    /\ \A v : v # <<Num(0)>> => Sound("hash", v) /\ Sound("features", v)
                                /\ Sound("uint64", v)
    /\ \A n : Sound("tu64", Value(n))
    /\ \A n \in Nat : Sound("duration", Value(n))
    /\ \A id, odd : Sound("xonly", <<Key(id, odd)>>) /\ Sound("point", <<Key(id, odd)>>)
<1>1. \A kind : Sound(kind, Unset)
  BY DEF Sound
<1>2. \A v : Sound("bytes", v) /\ Sound("signature", v) /\ Sound("time", v)
  BY DEF Sound
<1>3. \A v : v # <<Num(0)>> => Sound("hash", v) /\ Sound("features", v)
                               /\ Sound("uint64", v)
  BY DEF Sound
<1>4. \A n : n # 0 => Value(n) = <<Num(n)>> /\ Value(n)[1].n = n
  BY DEF Value, Num
<1>5. ASSUME NEW n PROVE Sound("tu64", Value(n))
  <2>1. CASE n = 0
    BY <1>1, <2>1 DEF Value
  <2>2. CASE n # 0
    BY <1>4, <2>2 DEF Sound
  <2> QED BY <2>1, <2>2
<1>6. ASSUME NEW n \in Nat PROVE Sound("duration", Value(n))
  <2>1. CASE n = 0
    BY <1>1, <2>1 DEF Value
  <2>2. CASE n # 0
    BY <1>4, <2>2 DEF Sound
  <2> QED BY <2>1, <2>2
<1>7. ASSUME NEW id, NEW odd
      PROVE  Sound("xonly", <<Key(id, odd)>>) /\ Sound("point", <<Key(id, odd)>>)
  <2>1. PICK v : v = Key(id, odd)
    OBVIOUS
  <2>2. v.id = id /\ v.odd = odd /\ v.tag = "key"
    BY <2>1 DEF Key
  <2>3. v = Key(v.id, v.odd) /\ <<v>>[1] = v
    BY <2>1, <2>2
  <2>4. Sound("xonly", <<v>>) /\ Sound("point", <<v>>)
    BY <2>2, <2>3 DEF Sound
  <2> QED BY <2>1, <2>4
<1> QED BY <1>1, <1>2, <1>3, <1>5, <1>6, <1>7

\* The fields of this library's offers are sound.
LEMMA SoundOffers ==
    ASSUME NEW o \in Offers, o.foreign = {}, NEW f, f = o.fields,
           NEW t \in DOMAIN OfferSchema
    PROVE  Sound(OfferSchema[t], f[t])
<1>1. PICK key : key = f[nodeIDType]
  OBVIOUS
<1>2. /\ f[chainType] # <<Num(0)>> /\ f[featuresType] # <<Num(0)>>
      /\ \A c \in {amountType, quantityMinType, quantityMaxType} :
            f[c] = Value(Number(f[c]))
      /\ f[expiryType] # Unset => f[expiryType] = <<Num(Number(f[expiryType]))>>
      /\ key # Unset => key = <<Key(key[1].id, key[1].odd)>>
  BY <1>1, OwnOffersAssumption
<1>3. \/ t = chainType /\ OfferSchema[t] = "hash"
      \/ t \in {amountType, quantityMinType, quantityMaxType}
             /\ OfferSchema[t] = "tu64"
      \/ OfferSchema[t] \in {"bytes", "signature"}
      \/ t = featuresType /\ OfferSchema[t] = "features"
      \/ t = expiryType /\ OfferSchema[t] = "expiry"
      \/ t = nodeIDType /\ OfferSchema[t] = "xonly"
  BY DEF OfferSchema, chainType, amountType, descriptionType, featuresType,
      expiryType, issuerType, quantityMinType, quantityMaxType, nodeIDType,
      signatureType
<1>4. CASE t = chainType /\ OfferSchema[t] = "hash"
  BY <1>2, <1>4, SoundValues
<1>5. CASE t \in {amountType, quantityMinType, quantityMaxType}
           /\ OfferSchema[t] = "tu64"
  <2>1. PICK n : n = Number(f[t])
    OBVIOUS
  <2>2. f[t] = Value(n)
    BY <1>2, <1>5, <2>1
  <2> QED BY <1>5, <2>2, SoundValues
<1>6. CASE OfferSchema[t] \in {"bytes", "signature"}
  BY <1>6, SoundValues
<1>7. CASE t = featuresType /\ OfferSchema[t] = "features"
  BY <1>2, <1>7, SoundValues
<1>8. CASE t = expiryType /\ OfferSchema[t] = "expiry"
  <2>1. CASE f[t] = Unset
    BY <2>1, SoundValues
  <2>2. CASE f[t] # Unset
    <3>1. PICK n : n = Number(f[t])
      OBVIOUS
    <3>2. f[t] = <<Num(n)>>
      BY <1>2, <1>8, <2>2, <3>1
    <3>3. f[t][1].n = n
      BY <3>2 DEF Num
    <3> QED BY <1>8, <3>2, <3>3 DEF Sound
  <2> QED BY <2>1, <2>2
<1>9. CASE t = nodeIDType /\ OfferSchema[t] = "xonly"
  <2>1. CASE f[t] = Unset
    BY <2>1, SoundValues
  <2>2. CASE f[t] # Unset
    <3>1. PICK id, odd : f[t] = <<Key(id, odd)>>
      BY <1>1, <1>2, <1>9, <2>2
    <3> QED BY <1>9, <3>1, SoundValues
  <2> QED BY <2>1, <2>2
<1> QED BY <1>3, <1>4, <1>5, <1>6, <1>7, <1>8, <1>9

\* Signing leaves the other fields as they were.
LEMMA SignedSound ==
    ASSUME NEW k \in Artefacts, NEW f, f = [t \in DOMAIN Schema(k) |-> f[t]],
           NEW root, NEW a, a = [fields |-> f, root |-> root],
           NEW id, NEW purpose,
           NEW b, b = a \/ b = Signed(a, signatureType, id, purpose),
           NEW U, k # "offer" \/ U = {} =>
                     \A t \in DOMAIN Schema(k) : Sound(Schema(k)[t], f[t]),
           NEW m, m = [fields |-> b.fields, root |-> b.root, foreign |-> U]
    PROVE  SoundFields(k, m)
<1>1. m.fields = b.fields /\ m.foreign = U
  OBVIOUS
<1>2. PICK D : D = DOMAIN Schema(k)
  OBVIOUS
<1>3. signatureType \in D /\ Schema(k)[signatureType] = "signature"
  BY <1>2, Schemas DEF IsSchema
<1>4. \A t \in D : t # signatureType => b.fields[t] = f[t]
  <2>1. CASE b = a
    BY <2>1
  <2>2. CASE b = Signed(a, signatureType, id, purpose)
    <3>1. SignedAs(b, f, root, D, id, purpose)
      BY <1>2, <1>3, <2>2, SignedFields
    <3> QED BY <3>1 DEF SignedAs
  <2> QED BY <2>1, <2>2
<1>5. ASSUME k # "offer" \/ U = {}, NEW t \in D
      PROVE  Sound(Schema(k)[t], b.fields[t])
  <2>1. CASE t = signatureType
    BY <1>3, <2>1, SoundValues
  <2>2. CASE t # signatureType
    BY <1>2, <1>4, <1>5, <2>2
  <2> QED BY <2>1, <2>2
<1> QED BY <1>1, <1>2, <1>5 DEF SoundFields

\* Sending a sound artefact keeps the invariant about reading.
LEMMA SendReadStep ==
    ASSUME IndInv, ReadInv, NEW k \in Artefacts, NEW a, NEW foreign, NEW data,
           Sends(k, a, foreign, data),
           SoundFields(k, [fields |-> a.fields, root |-> a.root,
                           foreign |-> foreign])
    PROVE  ReadInv'
<1>1. PICK m : m = [fields |-> a.fields, root |-> a.root, foreign |-> foreign]
  OBVIOUS
<1>2. m # NotSent
  BY <1>1, SentSomething
<1>3. PICK s : s = sent
  OBVIOUS
<1>4. PICK t : t = sent'
  OBVIOUS
<1>5. PICK g : g = got
  OBVIOUS
<1>6. PICK x : x = transit
  OBVIOUS
<1>7. PICK y : y = transit'
  OBVIOUS
<1>8. /\ s[k] = NotSent /\ s = [j \in Artefacts |-> s[j]]
      /\ t = [s EXCEPT ![k] = m] /\ got' = g
      /\ y = [kind |-> k, data |-> data]
  BY <1>1, <1>3, <1>4, <1>5, <1>7 DEF Sends, IndInv
<1>9. t[k] = m /\ (\A j \in Artefacts : j # k => t[j] = s[j]) /\ y.kind = k
  BY <1>8
<1>10. \A j \in Artefacts : ReadOK(s, g, x, j)
  BY <1>3, <1>5, <1>6 DEF ReadInv
<1>11. ASSUME NEW j \in Artefacts PROVE ReadOK(t, g, y, j)
  <2>1. CASE j = k
    <3>1. g[k] = NotRead
      BY <1>8, <1>10 DEF ReadOK
    <3>2. ~NotRead.ok
      BY DEF NotRead
    <3>3. SoundFields(k, t[k])
      BY <1>1, <1>9
    <3> QED BY <2>1, <3>1, <3>2, <3>3 DEF ReadOK
  <2>2. CASE j # k
    BY <1>9, <1>10, <2>2 DEF ReadOK
  <2> QED BY <2>1, <2>2
<1> QED BY <1>4, <1>7, <1>8, <1>11 DEF ReadInv

\* An offer.
LEMMA IssueReadStep ==
    ASSUME IndInv, ReadInv, NEW offer \in Offers, IssueOffer(offer)
    PROVE  ReadInv'
<1>1. PICK f : f = offer.fields
  OBVIOUS
<1>2. PICK U : U = offer.foreign
  OBVIOUS
<1>3. PICK root : root = MerkleRoot(records(OfferSchema, f) \cup U)
  OBVIOUS
<1>4. PICK a : a = [fields |-> f, root |-> root]
  OBVIOUS
<1>5. PICK b : b = IF offer.sign THEN Signed(a, signatureType, Issuer, "offer") ELSE a
  OBVIOUS
<1>6. PICK data : data = Text(SortRecords(records(OfferSchema, b.fields) \cup U))
  OBVIOUS
<1>7. PICK k : k = "offer"
  OBVIOUS
<1>8. Sends(k, b, U, data)
  BY <1>1, <1>2, <1>3, <1>4, <1>5, <1>6, <1>7 DEF IssueOffer
<1>9. k \in Artefacts /\ Schema(k) = OfferSchema
  BY <1>7 DEF Artefacts, Schema
<1>10. f = [t \in DOMAIN Schema(k) |-> f[t]]
  BY <1>1, <1>9, OffersAssumption
<1>11. k # "offer" \/ U = {} =>
          \A t \in DOMAIN Schema(k) : Sound(Schema(k)[t], f[t])
  BY <1>1, <1>2, <1>7, <1>9, SoundOffers
<1>12. PICK id : id = Issuer
  OBVIOUS
<1>13. PICK purpose : purpose = "offer"
  OBVIOUS
<1>14. b = a \/ b = Signed(a, signatureType, id, purpose)
  BY <1>5, <1>12, <1>13
<1>15. PICK m : m = [fields |-> b.fields, root |-> b.root, foreign |-> U]
  OBVIOUS
<1>16. SoundFields(k, m)
  BY <1>4, <1>9, <1>10, <1>11, <1>14, <1>15, SignedSound
<1> QED BY <1>8, <1>9, <1>15, <1>16, SendReadStep

\* The fields of a request are sound.
LEMMA SoundRequests ==
    ASSUME NEW o, o.fields[chainType] # <<Num(0)>>,
           o.fields[featuresType] # <<Num(0)>>, o.root # Num(0),
           NEW amount, NEW quantity, NEW note,
           NEW f, f = NewInvoiceRequest(o, amount, quantity, payerKey, note).fields,
           NEW t \in DOMAIN InvoiceRequestSchema
    PROVE  Sound(InvoiceRequestSchema[t], f[t])
<1>1. f = [c \in DOMAIN InvoiceRequestSchema |->
            CASE c = invReqChainType     -> o.fields[chainType]
              [] c = invReqOfferIDType   -> <<o.root>>
              [] c = invReqAmountType    -> Value(amount)
              [] c = invReqFeaturesType  -> o.fields[featuresType]
              [] c = invReqQuantityType  -> Value(quantity)
              [] c = invReqPayerKeyType  -> <<payerKey>>
              [] c = invReqPayerNoteType -> note
              [] OTHER                   -> Unset]
  BY DEF NewInvoiceRequest
<1>2. \/ t = invReqChainType /\ InvoiceRequestSchema[t] = "hash"
      \/ t = invReqOfferIDType /\ InvoiceRequestSchema[t] = "hash"
      \/ t = invReqAmountType /\ InvoiceRequestSchema[t] = "tu64"
      \/ t = invReqQuantityType /\ InvoiceRequestSchema[t] = "tu64"
      \/ t = invReqFeaturesType /\ InvoiceRequestSchema[t] = "features"
      \/ t = invReqPayerKeyType /\ InvoiceRequestSchema[t] = "xonly"
      \/ InvoiceRequestSchema[t] \in {"bytes", "signature"}
  BY DEF InvoiceRequestSchema, invReqChainType, invReqOfferIDType,
      invReqAmountType, invReqFeaturesType, invReqQuantityType,
      invReqPayerKeyType, invReqPayerNoteType, invReqPayerInfoType,
      invReqSignatureType
<1>6. {invReqChainType, invReqOfferIDType, invReqAmountType, invReqFeaturesType,
       invReqQuantityType, invReqPayerKeyType} \subseteq DOMAIN InvoiceRequestSchema
  BY DEF InvoiceRequestSchema
<1>3. /\ f[invReqChainType] = o.fields[chainType]
      /\ f[invReqOfferIDType] = <<o.root>>
      /\ f[invReqAmountType] = Value(amount)
      /\ f[invReqFeaturesType] = o.fields[featuresType]
      /\ f[invReqQuantityType] = Value(quantity)
      /\ f[invReqPayerKeyType] = <<payerKey>>
  BY <1>1, <1>6 DEF invReqChainType, invReqOfferIDType, invReqAmountType,
      invReqFeaturesType, invReqQuantityType, invReqPayerKeyType,
      invReqPayerNoteType
<1>4. <<o.root>> # <<Num(0)>>
  OBVIOUS
<1>5. Sound("xonly", <<payerKey>>)
  BY SoundValues DEF payerKey
<1> QED BY <1>2, <1>3, <1>4, <1>5, SoundValues

\* A request.
LEMMA RequestReadStep ==
    ASSUME IndInv, ReadInv, NEW amount \in Amounts, NEW quantity \in Quantities,
           NEW note, RequestInvoice(amount, quantity, note)
    PROVE  ReadInv'
<1>1. PICK o : o = got["offer"]
  OBVIOUS
<1>2. PICK k : k = "request"
  OBVIOUS
<1>3. k \in Artefacts /\ Schema(k) = InvoiceRequestSchema
      /\ "offer" \in Artefacts /\ Schema("offer") = OfferSchema
  BY <1>2 DEF Artefacts, Schema
<1>4. PICK a : a = NewInvoiceRequest(o, amount, quantity, payerKey, note)
  OBVIOUS
<1>5. PICK f : f = a.fields
  OBVIOUS
<1>6. PICK root : root = a.root
  OBVIOUS
<1>7. a = [fields |-> f, root |-> root] /\ f = [t \in DOMAIN Schema(k) |-> f[t]]
  BY <1>3, <1>4, <1>5, <1>6 DEF NewInvoiceRequest
<1>8. PICK b : b = Signed(a, signatureType, Payer, "invoice_request")
  OBVIOUS
<1>9. PICK data : data = EncodeInvoiceRequest(b)
  OBVIOUS
<1>10. PICK U : U = {}
  OBVIOUS
<1>11. invReqSignatureType = signatureType
  BY DEF invReqSignatureType, signatureType
<1>12. o.ok /\ Sends(k, b, U, data)
  BY <1>1, <1>2, <1>4, <1>8, <1>9, <1>10, <1>11 DEF RequestInvoice
<1>13. o.fields[chainType] # <<Num(0)>> /\ o.fields[featuresType] # <<Num(0)>>
  <2>1. GotOK(sent, "offer", o)
    BY <1>1, <1>3 DEF IndInv
  <2>2. \A t \in DOMAIN OfferSchema :
           OfferSchema[t] \in {"hash", "features", "tu64", "uint64"}
               => o.fields[t] # <<Num(0)>>
    BY <1>3, <1>12, <2>1 DEF GotOK
  <2>3. {chainType, featuresType} \subseteq DOMAIN OfferSchema
        /\ OfferSchema[chainType] = "hash" /\ OfferSchema[featuresType] = "features"
    BY DEF OfferSchema, chainType, amountType, descriptionType, featuresType,
        expiryType, issuerType, quantityMinType, quantityMaxType, nodeIDType,
        signatureType
  <2> QED BY <2>2, <2>3
<1>14. o.root # Num(0)
  <2>1. ReadOK(sent, got, transit, "offer")
    BY <1>3 DEF ReadInv
  <2> QED BY <1>1, <1>12, <2>1 DEF ReadOK
<1>15. k # "offer" \/ U = {} =>
          \A t \in DOMAIN Schema(k) : Sound(Schema(k)[t], f[t])
  BY <1>3, <1>4, <1>5, <1>13, <1>14, SoundRequests
<1>16. PICK id : id = Payer
  OBVIOUS
<1>17. PICK purpose : purpose = "invoice_request"
  OBVIOUS
<1>18. b = a \/ b = Signed(a, signatureType, id, purpose)
  BY <1>8, <1>16, <1>17
<1>19. PICK m : m = [fields |-> b.fields, root |-> b.root, foreign |-> U]
  OBVIOUS
<1>20. SoundFields(k, m)
  BY <1>3, <1>7, <1>15, <1>18, <1>19, SignedSound
<1> QED BY <1>3, <1>12, <1>19, <1>20, SendReadStep

\* A key that is written as a key is one.
LEMMA KeyTells ==
    ASSUME NEW c, NEW id, NEW odd, XOnly(c) = XOnly(Key(id, odd))
    PROVE  c.tag = "key"
<1>1. PICK d : d = Key(id, odd)
  OBVIOUS
<1>2. d.tag = "key" /\ "tag" \in DOMAIN d
  BY <1>1 DEF Key
<1>3. ASSUME NEW e, NEW h, h = [e EXCEPT !.odd = FALSE]
      PROVE  DOMAIN h = DOMAIN e /\ \A x \in DOMAIN e : x # "odd" => h[x] = e[x]
  BY <1>3
<1>4. PICK h : h = XOnly(c)
  OBVIOUS
<1>5. h = [c EXCEPT !.odd = FALSE] /\ h = [d EXCEPT !.odd = FALSE]
  BY <1>1, <1>4 DEF XOnly
<1>6. DOMAIN h = DOMAIN c /\ \A x \in DOMAIN c : x # "odd" => h[x] = c[x]
  BY <1>3, <1>5
<1>7. DOMAIN h = DOMAIN d /\ \A x \in DOMAIN d : x # "odd" => h[x] = d[x]
  BY <1>3, <1>5
<1>8. c["tag"] = d["tag"]
  BY <1>2, <1>6, <1>7
<1> QED BY <1>2, <1>8

\* What can be copied from a request that was read into an invoice.
Copied(q) ==
    /\ \A t \in {invChainType, invOfferIDType, invFeatType} : q[t] # <<Num(0)>>
    /\ \A t \in {invAmountType, invQuantityType} : Sound("tu64", q[t])
    /\ Sound("point", q[invPayerKeyType])

\* The fields of an invoice are sound.
LEMMA SoundInvoices ==
    ASSUME NEW q, Copied(q), NEW o, NEW expiry \in Nat,
           NEW t \in DOMAIN InvoiceSchema
    PROVE  Sound(InvoiceSchema[t], InvoiceField(q, o, expiry, t))
<1>1. \/ t \in {invChainType, invOfferIDType} /\ InvoiceSchema[t] = "hash"
      \/ t = invPaymentHashType /\ InvoiceSchema[t] = "hash"
      \/ t \in {invAmountType, invQuantityType} /\ InvoiceSchema[t] = "tu64"
      \/ t = invFeatType /\ InvoiceSchema[t] = "features"
      \/ t = invNodeIDType /\ InvoiceSchema[t] = "point"
      \/ t = invPayerKeyType /\ InvoiceSchema[t] = "point"
      \/ t = invRelativeExpiryType /\ InvoiceSchema[t] = "duration"
      \/ t = inCLTVType /\ InvoiceSchema[t] = "uint64"
      \/ InvoiceSchema[t] \in {"bytes", "time", "signature"}
  BY DEF InvoiceSchema, invChainType, invOfferIDType, invAmountType,
      invDescType, invFeatType, invNodeIDType, invQuantityType,
      invPayerKeyType, invPayerNoteType, invCreatedAtType,
      invPaymentHashType, invRelativeExpiryType, inCLTVType,
      invPayerInfoType, invSigType
<1>2. ASSUME NEW c \in {invChainType, invOfferIDType, invAmountType, invFeatType,
                        invQuantityType, invPayerKeyType}
      PROVE  InvoiceField(q, o, expiry, c) = q[c]
  <2>1. c \notin {invDescType, invNodeIDType, invCreatedAtType, invPaymentHashType,
                  invRelativeExpiryType, inCLTVType}
    BY DEF invChainType, invOfferIDType, invAmountType,
        invFeatType, invQuantityType, invPayerKeyType, invPayerNoteType,
        invPayerInfoType, invDescType, invNodeIDType, invCreatedAtType,
        invPaymentHashType, invRelativeExpiryType, inCLTVType
  <2> QED BY <2>1 DEF InvoiceField
<1>15. InvoiceField(q, o, expiry, invNodeIDType) = <<issuerKey>>
  BY DEF InvoiceField, invChainType, invOfferIDType, invAmountType,
      invFeatType, invQuantityType, invPayerKeyType, invPayerNoteType,
      invPayerInfoType, invDescType, invNodeIDType, invCreatedAtType,
      invPaymentHashType, invRelativeExpiryType, inCLTVType
<1>16. InvoiceField(q, o, expiry, invPaymentHashType)
           = <<[tag |-> "payment hash"]>>
  <2>1. PICK c : c = invPaymentHashType
    OBVIOUS
  <2>2. c \notin {invChainType, invOfferIDType, invAmountType, invFeatType,
                  invQuantityType, invPayerKeyType, invPayerNoteType,
                  invPayerInfoType, invDescType, invNodeIDType, invCreatedAtType,
                  invRelativeExpiryType, inCLTVType}
    BY <2>1 DEF invChainType, invOfferIDType, invAmountType,
        invFeatType, invQuantityType, invPayerKeyType, invPayerNoteType,
        invPayerInfoType, invDescType, invNodeIDType, invCreatedAtType,
        invPaymentHashType, invRelativeExpiryType, inCLTVType
  <2>3. InvoiceField(q, o, expiry, c) = <<[tag |-> "payment hash"]>>
    BY <2>1, <2>2 DEF InvoiceField
  <2> QED BY <2>1, <2>3
<1>17. InvoiceField(q, o, expiry, invRelativeExpiryType) = Value(expiry)
  BY DEF InvoiceField, invChainType, invOfferIDType, invAmountType,
      invFeatType, invQuantityType, invPayerKeyType, invPayerNoteType,
      invPayerInfoType, invDescType, invNodeIDType, invCreatedAtType,
      invPaymentHashType, invRelativeExpiryType, inCLTVType
<1>18. InvoiceField(q, o, expiry, inCLTVType) = Value(1)
  BY DEF InvoiceField, invChainType, invOfferIDType, invAmountType,
      invFeatType, invQuantityType, invPayerKeyType, invPayerNoteType,
      invPayerInfoType, invDescType, invNodeIDType, invCreatedAtType,
      invPaymentHashType, invRelativeExpiryType, inCLTVType
<1>3. Sound("point", <<issuerKey>>)
  BY SoundValues DEF issuerKey
<1>4. <<[tag |-> "payment hash"]>> # <<Num(0)>>
  <2>1. PICK p : p = [tag |-> "payment hash"]
    OBVIOUS
  <2>2. PICK z : z = Num(0)
    OBVIOUS
  <2>3. p.tag = "payment hash" /\ z.tag = "num"
    BY <2>1, <2>2 DEF Num
  <2>4. p # z
    BY <2>3
  <2>5. <<p>> # <<z>>
    BY <2>4
  <2> QED BY <2>1, <2>2, <2>5
<1>5. Value(1) # <<Num(0)>>
  <2>1. Value(1) = <<Num(1)>> /\ Num(1).n = 1 /\ Num(0).n = 0
    BY DEF Value, Num
  <2>2. Num(1) # Num(0)
    BY <2>1
  <2> QED BY <2>1, <2>2
<1>6. CASE t \in {invChainType, invOfferIDType} /\ InvoiceSchema[t] = "hash"
  BY <1>2, <1>6, SoundValues DEF Copied
<1>7. CASE t = invPaymentHashType /\ InvoiceSchema[t] = "hash"
  BY <1>16, <1>4, <1>7, SoundValues
<1>8. CASE t \in {invAmountType, invQuantityType} /\ InvoiceSchema[t] = "tu64"
  BY <1>2, <1>8 DEF Copied
<1>9. CASE t = invFeatType /\ InvoiceSchema[t] = "features"
  BY <1>2, <1>9, SoundValues DEF Copied
<1>10. CASE t = invNodeIDType /\ InvoiceSchema[t] = "point"
  BY <1>15, <1>3, <1>10
<1>11. CASE t = invPayerKeyType /\ InvoiceSchema[t] = "point"
  BY <1>2, <1>11 DEF Copied
<1>12. CASE t = invRelativeExpiryType /\ InvoiceSchema[t] = "duration"
  BY <1>17, <1>12, SoundValues
<1>13. CASE t = inCLTVType /\ InvoiceSchema[t] = "uint64"
  BY <1>18, <1>5, <1>13, SoundValues
<1>14. CASE InvoiceSchema[t] \in {"bytes", "time", "signature"}
  BY <1>14, SoundValues
<1> QED BY <1>1, <1>6, <1>7, <1>8, <1>9, <1>10, <1>11, <1>12, <1>13, <1>14

\* A request that was accepted can be copied: its signature tells that its
\* fields are the payer's.
LEMMA RequestCopied ==
    ASSUME NEW s, NEW g, NEW x, \A j \in Artefacts : SentOK(s, j),
           GotOK(s, "request", g["request"]), RequestOK(s, g),
           ReadOK(s, g, x, "request"), g["request"].ok
    PROVE  Copied(g["request"].fields)
<1>1. PICK q : q = g["request"].fields
  OBVIOUS
<1>2. "request" \in Artefacts /\ Schema("request") = InvoiceRequestSchema
  BY DEF Artefacts, Schema
<1>3. q[signatureType] # Unset
  <2>1. ValidateInvoiceRequest(g["request"])
    BY DEF GotOK, Validate
  <2>2. invReqSignatureType = signatureType
    BY DEF invReqSignatureType, signatureType
  <2> QED BY <1>1, <2>1, <2>2 DEF ValidateInvoiceRequest
<1>4. s["request"] # NotSent /\ g["request"].root = s["request"].root
  BY <1>1, <1>2, <1>3, SignatureTells
<1>5. PICK r : r = s["request"].fields
  OBVIOUS
<1>6. \A t \in DOMAIN InvoiceRequestSchema \ {signatureType} :
         /\ Shown("request", q, t) = Shown("request", r, t)
         /\ q[t] # Unset => r[t] # Unset
  <2>1. \A t \in DOMAIN InvoiceRequestSchema \ {signatureType} :
           Shown("request", q, t) = Shown("request", r, t)
    BY <1>1, <1>2, <1>4, <1>5 DEF GotOK
  <2>2. \A t \in DOMAIN InvoiceRequestSchema \ {signatureType} :
           q[t] # Unset => r[t] # Unset
    BY <1>1, <1>2, <1>4, <1>5 DEF ReadOK, SetIn
  <2> QED BY <2>1, <2>2
<1>7. \A t \in DOMAIN InvoiceRequestSchema : Sound(InvoiceRequestSchema[t], r[t])
  BY <1>2, <1>4, <1>5 DEF ReadOK, SoundFields
<1>8. /\ {invChainType, invOfferIDType, invFeatType, invAmountType,
          invQuantityType, invPayerKeyType}
             \subseteq DOMAIN InvoiceRequestSchema \ {signatureType}
      /\ InvoiceRequestSchema[invChainType] = "hash"
      /\ InvoiceRequestSchema[invOfferIDType] = "hash"
      /\ InvoiceRequestSchema[invFeatType] = "features"
      /\ InvoiceRequestSchema[invAmountType] = "tu64"
      /\ InvoiceRequestSchema[invQuantityType] = "tu64"
      /\ InvoiceRequestSchema[invPayerKeyType] = "xonly"
  BY DEF InvoiceRequestSchema, invReqChainType, invReqOfferIDType,
      invReqAmountType, invReqFeaturesType, invReqQuantityType,
      invReqPayerKeyType, invReqPayerNoteType, invReqPayerInfoType,
      invReqSignatureType, signatureType, invChainType, invOfferIDType,
      invAmountType, invFeatType, invQuantityType, invPayerKeyType
<1>9. \A t \in {invChainType, invOfferIDType, invFeatType} : q[t] # <<Num(0)>>
  <2>1. \A t \in DOMAIN InvoiceRequestSchema :
           InvoiceRequestSchema[t] \in {"hash", "features", "tu64", "uint64"}
               => q[t] # <<Num(0)>>
    BY <1>1, <1>2 DEF GotOK
  <2> QED BY <1>8, <2>1
<1>10. ASSUME NEW t \in {invAmountType, invQuantityType}
       PROVE  Sound("tu64", q[t])
  <2>1. t \in DOMAIN InvoiceRequestSchema \ {signatureType}
        /\ InvoiceRequestSchema[t] = "tu64"
    BY <1>8
  <2>2. Number(q[t]) = Number(r[t])
    BY <1>2, <1>6, <2>1, ShownNumber
  <2>3. ASSUME q[t] # Unset PROVE q[t][1].n # 0
    <3>1. r[t] # Unset
      BY <1>6, <2>1, <2>3
    <3>2. r[t][1].n # 0
      BY <1>7, <2>1, <3>1 DEF Sound
    <3> QED BY <2>2, <2>3, <3>1, <3>2 DEF Number
  <2> QED BY <2>3 DEF Sound
<1>11. Sound("point", q[invPayerKeyType])
  <2>1. PICK t : t = invPayerKeyType
    OBVIOUS
  <2>2. t \in DOMAIN InvoiceRequestSchema \ {signatureType}
        /\ InvoiceRequestSchema[t] = "xonly"
    BY <1>8, <2>1
  <2>3. ASSUME q[t] # Unset PROVE q[t][1].tag = "key"
    <3>1. r[t] # Unset /\ Shown("request", q, t) = Shown("request", r, t)
      BY <1>6, <2>2, <2>3
    <3>2. Shown("request", q, t) = <<XOnly(q[t][1])>>
          /\ Shown("request", r, t) = <<XOnly(r[t][1])>>
      BY <1>2, <2>2, <2>3, <3>1 DEF Shown, Write
    <3>3. XOnly(q[t][1]) = XOnly(r[t][1])
      BY <3>1, <3>2
    <3>4. PICK id, odd : r[t][1] = Key(id, odd)
      BY <1>7, <2>2, <3>1 DEF Sound
    <3> QED BY <3>3, <3>4, KeyTells
  <2> QED BY <2>1, <2>3 DEF Sound
<1> QED BY <1>1, <1>9, <1>10, <1>11 DEF Copied

\* An invoice.
LEMMA InvoiceReadStep ==
    ASSUME IndInv, ReadInv, NEW expiry \in Expiries, NEW sign \in BOOLEAN,
           SendInvoice(expiry, sign)
    PROVE  ReadInv'
<1>1. PICK q : q = got["request"].fields
  OBVIOUS
<1>2. PICK o : o = sent["offer"].fields
  OBVIOUS
<1>3. PICK k : k = "invoice"
  OBVIOUS
<1>4. k \in Artefacts /\ Schema(k) = InvoiceSchema /\ "request" \in Artefacts
  BY <1>3 DEF Artefacts, Schema
<1>5. PICK f : f = [t \in DOMAIN InvoiceSchema |-> InvoiceField(q, o, expiry, t)]
  OBVIOUS
<1>6. PICK root : root = MerkleRoot(records(InvoiceSchema, f))
  OBVIOUS
<1>7. PICK a : a = [fields |-> f, root |-> root]
  OBVIOUS
<1>8. invSigType = signatureType
  BY DEF invSigType, signatureType
<1>9. PICK b : b = IF sign THEN Signed(a, signatureType, Issuer, "invoice") ELSE a
  OBVIOUS
<1>10. PICK data : data = EncodeInvoice(b)
  OBVIOUS
<1>11. PICK U : U = {}
  OBVIOUS
<1>12. got["request"].ok /\ Sends(k, b, U, data)
  BY <1>1, <1>2, <1>3, <1>5, <1>6, <1>7, <1>8, <1>9, <1>10, <1>11 DEF SendInvoice
<1>13. Copied(q)
  <2>1. PICK s : s = sent
    OBVIOUS
  <2>2. PICK g : g = got
    OBVIOUS
  <2>3. PICK x : x = transit
    OBVIOUS
  <2>4. /\ \A j \in Artefacts : SentOK(s, j)
        /\ GotOK(s, "request", g["request"]) /\ RequestOK(s, g)
    BY <1>4, <2>1, <2>2 DEF IndInv
  <2>5. ReadOK(s, g, x, "request") /\ g["request"].ok
    BY <1>4, <1>12, <2>1, <2>2, <2>3 DEF ReadInv
  <2> QED BY <1>1, <2>2, <2>4, <2>5, RequestCopied
<1>14. expiry \in Nat
  BY RequestsAssumption
<1>15. k # "offer" \/ U = {} =>
          \A t \in DOMAIN Schema(k) : Sound(Schema(k)[t], f[t])
  BY <1>4, <1>5, <1>13, <1>14, SoundInvoices
<1>16. f = [t \in DOMAIN Schema(k) |-> f[t]]
  BY <1>4, <1>5
<1>17. PICK id : id = Issuer
  OBVIOUS
<1>18. PICK purpose : purpose = "invoice"
  OBVIOUS
<1>19. b = a \/ b = Signed(a, signatureType, id, purpose)
  BY <1>9, <1>17, <1>18
<1>20. PICK m : m = [fields |-> b.fields, root |-> b.root, foreign |-> U]
  OBVIOUS
<1>21. SoundFields(k, m)
  BY <1>4, <1>7, <1>15, <1>16, <1>19, <1>20, SignedSound
<1> QED BY <1>4, <1>12, <1>20, <1>21, SendReadStep

\* A stream that can be decoded has a root.
LEMMA DecodedHasRoot ==
    ASSUME NEW schema, NEW stream, NEW last,
           NEW a, a = Decode(schema, stream, last), a.ok
    PROVE  a.root # ErrNoTLVs
<1>1. PICK known : known = Types(stream) \cap DOMAIN schema
  OBVIOUS
<1>2. PICK f : f = [t \in DOMAIN schema |->
                      IF t \in known THEN Read(schema[t], BytesOf(stream, t))
                      ELSE Unset]
  OBVIOUS
<1>3. PICK root : root = decodeMerkleRoot(schema, f, ParsedTypes(schema, stream), last)
  OBVIOUS
<1>4. a = IF \/ ~Canonical(stream) \/ UnknownEven(schema, stream)
             \/ \E t \in known : ~Readable(schema[t], BytesOf(stream, t))
             \/ root = ErrNoTLVs
          THEN Failed
          ELSE [ok |-> TRUE, fields |-> f, root |-> root]
  BY <1>1, <1>2, <1>3 DEF Decode
<1>5. ~Failed.ok
  BY DEF Failed
<1>6. a = [ok |-> TRUE, fields |-> f, root |-> root] /\ root # ErrNoTLVs
  BY <1>4, <1>5
<1> QED BY <1>6

\* What the root of an artefact that was read tells.
RootSays(k, b, a) ==
    b.ok => /\ b.root # Num(0)
            /\ b.root = a.root => SetIn(k, b, a)

LEMMA AcceptedTells ==
    ASSUME NEW k \in Artefacts, NEW s, SentOK(s, k), s[k] # NotSent,
           NEW R, NEW stream \in Seq(R), \A r \in R : RecordOK(s, r), NEW last
    PROVE  RootSays(k, Accepted(k, Decode(Schema(k), stream, last)), s[k])
<1>1. PICK a : a = Decode(Schema(k), stream, last)
  OBVIOUS
<1>2. ~Failed.ok
  BY DEF Failed
<1>3. CASE Accepted(k, a) = Failed
  BY <1>1, <1>2, <1>3 DEF RootSays
<1>4. CASE Accepted(k, a) # Failed
  <2>1. a.ok /\ Accepted(k, a) = a
    BY <1>4 DEF Accepted
  <2>2. PICK schema : schema = Schema(k)
    OBVIOUS
  <2>3. PICK f : f = a.fields
    OBVIOUS
  <2>4. PICK U : /\ Others(schema, U)
                 /\ a.root = MerkleRoot(records(schema, f) \cup U)
    <3>1. ReadAs(s, k, a)
      BY <1>1, <2>1, Decoded
    <3> QED BY <2>2, <2>3, <3>1 DEF ReadAs
  <2>5. IsSchema(schema)
    BY <2>2, Schemas
  <2>6. a.root # Num(0)
    <3>1. PICK S : S = records(schema, f) \cup U
      OBVIOUS
    <3>2. RecordSet(S) /\ a.root = MerkleRoot(S)
      BY <2>4, <2>5, <3>1, WithOthers
    <3>3. a.root # ErrNoTLVs
      BY <1>1, <2>1, DecodedHasRoot
    <3>4. a.root.tag = "LnBranch"
      BY <3>2, <3>3, RootIsABranch
    <3>5. Num(0).tag = "num"
      BY DEF Num
    <3> QED BY <3>4, <3>5
  <2>7. PICK h : h = s[k].fields
    OBVIOUS
  <2>8. PICK V : V = s[k].foreign
    OBVIOUS
  <2>9. /\ Others(schema, V)
        /\ s[k].root = MerkleRoot(records(schema, h) \cup V)
    BY <2>2, <2>7, <2>8 DEF SentOK, MadeOK
  <2>10. ASSUME a.root = s[k].root,
                NEW t \in DOMAIN schema, t # signatureType, f[t] # Unset
         PROVE  h[t] # Unset
    BY <2>4, <2>5, <2>9, <2>10, FieldKept
  <2>11. a.root = s[k].root => SetIn(k, a, s[k])
    BY <2>2, <2>3, <2>7, <2>10 DEF SetIn
  <2> QED BY <1>1, <2>1, <2>6, <2>11 DEF RootSays
<1> QED BY <1>3, <1>4

\* The same for a string.
LEMMA OfferTells ==
    ASSUME NEW s, SentOK(s, "offer"), s["offer"] # NotSent,
           NEW text, TextOK(s, text), NEW last
    PROVE  RootSays("offer", DecodeOfferStr(text, last), s["offer"])
<1>1. CASE DecodeOfferStr(text, last) = Failed
  BY <1>1 DEF RootSays, Failed
<1>2. CASE DecodeOfferStr(text, last) # Failed
  <2>1. PICK R, stream : /\ stream \in Seq(R) /\ \A r \in R : RecordOK(s, r)
                         /\ DecodeOfferStr(text, last)
                                = Accepted("offer",
                                           Decode(Schema("offer"), stream, last))
    BY <1>2, StringStream DEF Strung
  <2>2. "offer" \in Artefacts
    BY DEF Artefacts
  <2>3. RootSays("offer", Accepted("offer", Decode(Schema("offer"), stream, last)),
                 s["offer"])
    BY <2>1, <2>2, AcceptedTells
  <2> QED BY <2>1, <2>3
<1> QED BY <1>1, <1>2

\* Reading keeps the invariant about reading.
LEMMA ReadReadStep ==
    ASSUME IndInv, ReadInv, NEW k \in Artefacts, NEW result, Reads(k, result),
           sent[k] # NotSent, RootSays(k, result, sent[k]),
           ReadFrom(k, transit.data, result)
    PROVE  ReadInv'
<1>1. PICK s : s = sent
  OBVIOUS
<1>2. PICK g : g = got
  OBVIOUS
<1>3. PICK h : h = got'
  OBVIOUS
<1>4. PICK x : x = transit
  OBVIOUS
<1>5. /\ g = [j \in Artefacts |-> g[j]] /\ h = [g EXCEPT ![k] = result]
      /\ sent' = s /\ transit' = x
  BY <1>1, <1>2, <1>3, <1>4 DEF Reads, IndInv
<1>6. h[k] = result /\ \A j \in Artefacts : j # k => h[j] = g[j]
  BY <1>5
<1>7. \A j \in Artefacts : ReadOK(s, g, x, j)
  BY <1>1, <1>2, <1>4 DEF ReadInv
<1>8. ASSUME NEW j \in Artefacts PROVE ReadOK(s, h, x, j)
  <2>1. CASE j = k
    <3>1. s[k] # NotSent /\ RootSays(k, h[k], s[k]) /\ ReadFrom(k, x.data, h[k])
      BY <1>1, <1>4, <1>6
    <3>2. SoundFields(k, s[k])
      BY <1>7, <3>1 DEF ReadOK
    <3> QED BY <2>1, <3>1, <3>2 DEF ReadOK, RootSays
  <2>2. CASE j # k
    BY <1>6, <1>7, <2>2 DEF ReadOK
  <2> QED BY <2>1, <2>2
<1> QED BY <1>3, <1>5, <1>8 DEF ReadInv

\* Each of the readers does.
LEMMA ReadersReadStep ==
    ASSUME IndInv, ReadInv, ReadOffer \/ ReadRequest \/ ReadInvoice
    PROVE  ReadInv'
<1>1. PICK s : s = sent
  OBVIOUS
<1>2. PICK x : x = transit
  OBVIOUS
<1>3. TransitOK(s, x) /\ \A k \in Artefacts : SentOK(s, k)
  BY <1>1, <1>2 DEF IndInv
<1>4. CASE ReadOffer
  <2>1. PICK last \in Last(TextTypes(x.data)) :
           x.kind = "offer" /\ Reads("offer", DecodeOfferStr(x.data, last))
    BY <1>2, <1>4 DEF ReadOffer
  <2>2. "offer" \in Artefacts
    BY DEF Artefacts
  <2>3. TextOK(s, x.data) /\ s["offer"] # NotSent /\ SentOK(s, "offer")
    BY <1>3, <2>1, <2>2 DEF TransitOK
  <2>4. PICK result : result = DecodeOfferStr(x.data, last)
    OBVIOUS
  <2>5. RootSays("offer", result, s["offer"])
    BY <2>3, <2>4, OfferTells
  <2>6. ReadFrom("offer", x.data, result)
    BY <2>1, <2>4 DEF ReadFrom
  <2> QED BY <1>1, <1>2, <2>1, <2>2, <2>3, <2>4, <2>5, <2>6, ReadReadStep
<1>5. ASSUME NEW k \in {"request", "invoice"}, x.kind = k,
             NEW last \in Last(Types(x.data)),
             Reads(k, Accepted(k, Decode(Schema(k), x.data, last)))
      PROVE  ReadInv'
  <2>1. k \in Artefacts /\ k # "offer" /\ k # "none"
    BY DEF Artefacts
  <2>2. StreamOK(s, x.data) /\ s[k] # NotSent /\ SentOK(s, k)
    BY <1>3, <1>5, <2>1 DEF TransitOK
  <2>3. PICK stream : stream = x.data
    OBVIOUS
  <2>4. PICK R : stream \in Seq(R) /\ \A r \in R : RecordOK(s, r)
    BY <2>2, <2>3 DEF StreamOK
  <2>5. PICK result : result = Accepted(k, Decode(Schema(k), stream, last))
    OBVIOUS
  <2>6. RootSays(k, result, s[k])
    BY <2>1, <2>2, <2>4, <2>5, AcceptedTells
  <2>7. ReadFrom(k, stream, result)
    BY <1>5, <2>1, <2>3, <2>5 DEF ReadFrom
  <2>8. Reads(k, result)
    BY <1>5, <2>3, <2>5
  <2> QED BY <1>1, <1>2, <2>1, <2>2, <2>3, <2>6, <2>7, <2>8, ReadReadStep
<1>6. CASE ReadRequest
  <2>1. PICK k : k = "request"
    OBVIOUS
  <2>2. Schema(k) = InvoiceRequestSchema
    BY <2>1 DEF Schema
  <2>3. PICK last \in Last(Types(x.data)) : x.kind = k
          /\ Reads(k, Accepted(k, Decode(Schema(k), x.data, last)))
    BY <1>2, <1>6, <2>1, <2>2 DEF ReadRequest, DecodeInvoiceRequest
  <2> QED BY <1>5, <2>1, <2>3
<1>7. CASE ReadInvoice
  <2>1. PICK k : k = "invoice"
    OBVIOUS
  <2>2. Schema(k) = InvoiceSchema
    BY <2>1 DEF Schema
  <2>3. PICK last \in Last(Types(x.data)) : x.kind = k
          /\ Reads(k, Accepted(k, Decode(Schema(k), x.data, last)))
    BY <1>2, <1>7, <2>1, <2>2 DEF ReadInvoice, DecodeInvoice
  <2> QED BY <1>5, <2>1, <2>3
<1> QED BY <1>4, <1>6, <1>7

\* What happens on the way happens before anything is read.
LEMMA WayReadStep ==
    ASSUME IndInv, ReadInv, NEW data, OnTheWay(data)
    PROVE  ReadInv'
<1>1. PICK s : s = sent
  OBVIOUS
<1>2. PICK g : g = got
  OBVIOUS
<1>3. PICK x : x = transit
  OBVIOUS
<1>4. PICK y : y = transit'
  OBVIOUS
<1>5. /\ g[x.kind] = NotRead /\ y = [x EXCEPT !.data = data]
      /\ sent' = s /\ got' = g
  BY <1>1, <1>2, <1>3, <1>4 DEF OnTheWay
<1>6. x = [kind |-> x.kind, data |-> x.data]
  BY <1>3 DEF IndInv, TransitOK
<1>7. y = [kind |-> x.kind, data |-> data]
  BY <1>5, <1>6
<1>8. y.kind = x.kind
  BY <1>7
<1>9. \A k \in Artefacts : ReadOK(s, g, x, k)
  BY <1>1, <1>2, <1>3 DEF ReadInv
<1>10. \A k \in Artefacts : ReadOK(s, g, y, k)
  BY <1>5, <1>8, <1>9 DEF ReadOK
<1> QED BY <1>4, <1>5, <1>10 DEF ReadInv

\* Nothing has been read yet.
LEMMA FreshReads ==
    ASSUME NEW s, s = [k \in Artefacts |-> NotSent],
           NEW g, g = [k \in Artefacts |-> NotRead], NEW x
    PROVE  \A k \in Artefacts : ReadOK(s, g, x, k)
<1>1. \A k \in Artefacts : s[k] = NotSent /\ g[k] = NotRead
  OBVIOUS
<1>2. ~NotRead.ok
  BY DEF NotRead
<1> QED BY <1>1, <1>2 DEF ReadOK

\* What is read is read from the data on their way, and what is made is such
\* that it can be read, in every state.
THEOREM ReadsInductive == Spec => []ReadInv
<1>1. Init => ReadInv
  BY FreshReads DEF Init, ReadInv
<1>2. IndInv /\ ReadInv /\ [Next]_vars => ReadInv'
  <2> SUFFICES ASSUME IndInv, ReadInv, [Next]_vars PROVE ReadInv'
    OBVIOUS
  <2>1. CASE UNCHANGED vars
    BY <2>1 DEF vars, ReadInv
  <2>2. ASSUME NEW o \in Offers, IssueOffer(o) PROVE ReadInv'
    BY <2>2, IssueReadStep
  <2>3. ASSUME ReadOffer \/ ReadRequest \/ ReadInvoice PROVE ReadInv'
    BY <2>3, ReadersReadStep
  <2>4. ASSUME NEW a \in Amounts, NEW n \in Quantities, NEW note \in Notes,
               RequestInvoice(a, n, note)
        PROVE  ReadInv'
    BY <2>4, RequestReadStep
  <2>5. ASSUME NEW e \in Expiries, NEW b \in BOOLEAN, SendInvoice(e, b)
        PROVE  ReadInv'
    BY <2>5, InvoiceReadStep
  <2>6. ASSUME Rewrite \/ Change \/ ChangeData PROVE ReadInv'
    <3>1. \E data : OnTheWay(data)
      BY <2>6 DEF Rewrite, Change, ChangeData
    <3> QED BY <3>1, WayReadStep
  <2>7. ASSUME StartOver PROVE ReadInv'
    <3>1. sent' = [k \in Artefacts |-> NotSent] /\ got' = [k \in Artefacts |-> NotRead]
      BY <2>7 DEF StartOver
    <3>2. PICK s : s = [k \in Artefacts |-> NotSent]
      OBVIOUS
    <3>3. PICK g : g = [k \in Artefacts |-> NotRead]
      OBVIOUS
    <3>4. PICK x : x = transit'
      OBVIOUS
    <3>5. \A k \in Artefacts : ReadOK(s, g, x, k)
      BY <3>2, <3>3, FreshReads
    <3> QED BY <3>1, <3>2, <3>3, <3>4, <3>5 DEF ReadInv
  <2> QED BY <2>1, <2>2, <2>3, <2>4, <2>5, <2>6, <2>7 DEF Next
<1> QED BY <1>1, <1>2, Inductive, PTL DEF Spec

\* The kinds whose encoding loses something are those of two fields.
LEMMA LossyKinds ==
    /\ \A t \in DOMAIN OfferSchema :
          OfferSchema[t] # "duration" /\ (OfferSchema[t] = "expiry" => t = expiryType)
    /\ \A t \in DOMAIN InvoiceRequestSchema :
          InvoiceRequestSchema[t] \notin {"duration", "expiry"}
    /\ \A t \in DOMAIN InvoiceSchema :
          InvoiceSchema[t] # "expiry"
          /\ (InvoiceSchema[t] = "duration" => t = invRelativeExpiryType)
<1>1. ASSUME NEW t \in DOMAIN OfferSchema
      PROVE  OfferSchema[t] # "duration" /\ (OfferSchema[t] = "expiry" => t = expiryType)
  BY DEF OfferSchema, chainType, amountType, descriptionType, featuresType,
      expiryType, issuerType, quantityMinType, quantityMaxType, nodeIDType,
      signatureType
<1>2. ASSUME NEW t \in DOMAIN InvoiceRequestSchema
      PROVE  InvoiceRequestSchema[t] \notin {"duration", "expiry"}
  BY DEF InvoiceRequestSchema, invReqChainType, invReqOfferIDType,
      invReqAmountType, invReqFeaturesType, invReqQuantityType,
      invReqPayerKeyType, invReqPayerNoteType, invReqPayerInfoType,
      invReqSignatureType
<1>3. ASSUME NEW t \in DOMAIN InvoiceSchema
      PROVE  InvoiceSchema[t] # "expiry"
             /\ (InvoiceSchema[t] = "duration" => t = invRelativeExpiryType)
  BY DEF InvoiceSchema, invChainType, invOfferIDType, invAmountType,
      invDescType, invFeatType, invNodeIDType, invQuantityType,
      invPayerKeyType, invPayerNoteType, invCreatedAtType,
      invPaymentHashType, invRelativeExpiryType, inCLTVType,
      invPayerInfoType, invSigType
<1> QED BY <1>1, <1>2, <1>3

\* What Representable says of the fields.
LEMMA RepresentableKept ==
    ASSUME NEW k \in Artefacts, Representable(k), NEW a, a = sent[k]
    PROVE  AllKept(k, a)
<1>1. PICK f : f = a.fields
  OBVIOUS
<1>2. CASE k = "offer"
  <2>1. Schema(k) = OfferSchema /\ f[expiryType] # <<Num(0)>>
    BY <1>1, <1>2 DEF Schema, Representable
  <2> QED BY <1>1, <2>1, LossyKinds DEF AllKept, Kept
<1>3. CASE k = "request"
  <2>1. Schema(k) = InvoiceRequestSchema
    BY <1>3 DEF Schema
  <2> QED BY <2>1, LossyKinds DEF AllKept, Kept
<1>4. CASE k = "invoice"
  <2>1. Schema(k) = InvoiceSchema /\ Number(f[invRelativeExpiryType]) % Second = 0
    BY <1>1, <1>4 DEF Schema, Representable
  <2>2. f[invRelativeExpiryType] # Unset =>
           f[invRelativeExpiryType][1].n % Second = 0
    BY <2>1 DEF Number
  <2> QED BY <1>1, <2>1, <2>2, LossyKinds DEF AllKept, Kept
<1> QED BY <1>2, <1>3, <1>4 DEF Artefacts

\* A string that says what was made is read as it was made.
LEMMA OwnOfferRead ==
    ASSUME NEW s, NEW a, MadeOK("offer", a), a.foreign = {},
           SoundFields("offer", a), AllKept("offer", a), Validate("offer", a),
           NEW stream, stream = SortRecords(records(Schema("offer"), a.fields)),
           NEW text, TextOK(s, text), SaysText(text, stream), NEW last
    PROVE  TakenFor("offer", a, DecodeOfferStr(text, last))
<1>1. "offer" \in Artefacts /\ Schema("offer") = OfferSchema
  BY DEF Artefacts, Schema
<1>2. PICK schema : schema = Schema("offer")
  OBVIOUS
<1>3. PICK f : f = a.fields
  OBVIOUS
<1>4. IsSchema(schema)
  BY <1>1, <1>2, Schemas
<1>5. SaysFields(schema, f, stream)
  BY <1>2, <1>3, <1>4, StreamOfFields
<1>6. stream # <<>>
  BY <1>2, <1>3, <1>5 DEF SaysFields, MadeOK
<1>7. PICK T : stream \in Seq(T)
  <2>1. RecordSet(records(schema, f))
    BY <1>4, FieldRecords
  <2> QED BY <1>2, <1>3, <2>1, Sorted
<1>8. PICK R : text \in Seq(R)
  BY DEF TextOK
<1>9. ReadsAsOffer(stripOffer(text)) /\ StreamOf(stripOffer(text)) = stream
  BY <1>6, <1>7, <1>8, SplitsAreUndone
<1>10. DecodeOfferStr(text, last)
           = Accepted("offer", Decode(Schema("offer"), stream, last))
  BY <1>1, <1>9 DEF DecodeOfferStr, DecodeOffer
<1>11. PICK k : k = "offer"
  OBVIOUS
<1>12. TakenFor(k, a, Accepted(k, Decode(Schema(k), stream, last)))
  BY <1>1, <1>11, AcceptsOwn
<1> QED BY <1>10, <1>11, <1>12

\* What this library makes and its own Validate accepts is accepted at the other
\* end, with the same fields and the same root: reading undoes writing, for
\* offers also when they were split by joins or written in capitals.
THEOREM OwnIsAccepted == Spec => []OwnAccepted
<1>1. IndInv /\ ReadInv => OwnAccepted
  <2> SUFFICES ASSUME IndInv, ReadInv, NEW k \in Artefacts,
                      transit.kind = k, got[k] # NotRead, sent[k].foreign = {},
                      Validate(k, sent[k]), Representable(k), Unchanged(k)
               PROVE  got[k].ok /\ got[k].root = sent[k].root /\ SameFields(k)
    BY DEF OwnAccepted
  <2>1. PICK s : s = sent
    OBVIOUS
  <2>2. PICK a : a = sent[k]
    OBVIOUS
  <2>3. PICK b : b = got[k]
    OBVIOUS
  <2>4. PICK data : data = transit.data
    OBVIOUS
  <2>5. k # "none"
    BY DEF Artefacts
  <2>6. MadeOK(k, a) /\ sent[k] # NotSent
    BY <2>2, <2>5 DEF IndInv, TransitOK, SentOK
  <2>7. SoundFields(k, a) /\ ReadFrom(k, data, b)
    BY <2>2, <2>3, <2>4, <2>6 DEF ReadInv, ReadOK
  <2>8. AllKept(k, a)
    BY <2>2, RepresentableKept
  <2>9. Validate(k, a) /\ a.foreign = {}
    BY <2>2
  <2>10. PICK stream : stream = SortRecords(records(Schema(k), a.fields))
    OBVIOUS
  <2>11. Stream(k) = stream
    <3>1. sent[k].foreign = {}
      OBVIOUS
    <3>2. records(Schema(k), a.fields) \cup {} = records(Schema(k), a.fields)
      OBVIOUS
    <3> QED BY <2>2, <2>10, <3>1, <3>2 DEF Stream
  <2>12. TakenFor(k, a, b)
    <3>1. CASE k = "offer"
      <4>1. PICK last : b = DecodeOfferStr(data, last)
        BY <2>7, <3>1 DEF ReadFrom
      <4>2. TextOK(s, data)
        BY <2>1, <2>4, <3>1 DEF IndInv, TransitOK
      <4>3. SaysText(data, stream)
        BY <2>4, <2>11, <3>1 DEF Unchanged, SaysText
      <4> QED BY <2>6, <2>7, <2>8, <2>9, <2>10, <3>1, <4>1, <4>2, <4>3,
                 OwnOfferRead
    <3>2. CASE k # "offer"
      <4>1. PICK last : b = Accepted(k, Decode(Schema(k), data, last))
        BY <2>7, <3>2 DEF ReadFrom
      <4>2. data = stream
        BY <2>4, <2>11, <3>2 DEF Unchanged
      <4> QED BY <2>6, <2>7, <2>8, <2>9, <2>10, <4>1, <4>2, AcceptsOwn
    <3> QED BY <3>1, <3>2
  <2>13. b.ok /\ b.root = a.root
    BY <2>12 DEF TakenFor
  <2>14. ASSUME NEW t \in DOMAIN Schema(k)
         PROVE  Shown(k, b.fields, t) = Shown(k, a.fields, t)
    <3>1. IF a.fields[t] = Unset THEN b.fields[t] = Unset
          ELSE ReadBack(Schema(k)[t], a.fields[t], b.fields[t])
      BY <2>12 DEF TakenFor
    <3> QED BY <3>1 DEF Shown, ReadBack
  <2>15. SameFields(k)
    BY <2>2, <2>3, <2>14 DEF SameFields
  <2> QED BY <2>2, <2>3, <2>13, <2>15
<1> QED BY <1>1, Inductive, ReadsInductive, PTL
=============================================================================
