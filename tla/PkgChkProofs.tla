----------------------------- MODULE PkgChkProofs -----------------------------
(***************************************************************************)
(* Theorems about MerkleTree and PkgChk, for every package, every data     *)
(* file and every number of chunks.                                        *)
(*                                                                         *)
(* Levels says what the levels of a tree are: each has a node for every    *)
(* two of the level below, and each node stands for its run of leaves.     *)
(* TreeInv is what build_merkle_tree keeps, Inv adds the process around    *)
(* it.  The answers follow from what the traversals return of such a tree. *)
(***************************************************************************)
EXTENDS PkgChk, SequenceLemmas

-----------------------------------------------------------------------------
(* Powers of two, and the height that log2 gives.                          *)

\* The equation that defines Pow2.
IsPow2(f) == f = [n \in Nat |-> IF n = 0 THEN 1 ELSE 2 * f[n - 1]]

\* Each power is twice the one before.
LEMMA Pow2Is ==
    /\ Pow2[0] = 1
    /\ \A n \in Nat : Pow2[n] \in Nat /\ Pow2[n] > 0 /\ Pow2[n + 1] = 2 * Pow2[n]
<1> DEFINE G == [i \in Nat |-> [x \in Nat |-> 2 * x]]
<1>1. PICK f : Iterates(f, Nat, 1, G)
  <2> DEFINE X == Nat
             a == 1
  <2>1. G \in [Nat -> [X -> X]] /\ a \in X
    OBVIOUS
  <2> HIDE DEF G, X, a
  <2>2. \E f : Iterates(f, X, a, G)
    BY <2>1, Recursion
  <2> QED BY <2>2 DEF X, a
<1>2. f \in [Nat -> Nat] /\ f[0] = 1 /\ \A n \in Nat : f[n + 1] = 2 * f[n]
  BY <1>1 DEF Iterates
<1> HIDE DEF G
<1>3. \A n \in Nat : f[n] = IF n = 0 THEN 1 ELSE 2 * f[n - 1]
  <2> SUFFICES ASSUME NEW n \in Nat, n # 0 PROVE f[n] = 2 * f[n - 1]
    BY <1>2
  <2>1. n - 1 \in Nat /\ (n - 1) + 1 = n
    OBVIOUS
  <2> QED BY <1>2, <2>1
<1>4. IsPow2(f)
  <2> DEFINE e(n) == IF n = 0 THEN 1 ELSE 2 * f[n - 1]
  <2>1. \A n \in Nat : f[n] = e(n)
    BY <1>3
  <2>2. f = [n \in Nat |-> e(n)]
    <3> HIDE DEF e
    <3> QED BY <1>2, <2>1
  <2> QED BY <2>2 DEF IsPow2
<1>5. Pow2 = CHOOSE g : IsPow2(g)
  BY DEF Pow2, IsPow2
<1>6. IsPow2(Pow2)
  BY <1>4, <1>5
<1>7. \A n \in Nat : Pow2[n] = IF n = 0 THEN 1 ELSE 2 * Pow2[n - 1]
  <2> DEFINE p == Pow2
  <2>1. p = [n \in Nat |-> IF n = 0 THEN 1 ELSE 2 * p[n - 1]]
    BY <1>6 DEF IsPow2
  <2> HIDE DEF p
  <2>2. \A n \in Nat : p[n] = IF n = 0 THEN 1 ELSE 2 * p[n - 1]
    BY <2>1
  <2> QED BY <2>2 DEF p
<1>8. Pow2[0] = 1
  BY <1>7
<1>9. \A n \in Nat : Pow2[n + 1] = 2 * Pow2[n]
  <2> TAKE n \in Nat
  <2>1. n + 1 \in Nat /\ n + 1 # 0 /\ (n + 1) - 1 = n
    OBVIOUS
  <2> QED BY <1>7, <2>1
<1> DEFINE T == {n \in Nat : Pow2[n] \in Nat /\ Pow2[n] > 0}
<1>10. 0 \in T
  BY <1>8
<1>11. ASSUME NEW n \in Nat, n \in T PROVE n + 1 \in T
  BY <1>9, <1>11
<1>12. \A n \in Nat : n \in T
  <2> HIDE DEF T
  <2> QED BY <1>10, <1>11, SetInduction
<1> QED BY <1>8, <1>9, <1>12

\* Powers of two grow.
LEMMA Pow2Grows == \A n \in Nat : n < Pow2[n]
<1> DEFINE T == {n \in Nat : n < Pow2[n]}
<1>1. 0 \in T
  BY Pow2Is
<1>2. ASSUME NEW n \in Nat, n \in T PROVE n + 1 \in T
  <2>1. Pow2[n] \in Nat /\ Pow2[n + 1] = 2 * Pow2[n] /\ n < Pow2[n]
    BY <1>2, Pow2Is
  <2>2. \A x \in Nat : n < x => n + 1 < 2 * x
    OBVIOUS
  <2> QED BY <2>1, <2>2
<1>3. \A n \in Nat : n \in T
  <2> HIDE DEF T
  <2> QED BY <1>1, <1>2, SetInduction
<1> QED BY <1>3

\* A larger exponent at least doubles the power.
LEMMA Pow2Increases == \A m, n \in Nat : m < n => 2 * Pow2[m] <= Pow2[n]
<1> SUFFICES ASSUME NEW m \in Nat PROVE \A n \in Nat : m < n => 2 * Pow2[m] <= Pow2[n]
  OBVIOUS
<1> DEFINE T == {n \in Nat : m < n => 2 * Pow2[m] <= Pow2[n]}
<1>1. 0 \in T
  OBVIOUS
<1>2. ASSUME NEW n \in Nat, n \in T PROVE n + 1 \in T
  <2>1. Pow2[n] \in Nat /\ Pow2[m] \in Nat /\ Pow2[n + 1] = 2 * Pow2[n]
    BY Pow2Is
  <2>2. CASE m < n
    <3>1. 2 * Pow2[m] <= Pow2[n]
      BY <1>2, <2>2
    <3>2. \A x, y \in Nat : 2 * x <= y => 2 * x <= 2 * y
      OBVIOUS
    <3> QED BY <2>1, <3>1, <3>2
  <2>3. CASE m = n
    BY <2>1, <2>3
  <2>4. CASE m > n
    BY <2>4
  <2> QED BY <2>2, <2>3, <2>4
<1>3. \A n \in Nat : n \in T
  <2> HIDE DEF T
  <2> QED BY <1>1, <1>2, SetInduction
<1> QED BY <1>3

\* The level above the leaves of which log2 speaks.
LEMMA HeightIs ==
    ASSUME NEW n \in Nat, n # 0
    PROVE  \E p \in 0..n : Height(n) = p + 1 /\ Pow2[p] <= n /\ n < Pow2[p + 1]
<1> DEFINE T == {p \in Nat : n < Pow2[p]}
<1>1. n \in T
  BY Pow2Grows
<1>2. PICK q \in T : \A r \in T : q <= r
  <2> HIDE DEF T
  <2>1. T \in SUBSET Nat
    BY DEF T
  <2> QED BY <1>1, <2>1, LeastElement
<1>3. q # 0 /\ q <= n
  BY <1>1, <1>2, Pow2Is
<1> DEFINE p == q - 1
<1>4. p \in 0..n /\ p + 1 = q /\ p \notin T /\ p \in Nat
  BY <1>2, <1>3
<1>5. Pow2[p] <= n /\ n < Pow2[p + 1]
  BY <1>2, <1>4, Pow2Is
<1> HIDE DEF p, T
<1>6. \E x \in 0..n : Pow2[x] <= n /\ n < Pow2[x + 1]
  BY <1>4, <1>5
<1> DEFINE h == CHOOSE x \in 0..n : Pow2[x] <= n /\ n < Pow2[x + 1]
<1>7. h \in 0..n /\ Pow2[h] <= n /\ n < Pow2[h + 1]
  BY <1>6
<1>8. Height(n) = h + 1
  BY Zenon DEF Height
<1> HIDE DEF h
<1> QED BY <1>7, <1>8

\* What log2 gives is determined by the two powers.
LEMMA HeightUnique ==
    ASSUME NEW n \in Nat, NEW p \in Nat, Pow2[p] <= n, n < Pow2[p + 1]
    PROVE  Height(n) = p + 1
<1>1. n # 0
  BY Pow2Is
<1>2. PICK q \in 0..n : Height(n) = q + 1 /\ Pow2[q] <= n /\ n < Pow2[q + 1]
  BY <1>1, HeightIs
<1>3. ~(p < q)
  <2> SUFFICES ASSUME p < q PROVE FALSE
    OBVIOUS
  <2>1. 2 * Pow2[p] <= Pow2[q] /\ Pow2[p + 1] = 2 * Pow2[p] /\ Pow2[q] \in Nat /\ Pow2[p] \in Nat
    BY Pow2Is, Pow2Increases
  <2> QED BY <1>2, <2>1
<1>4. ~(q < p)
  <2> SUFFICES ASSUME q < p PROVE FALSE
    OBVIOUS
  <2>1. 2 * Pow2[q] <= Pow2[p] /\ Pow2[q + 1] = 2 * Pow2[q] /\ Pow2[q] \in Nat /\ Pow2[p] \in Nat
    BY Pow2Is, Pow2Increases
  <2> QED BY <1>2, <2>1
<1> QED BY <1>2, <1>3, <1>4

\* An odd number of nodes, more than one, is no level of a perfect tree.
LEMMA OddIsNoLevel ==
    ASSUME NEW m \in Nat, m > 1, m % 2 = 1
    PROVE  \A a, b \in Nat : m * Pow2[a] # Pow2[b]
<1> DEFINE T == {a \in Nat : \A b \in Nat : m * Pow2[a] # Pow2[b]}
<1>1. 0 \in T
  <2> SUFFICES ASSUME NEW b \in Nat, m * Pow2[0] = Pow2[b] PROVE FALSE
    OBVIOUS
  <2>1. m = Pow2[b]
    BY Pow2Is
  <2>2. b # 0
    BY <2>1, Pow2Is
  <2>3. Pow2[b] = 2 * Pow2[b - 1] /\ Pow2[b - 1] \in Nat
    <3>1. b - 1 \in Nat /\ (b - 1) + 1 = b
      BY <2>2
    <3> QED BY <3>1, Pow2Is
  <2>4. \A x \in Nat : (2 * x) % 2 # 1
    OBVIOUS
  <2> QED BY <2>1, <2>3, <2>4
<1>2. ASSUME NEW a \in Nat, a \in T PROVE a + 1 \in T
  <2> SUFFICES ASSUME NEW b \in Nat, m * Pow2[a + 1] = Pow2[b] PROVE FALSE
    OBVIOUS
  <2>1. Pow2[a + 1] = 2 * Pow2[a] /\ Pow2[a] \in Nat /\ Pow2[a] > 0 /\ Pow2[b] \in Nat
    BY Pow2Is
  <2>2. b # 0
    <3>1. \A x \in Nat : x > 0 => m * (2 * x) # 1
      OBVIOUS
    <3> QED BY <2>1, <3>1, Pow2Is
  <2>3. b - 1 \in Nat /\ Pow2[b] = 2 * Pow2[b - 1] /\ Pow2[b - 1] \in Nat
    <3>1. b - 1 \in Nat /\ (b - 1) + 1 = b
      BY <2>2
    <3> QED BY <3>1, Pow2Is
  <2>4. \A x, y \in Nat : m * (2 * x) = 2 * y => m * x = y
    OBVIOUS
  <2>5. m * Pow2[a] = Pow2[b - 1]
    BY <2>1, <2>3, <2>4
  <2> QED BY <1>2, <2>3, <2>5
<1>3. \A a \in Nat : a \in T
  <2> HIDE DEF T
  <2> QED BY <1>1, <1>2, SetInduction
<1> QED BY <1>3

\* Powers of two add up in their exponents.
LEMMA Pow2Sum == \A a, b \in Nat : Pow2[a + b] = Pow2[a] * Pow2[b]
<1> SUFFICES ASSUME NEW a \in Nat PROVE \A b \in Nat : Pow2[a + b] = Pow2[a] * Pow2[b]
  OBVIOUS
<1> DEFINE T == {b \in Nat : Pow2[a + b] = Pow2[a] * Pow2[b]}
<1>1. 0 \in T
  <2>1. a + 0 = a /\ Pow2[a] \in Nat /\ Pow2[a] * 1 = Pow2[a]
    BY Pow2Is
  <2> QED BY <2>1, Pow2Is
<1>2. ASSUME NEW b \in Nat, b \in T PROVE b + 1 \in T
  <2>1. a + b \in Nat /\ a + (b + 1) = (a + b) + 1
    OBVIOUS
  <2>2. Pow2[(a + b) + 1] = 2 * Pow2[a + b] /\ Pow2[b + 1] = 2 * Pow2[b]
    BY <2>1, Pow2Is
  <2>3. Pow2[a + b] = Pow2[a] * Pow2[b] /\ Pow2[a] \in Nat /\ Pow2[b] \in Nat
    BY <1>2, Pow2Is
  <2>4. \A x, y \in Nat : 2 * (x * y) = x * (2 * y)
    OBVIOUS
  <2>5. Pow2[a + (b + 1)] = Pow2[a] * Pow2[b + 1]
    BY <2>1, <2>2, <2>3, <2>4
  <2> QED BY <2>5
<1>3. \A b \in Nat : b \in T
  <2> HIDE DEF T
  <2> QED BY <1>1, <1>2, SetInduction
<1> QED BY <1>3

\* The bound of Perfect's exponent is no restriction.
LEMMA PerfectIs == \A n \in Nat : Perfect(n) <=> \E h \in Nat : n = Pow2[h]
<1>1. \A n \in Nat : \A h \in Nat : n = Pow2[h] => h \in 0..n
  BY Pow2Grows
<1> QED BY <1>1 DEF Perfect

-----------------------------------------------------------------------------
(* What holds of the levels of a tree, r.                                  *)

Hash == Seq(Contents)

\* Each level has a node for every two of the level below.
Joined(r) ==
    \A h \in 1..Len(r) : h + 1 \in 1..Len(r) =>
        /\ Len(r[h]) = 2 * Len(r[h + 1])
        /\ \A k \in 1..Len(r[h + 1]) : r[h + 1][k] = r[h][2 * k - 1] \o r[h][2 * k]

\* A level and the leaves that each of its nodes stands for are all leaves.
Sized(r) == \A h \in 1..Len(r) : Len(r[h]) * Pow2[h - 1] = Len(r[1])

\* RowsCover, of r.
Covers(r) == \A h \in 1..Len(r) : \A k \in 1..Len(r[h]) : r[h][k] = FlattenSeq(Run(r[1], h, k))

Levels(r) == r \in Seq(Seq(Hash)) /\ r # <<>> /\ Joined(r) /\ Sized(r) /\ Covers(r)

\* A run lies within the leaves.
LEMMA RunBounds ==
    ASSUME NEW n \in Nat, NEW m \in Nat, NEW p \in Nat, m * p = n, NEW k \in 1..m, p > 0
    PROVE  /\ k * p <= n /\ (k - 1) * p + 1 \in 1..(n + 1) /\ k * p \in ((k - 1) * p)..n
           /\ (k - 1) * p \in Nat /\ k * p = (k - 1) * p + p
<1>1. k \in Nat /\ k - 1 \in Nat /\ m - k \in Nat
  OBVIOUS
<1>2. \A x, y \in Nat : (x + y) * p = x * p + y * p /\ x * p \in Nat
  OBVIOUS
<1>3. (k + (m - k)) * p = k * p + (m - k) * p /\ k + (m - k) = m
  BY <1>1, <1>2
<1>4. ((k - 1) + 1) * p = (k - 1) * p + 1 * p /\ (k - 1) + 1 = k /\ 1 * p = p
  BY <1>1, <1>2
<1>5. k * p \in Nat /\ (m - k) * p \in Nat /\ (k - 1) * p \in Nat
  BY <1>1, <1>2
<1> DEFINE a == k * p
           b == (m - k) * p
           c == (k - 1) * p
<1>6. a \in Nat /\ b \in Nat /\ c \in Nat /\ n = a + b /\ a = c + p
  BY <1>3, <1>4, <1>5
<1> HIDE DEF a, b, c
<1>7. a <= n /\ c + 1 \in 1..(n + 1) /\ a \in c..n
  BY <1>6
<1> QED BY <1>6, <1>7 DEF a, c

\* Two runs side by side are the run of the node above.
LEMMA RunsJoin ==
    ASSUME NEW Q, NEW s \in Seq(Q), NEW h \in Nat, NEW m \in Nat, NEW k \in 1..m,
           h > 0, m * Pow2[h] = Len(s)
    PROVE  Run(s, h, 2 * k - 1) \o Run(s, h, 2 * k) = Run(s, h + 1, k)
<1> DEFINE p == Pow2[h - 1]
<1>1. h - 1 \in Nat /\ (h - 1) + 1 = h /\ (h + 1) - 1 = h /\ Len(s) \in Nat
  OBVIOUS
<1>2. p \in Nat /\ p > 0 /\ Pow2[h] = 2 * p
  BY <1>1, Pow2Is
<1> HIDE DEF p
<1>3. (2 * m) * p = Len(s)
  <2>1. \A x, y \in Nat : x * (2 * y) = (2 * x) * y
    OBVIOUS
  <2> QED BY <1>2, <2>1
<1>4. 2 * k - 1 \in 1..(2 * m) /\ 2 * k \in 1..(2 * m) /\ 2 * m \in Nat /\ (2 * k) - 1 = 2 * k - 1
  OBVIOUS
<1> DEFINE a == ((2 * k - 1) - 1) * p
           b == (2 * k - 1) * p
           c == (2 * k) * p
<1>5. /\ a + 1 \in 1..(Len(s) + 1) /\ b \in a..Len(s) /\ a \in Nat /\ b = a + p
  BY <1>1, <1>2, <1>3, <1>4, RunBounds
<1>6. /\ ((2 * k) - 1) * p \in Nat /\ c \in (((2 * k) - 1) * p)..Len(s)
  BY <1>1, <1>2, <1>3, <1>4, RunBounds
<1>7. c \in b..Len(s) /\ b \in Nat
  BY <1>4, <1>6
<1>8. a = (k - 1) * Pow2[h] /\ c = k * Pow2[h]
  <2>1. \A x, y \in Nat : (2 * x) * y = x * (2 * y)
    OBVIOUS
  <2>2. (2 * k - 1) - 1 = 2 * (k - 1) /\ k - 1 \in Nat /\ k \in Nat
    OBVIOUS
  <2>3. (2 * (k - 1)) * p = (k - 1) * (2 * p) /\ (2 * k) * p = k * (2 * p)
    BY <1>2, <2>1, <2>2
  <2> QED BY <1>2, <2>2, <2>3
<1>9. Run(s, h, 2 * k - 1) = SubSeq(s, a + 1, b)
  BY DEF Run, p
<1>10. Run(s, h, 2 * k) = SubSeq(s, b + 1, c)
  BY <1>4 DEF Run, p
<1>11. Run(s, h + 1, k) = SubSeq(s, a + 1, c)
  BY <1>1, <1>8 DEF Run
<1> HIDE DEF a, b, c
<1>12. SubSeq(s, a + 1, b) \o SubSeq(s, b + 1, c) = SubSeq(s, a + 1, c)
  <2>1. a + 1 \in 1..(Len(s) + 1) /\ b \in ((a + 1) - 1)..Len(s) /\ c \in b..Len(s)
    BY <1>5, <1>7
  <2> QED BY <2>1, ConcatAdjacentSubSeq
<1> QED BY <1>9, <1>10, <1>11, <1>12

\* A run has its place's number of leaves, all of them the sequence's.
LEMMA RunIs ==
    ASSUME NEW Q, NEW s \in Seq(Q), NEW h \in Nat, NEW m \in Nat, NEW k \in 1..m,
           h > 0, m * Pow2[h - 1] = Len(s)
    PROVE  /\ Run(s, h, k) \in Seq(Q) /\ Len(Run(s, h, k)) = Pow2[h - 1]
           /\ Range(Run(s, h, k)) \subseteq Range(s)
<1> DEFINE p == Pow2[h - 1]
           a == (k - 1) * p
           c == k * p
<1>1. p \in Nat /\ p > 0 /\ Len(s) \in Nat
  BY Pow2Is
<1> HIDE DEF p
<1>2. m * p = Len(s)
  BY DEF p
<1>3. a \in Nat /\ c = a + p /\ c \in a..Len(s)
  BY <1>1, <1>2, RunBounds
<1>4. Run(s, h, k) = SubSeq(s, a + 1, c)
  BY DEF Run, p
<1> HIDE DEF a, c
<1>5. \A i \in (a + 1)..c : i \in 1..Len(s) /\ s[i] \in Q
  BY <1>1, <1>3
<1>6. /\ SubSeq(s, a + 1, c) \in Seq(Q)
      /\ Len(SubSeq(s, a + 1, c)) = IF a + 1 <= c THEN c - (a + 1) + 1 ELSE 0
      /\ \A i \in 1..(c - (a + 1) + 1) : SubSeq(s, a + 1, c)[i] = s[(a + 1) + i - 1]
  <2>1. a + 1 \in Int /\ c \in Int
    BY <1>3
  <2> QED BY <1>5, <2>1, SubSeqProperties
<1>7. Len(SubSeq(s, a + 1, c)) = p /\ c - (a + 1) + 1 = p
  BY <1>1, <1>3, <1>6
<1>8. Range(SubSeq(s, a + 1, c)) \subseteq Range(s)
  <2> DEFINE u == SubSeq(s, a + 1, c)
  <2>1. \A i \in 1..p : u[i] = s[(a + 1) + i - 1] /\ (a + 1) + i - 1 \in 1..Len(s)
    BY <1>1, <1>3, <1>6, <1>7
  <2>2. DOMAIN u = 1..p /\ DOMAIN s = 1..Len(s)
    BY <1>6, <1>7
  <2> HIDE DEF u
  <2> QED BY <2>1, <2>2 DEF Range, u
<1> QED BY <1>4, <1>6, <1>7, <1>8 DEF p

\* The concatenation of one sequence.
LEMMA FlattenOne == ASSUME NEW Q, NEW x \in Seq(Q) PROVE FlattenSeq(<<x>>) = x
<1>1. <<>> \in Seq(Seq(Q)) /\ Append(<<>>, x) = <<x>>
  OBVIOUS
<1> QED BY <1>1, FlattenAppend

\* The run of a leaf.
LEMMA RunOfOne == ASSUME NEW Q, NEW leaves \in Seq(Q), NEW k \in 1..Len(leaves)
                  PROVE  Run(leaves, 1, k) = <<leaves[k]>>
<1>1. Run(leaves, 1, k) = SubSeq(leaves, k, k)
  <2>1. Pow2[1 - 1] = 1
    BY Pow2Is
  <2>2. (k - 1) * 1 + 1 = k /\ k * 1 = k
    OBVIOUS
  <2> QED BY <2>1, <2>2, Zenon DEF Run
<1>2. SubSeq(leaves, k, k) = <<leaves[k]>>
  <2>1. k \in 1..Len(leaves) /\ k \in k..Len(leaves) /\ k + 1 \in Int /\ k \in Int /\ k < k + 1
    OBVIOUS
  <2>2. SubSeq(leaves, k, k) = <<leaves[k]>> \o SubSeq(leaves, k + 1, k)
    BY <2>1, SubSeqRecursiveFirst
  <2>3. SubSeq(leaves, k + 1, k) = <<>>
    BY <2>1, SubSeqEmpty
  <2>4. <<leaves[k]>> \in Seq(Q)
    OBVIOUS
  <2>5. <<leaves[k]>> \o <<>> = <<leaves[k]>>
    BY <2>4, ConcatEmptySeq
  <2> QED BY <2>2, <2>3, <2>5
<1> QED BY <1>1, <1>2

\* The leaves alone.
LEMMA LevelsStart == ASSUME NEW leaves \in Seq(Hash) PROVE Levels(<<leaves>>)
<1> DEFINE r == <<leaves>>
<1>1. r \in Seq(Seq(Hash)) /\ r # <<>> /\ Len(r) = 1 /\ r[1] = leaves
  OBVIOUS
<1> HIDE DEF r
<1>2. Joined(r)
  BY <1>1 DEF Joined
<1>3. Sized(r)
  <2>1. Len(leaves) \in Nat /\ Len(leaves) * 1 = Len(leaves)
    OBVIOUS
  <2>2. Pow2[1 - 1] = 1
    BY Pow2Is
  <2>3. \A h \in 1..1 : h = 1
    OBVIOUS
  <2> HIDE DEF Hash
  <2>4. \A h \in 1..1 : Len(r[h]) * Pow2[h - 1] = Len(r[1])
    BY <1>1, <2>1, <2>2, <2>3, Zenon
  <2> QED BY <1>1, <2>4 DEF Sized
<1>4. Covers(r)
  <2> SUFFICES ASSUME NEW k \in 1..Len(leaves) PROVE leaves[k] = FlattenSeq(Run(leaves, 1, k))
    BY <1>1 DEF Covers
  <2>1. Run(leaves, 1, k) = <<leaves[k]>>
    BY RunOfOne
  <2>3. leaves[k] \in Seq(Contents)
    BY DEF Hash
  <2> QED BY <2>1, <2>3, FlattenOne
<1> QED BY <1>1, <1>2, <1>3, <1>4 DEF Levels, r

\* The m nodes made of the 2m in row.
Paired(row, m) == [j \in 1..m |-> row[2 * j - 1] \o row[2 * j]]

\* A level that build_merkle_tree adds.
LEMMA LevelsGrow ==
    ASSUME NEW r, Levels(r), NEW m \in Nat, Len(r[Len(r)]) = 2 * m,
           NEW up, up = Paired(r[Len(r)], m)
    PROVE  /\ Levels(Append(r, up)) /\ Len(Append(r, up)) = Len(r) + 1
           /\ Append(r, up)[Len(r) + 1] = up /\ Len(up) = m /\ Append(r, up)[1] = r[1]
<1> DEFINE q == Append(r, up)
           g == Len(r)
<1>1. /\ r \in Seq(Seq(Hash)) /\ r # <<>> /\ g \in Nat /\ g > 0
      /\ Joined(r) /\ Sized(r) /\ Covers(r) /\ \A h \in 1..g : r[h] \in Seq(Hash)
  BY DEF Levels
<1>2. up \in Seq(Hash) /\ Len(up) = m /\ \A j \in 1..m : up[j] = r[g][2 * j - 1] \o r[g][2 * j]
  <2> DEFINE e(j) == r[g][2 * j - 1] \o r[g][2 * j]
  <2>1. \A j \in 1..m : e(j) \in Hash
    <3> SUFFICES ASSUME NEW j \in 1..m PROVE e(j) \in Hash
      OBVIOUS
    <3>1. 2 * j - 1 \in 1..Len(r[g]) /\ 2 * j \in 1..Len(r[g]) /\ r[g] \in Seq(Hash)
      BY <1>1
    <3>2. r[g][2 * j - 1] \in Seq(Contents) /\ r[g][2 * j] \in Seq(Contents)
      BY <3>1 DEF Hash
    <3> QED BY <3>2, ConcatProperties DEF Hash
  <2>2. up = [j \in 1..m |-> e(j)]
    BY DEF Paired
  <2> HIDE DEF e
  <2> DEFINE X == Hash
  <2>3. \A j \in 1..m : e(j) \in X
    BY <2>1
  <2> HIDE DEF X
  <2>4. [j \in 1..m |-> e(j)] \in [1..m -> X]
    BY <2>3
  <2>5. \A f \in [1..m -> X] : f \in Seq(X) /\ Len(f) = m
    OBVIOUS
  <2>6. up \in Seq(X) /\ Len(up) = m /\ \A j \in 1..m : up[j] = e(j)
    BY <2>2, <2>4, <2>5
  <2> QED BY <2>6 DEF e, X
<1>3. /\ q \in Seq(Seq(Hash)) /\ q # <<>> /\ Len(q) = g + 1 /\ q[g + 1] = up
      /\ \A h \in 1..g : q[h] = r[h]
  BY <1>1, <1>2, AppendProperties
<1>4. q[1] = r[1] /\ r[1] \in Seq(Hash)
  BY <1>1, <1>3
<1> HIDE DEF q, g
<1>5. \A h \in 1..(g + 1) : h \in 1..g \/ h = g + 1
  BY <1>1
<1>6. Joined(q)
  <2> SUFFICES ASSUME NEW h \in 1..(g + 1), h + 1 \in 1..(g + 1)
               PROVE  /\ Len(q[h]) = 2 * Len(q[h + 1])
                      /\ \A k \in 1..Len(q[h + 1]) : q[h + 1][k] = q[h][2 * k - 1] \o q[h][2 * k]
    BY <1>3 DEF Joined
  <2>1. CASE h = g
    <3>1. q[h] = r[g] /\ q[h + 1] = up
      BY <1>1, <1>3, <2>1
    <3> QED BY <1>2, <3>1 DEF g
  <2>2. CASE h # g
    <3>1. h \in 1..g /\ h + 1 \in 1..g
      BY <1>1, <2>2
    <3>2. q[h] = r[h] /\ q[h + 1] = r[h + 1]
      BY <1>3, <3>1
    <3>3. /\ Len(r[h]) = 2 * Len(r[h + 1])
          /\ \A k \in 1..Len(r[h + 1]) : r[h + 1][k] = r[h][2 * k - 1] \o r[h][2 * k]
      BY <1>1, <3>1, Zenon DEF Joined, g
    <3> QED BY <3>2, <3>3, Zenon
  <2> QED BY <2>1, <2>2
<1>7. m * Pow2[g] = Len(r[1])
  <2>1. g \in 1..g /\ g - 1 \in Nat /\ (g - 1) + 1 = g
    BY <1>1
  <2>2. Len(r[g]) * Pow2[g - 1] = Len(r[1])
    BY <1>1, <2>1 DEF Sized, g
  <2>3. Pow2[g - 1] \in Nat /\ Pow2[g] = 2 * Pow2[g - 1]
    BY <2>1, Pow2Is
  <2>4. \A x, y \in Nat : (2 * x) * y = x * (2 * y)
    OBVIOUS
  <2>5. Len(r[g]) = 2 * m
    BY DEF g
  <2> QED BY <2>2, <2>3, <2>4, <2>5
<1>8. Sized(q)
  <2> SUFFICES ASSUME NEW h \in 1..(g + 1) PROVE Len(q[h]) * Pow2[h - 1] = Len(r[1])
    BY <1>3, <1>4 DEF Sized
  <2>1. CASE h = g + 1
    <3>1. h - 1 = g
      BY <1>1, <2>1
    <3> QED BY <1>2, <1>3, <1>7, <2>1, <3>1
  <2>2. CASE h \in 1..g
    BY <1>1, <1>3, <2>2 DEF Sized, g
  <2> QED BY <1>5, <2>1, <2>2
<1>9. Covers(q)
  <2> SUFFICES ASSUME NEW h \in 1..(g + 1), NEW k \in 1..Len(q[h])
               PROVE  q[h][k] = FlattenSeq(Run(r[1], h, k))
    BY <1>3, <1>4 DEF Covers
  <2>1. CASE h \in 1..g
    <3>1. k \in 1..Len(r[h]) /\ q[h] = r[h]
      BY <1>3, <2>1
    <3> QED BY <1>1, <2>1, <3>1 DEF Covers, g
  <2>2. CASE h = g + 1
    <3>1. k \in 1..m /\ q[h][k] = r[g][2 * k - 1] \o r[g][2 * k]
      BY <1>2, <1>3, <2>2
    <3>2. 2 * k - 1 \in 1..Len(r[g]) /\ 2 * k \in 1..Len(r[g]) /\ g \in 1..g
      BY <1>1, <3>1 DEF g
    <3>3. /\ r[g][2 * k - 1] = FlattenSeq(Run(r[1], g, 2 * k - 1))
          /\ r[g][2 * k] = FlattenSeq(Run(r[1], g, 2 * k))
      BY <1>1, <3>2 DEF Covers, g
    <3> DEFINE x == Run(r[1], g, 2 * k - 1)
               y == Run(r[1], g, 2 * k)
    <3>4. x \in Seq(Hash) /\ y \in Seq(Hash)
      <4>1. Len(r[g]) * Pow2[g - 1] = Len(r[1]) /\ Len(r[g]) \in Nat
        BY <1>1, <3>2 DEF Sized, g
      <4> QED BY <1>1, <1>4, <3>2, <4>1, RunIs
    <3>5. x \o y = Run(r[1], g + 1, k)
      BY <1>1, <1>4, <1>7, <3>1, RunsJoin
    <3> HIDE DEF x, y
    <3>6. FlattenSeq(x \o y) = FlattenSeq(x) \o FlattenSeq(y)
      BY <3>4, FlattenConcat DEF Hash
    <3> QED BY <2>2, <3>1, <3>3, <3>5, <3>6 DEF x, y
  <2> QED BY <1>5, <2>1, <2>2
<1> QED BY <1>2, <1>3, <1>4, <1>6, <1>8, <1>9 DEF Levels, q, g

-----------------------------------------------------------------------------
(* The traversals.                                                         *)

\* The function from which Leaves takes its result.
IsUnder(f, h) ==
    f = [g \in 1..h |->
            [j \in DOMAIN rows[g] |->
                IF g = 1 THEN <<rows[1][j]>> ELSE f[g - 1][2 * j - 1] \o f[g - 1][2 * j]]]

\* A level, its nodes and their children.
LEMMA LevelsTyped ==
    ASSUME Levels(rows)
    PROVE  /\ Len(rows) \in Nat /\ Len(rows) > 0 /\ DOMAIN rows = 1..Len(rows)
           /\ \A h \in 1..Len(rows) :
                /\ rows[h] \in Seq(Hash) /\ Len(rows[h]) \in Nat /\ DOMAIN rows[h] = 1..Len(rows[h])
                /\ \A k \in 1..Len(rows[h]) : rows[h][k] \in Hash
                /\ h # 1 => h - 1 \in 1..Len(rows) /\ \A k \in 1..Len(rows[h]) :
                       2 * k - 1 \in 1..Len(rows[h - 1]) /\ 2 * k \in 1..Len(rows[h - 1])
<1>1. /\ rows \in Seq(Seq(Hash)) /\ Len(rows) \in Nat /\ Len(rows) > 0 /\ Joined(rows)
      /\ DOMAIN rows = 1..Len(rows) /\ \A h \in 1..Len(rows) : rows[h] \in Seq(Hash)
  BY DEF Levels
<1>2. ASSUME NEW h \in 1..Len(rows), h # 1
      PROVE  h - 1 \in 1..Len(rows) /\ \A k \in 1..Len(rows[h]) :
                2 * k - 1 \in 1..Len(rows[h - 1]) /\ 2 * k \in 1..Len(rows[h - 1])
  <2>1. h - 1 \in 1..Len(rows) /\ (h - 1) + 1 = h
    BY <1>1, <1>2
  <2>2. Len(rows[h - 1]) = 2 * Len(rows[h])
    BY <1>1, <2>1 DEF Joined
  <2>3. Len(rows[h]) \in Nat
    BY <1>1
  <2>4. \A n \in Nat : \A k \in 1..n : 2 * k - 1 \in 1..(2 * n) /\ 2 * k \in 1..(2 * n)
    OBVIOUS
  <2> QED BY <2>1, <2>2, <2>3, <2>4
<1>3. ASSUME NEW h \in 1..Len(rows)
      PROVE  /\ rows[h] \in Seq(Hash) /\ Len(rows[h]) \in Nat /\ DOMAIN rows[h] = 1..Len(rows[h])
             /\ \A k \in 1..Len(rows[h]) : rows[h][k] \in Hash
  <2>1. rows[h] \in Seq(Hash)
    BY <1>1
  <2> QED BY <2>1, LenProperties, ElementOfSeq
<1> QED BY <1>1, <1>2, <1>3, Zenon

\* A function that has such values.
LEMMA UnderExists == ASSUME Levels(rows), NEW h \in 1..Len(rows)
                     PROVE  IsUnder([g \in 1..h |-> [j \in DOMAIN rows[g] |-> Run(rows[1], g, j)]], h)
<1> DEFINE F(g) == [j \in DOMAIN rows[g] |-> Run(rows[1], g, j)]
           f == [g \in 1..h |-> F(g)]
           e(g, j) == IF g = 1 THEN <<rows[1][j]>> ELSE f[g - 1][2 * j - 1] \o f[g - 1][2 * j]
<1>1. ASSUME NEW g \in 1..h, NEW j \in DOMAIN rows[g] PROVE Run(rows[1], g, j) = e(g, j)
  <2>1. CASE g = 1
    <3>1. rows[1] \in Seq(Hash) /\ j \in 1..Len(rows[1])
      BY <1>1, <2>1, LevelsTyped
    <3>2. Run(rows[1], 1, j) = <<rows[1][j]>>
      BY <3>1, RunOfOne
    <3> QED BY <2>1, <3>2
  <2>2. CASE g # 1
    <3>1. /\ rows[1] \in Seq(Hash) /\ j \in 1..Len(rows[g]) /\ g - 1 \in Nat /\ g - 1 > 0
          /\ (g - 1) + 1 = g /\ Len(rows[g]) \in Nat /\ g - 1 \in 1..h /\ g \in 1..Len(rows)
          /\ 2 * j - 1 \in DOMAIN rows[g - 1] /\ 2 * j \in DOMAIN rows[g - 1]
      <4>1. g \in 1..Len(rows) /\ g # 1 /\ g - 1 \in Nat /\ g - 1 > 0 /\ (g - 1) + 1 = g
            /\ g - 1 \in 1..h /\ 1 \in 1..Len(rows) /\ g - 1 \in 1..Len(rows)
        BY <1>1, <2>2
      <4>2. /\ Len(rows[g]) \in Nat /\ rows[1] \in Seq(Hash) /\ j \in 1..Len(rows[g])
            /\ DOMAIN rows[g - 1] = 1..Len(rows[g - 1])
        BY <1>1, <4>1, LevelsTyped
      <4>3. 2 * j - 1 \in 1..Len(rows[g - 1]) /\ 2 * j \in 1..Len(rows[g - 1])
        BY <4>1, <4>2, LevelsTyped
      <4> QED BY <4>1, <4>2, <4>3
    <3>2. Len(rows[g]) * Pow2[g - 1] = Len(rows[1])
      BY <3>1 DEF Levels, Sized
    <3>3. Run(rows[1], g - 1, 2 * j - 1) \o Run(rows[1], g - 1, 2 * j) = Run(rows[1], (g - 1) + 1, j)
      BY <3>1, <3>2, RunsJoin
    <3>4. f[g - 1] = F(g - 1)
      BY <3>1
    <3>5. /\ F(g - 1)[2 * j - 1] = Run(rows[1], g - 1, 2 * j - 1)
          /\ F(g - 1)[2 * j] = Run(rows[1], g - 1, 2 * j)
      BY <3>1
    <3> HIDE DEF F, f
    <3> QED BY <2>2, <3>1, <3>3, <3>4, <3>5
  <2> QED BY <2>1, <2>2
<1>2. ASSUME NEW g \in 1..h PROVE F(g) = [j \in DOMAIN rows[g] |-> e(g, j)]
  <2> HIDE DEF e
  <2> QED BY <1>1
<1>3. f = [g \in 1..h |-> [j \in DOMAIN rows[g] |-> e(g, j)]]
  <2> HIDE DEF e, F
  <2> QED BY <1>2
<1> QED BY <1>3, Zenon DEF IsUnder

\* traverse_subtree_hashes finds the run of leaves that the node's place says.
LEMMA LeavesAre ==
    ASSUME Levels(rows), NEW h \in 1..Len(rows), NEW k \in 1..Len(rows[h])
    PROVE  Leaves(h, k) = Run(rows[1], h, k)
<1> DEFINE f == CHOOSE f : IsUnder(f, h)
<1>1. IsUnder(f, h)
  BY UnderExists
<1>2. Leaves(h, k) = f[h][k]
  BY DEF Leaves, IsUnder
<1> HIDE DEF f
<1>3. \A g \in 1..h : \A j \in DOMAIN rows[g] :
         f[g][j] = IF g = 1 THEN <<rows[1][j]>> ELSE f[g - 1][2 * j - 1] \o f[g - 1][2 * j]
  <2>1. f = [g \in 1..h |-> [j \in DOMAIN rows[g] |->
                IF g = 1 THEN <<rows[1][j]>> ELSE f[g - 1][2 * j - 1] \o f[g - 1][2 * j]]]
    BY <1>1 DEF IsUnder
  <2> DEFINE e(g, j) == IF g = 1 THEN <<rows[1][j]>> ELSE f[g - 1][2 * j - 1] \o f[g - 1][2 * j]
  <2>2. f = [g \in 1..h |-> [j \in DOMAIN rows[g] |-> e(g, j)]]
    BY <2>1, Zenon
  <2> HIDE DEF e
  <2>3. \A g \in 1..h : f[g] = [j \in DOMAIN rows[g] |-> e(g, j)]
    BY <2>2
  <2>4. \A g \in 1..h : \A j \in DOMAIN rows[g] : f[g][j] = e(g, j)
    BY <2>3
  <2> QED BY <2>4 DEF e
<1> DEFINE T == {g \in Nat : g + 1 \in 1..h => \A j \in 1..Len(rows[g + 1]) : f[g + 1][j] = Run(rows[1], g + 1, j)}
<1>4. 0 \in T
  <2>1. 1 \in 1..h /\ rows[1] \in Seq(Hash) /\ DOMAIN rows[1] = 1..Len(rows[1])
    BY LevelsTyped
  <2>2. \A j \in 1..Len(rows[1]) : f[1][j] = <<rows[1][j]>>
    BY <1>3, <2>1
  <2>3. \A j \in 1..Len(rows[1]) : Run(rows[1], 1, j) = <<rows[1][j]>>
    BY <2>1, RunOfOne
  <2> QED BY <2>2, <2>3
<1>5. ASSUME NEW g \in Nat, g \in T PROVE g + 1 \in T
  <2> SUFFICES ASSUME (g + 1) + 1 \in 1..h, NEW j \in 1..Len(rows[(g + 1) + 1])
               PROVE  f[(g + 1) + 1][j] = Run(rows[1], (g + 1) + 1, j)
    OBVIOUS
  <2> DEFINE n == (g + 1) + 1
  <2>1. n \in 1..h /\ n \in 1..Len(rows) /\ n # 1 /\ n - 1 = g + 1 /\ g + 1 \in 1..h
        /\ g + 1 \in Nat /\ g + 1 > 0
    OBVIOUS
  <2>2. /\ rows[1] \in Seq(Hash) /\ Len(rows[n]) \in Nat /\ DOMAIN rows[n] = 1..Len(rows[n])
        /\ 2 * j - 1 \in 1..Len(rows[g + 1]) /\ 2 * j \in 1..Len(rows[g + 1])
    <3>1. rows[1] \in Seq(Hash) /\ Len(rows[n]) \in Nat /\ DOMAIN rows[n] = 1..Len(rows[n])
      BY <2>1, LevelsTyped
    <3>2. j \in 1..Len(rows[n])
      OBVIOUS
    <3> HIDE DEF n
    <3>3. 2 * j - 1 \in 1..Len(rows[n - 1]) /\ 2 * j \in 1..Len(rows[n - 1])
      BY <2>1, <3>2, LevelsTyped
    <3> QED BY <2>1, <3>1, <3>3
  <2>3. f[n][j] = f[g + 1][2 * j - 1] \o f[g + 1][2 * j]
    BY <1>3, <2>1, <2>2
  <2>4. f[g + 1][2 * j - 1] = Run(rows[1], g + 1, 2 * j - 1) /\ f[g + 1][2 * j] = Run(rows[1], g + 1, 2 * j)
    BY <1>5, <2>1, <2>2
  <2>5. Len(rows[n]) * Pow2[g + 1] = Len(rows[1])
    BY <2>1 DEF Levels, Sized
  <2>6. Run(rows[1], g + 1, 2 * j - 1) \o Run(rows[1], g + 1, 2 * j) = Run(rows[1], (g + 1) + 1, j)
    BY <2>1, <2>2, <2>5, RunsJoin
  <2> QED BY <2>3, <2>4, <2>6
<1>6. \A g \in Nat : g \in T
  <2> HIDE DEF T
  <2> QED BY <1>4, <1>5, SetInduction
<1>7. h - 1 \in T /\ (h - 1) + 1 = h /\ h \in 1..h
  <2>1. h - 1 \in Nat
    OBVIOUS
  <2> HIDE DEF T
  <2> QED BY <1>6, <2>1
<1> QED BY <1>2, <1>7

\* What get_root_complete_subtree finds under node k of level h, when it finds left
\* under its left child and right under its right one.
Visited(h, k, left, right) ==
    left \o IF HashExists(rows[h][k]) THEN <<rows[h][k]>> ELSE right

\* The function from which CompleteSubtrees takes its result.
IsVisit(f) ==
    f = [h \in DOMAIN rows |->
            [k \in DOMAIN rows[h] |->
                (IF h = 1 THEN <<>> ELSE f[h - 1][2 * k - 1]) \o
                IF HashExists(rows[h][k]) THEN <<rows[h][k]>>
                ELSE IF h = 1 THEN <<>> ELSE f[h - 1][2 * k]]]

\* What one visit returns, and which hashes are in it.
LEMMA VisitedTyped ==
    ASSUME Levels(rows), NEW h \in 1..Len(rows), NEW k \in 1..Len(rows[h]),
           NEW left \in Seq(Hash), NEW right \in Seq(Hash)
    PROVE  /\ Visited(h, k, left, right) \in Seq(Hash)
           /\ Range(Visited(h, k, left, right)) =
                Range(left) \cup IF HashExists(rows[h][k]) THEN {rows[h][k]} ELSE Range(right)
<1> DEFINE x == rows[h][k]
<1>1. x \in Hash
  BY LevelsTyped
<1> HIDE DEF x
<1>2. <<x>> \in Seq(Hash) /\ Range(<<x>>) = {x}
  BY <1>1 DEF Range
<1>3. CASE HashExists(x)
  <2>1. Visited(h, k, left, right) = left \o <<x>>
    BY <1>3 DEF Visited, x
  <2>2. left \o <<x>> \in Seq(Hash) /\ Range(left \o <<x>>) = Range(left) \cup Range(<<x>>)
    BY <1>2, ConcatProperties, RangeConcatenation
  <2> QED BY <1>2, <1>3, <2>1, <2>2 DEF x
<1>4. CASE ~HashExists(x)
  <2>1. Visited(h, k, left, right) = left \o right
    BY <1>4 DEF Visited, x
  <2>2. left \o right \in Seq(Hash) /\ Range(left \o right) = Range(left) \cup Range(right)
    BY ConcatProperties, RangeConcatenation
  <2> QED BY <1>4, <2>1, <2>2 DEF x
<1> QED BY <1>3, <1>4

\* There is such a function, level by level from the leaves.
LEMMA VisitExists == ASSUME Levels(rows) PROVE \E f : IsVisit(f)
<1> DEFINE N == Len(rows)
           X == [Nat -> Seq(Hash)]
           In(h, k) == h \in 1..N /\ k \in 1..Len(rows[h])
           a == [k \in Nat |-> IF In(1, k) THEN Visited(1, k, <<>>, <<>>) ELSE <<>>]
           step(i, x) == [k \in Nat |-> IF In(i + 2, k) THEN Visited(i + 2, k, x[2 * k - 1], x[2 * k])
                                        ELSE <<>>]
           G == [i \in Nat |-> [x \in X |-> step(i, x)]]
<1>1. <<>> \in Seq(Hash) /\ N \in Nat /\ DOMAIN rows = 1..N /\ \A h \in 1..N : DOMAIN rows[h] = 1..Len(rows[h])
  BY LevelsTyped
<1>2. a \in X
  <2> HIDE DEF N
  <2>1. \A k \in Nat : In(1, k) => Visited(1, k, <<>>, <<>>) \in Seq(Hash)
    BY <1>1, VisitedTyped DEF N
  <2> QED BY <1>1, <2>1
<1>3. ASSUME NEW i \in Nat, NEW x \in X PROVE step(i, x) \in X
  <2>1. ASSUME NEW k \in Nat, In(i + 2, k) PROVE Visited(i + 2, k, x[2 * k - 1], x[2 * k]) \in Seq(Hash)
    <3>1. k > 0 /\ i + 2 \in 1..Len(rows) /\ k \in 1..Len(rows[i + 2])
      BY <2>1, LevelsTyped
    <3>2. 2 * k - 1 \in Nat /\ 2 * k \in Nat
      BY <3>1
    <3>3. x[2 * k - 1] \in Seq(Hash) /\ x[2 * k] \in Seq(Hash)
      BY <3>2
    <3> QED BY <3>1, <3>3, VisitedTyped
  <2> HIDE DEF In
  <2> QED BY <1>1, <2>1
<1>4. G \in [Nat -> [X -> X]]
  <2> HIDE DEF X, step
  <2> QED BY <1>3
<1>5. PICK f : Iterates(f, X, a, G)
  <2> HIDE DEF X, a, G
  <2> QED BY <1>2, <1>4, Recursion
<1>6. f[0] = a /\ \A i \in Nat : f[i] \in X /\ f[i + 1] = step(i, f[i])
  <2> HIDE DEF X, a, step
  <2>1. f \in [Nat -> X] /\ f[0] = a /\ \A i \in Nat : f[i + 1] = G[i][f[i]]
    BY <1>5 DEF Iterates
  <2> QED BY <2>1
<1> DEFINE v == [h \in 1..N |-> [k \in 1..Len(rows[h]) |-> f[h - 1][k]]]
           e(h, k) == (IF h = 1 THEN <<>> ELSE v[h - 1][2 * k - 1]) \o
                      IF HashExists(rows[h][k]) THEN <<rows[h][k]>>
                      ELSE IF h = 1 THEN <<>> ELSE v[h - 1][2 * k]
<1>7. ASSUME NEW h \in 1..N, NEW k \in 1..Len(rows[h]) PROVE f[h - 1][k] = e(h, k)
  <2>0. k \in Nat /\ h \in Nat /\ Len(rows[h]) \in Nat
    BY <1>7, LevelsTyped
  <2>1. CASE h = 1
    <3>1. f[0][k] = Visited(1, k, <<>>, <<>>)
      <4> HIDE DEF N
      <4> QED BY <1>6, <1>7, <2>0, <2>1
    <3>2. h - 1 = 0
      BY <2>1
    <3> HIDE DEF v
    <3> QED BY <2>1, <3>1, <3>2, Zenon DEF Visited
  <2>2. CASE h # 1
    <3>1. h - 2 \in Nat /\ (h - 2) + 1 = h - 1 /\ (h - 2) + 2 = h /\ h - 1 \in 1..N /\ (h - 1) - 1 = h - 2
      BY <1>1, <2>0, <2>2
    <3>2. 2 * k - 1 \in 1..Len(rows[h - 1]) /\ 2 * k \in 1..Len(rows[h - 1])
      BY <1>7, <2>2, LevelsTyped
    <3>3. f[h - 1] = step(h - 2, f[h - 2])
      <4> HIDE DEF step
      <4>1. f[(h - 2) + 1] = step(h - 2, f[h - 2])
        BY <1>6, <3>1
      <4> QED BY <3>1, <4>1
    <3>4. f[h - 1][k] = Visited(h, k, f[h - 2][2 * k - 1], f[h - 2][2 * k])
      <4>1. In(h, k)
        BY <1>7
      <4> HIDE DEF In
      <4> QED BY <2>0, <3>1, <3>3, <4>1
    <3>5. v[h - 1][2 * k - 1] = f[h - 2][2 * k - 1] /\ v[h - 1][2 * k] = f[h - 2][2 * k]
      <4>1. v[h - 1] = [j \in 1..Len(rows[h - 1]) |-> f[(h - 1) - 1][j]]
        BY <3>1
      <4> HIDE DEF v
      <4> QED BY <3>1, <3>2, <4>1
    <3> HIDE DEF v
    <3> QED BY <2>2, <3>4, <3>5, Zenon DEF Visited
  <2> QED BY <2>1, <2>2
<1>8. \A h \in 1..N : [k \in 1..Len(rows[h]) |-> f[h - 1][k]] = [k \in 1..Len(rows[h]) |-> e(h, k)]
  <2> HIDE DEF e
  <2> QED BY <1>7
<1>9. v = [h \in 1..N |-> [k \in 1..Len(rows[h]) |-> e(h, k)]]
  <2>1. v = [h \in 1..N |-> [k \in 1..Len(rows[h]) |-> f[h - 1][k]]]
    OBVIOUS
  <2> HIDE DEF e, v, N
  <2> QED BY <1>8, <2>1
<1>10. v = [h \in DOMAIN rows |-> [k \in DOMAIN rows[h] |-> e(h, k)]]
  <2> HIDE DEF e, v, N
  <2> QED BY <1>1, <1>9
<1> HIDE DEF v
<1>11. IsVisit(v)
  BY <1>10, Zenon DEF IsVisit
<1> QED BY <1>11

\* What it gives, level by level.
LEMMA VisitIs ==
    ASSUME Levels(rows)
    PROVE  \E f : /\ CompleteSubtrees = f[Len(rows)][1]
                  /\ \A h \in 1..Len(rows) : \A k \in 1..Len(rows[h]) :
                        f[h][k] = IF h = 1 THEN Visited(h, k, <<>>, <<>>)
                                  ELSE Visited(h, k, f[h - 1][2 * k - 1], f[h - 1][2 * k])
<1> DEFINE f == CHOOSE f : IsVisit(f)
<1>1. IsVisit(f)
  BY VisitExists
<1>2. CompleteSubtrees = f[Len(rows)][1]
  BY DEF CompleteSubtrees, IsVisit
<1> HIDE DEF f
<1> DEFINE e(h, k) == (IF h = 1 THEN <<>> ELSE f[h - 1][2 * k - 1]) \o
                      IF HashExists(rows[h][k]) THEN <<rows[h][k]>>
                      ELSE IF h = 1 THEN <<>> ELSE f[h - 1][2 * k]
<1>3. f = [h \in DOMAIN rows |-> [k \in DOMAIN rows[h] |-> e(h, k)]]
  BY <1>1, Zenon DEF IsVisit
<1>4. \A h \in DOMAIN rows : \A k \in DOMAIN rows[h] : f[h][k] = e(h, k)
  <2> HIDE DEF e
  <2>1. \A h \in DOMAIN rows : f[h] = [k \in DOMAIN rows[h] |-> e(h, k)]
    BY <1>3
  <2> QED BY <2>1
<1>5. ASSUME NEW h \in 1..Len(rows), NEW k \in 1..Len(rows[h])
      PROVE  f[h][k] = IF h = 1 THEN Visited(h, k, <<>>, <<>>)
                       ELSE Visited(h, k, f[h - 1][2 * k - 1], f[h - 1][2 * k])
  <2>1. f[h][k] = e(h, k)
    <3> HIDE DEF e
    <3> QED BY <1>4, LevelsTyped
  <2>2. CASE h = 1
    BY <2>1, <2>2, Zenon DEF Visited
  <2>3. CASE h # 1
    BY <2>1, <2>3, Zenon DEF Visited
  <2> QED BY <2>2, <2>3
<1> QED BY <1>2, <1>5

\* Node j of level g has a proper ancestor of the package's, up to level h.
Shadowed(h, g, j) ==
    \E i \in (g + 1)..h : \E x \in 1..Len(rows[i]) : Above(i, x, g, j) /\ rows[i][x] \in Known

\* What the visit of node k of level h, f[h][k], must have found.
Found(f, h, k) ==
    /\ f[h][k] \in Seq(Hash)
    /\ Range(f[h][k]) \subseteq Known
    /\ \A g \in 1..h : \A j \in 1..Len(rows[g]) :
          Above(h, k, g, j) /\ rows[g][j] \in Known /\ ~Shadowed(h, g, j)
          => rows[g][j] \in Range(f[h][k])

\* hash_exists is membership in the package's hashes.
LEMMA KnownExists == \A hash : HashExists(hash) <=> hash \in Known
  BY DEF HashExists, Known

\* A node below another is below one of its children, or is that node.
LEMMA AboveSelf ==
    ASSUME NEW h \in Nat, NEW k \in Nat, NEW j \in Nat, Above(h, k, h, j)
    PROVE  j = k
<1>1. h - h = 0 /\ Pow2[0] = 1 /\ (k - 1) * 1 = k - 1 /\ k * 1 = k
  BY Pow2Is
<1>2. Pow2[h - h] = 1
  BY <1>1
<1>3. (k - 1) * 1 < j /\ j <= k * 1
  BY <1>2, Zenon DEF Above
<1> QED BY <1>1, <1>3

\* What is below a node, and not the node, is below one of its two children.
LEMMA AboveChild ==
    ASSUME NEW h \in Nat, NEW g \in Nat, g <= h, NEW k \in Nat, NEW j \in Nat, Above(h + 1, k, g, j)
    PROVE  Above(h, 2 * k - 1, g, j) \/ Above(h, 2 * k, g, j)
<1> DEFINE p == Pow2[h - g]
<1>1. h - g \in Nat /\ (h + 1) - g = (h - g) + 1
  OBVIOUS
<1>2. p \in Nat /\ Pow2[(h + 1) - g] = 2 * p
  BY <1>1, Pow2Is
<1>3. (k - 1) * (2 * p) < j /\ j <= k * (2 * p)
  BY <1>2 DEF Above
<1>4. Above(h, 2 * k - 1, g, j) <=> ((2 * k - 1) - 1) * p < j /\ j <= (2 * k - 1) * p
  BY DEF Above
<1>5. Above(h, 2 * k, g, j) <=> (2 * k - 1) * p < j /\ j <= (2 * k) * p
  BY DEF Above
<1> HIDE DEF p
<1>6. ((2 * k - 1) - 1) * p = (k - 1) * (2 * p) /\ (2 * k) * p = k * (2 * p)
  <2>1. \A x \in Int, y \in Nat : (2 * x) * y = x * (2 * y)
    OBVIOUS
  <2>2. (2 * k - 1) - 1 = 2 * (k - 1) /\ k - 1 \in Int /\ k \in Int
    OBVIOUS
  <2>3. (2 * (k - 1)) * p = (k - 1) * (2 * p) /\ (2 * k) * p = k * (2 * p)
    BY <1>2, <2>1, <2>2
  <2> QED BY <2>2, <2>3
<1> DEFINE b == (2 * k - 1) * p
<1>7. b \in Int
  <2>1. \A x \in Int, y \in Nat : x * y \in Int
    OBVIOUS
  <2>2. 2 * k - 1 \in Int
    OBVIOUS
  <2> QED BY <1>2, <2>1, <2>2
<1> HIDE DEF b
<1>8. j <= b \/ b < j
  BY <1>7
<1> QED BY <1>3, <1>4, <1>5, <1>6, <1>8 DEF b

\* The whole tree is under its root.
LEMMA AboveAll ==
    ASSUME Levels(rows), Len(Current) = 1, NEW g \in 1..Len(rows), NEW j \in 1..Len(rows[g])
    PROVE  Above(Len(rows), 1, g, j)
<1> DEFINE N == Len(rows)
<1>1. N \in Nat /\ N > 0 /\ N \in 1..N /\ Len(rows[N]) = 1 /\ Len(rows[g]) \in Nat
  BY LevelsTyped DEF Current, Last
<1>2. Len(rows[g]) * Pow2[g - 1] = Len(rows[1]) /\ 1 * Pow2[N - 1] = Len(rows[1])
  BY <1>1 DEF Levels, Sized
<1>3. N - g \in Nat /\ g - 1 \in Nat /\ (N - g) + (g - 1) = N - 1 /\ N - 1 \in Nat
  BY <1>1
<1>4. Pow2[N - 1] = Pow2[N - g] * Pow2[g - 1]
  BY <1>3, Pow2Sum
<1>5. Pow2[N - g] \in Nat /\ Pow2[g - 1] \in Nat /\ Pow2[g - 1] > 0 /\ Pow2[N - 1] \in Nat
  BY <1>3, Pow2Is
<1>6. \A x, y, z \in Nat : x * z = y * z /\ z > 0 => x = y
  <2>1. \A x, y, z \in Nat : z > 0 /\ x < y => x * z # y * z
    OBVIOUS
  <2>2. \A x, y \in Nat : x < y \/ y < x \/ x = y
    OBVIOUS
  <2> QED BY <2>1, <2>2
<1>7. Len(rows[g]) = Pow2[N - g]
  <2>1. 1 * Pow2[N - 1] = Pow2[N - 1]
    BY <1>5
  <2>2. Len(rows[g]) * Pow2[g - 1] = Pow2[N - g] * Pow2[g - 1]
    BY <1>2, <1>4, <2>1
  <2> QED BY <1>1, <1>5, <1>6, <2>2
<1>8. (1 - 1) * Pow2[N - g] < j /\ j <= 1 * Pow2[N - g]
  BY <1>1, <1>5, <1>7
<1> QED BY <1>8, Zenon DEF Above

\* A node is in the answer of its own visit, or what its children's visits found is.
LEMMA FoundAbove ==
    ASSUME Levels(rows), NEW h \in 1..Len(rows), NEW k \in 1..Len(rows[h]), NEW f, h # 1,
           f[h][k] = Visited(h, k, f[h - 1][2 * k - 1], f[h - 1][2 * k]),
           Found(f, h - 1, 2 * k - 1), Found(f, h - 1, 2 * k)
    PROVE  Found(f, h, k)
<1> DEFINE left == f[h - 1][2 * k - 1]
           right == f[h - 1][2 * k]
<1>1. /\ left \in Seq(Hash) /\ Range(left) \subseteq Known
      /\ right \in Seq(Hash) /\ Range(right) \subseteq Known
  BY DEF Found
<1>2. f[h][k] = Visited(h, k, left, right)
  OBVIOUS
<1> HIDE DEF left, right
<1>3. /\ f[h][k] \in Seq(Hash)
      /\ Range(f[h][k]) = Range(left) \cup IF HashExists(rows[h][k]) THEN {rows[h][k]} ELSE Range(right)
  BY <1>1, <1>2, VisitedTyped
<1>4. Range(f[h][k]) \subseteq Known
  BY <1>1, <1>3, KnownExists
<1>5. ASSUME NEW g \in 1..h, NEW j \in 1..Len(rows[g]), Above(h, k, g, j), rows[g][j] \in Known,
             ~Shadowed(h, g, j)
      PROVE  rows[g][j] \in Range(f[h][k])
  <2>0. h \in Nat /\ g \in Nat /\ k \in Nat /\ j \in Nat /\ g \in 1..Len(rows)
    BY LevelsTyped
  <2>1. CASE g = h
    <3>1. j = k
      BY <1>5, <2>0, <2>1, AboveSelf
    <3>2. HashExists(rows[h][k])
      BY <1>5, <2>1, <3>1, KnownExists
    <3> QED BY <1>3, <2>1, <3>1, <3>2
  <2>2. CASE g # h
    <3>1. g \in 1..(h - 1) /\ h - 1 \in Nat /\ g <= h - 1 /\ (h - 1) + 1 = h
      BY <2>0, <2>2
    <3>2. ~HashExists(rows[h][k])
      <4>1. h \in (g + 1)..h
        BY <2>0, <2>2
      <4> QED BY <1>5, <4>1, KnownExists DEF Shadowed
    <3>3. ~Shadowed(h - 1, g, j)
      <4>1. \A i \in (g + 1)..(h - 1) : i \in (g + 1)..h
        BY <2>0
      <4> QED BY <1>5, <4>1, Zenon DEF Shadowed
    <3>4. Above(h - 1, 2 * k - 1, g, j) \/ Above(h - 1, 2 * k, g, j)
      <4> DEFINE n == h - 1
      <4>1. n \in Nat /\ g <= n /\ Above(n + 1, k, g, j)
        BY <1>5, <3>1
      <4> HIDE DEF n
      <4>2. Above(n, 2 * k - 1, g, j) \/ Above(n, 2 * k, g, j)
        BY <2>0, <4>1, AboveChild
      <4> QED BY <4>2 DEF n
    <3>5. rows[g][j] \in Range(left) \/ rows[g][j] \in Range(right)
      BY <1>5, <3>1, <3>3, <3>4, Zenon DEF Found, left, right
    <3> QED BY <1>3, <3>2, <3>5
  <2> QED BY <2>1, <2>2
<1> QED BY <1>3, <1>4, <1>5 DEF Found

\* The visit of a leaf finds it.
LEMMA FoundLeaf ==
    ASSUME Levels(rows), NEW k \in 1..Len(rows[1]), NEW f, f[1][k] = Visited(1, k, <<>>, <<>>)
    PROVE  Found(f, 1, k)
<1> DEFINE none == <<>>
<1>1. 1 \in 1..Len(rows) /\ none \in Seq(Hash) /\ Range(none) = {}
  BY LevelsTyped DEF Range
<1>2. f[1][k] = Visited(1, k, none, none)
  OBVIOUS
<1> HIDE DEF none
<1>3. /\ Visited(1, k, none, none) \in Seq(Hash)
      /\ Range(Visited(1, k, none, none)) =
            Range(none) \cup IF HashExists(rows[1][k]) THEN {rows[1][k]} ELSE Range(none)
  <2> DEFINE one == 1
  <2>1. one \in 1..Len(rows) /\ k \in 1..Len(rows[one])
    BY <1>1
  <2> HIDE DEF one
  <2>2. /\ Visited(one, k, none, none) \in Seq(Hash)
        /\ Range(Visited(one, k, none, none)) =
              Range(none) \cup IF HashExists(rows[one][k]) THEN {rows[one][k]} ELSE Range(none)
    BY <1>1, <2>1, VisitedTyped
  <2> QED BY <2>2 DEF one
<1>4. f[1][k] \in Seq(Hash) /\ Range(f[1][k]) = IF HashExists(rows[1][k]) THEN {rows[1][k]} ELSE {}
  BY <1>1, <1>2, <1>3
<1>5. ASSUME NEW g \in 1..1, NEW j \in 1..Len(rows[g]), Above(1, k, g, j), rows[g][j] \in Known
      PROVE  rows[g][j] \in Range(f[1][k])
  <2>1. g = 1 /\ j \in Nat /\ k \in Nat /\ 1 \in Nat
    BY <1>1, LevelsTyped
  <2>2. j = k
    BY <1>5, <2>1, AboveSelf
  <2> QED BY <1>4, <1>5, <2>1, <2>2, KnownExists
<1> QED BY <1>4, <1>5, KnownExists DEF Found

\* get_root_complete_subtree returns hashes of the package only, and every complete
\* subtree that is not part of a larger one.
LEMMA SubtreesFound ==
    ASSUME Levels(rows), Len(Current) = 1
    PROVE  /\ CompleteSubtrees \in Seq(Hash)
           /\ Range(CompleteSubtrees) \subseteq Known
           /\ \A h \in DOMAIN rows : \A k \in DOMAIN rows[h] :
                 rows[h][k] \in Known /\ ~UnderComplete(h, k) => rows[h][k] \in Range(CompleteSubtrees)
<1> DEFINE N == Len(rows)
<1>0. /\ N \in Nat /\ N > 0 /\ DOMAIN rows = 1..N /\ Len(rows[N]) = 1
      /\ \A h \in 1..N : DOMAIN rows[h] = 1..Len(rows[h])
  BY LevelsTyped DEF Current, Last
<1>1. PICK f : /\ CompleteSubtrees = f[N][1]
               /\ \A h \in 1..N : \A k \in 1..Len(rows[h]) :
                     f[h][k] = IF h = 1 THEN Visited(h, k, <<>>, <<>>)
                               ELSE Visited(h, k, f[h - 1][2 * k - 1], f[h - 1][2 * k])
  BY VisitIs
<1> DEFINE T == {n \in Nat : n + 1 \in 1..N => \A k \in 1..Len(rows[n + 1]) : Found(f, n + 1, k)}
<1>2. 0 \in T
  <2>1. 1 \in 1..N
    BY <1>0
  <2>2. \A k \in 1..Len(rows[1]) : f[1][k] = Visited(1, k, <<>>, <<>>)
    BY <1>1, <2>1
  <2> QED BY <2>2, FoundLeaf
<1>3. ASSUME NEW n \in Nat, n \in T PROVE n + 1 \in T
  <2> SUFFICES ASSUME (n + 1) + 1 \in 1..N, NEW k \in 1..Len(rows[(n + 1) + 1])
               PROVE  Found(f, (n + 1) + 1, k)
    OBVIOUS
  <2> DEFINE h == (n + 1) + 1
  <2>1. h \in 1..N /\ h # 1 /\ h - 1 = n + 1 /\ n + 1 \in 1..N /\ k \in 1..Len(rows[h])
    BY <1>0
  <2> HIDE DEF h
  <2>2. 2 * k - 1 \in 1..Len(rows[h - 1]) /\ 2 * k \in 1..Len(rows[h - 1])
    BY <2>1, LevelsTyped
  <2>3. Found(f, h - 1, 2 * k - 1) /\ Found(f, h - 1, 2 * k)
    BY <1>3, <2>1, <2>2
  <2>4. f[h][k] = Visited(h, k, f[h - 1][2 * k - 1], f[h - 1][2 * k])
    BY <1>1, <2>1
  <2>5. Found(f, h, k)
    BY <2>1, <2>3, <2>4, FoundAbove
  <2> QED BY <2>5 DEF h
<1>4. \A n \in Nat : n \in T
  <2> HIDE DEF T
  <2> QED BY <1>2, <1>3, SetInduction
<1>5. Found(f, N, 1)
  <2>1. N - 1 \in Nat /\ (N - 1) + 1 = N /\ N \in 1..N /\ 1 \in 1..Len(rows[N])
    BY <1>0
  <2>2. N - 1 \in T
    <3> HIDE DEF T
    <3> QED BY <1>4, <2>1
  <2> QED BY <2>1, <2>2
<1>6. CompleteSubtrees \in Seq(Hash) /\ Range(CompleteSubtrees) \subseteq Known
  BY <1>1, <1>5 DEF Found
<1>7. ASSUME NEW g \in 1..N, NEW j \in 1..Len(rows[g]), rows[g][j] \in Known, ~UnderComplete(g, j)
      PROVE  rows[g][j] \in Range(CompleteSubtrees)
  <2>1. Above(N, 1, g, j)
    BY AboveAll
  <2>2. ~Shadowed(N, g, j)
    <3>1. \A i \in (g + 1)..N : i \in 1..N
      BY <1>0
    <3>2. \A i \in (g + 1)..N : DOMAIN rows[i] = 1..Len(rows[i])
      BY <1>0, <3>1
    <3> QED BY <1>7, <3>2 DEF Shadowed, UnderComplete
  <2> QED BY <1>1, <1>5, <1>7, <2>1, <2>2 DEF Found
<1> QED BY <1>0, <1>6, <1>7

-----------------------------------------------------------------------------
(* build_merkle_tree.                                                      *)

TreeTyped ==
    /\ num_nodes \in Nat /\ level \in Nat /\ warned \in BOOLEAN
    /\ tree \in {"none", "building", "built", "crash"}
    /\ tree = "none" <=> rows = <<>>

\* Why the loop is where it is: it has ended at one node or none, or was stopped
\* at an odd level.
Progress ==
    /\ tree = "built" => Len(Current) <= 1
    /\ tree = "crash" => Len(Current) > 1 /\ Len(Current) % 2 = 1

\* The levels that are there, their nodes, and the height that level counts from.
TreeShape ==
    tree # "none" =>
        /\ Levels(rows)
        /\ num_nodes + Len(Current) = 2 * Len(rows[1])
        /\ level + Len(rows) = Height(Len(rows[1])) + 1
        /\ Len(rows) = 1 => ~warned

TreeInv == TreeTyped /\ TreeShape /\ Progress /\ WarningIsRight

\* The expected height is a number, for no leaves too.
LEMMA HeightTyped == ASSUME NEW n \in Nat PROVE Height(n) \in Nat
<1>1. CASE n = 0
  BY <1>1 DEF Height
<1>2. CASE n # 0
  BY <1>2, HeightIs
<1> QED BY <1>1, <1>2

\* The last level, as one of them.
LEMMA CurrentIs ==
    ASSUME Levels(rows)
    PROVE  /\ Len(rows) \in Nat /\ Len(rows) > 0 /\ Len(rows) - 1 \in Nat /\ Current = rows[Len(rows)]
           /\ Current \in Seq(Hash) /\ Len(Current) \in Nat /\ rows[1] \in Seq(Hash) /\ Len(rows[1]) \in Nat
           /\ Len(Current) * Pow2[Len(rows) - 1] = Len(rows[1])
<1>1. Len(rows) \in 1..Len(rows) /\ Len(rows) \in Nat /\ Len(rows) > 0 /\ 1 \in 1..Len(rows)
  BY LevelsTyped
<1>2. Current = rows[Len(rows)]
  BY DEF Current, Last
<1>3. Len(rows[Len(rows)]) * Pow2[Len(rows) - 1] = Len(rows[1])
  BY <1>1 DEF Levels, Sized
<1> QED BY <1>1, <1>2, <1>3, LevelsTyped

\* build_merkle_tree is entered with the invariant.
LEMMA TreeStarts ==
    ASSUME NEW leaves \in Seq(Hash), StartTree(leaves)
    PROVE  TreeInv' /\ rows' # <<>> /\ rows'[1] = leaves /\ tree' = "building"
<1>1. /\ rows' = <<leaves>> /\ num_nodes' = Len(leaves) /\ tree' = "building"
      /\ level' = Height(Len(leaves)) /\ warned' = FALSE
  BY DEF StartTree
<1>2. Levels(<<leaves>>)
  BY LevelsStart
<1>3. Len(rows') = 1 /\ rows'[1] = leaves /\ rows' # <<>> /\ Len(leaves) \in Nat
  BY <1>1
<1>4. Current' = leaves
  BY <1>3 DEF Current, Last
<1>5. Height(Len(leaves)) \in Nat
  BY <1>3, HeightTyped
<1>6. TreeTyped'
  BY <1>1, <1>3, <1>5 DEF TreeTyped
<1>7. TreeShape'
  <2>1. Levels(rows')
    BY <1>1, <1>2
  <2>2. Levels(rows)'
    BY <2>1 DEF Levels, Joined, Sized, Covers
  <2>3. \A n \in Nat : n + n = 2 * n
    OBVIOUS
  <2> QED BY <1>1, <1>3, <1>4, <2>2, <2>3 DEF TreeShape
<1>8. Progress' /\ WarningIsRight'
  BY <1>1, <1>3 DEF Progress, WarningIsRight
<1> QED BY <1>1, <1>3, <1>6, <1>7, <1>8 DEF TreeInv

\* A node can only be made while the level counter is above the leaves' parents.
LEMMA LevelLeft ==
    ASSUME Levels(rows), level \in Nat, level + Len(rows) = Height(Len(rows[1])) + 1, Len(Current) > 1
    PROVE  level - 1 \in Nat /\ level - 2 \in Nat
<1> DEFINE n == Len(rows[1])
           r == Len(rows)
           c == Len(Current)
<1>1. n \in Nat /\ r \in Nat /\ r > 0 /\ r - 1 \in Nat /\ c \in Nat /\ c > 1 /\ c * Pow2[r - 1] = n
      /\ level + r = Height(n) + 1
  BY CurrentIs
<1> HIDE DEF n, r, c
<1>2. Pow2[r - 1] \in Nat /\ Pow2[r - 1] > 0
  BY <1>1, Pow2Is
<1>3. 2 * Pow2[r - 1] <= n /\ n # 0
  <2>1. \A x \in Nat : x > 0 => 2 * x <= c * x
    BY <1>1
  <2> QED BY <1>1, <1>2, <2>1
<1>4. PICK p \in 0..n : Height(n) = p + 1 /\ n < Pow2[p + 1]
  BY <1>1, <1>3, HeightIs
<1>5. r <= p
  <2> SUFFICES ASSUME p < r PROVE FALSE
    BY <1>1
  <2>0. p \in Nat /\ r \in Nat
    BY <1>1
  <2>1. p \in Nat /\ p + 1 \in Nat /\ Pow2[p + 1] \in Nat /\ Pow2[r] \in Nat /\ (r - 1) + 1 = r
    <3>1. p + 1 \in Nat /\ (r - 1) + 1 = r
      BY <2>0
    <3> QED BY <2>0, <3>1, Pow2Is
  <2>2. Pow2[r] = 2 * Pow2[r - 1]
    <3> DEFINE a == r - 1
    <3>1. a \in Nat /\ a + 1 = r
      BY <1>1, <2>1
    <3> HIDE DEF a
    <3>2. Pow2[a + 1] = 2 * Pow2[a]
      BY <3>1, Pow2Is
    <3> QED BY <3>1, <3>2 DEF a
  <2>3. Pow2[p + 1] <= Pow2[r]
    <3>1. CASE p + 1 = r
      BY <3>1, <2>1
    <3>2. CASE p + 1 < r
      <4>1. 2 * Pow2[p + 1] <= Pow2[r]
        BY <1>1, <2>1, <3>2, Pow2Increases
      <4> QED BY <4>1, <2>1
    <3> QED BY <1>1, <2>1, <3>1, <3>2
  <2> QED BY <1>1, <1>3, <1>4, <2>1, <2>2, <2>3
<1>6. p \in Nat
  OBVIOUS
<1> QED BY <1>1, <1>4, <1>5, <1>6

\* A new level has the size that verify_level expects just when the leaves are
\* those of a perfect tree, or, past the first, whenever they are.
LEMMA SizeOfPerfect ==
    ASSUME Levels(rows), level - 2 \in Nat, level \in Nat,
           level + Len(rows) = Height(Len(rows[1])) + 1, NEW m \in Nat, Len(Current) = 2 * m
    PROVE  /\ Perfect(Len(rows[1])) => m = Pow2[level - 2]
           /\ Len(rows) = 1 /\ m = Pow2[level - 2] => Perfect(Len(rows[1]))
<1> DEFINE n == Len(rows[1])
           r == Len(rows)
<1>1. n \in Nat /\ r \in Nat /\ r > 0 /\ r - 1 \in Nat /\ (2 * m) * Pow2[r - 1] = n
      /\ level + r = Height(n) + 1
  BY CurrentIs
<1> HIDE DEF n, r
<1>2. Pow2[r - 1] \in Nat /\ Pow2[r - 1] > 0 /\ Pow2[r] = 2 * Pow2[r - 1] /\ Pow2[r] \in Nat /\ Pow2[r] > 0
  <2>1. (r - 1) + 1 = r
    BY <1>1
  <2> QED BY <1>1, <2>1, Pow2Is
<1>3. m * Pow2[r] = n
  <2>1. \A x \in Nat : (2 * m) * x = m * (2 * x)
    OBVIOUS
  <2> QED BY <1>1, <1>2, <2>1
<1>4. ASSUME Perfect(n) PROVE m = Pow2[level - 2]
  <2>1. PICK q \in Nat : n = Pow2[q]
    BY <1>1, <1>4, PerfectIs
  <2>2. Pow2[q] <= n /\ n < Pow2[q + 1] /\ Pow2[q] \in Nat
    <3>1. Pow2[q] \in Nat /\ Pow2[q] > 0 /\ Pow2[q + 1] = 2 * Pow2[q]
      BY Pow2Is
    <3> QED BY <2>1, <3>1
  <2>3. Height(n) = q + 1
    BY <1>1, <2>2, HeightUnique
  <2>4. level - 2 = q - r /\ (level - 2) + r = q
    BY <1>1, <2>3
  <2>5. Pow2[q] = Pow2[level - 2] * Pow2[r]
    <3> DEFINE a == level - 2
    <3>1. a \in Nat /\ a + r = q
      BY <2>4
    <3> HIDE DEF a
    <3>2. Pow2[a + r] = Pow2[a] * Pow2[r]
      BY <1>1, <3>1, Pow2Sum
    <3> QED BY <3>1, <3>2 DEF a
  <2>6. Pow2[level - 2] \in Nat
    BY Pow2Is
  <2>7. \A x, y, z \in Nat : x * z = y * z /\ z > 0 => x = y
    OBVIOUS
  <2> QED BY <1>2, <1>3, <2>1, <2>5, <2>6, <2>7
<1>5. ASSUME r = 1, m = Pow2[level - 2] PROVE Perfect(n)
  <2>1. Pow2[r - 1] = 1
    BY <1>5, Pow2Is
  <2>2. n = 2 * m
    BY <1>1, <2>1
  <2>3. Pow2[(level - 2) + 1] = 2 * Pow2[level - 2] /\ (level - 2) + 1 \in Nat
    BY Pow2Is
  <2>4. n = Pow2[(level - 2) + 1]
    BY <1>5, <2>2, <2>3
  <2> QED BY <1>1, <2>3, <2>4, PerfectIs
<1> QED BY <1>4, <1>5 DEF n, r

\* A round of the loop adds a level of the right shape, counts it, and warns
\* when it must.
LEMMA TreeGrows ==
    ASSUME TreeInv, BuildLevel
    PROVE  TreeInv' /\ rows' # <<>> /\ rows'[1] = rows[1]
<1> DEFINE m == NextSize
           up == Paired(rows[Len(rows)], m)
<1>1. /\ tree = "building" /\ Len(Current) > 1 /\ Len(Current) % 2 = 0 /\ level' = level - 1
      /\ num_nodes' = num_nodes + NextSize /\ tree' = tree
      /\ warned' = (warned \/ NextSize # Pow2[level - 2])
  BY DEF BuildLevel, Added, PerfectSize
<1>2. /\ Levels(rows) /\ num_nodes + Len(Current) = 2 * Len(rows[1]) /\ num_nodes \in Nat
      /\ level \in Nat /\ level + Len(rows) = Height(Len(rows[1])) + 1
      /\ Len(rows) = 1 => ~warned
      /\ warned \in BOOLEAN
      /\ Len(rows) > 1 => (warned <=> ~Perfect(Len(rows[1])))
  BY <1>1 DEF TreeInv, TreeTyped, TreeShape, WarningIsRight
<1>3. rows' = Append(rows, up)
  BY <1>2, CurrentIs DEF BuildLevel, Parent, Paired
<1>4. m \in Nat /\ Len(Current) = 2 * m /\ Len(Current) \in Nat
  <2>1. \A n \in Nat : n % 2 = 0 => (n + 1) \div 2 \in Nat /\ n = 2 * ((n + 1) \div 2)
    OBVIOUS
  <2> QED BY <1>1, <1>2, <2>1, CurrentIs DEF NextSize
<1>5. level - 1 \in Nat /\ level - 2 \in Nat
  BY <1>1, <1>2, LevelLeft
<1>6. /\ Levels(rows') /\ Len(rows') = Len(rows) + 1
      /\ rows'[Len(rows) + 1] = up /\ Len(up) = m /\ rows'[1] = rows[1]
  <2>1. Len(rows[Len(rows)]) = 2 * m
    BY <1>2, <1>4, CurrentIs
  <2>2. m \in Nat /\ up = Paired(rows[Len(rows)], m)
    BY <1>4
  <2> HIDE DEF m, up
  <2>3. /\ Levels(Append(rows, up)) /\ Len(Append(rows, up)) = Len(rows) + 1
        /\ Append(rows, up)[Len(rows) + 1] = up /\ Len(up) = m /\ Append(rows, up)[1] = rows[1]
    BY <1>2, <2>1, <2>2, LevelsGrow
  <2> QED BY <1>3, <2>3
<1>7. Current' = up
  BY <1>6 DEF Current, Last
<1>8. Levels(rows)'
  BY <1>6 DEF Levels, Joined, Sized, Covers
<1>9. Len(rows) \in Nat /\ Len(rows) > 0 /\ Len(rows[1]) \in Nat /\ rows' # <<>>
  BY <1>2, <1>6, CurrentIs DEF Levels
<1>10. Height(Len(rows[1])) \in Nat
  BY <1>9, HeightTyped
<1> HIDE DEF m, up
<1>11. num_nodes' = num_nodes + m /\ num_nodes' \in Nat
  BY <1>1, <1>2, <1>4 DEF m
<1>12. num_nodes' + Len(Current') = 2 * Len(rows'[1])
  <2>1. \A a, b, c \in Nat : c = 2 * b => (a + b) + b = a + c
    OBVIOUS
  <2> QED BY <1>2, <1>4, <1>6, <1>7, <1>11, <2>1
<1>13. level' + Len(rows') = Height(Len(rows'[1])) + 1 /\ level' \in Nat
  BY <1>1, <1>2, <1>5, <1>6, <1>9, <1>10
<1>14. warned' \in BOOLEAN /\ Len(rows') > 1
  BY <1>1, <1>6, <1>9
<1>15. WarningIsRight'
  <2>1. /\ Perfect(Len(rows[1])) => m = Pow2[level - 2]
        /\ Len(rows) = 1 /\ m = Pow2[level - 2] => Perfect(Len(rows[1]))
    BY <1>2, <1>4, <1>5, SizeOfPerfect
  <2>2. warned' <=> ~Perfect(Len(rows[1]))
    <3>1. CASE Len(rows) = 1
      <4>1. ~warned
        BY <1>2, <3>1
      <4>2. warned' = (warned \/ m # Pow2[level - 2])
        BY <1>1 DEF m
      <4>3. Perfect(Len(rows[1])) <=> m = Pow2[level - 2]
        BY <2>1, <3>1
      <4>4. warned' <=> m # Pow2[level - 2]
        BY <4>1, <4>2
      <4> QED BY <4>3, <4>4, Zenon
    <3>2. CASE Len(rows) # 1
      <4>0. Len(rows) > 1
        <5>1. \A n \in Nat : n > 0 /\ n # 1 => n > 1
          OBVIOUS
        <5>2. Len(rows) \in Nat /\ Len(rows) > 0
          BY <1>9
        <5> QED BY <3>2, <5>1, <5>2
      <4>1. warned <=> ~Perfect(Len(rows[1]))
        <5>1. Len(rows) > 1 => (warned <=> ~Perfect(Len(rows[1])))
          BY DEF TreeInv, WarningIsRight
        <5> QED BY <4>0, <5>1, Zenon
      <4>2. warned' = (warned \/ m # Pow2[level - 2])
        BY <1>1 DEF m
      <4>3. Perfect(Len(rows[1])) => m = Pow2[level - 2]
        BY <2>1
      <4>4. CASE warned
        <5>1. warned' = TRUE
          BY <4>2, <4>4
        <5> QED BY <4>1, <4>4, <5>1, Zenon
      <4>5. CASE ~warned
        <5>1. Perfect(Len(rows[1])) /\ m = Pow2[level - 2]
          BY <4>1, <4>3, <4>5, Zenon
        <5>2. warned' = FALSE
          BY <4>2, <4>5, <5>1
        <5> QED BY <5>1, <5>2, Zenon
      <4> QED BY <4>4, <4>5
    <3> QED BY <3>1, <3>2
  <2>3. warned' <=> ~Perfect(Len(rows'[1]))
    BY <1>6, <2>2
  <2> QED BY <2>3 DEF WarningIsRight
<1>16. TreeTyped'
  BY <1>1, <1>9, <1>11, <1>13, <1>14 DEF TreeTyped
<1>17. TreeShape'
  <2>1. Len(rows') # 1
    BY <1>6, <1>9
  <2>2. level' + Len(rows') = Height(Len(rows'[1])) + 1
    BY <1>13
  <2>3. (Len(rows) = 1 => ~warned)'
    BY <2>1
  <2>4. (num_nodes + Len(Current) = 2 * Len(rows[1]))' /\ (level + Len(rows) = Height(Len(rows[1])) + 1)'
    BY <1>12, <2>2
  <2> QED BY <1>8, <2>3, <2>4 DEF TreeShape
<1>18. Progress'
  BY <1>1 DEF Progress
<1> QED BY <1>6, <1>9, <1>15, <1>16, <1>17, <1>18 DEF TreeInv

\* Every step of build_merkle_tree.
LEMMA TreeBuilds ==
    ASSUME TreeInv, Build
    PROVE  TreeInv' /\ rows' # <<>> /\ rows'[1] = rows[1] /\ tree = "building"
           /\ tree' \in {"building", "built", "crash"}
<1>1. CASE BuildLevel
  BY <1>1, TreeGrows DEF BuildLevel
<1>2. CASE BuildOdd
  <2>1. UNCHANGED <<rows, num_nodes, level, warned>> /\ tree = "building" /\ tree' = "crash"
        /\ Len(Current) > 1 /\ Len(Current) % 2 = 1
    BY <1>2 DEF BuildOdd
  <2> QED BY <2>1 DEF TreeInv, TreeTyped, TreeShape, Progress, WarningIsRight, Current
<1>3. CASE BuildDone
  <2>1. UNCHANGED <<rows, num_nodes, level, warned>> /\ tree = "building" /\ tree' = "built"
        /\ Len(Current) <= 1
    BY <1>3 DEF BuildDone
  <2> QED BY <2>1 DEF TreeInv, TreeTyped, TreeShape, Progress, WarningIsRight, Current
<1> QED BY <1>1, <1>2, <1>3 DEF Build

\* A step that leaves the tree alone keeps its invariant.
LEMMA TreeKept == ASSUME TreeInv, UNCHANGED treeVars PROVE TreeInv'
  BY DEF TreeInv, TreeTyped, TreeShape, Progress, WarningIsRight, Current, treeVars,
         Levels, Joined, Sized, Covers

\* A process without a tree has the invariant.
LEMMA TreeFreed == ASSUME FreeTree PROVE TreeInv' /\ rows' = <<>> /\ tree' = "none"
<1>1. rows' = <<>> /\ num_nodes' = 0 /\ level' = 0 /\ warned' = FALSE /\ tree' = "none"
  BY DEF FreeTree
<1>2. ~(Len(rows') > 1)
  BY <1>1
<1> QED BY <1>1, <1>2 DEF TreeInv, TreeTyped, TreeShape, Progress, WarningIsRight

\* What the invariant says of a tree that is finished.
LEMMA BuiltIs ==
    ASSUME TreeInv, tree = "built", Len(rows[1]) > 0
    PROVE  /\ Levels(rows) /\ Len(Current) = 1 /\ Len(rows) - 1 \in Nat
           /\ Len(rows[1]) = Pow2[Len(rows) - 1] /\ Perfect(Len(rows[1]))
           /\ Height(Len(rows[1])) = Len(rows)
           /\ num_nodes = Pow2[Height(Len(rows[1]))] - 1
<1>1. Levels(rows) /\ Len(Current) <= 1 /\ num_nodes + Len(Current) = 2 * Len(rows[1]) /\ num_nodes \in Nat
  BY DEF TreeInv, TreeTyped, TreeShape, Progress
<1> DEFINE n == Len(rows[1])
           r == Len(rows)
           c == Len(Current)
<1>2. n \in Nat /\ r \in Nat /\ r - 1 \in Nat /\ c \in Nat /\ c * Pow2[r - 1] = n /\ n > 0 /\ c <= 1
      /\ num_nodes + c = 2 * n
  BY <1>1, CurrentIs
<1> HIDE DEF n, r, c
<1>3. Pow2[r - 1] \in Nat /\ Pow2[r - 1] > 0 /\ (r - 1) + 1 = r /\ Pow2[r] = 2 * Pow2[r - 1]
  <2>1. (r - 1) + 1 = r
    BY <1>2
  <2> QED BY <1>2, <2>1, Pow2Is
<1>4. c = 1
  BY <1>2, <1>3
<1>5. n = Pow2[r - 1]
  BY <1>2, <1>3, <1>4
<1>6. Perfect(n)
  BY <1>2, <1>5, PerfectIs
<1>7. Height(n) = r
  <2> DEFINE p == r - 1
  <2>0. n < Pow2[r] /\ r - 1 \in Nat /\ (r - 1) + 1 = r /\ Pow2[r - 1] <= n
    <3>1. \A x \in Nat : x > 0 => x < 2 * x /\ x <= x
      OBVIOUS
    <3>2. Pow2[r - 1] \in Nat /\ Pow2[r - 1] > 0
      BY <1>3
    <3>3. Pow2[r - 1] < 2 * Pow2[r - 1] /\ Pow2[r - 1] <= Pow2[r - 1]
      BY <3>1, <3>2
    <3>4. n < 2 * Pow2[r - 1] /\ Pow2[r - 1] <= n
      BY <1>5, <3>3
    <3>5. r - 1 \in Nat
      BY <1>2
    <3>6. (r - 1) + 1 = r /\ Pow2[r] = 2 * Pow2[r - 1]
      BY <1>3
    <3> QED BY <3>4, <3>5, <3>6
  <2>1. p \in Nat /\ Pow2[p] <= n /\ n < Pow2[p + 1] /\ p + 1 = r
    BY <2>0
  <2> HIDE DEF p
  <2> QED BY <1>2, <2>1, HeightUnique
<1>8. num_nodes = Pow2[r] - 1
  BY <1>1, <1>2, <1>3, <1>4, <1>5
<1> QED BY <1>1, <1>2, <1>4, <1>5, <1>6, <1>7, <1>8 DEF n, r, c

\* The invariant has what the runs check of the tree.
LEMMA TreeSays == ASSUME TreeInv PROVE RowsCover /\ NodesCounted /\ BuiltIsPerfect /\ WarningIsRight
<1>1. RowsCover
  <2>1. CASE tree = "none"
    BY <2>1 DEF TreeInv, TreeTyped, RowsCover
  <2>2. CASE tree # "none"
    <3>1. Levels(rows) /\ Covers(rows)
      BY <2>2 DEF TreeInv, TreeShape, Levels
    <3> QED BY <3>1, LevelsTyped DEF Covers, RowsCover
  <2> QED BY <2>1, <2>2
<1>2. NodesCounted
  BY DEF TreeInv, TreeShape, NodesCounted
<1>3. BuiltIsPerfect
  BY BuiltIs DEF BuiltIsPerfect
<1> QED BY <1>1, <1>2, <1>3 DEF TreeInv

-----------------------------------------------------------------------------
(* The processes.                                                          *)

ProcTyped ==
    /\ pkg \in Packages
    /\ file = NoFile \/ file \in Seq(Contents)
    /\ flag \in Flags
    /\ arg \in Hash
    /\ pc \in {"ready", "read", "tree", "answered", "crashed"}
    /\ again \in BOOLEAN
    /\ answer \in Seq(Hash)

\* What ties a process to the tree it makes: a leaf for each chunk, no tree before
\* the data is read, and a second tree that is the package's own.
Linked ==
    /\ rows # <<>> => Len(rows[1]) = Len(pkg.chunks)
    /\ again => rows # <<>> /\ rows[1] = pkg.chunks
    /\ pc = "read" => tree = "none" /\ ~again
    /\ pc = "tree" => tree \in {"building", "built"}

Inv == TreeInv /\ ProcTyped /\ Linked

\* A package's hashes are sequences of hashes.
LEMMA PackageTyped ==
    ASSUME pkg \in Packages
    PROVE  /\ pkg.chunks \in Seq(Hash) /\ Len(pkg.chunks) \in Nat
           /\ pkg.hashes \in Seq(Hash) /\ Len(pkg.hashes) \in Nat
  BY PackagesOK DEF Hash

\* The queries have a tree with a leaf for each chunk.
LEMMA ReadyIs ==
    ASSUME Inv, NEW query, Ready(query)
    PROVE  /\ Levels(rows) /\ Len(rows[1]) = Len(pkg.chunks) /\ Len(Current) <= 1
           /\ pc = "tree" /\ tree = "built" /\ flag = query
  BY DEF Inv, Linked, Ready, TreeInv, TreeTyped, TreeShape, Progress

\* A finished tree has a root just when one node is left.
LEMMA RootIs ==
    ASSUME Levels(rows), Len(Current) <= 1
    PROVE  HasRoot <=> Len(Current) = 1
<1> DEFINE c == Current
<1>1. c \in Seq(Hash) /\ Len(c) \in Nat /\ Len(c) <= 1
  BY CurrentIs
<1> HIDE DEF c
<1>2. c # <<>> <=> Len(c) = 1
  <2>1. c # <<>> => Len(c) \in Nat \ {0}
    BY <1>1, EmptySeq
  <2>2. Len(<<>>) = 0
    OBVIOUS
  <2>3. ASSUME c = <<>> PROVE Len(c) # 1
    BY <2>2, <2>3
  <2>4. ASSUME c # <<>> PROVE Len(c) = 1
    <3>1. \A n \in Nat \ {0} : n <= 1 => n = 1
      OBVIOUS
    <3>2. Len(c) \in Nat \ {0} /\ Len(c) <= 1
      BY <1>1, <2>1, <2>4
    <3> QED BY <3>1, <3>2, Zenon
  <2> QED BY <2>3, <2>4, Zenon
<1> QED BY <1>2 DEF HasRoot, c

\* The answers are sequences of hashes.
LEMMA PairsTyped ==
    ASSUME pkg \in Packages, Levels(rows)
    PROVE  MatchingPairs \in Seq(Hash)
<1> DEFINE Pair(i, j) == IF pkg.chunks[i] = rows[1][j] THEN <<rows[1][j]>> ELSE <<>>
           all(i) == FlattenSeq([j \in DOMAIN rows[1] |-> Pair(i, j)])
<1>1. /\ rows[1] \in Seq(Hash) /\ Len(rows[1]) \in Nat /\ DOMAIN rows[1] = 1..Len(rows[1])
      /\ \A j \in DOMAIN rows[1] : rows[1][j] \in Hash
  BY LevelsTyped
<1>2. DOMAIN pkg.chunks = 1..Len(pkg.chunks) /\ Len(pkg.chunks) \in Nat
  BY PackageTyped
<1>3. \A i \in DOMAIN pkg.chunks : \A j \in DOMAIN rows[1] : Pair(i, j) \in Seq(Hash)
  BY <1>1
<1> HIDE DEF Pair
<1>4. ASSUME NEW i \in DOMAIN pkg.chunks PROVE all(i) \in Seq(Hash)
  <2>1. [j \in DOMAIN rows[1] |-> Pair(i, j)] \in Seq(Seq(Hash))
    BY <1>1, <1>3
  <2> QED BY <2>1, FlattenTyped
<1>5. MatchingPairs = FlattenSeq([i \in DOMAIN pkg.chunks |-> all(i)])
  BY DEF MatchingPairs, Pair
<1> HIDE DEF all
<1>6. [i \in DOMAIN pkg.chunks |-> all(i)] \in Seq(Seq(Hash))
  BY <1>2, <1>4
<1> QED BY <1>5, <1>6, FlattenTyped

\* traverse_subtree_hashes returns leaves, at least one, that join to the node.
LEMMA LeavesTyped ==
    ASSUME Levels(rows), NEW h \in 1..Len(rows), NEW k \in 1..Len(rows[h])
    PROVE  /\ Leaves(h, k) \in Seq(Hash) /\ Leaves(h, k) # <<>>
           /\ Range(Leaves(h, k)) \subseteq Range(rows[1])
           /\ FlattenSeq(Leaves(h, k)) = rows[h][k]
<1>1. Leaves(h, k) = Run(rows[1], h, k)
  BY LeavesAre
<1>2. rows[h][k] = FlattenSeq(Run(rows[1], h, k)) /\ Len(rows[h]) * Pow2[h - 1] = Len(rows[1])
  BY DEF Levels, Sized, Covers
<1>3. rows[1] \in Seq(Hash) /\ h \in Nat /\ h > 0 /\ Len(rows[h]) \in Nat
  BY LevelsTyped
<1> DEFINE s == rows[1]
           m == Len(rows[h])
<1>4. s \in Seq(Hash) /\ m \in Nat /\ k \in 1..m /\ m * Pow2[h - 1] = Len(s)
  BY <1>2, <1>3
<1> HIDE DEF s, m
<1>5. /\ Run(s, h, k) \in Seq(Hash) /\ Len(Run(s, h, k)) = Pow2[h - 1]
      /\ Range(Run(s, h, k)) \subseteq Range(s)
  BY <1>3, <1>4, RunIs
<1>6. Pow2[h - 1] > 0 /\ Pow2[h - 1] \in Nat
  <2>1. h - 1 \in Nat
    BY <1>3
  <2> QED BY <2>1, Pow2Is
<1>7. Run(s, h, k) # <<>>
  <2>1. Len(<<>>) = 0
    OBVIOUS
  <2> QED BY <1>5, <1>6, <2>1
<1> QED BY <1>1, <1>2, <1>5, <1>7 DEF s

\* A process ends, or another starts that has no tree yet.
LEMMA Frees ==
    ASSUME Inv, FreeTree, ProcTyped', ~again', pc' # "tree"
    PROVE  Inv'
<1>1. TreeInv' /\ rows' = <<>> /\ tree' = "none"
  BY TreeFreed
<1>2. Linked'
  BY <1>1 DEF Linked
<1> QED BY <1>1, <1>2 DEF Inv

\* A tree is begun.
LEMMA Begins ==
    ASSUME Inv, ProcTyped', NEW leaves \in Seq(Hash), StartTree(leaves),
           Len(leaves) = Len(pkg.chunks), pkg' = pkg, pc' = "tree", again' => leaves = pkg.chunks
    PROVE  Inv'
<1>1. TreeInv' /\ rows' # <<>> /\ rows'[1] = leaves /\ tree' = "building"
  BY TreeStarts
<1>2. Linked'
  BY <1>1 DEF Linked
<1> QED BY <1>1, <1>2 DEF Inv

\* A process stops, with an answer or without.
LEMMA Stops ==
    ASSUME Inv, UNCHANGED <<pkg, file, flag, arg, again, treeVars>>,
           pc' \in {"answered", "crashed"}, answer' \in Seq(Hash)
    PROVE  Inv'
<1>1. TreeInv'
  BY TreeKept DEF Inv, treeVars
<1>2. UNCHANGED <<rows, tree>>
  BY DEF treeVars
<1>3. ProcTyped'
  BY DEF Inv, ProcTyped
<1>4. Linked'
  BY <1>2 DEF Inv, Linked
<1> QED BY <1>1, <1>3, <1>4 DEF Inv

\* A process answers.
LEMMA StopsWith ==
    ASSUME Inv, NEW hashes \in Seq(Hash), Answer(hashes)
    PROVE  Inv'
<1>1. /\ UNCHANGED <<pkg, file, flag, arg, again, treeVars>> /\ pc' = "answered" /\ answer' = hashes
  BY DEF Answer
<1> QED BY <1>1, Stops

\* A process crashes.
LEMMA StopsShort == ASSUME Inv, Crash PROVE Inv'
<1>1. /\ UNCHANGED <<pkg, file, flag, arg, again, treeVars>> /\ pc' = "crashed" /\ answer' = answer
  BY DEF Crash
<1>2. answer \in Seq(Hash)
  BY DEF Inv, ProcTyped
<1> QED BY <1>1, <1>2, Stops

-----------------------------------------------------------------------------
(* Each action keeps the invariant.                                        *)

LEMMA DataChangesKeeps == ASSUME Inv, DataChanges PROVE Inv'
<1>1. FreeTree /\ arg' = <<>> /\ again' = FALSE /\ answer' = <<>> /\ pc' = "ready" /\ flag' = "none"
      /\ pkg' = pkg /\ file' \in Files[pkg] \cup {NoFile}
  BY DEF DataChanges, Fresh
<1>2. pkg \in Packages /\ <<>> \in Hash /\ <<>> \in Seq(Hash)
  BY DEF Inv, ProcTyped, Hash
<1>3. Files[pkg] \subseteq Seq(Contents)
  BY <1>2, PackagesOK
<1>4. ProcTyped'
  BY <1>1, <1>2, <1>3 DEF ProcTyped, Flags
<1> QED BY <1>1, <1>4, Frees

LEMMA AllHashesKeeps == ASSUME Inv, AllHashes PROVE Inv'
<1>1. FreeTree /\ arg' = <<>> /\ again' = FALSE /\ pc' = "answered" /\ flag' = "all_hashes"
      /\ pkg' = pkg /\ file' = file
      /\ answer' = IF pkg.loaded THEN pkg.hashes \o pkg.chunks ELSE <<>>
  BY DEF AllHashes
<1>2. /\ pkg \in Packages /\ <<>> \in Hash /\ <<>> \in Seq(Hash)
      /\ file = NoFile \/ file \in Seq(Contents)
  BY DEF Inv, ProcTyped, Hash
<1>3. pkg.hashes \o pkg.chunks \in Seq(Hash)
  <2>1. pkg.chunks \in Seq(Hash) /\ pkg.hashes \in Seq(Hash)
    BY <1>2, PackageTyped
  <2> QED BY <2>1
<1>4. ProcTyped'
  BY <1>1, <1>2, <1>3 DEF ProcTyped, Flags
<1> QED BY <1>1, <1>4, Frees

LEMMA FileCheckKeeps == ASSUME Inv, FileCheck \/ FileCheckFails PROVE Inv'
<1>1. FreeTree /\ arg' = <<>> /\ again' = FALSE /\ pc' \in {"answered", "crashed"}
      /\ flag' = "file_check" /\ pkg' = pkg /\ file' \in {file, <<>>} /\ answer' = <<>>
  BY DEF FileCheck, FileCheckFails, Fresh
<1>2. /\ pkg \in Packages /\ <<>> \in Hash /\ <<>> \in Seq(Hash) /\ <<>> \in Seq(Contents)
      /\ file = NoFile \/ file \in Seq(Contents)
  BY DEF Inv, ProcTyped, Hash
<1>3. ProcTyped'
  BY <1>1, <1>2 DEF ProcTyped, Flags
<1> QED BY <1>1, <1>3, Frees

LEMMA NothingToCheckKeeps == ASSUME Inv, NothingToCheck PROVE Inv'
<1>1. FreeTree /\ arg' = <<>> /\ again' = FALSE /\ pc' = "answered"
      /\ flag' \in {"chunk_check", "test_data"} /\ pkg' = pkg /\ file' = file /\ answer' = <<>>
  BY DEF NothingToCheck, Fresh
<1>2. /\ pkg \in Packages /\ <<>> \in Hash /\ <<>> \in Seq(Hash)
      /\ file = NoFile \/ file \in Seq(Contents)
  BY DEF Inv, ProcTyped, Hash
<1>3. ProcTyped'
  BY <1>1, <1>2 DEF ProcTyped, Flags
<1> QED BY <1>1, <1>3, Frees

LEMMA QueryKeeps == ASSUME Inv, Query PROVE Inv'
<1>1. FreeTree /\ again' = FALSE /\ pc' = "read" /\ pkg' = pkg /\ file' = file /\ answer' = <<>>
      /\ flag' \in {"chunk_check", "min_hashes", "hashes_of"} /\ arg' \in Hashes \cup {<<>>}
  BY DEF Query
<1>2. /\ pkg \in Packages /\ <<>> \in Hash /\ <<>> \in Seq(Hash)
      /\ file = NoFile \/ file \in Seq(Contents)
  BY DEF Inv, ProcTyped, Hash
<1>3. Hashes \subseteq Hash
  BY PackagesOK DEF Hash
<1>4. ProcTyped'
  BY <1>1, <1>2, <1>3 DEF ProcTyped, Flags
<1> QED BY <1>1, <1>4, Frees

LEMMA TestTreeKeeps == ASSUME Inv, TestTree PROVE Inv'
<1>1. StartTree(pkg.chunks) /\ arg' = <<>> /\ again' = FALSE /\ pc' = "tree"
      /\ flag' \in {"test_tree", "test_data"} /\ pkg' = pkg /\ file' = file /\ answer' = <<>>
  BY DEF TestTree, Fresh
<1>2. /\ pkg \in Packages /\ <<>> \in Hash /\ <<>> \in Seq(Hash)
      /\ file = NoFile \/ file \in Seq(Contents)
  BY DEF Inv, ProcTyped, Hash
<1>3. ProcTyped'
  BY <1>1, <1>2 DEF ProcTyped, Flags
<1>4. pkg.chunks \in Seq(Hash)
  BY <1>2, PackageTyped
<1> QED BY <1>1, <1>3, <1>4, Begins

LEMMA NoDataKeeps == ASSUME Inv, NoData PROVE Inv'
<1>1. Answer(<<>>) /\ <<>> \in Seq(Hash)
  BY DEF NoData
<1> QED BY <1>1, StopsWith

\* The leaves that read_data makes.
LEMMA DataLeaves ==
    ASSUME pkg \in Packages, file \in Seq(Contents), NEW buffer \in Contents,
           NEW leaves, leaves = [i \in 1..Len(pkg.chunks) |-> <<IF i <= Len(file) THEN file[i] ELSE buffer>>]
    PROVE  /\ leaves \in Seq(Hash) /\ Len(leaves) = Len(pkg.chunks)
           /\ \A i \in 1..Len(leaves) : Len(leaves[i]) = 1
<1>1. Len(pkg.chunks) \in Nat /\ Len(file) \in Nat
  BY PackageTyped
<1> DEFINE e(i) == <<IF i <= Len(file) THEN file[i] ELSE buffer>>
<1>2. \A i \in 1..Len(pkg.chunks) : e(i) \in Hash /\ Len(e(i)) = 1
  BY <1>1 DEF Hash
<1>3. leaves = [i \in 1..Len(pkg.chunks) |-> e(i)]
  OBVIOUS
<1> HIDE DEF e
<1> QED BY <1>1, <1>2, <1>3

LEMMA ReadDataKeeps == ASSUME Inv, ReadData PROVE Inv'
<1>1. PICK buffer \in Contents :
        StartTree([i \in 1..Len(pkg.chunks) |-> <<IF i <= Len(file) THEN file[i] ELSE buffer>>])
  BY DEF ReadData
<1>2. pc = "read" /\ file # NoFile /\ pc' = "tree" /\ UNCHANGED <<pkg, file, flag, arg, again, answer>>
  BY DEF ReadData
<1>3. pkg \in Packages /\ file \in Seq(Contents) /\ again = FALSE
  BY <1>2 DEF Inv, ProcTyped, Linked
<1>4. ProcTyped'
  BY <1>2 DEF Inv, ProcTyped
<1> DEFINE leaves == [i \in 1..Len(pkg.chunks) |-> <<IF i <= Len(file) THEN file[i] ELSE buffer>>]
<1>5. leaves \in Seq(Hash) /\ Len(leaves) = Len(pkg.chunks)
  BY <1>3, DataLeaves
<1>6. StartTree(leaves)
  BY <1>1
<1> HIDE DEF leaves
<1> QED BY <1>2, <1>3, <1>4, <1>5, <1>6, Begins

LEMMA BuildStepKeeps == ASSUME Inv, BuildStep PROVE Inv'
<1>1. /\ pc = "tree" /\ Build /\ UNCHANGED <<pkg, file, flag, arg, again, answer>>
      /\ pc' = IF tree' = "crash" THEN "crashed" ELSE pc
  BY DEF BuildStep
<1>2. TreeInv
  BY DEF Inv
<1>3. TreeInv' /\ rows' # <<>> /\ rows'[1] = rows[1] /\ tree = "building"
      /\ tree' \in {"building", "built", "crash"}
  BY <1>1, <1>2, TreeBuilds
<1>4. ProcTyped'
  BY <1>1 DEF Inv, ProcTyped
<1>5. rows # <<>>
  BY <1>2, <1>3 DEF TreeInv, TreeTyped
<1>6. Linked'
  BY <1>1, <1>3, <1>5 DEF Inv, Linked
<1> QED BY <1>3, <1>4, <1>6 DEF Inv

LEMMA ChunkCheckKeeps == ASSUME Inv, ChunkCheck PROVE Inv'
<1>1. Ready("chunk_check") /\ Answer(IF RootMatches THEN pkg.chunks ELSE MatchingPairs)
  BY DEF ChunkCheck
<1>2. pkg \in Packages /\ Levels(rows)
  BY <1>1, ReadyIs DEF Inv, ProcTyped
<1>3. pkg.chunks \in Seq(Hash) /\ MatchingPairs \in Seq(Hash)
  BY <1>2, PackageTyped, PairsTyped
<1> DEFINE hashes == IF RootMatches THEN pkg.chunks ELSE MatchingPairs
<1>4. hashes \in Seq(Hash) /\ Answer(hashes)
  BY <1>1, <1>3
<1> HIDE DEF hashes
<1> QED BY <1>4, StopsWith

LEMMA MinHashesKeeps == ASSUME Inv, MinHashes PROVE Inv'
<1> DEFINE hashes == IF ~HasRoot THEN <<>>
                     ELSE IF RootMatches THEN <<pkg.hashes[1]>>
                     ELSE CompleteSubtrees
<1>1. Ready("min_hashes") /\ Answer(hashes) /\ (HasRoot => RootListed)
  BY DEF MinHashes
<1>2. pkg \in Packages /\ Levels(rows) /\ Len(Current) <= 1
  BY <1>1, ReadyIs DEF Inv, ProcTyped
<1>3. ASSUME HasRoot PROVE CompleteSubtrees \in Seq(Hash) /\ <<pkg.hashes[1]>> \in Seq(Hash)
  <2>1. Len(Current) = 1
    BY <1>2, <1>3, RootIs
  <2>2. pkg.hashes \in Seq(Hash) /\ pkg.hashes # <<>>
    BY <1>1, <1>2, <1>3, PackageTyped DEF RootListed
  <2>3. <<pkg.hashes[1]>> \in Seq(Hash)
    BY <2>2
  <2> QED BY <1>2, <2>1, <2>3, SubtreesFound
<1>4. hashes \in Seq(Hash)
  BY <1>3
<1> HIDE DEF hashes
<1> QED BY <1>1, <1>4, StopsWith

LEMMA HashesOfKeeps == ASSUME Inv, HashesOf PROVE Inv'
<1>1. Ready("hashes_of")
  BY DEF HashesOf
<1>2. PICK h \in DOMAIN rows, k \in 1..Len(rows[1]) : Finds(h, k) /\ Answer(Leaves(h, k))
  BY DEF HashesOf
<1>3. Levels(rows)
  BY <1>1, ReadyIs
<1>4. h \in 1..Len(rows) /\ k \in 1..Len(rows[h])
  BY <1>2, <1>3, LevelsTyped DEF Finds
<1>5. Leaves(h, k) \in Seq(Hash)
  BY <1>3, <1>4, LeavesTyped
<1> QED BY <1>2, <1>5, StopsWith

LEMMA HashesOfRebuildKeeps == ASSUME Inv, HashesOfRebuild PROVE Inv'
<1>1. StartTree(pkg.chunks) /\ again' = TRUE /\ UNCHANGED <<pkg, file, flag, arg, pc, answer>> /\ pc = "tree"
  BY DEF HashesOfRebuild, Ready
<1>2. ProcTyped' /\ pkg.chunks \in Seq(Hash)
  BY <1>1, PackageTyped DEF Inv, ProcTyped
<1> QED BY <1>1, <1>2, Begins

LEMMA HashesOfNothingKeeps == ASSUME Inv, HashesOfNothing PROVE Inv'
<1>1. Answer(<<>>) /\ <<>> \in Seq(Hash)
  BY DEF HashesOfNothing
<1> QED BY <1>1, StopsWith

LEMMA PrintRootKeeps == ASSUME Inv, PrintRoot PROVE Inv'
<1>1. Ready("test_tree") /\ HasRoot /\ Answer(<<Root>>)
  BY DEF PrintRoot
<1>2. Levels(rows)
  BY <1>1, ReadyIs
<1>3. Current \in Seq(Hash) /\ Current # <<>>
  BY <1>1, <1>2, CurrentIs DEF HasRoot
<1>4. <<Root>> \in Seq(Hash)
  BY <1>3 DEF Root
<1> QED BY <1>1, <1>4, StopsWith

LEMMA CrashesKeep ==
    ASSUME Inv, ChunkCheckCrash \/ MinHashesCrash \/ HashesOfCrash \/ PrintRootCrash \/ TestDataCrash
    PROVE  Inv'
<1>1. Crash
  BY DEF ChunkCheckCrash, MinHashesCrash, HashesOfCrash, PrintRootCrash, TestDataCrash
<1> QED BY <1>1, StopsShort

LEMMA StuttersKeep == ASSUME Inv, UNCHANGED vars PROVE Inv'
<1>1. UNCHANGED <<pkg, file, flag, arg, pc, again, answer, treeVars, rows, tree>>
  BY DEF vars, treeVars
<1>2. TreeInv'
  BY <1>1, TreeKept DEF Inv
<1> QED BY <1>1, <1>2 DEF Inv, ProcTyped, Linked

\* The first process starts with the invariant.
LEMMA InitInv == Init => Inv
<1> SUFFICES ASSUME Init PROVE Inv
  OBVIOUS
<1>1. rows = <<>> /\ num_nodes = 0 /\ level = 0 /\ warned = FALSE /\ tree = "none"
  BY DEF Init, NoTree
<1>2. ~(Len(rows) > 1)
  BY <1>1
<1>3. TreeInv
  BY <1>1, <1>2 DEF TreeInv, TreeTyped, TreeShape, Progress, WarningIsRight
<1>4. <<>> \in Hash /\ <<>> \in Seq(Hash)
  BY DEF Hash
<1>5. ProcTyped
  BY <1>4 DEF Init, ProcTyped, Flags
<1>6. Linked
  BY <1>1 DEF Init, Linked
<1> QED BY <1>3, <1>5, <1>6 DEF Inv

\* Every step keeps it.
LEMMA StepInv == Inv /\ [Next]_vars => Inv'
<1> SUFFICES ASSUME Inv, [Next]_vars PROVE Inv'
  OBVIOUS
<1>1. CASE DataChanges \/ AllHashes \/ FileCheck \/ FileCheckFails \/ NothingToCheck \/ Query \/ TestTree
  BY <1>1, DataChangesKeeps, AllHashesKeeps, FileCheckKeeps, NothingToCheckKeeps, QueryKeeps, TestTreeKeeps
<1>2. CASE NoData \/ ReadData \/ BuildStep
  BY <1>2, NoDataKeeps, ReadDataKeeps, BuildStepKeeps
<1>3. CASE ChunkCheck \/ MinHashes \/ HashesOf \/ HashesOfRebuild \/ HashesOfNothing \/ PrintRoot
  BY <1>3, ChunkCheckKeeps, MinHashesKeeps, HashesOfKeeps, HashesOfRebuildKeeps, HashesOfNothingKeeps,
     PrintRootKeeps
<1>4. CASE ChunkCheckCrash \/ MinHashesCrash \/ HashesOfCrash \/ PrintRootCrash \/ TestDataCrash
  BY <1>4, CrashesKeep
<1>5. CASE UNCHANGED vars
  BY <1>5, StuttersKeep
<1> QED BY <1>1, <1>2, <1>3, <1>4, <1>5 DEF Next

\* It has the type invariant.
LEMMA InvTypes == Inv => TypeOK
<1> SUFFICES ASSUME Inv PROVE TypeOK
  OBVIOUS
<1>1. rows \in Seq(Seq(Hash))
  <2>1. CASE tree = "none"
    BY <2>1 DEF Inv, TreeInv, TreeTyped
  <2>2. CASE tree # "none"
    BY <2>2 DEF Inv, TreeInv, TreeShape, Levels
  <2> QED BY <2>1, <2>2
<1> QED BY <1>1 DEF Inv, ProcTyped, Linked, TreeInv, TreeTyped, TypeOK, Hash

-----------------------------------------------------------------------------
(* The answers.                                                            *)

\* Which actions answer, and which crash.
LEMMA WhoAnswers ==
    ASSUME Inv, [Next]_vars, NEW query, Answered(query)', ~(UNCHANGED vars)
    PROVE  \/ ChunkCheck /\ query = "chunk_check"
           \/ MinHashes /\ query = "min_hashes"
           \/ (HashesOf \/ HashesOfNothing) /\ query = "hashes_of"
           \/ PrintRoot /\ query = "test_tree"
<1>1. pc' = "answered" /\ flag' = query /\ tree' = "built"
  BY DEF Answered
<1>2. ~(DataChanges \/ AllHashes \/ FileCheck \/ FileCheckFails \/ NothingToCheck \/ Query \/ TestTree)
  BY <1>1 DEF DataChanges, AllHashes, FileCheck, FileCheckFails, NothingToCheck, Query, TestTree, FreeTree
<1>3. ~NoData
  BY <1>1 DEF NoData, Answer, treeVars, Inv, Linked
<1>4. ~(ReadData \/ BuildStep \/ HashesOfRebuild)
  BY <1>1 DEF ReadData, BuildStep, HashesOfRebuild, Ready
<1>5. ~(ChunkCheckCrash \/ MinHashesCrash \/ HashesOfCrash \/ PrintRootCrash \/ TestDataCrash)
  BY <1>1 DEF ChunkCheckCrash, MinHashesCrash, HashesOfCrash, PrintRootCrash, TestDataCrash, Crash
<1>6. CASE ChunkCheck
  BY <1>1, <1>6 DEF ChunkCheck, Ready, Answer
<1>7. CASE MinHashes
  BY <1>1, <1>7 DEF MinHashes, Ready, Answer
<1>8. CASE HashesOf \/ HashesOfNothing
  BY <1>1, <1>8 DEF HashesOf, HashesOfNothing, Ready, Answer
<1>9. CASE PrintRoot
  BY <1>1, <1>9 DEF PrintRoot, Ready, Answer
<1> QED BY <1>2, <1>3, <1>4, <1>5, <1>6, <1>7, <1>8, <1>9 DEF Next

\* Which actions crash.
LEMMA WhoCrashes ==
    ASSUME Inv, [Next]_vars, pc' = "crashed", ~(UNCHANGED vars)
    PROVE  \/ FileCheckFails
           \/ BuildStep /\ tree' = "crash"
           \/ ChunkCheckCrash \/ MinHashesCrash \/ HashesOfCrash \/ PrintRootCrash \/ TestDataCrash
<1>1. ~(DataChanges \/ AllHashes \/ FileCheck \/ NothingToCheck \/ Query \/ TestTree)
  BY DEF DataChanges, AllHashes, FileCheck, NothingToCheck, Query, TestTree
<1>2. ~(NoData \/ ReadData \/ HashesOfRebuild)
  BY DEF NoData, Answer, ReadData, HashesOfRebuild, Ready
<1>3. ~(ChunkCheck \/ MinHashes \/ HashesOf \/ HashesOfNothing \/ PrintRoot)
  BY DEF ChunkCheck, MinHashes, HashesOf, HashesOfNothing, PrintRoot, Answer
<1>4. BuildStep => tree' = "crash"
  BY DEF BuildStep
<1>5. Next
  OBVIOUS
<1>6. CASE BuildStep
  BY <1>4, <1>6
<1>7. CASE FileCheckFails \/ ChunkCheckCrash \/ MinHashesCrash \/ HashesOfCrash \/ PrintRootCrash
           \/ TestDataCrash
  BY <1>7
<1> QED BY <1>1, <1>2, <1>3, <1>5, <1>6, <1>7 DEF Next

\* What a step that only answers leaves alone.
LEMMA AnswerKeeps ==
    ASSUME NEW hashes, Answer(hashes)
    PROVE  pkg' = pkg /\ rows' = rows /\ arg' = arg /\ answer' = hashes
  BY DEF Answer, treeVars

-----------------------------------------------------------------------------
(* -min_hashes.                                                            *)

\* The conclusion of MinHashesRight.
MinRight(hashes) ==
    /\ Range(hashes) \subseteq Known
    /\ \A h \in DOMAIN rows : \A k \in DOMAIN rows[h] :
          rows[h][k] \in Known /\ ~UnderComplete(h, k) => rows[h][k] \in Range(hashes)

\* An empty tree has no subtree to name.
LEMMA NoRootIsRight == ASSUME Levels(rows), Len(Current) = 0 PROVE MinRight(<<>>)
<1>1. Len(rows[1]) = 0
  <2>1. Len(rows) - 1 \in Nat /\ 0 * Pow2[Len(rows) - 1] = Len(rows[1])
    BY CurrentIs
  <2>2. Pow2[Len(rows) - 1] \in Nat
    BY <2>1, Pow2Is
  <2> QED BY <2>1, <2>2
<1>2. ASSUME NEW h \in 1..Len(rows) PROVE Len(rows[h]) = 0
  <2>1. h - 1 \in Nat /\ Len(rows[h]) \in Nat
    BY LevelsTyped
  <2>2. Len(rows[h]) * Pow2[h - 1] = 0
    BY <1>1 DEF Levels, Sized
  <2>3. Pow2[h - 1] \in Nat /\ Pow2[h - 1] > 0
    BY <2>1, Pow2Is
  <2>4. \A a, b \in Nat : b > 0 /\ a * b = 0 => a = 0
    OBVIOUS
  <2> QED BY <2>1, <2>2, <2>3, <2>4
<1>3. \A h \in DOMAIN rows : DOMAIN rows[h] = {}
  <2>1. DOMAIN rows = 1..Len(rows) /\ \A h \in 1..Len(rows) : DOMAIN rows[h] = 1..Len(rows[h])
    BY LevelsTyped
  <2>2. 1..0 = {}
    OBVIOUS
  <2> QED BY <1>2, <2>1, <2>2
<1>4. Range(<<>>) = {}
  BY DEF Range
<1> QED BY <1>3, <1>4 DEF MinRight

\* A root that the package has is the answer for the whole tree.
LEMMA RootIsRight ==
    ASSUME Levels(rows), Len(Current) = 1, Root \in Known
    PROVE  MinRight(<<Root>>)
<1> DEFINE N == Len(rows)
<1>1. /\ N \in Nat /\ N \in 1..N /\ DOMAIN rows = 1..N /\ Len(rows[N]) = 1
      /\ \A h \in 1..N : DOMAIN rows[h] = 1..Len(rows[h]) /\ h \in Nat
      /\ Root = rows[N][1] /\ DOMAIN rows[N] = 1..1
  BY LevelsTyped, CurrentIs DEF Root
<1>2. Range(<<Root>>) = {Root}
  BY DEF Range
<1>3. ASSUME NEW h \in 1..N, NEW k \in 1..Len(rows[h]), ~UnderComplete(h, k)
      PROVE  rows[h][k] = Root
  <2>1. Above(N, 1, h, k)
    BY AboveAll
  <2>2. 1 \in DOMAIN rows[N] /\ rows[N][1] \in Known
    BY <1>1
  <2>3. ~(N \in (h + 1)..N)
    <3> SUFFICES ASSUME N \in (h + 1)..N PROVE FALSE
      OBVIOUS
    <3>1. UnderComplete(h, k)
      BY <2>1, <2>2, Zenon DEF UnderComplete
    <3> QED BY <1>3, <3>1
  <2>4. h = N
    <3>1. h \in Nat /\ N \in Nat
      BY <1>1
    <3> QED BY <2>3, <3>1
  <2>5. k = 1
    <3>1. Len(rows[h]) = 1
      BY <1>1, <2>4
    <3> QED BY <3>1
  <2> QED BY <1>1, <2>4, <2>5
<1>4. \A h \in DOMAIN rows : \A k \in DOMAIN rows[h] : ~UnderComplete(h, k) => rows[h][k] = Root
  BY <1>1, <1>3
<1> QED BY <1>2, <1>4 DEF MinRight

\* Each of the three answers of -min_hashes is right.
LEMMA MinHashesAnswers == ASSUME Inv, MinHashes PROVE MinHashesRight'
<1>1. /\ Ready("min_hashes") /\ (HasRoot => RootListed)
      /\ Answer(IF ~HasRoot THEN <<>>
                ELSE IF RootMatches THEN <<pkg.hashes[1]>>
                ELSE CompleteSubtrees)
  BY DEF MinHashes
<1>2. pkg \in Packages /\ Levels(rows) /\ Len(Current) <= 1 /\ Len(Current) \in Nat
  BY <1>1, ReadyIs, CurrentIs DEF Inv, ProcTyped
<1>3. \E hashes : Answer(hashes) /\ MinRight(hashes)
  <2>1. CASE ~HasRoot
    <3>1. Len(Current) # 1
      BY <1>2, <2>1, RootIs
    <3>2. Len(Current) = 0
      <4>1. \A n \in Nat : n <= 1 /\ n # 1 => n = 0
        OBVIOUS
      <4> QED BY <1>2, <3>1, <4>1, Zenon
    <3> QED BY <1>1, <1>2, <2>1, <3>2, NoRootIsRight
  <2>2. CASE HasRoot /\ RootMatches
    <3>1. Len(Current) = 1
      BY <1>2, <2>2, RootIs
    <3>2. Root = pkg.hashes[1]
      BY <2>2 DEF RootMatches
    <3>3. Root \in Known
      <4>1. pkg.hashes \in Seq(Hash) /\ pkg.hashes # <<>>
        BY <1>1, <1>2, <2>2, PackageTyped DEF RootListed
      <4>2. pkg.hashes[1] \in Range(pkg.hashes)
        BY <4>1 DEF Range
      <4> QED BY <3>2, <4>2 DEF Known
    <3>4. MinRight(<<Root>>)
      BY <1>2, <3>1, <3>3, RootIsRight
    <3> QED BY <1>1, <2>2, <3>2, <3>4
  <2>3. CASE HasRoot /\ ~RootMatches
    <3>1. Len(Current) = 1
      BY <1>2, <2>3, RootIs
    <3>2. MinRight(CompleteSubtrees)
      BY <1>2, <3>1, SubtreesFound DEF MinRight
    <3> QED BY <1>1, <2>3, <3>2
  <2> QED BY <2>1, <2>2, <2>3
<1>4. PICK hashes : Answer(hashes) /\ MinRight(hashes)
  BY <1>3
<1>5. pkg' = pkg /\ rows' = rows /\ answer' = hashes
  BY <1>4, AnswerKeeps
<1> QED BY <1>4, <1>5 DEF MinRight, MinHashesRight, Known, UnderComplete, Above

\* No other step touches the answer.
LEMMA MinHashesStep == Inv /\ MinHashesRight /\ [Next]_vars => MinHashesRight'
<1> SUFFICES ASSUME Inv, MinHashesRight, [Next]_vars, Answered("min_hashes")' PROVE MinHashesRight'
  BY DEF MinHashesRight
<1>1. CASE UNCHANGED vars
  BY <1>1 DEF vars, treeVars, MinHashesRight, Answered, Known, UnderComplete, Above
<1>2. CASE ~(UNCHANGED vars)
  BY <1>2, WhoAnswers, MinHashesAnswers
<1> QED BY <1>1, <1>2

-----------------------------------------------------------------------------
(* -chunk_check and -hashes_of, of packages that pkgmake made.             *)

MadeByPkgmake == \A p \in Packages : FromMake(p)

\* Every leaf stands for one chunk.
OneChunkEach == rows # <<>> => \A i \in 1..Len(rows[1]) : Len(rows[1][i]) = 1

\* The hash of a chunk stands for one chunk.
LEMMA ChunksAreOne ==
    ASSUME MadeByPkgmake, pkg \in Packages
    PROVE  \A i \in 1..Len(pkg.chunks) : Len(pkg.chunks[i]) = 1
<1>1. DOMAIN pkg.chunks = 1..Len(pkg.chunks)
  BY PackageTyped
<1> QED BY <1>1 DEF MadeByPkgmake, FromMake

\* Every tree is made of such leaves.
LEMMA OneChunkStep ==
    ASSUME MadeByPkgmake, Inv, OneChunkEach, [Next]_vars
    PROVE  OneChunkEach'
<1>1. CASE UNCHANGED vars
  BY <1>1 DEF vars, treeVars, OneChunkEach
<1>2. CASE DataChanges \/ AllHashes \/ FileCheck \/ FileCheckFails \/ NothingToCheck \/ Query
  BY <1>2 DEF DataChanges, AllHashes, FileCheck, FileCheckFails, NothingToCheck, Query, FreeTree, OneChunkEach
<1>3. CASE TestTree \/ HashesOfRebuild
  <2>1. StartTree(pkg.chunks)
    BY <1>3 DEF TestTree, HashesOfRebuild
  <2>2. pkg \in Packages /\ pkg.chunks \in Seq(Hash)
    BY PackageTyped DEF Inv, ProcTyped
  <2>3. rows'[1] = pkg.chunks
    BY <2>1, <2>2, TreeStarts
  <2> QED BY <2>2, <2>3, ChunksAreOne DEF OneChunkEach
<1>4. CASE ReadData
  <2>1. PICK buffer \in Contents :
          StartTree([i \in 1..Len(pkg.chunks) |-> <<IF i <= Len(file) THEN file[i] ELSE buffer>>])
    BY <1>4 DEF ReadData
  <2> DEFINE leaves == [i \in 1..Len(pkg.chunks) |-> <<IF i <= Len(file) THEN file[i] ELSE buffer>>]
  <2>2. pkg \in Packages /\ file \in Seq(Contents)
    BY <1>4 DEF ReadData, Inv, ProcTyped
  <2>3. leaves \in Seq(Hash) /\ \A i \in 1..Len(leaves) : Len(leaves[i]) = 1
    BY <2>2, DataLeaves
  <2>4. StartTree(leaves)
    BY <2>1
  <2> HIDE DEF leaves
  <2>5. rows'[1] = leaves
    BY <2>3, <2>4, TreeStarts
  <2> QED BY <2>3, <2>5 DEF OneChunkEach
<1>5. CASE BuildStep
  <2>1. Build /\ TreeInv
    BY <1>5 DEF BuildStep, Inv
  <2>2. rows'[1] = rows[1] /\ tree = "building"
    BY <2>1, TreeBuilds
  <2>3. rows # <<>>
    BY <2>1, <2>2 DEF TreeInv, TreeTyped
  <2> QED BY <2>2, <2>3 DEF OneChunkEach
<1>6. CASE NoData \/ ChunkCheck \/ MinHashes \/ HashesOf \/ HashesOfNothing \/ PrintRoot
  BY <1>6 DEF NoData, ChunkCheck, MinHashes, HashesOf, HashesOfNothing, PrintRoot, Answer, treeVars, OneChunkEach
<1>7. CASE ChunkCheckCrash \/ MinHashesCrash \/ HashesOfCrash \/ PrintRootCrash \/ TestDataCrash
  BY <1>7 DEF ChunkCheckCrash, MinHashesCrash, HashesOfCrash, PrintRootCrash, TestDataCrash, Crash,
              treeVars, OneChunkEach
<1> QED BY <1>1, <1>2, <1>3, <1>4, <1>5, <1>6, <1>7 DEF Next

\* Sequences of hashes of one chunk.
LEMMA OnesAreSingles ==
    ASSUME NEW s \in Seq(Hash), \A i \in 1..Len(s) : Len(s[i]) = 1
    PROVE  Singles(s, Len(s))
<1> DEFINE e(i) == <<s[i][1]>>
<1>1. \A i \in 1..Len(s) : s[i] = e(i)
  <2> SUFFICES ASSUME NEW i \in 1..Len(s) PROVE s[i] = e(i)
    OBVIOUS
  <2>1. s[i] \in Seq(Contents) /\ Len(s[i]) = 1
    BY DEF Hash
  <2>2. \A x \in Seq(Contents) : Len(x) = 1 => x = <<x[1]>>
    OBVIOUS
  <2> QED BY <2>1, <2>2
<1>2. s = [i \in 1..Len(s) |-> e(i)]
  <2> HIDE DEF e
  <2> QED BY <1>1
<1> QED BY <1>2 DEF Singles

\* The leaves are the package's chunks when they join to the same.
LEMMA SameWhole ==
    ASSUME Levels(rows), OneChunkEach, pkg \in Packages, MadeByPkgmake,
           Len(rows[1]) = Len(pkg.chunks), Len(rows[1]) # 0,
           FlattenSeq(rows[1]) = FlattenSeq(pkg.chunks)
    PROVE  rows[1] = pkg.chunks
<1> DEFINE s == rows[1]
           t == pkg.chunks
           n == Len(pkg.chunks)
<1>1. s \in Seq(Hash) /\ t \in Seq(Hash) /\ n \in Nat /\ n # 0 /\ Len(s) = n /\ Len(t) = n /\ rows # <<>>
  BY CurrentIs, PackageTyped DEF Levels
<1>2. (\A i \in 1..Len(s) : Len(s[i]) = 1) /\ (\A i \in 1..Len(t) : Len(t[i]) = 1)
  BY <1>1, ChunksAreOne DEF OneChunkEach
<1>3. FlattenSeq(s) = FlattenSeq(t)
  OBVIOUS
<1> HIDE DEF s, t, n
<1>4. Singles(s, n) /\ Singles(t, n)
  BY <1>1, <1>2, OnesAreSingles
<1>5. s = t
  BY <1>1, <1>3, <1>4, FlattenInjective
<1> QED BY <1>5 DEF s, t

\* The root of a tree that is finished stands for all leaves.
LEMMA RootCovers ==
    ASSUME TreeInv, tree = "built", Len(rows[1]) > 0
    PROVE  Root = FlattenSeq(rows[1])
<1> DEFINE s == rows[1]
           N == Len(rows)
<1>1. Levels(rows) /\ Len(Current) = 1 /\ N - 1 \in Nat /\ Len(s) = Pow2[N - 1]
  BY BuiltIs
<1>2. N \in 1..N /\ Root = rows[N][1] /\ 1 \in 1..Len(rows[N]) /\ s \in Seq(Hash)
  <2>1. N \in 1..N /\ s \in Seq(Hash)
    BY <1>1, LevelsTyped, CurrentIs
  <2>2. Current = rows[N]
    BY <1>1, CurrentIs
  <2>3. 1 \in 1..Len(rows[N])
    BY <1>1, <2>2
  <2>4. Root = rows[N][1]
    BY <2>2 DEF Root
  <2> QED BY <2>1, <2>3, <2>4
<1>3. Root = FlattenSeq(Run(s, N, 1))
  BY <1>1, <1>2 DEF Levels, Covers
<1>4. Run(s, N, 1) = SubSeq(s, 1, Len(s))
  <2>1. \A x \in Nat : (1 - 1) * x + 1 = 1 /\ 1 * x = x
    OBVIOUS
  <2>2. Pow2[N - 1] \in Nat
    BY <1>1, Pow2Is
  <2> QED BY <1>1, <2>1, <2>2 DEF Run
<1>5. SubSeq(s, 1, Len(s)) = s
  <2> HIDE DEF s
  <2> QED BY <1>2
<1> QED BY <1>3, <1>4, <1>5

\* What bpkg_get_completed_chunks collects when the root does not match.
LEMMA PairsAre ==
    ASSUME pkg \in Packages, Levels(rows)
    PROVE  Range(MatchingPairs) = Range(pkg.chunks) \cap Range(rows[1])
<1> DEFINE Pair(i, j) == IF pkg.chunks[i] = rows[1][j] THEN <<rows[1][j]>> ELSE <<>>
           all(i) == FlattenSeq([j \in DOMAIN rows[1] |-> Pair(i, j)])
           D == DOMAIN pkg.chunks
           E == DOMAIN rows[1]
<1>1. /\ rows[1] \in Seq(Hash) /\ Len(rows[1]) \in Nat /\ E = 1..Len(rows[1])
      /\ \A j \in E : rows[1][j] \in Hash
  BY LevelsTyped
<1>2. D = 1..Len(pkg.chunks) /\ Len(pkg.chunks) \in Nat
  BY PackageTyped
<1>3. /\ \A i \in D : \A j \in E : Pair(i, j) \in Seq(Hash)
      /\ \A i \in D : \A j \in E : Range(Pair(i, j)) = {x \in {rows[1][j]} : pkg.chunks[i] = x}
  BY <1>1 DEF Range
<1>4. MatchingPairs = FlattenSeq([i \in D |-> all(i)])
  BY DEF MatchingPairs
<1>5. Range(pkg.chunks) = {pkg.chunks[i] : i \in D} /\ Range(rows[1]) = {rows[1][j] : j \in E}
  BY DEF Range
<1> HIDE DEF Pair
<1>6. ASSUME NEW i \in D
      PROVE  all(i) \in Seq(Hash) /\ Range(all(i)) = UNION {Range(Pair(i, j)) : j \in E}
  <2> DEFINE u == [j \in E |-> Pair(i, j)]
  <2>1. u \in Seq(Seq(Hash)) /\ DOMAIN u = E /\ \A j \in E : u[j] = Pair(i, j)
    BY <1>1, <1>3
  <2>2. all(i) = FlattenSeq(u)
    OBVIOUS
  <2> HIDE DEF u
  <2>3. FlattenSeq(u) \in Seq(Hash) /\ Range(FlattenSeq(u)) = UNION {Range(u[j]) : j \in DOMAIN u}
    BY <2>1, FlattenTyped, FlattenRange
  <2>4. {Range(u[j]) : j \in DOMAIN u} = {Range(Pair(i, j)) : j \in E}
    BY <2>1
  <2> QED BY <2>2, <2>3, <2>4
<1> HIDE DEF all
<1>7. Range(MatchingPairs) = UNION {Range(all(i)) : i \in D}
  <2> DEFINE u == [i \in D |-> all(i)]
  <2>1. u \in Seq(Seq(Hash)) /\ DOMAIN u = D /\ \A i \in D : u[i] = all(i)
    BY <1>2, <1>6
  <2>2. MatchingPairs = FlattenSeq(u)
    BY <1>4
  <2> HIDE DEF u
  <2>3. Range(FlattenSeq(u)) = UNION {Range(u[i]) : i \in DOMAIN u}
    BY <2>1, FlattenRange
  <2>4. {Range(u[i]) : i \in DOMAIN u} = {Range(all(i)) : i \in D}
    BY <2>1
  <2> QED BY <2>2, <2>3, <2>4
<1>8. ASSUME NEW x PROVE x \in Range(MatchingPairs) <=> \E i \in D : \E j \in E : pkg.chunks[i] = x /\ rows[1][j] = x
  <2>1. x \in Range(MatchingPairs) <=> \E i \in D : x \in Range(all(i))
    BY <1>7
  <2>2. \A i \in D : x \in Range(all(i)) <=> \E j \in E : x \in Range(Pair(i, j))
    BY <1>6
  <2>3. \A i \in D : \A j \in E : x \in Range(Pair(i, j)) <=> pkg.chunks[i] = x /\ rows[1][j] = x
    BY <1>3
  <2> QED BY <2>1, <2>2, <2>3, Zenon
<1> QED BY <1>5, <1>8

\* The conclusion of ChunkCheckRight.
ChunkRight(hashes) ==
    /\ Range(hashes) = Range(pkg.chunks) \cap Range(rows[1])
    /\ rows[1] = pkg.chunks => hashes = pkg.chunks

\* Both answers of -chunk_check are right.
LEMMA ChunkCheckAnswers ==
    ASSUME MadeByPkgmake, Inv, OneChunkEach, ChunkCheck
    PROVE  ChunkCheckRight'
<1>1. /\ Ready("chunk_check") /\ HasRoot /\ RootListed
      /\ Answer(IF RootMatches THEN pkg.chunks ELSE MatchingPairs)
  BY DEF ChunkCheck
<1>2. /\ pkg \in Packages /\ Levels(rows) /\ Len(Current) = 1 /\ Len(rows[1]) = Len(pkg.chunks)
      /\ TreeInv /\ tree = "built"
  BY <1>1, ReadyIs, RootIs DEF Inv, ProcTyped
<1>3. Len(rows[1]) \in Nat /\ Len(rows[1]) > 0
  <2> DEFINE c == Len(Current)
             p == Pow2[Len(rows) - 1]
  <2>1. Len(rows) - 1 \in Nat /\ c * p = Len(rows[1])
    BY <1>2, CurrentIs
  <2>2. c = 1 /\ p \in Nat /\ p > 0
    BY <1>2, <2>1, Pow2Is
  <2> HIDE DEF c, p
  <2>3. c * p = p
    BY <2>2
  <2> QED BY <2>1, <2>2, <2>3
<1>4. Perfect(Len(pkg.chunks)) /\ Root = FlattenSeq(rows[1])
  BY <1>2, <1>3, BuiltIs, RootCovers
<1>5. pkg.hashes[1] = FlattenSeq(pkg.chunks)
  <2>1. FromMake(pkg) /\ pkg.hashes # <<>>
    BY <1>1, <1>2 DEF MadeByPkgmake, RootListed
  <2>2. Len(pkg.chunks) \in Nat
    BY <1>2, <1>3
  <2> QED BY <1>4, <2>1, <2>2 DEF FromMake
<1>6. RootMatches <=> rows[1] = pkg.chunks
  <2>1. RootMatches => FlattenSeq(rows[1]) = FlattenSeq(pkg.chunks)
    BY <1>4, <1>5 DEF RootMatches
  <2>2. Len(rows[1]) # 0
    BY <1>3
  <2>3. FlattenSeq(rows[1]) = FlattenSeq(pkg.chunks) => rows[1] = pkg.chunks
    BY <1>2, <2>2, SameWhole
  <2>4. rows[1] = pkg.chunks => RootMatches
    BY <1>4, <1>5 DEF RootMatches
  <2> QED BY <2>1, <2>3, <2>4
<1>7. \E hashes : Answer(hashes) /\ ChunkRight(hashes)
  <2>1. CASE RootMatches
    <3>1. rows[1] = pkg.chunks /\ Answer(pkg.chunks)
      BY <1>1, <1>6, <2>1
    <3>2. ChunkRight(pkg.chunks)
      BY <3>1 DEF ChunkRight
    <3> QED BY <3>1, <3>2
  <2>2. CASE ~RootMatches
    <3>1. rows[1] # pkg.chunks /\ Answer(MatchingPairs)
      BY <1>1, <1>6, <2>2
    <3>2. ChunkRight(MatchingPairs)
      BY <1>2, <3>1, PairsAre DEF ChunkRight
    <3> QED BY <3>1, <3>2
  <2> QED BY <2>1, <2>2
<1>8. PICK hashes : Answer(hashes) /\ ChunkRight(hashes)
  BY <1>7
<1>9. pkg' = pkg /\ rows' = rows /\ answer' = hashes
  BY <1>8, AnswerKeeps
<1> QED BY <1>8, <1>9 DEF ChunkRight, ChunkCheckRight

\* No other step touches the answer.
LEMMA ChunkCheckStep ==
    ASSUME MadeByPkgmake, Inv, OneChunkEach, ChunkCheckRight, [Next]_vars
    PROVE  ChunkCheckRight'
<1> SUFFICES ASSUME Answered("chunk_check")' PROVE ChunkCheckRight'
  BY DEF ChunkCheckRight
<1>1. CASE UNCHANGED vars
  BY <1>1 DEF vars, treeVars, ChunkCheckRight, Answered
<1>2. CASE ~(UNCHANGED vars)
  BY <1>2, WhoAnswers, ChunkCheckAnswers
<1> QED BY <1>1, <1>2

\* A hash of the package is in the tree of the package's own hashes.
LEMMA KnownIsFound ==
    ASSUME MadeByPkgmake, Inv, tree = "built", rows[1] = pkg.chunks, arg \in Known
    PROVE  ~NotFound
<1>1. /\ pkg \in Packages /\ FromMake(pkg) /\ TreeInv /\ Levels(rows)
      /\ pkg.chunks \in Seq(Hash) /\ Len(pkg.chunks) \in Nat
  BY PackageTyped DEF Inv, ProcTyped, MadeByPkgmake, TreeInv, TreeShape
<1> DEFINE N == Len(rows)
           n == Len(pkg.chunks)
<1>2. /\ N \in Nat /\ 1 \in 1..N /\ DOMAIN rows = 1..N
      /\ \A h \in 1..N : DOMAIN rows[h] = 1..Len(rows[h]) /\ Len(rows[h]) \in Nat
  BY <1>1, LevelsTyped
<1>3. CASE arg \in Range(pkg.chunks)
  <2>1. PICK i \in DOMAIN rows[1] : rows[1][i] = arg
    BY <1>3 DEF Range
  <2>2. Finds(1, i) /\ 1 \in DOMAIN rows
    BY <1>2, <2>1 DEF Finds
  <2> QED BY <2>1, <2>2 DEF NotFound
<1>4. CASE arg \in Range(pkg.hashes)
  <2>1. n > 1
    <3>1. pkg.hashes # <<>>
      BY <1>4 DEF Range
    <3>2. ~(n <= 1)
      BY <1>1, <3>1 DEF FromMake
    <3> QED BY <1>1, <3>2
  <2>2. Perfect(n) /\ n = Pow2[N - 1] /\ N - 1 \in Nat
    <3>1. Len(rows[1]) = n /\ Len(rows[1]) > 0
      BY <2>1
    <3> QED BY <1>1, <3>1, BuiltIs
  <2>3. PICK h, k \in 1..n : k * Pow2[h - 1] <= n /\ arg = FlattenSeq(Run(pkg.chunks, h, k))
    BY <1>1, <1>4, <2>1, <2>2 DEF FromMake
  <2>4. h - 1 \in Nat /\ h \in Nat /\ h > 0 /\ k \in Nat /\ k > 0
    BY <1>1
  <2>5. Pow2[h - 1] \in Nat /\ Pow2[h - 1] > 0
    BY <2>4, Pow2Is
  <2>6. Pow2[h - 1] <= n
    <3>1. \A a, b \in Nat : a > 0 => b <= a * b
      OBVIOUS
    <3>2. Pow2[h - 1] <= k * Pow2[h - 1] /\ k * Pow2[h - 1] \in Nat
      BY <2>4, <2>5, <3>1
    <3> QED BY <1>1, <2>3, <2>5, <3>2
  <2>7. h \in 1..N
    <3>1. ~(N - 1 < h - 1)
      <4> SUFFICES ASSUME N - 1 < h - 1 PROVE FALSE
        OBVIOUS
      <4>1. 2 * Pow2[N - 1] <= Pow2[h - 1]
        BY <2>2, <2>4, Pow2Increases
      <4> QED BY <1>1, <2>1, <2>2, <2>5, <2>6, <4>1
    <3> QED BY <1>2, <2>4, <3>1
  <2>8. k \in 1..Len(rows[h])
    <3>1. Len(rows[h]) * Pow2[h - 1] = n /\ Len(rows[h]) \in Nat
      BY <1>1, <1>2, <2>7 DEF Levels, Sized
    <3>2. \A a, b, c \in Nat : c > 0 /\ a * c <= b * c => a <= b
      OBVIOUS
    <3>3. k * Pow2[h - 1] <= Len(rows[h]) * Pow2[h - 1]
      BY <2>3, <3>1
    <3>4. k <= Len(rows[h])
      BY <2>4, <2>5, <3>1, <3>2, <3>3
    <3> QED BY <2>4, <3>1, <3>4
  <2>9. rows[h][k] = arg
    BY <1>1, <2>3, <2>7, <2>8 DEF Levels, Covers
  <2>10. h \in DOMAIN rows /\ k \in DOMAIN rows[h]
    BY <1>2, <2>7, <2>8
  <2>11. Finds(h, k)
    BY <2>9, <2>10 DEF Finds
  <2> QED BY <2>10, <2>11 DEF NotFound
<1> QED BY <1>3, <1>4 DEF Known

\* The conclusion of HashesOfRight.
LeavesRight(hashes) ==
    /\ hashes # <<>> => FlattenSeq(hashes) = arg /\ Range(hashes) \subseteq Range(rows[1])
    /\ arg \in Known => hashes # <<>>

\* Both answers of -hashes_of are right.
LEMMA HashesOfAnswers ==
    ASSUME MadeByPkgmake, Inv, HashesOf \/ HashesOfNothing
    PROVE  HashesOfRight'
<1>1. \E hashes : Answer(hashes) /\ LeavesRight(hashes)
  <2>1. CASE HashesOf
    <3>1. Ready("hashes_of")
      BY <2>1 DEF HashesOf
    <3>2. PICK h \in DOMAIN rows, k \in 1..Len(rows[1]) : Finds(h, k) /\ Answer(Leaves(h, k))
      BY <2>1 DEF HashesOf
    <3>3. Levels(rows)
      BY <3>1, ReadyIs
    <3>4. h \in 1..Len(rows) /\ k \in 1..Len(rows[h]) /\ rows[h][k] = arg
      BY <3>2, <3>3, LevelsTyped DEF Finds
    <3>5. LeavesRight(Leaves(h, k))
      BY <3>3, <3>4, LeavesTyped DEF LeavesRight
    <3> QED BY <3>2, <3>5
  <2>2. CASE HashesOfNothing
    <3>1. Ready("hashes_of") /\ NotFound /\ again /\ Answer(<<>>)
      BY <2>2 DEF HashesOfNothing
    <3>2. rows[1] = pkg.chunks /\ tree = "built"
      BY <3>1 DEF Inv, Linked, Ready
    <3>3. arg \notin Known
      BY <3>1, <3>2, KnownIsFound
    <3> QED BY <3>1, <3>3 DEF LeavesRight
  <2> QED BY <2>1, <2>2
<1>2. PICK hashes : Answer(hashes) /\ LeavesRight(hashes)
  BY <1>1
<1>3. pkg' = pkg /\ rows' = rows /\ arg' = arg /\ answer' = hashes
  BY <1>2, AnswerKeeps
<1> QED BY <1>2, <1>3 DEF LeavesRight, HashesOfRight, Known

\* No other step touches the answer.
LEMMA HashesOfStep ==
    ASSUME MadeByPkgmake, Inv, HashesOfRight, [Next]_vars
    PROVE  HashesOfRight'
<1> SUFFICES ASSUME Answered("hashes_of")' PROVE HashesOfRight'
  BY DEF HashesOfRight
<1>1. CASE UNCHANGED vars
  BY <1>1 DEF vars, treeVars, HashesOfRight, Answered, Known
<1>2. CASE ~(UNCHANGED vars)
  BY <1>2, WhoAnswers, HashesOfAnswers
<1> QED BY <1>1, <1>2

\* The conclusion of PerfectTreesAnswer.
Excused ==
    \/ Len(pkg.chunks) < 2 \/ ~Perfect(Len(pkg.chunks))
    \/ flag = "test_data"
    \/ flag = "file_check" /\ file = NoFile
    \/ flag = "hashes_of" /\ ~(arg \in Known /\ rows[1] = pkg.chunks)

\* Without a root there is no chunk.
LEMMA NoRootNoChunk ==
    ASSUME Inv, NEW query, Ready(query), ~HasRoot
    PROVE  Len(pkg.chunks) < 2
<1>1. Levels(rows) /\ Len(rows[1]) = Len(pkg.chunks) /\ Len(Current) <= 1
  BY ReadyIs
<1>2. Len(Current) = 0
  <2>1. Len(Current) # 1 /\ Len(Current) \in Nat
    BY <1>1, RootIs, CurrentIs
  <2>2. \A n \in Nat : n <= 1 /\ n # 1 => n = 0
    OBVIOUS
  <2> QED BY <1>1, <2>1, <2>2, Zenon
<1>3. Len(rows) - 1 \in Nat /\ 0 * Pow2[Len(rows) - 1] = Len(rows[1])
  BY <1>1, <1>2, CurrentIs
<1>4. Pow2[Len(rows) - 1] \in Nat
  BY <1>3, Pow2Is
<1> QED BY <1>1, <1>3, <1>4

\* A perfect tree's package has hashes.
LEMMA HashesListed ==
    ASSUME MadeByPkgmake, pkg \in Packages, ~RootListed
    PROVE  Len(pkg.chunks) < 2 \/ ~Perfect(Len(pkg.chunks))
<1>1. FromMake(pkg) /\ pkg.hashes = <<>> /\ Len(pkg.chunks) \in Nat
  BY PackageTyped DEF MadeByPkgmake, RootListed
<1>2. ~(Len(pkg.chunks) > 1 /\ Perfect(Len(pkg.chunks)))
  BY <1>1 DEF FromMake
<1> QED BY <1>1, <1>2

\* A tree that stops at an odd level is not perfect.
LEMMA OddIsExcused ==
    TreeInv /\ tree = "crash" => ~Perfect(Len(rows[1]))
<1> SUFFICES ASSUME TreeInv, tree = "crash" PROVE ~Perfect(Len(rows[1]))
  OBVIOUS
<1>1. Levels(rows) /\ Len(Current) > 1 /\ Len(Current) % 2 = 1
  BY DEF TreeInv, TreeShape, Progress
<1> DEFINE m == Len(Current)
           g == Len(rows) - 1
           n == Len(rows[1])
<1>2. m \in Nat /\ g \in Nat /\ n \in Nat /\ m * Pow2[g] = n /\ m > 1 /\ m % 2 = 1
  BY <1>1, CurrentIs
<1> HIDE DEF m, g, n
<1>3. \A a, b \in Nat : m * Pow2[a] # Pow2[b]
  BY <1>2, OddIsNoLevel
<1>4. ~Perfect(n)
  BY <1>2, <1>3, PerfectIs
<1> QED BY <1>4 DEF n

\* Each step that crashes is excused.
LEMMA PerfectStep ==
    ASSUME MadeByPkgmake, Inv, PerfectTreesAnswer, [Next]_vars, Inv'
    PROVE  PerfectTreesAnswer'
<1> SUFFICES ASSUME pc' = "crashed" PROVE Excused'
  BY DEF PerfectTreesAnswer, Excused
<1>1. CASE UNCHANGED vars
  <2>1. Excused
    BY <1>1 DEF vars, PerfectTreesAnswer, Excused
  <2> QED BY <1>1, <2>1 DEF vars, treeVars, Excused, Known
<1>2. CASE FileCheckFails
  BY <1>2 DEF FileCheckFails, Excused
<1>3. CASE BuildStep /\ tree' = "crash"
  <2>1. ~Perfect(Len(rows'[1])) /\ rows' # <<>>
    <3>1. TreeInv' /\ tree' = "crash"
      BY <1>3 DEF Inv
    <3>2. (TreeInv /\ tree = "crash" => ~Perfect(Len(rows[1])))'
      BY OddIsExcused, PTL
    <3>3. rows' # <<>>
      BY <3>1 DEF TreeInv, TreeTyped
    <3> QED BY <3>1, <3>2, <3>3 DEF Perfect
  <2>2. Len(rows'[1]) = Len(pkg'.chunks)
    BY <2>1 DEF Inv, Linked
  <2> QED BY <2>1, <2>2 DEF Excused
<1>4. ASSUME Crash, Excused PROVE Excused'
  BY <1>4 DEF Crash, treeVars, Excused, Known
<1>5. pkg \in Packages
  BY DEF Inv, ProcTyped
<1>6. CASE ChunkCheckCrash
  <2>1. Ready("chunk_check") /\ Crash /\ (~HasRoot \/ ~RootListed)
    BY <1>6 DEF ChunkCheckCrash
  <2>2. Excused
    BY <1>5, <2>1, NoRootNoChunk, HashesListed DEF Excused
  <2> QED BY <1>4, <2>1, <2>2
<1>7. CASE MinHashesCrash
  <2>1. Crash /\ ~RootListed
    BY <1>7 DEF MinHashesCrash
  <2>2. Excused
    BY <1>5, <2>1, HashesListed DEF Excused
  <2> QED BY <1>4, <2>1, <2>2
<1>8. CASE HashesOfCrash
  <2>1. Ready("hashes_of") /\ Crash /\ NotFound
    BY <1>8 DEF HashesOfCrash
  <2>2. tree = "built" /\ flag = "hashes_of"
    BY <2>1 DEF Ready
  <2>3. ~(arg \in Known /\ rows[1] = pkg.chunks)
    BY <2>1, <2>2, KnownIsFound
  <2>4. Excused
    BY <2>2, <2>3 DEF Excused
  <2> QED BY <1>4, <2>1, <2>4
<1>9. CASE PrintRootCrash
  <2>1. Ready("test_tree") /\ Crash /\ ~HasRoot
    BY <1>9 DEF PrintRootCrash
  <2>2. Excused
    BY <2>1, NoRootNoChunk DEF Excused
  <2> QED BY <1>4, <2>1, <2>2
<1>10. CASE TestDataCrash
  <2>1. Ready("test_data") /\ Crash
    BY <1>10 DEF TestDataCrash
  <2>2. Excused
    BY <2>1 DEF Excused, Ready
  <2> QED BY <1>4, <2>1, <2>2
<1> QED BY <1>1, <1>2, <1>3, <1>6, <1>7, <1>8, <1>9, <1>10, WhoCrashes

-----------------------------------------------------------------------------
(* The theorems.                                                           *)

\* Every state that the package checker reaches has the shape that TypeOK says: a
\* leaf for each chunk of the package, a tree or none, answers that are hashes.
THEOREM TypeCorrect == Spec => []TypeOK
  BY InitInv, StepInv, InvTypes, PTL DEF Spec

\* The tree's part of the invariant, by itself.
LEMMA TreeOfSpec == Spec => []TreeInv
<1>1. Inv => TreeInv
  BY DEF Inv
<1> QED BY <1>1, InitInv, StepInv, PTL DEF Spec

\* num_nodes of build_merkle_tree counts every node of the tree once, for every
\* number of chunks, odd levels and unfinished trees included.
THEOREM NodesAreCounted == Spec => []NodesCounted
  BY TreeOfSpec, TreeSays, PTL

\* Every node that build_merkle_tree makes stands for the run of chunks that its
\* place says, in the order of the file, for every number of chunks.
THEOREM NodesCoverTheirRuns == Spec => []RowsCover
  BY TreeOfSpec, TreeSays, PTL

\* verify_level's message comes just for the chunk counts that are no power of two,
\* and with the first level.
THEOREM WarningsAreRight == Spec => []WarningIsRight
  BY TreeOfSpec, TreeSays, PTL

\* A tree that build_merkle_tree finishes has the height and the number of nodes
\* of a perfect tree.
THEOREM BuiltTreesArePerfect == Spec => []BuiltIsPerfect
  BY TreeOfSpec, TreeSays, PTL

\* -min_hashes names hashes of the package only, and every complete subtree that is
\* not part of a larger one: for every package, whoever wrote it, and all data.
THEOREM MinHashesAreRight == Spec => []MinHashesRight
<1>1. Init => MinHashesRight
  BY DEF Init, MinHashesRight, Answered
<1> QED BY <1>1, InitInv, StepInv, MinHashesStep, PTL DEF Spec

\* Of packages that pkgmake made, -chunk_check names the chunks that the data has,
\* and all of them, once each, when the data is complete.
THEOREM ChunkChecksAreRight == ASSUME MadeByPkgmake PROVE Spec => []ChunkCheckRight
<1>1. Init => OneChunkEach /\ ChunkCheckRight
  BY DEF Init, NoTree, OneChunkEach, ChunkCheckRight, Answered
<1>2. Inv /\ OneChunkEach /\ ChunkCheckRight /\ [Next]_vars => (OneChunkEach /\ ChunkCheckRight)'
  BY OneChunkStep, ChunkCheckStep
<1> QED BY <1>1, <1>2, InitInv, StepInv, PTL DEF Spec

\* Of packages that pkgmake made, -hashes_of names chunks of the tree that join to
\* what was asked for, and never answers nothing for a hash of the package.
THEOREM HashesOfAreRight == ASSUME MadeByPkgmake PROVE Spec => []HashesOfRight
<1>1. Init => HashesOfRight
  BY DEF Init, HashesOfRight, Answered
<1>2. Inv /\ HashesOfRight /\ [Next]_vars => HashesOfRight'
  BY HashesOfStep
<1> QED BY <1>1, <1>2, InitInv, StepInv, PTL DEF Spec

\* Of packages that pkgmake made, a query of a perfect tree of at least two leaves
\* comes to an answer but in the three cases that PerfectTreesAnswer names.
THEOREM PerfectTreesAreAnswered == ASSUME MadeByPkgmake PROVE Spec => []PerfectTreesAnswer
<1>1. Init => PerfectTreesAnswer
  BY DEF Init, PerfectTreesAnswer
<1>2. Inv /\ PerfectTreesAnswer /\ [Next]_vars /\ Inv' => PerfectTreesAnswer'
  BY PerfectStep
<1> QED BY <1>1, <1>2, InitInv, StepInv, PTL DEF Spec
=============================================================================
