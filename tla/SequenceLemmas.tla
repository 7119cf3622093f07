---------------------------- MODULE SequenceLemmas ----------------------------
(***************************************************************************)
(* Facts about numbers and sequences that the proofs about package files   *)
(* and trees rest on.                                                      *)
(***************************************************************************)
EXTENDS SequencesExt, SequenceTheorems, WellFoundedInduction, TLAPS

\* Every set of natural numbers that is not empty has a least element.
LEMMA LeastElement ==
    ASSUME NEW T \in SUBSET Nat, T # {}
    PROVE  \E x \in T : \A y \in T : x <= y
<1> DEFINE R == OpToRel(<, Nat)
<1>1. IsWellFoundedOn(R, Nat)
  BY NatLessThanWellFounded
<1> HIDE DEF R
<1>2. PICK x \in T : \A y \in T : ~ (<<y, x>> \in R)
  BY <1>1, WFMin
<1>3. \A y \in Nat, z \in Nat : y < z => <<y, z>> \in R
  BY DEF R, OpToRel
<1>4. \A y \in T : ~ (y < x)
  BY <1>2, <1>3
<1> QED BY <1>4

\* A set that holds 0, and with every number the next one, holds all of them.
LEMMA SetInduction ==
    ASSUME NEW T, 0 \in T, \A n \in Nat : n \in T => n + 1 \in T
    PROVE  \A n \in Nat : n \in T
<1> DEFINE U == {n \in Nat : n \notin T}
<1>1. SUFFICES ASSUME U # {} PROVE FALSE
  OBVIOUS
<1>2. PICK x \in U : \A y \in U : x <= y
  BY <1>1, LeastElement
<1>3. x # 0 /\ x - 1 \in Nat /\ x - 1 \notin U
  BY <1>2
<1> QED BY <1>3

\* A function on the natural numbers may be defined by its first value and by what
\* follows each value.
Iterates(f, X, a, G) ==
    f \in [Nat -> X] /\ f[0] = a /\ \A n \in Nat : f[n + 1] = G[n][f[n]]

\* Primitive recursion over the numbers has a solution.
LEMMA Recursion ==
    ASSUME NEW X, NEW a \in X, NEW G \in [Nat -> [X -> X]]
    PROVE  \E f : Iterates(f, X, a, G)
<1> DEFINE Part(f, n) == /\ f \in [0..n -> X] /\ f[0] = a
                         /\ \A k \in 0..n : k + 1 \in 0..n => f[k + 1] = G[k][f[k]]
           T == {n \in Nat : \E f : Part(f, n)}
<1>1. 0 \in T
  <2> DEFINE f0 == [k \in 0..0 |-> a]
  <2>1. Part(f0, 0)
    OBVIOUS
  <2> HIDE DEF Part
  <2> QED BY <2>1
<1>2. ASSUME NEW n \in Nat, n \in T PROVE n + 1 \in T
  <2>1. PICK f : Part(f, n)
    BY <1>2
  <2> DEFINE g == [k \in 0..(n + 1) |-> IF k = n + 1 THEN G[n][f[n]] ELSE f[k]]
  <2>2. f[n] \in X /\ G[n] \in [X -> X] /\ \A k \in 0..n : f[k] \in X
    BY <2>1
  <2>3. g \in [0..(n + 1) -> X]
    BY <2>2
  <2>4. g[n + 1] = G[n][f[n]] /\ \A k \in 0..n : g[k] = f[k]
    OBVIOUS
  <2> HIDE DEF g
  <2>5. g[0] = a
    BY <2>1, <2>4
  <2>6. ASSUME NEW k \in 0..(n + 1), k + 1 \in 0..(n + 1) PROVE g[k + 1] = G[k][g[k]]
    <3>1. CASE k = n
      BY <2>4, <3>1
    <3>2. CASE k # n
      <4>1. k \in 0..n /\ k + 1 \in 0..n
        BY <2>6, <3>2
      <4> QED BY <2>1, <2>4, <4>1
    <3> QED BY <3>1, <3>2
  <2>7. Part(g, n + 1)
    BY <2>3, <2>5, <2>6
  <2> HIDE DEF Part
  <2> QED BY <2>7
<1>3. \A n \in Nat : n \in T
  <2> HIDE DEF T
  <2> QED BY <1>1, <1>2, SetInduction
<1>4. ASSUME NEW n \in Nat, NEW f, NEW g, Part(f, n), Part(g, n + 1) PROVE f[n] = g[n]
  <2> DEFINE U == {k \in Nat : k \in 0..n => f[k] = g[k]}
  <2>1. 0 \in U
    BY <1>4
  <2>2. ASSUME NEW k \in Nat, k \in U PROVE k + 1 \in U
    <3>1. SUFFICES ASSUME k + 1 \in 0..n PROVE f[k + 1] = g[k + 1]
      OBVIOUS
    <3>2. k \in 0..n /\ k \in 0..(n + 1) /\ k + 1 \in 0..(n + 1)
      BY <3>1
    <3>3. f[k] = g[k]
      BY <2>2, <3>2
    <3>4. f[k + 1] = G[k][f[k]]
      BY <1>4, <3>1, <3>2
    <3>5. g[k + 1] = G[k][g[k]]
      BY <1>4, <3>2
    <3> QED BY <3>3, <3>4, <3>5
  <2>3. \A k \in Nat : k \in U
    <3> HIDE DEF U
    <3> QED BY <2>1, <2>2, SetInduction
  <2> QED BY <2>3
<1> DEFINE P(n) == CHOOSE f : Part(f, n)
<1>5. \A n \in Nat : Part(P(n), n)
  <2> HIDE DEF Part
  <2> QED BY <1>3
<1> HIDE DEF P
<1> DEFINE F == [n \in Nat |-> P(n)[n]]
<1>6. \A n \in Nat : P(n)[n] \in X
  BY <1>5
<1>7. F \in [Nat -> X] /\ F[0] = a
  BY <1>5, <1>6
<1>8. ASSUME NEW n \in Nat PROVE F[n + 1] = G[n][F[n]]
  <2>1. P(n)[n] = P(n + 1)[n]
    <3>1. Part(P(n), n) /\ Part(P(n + 1), n + 1)
      BY <1>5
    <3> HIDE DEF Part
    <3> QED BY <1>4, <3>1
  <2>2. P(n + 1)[n + 1] = G[n][P(n + 1)[n]]
    <3>1. Part(P(n + 1), n + 1) /\ n \in 0..(n + 1) /\ n + 1 \in 0..(n + 1)
      BY <1>5
    <3> QED BY <3>1
  <2> QED BY <2>1, <2>2
<1> HIDE DEF F
<1> QED BY <1>7, <1>8 DEF Iterates

\* What Min returns.
LEMMA MinIs ==
    ASSUME NEW T \in SUBSET Nat, T # {}
    PROVE  Min(T) \in T /\ \A y \in T : Min(T) <= y
  BY LeastElement DEF Min

\* What Max returns, of a set that has a greatest element.
LEMMA MaxIs ==
    ASSUME NEW T \in SUBSET Nat, NEW x \in T, \A y \in T : y <= x
    PROVE  Max(T) = x
<1>1. \A z \in T : (\A y \in T : z >= y) => z = x
  OBVIOUS
<1> QED BY <1>1 DEF Max

\* The places of two sequences in their concatenation.
LEMMA ConcatIs ==
    ASSUME NEW S, NEW s \in Seq(S), NEW t \in Seq(S)
    PROVE  /\ s \o t \in Seq(S) /\ Len(s \o t) = Len(s) + Len(t)
           /\ \A i \in 1..Len(s) : (s \o t)[i] = s[i]
           /\ \A i \in 1..Len(t) : (s \o t)[Len(s) + i] = t[i]
<1>1. /\ s \o t \in Seq(S)
      /\ Len(s \o t) = Len(s) + Len(t)
      /\ \A i \in 1..(Len(s) + Len(t)) : (s \o t)[i] = IF i <= Len(s) THEN s[i] ELSE t[i - Len(s)]
  BY ConcatProperties
<1>2. /\ Len(s) \in Nat /\ Len(t) \in Nat
      /\ \A i \in 1..Len(t) : Len(s) + i \in 1..(Len(s) + Len(t)) /\ ~(Len(s) + i <= Len(s))
                              /\ (Len(s) + i) - Len(s) = i
  OBVIOUS
<1>3. \A i \in 1..Len(s) : i \in 1..(Len(s) + Len(t))
  BY <1>2
<1> QED BY <1>1, <1>2, <1>3

-----------------------------------------------------------------------------
(* What is left of a sequence from a place on.                             *)

From(s, k) == SubSeq(s, k, Len(s))

\* The part of s from its i-th element on.
LEMMA FromIs ==
    ASSUME NEW S, NEW s \in Seq(S), NEW k \in 1..(Len(s) + 1)
    PROVE  /\ From(s, k) \in Seq(S)
           /\ Len(From(s, k)) = Len(s) + 1 - k
           /\ \A i \in 1..(Len(s) + 1 - k) : From(s, k)[i] = s[k + i - 1]
           /\ k <= Len(s) => From(s, k) # <<>>
<1>1. Len(s) \in Nat /\ \A i \in k..Len(s) : s[i] \in S
  OBVIOUS
<1>2. /\ SubSeq(s, k, Len(s)) \in Seq(S)
      /\ Len(SubSeq(s, k, Len(s))) = IF k <= Len(s) THEN Len(s) - k + 1 ELSE 0
      /\ \A i \in 1..(Len(s) - k + 1) : SubSeq(s, k, Len(s))[i] = s[k + i - 1]
  BY <1>1, SubSeqProperties
<1>3. Len(From(s, k)) = Len(s) + 1 - k
  BY <1>1, <1>2 DEF From
<1>4. k <= Len(s) => From(s, k) # <<>>
  BY <1>1, <1>3
<1> QED BY <1>1, <1>2, <1>3, <1>4 DEF From

\* Such a part of such a part.
LEMMA FromFrom ==
    ASSUME NEW S, NEW s \in Seq(S), NEW k \in 1..Len(s), NEW m \in 1..(Len(s) + 2 - k)
    PROVE  From(From(s, k), m) = From(s, k + m - 1)
<1>0. Len(s) \in Nat /\ k \in 1..(Len(s) + 1) /\ k + m - 1 \in 1..(Len(s) + 1)
  OBVIOUS
<1>1. /\ From(s, k) \in Seq(S) /\ Len(From(s, k)) = Len(s) + 1 - k
      /\ \A i \in 1..(Len(s) + 1 - k) : From(s, k)[i] = s[k + i - 1]
  BY <1>0, FromIs
<1>2. m \in 1..(Len(From(s, k)) + 1)
  BY <1>0, <1>1
<1>3. /\ From(From(s, k), m) \in Seq(S)
      /\ Len(From(From(s, k), m)) = Len(From(s, k)) + 1 - m
      /\ \A i \in 1..(Len(From(s, k)) + 1 - m) : From(From(s, k), m)[i] = From(s, k)[m + i - 1]
  <2> DEFINE t == From(s, k)
  <2>1. t \in Seq(S) /\ m \in 1..(Len(t) + 1)
    BY <1>1, <1>2
  <2> HIDE DEF t
  <2>2. /\ From(t, m) \in Seq(S)
        /\ Len(From(t, m)) = Len(t) + 1 - m
        /\ \A i \in 1..(Len(t) + 1 - m) : From(t, m)[i] = t[m + i - 1]
    BY <2>1, FromIs
  <2> QED BY <2>2 DEF t
<1>4. /\ From(s, k + m - 1) \in Seq(S)
      /\ Len(From(s, k + m - 1)) = Len(s) + 1 - (k + m - 1)
      /\ \A i \in 1..(Len(s) + 1 - (k + m - 1)) : From(s, k + m - 1)[i] = s[(k + m - 1) + i - 1]
  BY <1>0, FromIs
<1>5. Len(From(From(s, k), m)) = Len(From(s, k + m - 1))
  BY <1>0, <1>1, <1>3, <1>4
<1>6. \A i \in 1..Len(From(From(s, k), m)) : From(From(s, k), m)[i] = From(s, k + m - 1)[i]
  <2> TAKE i \in 1..Len(From(From(s, k), m))
  <2>1. From(From(s, k), m)[i] = From(s, k)[m + i - 1]
    BY <1>0, <1>1, <1>3
  <2>2. m + i - 1 \in 1..(Len(s) + 1 - k)
    BY <1>0, <1>1, <1>3
  <2>3. From(s, k)[m + i - 1] = s[k + (m + i - 1) - 1]
    BY <1>1, <2>2
  <2>4. From(s, k + m - 1)[i] = s[(k + m - 1) + i - 1]
    BY <1>0, <1>1, <1>3, <1>4
  <2>5. k + (m + i - 1) - 1 = (k + m - 1) + i - 1
    BY <1>0
  <2> QED BY <2>1, <2>3, <2>4, <2>5
<1> QED BY <1>3, <1>4, <1>5, <1>6, SeqEqual

\* Tail is the part from the second element on.
LEMMA TailIsFrom ==
    ASSUME NEW S, NEW s \in Seq(S), s # <<>>
    PROVE  Tail(s) = From(s, 2)
  BY TailIsSubSeq DEF From

-----------------------------------------------------------------------------
(* Concatenating sequences of one element.                                 *)

\* The function from which FlattenSeq takes its result.
IsFlat(f, s) == f = [i \in 1..Len(s) |-> IF i = 1 THEN s[i] ELSE f[i - 1] \o s[i]]

\* FlattenSeq, by its definition.
LEMMA FlattenIs ==
    ASSUME NEW S, NEW s \in Seq(Seq(S)), s # <<>>
    PROVE  FlattenSeq(s) = (CHOOSE f : IsFlat(f, s))[Len(s)]
  BY DEF FlattenSeq, IsFlat

\* No sequences concatenate to the empty one.
LEMMA FlattenEmpty == FlattenSeq(<<>>) = <<>>
  BY DEF FlattenSeq

\* The function that FlattenSeq chooses exists.
LEMMA FlatExists ==
    ASSUME NEW S, NEW s \in Seq(Seq(S)), s # <<>>
    PROVE  \E f : IsFlat(f, s)
<1> DEFINE G == [i \in Nat |-> [x \in Seq(S) |-> IF i + 2 <= Len(s) THEN x \o s[i + 2] ELSE x]]
<1>1. Len(s) \in Nat /\ Len(s) # 0 /\ \A i \in 1..Len(s) : s[i] \in Seq(S)
  OBVIOUS
<1>2. G \in [Nat -> [Seq(S) -> Seq(S)]]
  <2>1. \A i \in Nat, x \in Seq(S) : (IF i + 2 <= Len(s) THEN x \o s[i + 2] ELSE x) \in Seq(S)
    <3> SUFFICES ASSUME NEW i \in Nat, NEW x \in Seq(S), i + 2 <= Len(s) PROVE x \o s[i + 2] \in Seq(S)
      OBVIOUS
    <3>1. s[i + 2] \in Seq(S)
      BY <1>1
    <3> QED BY <3>1, ConcatProperties
  <2> QED BY <2>1
<1>3. \A i \in Nat, x \in Seq(S) : i + 2 <= Len(s) => G[i][x] = x \o s[i + 2]
  OBVIOUS
<1>4. s[1] \in Seq(S)
  BY <1>1
<1> HIDE DEF G
<1>5. PICK f : f \in [Nat -> Seq(S)] /\ f[0] = s[1] /\ \A n \in Nat : f[n + 1] = G[n][f[n]]
  <2> DEFINE X == Seq(S)
             a == s[1]
  <2>1. a \in X /\ G \in [Nat -> [X -> X]]
    BY <1>2, <1>4
  <2> HIDE DEF X, a
  <2>2. PICK f : Iterates(f, X, a, G)
    BY <2>1, Recursion
  <2> QED BY <2>2 DEF Iterates, X, a
<1> DEFINE g == [i \in 1..Len(s) |-> f[i - 1]]
<1>6. g[1] = s[1]
  <2>1. 1 \in 1..Len(s) /\ 1 - 1 = 0
    BY <1>1
  <2>2. g[1] = f[1 - 1]
    BY <2>1
  <2> QED BY <1>5, <2>1, <2>2
<1>7. \A i \in 1..Len(s) : g[i] = IF i = 1 THEN s[i] ELSE g[i - 1] \o s[i]
  <2> SUFFICES ASSUME NEW i \in 1..Len(s), i # 1 PROVE g[i] = g[i - 1] \o s[i]
    BY <1>6
  <2>1. i - 2 \in Nat /\ (i - 2) + 1 = i - 1 /\ (i - 2) + 2 = i /\ i - 1 \in 1..Len(s)
        /\ (i - 1) - 1 = i - 2 /\ (i - 2) + 2 <= Len(s)
    BY <1>1
  <2>2. f[i - 2] \in Seq(S)
    BY <1>5, <2>1
  <2>3. f[(i - 2) + 1] = G[i - 2][f[i - 2]]
    BY <1>5, <2>1
  <2>4. G[i - 2][f[i - 2]] = f[i - 2] \o s[(i - 2) + 2]
    BY <1>3, <2>1, <2>2
  <2>5. f[i - 1] = f[i - 2] \o s[i]
    BY <2>1, <2>3, <2>4
  <2>6. g[i] = f[i - 1] /\ g[i - 1] = f[i - 2]
    BY <2>1
  <2> QED BY <2>5, <2>6
<1>8. g = [i \in 1..Len(s) |-> IF i = 1 THEN s[i] ELSE g[i - 1] \o s[i]]
  <2>1. g = [i \in 1..Len(s) |-> f[i - 1]]
    OBVIOUS
  <2> DEFINE e(i) == IF i = 1 THEN s[i] ELSE g[i - 1] \o s[i]
  <2>2. \A i \in 1..Len(s) : f[i - 1] = e(i)
    BY <1>7
  <2>3. [i \in 1..Len(s) |-> f[i - 1]] = [i \in 1..Len(s) |-> e(i)]
    <3> HIDE DEF e
    <3> QED BY <2>2
  <2> QED BY <2>3, Zenon
<1>9. IsFlat(g, s)
  <2> HIDE DEF g
  <2> QED BY <1>8 DEF IsFlat
<1> QED BY <1>9

\* The concatenations of the first elements of s, up to all of them.
Parts(f, s) == /\ f[1] = s[1]
               /\ \A i \in 1..Len(s) : i + 1 \in 1..Len(s) => f[i + 1] = f[i] \o s[i + 1]

\* What FlattenSeq returns, part by part.
LEMMA FlattenParts ==
    ASSUME NEW S, NEW s \in Seq(Seq(S)), s # <<>>
    PROVE  \E f : Parts(f, s) /\ FlattenSeq(s) = f[Len(s)]
<1> DEFINE f == CHOOSE f : IsFlat(f, s)
<1>1. IsFlat(f, s)
  BY FlatExists
<1>2. FlattenSeq(s) = f[Len(s)]
  BY FlattenIs
<1> HIDE DEF f
<1>3. Len(s) \in Nat /\ 1 \in 1..Len(s)
  OBVIOUS
<1>4. \A i \in 1..Len(s) : f[i] = IF i = 1 THEN s[i] ELSE f[i - 1] \o s[i]
  BY <1>1, <1>3 DEF IsFlat
<1>5. \A i \in 1..Len(s) : i + 1 \in 1..Len(s) => f[i + 1] = f[i] \o s[i + 1]
  <2>1. \A i \in 1..Len(s) : i + 1 # 1 /\ (i + 1) - 1 = i
    BY <1>3
  <2> QED BY <1>4, <2>1
<1>6. f[1] = s[1]
  BY <1>3, <1>4
<1> QED BY <1>2, <1>5, <1>6 DEF Parts

\* One sequence more at the end.
LEMMA FlattenAppend ==
    ASSUME NEW S, NEW s \in Seq(Seq(S)), NEW x \in Seq(S)
    PROVE  FlattenSeq(Append(s, x)) = IF s = <<>> THEN x ELSE FlattenSeq(s) \o x
<1> DEFINE t == Append(s, x)
<1>1. /\ Len(s) \in Nat /\ t \in Seq(Seq(S)) /\ t # <<>> /\ Len(t) = Len(s) + 1
      /\ t[Len(s) + 1] = x /\ \A i \in 1..Len(s) : t[i] = s[i]
  BY AppendProperties
<1> HIDE DEF t
<1>2. PICK g : Parts(g, t) /\ FlattenSeq(t) = g[Len(t)]
  BY <1>1, FlattenParts
<1>3. CASE s = <<>>
  <2>1. Len(s) = 0
    BY <1>3
  <2>2. FlattenSeq(t) = t[1]
    BY <1>1, <1>2, <2>1 DEF Parts
  <2> QED BY <1>1, <1>3, <2>1, <2>2 DEF t
<1>4. CASE s # <<>>
  <2>1. PICK f : Parts(f, s) /\ FlattenSeq(s) = f[Len(s)]
    BY <1>4, FlattenParts
  <2>2. Len(s) # 0
    BY <1>4
  <2> DEFINE T == {i \in Nat : i + 1 \in 1..Len(s) => f[i + 1] = g[i + 1]}
  <2>3. 0 \in T
    BY <1>1, <1>2, <2>1 DEF Parts
  <2>4. ASSUME NEW i \in Nat, i \in T PROVE i + 1 \in T
    <3> SUFFICES ASSUME (i + 1) + 1 \in 1..Len(s) PROVE f[(i + 1) + 1] = g[(i + 1) + 1]
      OBVIOUS
    <3>1. i + 1 \in 1..Len(s) /\ i + 1 \in 1..Len(t) /\ (i + 1) + 1 \in 1..Len(t)
      BY <1>1
    <3>2. f[i + 1] = g[i + 1]
      BY <2>4, <3>1
    <3>3. f[(i + 1) + 1] = f[i + 1] \o s[(i + 1) + 1]
      BY <2>1, <3>1 DEF Parts
    <3>4. g[(i + 1) + 1] = g[i + 1] \o t[(i + 1) + 1]
      BY <1>2, <3>1 DEF Parts
    <3> QED BY <1>1, <3>2, <3>3, <3>4
  <2>5. \A i \in Nat : i \in T
    <3> HIDE DEF T
    <3> QED BY <2>3, <2>4, SetInduction
  <2>6. f[Len(s)] = g[Len(s)]
    <3>1. Len(s) - 1 \in Nat /\ (Len(s) - 1) + 1 = Len(s) /\ Len(s) \in 1..Len(s)
      BY <1>1, <2>2
    <3>2. Len(s) - 1 \in T
      BY <2>5, <3>1
    <3> QED BY <3>1, <3>2
  <2>7. g[Len(s) + 1] = g[Len(s)] \o t[Len(s) + 1]
    <3>1. Len(s) \in 1..Len(t) /\ Len(s) + 1 \in 1..Len(t)
      BY <1>1, <2>2
    <3> QED BY <1>2, <3>1 DEF Parts
  <2>8. FlattenSeq(t) = FlattenSeq(s) \o x
    BY <1>1, <1>2, <2>1, <2>6, <2>7
  <2> QED BY <1>4, <2>8 DEF t
<1> QED BY <1>3, <1>4

\* FlattenSeq of sequences over S is a sequence over S.
LEMMA FlattenTyped ==
    ASSUME NEW S, NEW s \in Seq(Seq(S))
    PROVE  FlattenSeq(s) \in Seq(S)
<1> DEFINE T == {n \in Nat : \A t \in Seq(Seq(S)) : Len(t) = n => FlattenSeq(t) \in Seq(S)}
<1>1. 0 \in T
  <2> SUFFICES ASSUME NEW t \in Seq(Seq(S)), Len(t) = 0 PROVE FlattenSeq(t) \in Seq(S)
    OBVIOUS
  <2>1. t = <<>> /\ <<>> \in Seq(S)
    OBVIOUS
  <2> QED BY <2>1, FlattenEmpty
<1>2. ASSUME NEW n \in Nat, n \in T PROVE n + 1 \in T
  <2> SUFFICES ASSUME NEW t \in Seq(Seq(S)), Len(t) = n + 1 PROVE FlattenSeq(t) \in Seq(S)
    OBVIOUS
  <2>1. PICK r \in Seq(Seq(S)), x \in Seq(S) : t = Append(r, x)
    <3>1. t # <<>>
      OBVIOUS
    <3> QED BY <3>1, SequenceEmptyOrAppend
  <2>2. Len(r) = n
    BY <2>1
  <2>3. FlattenSeq(r) \in Seq(S)
    BY <1>2, <2>2
  <2>4. FlattenSeq(t) = IF r = <<>> THEN x ELSE FlattenSeq(r) \o x
    BY <2>1, FlattenAppend
  <2> QED BY <2>3, <2>4, ConcatProperties
<1>3. \A n \in Nat : n \in T
  <2> HIDE DEF T
  <2> QED BY <1>1, <1>2, SetInduction
<1>4. Len(s) \in T
  <2>1. Len(s) \in Nat
    OBVIOUS
  <2> HIDE DEF T
  <2> QED BY <1>3, <2>1
<1> QED BY <1>4

\* Concatenation regroups: ConcatAssociative with its sequences bound in the set.
LEMMA ConcatRegroups ==
    ASSUME NEW S
    PROVE  \A a, b, c \in Seq(S) : (a \o b) \o c = a \o (b \o c)
<1> SUFFICES ASSUME NEW a \in Seq(S), NEW b \in Seq(S), NEW c \in Seq(S)
             PROVE  (a \o b) \o c = a \o (b \o c)
  OBVIOUS
<1> QED BY ConcatAssociative

\* FlattenSeq of a concatenation.
LEMMA FlattenConcat ==
    ASSUME NEW S
    PROVE  \A s, t \in Seq(Seq(S)) : FlattenSeq(s \o t) = FlattenSeq(s) \o FlattenSeq(t)
<1> DEFINE Q == Seq(S)
<1>0. \A u \in Seq(Q) : FlattenSeq(u) \in Q
  BY FlattenTyped
<1>5. \A a, b, c \in Q : (a \o b) \o c = a \o (b \o c)
  BY ConcatRegroups
<1> SUFFICES ASSUME NEW s \in Seq(Q), NEW t \in Seq(Q)
             PROVE  FlattenSeq(s \o t) = FlattenSeq(s) \o FlattenSeq(t)
  OBVIOUS
<1> DEFINE T == {n \in Nat : \A u \in Seq(Q) : Len(u) = n =>
                    FlattenSeq(s \o u) = FlattenSeq(s) \o FlattenSeq(u)}
<1>1. 0 \in T
  <2> SUFFICES ASSUME NEW u \in Seq(Q), Len(u) = 0
               PROVE FlattenSeq(s \o u) = FlattenSeq(s) \o FlattenSeq(u)
    OBVIOUS
  <2>1. u = <<>> /\ s \o u = s
    BY ConcatEmptySeq
  <2>2. FlattenSeq(s) \o <<>> = FlattenSeq(s)
    BY <1>0, ConcatEmptySeq
  <2> QED BY <2>1, <2>2, FlattenEmpty
<1>2. ASSUME NEW n \in Nat, n \in T PROVE n + 1 \in T
  <2> SUFFICES ASSUME NEW u \in Seq(Q), Len(u) = n + 1
               PROVE FlattenSeq(s \o u) = FlattenSeq(s) \o FlattenSeq(u)
    OBVIOUS
  <2>1. PICK r \in Seq(Q), x \in Q : u = Append(r, x)
    <3>1. u # <<>>
      OBVIOUS
    <3> HIDE DEF Q
    <3> QED BY <3>1, SequenceEmptyOrAppend
  <2>2. Len(r) = n
    BY <2>1
  <2>3. FlattenSeq(s \o r) = FlattenSeq(s) \o FlattenSeq(r)
    BY <1>2, <2>2
  <2>4. s \o u = Append(s \o r, x) /\ s \o r \in Seq(Q)
    <3> HIDE DEF Q
    <3>1. s \in Seq(Q)
      BY DEF Q
    <3>2. u = r \o <<x>> /\ <<x>> \in Seq(Q)
      BY <2>1, AppendIsConcat
    <3>3. s \o u = (s \o r) \o <<x>>
      BY <3>1, <3>2, ConcatRegroups
    <3>4. s \o r \in Seq(Q)
      BY <3>1, ConcatProperties
    <3> QED BY <3>3, <3>4, AppendIsConcat
  <2>5. FlattenSeq(s \o u) = IF s \o r = <<>> THEN x ELSE FlattenSeq(s \o r) \o x
    BY <2>4, FlattenAppend
  <2>6. FlattenSeq(u) = IF r = <<>> THEN x ELSE FlattenSeq(r) \o x
    BY <2>1, FlattenAppend
  <2>7. FlattenSeq(s) \in Q /\ FlattenSeq(r) \in Q
    BY <1>0
  <2>8. CASE r = <<>>
    <3>1. s \o r = s
      BY <2>8, ConcatEmptySeq
    <3>2. CASE s = <<>>
      <4>1. FlattenSeq(s) = <<>> /\ <<>> \o x = x
        BY <3>2, FlattenEmpty, ConcatEmptySeq
      <4> QED BY <2>5, <2>6, <2>8, <3>1, <3>2, <4>1
    <3>3. CASE s # <<>>
      BY <2>5, <2>6, <2>8, <3>1, <3>3
    <3> QED BY <3>2, <3>3
  <2>9. CASE r # <<>>
    <3>1. s \o r # <<>>
      BY <2>9, ConcatSimplifications!concIsEmpty
    <3>2. (FlattenSeq(s) \o FlattenSeq(r)) \o x = FlattenSeq(s) \o (FlattenSeq(r) \o x)
      <4> DEFINE f == FlattenSeq(s)
                 g == FlattenSeq(r)
      <4>1. f \in Q /\ g \in Q /\ x \in Q
        BY <2>7
      <4>3. (f \o g) \o x = f \o (g \o x)
        <5> HIDE DEF f, g, Q, T
        <5> QED BY <4>1, <1>5
      <4> QED BY <4>3
    <3> QED BY <2>3, <2>5, <2>6, <2>9, <3>1, <3>2
  <2> QED BY <2>8, <2>9
<1>3. \A n \in Nat : n \in T
  <2> HIDE DEF T
  <2> QED BY <1>1, <1>2, SetInduction
<1>4. Len(t) \in T
  <2>1. Len(t) \in Nat
    OBVIOUS
  <2> HIDE DEF T
  <2> QED BY <1>3, <2>1
<1> QED BY <1>4

\* What a sequence of sequences concatenates to has their elements.
LEMMA FlattenRange ==
    ASSUME NEW S, NEW s \in Seq(Seq(S))
    PROVE  Range(FlattenSeq(s)) = UNION {Range(s[i]) : i \in DOMAIN s}
<1> DEFINE Q == Seq(S)
           All(u) == UNION {Range(u[i]) : i \in 1..Len(u)}
           T == {n \in Nat : \A u \in Seq(Q) : Len(u) = n => Range(FlattenSeq(u)) = All(u)}
<1>1. 0 \in T
  <2> SUFFICES ASSUME NEW u \in Seq(Q), Len(u) = 0 PROVE Range(FlattenSeq(u)) = All(u)
    OBVIOUS
  <2>1. u = <<>> /\ All(u) = {} /\ Range(<<>>) = {}
    BY DEF Range
  <2> QED BY <2>1, FlattenEmpty
<1>2. ASSUME NEW n \in Nat, n \in T PROVE n + 1 \in T
  <2> SUFFICES ASSUME NEW u \in Seq(Q), Len(u) = n + 1 PROVE Range(FlattenSeq(u)) = All(u)
    OBVIOUS
  <2>1. PICK r \in Seq(Q), x \in Q : u = Append(r, x)
    <3>1. u # <<>>
      OBVIOUS
    <3> HIDE DEF Q
    <3> QED BY <3>1, SequenceEmptyOrAppend
  <2>2. Len(r) = n /\ u[n + 1] = x /\ \A i \in 1..n : u[i] = r[i]
    BY <2>1
  <2>3. Range(FlattenSeq(r)) = All(r)
    BY <1>2, <2>2
  <2>4. FlattenSeq(u) = IF r = <<>> THEN x ELSE FlattenSeq(r) \o x
    BY <2>1, FlattenAppend
  <2>5. All(u) = All(r) \cup Range(x)
    <3>1. 1..(n + 1) = 1..n \cup {n + 1}
      OBVIOUS
    <3>2. ASSUME NEW y \in All(u) PROVE y \in All(r) \cup Range(x)
      <4>1. PICK i \in 1..(n + 1) : y \in Range(u[i])
        BY <3>2
      <4> QED BY <2>2, <3>1, <4>1
    <3>3. ASSUME NEW y \in All(r) PROVE y \in All(u)
      <4>1. PICK i \in 1..n : y \in Range(r[i])
        BY <2>2, <3>3
      <4> QED BY <2>2, <3>1, <4>1
    <3>4. Range(x) \subseteq All(u)
      BY <2>2, <3>1
    <3> QED BY <3>2, <3>3, <3>4, Zenon
  <2>6. CASE r = <<>>
    <3>1. All(r) = {}
      BY <2>6
    <3> QED BY <2>4, <2>5, <2>6, <3>1
  <2>7. CASE r # <<>>
    <3>1. Range(FlattenSeq(r) \o x) = Range(FlattenSeq(r)) \cup Range(x)
      BY FlattenTyped, RangeConcatenation
    <3> QED BY <2>3, <2>4, <2>5, <2>7, <3>1
  <2> QED BY <2>6, <2>7
<1>3. \A n \in Nat : n \in T
  <2> HIDE DEF T
  <2> QED BY <1>1, <1>2, SetInduction
<1>4. Len(s) \in T
  <2>1. Len(s) \in Nat
    OBVIOUS
  <2> HIDE DEF T
  <2> QED BY <1>3, <2>1
<1>5. DOMAIN s = 1..Len(s)
  OBVIOUS
<1> QED BY <1>4, <1>5

\* A sequence of sequences of one element each.
Singles(s, n) == s = [i \in 1..n |-> <<s[i][1]>>]

\* Sequences of one element each concatenate to their elements.
LEMMA FlattenSingles ==
    ASSUME NEW n \in Nat, n # 0, NEW s, Singles(s, n)
    PROVE  FlattenSeq(s) = [i \in 1..n |-> s[i][1]]
<1> DEFINE V == {s[i][1] : i \in 1..n}
           F(k) == [j \in 1..k |-> s[j][1]]
<1>1. \A i \in 1..n : s[i] = <<s[i][1]>> /\ s[i][1] \in V
  BY DEF Singles
<1> DEFINE x(i) == s[i][1]
<1>2. \A i \in 1..n : s[i] = <<x(i)>> /\ x(i) \in V
  BY <1>1
<1>3. s \in Seq(Seq(V)) /\ Len(s) = n /\ s # <<>>
  <2>1. \A i \in 1..n : <<x(i)>> \in Seq(V)
    BY <1>2
  <2>2. s = [i \in 1..n |-> <<x(i)>>]
    BY DEF Singles
  <2> HIDE DEF V, x
  <2>3. s \in Seq(Seq(V)) /\ Len(s) = n
    BY <2>1, <2>2
  <2> QED BY <2>3
<1>4. \A k \in 1..n : F(k) \in Seq(V) /\ Len(F(k)) = k /\ \A j \in 1..k : F(k)[j] = x(j)
  <2> SUFFICES ASSUME NEW k \in 1..n
               PROVE  F(k) \in Seq(V) /\ Len(F(k)) = k /\ \A j \in 1..k : F(k)[j] = x(j)
    OBVIOUS
  <2>1. F(k) = [j \in 1..k |-> x(j)]
    OBVIOUS
  <2>2. \A j \in 1..k : x(j) \in V
    BY <1>2
  <2> HIDE DEF F, x, V
  <2> QED BY <2>1, <2>2
<1>5. F(1) = s[1]
  <2>1. F(1) \in Seq(V) /\ Len(F(1)) = 1 /\ F(1)[1] = x(1) /\ s[1] = <<x(1)>> /\ x(1) \in V
    BY <1>2, <1>4
  <2> HIDE DEF F, x, V
  <2> QED BY <2>1
<1>6. \A k \in 2..n : F(k - 1) \o s[k] = F(k)
  <2> SUFFICES ASSUME NEW k \in 2..n PROVE F(k - 1) \o s[k] = F(k)
    OBVIOUS
  <2>1. /\ F(k - 1) \in Seq(V) /\ Len(F(k - 1)) = k - 1 /\ \A j \in 1..(k - 1) : F(k - 1)[j] = x(j)
        /\ F(k) \in Seq(V) /\ Len(F(k)) = k /\ \A j \in 1..k : F(k)[j] = x(j)
        /\ s[k] = <<x(k)>> /\ x(k) \in V
    <3>1. k - 1 \in 1..n /\ k \in 1..n
      OBVIOUS
    <3> HIDE DEF F, x, V
    <3> QED BY <1>2, <1>4, <3>1
  <2> HIDE DEF F, x, V
  <2> DEFINE A == F(k - 1)
             B == s[k]
             C == F(k)
  <2>2. A \in Seq(V) /\ B \in Seq(V) /\ Len(A) = k - 1 /\ Len(B) = 1 /\ B[1] = x(k)
    BY <2>1
  <2>3. C \in Seq(V) /\ Len(C) = k /\ (\A j \in 1..k : C[j] = x(j)) /\ (\A j \in 1..(k - 1) : A[j] = x(j))
    BY <2>1
  <2> HIDE DEF A, B, C
  <2>4. /\ A \o B \in Seq(V) /\ Len(A \o B) = Len(A) + Len(B)
        /\ \A i \in 1..Len(A) : (A \o B)[i] = A[i]
        /\ \A i \in 1..Len(B) : (A \o B)[Len(A) + i] = B[i]
    BY <2>2, ConcatIs
  <2>5. Len(A \o B) = k /\ (A \o B)[k] = x(k)
    BY <2>2, <2>4
  <2>6. \A j \in 1..k : (A \o B)[j] = C[j]
    BY <2>2, <2>3, <2>4, <2>5
  <2>7. A \o B = C
    BY <2>3, <2>4, <2>5, <2>6, SeqEqual
  <2> QED BY <2>7 DEF A, B, C
<1>7. \E f : IsFlat(f, s)
  <2> DEFINE f0 == [i \in 1..n |-> F(i)]
  <2>1. \A i \in 1..n : F(i) = IF i = 1 THEN s[i] ELSE f0[i - 1] \o s[i]
    <3> TAKE i \in 1..n
    <3>1. CASE i = 1
      <4> HIDE DEF F
      <4> QED BY <3>1, <1>5
    <3>2. CASE i # 1
      <4>1. i \in 2..n /\ i - 1 \in 1..n
        BY <3>2
      <4>2. f0[i - 1] = F(i - 1)
        BY <4>1
      <4> HIDE DEF F, f0
      <4> QED BY <1>6, <3>2, <4>1, <4>2
    <3> QED BY <3>1, <3>2
  <2>2. f0 = [i \in 1..n |-> IF i = 1 THEN s[i] ELSE f0[i - 1] \o s[i]]
    <3> HIDE DEF F
    <3>1. f0 = [i \in 1..n |-> F(i)]
      OBVIOUS
    <3> HIDE DEF f0
    <3> QED BY <2>1, <3>1
  <2> HIDE DEF f0
  <2>3. IsFlat(f0, s)
    BY <2>2, <1>3 DEF IsFlat
  <2> QED BY <2>3
<1> DEFINE f == CHOOSE f : IsFlat(f, s)
<1>8. IsFlat(f, s)
  BY <1>7
<1> HIDE DEF f
<1>9. \A i \in 1..n : f[i] = IF i = 1 THEN s[i] ELSE f[i - 1] \o s[i]
  BY <1>3, <1>8 DEF IsFlat
<1>10. f[n] = F(n)
  <2> HIDE DEF F, x, V
  <2> DEFINE T == {k \in Nat : k \in 1..n => f[k] = F(k)}
  <2>1. 0 \in T
    OBVIOUS
  <2>2. ASSUME NEW k \in Nat, k \in T PROVE k + 1 \in T
    <3>1. CASE k = 0
      <4>1. k + 1 = 1 /\ (1 \in 1..n => f[1] = s[1])
        BY <1>9, <3>1
      <4> QED BY <4>1, <1>5
    <3>2. CASE k # 0 /\ k + 1 \in 1..n
      <4>1. k + 1 # 1 /\ (k + 1) - 1 = k /\ k \in 1..n /\ k + 1 \in 2..n
        BY <3>2
      <4>2. f[k + 1] = f[k] \o s[k + 1]
        BY <1>9, <3>2, <4>1
      <4>3. F(k) \o s[k + 1] = F(k + 1)
        BY <1>6, <4>1
      <4>4. k \in 1..n => f[k] = F(k)
        BY <2>2
      <4>5. f[k + 1] = F(k + 1)
        <5> HIDE DEF T
        <5> QED BY <4>1, <4>2, <4>3, <4>4
      <4> QED BY <4>5
    <3>3. CASE k + 1 \notin 1..n
      BY <3>3
    <3> QED BY <3>1, <3>2, <3>3
  <2> HIDE DEF T
  <2>3. \A k \in Nat : k \in T
    BY <2>1, <2>2, SetInduction
  <2>4. n \in T /\ n \in 1..n
    BY <2>3
  <2> QED BY <2>4 DEF T
<1>11. FlattenSeq(s) = f[n]
  BY <1>3, FlattenIs DEF f
<1> QED BY <1>10, <1>11

\* Such sequences are equal when what they concatenate to is.
LEMMA FlattenInjective ==
    ASSUME NEW n \in Nat, n # 0, NEW s, Singles(s, n), NEW t, Singles(t, n),
           FlattenSeq(s) = FlattenSeq(t)
    PROVE  s = t
<1>1. [i \in 1..n |-> s[i][1]] = [i \in 1..n |-> t[i][1]]
  BY FlattenSingles
<1>2. \A i \in 1..n : s[i][1] = t[i][1]
  BY <1>1
<1> QED BY <1>2 DEF Singles
=============================================================================
