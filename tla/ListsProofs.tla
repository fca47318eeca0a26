---------------------------- MODULE ListsProofs ----------------------------
(***************************************************************************)
(* Facts about lists, ranks and sums that the proofs about the store, the  *)
(* monitor and the dashboard rest on.  Induction is by the least natural   *)
(* that is not in a set.                                                   *)
(***************************************************************************)
EXTENDS Lists, SequencesExt, FiniteSetTheorems, SequenceTheorems,
        WellFoundedInduction, TLAPS

\* A set of naturals has a least one.
LEMMA LeastNatural ==
  ASSUME NEW T, T \subseteq Nat, T # {}
  PROVE  \E n \in T : \A m \in T : n <= m
<1>1. IsWellFoundedOn(OpToRel(<, Nat), Nat)
  BY NatLessThanWellFounded
<1>2. PICK n \in T : \A m \in T : ~(<<m, n>> \in OpToRel(<, Nat))
  <2> HIDE DEF OpToRel
  <2> QED
    BY <1>1, WFMin
<1>3. \A m \in T : ~(m < n)
  BY <1>2 DEF OpToRel
<1>4. QED
  BY <1>3

\* Induction, for a property as a set of naturals.
LEMMA Induction ==
  ASSUME NEW T, 0 \in T, \A n \in Nat : n \in T => n + 1 \in T
  PROVE  Nat \subseteq T
<1> SUFFICES ASSUME ~(Nat \subseteq T)
             PROVE  FALSE
  OBVIOUS
<1>1. PICK n \in Nat \ T : \A m \in Nat \ T : n <= m
  BY LeastNatural
<1>2. n - 1 \in Nat
  OBVIOUS
<1>3. n - 1 \in T
  BY <1>1, <1>2
<1>4. QED
  BY <1>2, <1>3

-----------------------------------------------------------------------------
\* R orders S, strictly and totally.
StrictOrder(S, R) ==
  /\ \A x \in S : <<x, x>> \notin R
  /\ \A x, y, z \in S : <<x, y>> \in R /\ <<y, z>> \in R => <<x, z>> \in R
  /\ \A x, y \in S : x = y \/ <<x, y>> \in R \/ <<y, x>> \in R

\* What comes before has a lower rank.
LEMMA RankMonotone ==
  ASSUME NEW S, IsFiniteSet(S), NEW R, StrictOrder(S, R),
         NEW x \in S, NEW y \in S, <<x, y>> \in R
  PROVE  Cardinality(Earlier(S, R, x)) < Cardinality(Earlier(S, R, y))
<1> DEFINE X == Earlier(S, R, x)
           Y == Earlier(S, R, y)
<1>1. IsFiniteSet(Y)
  BY FS_Subset DEF Earlier
<1>2. X \in SUBSET Y /\ x \in Y /\ x \notin X
  BY DEF Earlier, StrictOrder
<1> HIDE DEF X, Y
<1>3. /\ IsFiniteSet(X) /\ Cardinality(X) <= Cardinality(Y)
      /\ Cardinality(Y) # Cardinality(X)
  BY <1>1, <1>2, FS_Subset
<1>4. Cardinality(X) \in Nat /\ Cardinality(Y) \in Nat
  BY <1>1, <1>3, FS_CardinalityType
<1>5. QED
  BY <1>3, <1>4 DEF X, Y

\* The rank of an element is less than the number of elements.
LEMMA RankBounded ==
  ASSUME NEW S, IsFiniteSet(S), NEW R, StrictOrder(S, R), NEW x \in S
  PROVE  Cardinality(Earlier(S, R, x)) \in 0..(Cardinality(S) - 1)
<1> DEFINE X == Earlier(S, R, x)
<1>1. X \in SUBSET S /\ x \notin X
  BY DEF Earlier, StrictOrder
<1> HIDE DEF X
<1>2. /\ IsFiniteSet(X) /\ Cardinality(X) <= Cardinality(S)
      /\ Cardinality(S) # Cardinality(X)
  BY <1>1, FS_Subset
<1>3. Cardinality(X) \in Nat /\ Cardinality(S) \in Nat
  BY <1>2, FS_CardinalityType
<1>4. QED
  BY <1>2, <1>3 DEF X

\* A rank for every position: as many ranks as elements, and no two elements of one rank.
LEMMA EveryRank ==
  ASSUME NEW S, IsFiniteSet(S), NEW R, StrictOrder(S, R),
         NEW n \in 1..Cardinality(S)
  PROVE  \E x \in S : Cardinality(Earlier(S, R, x)) = n - 1
<1> DEFINE N    == Cardinality(S)
           rank == [x \in S |-> Cardinality(Earlier(S, R, x))]
<1>1. N \in Nat
  BY FS_CardinalityType
<1>2. \A x \in S : rank[x] \in 0..(N - 1)
  BY RankBounded
<1>3. \A x \in S, y \in S : rank[x] = rank[y] => x = y
  <2> SUFFICES ASSUME NEW x \in S, NEW y \in S, x # y
               PROVE  rank[x] # rank[y]
    OBVIOUS
  <2>1. rank[x] \in Int /\ rank[y] \in Int
    BY <1>1, <1>2
  <2>2. rank[x] < rank[y] \/ rank[y] < rank[x]
    BY RankMonotone DEF StrictOrder
  <2>3. QED
    BY <2>1, <2>2
<1>4. rank \in [S -> 0..(N - 1)]
  BY <1>2
<1>5. rank \in Injection(S, 0..(N - 1))
  <2>1. DOMAIN rank = S
    OBVIOUS
  <2> HIDE DEF rank
  <2>2. QED
    BY <1>3, <1>4, <2>1 DEF Injection, IsInjective
<1>6. IsFiniteSet(0..(N - 1)) /\ Cardinality(0..(N - 1)) = N
  <2> HIDE DEF N
  <2>1. QED
    BY <1>1, FS_Interval
<1> HIDE DEF rank
<1>7. rank \in Surjection(S, 0..(N - 1))
  BY <1>5, <1>6, FS_Injection
<1>8. \E x \in S : rank[x] = n - 1
  <2>1. n - 1 \in 0..(N - 1)
    BY <1>1
  <2>2. QED
    BY <1>7, <2>1 DEF Surjection
<1>9. QED
  BY <1>8 DEF rank

Ranked(S, R) == {<<Cardinality(Earlier(S, R, x)), x>> : x \in S}

\* Sorting by rank puts every element in one place, and earlier ones first.
LEMMA SortedInOrder ==
  ASSUME NEW S, IsFiniteSet(S), NEW R, StrictOrder(S, R)
  PROVE  /\ Cardinality(S) \in Nat
         /\ Sorted(S, R) \in [1..Cardinality(S) -> S]
         /\ \A m, n \in 1..Cardinality(S) : m < n => <<Sorted(S, R)[m], Sorted(S, R)[n]>> \in R
         /\ \A x \in S : \E n \in 1..Cardinality(S) : Sorted(S, R)[n] = x
<1> DEFINE N == Cardinality(S)
           s == Sorted(S, R)
           Rank(x) == Cardinality(Earlier(S, R, x))
<1>1. N \in Nat
  BY FS_CardinalityType
<1>2. \A n \in 1..N : s[n] \in S /\ Rank(s[n]) = n - 1
  <2> SUFFICES ASSUME NEW n \in 1..N
               PROVE  s[n] \in S /\ Rank(s[n]) = n - 1
    OBVIOUS
  <2>1. s = [k \in 1..N |-> (CHOOSE r \in Ranked(S, R) : r[1] = k - 1)[2]]
    BY DEF Sorted, Ranked
  <2>2. s[n] = (CHOOSE r \in Ranked(S, R) : r[1] = n - 1)[2]
    <3> HIDE DEF s
    <3>1. QED
      BY <2>1
  <2>3. PICK x \in S : Rank(x) = n - 1
    BY EveryRank
  <2>4. <<Rank(x), x>> \in Ranked(S, R)
    BY DEF Ranked
  <2> DEFINE r == CHOOSE q \in Ranked(S, R) : q[1] = n - 1
  <2>5. r \in Ranked(S, R) /\ r[1] = n - 1
    <3>1. <<Rank(x), x>>[1] = n - 1
      BY <2>3
    <3> HIDE DEF Rank
    <3>2. \E q \in Ranked(S, R) : q[1] = n - 1
      BY <2>4, <3>1
    <3>3. QED
      BY <3>2
  <2>6. s[n] = r[2]
    BY <2>2
  <2> HIDE DEF r, s
  <2>7. PICK y \in S : r = <<Rank(y), y>>
    BY <2>5 DEF Ranked
  <2>8. QED
    <3> HIDE DEF Rank
    <3>1. QED
      BY <2>5, <2>6, <2>7
<1>3. s \in [1..N -> S]
  BY <1>2 DEF Sorted
<1>4. \A x \in S : Rank(x) \in 0..(N - 1)
  BY RankBounded
<1>5. \A x, y \in S : <<x, y>> \in R => Rank(x) < Rank(y)
  BY RankMonotone
<1>6. \A x, y \in S : x = y \/ <<x, y>> \in R \/ <<y, x>> \in R
  BY DEF StrictOrder
<1> HIDE DEF N, s, Rank
<1>7. ASSUME NEW m \in 1..N, NEW n \in 1..N, m < n
      PROVE  <<s[m], s[n]>> \in R
  <2>1. Rank(s[m]) < Rank(s[n])
    BY <1>1, <1>2, <1>7
  <2>2. ~(Rank(s[n]) < Rank(s[m])) /\ Rank(s[n]) # Rank(s[m])
    BY <1>1, <1>2, <1>7
  <2>3. QED
    BY <1>2, <1>5, <1>6, <2>2
<1>8. ASSUME NEW x \in S
      PROVE  \E n \in 1..N : s[n] = x
  <2>1. Rank(x) + 1 \in 1..N
    BY <1>1, <1>4
  <2>2. Rank(s[Rank(x) + 1]) = Rank(x) /\ s[Rank(x) + 1] \in S
    BY <1>1, <1>2, <1>4, <2>1
  <2>3. ~(Rank(s[Rank(x) + 1]) < Rank(x)) /\ ~(Rank(x) < Rank(s[Rank(x) + 1]))
    BY <1>4, <2>2
  <2>4. s[Rank(x) + 1] = x
    BY <1>5, <1>6, <2>2, <2>3
  <2>5. QED
    BY <2>1, <2>4
<1>9. QED
  BY <1>1, <1>3, <1>7, <1>8 DEF N, s
-----------------------------------------------------------------------------
(* Lists *)

\* The order of a set depends on what it says of the elements of the set alone.
LEMMA SameOrder ==
  ASSUME NEW S, NEW R, NEW Q, \A x, y \in S : <<x, y>> \in R <=> <<x, y>> \in Q
  PROVE  Sorted(S, R) = Sorted(S, Q)
<1> DEFINE Pick(T, k) == (CHOOSE r \in T : r[1] = k - 1)[2]
<1>1. \A x \in S : Earlier(S, R, x) = Earlier(S, Q, x)
  BY DEF Earlier
<1>2. Ranked(S, R) = Ranked(S, Q)
  BY <1>1 DEF Ranked
<1>3. Sorted(S, R) = [k \in 1..Cardinality(S) |-> Pick(Ranked(S, R), k)]
  BY DEF Sorted, Ranked
<1>4. Sorted(S, Q) = [k \in 1..Cardinality(S) |-> Pick(Ranked(S, Q), k)]
  BY DEF Sorted, Ranked
<1> HIDE DEF Pick
<1>5. QED
  BY <1>2, <1>3, <1>4

\* The places of a list are ordered from the front.
LEMMA ForwardIsStrict ==
  ASSUME NEW P, P \subseteq Int
  PROVE  StrictOrder(P, Forward(P))
BY DEF StrictOrder, Forward

\* A function on the first numbers is a list.
LEMMA FunctionIsList ==
  ASSUME NEW X, NEW n \in Nat, NEW f \in [1..n -> X]
  PROVE  f \in Seq(X) /\ Len(f) = n /\ DOMAIN f = 1..n
<1>1. f \in Seq(X)
  BY SeqDef
<1>2. QED
  BY <1>1

\* What stands at some places of a list, in the order of the places.
LEMMA AtProperties ==
  ASSUME NEW X, NEW s \in Seq(X), NEW P, P \subseteq DOMAIN s, NEW R, StrictOrder(P, R)
  PROVE  /\ IsFiniteSet(P) /\ Cardinality(P) \in Nat
         /\ ElementsAt(s, P, R) \in Seq(X)
         /\ Len(ElementsAt(s, P, R)) = Cardinality(P)
         /\ \A n \in 1..Cardinality(P) :
              Sorted(P, R)[n] \in P /\ ElementsAt(s, P, R)[n] = s[Sorted(P, R)[n]]
<1>1. IsFiniteSet(P)
  <2>1. DOMAIN s = 1..Len(s) /\ Len(s) \in Nat
    OBVIOUS
  <2>2. IsFiniteSet(1..Len(s))
    BY <2>1, FS_Interval
  <2>3. QED
    BY <2>1, <2>2, FS_Subset
<1>2. Cardinality(P) \in Nat /\ Sorted(P, R) \in [1..Cardinality(P) -> P]
  BY <1>1, SortedInOrder
<1>3. \A n \in 1..Cardinality(P) : Sorted(P, R)[n] \in P /\ s[Sorted(P, R)[n]] \in X
  BY <1>2
<1>4. ElementsAt(s, P, R) = [n \in 1..Cardinality(P) |-> s[Sorted(P, R)[n]]]
  BY DEF ElementsAt
<1>5. ElementsAt(s, P, R) \in [1..Cardinality(P) -> X]
  BY <1>3, <1>4
<1>6. ElementsAt(s, P, R) \in Seq(X) /\ Len(ElementsAt(s, P, R)) = Cardinality(P)
  BY <1>2, <1>5, FunctionIsList
<1>7. QED
  BY <1>1, <1>2, <1>3, <1>4, <1>6

\* Selecting keeps what is at the places, in its order.
LEMMA SelectedProperties ==
  ASSUME NEW X, NEW s \in Seq(X), NEW P, P \subseteq DOMAIN s
  PROVE  /\ Selected(s, P) \in Seq(X)
         /\ Len(Selected(s, P)) = Cardinality(P) /\ Cardinality(P) \in Nat
         /\ \A n \in 1..Len(Selected(s, P)) : \E i \in P : Selected(s, P)[n] = s[i]
<1>1. P \subseteq Int
  OBVIOUS
<1>2. StrictOrder(P, Forward(P))
  BY <1>1, ForwardIsStrict
<1>3. QED
  BY <1>2, AtProperties DEF Selected

\* The pieces of a list of lists, one after the other.
Flattens(ss, n, f) ==
  f = [i \in 1..n |-> IF i = 1 THEN ss[i] ELSE f[i - 1] \o ss[i]]

\* The lists of a list can be joined from the front.
LEMMA FlatteningExists ==
  ASSUME NEW ss, NEW n \in Nat
  PROVE  \E f : Flattens(ss, n, f)
<1> DEFINE P == {m \in Nat : \E f : Flattens(ss, m, f)}
<1>1. 0 \in P
  <2>1. Flattens(ss, 0, [i \in 1..0 |-> i])
    BY DEF Flattens
  <2>2. QED
    BY <2>1
<1>2. ASSUME NEW m \in Nat, m \in P
      PROVE  m + 1 \in P
  <2>1. PICK f : Flattens(ss, m, f)
    BY <1>2
  <2> DEFINE g == [i \in 1..(m + 1) |-> IF i = 1 THEN ss[i] ELSE f[i - 1] \o ss[i]]
  <2>2. \A i \in 1..m : g[i] = f[i]
    <3>1. \A i \in 1..m : f[i] = IF i = 1 THEN ss[i] ELSE f[i - 1] \o ss[i]
      BY <2>1 DEF Flattens
    <3>2. \A i \in 1..m : i \in 1..(m + 1)
      OBVIOUS
    <3>3. QED
      BY <3>1, <3>2
  <2>3. \A i \in 1..(m + 1) : g[i] = IF i = 1 THEN ss[i] ELSE f[i - 1] \o ss[i]
    OBVIOUS
  <2>4. g = [i \in 1..(m + 1) |-> g[i]]
    OBVIOUS
  <2> HIDE DEF g
  <2>5. \A i \in 1..(m + 1) : i # 1 => i - 1 \in 1..m
    OBVIOUS
  <2>6. \A i \in 1..(m + 1) : g[i] = IF i = 1 THEN ss[i] ELSE g[i - 1] \o ss[i]
    BY <2>2, <2>3, <2>5
  <2>7. Flattens(ss, m + 1, g)
    BY <2>4, <2>6 DEF Flattens
  <2>8. QED
    BY <2>7
<1>3. QED
  <2> HIDE DEF P
  <2>1. Nat \subseteq P
    BY <1>1, <1>2, Induction
  <2>2. QED
    BY <2>1 DEF P

\* What lists are made of makes up what they flatten to.
LEMMA FlattenedElements ==
  ASSUME NEW X, NEW ss \in Seq(Seq(X))
  PROVE  FlattenSeq(ss) \in Seq(X)
<1> DEFINE n == Len(ss)
<1>1. n \in Nat /\ \A i \in 1..n : ss[i] \in Seq(X)
  OBVIOUS
<1>2. CASE n = 0
  <2>1. ss = <<>>
    BY <1>2
  <2>2. QED
    BY <1>2, <2>1 DEF FlattenSeq
<1>3. CASE n # 0
  <2> DEFINE f == CHOOSE g : g = [i \in 1..n |-> IF i = 1 THEN ss[i] ELSE g[i - 1] \o ss[i]]
  <2>1. Flattens(ss, n, f)
    BY <1>1, FlatteningExists DEF Flattens
  <2>2. FlattenSeq(ss) = f[n]
    BY <1>3 DEF FlattenSeq
  <2> HIDE DEF f
  <2> DEFINE P == {m \in Nat : m \in 1..n => f[m] \in Seq(X)}
  <2>3. 0 \in P
    OBVIOUS
  <2>4. ASSUME NEW m \in Nat, m \in P
        PROVE  m + 1 \in P
    <3> SUFFICES ASSUME m + 1 \in 1..n
                 PROVE  f[m + 1] \in Seq(X)
      OBVIOUS
    <3>0. \A i \in 1..n : f[i] = IF i = 1 THEN ss[i] ELSE f[i - 1] \o ss[i]
      BY <2>1 DEF Flattens
    <3>1. f[m + 1] = IF m + 1 = 1 THEN ss[m + 1] ELSE f[m] \o ss[m + 1]
      <4>1. (m + 1) - 1 = m
        OBVIOUS
      <4>2. QED
        BY <3>0, <4>1
    <3>2. CASE m = 0
      BY <1>1, <3>1, <3>2
    <3>3. CASE m # 0
      <4>1. f[m] \in Seq(X) /\ ss[m + 1] \in Seq(X)
        BY <1>1, <2>4, <3>3
      <4>2. f[m] \o ss[m + 1] \in Seq(X)
        BY <4>1, ConcatProperties
      <4>3. QED
        BY <3>1, <3>3, <4>2
    <3>4. QED
      BY <3>2, <3>3
  <2>5. n \in P
    <3> HIDE DEF P
    <3>1. QED
      BY <1>1, <2>3, <2>4, Induction
  <2>6. QED
    BY <1>1, <1>3, <2>2, <2>5
<1>4. QED
  BY <1>2, <1>3

\* A bounded set of numbers has a greatest one.
LEMMA Greatest ==
  ASSUME NEW S, S \subseteq Int, S # {}, NEW b \in Int, \A x \in S : x <= b
  PROVE  Max(S) \in S /\ \A x \in S : x <= Max(S)
<1> DEFINE T == {b - x : x \in S}
<1>1. \A x \in S : x \in Int /\ b - x \in Nat
  OBVIOUS
<1>2. T \subseteq Nat /\ T # {}
  BY <1>1
<1>3. PICK n \in T : \A m \in T : n <= m
  <2> HIDE DEF T
  <2> QED
    BY <1>2, LeastNatural
<1>4. PICK x \in S : n = b - x
  OBVIOUS
<1>5. \A y \in S : b - x <= b - y
  BY <1>3, <1>4
<1>6. \A y \in S : x >= y
  BY <1>1, <1>5
<1>7. QED
  BY <1>6 DEF Max

\* A set of naturals has a least one.
LEMMA LeastOfNaturals ==
  ASSUME NEW S, S \subseteq Nat, S # {}
  PROVE  Min(S) \in S /\ \A x \in S : Min(S) <= x
<1>1. \E n \in S : \A m \in S : n =< m
  BY LeastNatural
<1>2. QED
  BY <1>1 DEF Min

-----------------------------------------------------------------------------
(* Sums *)

Rest(T) == T \ {CHOOSE x \in T : TRUE}

\* One element of a set after the other is added.
Unfolds(g, D, it) ==
  it = [T \in D |-> IF T = {} THEN 0 ELSE g[CHOOSE x \in T : TRUE] + it[Rest(T)]]

\* it adds up the elements of g at any places of S.
Adds(g, S, it) == Unfolds(g, SUBSET S, it)

UpTo(S, n) == {T \in SUBSET S : Cardinality(T) <= n}

\* The sum of the community module is one that unfolds, if there is one.
LEMMA SumUnfolds ==
  ASSUME NEW g, NEW S, \E it : Adds(g, S, it)
  PROVE  \E it : Adds(g, S, it) /\ SumFunctionOnSet(g, S) = it[S]
<1> DEFINE it == CHOOSE i : i = [T \in SUBSET S |-> IF T = {} THEN 0
                           ELSE g[CHOOSE x \in T : TRUE] + i[T \ {CHOOSE x \in T : TRUE}]]
<1>1. Adds(g, S, it)
  BY DEF Adds, Unfolds, Rest
<1>2. SumFunctionOnSet(g, S) = it[S]
  BY DEF SumFunctionOnSet, FoldFunctionOnSet, MapThenFoldSet
<1>3. QED
  BY <1>1, <1>2


\* Only the empty set has no elements.
LEMMA NothingUpToZero ==
  ASSUME NEW S, IsFiniteSet(S), NEW T \in UpTo(S, 0)
  PROVE  T = {}
<1>1. IsFiniteSet(T) /\ Cardinality(T) <= 0
  BY FS_Subset DEF UpTo
<1>2. Cardinality(T) = 0
  BY <1>1, FS_CardinalityType
<1>3. QED
  BY <1>1, <1>2, FS_EmptySet

\* A subset is not larger.
LEMMA SubsetUpTo ==
  ASSUME NEW S, IsFiniteSet(S), NEW n \in Nat, NEW T \in UpTo(S, n), NEW U \in SUBSET T
  PROVE  U \in UpTo(S, n)
<1>1. T \in SUBSET S /\ Cardinality(T) <= n /\ IsFiniteSet(T)
  BY FS_Subset DEF UpTo
<1>2. IsFiniteSet(U) /\ Cardinality(U) <= Cardinality(T)
  BY <1>1, FS_Subset
<1>3. Cardinality(U) \in Nat /\ Cardinality(T) \in Nat
  BY <1>1, <1>2, FS_CardinalityType
<1>4. QED
  BY <1>1, <1>2, <1>3 DEF UpTo

\* A set without one of its elements is smaller.
LEMMA WithoutSmaller ==
  ASSUME NEW S, IsFiniteSet(S), NEW n \in Nat, NEW T \in UpTo(S, n + 1), NEW x \in T
  PROVE  T \ {x} \in UpTo(S, n)
<1>1. T \in SUBSET S /\ Cardinality(T) <= n + 1 /\ IsFiniteSet(T)
  BY FS_Subset DEF UpTo
<1>2. Cardinality(T \ {x}) = Cardinality(T) - 1
  BY <1>1, FS_RemoveElement
<1>3. Cardinality(T) \in Nat
  BY <1>1, FS_CardinalityType
<1>4. QED
  BY <1>1, <1>2, <1>3 DEF UpTo

\* So is the rest of a set.
LEMMA RestSmaller ==
  ASSUME NEW S, IsFiniteSet(S), NEW n \in Nat, NEW T \in UpTo(S, n + 1), T # {}
  PROVE  Rest(T) \in UpTo(S, n)
BY WithoutSmaller DEF Rest

\* The elements of a finite set can be added up, one after the other.
LEMMA UnfoldingExists ==
  ASSUME NEW g, NEW S, IsFiniteSet(S)
  PROVE  \E it : Adds(g, S, it)
<1> DEFINE P == {n \in Nat : \E it : Unfolds(g, UpTo(S, n), it)}
<1>1. 0 \in P
  <2> DEFINE it == [T \in UpTo(S, 0) |-> 0]
  <2>1. \A T \in UpTo(S, 0) : T = {}
    BY NothingUpToZero
  <2>2. Unfolds(g, UpTo(S, 0), it)
    BY <2>1 DEF Adds, Unfolds
  <2>3. QED
    BY <2>2
<1>2. ASSUME NEW n \in Nat, n \in P
      PROVE  n + 1 \in P
  <2>1. PICK it : Unfolds(g, UpTo(S, n), it)
    BY <1>2
  <2> DEFINE next == [T \in UpTo(S, n + 1) |->
                        IF T = {} THEN 0 ELSE g[CHOOSE x \in T : TRUE] + it[Rest(T)]]
  <2>2. UpTo(S, n) \subseteq UpTo(S, n + 1)
    <3>1. \A T \in SUBSET S : Cardinality(T) \in Nat
      BY FS_Subset, FS_CardinalityType
    <3>2. QED
      BY <3>1 DEF UpTo
  <2>3. \A T \in UpTo(S, n) : next[T] = it[T]
    BY <2>1, <2>2 DEF Adds, Unfolds
  <2>4. \A T \in UpTo(S, n + 1) : T # {} => next[Rest(T)] = it[Rest(T)]
    BY <2>3, RestSmaller
  <2>5. \A T \in UpTo(S, n + 1) :
          next[T] = IF T = {} THEN 0 ELSE g[CHOOSE x \in T : TRUE] + it[Rest(T)]
    OBVIOUS
  <2>6. next = [T \in UpTo(S, n + 1) |-> next[T]]
    OBVIOUS
  <2> HIDE DEF next
  <2>7. \A T \in UpTo(S, n + 1) :
          next[T] = IF T = {} THEN 0 ELSE g[CHOOSE x \in T : TRUE] + next[Rest(T)]
    BY <2>4, <2>5
  <2>8. Unfolds(g, UpTo(S, n + 1), next)
    BY <2>6, <2>7 DEF Adds, Unfolds
  <2>9. QED
    BY <2>8
<1>3. Cardinality(S) \in P
  <2> HIDE DEF P
  <2>1. Nat \subseteq P
    BY <1>1, <1>2, Induction
  <2>2. QED
    BY <2>1, FS_CardinalityType
<1>4. PICK it : Unfolds(g, UpTo(S, Cardinality(S)), it)
  BY <1>3
<1>5. UpTo(S, Cardinality(S)) = SUBSET S
  BY FS_Subset DEF UpTo
<1>6. Adds(g, S, it)
  BY <1>4, <1>5 DEF Adds
<1>7. QED
  BY <1>6


\* Sums
LEMMA SumProperties ==
  ASSUME NEW S, IsFiniteSet(S), NEW g, \A x \in S : g[x] \in Int,
         NEW it, Adds(g, S, it)
  PROVE  /\ it[{}] = 0
         /\ \A T \in SUBSET S : it[T] \in Int /\ \A x \in T : it[T] = g[x] + it[T \ {x}]
<1> DEFINE Fine(T) == it[T] \in Int /\ \A x \in T : it[T] = g[x] + it[T \ {x}]
           P == {n \in Nat : \A T \in UpTo(S, n) : Fine(T)}
<1>0. it[{}] = 0
  BY DEF Adds, Unfolds
<1>1. 0 \in P
  <2>1. \A T \in UpTo(S, 0) : T = {}
    BY NothingUpToZero
  <2>2. Fine({})
    BY <1>0
  <2> HIDE DEF Fine
  <2>3. QED
    BY <2>1, <2>2
<1>2. ASSUME NEW n \in Nat, n \in P
      PROVE  n + 1 \in P
  <2> SUFFICES ASSUME NEW T \in UpTo(S, n + 1)
               PROVE  Fine(T)
    OBVIOUS
  <2>1. \A U \in UpTo(S, n) : Fine(U)
    BY <1>2
  <2> DEFINE c == CHOOSE x \in T : TRUE
  <2>2. CASE T = {}
    BY <1>0, <2>2
  <2>3. CASE T # {}
    <3>1. c \in T /\ T \in SUBSET S
      BY <2>3 DEF UpTo
    <3>2. \A x \in T : T \ {x} \in UpTo(S, n)
      BY WithoutSmaller
    <3>3. it[T] = g[c] + it[T \ {c}]
      BY <2>3, <3>1 DEF Adds, Unfolds, Rest
    <3> HIDE DEF c
    <3>4. \A x \in T : g[x] \in Int /\ it[T \ {x}] \in Int
      BY <2>1, <3>1, <3>2
    <3>5. it[T] \in Int
      BY <3>1, <3>3, <3>4
    <3>6. ASSUME NEW x \in T, x # c
          PROVE  it[T] = g[x] + it[T \ {x}]
      <4> DEFINE U == (T \ {c}) \ {x}
      <4>1. U = (T \ {x}) \ {c} /\ x \in T \ {c} /\ c \in T \ {x}
        BY <3>1, <3>6
      <4>2. U \in UpTo(S, n)
        <5>1. T \ {c} \in UpTo(S, n) /\ U \in SUBSET (T \ {c})
          BY <3>1, <3>2
        <5> HIDE DEF U
        <5>2. QED
          BY <5>1, SubsetUpTo
      <4>3. it[U] \in Int
        BY <2>1, <4>2
      <4>4. it[T \ {c}] = g[x] + it[U]
        BY <2>1, <3>1, <3>2, <4>1
      <4>5. it[T \ {x}] = g[c] + it[U]
        BY <2>1, <3>1, <3>2, <4>1
      <4> HIDE DEF U
      <4>6. QED
        BY <3>1, <3>3, <3>4, <4>3, <4>4, <4>5
    <3>7. QED
      BY <3>3, <3>5, <3>6
  <2>4. QED
    BY <2>2, <2>3
<1>3. Cardinality(S) \in P
  <2> HIDE DEF P
  <2>1. Nat \subseteq P
    BY <1>1, <1>2, Induction
  <2>2. QED
    BY <2>1, FS_CardinalityType
<1>4. UpTo(S, Cardinality(S)) = SUBSET S
  BY FS_Subset DEF UpTo
<1>5. QED
  BY <1>0, <1>3, <1>4


\* Functions that agree on a set add up to the same.
LEMMA UnfoldingsAgree ==
  ASSUME NEW S, IsFiniteSet(S), NEW g, NEW h, NEW D, S \subseteq D,
         \A x \in S : g[x] = h[x],
         NEW it, Adds(g, D, it), NEW jt, Adds(h, S, jt)
  PROVE  \A T \in SUBSET S : it[T] = jt[T]
<1> DEFINE P == {n \in Nat : \A T \in UpTo(S, n) : it[T] = jt[T]}
<1>1. 0 \in P
  <2>1. \A T \in UpTo(S, 0) : T = {}
    BY NothingUpToZero
  <2>2. it[{}] = jt[{}]
    BY DEF Adds, Unfolds
  <2>3. QED
    BY <2>1, <2>2
<1>2. ASSUME NEW n \in Nat, n \in P
      PROVE  n + 1 \in P
  <2>0. it[{}] = jt[{}]
    BY DEF Adds, Unfolds
  <2>1. ASSUME NEW T \in UpTo(S, n + 1), T # {}
        PROVE  it[T] = jt[T]
    <3>1. T \in SUBSET S /\ T \in SUBSET D
      BY DEF UpTo
    <3>2. (CHOOSE x \in T : TRUE) \in S
      BY <2>1, <3>1
    <3>3. it[Rest(T)] = jt[Rest(T)]
      BY <1>2, <2>1, RestSmaller
    <3>4. QED
      BY <2>1, <3>1, <3>2, <3>3 DEF Adds, Unfolds
  <2>2. \A T \in UpTo(S, n + 1) : it[T] = jt[T]
    BY <2>0, <2>1
  <2>3. QED
    BY <2>2
<1>3. Cardinality(S) \in P
  <2> HIDE DEF P
  <2>1. Nat \subseteq P
    BY <1>1, <1>2, Induction
  <2>2. QED
    BY <2>1, FS_CardinalityType
<1>4. UpTo(S, Cardinality(S)) = SUBSET S
  BY FS_Subset DEF UpTo
<1>5. QED
  BY <1>3, <1>4

\* Nothing adds up to zero.
LEMMA EmptySum == ASSUME NEW g PROVE SumFunctionOnSet(g, {}) = 0
<1>1. PICK it : Adds(g, {}, it) /\ SumFunctionOnSet(g, {}) = it[{}]
  BY UnfoldingExists, SumUnfolds, FS_EmptySet
<1>2. QED
  BY <1>1 DEF Adds, Unfolds

\* A sum is one of its terms and the sum of the others.
LEMMA SumWithout ==
  ASSUME NEW S, IsFiniteSet(S), NEW g, \A y \in S : g[y] \in Int, NEW x \in S
  PROVE  SumFunctionOnSet(g, S) = g[x] + SumFunctionOnSet(g, S \ {x})
<1> DEFINE R == S \ {x}
<1>1. PICK it : Adds(g, S, it) /\ SumFunctionOnSet(g, S) = it[S]
  BY UnfoldingExists, SumUnfolds
<1>2. IsFiniteSet(R)
  BY FS_Subset
<1>3. PICK jt : Adds(g, R, jt) /\ SumFunctionOnSet(g, R) = jt[R]
  BY <1>2, UnfoldingExists, SumUnfolds
<1>4. it[R] = jt[R]
  <2>1. R \subseteq S /\ R \in SUBSET R
    OBVIOUS
  <2> HIDE DEF R
  <2>2. \A T \in SUBSET R : it[T] = jt[T]
    BY <1>1, <1>2, <1>3, <2>1, UnfoldingsAgree
  <2>3. QED
    BY <2>1, <2>2
<1>5. it[S] = g[x] + it[R]
  <2> HIDE DEF R
  <2>1. \A T \in SUBSET S : it[T] \in Int /\ \A y \in T : it[T] = g[y] + it[T \ {y}]
    BY <1>1, SumProperties
  <2> USE DEF R
  <2>2. QED
    BY <2>1
<1>6. QED
  BY <1>1, <1>3, <1>4, <1>5

\* A sum of integers is one.
LEMMA SumIsInteger ==
  ASSUME NEW S, IsFiniteSet(S), NEW g, \A y \in S : g[y] \in Int
  PROVE  SumFunctionOnSet(g, S) \in Int
<1>1. PICK it : Adds(g, S, it) /\ SumFunctionOnSet(g, S) = it[S]
  BY UnfoldingExists, SumUnfolds
<1>2. \A T \in SUBSET S : it[T] \in Int
  BY <1>1, SumProperties
<1>3. QED
  BY <1>1, <1>2

\* The sum depends on the elements of the set only.
LEMMA SumsAgree ==
  ASSUME NEW S, IsFiniteSet(S), NEW g, NEW h, \A y \in S : g[y] = h[y]
  PROVE  SumFunctionOnSet(g, S) = SumFunctionOnSet(h, S)
<1>1. PICK it : Adds(g, S, it) /\ SumFunctionOnSet(g, S) = it[S]
  BY UnfoldingExists, SumUnfolds
<1>2. PICK jt : Adds(h, S, jt) /\ SumFunctionOnSet(h, S) = jt[S]
  BY UnfoldingExists, SumUnfolds
<1>3. QED
  BY <1>1, <1>2, UnfoldingsAgree

-----------------------------------------------------------------------------
\* Induction over a finite set, for a property as a set of subsets: from nothing, one
\* element after the other.
LEMMA SubsetInduction ==
  ASSUME NEW S, IsFiniteSet(S), NEW D, {} \in D,
         \A T \in SUBSET S : \A x \in T : T \ {x} \in D => T \in D
  PROVE  \A T \in SUBSET S : T \in D
<1> DEFINE P == {n \in Nat : \A T \in SUBSET S : Cardinality(T) <= n => T \in D}
<1>1. \A T \in SUBSET S : IsFiniteSet(T) /\ Cardinality(T) \in Nat
  BY FS_Subset, FS_CardinalityType
<1>2. 0 \in P
  <2>1. \A T \in SUBSET S : Cardinality(T) <= 0 => T = {}
    BY <1>1, FS_EmptySet
  <2>2. QED
    BY <2>1
<1>3. \A n \in Nat : n \in P => n + 1 \in P
  <2> SUFFICES ASSUME NEW n \in Nat, n \in P, NEW T \in SUBSET S, Cardinality(T) <= n + 1
               PROVE  T \in D
    OBVIOUS
  <2>1. CASE T = {}
    BY <2>1
  <2>2. CASE T # {}
    <3>1. PICK x \in T : TRUE
      BY <2>2
    <3>2. T \ {x} \in SUBSET S /\ Cardinality(T \ {x}) = Cardinality(T) - 1
      BY <1>1, <3>1, FS_RemoveElement
    <3>3. Cardinality(T \ {x}) <= n
      BY <1>1, <3>2
    <3>4. T \ {x} \in D
      BY <3>2, <3>3
    <3>5. QED
      BY <3>1, <3>4
  <2>3. QED
    BY <2>1, <2>2
<1> HIDE DEF P
<1>4. Nat \subseteq P
  BY <1>2, <1>3, Induction
<1>5. QED
  <2> SUFFICES ASSUME NEW T \in SUBSET S
               PROVE  T \in D
    OBVIOUS
  <2>1. Cardinality(T) \in P /\ Cardinality(T) <= Cardinality(T)
    BY <1>1, <1>4
  <2>2. QED
    BY <2>1 DEF P

\* A sum of naturals is one.
LEMMA SumOfNaturals ==
  ASSUME NEW S, IsFiniteSet(S), NEW g, \A x \in S : g[x] \in Nat
  PROVE  SumFunctionOnSet(g, S) \in Nat
<1> DEFINE D == {T \in SUBSET S : SumFunctionOnSet(g, T) \in Nat}
<1>1. {} \in D
  BY EmptySum
<1>2. ASSUME NEW T \in SUBSET S, NEW x \in T, T \ {x} \in D
      PROVE  T \in D
  <2>1. IsFiniteSet(T) /\ \A y \in T : g[y] \in Int
    BY FS_Subset
  <2>2. SumFunctionOnSet(g, T) = g[x] + SumFunctionOnSet(g, T \ {x})
    BY <2>1, SumWithout
  <2>3. g[x] \in Nat /\ SumFunctionOnSet(g, T \ {x}) \in Nat
    BY <1>2
  <2>4. QED
    BY <2>2, <2>3
<1>3. S \in D
  <2> HIDE DEF D
  <2>1. \A T \in SUBSET S : T \in D
    BY <1>1, <1>2, SubsetInduction
  <2>2. QED
    BY <2>1
<1>4. QED
  BY <1>3

\* What the sets at the places S of a family C hold.
Members(C, S) == UNION {C[x] : x \in S}

\* The elements of disjoint sets, counted set by set, are those of their union: h grows from
\* g by what each C[x] counts.
LEMMA SumGrowsByUnion ==
  ASSUME NEW S, IsFiniteSet(S), NEW g, NEW h, NEW C,
         \A x \in S : IsFiniteSet(C[x]),
         \A x, y \in S : x # y => C[x] \cap C[y] = {},
         \A x \in S : g[x] \in Int /\ h[x] = g[x] + Cardinality(C[x])
  PROVE  /\ IsFiniteSet(Members(C, S))
         /\ SumFunctionOnSet(h, S) - SumFunctionOnSet(g, S) = Cardinality(Members(C, S))
<1> DEFINE U(T) == UNION {C[x] : x \in T}
           Fine(T) == /\ IsFiniteSet(U(T))
                      /\ SumFunctionOnSet(h, T) = SumFunctionOnSet(g, T) + Cardinality(U(T))
           D == {T \in SUBSET S : Fine(T)}
<1>1. {} \in D
  <2>1. U({}) = {}
    OBVIOUS
  <2>2. QED
    BY <2>1, EmptySum, FS_EmptySet
<1>2. ASSUME NEW T \in SUBSET S, NEW x \in T, T \ {x} \in D
      PROVE  T \in D
  <2> DEFINE R == T \ {x}
  <2>1. U(T) = U(R) \cup C[x] /\ U(R) \cap C[x] = {}
    OBVIOUS
  <2>2. IsFiniteSet(U(R)) /\ IsFiniteSet(C[x])
    BY <1>2
  <2>3. /\ IsFiniteSet(U(T))
        /\ Cardinality(U(T)) = Cardinality(U(R)) + Cardinality(C[x])
        /\ Cardinality(U(R)) \in Nat /\ Cardinality(C[x]) \in Nat
    <3> HIDE DEF U
    <3>1. Cardinality(U(R) \cap C[x]) = 0
      BY <2>1, FS_EmptySet
    <3>2. /\ IsFiniteSet(U(R) \cup C[x])
          /\ Cardinality(U(R) \cup C[x]) =
               Cardinality(U(R)) + Cardinality(C[x]) - Cardinality(U(R) \cap C[x])
      BY <2>2, FS_Union
    <3>3. Cardinality(U(R)) \in Nat /\ Cardinality(C[x]) \in Nat
      BY <2>2, FS_CardinalityType
    <3>4. QED
      BY <2>1, <3>1, <3>2, <3>3
  <2>4. IsFiniteSet(T) /\ IsFiniteSet(R)
    BY FS_Subset
  <2>5. \A y \in T : g[y] \in Int /\ h[y] \in Int
    BY FS_CardinalityType
  <2>6. /\ SumFunctionOnSet(g, T) = g[x] + SumFunctionOnSet(g, R)
        /\ SumFunctionOnSet(h, T) = h[x] + SumFunctionOnSet(h, R)
    BY <2>4, <2>5, SumWithout
  <2>7. SumFunctionOnSet(g, R) \in Int
    BY <2>4, <2>5, SumIsInteger
  <2>8. SumFunctionOnSet(h, R) = SumFunctionOnSet(g, R) + Cardinality(U(R))
    BY <1>2
  <2>9. h[x] = g[x] + Cardinality(C[x]) /\ g[x] \in Int
    OBVIOUS
  <2>10. SumFunctionOnSet(h, T) = SumFunctionOnSet(g, T) + Cardinality(U(T))
    <3> HIDE DEF U, R
    <3> QED
      BY <2>3, <2>6, <2>7, <2>8, <2>9
  <2>11. QED
    BY <2>3, <2>10
<1>3. S \in D
  <2> HIDE DEF D
  <2>1. \A T \in SUBSET S : T \in D
    BY <1>1, <1>2, SubsetInduction
  <2>2. QED
    BY <2>1
<1>4. Fine(S)
  BY <1>3
<1>5. SumFunctionOnSet(g, S) \in Int /\ Cardinality(U(S)) \in Nat
  <2>1. \A x \in S : g[x] \in Int
    OBVIOUS
  <2>2. IsFiniteSet(U(S))
    BY <1>4
  <2>3. QED
    BY <2>1, <2>2, SumIsInteger, FS_CardinalityType
<1>6. SumFunctionOnSet(h, S) = SumFunctionOnSet(g, S) + Cardinality(U(S))
  BY <1>4
<1>7. SumFunctionOnSet(h, S) - SumFunctionOnSet(g, S) = Cardinality(U(S))
  <2> HIDE DEF U
  <2> QED
    BY <1>5, <1>6
<1>8. U(S) = Members(C, S)
  BY DEF Members
<1>9. QED
  BY <1>4, <1>7, <1>8
=============================================================================
