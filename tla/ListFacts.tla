------------------------------- MODULE ListFacts -------------------------------
(***************************************************************************)
(* Facts about lists that the proofs share.                                 *)
(*                                                                          *)
(* The first n members of an order: the code cuts sorted lists at a cap in  *)
(* many places (a packet's findings, a narrative's addresses, the command   *)
(* previews), and the models describe such a list by how many members come  *)
(* before each.  An order is a set of pairs.                                *)
(*                                                                          *)
(* Lists joined from pieces, and functions computed one step at a time: the *)
(* parser, the detectors and the report gather their results in loops.      *)
(***************************************************************************)
EXTENDS Integers, FiniteSets, SequencesExt, FiniteSetTheorems, SequenceTheorems, TLAPS

\* R puts the members of S in a strict, total order.
Orders(R, S) ==
  /\ \A x \in S : <<x, x>> \notin R
  /\ \A x, y, z \in S : <<x, y>> \in R /\ <<y, z>> \in R => <<x, z>> \in R
  /\ \A x, y \in S : x # y => <<x, y>> \in R \/ <<y, x>> \in R

Earlier(R, S, x) == {y \in S : <<y, x>> \in R}

Leading(R, S, n) == {x \in S : Cardinality(Earlier(R, S, x)) < n}

\* The values at the places before which fewer than n different ones stand.
FirstValues(v, R, P, n) ==
  {v[p] : p \in {p \in P : Cardinality({v[q] : q \in Earlier(R, P, p)}) < n}}

\* A set of numbers with a member has a least one: of the intervals 1 .. n, one
\* is minimal in the order of strict inclusion.
LEMMA LeastNumber ==
  ASSUME NEW T, T \subseteq Nat, T # {}
  PROVE  \E n \in T : \A m \in T : n <= m
<1> DEFINE Below == {1 .. n : n \in T}
<1>1. \A n \in Nat : IsFiniteSet(1 .. n)
  BY FS_Interval
<1>2. Below \subseteq FiniteSubsetsOf(Nat)
  BY <1>1 DEF FiniteSubsetsOf
<1>3. IsWellFoundedOn(StrictSubsetOrdering(Nat), FiniteSubsetsOf(Nat))
  BY FS_StrictSubsetOrderingWellFounded
<1>4. Below # {}
  OBVIOUS
<1>5. \E x \in Below : \A y \in Below : <<y, x>> \notin StrictSubsetOrdering(Nat)
  <2> HIDE DEF Below
  <2> QED
    BY <1>2, <1>3, <1>4, WFMin
<1>6. PICK n \in T : \A m \in T : <<1 .. m, 1 .. n>> \notin StrictSubsetOrdering(Nat)
  BY <1>5
<1>7. ASSUME NEW m \in T, ~(n <= m)
      PROVE  FALSE
  <2>1. n \in Nat /\ m \in Nat /\ m < n
    BY <1>7
  <2>2. 1 .. m \subseteq 1 .. n /\ n \in 1 .. n /\ n \notin 1 .. m
    BY <2>1
  <2>3. <<1 .. m, 1 .. n>> \in StrictSubsetOrdering(Nat)
    BY <2>1, <2>2 DEF StrictSubsetOrdering
  <2>4. QED
    BY <1>6, <2>3
<1>8. QED
  BY <1>7

\* A set of numbers with a member and a bound has a greatest one.
LEMMA GreatestNumber ==
  ASSUME NEW T, T \subseteq Nat, T # {}, NEW b \in Nat, \A n \in T : n <= b
  PROVE  \E n \in T : \A m \in T : m <= n
<1> DEFINE Above == {b - n : n \in T}
<1>1. Above \subseteq Nat /\ Above # {}
  <2>1. \A n \in T : b - n \in Nat
    OBVIOUS
  <2>2. PICK n \in T : TRUE
    OBVIOUS
  <2>3. QED
    BY <2>1, <2>2
<1>2. PICK d \in Above : \A e \in Above : d <= e
  <2> HIDE DEF Above
  <2> QED
    BY <1>1, LeastNumber
<1>3. PICK n \in T : d = b - n
  BY <1>2
<1>4. \A m \in T : b - n <= b - m
  BY <1>2, <1>3
<1>5. \A m \in T : m <= n
  BY <1>4
<1>6. QED
  BY <1>5

\* What comes before one member comes before every later one.
LEMMA EarlierGrows ==
  ASSUME NEW S, IsFiniteSet(S), NEW R, Orders(R, S), NEW x \in S, NEW y \in S,
         <<x, y>> \in R
  PROVE  Cardinality(Earlier(R, S, x)) < Cardinality(Earlier(R, S, y))
<1>1. Earlier(R, S, x) \in SUBSET Earlier(R, S, y)
  BY DEF Orders, Earlier
<1>2. x \in Earlier(R, S, y) /\ x \notin Earlier(R, S, x)
  BY DEF Orders, Earlier
<1>3. Earlier(R, S, y) \in SUBSET S
  BY DEF Earlier
<1>4. IsFiniteSet(Earlier(R, S, y)) /\ IsFiniteSet(Earlier(R, S, x))
  BY <1>1, <1>3, FS_Subset
<1>5. /\ Cardinality(Earlier(R, S, x)) <= Cardinality(Earlier(R, S, y))
      /\ Cardinality(Earlier(R, S, y)) # Cardinality(Earlier(R, S, x))
  BY <1>1, <1>2, <1>4, FS_Subset
<1>6. Cardinality(Earlier(R, S, x)) \in Nat /\ Cardinality(Earlier(R, S, y)) \in Nat
  BY <1>4, FS_CardinalityType
<1>7. QED
  BY <1>5, <1>6

\* Counting what comes before numbers the members of a finite set from 0.
LEMMA RankBijection ==
  ASSUME NEW S, IsFiniteSet(S), NEW R, Orders(R, S)
  PROVE  [x \in S |-> Cardinality(Earlier(R, S, x))]
           \in Bijection(S, 0 .. Cardinality(S) - 1)
<1> DEFINE r == [x \in S |-> Cardinality(Earlier(R, S, x))]
           N == 0 .. Cardinality(S) - 1
<1>1. Cardinality(S) \in Nat
  BY FS_CardinalityType
<1>2. IsFiniteSet(N) /\ Cardinality(N) = Cardinality(S)
  BY <1>1, FS_Interval
<1>3. ASSUME NEW x \in S
      PROVE  r[x] \in N
  <2>1. Earlier(R, S, x) \in SUBSET S /\ x \notin Earlier(R, S, x)
    BY DEF Orders, Earlier
  <2>2. /\ IsFiniteSet(Earlier(R, S, x))
        /\ Cardinality(Earlier(R, S, x)) <= Cardinality(S)
        /\ Cardinality(S) # Cardinality(Earlier(R, S, x))
    BY <2>1, FS_Subset
  <2>3. Cardinality(Earlier(R, S, x)) \in Nat
    BY <2>2, FS_CardinalityType
  <2>4. QED
    BY <1>1, <2>2, <2>3
<1>4. ASSUME NEW x \in S, NEW y \in S, x # y
      PROVE  r[x] # r[y]
  <2>1. \A u \in S : Cardinality(Earlier(R, S, u)) \in Int
    BY <1>1, <1>3
  <2>2. <<x, y>> \in R \/ <<y, x>> \in R
    BY <1>4 DEF Orders
  <2>3. \/ Cardinality(Earlier(R, S, x)) < Cardinality(Earlier(R, S, y))
        \/ Cardinality(Earlier(R, S, y)) < Cardinality(Earlier(R, S, x))
    BY <2>2, EarlierGrows
  <2>4. QED
    BY <2>1, <2>3
<1>5. r \in Injection(S, N)
  BY <1>3, <1>4 DEF Injection, IsInjective
<1>6. r \in Surjection(S, N)
  <2> HIDE DEF r, N
  <2> QED
    BY <1>2, <1>5, FS_Injection
<1>7. QED
  BY <1>5, <1>6 DEF Bijection

\* The first n members of a set are n, or all of it.
LEMMA LeadingCount ==
  ASSUME NEW S, IsFiniteSet(S), NEW R, Orders(R, S), NEW n \in Nat
  PROVE  /\ IsFiniteSet(Leading(R, S, n))
         /\ Cardinality(Leading(R, S, n)) =
              IF Cardinality(S) <= n THEN Cardinality(S) ELSE n
         /\ Cardinality(S) <= n => Leading(R, S, n) = S
<1> DEFINE r == [x \in S |-> Cardinality(Earlier(R, S, x))]
           N == 0 .. Cardinality(S) - 1
           L == Leading(R, S, n)
           b == IF Cardinality(S) <= n THEN Cardinality(S) ELSE n
           p == [x \in L |-> r[x]]
<1>1. r \in Bijection(S, N)
  BY RankBijection
<1>2. Cardinality(S) \in Nat /\ b \in Nat /\ b <= Cardinality(S) /\ b <= n
  BY FS_CardinalityType
<1>3. L = {x \in S : r[x] < n}
  BY DEF Leading
<1> HIDE DEF r, L, b
<1>4. \A x \in S : r[x] \in N
  BY <1>1 DEF Bijection, Surjection
<1>5. L \in SUBSET S /\ IsFiniteSet(L)
  BY <1>3, FS_Subset
<1>6. \A x \in L : r[x] \in 0 .. b - 1
  BY <1>2, <1>3, <1>4 DEF b
<1>7. \A i \in 0 .. b - 1 : \E x \in L : r[x] = i
  <2> TAKE i \in 0 .. b - 1
  <2>1. i \in N /\ i < n
    BY <1>2
  <2>2. PICK x \in S : r[x] = i
    BY <1>1, <2>1 DEF Bijection, Surjection
  <2>3. QED
    BY <1>3, <2>1, <2>2
<1>8. \A x, y \in L : p[x] = p[y] => x = y
  BY <1>1, <1>5 DEF Bijection, Injection, IsInjective
<1>9. p \in Bijection(L, 0 .. b - 1)
  BY <1>6, <1>7, <1>8 DEF Bijection, Injection, IsInjective, Surjection
<1>10. Cardinality(L) = b
  <2>1. ExistsBijection(L, 0 .. b - 1)
    BY <1>9 DEF ExistsBijection
  <2>2. Cardinality(0 .. b - 1) = Cardinality(L)
    BY <1>5, <2>1, FS_Bijection
  <2>3. QED
    BY <1>2, <2>2, FS_Interval
<1>11. Cardinality(S) <= n => L = S
  BY <1>2, <1>5, <1>10, FS_Subset DEF b
<1>12. QED
  BY <1>5, <1>10, <1>11 DEF L, b

\* What comes before one of the first n members is one of them too.
LEMMA LeadingClosed ==
  ASSUME NEW S, IsFiniteSet(S), NEW R, Orders(R, S), NEW n \in Nat,
         NEW x \in Leading(R, S, n)
  PROVE  Earlier(R, S, x) \subseteq Leading(R, S, n)
<1> SUFFICES ASSUME NEW y \in Earlier(R, S, x)
             PROVE  Cardinality(Earlier(R, S, y)) < n
  BY DEF Leading, Earlier
<1>1. x \in S /\ y \in S /\ <<y, x>> \in R /\ Cardinality(Earlier(R, S, x)) < n
  BY DEF Leading, Earlier
<1>2. Cardinality(Earlier(R, S, y)) < Cardinality(Earlier(R, S, x))
  BY <1>1, EarlierGrows
<1>3. Earlier(R, S, x) \in SUBSET S /\ Earlier(R, S, y) \in SUBSET S
  BY DEF Earlier
<1>4. Cardinality(Earlier(R, S, x)) \in Nat /\ Cardinality(Earlier(R, S, y)) \in Nat
  BY <1>3, FS_Subset, FS_CardinalityType
<1>5. QED
  BY <1>1, <1>2, <1>4

\* Putting some of the first n members at the head of the list changes the order
\* of the first n, not which they are.
LEMMA PromotionKeepsLeading ==
  ASSUME NEW S, IsFiniteSet(S), NEW R, Orders(R, S), NEW n \in Nat,
         NEW C \in SUBSET Leading(R, S, n)
  PROVE  C \cup Leading(R, S \ C, n - Cardinality(C)) = Leading(R, S, n)
<1> DEFINE P == Leading(R, S, n)
           T == S \ C
           c == Cardinality(C)
<1>1. P \in SUBSET S
  BY DEF Leading
<1>2. IsFiniteSet(P) /\ IsFiniteSet(C) /\ IsFiniteSet(P \ C)
  BY <1>1, FS_Subset
<1>3. Cardinality(P) \in Nat /\ c \in Nat /\ Cardinality(P \ C) \in Nat
  BY <1>2, FS_CardinalityType
<1>4. Cardinality(P \ C) = Cardinality(P) - c
  <2>1. P \cap C = C
    OBVIOUS
  <2>2. Cardinality(P \ C) = Cardinality(P) - Cardinality(P \cap C)
    BY <1>2, FS_Difference
  <2>3. QED
    BY <2>1, <2>2
<1>5. Cardinality(P) = IF Cardinality(S) <= n THEN Cardinality(S) ELSE n
  BY LeadingCount
<1>6. ASSUME NEW x \in T
      PROVE  /\ Cardinality(Earlier(R, T, x)) \in Nat
             /\ IsFiniteSet(Earlier(R, T, x))
             /\ Earlier(R, S, x) \in SUBSET S
  <2>1. Earlier(R, T, x) \in SUBSET S /\ Earlier(R, S, x) \in SUBSET S
    BY DEF Earlier
  <2>2. QED
    BY <2>1, FS_Subset, FS_CardinalityType
<1>7. ASSUME NEW x \in P, x \notin C
      PROVE  Cardinality(Earlier(R, T, x)) < n - c
  <2>1. x \in T /\ x \in S
    BY <1>1, <1>7
  <2>2. Earlier(R, S, x) \subseteq P
    BY LeadingClosed
  <2>3. /\ Earlier(R, T, x) \in SUBSET (P \ C)
        /\ x \in P \ C /\ x \notin Earlier(R, T, x)
    BY <1>7, <2>1, <2>2 DEF Earlier, Orders
  <2>4. Cardinality(Earlier(R, T, x)) <= Cardinality(P \ C)
        /\ Cardinality(P \ C) # Cardinality(Earlier(R, T, x))
    BY <1>2, <2>3, FS_Subset
  <2>5. Cardinality(P) <= n
    BY <1>3, <1>5, FS_CardinalityType
  <2>6. Cardinality(Earlier(R, T, x)) \in Nat
    BY <1>6, <2>1
  <2> HIDE DEF P, T, c
  <2>7. QED
    BY <1>3, <1>4, <2>4, <2>5, <2>6
<1>8. ASSUME NEW x \in T, x \notin P
      PROVE  ~(Cardinality(Earlier(R, T, x)) < n - c)
  <2>1. P \subseteq Earlier(R, S, x)
    <3>1. SUFFICES ASSUME NEW y \in P, <<y, x>> \notin R PROVE FALSE
      BY <1>1 DEF Earlier
    <3>2. x \in Earlier(R, S, y)
      BY <1>1, <1>8, <3>1 DEF Earlier, Orders
    <3>3. QED
      BY <1>8, <3>2, LeadingClosed
  <2>2. P \ C \in SUBSET Earlier(R, T, x)
    BY <1>1, <2>1 DEF Earlier
  <2>3. Cardinality(P \ C) <= Cardinality(Earlier(R, T, x))
    BY <1>6, <2>2, FS_Subset
  <2>4. Cardinality(P) = n
    <3>1. Cardinality(S) <= n => P = S
      BY LeadingCount
    <3>2. QED
      BY <1>5, <1>8, <3>1
  <2>5. Cardinality(Earlier(R, T, x)) \in Nat
    BY <1>6
  <2> HIDE DEF P, T, c
  <2>6. QED
    BY <1>3, <1>4, <2>3, <2>4, <2>5
<1>9. QED
  <2>1. Leading(R, T, n - c) = {x \in T : Cardinality(Earlier(R, T, x)) < n - c}
    BY DEF Leading
  <2>2. \A x \in T : x \in Leading(R, T, n - c) <=> x \in P
    <3> HIDE DEF P, T, c
    <3>1. TAKE x \in T
    <3>2. CASE x \in P
      BY <1>7, <2>1, <3>2 DEF T
    <3>3. CASE x \notin P
      BY <1>8, <2>1, <3>3
    <3>4. QED
      BY <3>2, <3>3
  <2>3. Leading(R, T, n - c) \subseteq T
    BY <2>1
  <2>4. QED
    BY <1>1, <2>2, <2>3

\* A finite set has finitely many values, and no more of them than members.
LEMMA ValuesCount ==
  ASSUME NEW P, IsFiniteSet(P), NEW v
  PROVE  /\ IsFiniteSet({v[p] : p \in P})
         /\ Cardinality({v[p] : p \in P}) \in Nat
         /\ Cardinality({v[p] : p \in P}) <= Cardinality(P)
<1> DEFINE f == [p \in P |-> v[p]]
           V == {v[p] : p \in P}
<1>1. f \in Surjection(P, V)
  BY DEF Surjection
<1> HIDE DEF f, V
<1>2. IsFiniteSet(V) /\ Cardinality(V) <= Cardinality(P)
  BY <1>1, FS_Surjection
<1>3. QED
  BY <1>2, FS_CardinalityType DEF V

\* A finite, ordered set with a member has a last one.
LEMMA LastMember ==
  ASSUME NEW P, IsFiniteSet(P), NEW R, Orders(R, P), NEW J \in SUBSET P, J # {}
  PROVE  \E p \in J : \A q \in J : q = p \/ q \in Earlier(R, P, p)
<1> DEFINE Ranks == {Cardinality(Earlier(R, P, p)) : p \in J}
<1>1. ASSUME NEW p \in J
      PROVE  /\ Cardinality(Earlier(R, P, p)) \in Nat
             /\ Cardinality(Earlier(R, P, p)) <= Cardinality(P)
  <2>1. Earlier(R, P, p) \in SUBSET P
    BY DEF Earlier
  <2>2. QED
    BY <2>1, FS_Subset, FS_CardinalityType
<1>2. /\ Ranks \subseteq Nat /\ Ranks # {}
      /\ \A m \in Ranks : m <= Cardinality(P)
  BY <1>1
<1>3. PICK m \in Ranks : \A k \in Ranks : k <= m
  <2>1. Cardinality(P) \in Nat
    BY FS_CardinalityType
  <2> HIDE DEF Ranks
  <2>2. QED
    BY <1>2, <2>1, GreatestNumber
<1>4. PICK p \in J : m = Cardinality(Earlier(R, P, p))
  BY <1>3
<1>5. ASSUME NEW q \in J, q # p
      PROVE  q \in Earlier(R, P, p)
  <2>1. SUFFICES ASSUME <<q, p>> \notin R PROVE FALSE
    BY DEF Earlier
  <2>2. <<p, q>> \in R
    BY <1>5, <2>1 DEF Orders
  <2>3. Cardinality(Earlier(R, P, p)) < Cardinality(Earlier(R, P, q))
    BY <2>2, EarlierGrows
  <2>4. Cardinality(Earlier(R, P, q)) <= Cardinality(Earlier(R, P, p))
    BY <1>3, <1>4
  <2>5. Cardinality(Earlier(R, P, p)) \in Nat /\ Cardinality(Earlier(R, P, q)) \in Nat
    BY <1>1
  <2>6. QED
    BY <2>3, <2>4, <2>5
<1>6. QED
  BY <1>5

\* Taking a value while fewer than n different ones came before takes at most n.
LEMMA DistinctCount ==
  ASSUME NEW P, IsFiniteSet(P), NEW R, Orders(R, P), NEW v, NEW n \in Nat
  PROVE  /\ IsFiniteSet(FirstValues(v, R, P, n))
         /\ Cardinality(FirstValues(v, R, P, n)) <= n
         /\ FirstValues(v, R, P, n) \subseteq {v[p] : p \in P}
<1> DEFINE J == {p \in P : Cardinality({v[q] : q \in Earlier(R, P, p)}) < n}
           V == {v[p] : p \in J}
<1>0. V = FirstValues(v, R, P, n) /\ V \subseteq {v[p] : p \in P}
  BY DEF FirstValues
<1>1. J \in SUBSET P /\ IsFiniteSet(J)
  BY FS_Subset
<1>2. CASE J = {}
  <2>1. V = {}
    BY <1>2
  <2>2. IsFiniteSet({}) /\ Cardinality({}) = 0
    BY FS_EmptySet
  <2> HIDE DEF V
  <2>3. IsFiniteSet(V) /\ Cardinality(V) = 0
    BY <2>1, <2>2, Zenon
  <2>4. QED
    BY <1>0, <2>3
<1>3. CASE J # {}
  <2>1. PICK p \in J : \A q \in J : q = p \/ q \in Earlier(R, P, p)
    BY <1>1, <1>3, LastMember
  <2> DEFINE B == {v[q] : q \in Earlier(R, P, p)}
  <2>2. Earlier(R, P, p) \in SUBSET P /\ IsFiniteSet(Earlier(R, P, p))
    BY FS_Subset DEF Earlier
  <2>3. IsFiniteSet(B) /\ Cardinality(B) \in Nat
    BY <2>2, ValuesCount
  <2>4. Cardinality(B) < n
    BY DEF J
  <2>5. V \in SUBSET (B \cup {v[p]})
    BY <2>1
  <2> HIDE DEF B, V
  <2>6. /\ IsFiniteSet(B \cup {v[p]})
        /\ Cardinality(B \cup {v[p]}) <= Cardinality(B) + 1
    <3>1. /\ IsFiniteSet(B \cup {v[p]})
          /\ Cardinality(B \cup {v[p]}) =
               IF v[p] \in B THEN Cardinality(B) ELSE Cardinality(B) + 1
      BY <2>3, FS_AddElement, Zenon
    <3>2. QED
      BY <2>3, <3>1
  <2>7. IsFiniteSet(V) /\ Cardinality(V) <= Cardinality(B \cup {v[p]})
    BY <2>5, <2>6, FS_Subset
  <2>8. Cardinality(V) \in Nat /\ Cardinality(B \cup {v[p]}) \in Nat
    BY <2>6, <2>7, FS_CardinalityType
  <2>9. QED
    BY <1>0, <2>3, <2>4, <2>6, <2>7, <2>8
<1>4. QED
  BY <1>2, <1>3
-----------------------------------------------------------------------------
\* Induction up to a bound, over the set of the numbers it holds of.
LEMMA UpTo ==
  ASSUME NEW N \in Nat, NEW P, 0 \in P, \A n \in 1 .. N : n - 1 \in P => n \in P
  PROVE  \A n \in 0 .. N : n \in P
<1> DEFINE Bad == {n \in Nat : n \in 0 .. N /\ n \notin P}
<1>1. ASSUME Bad # {}
      PROVE  FALSE
  <2>1. PICK k \in Bad : \A m \in Bad : k <= m
    <3>1. Bad \subseteq Nat
      OBVIOUS
    <3> HIDE DEF Bad
    <3>2. QED
      BY <1>1, <3>1, LeastNumber
  <2>2. k \in 1 .. N /\ k \notin P
    <3>1. k \in 0 .. N /\ k \notin P /\ k # 0
      BY <2>1
    <3>2. QED
      BY <3>1
  <2>3. k - 1 \in Nat /\ k - 1 \in 0 .. N /\ ~(k <= k - 1)
    BY <2>2
  <2>4. k - 1 \in P
    BY <2>1, <2>3
  <2>5. QED
    BY <2>2, <2>4
<1>2. QED
  BY <1>1

\* The same, from 1.
LEMMA FromOne ==
  ASSUME NEW N \in Nat, NEW P, 1 \in P, \A n \in 2 .. N : n - 1 \in P => n \in P
  PROVE  \A n \in 1 .. N : n \in P
<1>1. \A n \in 1 .. N : n - 1 \in {0} \cup P => n \in {0} \cup P
  OBVIOUS
<1>2. \A n \in 0 .. N : n \in {0} \cup P
  BY <1>1, UpTo
<1>3. QED
  BY <1>2

\* A function defined from its value at the number before: F[<<n, v>>] is the
\* value at n when v is the one before.
Follows(f, F, a, N) == f[0] = a /\ \A n \in 1 .. N : f[n] = F[<<n, f[n - 1]>>]
ClosedUnder(V, F) == \A n \in Nat : \A v \in V : F[<<n, v>>] \in V

\* There is such a function, whatever its first value and its step: the
\* recursive functions of the models are what they are written to be.
LEMMA Recursion ==
  ASSUME NEW V, NEW a \in V, NEW N \in Nat, NEW F, ClosedUnder(V, F)
  PROVE  \E f \in [0 .. N -> V] : Follows(f, F, a, N)
<1> DEFINE Solves(f, k) == /\ f \in [0 .. k -> V]
                           /\ f[0] = a
                           /\ \A n \in 1 .. k : f[n] = F[<<n, f[n - 1]>>]
           P == {k \in Nat : \E f : Solves(f, k)}
<1>1. 0 \in P
  <2>1. Solves([n \in 0 .. 0 |-> a], 0)
    OBVIOUS
  <2> HIDE DEF Solves
  <2>2. QED
    BY <2>1
<1>2. ASSUME NEW k \in 1 .. N, k - 1 \in P
      PROVE  k \in P
  <2>1. PICK g : Solves(g, k - 1)
    BY <1>2
  <2> DEFINE h == [n \in 0 .. k |-> IF n = k THEN F[<<k, g[k - 1]>>] ELSE g[n]]
  <2>2. g[k - 1] \in V /\ k - 1 \in 0 .. k /\ k - 1 # k /\ k # 0
    BY <2>1
  <2>3. h \in [0 .. k -> V] /\ h[0] = a
    <3>1. F[<<k, g[k - 1]>>] \in V
      BY <2>2 DEF ClosedUnder
    <3>2. \A n \in 0 .. k : n # k => n \in 0 .. (k - 1) /\ g[n] \in V
      BY <2>1
    <3>3. g[0] = a /\ 0 \in 0 .. k /\ 0 # k
      BY <2>1, <2>2
    <3>4. QED
      BY <3>1, <3>2, <3>3
  <2>4. ASSUME NEW n \in 1 .. k
        PROVE  h[n] = F[<<n, h[n - 1]>>]
    <3>1. n - 1 \in 0 .. k /\ n - 1 # k /\ n \in 0 .. k /\ h[n - 1] = g[n - 1]
      BY <2>4
    <3>2. CASE n = k
      BY <3>1, <3>2
    <3>3. CASE n # k
      <4>1. n \in 1 .. (k - 1) /\ h[n] = g[n]
        BY <3>1, <3>3
      <4>2. g[n] = F[<<n, g[n - 1]>>]
        BY <2>1, <4>1
      <4> HIDE DEF h
      <4>3. QED
        BY <3>1, <4>1, <4>2
    <3>4. QED
      BY <3>2, <3>3
  <2>5. Solves(h, k)
    <3> HIDE DEF h
    <3>1. QED
      BY <2>3, <2>4
  <2> HIDE DEF Solves, h
  <2>6. QED
    BY <2>5
<1> HIDE DEF P
<1>3. N \in P
  BY <1>1, <1>2, UpTo
<1>4. QED
  BY <1>3 DEF P, Follows

\* The equation FlattenSeq is defined by has a solution.
LEMMA FlattenEquation ==
  ASSUME NEW S, NEW s \in Seq(Seq(S)), s # <<>>
  PROVE  \E f : /\ f = [i \in 1 .. Len(s) |-> IF i = 1 THEN s[i] ELSE f[i - 1] \o s[i]]
                /\ \A i \in 1 .. Len(s) : f[i] \in Seq(S)
                /\ FlattenSeq(s) = f[Len(s)]
<1> DEFINE N == Len(s)
           Solves(f) == f = [i \in 1 .. Len(s) |-> IF i = 1 THEN s[i] ELSE f[i - 1] \o s[i]]
           F == [x \in Nat \X Seq(S) |-> IF x[1] \in 1 .. N THEN x[2] \o s[x[1]] ELSE x[2]]
<1>1. N \in Nat /\ N # 0 /\ \A i \in 1 .. N : s[i] \in Seq(S)
  BY EmptySeq, LenProperties, ElementOfSeq
<1>2. \A n \in Nat : \A v \in Seq(S) : F[<<n, v>>] \in Seq(S)
  <2>1. ASSUME NEW n \in Nat, NEW v \in Seq(S)
        PROVE  F[<<n, v>>] = IF n \in 1 .. N THEN v \o s[n] ELSE v
    OBVIOUS
  <2> HIDE DEF F
  <2>2. QED
    BY <1>1, <2>1, ConcatProperties
<1>3. <<>> \in Seq(S)
  OBVIOUS
<1> HIDE DEF F
<1>4. PICK f \in [0 .. N -> Seq(S)] :
        f[0] = <<>> /\ \A n \in 1 .. N : f[n] = F[<<n, f[n - 1]>>]
  <2> DEFINE V == Seq(S)
  <2>1. <<>> \in V /\ N \in Nat /\ ClosedUnder(V, F)
    BY <1>1, <1>2, <1>3 DEF ClosedUnder
  <2> HIDE DEF V, N
  <2>2. \E f \in [0 .. N -> V] : Follows(f, F, <<>>, N)
    BY <2>1, Recursion, Zenon
  <2>3. QED
    BY <2>2 DEF V, Follows
<1>5. ASSUME NEW n \in 1 .. N
      PROVE  f[n] = f[n - 1] \o s[n]
  <2>1. n \in Nat /\ n - 1 \in 0 .. N
    BY <1>1
  <2> HIDE DEF N
  <2>4. f[n - 1] \in Seq(S)
    BY <1>4, <2>1
  <2>2. F[<<n, f[n - 1]>>] = f[n - 1] \o s[n]
    BY <1>5, <2>1, <2>4 DEF F
  <2>3. QED
    BY <1>4, <2>2
<1> DEFINE g == [n \in 1 .. N |-> f[n]]
<1>6. Solves(g)
  <2>1. ASSUME NEW i \in 1 .. N
        PROVE  g[i] = IF i = 1 THEN s[i] ELSE g[i - 1] \o s[i]
    <3>1. CASE i = 1
      <4>1. 1 \in 1 .. N
        BY <1>1
      <4>4. f[1] = f[0] \o s[1] /\ s[1] \in Seq(S) /\ g[1] = f[1]
        <5>1. 1 - 1 = 0
          OBVIOUS
        <5>2. f[1] = f[1 - 1] \o s[1]
          BY <1>5, <4>1
        <5>3. QED
          BY <1>1, <4>1, <5>1, <5>2
      <4>2. <<>> \o s[1] = s[1]
        BY <4>4, ConcatEmptySeq
      <4> HIDE DEF g
      <4>3. QED
        BY <1>4, <3>1, <4>4, <4>2
    <3>2. CASE i # 1
      <4>1. i - 1 \in 1 .. N
        BY <1>1, <3>2
      <4>2. QED
        BY <1>5, <3>2, <4>1
    <3>3. QED
      BY <3>1, <3>2
  <2>2. g = [i \in 1 .. N |-> g[i]]
    OBVIOUS
  <2> HIDE DEF g
  <2>3. QED
    BY <2>1, <2>2
<1> HIDE DEF g
<1> DEFINE c == CHOOSE h : Solves(h)
<1>7. Solves(c)
  <2> HIDE DEF Solves
  <2>1. QED
    BY <1>6
<1>8. FlattenSeq(s) = c[Len(s)]
  BY <1>1 DEF FlattenSeq
<1>9. \A i \in 1 .. N : c[i] \in Seq(S)
  <2> DEFINE P == {i \in Nat : i \in 1 .. N => c[i] \in Seq(S)}
  <2>1. \A i \in 1 .. N : c[i] = IF i = 1 THEN s[i] ELSE c[i - 1] \o s[i]
    BY <1>7
  <2>2. 1 \in P
    BY <1>1, <2>1
  <2>3. ASSUME NEW i \in 2 .. N, i - 1 \in P
        PROVE  i \in P
    <3>1. i - 1 \in 1 .. N /\ i \in 1 .. N /\ i \in Nat /\ i # 1
      BY <1>1
    <3>2. c[i - 1] \in Seq(S) /\ s[i] \in Seq(S)
      BY <1>1, <2>3, <3>1
    <3>3. c[i] = c[i - 1] \o s[i]
      BY <2>1, <3>1
    <3> HIDE DEF c
    <3>4. c[i] \in Seq(S)
      BY <3>2, <3>3, ConcatProperties
    <3>5. QED
      BY <3>1, <3>4
  <2> HIDE DEF P
  <2>4. \A i \in 1 .. N : i \in P
    BY <1>1, <2>2, <2>3, FromOne
  <2>5. QED
    BY <2>4 DEF P
<1>10. QED
  BY <1>7, <1>8, <1>9

\* What follows holds of the empty sequence of sequences as well.
LEMMA FlattenNothing == FlattenSeq(<<>>) = <<>>
BY DEF FlattenSeq

\* "at" tells, for each member of t, where it stands in the first m of the
\* sequences s: each member of those has one position in t.
Lists(at, t, s, m) ==
  /\ \A i \in 1 .. Len(t) : /\ at[i] \in (1 .. m) \X Nat
                            /\ at[i][2] \in 1 .. Len(s[at[i][1]])
                            /\ t[i] = s[at[i][1]][at[i][2]]
  /\ \A i, j \in 1 .. Len(t) : at[i] = at[j] => i = j
  /\ \A n \in 1 .. m : \A k \in 1 .. Len(s[n]) : \E i \in 1 .. Len(t) : at[i] = <<n, k>>

\* Appending the next sequence lists its members after the others.
LEMMA ListsOneMore ==
  ASSUME NEW S, NEW s \in Seq(Seq(S)), NEW m \in Nat, m + 1 \in 1 .. Len(s),
         NEW t \in Seq(S), NEW at, Lists(at, t, s, m)
  PROVE  \E next : Lists(next, t \o s[m + 1], s, m + 1)
<1> DEFINE u == s[m + 1]
           w == t \o u
           a == Len(t)
           next == [i \in 1 .. Len(w) |-> IF i <= a THEN at[i] ELSE <<m + 1, i - a>>]
<1>1. u \in Seq(S)
  BY ElementOfSeq
<1>2. /\ w \in Seq(S) /\ Len(w) = a + Len(u)
      /\ \A i \in 1 .. Len(w) : w[i] = IF i <= a THEN t[i] ELSE u[i - a]
      /\ a \in Nat /\ Len(u) \in Nat
  <2> HIDE DEF u
  <2>1. QED
    BY <1>1, ConcatProperties, LenProperties
<1> HIDE DEF w, u
<1>3. ASSUME NEW i \in 1 .. Len(w)
      PROVE  /\ next[i] \in (1 .. (m + 1)) \X Nat
             /\ next[i][2] \in 1 .. Len(s[next[i][1]])
             /\ w[i] = s[next[i][1]][next[i][2]]
  <2>1. CASE i <= a
    <3>1. i \in 1 .. a /\ next[i] = at[i] /\ w[i] = t[i]
      BY <1>2, <2>1
    <3>2. /\ at[i] \in (1 .. m) \X Nat
          /\ at[i][2] \in 1 .. Len(s[at[i][1]])
          /\ t[i] = s[at[i][1]][at[i][2]]
      BY <3>1 DEF Lists
    <3>3. at[i] \in (1 .. (m + 1)) \X Nat
      BY <3>2
    <3> HIDE DEF next
    <3>4. QED
      BY <3>1, <3>2, <3>3
  <2>2. CASE ~(i <= a)
    <3>1. next[i] = <<m + 1, i - a>> /\ w[i] = u[i - a]
      BY <1>2, <2>2
    <3>2. i - a \in 1 .. Len(u)
      BY <1>2, <2>2
    <3> HIDE DEF next
    <3>3. QED
      BY <3>1, <3>2, <1>2 DEF u
  <2>3. QED
    BY <2>1, <2>2
<1>4. ASSUME NEW i \in 1 .. Len(w), NEW j \in 1 .. Len(w), next[i] = next[j]
      PROVE  i = j
  <2>1. CASE i <= a /\ j <= a
    <3>1. i \in 1 .. a /\ j \in 1 .. a /\ at[i] = at[j]
      BY <1>2, <1>4, <2>1
    <3>2. QED
      BY <3>1 DEF Lists
  <2>2. CASE ~(i <= a) /\ ~(j <= a)
    <3>1. i - a = j - a
      BY <1>2, <1>4, <2>2
    <3>2. QED
      BY <1>2, <3>1
  <2>3. ASSUME NEW p \in 1 .. Len(w), NEW q \in 1 .. Len(w), p <= a, ~(q <= a)
        PROVE  next[p] # next[q]
    <3>1. p \in 1 .. a /\ next[p] = at[p] /\ next[q] = <<m + 1, q - a>>
      BY <1>2, <2>3
    <3>2. at[p][1] \in 1 .. m
      BY <3>1 DEF Lists
    <3>3. at[p][1] # m + 1
      BY <3>2
    <3> HIDE DEF next
    <3>4. QED
      BY <3>1, <3>3
  <2> HIDE DEF next
  <2>4. QED
    BY <1>4, <2>1, <2>2, <2>3
<1>5. ASSUME NEW n \in 1 .. (m + 1), NEW k \in 1 .. Len(s[n])
      PROVE  \E i \in 1 .. Len(w) : next[i] = <<n, k>>
  <2>1. CASE n = m + 1
    <3>1. k \in 1 .. Len(u) /\ k \in Nat
      BY <1>2, <2>1 DEF u
    <3>2. a + k \in 1 .. Len(w) /\ ~(a + k <= a) /\ a + k - a = k
      BY <1>2, <3>1
    <3>3. next[a + k] = <<n, k>>
      BY <2>1, <3>2
    <3> HIDE DEF next
    <3>4. QED
      BY <3>2, <3>3
  <2>2. CASE n # m + 1
    <3>1. n \in 1 .. m
      BY <2>2
    <3>2. PICK i \in 1 .. a : at[i] = <<n, k>>
      BY <3>1 DEF Lists
    <3>3. i \in 1 .. Len(w) /\ next[i] = at[i]
      BY <1>2, <3>2
    <3> HIDE DEF next
    <3>4. QED
      BY <3>2, <3>3
  <2>3. QED
    BY <2>1, <2>2
<1> HIDE DEF next
<1>6. Lists(next, w, s, m + 1)
  BY <1>3, <1>4, <1>5 DEF Lists
<1>7. QED
  BY <1>6 DEF w, u

\* Flattening sequences lists all their members, each at its own position.
LEMMA FlattenLists ==
  ASSUME NEW S, NEW s \in Seq(Seq(S))
  PROVE  /\ FlattenSeq(s) \in Seq(S)
         /\ \E at : Lists(at, FlattenSeq(s), s, Len(s))
<1>1. CASE s = <<>>
  <2>1. FlattenSeq(s) = <<>> /\ Len(s) = 0 /\ Len(FlattenSeq(s)) = 0
    BY <1>1, FlattenNothing
  <2>2. Lists(<<>>, FlattenSeq(s), s, Len(s))
    BY <2>1 DEF Lists
  <2>3. QED
    BY <2>1, <2>2
<1>2. CASE s # <<>>
  <2>1. Len(s) \in Nat /\ Len(s) # 0 /\ \A n \in 1 .. Len(s) : s[n] \in Seq(S)
    BY <1>2, EmptySeq, LenProperties, ElementOfSeq
  <2>2. PICK f : /\ f = [i \in 1 .. Len(s) |-> IF i = 1 THEN s[i] ELSE f[i - 1] \o s[i]]
                 /\ FlattenSeq(s) = f[Len(s)]
    BY <1>2, FlattenEquation
  <2> DEFINE Listed(m) == f[m] \in Seq(S) /\ \E at : Lists(at, f[m], s, m)
  <2>3. Listed(1)
    <3>1. 1 \in 1 .. Len(s)
      BY <2>1
    <3>2. f[1] = s[1] /\ s[1] \in Seq(S)
      BY <2>1, <2>2, <3>1
    <3>3. Lists(<<>>, <<>>, s, 0) /\ Len(<<>>) = 0 /\ <<>> \in Seq(S)
      BY DEF Lists
    <3>4. \E at : Lists(at, <<>> \o s[0 + 1], s, 0 + 1)
      <4>1. 0 \in Nat /\ 0 + 1 \in 1 .. Len(s)
        BY <3>1
      <4>2. QED
        BY <3>3, <4>1, ListsOneMore, Zenon
    <3>5. <<>> \o s[1] = s[1]
      BY <3>2, ConcatEmptySeq
    <3>6. QED
      BY <3>2, <3>4, <3>5
  <2>4. ASSUME NEW n \in 1 .. Len(s), n # 1, Listed(n - 1)
        PROVE  Listed(n)
    <3>1. f[n] = f[n - 1] \o s[n]
      BY <2>2, <2>4
    <3>2. n - 1 \in Nat /\ n - 1 + 1 = n
      BY <2>1, <2>4
    <3>3. f[n - 1] \o s[n] \in Seq(S)
      BY <2>1, <2>4, ConcatProperties
    <3>4. PICK at : Lists(at, f[n - 1], s, n - 1)
      BY <2>4
    <3>5. \E next : Lists(next, f[n - 1] \o s[n], s, n)
      <4> DEFINE m == n - 1
                 t == f[n - 1]
      <4>1. m \in Nat /\ m + 1 \in 1 .. Len(s) /\ t \in Seq(S) /\ Lists(at, t, s, m)
        BY <2>4, <3>2, <3>4
      <4> HIDE DEF m, t
      <4>2. \E next : Lists(next, t \o s[m + 1], s, m + 1)
        BY <4>1, ListsOneMore, Zenon
      <4>3. m + 1 = n /\ t = f[n - 1]
        BY <3>2 DEF m, t
      <4>4. QED
        BY <4>2, <4>3
    <3>6. QED
      BY <3>1, <3>3, <3>5
  <2> HIDE DEF Listed
  <2> DEFINE P == {n \in Nat : Listed(n)}
  <2>5. \A n \in 1 .. Len(s) : n \in P
    <3>1. 1 \in P /\ \A n \in 2 .. Len(s) : n - 1 \in P => n \in P
      <4>1. \A n \in 2 .. Len(s) : n \in 1 .. Len(s) /\ n # 1 /\ n \in Nat
        BY <2>1
      <4>2. QED
        BY <2>3, <2>4, <4>1
    <3> HIDE DEF P
    <3>2. QED
      BY <2>1, <3>1, FromOne
  <2>6. Listed(Len(s))
    BY <2>1, <2>5
  <2>7. QED
    BY <2>2, <2>6 DEF Listed
<1>3. QED
  BY <1>1, <1>2

\* Of sequences with at most one member, flattening leaves no more members than
\* there were sequences.
LEMMA FlattenShort ==
  ASSUME NEW S, NEW s \in Seq(Seq(S)), \A n \in 1 .. Len(s) : Len(s[n]) <= 1
  PROVE  Len(FlattenSeq(s)) <= Len(s)
<1> DEFINE t == FlattenSeq(s)
<1>1. Len(t) \in Nat /\ Len(s) \in Nat /\ \A n \in 1 .. Len(s) : Len(s[n]) \in Nat
  BY FlattenLists, LenProperties, ElementOfSeq
<1>2. PICK at : Lists(at, t, s, Len(s))
  BY FlattenLists
<1> HIDE DEF t
<1> DEFINE A == 1 .. Len(t)
           B == 1 .. Len(s)
           j == [i \in A |-> at[i][1]]
<1>3. \A i \in A : at[i] \in B \X Nat /\ at[i][2] \in 1 .. Len(s[at[i][1]])
  BY <1>2 DEF Lists
<1>4. \A i \in A : at[i] = <<at[i][1], 1>> /\ at[i][1] \in B
  <2> SUFFICES ASSUME NEW i \in A
               PROVE  at[i] = <<at[i][1], 1>> /\ at[i][1] \in B
    OBVIOUS
  <2>1. at[i] = <<at[i][1], at[i][2]>> /\ at[i][1] \in B /\ at[i][2] \in Nat
    BY <1>3
  <2>2. Len(s[at[i][1]]) <= 1 /\ Len(s[at[i][1]]) \in Nat /\ at[i][2] \in 1 .. Len(s[at[i][1]])
    BY <1>1, <1>3, <2>1
  <2>3. at[i][2] = 1
    BY <2>1, <2>2
  <2>4. QED
    BY <2>1, <2>3
<1>5. \A x, y \in A : j[x] = j[y] => x = y
  <2> SUFFICES ASSUME NEW x \in A, NEW y \in A, j[x] = j[y]
               PROVE  x = y
    OBVIOUS
  <2>1. at[x] = at[y]
    BY <1>4
  <2>2. QED
    BY <1>2, <2>1 DEF Lists
<1>6. j \in Injection(A, B)
  <2>1. j \in [A -> B]
    BY <1>4
  <2> HIDE DEF j, A, B
  <2>2. QED
    BY <1>5, <2>1 DEF Injection, IsInjective
<1>7. IsFiniteSet(B) /\ Cardinality(B) = Len(s) /\ Cardinality(A) = Len(t)
  <2>1. ASSUME NEW n \in Nat
        PROVE  IsFiniteSet(1 .. n) /\ Cardinality(1 .. n) = n
    <3>1. IsFiniteSet(1 .. n) /\ Cardinality(1 .. n) = IF 1 > n THEN 0 ELSE n - 1 + 1
      BY FS_Interval
    <3>2. QED
      BY <3>1
  <2>2. QED
    BY <1>1, <2>1
<1>8. Cardinality(A) <= Cardinality(B)
  <2> HIDE DEF j, A, B
  <2>1. QED
    BY <1>6, <1>7, FS_Injection
<1>9. QED
  BY <1>7, <1>8 DEF t

\* Flattening singletons gives their members.
LEMMA FlattenSingletons ==
  ASSUME NEW S, NEW t \in Seq(S)
  PROVE  FlattenSeq([n \in DOMAIN t |-> <<t[n]>>]) = t
<1> DEFINE s == [n \in DOMAIN t |-> <<t[n]>>]
<1>1. Len(t) \in Nat /\ DOMAIN t = 1 .. Len(t) /\ \A n \in 1 .. Len(t) : t[n] \in S
  BY LenProperties, ElementOfSeq
<1>2. s \in Seq(Seq(S)) /\ Len(s) = Len(t)
  BY <1>1
<1>3. CASE t = <<>>
  <2>1. s = <<>>
    BY <1>2, <1>3, EmptySeq
  <2>2. QED
    BY <1>3, <2>1, FlattenNothing
<1>4. CASE t # <<>>
  <2>1. s # <<>> /\ Len(t) # 0
    BY <1>1, <1>2, <1>4, EmptySeq
  <2>2. \A i \in 1 .. Len(s) : s[i] = <<t[i]>>
    BY <1>1, <1>2
  <2> HIDE DEF s
  <2>3. PICK f : /\ f = [i \in 1 .. Len(s) |-> IF i = 1 THEN s[i] ELSE f[i - 1] \o s[i]]
                 /\ \A i \in 1 .. Len(s) : f[i] \in Seq(S)
                 /\ FlattenSeq(s) = f[Len(s)]
    BY <1>2, <2>1, FlattenEquation
  <2> DEFINE P == {n \in Nat : f[n] = [i \in 1 .. n |-> t[i]]}
  <2>4. 1 \in P
    <3>1. f[1] = <<t[1]>>
      <4>1. 1 \in 1 .. Len(s)
        BY <1>1, <1>2, <2>1
      <4>2. f[1] = s[1]
        BY <2>3, <4>1
      <4>3. QED
        BY <2>2, <4>1, <4>2
    <3>2. QED
      BY <3>1
  <2>5. ASSUME NEW n \in 2 .. Len(t), n - 1 \in P
        PROVE  n \in P
    <3>1. n \in Nat /\ n - 1 \in Nat /\ n \in 1 .. Len(s) /\ n - 1 \in 1 .. Len(s) /\ n # 1
      BY <1>1, <1>2
    <3>2. f[n] = f[n - 1] \o <<t[n]>> /\ f[n - 1] \in Seq(S) /\ <<t[n]>> \in Seq(S)
      <4>1. f[n] = f[n - 1] \o s[n]
        BY <2>3, <3>1
      <4>2. s[n] = <<t[n]>> /\ t[n] \in S
        BY <1>1, <1>2, <2>2, <3>1
      <4>3. f[n - 1] \in Seq(S)
        BY <2>3, <3>1
      <4>4. QED
        BY <4>1, <4>2, <4>3
    <3>3. f[n - 1] = [i \in 1 .. (n - 1) |-> t[i]]
      BY <2>5
    <3>4. f[n] = [i \in 1 .. n |-> t[i]]
      BY <1>1, <3>1, <3>2, <3>3
    <3>5. QED
      BY <3>1, <3>4
  <2> HIDE DEF P
  <2>6. Len(t) \in P
    <3>1. \A n \in 1 .. Len(t) : n \in P
      BY <1>1, <2>4, <2>5, FromOne
    <3>2. QED
      BY <1>1, <2>1, <3>1
  <2>7. f[Len(t)] = t
    BY <1>1, <2>6 DEF P
  <2>8. FlattenSeq(s) = t
    BY <1>2, <2>3, <2>7
  <2>9. QED
    BY <2>8 DEF s
<1>5. QED
  BY <1>3, <1>4
=============================================================================
