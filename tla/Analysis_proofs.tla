--------------------------- MODULE Analysis_proofs ---------------------------
(***************************************************************************)
(* What the analysis pipeline guarantees for every log, every format, every *)
(* set of sources and every answer of the providers.                        *)
(*                                                                          *)
(* The inductive invariant (AnalysisInv) says where everything comes from:  *)
(* the events are the records of the log, the findings are what a detector  *)
(* makes of an event and, after the lookups, what rescoring makes of that.  *)
(* That a finding and a report are then accepted by their validators        *)
(* follows from lemmas about the operators that build them.                 *)
(***************************************************************************)
EXTENDS Analysis, ListFacts

-----------------------------------------------------------------------------
\* The risk formula (RiskScore).

\* Scaling by the confidence never exceeds the severity's points.
LEMMA ConfidenceBounds ==
  ASSUME NEW p \in 0 .. 80, NEW c \in Percent
  PROVE  ConfidenceAdjusted(p, c) \in 0 .. p
<1>1. p * c <= p * 100 /\ 0 <= p * c
  BY SMT DEF Percent
<1> DEFINE m == p * c
<1>2. m \in Int /\ 0 <= m /\ m <= 100 * p
  BY <1>1, SMT DEF Percent
<1>3. (2 * p) * c = 2 * m
  BY SMT DEF Percent
<1> HIDE DEF m
<1>4. m \div 100 \in 0 .. p /\ (2 * m + 100) \div 200 \in 0 .. p
  BY <1>2, SMT
<1> QED
  BY <1>3, <1>4, SMT DEF ConfidenceAdjusted, m

\* A reputation adds at most twenty points.
LEMMA ReputationBounds ==
  ASSUME NEW r \in Percent
  PROVE  ReputationPoints(r) \in 0 .. 20
BY SMT DEF ReputationPoints, Percent

\* A severity contributes at most eighty points.
LEMMA SeverityBounds ==
  ASSUME NEW s \in Severities
  PROVE  SeverityPoints(s) \in 0 .. 80
BY DEF Severities, SeverityPoints

\* The components before the noise filter never leave 0..100: the first clamp
\* of the formula never bites, so the components shown add up to the score.
THEOREM SubtotalInRange ==
  ASSUME NEW s \in Severities, NEW c \in Percent, NEW r \in Percent
  PROVE  Subtotal(s, c, r) \in 0 .. 100
<1> DEFINE p == SeverityPoints(s)
<1>1. p \in 0 .. 80
  BY SeverityBounds
<1>2. ConfidenceAdjusted(p, c) \in 0 .. p
  BY <1>1, ConfidenceBounds
<1>3. ReputationPoints(r) \in 0 .. 20
  BY ReputationBounds
<1> HIDE DEF p
<1>4. p + (ConfidenceAdjusted(p, c) - p) + ReputationPoints(r) \in 0 .. 100
  BY <1>1, <1>2, <1>3
<1> QED
  BY <1>4 DEF Subtotal, p

\* Without an eligible GreyNoise result the score is the subtotal, with one it
\* is a quarter of it: nothing else moves a score.
THEOREM ScoreIsSubtotalOrQuarter ==
  ASSUME NEW s \in Severities, NEW c \in Percent, NEW r \in Percent,
         NEW g \in NoiseResults
  PROVE  CalculateRiskScore(s, c, r, g) =
           IF RiskReductionEligible(g) THEN Retained(Subtotal(s, c, r))
                                       ELSE Subtotal(s, c, r)
<1> DEFINE n == Subtotal(s, c, r)
<1>1. n \in 0 .. 100
  BY SubtotalInRange
<1>2. CalculateRiskScore(s, c, r, g) = Clamp(n + NoiseAdjustment(n, g))
  BY DEF CalculateRiskScore
<1>3. RiskReductionEligible(g) => g.mode = "live"
  BY DEF RiskReductionEligible
<1> HIDE DEF n
<1>4. CASE RiskReductionEligible(g)
  BY <1>1, <1>2, <1>3, <1>4 DEF NoiseAdjustment, Retained, Clamp, n
<1>5. CASE ~RiskReductionEligible(g)
  BY <1>1, <1>2, <1>5 DEF NoiseAdjustment, Clamp, n
<1> QED
  BY <1>4, <1>5

\* A reputation can only raise a finding's score above what its detector gave.
THEOREM ReputationNeverLowers ==
  ASSUME NEW s \in Severities, NEW c \in Percent, NEW r \in Percent,
         NEW g \in NoiseResults, ~RiskReductionEligible(g)
  PROVE  /\ DetectionScore(s, c) <= CalculateRiskScore(s, c, r, g)
         /\ CalculateRiskScore(s, c, r, g) <= DetectionScore(s, c) + 20
<1>1. 0 \in Percent
  BY DEF Percent
<1>2. Subtotal(s, c, 0) \in 0 .. 100 /\ Subtotal(s, c, r) \in 0 .. 100
  BY <1>1, SubtotalInRange
<1>3. CalculateRiskScore(s, c, r, g) = Subtotal(s, c, r)
  BY ScoreIsSubtotalOrQuarter
<1>4. DetectionScore(s, c) = Subtotal(s, c, 0)
  BY <1>2 DEF DetectionScore, Clamp
<1> DEFINE base == SeverityPoints(s) + (ConfidenceAdjusted(SeverityPoints(s), c) - SeverityPoints(s))
<1>5. base \in Int
  <2>1. SeverityPoints(s) \in 0 .. 80
    BY SeverityBounds
  <2>2. ConfidenceAdjusted(SeverityPoints(s), c) \in 0 .. SeverityPoints(s)
    BY <2>1, ConfidenceBounds
  <2> HIDE DEF base
  <2>3. ConfidenceAdjusted(SeverityPoints(s), c) \in Int /\ SeverityPoints(s) \in Int
    BY <2>1, <2>2, SMT
  <2> QED
    BY <2>3 DEF base
<1>6. Subtotal(s, c, r) = base + ReputationPoints(r) /\ Subtotal(s, c, 0) = base + ReputationPoints(0)
  BY DEF Subtotal
<1>7. ReputationPoints(0) = 0 /\ ReputationPoints(r) \in 0 .. 20
  BY ReputationBounds, SMT DEF ReputationPoints
<1> HIDE DEF base
<1> QED
  BY <1>3, <1>4, <1>5, <1>6, <1>7

\* The noise filter never raises a score, and never removes it entirely from
\* a finding that had two points or more.
THEOREM NoiseFilterBounds ==
  ASSUME NEW s \in Severities, NEW c \in Percent, NEW r \in Percent,
         NEW g \in NoiseResults, RiskReductionEligible(g)
  PROVE  /\ CalculateRiskScore(s, c, r, g) <= Subtotal(s, c, r)
         /\ Subtotal(s, c, r) >= 2 => CalculateRiskScore(s, c, r, g) >= 1
<1>1. Subtotal(s, c, r) \in 0 .. 100
  BY SubtotalInRange
<1>2. CalculateRiskScore(s, c, r, g) = Retained(Subtotal(s, c, r))
  BY ScoreIsSubtotalOrQuarter
<1> QED
  BY <1>1, <1>2 DEF Retained

-----------------------------------------------------------------------------
\* What the loops over a list make of it (Parser, Findings).

\* The members of a sequence that a set holds, in order.
Chosen(s, T) == Only(s, LAMBDA x : x \in T)

\* Choosing keeps just the members of the set, and all of them.
LEMMA ChosenMembers ==
  ASSUME NEW S, NEW s \in Seq(S), NEW T
  PROVE  /\ Chosen(s, T) \in Seq(S)
         /\ Len(Chosen(s, T)) <= Len(s)
         /\ \A i \in 1 .. Len(Chosen(s, T)) :
              Chosen(s, T)[i] \in T /\ \E n \in 1 .. Len(s) : Chosen(s, T)[i] = s[n]
         /\ \A n \in 1 .. Len(s) :
              s[n] \in T => \E i \in 1 .. Len(Chosen(s, T)) : Chosen(s, T)[i] = s[n]
         /\ (\A n \in 1 .. Len(s) : s[n] \in T) => Chosen(s, T) = s
<1> DEFINE u == [n \in DOMAIN s |-> IF s[n] \in T THEN <<s[n]>> ELSE <<>>]
           r == FlattenSeq(u)
<1>1. Chosen(s, T) = r
  BY DEF Chosen, Only
<1>2. Len(s) \in Nat /\ DOMAIN s = 1 .. Len(s) /\ \A n \in 1 .. Len(s) : s[n] \in S
  BY LenProperties, ElementOfSeq
<1>3. u \in Seq(Seq(S)) /\ Len(u) = Len(s)
  BY <1>2
<1>4. \A n \in 1 .. Len(s) : u[n] = IF s[n] \in T THEN <<s[n]>> ELSE <<>>
  BY <1>2
<1>5. (\A n \in 1 .. Len(s) : s[n] \in T) => r = s
  <2> SUFFICES ASSUME \A n \in 1 .. Len(s) : s[n] \in T
               PROVE  r = s
    OBVIOUS
  <2>1. u = [n \in DOMAIN s |-> <<s[n]>>]
    BY <1>2
  <2> HIDE DEF u
  <2>2. QED
    BY <2>1, FlattenSingletons
<1> HIDE DEF u
<1>6. r \in Seq(S) /\ Len(r) \in Nat
  BY <1>3, FlattenLists, LenProperties
<1>7. PICK at : Lists(at, r, u, Len(s))
  BY <1>3, FlattenLists
<1>8. Len(r) <= Len(s)
  <2>1. \A n \in 1 .. Len(u) : Len(u[n]) <= 1
    <3>1. Len(<<>>) = 0 /\ \A x : Len(<<x>>) = 1
      OBVIOUS
    <3>2. \A n \in 1 .. Len(u) : Len(u[n]) = 0 \/ Len(u[n]) = 1
      BY <1>3, <1>4, <3>1
    <3> SUFFICES ASSUME NEW n \in 1 .. Len(u)
                 PROVE  Len(u[n]) <= 1
      OBVIOUS
    <3> DEFINE l == Len(u[n])
    <3>3. l = 0 \/ l = 1
      BY <3>2
    <3> HIDE DEF l
    <3>4. l <= 1
      BY <3>3
    <3>5. QED
      BY <3>4 DEF l
  <2>2. QED
    BY <1>3, <2>1, FlattenShort
<1> HIDE DEF r
<1>9. ASSUME NEW i \in 1 .. Len(r)
      PROVE  r[i] \in T /\ \E n \in 1 .. Len(s) : r[i] = s[n]
  <2>1. /\ at[i] \in (1 .. Len(s)) \X Nat
        /\ at[i][2] \in 1 .. Len(u[at[i][1]])
        /\ r[i] = u[at[i][1]][at[i][2]]
    BY <1>7 DEF Lists
  <2> DEFINE n == at[i][1]
             k == at[i][2]
  <2>2. n \in 1 .. Len(s) /\ k \in 1 .. Len(u[n]) /\ r[i] = u[n][k]
    BY <2>1
  <2> HIDE DEF n, k
  <2>3. s[n] \in T
    <3>1. ASSUME s[n] \notin T
          PROVE  FALSE
      <4>1. u[n] = <<>>
        BY <1>4, <2>2, <3>1
      <4>2. QED
        BY <2>2, <4>1
    <3>2. QED
      BY <3>1
  <2>4. u[n] = <<s[n]>>
    BY <1>4, <2>2, <2>3
  <2>5. k = 1
    BY <2>2, <2>4
  <2>6. r[i] = s[n]
    BY <2>2, <2>4, <2>5
  <2>7. QED
    BY <2>2, <2>3, <2>6
<1>10. ASSUME NEW n \in 1 .. Len(s), s[n] \in T
       PROVE  \E i \in 1 .. Len(r) : r[i] = s[n]
  <2>1. u[n] = <<s[n]>>
    BY <1>4, <1>10
  <2>2. 1 \in 1 .. Len(u[n])
    BY <2>1
  <2>3. PICK i \in 1 .. Len(r) : at[i] = <<n, 1>>
    BY <1>7, <2>2 DEF Lists
  <2>4. r[i] = u[at[i][1]][at[i][2]]
    BY <1>7 DEF Lists
  <2>5. r[i] = u[n][1]
    BY <2>3, <2>4
  <2>6. QED
    BY <2>1, <2>5
<1>11. QED
  BY <1>1, <1>5, <1>6, <1>8, <1>9, <1>10

\* Deduplication keeps each member of a sequence, once.
LEMMA DeduplicatedMembers ==
  ASSUME NEW S, NEW s \in Seq(S)
  PROVE  /\ Deduplicated(s) \in Seq(S)
         /\ IsInjective(Deduplicated(s))
         /\ ToSet(Deduplicated(s)) = ToSet(s)
<1> DEFINE N == Len(s)
           Repeats(n) == \E i \in 1 .. n - 1 : s[i] = s[n]
           Solves(f) == f = [n \in 0 .. Len(s) |->
                               IF n = 0 THEN <<>>
                               ELSE IF \E i \in 1 .. n - 1 : s[i] = s[n] THEN f[n - 1]
                               ELSE Append(f[n - 1], s[n])]
           F == [x \in Nat \X Seq(S) |->
                   IF x[1] \in 1 .. N /\ ~Repeats(x[1]) THEN Append(x[2], s[x[1]]) ELSE x[2]]
<1>1. N \in Nat /\ \A n \in 1 .. N : s[n] \in S
  BY LenProperties, ElementOfSeq
<1>2. \A n \in Nat : \A v \in Seq(S) :
        F[<<n, v>>] = IF n \in 1 .. N /\ ~Repeats(n) THEN Append(v, s[n]) ELSE v
  OBVIOUS
<1> HIDE DEF F
<1>3. PICK f \in [0 .. N -> Seq(S)] : Follows(f, F, <<>>, N)
  <2> DEFINE V == Seq(S)
  <2>1. <<>> \in V /\ N \in Nat /\ ClosedUnder(V, F)
    <3>1. \A n \in 1 .. N : \A v \in Seq(S) : Append(v, s[n]) \in Seq(S)
      BY <1>1, AppendProperties
    <3> HIDE DEF N, Repeats
    <3>2. \A n \in Nat : \A v \in Seq(S) : F[<<n, v>>] \in Seq(S)
      BY <1>2, <3>1
    <3>3. QED
      BY <1>1, <3>2 DEF ClosedUnder
  <2> HIDE DEF V, N
  <2>2. \E f \in [0 .. N -> V] : Follows(f, F, <<>>, N)
    BY <2>1, Recursion, Zenon
  <2>3. QED
    BY <2>2 DEF V
<1>4. ASSUME NEW n \in 1 .. N
      PROVE  f[n] = IF Repeats(n) THEN f[n - 1] ELSE Append(f[n - 1], s[n])
  <2>1. n \in Nat /\ n - 1 \in 0 .. N
    BY <1>1
  <2> HIDE DEF N, Repeats
  <2>2. f[n - 1] \in Seq(S)
    BY <1>3, <2>1
  <2>3. f[n] = F[<<n, f[n - 1]>>]
    BY <1>3 DEF Follows
  <2>4. QED
    BY <1>2, <2>1, <2>2, <2>3
<1>5. Solves(f)
  <2>1. f = [n \in 0 .. N |-> f[n]] /\ f[0] = <<>>
    BY <1>3 DEF Follows
  <2>2. \A n \in 0 .. N : n # 0 => n \in 1 .. N
    BY <1>1
  <2>3. QED
    BY <1>4, <2>1, <2>2
<1> DEFINE c == CHOOSE h : Solves(h)
<1>6. Solves(c)
  <2> HIDE DEF Solves
  <2>1. QED
    BY <1>5
<1>7. Deduplicated(s) = c[N]
  BY DEF Deduplicated
<1>8. /\ c[0] = <<>>
      /\ \A n \in 1 .. N : c[n] = IF Repeats(n) THEN c[n - 1] ELSE Append(c[n - 1], s[n])
  <2>1. \A n \in 0 .. N : c[n] = IF n = 0 THEN <<>>
                                 ELSE IF Repeats(n) THEN c[n - 1] ELSE Append(c[n - 1], s[n])
    <3> HIDE DEF c
    <3>1. QED
      BY <1>6
  <2>2. 0 \in 0 .. N /\ \A n \in 1 .. N : n \in 0 .. N /\ n # 0
    BY <1>1
  <2> HIDE DEF c, N, Repeats
  <2>3. QED
    BY <2>1, <2>2
<1> HIDE DEF c
<1> DEFINE Each(n, t) == /\ t \in Seq(S)
                         /\ \A i, j \in 1 .. Len(t) : t[i] = t[j] => i = j
                         /\ \A i \in 1 .. Len(t) : \E m \in 1 .. n : t[i] = s[m]
                         /\ \A m \in 1 .. n : \E i \in 1 .. Len(t) : t[i] = s[m]
           P == {n \in Nat : Each(n, c[n])}
<1>9. 0 \in P
  <2>1. Each(0, <<>>)
    OBVIOUS
  <2>2. c[0] = <<>>
    BY <1>8
  <2> HIDE DEF Each
  <2>3. QED
    BY <2>1, <2>2
<1>10. ASSUME NEW n \in 1 .. N, n - 1 \in P
       PROVE  n \in P
  <2>1. n \in Nat /\ n - 1 \in Nat /\ n \in 1 .. n
    BY <1>1
  <2> DEFINE t == c[n - 1]
  <2>2. Each(n - 1, t)
    BY <1>10
  <2> HIDE DEF t
  <2>3. CASE Repeats(n)
    <3>1. PICK p \in 1 .. n - 1 : s[p] = s[n]
      BY <2>3
    <3>2. \A m \in 1 .. n : m \in 1 .. n - 1 \/ m = n
      BY <2>1
    <3>3. \A m \in 1 .. n - 1 : m \in 1 .. n
      BY <2>1
    <3>4. Each(n, t)
      BY <2>2, <3>1, <3>2, <3>3
    <3>5. c[n] = t
      BY <1>8, <2>3 DEF t
    <3>6. QED
      BY <2>1, <3>4, <3>5
  <2>4. CASE ~Repeats(n)
    <3> DEFINE w == Append(t, s[n])
    <3>1. c[n] = w
      BY <1>8, <2>4 DEF t
    <3>2. /\ w \in Seq(S) /\ Len(w) = Len(t) + 1 /\ w[Len(t) + 1] = s[n]
          /\ \A i \in 1 .. Len(t) : w[i] = t[i]
          /\ Len(t) \in Nat
      BY <1>1, <2>2, AppendProperties, LenProperties
    <3> HIDE DEF w
    <3>3. \A i \in 1 .. Len(w) : i \in 1 .. Len(t) \/ i = Len(t) + 1
      BY <3>2
    <3>4. \A i \in 1 .. Len(t) : i \in 1 .. Len(w) /\ i # Len(t) + 1
      BY <3>2
    <3>5. \A i \in 1 .. Len(t) : w[i] # s[n]
      BY <2>2, <2>4, <3>2
    <3>6. \A i, j \in 1 .. Len(w) : w[i] = w[j] => i = j
      BY <2>2, <3>2, <3>3, <3>5
    <3>7. \A i \in 1 .. Len(w) : \E m \in 1 .. n : w[i] = s[m]
      <4>1. \A m \in 1 .. n - 1 : m \in 1 .. n
        BY <2>1
      <4>2. \A i \in 1 .. Len(t) : \E m \in 1 .. n - 1 : t[i] = s[m]
        BY <2>2
      <4>3. \E m \in 1 .. n : w[Len(t) + 1] = s[m]
        BY <2>1, <3>2
      <4> HIDE DEF Each
      <4>4. \A i \in 1 .. Len(t) : \E m \in 1 .. n : w[i] = s[m]
        BY <3>2, <4>1, <4>2
      <4>5. QED
        BY <3>3, <4>3, <4>4
    <3>8. \A m \in 1 .. n : \E i \in 1 .. Len(w) : w[i] = s[m]
      <4>1. \A m \in 1 .. n : m \in 1 .. n - 1 \/ m = n
        BY <2>1
      <4>2. Len(t) + 1 \in 1 .. Len(w)
        BY <3>2
      <4>3. QED
        BY <2>2, <3>2, <3>4, <4>1, <4>2
    <3>9. QED
      BY <2>1, <3>1, <3>2, <3>6, <3>7, <3>8
  <2>5. QED
    BY <2>3, <2>4
<1> HIDE DEF P
<1>11. N \in P
  <2>1. \A n \in 0 .. N : n \in P
    BY <1>1, <1>9, <1>10, UpTo
  <2>2. QED
    BY <1>1, <2>1
<1>12. Each(N, c[N])
  BY <1>11 DEF P
<1> DEFINE d == Deduplicated(s)
<1>13. Each(N, d)
  BY <1>7, <1>12
<1> HIDE DEF d
<1>14. DOMAIN d = 1 .. Len(d) /\ DOMAIN s = 1 .. N
  BY <1>13, LenProperties
<1>15. IsInjective(d)
  BY <1>13, <1>14 DEF IsInjective
<1>16. ToSet(d) = ToSet(s)
  <2>1. ToSet(d) = {d[i] : i \in 1 .. Len(d)} /\ ToSet(s) = {s[m] : m \in 1 .. N}
    BY <1>14 DEF ToSet
  <2>2. \A i \in 1 .. Len(d) : \E m \in 1 .. N : d[i] = s[m]
    BY <1>13
  <2>3. \A m \in 1 .. N : \E i \in 1 .. Len(d) : d[i] = s[m]
    BY <1>13
  <2> HIDE DEF N
  <2>4. QED
    BY <2>1, <2>2, <2>3
<1>17. QED
  BY <1>13, <1>15, <1>16 DEF d

-----------------------------------------------------------------------------
\* Findings and their audit trail (Findings).

\* The recursion under ClampedScore adds up the components' points.
LEMMA PointsAddUp ==
  ASSUME NEW c, NEW N \in Nat, Len(c) = N, \A n \in 1 .. N : c[n].points \in Int
  PROVE  \E u : /\ u[0] = 0
                /\ \A n \in 1 .. N : u[n] = u[n - 1] + c[n].points
                /\ ClampedScore(c) = Clamp(u[N])
<1> DEFINE Solves(f) == f = [n \in 0 .. Len(c) |->
                               IF n = 0 THEN 0 ELSE f[n - 1] + c[n].points]
           F == [x \in Nat \X Int |-> IF x[1] \in 1 .. N THEN x[2] + c[x[1]].points ELSE x[2]]
<1>1. \A n \in Nat : \A v \in Int :
        F[<<n, v>>] = IF n \in 1 .. N THEN v + c[n].points ELSE v
  OBVIOUS
<1> HIDE DEF F
<1>2. PICK f \in [0 .. N -> Int] : Follows(f, F, 0, N)
  <2>1. ASSUME NEW n \in Nat, NEW v \in Int
        PROVE  F[<<n, v>>] \in Int
    <3>1. CASE n \in 1 .. N
      <4>1. F[<<n, v>>] = v + c[n].points /\ c[n].points \in Int
        BY <1>1, <3>1
      <4>2. QED
        BY <4>1
    <3>2. CASE n \notin 1 .. N
      BY <1>1, <3>2
    <3>3. QED
      BY <3>1, <3>2
  <2>2. 0 \in Int /\ ClosedUnder(Int, F)
    BY <2>1 DEF ClosedUnder
  <2>3. QED
    BY <2>2, Recursion, Zenon
<1>3. ASSUME NEW n \in 1 .. N
      PROVE  f[n] = f[n - 1] + c[n].points
  <2>1. n \in Nat /\ n - 1 \in 0 .. N
    OBVIOUS
  <2>2. f[n - 1] \in Int /\ f[n] = F[<<n, f[n - 1]>>]
    BY <1>2, <2>1 DEF Follows
  <2>3. QED
    BY <1>1, <2>1, <2>2
<1>4. Solves(f)
  <2>1. f = [n \in 0 .. N |-> f[n]] /\ f[0] = 0
    BY <1>2 DEF Follows
  <2>2. \A n \in 0 .. N : n # 0 => n \in 1 .. N
    OBVIOUS
  <2>3. QED
    BY <1>3, <2>1, <2>2
<1> DEFINE u == CHOOSE h : Solves(h)
<1>5. Solves(u)
  <2> HIDE DEF Solves
  <2>1. QED
    BY <1>4
<1>6. ClampedScore(c) = Clamp(u[N])
  BY DEF ClampedScore
<1> HIDE DEF u
<1>7. \A n \in 0 .. N : u[n] = IF n = 0 THEN 0 ELSE u[n - 1] + c[n].points
  BY <1>5
<1>8. u[0] = 0 /\ \A n \in 1 .. N : u[n] = u[n - 1] + c[n].points
  <2>1. 0 \in 0 .. N /\ \A n \in 1 .. N : n \in 0 .. N /\ n # 0
    OBVIOUS
  <2>2. QED
    BY <1>7, <2>1
<1>9. QED
  BY <1>6, <1>8

\* A report's one component is its score.
LEMMA OnePart ==
  ASSUME NEW x, x.points \in 0 .. 100
  PROVE  ClampedScore(<<x>>) = x.points
<1> DEFINE c == <<x>>
<1>1. Len(c) = 1 /\ c[1] = x /\ \A n \in 1 .. 1 : c[n].points \in Int
  OBVIOUS
<1> HIDE DEF c
<1>2. PICK u : /\ u[0] = 0
               /\ \A n \in 1 .. 1 : u[n] = u[n - 1] + c[n].points
               /\ ClampedScore(c) = Clamp(u[1])
  <2>1. \E N \in Nat : N = 1
    OBVIOUS
  <2>2. PICK N \in Nat : N = 1
    BY <2>1
  <2>3. Len(c) = N /\ \A n \in 1 .. N : c[n].points \in Int
    BY <1>1, <2>2
  <2>4. \E u : /\ u[0] = 0
               /\ \A n \in 1 .. N : u[n] = u[n - 1] + c[n].points
               /\ ClampedScore(c) = Clamp(u[N])
    BY <2>3, PointsAddUp
  <2>5. QED
    BY <2>2, <2>4
<1>3. u[1] = u[1 - 1] + x.points
  BY <1>1, <1>2
<1>4. u[1] = x.points
  BY <1>2, <1>3
<1>5. QED
  BY <1>2, <1>4 DEF c, Clamp

\* A finding has three components or, when GreyNoise answered, four.
LEMMA ComponentList ==
  ASSUME NEW p, NEW r, NEW g, NEW d, NEW l, NEW z
  PROVE  /\ Len(Components(p, r, g, d, l, z)) = IF g.mode # "live" THEN 3 ELSE 4
         /\ DOMAIN Components(p, r, g, d, l, z) = 1 .. Len(Components(p, r, g, d, l, z))
         /\ Components(p, r, g, d, l, z)[1] = Component(SeverityPoints(p[1]), d)
         /\ Components(p, r, g, d, l, z)[2] =
              Component(ConfidenceAdjusted(SeverityPoints(p[1]), p[2]) - SeverityPoints(p[1]), d)
         /\ Components(p, r, g, d, l, z)[3] = Component(ReputationPoints(r), l)
         /\ g.mode = "live" =>
              Components(p, r, g, d, l, z)[4] =
                Component(NoiseAdjustment(Subtotal(p[1], p[2], r), g), z)
<1> DEFINE points == SeverityPoints(p[1])
           x == Component(points, d)
           y == Component(ConfidenceAdjusted(points, p[2]) - points, d)
           v == Component(ReputationPoints(r), l)
           w == Component(NoiseAdjustment(Subtotal(p[1], p[2], r), g), z)
           c == Components(p, r, g, d, l, z)
<1>1. c = <<x, y, v>> \o IF g.mode # "live" THEN <<>> ELSE <<w>>
  BY DEF Components
<1> HIDE DEF x, y, v, w, c
<1>2. CASE g.mode # "live"
  <2>1. c = <<x, y, v>>
    <3>1. <<x, y, v>> \in Seq({x, y, v})
      OBVIOUS
    <3>2. QED
      BY <1>1, <1>2, <3>1, ConcatEmptySeq
  <2>2. Len(c) = 3 /\ DOMAIN c = 1 .. 3 /\ c[1] = x /\ c[2] = y /\ c[3] = v
    BY <2>1
  <2>3. QED
    BY <1>2, <2>2 DEF x, y, v, c
<1>3. CASE g.mode = "live"
  <2>1. c = <<x, y, v>> \o <<w>>
    BY <1>1, <1>3
  <2> DEFINE V == {x, y, v, w}
  <2>2. <<x, y, v>> \in Seq(V) /\ Len(<<x, y, v>>) = 3 /\ <<w>> \in Seq(V) /\ Len(<<w>>) = 1
    OBVIOUS
  <2>3. /\ c \in Seq(V) /\ Len(c) = 3 + 1
        /\ \A i \in 1 .. Len(c) : c[i] = IF i <= 3 THEN <<x, y, v>>[i] ELSE <<w>>[i - 3]
    <3> HIDE DEF V
    <3>1. QED
      BY <2>1, <2>2, ConcatProperties
  <2>4. Len(c) = 4 /\ DOMAIN c = 1 .. 4
    BY <2>3
  <2>5. c[1] = x /\ c[2] = y /\ c[3] = v
    BY <2>3, <2>4
  <2>6. c[4] = w
    BY <2>3, <2>4
  <2>7. QED
    BY <1>3, <2>4, <2>5, <2>6 DEF x, y, v, w, c
<1>4. QED
  BY <1>2, <1>3

\* The components of a finding add up to its score.
LEMMA ComponentsAddUp ==
  ASSUME NEW p \in Severities \X Percent, NEW r \in Percent, NEW g, NEW d, NEW l, NEW z
  PROVE  ClampedScore(Components(p, r, g, d, l, z)) = CalculateRiskScore(p[1], p[2], r, g)
<1> DEFINE c == Components(p, r, g, d, l, z)
           points == SeverityPoints(p[1])
           adjusted == ConfidenceAdjusted(points, p[2])
           noise == NoiseAdjustment(Subtotal(p[1], p[2], r), g)
           N == IF g.mode # "live" THEN 3 ELSE 4
<1>1. /\ Len(c) = N
      /\ c[1].points = points
      /\ c[2].points = adjusted - points
      /\ c[3].points = ReputationPoints(r)
      /\ g.mode = "live" => c[4].points = noise
  <2>1. /\ Len(c) = N
        /\ c[1] = Component(points, d)
        /\ c[2] = Component(adjusted - points, d)
        /\ c[3] = Component(ReputationPoints(r), l)
        /\ g.mode = "live" => c[4] = Component(noise, z)
    BY ComponentList
  <2>2. \A n, e : Component(n, e).points = n
    BY DEF Component
  <2> HIDE DEF c, points, adjusted, noise, N
  <2>3. QED
    BY <2>1, <2>2
<1>2. points \in Int /\ adjusted \in Int /\ ReputationPoints(r) \in Int
  <2>1. points \in 0 .. 80 /\ p[1] \in Severities /\ p[2] \in Percent
    BY SeverityBounds
  <2> HIDE DEF points
  <2>2. adjusted \in 0 .. points
    BY <2>1, ConfidenceBounds
  <2> HIDE DEF adjusted
  <2>3. QED
    BY <2>1, <2>2, ReputationBounds
<1>3. Subtotal(p[1], p[2], r) = points + (adjusted - points) + ReputationPoints(r)
  BY DEF Subtotal
<1>4. Subtotal(p[1], p[2], r) \in 0 .. 100
  BY SubtotalInRange
<1>5. noise \in Int /\ (g.mode # "live" => noise = 0)
  BY <1>4 DEF NoiseAdjustment, Retained, Clamp
<1>6. CalculateRiskScore(p[1], p[2], r, g) = Clamp(Subtotal(p[1], p[2], r) + noise)
  BY DEF CalculateRiskScore
<1> HIDE DEF c, points, adjusted, noise
<1>7. \A n \in 1 .. N : c[n].points \in Int
  <2>1. \A n \in 1 .. N : n = 1 \/ n = 2 \/ n = 3 \/ (g.mode = "live" /\ n = 4)
    OBVIOUS
  <2>2. adjusted - points \in Int
    BY <1>2
  <2> HIDE DEF N
  <2>3. QED
    BY <1>1, <1>2, <1>5, <2>1, <2>2
<1>8. PICK u : /\ u[0] = 0
               /\ \A n \in 1 .. N : u[n] = u[n - 1] + c[n].points
               /\ ClampedScore(c) = Clamp(u[N])
  <2>1. N \in Nat
    OBVIOUS
  <2> HIDE DEF N
  <2>2. QED
    BY <1>1, <1>7, <2>1, PointsAddUp
<1>9. u[3] = Subtotal(p[1], p[2], r)
  <2>1. 1 \in 1 .. N /\ 2 \in 1 .. N /\ 3 \in 1 .. N
    OBVIOUS
  <2>2. u[1] = u[1 - 1] + points
    BY <1>1, <1>8, <2>1
  <2>3. u[2] = u[2 - 1] + (adjusted - points)
    BY <1>1, <1>8, <2>1
  <2>4. u[3] = u[3 - 1] + ReputationPoints(r)
    BY <1>1, <1>8, <2>1
  <2>5. QED
    BY <1>2, <1>3, <1>8, <2>2, <2>3, <2>4
<1>10. u[N] = Subtotal(p[1], p[2], r) + noise
  <2>1. CASE g.mode # "live"
    BY <1>4, <1>5, <1>9, <2>1
  <2>2. CASE g.mode = "live"
    <3>1. N = 4 /\ 4 \in 1 .. N /\ c[4].points = noise
      BY <1>1, <2>2
    <3>2. u[4] = u[4 - 1] + noise
      BY <1>8, <3>1
    <3>3. QED
      BY <1>9, <3>1, <3>2
  <2>3. QED
    BY <2>1, <2>2
<1>11. QED
  BY <1>6, <1>8, <1>10 DEF c

\* What components and trace entries refer to, if each refers to members of E.
LEMMA ReferencedWithin ==
  ASSUME NEW c, NEW t, NEW E,
         \A n \in DOMAIN c : c[n].evidence \subseteq E,
         \A n \in DOMAIN t : t[n].evidence \subseteq E
  PROVE  Referenced(c, t) \subseteq E
BY DEF Referenced, ToSet

\* The evidence a list of components refers to.
LEMMA ComponentEvidence ==
  ASSUME NEW p, NEW r, NEW g, NEW d, NEW l, NEW z, NEW E,
         d \subseteq E, l \subseteq E, z \subseteq E
  PROVE  \A n \in DOMAIN Components(p, r, g, d, l, z) :
           Components(p, r, g, d, l, z)[n].evidence \subseteq E
<1> DEFINE c == Components(p, r, g, d, l, z)
<1>1. \A n, e : Component(n, e).evidence = e
  BY DEF Component
<1>2. /\ Len(c) = IF g.mode # "live" THEN 3 ELSE 4
      /\ DOMAIN c = 1 .. Len(c)
      /\ c[1].evidence = d /\ c[2].evidence = d /\ c[3].evidence = l
      /\ g.mode = "live" => c[4].evidence = z
  <2> DEFINE x1 == SeverityPoints(p[1])
             x2 == ConfidenceAdjusted(SeverityPoints(p[1]), p[2]) - SeverityPoints(p[1])
             x3 == ReputationPoints(r)
             x4 == NoiseAdjustment(Subtotal(p[1], p[2], r), g)
  <2>1. /\ Len(c) = IF g.mode # "live" THEN 3 ELSE 4
        /\ DOMAIN c = 1 .. Len(c)
        /\ c[1] = Component(x1, d) /\ c[2] = Component(x2, d) /\ c[3] = Component(x3, l)
        /\ g.mode = "live" => c[4] = Component(x4, z)
    BY ComponentList
  <2> HIDE DEF c, x1, x2, x3, x4
  <2>2. QED
    BY <1>1, <2>1
<1> HIDE DEF c
<1>3. \A n \in DOMAIN c : n = 1 \/ n = 2 \/ n = 3 \/ (g.mode = "live" /\ n = 4)
  BY <1>2
<1>4. \A n \in DOMAIN c : c[n].evidence \subseteq E
  BY <1>2, <1>3
<1>5. QED
  BY <1>4 DEF c

\* A detector's finding is one that its validator accepts.
LEMMA NewFindingValid ==
  ASSUME NEW n, NEW src, NEW rule, NEW p \in Severities \X Percent,
         NEW F, NEW fs \in Seq(F), fs # <<>>, NEW ts, IsInjective(ts)
  PROVE  FindingValid(NewFinding(n, src, rule, p, fs, ts))
<1> DEFINE f == NewFinding(n, src, rule, p, fs, ts)
           all == DOMAIN fs
<1>1. all = 1 .. Len(fs) /\ Len(fs) \in Nat /\ Len(fs) # 0
  BY EmptySeq, LenProperties
<1>2. /\ f.event = n /\ f.techniques = ts
      /\ f.score = DetectionScore(p[1], p[2])
      /\ f.components = Components(p, 0, NoContext, all, {}, {})
      /\ f.evidence = [i \in all |-> [event |-> n, field |-> fs[i]]]
      /\ f.trace = <<Entry(1, "detection", all), Entry(2, "scoring", all)>>
  BY DEF NewFinding
<1> HIDE DEF f
<1>3. f.evidence # <<>> /\ DOMAIN f.evidence = all /\ \A i \in all : f.evidence[i].event = n
  <2>1. DOMAIN f.evidence = all /\ \A i \in all : f.evidence[i].event = n
    BY <1>2
  <2>2. 1 \in all
    BY <1>1
  <2>3. QED
    BY <2>1, <2>2
<1>4. /\ DOMAIN f.trace = 1 .. 2
      /\ f.trace[1].evidence = all /\ f.trace[2].evidence = all
      /\ f.trace[1].sequence = 1 /\ f.trace[2].sequence = 2
      /\ f.trace[1].stage = "detection" /\ f.trace[2].stage = "scoring"
  BY <1>2 DEF Entry
<1>5. \A i \in 1 .. 2 : i = 1 \/ i = 2
  OBVIOUS
<1>6. Referenced(f.components, f.trace) \subseteq all
  <2>1. \A i \in DOMAIN f.trace : f.trace[i].evidence \subseteq all
    BY <1>4, <1>5
  <2>2. \A i \in DOMAIN f.components : f.components[i].evidence \subseteq all
    <3>1. {} \subseteq all /\ all \subseteq all
      OBVIOUS
    <3> HIDE DEF all
    <3>2. QED
      BY <1>2, <3>1, ComponentEvidence
  <2> HIDE DEF all
  <2>3. QED
    BY <2>1, <2>2, ReferencedWithin
<1>7. ClampedScore(f.components) = f.score
  <2>1. 0 \in Percent
    BY DEF Percent
  <2>2. ClampedScore(f.components) = CalculateRiskScore(p[1], p[2], 0, NoContext)
    BY <1>2, <2>1, ComponentsAddUp
  <2>3. NoiseAdjustment(Subtotal(p[1], p[2], 0), NoContext) = 0
    BY DEF NoiseAdjustment, NoContext
  <2> DEFINE m == Subtotal(p[1], p[2], 0)
  <2>4. m \in 0 .. 100
    BY <2>1, SubtotalInRange
  <2>5. CalculateRiskScore(p[1], p[2], 0, NoContext) = Clamp(m + 0)
    BY <2>3 DEF CalculateRiskScore
  <2>6. f.score = Clamp(m)
    BY <1>2 DEF DetectionScore
  <2> HIDE DEF m
  <2>7. m + 0 = m
    BY <2>4
  <2>8. QED
    BY <2>2, <2>5, <2>6, <2>7
<1>8. Contiguous(f.trace)
  BY <1>4, <1>5 DEF Contiguous
<1>9. {"detection", "scoring"} \subseteq {entry.stage : entry \in ToSet(f.trace)}
  <2>1. f.trace[1] \in ToSet(f.trace) /\ f.trace[2] \in ToSet(f.trace)
    BY <1>4 DEF ToSet
  <2>2. QED
    BY <1>4, <2>1
<1>10. QED
  BY <1>2, <1>3, <1>6, <1>7, <1>8, <1>9 DEF FindingValid, f

\* What _rescore_finding leaves alone and what it changes, of a finding with k
\* pieces of evidence and t trace entries.
HasFields(f) == {"event", "source", "rule", "profile", "score", "components", "evidence",
                 "techniques", "trace"} \subseteq DOMAIN f

Changed(e, f, r, g, k, t) ==
  /\ e.event = f.event /\ e.source = f.source /\ e.rule = f.rule /\ e.profile = f.profile
  /\ e.techniques = f.techniques
  /\ e.score = CalculateRiskScore(f.profile[1], f.profile[2], r, g)
  /\ e.components = Components(f.profile, r, g, 1 .. k, {k + 1}, {k + 2})
  /\ e.evidence = f.evidence \o <<[event |-> f.event, field |-> "abuseipdb"],
                                  [event |-> f.event, field |-> "greynoise"]>>
  /\ e.trace = f.trace \o <<Entry(t + 1, "enrichment", {k + 1}),
                            Entry(t + 2, "enrichment", {k + 2}),
                            Entry(t + 3, "scoring", 1 .. k + 2)>>

\* _rescore_finding does just that.
LEMMA Rescoring ==
  ASSUME NEW f, HasFields(f), NEW r, NEW g
  PROVE  Changed(RescoreFinding(f, r, g), f, r, g, Len(f.evidence), Len(f.trace))
BY Zenon DEF RescoreFinding, Changed, HasFields

\* The parts of a rescored finding: two pieces of evidence and three entries more.
RescoredParts(e, n, src, p, ts, r, g, k) ==
  /\ e.event = n /\ e.source = src /\ e.profile = p /\ e.techniques = ts
  /\ e.score = CalculateRiskScore(p[1], p[2], r, g)
  /\ e.components = Components(p, r, g, 1 .. k, {k + 1}, {k + 2})
  /\ DOMAIN e.evidence = 1 .. k + 2
  /\ \A i \in 1 .. k + 2 : e.evidence[i].event = n
  /\ DOMAIN e.trace = 1 .. 5
  /\ \A i \in 1 .. 5 : e.trace[i].sequence = i /\ e.trace[i].evidence \subseteq 1 .. k + 2
  /\ e.trace[1].stage = "detection" /\ e.trace[2].stage = "scoring"

\* A detector's finding, rescored, has these parts.
LEMMA RescoredLists ==
  ASSUME NEW n, NEW src, NEW rule, NEW p, NEW F, NEW fs \in Seq(F), NEW ts, NEW r, NEW g
  PROVE  RescoredParts(RescoreFinding(NewFinding(n, src, rule, p, fs, ts), r, g),
                       n, src, p, ts, r, g, Len(fs))
<1> DEFINE f == NewFinding(n, src, rule, p, fs, ts)
           e == RescoreFinding(f, r, g)
           k == Len(fs)
           V == [event : {n}, field : F \cup {"abuseipdb", "greynoise"}]
           e1 == Entry(1, "detection", 1 .. k)
           e2 == Entry(2, "scoring", 1 .. k)
           e3 == Entry(3, "enrichment", {k + 1})
           e4 == Entry(4, "enrichment", {k + 2})
           e5 == Entry(5, "scoring", 1 .. k + 2)
           W == {e1, e2, e3, e4, e5}
           a == <<[event |-> n, field |-> "abuseipdb"], [event |-> n, field |-> "greynoise"]>>
           b == <<e1, e2>>
           c == <<e3, e4, e5>>
<1>1. k \in Nat /\ DOMAIN fs = 1 .. k /\ \A i \in 1 .. k : fs[i] \in F
  BY LenProperties, ElementOfSeq
<1>2. /\ f.event = n /\ f.source = src /\ f.profile = p /\ f.techniques = ts
      /\ f.evidence = [i \in 1 .. k |-> [event |-> n, field |-> fs[i]]]
      /\ f.trace = b
      /\ HasFields(f)
  BY <1>1 DEF NewFinding, HasFields
<1> HIDE DEF f
<1>3. f.evidence \in Seq(V) /\ Len(f.evidence) = k /\ Len(f.trace) = 2
  BY <1>1, <1>2
<1>4. /\ e.event = n /\ e.source = src /\ e.profile = p /\ e.techniques = ts
      /\ e.score = CalculateRiskScore(p[1], p[2], r, g)
      /\ e.components = Components(p, r, g, 1 .. k, {k + 1}, {k + 2})
      /\ e.evidence = f.evidence \o a
      /\ e.trace = b \o <<Entry(2 + 1, "enrichment", {k + 1}), Entry(2 + 2, "enrichment", {k + 2}),
                          Entry(2 + 3, "scoring", 1 .. k + 2)>>
  <2>1. Changed(e, f, r, g, Len(f.evidence), Len(f.trace))
    BY <1>2, Rescoring
  <2>2. Changed(e, f, r, g, k, 2)
    BY <1>3, <2>1
  <2>3. QED
    BY <1>2, <2>2, Zenon DEF Changed
<1> HIDE DEF e
<1>5. e.trace = b \o c
  <2>1. 2 + 1 = 3 /\ 2 + 2 = 4 /\ 2 + 3 = 5
    OBVIOUS
  <2>2. QED
    BY <1>4, <2>1, Zenon
<1>6. a \in Seq(V) /\ Len(a) = 2
  OBVIOUS
<1>7. e.evidence \in Seq(V) /\ Len(e.evidence) = k + 2
  <2> HIDE DEF V, a
  <2>1. f.evidence \o a \in Seq(V) /\ Len(f.evidence \o a) = Len(f.evidence) + Len(a)
    BY <1>3, <1>6, ConcatProperties
  <2>2. QED
    BY <1>3, <1>4, <1>6, <2>1
<1>8. DOMAIN e.evidence = 1 .. k + 2 /\ \A i \in 1 .. k + 2 : e.evidence[i].event = n
  <2>1. DOMAIN e.evidence = 1 .. k + 2 /\ \A i \in 1 .. k + 2 : e.evidence[i] \in V
    <3> HIDE DEF V
    <3>1. QED
      BY <1>7, LenProperties, ElementOfSeq
  <2>2. \A x \in V : x.event = n
    OBVIOUS
  <2>3. QED
    BY <2>1, <2>2
<1>9. b \in Seq(W) /\ Len(b) = 2 /\ c \in Seq(W) /\ Len(c) = 3
  <2> HIDE DEF e1, e2, e3, e4, e5
  <2>1. QED
    OBVIOUS
<1>10. /\ e.trace \in Seq(W) /\ Len(e.trace) = 5
       /\ \A i \in 1 .. 5 : e.trace[i] = IF i <= 2 THEN b[i] ELSE c[i - 2]
  <2> HIDE DEF W, b, c
  <2>1. /\ b \o c \in Seq(W) /\ Len(b \o c) = Len(b) + Len(c)
        /\ \A i \in 1 .. Len(b) + Len(c) : (b \o c)[i] = IF i <= Len(b) THEN b[i] ELSE c[i - Len(b)]
    BY <1>9, ConcatProperties
  <2>2. QED
    BY <1>5, <1>9, <2>1
<1>11. e.trace[1] = b[1] /\ e.trace[2] = b[2] /\ e.trace[3] = c[1] /\ e.trace[4] = c[2]
         /\ e.trace[5] = c[3]
  <2> HIDE DEF b, c
  <2>1. QED
    BY <1>10
<1>12. /\ e.trace[1] = Entry(1, "detection", 1 .. k)
       /\ e.trace[2] = Entry(2, "scoring", 1 .. k)
       /\ e.trace[3] = Entry(3, "enrichment", {k + 1})
       /\ e.trace[4] = Entry(4, "enrichment", {k + 2})
       /\ e.trace[5] = Entry(5, "scoring", 1 .. k + 2)
  BY <1>11
<1>13. \A i \in 1 .. 5 : i = 1 \/ i = 2 \/ i = 3 \/ i = 4 \/ i = 5
  OBVIOUS
<1>14. \A i \in 1 .. 5 : /\ e.trace[i].sequence = i
                         /\ e.trace[i].evidence \subseteq 1 .. k + 2
  <2>1. 1 .. k \subseteq 1 .. k + 2 /\ {k + 1} \subseteq 1 .. k + 2 /\ {k + 2} \subseteq 1 .. k + 2
    BY <1>1
  <2>2. \A i, s, x : Entry(i, s, x).sequence = i /\ Entry(i, s, x).evidence = x
    BY DEF Entry
  <2>3. QED
    BY <1>12, <1>13, <2>1, <2>2
<1>15. e.trace[1].stage = "detection" /\ e.trace[2].stage = "scoring"
  BY <1>12 DEF Entry
<1>16. DOMAIN e.trace = 1 .. 5
  <2> HIDE DEF W
  <2>1. QED
    BY <1>10, LenProperties
<1>17. QED
  BY <1>4, <1>8, <1>14, <1>15, <1>16 DEF RescoredParts, e, f

\* A rescored finding is one that its validator accepts.
LEMMA RescoredFindingValid ==
  ASSUME NEW n, NEW src, NEW rule, NEW p \in Severities \X Percent,
         NEW F, NEW fs \in Seq(F), fs # <<>>, NEW ts, IsInjective(ts),
         NEW r \in Percent, NEW g
  PROVE  FindingValid(RescoreFinding(NewFinding(n, src, rule, p, fs, ts), r, g))
<1> DEFINE e == RescoreFinding(NewFinding(n, src, rule, p, fs, ts), r, g)
           k == Len(fs)
<1>1. RescoredParts(e, n, src, p, ts, r, g, k)
  BY RescoredLists
<1>2. k \in Nat /\ k # 0
  BY EmptySeq, LenProperties
<1> HIDE DEF e, k
<1>3. /\ e.event = n /\ e.techniques = ts
      /\ e.score = CalculateRiskScore(p[1], p[2], r, g)
      /\ e.components = Components(p, r, g, 1 .. k, {k + 1}, {k + 2})
      /\ DOMAIN e.evidence = 1 .. k + 2
      /\ \A i \in 1 .. k + 2 : e.evidence[i].event = n
      /\ DOMAIN e.trace = 1 .. 5
      /\ \A i \in 1 .. 5 : e.trace[i].sequence = i /\ e.trace[i].evidence \subseteq 1 .. k + 2
      /\ e.trace[1].stage = "detection" /\ e.trace[2].stage = "scoring"
  BY <1>1 DEF RescoredParts
<1>4. e.evidence # <<>>
  BY <1>2, <1>3
<1>5. Referenced(e.components, e.trace) \subseteq DOMAIN e.evidence
  <2>1. 1 .. k \subseteq 1 .. k + 2 /\ {k + 1} \subseteq 1 .. k + 2 /\ {k + 2} \subseteq 1 .. k + 2
    BY <1>2
  <2> DEFINE E == 1 .. k + 2
  <2>2. \A i \in DOMAIN e.components : e.components[i].evidence \subseteq E
    <3>1. 1 .. k \subseteq E /\ {k + 1} \subseteq E /\ {k + 2} \subseteq E
      BY <2>1
    <3> DEFINE d == 1 .. k
               l == {k + 1}
               z == {k + 2}
    <3>2. e.components = Components(p, r, g, d, l, z) /\ d \subseteq E /\ l \subseteq E /\ z \subseteq E
      BY <1>3, <3>1
    <3> HIDE DEF E, d, l, z
    <3>3. \A i \in DOMAIN Components(p, r, g, d, l, z) :
            Components(p, r, g, d, l, z)[i].evidence \subseteq E
      BY <3>2, ComponentEvidence
    <3>4. QED
      BY <3>2, <3>3
  <2>3. \A i \in DOMAIN e.trace : e.trace[i].evidence \subseteq E
    BY <1>3
  <2>4. DOMAIN e.evidence = E
    BY <1>3
  <2> HIDE DEF E
  <2>5. QED
    BY <2>2, <2>3, <2>4, ReferencedWithin
<1>6. ClampedScore(e.components) = e.score
  BY <1>3, ComponentsAddUp
<1>7. Contiguous(e.trace)
  BY <1>3 DEF Contiguous
<1>8. {"detection", "scoring"} \subseteq {entry.stage : entry \in ToSet(e.trace)}
  <2>1. e.trace[1] \in ToSet(e.trace) /\ e.trace[2] \in ToSet(e.trace)
    BY <1>3 DEF ToSet
  <2>2. QED
    BY <1>3, <2>1
<1>9. QED
  BY <1>4, <1>5, <1>6, <1>7, <1>8, <1>3 DEF FindingValid, e

-----------------------------------------------------------------------------
\* Reading records (Parser, Analysis).

\* The least index SelectInSeq takes.
LEMMA LeastMember ==
  ASSUME NEW T, T \subseteq Nat, T # {}
  PROVE  Min(T) \in T /\ \A m \in T : Min(T) <= m
BY LeastNumber DEF Min

\* _lookup gives nothing, or a usable value that stands under one of the names.
LEMMA LookupFinds ==
  ASSUME NEW V, NEW s \in V \X V
  PROVE  \/ Lookup(s) = Absent
         \/ Lookup(s) \in V /\ Lookup(s).kind \notin {"absent", "empty"}
<1> DEFINE I == {i \in 1 .. Len(s) : s[i].kind \notin {"absent", "empty"}}
           first == IF I # {} THEN Min(I) ELSE 0
<1>1. Lookup(s) = IF first = 0 THEN Absent ELSE s[first]
  BY DEF Lookup, SelectInSeq
<1>2. Len(s) = 2 /\ s[1] \in V /\ s[2] \in V
  OBVIOUS
<1>3. CASE I = {}
  BY <1>1, <1>3
<1>4. CASE I # {}
  <2>1. first \in I
    <3>1. I \subseteq Nat
      BY <1>2
    <3> HIDE DEF I
    <3>2. QED
      BY <1>4, <3>1, LeastMember
  <2>2. (first = 1 \/ first = 2) /\ s[first].kind \notin {"absent", "empty"}
    BY <1>2, <2>1
  <2> HIDE DEF first
  <2>3. first # 0 /\ s[first] \in V
    BY <1>2, <2>2
  <2>4. QED
    BY <1>1, <2>2, <2>3
<1>5. QED
  BY <1>3, <1>4

\* A field of an accepted object is text, or absent.
LEMMA FieldFinds ==
  ASSUME NEW C, NEW r, NEW name, r.fields[name] \in Values(C) \X Values(C),
         Field(r, name).kind \notin {"nested", "boolean"}
  PROVE  \/ Field(r, name).kind = "absent"
         \/ Field(r, name).kind = "text" /\ Field(r, name).content \in C
<1> DEFINE v == Lookup(r.fields[name])
<1>1. \/ v = Absent
      \/ v \in Values(C) /\ v.kind \notin {"absent", "empty"}
  BY LookupFinds
<1>2. Field(r, name) = IF v.kind = "blank" THEN Absent ELSE v
  BY DEF Field, OptionalString
<1> HIDE DEF v
<1>3. CASE v = Absent \/ v.kind = "blank"
  BY <1>2, <1>3 DEF Absent
<1>4. CASE v # Absent /\ v.kind # "blank"
  <2>1. v \in Values(C) /\ v.kind \notin {"absent", "empty", "blank"} /\ Field(r, name) = v
    BY <1>1, <1>2, <1>4
  <2>2. v.kind \notin {"nested", "boolean"}
    BY <2>1
  <2>3. \/ v \in [kind : {"absent", "empty", "blank", "boolean"}, content : {"none"}]
        \/ v \in [kind : {"text", "nested"}, content : C]
    BY <2>1 DEF Values
  <2>4. v.kind = "text" /\ v.content \in C
    BY <2>1, <2>2, <2>3
  <2>5. QED
    BY <2>1, <2>4
<1>5. QED
  BY <1>3, <1>4

\* An event names a known address, or none, and only known weaknesses.
WellFormed(event) ==
  /\ SourceOf(event) \in Keys
  /\ event.tls_cipher.kind = "text" => event.tls_cipher.content \subseteq Weaknesses

\* The parsers make such events of the records they accept.
LEMMA AcceptedWellFormed ==
  ASSUME NEW r, IsObject(r) \/ IsLine(r), ~Blank(r),
         NEW f, Outcome(r, f) = "event"
  PROVE  WellFormed(EventOf(r))
<1>1. /\ r.form = "json" => ~JsonRefused(r)
      /\ r.form = "combined" => ~CombinedRefused(r)
  BY DEF Outcome
<1>2. CASE IsObject(r)
  <2>1. r.form = "json" /\ ~JsonRefused(r) /\ EventOf(r) = JsonEvent(r)
    BY <1>1, <1>2 DEF IsObject, Blank, EventOf
  <2>2. /\ r.fields["source"] \in Values(Sources \cup {"hostname"}) \X Values(Sources \cup {"hostname"})
        /\ r.fields["cipher"] \in Values(SUBSET Weaknesses) \X Values(SUBSET Weaknesses)
    <3>1. Contents("source") = Sources \cup {"hostname"} /\ Contents("cipher") = SUBSET Weaknesses
      BY DEF Contents
    <3>2. \A name \in {"source", "cipher"} :
            r.fields[name] \in Values(Contents(name)) \X Values(Contents(name))
      BY <1>2 DEF IsObject, StringFields
    <3>3. QED
      BY <3>1, <3>2
  <2>3. /\ Field(r, "source").kind \notin {"nested", "boolean"}
        /\ Field(r, "cipher").kind \notin {"nested", "boolean"}
        /\ ValidAddress(Field(r, "source"))
    BY <2>1 DEF JsonRefused, StringFields
  <2>4. \/ Field(r, "source").kind = "absent"
        \/ Field(r, "source").kind = "text" /\ Field(r, "source").content \in Sources
    BY <2>2, <2>3, FieldFinds DEF ValidAddress
  <2>5. \/ Field(r, "cipher").kind = "absent"
        \/ Field(r, "cipher").kind = "text" /\ Field(r, "cipher").content \in SUBSET Weaknesses
    BY <2>2, <2>3, FieldFinds
  <2>6. JsonEvent(r).source = Field(r, "source") /\ JsonEvent(r).tls_cipher = Field(r, "cipher")
    BY DEF JsonEvent
  <2>7. SourceOf(JsonEvent(r)) \in Keys
    BY <2>4, <2>6 DEF SourceOf, IsAbsent, Keys
  <2>8. QED
    BY <2>1, <2>5, <2>6, <2>7 DEF WellFormed
<1>3. CASE IsLine(r)
  <2>1. ~CombinedRefused(r) /\ EventOf(r) = CombinedEvent(r)
    BY <1>1, <1>3 DEF IsLine, EventOf
  <2>2. r.source.kind = "text" /\ r.source.content \in Sources
    <3>1. r.source \in [kind : {"text"}, content : Sources \cup {"hostname"}]
      BY <1>3 DEF IsLine, Contents
    <3>2. ValidAddress(r.source)
      BY <2>1 DEF CombinedRefused
    <3>3. QED
      BY <3>1, <3>2 DEF ValidAddress
  <2>3. r.tls_cipher.kind = "text" => r.tls_cipher.content \in SUBSET Weaknesses
    <3>1. r.tls_cipher \in [kind : {"text"}, content : SUBSET Weaknesses] \cup {Absent}
      BY <1>3 DEF IsLine
    <3>2. QED
      BY <3>1 DEF Absent
  <2>4. /\ CombinedEvent(r).source = r.source
        /\ CombinedEvent(r).tls_cipher = IF SuffixRead(r) THEN r.tls_cipher ELSE Absent
    BY DEF CombinedEvent
  <2>5. SourceOf(CombinedEvent(r)) \in Keys
    BY <2>2, <2>4 DEF SourceOf, IsAbsent, Keys
  <2>6. QED
    BY <2>1, <2>3, <2>4, <2>5 DEF WellFormed, Absent
<1>4. QED
  BY <1>2, <1>3

\* A log's records, and what is read of them when all are accepted.
AsRead(log) == [n \in DOMAIN Records(log) |-> EventOf(Records(log)[n])]

\* The records of a log are those of its members that are not blank.
LEMMA RecordsOfLog ==
  ASSUME NEW log \in Files
  PROVE  /\ log \in Seq(ToSet(log))
         /\ Records(log) \in Seq(ToSet(log))
         /\ Len(Records(log)) <= Len(log)
         /\ \A n \in 1 .. Len(Records(log)) :
              /\ IsObject(Records(log)[n]) \/ IsLine(Records(log)[n])
              /\ ~Blank(Records(log)[n])
              /\ \E m \in 1 .. Len(log) : Records(log)[n] = log[m]
<1> DEFINE X == ToSet(log)
           T == {x \in X : ~Blank(x)}
<1>1. log \in Seq(X) /\ \A x \in X : IsObject(x) \/ IsLine(x)
  BY FilesAssumption
<1> HIDE DEF X
<1>2. Len(log) \in Nat /\ DOMAIN log = 1 .. Len(log) /\ \A n \in 1 .. Len(log) : log[n] \in X
  BY <1>1, LenProperties, ElementOfSeq
<1>3. Records(log) = Chosen(log, T)
  <2>1. \A n \in DOMAIN log : ~Blank(log[n]) <=> log[n] \in T
    BY <1>2
  <2>2. [n \in DOMAIN log |-> IF ~Blank(log[n]) THEN <<log[n]>> ELSE <<>>]
          = [n \in DOMAIN log |-> IF log[n] \in T THEN <<log[n]>> ELSE <<>>]
    BY <2>1
  <2> HIDE DEF T
  <2>3. QED
    BY <2>2 DEF Records, Chosen, Only
<1>4. /\ Chosen(log, T) \in Seq(X)
      /\ Len(Chosen(log, T)) <= Len(log)
      /\ \A n \in 1 .. Len(Chosen(log, T)) :
           Chosen(log, T)[n] \in T /\ \E m \in 1 .. Len(log) : Chosen(log, T)[n] = log[m]
  <2>1. log \in Seq(X)
    BY <1>1
  <2> HIDE DEF T, X
  <2>2. QED
    BY <2>1, ChosenMembers
<1>5. QED
  BY <1>1, <1>3, <1>4 DEF X

\* A log's lines are its members, or the two fragments of a spread one.
Pieces(log, n) == IF log[n].spread THEN Fragments(log[n]) ELSE <<log[n]>>

\* The physical lines of a log: each of its records, or its fragments.
LEMMA LinesOfLog ==
  ASSUME NEW log \in Files
  PROVE  /\ Len(Lines(log)) \in Nat
         /\ \E at, s : /\ s = [n \in DOMAIN log |-> Pieces(log, n)]
                       /\ Len(s) = Len(log)
                       /\ \A n \in 1 .. Len(log) : s[n] = Pieces(log, n)
                       /\ Lines(log) = FlattenSeq(s)
                       /\ Lists(at, Lines(log), s, Len(log))
<1> DEFINE X == ToSet(log)
           s == [n \in DOMAIN log |-> Pieces(log, n)]
           a(x) == [x EXCEPT !.broken = TRUE]
           b(x) == [x EXCEPT !.broken = TRUE, !.form = "combined"]
           Y == X \cup {a(x) : x \in X} \cup {b(x) : x \in X}
<1>1. log \in Seq(X)
  BY FilesAssumption
<1> HIDE DEF X
<1>2. Len(log) \in Nat /\ DOMAIN log = 1 .. Len(log) /\ \A n \in 1 .. Len(log) : log[n] \in X
  BY <1>1, LenProperties, ElementOfSeq
<1>3. Lines(log) = FlattenSeq(s)
  BY DEF Lines, Pieces
<1>4. \A x \in X : Fragments(x) = <<a(x), b(x)>>
  BY Zenon DEF Fragments
<1> HIDE DEF a, b
<1>5. s \in Seq(Seq(Y)) /\ Len(s) = Len(log) /\ \A n \in 1 .. Len(log) : s[n] = Pieces(log, n)
  <2>1. \A n \in 1 .. Len(log) : Pieces(log, n) \in Seq(Y)
    <3>1. \A x \in X : <<x>> \in Seq(Y) /\ <<a(x), b(x)>> \in Seq(Y)
      OBVIOUS
    <3> HIDE DEF Y
    <3>2. QED
      BY <1>2, <1>4, <3>1 DEF Pieces
  <2> HIDE DEF Y
  <2>2. QED
    BY <1>2, <2>1
<1> HIDE DEF Y
<1>6. FlattenSeq(s) \in Seq(Y) /\ \E at : Lists(at, FlattenSeq(s), s, Len(s))
  BY <1>5, FlattenLists
<1>7. Len(FlattenSeq(s)) \in Nat
  BY <1>6, LenProperties
<1>8. PICK at, t : t = s /\ Lists(at, FlattenSeq(t), t, Len(t))
  BY <1>6
<1>9. /\ t = [n \in DOMAIN log |-> Pieces(log, n)]
      /\ Len(t) = Len(log)
      /\ \A n \in 1 .. Len(log) : t[n] = Pieces(log, n)
      /\ Lines(log) = FlattenSeq(t)
      /\ Lists(at, Lines(log), t, Len(log))
  BY <1>3, <1>5, <1>8
<1> HIDE DEF s
<1>10. QED
  BY <1>3, <1>7, <1>9

\* If every line of a log is blank or accepted, each record is one line.
LEMMA LinesAreRecords ==
  ASSUME NEW log \in Files, NEW f,
         \A n \in 1 .. Len(Lines(log)) :
           Blank(Lines(log)[n]) \/ Outcome(Lines(log)[n], f) = "event"
  PROVE  Lines(log) = log
<1> DEFINE X == ToSet(log)
           a(x) == [x EXCEPT !.broken = TRUE]
           b(x) == [x EXCEPT !.broken = TRUE, !.form = "combined"]
<1>1. log \in Seq(X) /\ \A x \in X : IsObject(x) \/ IsLine(x)
  BY FilesAssumption
<1> HIDE DEF X
<1>2. Len(log) \in Nat /\ DOMAIN log = 1 .. Len(log) /\ \A n \in 1 .. Len(log) : log[n] \in X
  BY <1>1, LenProperties, ElementOfSeq
<1>3. \A x : Fragments(x) = <<a(x), b(x)>>
  BY Zenon DEF Fragments
<1>4. PICK at, s : /\ s = [n \in DOMAIN log |-> Pieces(log, n)]
                   /\ Len(s) = Len(log)
                   /\ \A n \in 1 .. Len(log) : s[n] = Pieces(log, n)
                   /\ Lines(log) = FlattenSeq(s)
                   /\ Lists(at, Lines(log), s, Len(log))
  BY LinesOfLog
<1>7. ASSUME NEW n \in 1 .. Len(log), log[n].spread
      PROVE  FALSE
  <2> DEFINE l == log[n]
  <2>1. s[n] = <<a(l), b(l)>>
    BY <1>3, <1>4, <1>7 DEF Pieces
  <2>2. IsObject(l) /\ l.form = "json"
    <3>1. IsObject(l) \/ IsLine(l)
      BY <1>1, <1>2
    <3>2. QED
      BY <1>7, <3>1 DEF IsObject, IsLine
  <2>3. a(l).broken /\ a(l).form = "json"
    BY <2>2, Zenon DEF IsObject
  <2> HIDE DEF a, b, l
  <2>4. 1 \in 1 .. Len(s[n]) /\ s[n][1] = a(l)
    BY <2>1
  <2>5. PICK i \in 1 .. Len(Lines(log)) : at[i] = <<n, 1>>
    BY <1>4, <2>4 DEF Lists
  <2>6. Lines(log)[i] = s[at[i][1]][at[i][2]]
    BY <1>4 DEF Lists
  <2>7. Lines(log)[i] = a(l)
    BY <2>4, <2>5, <2>6
  <2>8. ~Blank(Lines(log)[i]) /\ Outcome(Lines(log)[i], f) = "refused"
    BY <2>3, <2>7 DEF Blank, Outcome
  <2>9. QED
    BY <2>5, <2>8
<1>8. s = [n \in DOMAIN log |-> <<log[n]>>]
  BY <1>2, <1>4, <1>7 DEF Pieces
<1>9. QED
  BY <1>1, <1>4, <1>8, FlattenSingletons

\* The line at which the parser stops is the first it cannot read.
LEMMA FirstBadLine ==
  ASSUME file \in Files
  PROVE  /\ FirstBad = 0 =>
              \A n \in 1 .. Len(Lines(file)) :
                Blank(Lines(file)[n]) \/ Outcome(Lines(file)[n], format) = "event"
         /\ FirstBad # 0 =>
              /\ FirstBad \in 1 .. Len(Lines(file))
              /\ Outcome(Lines(file)[FirstBad], format) # "event"
              /\ \A m \in 1 .. FirstBad - 1 :
                   Blank(Lines(file)[m]) \/ Outcome(Lines(file)[m], format) = "event"
<1> DEFINE L == Lines(file)
           N == Len(L)
           I == {n \in 1 .. N : ~Blank(L[n]) /\ Outcome(L[n], format) # "event"}
<1>1. FirstBad = IF I # {} THEN Min(I) ELSE 0
  BY DEF FirstBad, SelectInSeq
<1>2. I \subseteq Nat
  OBVIOUS
<1>3. I # {} => Min(I) \in I /\ \A m \in I : Min(I) <= m
  <2> HIDE DEF I
  <2>1. QED
    BY <1>2, LeastMember
<1>4. CASE I = {}
  BY <1>1, <1>4
<1>5. CASE I # {}
  <2> DEFINE k == Min(I)
  <2>1. k \in I /\ \A m \in I : k <= m
    BY <1>3, <1>5
  <2>2. FirstBad = k
    BY <1>1, <1>5
  <2> HIDE DEF k
  <2>3. k \in 1 .. N /\ k # 0 /\ Outcome(L[k], format) # "event"
    BY <2>1
  <2>4. ASSUME NEW m \in 1 .. k - 1
        PROVE  Blank(L[m]) \/ Outcome(L[m], format) = "event"
    <3>1. m \in Nat /\ m <= k - 1 /\ m >= 1 /\ k \in Int
      BY <2>1
    <3>2. ASSUME m \in I
          PROVE  FALSE
      BY <2>1, <3>1, <3>2
    <3>3. N \in Nat
      BY LinesOfLog
    <3> HIDE DEF N
    <3>4. m \in 1 .. N
      BY <2>3, <3>1, <3>3
    <3>5. QED
      BY <3>2, <3>4
  <2>5. QED
    BY <2>2, <2>3, <2>4
<1>6. QED
  BY <1>4, <1>5

-----------------------------------------------------------------------------
\* What the detectors make of an event (Detectors).

\* What a detector may find in the event n of a source.
RuleNames == {"UNION_SELECT", "BOOLEAN_INFERENCE", "TIME_BASED", "STACKED_QUERY",
              "DEPRECATED_PROTOCOL", "WEAK_CIPHER"}
FieldNames == {"request_path", "query_string", "request_body", "tls_version", "tls_cipher"}

FindingParts ==
  RuleNames \X (Severities \X Percent) \X (Seq(FieldNames) \ {<<>>}) \X {<<>>, <<Technique>>}

DetectionsAt(n, source) ==
  {NewFinding(n, source, x[1], x[2], x[3], x[4]) : x \in FindingParts}

DetectionsIn(evs) == UNION {DetectionsAt(n, SourceOf(evs[n])) : n \in DOMAIN evs}

\* Whatever a detector finds in an event is such a finding.
LEMMA FindingAt ==
  ASSUME NEW n, NEW source, NEW rule \in RuleNames, NEW p \in Severities \X Percent,
         NEW fs \in Seq(FieldNames), fs # <<>>, NEW ts, ts = <<>> \/ ts = <<Technique>>
  PROVE  NewFinding(n, source, rule, p, fs, ts) \in DetectionsAt(n, source)
<1> DEFINE x == <<rule, p, fs, ts>>
<1>1. x \in FindingParts
  BY DEF FindingParts
<1>2. NewFinding(n, source, rule, p, fs, ts) = NewFinding(n, source, x[1], x[2], x[3], x[4])
  OBVIOUS
<1> HIDE DEF x
<1>3. QED
  BY <1>1, <1>2 DEF DetectionsAt

\* detect_sqli's findings are such, whatever the event.
LEMMA SqliFindings ==
  ASSUME NEW event, NEW n, NEW source
  PROVE  DetectSqli(event, n, source) \in Seq(DetectionsAt(n, source))
<1> DEFINE M(rule) == Only(InspectedFields, LAMBDA field : Matches(event[field], rule))
           found(s) == IF M(s.rule) = <<>> THEN <<>>
                       ELSE <<NewFinding(n, source, s.rule, s.profile, M(s.rule), <<Technique>>)>>
           D == DetectionsAt(n, source)
<1>1. DetectSqli(event, n, source) = FlattenSeq([k \in DOMAIN Signatures |-> found(Signatures[k])])
  BY DEF DetectSqli
<1>2. \A rule : M(rule) \in Seq(FieldNames)
  <2> SUFFICES ASSUME NEW rule
               PROVE  M(rule) \in Seq(FieldNames)
    OBVIOUS
  <2> DEFINE u == [i \in DOMAIN InspectedFields |->
                     IF Matches(event[InspectedFields[i]], rule)
                       THEN <<InspectedFields[i]>> ELSE <<>>]
  <2>1. M(rule) = FlattenSeq(u)
    BY DEF Only
  <2>2. u \in Seq(Seq(FieldNames))
    <3>1. DOMAIN InspectedFields = 1 .. 3
      BY DEF InspectedFields
    <3>2. \A i \in 1 .. 3 : <<InspectedFields[i]>> \in Seq(FieldNames)
      <4>1. /\ InspectedFields[1] = "request_path" /\ InspectedFields[2] = "query_string"
            /\ InspectedFields[3] = "request_body"
        BY DEF InspectedFields
      <4>2. \A i \in 1 .. 3 : i = 1 \/ i = 2 \/ i = 3
        OBVIOUS
      <4>3. \A i \in 1 .. 3 : InspectedFields[i] \in FieldNames
        BY <4>1, <4>2 DEF FieldNames
      <4>4. QED
        BY <4>3
    <3>3. u = [i \in 1 .. 3 |-> u[i]] /\ \A i \in 1 .. 3 : u[i] \in Seq(FieldNames)
      <4>1. \A i \in 1 .. 3 : u[i] = <<InspectedFields[i]>> \/ u[i] = <<>>
        BY <3>1
      <4>2. u = [i \in 1 .. 3 |-> u[i]]
        BY <3>1
      <4> HIDE DEF u
      <4>3. QED
        <5>1. <<>> \in Seq(FieldNames)
          OBVIOUS
        <5>2. \A i \in 1 .. 3 : u[i] \in Seq(FieldNames)
          BY <3>2, <4>1, <5>1, Zenon
        <5>3. QED
          BY <4>2, <5>2
    <3>4. 3 \in Nat
      OBVIOUS
    <3> HIDE DEF u
    <3>5. QED
      BY <3>3, <3>4
  <2> HIDE DEF u
  <2>3. QED
    BY <2>1, <2>2, FlattenLists
<1> HIDE DEF M
<1>3. \A s \in {Signatures[k] : k \in 1 .. 4} :
        s.rule \in RuleNames /\ s.profile \in Severities \X Percent
  <2>1. /\ Signatures[1] = [rule |-> "UNION_SELECT", profile |-> <<"high", 99>>]
        /\ Signatures[2] = [rule |-> "BOOLEAN_INFERENCE", profile |-> <<"high", 94>>]
        /\ Signatures[3] = [rule |-> "TIME_BASED", profile |-> <<"high", 97>>]
        /\ Signatures[4] = [rule |-> "STACKED_QUERY", profile |-> <<"critical", 97>>]
    BY DEF Signatures
  <2>2. /\ <<"high", 99>> \in Severities \X Percent /\ <<"high", 94>> \in Severities \X Percent
        /\ <<"high", 97>> \in Severities \X Percent /\ <<"critical", 97>> \in Severities \X Percent
    BY DEF Severities, Percent
  <2>3. \A k \in 1 .. 4 : k = 1 \/ k = 2 \/ k = 3 \/ k = 4
    OBVIOUS
  <2>4. \A k \in 1 .. 4 :
          Signatures[k].rule \in RuleNames /\ Signatures[k].profile \in Severities \X Percent
    BY <2>1, <2>2, <2>3 DEF RuleNames
  <2>5. QED
    BY <2>4
<1>4. \A s \in {Signatures[k] : k \in 1 .. 4} : found(s) \in Seq(D)
  <2> SUFFICES ASSUME NEW s \in {Signatures[k] : k \in 1 .. 4}, M(s.rule) # <<>>
               PROVE  <<NewFinding(n, source, s.rule, s.profile, M(s.rule), <<Technique>>)>> \in Seq(D)
    OBVIOUS
  <2>1. NewFinding(n, source, s.rule, s.profile, M(s.rule), <<Technique>>) \in D
    BY <1>2, <1>3, FindingAt
  <2> HIDE DEF D
  <2>2. QED
    BY <2>1
<1>5. DOMAIN Signatures = 1 .. 4
  BY DEF Signatures
<1> DEFINE v == [k \in DOMAIN Signatures |-> found(Signatures[k])]
<1> HIDE DEF D, found
<1>6. v \in Seq(Seq(D))
  <2>1. v = [k \in 1 .. 4 |-> v[k]] /\ \A k \in 1 .. 4 : v[k] \in Seq(D)
    BY <1>4, <1>5
  <2>2. 4 \in Nat
    OBVIOUS
  <2> HIDE DEF v
  <2>3. QED
    BY <2>1, <2>2
<1>7. FlattenSeq(v) \in Seq(D)
  <2> HIDE DEF v
  <2> QED BY <1>6, FlattenLists
<1>8. QED
  BY <1>1, <1>7 DEF D

\* detect_weak_tls's are, if the event's cipher has but known weaknesses.
LEMMA WeakTlsFindings ==
  ASSUME NEW event, WellFormed(event), NEW n, NEW source
  PROVE  DetectWeakTls(event, n, source) \in Seq(DetectionsAt(n, source))
<1> DEFINE D == DetectionsAt(n, source)
           protocol == event.tls_version
           cipher == event.tls_cipher
           deprecated == protocol.kind = "text" /\ protocol.content \in DOMAIN ProtocolSeverity
           weak == cipher.kind = "text" /\ cipher.content # {}
           a == IF deprecated THEN <<ProtocolFinding(n, source, protocol.content)>> ELSE <<>>
           b == IF weak THEN <<CipherFinding(n, source, cipher.content)>> ELSE <<>>
<1>1. DetectWeakTls(event, n, source) = a \o b
  BY DEF DetectWeakTls
<1>2. a \in Seq(D)
  <2> SUFFICES ASSUME deprecated
               PROVE  ProtocolFinding(n, source, protocol.content) \in D
    OBVIOUS
  <2>1. ProtocolSeverity[protocol.content] \in Severities
    BY DEF ProtocolSeverity, Severities
  <2> DEFINE p == <<ProtocolSeverity[protocol.content], 100>>
             fs == <<"tls_version">>
  <2>2. p \in Severities \X Percent
    BY <2>1 DEF Percent
  <2>5. fs \in Seq(FieldNames) /\ fs # <<>>
    BY DEF FieldNames
  <2>3. ProtocolFinding(n, source, protocol.content)
          = NewFinding(n, source, "DEPRECATED_PROTOCOL", p, fs, <<>>)
    BY DEF ProtocolFinding
  <2>6. "DEPRECATED_PROTOCOL" \in RuleNames
    BY DEF RuleNames
  <2> HIDE DEF p, fs
  <2>4. QED
    BY <2>2, <2>3, <2>5, <2>6, FindingAt
<1>3. b \in Seq(D)
  <2> SUFFICES ASSUME weak
               PROVE  CipherFinding(n, source, cipher.content) \in D
    OBVIOUS
  <2> DEFINE W == cipher.content
             p == <<CipherSeverity(W), 99>>
             fs == [k \in 1 .. Cardinality(W) |-> "tls_cipher"]
  <2>1. Cardinality(W) \in Nat /\ Cardinality(W) # 0
    <3>1. IsFiniteSet(Weaknesses)
      <4>1. IsFiniteSet({}) /\ \A S, x : IsFiniteSet(S) => IsFiniteSet(S \cup {x})
        BY FS_EmptySet, FS_AddElement
      <4>2. Weaknesses = {} \cup {"NULL"} \cup {"EXPORT"} \cup {"RC4"} \cup {"3DES"} \cup {"DES"}
                           \cup {"MD5"} \cup {"ANON"} \cup {"IDEA"}
        BY DEF Weaknesses
      <4>3. QED
        BY <4>1, <4>2, Zenon
    <3>2. IsFiniteSet(W)
      BY <3>1, FS_Subset DEF WellFormed
    <3>3. QED
      BY <3>2, FS_CardinalityType, FS_EmptySet
  <2>2. p \in Severities \X Percent
    BY DEF CipherSeverity, Severities, Percent
  <2>3. fs \in Seq(FieldNames) /\ fs # <<>>
    <3> HIDE DEF W
    <3>1. fs \in Seq(FieldNames) /\ 1 \in DOMAIN fs
      BY <2>1 DEF FieldNames
    <3>2. QED
      BY <3>1
  <2>4. CipherFinding(n, source, W) = NewFinding(n, source, "WEAK_CIPHER", p, fs, <<>>)
    BY DEF CipherFinding
  <2>6. "WEAK_CIPHER" \in RuleNames
    BY DEF RuleNames
  <2> HIDE DEF p, fs
  <2>5. QED
    BY <2>2, <2>3, <2>4, <2>6, FindingAt
<1> HIDE DEF a, b, D
<1>4. a \o b \in Seq(D)
  BY <1>2, <1>3, ConcatProperties
<1>5. QED
  BY <1>1, <1>4 DEF D

\* So the findings of a whole log are.
LEMMA FindingsIn ==
  ASSUME NEW X, NEW evs \in Seq(X), \A n \in DOMAIN evs : WellFormed(evs[n])
  PROVE  FlattenSeq([n \in DOMAIN evs |-> DetectSqli(evs[n], n, SourceOf(evs[n]))
                                            \o DetectWeakTls(evs[n], n, SourceOf(evs[n]))])
           \in Seq(DetectionsIn(evs))
<1> DEFINE D == DetectionsIn(evs)
           R(n) == DetectSqli(evs[n], n, SourceOf(evs[n]))
                     \o DetectWeakTls(evs[n], n, SourceOf(evs[n]))
           v == [n \in DOMAIN evs |-> R(n)]
<1>1. Len(evs) \in Nat /\ DOMAIN evs = 1 .. Len(evs)
  BY LenProperties
<1>2. ASSUME NEW n \in DOMAIN evs
      PROVE  R(n) \in Seq(D)
  <2> DEFINE E == DetectionsAt(n, SourceOf(evs[n]))
             a == DetectSqli(evs[n], n, SourceOf(evs[n]))
             b == DetectWeakTls(evs[n], n, SourceOf(evs[n]))
  <2>1. a \in Seq(E) /\ b \in Seq(E)
    BY SqliFindings, WeakTlsFindings
  <2>2. E \subseteq D
    BY DEF DetectionsIn
  <2> HIDE DEF E, D, a, b
  <2>3. a \in Seq(D) /\ b \in Seq(D)
    BY <2>1, <2>2
  <2>4. a \o b \in Seq(D)
    BY <2>3, ConcatProperties
  <2>5. QED
    BY <2>4 DEF a, b
<1> HIDE DEF D, R
<1>3. v \in Seq(Seq(D))
  BY <1>1, <1>2
<1>4. FlattenSeq(v) \in Seq(D)
  <2> HIDE DEF v
  <2> QED BY <1>3, FlattenLists
<1>5. QED
  BY <1>4 DEF D, R

-----------------------------------------------------------------------------
\* The detectors have just the findings an event is owed.

\* The rules a list of findings names, and that none is named twice.
RulesIn(s) == {s[i].rule : i \in 1 .. Len(s)}
NoneTwice(s) == \A i, j \in 1 .. Len(s) : s[i].rule = s[j].rule => i = j

\* Two lists that name no rule twice, and none in common, are joined into such.
LEMMA JoinRules ==
  ASSUME NEW S, NEW s \in Seq(S), NEW t \in Seq(S), NoneTwice(s), NoneTwice(t),
         RulesIn(s) \cap RulesIn(t) = {}
  PROVE  /\ RulesIn(s \o t) = RulesIn(s) \cup RulesIn(t)
         /\ NoneTwice(s \o t)
<1> DEFINE u == s \o t
           a == Len(s)
           b == Len(t)
<1>1. /\ a \in Nat /\ b \in Nat /\ Len(u) = a + b
      /\ \A i \in 1 .. a + b : u[i] = IF i <= a THEN s[i] ELSE t[i - a]
  BY ConcatProperties, LenProperties
<1> HIDE DEF u, a, b
<1>2. \A i \in 1 .. Len(u) : \/ i \in 1 .. a /\ u[i] = s[i]
                             \/ i - a \in 1 .. b /\ u[i] = t[i - a]
  BY <1>1
<1>3. /\ \A i \in 1 .. a : i \in 1 .. Len(u) /\ u[i] = s[i]
      /\ \A i \in 1 .. b : a + i \in 1 .. Len(u) /\ u[a + i] = t[i]
  BY <1>1
<1>4. RulesIn(u) = RulesIn(s) \cup RulesIn(t)
  <2>1. \A i \in 1 .. Len(u) : u[i].rule \in RulesIn(s) \cup RulesIn(t)
    BY <1>2 DEF RulesIn, a, b
  <2>2. \A i \in 1 .. a : s[i].rule \in RulesIn(u)
    BY <1>3 DEF RulesIn
  <2>3. \A i \in 1 .. b : t[i].rule \in RulesIn(u)
    <3> SUFFICES ASSUME NEW i \in 1 .. b
                 PROVE  t[i].rule \in RulesIn(u)
      OBVIOUS
    <3>1. a + i \in 1 .. Len(u) /\ u[a + i] = t[i]
      BY <1>3
    <3>2. QED
      BY <3>1 DEF RulesIn
  <2>4. QED
    BY <2>1, <2>2, <2>3 DEF RulesIn, a, b
<1>5. NoneTwice(u)
  <2> SUFFICES ASSUME NEW i \in 1 .. Len(u), NEW j \in 1 .. Len(u), u[i].rule = u[j].rule
               PROVE  i = j
    BY DEF NoneTwice
  <2>1. \A m \in 1 .. a, n \in 1 .. b : s[m].rule # t[n].rule
    BY DEF RulesIn, a, b
  <2>2. CASE i \in 1 .. a /\ u[i] = s[i]
    <3>1. j \in 1 .. a /\ u[j] = s[j]
      BY <1>2, <2>1, <2>2
    <3>2. QED
      BY <2>2, <3>1 DEF NoneTwice, a
  <2>3. CASE i - a \in 1 .. b /\ u[i] = t[i - a]
    <3>1. j - a \in 1 .. b /\ u[j] = t[j - a]
      BY <1>2, <2>1, <2>3
    <3>2. i - a = j - a
      BY <2>3, <3>1 DEF NoneTwice, b
    <3>3. QED
      BY <1>1, <3>2
  <2>4. QED
    BY <1>2, <2>2, <2>3
<1>6. QED
  BY <1>4, <1>5 DEF u

\* A list of nothing or of one finding.
LEMMA ShortRules ==
  /\ RulesIn(<<>>) = {} /\ NoneTwice(<<>>)
  /\ \A f : RulesIn(<<f>>) = {f.rule} /\ NoneTwice(<<f>>)
BY DEF RulesIn, NoneTwice

\* Some inspected field of the event shows the signature.
Shows(event, rule) ==
  \/ Matches(event["request_path"], rule)
  \/ Matches(event["query_string"], rule)
  \/ Matches(event["request_body"], rule)

\* The rules of detect_sqli.
SqliRules == {"UNION_SELECT", "BOOLEAN_INFERENCE", "TIME_BASED", "STACKED_QUERY"}

\* A signature is found in an inspected field just if some field shows it.
LEMMA MatchedFields ==
  ASSUME NEW event, NEW rule
  PROVE  Only(InspectedFields, LAMBDA field : Matches(event[field], rule)) # <<>>
           <=> Shows(event, rule)
<1> DEFINE s == InspectedFields
           T == {x \in FieldNames : Matches(event[x], rule)}
           c == Chosen(s, T)
<1>1. /\ s = <<"request_path", "query_string", "request_body">>
      /\ \A i \in 1 .. 3 : i = 1 \/ i = 2 \/ i = 3
  BY DEF InspectedFields
<1>2. /\ DOMAIN s = 1 .. 3 /\ Len(s) = 3
      /\ s[1] = "request_path" /\ s[2] = "query_string" /\ s[3] = "request_body"
      /\ s \in Seq(FieldNames)
  BY <1>1 DEF FieldNames
<1> HIDE DEF s
<1>3. \A n \in 1 .. 3 : s[n] \in FieldNames
  BY <1>1, <1>2 DEF FieldNames
<1>4. Only(s, LAMBDA field : Matches(event[field], rule)) = c
  <2>1. \A n \in DOMAIN s : Matches(event[s[n]], rule) <=> s[n] \in T
    BY <1>2, <1>3
  <2>2. [n \in DOMAIN s |-> IF Matches(event[s[n]], rule) THEN <<s[n]>> ELSE <<>>]
          = [n \in DOMAIN s |-> IF s[n] \in T THEN <<s[n]>> ELSE <<>>]
    BY <2>1
  <2> HIDE DEF T
  <2>3. QED
    BY <2>2 DEF Only, Chosen
<1>5. Shows(event, rule) <=> \E n \in 1 .. 3 : s[n] \in T
  <2>1. \A n \in 1 .. 3 : s[n] \in T <=> Matches(event[s[n]], rule)
    BY <1>3
  <2> HIDE DEF T
  <2>2. QED
    BY <1>1, <1>2, <2>1 DEF Shows
<1> HIDE DEF T
<1>6. /\ c \in Seq(FieldNames)
      /\ \A i \in 1 .. Len(c) : c[i] \in T /\ \E n \in 1 .. 3 : c[i] = s[n]
      /\ \A n \in 1 .. 3 : s[n] \in T => \E i \in 1 .. Len(c) : c[i] = s[n]
  <2>1. /\ c \in Seq(FieldNames)
        /\ \A i \in 1 .. Len(c) : c[i] \in T /\ \E n \in 1 .. Len(s) : c[i] = s[n]
        /\ \A n \in 1 .. Len(s) : s[n] \in T => \E i \in 1 .. Len(c) : c[i] = s[n]
    <3>1. s \in Seq(FieldNames)
      BY <1>2
    <3>2. QED
      BY <3>1, ChosenMembers
  <2> HIDE DEF c
  <2>2. QED
    BY <1>2, <2>1
<1> HIDE DEF c
<1>7. c # <<>> <=> 1 \in 1 .. Len(c)
  BY <1>6, EmptySeq, LenProperties
<1>8. c # <<>> <=> \E n \in 1 .. 3 : s[n] \in T
  <2>1. CASE 1 \in 1 .. Len(c)
    BY <1>6, <1>7, <2>1
  <2>2. CASE 1 \notin 1 .. Len(c)
    <3>1. 1 .. Len(c) = {}
      BY <1>6, <2>2, LenProperties
    <3>2. QED
      BY <1>6, <1>7, <2>2, <3>1
  <2>3. QED
    BY <2>1, <2>2
<1>9. QED
  BY <1>4, <1>5, <1>8 DEF s

\* detect_sqli has one finding for each signature that is shown.
LEMMA SqliExactly ==
  ASSUME NEW event, NEW n, NEW source
  PROVE  /\ RulesIn(DetectSqli(event, n, source)) = {rule \in SqliRules : Shows(event, rule)}
         /\ NoneTwice(DetectSqli(event, n, source))
<1> DEFINE M(rule) == Only(InspectedFields, LAMBDA field : Matches(event[field], rule))
           g(s) == NewFinding(n, source, s.rule, s.profile, M(s.rule), <<Technique>>)
           found(s) == IF M(s.rule) = <<>> THEN <<>> ELSE <<g(s)>>
           t == DetectSqli(event, n, source)
           v == [k \in 1 .. 4 |-> found(Signatures[k])]
           item == [k \in 1 .. 4 |-> g(Signatures[k])]
           rule(k) == Signatures[k].rule
<1>1. /\ rule(1) = "UNION_SELECT" /\ rule(2) = "BOOLEAN_INFERENCE" /\ rule(3) = "TIME_BASED"
      /\ rule(4) = "STACKED_QUERY" /\ DOMAIN Signatures = 1 .. 4
  BY DEF Signatures
<1>2. \A k \in 1 .. 4 : k = 1 \/ k = 2 \/ k = 3 \/ k = 4
  OBVIOUS
<1>3. t = FlattenSeq(v)
  BY <1>1 DEF DetectSqli
<1>4. \A k \in 1 .. 4 : v[k] = IF Shows(event, rule(k)) THEN <<item[k]>> ELSE <<>>
  <2>1. \A k \in 1 .. 4 : M(rule(k)) # <<>> <=> Shows(event, rule(k))
    BY MatchedFields
  <2> HIDE DEF M, g
  <2>2. QED
    BY <2>1
<1>5. \A k \in 1 .. 4 : item[k].rule = rule(k)
  BY DEF NewFinding
<1> DEFINE S == {item[k] : k \in 1 .. 4}
<1>6. v \in Seq(Seq(S)) /\ Len(v) = 4
  <2>1. \A k \in 1 .. 4 : v[k] \in Seq(S)
    <3> SUFFICES ASSUME NEW k \in 1 .. 4
                 PROVE  v[k] \in Seq(S)
      OBVIOUS
    <3> HIDE DEF item, v
    <3>1. item[k] \in S
      OBVIOUS
    <3> HIDE DEF S
    <3>2. <<>> \in Seq(S) /\ <<item[k]>> \in Seq(S)
      BY <3>1
    <3>3. v[k] = <<>> \/ v[k] = <<item[k]>>
      BY <1>4
    <3>4. QED
      BY <3>2, <3>3
  <2>2. v = [k \in 1 .. 4 |-> v[k]] /\ 4 \in Nat
    OBVIOUS
  <2> HIDE DEF S, v
  <2>3. QED
    BY <2>1, <2>2
<1> HIDE DEF S, g, item, v, t, M, found, rule
<1>7. PICK at : Lists(at, t, v, 4)
  BY <1>3, <1>6, FlattenLists
<1>8. ASSUME NEW i \in 1 .. Len(t)
      PROVE  \E k \in 1 .. 4 : /\ at[i] = <<k, 1>> /\ Shows(event, rule(k))
                               /\ t[i].rule = rule(k)
  <2>1. at[i] \in (1 .. 4) \X Nat /\ at[i][2] \in 1 .. Len(v[at[i][1]]) /\ t[i] = v[at[i][1]][at[i][2]]
    BY <1>7 DEF Lists
  <2> DEFINE k == at[i][1]
             m == at[i][2]
  <2>2. k \in 1 .. 4 /\ m \in 1 .. Len(v[k]) /\ t[i] = v[k][m] /\ at[i] = <<k, m>>
    BY <2>1
  <2> HIDE DEF k, m
  <2>3. Shows(event, rule(k))
    <3>1. ASSUME v[k] = <<>>
          PROVE  FALSE
      BY <2>2, <3>1
    <3>2. QED
      BY <1>4, <2>2, <3>1
  <2>4. v[k] = <<item[k]>>
    BY <1>4, <2>2, <2>3
  <2>5. m = 1 /\ t[i] = item[k]
    BY <2>2, <2>4
  <2>6. QED
    BY <1>5, <2>2, <2>3, <2>5
<1>9. ASSUME NEW k \in 1 .. 4, Shows(event, rule(k))
      PROVE  \E i \in 1 .. Len(t) : t[i].rule = rule(k)
  <2>1. v[k] = <<item[k]>>
    BY <1>4, <1>9
  <2>2. 1 \in 1 .. Len(v[k])
    BY <2>1
  <2>3. PICK i \in 1 .. Len(t) : at[i] = <<k, 1>>
    BY <1>7, <2>2 DEF Lists
  <2>4. t[i] = v[k][1]
    <3>1. t[i] = v[at[i][1]][at[i][2]]
      BY <1>7 DEF Lists
    <3>2. QED
      BY <2>3, <3>1
  <2>5. t[i] = item[k]
    BY <2>1, <2>4
  <2>6. QED
    BY <1>5, <2>5
<1>10. RulesIn(t) = {r \in SqliRules : Shows(event, r)}
  <2>1. \A k \in 1 .. 4 : rule(k) \in SqliRules
    BY <1>1, <1>2 DEF SqliRules
  <2>2. \A r \in SqliRules : \E k \in 1 .. 4 : r = rule(k)
    BY <1>1 DEF SqliRules
  <2>3. \A i \in 1 .. Len(t) : t[i].rule \in SqliRules /\ Shows(event, t[i].rule)
    BY <1>8, <2>1
  <2>4. \A r \in SqliRules : Shows(event, r) => \E i \in 1 .. Len(t) : t[i].rule = r
    BY <1>9, <2>2
  <2>5. QED
    BY <2>3, <2>4 DEF RulesIn
<1>11. NoneTwice(t)
  <2> SUFFICES ASSUME NEW i \in 1 .. Len(t), NEW j \in 1 .. Len(t), t[i].rule = t[j].rule
               PROVE  i = j
    BY DEF NoneTwice
  <2>1. PICK k \in 1 .. 4 : at[i] = <<k, 1>> /\ t[i].rule = rule(k)
    BY <1>8
  <2>2. PICK m \in 1 .. 4 : at[j] = <<m, 1>> /\ t[j].rule = rule(m)
    BY <1>8
  <2>3. k = m
    BY <1>1, <1>2, <2>1, <2>2
  <2>4. at[i] = at[j]
    BY <2>1, <2>2, <2>3
  <2>5. \A p, q \in 1 .. Len(t) : at[p] = at[q] => p = q
    BY <1>7 DEF Lists
  <2>6. QED
    BY <2>4, <2>5
<1>12. QED
  BY <1>10, <1>11 DEF t

\* So does its protocol or its cipher suite, a weakness.
ShowsDeprecated(event) ==
  event.tls_version.kind = "text" /\ event.tls_version.content \in Deprecated

ShowsWeak(event) == event.tls_cipher.kind = "text" /\ event.tls_cipher.content # {}

\* The rules the detectors owe the event a finding of.
Owed(event) ==
  {rule \in SqliRules : Shows(event, rule)}
    \cup {rule \in {"DEPRECATED_PROTOCOL"} : ShowsDeprecated(event)}
    \cup {rule \in {"WEAK_CIPHER"} : ShowsWeak(event)}

\* detect_weak_tls has one finding for each of its two rules, if at all.
LEMMA WeakTlsExactly ==
  ASSUME NEW event, WellFormed(event), NEW n, NEW source
  PROVE  /\ RulesIn(DetectWeakTls(event, n, source))
              = {rule \in {"DEPRECATED_PROTOCOL"} : ShowsDeprecated(event)}
                  \cup {rule \in {"WEAK_CIPHER"} : ShowsWeak(event)}
         /\ NoneTwice(DetectWeakTls(event, n, source))
<1> DEFINE x == ProtocolFinding(n, source, event.tls_version.content)
           y == CipherFinding(n, source, event.tls_cipher.content)
           a == IF ShowsDeprecated(event) THEN <<x>> ELSE <<>>
           b == IF ShowsWeak(event) THEN <<y>> ELSE <<>>
           t == DetectWeakTls(event, n, source)
           S == {x, y}
           A == {rule \in {"DEPRECATED_PROTOCOL"} : ShowsDeprecated(event)}
           B == {rule \in {"WEAK_CIPHER"} : ShowsWeak(event)}
<1>1. t = a \o b
  BY DEF DetectWeakTls, ShowsDeprecated, ShowsWeak, Deprecated, ProtocolSeverity
<1>2. x.rule = "DEPRECATED_PROTOCOL" /\ y.rule = "WEAK_CIPHER"
  BY DEF ProtocolFinding, CipherFinding, NewFinding
<1> HIDE DEF x, y, t
<1>3. a \in Seq(S) /\ b \in Seq(S)
  <2>1. x \in S /\ y \in S
    OBVIOUS
  <2> HIDE DEF S
  <2>2. QED
    BY <2>1
<1>4. RulesIn(a) = A /\ NoneTwice(a)
  BY <1>2, ShortRules
<1>5. RulesIn(b) = B /\ NoneTwice(b)
  BY <1>2, ShortRules
<1>6. A \cap B = {}
  OBVIOUS
<1> HIDE DEF a, b, A, B, S
<1>7. RulesIn(a \o b) = A \cup B /\ NoneTwice(a \o b)
  BY <1>3, <1>4, <1>5, <1>6, JoinRules
<1>8. QED
  BY <1>1, <1>7 DEF t, A, B

\* What both detectors make of an event.
FoundIn(event, n, source) ==
  DetectSqli(event, n, source) \o DetectWeakTls(event, n, source)

\* Together they have one finding for each rule the event is owed.
LEMMA DetectedExactly ==
  ASSUME NEW event, WellFormed(event), NEW n, NEW source
  PROVE  /\ FoundIn(event, n, source) \in Seq(DetectionsAt(n, source))
         /\ RulesIn(FoundIn(event, n, source)) = Owed(event)
         /\ NoneTwice(FoundIn(event, n, source))
<1> DEFINE a == DetectSqli(event, n, source)
           b == DetectWeakTls(event, n, source)
           D == DetectionsAt(n, source)
           A == {rule \in SqliRules : Shows(event, rule)}
           B == {rule \in {"DEPRECATED_PROTOCOL"} : ShowsDeprecated(event)}
                  \cup {rule \in {"WEAK_CIPHER"} : ShowsWeak(event)}
<1>1. a \in Seq(D) /\ b \in Seq(D)
  BY SqliFindings, WeakTlsFindings
<1>2. RulesIn(a) = A /\ NoneTwice(a)
  BY SqliExactly
<1>3. RulesIn(b) = B /\ NoneTwice(b)
  BY WeakTlsExactly
<1>4. A \cap B = {}
  BY DEF SqliRules
<1>5. A \cup B = Owed(event)
  BY DEF Owed
<1> HIDE DEF a, b, A, B, D
<1>6. a \o b \in Seq(D)
  BY <1>1, ConcatProperties
<1>7. RulesIn(a \o b) = A \cup B /\ NoneTwice(a \o b)
  BY <1>1, <1>2, <1>3, <1>4, JoinRules
<1>8. FoundIn(event, n, source) = a \o b
  BY DEF FoundIn, a, b
<1>9. QED
  BY <1>5, <1>6, <1>7, <1>8 DEF D

\* The findings are one for each event and each rule it is owed, laid to the
\* event's source.
Exactly(fs, evs) ==
  /\ \A i \in DOMAIN fs : /\ fs[i].event \in DOMAIN evs
                          /\ fs[i].rule \in Owed(evs[fs[i].event])
                          /\ fs[i].source = SourceOf(evs[fs[i].event])
  /\ \A n \in DOMAIN evs : \A rule \in Owed(evs[n]) :
       \E i \in DOMAIN fs : fs[i].event = n /\ fs[i].rule = rule
  /\ \A i, j \in DOMAIN fs : fs[i].event = fs[j].event /\ fs[i].rule = fs[j].rule => i = j

\* The detectors' findings are so.
LEMMA FoundExactly ==
  ASSUME NEW X, NEW evs \in Seq(X), \A n \in DOMAIN evs : WellFormed(evs[n])
  PROVE  Exactly(FlattenSeq([n \in DOMAIN evs |-> FoundIn(evs[n], n, SourceOf(evs[n]))]), evs)
<1> DEFINE N == Len(evs)
           v == [n \in DOMAIN evs |-> FoundIn(evs[n], n, SourceOf(evs[n]))]
           t == FlattenSeq(v)
           D == DetectionsIn(evs)
<1>1. N \in Nat /\ DOMAIN evs = 1 .. N
  BY LenProperties
<1>2. ASSUME NEW n \in 1 .. N
      PROVE  /\ v[n] \in Seq(D)
             /\ \A k \in 1 .. Len(v[n]) : /\ v[n][k].event = n
                                          /\ v[n][k].source = SourceOf(evs[n])
                                          /\ v[n][k].rule \in Owed(evs[n])
             /\ \A rule \in Owed(evs[n]) : \E k \in 1 .. Len(v[n]) : v[n][k].rule = rule
             /\ \A k, m \in 1 .. Len(v[n]) : v[n][k].rule = v[n][m].rule => k = m
  <2> DEFINE w == FoundIn(evs[n], n, SourceOf(evs[n]))
             E == DetectionsAt(n, SourceOf(evs[n]))
  <2>1. w \in Seq(E) /\ RulesIn(w) = Owed(evs[n]) /\ NoneTwice(w)
    BY <1>1, DetectedExactly
  <2>2. v[n] = w
    BY <1>1
  <2>3. \A f \in E : f.event = n /\ f.source = SourceOf(evs[n])
    BY DEF DetectionsAt, NewFinding
  <2>4. E \subseteq D
    BY <1>1 DEF DetectionsIn
  <2> HIDE DEF w, v, E, D
  <2>5. w \in Seq(D) /\ \A k \in 1 .. Len(w) : w[k] \in E
    BY <2>1, <2>4, ElementOfSeq
  <2>6. \A k \in 1 .. Len(w) : w[k].rule \in Owed(evs[n])
    BY <2>1 DEF RulesIn
  <2>7. \A rule \in Owed(evs[n]) : \E k \in 1 .. Len(w) : w[k].rule = rule
    BY <2>1 DEF RulesIn
  <2>8. \A k, m \in 1 .. Len(w) : w[k].rule = w[m].rule => k = m
    BY <2>1 DEF NoneTwice
  <2>9. QED
    BY <2>2, <2>3, <2>5, <2>6, <2>7, <2>8
<1>3. v \in Seq(Seq(D)) /\ Len(v) = N
  <2> DEFINE w(n) == v[n]
  <2>1. v = [n \in 1 .. N |-> w(n)]
    BY <1>1
  <2>2. \A n \in 1 .. N : w(n) \in Seq(D)
    BY <1>2
  <2> HIDE DEF v, N, D, w
  <2>3. QED
    BY <1>1, <2>1, <2>2
<1> HIDE DEF v, D
<1>4. t \in Seq(D) /\ \E at : Lists(at, t, v, N)
  BY <1>3, FlattenLists
<1> HIDE DEF t, N
<1>5. PICK at : Lists(at, t, v, N)
  BY <1>4
<1>6. DOMAIN t = 1 .. Len(t)
  BY <1>4, LenProperties
<1>7. ASSUME NEW i \in 1 .. Len(t)
      PROVE  \E n \in 1 .. N : \E k \in 1 .. Len(v[n]) : at[i] = <<n, k>> /\ t[i] = v[n][k]
  <2>1. at[i] \in (1 .. N) \X Nat /\ at[i][2] \in 1 .. Len(v[at[i][1]])
        /\ t[i] = v[at[i][1]][at[i][2]]
    BY <1>5 DEF Lists
  <2> DEFINE n == at[i][1]
             k == at[i][2]
  <2>2. n \in 1 .. N /\ k \in 1 .. Len(v[n]) /\ at[i] = <<n, k>> /\ t[i] = v[n][k]
    BY <2>1
  <2> HIDE DEF n, k
  <2>3. QED
    BY <2>2
<1>8. \A i \in DOMAIN t : /\ t[i].event \in DOMAIN evs
                          /\ t[i].rule \in Owed(evs[t[i].event])
                          /\ t[i].source = SourceOf(evs[t[i].event])
  <2> SUFFICES ASSUME NEW i \in 1 .. Len(t)
               PROVE  /\ t[i].event \in 1 .. N
                      /\ t[i].rule \in Owed(evs[t[i].event])
                      /\ t[i].source = SourceOf(evs[t[i].event])
    BY <1>1, <1>6
  <2>1. PICK n \in 1 .. N : \E k \in 1 .. Len(v[n]) : t[i] = v[n][k]
    BY <1>7
  <2>2. t[i].event = n /\ t[i].source = SourceOf(evs[n]) /\ t[i].rule \in Owed(evs[n])
    BY <1>2, <2>1
  <2>3. QED
    BY <2>2
<1>9. \A n \in DOMAIN evs : \A rule \in Owed(evs[n]) :
        \E i \in DOMAIN t : t[i].event = n /\ t[i].rule = rule
  <2> SUFFICES ASSUME NEW n \in 1 .. N, NEW rule \in Owed(evs[n])
               PROVE  \E i \in 1 .. Len(t) : t[i].event = n /\ t[i].rule = rule
    BY <1>1, <1>6
  <2>1. PICK k \in 1 .. Len(v[n]) : v[n][k].rule = rule
    BY <1>2
  <2>2. \E i \in 1 .. Len(t) : at[i] = <<n, k>>
    BY <1>5 DEF Lists
  <2>3. PICK i \in 1 .. Len(t) : at[i] = <<n, k>>
    BY <2>2
  <2>4. t[i] = v[n][k]
    BY <1>7, <2>3
  <2>5. v[n][k].event = n
    BY <1>2
  <2>6. QED
    BY <2>1, <2>4, <2>5
<1>10. \A i, j \in DOMAIN t : t[i].event = t[j].event /\ t[i].rule = t[j].rule => i = j
  <2> SUFFICES ASSUME NEW i \in 1 .. Len(t), NEW j \in 1 .. Len(t),
                      t[i].event = t[j].event, t[i].rule = t[j].rule
               PROVE  i = j
    BY <1>6
  <2>1. PICK n \in 1 .. N : \E k \in 1 .. Len(v[n]) : at[i] = <<n, k>> /\ t[i] = v[n][k]
    BY <1>7
  <2>2. PICK k \in 1 .. Len(v[n]) : at[i] = <<n, k>> /\ t[i] = v[n][k]
    BY <2>1
  <2>3. PICK m \in 1 .. N : \E l \in 1 .. Len(v[m]) : at[j] = <<m, l>> /\ t[j] = v[m][l]
    BY <1>7
  <2>4. PICK l \in 1 .. Len(v[m]) : at[j] = <<m, l>> /\ t[j] = v[m][l]
    BY <2>3
  <2>5. t[i].event = n /\ t[j].event = m
    BY <1>2, <2>2, <2>4
  <2>6. n = m
    BY <2>5
  <2>7. k = l
    BY <1>2, <2>2, <2>4, <2>6
  <2>8. at[i] = at[j]
    BY <2>2, <2>4, <2>6, <2>7
  <2>9. \A p, q \in 1 .. Len(t) : at[p] = at[q] => p = q
    BY <1>5 DEF Lists
  <2>10. QED
    BY <2>8, <2>9
<1>11. QED
  BY <1>8, <1>9, <1>10 DEF Exactly, t, v

-----------------------------------------------------------------------------
\* An event shows what its record says.

\* What a reader finds under a name, and where.
TextAt(r, name, n) ==
  /\ r.fields[name][n].kind \in {"text", "nested"}
  /\ \A m \in 1 .. n - 1 : r.fields[name][m].kind \in {"absent", "empty"}

\* _lookup finds it, and nothing else but a blank or a boolean.
LEMMA LookupSays ==
  ASSUME NEW r, NEW name, NEW V, r.fields[name] \in V \X V
  PROVE  /\ \A n \in 1 .. 2 : TextAt(r, name, n) => Lookup(r.fields[name]) = r.fields[name][n]
         /\ Lookup(r.fields[name]).kind \in {"text", "nested"} =>
              \E n \in 1 .. 2 : TextAt(r, name, n) /\ Lookup(r.fields[name]) = r.fields[name][n]
<1> DEFINE s == r.fields[name]
           I == {i \in 1 .. Len(s) : s[i].kind \notin {"absent", "empty"}}
           first == IF I # {} THEN Min(I) ELSE 0
<1>1. Lookup(s) = IF first = 0 THEN Absent ELSE s[first]
  BY DEF Lookup, SelectInSeq
<1>2. Len(s) = 2
  OBVIOUS
<1>3. first \in {0, 1, 2} /\ (first = 0 <=> I = {})
      /\ (first # 0 => first \in I /\ \A i \in I : first <= i)
  <2>1. CASE I = {}
    BY <2>1
  <2>2. CASE I # {}
    <3>1. I \subseteq Nat /\ \A i \in I : i = 1 \/ i = 2
      BY <1>2
    <3> HIDE DEF I
    <3>2. first \in I /\ \A i \in I : first <= i
      BY <2>2, <3>1, LeastMember
    <3> HIDE DEF first
    <3>3. QED
      BY <2>2, <3>1, <3>2
  <2>3. QED
    BY <2>1, <2>2
<1> HIDE DEF first
<1>4. 1 \in I <=> s[1].kind \notin {"absent", "empty"}
  BY <1>2
<1>5. 2 \in I <=> s[2].kind \notin {"absent", "empty"}
  BY <1>2
<1>6. \A i \in I : i = 1 \/ i = 2
  BY <1>2
<1> HIDE DEF I
<1>7. TextAt(r, name, 1) <=> s[1].kind \in {"text", "nested"}
  BY DEF TextAt
<1>8. TextAt(r, name, 2) <=> s[2].kind \in {"text", "nested"} /\ s[1].kind \in {"absent", "empty"}
  BY DEF TextAt
<1> HIDE DEF s
<1>9. TextAt(r, name, 1) => Lookup(s) = s[1]
  BY <1>1, <1>3, <1>4, <1>6, <1>7
<1>10. TextAt(r, name, 2) => Lookup(s) = s[2]
  BY <1>1, <1>3, <1>4, <1>5, <1>6, <1>8
<1>11. \/ Lookup(s) = Absent
       \/ 1 \in I /\ Lookup(s) = s[1]
       \/ 1 \notin I /\ 2 \in I /\ Lookup(s) = s[2]
  BY <1>1, <1>3, <1>6
<1>12. Lookup(s).kind \in {"text", "nested"} =>
         \/ TextAt(r, name, 1) /\ Lookup(s) = s[1]
         \/ TextAt(r, name, 2) /\ Lookup(s) = s[2]
  BY <1>4, <1>7, <1>8, <1>11 DEF Absent
<1>13. \A n \in 1 .. 2 : n = 1 \/ n = 2
  OBVIOUS
<1>14. 1 \in 1 .. 2 /\ 2 \in 1 .. 2
  OBVIOUS
<1>15. \A n \in 1 .. 2 : TextAt(r, name, n) => Lookup(s) = s[n]
  BY <1>9, <1>10, <1>13
<1>16. Lookup(s).kind \in {"text", "nested"} =>
         \E n \in 1 .. 2 : TextAt(r, name, n) /\ Lookup(s) = s[n]
  BY <1>12, <1>14
<1>17. QED
  BY <1>15, <1>16 DEF s

\* A field of an accepted object is the text a reader finds there, if any.
LEMMA FieldSays ==
  ASSUME NEW r, NEW name, NEW V, r.fields[name] \in V \X V,
         Field(r, name).kind \notin {"nested", "boolean"}
  PROVE  /\ \A n \in 1 .. 2 : TextAt(r, name, n) =>
              Field(r, name) = r.fields[name][n] /\ Field(r, name).kind = "text"
         /\ Field(r, name).kind = "text" =>
              \E n \in 1 .. 2 : TextAt(r, name, n) /\ Field(r, name) = r.fields[name][n]
<1> DEFINE v == Lookup(r.fields[name])
<1>1. /\ \A n \in 1 .. 2 : TextAt(r, name, n) => v = r.fields[name][n]
      /\ v.kind \in {"text", "nested"} =>
           \E n \in 1 .. 2 : TextAt(r, name, n) /\ v = r.fields[name][n]
  BY LookupSays
<1>2. Field(r, name) = IF v.kind = "blank" THEN Absent ELSE v
  BY DEF Field, OptionalString
<1>3. \A n \in 1 .. 2 : TextAt(r, name, n) => r.fields[name][n].kind \in {"text", "nested"}
  BY DEF TextAt
<1> HIDE DEF v
<1>4. ASSUME NEW n \in 1 .. 2, TextAt(r, name, n)
      PROVE  Field(r, name) = r.fields[name][n] /\ Field(r, name).kind = "text"
  <2>1. v = r.fields[name][n] /\ v.kind \in {"text", "nested"}
    BY <1>1, <1>3, <1>4
  <2>2. Field(r, name) = v
    BY <1>2, <2>1
  <2>3. QED
    BY <2>1, <2>2
<1>5. ASSUME Field(r, name).kind = "text"
      PROVE  v = Field(r, name) /\ v.kind = "text"
  <2>1. CASE v.kind = "blank"
    BY <1>2, <1>5, <2>1 DEF Absent
  <2>2. CASE v.kind # "blank"
    BY <1>2, <1>5, <2>2
  <2>3. QED
    BY <2>1, <2>2
<1>6. QED
  BY <1>1, <1>4, <1>5

\* What an accepted object's fields are, as the detectors see them.
ObjectFields(r) ==
  /\ r.form = "json" /\ EventOf(r) = JsonEvent(r)
  /\ \A name \in StringFields :
       /\ \A n \in 1 .. 2 : TextAt(r, name, n) =>
            Field(r, name) = r.fields[name][n] /\ Field(r, name).kind = "text"
       /\ Field(r, name).kind = "text" =>
            \E n \in 1 .. 2 : TextAt(r, name, n) /\ Field(r, name) = r.fields[name][n]
       /\ Field(r, name).kind \in {"absent", "text"}
  /\ \A n \in 1 .. 2 : TextAt(r, "body", n) =>
       RequestBody(r) = Text(r.fields["body"][n].content)
  /\ RequestBody(r).kind = "text" =>
       \E n \in 1 .. 2 : TextAt(r, "body", n) /\ RequestBody(r).content = r.fields["body"][n].content

\* The detectors see the fields of an accepted object as a reader does.
LEMMA AcceptedObject ==
  ASSUME NEW r, IsObject(r), ~Blank(r), NEW f, Outcome(r, f) = "event"
  PROVE  ObjectFields(r) /\ ~JsonRefused(r)
<1>1. r.form = "json" /\ ~JsonRefused(r) /\ EventOf(r) = JsonEvent(r)
  BY DEF IsObject, Blank, EventOf, Outcome
<1>2. \A name \in StringFields \cup {"body"} :
        r.fields[name] \in Values(Contents(name)) \X Values(Contents(name))
  BY DEF IsObject
<1>3. ASSUME NEW name \in StringFields
      PROVE  /\ \A n \in 1 .. 2 : TextAt(r, name, n) =>
                  Field(r, name) = r.fields[name][n] /\ Field(r, name).kind = "text"
             /\ Field(r, name).kind = "text" =>
                  \E n \in 1 .. 2 : TextAt(r, name, n) /\ Field(r, name) = r.fields[name][n]
             /\ Field(r, name).kind \in {"absent", "text"}
  <2>1. Field(r, name).kind \notin {"nested", "boolean"}
    BY <1>1 DEF JsonRefused
  <2> DEFINE C == Contents(name)
  <2>2. r.fields[name] \in Values(C) \X Values(C)
    BY <1>2
  <2> HIDE DEF C
  <2>3. Field(r, name).kind = "absent" \/ Field(r, name).kind = "text"
    BY <2>1, <2>2, FieldFinds
  <2> DEFINE V == Values(C)
  <2>4. r.fields[name] \in V \X V
    BY <2>2
  <2> HIDE DEF V
  <2>5. QED
    BY <2>1, <2>3, <2>4, FieldSays
<1>4. /\ \A n \in 1 .. 2 : TextAt(r, "body", n) =>
           RequestBody(r) = Text(r.fields["body"][n].content)
      /\ RequestBody(r).kind = "text" =>
           \E n \in 1 .. 2 : TextAt(r, "body", n) /\ RequestBody(r).content = r.fields["body"][n].content
  <2> DEFINE V == Values(Contents("body"))
             v == Lookup(r.fields["body"])
  <2>1. r.fields["body"] \in V \X V
    BY <1>2
  <2>2. \A x \in V : x.kind = "text" => x = Text(x.content)
    <3> DEFINE C == Contents("body")
    <3> HIDE DEF C
    <3>1. \A x \in Values(C) : x.kind = "text" => x = Text(x.content)
      BY DEF Values, Text
    <3>2. QED
      BY <3>1 DEF C
  <2> HIDE DEF V
  <2>3. /\ \A n \in 1 .. 2 : TextAt(r, "body", n) => v = r.fields["body"][n]
        /\ v.kind \in {"text", "nested"} =>
             \E n \in 1 .. 2 : TextAt(r, "body", n) /\ v = r.fields["body"][n]
    BY <2>1, LookupSays
  <2>4. RequestBody(r) = IF v.kind = "nested" THEN Text(v.content) ELSE v
    BY DEF RequestBody
  <2>5. \A n \in 1 .. 2 : TextAt(r, "body", n) => r.fields["body"][n].kind \in {"text", "nested"}
    BY DEF TextAt
  <2>6. \A n \in 1 .. 2 : r.fields["body"][n] \in V
    BY <2>1
  <2> HIDE DEF v
  <2>7. ASSUME NEW n \in 1 .. 2, TextAt(r, "body", n)
        PROVE  RequestBody(r) = Text(r.fields["body"][n].content)
    BY <2>2, <2>3, <2>4, <2>5, <2>6, <2>7
  <2>8. ASSUME RequestBody(r).kind = "text"
        PROVE  v.kind \in {"text", "nested"} /\ RequestBody(r).content = v.content
    BY <2>4, <2>8 DEF Text
  <2>9. QED
    BY <2>3, <2>7, <2>8
<1>5. QED
  BY <1>1, <1>3, <1>4 DEF ObjectFields

\* Decoding and masking show a signature just where a reader sees it.
LEMMA MatchesCarries ==
  ASSUME NEW text \in Payloads, NEW rule
  PROVE  Matches(Text(text), rule) <=> Carries(text, rule)
<1> DEFINE t == Masked(Decoded(text))
<1>1. t.signatures = text.signatures
  BY DEF Masked, Decoded, Payloads
<1>2. t.layers = IF text.layers <= MaxUrlDecodeRounds THEN 0 ELSE text.layers - MaxUrlDecodeRounds
  BY DEF Masked, Decoded, Payloads
<1>3. t.comments = IF text.comments = "closed" THEN "none" ELSE text.comments
  BY DEF Masked, Decoded, Payloads
<1>4. text.layers \in Nat /\ text.comments \in {"none", "closed", "open"}
  BY DEF Payloads
<1>5. Text(text).kind = "text" /\ Text(text).content = text
  BY DEF Text
<1>6. Matches(Text(text), rule) <=> rule \in t.signatures /\ t.layers = 0 /\ t.comments = "none"
  BY <1>5 DEF Matches
<1> HIDE DEF t
<1>7. QED
  BY <1>1, <1>2, <1>3, <1>4, <1>6 DEF Carries, MaxUrlDecodeRounds

\* A text or a nested value has the content its name may have.
LEMMA TextContent ==
  ASSUME NEW C, NEW x \in Values(C), x.kind \in {"text", "nested"}
  PROVE  x.content \in C /\ (x.kind = "text" => x = Text(x.content))
BY DEF Values, Text

\* What the detectors match in an accepted object is what a reader sees in it.
LEMMA ObjectInjects ==
  ASSUME NEW r, IsObject(r), ObjectFields(r), NEW rule
  PROVE  Shows(EventOf(r), rule) <=> Injects(r, rule)
<1>1. /\ r.form = "json"
      /\ EventOf(r)["request_path"] = Field(r, "path")
      /\ EventOf(r)["query_string"] = Field(r, "query")
      /\ EventOf(r)["request_body"] = RequestBody(r)
  BY DEF ObjectFields, JsonEvent
<1>2. \A name \in {"path", "query", "body"} : \A n \in 1 .. 2 :
        r.fields[name][n] \in Values(Payloads)
  <2>1. \A name \in {"path", "query", "body"} :
          name \in StringFields \cup {"body", "type"} /\ Contents(name) = Payloads
    BY DEF StringFields, Contents
  <2>2. \A name \in {"path", "query", "body"} :
          r.fields[name] \in Values(Contents(name)) \X Values(Contents(name))
    BY <2>1 DEF IsObject
  <2> DEFINE V == Values(Payloads)
  <2>3. \A name \in {"path", "query", "body"} : r.fields[name] \in V \X V
    BY <2>1, <2>2
  <2> HIDE DEF V
  <2>4. \A name \in {"path", "query", "body"} : \A n \in 1 .. 2 : r.fields[name][n] \in V
    BY <2>3
  <2>5. QED
    BY <2>4 DEF V
<1>3. ASSUME NEW name \in {"path", "query", "body"}, NEW n \in 1 .. 2, TextAt(r, name, n)
      PROVE  /\ r.fields[name][n].content \in Payloads
             /\ r.fields[name][n].kind = "text" =>
                  r.fields[name][n] = Text(r.fields[name][n].content)
  <2>1. r.fields[name][n].kind \in {"text", "nested"}
    BY <1>3 DEF TextAt
  <2>2. QED
    BY <1>2, <2>1, TextContent
<1>4. ASSUME NEW name \in {"path", "query"}
      PROVE  Matches(Field(r, name), rule)
               <=> \E n \in 1 .. 2 : TextAt(r, name, n) /\ Carries(r.fields[name][n].content, rule)
  <2>1. /\ \A n \in 1 .. 2 : TextAt(r, name, n) =>
             Field(r, name) = r.fields[name][n] /\ Field(r, name).kind = "text"
        /\ Field(r, name).kind = "text" =>
             \E n \in 1 .. 2 : TextAt(r, name, n) /\ Field(r, name) = r.fields[name][n]
    BY DEF ObjectFields, StringFields
  <2>2. ASSUME NEW n \in 1 .. 2, TextAt(r, name, n)
        PROVE  Matches(Field(r, name), rule) <=> Carries(r.fields[name][n].content, rule)
    <3>1. Field(r, name) = Text(r.fields[name][n].content) /\ r.fields[name][n].content \in Payloads
      BY <1>3, <2>1, <2>2
    <3>2. QED
      BY <3>1, MatchesCarries
  <2>3. Matches(Field(r, name), rule) => Field(r, name).kind = "text"
    BY DEF Matches
  <2>4. QED
    BY <2>1, <2>2, <2>3
<1>5. Matches(RequestBody(r), rule)
        <=> \E n \in 1 .. 2 : TextAt(r, "body", n) /\ Carries(r.fields["body"][n].content, rule)
  <2>1. /\ \A n \in 1 .. 2 : TextAt(r, "body", n) =>
             RequestBody(r) = Text(r.fields["body"][n].content)
        /\ RequestBody(r).kind = "text" =>
             \E n \in 1 .. 2 : TextAt(r, "body", n)
    BY DEF ObjectFields
  <2>2. ASSUME NEW n \in 1 .. 2, TextAt(r, "body", n)
        PROVE  Matches(RequestBody(r), rule) <=> Carries(r.fields["body"][n].content, rule)
    <3>1. RequestBody(r) = Text(r.fields["body"][n].content)
          /\ r.fields["body"][n].content \in Payloads
      BY <1>3, <2>1, <2>2
    <3>2. QED
      BY <3>1, MatchesCarries
  <2>3. Matches(RequestBody(r), rule) => RequestBody(r).kind = "text"
    BY DEF Matches
  <2>4. QED
    BY <2>1, <2>2, <2>3
<1>6. Injects(r, rule) <=>
        \E name \in {"path", "query", "body"} : \E n \in 1 .. 2 :
          TextAt(r, name, n) /\ Carries(r.fields[name][n].content, rule)
  BY <1>1 DEF Injects, Says, TextAt
<1>7. QED
  BY <1>1, <1>4, <1>5, <1>6 DEF Shows

\* So are the protocol and the cipher suite they judge.
LEMMA ObjectNegotiates ==
  ASSUME NEW r, IsObject(r), ObjectFields(r)
  PROVE  /\ ShowsDeprecated(EventOf(r)) <=> NegotiatesDeprecated(r)
         /\ ShowsWeak(EventOf(r)) <=> NegotiatesWeakCipher(r)
<1>1. /\ r.form = "json"
      /\ EventOf(r).tls_version = TlsVersion(r)
      /\ EventOf(r).tls_cipher = Field(r, "cipher")
  BY DEF ObjectFields, JsonEvent
<1>2. \A name \in {"tls_version", "protocol", "cipher"} :
        /\ \A n \in 1 .. 2 : TextAt(r, name, n) =>
             Field(r, name) = r.fields[name][n] /\ Field(r, name).kind = "text"
        /\ Field(r, name).kind = "text" =>
             \E n \in 1 .. 2 : TextAt(r, name, n) /\ Field(r, name) = r.fields[name][n]
        /\ Field(r, name).kind \in {"absent", "text"}
  BY DEF ObjectFields, StringFields
<1>3. Says(r, "cipher", LAMBDA weaknesses : weaknesses # {})
        <=> Field(r, "cipher").kind = "text" /\ Field(r, "cipher").content # {}
  <2>1. Says(r, "cipher", LAMBDA weaknesses : weaknesses # {})
          <=> \E n \in 1 .. 2 : TextAt(r, "cipher", n) /\ r.fields["cipher"][n].content # {}
    BY DEF Says, TextAt
  <2>2. QED
    BY <1>2, <2>1
<1>4. Says(r, "tls_version", LAMBDA version : TRUE) <=> Field(r, "tls_version").kind = "text"
  <2>1. Says(r, "tls_version", LAMBDA version : TRUE)
          <=> \E n \in 1 .. 2 : TextAt(r, "tls_version", n)
    BY DEF Says, TextAt
  <2>2. QED
    BY <1>2, <2>1
<1>5. Says(r, "tls_version", LAMBDA version : version \in Deprecated)
        <=> Field(r, "tls_version").kind = "text" /\ Field(r, "tls_version").content \in Deprecated
  <2>1. Says(r, "tls_version", LAMBDA version : version \in Deprecated)
          <=> \E n \in 1 .. 2 : /\ TextAt(r, "tls_version", n)
                                /\ r.fields["tls_version"][n].content \in Deprecated
    BY DEF Says, TextAt
  <2> HIDE DEF Deprecated
  <2>2. QED
    BY <1>2, <2>1
<1>6. Says(r, "protocol", LAMBDA name : name \in Deprecated \ {"TLS-1.0"})
        <=> Field(r, "protocol").kind = "text"
            /\ Field(r, "protocol").content \in Deprecated \ {"TLS-1.0"}
  <2>1. Says(r, "protocol", LAMBDA name : name \in Deprecated \ {"TLS-1.0"})
          <=> \E n \in 1 .. 2 : /\ TextAt(r, "protocol", n)
                                /\ r.fields["protocol"][n].content \in Deprecated \ {"TLS-1.0"}
    BY DEF Says, TextAt
  <2>2. QED
    BY <1>2, <2>1
<1>7. CASE Field(r, "tls_version").kind = "text"
  <2>1. TlsVersion(r) = Field(r, "tls_version")
    BY <1>7 DEF TlsVersion, Promoted, IsAbsent
  <2>2. QED
    BY <1>1, <1>3, <1>4, <1>5, <1>7, <2>1
       DEF ShowsDeprecated, NegotiatesDeprecated, ShowsWeak, NegotiatesWeakCipher
<1>8. CASE Field(r, "tls_version").kind = "absent"
  <2>1. TlsVersion(r) = IF LooksLikeTlsVersion(Field(r, "protocol"))
                          THEN Field(r, "protocol") ELSE Field(r, "tls_version")
    BY <1>8 DEF TlsVersion, Promoted, IsAbsent
  <2>2. ShowsDeprecated(EventOf(r))
          <=> Field(r, "protocol").kind = "text"
              /\ Field(r, "protocol").content \in Deprecated \ {"TLS-1.0"}
    BY <1>1, <1>8, <2>1 DEF ShowsDeprecated, Deprecated, LooksLikeTlsVersion
  <2>3. QED
    BY <1>1, <1>3, <1>4, <1>6, <1>8, <2>2
       DEF NegotiatesDeprecated, ShowsWeak, NegotiatesWeakCipher
<1>9. QED
  BY <1>2, <1>7, <1>8

\* And so is the source.
LEMMA ObjectNames ==
  ASSUME NEW r, IsObject(r), ObjectFields(r), ~JsonRefused(r)
  PROVE  Names(r, SourceOf(EventOf(r)))
<1>1. r.form = "json" /\ EventOf(r).source = Field(r, "source")
  BY DEF ObjectFields, JsonEvent
<1>2. /\ \A n \in 1 .. 2 : TextAt(r, "source", n) =>
           Field(r, "source") = r.fields["source"][n] /\ Field(r, "source").kind = "text"
      /\ Field(r, "source").kind = "text" =>
           \E n \in 1 .. 2 : TextAt(r, "source", n) /\ Field(r, "source") = r.fields["source"][n]
      /\ Field(r, "source").kind \in {"absent", "text"}
  BY DEF ObjectFields, StringFields
<1>3. Says(r, "source", LAMBDA any : TRUE) <=> \E n \in 1 .. 2 : TextAt(r, "source", n)
  BY DEF Says, TextAt
<1>4. CASE Field(r, "source").kind = "absent"
  <2>1. SourceOf(EventOf(r)) = NoIP
    BY <1>1, <1>4 DEF SourceOf, IsAbsent
  <2>2. QED
    BY <1>1, <1>2, <1>3, <1>4, <2>1 DEF Names
<1>5. CASE Field(r, "source").kind = "text"
  <2>1. SourceOf(EventOf(r)) = Field(r, "source").content
    BY <1>1, <1>5 DEF SourceOf, IsAbsent
  <2>2. Field(r, "source").content # NoIP
    <3>1. r.fields["source"] \in Values(Sources \cup {"hostname"}) \X Values(Sources \cup {"hostname"})
      <4>1. Contents("source") = Sources \cup {"hostname"}
        BY DEF Contents
      <4>2. r.fields["source"] \in Values(Contents("source")) \X Values(Contents("source"))
        BY DEF IsObject, StringFields
      <4>3. QED
        BY <4>1, <4>2
    <3>2. Field(r, "source").kind \notin {"nested", "boolean"} /\ ValidAddress(Field(r, "source"))
      BY <1>5 DEF JsonRefused
    <3>3. Field(r, "source").content \in Sources
      BY <1>5, <3>1, <3>2, FieldFinds DEF ValidAddress
    <3>4. QED
      BY <3>3, SourcesAssumption
  <2> DEFINE a == Field(r, "source").content
  <2>3. Says(r, "source", LAMBDA named : named = a)
    <3>1. \E n \in 1 .. 2 : TextAt(r, "source", n) /\ r.fields["source"][n].content = a
      BY <1>2, <1>5
    <3> HIDE DEF a
    <3>2. QED
      BY <3>1 DEF Says, TextAt
  <2> HIDE DEF a
  <2>4. Names(r, a)
    BY <1>1, <2>2, <2>3 DEF Names, a
  <2>5. QED
    BY <2>1, <2>4 DEF a
<1>6. QED
  BY <1>2, <1>4, <1>5

\* An access-log line's event says what the line says.
LEMMA LineSays ==
  ASSUME NEW r, IsLine(r), NEW f, Outcome(r, f) = "event"
  PROVE  /\ \A rule : Shows(EventOf(r), rule) <=> Injects(r, rule)
         /\ ShowsDeprecated(EventOf(r)) <=> NegotiatesDeprecated(r)
         /\ ShowsWeak(EventOf(r)) <=> NegotiatesWeakCipher(r)
         /\ Names(r, SourceOf(EventOf(r)))
<1> DEFINE e == EventOf(r)
<1>1. /\ r.form = "combined" /\ ~CombinedRefused(r) /\ e = CombinedEvent(r)
      /\ r.source.kind = "text"
      /\ r.request \in {"none", "parts", "spaced"}
      /\ r.suffix \in {"none", "named", "positional", "unreadable"}
      /\ r.tls_version.kind = "text" \/ r.tls_version = Absent
      /\ r.tls_cipher.kind = "text" \/ r.tls_cipher = Absent
      /\ r.suffix = "none" => r.tls_version = Absent /\ r.tls_cipher = Absent
  BY DEF IsLine, Outcome, EventOf, CombinedRefused
<1>2. /\ e.source = r.source
      /\ e["request_path"] = CASE r.request = "none" -> Absent
                               [] r.request = "parts" -> r.path
                               [] r.request = "spaced" -> r.prefix
      /\ e["query_string"] = Absent /\ e["request_body"] = Absent
      /\ e.tls_version = (IF SuffixRead(r) THEN r.tls_version ELSE Absent)
      /\ e.tls_cipher = (IF SuffixRead(r) THEN r.tls_cipher ELSE Absent)
  BY <1>1 DEF CombinedEvent
<1>3. /\ r.path.content \in Payloads /\ r.path = Text(r.path.content)
      /\ r.prefix.content \in Payloads /\ r.prefix = Text(r.prefix.content)
  BY DEF IsLine, Text
<1> HIDE DEF e
<1>4. /\ r.request = "none" => e["request_path"] = Absent
      /\ r.request = "parts" => e["request_path"] = r.path
      /\ r.request = "spaced" => e["request_path"] = r.prefix
  BY <1>2
<1>5. ASSUME NEW rule
      PROVE  Shows(e, rule) <=> Injects(r, rule)
  <2>1. ~Matches(Absent, rule)
    BY DEF Matches, Absent
  <2>2. /\ Matches(r.path, rule) <=> Carries(r.path.content, rule)
        /\ Matches(r.prefix, rule) <=> Carries(r.prefix.content, rule)
    BY <1>3, MatchesCarries
  <2>3. Shows(e, rule) <=> Matches(e["request_path"], rule)
    BY <1>2, <2>1 DEF Shows
  <2>4. Injects(r, rule) <=> \/ r.request = "parts" /\ Carries(r.path.content, rule)
                             \/ r.request = "spaced" /\ Carries(r.prefix.content, rule)
    BY <1>1 DEF Injects
  <2>5. QED
    BY <1>1, <1>4, <2>1, <2>2, <2>3, <2>4
<1>6. ShowsDeprecated(e) <=> NegotiatesDeprecated(r)
  <2>1. NegotiatesDeprecated(r) <=>
          /\ r.suffix # "unreadable"
          /\ r.tls_version.content \in Deprecated
          /\ r.suffix = "positional" => r.tls_version.content # "TLS-1.0"
    BY <1>1 DEF NegotiatesDeprecated
  <2>2. QED
    BY <1>1, <1>2, <2>1 DEF ShowsDeprecated, Deprecated, SuffixRead, LooksLikeTlsVersion, Absent
<1>7. ShowsWeak(e) <=> NegotiatesWeakCipher(r)
  <2>1. NegotiatesWeakCipher(r) <=>
          /\ r.suffix # "unreadable"
          /\ r.suffix = "positional" => LooksLikeTlsVersion(r.tls_version)
          /\ r.tls_cipher.kind = "text" /\ r.tls_cipher.content # {}
    BY <1>1 DEF NegotiatesWeakCipher
  <2>2. QED
    BY <1>1, <1>2, <2>1 DEF ShowsWeak, SuffixRead, Absent
<1>8. Names(r, SourceOf(e))
  BY <1>1, <1>2 DEF Names, SourceOf, IsAbsent
<1>9. QED
  BY <1>5, <1>6, <1>7, <1>8 DEF e

\* An accepted record's event is owed the findings the record gives rise to,
\* and has the source the record names.
LEMMA AcceptedOwed ==
  ASSUME NEW r, IsObject(r) \/ IsLine(r), ~Blank(r), NEW f, Outcome(r, f) = "event"
  PROVE  Owed(EventOf(r)) = Expected(r) /\ Names(r, SourceOf(EventOf(r)))
<1> DEFINE e == EventOf(r)
<1>1. /\ \A rule : Shows(e, rule) <=> Injects(r, rule)
      /\ ShowsDeprecated(e) <=> NegotiatesDeprecated(r)
      /\ ShowsWeak(e) <=> NegotiatesWeakCipher(r)
      /\ Names(r, SourceOf(e))
  <2>1. CASE IsObject(r)
    <3>1. ObjectFields(r) /\ ~JsonRefused(r)
      BY <2>1, AcceptedObject
    <3>2. QED
      BY <2>1, <3>1, ObjectInjects, ObjectNegotiates, ObjectNames
  <2>2. CASE IsLine(r)
    BY <2>2, LineSays
  <2>3. QED
    BY <2>1, <2>2
<1> HIDE DEF e
<1>2. {s.rule : s \in ToSet(Signatures)} = SqliRules
  <2>1. ToSet(Signatures) = {Signatures[1], Signatures[2], Signatures[3], Signatures[4]}
    <3>1. DOMAIN Signatures = 1 .. 4 /\ \A k \in 1 .. 4 : k = 1 \/ k = 2 \/ k = 3 \/ k = 4
      BY DEF Signatures
    <3>2. QED
      BY <3>1 DEF ToSet
  <2>2. /\ Signatures[1].rule = "UNION_SELECT" /\ Signatures[2].rule = "BOOLEAN_INFERENCE"
        /\ Signatures[3].rule = "TIME_BASED" /\ Signatures[4].rule = "STACKED_QUERY"
    BY DEF Signatures
  <2>3. QED
    BY <2>1, <2>2 DEF SqliRules
<1>3. Owed(e) = Expected(r)
  BY <1>1, <1>2 DEF Owed, Expected
<1>4. QED
  BY <1>1, <1>3 DEF e

-----------------------------------------------------------------------------
\* The inductive invariant.

\* What the findings of the events may be, before and after the lookups.
Detections == DetectionsIn(events)
Settled(k) == abuse[k] # Unknown /\ grey[k] # Unknown
Rescorings == {RescoreFinding(d, abuse[d.source].score, grey[d.source]) :
                 d \in {x \in Detections : Settled(x.source)}}

\* The log is one that may be given; what is parsed of it is all its records.
EventsRead ==
  /\ file \in Files
  /\ pc = "ingest" => events = <<>> /\ error = NoError
  /\ Parsed => events = AsRead(file) /\ events # <<>>
  /\ events # <<>> => events = AsRead(file)
  /\ \A n \in DOMAIN events : WellFormed(events[n])

\* The log is refused at the first line that is none of its records.
RefusalHonest ==
  error.kind = "refused" =>
    /\ Outcome(Lines(file)[error.line], format) = "refused"
    /\ \A m \in 1 .. error.line - 1 :
         Blank(Lines(file)[m]) \/ Outcome(Lines(file)[m], format) = "event"
    /\ ~(TryWhole /\ Len(Records(file)) = 1 /\ Outcome(Records(file)[1], "json") = "event")

\* Findings are a detector's until the lookups are done, rescored ones then.
FindingsMade ==
  /\ pc \in {"ingest", "detect"} => findings = <<>>
  /\ pc \in {"start", "entering", "abuse", "grey", "rescore"} => findings \in Seq(Detections)
  /\ pc = "entering" => findings # <<>> /\ ~offline
  /\ pc \in {"report", "done"} \/ (pc = "closing" /\ ~raised) => findings \in Seq(Rescorings)

\* Each source still has its turn, and has not been asked about, or is settled.
SourcesInTurn ==
  /\ IsInjective(pending)
  /\ pc \in {"abuse", "grey"} <=> pending # <<>> /\ pc \notin {"closing", "failed"}
  /\ pc = "closing" => IF raised THEN KeysUnread \/ CutShort ELSE pending = <<>>
  /\ pc = "grey" => abuse[Head(pending)] # Unknown
  /\ pc \in {"abuse", "grey", "rescore"} =>
       \A i \in Finding : Source(i) \in ToSet(pending) \/ Settled(Source(i))

\* A source that waits has not been asked about; the first may have been, at
\* the provider whose turn is over.
NotAskedYet ==
  /\ pc \in {"ingest", "detect", "start", "entering"} =>
       \A p \in Providers, k \in Keys : requests[p][k] = 0
  /\ \A i \in DOMAIN pending : requests["greynoise"][pending[i]] = 0
  /\ \A i \in DOMAIN pending :
       i # 1 \/ pc = "abuse" => requests["abuseipdb"][pending[i]] = 0

\* The clients that are open from the file to the report.
ClientsCounted ==
  /\ pc \in {"ingest", "detect", "start"} => connections = {}
  /\ pc = "entering" => connections = Connected("abuseipdb")
  /\ ClientsHeld

\* Offline no provider answers.
OfflineSilent ==
  offline => \A k \in Keys : abuse[k].mode # "live" /\ grey[k].mode # "live"

AnalysisInv ==
  /\ AnalysisTypeOK /\ EventsRead /\ RefusalHonest /\ FindingsMade /\ SourcesInTurn
  /\ AskedOnce /\ NotAskedYet /\ ClientsCounted /\ OfflineSilent /\ ReportBuilt

-----------------------------------------------------------------------------
\* Parsing and detecting keep it.

\* The records of an accepted log, with their number.
LEMMA EventsOfLog ==
  ASSUME NEW log \in Files
  PROVE  /\ Len(Records(log)) \in Nat
         /\ DOMAIN Records(log) = 1 .. Len(Records(log))
         /\ Len(AsRead(log)) = Len(Records(log))
         /\ AsRead(log) \in Seq({EventOf(x) : x \in ToSet(log)})
         /\ Len(AsRead(log)) <= Len(log)
         /\ DOMAIN AsRead(log) = 1 .. Len(Records(log))
         /\ \A n \in 1 .. Len(Records(log)) : AsRead(log)[n] = EventOf(Records(log)[n])
<1> DEFINE R == Records(log)
           X == ToSet(log)
<1>1. R \in Seq(X) /\ Len(R) <= Len(log)
  BY RecordsOfLog
<1> HIDE DEF R, X
<1>2. Len(R) \in Nat /\ DOMAIN R = 1 .. Len(R) /\ \A n \in 1 .. Len(R) : R[n] \in X
  BY <1>1, LenProperties, ElementOfSeq
<1> DEFINE A == [n \in DOMAIN R |-> EventOf(R[n])]
<1>3. /\ A \in Seq({EventOf(x) : x \in X}) /\ Len(A) = Len(R) /\ DOMAIN A = 1 .. Len(R)
      /\ \A n \in 1 .. Len(R) : A[n] = EventOf(R[n])
  BY <1>2
<1>4. AsRead(log) = A
  BY DEF AsRead, R
<1> HIDE DEF A
<1>5. QED
  BY <1>1, <1>2, <1>3, <1>4 DEF R, X

\* Whatever makes the parser give up leaves everything else as it was.
LEMMA FailKeeps ==
  ASSUME AnalysisInv, pc = "ingest", NEW kind, NEW line, Fail(kind, line),
         kind \in {"unreadable", "raised", "refused"},
         kind = "refused" =>
           /\ Outcome(Lines(file)[line], format) = "refused"
           /\ \A m \in 1 .. line - 1 :
                Blank(Lines(file)[m]) \/ Outcome(Lines(file)[m], format) = "event"
           /\ ~(TryWhole /\ Len(Records(file)) = 1 /\ Outcome(Records(file)[1], "json") = "event")
  PROVE  AnalysisInv'
<1> USE DEF AnalysisInv
<1>1. /\ error' = [kind |-> kind, line |-> line] /\ pc' = "failed"
      /\ UNCHANGED <<file, format, events, report, offline, apiKeys, dotenv, findings,
                     pending, abuse, grey, connections, raised, requests>>
  BY DEF Fail, given, inputs
<1>2. /\ error'.kind = kind /\ error'.line = line /\ error' # NoError
      /\ error'.kind \in {"unreadable", "raised", "refused"}
  BY <1>1 DEF NoError
<1>3. AnalysisTypeOK'
  BY <1>1, <1>2 DEF AnalysisTypeOK, LookupsOK, Stages, EventsRead, Consistent
<1>4. EventsRead'
  BY <1>1 DEF EventsRead, Parsed, WellFormed
<1>5. RefusalHonest'
  BY <1>1, <1>2 DEF RefusalHonest, TryWhole
<1>6. /\ FindingsMade' /\ SourcesInTurn' /\ NotAskedYet' /\ ClientsCounted'
      /\ AskedOnce' /\ OfflineSilent'
  BY <1>1 DEF FindingsMade, SourcesInTurn, KeysUnread, KeyRaises, CutShort, NotAskedYet,
              ClientsCounted, ClientsHeld, Connected, AskedOnce, OfflineSilent
<1>7. ReportBuilt'
  BY <1>2 DEF ReportBuilt
<1>8. QED
  BY <1>3, <1>4, <1>5, <1>6, <1>7

\* An accepted log becomes events that are well formed.
LEMMA IngestedKeeps ==
  ASSUME AnalysisInv, pc = "ingest", Ingested(Records(file)), Records(file) # <<>>,
         NEW f, \A n \in 1 .. Len(Records(file)) : Outcome(Records(file)[n], f) = "event"
  PROVE  AnalysisInv'
<1> USE DEF AnalysisInv
<1>1. /\ events' = AsRead(file) /\ pc' = "detect"
      /\ UNCHANGED <<file, format, error, report, offline, apiKeys, dotenv, findings,
                     pending, abuse, grey, connections, raised, requests>>
  BY DEF Ingested, given, inputs, AsRead
<1>2. file \in Files
  BY DEF EventsRead
<1>3. events' # <<>> /\ Len(events') <= Len(file)
  <2>1. Len(Records(file)) # 0
    BY <1>2, EmptySeq, RecordsOfLog
  <2>2. QED
    BY <1>1, <1>2, <2>1, EventsOfLog
<1>4. \A n \in DOMAIN events' : WellFormed(events'[n])
  <2> SUFFICES ASSUME NEW n \in 1 .. Len(Records(file))
               PROVE  WellFormed(EventOf(Records(file)[n]))
    BY <1>1, <1>2, EventsOfLog
  <2>1. /\ IsObject(Records(file)[n]) \/ IsLine(Records(file)[n])
        /\ ~Blank(Records(file)[n])
    BY <1>2, RecordsOfLog
  <2>2. QED
    BY <2>1, AcceptedWellFormed
<1>5. AnalysisTypeOK'
  BY <1>1, <1>3 DEF AnalysisTypeOK, LookupsOK, Stages, EventsRead, Consistent
<1>6. EventsRead'
  BY <1>1, <1>2, <1>3, <1>4 DEF EventsRead, Parsed
<1>7. RefusalHonest'
  BY <1>1 DEF RefusalHonest, TryWhole
<1>8. /\ FindingsMade' /\ SourcesInTurn' /\ NotAskedYet' /\ ClientsCounted'
      /\ AskedOnce' /\ OfflineSilent' /\ ReportBuilt'
  BY <1>1 DEF FindingsMade, SourcesInTurn, KeysUnread, KeyRaises, CutShort, NotAskedYet,
              ClientsCounted, ClientsHeld, Connected, AskedOnce, OfflineSilent, ReportBuilt
<1>9. QED
  BY <1>5, <1>6, <1>7, <1>8

\* When the parser does not give up, all the log's records were accepted.
LEMMA WholeLogRead ==
  ASSUME file \in Files, ParseWhole \/ ParseLines
  PROVE  /\ pc = "ingest" /\ Ingested(Records(file)) /\ Records(file) # <<>>
         /\ \E f \in {"json", format} :
              \A n \in 1 .. Len(Records(file)) : Outcome(Records(file)[n], f) = "event"
<1>1. CASE ParseWhole
  <2>1. /\ pc = "ingest" /\ Ingested(Records(file))
        /\ Len(Records(file)) = 1 /\ Outcome(Records(file)[1], "json") = "event"
    BY <1>1 DEF ParseWhole, WholeOutcome
  <2>2. Records(file) # <<>>
    BY <2>1
  <2>3. \A n \in 1 .. Len(Records(file)) : Outcome(Records(file)[n], "json") = "event"
    BY <2>1
  <2>4. QED
    BY <2>1, <2>2, <2>3
<1>2. CASE ParseLines
  <2> DEFINE R == Records(file)
             X == ToSet(file)
             T == {x \in X : Outcome(x, format) = "event"}
  <2>1. /\ pc = "ingest" /\ R # <<>> /\ FirstBad = 0
        /\ Ingested(Only(Records(Lines(file)), LAMBDA r : Outcome(r, format) = "event"))
    BY <1>2 DEF ParseLines
  <2>2. Lines(file) = file
    <3>1. \A n \in 1 .. Len(Lines(file)) :
            Blank(Lines(file)[n]) \/ Outcome(Lines(file)[n], format) = "event"
      BY <2>1, FirstBadLine
    <3>2. QED
      BY <3>1, LinesAreRecords
  <2>3. /\ R \in Seq(X)
        /\ \A n \in 1 .. Len(R) : Outcome(R[n], format) = "event"
    <3>1. /\ R \in Seq(X)
          /\ \A n \in 1 .. Len(R) : ~Blank(R[n]) /\ \E m \in 1 .. Len(file) : R[n] = file[m]
      BY RecordsOfLog
    <3>2. \A m \in 1 .. Len(file) : Blank(file[m]) \/ Outcome(file[m], format) = "event"
      BY <2>1, <2>2, FirstBadLine
    <3>3. QED
      BY <3>1, <3>2
  <2> HIDE DEF R, X
  <2>4. DOMAIN R = 1 .. Len(R) /\ \A n \in 1 .. Len(R) : R[n] \in T
    BY <2>3, LenProperties, ElementOfSeq
  <2>5. Only(R, LAMBDA r : Outcome(r, format) = "event") = R
    <3>1. [n \in DOMAIN R |-> IF Outcome(R[n], format) = "event" THEN <<R[n]>> ELSE <<>>]
            = [n \in DOMAIN R |-> <<R[n]>>]
      BY <2>3, <2>4
    <3>2. FlattenSeq([n \in DOMAIN R |-> <<R[n]>>]) = R
      BY <2>3, FlattenSingletons
    <3>3. QED
      BY <3>1, <3>2 DEF Only
  <2>6. Ingested(R)
    BY <2>1, <2>2, <2>5 DEF R
  <2>7. QED
    BY <2>1, <2>3, <2>6 DEF R
<1>3. QED
  BY <1>1, <1>2

\* Whichever way the parser goes, all records become events or none does.
LEMMA ParserStep ==
  ASSUME AnalysisInv, ReadFails \/ ParseWhole \/ WholeRaises \/ ParseLines \/ LineRefused
  PROVE  AnalysisInv'
<1>1. file \in Files
  BY DEF AnalysisInv, EventsRead
<1>2. CASE ReadFails
  BY <1>2, FailKeeps, Zenon DEF ReadFails
<1>3. CASE WholeRaises
  BY <1>3, FailKeeps, Zenon DEF WholeRaises
<1>4. CASE ParseWhole \/ ParseLines
  <2>1. /\ pc = "ingest" /\ Ingested(Records(file)) /\ Records(file) # <<>>
        /\ \E f : \A n \in 1 .. Len(Records(file)) : Outcome(Records(file)[n], f) = "event"
    BY <1>1, <1>4, WholeLogRead
  <2>2. QED
    BY <2>1, IngestedKeeps
<1>5. CASE LineRefused
  <2> DEFINE k == FirstBad
             outcome == Outcome(Lines(file)[k], format)
             line == IF outcome = "refused" THEN k ELSE 0
  <2>1. /\ pc = "ingest" /\ WholeOutcome = "refused" /\ k # 0
        /\ Fail(outcome, line)
    BY <1>5 DEF LineRefused
  <2>2. /\ outcome # "event"
        /\ \A m \in 1 .. k - 1 :
             Blank(Lines(file)[m]) \/ Outcome(Lines(file)[m], format) = "event"
    BY <1>1, <2>1, FirstBadLine
  <2>3. outcome \in {"raised", "refused"}
    BY <2>2 DEF Outcome
  <2>4. ~(TryWhole /\ Len(Records(file)) = 1 /\ Outcome(Records(file)[1], "json") = "event")
    BY <2>1 DEF WholeOutcome
  <2> HIDE DEF k
  <2>5. outcome = "refused" =>
          /\ Outcome(Lines(file)[line], format) = "refused"
          /\ \A m \in 1 .. line - 1 :
               Blank(Lines(file)[m]) \/ Outcome(Lines(file)[m], format) = "event"
    BY <2>2
  <2> HIDE DEF outcome, line
  <2>6. QED
    BY <2>1, <2>3, <2>4, <2>5, FailKeeps
<1>6. QED
  BY <1>2, <1>3, <1>4, <1>5

\* The detectors' findings are all valid, and none is lost or looked up yet.
LEMMA DetectStep ==
  ASSUME AnalysisInv, Detect
  PROVE  AnalysisInv'
<1> USE DEF AnalysisInv
<1> DEFINE new == FlattenSeq([n \in DOMAIN events |->
                    DetectSqli(events[n], n, SourceOf(events[n]))
                      \o DetectWeakTls(events[n], n, SourceOf(events[n]))])
<1>1. /\ pc = "detect" /\ findings' = new
      /\ raised' = ~\A f \in ToSet(findings') : FindingValid(f)
      /\ pc' = IF raised' THEN "failed" ELSE "start"
      /\ UNCHANGED <<file, format, events, error, report, offline, apiKeys, dotenv,
                     pending, abuse, grey, connections, requests>>
  BY DEF Detect, given, inputs
<1>2. new \in Seq(DetectionsIn(events))
  <2>1. file \in Files /\ events = AsRead(file) /\ \A n \in DOMAIN events : WellFormed(events[n])
    BY <1>1 DEF EventsRead, Parsed
  <2>2. events \in Seq({EventOf(x) : x \in ToSet(file)})
    BY <2>1, EventsOfLog
  <2>3. QED
    BY <2>1, <2>2, FindingsIn
<1> HIDE DEF new
<1>3. ASSUME NEW f \in ToSet(new)
      PROVE  FindingValid(f)
  <2>1. f \in DetectionsIn(events)
    <3>1. DOMAIN new = 1 .. Len(new) /\ \A i \in 1 .. Len(new) : new[i] \in DetectionsIn(events)
      BY <1>2, LenProperties, ElementOfSeq
    <3>2. QED
      BY <3>1 DEF ToSet
  <2>2. PICK n \in DOMAIN events, x \in FindingParts :
          f = NewFinding(n, SourceOf(events[n]), x[1], x[2], x[3], x[4])
    BY <2>1 DEF DetectionsIn, DetectionsAt
  <2>3. /\ x[2] \in Severities \X Percent /\ x[3] \in Seq(FieldNames) /\ x[3] # <<>>
        /\ IsInjective(x[4])
    <3>1. x[2] \in Severities \X Percent /\ x[3] \in Seq(FieldNames) /\ x[3] # <<>>
          /\ (x[4] = <<>> \/ x[4] = <<Technique>>)
      BY DEF FindingParts
    <3>2. IsInjective(<<>>) /\ IsInjective(<<Technique>>)
      BY DEF IsInjective
    <3>3. QED
      BY <3>1, <3>2
  <2>4. QED
    BY <2>2, <2>3, NewFindingValid
<1>4. raised' = FALSE /\ pc' = "start"
  BY <1>1, <1>3, Zenon
<1>5. AnalysisTypeOK'
  BY <1>1, <1>4 DEF AnalysisTypeOK, LookupsOK, Stages, Consistent
<1>6. EventsRead'
  BY <1>1, <1>4 DEF EventsRead, Parsed, WellFormed
<1>7. RefusalHonest'
  BY <1>1 DEF RefusalHonest, TryWhole
<1>8. FindingsMade'
  BY <1>1, <1>2, <1>4 DEF FindingsMade, Detections
<1>9. /\ SourcesInTurn' /\ NotAskedYet' /\ ClientsCounted'
      /\ AskedOnce' /\ OfflineSilent' /\ ReportBuilt'
  BY <1>1, <1>4 DEF SourcesInTurn, KeysUnread, KeyRaises, CutShort, NotAskedYet, ClientsCounted,
              ClientsHeld, Connected, AskedOnce, OfflineSilent, ReportBuilt, MatchTooLong
<1>10. QED
  BY <1>5, <1>6, <1>7, <1>8, <1>9

\* A match that is too long to be quoted ends the run.
LEMMA DetectRaisesStep ==
  ASSUME AnalysisInv, DetectRaises
  PROVE  AnalysisInv'
<1> USE DEF AnalysisInv
<1>1. /\ pc = "detect" /\ pc' = "failed" /\ raised' = TRUE
      /\ UNCHANGED <<file, format, events, error, report, offline, apiKeys, dotenv,
                     findings, pending, abuse, grey, connections, requests>>
  BY DEF DetectRaises, given, inputs
<1>2. MatchTooLong'
  BY DEF DetectRaises, given, MatchTooLong
<1>3. AnalysisTypeOK'
  BY <1>1 DEF AnalysisTypeOK, LookupsOK, Stages, Consistent
<1>4. EventsRead' /\ RefusalHonest'
  BY <1>1 DEF EventsRead, Parsed, WellFormed, RefusalHonest, TryWhole
<1>5. FindingsMade'
  BY <1>1 DEF FindingsMade
<1>6. SourcesInTurn' /\ NotAskedYet' /\ ClientsCounted' /\ AskedOnce' /\ OfflineSilent'
  BY <1>1 DEF SourcesInTurn, NotAskedYet, ClientsCounted, ClientsHeld, AskedOnce, OfflineSilent
<1>7. ReportBuilt'
  BY <1>2 DEF ReportBuilt
<1>8. QED
  BY <1>3, <1>4, <1>5, <1>6, <1>7

-----------------------------------------------------------------------------
\* The lookups keep it.

\* A detector's finding names a source that can be looked up.
LEMMA DetectionSource ==
  ASSUME EventsRead, NEW d \in Detections
  PROVE  /\ d.source \in Keys
         /\ d.event \in DOMAIN events
         /\ d.profile \in Severities \X Percent
         /\ d.score = DetectionScore(d.profile[1], d.profile[2])
         /\ \E x \in FindingParts : d = NewFinding(d.event, d.source, x[1], x[2], x[3], x[4])
<1>1. PICK n \in DOMAIN events, x \in FindingParts :
        d = NewFinding(n, SourceOf(events[n]), x[1], x[2], x[3], x[4])
  BY DEF Detections, DetectionsIn, DetectionsAt
<1>2. /\ d.event = n /\ d.source = SourceOf(events[n]) /\ d.profile = x[2]
      /\ d.score = DetectionScore(x[2][1], x[2][2])
  BY <1>1 DEF NewFinding
<1>3. x[2] \in Severities \X Percent
  BY DEF FindingParts
<1>4. d.source \in Keys
  BY <1>2 DEF EventsRead, WellFormed
<1>5. d = NewFinding(d.event, d.source, x[1], x[2], x[3], x[4])
  BY <1>1, <1>2, Zenon
<1>6. QED
  BY <1>2, <1>3, <1>4, <1>5

\* The sources to look up are those of the findings, each once.
LEMMA SourceKeysListed ==
  ASSUME EventsRead, findings \in Seq(Detections)
  PROVE  /\ SourceKeys \in Seq(Keys)
         /\ IsInjective(SourceKeys)
         /\ \A i \in Finding : Source(i) \in ToSet(SourceKeys)
         /\ findings # <<>> => SourceKeys # <<>>
<1> DEFINE s == [i \in Finding |-> Source(i)]
           N == Len(findings)
<1>1. N \in Nat /\ Finding = 1 .. N /\ \A i \in 1 .. N : findings[i] \in Detections
  BY LenProperties, ElementOfSeq DEF Finding
<1>2. \A i \in 1 .. N : Source(i) \in Keys
  BY <1>1, DetectionSource DEF Source
<1> HIDE DEF N
<1>3. s \in Seq(Keys) /\ DOMAIN s = 1 .. N /\ \A i \in 1 .. N : s[i] = Source(i)
  BY <1>1, <1>2
<1> HIDE DEF s
<1>4. /\ Deduplicated(s) \in Seq(Keys)
      /\ IsInjective(Deduplicated(s))
      /\ ToSet(Deduplicated(s)) = ToSet(s)
  BY <1>3, DeduplicatedMembers
<1>5. SourceKeys = Deduplicated(s)
  BY DEF SourceKeys, s
<1>6. \A i \in Finding : Source(i) \in ToSet(s)
  BY <1>1, <1>3 DEF ToSet
<1>7. ASSUME findings # <<>>, Deduplicated(s) = <<>>
      PROVE  FALSE
  <2>1. N # 0
    BY <1>7, EmptySeq DEF N
  <2>2. 1 \in Finding
    BY <1>1, <2>1
  <2>3. Source(1) \in ToSet(<<>>)
    BY <1>4, <1>6, <1>7, <2>2
  <2>4. QED
    BY <2>3 DEF ToSet
<1>8. QED
  BY <1>4, <1>5, <1>6, <1>7

\* The first of the waiting sources, and the others.
LEMMA HeadAndTail ==
  ASSUME NEW S, NEW q \in Seq(S), q # <<>>, IsInjective(q)
  PROVE  /\ Len(q) \in Nat /\ 1 \in DOMAIN q /\ Head(q) = q[1] /\ Head(q) \in S
         /\ Tail(q) \in Seq(S)
         /\ IsInjective(Tail(q))
         /\ \A i \in DOMAIN Tail(q) : i + 1 \in DOMAIN q /\ i + 1 # 1 /\ Tail(q)[i] = q[i + 1]
         /\ \A x \in ToSet(q) : x = Head(q) \/ x \in ToSet(Tail(q))
         /\ Tail(q) = <<>> <=> Len(q) = 1
         /\ \A i \in DOMAIN q : i # 1 => q[i] # Head(q)
<1>1. /\ Len(q) \in Nat /\ Len(q) # 0 /\ DOMAIN q = 1 .. Len(q)
      /\ \A i \in 1 .. Len(q) : q[i] \in S
  BY EmptySeq, LenProperties, ElementOfSeq
<1>2. /\ Head(q) = q[1] /\ Tail(q) \in Seq(S) /\ Len(Tail(q)) = Len(q) - 1
      /\ \A i \in 1 .. Len(q) - 1 : Tail(q)[i] = q[i + 1]
  BY <1>1, HeadTailProperties
<1>3. DOMAIN Tail(q) = 1 .. Len(q) - 1
  BY <1>1, <1>2, LenProperties
<1>4. \A i \in DOMAIN Tail(q) : i + 1 \in DOMAIN q /\ i + 1 # 1 /\ Tail(q)[i] = q[i + 1]
  BY <1>1, <1>2, <1>3
<1>5. \A i, j \in DOMAIN q : q[i] = q[j] => i = j
  BY DEF IsInjective
<1>6. IsInjective(Tail(q))
  <2> SUFFICES ASSUME NEW i \in DOMAIN Tail(q), NEW j \in DOMAIN Tail(q), Tail(q)[i] = Tail(q)[j]
               PROVE  i = j
    BY DEF IsInjective
  <2>1. i + 1 = j + 1
    BY <1>4, <1>5
  <2>2. QED
    BY <1>1, <1>3, <2>1
<1>7. ASSUME NEW x \in ToSet(q), x # Head(q)
      PROVE  x \in ToSet(Tail(q))
  <2>1. PICK i \in 1 .. Len(q) : x = q[i]
    BY <1>1 DEF ToSet
  <2>2. i # 1
    BY <1>2, <1>7, <2>1
  <2>3. i - 1 \in 1 .. Len(q) - 1 /\ i - 1 + 1 = i
    BY <1>1, <2>2
  <2>4. Tail(q)[i - 1] = x
    BY <1>2, <2>1, <2>3
  <2>5. QED
    BY <1>3, <2>3, <2>4 DEF ToSet
<1>8. Tail(q) = <<>> <=> Len(q) = 1
  BY <1>1, <1>2, EmptySeq
<1>9. 1 \in DOMAIN q
  BY <1>1
<1>10. QED
  BY <1>1, <1>2, <1>4, <1>5, <1>6, <1>7, <1>8, <1>9

\* Without findings no source is looked up.
LEMMA NoFindingsStep ==
  ASSUME AnalysisInv, NoFindings, UNCHANGED <<given, events, error, report>>
  PROVE  AnalysisInv'
<1> USE DEF AnalysisInv
<1>1. /\ pc = "start" /\ findings = <<>> /\ pc' = "report"
      /\ UNCHANGED <<file, format, events, error, report, offline, apiKeys, dotenv,
                     findings, pending, abuse, grey, connections, raised, requests>>
  BY DEF NoFindings, given, inputs
<1>2. AnalysisTypeOK'
  BY <1>1 DEF AnalysisTypeOK, LookupsOK, Stages, Consistent
<1>3. EventsRead' /\ RefusalHonest'
  BY <1>1 DEF EventsRead, Parsed, WellFormed, RefusalHonest, TryWhole
<1>4. FindingsMade'
  BY <1>1 DEF FindingsMade
<1>5. /\ SourcesInTurn' /\ NotAskedYet' /\ ClientsCounted'
      /\ AskedOnce' /\ OfflineSilent' /\ ReportBuilt'
  BY <1>1 DEF SourcesInTurn, KeysUnread, KeyRaises, CutShort, NotAskedYet, ClientsCounted,
              ClientsHeld, Connected, AskedOnce, OfflineSilent, ReportBuilt, MatchTooLong
<1>6. QED
  BY <1>2, <1>3, <1>4, <1>5

\* The client that connects first, when no source waits yet.
LEMMA EnterAbuseStep ==
  ASSUME AnalysisInv, EnterAbuse, UNCHANGED <<given, events, error, report>>
  PROVE  AnalysisInv'
<1> USE DEF AnalysisInv
<1>1. /\ pc = "start" /\ findings # <<>> /\ ~offline /\ pc' = "entering"
      /\ connections' = connections \cup Connected("abuseipdb")
      /\ UNCHANGED <<file, format, events, error, report, offline, apiKeys, dotenv,
                     findings, pending, abuse, grey, raised, requests>>
  BY DEF EnterAbuse, given, inputs
<1>2. connections' = Connected("abuseipdb") /\ connections' \subseteq Providers
  BY <1>1 DEF ClientsCounted, Connected, Providers
<1>3. AnalysisTypeOK'
  BY <1>1, <1>2 DEF AnalysisTypeOK, LookupsOK, Stages, Consistent
<1>4. EventsRead' /\ RefusalHonest'
  BY <1>1 DEF EventsRead, Parsed, WellFormed, RefusalHonest, TryWhole
<1>5. FindingsMade'
  BY <1>1 DEF FindingsMade, Detections
<1>6. SourcesInTurn' /\ NotAskedYet' /\ AskedOnce' /\ OfflineSilent' /\ ReportBuilt'
  BY <1>1 DEF SourcesInTurn, NotAskedYet, AskedOnce, OfflineSilent, ReportBuilt
<1>7. ClientsCounted'
  BY <1>1, <1>2 DEF ClientsCounted, ClientsHeld, Connected
<1>8. QED
  BY <1>3, <1>4, <1>5, <1>6, <1>7

\* At first every finding's source waits, and none has been asked about.
LEMMA EnteredStep ==
  ASSUME AnalysisInv, pc \in {"start", "entering"}, findings # <<>>,
         pc' = "abuse", pending' = SourceKeys,
         connections' = IF offline THEN {} ELSE apiKeys,
         UNCHANGED <<file, format, events, error, report, offline, apiKeys, dotenv,
                     findings, abuse, grey, raised, requests>>
  PROVE  AnalysisInv'
<1> USE DEF AnalysisInv
<1>1. findings \in Seq(Detections)
  BY DEF FindingsMade
<1>2. /\ pending' \in Seq(Keys) /\ IsInjective(pending') /\ pending' # <<>>
      /\ \A i \in Finding : Source(i) \in ToSet(pending')
  BY <1>1, SourceKeysListed
<1>3. AnalysisTypeOK'
  BY <1>2 DEF AnalysisTypeOK, LookupsOK, Stages, Consistent
<1>4. EventsRead' /\ RefusalHonest'
  BY DEF EventsRead, Parsed, WellFormed, RefusalHonest, TryWhole
<1>5. FindingsMade'
  BY <1>1 DEF FindingsMade, Detections
<1>6. SourcesInTurn'
  BY <1>2 DEF SourcesInTurn, Finding, Source
<1>7. NotAskedYet'
  <2>1. \A p \in Providers, k \in Keys : requests'[p][k] = 0
    BY DEF NotAskedYet
  <2>2. \A i \in DOMAIN pending' : pending'[i] \in Keys
    BY <1>2, ElementOfSeq, LenProperties
  <2>3. QED
    BY <2>1, <2>2 DEF NotAskedYet, Providers
<1>8. ClientsCounted' /\ AskedOnce' /\ OfflineSilent' /\ ReportBuilt'
  BY DEF ClientsCounted, ClientsHeld, AskedOnce, OfflineSilent, ReportBuilt
<1>9. QED
  BY <1>3, <1>4, <1>5, <1>6, <1>7, <1>8

\* Offline no client connects; otherwise both have, each with its key.
LEMMA EnterStep ==
  ASSUME AnalysisInv, EnterOffline \/ EnterGrey, UNCHANGED <<given, events, error, report>>
  PROVE  AnalysisInv'
<1>1. CASE EnterOffline
  <2>1. /\ pc = "start" /\ findings # <<>> /\ offline
        /\ pc' = "abuse" /\ pending' = SourceKeys
        /\ UNCHANGED <<file, format, events, error, report, offline, apiKeys, dotenv,
                       findings, abuse, grey, connections, raised, requests>>
    BY <1>1 DEF EnterOffline, given, inputs
  <2>2. connections' = IF offline THEN {} ELSE apiKeys
    BY <2>1 DEF AnalysisInv, ClientsCounted
  <2>3. QED
    BY <2>1, <2>2, EnteredStep
<1>2. CASE EnterGrey
  <2>1. /\ pc = "entering" /\ pc' = "abuse" /\ pending' = SourceKeys
        /\ connections' = connections \cup Connected("greynoise")
        /\ UNCHANGED <<file, format, events, error, report, offline, apiKeys, dotenv,
                       findings, abuse, grey, raised, requests>>
    BY <1>2 DEF EnterGrey, given, inputs
  <2>2. findings # <<>> /\ ~offline
    BY <2>1 DEF AnalysisInv, FindingsMade
  <2>3. connections = Connected("abuseipdb") /\ apiKeys \subseteq Providers
    BY <2>1 DEF AnalysisInv, ClientsCounted, AnalysisTypeOK, LookupsOK
  <2>4. connections' = IF offline THEN {} ELSE apiKeys
    BY <2>1, <2>2, <2>3 DEF Connected, Providers
  <2>5. QED
    BY <2>1, <2>2, <2>4, EnteredStep
<1>3. QED
  BY <1>1, <1>2

\* A key that cannot be read ends the run, with whatever was opened to be closed.
LEMMA UnreadableStep ==
  ASSUME AnalysisInv, KeyUnreadable, UNCHANGED <<given, events, error, report>>
  PROVE  AnalysisInv'
<1> USE DEF AnalysisInv
<1>1. /\ pc \in {"start", "entering"} /\ ~offline /\ findings # <<>>
      /\ KeyRaises("abuseipdb") \/ KeyRaises("greynoise")
      /\ pc' = "closing" /\ raised' = TRUE
      /\ UNCHANGED <<file, format, events, error, report, offline, apiKeys, dotenv,
                     findings, pending, abuse, grey, connections, requests>>
  BY DEF KeyUnreadable, FindingsMade, given, inputs
<1>2. KeysUnread'
  BY <1>1 DEF KeysUnread, KeyRaises, Providers
<1>3. AnalysisTypeOK'
  BY <1>1 DEF AnalysisTypeOK, LookupsOK, Stages, Consistent
<1>4. EventsRead' /\ RefusalHonest'
  BY <1>1 DEF EventsRead, Parsed, WellFormed, RefusalHonest, TryWhole
<1>5. FindingsMade'
  BY <1>1 DEF FindingsMade, Detections
<1>6. SourcesInTurn'
  BY <1>1, <1>2 DEF SourcesInTurn
<1>7. NotAskedYet' /\ ClientsCounted' /\ AskedOnce' /\ OfflineSilent' /\ ReportBuilt'
  BY <1>1 DEF NotAskedYet, ClientsCounted, ClientsHeld, AskedOnce, OfflineSilent, ReportBuilt
<1>8. QED
  BY <1>3, <1>4, <1>5, <1>6, <1>7

\* A provider that had not been asked about a source is asked once, if at all.
LEMMA Sent ==
  ASSUME AnalysisInv, NEW p \in Providers, NEW h \in Keys, requests[p][h] = 0,
         requests' = requests \/ (~offline /\ p \in apiKeys /\ Send(p, h)),
         offline' = offline, apiKeys' = apiKeys
  PROVE  /\ requests' \in [Providers -> [Keys -> Nat]]
         /\ AskedOnce'
         /\ \A q \in Providers, k \in Keys : q # p \/ k # h => requests'[q][k] = requests[q][k]
<1>1. requests \in [Providers -> [Keys -> Nat]] /\ AskedOnce
  BY DEF AnalysisInv, AnalysisTypeOK, LookupsOK
<1>2. CASE requests' = requests
  BY <1>1, <1>2 DEF AskedOnce
<1>3. CASE ~offline /\ p \in apiKeys /\ Send(p, h)
  <2>1. requests' = [requests EXCEPT ![p] = [requests[p] EXCEPT ![h] = requests[p][h] + 1]]
    BY <1>3 DEF Send
  <2>2. requests[p][h] + 1 = 1 /\ 1 \in Nat
    BY <1>3
  <2>3. requests[p] \in [Keys -> Nat]
    BY <1>1
  <2> DEFINE row == [requests[p] EXCEPT ![h] = 1]
  <2>4. row \in [Keys -> Nat] /\ row[h] = 1 /\ \A k \in Keys : k # h => row[k] = requests[p][k]
    BY <2>2, <2>3
  <2>5. requests' = [requests EXCEPT ![p] = row]
    BY <2>1, <2>2
  <2> HIDE DEF row
  <2>6. /\ requests' \in [Providers -> [Keys -> Nat]] /\ requests'[p] = row
        /\ \A q \in Providers : q # p => requests'[q] = requests[q]
    BY <1>1, <2>4, <2>5
  <2>7. \A q \in Providers, k \in Keys : q # p \/ k # h => requests'[q][k] = requests[q][k]
    BY <2>4, <2>6
  <2>8. AskedOnce'
    <3>1. \A q \in Providers, k \in Keys :
            requests'[q][k] = requests[q][k] \/ (q = p /\ requests'[q][k] = 1)
      BY <2>4, <2>6, <2>7
    <3>2. ~offline' /\ p \in apiKeys'
      BY <1>3
    <3>3. \A q \in Providers, k \in Keys :
            requests[q][k] <= IF offline' \/ q \notin apiKeys' THEN 0 ELSE 1
      BY <1>1 DEF AskedOnce
    <3>4. QED
      BY <3>1, <3>2, <3>3 DEF AskedOnce
  <2>9. QED
    BY <2>6, <2>7, <2>8
<1>4. QED
  BY <1>2, <1>3

\* What AbuseIPDB's turn changes, whether it is asked or not.
LEMMA AbuseTurn ==
  ASSUME AnalysisInv, pc = "abuse", pc' = "grey",
         NEW res \in AbuseResults, offline => res.mode # "live",
         abuse' = [abuse EXCEPT ![Head(pending)] = res],
         requests' = requests
           \/ (~offline /\ "abuseipdb" \in apiKeys /\ Send("abuseipdb", Head(pending))),
         UNCHANGED <<file, format, events, error, report, offline, apiKeys, dotenv,
                     findings, pending, grey, connections, raised>>
  PROVE  AnalysisInv'
<1> USE DEF AnalysisInv
<1> DEFINE h == Head(pending)
<1>1. pending \in Seq(Keys) /\ pending # <<>> /\ IsInjective(pending)
  BY DEF AnalysisTypeOK, LookupsOK, SourcesInTurn
<1>2. /\ 1 \in DOMAIN pending /\ h = pending[1] /\ h \in Keys
      /\ \A i \in DOMAIN pending : i # 1 => pending[i] # h
  <2> HIDE DEF Keys
  <2>1. QED
    BY <1>1, HeadAndTail
<1>3. requests["abuseipdb"][h] = 0
  BY <1>2 DEF NotAskedYet
<1> HIDE DEF h
<1>4. /\ requests' \in [Providers -> [Keys -> Nat]]
      /\ AskedOnce'
      /\ \A q \in Providers, k \in Keys :
           q # "abuseipdb" \/ k # h => requests'[q][k] = requests[q][k]
  BY <1>2, <1>3, Sent DEF Providers, h
<1>5. res # Unknown
  BY DEF AbuseResults, Unknown, Mock
<1>6. /\ abuse' \in [Keys -> AbuseResults \cup {Unknown}]
      /\ abuse'[h] = res /\ \A k \in Keys : k # h => abuse'[k] = abuse[k]
  BY <1>2 DEF h, AnalysisTypeOK, LookupsOK
<1>7. \A k \in Keys : Settled(k) => Settled(k)'
  BY <1>5, <1>6 DEF Settled
<1>8. AnalysisTypeOK'
  BY <1>4, <1>6 DEF AnalysisTypeOK, LookupsOK, Stages, Consistent
<1>9. EventsRead' /\ RefusalHonest'
  BY DEF EventsRead, Parsed, WellFormed, RefusalHonest, TryWhole
<1>10. FindingsMade'
  BY DEF FindingsMade, Detections
<1>11. SourcesInTurn'
  <2>1. \A i \in Finding : Source(i) \in Keys
    <3>1. findings \in Seq(Detections) /\ EventsRead
      BY DEF FindingsMade
    <3>2. \A i \in Finding : findings[i] \in Detections
      BY <3>1, ElementOfSeq, LenProperties DEF Finding
    <3>3. QED
      BY <3>1, <3>2, DetectionSource DEF Source
  <2>2. \A i \in Finding : Source(i) \in ToSet(pending) \/ Settled(Source(i))
    BY DEF SourcesInTurn
  <2>3. /\ Finding' = Finding /\ \A i \in Finding : Source(i)' = Source(i)
    BY DEF Finding, Source
  <2>4. abuse'[Head(pending')] # Unknown
    BY <1>5, <1>6 DEF h
  <2>5. \A i \in Finding' : Source(i)' \in ToSet(pending') \/ Settled(Source(i))'
    BY <1>7, <2>1, <2>2, <2>3 DEF Settled, Source
  <2>6. QED
    BY <1>1, <2>4, <2>5 DEF SourcesInTurn
<1>12. NotAskedYet'
  <2>1. \A i \in DOMAIN pending : pending[i] \in Keys
    BY <1>1, ElementOfSeq, LenProperties
  <2>2. /\ \A i \in DOMAIN pending : requests["greynoise"][pending[i]] = 0
        /\ \A i \in DOMAIN pending : requests["abuseipdb"][pending[i]] = 0
    BY DEF NotAskedYet
  <2>3. "greynoise" \in Providers /\ "abuseipdb" \in Providers /\ "greynoise" # "abuseipdb"
    BY DEF Providers
  <2>4. \A i \in DOMAIN pending : requests'["greynoise"][pending[i]] = 0
    BY <1>4, <2>1, <2>2, <2>3
  <2>5. \A i \in DOMAIN pending : i # 1 => requests'["abuseipdb"][pending[i]] = 0
    BY <1>2, <1>4, <2>1, <2>2, <2>3
  <2>6. QED
    BY <2>4, <2>5 DEF NotAskedYet
<1>13. OfflineSilent' /\ ClientsCounted'
  BY <1>6 DEF OfflineSilent, ClientsCounted, ClientsHeld
<1>14. ReportBuilt'
  BY DEF ReportBuilt
<1>15. QED
  BY <1>4, <1>8, <1>9, <1>10, <1>11, <1>12, <1>13, <1>14

\* GreyNoise's turn ends the turn of the first source.
LEMMA GreyTurn ==
  ASSUME AnalysisInv, pc = "grey", NextSource,
         NEW res \in NoiseResults, Consistent(res), offline => res.mode # "live",
         grey' = [grey EXCEPT ![Head(pending)] = res],
         requests' = requests
           \/ (~offline /\ "greynoise" \in apiKeys /\ Send("greynoise", Head(pending))),
         UNCHANGED <<file, format, events, error, report, offline, apiKeys, dotenv,
                     findings, abuse, connections, raised>>
  PROVE  AnalysisInv'
<1> USE DEF AnalysisInv
<1> DEFINE h == Head(pending)
<1>1. pending \in Seq(Keys) /\ pending # <<>> /\ IsInjective(pending)
  BY DEF AnalysisTypeOK, LookupsOK, SourcesInTurn
<1>2. /\ 1 \in DOMAIN pending /\ h = pending[1] /\ h \in Keys
      /\ \A i \in DOMAIN pending : i # 1 => pending[i] # h
      /\ Tail(pending) \in Seq(Keys) /\ IsInjective(Tail(pending))
      /\ \A i \in DOMAIN Tail(pending) :
           i + 1 \in DOMAIN pending /\ i + 1 # 1 /\ Tail(pending)[i] = pending[i + 1]
      /\ \A x \in ToSet(pending) : x = h \/ x \in ToSet(Tail(pending))
      /\ Tail(pending) = <<>> <=> Len(pending) = 1
  <2> HIDE DEF Keys
  <2>1. QED
    BY <1>1, HeadAndTail
<1>3. /\ pending' = Tail(pending) /\ pc' \in {"rescore", "abuse"}
      /\ pc' = "rescore" <=> pending' = <<>>
  BY <1>2 DEF NextSource
<1>4. requests["greynoise"][h] = 0 /\ abuse[h] # Unknown
  BY <1>2 DEF NotAskedYet, SourcesInTurn
<1> HIDE DEF h
<1>5. /\ requests' \in [Providers -> [Keys -> Nat]]
      /\ AskedOnce'
      /\ \A q \in Providers, k \in Keys :
           q # "greynoise" \/ k # h => requests'[q][k] = requests[q][k]
  BY <1>2, <1>4, Sent DEF Providers, h
<1>6. res # Unknown
  BY DEF NoiseResults, Unknown
<1>7. /\ grey' \in [Keys -> NoiseResults \cup {Unknown}]
      /\ grey'[h] = res /\ \A k \in Keys : k # h => grey'[k] = grey[k]
  BY <1>2 DEF h, AnalysisTypeOK, LookupsOK
<1>8. /\ abuse'[h] # Unknown /\ grey'[h] # Unknown
      /\ \A k \in Keys : Settled(k) => abuse'[k] # Unknown /\ grey'[k] # Unknown
  BY <1>2, <1>4, <1>6, <1>7 DEF Settled
<1>9. AnalysisTypeOK'
  <2>1. \A k \in Keys : grey'[k] # Unknown => Consistent(grey'[k])
    BY <1>7 DEF AnalysisTypeOK, LookupsOK
  <2>2. LookupsOK'
    BY <1>2, <1>3, <1>5, <1>7, <2>1 DEF AnalysisTypeOK, LookupsOK
  <2>3. QED
    BY <1>3, <2>2 DEF AnalysisTypeOK, Stages
<1>10. EventsRead' /\ RefusalHonest'
  BY <1>3 DEF EventsRead, Parsed, WellFormed, RefusalHonest, TryWhole
<1>11. FindingsMade'
  BY <1>3 DEF FindingsMade, Detections
<1>12. SourcesInTurn'
  <2>1. \A i \in Finding : Source(i) \in Keys
    <3>1. findings \in Seq(Detections) /\ EventsRead
      BY DEF FindingsMade
    <3>2. \A i \in Finding : findings[i] \in Detections
      BY <3>1, ElementOfSeq, LenProperties DEF Finding
    <3>3. QED
      BY <3>1, <3>2, DetectionSource DEF Source
  <2>2. \A i \in Finding : Source(i) \in ToSet(pending) \/ Settled(Source(i))
    BY DEF SourcesInTurn
  <2>3. Finding' = Finding /\ \A i \in Finding : Source(i)' = Source(i)
    BY DEF Finding, Source
  <2>4. \A i \in Finding' : (Source(i) \in ToSet(pending) \/ Settled(Source(i)))'
    <3> SUFFICES ASSUME NEW i \in Finding, Source(i) \notin ToSet(pending')
                 PROVE  Settled(Source(i))'
      BY <2>3
    <3>1. Source(i) = h \/ Settled(Source(i))
      BY <1>2, <1>3, <2>2
    <3>2. abuse'[Source(i)] # Unknown /\ grey'[Source(i)] # Unknown
      BY <1>8, <2>1, <3>1
    <3>3. QED
      BY <2>3, <3>2 DEF Settled
  <2>5. QED
    BY <1>2, <1>3, <2>4 DEF SourcesInTurn
<1>13. NotAskedYet'
  <2>1. \A i \in DOMAIN pending : pending[i] \in Keys
    BY <1>1, ElementOfSeq, LenProperties
  <2>2. /\ \A i \in DOMAIN pending : requests["greynoise"][pending[i]] = 0
        /\ \A i \in DOMAIN pending : i # 1 => requests["abuseipdb"][pending[i]] = 0
    BY DEF NotAskedYet
  <2>3. "greynoise" \in Providers /\ "abuseipdb" \in Providers /\ "greynoise" # "abuseipdb"
    BY DEF Providers
  <2>4. \A i \in DOMAIN pending :
          i # 1 => requests'["greynoise"][pending[i]] = 0 /\ requests'["abuseipdb"][pending[i]] = 0
    BY <1>2, <1>5, <2>1, <2>2, <2>3
  <2>5. \A i \in DOMAIN pending' :
          requests'["greynoise"][pending'[i]] = 0 /\ requests'["abuseipdb"][pending'[i]] = 0
    BY <1>2, <1>3, <2>4
  <2>6. QED
    BY <1>3, <2>5 DEF NotAskedYet
<1>14. OfflineSilent' /\ ClientsCounted'
  BY <1>3, <1>7 DEF OfflineSilent, ClientsCounted, ClientsHeld
<1>15. ReportBuilt'
  BY <1>3 DEF ReportBuilt
<1>16. QED
  BY <1>5, <1>9, <1>10, <1>11, <1>12, <1>13, <1>14, <1>15

\* Whatever GreyNoise sends is parsed into a consistent result.
LEMMA ParsedNoise ==
  ASSUME NEW reply \in NoiseReplies
  PROVE  ParseNoise(reply) \in NoiseResults /\ Consistent(ParseNoise(reply))
<1>1. /\ reply.noise \in BOOLEAN /\ reply.riot \in BOOLEAN
      /\ reply.class \in Classifications \cup {"none"}
  BY DEF NoiseReplies
<1>2. MockNoise \in NoiseResults /\ Consistent(MockNoise)
  BY DEF MockNoise, NeutralNoise, NoiseResults, Consistent
<1>3. /\ NeutralNoise("live", "not_found") \in NoiseResults
      /\ Consistent(NeutralNoise("live", "not_found"))
  BY DEF NeutralNoise, NoiseResults, Consistent
<1>4. ASSUME reply.class # "none", reply.noise \/ reply.riot
      PROVE  LET g == [mode |-> "live", status |-> "matched", class |-> reply.class,
                       noise |-> reply.noise, riot |-> reply.riot]
             IN  g \in NoiseResults /\ Consistent(g)
  BY <1>1, <1>4 DEF NoiseResults, Consistent
<1>5. QED
  BY <1>2, <1>3, <1>4, Zenon DEF ParseNoise

\* The steps of the lookups, but for the one that raises.
LEMMA LookupStep ==
  ASSUME AnalysisInv, UNCHANGED <<given, events, error, report>>,
         AbuseNotAsked \/ AbuseAnswered \/ GreyNotAsked \/ GreyAnswered
  PROVE  AnalysisInv'
<1>1. CASE AbuseNotAsked
  <2>1. Mock \in AbuseResults /\ Mock.mode # "live"
    BY DEF AbuseResults, Mock
  <2>2. QED
    BY <1>1, <2>1, AbuseTurn DEF AbuseNotAsked, given, inputs
<1>2. CASE AbuseAnswered
  <2>1. PICK res \in AbuseResults : abuse' = [abuse EXCEPT ![Head(pending)] = res]
    BY <1>2 DEF AbuseAnswered
  <2>2. ~offline /\ "abuseipdb" \in apiKeys
    BY <1>2 DEF AbuseAnswered, MayAsk
  <2>3. QED
    BY <1>2, <2>1, <2>2, AbuseTurn DEF AbuseAnswered, given, inputs
<1>3. CASE GreyNotAsked
  <2>1. MockNoise \in NoiseResults /\ Consistent(MockNoise) /\ MockNoise.mode # "live"
    BY DEF MockNoise, NeutralNoise, NoiseResults, Consistent
  <2>2. QED
    BY <1>3, <2>1, GreyTurn DEF GreyNotAsked, given, inputs
<1>4. CASE GreyAnswered
  <2>1. PICK reply \in NoiseReplies : grey' = [grey EXCEPT ![Head(pending)] = ParseNoise(reply)]
    BY <1>4 DEF GreyAnswered
  <2>2. ~offline /\ "greynoise" \in apiKeys
    BY <1>4 DEF GreyAnswered, MayAsk
  <2>3. ParseNoise(reply) \in NoiseResults /\ Consistent(ParseNoise(reply))
    BY ParsedNoise
  <2>4. QED
    BY <1>4, <2>1, <2>2, <2>3, GreyTurn DEF GreyAnswered, given, inputs
<1>5. QED
  BY <1>1, <1>2, <1>3, <1>4

\* An answer that overflows leaves its source waiting.
LEMMA OverflowStep ==
  ASSUME AnalysisInv, UNCHANGED <<given, events, error, report>>, AbuseOverflows
  PROVE  AnalysisInv'
<1> USE DEF AnalysisInv
<1> DEFINE h == Head(pending)
<1>1. /\ pc = "abuse" /\ pc' = "closing" /\ raised' = TRUE
      /\ ~offline /\ "abuseipdb" \in apiKeys /\ Send("abuseipdb", h)
      /\ UNCHANGED <<file, format, events, error, report, offline, apiKeys, dotenv,
                     findings, pending, abuse, grey, connections>>
  BY DEF AbuseOverflows, MayAsk, given, inputs
<1>2. pending \in Seq(Keys) /\ pending # <<>> /\ IsInjective(pending)
  BY <1>1 DEF AnalysisTypeOK, LookupsOK, SourcesInTurn
<1>3. /\ 1 \in DOMAIN pending /\ h = pending[1] /\ h \in Keys
      /\ \A i \in DOMAIN pending : i # 1 => pending[i] # h
  <2> HIDE DEF Keys
  <2>1. QED
    BY <1>2, HeadAndTail
<1>4. requests["abuseipdb"][h] = 0
  BY <1>1, <1>3 DEF NotAskedYet
<1> HIDE DEF h
<1>5. /\ requests' \in [Providers -> [Keys -> Nat]]
      /\ AskedOnce'
      /\ \A q \in Providers, k \in Keys :
           q # "abuseipdb" \/ k # h => requests'[q][k] = requests[q][k]
  BY <1>1, <1>3, <1>4, Sent DEF Providers
<1>6. AnalysisTypeOK'
  BY <1>1, <1>5 DEF AnalysisTypeOK, LookupsOK, Stages, Consistent
<1>7. EventsRead' /\ RefusalHonest'
  BY <1>1 DEF EventsRead, Parsed, WellFormed, RefusalHonest, TryWhole
<1>8. FindingsMade'
  BY <1>1 DEF FindingsMade, Detections
<1>9. SourcesInTurn'
  BY <1>1, <1>2 DEF SourcesInTurn, CutShort
<1>10. NotAskedYet'
  <2>1. \A i \in DOMAIN pending : pending[i] \in Keys
    BY <1>2, ElementOfSeq, LenProperties
  <2>2. /\ \A i \in DOMAIN pending : requests["greynoise"][pending[i]] = 0
        /\ \A i \in DOMAIN pending : requests["abuseipdb"][pending[i]] = 0
    BY <1>1 DEF NotAskedYet
  <2>3. "greynoise" \in Providers /\ "abuseipdb" \in Providers /\ "greynoise" # "abuseipdb"
    BY DEF Providers
  <2>4. \A i \in DOMAIN pending : requests'["greynoise"][pending[i]] = 0
    BY <1>5, <2>1, <2>2, <2>3
  <2>5. \A i \in DOMAIN pending : i # 1 => requests'["abuseipdb"][pending[i]] = 0
    BY <1>3, <1>5, <2>1, <2>2, <2>3
  <2>6. QED
    BY <1>1, <2>4, <2>5 DEF NotAskedYet
<1>11. OfflineSilent' /\ ClientsCounted' /\ ReportBuilt'
  BY <1>1 DEF OfflineSilent, ClientsCounted, ClientsHeld, ReportBuilt
<1>12. QED
  BY <1>5, <1>6, <1>7, <1>8, <1>9, <1>10, <1>11

\* The clients are closed, and an exception goes on its way.
LEMMA ExitStep ==
  ASSUME AnalysisInv, UNCHANGED <<given, events, error, report>>, ExitClients
  PROVE  AnalysisInv'
<1> USE DEF AnalysisInv
<1>1. /\ pc = "closing" /\ connections' = {} /\ pc' = IF raised THEN "failed" ELSE "report"
      /\ UNCHANGED <<file, format, events, error, report, offline, apiKeys, dotenv,
                     findings, pending, abuse, grey, raised, requests>>
  BY DEF ExitClients, given, inputs
<1>2. AnalysisTypeOK'
  BY <1>1 DEF AnalysisTypeOK, LookupsOK, Stages, Consistent
<1>3. EventsRead' /\ RefusalHonest'
  BY <1>1 DEF EventsRead, Parsed, WellFormed, RefusalHonest, TryWhole
<1>4. FindingsMade'
  BY <1>1 DEF FindingsMade, Detections, Rescorings, Settled
<1>5. /\ SourcesInTurn' /\ NotAskedYet' /\ ClientsCounted'
      /\ AskedOnce' /\ OfflineSilent' /\ ReportBuilt'
  BY <1>1 DEF SourcesInTurn, KeysUnread, KeyRaises, CutShort, NotAskedYet, ClientsCounted,
              ClientsHeld, Connected, AskedOnce, OfflineSilent, ReportBuilt, MatchTooLong
<1>6. QED
  BY <1>2, <1>3, <1>4, <1>5

\* A rescored finding is valid when its own source is settled.
LEMMA RescoringValid ==
  ASSUME EventsRead, NEW d \in Detections, NEW r \in Percent, NEW g
  PROVE  FindingValid(RescoreFinding(d, r, g))
<1>1. PICK x \in FindingParts : d = NewFinding(d.event, d.source, x[1], x[2], x[3], x[4])
  BY DetectionSource
<1>2. x[2] \in Severities \X Percent /\ x[3] \in Seq(FieldNames) /\ x[3] # <<>> /\ IsInjective(x[4])
  <2>1. x[2] \in Severities \X Percent /\ x[3] \in Seq(FieldNames) /\ x[3] # <<>>
        /\ (x[4] = <<>> \/ x[4] = <<Technique>>)
    BY DEF FindingParts
  <2>2. IsInjective(<<>>) /\ IsInjective(<<Technique>>)
    BY DEF IsInjective
  <2>3. QED
    BY <2>1, <2>2
<1>3. \A n, src : FindingValid(RescoreFinding(NewFinding(n, src, x[1], x[2], x[3], x[4]), r, g))
  BY <1>2, RescoredFindingValid
<1>4. QED
  BY <1>1, <1>3, Zenon

\* Every finding is rescored with the results of its own source, and accepted.
LEMMA RescoreStep ==
  ASSUME AnalysisInv, UNCHANGED <<given, events, error, report>>, Rescore
  PROVE  AnalysisInv'
<1> USE DEF AnalysisInv
<1> DEFINE new == [i \in Finding |->
                     RescoreFinding(findings[i], abuse[Source(i)].score, grey[Source(i)])]
<1>1. /\ pc = "rescore" /\ findings' = new
      /\ raised' = ~\A f \in ToSet(findings') : FindingValid(f)
      /\ pc' = "closing"
      /\ UNCHANGED <<file, format, events, error, report, offline, apiKeys, dotenv,
                     pending, abuse, grey, connections, requests>>
  BY DEF Rescore, given, inputs
<1>2. findings \in Seq(Detections) /\ pending = <<>>
  BY <1>1 DEF FindingsMade, SourcesInTurn
<1> DEFINE N == Len(findings)
<1>3. N \in Nat /\ Finding = 1 .. N /\ \A i \in 1 .. N : findings[i] \in Detections
  BY <1>2, LenProperties, ElementOfSeq DEF Finding
<1>4. \A i \in 1 .. N : /\ abuse[Source(i)].score \in Percent /\ Source(i) = findings[i].source
                        /\ Settled(Source(i))
  <2>1. \A i \in 1 .. N : Settled(Source(i)) /\ Source(i) \in Keys
    <3>1. \A i \in 1 .. N : Source(i) \in ToSet(pending) \/ Settled(Source(i))
      BY <1>1, <1>3 DEF SourcesInTurn
    <3>2. ToSet(pending) = {}
      BY <1>2 DEF ToSet
    <3>3. QED
      BY <1>3, <3>1, <3>2, DetectionSource DEF Source
  <2>2. \A a \in AbuseResults : a.score \in Percent
    BY AbuseScoresAssumption DEF AbuseResults, Mock
  <2>3. abuse \in [Keys -> AbuseResults \cup {Unknown}]
    BY DEF AnalysisTypeOK, LookupsOK
  <2> HIDE DEF N
  <2>4. QED
    BY <2>1, <2>2, <2>3 DEF Source, Settled
<1>5. \A i \in 1 .. N : FindingValid(new[i]) /\ new[i] \in Rescorings
  <2>1. \A i \in 1 .. N : new[i] = RescoreFinding(findings[i], abuse[Source(i)].score, grey[Source(i)])
    BY <1>3
  <2> HIDE DEF new, N
  <2>2. \A i \in 1 .. N : FindingValid(new[i])
    BY <1>3, <1>4, <2>1, RescoringValid
  <2>3. \A i \in 1 .. N : new[i] \in Rescorings
    BY <1>3, <1>4, <2>1 DEF Rescorings
  <2>4. QED
    BY <2>2, <2>3
<1>6. new \in Seq(Rescorings) /\ DOMAIN new = 1 .. N
  <2>1. new = [i \in 1 .. N |-> new[i]]
    BY <1>3
  <2> HIDE DEF new, N
  <2>2. QED
    BY <1>3, <1>5, <2>1
<1>7. \A f \in ToSet(new) : FindingValid(f)
  <2> HIDE DEF new, N
  <2>1. QED
    BY <1>5, <1>6 DEF ToSet
<1> HIDE DEF new, N
<1>8. raised' = FALSE
  BY <1>1, <1>7, Zenon
<1>9. AnalysisTypeOK'
  BY <1>1, <1>8 DEF AnalysisTypeOK, LookupsOK, Stages, Consistent
<1>10. EventsRead' /\ RefusalHonest'
  BY <1>1 DEF EventsRead, Parsed, WellFormed, RefusalHonest, TryWhole
<1>11. FindingsMade'
  <2>1. Rescorings' = Rescorings
    BY <1>1 DEF Rescorings, Detections, Settled
  <2>2. QED
    BY <1>1, <1>6, <2>1 DEF FindingsMade
<1>12. SourcesInTurn'
  BY <1>1, <1>2, <1>8 DEF SourcesInTurn
<1>13. NotAskedYet' /\ ClientsCounted' /\ AskedOnce' /\ OfflineSilent' /\ ReportBuilt'
  BY <1>1 DEF NotAskedYet, ClientsCounted, ClientsHeld, Connected, AskedOnce, OfflineSilent,
              ReportBuilt, MatchTooLong, KeysUnread, KeyRaises, CutShort
<1>14. QED
  BY <1>9, <1>10, <1>11, <1>12, <1>13

-----------------------------------------------------------------------------
\* The report, and the theorems.

\* Flattening keeps the members of the sequences it joins, and no others.
LEMMA FlattenMembers ==
  ASSUME NEW S, NEW s \in Seq(Seq(S))
  PROVE  ToSet(FlattenSeq(s)) = UNION {ToSet(s[n]) : n \in 1 .. Len(s)}
<1> DEFINE t == FlattenSeq(s)
<1>1. t \in Seq(S)
  BY FlattenLists
<1>2. PICK at : Lists(at, t, s, Len(s))
  BY FlattenLists
<1> HIDE DEF t
<1>3. ToSet(t) = {t[i] : i \in 1 .. Len(t)}
  BY <1>1, LenProperties DEF ToSet
<1>4. \A n \in 1 .. Len(s) : ToSet(s[n]) = {s[n][k] : k \in 1 .. Len(s[n])}
  <2>1. \A n \in 1 .. Len(s) : s[n] \in Seq(S)
    BY ElementOfSeq
  <2>2. QED
    BY <2>1, LenProperties DEF ToSet
<1>5. ASSUME NEW x \in ToSet(t)
      PROVE  \E n \in 1 .. Len(s) : x \in ToSet(s[n])
  <2>1. PICK i \in 1 .. Len(t) : x = t[i]
    BY <1>3
  <2>2. /\ at[i] \in (1 .. Len(s)) \X Nat
        /\ at[i][2] \in 1 .. Len(s[at[i][1]])
        /\ t[i] = s[at[i][1]][at[i][2]]
    BY <1>2 DEF Lists
  <2> DEFINE n == at[i][1]
             k == at[i][2]
  <2>3. n \in 1 .. Len(s) /\ k \in 1 .. Len(s[n]) /\ x = s[n][k]
    BY <2>1, <2>2
  <2> HIDE DEF n, k
  <2>4. QED
    BY <1>4, <2>3
<1>6. ASSUME NEW n \in 1 .. Len(s), NEW x \in ToSet(s[n])
      PROVE  x \in ToSet(t)
  <2>1. PICK k \in 1 .. Len(s[n]) : x = s[n][k]
    BY <1>4
  <2>2. PICK i \in 1 .. Len(t) : at[i] = <<n, k>>
    BY <1>2 DEF Lists
  <2>3. t[i] = s[at[i][1]][at[i][2]]
    BY <1>2 DEF Lists
  <2>4. t[i] = s[n][k]
    BY <2>2, <2>3
  <2>5. QED
    BY <1>3, <2>1, <2>4
<1>7. QED
  BY <1>5, <1>6 DEF t

\* A score is always between 0 and 100.
LEMMA ScoreInRange ==
  ASSUME NEW p \in Severities \X Percent, NEW r \in Percent, NEW g
  PROVE  CalculateRiskScore(p[1], p[2], r, g) \in 0 .. 100
<1> DEFINE n == Subtotal(p[1], p[2], r)
           a == NoiseAdjustment(n, g)
<1>1. n \in 0 .. 100
  BY SubtotalInRange
<1> HIDE DEF n
<1>2. a \in Int
  BY <1>1 DEF NoiseAdjustment, Retained, Clamp
<1> HIDE DEF a
<1>3. Clamp(n + a) \in 0 .. 100
  BY <1>1, <1>2 DEF Clamp
<1>4. QED
  BY <1>3 DEF CalculateRiskScore, n, a

\* What a rescored finding says of its event, its source and its score.
LEMMA RescoringFacts ==
  ASSUME EventsRead, LookupsOK, NEW f \in Rescorings
  PROVE  /\ f.event \in DOMAIN events
         /\ f.source \in Keys /\ Settled(f.source)
         /\ f.profile \in Severities \X Percent
         /\ f.techniques \in Seq({Technique})
         /\ f.score = CalculateRiskScore(f.profile[1], f.profile[2],
                                         abuse[f.source].score, grey[f.source])
         /\ abuse[f.source].score \in Percent
         /\ f.score \in 0 .. 100
<1>1. PICK d \in Detections : /\ Settled(d.source)
                              /\ f = RescoreFinding(d, abuse[d.source].score, grey[d.source])
  BY DEF Rescorings
<1>2. /\ d.source \in Keys /\ d.event \in DOMAIN events /\ d.profile \in Severities \X Percent
      /\ \E x \in FindingParts : d = NewFinding(d.event, d.source, x[1], x[2], x[3], x[4])
  BY DetectionSource
<1>3. PICK x \in FindingParts : d = NewFinding(d.event, d.source, x[1], x[2], x[3], x[4])
  BY <1>2
<1> DEFINE r == abuse[d.source].score
           g == grey[d.source]
<1>4. x[2] \in Severities \X Percent /\ x[3] \in Seq(FieldNames) /\ x[4] \in {<<>>, <<Technique>>}
  BY DEF FindingParts
<1>5. x[4] \in Seq({Technique})
  <2>1. <<>> \in Seq({Technique}) /\ <<Technique>> \in Seq({Technique})
    OBVIOUS
  <2>2. x[4] = <<>> \/ x[4] = <<Technique>>
    BY <1>4
  <2>3. QED
    BY <2>1, <2>2, Zenon
<1>6. \A n, src, q, h : RescoredParts(RescoreFinding(NewFinding(n, src, x[1], x[2], x[3], x[4]), q, h),
                                      n, src, x[2], x[4], q, h, Len(x[3]))
  BY <1>4, RescoredLists
<1>7. RescoredParts(f, d.event, d.source, x[2], x[4], r, g, Len(x[3]))
  <2>1. f = RescoreFinding(NewFinding(d.event, d.source, x[1], x[2], x[3], x[4]), r, g)
    BY <1>1, <1>3, Zenon
  <2> HIDE DEF r, g
  <2>2. QED
    BY <1>6, <2>1, Zenon
<1>8. /\ f.event = d.event /\ f.source = d.source /\ f.profile = x[2] /\ f.techniques = x[4]
      /\ f.score = CalculateRiskScore(x[2][1], x[2][2], r, g)
  BY <1>7, Zenon DEF RescoredParts
<1>9. r \in Percent
  <2>1. \A a \in AbuseResults : a.score \in Percent
    BY AbuseScoresAssumption DEF AbuseResults, Mock
  <2>2. abuse \in [Keys -> AbuseResults \cup {Unknown}] /\ abuse[d.source] # Unknown
    BY <1>1 DEF LookupsOK, Settled
  <2>3. QED
    BY <1>2, <2>1, <2>2
<1>10. f.score \in 0 .. 100
  BY <1>4, <1>8, <1>9, ScoreInRange
<1> HIDE DEF Keys
<1>11. QED
  BY <1>1, <1>2, <1>4, <1>5, <1>8, <1>9, <1>10

\* A report's score is that of its highest finding, and between 0 and 100.
LEMMA HighestScore ==
  ASSUME NEW S, NEW fs \in Seq(S), \A f \in S : f.score \in 0 .. 100
  PROVE  Highest(fs) \in 0 .. 100
<1>1. Len(fs) \in Nat /\ DOMAIN fs = 1 .. Len(fs) /\ \A i \in 1 .. Len(fs) : fs[i] \in S
  BY LenProperties, ElementOfSeq
<1>2. CASE fs = <<>>
  BY <1>2 DEF Highest
<1>3. CASE fs # <<>>
  <2> DEFINE T == {f.score : f \in ToSet(fs)}
  <2>1. ToSet(fs) \subseteq S /\ ToSet(fs) # {}
    <3>1. Len(fs) # 0
      BY <1>3, EmptySeq
    <3>2. 1 \in DOMAIN fs
      BY <1>1, <3>1
    <3>3. QED
      BY <1>1, <3>2 DEF ToSet
  <2>2. T \subseteq 0 .. 100 /\ T # {}
    BY <2>1
  <2>3. \A f \in ToSet(fs) : f.score \in T
    OBVIOUS
  <2> HIDE DEF T
  <2>4. \E b \in T : \A m \in T : m <= b
    <3>1. T \subseteq Nat /\ 100 \in Nat /\ \A n \in T : n <= 100
      BY <2>2
    <3>2. QED
      BY <2>2, <3>1, GreatestNumber
  <2>5. \E b \in T : \A f \in ToSet(fs) : f.score <= b
    BY <2>3, <2>4
  <2>6. (CHOOSE b \in T : \A f \in ToSet(fs) : f.score <= b) \in T
    BY <2>5
  <2>7. Highest(fs) = CHOOSE b \in T : \A f \in ToSet(fs) : f.score <= b
    BY <1>3 DEF Highest, T
  <2>8. QED
    BY <2>2, <2>6, <2>7
<1>4. QED
  BY <1>2, <1>3

\* A report's techniques are those of its findings, each once.
LEMMA ReportTechniques ==
  ASSUME NEW S, NEW fs \in Seq(S), NEW T, \A f \in S : f.techniques \in Seq(T)
  PROVE  /\ IsInjective(AggregateMitreMappings(fs))
         /\ ToSet(AggregateMitreMappings(fs)) = UNION {ToSet(f.techniques) : f \in ToSet(fs)}
<1> DEFINE s == [i \in DOMAIN fs |-> fs[i].techniques]
<1>1. Len(fs) \in Nat /\ DOMAIN fs = 1 .. Len(fs) /\ \A i \in 1 .. Len(fs) : fs[i] \in S
  BY LenProperties, ElementOfSeq
<1>2. /\ s \in Seq(Seq(T)) /\ Len(s) = Len(fs)
      /\ \A i \in 1 .. Len(fs) : s[i] = fs[i].techniques
  BY <1>1
<1>3. AggregateMitreMappings(fs) = Deduplicated(FlattenSeq(s))
  BY DEF AggregateMitreMappings
<1> HIDE DEF s
<1>4. FlattenSeq(s) \in Seq(T)
  BY <1>2, FlattenLists
<1>5. /\ IsInjective(AggregateMitreMappings(fs))
      /\ ToSet(AggregateMitreMappings(fs)) = ToSet(FlattenSeq(s))
  BY <1>3, <1>4, DeduplicatedMembers
<1>6. ToSet(FlattenSeq(s)) = UNION {ToSet(s[n]) : n \in 1 .. Len(fs)}
  BY <1>2, FlattenMembers
<1>7. ToSet(fs) = {fs[i] : i \in 1 .. Len(fs)}
  BY <1>1 DEF ToSet
<1>8. UNION {ToSet(s[n]) : n \in 1 .. Len(fs)} = UNION {ToSet(f.techniques) : f \in ToSet(fs)}
  <2>1. \A n \in 1 .. Len(fs) : ToSet(s[n]) = ToSet(fs[n].techniques)
    BY <1>2
  <2>2. {ToSet(s[n]) : n \in 1 .. Len(fs)} = {ToSet(f.techniques) : f \in ToSet(fs)}
    BY <1>7, <2>1
  <2>3. QED
    BY <2>2
<1>9. QED
  BY <1>5, <1>6, <1>8

\* The parts of a report that its validator looks at.
LEMMA ReportParts ==
  ASSUME NEW fs
  PROVE  /\ Report(fs).score = Highest(fs)
         /\ \E x : /\ x.points = Highest(fs) /\ x.evidence \subseteq AllEvidence(fs)
                   /\ Report(fs).components = <<x>>
         /\ Report(fs).techniques = AggregateMitreMappings(fs)
         /\ DOMAIN Report(fs).trace = 1 .. 5
         /\ \A n \in 1 .. 5 : /\ Report(fs).trace[n].sequence = n
                              /\ Report(fs).trace[n].evidence \subseteq AllEvidence(fs)
<1> DEFINE all == AllEvidence(fs)
           h == {id \in all : fs[id[1]].score = Highest(fs)}
           x == Component(Highest(fs), h)
           o2 == all \ EvidenceOf(fs, {"abuseipdb", "greynoise"})
           o3 == EvidenceOf(fs, {"abuseipdb"})
           o4 == EvidenceOf(fs, {"greynoise"})
           t == Report(fs).trace
<1>1. /\ Report(fs).score = Highest(fs)
      /\ Report(fs).components = <<x>>
      /\ Report(fs).techniques = AggregateMitreMappings(fs)
      /\ t = <<Entry(1, "ingestion", {}), Entry(2, "detection", o2), Entry(3, "enrichment", o3),
               Entry(4, "enrichment", o4), Entry(5, "triage", all)>>
  BY DEF Report
<1>2. h \subseteq all /\ o2 \subseteq all /\ o3 \subseteq all /\ o4 \subseteq all /\ {} \subseteq all
  BY DEF EvidenceOf
<1>3. x.points = Highest(fs) /\ x.evidence = h
  BY DEF Component
<1>4. \A n, s, e : Entry(n, s, e).sequence = n /\ Entry(n, s, e).evidence = e
  BY DEF Entry
<1> HIDE DEF all, h, x, o2, o3, o4, t
<1>5. /\ DOMAIN t = 1 .. 5
      /\ t[1] = Entry(1, "ingestion", {}) /\ t[2] = Entry(2, "detection", o2)
      /\ t[3] = Entry(3, "enrichment", o3) /\ t[4] = Entry(4, "enrichment", o4)
      /\ t[5] = Entry(5, "triage", all)
  BY <1>1
<1>6. \A n \in 1 .. 5 : n = 1 \/ n = 2 \/ n = 3 \/ n = 4 \/ n = 5
  OBVIOUS
<1>7. \A n \in 1 .. 5 : t[n].sequence = n /\ t[n].evidence \subseteq all
  BY <1>2, <1>4, <1>5, <1>6
<1>8. QED
  BY <1>1, <1>2, <1>3, <1>5, <1>7 DEF all, t

\* The report of rescored findings is one that its validator accepts.
LEMMA ReportAccepted ==
  ASSUME AnalysisInv, pc = "report"
  PROVE  ReportValid(Report(findings), findings, events, offline, Modes)
<1> USE DEF AnalysisInv
<1>1. events # <<>>
  BY DEF EventsRead, Parsed
<1>2. offline => "live" \notin Modes
  BY DEF OfflineSilent, Modes
<1>3. findings \in Seq(Rescorings) /\ \A f \in ToSet(findings) : f \in Rescorings
  <2>1. findings \in Seq(Rescorings)
    BY DEF FindingsMade
  <2>2. QED
    BY <2>1, LenProperties, ElementOfSeq DEF ToSet
<1>4. \A f \in Rescorings : /\ f.event \in DOMAIN events
                            /\ f.techniques \in Seq({Technique})
                            /\ f.score \in 0 .. 100
  BY RescoringFacts DEF AnalysisTypeOK
<1> DEFINE R == Report(findings)
<1>5. PICK x : /\ x.points = Highest(findings) /\ x.evidence \subseteq AllEvidence(findings)
               /\ R.components = <<x>>
  BY ReportParts
<1>6. /\ R.score = Highest(findings)
      /\ R.techniques = AggregateMitreMappings(findings)
      /\ DOMAIN R.trace = 1 .. 5
      /\ \A n \in 1 .. 5 : /\ R.trace[n].sequence = n
                           /\ R.trace[n].evidence \subseteq AllEvidence(findings)
  BY ReportParts
<1> HIDE DEF R
<1>7. Referenced(R.components, R.trace) \subseteq AllEvidence(findings)
  <2>1. \A n \in DOMAIN <<x>> : <<x>>[n].evidence \subseteq AllEvidence(findings)
    BY <1>5
  <2>2. QED
    BY <1>5, <1>6, <2>1, ReferencedWithin
<1>8. ClampedScore(R.components) = R.score
  <2>1. Highest(findings) \in 0 .. 100
    BY <1>3, <1>4, HighestScore
  <2>2. QED
    BY <1>5, <1>6, <2>1, OnePart
<1>9. Contiguous(R.trace)
  BY <1>6 DEF Contiguous
<1>10. /\ IsInjective(R.techniques)
       /\ ToSet(R.techniques) = UNION {ToSet(f.techniques) : f \in ToSet(findings)}
  BY <1>3, <1>4, <1>6, ReportTechniques
<1>11. QED
  BY <1>1, <1>2, <1>3, <1>4, <1>7, <1>8, <1>9, <1>10 DEF ReportValid, R

\* The report is built, whatever the lookups gave.
LEMMA ReportStep ==
  ASSUME AnalysisInv, BuildReport
  PROVE  AnalysisInv'
<1> USE DEF AnalysisInv
<1>1. /\ pc = "report" /\ report' = Report(findings) /\ pc' = "done"
      /\ UNCHANGED <<file, format, events, error, offline, apiKeys, dotenv, findings,
                     pending, abuse, grey, connections, raised, requests>>
  BY ReportAccepted DEF BuildReport, given, inputs
<1>2. report' # NoReport
  <2>1. DOMAIN Report(findings).trace = 1 .. 5
    BY ReportParts
  <2>2. DOMAIN NoReport.trace = {}
    BY DEF NoReport
  <2>3. 1 \in 1 .. 5
    OBVIOUS
  <2>4. QED
    BY <1>1, <2>1, <2>2, <2>3
<1>3. AnalysisTypeOK'
  BY <1>1, <1>2 DEF AnalysisTypeOK, LookupsOK, Stages, Consistent
<1>4. EventsRead' /\ RefusalHonest'
  BY <1>1 DEF EventsRead, Parsed, WellFormed, RefusalHonest, TryWhole
<1>5. FindingsMade'
  BY <1>1 DEF FindingsMade, Detections, Rescorings, Settled
<1>6. /\ SourcesInTurn' /\ NotAskedYet' /\ ClientsCounted'
      /\ AskedOnce' /\ OfflineSilent' /\ ReportBuilt'
  BY <1>1 DEF SourcesInTurn, KeysUnread, KeyRaises, CutShort, NotAskedYet, ClientsCounted,
              ClientsHeld, Connected, AskedOnce, OfflineSilent, ReportBuilt, MatchTooLong
<1>7. QED
  BY <1>3, <1>4, <1>5, <1>6

\* The pipeline starts with nothing parsed, found or asked.
LEMMA Starts ==
  ASSUME AnalysisInit
  PROVE  AnalysisInv
<1>1. /\ offline \in BOOLEAN /\ apiKeys \subseteq Providers /\ dotenv \in {"text", "not_utf8"}
      /\ pending = <<>>
      /\ abuse = [k \in Keys |-> Unknown] /\ grey = [k \in Keys |-> Unknown]
      /\ connections = {} /\ raised = FALSE
      /\ requests = [p \in Providers |-> [k \in Keys |-> 0]]
      /\ findings = <<>> /\ pc = "ingest" /\ file \in Files /\ events = <<>>
      /\ error = NoError /\ report = NoReport
  BY DEF AnalysisInit, BeforeLookups
<1>2. Len(file) \in Nat
  BY <1>1, FilesAssumption, LenProperties
<1>3. LookupsOK
  <2>1. pending \in Seq(Keys)
    BY <1>1
  <2>2. requests \in [Providers -> [Keys -> Nat]]
    <3>1. [k \in Keys |-> 0] \in [Keys -> Nat]
      OBVIOUS
    <3>2. QED
      BY <1>1, <3>1
  <2>3. /\ abuse \in [Keys -> AbuseResults \cup {Unknown}]
        /\ grey \in [Keys -> NoiseResults \cup {Unknown}]
        /\ \A k \in Keys : grey[k] = Unknown
    BY <1>1
  <2>4. QED
    BY <1>1, <2>1, <2>2, <2>3 DEF LookupsOK
<1>4. AnalysisTypeOK
  BY <1>1, <1>2, <1>3 DEF AnalysisTypeOK, Stages, NoError
<1>5. EventsRead /\ FindingsMade
  BY <1>1 DEF EventsRead, Parsed, FindingsMade
<1>6. RefusalHonest
  BY <1>1 DEF RefusalHonest, NoError
<1>7. SourcesInTurn /\ NotAskedYet /\ ClientsCounted /\ AskedOnce /\ ReportBuilt
  BY <1>1 DEF SourcesInTurn, NotAskedYet, ClientsCounted, ClientsHeld, AskedOnce, ReportBuilt,
              IsInjective
<1>8. OfflineSilent
  BY <1>1 DEF OfflineSilent, Unknown
<1>9. QED
  BY <1>4, <1>5, <1>6, <1>7, <1>8 DEF AnalysisInv

\* A run that is over, or a step of nobody, changes nothing.
LEMMA StaysPut ==
  ASSUME AnalysisInv, UNCHANGED analysisVars
  PROVE  AnalysisInv'
<1> USE DEF AnalysisInv
<1>1. UNCHANGED <<file, format, events, error, report, offline, apiKeys, dotenv, findings,
                  pc, pending, abuse, grey, connections, raised, requests>>
  BY DEF analysisVars, vars
<1>2. AnalysisTypeOK'
  BY <1>1 DEF AnalysisTypeOK, LookupsOK, Stages, Consistent
<1>3. EventsRead' /\ RefusalHonest'
  BY <1>1 DEF EventsRead, Parsed, WellFormed, RefusalHonest, TryWhole
<1>4. FindingsMade'
  BY <1>1 DEF FindingsMade, Detections, Rescorings, Settled
<1>5. SourcesInTurn'
  BY <1>1 DEF SourcesInTurn, KeysUnread, KeyRaises, CutShort, Settled, Finding, Source
<1>6. NotAskedYet' /\ ClientsCounted' /\ AskedOnce' /\ OfflineSilent' /\ ReportBuilt'
  BY <1>1 DEF NotAskedYet, ClientsCounted, ClientsHeld, Connected, AskedOnce, OfflineSilent,
              ReportBuilt, MatchTooLong, KeysUnread, KeyRaises, CutShort
<1>7. QED
  BY <1>2, <1>3, <1>4, <1>5, <1>6

\* The inductive invariant of the whole pipeline, from the file to the report.
THEOREM Invariance == AnalysisSpec => []AnalysisInv
<1>1. AnalysisInit => AnalysisInv
  BY Starts
<1>2. AnalysisInv /\ [AnalysisNext]_analysisVars => AnalysisInv'
  <2> SUFFICES ASSUME AnalysisInv, [AnalysisNext]_analysisVars
               PROVE  AnalysisInv'
    OBVIOUS
  <2>1. CASE ReadFails \/ ParseWhole \/ WholeRaises \/ ParseLines \/ LineRefused
    BY <2>1, ParserStep
  <2>2. CASE Detect
    BY <2>2, DetectStep
  <2>3. CASE DetectRaises
    BY <2>3, DetectRaisesStep
  <2>4. CASE Enrich
    <3>1. UNCHANGED <<given, events, error, report>>
      BY <2>4 DEF Enrich
    <3>2. CASE NoFindings
      BY <3>1, <3>2, NoFindingsStep
    <3>3. CASE EnterAbuse
      BY <3>1, <3>3, EnterAbuseStep
    <3>4. CASE EnterOffline \/ EnterGrey
      BY <3>1, <3>4, EnterStep
    <3>5. CASE KeyUnreadable
      BY <3>1, <3>5, UnreadableStep
    <3>6. CASE AbuseNotAsked \/ AbuseAnswered \/ GreyNotAsked \/ GreyAnswered
      BY <3>1, <3>6, LookupStep
    <3>7. CASE AbuseOverflows
      BY <3>1, <3>7, OverflowStep
    <3>8. CASE Rescore
      BY <3>1, <3>8, RescoreStep
    <3>9. CASE ExitClients
      BY <3>1, <3>9, ExitStep
    <3>10. QED
      BY <2>4, <3>2, <3>3, <3>4, <3>5, <3>6, <3>7, <3>8, <3>9 DEF Enrich, Next
  <2>5. CASE BuildReport
    BY <2>5, ReportStep
  <2>6. CASE Returned \/ UNCHANGED analysisVars
    BY <2>6, StaysPut DEF Returned
  <2>7. QED
    BY <2>1, <2>2, <2>3, <2>4, <2>5, <2>6 DEF AnalysisNext
<1>3. QED
  BY <1>1, <1>2, PTL DEF AnalysisSpec

\* Every variable of the pipeline has its type, in every state: a run fails
\* with an error of the parser or raises, and has a report only when it is done.
THEOREM TypeCorrect == AnalysisSpec => []AnalysisTypeOK
<1>1. AnalysisInv => AnalysisTypeOK
  BY DEF AnalysisInv
<1>2. QED
  BY <1>1, Invariance, PTL

\* However many findings name a source, each provider is asked about it at most
\* once, and not at all by an offline run or one without a key for it (cli.py
\* L262-274).
THEOREM AsksOnce == AnalysisSpec => []AskedOnce
<1>1. AnalysisInv => AskedOnce
  BY DEF AnalysisInv
<1>2. QED
  BY <1>1, Invariance, PTL

\* The lookups share a client for each key, opened before the first of them, and
\* none is left open by a run that is over, however it ended (cli.py L540-584).
THEOREM HoldsClients == AnalysisSpec => []ClientsHeld
<1>1. AnalysisInv => ClientsHeld
  BY DEF AnalysisInv, ClientsCounted
<1>2. QED
  BY <1>1, Invariance, PTL

\* For every log and every format: either every record becomes an event, in
\* order, or the log is refused at the first line that is no record.
THEOREM ReadsAllOrNothing == AnalysisSpec => []AllOrNothing
<1>1. AnalysisInv => AllOrNothing
  BY DEF AnalysisInv, EventsRead, RefusalHonest, AllOrNothing, AsRead
<1>2. QED
  BY <1>1, Invariance, PTL

\* No finding a detector makes, no rescored one and no report built of them is
\* ever refused by its validator (models.py L425-468, L503-583): past the parser
\* only a match too long to be quoted, a .env that a key cannot be read from or a
\* provider's answer that overflows ends a run.
THEOREM ReportsOnceParsed == AnalysisSpec => []ReportBuilt
<1>1. AnalysisInv => ReportBuilt
  BY DEF AnalysisInv
<1>2. QED
  BY <1>1, Invariance, PTL

\* What the finding i of a run that has been rescored is.
LEMMA FindingFacts ==
  ASSUME AnalysisInv, Rescored, NEW i \in Finding
  PROVE  /\ findings[i].profile \in Severities \X Percent
         /\ grey[Source(i)] \in NoiseResults
         /\ abuse[Source(i)] \in AbuseResults /\ abuse[Source(i)].score \in Percent
         /\ findings[i].score = CalculateRiskScore(findings[i].profile[1], findings[i].profile[2],
                                                   abuse[Source(i)].score, grey[Source(i)])
<1>1. /\ findings \in Seq(Rescorings) /\ EventsRead /\ LookupsOK
  BY DEF AnalysisInv, FindingsMade, Rescored, AnalysisTypeOK
<1>2. findings[i] \in Rescorings
  BY <1>1, ElementOfSeq, LenProperties DEF Finding
<1> DEFINE f == findings[i]
<1> HIDE DEF f
<1>3. /\ f.source \in Keys /\ Settled(f.source)
      /\ f.profile \in Severities \X Percent
      /\ f.score = CalculateRiskScore(f.profile[1], f.profile[2], abuse[f.source].score, grey[f.source])
      /\ abuse[f.source].score \in Percent
  BY <1>1, <1>2, RescoringFacts DEF f
<1>4. grey[f.source] \in NoiseResults /\ abuse[f.source] \in AbuseResults
  BY <1>1, <1>3 DEF LookupsOK, Settled
<1>5. QED
  BY <1>3, <1>4 DEF f, Source

\* A finding whose source no provider answered about keeps its detector's score.
THEOREM StaysNeutral == AnalysisSpec => []NeutralUnlessLive
<1>1. ASSUME AnalysisInv
      PROVE  NeutralUnlessLive
  <2> SUFFICES ASSUME Rescored, NEW i \in Finding,
                      abuse[Source(i)].mode # "live", grey[Source(i)].mode # "live"
               PROVE  findings[i].score = Detected(i)
    BY DEF NeutralUnlessLive
  <2> DEFINE p == findings[i].profile
             r == abuse[Source(i)].score
             g == grey[Source(i)]
  <2>1. /\ p \in Severities \X Percent /\ g \in NoiseResults /\ abuse[Source(i)] \in AbuseResults
        /\ findings[i].score = CalculateRiskScore(p[1], p[2], r, g)
    BY <1>1, FindingFacts
  <2>2. r = 0 /\ ~RiskReductionEligible(g)
    BY <2>1 DEF AbuseResults, Mock, RiskReductionEligible
  <2>3. Detected(i) = DetectionScore(p[1], p[2])
    BY DEF Detected
  <2> HIDE DEF p, r, g
  <2>4. 0 \in Percent /\ p[1] \in Severities /\ p[2] \in Percent
    BY <2>1 DEF Percent
  <2>5. findings[i].score = Subtotal(p[1], p[2], 0)
    BY <2>1, <2>2, <2>4, ScoreIsSubtotalOrQuarter
  <2>6. Subtotal(p[1], p[2], 0) \in 0 .. 100
    BY <2>4, SubtotalInRange
  <2>7. QED
    BY <2>3, <2>5, <2>6 DEF DetectionScore, Clamp
<1>2. QED
  BY <1>1, Invariance, PTL

\* Only live, matched noise from its own source lowers a finding's score.
THEOREM LowersOnlyByNoise == AnalysisSpec => []LoweredOnlyByNoise
<1>1. ASSUME AnalysisInv
      PROVE  LoweredOnlyByNoise
  <2> SUFFICES ASSUME Rescored, NEW i \in Finding, findings[i].score < Detected(i)
               PROVE  RiskReductionEligible(grey[Source(i)])
    BY DEF LoweredOnlyByNoise, RiskReductionEligible
  <2> DEFINE p == findings[i].profile
             r == abuse[Source(i)].score
             g == grey[Source(i)]
  <2>1. /\ p \in Severities \X Percent /\ g \in NoiseResults /\ r \in Percent
        /\ findings[i].score = CalculateRiskScore(p[1], p[2], r, g)
    BY <1>1, FindingFacts
  <2>2. Detected(i) = DetectionScore(p[1], p[2])
    BY DEF Detected
  <2>3. p[1] \in Severities /\ p[2] \in Percent
    BY <2>1
  <2> SUFFICES ASSUME ~RiskReductionEligible(g)
               PROVE  FALSE
    OBVIOUS
  <2> HIDE DEF p, r, g
  <2>4. DetectionScore(p[1], p[2]) <= CalculateRiskScore(p[1], p[2], r, g)
    BY <2>1, <2>3, ReputationNeverLowers
  <2>5. /\ DetectionScore(p[1], p[2]) \in 0 .. 100
        /\ CalculateRiskScore(p[1], p[2], r, g) \in 0 .. 100
    <3>1. 0 \in Percent
      BY DEF Percent
    <3>2. Subtotal(p[1], p[2], 0) \in 0 .. 100
      BY <2>3, <3>1, SubtotalInRange
    <3>3. QED
      BY <2>1, <3>2, ScoreInRange DEF DetectionScore, Clamp
  <2>6. QED
    BY <2>1, <2>2, <2>4, <2>5
<1>2. QED
  BY <1>1, Invariance, PTL

-----------------------------------------------------------------------------
\* The findings are complete.

\* The events are of records accepted in the log's format, and from detection on the
\* findings are one for each event and each rule it is owed.
Accounted ==
  /\ format \in Formats
  /\ \A n \in DOMAIN events :
       \E f \in Formats \cup {"json"} : Outcome(Records(file)[n], f) = "event"
  /\ pc \notin {"ingest", "detect", "failed"} => Exactly(findings, events)

\* Most steps leave events and findings alone.
LEMMA AccountedKept ==
  ASSUME Accounted, UNCHANGED <<file, format, events, findings>>,
         pc' \in {"ingest", "detect", "failed"} \/ pc \notin {"ingest", "detect", "failed"}
  PROVE  Accounted'
BY DEF Accounted

\* Rescoring leaves alone which event and rule a finding is of, and its source.
LEMMA RescoringKeepsExactly ==
  ASSUME AnalysisInv, Accounted, Rescore, UNCHANGED <<file, format, events>>
  PROVE  Exactly(findings', events)
<1>1. /\ pc = "rescore"
      /\ findings' = [i \in Finding |->
                        RescoreFinding(findings[i], abuse[Source(i)].score, grey[Source(i)])]
  BY DEF Rescore
<1>2. findings \in Seq(Detections) /\ EventsRead /\ Exactly(findings, events)
  BY <1>1 DEF AnalysisInv, FindingsMade, Accounted
<1>3. DOMAIN findings' = DOMAIN findings
  BY <1>1 DEF Finding
<1>4. ASSUME NEW i \in DOMAIN findings
      PROVE  /\ findings'[i].event = findings[i].event
             /\ findings'[i].rule = findings[i].rule
             /\ findings'[i].source = findings[i].source
  <2>1. findings[i] \in Detections
    BY <1>2, ElementOfSeq, LenProperties
  <2>2. PICK x \in FindingParts :
          findings[i] = NewFinding(findings[i].event, findings[i].source, x[1], x[2], x[3], x[4])
    BY <1>2, <2>1, DetectionSource
  <2>3. \A n, src : HasFields(NewFinding(n, src, x[1], x[2], x[3], x[4]))
    BY DEF HasFields, NewFinding
  <2>4. HasFields(findings[i])
    BY <2>2, <2>3, Zenon
  <2> DEFINE r == abuse[Source(i)].score
             g == grey[Source(i)]
  <2>5. findings'[i] = RescoreFinding(findings[i], r, g)
    BY <1>1 DEF Finding
  <2> DEFINE f == findings[i]
             e == RescoreFinding(f, r, g)
  <2> HIDE DEF r, g
  <2>6. Changed(e, f, r, g, Len(f.evidence), Len(f.trace))
    BY <2>4, Rescoring
  <2>7. e.event = f.event /\ e.rule = f.rule /\ e.source = f.source
    BY <2>6 DEF Changed
  <2>8. QED
    BY <2>5, <2>7
<1>5. QED
  BY <1>2, <1>3, <1>4 DEF Exactly

\* Every step of the pipeline keeps account of the findings.
LEMMA AccountedStep ==
  ASSUME AnalysisInv, Accounted, [AnalysisNext]_analysisVars
  PROVE  Accounted'
<1>1. CASE ParseWhole \/ ParseLines
  <2>1. /\ pc = "ingest" /\ Ingested(Records(file))
        /\ \E f \in {"json", format} :
             \A n \in 1 .. Len(Records(file)) : Outcome(Records(file)[n], f) = "event"
    BY <1>1, WholeLogRead DEF AnalysisInv, EventsRead
  <2>2. pc' = "detect" /\ UNCHANGED <<file, format>> /\ events' = AsRead(file)
    BY <2>1 DEF Ingested, given, AsRead
  <2>3. DOMAIN events' = 1 .. Len(Records(file))
    BY <2>2, EventsOfLog DEF AnalysisInv, EventsRead
  <2>4. QED
    BY <2>1, <2>2, <2>3 DEF Accounted
<1>2. CASE Detect
  <2>1. /\ pc = "detect"
        /\ UNCHANGED <<file, format, events>>
        /\ findings' = FlattenSeq([n \in DOMAIN events |->
                         FoundIn(events[n], n, SourceOf(events[n]))])
    BY <1>2 DEF Detect, FoundIn, given
  <2>2. /\ file \in Files /\ events = AsRead(file)
        /\ \A n \in DOMAIN events : WellFormed(events[n])
    BY <2>1 DEF AnalysisInv, EventsRead, Parsed
  <2>3. events \in Seq({EventOf(x) : x \in ToSet(file)})
    BY <2>2, EventsOfLog
  <2>4. Exactly(findings', events)
    BY <2>1, <2>2, <2>3, FoundExactly
  <2>5. QED
    BY <2>1, <2>4 DEF Accounted
<1>3. CASE Rescore /\ UNCHANGED <<file, format, events>>
  BY <1>3, RescoringKeepsExactly DEF Accounted
<1>4. CASE ReadFails \/ WholeRaises \/ LineRefused \/ DetectRaises
  <2>1. pc' = "failed" /\ UNCHANGED <<file, format, events, findings>>
    BY <1>4 DEF ReadFails, WholeRaises, LineRefused, DetectRaises, Fail, given
  <2>2. QED
    BY <2>1, AccountedKept
<1>5. CASE /\ UNCHANGED <<file, format, events>>
           /\ \/ NoFindings \/ EnterOffline \/ EnterAbuse \/ EnterGrey \/ KeyUnreadable
              \/ AbuseNotAsked \/ AbuseAnswered \/ AbuseOverflows
              \/ GreyNotAsked \/ GreyAnswered \/ ExitClients
  <2>1. UNCHANGED findings /\ pc \notin {"ingest", "detect", "failed"}
    BY <1>5 DEF NoFindings, EnterOffline, EnterAbuse, EnterGrey, KeyUnreadable,
                AbuseNotAsked, AbuseAnswered, AbuseOverflows, GreyNotAsked,
                GreyAnswered, ExitClients
  <2>2. QED
    BY <1>5, <2>1, AccountedKept
<1>6. CASE BuildReport
  <2>1. UNCHANGED <<file, format, events, findings>> /\ pc = "report"
    BY <1>6 DEF BuildReport, given
  <2>2. QED
    BY <2>1, AccountedKept
<1>7. CASE UNCHANGED analysisVars
  <2>1. UNCHANGED <<file, format, events, findings, pc>>
    BY <1>7 DEF analysisVars, vars
  <2>2. QED
    BY <2>1, AccountedKept
<1>8. CASE Enrich
  <2>1. UNCHANGED <<file, format, events>> /\ Next
    BY <1>8 DEF Enrich, given
  <2>2. QED
    BY <1>3, <1>5, <2>1 DEF Next
<1>9. QED
  BY <1>1, <1>2, <1>4, <1>6, <1>7, <1>8 DEF AnalysisNext, Returned

\* When the report is built, the findings are one for each record and each
\* thing wrong with it, each laid to the address its record names.
LEMMA AccountedComplete ==
  ASSUME AnalysisInv, Accounted
  PROVE  FindingsComplete
<1> SUFFICES ASSUME pc = "done"
             PROVE  /\ {<<f.event, f.rule>> : f \in ToSet(findings)} =
                         UNION {{n} \X Expected(Records(file)[n]) : n \in DOMAIN Records(file)}
                    /\ IsInjective([i \in Finding |-> <<findings[i].event, findings[i].rule>>])
                    /\ \A i \in Finding : Names(Records(file)[findings[i].event], Source(i))
  BY DEF FindingsComplete
<1> DEFINE R == Records(file)
<1>1. file \in Files /\ events = AsRead(file) /\ Exactly(findings, events)
  BY DEF AnalysisInv, EventsRead, Parsed, Accounted
<1>2. /\ DOMAIN events = DOMAIN R
      /\ \A n \in DOMAIN R : events[n] = EventOf(R[n])
  BY <1>1, EventsOfLog
<1>3. ASSUME NEW n \in DOMAIN R
      PROVE  Owed(events[n]) = Expected(R[n]) /\ Names(R[n], SourceOf(events[n]))
  <2>1. (IsObject(R[n]) \/ IsLine(R[n])) /\ ~Blank(R[n])
    BY <1>1, RecordsOfLog, EventsOfLog
  <2>2. PICK f : Outcome(R[n], f) = "event"
    BY <1>2 DEF Accounted
  <2>3. Owed(EventOf(R[n])) = Expected(R[n]) /\ Names(R[n], SourceOf(EventOf(R[n])))
    BY <2>1, <2>2, AcceptedOwed
  <2>4. QED
    BY <1>2, <2>3
<1> HIDE DEF R
<1>4. /\ \A i \in DOMAIN findings : /\ findings[i].event \in DOMAIN R
                                    /\ findings[i].rule \in Expected(R[findings[i].event])
                                    /\ Names(R[findings[i].event], findings[i].source)
      /\ \A n \in DOMAIN R : \A rule \in Expected(R[n]) :
           \E i \in DOMAIN findings : findings[i].event = n /\ findings[i].rule = rule
      /\ \A i, j \in DOMAIN findings :
           findings[i].event = findings[j].event /\ findings[i].rule = findings[j].rule => i = j
  BY <1>1, <1>2, <1>3 DEF Exactly
<1>5. {<<f.event, f.rule>> : f \in ToSet(findings)} =
        UNION {{n} \X Expected(R[n]) : n \in DOMAIN R}
  <2>1. ToSet(findings) = {findings[i] : i \in DOMAIN findings}
    BY DEF ToSet
  <2>2. ASSUME NEW i \in DOMAIN findings
        PROVE  <<findings[i].event, findings[i].rule>>
                 \in {findings[i].event} \X Expected(R[findings[i].event])
    BY <1>4
  <2>3. ASSUME NEW n \in DOMAIN R, NEW rule \in Expected(R[n])
        PROVE  <<n, rule>> \in {<<f.event, f.rule>> : f \in ToSet(findings)}
    BY <1>4, <2>1
  <2>4. \A f \in ToSet(findings) :
          <<f.event, f.rule>> \in UNION {{n} \X Expected(R[n]) : n \in DOMAIN R}
    BY <1>4, <2>1, <2>2
  <2>5. \A p \in UNION {{n} \X Expected(R[n]) : n \in DOMAIN R} :
          \E n \in DOMAIN R : \E rule \in Expected(R[n]) : p = <<n, rule>>
    OBVIOUS
  <2>6. QED
    BY <2>3, <2>4, <2>5
<1>6. IsInjective([i \in Finding |-> <<findings[i].event, findings[i].rule>>])
  BY <1>4 DEF IsInjective, Finding
<1>7. \A i \in Finding : Names(R[findings[i].event], Source(i))
  BY <1>4 DEF Finding, Source
<1>8. QED
  BY <1>5, <1>6, <1>7 DEF R

\* Nothing on the way from the text through aliases, promotion, decoding and
\* lookups loses a finding, doubles one, or moves it to another record.
THEOREM FindsEverything == AnalysisSpec => []FindingsComplete
<1>1. AnalysisInit => Accounted
  BY DEF AnalysisInit, Accounted
<1>2. AnalysisInv /\ Accounted /\ [AnalysisNext]_analysisVars => Accounted'
  BY AccountedStep
<1>3. AnalysisInv /\ Accounted => FindingsComplete
  BY AccountedComplete
<1>4. QED
  BY <1>1, <1>2, <1>3, Invariance, PTL DEF AnalysisSpec
=============================================================================
