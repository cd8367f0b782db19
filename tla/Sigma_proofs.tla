---------------------------- MODULE Sigma_proofs ----------------------------
(***************************************************************************)
(* Proofs about the Sigma engine, for all rulesets and streams.             *)
(*                                                                          *)
(* A condition is a list of nodes with operands before them, so what a      *)
(* recursive reading makes of it is proved by induction over its nodes      *)
(* (FromTheOperands).  Four readings are compared: what the static check    *)
(* promises, what evaluation finds, what the condition says of a set of     *)
(* true tests, and how often a test stands under "not".  From them: a       *)
(* condition matches exactly when it is true; what the check accepts has    *)
(* evidence; evidence is true; and under no "not" it is sufficient.         *)
(*                                                                          *)
(* None of the four properties is inductive: FindingIffMatch speaks of all  *)
(* pairs of a rule and an event.  IInv says of a run that stands at an      *)
(* event that its findings are true, in order, and all there are so far.    *)
(***************************************************************************)
EXTENDS Sigma, ListFacts, TLAPS

-----------------------------------------------------------------------------
(* Readings of a condition. *)

\* A condition is a list of nodes, whose operands stand before them.
LEMMA ConditionShape ==
  ASSUME NEW c, IsCondition(c)
  PROVE  /\ Len(c) \in Nat /\ Len(c) # 0 /\ DOMAIN c = 1 .. Len(c)
         /\ \A n \in DOMAIN c : \A i \in DOMAIN c[n].args : c[n].args[i] \in 1 .. n - 1
         /\ \A n \in DOMAIN c : c[n] \in ToSet(c)
         /\ \A n \in DOMAIN c : DOMAIN c[n].args = 1 .. Len(c[n].args) /\ Len(c[n].args) \in Nat
<1>1. c \in Seq(ToSet(c)) /\ c # <<>>
  BY DEF IsCondition, IsList
<1>2. Len(c) \in Nat /\ Len(c) # 0 /\ DOMAIN c = 1 .. Len(c)
  BY <1>1, EmptySeq, LenProperties
<1>3. ASSUME NEW n \in DOMAIN c
      PROVE  /\ \A i \in DOMAIN c[n].args : c[n].args[i] \in 1 .. n - 1
             /\ DOMAIN c[n].args = 1 .. Len(c[n].args) /\ Len(c[n].args) \in Nat
  <2>1. c[n].args \in Seq(ToSet(c[n].args)) /\ ToSet(c[n].args) \subseteq 1 .. n - 1
    BY DEF IsCondition, IsList
  <2>2. \A i \in DOMAIN c[n].args : c[n].args[i] \in ToSet(c[n].args)
    BY DEF ToSet
  <2>3. QED
    BY <2>1, <2>2, LenProperties
<1>4. \A n \in DOMAIN c : c[n] \in ToSet(c)
  BY DEF ToSet
<1>5. QED
  BY <1>2, <1>3, <1>4

\* What holds of a node whenever it holds of its operands holds of every node.
LEMMA FromTheOperands ==
  ASSUME NEW c, IsCondition(c), NEW P,
         \A n \in DOMAIN c : (\A i \in DOMAIN c[n].args : c[n].args[i] \in P) => n \in P
  PROVE  \A n \in DOMAIN c : n \in P
<1> DEFINE N == Len(c)
           Q == {k \in Nat : \A m \in 1 .. k : m \in P}
<1>1. N \in Nat /\ DOMAIN c = 1 .. N
  BY ConditionShape
<1>2. \A n \in 1 .. N : \A i \in DOMAIN c[n].args : c[n].args[i] \in 1 .. n - 1
  BY <1>1, ConditionShape
<1> HIDE DEF N
<1>3. ASSUME NEW n \in 1 .. N, n - 1 \in Q
      PROVE  n \in Q
  <2>1. \A m \in 1 .. n - 1 : m \in P
    BY <1>3
  <2>2. n \in P
    BY <1>1, <1>2, <2>1
  <2>3. \A m \in 1 .. n : m \in P
    BY <2>1, <2>2
  <2>4. QED
    BY <1>1, <2>3
<1>4. 0 \in Q
  OBVIOUS
<1>5. \A n \in 0 .. N : n \in Q
  <2> HIDE DEF Q
  <2>1. QED
    BY <1>1, <1>3, <1>4, UpTo
<1>6. N \in Q
  BY <1>1, <1>5
<1>7. QED
  BY <1>1, <1>6

\* The values of the operands of a node.
Operands(c, f, n) == [i \in DOMAIN c[n].args |-> f[c[n].args[i]]]

\* A function H tells the value in V of a node from those of its operands, and f
\* is what each node comes to.
Tells(H, c, V) == \A n \in DOMAIN c : \A o \in [DOMAIN c[n].args -> V] : H[<<n, o>>] \in V
Tabulates(f, H, c, V) ==
  /\ f \in [DOMAIN c -> V]
  /\ f = [n \in DOMAIN c |-> H[<<n, Operands(c, f, n)>>]]

\* A value for every node, where a function H gives it from those of the operands.
LEMMA TreeValues ==
  ASSUME NEW c, IsCondition(c), NEW V, NEW H, Tells(H, c, V)
  PROVE  \E f : Tabulates(f, H, c, V)
<1> DEFINE N == Len(c)
           Solves(f, k) == /\ f \in [1 .. k -> V]
                           /\ \A n \in 1 .. k : f[n] = H[<<n, Operands(c, f, n)>>]
           P == {k \in Nat : \E f : Solves(f, k)}
<1>1. N \in Nat /\ DOMAIN c = 1 .. N
  BY ConditionShape
<1>2. \A n \in 1 .. N : \A i \in DOMAIN c[n].args : c[n].args[i] \in 1 .. n - 1
  BY <1>1, ConditionShape
<1> HIDE DEF N
<1>3. 0 \in P
  <2>1. Solves([n \in 1 .. 0 |-> n], 0)
    OBVIOUS
  <2> HIDE DEF Solves
  <2>2. QED
    BY <2>1
<1>4. ASSUME NEW k \in 1 .. N, k - 1 \in P
      PROVE  k \in P
  <2>0. k \in Nat
    BY <1>1
  <2>1. PICK f : Solves(f, k - 1)
    BY <1>4
  <2> DEFINE o == Operands(c, f, k)
             g == [n \in 1 .. k |-> IF n = k THEN H[<<k, o>>] ELSE f[n]]
  <2>2. f \in [1 .. k - 1 -> V]
    BY <2>1
  <2>3. \A n \in 1 .. k - 1 : f[n] = H[<<n, Operands(c, f, n)>>]
    BY <2>1
  <2>4. o \in [DOMAIN c[k].args -> V]
    BY <1>2, <2>2 DEF Operands
  <2>5. H[<<k, o>>] \in V
    <3> HIDE DEF o
    <3> QED
      BY <1>1, <2>4 DEF Tells
  <2>6. ASSUME NEW n \in 1 .. k
        PROVE  Operands(c, g, n) = Operands(c, f, n)
    <3>1. \A i \in DOMAIN c[n].args : c[n].args[i] \in 1 .. n - 1
      BY <1>1, <1>2, <2>0
    <3>2. \A m \in 1 .. n - 1 : g[m] = f[m]
      BY <2>0
    <3> HIDE DEF g
    <3>3. QED
      BY <3>1, <3>2 DEF Operands
  <2>7. g \in [1 .. k -> V]
    <3> HIDE DEF o
    <3> QED
      BY <2>0, <2>2, <2>5
  <2>8. \A n \in 1 .. k : g[n] = IF n = k THEN H[<<k, o>>] ELSE f[n]
    OBVIOUS
  <2> HIDE DEF g
  <2>9. \A n \in 1 .. k : g[n] = H[<<n, Operands(c, g, n)>>]
    BY <2>0, <2>3, <2>6, <2>8
  <2>10. Solves(g, k)
    BY <2>7, <2>9
  <2> HIDE DEF Solves
  <2>11. QED
    BY <2>0, <2>10
<1>5. \A k \in 0 .. N : k \in P
  <2> HIDE DEF P
  <2>1. QED
    BY <1>1, <1>3, <1>4, UpTo
<1>6. PICK f : Solves(f, N)
  <2> HIDE DEF Solves
  <2>1. N \in P
    BY <1>1, <1>5
  <2>2. QED
    BY <2>1
<1>7. f \in [DOMAIN c -> V]
  BY <1>1, <1>6
<1>8. f = [n \in DOMAIN c |-> H[<<n, Operands(c, f, n)>>]]
  BY <1>1, <1>6
<1>9. QED
  BY <1>7, <1>8 DEF Tabulates

\* The operands of a node have values where all nodes have.
LEMMA OperandsType ==
  ASSUME NEW c, IsCondition(c), NEW V, NEW f \in [DOMAIN c -> V], NEW n \in DOMAIN c
  PROVE  Operands(c, f, n) \in [DOMAIN c[n].args -> V]
<1>1. \A i \in DOMAIN c[n].args : c[n].args[i] \in DOMAIN c
  BY ConditionShape
<1>2. \A i \in DOMAIN c[n].args : f[c[n].args[i]] \in V
  BY <1>1
<1>3. QED
  BY <1>2 DEF Operands

\* What the nodes of a condition come to, in each of its four readings.
Guaranteed(c) == Values(c, Guarantees)
Evaluated(c, event) == Values(c, LAMBDA node, operands : Combine(node, operands, event))
Held(c, true) == Values(c, LAMBDA node, operands : NodeHolds(node, operands, true))
Negated(c) == Values(c, NodeTests)

\* In each reading the whole condition is its last node, and a node comes to what
\* its operands make of it: the static check (L339), ...
LEMMA GuaranteedEquation ==
  ASSUME NEW c, IsCondition(c)
  PROVE  /\ GuaranteesEvidence(c) = Guaranteed(c)[Len(c)]
         /\ \A n \in DOMAIN c :
              Guaranteed(c)[n] = Guarantees(c[n], Operands(c, Guaranteed(c), n))
<1> DEFINE V == BOOLEAN
           D == (DOMAIN c) \X UNION {[DOMAIN c[n].args -> V] : n \in DOMAIN c}
           H == [x \in D |-> Guarantees(c[x[1]], x[2])]
           Solves(f) == f = [n \in DOMAIN c |->
                             Guarantees(c[n], [i \in DOMAIN c[n].args |-> f[c[n].args[i]]])]
<1>1. ASSUME NEW n \in DOMAIN c, NEW o \in [DOMAIN c[n].args -> V]
      PROVE  H[<<n, o>>] = Guarantees(c[n], o) /\ H[<<n, o>>] \in V
  <2>1. <<n, o>> \in D
    OBVIOUS
  <2>2. Guarantees(c[n], o) \in BOOLEAN
    BY DEF Guarantees
  <2> HIDE DEF D
  <2>3. QED
    BY <2>1, <2>2
<1> HIDE DEF V, H
<1>2. PICK f : Tabulates(f, H, c, V)
  <2>1. Tells(H, c, V)
    BY <1>1 DEF Tells
  <2>2. QED
    BY <2>1, TreeValues
<1>3. \A n \in DOMAIN c : Operands(c, f, n) \in [DOMAIN c[n].args -> V]
  BY <1>2, OperandsType DEF Tabulates
<1>4. \A n \in DOMAIN c : H[<<n, Operands(c, f, n)>>] = Guarantees(c[n], Operands(c, f, n))
  BY <1>1, <1>3
<1>5. Solves(f)
  BY <1>2, <1>4 DEF Operands, Tabulates
<1>6. Guaranteed(c) = CHOOSE v : Solves(v)
  BY DEF Guaranteed, Values
<1> HIDE DEF Solves
<1>7. Solves(Guaranteed(c))
  BY <1>5, <1>6
<1>8. GuaranteesEvidence(c) = Guaranteed(c)[Len(c)]
  BY DEF GuaranteesEvidence, Guaranteed
<1>9. \A n \in DOMAIN c : Guaranteed(c)[n] = Guarantees(c[n], Operands(c, Guaranteed(c), n))
  BY <1>7 DEF Solves, Operands
<1>10. QED
  BY <1>8, <1>9

\* ... what the condition says of a set of true tests, ...
LEMMA HeldEquation ==
  ASSUME NEW c, IsCondition(c), NEW true
  PROVE  /\ Holds(c, true) = Held(c, true)[Len(c)]
         /\ \A n \in DOMAIN c :
              Held(c, true)[n] = NodeHolds(c[n], Operands(c, Held(c, true), n), true)
<1> DEFINE V == BOOLEAN
           D == (DOMAIN c) \X UNION {[DOMAIN c[n].args -> V] : n \in DOMAIN c}
           H == [x \in D |-> NodeHolds(c[x[1]], x[2], true)]
           Solves(f) == f = [n \in DOMAIN c |->
                             NodeHolds(c[n], [i \in DOMAIN c[n].args |-> f[c[n].args[i]]], true)]
<1>1. ASSUME NEW n \in DOMAIN c, NEW o \in [DOMAIN c[n].args -> V]
      PROVE  H[<<n, o>>] = NodeHolds(c[n], o, true) /\ H[<<n, o>>] \in V
  <2>1. <<n, o>> \in D
    OBVIOUS
  <2>2. NodeHolds(c[n], o, true) \in BOOLEAN
    BY DEF NodeHolds
  <2> HIDE DEF D
  <2>3. QED
    BY <2>1, <2>2
<1> HIDE DEF V, H
<1>2. PICK f : Tabulates(f, H, c, V)
  <2>1. Tells(H, c, V)
    BY <1>1 DEF Tells
  <2>2. QED
    BY <2>1, TreeValues
<1>3. \A n \in DOMAIN c : Operands(c, f, n) \in [DOMAIN c[n].args -> V]
  BY <1>2, OperandsType DEF Tabulates
<1>4. \A n \in DOMAIN c : H[<<n, Operands(c, f, n)>>] = NodeHolds(c[n], Operands(c, f, n), true)
  BY <1>1, <1>3
<1>5. Solves(f)
  BY <1>2, <1>4 DEF Operands, Tabulates
<1>6. Held(c, true) = CHOOSE v : Solves(v)
  BY DEF Held, Values
<1> HIDE DEF Solves
<1>7. Solves(Held(c, true))
  BY <1>5, <1>6
<1>8. Holds(c, true) = Held(c, true)[Len(c)]
  BY DEF Holds, Held
<1>9. \A n \in DOMAIN c : Held(c, true)[n] = NodeHolds(c[n], Operands(c, Held(c, true), n), true)
  BY <1>7 DEF Solves, Operands
<1>10. QED
  BY <1>8, <1>9

\* The tests of the nodes of a condition, under some number of "not"s.
NodesTests(c) == SUBSET (ToSet(c) \X Nat)

\* ... how often its tests stand under "not", ...
LEMMA NegatedEquation ==
  ASSUME NEW c, IsCondition(c)
  PROVE  /\ Negations(c) = Negated(c)[Len(c)]
         /\ \A n \in DOMAIN c : Negated(c)[n] = NodeTests(c[n], Operands(c, Negated(c), n))
<1> DEFINE V == NodesTests(c)
           D == (DOMAIN c) \X UNION {[DOMAIN c[n].args -> V] : n \in DOMAIN c}
           H == [x \in D |-> NodeTests(c[x[1]], x[2])]
           Solves(f) == f = [n \in DOMAIN c |->
                             NodeTests(c[n], [i \in DOMAIN c[n].args |-> f[c[n].args[i]]])]
<1>1. ASSUME NEW n \in DOMAIN c, NEW o \in [DOMAIN c[n].args -> V]
      PROVE  H[<<n, o>>] = NodeTests(c[n], o) /\ H[<<n, o>>] \in V
  <2>1. <<n, o>> \in D
    OBVIOUS
  <2>2. c[n] \in ToSet(c)
    BY DEF ToSet
  <2>3. \A i \in DOMAIN o : o[i] \in SUBSET (ToSet(c) \X Nat)
    BY DEF NodesTests
  <2>4. \A t \in UNION {o[i] : i \in DOMAIN o} : t \in ToSet(c) \X Nat
    BY <2>3
  <2>5. NodeTests(c[n], o) \in SUBSET (ToSet(c) \X Nat)
    <3> HIDE DEF V
    <3>1. \A t \in ToSet(c) \X Nat :
            <<t[1], t[2] + (IF c[n].op = "not" THEN 1 ELSE 0)>> \in ToSet(c) \X Nat
      OBVIOUS
    <3>2. <<c[n], 0>> \in ToSet(c) \X Nat
      BY <2>2
    <3>3. QED
      BY <2>4, <3>1, <3>2 DEF NodeTests
  <2> HIDE DEF D
  <2>6. QED
    BY <2>1, <2>5 DEF NodesTests
<1> HIDE DEF V, H
<1>2. PICK f : Tabulates(f, H, c, V)
  <2>1. Tells(H, c, V)
    BY <1>1 DEF Tells
  <2>2. QED
    BY <2>1, TreeValues
<1>3. \A n \in DOMAIN c : Operands(c, f, n) \in [DOMAIN c[n].args -> V]
  BY <1>2, OperandsType DEF Tabulates
<1>4. \A n \in DOMAIN c : H[<<n, Operands(c, f, n)>>] = NodeTests(c[n], Operands(c, f, n))
  BY <1>1, <1>3
<1>5. Solves(f)
  BY <1>2, <1>4 DEF Operands, Tabulates
<1>6. Negated(c) = CHOOSE v : Solves(v)
  BY DEF Negated, Values
<1> HIDE DEF Solves
<1>7. Solves(Negated(c))
  BY <1>5, <1>6
<1>8. Negations(c) = Negated(c)[Len(c)]
  BY DEF Negations, Negated
<1>9. \A n \in DOMAIN c : Negated(c)[n] = NodeTests(c[n], Operands(c, Negated(c), n))
  BY <1>7 DEF Solves, Operands
<1>10. QED
  BY <1>8, <1>9

\* ... and evaluation (L350).
LEMMA EvaluatedEquation ==
  ASSUME NEW c, IsCondition(c), NEW event
  PROVE  /\ Evaluate(c, event) = Evaluated(c, event)[Len(c)]
         /\ \A n \in DOMAIN c :
              Evaluated(c, event)[n] = Combine(c[n], Operands(c, Evaluated(c, event), n), event)
<1> DEFINE M == UNION {MatchesOf(c[n], event) : n \in DOMAIN c}
           V == [matched : BOOLEAN, matches : SUBSET M]
           D == (DOMAIN c) \X UNION {[DOMAIN c[n].args -> V] : n \in DOMAIN c}
           H == [x \in D |-> Combine(c[x[1]], x[2], event)]
           Solves(f) == f = [n \in DOMAIN c |->
                             Combine(c[n], [i \in DOMAIN c[n].args |-> f[c[n].args[i]]], event)]
<1>1. ASSUME NEW n \in DOMAIN c, NEW o \in [DOMAIN c[n].args -> V]
      PROVE  H[<<n, o>>] = Combine(c[n], o, event) /\ H[<<n, o>>] \in V
  <2>1. <<n, o>> \in D
    OBVIOUS
  <2>2. MatchesOf(c[n], event) \in SUBSET M
    OBVIOUS
  <2> HIDE DEF M
  <2>3. AllMatches(o) \in SUBSET M
    BY DEF AllMatches
  <2>4. \A b \in BOOLEAN, m \in SUBSET M : Evaluation(b, m) \in V
    BY DEF Evaluation
  <2>5. Combine(c[n], o, event) \in V
    <3> HIDE DEF V
    <3>1. {} \in SUBSET M
      OBVIOUS
    <3>2. QED
      BY <2>2, <2>3, <2>4, <3>1 DEF Combine
  <2> HIDE DEF D
  <2>6. QED
    BY <2>1, <2>5
<1> HIDE DEF V, H
<1>2. PICK f : Tabulates(f, H, c, V)
  <2>1. Tells(H, c, V)
    BY <1>1 DEF Tells
  <2>2. QED
    BY <2>1, TreeValues
<1>3. \A n \in DOMAIN c : Operands(c, f, n) \in [DOMAIN c[n].args -> V]
  BY <1>2, OperandsType DEF Tabulates
<1>4. \A n \in DOMAIN c : H[<<n, Operands(c, f, n)>>] = Combine(c[n], Operands(c, f, n), event)
  BY <1>1, <1>3
<1>5. Solves(f)
  BY <1>2, <1>4 DEF Operands, Tabulates
<1>6. Evaluated(c, event) = CHOOSE v : Solves(v)
  BY DEF Evaluated, Values
<1> HIDE DEF Solves
<1>7. Solves(Evaluated(c, event))
  BY <1>5, <1>6
<1>8. Evaluate(c, event) = Evaluated(c, event)[Len(c)]
  BY DEF Evaluate, Evaluated
<1>9. \A n \in DOMAIN c :
        Evaluated(c, event)[n] = Combine(c[n], Operands(c, Evaluated(c, event), n), event)
  BY <1>7 DEF Solves, Operands
<1>10. QED
  BY <1>8, <1>9

-----------------------------------------------------------------------------
(* Values and patterns. *)

\* A candidate is the plain word w; a value is w under as many layers of encoding
\* as are removed for its field.
IsWord(x, w) == x.value.kind = "text" /\ x.value.word = w /\ x.value.layers = 0
LayersRemoved(field) == IF field \in UrlFields THEN 3 ELSE 0
Hides(value, w, field) ==
  value.kind = "text" /\ value.word = w /\ value.layers <= LayersRemoved(field)

\* What decoding makes of a text.
LEMMA DecodedText ==
  ASSUME NEW v, IsScalar(v), v.kind = "text"
  PROVE  /\ Decoded(v).value.kind = "text" /\ Decoded(v).value.word = v.word
         /\ Decoded(v).value.layers = 0 <=> v.layers <= 3
         /\ Decoded(v).rounds \in 0 .. 3
<1> DEFINE r == IF v.layers < 3 THEN v.layers ELSE 3
           d == [v EXCEPT !.layers = v.layers - r]
<1>1. v.layers \in Nat /\ v = [kind |-> "text", word |-> v.word, layers |-> v.layers]
  BY DEF IsScalar
<1>2. r \in 0 .. 3 /\ (v.layers - r = 0 <=> v.layers <= 3)
  BY <1>1
<1>3. d.kind = "text" /\ d.word = v.word /\ d.layers = v.layers - r
  <2> HIDE DEF r
  <2>1. QED
    BY <1>1
<1>4. Decoded(v) = [value |-> d, rounds |-> r]
  BY DEF Decoded, Candidate, MaxUrlDecodeRounds
<1> HIDE DEF r, d
<1>5. Decoded(v).value = d /\ Decoded(v).rounds = r
  BY <1>4
<1>6. QED
  BY <1>2, <1>3, <1>5

\* What is inspected of a scalar shows what the scalar is.
LEMMA ScalarShown ==
  ASSUME NEW v, IsScalar(v), NEW field
  PROVE  /\ \A w : (\E x \in ScalarCandidates(field, v) : IsWord(x, w)) <=> Hides(v, w, field)
         /\ \A k \in {"null", "number"} :
              (\E x \in ScalarCandidates(field, v) : x.value.kind = k) <=> v.kind = k
         /\ \A x \in ScalarCandidates(field, v) : x.rounds \in 0 .. 3
<1>1. CASE v.kind \in {"absent", "object", "long"}
  <2>1. ScalarCandidates(field, v) = {}
    BY <1>1 DEF ScalarCandidates
  <2>2. QED
    BY <1>1, <2>1 DEF Hides
<1>2. CASE v.kind \in {"null", "number"}
  <2>1. ScalarCandidates(field, v) = {Candidate(v, 0)}
    BY <1>2 DEF ScalarCandidates
  <2>2. Candidate(v, 0).value = v /\ Candidate(v, 0).rounds = 0
    BY DEF Candidate
  <2>3. QED
    BY <1>2, <2>1, <2>2 DEF IsWord, Hides
<1>3. CASE v.kind = "text"
  <2>1. Candidate(v, 0).value = v /\ Candidate(v, 0).rounds = 0
    BY DEF Candidate
  <2>2. /\ Decoded(v).value.kind = "text" /\ Decoded(v).value.word = v.word
        /\ Decoded(v).value.layers = 0 <=> v.layers <= 3
        /\ Decoded(v).rounds \in 0 .. 3
    BY <1>3, DecodedText
  <2>3. ScalarCandidates(field, v) =
          IF field \in UrlFields THEN {Candidate(v, 0), Decoded(v)} ELSE {Candidate(v, 0)}
    BY <1>3 DEF ScalarCandidates
  <2>4. v.layers \in Nat
    BY <1>3 DEF IsScalar
  <2>5. QED
    BY <1>3, <2>1, <2>2, <2>3, <2>4 DEF IsWord, Hides, LayersRemoved
<1>4. QED
  BY <1>1, <1>2, <1>3 DEF IsScalar

\* The scalars of a value.
Parts(value) == IF value.kind = "list" THEN value.items ELSE {value}

\* So does what is inspected of a value, of its scalars.
LEMMA ValueShown ==
  ASSUME NEW v, IsValue(v), NEW field
  PROVE  /\ \A w : (\E x \in Candidates(field, v) : IsWord(x, w))
                     <=> \E part \in Parts(v) : Hides(part, w, field)
         /\ \A k \in {"null", "number"} :
              (\E x \in Candidates(field, v) : x.value.kind = k)
                <=> \E part \in Parts(v) : part.kind = k
         /\ \A x \in Candidates(field, v) : x.rounds \in 0 .. 3
<1>1. \A part \in Parts(v) : IsScalar(part)
  BY DEF IsValue, Parts
<1>2. \A x : x \in Candidates(field, v) <=> \E part \in Parts(v) : x \in ScalarCandidates(field, part)
  BY DEF Candidates, Parts
<1>3. QED
  BY <1>1, <1>2, ScalarShown

\* A test of an event finds something exactly when it is true of the event, and
\* says which test it was and how far it decoded.
LEMMA TestShown ==
  ASSUME NEW test, IsTest(test), test.matcher # "unsupported",
         NEW event, IsValue(event.fields[test.field])
  PROVE  /\ MatchesOf(test, event) # {} <=> TestHolds(test, event)
         /\ \A m \in MatchesOf(test, event) : m.test = test /\ m.seen.rounds <= 3
<1> DEFINE v == event.fields[test.field]
           found == Candidates(test.field, v)
           null == Candidate([kind |-> "null"], 0)
           inspected == IF test.matcher = "exists" /\ found = {} THEN {null} ELSE found
           good == {x \in inspected : Satisfies(test, x, v)}
<1>1. MatchesOf(test, event) = {[test |-> test, seen |-> x] : x \in good}
  BY DEF MatchesOf
<1>2. null.rounds = 0
  BY DEF Candidate
<1>3. \A x \in found : x.rounds \in 0 .. 3
  BY ValueShown
<1>4. \A x \in good : x.rounds <= 3
  <2> HIDE DEF found, null
  <2>1. QED
    BY <1>2, <1>3
<1>5. \A m \in MatchesOf(test, event) : m.test = test /\ m.seen.rounds <= 3
  <2> HIDE DEF good
  <2>1. QED
    BY <1>1, <1>4
<1>6. MatchesOf(test, event) # {} <=> good # {}
  <2> HIDE DEF good
  <2>1. QED
    BY <1>1
<1>7. good # {} <=> TestHolds(test, event)
  <2>1. CASE test.matcher = "exists"
    <3>1. test.expected \in BOOLEAN
      BY <2>1 DEF IsTest
    <3>2. inspected # {}
      BY <2>1
    <3>3. \A x : Satisfies(test, x, v) <=> Present(v) = test.expected
      BY <2>1 DEF Satisfies
    <3>4. Present(v) <=> v.kind \in {"text", "long", "number", "object", "list"}
      BY DEF Present, IsValue, IsScalar
    <3>5. TestHolds(test, event) <=>
            test.expected = (v.kind \in {"text", "long", "number", "object", "list"})
      BY <2>1 DEF TestHolds
    <3>6. good # {} <=> Present(v) = test.expected
      <4> HIDE DEF v, inspected
      <4>1. QED
        BY <3>2, <3>3
    <3> HIDE DEF v, good
    <3>7. Present(v) \in BOOLEAN
      BY DEF Present
    <3>8. QED
      BY <3>1, <3>4, <3>5, <3>6, <3>7
  <2>2. CASE test.matcher \in {"null", "number"}
    <3>1. \A x : Satisfies(test, x, v) <=> x.value.kind = test.matcher
      BY <2>2 DEF Satisfies
    <3>2. inspected = found
      BY <2>2
    <3>3. (\E x \in found : x.value.kind = test.matcher)
            <=> \E part \in Parts(v) : part.kind = test.matcher
      BY <2>2, ValueShown
    <3>4. TestHolds(test, event) <=> \E part \in Parts(v) : part.kind = test.matcher
      BY <2>2 DEF TestHolds, Parts
    <3> HIDE DEF v, found, inspected
    <3>5. QED
      BY <3>1, <3>2, <3>3, <3>4
  <2>3. CASE test.matcher \in {"string", "regex"}
    <3>1. \A x : Satisfies(test, x, v) <=> IsWord(x, test.expected)
      BY <2>3 DEF Satisfies, IsWord
    <3>2. inspected = found
      BY <2>3
    <3>3. (\E x \in found : IsWord(x, test.expected))
            <=> \E part \in Parts(v) : Hides(part, test.expected, test.field)
      BY ValueShown
    <3>4. TestHolds(test, event)
            <=> \E part \in Parts(v) : Hides(part, test.expected, test.field)
      BY <2>3 DEF TestHolds, Parts, Hides, LayersRemoved
    <3> HIDE DEF v, found, inspected
    <3>5. QED
      BY <3>1, <3>2, <3>3, <3>4
  <2>4. QED
    BY <2>1, <2>2, <2>3 DEF IsTest
<1>8. QED
  BY <1>5, <1>6, <1>7

-----------------------------------------------------------------------------
(* Evaluation. *)

\* The condition has loaded and its tests ask for values the event may have.
Fits(c, event) ==
  /\ IsCondition(c) /\ Compiles(c)
  /\ \A n \in DOMAIN c : c[n].op = "field" => IsValue(event.fields[c[n].field])

TrueTests(c, event) == {test \in Tests(c) : TestHolds(test, event)}

\* What compilation has checked of each node.
LEMMA NodeShape ==
  ASSUME NEW c, NEW event, Fits(c, event), NEW n \in DOMAIN c
  PROVE  /\ c[n].op \in {"field", "not", "and", "or"}
         /\ c[n].op = "field" =>
              /\ IsTest(c[n]) /\ c[n].matcher # "unsupported" /\ c[n] \in Tests(c)
              /\ IsValue(event.fields[c[n].field])
         /\ c[n].op # "field" => 1 \in DOMAIN c[n].args
         /\ c[n].op = "not" => DOMAIN c[n].args = {1}
<1>1. IsCondition(c) /\ c[n] \in ToSet(c)
  BY ConditionShape DEF Fits
<1>2. DOMAIN c[n].args = 1 .. Len(c[n].args) /\ Len(c[n].args) \in Nat
  BY <1>1, ConditionShape
<1>3. \/ c[n].op = "field" /\ c[n].matcher # "unsupported"
      \/ c[n].op = "not" /\ Len(c[n].args) = 1
      \/ c[n].op \in {"and", "or"} /\ c[n].args # <<>>
  BY <1>1 DEF Fits, Compiles
<1>4. c[n].args # <<>> => Len(c[n].args) # 0
  <2>1. c[n].args \in Seq(ToSet(c[n].args))
    BY <1>1 DEF IsCondition, IsList
  <2>2. QED
    BY <2>1, EmptySeq
<1>5. c[n].op = "field" => IsTest(c[n]) /\ c[n] \in Tests(c)
  BY <1>1 DEF IsCondition, Tests
<1>6. c[n].op = "field" => IsValue(event.fields[c[n].field])
  BY DEF Fits
<1> DEFINE k == Len(c[n].args)
<1>7. c[n].op = "not" => DOMAIN c[n].args = {1}
  <2>1. c[n].op = "not" => k = 1
    BY <1>3
  <2> HIDE DEF k
  <2>2. k = 1 => 1 .. k = {1}
    OBVIOUS
  <2>3. QED
    BY <1>2, <2>1, <2>2 DEF k
<1>8. c[n].op # "field" => 1 \in DOMAIN c[n].args
  <2>1. c[n].op # "field" => k # 0
    BY <1>3, <1>4
  <2>2. k \in Nat /\ DOMAIN c[n].args = 1 .. k
    BY <1>2
  <2> HIDE DEF k
  <2>3. k # 0 => 1 \in 1 .. k
    BY <2>2
  <2>4. QED
    BY <2>1, <2>2, <2>3
<1>9. c[n].op = "field" => c[n].matcher # "unsupported"
  BY <1>3
<1>10. c[n].op \in {"field", "not", "and", "or"}
  BY <1>3
<1>11. QED
  BY <1>5, <1>6, <1>7, <1>8, <1>9, <1>10

NodeEvaluated(c, event, r, n) ==
  /\ c[n].op = "field" =>
       /\ r[n].matched <=> MatchesOf(c[n], event) # {}
       /\ r[n].matches = MatchesOf(c[n], event)
  /\ c[n].op = "not" =>
       /\ r[n].matched <=> ~r[c[n].args[1]].matched
       /\ r[n].matches = {}
  /\ c[n].op = "and" =>
       r[n].matched <=> \A i \in DOMAIN c[n].args : r[c[n].args[i]].matched
  /\ c[n].op = "or" =>
       r[n].matched <=> \E i \in DOMAIN c[n].args : r[c[n].args[i]].matched
  /\ c[n].op \in {"and", "or"} /\ r[n].matched =>
       r[n].matches = UNION {r[c[n].args[i]].matches : i \in DOMAIN c[n].args}
  /\ ~r[n].matched => r[n].matches = {}

\* What evaluation makes of a node, said of the nodes it has for operands.
LEMMA EvaluatedNode ==
  ASSUME NEW c, NEW event, Fits(c, event), NEW n \in DOMAIN c
  PROVE  NodeEvaluated(c, event, Evaluated(c, event), n)
<1> DEFINE r == Evaluated(c, event)
           args == c[n].args
           o == Operands(c, r, n)
<1> SUFFICES NodeEvaluated(c, event, r, n)
  OBVIOUS
<1>1. r[n] = Combine(c[n], o, event)
  BY EvaluatedEquation DEF Fits
<1>2. /\ DOMAIN o = DOMAIN args
      /\ \A i \in DOMAIN args : o[i] = r[args[i]]
  BY DEF Operands
<1>3. /\ c[n].op \in {"field", "not", "and", "or"}
      /\ c[n].op = "not" => 1 \in DOMAIN args
  BY NodeShape
<1>4. AllMatches(o) = UNION {r[args[i]].matches : i \in DOMAIN args}
  <2> HIDE DEF r
  <2>1. \A i \in DOMAIN o : o[i].matches = r[args[i]].matches
    BY <1>2
  <2> HIDE DEF o
  <2>2. QED
    BY <1>2, <2>1 DEF AllMatches
<1> HIDE DEF r, o
<1>6. CASE c[n].op = "field"
  <2>1. r[n] = Evaluation(MatchesOf(c[n], event) # {}, MatchesOf(c[n], event))
    BY <1>1, <1>6 DEF Combine
  <2>2. /\ r[n].matched <=> MatchesOf(c[n], event) # {}
        /\ r[n].matches = MatchesOf(c[n], event)
    <3> DEFINE found == MatchesOf(c[n], event) # {}
    <3>1. found \in BOOLEAN
      OBVIOUS
    <3> HIDE DEF found
    <3>2. r[n] = [matched |-> found,
                  matches |-> IF found THEN MatchesOf(c[n], event) ELSE {}]
      BY <2>1 DEF Evaluation, found
    <3>3. /\ r[n].matched = found
          /\ r[n].matches = IF found THEN MatchesOf(c[n], event) ELSE {}
      BY <3>1, <3>2
    <3>4. QED
      BY <3>1, <3>3 DEF found
  <2>3. QED
    BY <1>6, <2>2 DEF NodeEvaluated
<1>7. CASE c[n].op = "not"
  <2>1. r[n] = Evaluation(~o[1].matched, {})
    BY <1>1, <1>7 DEF Combine
  <2>2. (r[n].matched <=> ~o[1].matched) /\ r[n].matches = {}
    <3> DEFINE failed == ~o[1].matched
    <3>1. failed \in BOOLEAN
      OBVIOUS
    <3> HIDE DEF failed
    <3>2. r[n] = [matched |-> failed, matches |-> {}]
      BY <2>1 DEF Evaluation, failed
    <3>3. r[n].matched = failed /\ r[n].matches = {}
      BY <3>1, <3>2
    <3>4. (failed <=> ~o[1].matched)
      BY DEF failed
    <3>5. QED
      BY <3>1, <3>3, <3>4
  <2>3. o[1] = r[args[1]]
    BY <1>2, <1>3, <1>7
  <2>4. (r[n].matched <=> ~r[args[1]].matched) /\ r[n].matches = {}
    BY <2>2, <2>3
  <2>5. QED
    BY <1>7, <2>4 DEF NodeEvaluated
<1>8. CASE c[n].op = "and"
  <2>1. r[n] = Evaluation(\A i \in DOMAIN o : o[i].matched, AllMatches(o))
    BY <1>1, <1>8 DEF Combine
  <2>2. /\ r[n].matched <=> \A i \in DOMAIN o : o[i].matched
        /\ r[n].matches = IF r[n].matched THEN AllMatches(o) ELSE {}
    BY <2>1 DEF Evaluation
  <2>3. (\A i \in DOMAIN o : o[i].matched) <=> \A i \in DOMAIN args : r[args[i]].matched
    BY <1>2
  <2>4. QED
    BY <1>4, <1>8, <2>2, <2>3 DEF NodeEvaluated
<1>9. CASE c[n].op = "or"
  <2>1. r[n] = Evaluation(\E i \in DOMAIN o : o[i].matched, AllMatches(o))
    BY <1>1, <1>9 DEF Combine
  <2>2. /\ r[n].matched <=> \E i \in DOMAIN o : o[i].matched
        /\ r[n].matches = IF r[n].matched THEN AllMatches(o) ELSE {}
    BY <2>1 DEF Evaluation
  <2>3. (\E i \in DOMAIN o : o[i].matched) <=> \E i \in DOMAIN args : r[args[i]].matched
    BY <1>2
  <2>4. QED
    BY <1>4, <1>9, <2>2, <2>3 DEF NodeEvaluated
<1>10. QED
  BY <1>3, <1>6, <1>7, <1>8, <1>9

\* What a node says when the tests in "true" are true, of the nodes it has for operands.
LEMMA HeldNode ==
  ASSUME NEW c, NEW event, Fits(c, event), NEW n \in DOMAIN c, NEW true, NEW h, h = Held(c, true)
  PROVE  /\ c[n].op = "field" => (h[n] <=> c[n] \in true)
         /\ c[n].op = "not" => (h[n] <=> ~h[c[n].args[1]])
         /\ c[n].op = "and" => (h[n] <=> \A i \in DOMAIN c[n].args : h[c[n].args[i]])
         /\ c[n].op = "or" => (h[n] <=> \E i \in DOMAIN c[n].args : h[c[n].args[i]])
<1> DEFINE o == Operands(c, h, n)
<1>1. h[n] = NodeHolds(c[n], o, true)
  BY HeldEquation DEF Fits
<1>2. /\ DOMAIN o = DOMAIN c[n].args
      /\ \A i \in DOMAIN c[n].args : o[i] = h[c[n].args[i]]
  BY DEF Operands
<1>3. c[n].op = "not" => 1 \in DOMAIN c[n].args
  BY NodeShape
<1> HIDE DEF o
<1>4. h[n] <=> NodeHolds(c[n], o, true)
  BY <1>1
<1>5. QED
  BY <1>2, <1>3, <1>4 DEF NodeHolds

\* What the static check says of a node.
LEMMA GuaranteedNode ==
  ASSUME NEW c, NEW event, Fits(c, event), NEW n \in DOMAIN c, NEW g, g = Guaranteed(c), g[n]
  PROVE  /\ c[n].op # "not"
         /\ c[n].op = "and" => \E i \in DOMAIN c[n].args : g[c[n].args[i]]
         /\ c[n].op = "or" => \A i \in DOMAIN c[n].args : g[c[n].args[i]]
<1> DEFINE o == Operands(c, g, n)
<1>1. g[n] = Guarantees(c[n], o)
  BY GuaranteedEquation DEF Fits
<1>2. /\ DOMAIN o = DOMAIN c[n].args
      /\ \A i \in DOMAIN c[n].args : o[i] = g[c[n].args[i]]
  BY DEF Operands
<1> HIDE DEF o
<1>3. Guarantees(c[n], o)
  BY <1>1
<1>4. QED
  BY <1>2, <1>3 DEF Guarantees

\* The tests below a node, with the "not"s above them.
LEMMA NegatedNode ==
  ASSUME NEW c, NEW event, Fits(c, event), NEW n \in DOMAIN c, NEW t, t = Negated(c)
  PROVE  /\ c[n].op = "field" => t[n] = {<<c[n], 0>>}
         /\ c[n].op = "not" => \A p \in t[c[n].args[1]] : <<p[1], p[2] + 1>> \in t[n]
         /\ c[n].op \in {"and", "or"} =>
              \A i \in DOMAIN c[n].args : \A p \in t[c[n].args[i]] : <<p[1], p[2] + 0>> \in t[n]
<1> DEFINE o == Operands(c, t, n)
<1>1. t[n] = NodeTests(c[n], o)
  BY NegatedEquation DEF Fits
<1>2. /\ DOMAIN o = DOMAIN c[n].args
      /\ \A i \in DOMAIN c[n].args : o[i] = t[c[n].args[i]]
  BY DEF Operands
<1>3. c[n].op = "not" => 1 \in DOMAIN c[n].args
  BY NodeShape
<1> HIDE DEF o
<1>4. CASE c[n].op = "field"
  BY <1>1, <1>4 DEF NodeTests
<1>5. CASE c[n].op # "field"
  <2> DEFINE k == IF c[n].op = "not" THEN 1 ELSE 0
             below == UNION {o[i] : i \in DOMAIN o}
  <2>1. t[n] = {<<p[1], p[2] + k>> : p \in below}
    BY <1>1, <1>5 DEF NodeTests
  <2>2. \A i \in DOMAIN c[n].args : \A p \in t[c[n].args[i]] : p \in below
    BY <1>2
  <2> HIDE DEF below
  <2>3. \A i \in DOMAIN c[n].args : \A p \in t[c[n].args[i]] : <<p[1], p[2] + k>> \in t[n]
    <3> HIDE DEF k
    <3>1. QED
      BY <2>1, <2>2
  <2>4. QED
    BY <1>3, <1>5, <2>3
<1>6. QED
  BY <1>4, <1>5

\* There is a test below every node, at some depth of "not"s.
LEMMA NegatedType ==
  ASSUME NEW c, NEW event, Fits(c, event), NEW t, t = Negated(c)
  PROVE  \A n \in DOMAIN c :
           t[n] # {} /\ \A p \in t[n] : p[2] \in Nat /\ p = <<p[1], p[2]>>
<1> DEFINE P == {n \in DOMAIN c :
                  t[n] # {} /\ \A p \in t[n] : p[2] \in Nat /\ p = <<p[1], p[2]>>}
<1>1. ASSUME NEW n \in DOMAIN c, \A i \in DOMAIN c[n].args : c[n].args[i] \in P
      PROVE  n \in P
  <2> DEFINE o == Operands(c, t, n)
  <2>1. t[n] = NodeTests(c[n], o)
    BY NegatedEquation DEF Fits
  <2>2. /\ DOMAIN o = DOMAIN c[n].args
        /\ \A i \in DOMAIN c[n].args : o[i] = t[c[n].args[i]]
    BY DEF Operands
  <2>3. c[n].op # "field" => 1 \in DOMAIN c[n].args
    BY NodeShape
  <2>4. \A i \in DOMAIN o : o[i] # {} /\ \A p \in o[i] : p[2] \in Nat
    BY <1>1, <2>2
  <2> HIDE DEF o
  <2>5. CASE c[n].op = "field"
    <3>1. t[n] = {<<c[n], 0>>}
      BY <2>1, <2>5 DEF NodeTests
    <3>2. <<c[n], 0>>[2] = 0 /\ <<c[n], 0>>[1] = c[n]
      OBVIOUS
    <3>3. \A p \in t[n] : p[2] \in Nat /\ p = <<p[1], p[2]>>
      BY <3>1, <3>2
    <3>4. t[n] # {}
      BY <3>1
    <3>5. QED
      BY <3>3, <3>4
  <2>6. CASE c[n].op # "field"
    <3> DEFINE k == IF c[n].op = "not" THEN 1 ELSE 0
               below == UNION {o[i] : i \in DOMAIN o}
    <3>1. t[n] = {<<p[1], p[2] + k>> : p \in below}
      BY <2>1, <2>6 DEF NodeTests
    <3>2. below # {} /\ \A p \in below : p[2] \in Nat
      BY <2>2, <2>3, <2>4, <2>6
    <3>3. k \in Nat
      OBVIOUS
    <3> HIDE DEF below, k
    <3>4. t[n] # {}
      BY <3>1, <3>2
    <3>5. ASSUME NEW p \in t[n]
          PROVE  p[2] \in Nat /\ p = <<p[1], p[2]>>
      <4>1. PICK q \in below : p = <<q[1], q[2] + k>>
        BY <3>1
      <4>2. QED
        BY <3>2, <3>3, <4>1
    <3>6. QED
      BY <3>4, <3>5
  <2>7. QED
    BY <2>5, <2>6
<1>2. \A n \in DOMAIN c : n \in P
  <2> HIDE DEF P
  <2>1. IsCondition(c)
    BY DEF Fits
  <2>2. QED
    BY <1>1, <2>1, FromTheOperands
<1>3. QED
  BY <1>2

-----------------------------------------------------------------------------
(* What evaluation finds. *)

\* Evaluation finds a node matched exactly when it is true of the event.
LEMMA MatchedIffHeld ==
  ASSUME NEW c, NEW event, Fits(c, event)
  PROVE  \A n \in DOMAIN c :
           Evaluated(c, event)[n].matched <=> Held(c, TrueTests(c, event))[n]
<1> DEFINE r == Evaluated(c, event)
           h == Held(c, TrueTests(c, event))
           P == {n \in DOMAIN c : r[n].matched <=> h[n]}
<1>0. \A n \in DOMAIN c : NodeEvaluated(c, event, r, n)
  BY EvaluatedNode
<1>1. ASSUME NEW n \in DOMAIN c, \A i \in DOMAIN c[n].args : c[n].args[i] \in P
      PROVE  n \in P
  <2>1. NodeEvaluated(c, event, r, n)
    BY <1>0
  <2>2. /\ c[n].op = "field" => (h[n] <=> c[n] \in TrueTests(c, event))
        /\ c[n].op = "not" => (h[n] <=> ~h[c[n].args[1]])
        /\ c[n].op = "and" => (h[n] <=> \A i \in DOMAIN c[n].args : h[c[n].args[i]])
        /\ c[n].op = "or" => (h[n] <=> \E i \in DOMAIN c[n].args : h[c[n].args[i]])
    BY HeldNode
  <2>3. \A i \in DOMAIN c[n].args : r[c[n].args[i]].matched <=> h[c[n].args[i]]
    BY <1>1
  <2>4. c[n].op \in {"field", "not", "and", "or"} /\ (c[n].op = "not" => 1 \in DOMAIN c[n].args)
    BY NodeShape
  <2>5. c[n].op = "field" => (MatchesOf(c[n], event) # {} <=> c[n] \in TrueTests(c, event))
    <3>1. SUFFICES ASSUME c[n].op = "field"
                   PROVE  MatchesOf(c[n], event) # {} <=> c[n] \in TrueTests(c, event)
      OBVIOUS
    <3>2. /\ IsTest(c[n]) /\ c[n].matcher # "unsupported" /\ c[n] \in Tests(c)
          /\ IsValue(event.fields[c[n].field])
      BY <3>1, NodeShape
    <3>3. MatchesOf(c[n], event) # {} <=> TestHolds(c[n], event)
      BY <3>2, TestShown
    <3>4. QED
      BY <3>2, <3>3 DEF TrueTests
  <2> HIDE DEF r, h
  <2>6. r[n].matched <=> h[n]
    BY <2>1, <2>2, <2>3, <2>4, <2>5 DEF NodeEvaluated
  <2>7. QED
    BY <2>6
<1>2. \A n \in DOMAIN c : n \in P
  <2> HIDE DEF P
  <2>1. IsCondition(c)
    BY DEF Fits
  <2>2. QED
    BY <1>1, <2>1, FromTheOperands
<1>3. QED
  BY <1>2

\* The static check is right: a node it lets through finds evidence when it matches.
LEMMA GuaranteeHolds ==
  ASSUME NEW c, NEW event, Fits(c, event)
  PROVE  \A n \in DOMAIN c :
           Guaranteed(c)[n] /\ Evaluated(c, event)[n].matched => Evaluated(c, event)[n].matches # {}
<1> DEFINE r == Evaluated(c, event)
           g == Guaranteed(c)
           P == {n \in DOMAIN c : g[n] /\ r[n].matched => r[n].matches # {}}
<1>0. \A n \in DOMAIN c : NodeEvaluated(c, event, r, n)
  BY EvaluatedNode
<1>1. ASSUME NEW n \in DOMAIN c, \A i \in DOMAIN c[n].args : c[n].args[i] \in P
      PROVE  n \in P
  <2>0. SUFFICES ASSUME g[n], r[n].matched
                 PROVE  r[n].matches # {}
    OBVIOUS
  <2>1. NodeEvaluated(c, event, r, n)
    BY <1>0
  <2>2. /\ c[n].op # "not"
        /\ c[n].op = "and" => \E i \in DOMAIN c[n].args : g[c[n].args[i]]
        /\ c[n].op = "or" => \A i \in DOMAIN c[n].args : g[c[n].args[i]]
    BY <2>0, GuaranteedNode
  <2>3. \A i \in DOMAIN c[n].args :
          g[c[n].args[i]] /\ r[c[n].args[i]].matched => r[c[n].args[i]].matches # {}
    BY <1>1
  <2>4. c[n].op \in {"field", "not", "and", "or"}
    BY NodeShape
  <2> HIDE DEF r, g
  <2>5. CASE c[n].op = "field"
    BY <2>0, <2>1, <2>5 DEF NodeEvaluated
  <2>6. CASE c[n].op \in {"and", "or"}
    <3>1. PICK i \in DOMAIN c[n].args : g[c[n].args[i]] /\ r[c[n].args[i]].matched
      BY <2>0, <2>1, <2>2, <2>6 DEF NodeEvaluated
    <3>2. r[n].matches = UNION {r[c[n].args[j]].matches : j \in DOMAIN c[n].args}
      BY <2>0, <2>1, <2>6 DEF NodeEvaluated
    <3>3. r[c[n].args[i]].matches # {}
      BY <2>3, <3>1
    <3>4. QED
      BY <3>2, <3>3
  <2>7. QED
    BY <2>2, <2>4, <2>5, <2>6
<1>2. \A n \in DOMAIN c : n \in P
  <2> HIDE DEF P
  <2>1. IsCondition(c)
    BY DEF Fits
  <2>2. QED
    BY <1>1, <2>1, FromTheOperands
<1>3. QED
  BY <1>2

\* A piece of evidence of a node is a match of a test of the condition that stands
\* under none of its "not"s.
Positive(c, event, n, m) ==
  \E k \in DOMAIN c :
    /\ c[k].op = "field" /\ m \in MatchesOf(c[k], event)
    /\ <<c[k], 0>> \in Negated(c)[n]

\* Whatever evaluation gives as evidence is positive, at every node.
LEMMA EvidenceOfTests ==
  ASSUME NEW c, NEW event, Fits(c, event)
  PROVE  \A n \in DOMAIN c : \A m \in Evaluated(c, event)[n].matches : Positive(c, event, n, m)
<1> DEFINE r == Evaluated(c, event)
           P == {n \in DOMAIN c : \A m \in r[n].matches : Positive(c, event, n, m)}
<1>0. \A n \in DOMAIN c : NodeEvaluated(c, event, r, n)
  BY EvaluatedNode
<1>1. ASSUME NEW n \in DOMAIN c, \A i \in DOMAIN c[n].args : c[n].args[i] \in P
      PROVE  n \in P
  <2>0. SUFFICES ASSUME NEW m \in r[n].matches
                 PROVE  Positive(c, event, n, m)
    OBVIOUS
  <2>1. NodeEvaluated(c, event, r, n)
    BY <1>0
  <2>2. /\ c[n].op = "field" => Negated(c)[n] = {<<c[n], 0>>}
        /\ c[n].op \in {"and", "or"} =>
             \A i \in DOMAIN c[n].args : \A p \in Negated(c)[c[n].args[i]] :
               <<p[1], p[2] + 0>> \in Negated(c)[n]
    BY NegatedNode
  <2>3. c[n].op \in {"field", "not", "and", "or"}
    BY NodeShape
  <2>4. \A i \in DOMAIN c[n].args :
          \A x \in r[c[n].args[i]].matches : Positive(c, event, c[n].args[i], x)
    BY <1>1
  <2> HIDE DEF r
  <2>5. CASE c[n].op = "field"
    BY <2>1, <2>2, <2>5 DEF NodeEvaluated, Positive
  <2>6. CASE c[n].op = "not"
    BY <2>1, <2>6 DEF NodeEvaluated
  <2>7. CASE c[n].op \in {"and", "or"}
    <3>1. r[n].matches = UNION {r[c[n].args[i]].matches : i \in DOMAIN c[n].args}
      BY <2>1, <2>7 DEF NodeEvaluated
    <3>2. PICK i \in DOMAIN c[n].args : m \in r[c[n].args[i]].matches
      BY <3>1
    <3>3. PICK k \in DOMAIN c : /\ c[k].op = "field" /\ m \in MatchesOf(c[k], event)
                                /\ <<c[k], 0>> \in Negated(c)[c[n].args[i]]
      BY <2>4, <3>2 DEF Positive
    <3>4. <<c[k], 0 + 0>> \in Negated(c)[n]
      BY <2>2, <2>7, <3>3
    <3>5. QED
      BY <3>3, <3>4 DEF Positive
  <2>8. QED
    BY <2>3, <2>5, <2>6, <2>7
<1>2. \A n \in DOMAIN c : n \in P
  <2> HIDE DEF P
  <2>1. IsCondition(c)
    BY DEF Fits
  <2>2. QED
    BY <1>1, <2>1, FromTheOperands
<1>3. QED
  BY <1>2

\* E holds tests of which those of the condition are true of the event.
Truthful(E, c, event) == E \cap Tests(c) \subseteq TrueTests(c, event)

\* Under no "not", what follows from fewer true tests follows from more.
LEMMA MoreTestsHoldMore ==
  ASSUME NEW c, NEW event, Fits(c, event), NEW E, Truthful(E, c, event)
  PROVE  \A n \in DOMAIN c :
           (\A p \in Negated(c)[n] : p[2] <= 0) =>
             (Held(c, E)[n] => Held(c, TrueTests(c, event))[n])
<1> DEFINE t == Negated(c)
           few == Held(c, E)
           all == Held(c, TrueTests(c, event))
           P == {n \in DOMAIN c : (\A p \in t[n] : p[2] <= 0) => (few[n] => all[n])}
<1>1. ASSUME NEW n \in DOMAIN c, \A i \in DOMAIN c[n].args : c[n].args[i] \in P
      PROVE  n \in P
  <2>0. SUFFICES ASSUME \A p \in t[n] : p[2] <= 0, few[n]
                 PROVE  all[n]
    OBVIOUS
  <2>1. /\ c[n].op = "field" => (few[n] <=> c[n] \in E)
        /\ c[n].op = "not" => (few[n] <=> ~few[c[n].args[1]])
        /\ c[n].op = "and" => (few[n] <=> \A i \in DOMAIN c[n].args : few[c[n].args[i]])
        /\ c[n].op = "or" => (few[n] <=> \E i \in DOMAIN c[n].args : few[c[n].args[i]])
    BY HeldNode
  <2>2. /\ c[n].op = "field" => (all[n] <=> c[n] \in TrueTests(c, event))
        /\ c[n].op = "not" => (all[n] <=> ~all[c[n].args[1]])
        /\ c[n].op = "and" => (all[n] <=> \A i \in DOMAIN c[n].args : all[c[n].args[i]])
        /\ c[n].op = "or" => (all[n] <=> \E i \in DOMAIN c[n].args : all[c[n].args[i]])
    BY HeldNode
  <2>3. /\ c[n].op \in {"field", "not", "and", "or"}
        /\ c[n].op = "field" => c[n] \in Tests(c)
        /\ c[n].op # "field" => 1 \in DOMAIN c[n].args
    BY NodeShape
  <2>4. /\ c[n].op = "not" => \A p \in t[c[n].args[1]] : <<p[1], p[2] + 1>> \in t[n]
        /\ c[n].op \in {"and", "or"} =>
             \A i \in DOMAIN c[n].args : \A p \in t[c[n].args[i]] : <<p[1], p[2] + 0>> \in t[n]
    BY NegatedNode
  <2>5. \A i \in DOMAIN c[n].args : c[n].args[i] \in DOMAIN c
    BY ConditionShape DEF Fits
  <2>6. \A m \in DOMAIN c : t[m] # {} /\ \A p \in t[m] : p[2] \in Nat
    BY NegatedType
  <2>7. \A i \in DOMAIN c[n].args :
          (\A p \in t[c[n].args[i]] : p[2] <= 0) => (few[c[n].args[i]] => all[c[n].args[i]])
    BY <1>1
  <2> HIDE DEF t, few, all
  <2>8. CASE c[n].op = "field"
    BY <2>0, <2>1, <2>2, <2>3, <2>8 DEF Truthful
  <2>9. CASE c[n].op = "not"
    <3>1. PICK p \in t[c[n].args[1]] : TRUE
      BY <2>3, <2>5, <2>6, <2>9
    <3>2. p[2] \in Nat /\ <<p[1], p[2] + 1>> \in t[n]
      BY <2>3, <2>4, <2>5, <2>6, <2>9
    <3>3. <<p[1], p[2] + 1>>[2] <= 0
      BY <2>0, <3>2
    <3>4. QED
      BY <3>2, <3>3
  <2>10. CASE c[n].op \in {"and", "or"}
    <3>1. ASSUME NEW i \in DOMAIN c[n].args
          PROVE  few[c[n].args[i]] => all[c[n].args[i]]
      <4>1. ASSUME NEW p \in t[c[n].args[i]]
            PROVE  p[2] <= 0
        <5>1. p[2] \in Nat
          BY <2>5, <2>6
        <5>2. <<p[1], p[2] + 0>> \in t[n]
          BY <2>4, <2>10
        <5>3. <<p[1], p[2] + 0>>[2] <= 0
          BY <2>0, <5>2
        <5>4. QED
          BY <5>1, <5>3
      <4>2. QED
        BY <2>7, <4>1
    <3>2. QED
      BY <2>0, <2>1, <2>2, <2>10, <3>1
  <2>11. QED
    BY <2>3, <2>8, <2>9, <2>10
<1>2. \A n \in DOMAIN c : n \in P
  <2> HIDE DEF P
  <2>1. IsCondition(c)
    BY DEF Fits
  <2>2. QED
    BY <1>1, <2>1, FromTheOperands
<1>3. QED
  BY <1>2

\* Where no "not" stands inside a "not", the tests of the evidence alone make the
\* node hold.
LEMMA EvidenceMakesHold ==
  ASSUME NEW c, NEW event, Fits(c, event), NEW E, Truthful(E, c, event)
  PROVE  \A n \in DOMAIN c :
           /\ \A p \in Negated(c)[n] : p[2] <= 1
           /\ \A m \in Evaluated(c, event)[n].matches : m.test \in E
           /\ Evaluated(c, event)[n].matched
           => Held(c, E)[n]
<1> DEFINE t == Negated(c)
           r == Evaluated(c, event)
           few == Held(c, E)
           P == {n \in DOMAIN c :
                  /\ \A p \in t[n] : p[2] <= 1
                  /\ \A m \in r[n].matches : m.test \in E
                  /\ r[n].matched
                  => few[n]}
<1>1. ASSUME NEW n \in DOMAIN c, \A i \in DOMAIN c[n].args : c[n].args[i] \in P
      PROVE  n \in P
  <2>0. SUFFICES ASSUME \A p \in t[n] : p[2] <= 1,
                        \A m \in r[n].matches : m.test \in E,
                        r[n].matched
                 PROVE  few[n]
    OBVIOUS
  <2>1. /\ c[n].op = "field" => (few[n] <=> c[n] \in E)
        /\ c[n].op = "not" => (few[n] <=> ~few[c[n].args[1]])
        /\ c[n].op = "and" => (few[n] <=> \A i \in DOMAIN c[n].args : few[c[n].args[i]])
        /\ c[n].op = "or" => (few[n] <=> \E i \in DOMAIN c[n].args : few[c[n].args[i]])
    BY HeldNode
  <2>2. NodeEvaluated(c, event, r, n)
    BY EvaluatedNode
  <2>3. /\ c[n].op \in {"field", "not", "and", "or"}
        /\ c[n].op # "field" => 1 \in DOMAIN c[n].args
        /\ c[n].op = "field" =>
             /\ IsTest(c[n]) /\ c[n].matcher # "unsupported"
             /\ IsValue(event.fields[c[n].field])
    BY NodeShape
  <2>4. /\ c[n].op = "not" => \A p \in t[c[n].args[1]] : <<p[1], p[2] + 1>> \in t[n]
        /\ c[n].op \in {"and", "or"} =>
             \A i \in DOMAIN c[n].args : \A p \in t[c[n].args[i]] : <<p[1], p[2] + 0>> \in t[n]
    BY NegatedNode
  <2>5. \A i \in DOMAIN c[n].args : c[n].args[i] \in DOMAIN c
    BY ConditionShape DEF Fits
  <2>6. \A m \in DOMAIN c : t[m] # {} /\ \A p \in t[m] : p[2] \in Nat
    BY NegatedType
  <2>7. \A i \in DOMAIN c[n].args :
          /\ \A p \in t[c[n].args[i]] : p[2] <= 1
          /\ \A m \in r[c[n].args[i]].matches : m.test \in E
          /\ r[c[n].args[i]].matched
          => few[c[n].args[i]]
    BY <1>1
  <2>8. CASE c[n].op = "field"
    <3>1. PICK m \in MatchesOf(c[n], event) : m \in r[n].matches
      BY <2>0, <2>2, <2>8 DEF NodeEvaluated
    <3>2. m.test = c[n]
      BY <2>3, <2>8, <3>1, TestShown
    <3> HIDE DEF r, few
    <3>3. QED
      BY <2>0, <2>1, <2>8, <3>1, <3>2
  <2>9. CASE c[n].op = "not"
    <3> DEFINE k == c[n].args[1]
    <3>1. k \in DOMAIN c
      BY <2>3, <2>5, <2>9
    <3>2. ASSUME NEW p \in t[k]
          PROVE  p[2] <= 0
      <4> HIDE DEF t
      <4>1. p[2] \in Nat
        BY <2>6, <3>1
      <4>2. <<p[1], p[2] + 1>> \in t[n]
        BY <2>4, <2>9
      <4>3. <<p[1], p[2] + 1>>[2] <= 1
        BY <2>0, <4>2
      <4>4. QED
        BY <4>1, <4>3
    <3>3. few[k] => Held(c, TrueTests(c, event))[k]
      BY <3>1, <3>2, MoreTestsHoldMore
    <3>4. r[k].matched <=> Held(c, TrueTests(c, event))[k]
      BY <3>1, MatchedIffHeld
    <3>5. ~r[k].matched
      BY <2>0, <2>2, <2>9 DEF NodeEvaluated
    <3> HIDE DEF r, few
    <3>6. QED
      BY <2>1, <2>9, <3>3, <3>4, <3>5
  <2> HIDE DEF t, r, few
  <2>10. CASE c[n].op \in {"and", "or"}
    <3>1. r[n].matches = UNION {r[c[n].args[i]].matches : i \in DOMAIN c[n].args}
      BY <2>0, <2>2, <2>10 DEF NodeEvaluated
    <3>2. ASSUME NEW i \in DOMAIN c[n].args, r[c[n].args[i]].matched
          PROVE  few[c[n].args[i]]
      <4>1. ASSUME NEW p \in t[c[n].args[i]]
            PROVE  p[2] <= 1
        <5>1. p[2] \in Nat
          BY <2>5, <2>6
        <5>2. <<p[1], p[2] + 0>> \in t[n]
          BY <2>4, <2>10
        <5>3. <<p[1], p[2] + 0>>[2] <= 1
          BY <2>0, <5>2
        <5>4. QED
          BY <5>1, <5>3
      <4>2. \A m \in r[c[n].args[i]].matches : m.test \in E
        BY <2>0, <3>1
      <4>3. QED
        BY <2>7, <3>2, <4>1, <4>2
    <3>3. CASE c[n].op = "and"
      <4>1. \A i \in DOMAIN c[n].args : r[c[n].args[i]].matched
        BY <2>0, <2>2, <3>3 DEF NodeEvaluated
      <4>2. QED
        BY <2>1, <3>2, <3>3, <4>1
    <3>4. CASE c[n].op = "or"
      <4>1. PICK i \in DOMAIN c[n].args : r[c[n].args[i]].matched
        BY <2>0, <2>2, <3>4 DEF NodeEvaluated
      <4>2. QED
        BY <2>1, <3>2, <3>4, <4>1
    <3>5. QED
      BY <2>10, <3>3, <3>4
  <2>11. QED
    BY <2>3, <2>8, <2>9, <2>10
<1>2. \A n \in DOMAIN c : n \in P
  <2> HIDE DEF P
  <2>1. IsCondition(c)
    BY DEF Fits
  <2>2. QED
    BY <1>1, <2>1, FromTheOperands
<1>3. QED
  BY <1>2

-----------------------------------------------------------------------------
(* Lists with some items left out. *)

\* "at" tells, for each member of t, which of the items up to m it is: those to
\* keep, each once and in their order.
Keeps(at, t, item, keep, m) ==
  /\ \A i \in 1 .. Len(t) : at[i] \in keep /\ at[i] \in 1 .. m /\ t[i] = item[at[i]]
  /\ \A i, j \in 1 .. Len(t) : i < j => at[i] < at[j]
  /\ \A k \in 1 .. m : k \in keep => \E i \in 1 .. Len(t) : at[i] = k

\* One more item that is kept.
LEMMA KeepsOneMore ==
  ASSUME NEW S, NEW item, NEW keep, NEW m \in Nat, NEW t \in Seq(S), NEW x \in S,
         x = item[m + 1], m + 1 \in keep, NEW at, Keeps(at, t, item, keep, m)
  PROVE  \E next : Keeps(next, t \o <<x>>, item, keep, m + 1)
<1> DEFINE a == Len(t)
           w == t \o <<x>>
           next == [i \in 1 .. a + 1 |-> IF i <= a THEN at[i] ELSE m + 1]
<1>1. a \in Nat
  BY LenProperties
<1>2. /\ w \in Seq(S) /\ Len(w) = a + 1
      /\ \A i \in 1 .. a : w[i] = t[i]
      /\ w[a + 1] = x
  BY <1>1
<1>3. /\ \A i \in 1 .. a : at[i] \in keep /\ at[i] \in 1 .. m /\ t[i] = item[at[i]]
      /\ \A i, j \in 1 .. a : i < j => at[i] < at[j]
      /\ \A k \in 1 .. m : k \in keep => \E i \in 1 .. a : at[i] = k
  BY DEF Keeps
<1> HIDE DEF a, w
<1>4. /\ \A i \in 1 .. a : next[i] = at[i]
      /\ next[a + 1] = m + 1
      /\ \A i \in 1 .. a + 1 : i \in 1 .. a \/ i = a + 1
  BY <1>1
<1> HIDE DEF next
<1>5. \A i \in 1 .. a + 1 : next[i] \in keep /\ next[i] \in 1 .. m + 1 /\ w[i] = item[next[i]]
  BY <1>1, <1>2, <1>3, <1>4
<1>6. \A i, j \in 1 .. a + 1 : i < j => next[i] < next[j]
  BY <1>1, <1>3, <1>4, SMTT(30)
<1>7. \A k \in 1 .. m + 1 : k \in keep => \E i \in 1 .. a + 1 : next[i] = k
  <2>1. ASSUME NEW k \in 1 .. m, k \in keep
        PROVE  \E i \in 1 .. a + 1 : next[i] = k
    <3>1. PICK i \in 1 .. a : at[i] = k
      BY <1>3, <2>1
    <3>2. i \in 1 .. a + 1 /\ next[i] = k
      BY <1>1, <1>4, <3>1
    <3>3. QED
      BY <3>2
  <2>2. a + 1 \in 1 .. a + 1
    BY <1>1
  <2>3. \A k \in 1 .. m + 1 : k \in 1 .. m \/ k = m + 1
    OBVIOUS
  <2>4. QED
    BY <1>4, <2>1, <2>2, <2>3
<1>8. Keeps(next, w, item, keep, m + 1)
  BY <1>2, <1>5, <1>6, <1>7 DEF Keeps
<1>9. QED
  BY <1>8 DEF w

\* A loop that appends the items to keep makes the list of these.
LEMMA KeptInOrder ==
  ASSUME NEW S, NEW N \in Nat, NEW item \in [1 .. N -> S], NEW keep,
         NEW s, s = [k \in 1 .. N |-> IF k \in keep THEN <<item[k]>> ELSE <<>>]
  PROVE  /\ FlattenSeq(s) \in Seq(S)
         /\ \E at : Keeps(at, FlattenSeq(s), item, keep, N)
<1>0. \A k \in 1 .. N : s[k] = IF k \in keep THEN <<item[k]>> ELSE <<>>
  OBVIOUS
<1>1. s \in Seq(Seq(S)) /\ Len(s) = N /\ DOMAIN s = 1 .. N
  <2>1. \A k \in 1 .. N : s[k] \in Seq(S)
    BY <1>0
  <2>2. s = [k \in 1 .. N |-> s[k]]
    OBVIOUS
  <2>3. QED
    BY <2>1, <2>2
<1>2. CASE N = 0
  <2>1. s = <<>>
    BY <1>1, <1>2, EmptySeq
  <2>2. FlattenSeq(s) = <<>>
    BY <2>1, FlattenNothing
  <2>3. FlattenSeq(s) \in Seq(S) /\ Len(FlattenSeq(s)) = 0
    BY <2>2
  <2>4. Keeps(<<>>, FlattenSeq(s), item, keep, N)
    BY <1>2, <2>3 DEF Keeps
  <2>5. QED
    BY <2>3, <2>4
<1>3. CASE N # 0
  <2>1. s # <<>>
    BY <1>1, <1>3, EmptySeq
  <2>2. PICK f : /\ f = [i \in 1 .. Len(s) |-> IF i = 1 THEN s[i] ELSE f[i - 1] \o s[i]]
                 /\ \A i \in 1 .. Len(s) : f[i] \in Seq(S)
                 /\ FlattenSeq(s) = f[Len(s)]
    BY <1>1, <2>1, FlattenEquation
  <2>3. /\ \A i \in 1 .. N : f[i] = IF i = 1 THEN s[i] ELSE f[i - 1] \o s[i]
        /\ \A i \in 1 .. N : f[i] \in Seq(S)
        /\ FlattenSeq(s) = f[N]
    BY <1>1, <2>2
  <2> DEFINE P == {m \in 1 .. N : \E at : Keeps(at, f[m], item, keep, m)}
  <2>4. \A t \in Seq(S) : t \o <<>> = t /\ <<>> \o t = t
    OBVIOUS
  <2>5. Keeps(<<>>, <<>>, item, keep, 0)
    BY DEF Keeps
  \* The step from m items to m + 1.
  <2>6. ASSUME NEW m \in 0 .. N - 1, NEW t \in Seq(S), NEW at, Keeps(at, t, item, keep, m)
        PROVE  \E next : Keeps(next, t \o s[m + 1], item, keep, m + 1)
    <3>1. m \in Nat /\ m + 1 \in 1 .. N /\ item[m + 1] \in S
      BY <1>3
    <3>2. CASE m + 1 \in keep
      <4>1. s[m + 1] = <<item[m + 1]>>
        BY <1>0, <3>1, <3>2
      <4>2. \E next : Keeps(next, t \o <<item[m + 1]>>, item, keep, m + 1)
        BY <2>6, <3>1, <3>2, KeepsOneMore
      <4>3. QED
        BY <4>1, <4>2
    <3>3. CASE m + 1 \notin keep
      <4>1. s[m + 1] = <<>>
        BY <1>0, <3>1, <3>3
      <4>2. t \o s[m + 1] = t
        BY <2>4, <4>1
      <4>3. \A k \in 1 .. m + 1 : k \in 1 .. m \/ k = m + 1
        BY <3>1
      <4>4. \A k \in 1 .. m : k \in 1 .. m + 1
        BY <3>1
      <4>5. Keeps(at, t, item, keep, m + 1)
        BY <2>6, <3>3, <4>3, <4>4 DEF Keeps
      <4>6. QED
        BY <4>2, <4>5
    <3>4. QED
      BY <3>2, <3>3
  <2>7. 1 \in P
    <3>1. 0 \in 0 .. N - 1 /\ 1 \in 1 .. N /\ 0 + 1 = 1
      BY <1>3
    <3>2. <<>> \in Seq(S)
      OBVIOUS
    <3>3. \E next : Keeps(next, <<>> \o s[1], item, keep, 1)
      BY <2>5, <2>6, <3>1, <3>2
    <3>4. s[1] \in Seq(S)
      BY <1>0, <3>1
    <3>5. f[1] = <<>> \o s[1]
      BY <2>3, <2>4, <3>1, <3>4
    <3>6. QED
      BY <3>1, <3>3, <3>5
  <2>8. ASSUME NEW m \in 2 .. N, m - 1 \in P
        PROVE  m \in P
    <3>1. m - 1 \in 0 .. N - 1 /\ m - 1 \in 1 .. N /\ m \in 1 .. N /\ (m - 1) + 1 = m /\ m # 1
      OBVIOUS
    <3>2. PICK at : Keeps(at, f[m - 1], item, keep, m - 1)
      BY <2>8
    <3>3. f[m] = f[m - 1] \o s[m]
      BY <2>3, <3>1
    <3>4. f[m - 1] \in Seq(S)
      BY <2>3, <3>1
    <3> HIDE DEF P
    <3>5. \E next : Keeps(next, f[m - 1] \o s[(m - 1) + 1], item, keep, (m - 1) + 1)
      BY <2>6, <3>1, <3>2, <3>4
    <3>6. \E next : Keeps(next, f[m], item, keep, m)
      BY <3>1, <3>3, <3>5
    <3>7. QED
      BY <3>1, <3>6 DEF P
  <2>9. N \in P
    <3> HIDE DEF P
    <3>1. \A m \in 1 .. N : m \in P
      BY <2>7, <2>8, FromOne
    <3>2. QED
      BY <1>3, <3>1
  <2>10. FlattenSeq(s) \in Seq(S)
    BY <1>3, <2>3
  <2>11. QED
    BY <2>3, <2>9, <2>10
<1>4. QED
  BY <1>2, <1>3

-----------------------------------------------------------------------------
(* Loaded conditions. *)

\* What evaluation says of a loaded condition: it finds evidence exactly of an event
\* of which the condition is true, ...
LEMMA ConditionMatched ==
  ASSUME NEW c, NEW event, Fits(c, event), GuaranteesEvidence(c)
  PROVE  Evaluate(c, event).matches # {} <=> HoldsOf(c, event)
<1> DEFINE root == Len(c)
<1>1. IsCondition(c) /\ root \in DOMAIN c
  <2>1. IsCondition(c)
    BY DEF Fits
  <2>2. QED
    BY <2>1, ConditionShape
<1>2. Evaluate(c, event) = Evaluated(c, event)[root]
  BY <1>1, EvaluatedEquation
<1>3. HoldsOf(c, event) <=> Held(c, TrueTests(c, event))[root]
  BY <1>1, HeldEquation DEF HoldsOf, TrueTests
<1>4. Guaranteed(c)[root]
  BY <1>1, GuaranteedEquation
<1> HIDE DEF root
<1>5. Evaluated(c, event)[root].matched => Evaluated(c, event)[root].matches # {}
  BY <1>1, <1>4, GuaranteeHolds
<1>6. ~Evaluated(c, event)[root].matched => Evaluated(c, event)[root].matches = {}
  BY <1>1, EvaluatedNode DEF NodeEvaluated
<1>7. Evaluated(c, event)[root].matched <=> Held(c, TrueTests(c, event))[root]
  BY <1>1, MatchedIffHeld
<1>8. QED
  BY <1>2, <1>3, <1>5, <1>6, <1>7

\* ... the evidence is of its tests under no "not", which are true, ...
LEMMA ConditionEvidence ==
  ASSUME NEW c, NEW event, Fits(c, event), NEW m \in Evaluate(c, event).matches
  PROVE  m.test \in PositiveTests(c) /\ TestHolds(m.test, event) /\ m.seen.rounds <= 3
<1> DEFINE root == Len(c)
<1>1. IsCondition(c) /\ root \in DOMAIN c
  <2>1. IsCondition(c)
    BY DEF Fits
  <2>2. QED
    BY <2>1, ConditionShape
<1>2. Evaluate(c, event) = Evaluated(c, event)[root] /\ Negations(c) = Negated(c)[root]
  BY <1>1, EvaluatedEquation, NegatedEquation
<1> HIDE DEF root
<1>3. PICK k \in DOMAIN c : /\ c[k].op = "field" /\ m \in MatchesOf(c[k], event)
                            /\ <<c[k], 0>> \in Negated(c)[root]
  BY <1>1, <1>2, EvidenceOfTests DEF Positive
<1>4. /\ IsTest(c[k]) /\ c[k].matcher # "unsupported" /\ c[k] \in Tests(c)
      /\ IsValue(event.fields[c[k].field])
  BY <1>3, NodeShape
<1>5. m.test = c[k] /\ m.seen.rounds <= 3 /\ TestHolds(c[k], event)
  BY <1>3, <1>4, TestShown
<1>6. QED
  BY <1>2, <1>3, <1>4, <1>5 DEF PositiveTests

\* ... and the tests that are found, with others that are true, make it hold.
LEMMA ConditionSuffices ==
  ASSUME NEW c, NEW event, Fits(c, event), NEW E, Truthful(E, c, event),
         \A m \in Evaluate(c, event).matches : m.test \in E,
         HoldsOf(c, event), ~DoublyNegates(c)
  PROVE  Holds(c, E)
<1> DEFINE root == Len(c)
<1>1. IsCondition(c) /\ root \in DOMAIN c
  <2>1. IsCondition(c)
    BY DEF Fits
  <2>2. QED
    BY <2>1, ConditionShape
<1>2. Evaluate(c, event) = Evaluated(c, event)[root] /\ Negations(c) = Negated(c)[root]
  BY <1>1, EvaluatedEquation, NegatedEquation
<1>3. HoldsOf(c, event) <=> Held(c, TrueTests(c, event))[root]
  BY <1>1, HeldEquation DEF HoldsOf, TrueTests
<1>4. Holds(c, E) = Held(c, E)[root]
  BY <1>1, HeldEquation
<1> HIDE DEF root
<1>5. Evaluated(c, event)[root].matched
  BY <1>1, <1>3, MatchedIffHeld
<1>6. \A p \in Negated(c)[root] : p[2] <= 1
  <2>1. \A p \in Negated(c)[root] : p[2] \in Nat /\ ~(p[2] > 1)
    BY <1>1, <1>2, NegatedType DEF DoublyNegates
  <2>2. QED
    BY <2>1
<1>7. Held(c, E)[root]
  BY <1>1, <1>2, <1>5, <1>6, EvidenceMakesHold
<1>8. QED
  BY <1>4, <1>7

\* A rule of the ruleset that compiled, and an event of the stream.
LEMMA ConditionsFit ==
  ASSUME rules \in Rulesets, stream \in Streams, NEW k \in DOMAIN rules, CompilesRule(rules[k]),
         NEW n \in DOMAIN stream, NEW c \in ToSet(rules[k].conditions)
  PROVE  Fits(c, stream[n]) /\ GuaranteesEvidence(c)
<1>1. rules[k] \in ToSet(rules) /\ stream[n] \in ToSet(stream)
  BY DEF ToSet
<1>2. IsCondition(c)
  BY <1>1, RulesetsAssumption
<1>3. Compiles(c) /\ GuaranteesEvidence(c)
  BY DEF CompilesRule
<1>4. \A field \in Fields : IsValue(stream[n].fields[field])
  BY <1>1, StreamsAssumption
<1>5. \A j \in DOMAIN c : c[j].op = "field" => c[j].field \in Fields
  BY <1>2 DEF IsCondition, IsTest
<1>6. QED
  BY <1>2, <1>3, <1>4, <1>5 DEF Fits

\* What the evidence of a rule says.
EvidenceTrue(rule, event) ==
  /\ Evidence(rule, event) # {}
       <=> event.type \in rule.types /\ \E c \in ToSet(rule.conditions) : HoldsOf(c, event)
  /\ \A m \in Evidence(rule, event) :
       /\ \E c \in ToSet(rule.conditions) : m.test \in PositiveTests(c)
       /\ TestHolds(m.test, event)
       /\ m.seen.rounds <= 3
  /\ \A c \in ToSet(rule.conditions) :
       Evidence(rule, event) # {} /\ HoldsOf(c, event) /\ ~DoublyNegates(c) =>
         Holds(c, {m.test : m \in Evidence(rule, event)})

\* The evidence a loaded rule finds in an event of the stream is as it should be.
LEMMA RuleEvidence ==
  ASSUME rules \in Rulesets, stream \in Streams, NEW k \in DOMAIN rules, CompilesRule(rules[k]),
         NEW n \in DOMAIN stream
  PROVE  EvidenceTrue(rules[k], stream[n])
<1> DEFINE C == ToSet(rules[k].conditions)
           event == stream[n]
           found == Evidence(rules[k], event)
           E == {m.test : m \in found}
<1>1. \A c \in C : Fits(c, event) /\ GuaranteesEvidence(c)
  BY ConditionsFit
<1>2. found = IF event.type \notin rules[k].types THEN {}
              ELSE UNION {Evaluate(c, event).matches : c \in C}
  BY DEF Evidence
<1> HIDE DEF C, event, found
<1>3. \A c \in C : Evaluate(c, event).matches # {} <=> HoldsOf(c, event)
  BY <1>1, ConditionMatched
<1>4. found # {} <=> event.type \in rules[k].types /\ \E c \in C : HoldsOf(c, event)
  BY <1>2, <1>3
<1>5. \A m \in found : \E c \in C : m \in Evaluate(c, event).matches
  BY <1>2
<1>6. ASSUME NEW m \in found
      PROVE  /\ \E c \in C : m.test \in PositiveTests(c)
             /\ TestHolds(m.test, event) /\ m.seen.rounds <= 3
  <2>1. PICK c \in C : m \in Evaluate(c, event).matches
    BY <1>5
  <2>2. Fits(c, event)
    BY <1>1
  <2>3. QED
    BY <2>1, <2>2, ConditionEvidence
<1>7. ASSUME NEW c \in C, found # {}, HoldsOf(c, event), ~DoublyNegates(c)
      PROVE  Holds(c, E)
  <2>1. Fits(c, event)
    BY <1>1
  <2>2. \A m \in Evaluate(c, event).matches : m.test \in E
    BY <1>2, <1>7
  <2>3. \A x \in E : TestHolds(x, event)
    BY <1>6
  <2> HIDE DEF E
  <2>4. Truthful(E, c, event)
    BY <2>3 DEF Truthful, TrueTests
  <2>5. QED
    BY <1>7, <2>1, <2>2, <2>4, ConditionSuffices
<1>8. QED
  BY <1>4, <1>6, <1>7 DEF EvidenceTrue, C, event, found

-----------------------------------------------------------------------------
(* A run of the engine. *)

\* The run is of one of the rulesets and one of the streams, and has come as far as
\* it says.
RunOK ==
  /\ rules \in Rulesets /\ stream \in Streams
  /\ engine \in {"loading", "refused", "ready", "raised", "done"}
  /\ position \in 0 .. Len(stream)
  /\ engine = "loading" => position = 0
  /\ engine = "done" => position = Len(stream)

\* A run that got past loading has a ruleset that compiles, all of it.
RulesetLoaded ==
  engine \in {"ready", "raised", "done"} => \A k \in DOMAIN rules : CompilesRule(rules[k])

\* The findings are the evidence of rules in the events so far, ...
FindingsTrue ==
  /\ IsList(findings)
  /\ \A i \in DOMAIN findings :
       /\ findings[i].event \in 1 .. position
       /\ findings[i].rule \in DOMAIN rules
       /\ findings[i].evidence = Evidence(rules[findings[i].rule], stream[findings[i].event])
       /\ findings[i].evidence # {}

\* ... in the order of events and rules, ...
FindingsInOrder ==
  \A i, j \in DOMAIN findings : i < j =>
    \/ findings[i].event < findings[j].event
    \/ findings[i].event = findings[j].event /\ findings[i].rule < findings[j].rule

\* ... all of them, unless the run did not finish, which has none.
FindingsAll ==
  /\ engine \in {"loading", "refused", "raised"} => findings = <<>>
  /\ engine \in {"ready", "done"} =>
       \A n \in 1 .. position : \A k \in DOMAIN rules :
         Evidence(rules[k], stream[n]) # {} =>
           \E i \in DOMAIN findings : findings[i].event = n /\ findings[i].rule = k

IInv == RunOK /\ RulesetLoaded /\ FindingsTrue /\ FindingsInOrder /\ FindingsAll

\* A finding of event n for each rule that has evidence, in the order of the rules.
FindingsMade(t, n) ==
  /\ IsList(t)
  /\ \A i \in DOMAIN t :
       /\ t[i].event = n /\ t[i].rule \in DOMAIN rules
       /\ t[i].evidence = Evidence(rules[t[i].rule], stream[n]) /\ t[i].evidence # {}
  /\ \A i, j \in DOMAIN t : i < j => t[i].rule < t[j].rule
  /\ \A k \in DOMAIN rules :
       Evidence(rules[k], stream[n]) # {} => \E i \in DOMAIN t : t[i].rule = k

\* A list is indexed by 1 .. Len.
LEMMA ListShape ==
  ASSUME NEW t, IsList(t)
  PROVE  Len(t) \in Nat /\ DOMAIN t = 1 .. Len(t)
BY LenProperties DEF IsList

\* A sequence over any set is a list.
LEMMA ListOf ==
  ASSUME NEW S, NEW t \in Seq(S)
  PROVE  IsList(t)
<1>1. /\ Len(t) \in Nat /\ DOMAIN t = 1 .. Len(t)
      /\ t = [i \in 1 .. Len(t) |-> t[i]]
  BY LenProperties
<1>2. \A i \in 1 .. Len(t) : t[i] \in ToSet(t)
  BY <1>1 DEF ToSet
<1>3. [i \in 1 .. Len(t) |-> t[i]] \in Seq(ToSet(t))
  BY <1>1, <1>2
<1>4. QED
  BY <1>1, <1>3 DEF IsList

\* evaluate_event gives these, by joining what the rules give one after the other.
LEMMA FindingsOfEvent ==
  ASSUME IsList(rules), NEW n
  PROVE  FindingsMade(FindingsOf(n), n)
<1> DEFINE N == Len(rules)
           ev == [k \in 1 .. N |-> Evidence(rules[k], stream[n])]
           item == [k \in 1 .. N |-> [event |-> n, rule |-> k, evidence |-> ev[k]]]
           keep == {k \in 1 .. N : ev[k] # {}}
           S == {item[k] : k \in 1 .. N}
           s == [k \in 1 .. N |-> IF k \in keep THEN <<item[k]>> ELSE <<>>]
           t == FlattenSeq(s)
<1>1. N \in Nat /\ DOMAIN rules = 1 .. N
  BY ListShape
<1>2. \A k \in 1 .. N : ev[k] = Evidence(rules[k], stream[n])
  OBVIOUS
<1>3. \A k \in 1 .. N : item[k].event = n /\ item[k].rule = k /\ item[k].evidence = ev[k]
  OBVIOUS
<1>4. FindingsOf(n) = t
  <2>1. FindingsOf(n) = FlattenSeq([k \in 1 .. N |-> FindingOf(n, k, Evidence(rules[k], stream[n]))])
    BY <1>1 DEF FindingsOf
  <2>2. \A k \in 1 .. N : FindingOf(n, k, Evidence(rules[k], stream[n])) = s[k]
    BY DEF FindingOf
  <2>3. [k \in 1 .. N |-> FindingOf(n, k, Evidence(rules[k], stream[n]))] = s
    BY <2>2
  <2>4. QED
    BY <2>1, <2>3
<1>5. item \in [1 .. N -> S]
  OBVIOUS
<1>6. t \in Seq(S) /\ \E at : Keeps(at, t, item, keep, N)
  <2> HIDE DEF N, item, keep, S
  <2>1. QED
    BY <1>1, <1>5, KeptInOrder
<1>7. PICK at : Keeps(at, t, item, keep, N)
  BY <1>6
<1>8. \A k \in 1 .. N : k \in keep <=> ev[k] # {}
  OBVIOUS
<1> HIDE DEF N, ev, item, keep, S, t
<1>9. IsList(t)
  BY <1>6, ListOf
<1>10. DOMAIN t = 1 .. Len(t) /\ Len(t) \in Nat
  BY <1>9, ListShape
<1>11. \A i \in DOMAIN t : at[i] \in keep /\ at[i] \in 1 .. N /\ t[i] = item[at[i]]
  BY <1>7, <1>10 DEF Keeps
<1>12. \A i \in DOMAIN t : t[i].rule = at[i] /\ t[i].event = n /\ t[i].evidence = ev[at[i]]
  BY <1>3, <1>11
<1>13. \A i \in DOMAIN t :
         /\ t[i].rule \in DOMAIN rules
         /\ t[i].evidence = Evidence(rules[t[i].rule], stream[n]) /\ t[i].evidence # {}
  BY <1>1, <1>2, <1>8, <1>11, <1>12
<1>14. \A i, j \in DOMAIN t : i < j => t[i].rule < t[j].rule
  <2>1. \A i, j \in DOMAIN t : i < j => at[i] < at[j]
    BY <1>7, <1>10 DEF Keeps
  <2>2. QED
    BY <1>12, <2>1
<1>15. ASSUME NEW k \in DOMAIN rules, Evidence(rules[k], stream[n]) # {}
       PROVE  \E i \in DOMAIN t : t[i].rule = k
  <2>1. k \in 1 .. N /\ k \in keep
    BY <1>1, <1>2, <1>8, <1>15
  <2>2. PICK i \in 1 .. Len(t) : at[i] = k
    BY <1>7, <2>1 DEF Keeps
  <2>3. QED
    BY <1>10, <1>12, <2>2
<1>16. FindingsMade(t, n)
  BY <1>9, <1>12, <1>13, <1>14, <1>15 DEF FindingsMade
<1>17. QED
  BY <1>4, <1>16

\* The next event's findings come after those of the events before it.
LEMMA FindingsJoined ==
  ASSUME RunOK, FindingsTrue, FindingsInOrder, FindingsAll, engine = "ready", NEW t,
         FindingsMade(t, position + 1), EvaluateEvent, findings' = findings \o t
  PROVE  FindingsTrue' /\ FindingsInOrder' /\ FindingsAll'
<1> DEFINE a == Len(findings)
           b == Len(t)
           w == findings \o t
<1>1. a \in Nat /\ DOMAIN findings = 1 .. a
  BY ListShape DEF FindingsTrue
<1>2. b \in Nat /\ DOMAIN t = 1 .. b
  BY ListShape DEF FindingsMade
<1>3. /\ IsList(w) /\ DOMAIN w = 1 .. a + b
      /\ \A i \in 1 .. a + b : w[i] = IF i <= a THEN findings[i] ELSE t[i - a]
  <2> DEFINE S == ToSet(findings) \cup ToSet(t)
  <2>1. findings \in Seq(ToSet(findings)) /\ t \in Seq(ToSet(t))
    BY DEF FindingsTrue, FindingsMade, IsList
  <2>2. ToSet(findings) \subseteq S /\ ToSet(t) \subseteq S
    OBVIOUS
  <2> HIDE DEF S
  <2>3. findings \in Seq(S) /\ t \in Seq(S)
    <3>1. \A i \in 1 .. Len(findings) : findings[i] \in S
      BY <2>1, <2>2
    <3>2. \A i \in 1 .. Len(t) : t[i] \in S
      BY <2>1, <2>2
    <3>3. QED
      BY <2>1, <2>2, <3>1, <3>2
  <2>4. w \in Seq(S) /\ Len(w) = a + b
        /\ \A i \in 1 .. a + b : w[i] = IF i <= a THEN findings[i] ELSE t[i - a]
    BY <2>3
  <2>5. QED
    BY <2>4, ListOf, LenProperties
<1>4. /\ rules' = rules /\ stream' = stream /\ engine' = "ready"
      /\ position' = position + 1 /\ position \in Nat /\ findings' = w
  BY DEF EvaluateEvent, RunOK
<1> HIDE DEF a, b, w
\* A finding is an old one, or one of the new.
<1>5. \A i \in 1 .. a + b :
        \/ i \in 1 .. a /\ w[i] = findings[i]
        \/ i > a /\ i - a \in 1 .. b /\ w[i] = t[i - a]
  <2>1. a \in Nat /\ b \in Nat
    BY <1>1, <1>2
  <2>2. ASSUME NEW i \in 1 .. a + b
        PROVE  i \in 1 .. a \/ (i > a /\ ~(i <= a) /\ i - a \in 1 .. b)
    BY <2>1
  <2>3. \A i \in 1 .. a : i <= a
    BY <2>1
  <2>4. \A i \in 1 .. a + b : w[i] = IF i <= a THEN findings[i] ELSE t[i - a]
    BY <1>3
  <2>5. QED
    BY <2>2, <2>3, <2>4, Zenon
<1>6. /\ \A i \in 1 .. a : i \in 1 .. a + b /\ w[i] = findings[i]
      /\ \A i \in 1 .. b : a + i \in 1 .. a + b /\ w[a + i] = t[i]
  <2>1. \A i \in 1 .. b : ~(a + i <= a) /\ (a + i) - a = i /\ a + i \in 1 .. a + b
    BY <1>1, <1>2
  <2>2. QED
    BY <1>1, <1>2, <1>3, <2>1
<1>7. /\ \A i \in 1 .. a :
           /\ findings[i].event \in 1 .. position /\ findings[i].rule \in DOMAIN rules
           /\ findings[i].evidence = Evidence(rules[findings[i].rule], stream[findings[i].event])
           /\ findings[i].evidence # {}
      /\ \A i \in 1 .. b :
           /\ t[i].event = position + 1 /\ t[i].rule \in DOMAIN rules
           /\ t[i].evidence = Evidence(rules[t[i].rule], stream[position + 1])
           /\ t[i].evidence # {}
  BY <1>1, <1>2 DEF FindingsTrue, FindingsMade
<1>8. ASSUME NEW i \in 1 .. a + b
      PROVE  /\ w[i].event \in 1 .. position + 1 /\ w[i].rule \in DOMAIN rules
             /\ w[i].evidence = Evidence(rules[w[i].rule], stream[w[i].event])
             /\ w[i].evidence # {}
  <2>1. CASE i \in 1 .. a /\ w[i] = findings[i]
    BY <1>4, <1>7, <2>1
  <2>2. CASE i > a /\ i - a \in 1 .. b /\ w[i] = t[i - a]
    BY <1>4, <1>7, <2>2
  <2>3. QED
    BY <1>5, <2>1, <2>2
<1>9. FindingsTrue'
  BY <1>3, <1>4, <1>8 DEF FindingsTrue, IsList, ToSet
<1>10. ASSUME NEW i \in 1 .. a + b, NEW j \in 1 .. a + b, i < j
       PROVE  \/ w[i].event < w[j].event
              \/ w[i].event = w[j].event /\ w[i].rule < w[j].rule
  <2>1. CASE j \in 1 .. a /\ w[j] = findings[j]
    <3>1. i \in 1 .. a /\ w[i] = findings[i]
      BY <1>1, <1>6, <1>10, <2>1
    <3>2. QED
      BY <1>1, <1>10, <2>1, <3>1 DEF FindingsInOrder
  <2>2. CASE /\ j > a /\ j - a \in 1 .. b /\ w[j] = t[j - a]
             /\ i \in 1 .. a /\ w[i] = findings[i]
    <3>1. w[i].event \in 1 .. position /\ w[j].event = position + 1
      BY <1>7, <2>2
    <3>2. QED
      BY <1>4, <3>1
  <2>3. CASE /\ j > a /\ j - a \in 1 .. b /\ w[j] = t[j - a]
             /\ i > a /\ i - a \in 1 .. b /\ w[i] = t[i - a]
    <3>1. i - a < j - a
      BY <1>1, <1>2, <1>10
    <3>2. t[i - a].rule < t[j - a].rule
      BY <1>2, <2>3, <3>1 DEF FindingsMade
    <3>3. t[i - a].event = position + 1 /\ t[j - a].event = position + 1
      BY <1>7, <2>3
    <3>4. QED
      BY <2>3, <3>2, <3>3
  <2>4. QED
    BY <1>5, <2>1, <2>2, <2>3
<1>11. FindingsInOrder'
  BY <1>3, <1>4, <1>10 DEF FindingsInOrder
<1>12. ASSUME NEW n \in 1 .. position + 1, NEW k \in DOMAIN rules,
              Evidence(rules[k], stream[n]) # {}
       PROVE  \E i \in 1 .. a + b : w[i].event = n /\ w[i].rule = k
  <2>1. CASE n \in 1 .. position
    <3>1. \E i \in DOMAIN findings : findings[i].event = n /\ findings[i].rule = k
      BY <1>12, <2>1 DEF FindingsAll
    <3>2. PICK i \in 1 .. a : findings[i].event = n /\ findings[i].rule = k
      BY <1>1, <3>1
    <3>3. QED
      BY <1>6, <3>2
  <2>2. CASE n = position + 1
    <3>1. PICK i \in 1 .. b : t[i].rule = k
      BY <1>2, <1>12, <2>2 DEF FindingsMade
    <3>2. t[i].event = n
      BY <1>7, <2>2
    <3>3. QED
      BY <1>6, <3>1, <3>2
  <2>3. QED
    BY <1>4, <2>1, <2>2
<1>13. FindingsAll'
  <2>1. (engine' \in {"loading", "refused", "raised"}) = FALSE
    BY <1>4
  <2>2. \A n \in 1 .. position' : \A k \in DOMAIN rules' :
          Evidence(rules[k], stream[n])' # {} =>
            \E i \in DOMAIN findings' : findings'[i].event = n /\ findings'[i].rule = k
    BY <1>3, <1>4, <1>12
  <2>3. QED
    BY <2>1, <2>2 DEF FindingsAll
<1>14. QED
  BY <1>9, <1>11, <1>13

\* No findings are true ones and in order: before the first event, and after a timeout.
LEMMA NoFindings ==
  ASSUME findings = <<>>
  PROVE  FindingsTrue /\ FindingsInOrder
<1>1. IsList(<<>>) /\ DOMAIN <<>> = {}
  BY DEF IsList
<1>2. IsList(findings) /\ DOMAIN findings = {}
  BY <1>1
<1>3. QED
  BY <1>2 DEF FindingsTrue, FindingsInOrder

\* A step that leaves the findings alone leaves them true and in order.
LEMMA FindingsKept ==
  ASSUME FindingsTrue, FindingsInOrder, UNCHANGED <<rules, stream, position, findings>>
  PROVE  FindingsTrue' /\ FindingsInOrder'
<1>1. rules' = rules /\ stream' = stream /\ position' = position /\ findings' = findings
  OBVIOUS
<1>2. QED
  BY <1>1 DEF FindingsTrue, FindingsInOrder

\* Every step of the engine preserves the inductive invariant.
LEMMA SigmaStep == IInv /\ [Next]_vars => IInv'
<1> SUFFICES ASSUME IInv, [Next]_vars PROVE IInv'
  OBVIOUS
<1>0. RunOK /\ RulesetLoaded /\ FindingsTrue /\ FindingsInOrder /\ FindingsAll
  BY DEF IInv
<1>1. IsList(rules) /\ IsList(stream)
  BY <1>0, RulesetsAssumption, StreamsAssumption DEF RunOK
<1>2. Len(stream) \in Nat /\ DOMAIN rules = 1 .. Len(rules)
  BY <1>1, ListShape
<1>3. CASE RefuseRuleset
  <2>1. FindingsTrue' /\ FindingsInOrder'
    BY <1>0, <1>3, FindingsKept DEF RefuseRuleset
  <2>2. RunOK' /\ RulesetLoaded' /\ FindingsAll'
    BY <1>0, <1>3 DEF RefuseRuleset, RunOK, RulesetLoaded, FindingsAll
  <2>3. QED
    BY <2>1, <2>2 DEF IInv
<1>4. CASE LoadRuleset
  <2>1. FindingsTrue' /\ FindingsInOrder'
    BY <1>0, <1>4, FindingsKept DEF LoadRuleset
  <2>2. \A k \in DOMAIN rules : CompilesRule(rules[k])
    BY <1>4 DEF LoadRuleset, ToSet
  <2>3. RunOK' /\ RulesetLoaded'
    BY <1>0, <1>4, <2>2 DEF LoadRuleset, RunOK, RulesetLoaded
  <2>4. position' = 0 /\ engine' = "ready"
    BY <1>0, <1>4 DEF LoadRuleset, RunOK
  <2>5. FindingsAll'
    BY <2>4 DEF FindingsAll
  <2>6. QED
    BY <2>1, <2>3, <2>5 DEF IInv
<1>5. CASE EvaluateEvent
  <2>1. FindingsMade(FindingsOf(position + 1), position + 1)
    BY <1>1, FindingsOfEvent
  <2>2. engine = "ready" /\ findings' = findings \o FindingsOf(position + 1)
    BY <1>5 DEF EvaluateEvent
  <2>3. FindingsTrue' /\ FindingsInOrder' /\ FindingsAll'
    BY <1>0, <1>5, <2>1, <2>2, FindingsJoined
  <2>4. RunOK'
    BY <1>0, <1>2, <1>5 DEF EvaluateEvent, RunOK
  <2>5. RulesetLoaded'
    BY <1>0, <1>5 DEF EvaluateEvent, RulesetLoaded
  <2>6. QED
    BY <2>3, <2>4, <2>5 DEF IInv
<1>6. CASE TimesOut \/ EvidenceRefused
  <2>1. /\ engine = "ready" /\ engine' = "raised" /\ findings' = <<>>
        /\ rules' = rules /\ stream' = stream /\ position' = position
    BY <1>6 DEF TimesOut, EvidenceRefused
  <2>2. FindingsTrue' /\ FindingsInOrder'
    <3>1. IsList(<<>>) /\ DOMAIN <<>> = {}
      BY DEF IsList
    <3>2. IsList(findings)' /\ DOMAIN findings' = {}
      BY <2>1, <3>1 DEF IsList
    <3>3. QED
      BY <3>2 DEF FindingsTrue, FindingsInOrder
  <2>3. RunOK' /\ RulesetLoaded' /\ FindingsAll'
    BY <1>0, <2>1 DEF RunOK, RulesetLoaded, FindingsAll
  <2>4. QED
    BY <2>2, <2>3 DEF IInv
<1>7. CASE Finish
  <2>1. FindingsTrue' /\ FindingsInOrder'
    BY <1>0, <1>7, FindingsKept DEF Finish
  <2>2. RunOK' /\ RulesetLoaded' /\ FindingsAll'
    BY <1>0, <1>7 DEF Finish, RunOK, RulesetLoaded, FindingsAll
  <2>3. QED
    BY <2>1, <2>2 DEF IInv
<1>8. CASE Ended \/ UNCHANGED vars
  <2>1. UNCHANGED vars
    BY <1>8 DEF Ended
  <2>2. FindingsTrue' /\ FindingsInOrder'
    BY <1>0, <2>1, FindingsKept DEF vars
  <2>3. RunOK' /\ RulesetLoaded' /\ FindingsAll'
    BY <1>0, <2>1 DEF vars, RunOK, RulesetLoaded, FindingsAll
  <2>4. QED
    BY <2>2, <2>3 DEF IInv
<1>9. QED
  BY <1>3, <1>4, <1>5, <1>6, <1>7, <1>8 DEF Next

\* The inductive invariant holds from the ruleset's text to the last event.
LEMMA SigmaInvariance == Spec => []IInv
<1>1. Init => IInv
  <2> SUFFICES ASSUME Init PROVE IInv
    OBVIOUS
  <2>1. /\ rules \in Rulesets /\ stream \in Streams /\ engine = "loading"
        /\ position = 0 /\ findings = <<>>
    BY DEF Init
  <2>2. Len(stream) \in Nat
    BY <2>1, StreamsAssumption, ListShape
  <2>3. FindingsTrue /\ FindingsInOrder
    BY <2>1, NoFindings
  <2>4. RunOK /\ RulesetLoaded /\ FindingsAll
    BY <2>1, <2>2 DEF RunOK, RulesetLoaded, FindingsAll
  <2>5. QED
    BY <2>3, <2>4 DEF IInv
<1>2. QED
  BY <1>1, SigmaStep, PTL DEF Spec

\* One finding at most for each event and rule, in the order of the two, each with
\* evidence, and none of a run that did not finish.
THEOREM SigmaTypeCorrect == Spec => []TypeOK
<1>1. IInv => TypeOK
  BY DEF IInv, RunOK, FindingsTrue, FindingsInOrder, FindingsAll, TypeOK
<1>2. QED
  BY <1>1, SigmaInvariance, PTL

\* Of a run that finished, an event has a finding of a rule exactly when the rule is
\* for such events and one of its conditions is true of it.
THEOREM FindingsIffMatched == Spec => []FindingIffMatch
<1>1. IInv => FindingIffMatch
  <2>1. SUFFICES ASSUME IInv, engine = "done", NEW n \in DOMAIN stream, NEW k \in DOMAIN rules
                 PROVE  (\E f \in ToSet(findings) : f.event = n /\ f.rule = k)
                          <=> /\ stream[n].type \in rules[k].types
                              /\ \E c \in ToSet(rules[k].conditions) : HoldsOf(c, stream[n])
    BY DEF FindingIffMatch
  <2>2. rules \in Rulesets /\ stream \in Streams /\ CompilesRule(rules[k])
    BY <2>1 DEF IInv, RunOK, RulesetLoaded
  <2>3. EvidenceTrue(rules[k], stream[n])
    BY <2>2, RuleEvidence
  <2>4. n \in 1 .. position
    <3>1. IsList(stream)
      BY <2>2, StreamsAssumption
    <3>2. DOMAIN stream = 1 .. Len(stream)
      BY <3>1, ListShape
    <3>3. QED
      BY <2>1, <3>2 DEF IInv, RunOK
  <2>5. ASSUME NEW f \in ToSet(findings), f.event = n, f.rule = k
        PROVE  Evidence(rules[k], stream[n]) # {}
    BY <2>1, <2>5 DEF IInv, FindingsTrue, ToSet
  <2>6. ASSUME Evidence(rules[k], stream[n]) # {}
        PROVE  \E f \in ToSet(findings) : f.event = n /\ f.rule = k
    <3>1. PICK i \in DOMAIN findings : findings[i].event = n /\ findings[i].rule = k
      BY <2>1, <2>4, <2>6 DEF IInv, FindingsAll
    <3>2. findings[i] \in ToSet(findings)
      BY DEF ToSet
    <3>3. QED
      BY <3>1, <3>2
  <2>7. QED
    BY <2>3, <2>5, <2>6 DEF EvidenceTrue
<1>2. QED
  BY <1>1, SigmaInvariance, PTL

\* What a finding stands for: evidence of a compiled rule in an event, which is true.
LEMMA FindingExplained ==
  ASSUME IInv, NEW f \in ToSet(findings)
  PROVE  /\ f.rule \in DOMAIN rules /\ f.event \in DOMAIN stream
         /\ f.evidence = Evidence(rules[f.rule], stream[f.event]) /\ f.evidence # {}
         /\ EvidenceTrue(rules[f.rule], stream[f.event])
<1>1. PICK i \in DOMAIN findings : f = findings[i]
  BY DEF ToSet
<1>2. /\ f.event \in 1 .. position /\ f.rule \in DOMAIN rules
      /\ f.evidence = Evidence(rules[f.rule], stream[f.event]) /\ f.evidence # {}
  BY <1>1 DEF IInv, FindingsTrue
<1>3. f.event \in DOMAIN stream
  <2>1. IsList(stream)
    BY StreamsAssumption DEF IInv, RunOK
  <2>2. DOMAIN stream = 1 .. Len(stream) /\ Len(stream) \in Nat
    BY <2>1, ListShape
  <2>3. position \in 0 .. Len(stream)
    BY DEF IInv, RunOK
  <2> DEFINE L == Len(stream)
  <2>4. L \in Nat /\ DOMAIN stream = 1 .. L /\ position \in 0 .. L
    BY <2>2, <2>3
  <2> HIDE DEF L
  <2>5. f.event \in 1 .. L
    BY <1>2, <2>4
  <2>6. QED
    BY <2>4, <2>5
<1>4. findings # <<>>
  BY <1>1
<1>5. engine \in {"ready", "done"}
  BY <1>4 DEF IInv, RunOK, FindingsAll
<1>6. rules \in Rulesets /\ stream \in Streams /\ CompilesRule(rules[f.rule])
  BY <1>2, <1>5 DEF IInv, RunOK, RulesetLoaded
<1>7. EvidenceTrue(rules[f.rule], stream[f.event])
  BY <1>2, <1>3, <1>6, RuleEvidence
<1>8. QED
  BY <1>2, <1>3, <1>7

\* A piece of evidence is a test of the rule, under no "not", that is true of the
\* event and was reached in three rounds of decoding at most.
THEOREM EvidenceIsPositive == Spec => []EvidencePositive
<1>1. IInv => EvidencePositive
  <2>1. SUFFICES ASSUME IInv, NEW f \in ToSet(findings), NEW m \in f.evidence
                 PROVE  /\ m.test \in UNION {PositiveTests(c) : c \in ToSet(rules[f.rule].conditions)}
                        /\ TestHolds(m.test, stream[f.event])
                        /\ m.seen.rounds <= 3
    BY DEF EvidencePositive
  <2>2. /\ f.evidence = Evidence(rules[f.rule], stream[f.event])
        /\ EvidenceTrue(rules[f.rule], stream[f.event])
    BY <2>1, FindingExplained
  <2>3. /\ \E c \in ToSet(rules[f.rule].conditions) : m.test \in PositiveTests(c)
        /\ TestHolds(m.test, stream[f.event])
        /\ m.seen.rounds <= 3
    BY <2>1, <2>2 DEF EvidenceTrue
  <2>4. QED
    BY <2>3
<1>2. QED
  BY <1>1, SigmaInvariance, PTL

\* The tests of the evidence, taken for the only ones that are true, make every
\* condition true that was true of the event, unless it negates twice.
THEOREM EvidenceIsSufficient == Spec => []EvidenceSuffices
<1>1. IInv => EvidenceSuffices
  <2>1. SUFFICES ASSUME IInv, NEW f \in ToSet(findings),
                        NEW c \in ToSet(rules[f.rule].conditions),
                        HoldsOf(c, stream[f.event]), ~DoublyNegates(c)
                 PROVE  Holds(c, {m.test : m \in f.evidence})
    BY DEF EvidenceSuffices
  <2>2. /\ f.evidence = Evidence(rules[f.rule], stream[f.event]) /\ f.evidence # {}
        /\ EvidenceTrue(rules[f.rule], stream[f.event])
    BY <2>1, FindingExplained
  <2>3. QED
    BY <2>1, <2>2 DEF EvidenceTrue
<1>2. QED
  BY <1>1, SigmaInvariance, PTL
=============================================================================
