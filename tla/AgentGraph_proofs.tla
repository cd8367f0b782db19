-------------------------- MODULE AgentGraph_proofs --------------------------
(***************************************************************************)
(* Proofs about a run of the agent graph, for every set of reports and      *)
(* answers and all caps.  The first part is about the operators of          *)
(* Selection: the lists a packet, a default selection and a narrative cut   *)
(* are the first members of sets in an order (ListFacts).  The second is the  *)
(* invariant of the run.                                                    *)
(***************************************************************************)
EXTENDS AgentGraph, ListFacts, SequenceTheorems, TLAPS

\* What the assumption on the reports says of one of them.
LEMMA ReportFacts ==
  ASSUME NEW rep \in Reports
  PROVE  /\ rep.offline \in BOOLEAN
         /\ Len(rep.findings) \in Nat
         /\ Ids(rep) = 1 .. Len(rep.findings)
         /\ Ids(rep) \subseteq Nat
         /\ IsFiniteSet(Ids(rep))
         /\ \A i \in Ids(rep) :
              /\ rep.findings[i].category \in Categories
              /\ rep.findings[i].source \in {NoIP} \cup Nat
              /\ rep.findings[i].risk \in Nat
              /\ rep.findings[i].evidence \in Nat \ {0}
              /\ rep.findings[i].techniques \in Seq(Nat)
<1> DEFINE Finding == [category : Categories, source : {NoIP} \cup Nat, risk : Nat,
                       evidence : Nat \ {0}, techniques : Seq(Nat)]
<1>1. rep.offline \in BOOLEAN /\ rep.findings \in Seq(Finding)
  BY ReportsAssumption
<1> DEFINE fs == rep.findings
<1> HIDE DEF fs, Finding
<1>2. fs \in Seq(Finding)
  BY <1>1 DEF fs
<1>3. Len(fs) \in Nat /\ DOMAIN fs = 1 .. Len(fs) /\ \A i \in 1 .. Len(fs) : fs[i] \in Finding
  BY <1>2, LenProperties, ElementOfSeq
<1>4. IsFiniteSet(1 .. Len(fs))
  BY <1>3, FS_Interval
<1>5. 1 .. Len(fs) \subseteq Nat
  BY <1>3
<1>6. \A f \in Finding : /\ f.category \in Categories /\ f.risk \in Nat
                         /\ f.source \in {NoIP} \cup Nat
                         /\ f.evidence \in Nat \ {0} /\ f.techniques \in Seq(Nat)
  BY DEF Finding
<1>7. Ids(rep) = 1 .. Len(fs)
  BY <1>3 DEF Ids, fs
<1>8. QED
  BY <1>1, <1>3, <1>4, <1>5, <1>6, <1>7 DEF fs

\* Both orders of the findings are orders: the position breaks a tie of risks.
LEMMA FindingOrders ==
  ASSUME NEW rep \in Reports
  PROVE  /\ Orders(RiskOrder(rep), Ids(rep))
         /\ Orders(ReportOrder(rep), Ids(rep))
<1> DEFINE risk(i) == rep.findings[i].risk
<1>1. \A i \in Ids(rep) : i \in Nat /\ risk(i) \in Nat
  BY ReportFacts
<1>2. \A i, j \in Ids(rep) :
        <<i, j>> \in RiskOrder(rep) <=> risk(i) > risk(j) \/ (risk(i) = risk(j) /\ i < j)
  BY DEF RiskOrder, Before
<1>3. \A i, j \in Ids(rep) : <<i, j>> \in ReportOrder(rep) <=> i < j
  BY DEF ReportOrder
<1> HIDE DEF risk
<1>4. /\ \A i \in Ids(rep) : <<i, i>> \notin RiskOrder(rep)
      /\ \A i, j, k \in Ids(rep) :
           <<i, j>> \in RiskOrder(rep) /\ <<j, k>> \in RiskOrder(rep)
             => <<i, k>> \in RiskOrder(rep)
      /\ \A i, j \in Ids(rep) :
           i # j => <<i, j>> \in RiskOrder(rep) \/ <<j, i>> \in RiskOrder(rep)
  BY <1>1, <1>2
<1>5. /\ \A i \in Ids(rep) : <<i, i>> \notin ReportOrder(rep)
      /\ \A i, j, k \in Ids(rep) :
           <<i, j>> \in ReportOrder(rep) /\ <<j, k>> \in ReportOrder(rep)
             => <<i, k>> \in ReportOrder(rep)
      /\ \A i, j \in Ids(rep) :
           i # j => <<i, j>> \in ReportOrder(rep) \/ <<j, i>> \in ReportOrder(rep)
  BY <1>1, <1>3
<1>6. QED
  BY <1>4, <1>5 DEF Orders

\* The first n of a list of findings sorted by risk.
LEMMA TopIsLeading ==
  ASSUME NEW rep \in Reports, NEW S \in SUBSET Ids(rep), NEW n \in Int
  PROVE  Top(rep, S, n) = Leading(RiskOrder(rep), S, n)
<1>1. IsFiniteSet(S)
  BY ReportFacts, FS_Subset
<1>2. ASSUME NEW i \in S
      PROVE  Rank(rep, S, i) <= n <=> Cardinality(Earlier(RiskOrder(rep), S, i)) < n
  <2>1. {j \in S : Before(rep, j, i)} = Earlier(RiskOrder(rep), S, i)
    BY DEF Earlier, RiskOrder
  <2>2. Earlier(RiskOrder(rep), S, i) \in SUBSET S
    BY DEF Earlier
  <2>3. Cardinality(Earlier(RiskOrder(rep), S, i)) \in Nat
    BY <1>1, <2>2, FS_Subset, FS_CardinalityType
  <2>4. Rank(rep, S, i) = 1 + Cardinality(Earlier(RiskOrder(rep), S, i))
    BY <2>1 DEF Rank
  <2>5. QED
    BY <2>3, <2>4
<1>3. QED
  BY <1>2 DEF Top, Leading

\* A packet shows findings of the report, at most MaxFindings of them, and some
\* if there are any.
LEMMA PacketFindingsCapped ==
  ASSUME NEW rep \in Reports
  PROVE  /\ PacketFindings(rep) \in SUBSET Ids(rep)
         /\ IsFiniteSet(PacketFindings(rep))
         /\ Cardinality(PacketFindings(rep)) \in Nat
         /\ Cardinality(PacketFindings(rep)) <= MaxFindings
         /\ Ids(rep) # {} => PacketFindings(rep) # {}
<1> DEFINE P == PacketFindings(rep)
<1>1. IsFiniteSet(Ids(rep)) /\ Orders(RiskOrder(rep), Ids(rep))
  BY ReportFacts, FindingOrders
<1>2. MaxFindings \in Nat \ {0}
  BY CapsAssumption
<1>3. P = Leading(RiskOrder(rep), Ids(rep), MaxFindings)
  BY <1>2, TopIsLeading DEF PacketFindings
<1>4. /\ IsFiniteSet(P)
      /\ Cardinality(P) =
           IF Cardinality(Ids(rep)) <= MaxFindings THEN Cardinality(Ids(rep)) ELSE MaxFindings
  BY <1>1, <1>2, <1>3, LeadingCount
<1>5. Cardinality(Ids(rep)) \in Nat /\ Cardinality(P) \in Nat
  BY <1>1, <1>4, FS_CardinalityType
<1>6. P \in SUBSET Ids(rep)
  BY <1>3 DEF Leading
<1>7. Ids(rep) # {} => P # {}
  <2>1. Cardinality(Ids(rep)) = 0 => Ids(rep) = {}
    BY <1>1, FS_EmptySet
  <2>2. P = {} => Cardinality(P) = 0
    BY FS_EmptySet, Zenon
  <2> HIDE DEF P
  <2>3. QED
    BY <1>2, <1>4, <1>5, <2>1, <2>2
<1> HIDE DEF P
<1>8. Cardinality(P) <= MaxFindings
  BY <1>2, <1>4, <1>5
<1>9. QED
  BY <1>4, <1>5, <1>6, <1>7, <1>8 DEF P

\* Each finding shown takes at most MaxEvidence of the evidence.
LEMMA ShownEvidenceCapped ==
  ASSUME NEW rep \in Reports, NEW S \in SUBSET Ids(rep), Cardinality(S) <= MaxFindings
  PROVE  /\ Cardinality(ShownEvidence(rep, S)) <= MaxFindings * MaxEvidence
         /\ ShownEvidence(rep, S) \subseteq AllEvidence(rep, S)
         /\ S # {} => ShownEvidence(rep, S) # {}
<1> DEFINE E == ShownEvidence(rep, S)
           D == S \X (1 .. MaxEvidence)
<1>1. MaxEvidence \in Nat \ {0} /\ MaxFindings \in Nat
  BY CapsAssumption
<1>2. \A i \in S : rep.findings[i].evidence \in Nat \ {0}
  BY ReportFacts
<1>3. IsFiniteSet(S) /\ Cardinality(S) \in Nat
  BY ReportFacts, FS_Subset, FS_CardinalityType
<1>4. IsFiniteSet(1 .. MaxEvidence) /\ Cardinality(1 .. MaxEvidence) = MaxEvidence
  BY <1>1, FS_Interval
<1>5. IsFiniteSet(D) /\ Cardinality(D) = Cardinality(S) * MaxEvidence
  BY <1>3, <1>4, FS_Product
<1>6. E \in SUBSET D
  BY DEF ShownEvidence
<1>7. Cardinality(E) <= MaxFindings * MaxEvidence
  <2>1. IsFiniteSet(E) /\ Cardinality(E) <= Cardinality(D)
    BY <1>5, <1>6, FS_Subset
  <2>2. Cardinality(E) \in Nat
    BY <2>1, FS_CardinalityType
  <2>3. Cardinality(S) * MaxEvidence <= MaxFindings * MaxEvidence
    <3>1. PICK d \in Nat : MaxFindings = Cardinality(S) + d
      <4> DEFINE d == MaxFindings - Cardinality(S)
      <4>1. d \in Nat /\ MaxFindings = Cardinality(S) + d
        BY <1>1, <1>3
      <4>2. QED
        BY <4>1
    <3>2. MaxFindings * MaxEvidence = Cardinality(S) * MaxEvidence + d * MaxEvidence
          /\ d * MaxEvidence \in Nat /\ Cardinality(S) * MaxEvidence \in Nat
      BY <1>1, <1>3, <3>1
    <3>3. QED
      BY <3>2
  <2>4. Cardinality(S) * MaxEvidence \in Nat /\ MaxFindings * MaxEvidence \in Nat
    BY <1>1, <1>3
  <2> HIDE DEF E, D
  <2>5. QED
    BY <1>5, <2>1, <2>2, <2>3, <2>4
<1>8. ASSUME NEW e \in E
      PROVE  e \in AllEvidence(rep, S)
  <2>1. /\ e = <<e[1], e[2]>> /\ e[1] \in S /\ e[2] \in 1 .. MaxEvidence
        /\ e[2] <= rep.findings[e[1]].evidence
    BY DEF ShownEvidence
  <2>2. e[2] \in 1 .. rep.findings[e[1]].evidence
    BY <1>1, <1>2, <2>1
  <2>3. e \in {<<e[1], k>> : k \in 1 .. rep.findings[e[1]].evidence}
    BY <2>1, <2>2
  <2>4. QED
    BY <2>1, <2>3 DEF AllEvidence
<1>9. ASSUME NEW i \in S
      PROVE  <<i, 1>> \in E
  <2>1. 1 \in 1 .. MaxEvidence /\ 1 <= rep.findings[i].evidence
    BY <1>1, <1>2
  <2>2. QED
    BY <2>1 DEF ShownEvidence
<1>10. QED
  BY <1>7, <1>8, <1>9

\* The first n different values are at most n, and values that are there.
LEMMA FirstDistinctCapped ==
  ASSUME NEW value, IsFiniteSet(DOMAIN value), NEW order, Orders(order, DOMAIN value),
         NEW n \in Nat
  PROVE  /\ Cardinality(FirstDistinct(value, order, n)) <= n
         /\ FirstDistinct(value, order, n) \subseteq {value[p] : p \in DOMAIN value}
<1>1. FirstDistinct(value, order, n) = FirstValues(value, order, DOMAIN value, n)
  BY DEF FirstDistinct, FirstValues, Earlier
<1>2. QED
  BY <1>1, DistinctCount

\* Each finding has one source.
LEMMA SourcesCapped ==
  ASSUME NEW rep \in Reports, NEW S \in SUBSET Ids(rep)
  PROVE  /\ IsFiniteSet(SourcesOf(rep, S))
         /\ Cardinality(SourcesOf(rep, S)) \in Nat
         /\ Cardinality(SourcesOf(rep, S)) <= Cardinality(S)
<1> DEFINE s == [i \in S |-> rep.findings[i].source]
           V == {s[i] : i \in S}
<1>1. IsFiniteSet(S)
  BY ReportFacts, FS_Subset
<1>2. /\ IsFiniteSet(V) /\ Cardinality(V) \in Nat
      /\ Cardinality(V) <= Cardinality(S)
  <2> HIDE DEF s
  <2> QED
    BY <1>1, ValuesCount
<1>3. SourcesOf(rep, S) \in SUBSET V
  BY DEF SourcesOf
<1> HIDE DEF V
<1>4. /\ IsFiniteSet(SourcesOf(rep, S))
      /\ Cardinality(SourcesOf(rep, S)) <= Cardinality(V)
  BY <1>2, <1>3, FS_Subset
<1>5. Cardinality(SourcesOf(rep, S)) \in Nat /\ Cardinality(S) \in Nat
  BY <1>1, <1>4, FS_CardinalityType
<1>6. QED
  BY <1>2, <1>4, <1>5

\* One record for each source is listed, and of no other source.
LEMMA IntelAddressesCapped ==
  ASSUME NEW rep \in Reports
  PROVE  /\ Cardinality(IntelAddresses(rep)) <= MaxListed
         /\ IntelAddresses(rep) \subseteq SourcesOf(rep, Ids(rep))
<1> DEFINE s == [i \in Ids(rep) |-> rep.findings[i].source]
           F == FirstDistinct(s, ReportOrder(rep), MaxListed)
<1>1. DOMAIN s = Ids(rep) /\ \A i \in Ids(rep) : s[i] = rep.findings[i].source
  OBVIOUS
<1>2. MaxListed \in Nat
  BY CapsAssumption
<1>3. IntelAddresses(rep) = F \ {NoIP}
  BY DEF IntelAddresses
<1>4. IsFiniteSet(Ids(rep)) /\ Orders(ReportOrder(rep), Ids(rep))
  BY ReportFacts, FindingOrders
<1> HIDE DEF s
<1>5. /\ Cardinality(F) <= MaxListed
      /\ F \subseteq {s[i] : i \in Ids(rep)}
  BY <1>1, <1>2, <1>4, FirstDistinctCapped
<1>6. IntelAddresses(rep) \subseteq SourcesOf(rep, Ids(rep))
  BY <1>1, <1>3, <1>5 DEF SourcesOf
<1>7. IsFiniteSet(F)
  <2>1. IsFiniteSet({s[i] : i \in Ids(rep)})
    BY <1>4, ValuesCount
  <2>2. QED
    BY <1>5, <2>1, FS_Subset
<1> HIDE DEF F
<1>8. IntelAddresses(rep) \in SUBSET F
  BY <1>3
<1>9. /\ IsFiniteSet(IntelAddresses(rep))
      /\ Cardinality(IntelAddresses(rep)) <= Cardinality(F)
  BY <1>7, <1>8, FS_Subset
<1>10. Cardinality(IntelAddresses(rep)) \in Nat /\ Cardinality(F) \in Nat
  BY <1>7, <1>9, FS_CardinalityType
<1>11. QED
  BY <1>2, <1>5, <1>6, <1>9, <1>10

\* The places where techniques are named are finitely many, and in order.
LEMMA PlacesOrdered ==
  ASSUME NEW rep \in Reports, NEW S \in SUBSET Ids(rep),
         NEW order, Orders(order, Ids(rep))
  PROVE  /\ IsFiniteSet(Places(rep, S))
         /\ Orders(PlaceOrder(rep, S, order), Places(rep, S))
<1> DEFINE techniques(i) == rep.findings[i].techniques
           at == [i \in S |-> {<<i, k>> : k \in DOMAIN techniques(i)}]
           P == Places(rep, S)
           R == PlaceOrder(rep, S, order)
<1>1. ASSUME NEW i \in S
      PROVE  /\ IsFiniteSet(DOMAIN techniques(i))
             /\ DOMAIN techniques(i) \subseteq Nat
  <2>1. techniques(i) \in Seq(Nat)
    BY ReportFacts
  <2> HIDE DEF techniques
  <2>2. DOMAIN techniques(i) = 1 .. Len(techniques(i)) /\ Len(techniques(i)) \in Nat
    BY <2>1, LenProperties
  <2>3. IsFiniteSet(1 .. Len(techniques(i)))
    BY <2>2, FS_Interval
  <2>4. 1 .. Len(techniques(i)) \subseteq Nat
    BY <2>2
  <2>5. QED
    BY <2>2, <2>3, <2>4
<1>2. ASSUME NEW i \in S
      PROVE  IsFiniteSet(at[i])
  <2> DEFINE pair == [k \in DOMAIN techniques(i) |-> <<i, k>>]
             D == DOMAIN techniques(i)
  <2>1. at[i] = {pair[k] : k \in D}
    OBVIOUS
  <2>2. IsFiniteSet(D)
    BY <1>1
  <2> HIDE DEF pair, D, at
  <2>3. IsFiniteSet({pair[k] : k \in D})
    BY <2>2, ValuesCount
  <2>4. QED
    BY <2>1, <2>3
<1>3. IsFiniteSet(P)
  <2>1. IsFiniteSet(S)
    BY ReportFacts, FS_Subset
  <2>2. P = UNION {at[i] : i \in S}
    BY DEF Places
  <2> HIDE DEF at, P
  <2>3. IsFiniteSet({at[i] : i \in S})
    BY <2>1, ValuesCount
  <2>4. \A T \in {at[i] : i \in S} : IsFiniteSet(T)
    BY <1>2
  <2>5. QED
    BY <2>2, <2>3, <2>4, FS_UNION
<1>4. ASSUME NEW p \in P
      PROVE  p = <<p[1], p[2]>> /\ p[1] \in S /\ p[1] \in Ids(rep) /\ p[2] \in Nat
  <2>1. PICK i \in S : p \in {<<i, k>> : k \in DOMAIN techniques(i)}
    BY DEF Places
  <2>2. PICK k \in DOMAIN techniques(i) : p = <<i, k>>
    BY <2>1
  <2>3. k \in Nat
    BY <1>1
  <2>4. QED
    BY <2>2, <2>3
<1>5. \A p, q \in P : <<p, q>> \in R <=>
                        \/ <<p[1], q[1]>> \in order
                        \/ p[1] = q[1] /\ p[2] < q[2]
  BY DEF PlaceOrder
<1> HIDE DEF P, R, at, techniques
<1>6. ASSUME NEW p \in P
      PROVE  <<p, p>> \notin R
  <2>1. p[1] \in Ids(rep) /\ p[2] \in Nat
    BY <1>4
  <2>2. <<p[1], p[1]>> \notin order /\ ~(p[2] < p[2])
    BY <2>1 DEF Orders
  <2>3. QED
    BY <1>5, <2>2
<1>7. ASSUME NEW p \in P, NEW q \in P, NEW r \in P, <<p, q>> \in R, <<q, r>> \in R
      PROVE  <<p, r>> \in R
  <2>1. /\ p[1] \in Ids(rep) /\ q[1] \in Ids(rep) /\ r[1] \in Ids(rep)
        /\ p[2] \in Nat /\ q[2] \in Nat /\ r[2] \in Nat
    BY <1>4
  <2>2. \/ <<p[1], q[1]>> \in order
        \/ p[1] = q[1] /\ p[2] < q[2]
    BY <1>5, <1>7
  <2>3. \/ <<q[1], r[1]>> \in order
        \/ q[1] = r[1] /\ q[2] < r[2]
    BY <1>5, <1>7
  <2>4. CASE <<p[1], q[1]>> \in order /\ <<q[1], r[1]>> \in order
    <3>1. <<p[1], r[1]>> \in order
      BY <2>1, <2>4 DEF Orders
    <3>2. QED
      BY <1>5, <3>1
  <2>5. CASE p[1] = q[1] /\ p[2] < q[2] /\ q[1] = r[1] /\ q[2] < r[2]
    <3>1. p[1] = r[1] /\ p[2] < r[2]
      BY <2>1, <2>5
    <3>2. QED
      BY <1>5, <3>1
  <2>6. CASE <<p[1], q[1]>> \in order /\ q[1] = r[1]
    BY <1>5, <2>6
  <2>7. CASE p[1] = q[1] /\ <<q[1], r[1]>> \in order
    BY <1>5, <2>7
  <2>8. QED
    BY <2>2, <2>3, <2>4, <2>5, <2>6, <2>7
<1>8. ASSUME NEW p \in P, NEW q \in P, p # q, <<p, q>> \notin R
      PROVE  <<q, p>> \in R
  <2>1. /\ p = <<p[1], p[2]>> /\ q = <<q[1], q[2]>>
        /\ p[1] \in Ids(rep) /\ q[1] \in Ids(rep) /\ p[2] \in Nat /\ q[2] \in Nat
    BY <1>4
  <2>2. CASE p[1] # q[1]
    <3>1. <<p[1], q[1]>> \notin order
      BY <1>5, <1>8
    <3>2. <<q[1], p[1]>> \in order
      BY <2>1, <2>2, <3>1 DEF Orders
    <3>3. QED
      BY <1>5, <3>2
  <2>3. CASE p[1] = q[1]
    <3>1. p[2] # q[2]
      BY <1>8, <2>1, <2>3
    <3>2. ~(p[2] < q[2])
      BY <1>5, <1>8, <2>3
    <3>3. q[2] < p[2]
      BY <2>1, <3>1, <3>2
    <3>4. QED
      BY <1>5, <2>3, <3>3
  <2>4. QED
    BY <2>2, <2>3
<1>9. Orders(R, P)
  BY <1>6, <1>7, <1>8 DEF Orders
<1>10. QED
  BY <1>3, <1>9 DEF P, R

\* The techniques listed are at most MaxListed, and techniques of the findings.
LEMMA FirstTechniquesCapped ==
  ASSUME NEW rep \in Reports, NEW S \in SUBSET Ids(rep),
         NEW order, Orders(order, Ids(rep))
  PROVE  /\ Cardinality(FirstTechniques(rep, S, order)) <= MaxListed
         /\ FirstTechniques(rep, S, order) \subseteq TechniquesOf(rep, S)
         /\ IsFiniteSet(TechniquesOf(rep, S))
<1> DEFINE P == Places(rep, S)
           R == PlaceOrder(rep, S, order)
           t == [p \in P |-> rep.findings[p[1]].techniques[p[2]]]
<1>1. IsFiniteSet(P) /\ Orders(R, P)
  BY PlacesOrdered
<1>2. MaxListed \in Nat
  BY CapsAssumption
<1>3. FirstTechniques(rep, S, order) = FirstDistinct(t, R, MaxListed)
  BY DEF FirstTechniques
<1>4. {t[p] : p \in P} = TechniquesOf(rep, S)
  <2>1. ASSUME NEW p \in P
        PROVE  t[p] \in TechniquesOf(rep, S)
    <3>1. PICK i \in S : p \in {<<i, k>> : k \in DOMAIN rep.findings[i].techniques}
      BY DEF Places
    <3>2. PICK k \in DOMAIN rep.findings[i].techniques : p = <<i, k>>
      BY <3>1
    <3>3. t[p] = rep.findings[i].techniques[k]
      BY <3>2
    <3>4. t[p] \in Elements(rep.findings[i].techniques)
      BY <3>3 DEF Elements
    <3>5. QED
      BY <3>4 DEF TechniquesOf
  <2>2. ASSUME NEW x \in TechniquesOf(rep, S)
        PROVE  x \in {t[p] : p \in P}
    <3>1. PICK i \in S : x \in Elements(rep.findings[i].techniques)
      BY DEF TechniquesOf
    <3>2. PICK k \in DOMAIN rep.findings[i].techniques : x = rep.findings[i].techniques[k]
      BY <3>1 DEF Elements
    <3>3. <<i, k>> \in {<<i, n>> : n \in DOMAIN rep.findings[i].techniques}
      OBVIOUS
    <3>4. <<i, k>> \in P
      BY <3>3 DEF Places
    <3>5. t[<<i, k>>] = x
      BY <3>2, <3>4
    <3>6. QED
      BY <3>4, <3>5
  <2> HIDE DEF t, P
  <2>3. QED
    BY <2>1, <2>2
<1>5. DOMAIN t = P
  OBVIOUS
<1> HIDE DEF t, P, R
<1>6. /\ Cardinality(FirstDistinct(t, R, MaxListed)) <= MaxListed
      /\ FirstDistinct(t, R, MaxListed) \subseteq {t[p] : p \in P}
  BY <1>1, <1>2, <1>5, FirstDistinctCapped
<1>7. IsFiniteSet({t[p] : p \in P})
  BY <1>1, ValuesCount
<1>8. QED
  BY <1>3, <1>4, <1>6, <1>7

-----------------------------------------------------------------------------
(* Selections.                                                               *)

\* A selection without a model names at most what the schema allows.
LEMMA DefaultWellFormed ==
  ASSUME NEW rep \in Reports, NEW role \in Roles
  PROVE  WellFormed(DefaultSelection(rep, role))
<1> DEFINE d == DefaultSelection(rep, role)
           chosen == IF role = "intel" THEN {} ELSE PacketFindings(rep)
<1>1. /\ d.findings = chosen
      /\ d.evidence = ShownEvidence(rep, chosen)
      /\ d.techniques = IF role = "intel" THEN IntelTechniques(rep)
                        ELSE FirstTechniques(rep, chosen, RiskOrder(rep))
      /\ d.addresses = IF role = "intel" THEN IntelAddresses(rep) ELSE SourcesOf(rep, chosen)
      /\ d.focus = IF role = "response" THEN AllowedResponseFocus(rep, chosen) ELSE {}
  BY DEF DefaultSelection
<1>2. MaxFindings \in Nat /\ MaxListed \in Nat /\ MaxListed >= MaxFindings
  BY CapsAssumption
<1>3. chosen \in SUBSET Ids(rep) /\ Cardinality(chosen) \in Nat /\ Cardinality(chosen) <= MaxFindings
  <2>1. CASE role = "intel"
    <3>1. chosen = {}
      BY <2>1
    <3>2. Cardinality(chosen) = 0
      BY <3>1, FS_EmptySet, Zenon
    <3> HIDE DEF chosen
    <3>3. QED
      BY <1>2, <3>1, <3>2
  <2>2. CASE role # "intel"
    BY <2>2, PacketFindingsCapped
  <2>3. QED
    BY <2>1, <2>2
<1> HIDE DEF d, chosen
<1>4. Cardinality(d.evidence) <= MaxFindings * MaxEvidence
  BY <1>1, <1>3, ShownEvidenceCapped
<1>5. Cardinality(d.techniques) <= MaxListed
  BY <1>1, <1>3, FindingOrders, FirstTechniquesCapped DEF IntelTechniques
<1>6. Cardinality(d.addresses) <= MaxListed
  <2>1. Cardinality(SourcesOf(rep, chosen)) <= MaxListed
    <3>1. /\ Cardinality(SourcesOf(rep, chosen)) \in Nat
          /\ Cardinality(SourcesOf(rep, chosen)) <= Cardinality(chosen)
      BY <1>3, SourcesCapped
    <3>2. QED
      BY <1>2, <1>3, <3>1
  <2>2. QED
    BY <1>1, <2>1, IntelAddressesCapped
<1>7. d.focus \subseteq Focuses
  BY <1>1 DEF AllowedResponseFocus, Focuses
<1>8. Cardinality(d.findings) <= MaxFindings
  BY <1>1, <1>3
<1>9. QED
  BY <1>4, <1>5, <1>6, <1>7, <1>8 DEF WellFormed, d

\* The selection without a model passes the check a model's answer must pass.
LEMMA DefaultGrounded ==
  ASSUME NEW rep \in Reports, NEW role \in Roles
  PROVE  SelectionIsGrounded(DefaultSelection(rep, role), rep, role)
<1> DEFINE d == DefaultSelection(rep, role)
           packet == PacketFindings(rep)
           chosen == IF role = "intel" THEN {} ELSE packet
<1>1. /\ d.findings = chosen
      /\ d.evidence = ShownEvidence(rep, chosen)
      /\ d.techniques = IF role = "intel" THEN IntelTechniques(rep)
                        ELSE FirstTechniques(rep, chosen, RiskOrder(rep))
      /\ d.addresses = IF role = "intel" THEN IntelAddresses(rep) ELSE SourcesOf(rep, chosen)
      /\ d.focus = IF role = "response" THEN AllowedResponseFocus(rep, chosen) ELSE {}
      /\ d.repeats = FALSE
  BY DEF DefaultSelection
<1>2. /\ packet \in SUBSET Ids(rep)
      /\ Cardinality(packet) <= MaxFindings
      /\ Ids(rep) # {} => packet # {}
  BY PacketFindingsCapped
<1>3. ShownEvidence(rep, {}) = {}
  BY DEF ShownEvidence
<1>4. /\ ShownEvidence(rep, packet) \subseteq AllEvidence(rep, packet)
      /\ packet # {} => ShownEvidence(rep, packet) # {}
  BY <1>2, ShownEvidenceCapped
<1>5. AllowedResponseFocus(rep, chosen) # {}
  BY DEF AllowedResponseFocus
<1>6. FirstTechniques(rep, packet, RiskOrder(rep)) \subseteq TechniquesOf(rep, packet)
  BY <1>2, FindingOrders, FirstTechniquesCapped
<1> HIDE DEF d, packet
<1>7. CASE role = "intel"
  <2>1. /\ d.findings = {} /\ d.evidence = {} /\ d.focus = {} /\ ~d.repeats
        /\ d.techniques = IntelTechniques(rep) /\ d.addresses = IntelAddresses(rep)
    BY <1>1, <1>3, <1>7
  <2>2. QED
    BY <1>7, <2>1 DEF SelectionIsGrounded, d
<1>8. CASE role # "intel"
  <2>1. /\ d.findings = packet /\ ~d.repeats
        /\ d.evidence = ShownEvidence(rep, packet)
        /\ d.techniques \subseteq TechniquesOf(rep, packet)
        /\ d.addresses = SourcesOf(rep, packet)
        /\ d.focus = IF role = "response" THEN AllowedResponseFocus(rep, packet) ELSE {}
        /\ AllowedResponseFocus(rep, packet) # {}
    BY <1>1, <1>5, <1>6, <1>8
  <2>2. d.addresses \subseteq SourcesOf(rep, IF packet = {} THEN Ids(rep) ELSE packet)
    <3>1. packet = {} => Ids(rep) = packet
      BY <1>2
    <3>2. QED
      BY <2>1, <3>1
  <2>3. QED
    BY <1>2, <1>4, <1>8, <2>1, <2>2 DEF SelectionIsGrounded, d, packet
<1>9. QED
  BY <1>7, <1>8

\* What a selection names is in the packet of its role.
InPacket(chosen, rep, role) ==
  /\ chosen.findings \subseteq (IF role = "intel" THEN {} ELSE PacketFindings(rep))
  /\ chosen.evidence \subseteq PacketEvidence(rep)
  /\ chosen.techniques \subseteq PacketTechniques(rep, role)
  /\ chosen.addresses \subseteq PacketAddresses(rep, role)

\* The check and the packet, written apart, agree.
LEMMA GroundedInPacket ==
  ASSUME NEW rep \in Reports, NEW role \in Roles, NEW s, SelectionIsGrounded(s, rep, role)
  PROVE  InPacket(s, rep, role)
<1>1. /\ role = "intel" => s.findings = {} /\ s.evidence = {}
      /\ s.findings \subseteq PacketFindings(rep)
      /\ s.evidence \subseteq ShownEvidence(rep, PacketFindings(rep))
      /\ role # "intel" /\ Ids(rep) # {} => s.findings # {}
      /\ s.techniques \subseteq
           IF role = "intel" THEN IntelTechniques(rep) ELSE TechniquesOf(rep, s.findings)
      /\ s.addresses \subseteq
           IF role = "intel" THEN IntelAddresses(rep)
           ELSE SourcesOf(rep, IF s.findings = {} THEN Ids(rep) ELSE s.findings)
  BY DEF SelectionIsGrounded
<1>2. s.findings \subseteq (IF role = "intel" THEN {} ELSE PacketFindings(rep))
  BY <1>1
<1>3. s.evidence \subseteq PacketEvidence(rep)
  BY <1>1 DEF PacketEvidence
<1>4. CASE role = "intel"
  BY <1>1, <1>2, <1>3, <1>4 DEF InPacket, PacketTechniques, PacketAddresses
<1>5. CASE role # "intel"
  <2>1. TechniquesOf(rep, s.findings) \subseteq TechniquesOf(rep, PacketFindings(rep))
    BY <1>1 DEF TechniquesOf
  <2>2. SourcesOf(rep, IF s.findings = {} THEN Ids(rep) ELSE s.findings)
          \subseteq SourcesOf(rep, PacketFindings(rep))
    <3>1. s.findings = {} => Ids(rep) = {}
      BY <1>1, <1>5
    <3>2. (IF s.findings = {} THEN Ids(rep) ELSE s.findings) \subseteq PacketFindings(rep)
      BY <1>1, <3>1
    <3>3. \A S, T : S \subseteq T => SourcesOf(rep, S) \subseteq SourcesOf(rep, T)
      BY DEF SourcesOf
    <3>4. QED
      BY <3>2, <3>3
  <2>3. QED
    BY <1>1, <1>2, <1>3, <1>5, <2>1, <2>2 DEF InPacket, PacketTechniques, PacketAddresses
<1>6. QED
  BY <1>4, <1>5

-----------------------------------------------------------------------------
(* Narratives.                                                               *)

\* What is cited is shown: no more is cited than fits, and only what is cited
\* comes before it.
LEMMA CitedIsShown ==
  ASSUME NEW all, IsFiniteSet(all), all \subseteq Nat, NEW cited \in SUBSET all,
         Cardinality(cited) <= MaxListed
  PROVE  cited \subseteq ShownFirst(cited, all)
<1> DEFINE Precedes(y, x) == IF y \in cited <=> x \in cited THEN y < x ELSE y \in cited
<1> SUFFICES ASSUME NEW x \in cited
             PROVE  Cardinality({y \in all : Precedes(y, x)}) < MaxListed
  BY DEF ShownFirst
<1> DEFINE B == {y \in all : Precedes(y, x)}
<1>1. B \in SUBSET cited /\ x \notin B
  BY DEF B
<1>2. IsFiniteSet(cited)
  BY FS_Subset
<1> HIDE DEF B
<1>3. /\ IsFiniteSet(B) /\ Cardinality(B) <= Cardinality(cited)
      /\ Cardinality(cited) # Cardinality(B)
  BY <1>1, <1>2, FS_Subset
<1>4. Cardinality(B) \in Nat /\ Cardinality(cited) \in Nat
  BY <1>2, <1>3, FS_CardinalityType
<1>5. Cardinality(B) < MaxListed
  BY <1>3, <1>4, CapsAssumption
<1>6. QED
  BY <1>5 DEF B

\* However a model prioritises, the triage message shows the findings of the
\* highest risk.
LEMMA TriageShowsPacket ==
  ASSUME NEW rep \in Reports, NEW s, s.findings \subseteq PacketFindings(rep)
  PROVE  ShownFindings(rep, s) = PacketFindings(rep)
<1> DEFINE C == s.findings
           R == RiskOrder(rep)
           S == Ids(rep)
<1>1. IsFiniteSet(S) /\ Orders(R, S) /\ MaxFindings \in Nat
  BY ReportFacts, FindingOrders, CapsAssumption
<1>2. PacketFindings(rep) = Leading(R, S, MaxFindings)
  BY <1>1, TopIsLeading DEF PacketFindings
<1>3. C \in SUBSET Leading(R, S, MaxFindings) /\ C \in SUBSET S
  BY <1>2, PacketFindingsCapped
<1>4. Cardinality(C) \in Nat
  BY <1>1, <1>3, FS_Subset, FS_CardinalityType
<1>5. Top(rep, S \ C, MaxFindings - Cardinality(C))
        = Leading(R, S \ C, MaxFindings - Cardinality(C))
  <2>1. S \ C \in SUBSET Ids(rep) /\ MaxFindings - Cardinality(C) \in Int
    BY <1>1, <1>4
  <2>2. QED
    BY <2>1, TopIsLeading
<1>6. C \cup Leading(R, S \ C, MaxFindings - Cardinality(C)) = Leading(R, S, MaxFindings)
  <2> HIDE DEF C, R, S
  <2> QED
    BY <1>1, <1>3, PromotionKeepsLeading
<1>7. s.findings \cap Ids(rep) = C
  BY <1>3
<1>8. ShownFindings(rep, s) = C \cup Top(rep, S \ C, MaxFindings - Cardinality(C))
  BY <1>7 DEF ShownFindings
<1>9. QED
  BY <1>2, <1>5, <1>6, <1>8

\* The intel message shows every address and technique a selection cites.
LEMMA IntelShowsCited ==
  ASSUME NEW rep \in Reports, NEW s, WellFormed(s), SelectionIsGrounded(s, rep, "intel")
  PROVE  /\ s.addresses \subseteq ShownAddresses(rep, s)
         /\ s.techniques \subseteq ShownTechniques(rep, s)
<1>1. s.addresses \subseteq IntelAddresses(rep) /\ s.techniques \subseteq IntelTechniques(rep)
  BY DEF SelectionIsGrounded
<1>2. Cardinality(s.addresses) <= MaxListed /\ Cardinality(s.techniques) <= MaxListed
  BY DEF WellFormed
<1>3. s.addresses \in SUBSET SourcesOf(rep, Ids(rep))
  BY <1>1, IntelAddressesCapped
<1>4. s.techniques \in SUBSET TechniquesOf(rep, Ids(rep)) /\ IsFiniteSet(TechniquesOf(rep, Ids(rep)))
  <2>1. /\ IntelTechniques(rep) \subseteq TechniquesOf(rep, Ids(rep))
        /\ IsFiniteSet(TechniquesOf(rep, Ids(rep)))
    BY FindingOrders, FirstTechniquesCapped DEF IntelTechniques
  <2>2. QED
    BY <1>1, <2>1
<1>5. SourcesOf(rep, Ids(rep)) \subseteq Nat
  BY ReportFacts DEF SourcesOf
<1>6. TechniquesOf(rep, Ids(rep)) \subseteq Nat
  <2>1. ASSUME NEW i \in Ids(rep), NEW x \in Elements(rep.findings[i].techniques)
        PROVE  x \in Nat
    <3> DEFINE ts == rep.findings[i].techniques
    <3>1. ts \in Seq(Nat)
      BY ReportFacts
    <3>2. PICK k \in DOMAIN ts : x = ts[k]
      BY DEF Elements
    <3> HIDE DEF ts
    <3>3. QED
      BY <3>1, <3>2, LenProperties, ElementOfSeq
  <2>2. QED
    BY <2>1 DEF TechniquesOf
<1>7. IsFiniteSet(SourcesOf(rep, Ids(rep)))
  BY SourcesCapped
<1>8. s.addresses \subseteq ShownAddresses(rep, s)
  BY <1>2, <1>3, <1>5, <1>7, CitedIsShown DEF ShownAddresses
<1>9. s.techniques \subseteq ShownTechniques(rep, s)
  BY <1>2, <1>4, <1>6, CitedIsShown DEF ShownTechniques
<1>10. QED
  BY <1>8, <1>9

-----------------------------------------------------------------------------
(* The run.                                                                  *)

\* What each variable holds, but for the node and the selection.
Typed ==
  /\ report \in Reports
  /\ wiring \in [llm : {"none", "auto", "injected"}, breaker : BOOLEAN]
  /\ circuit \in [model : {"unset", "none", "ready"}, failed : BOOLEAN]
  /\ thread \in Seq([role : Roles, mode : Modes])
  /\ playbook \in BOOLEAN
  /\ requests \in Nat
  /\ failures \in Nat

\* The nodes of a run, in order, and its end.
Course == <<"triage", "intel", "response", "done">>

\* The messages tell how far the run is: each node that has run left one, and
\* made at most one request and one failure.
InCourse ==
  /\ Len(thread) \in 0 .. 3
  /\ \A n \in 1 .. Len(thread) : thread[n].role = Course[n]
  /\ \/ node = Course[Len(thread) + 1]
     \/ node = "raised" /\ Len(thread) \in 0 .. 2
  /\ playbook <=> Len(thread) = 3
  /\ requests <= Len(thread)
  /\ failures <= Len(thread)

\* A circuit breaker, and nothing else, remembers that there was a failure.
CircuitRemembers ==
  /\ circuit.failed => wiring.breaker
  /\ wiring.breaker /\ failures > 0 => circuit.failed

OnlySettingsRaise == node = "raised" => wiring.llm = "auto" /\ ~wiring.breaker

\* The last selection passed the check, whoever made it.
Grounded ==
  /\ WellFormed(selection)
  /\ thread # <<>> => SelectionIsGrounded(selection, report, LastMessage.role)

IInv ==
  /\ Typed
  /\ InCourse
  /\ CircuitRemembers
  /\ OnlySettingsRaise
  /\ Grounded

\* A running node is the one the messages so far lead to.
LEMMA NextInCourse ==
  ASSUME InCourse, Running
  PROVE  Len(thread) \in 0 .. 2 /\ node = Course[Len(thread) + 1]
<1>1. node \in {"triage", "intel", "response"}
  BY DEF Running, Roles
<1>2. node = Course[Len(thread) + 1] /\ Len(thread) \in 0 .. 3
  BY <1>1 DEF InCourse
<1>3. ASSUME Len(thread) = 3
      PROVE  FALSE
  <2>1. node = Course[4]
    BY <1>2, <1>3
  <2>2. node = "done"
    BY <2>1 DEF Course
  <2>3. QED
    BY <1>1, <2>2
<1>4. QED
  BY <1>2, <1>3

\* A node that leaves its message, with a selection that passed the check.
LEMMA FinishStep ==
  ASSUME IInv, Running,
         NEW chosen, WellFormed(chosen), SelectionIsGrounded(chosen, report, node),
         NEW mode \in Modes, Finish(chosen, mode),
         requests' \in {requests, requests + 1},
         failures' \in {failures, failures + 1},
         circuit' \in [model : {"unset", "none", "ready"}, failed : BOOLEAN],
         CircuitRemembers'
  PROVE  IInv'
<1> DEFINE k == Len(thread)
           message == [role |-> node, mode |-> mode]
<1>1. Typed /\ InCourse
  BY DEF IInv
<1>2. k \in 0 .. 2 /\ node = Course[k + 1] /\ node \in Roles
  BY <1>1, NextInCourse DEF Running
<1>3. /\ selection' = chosen
      /\ thread' = Append(thread, message)
      /\ playbook' = (playbook \/ node = "response")
      /\ node' = Successor[node]
      /\ report' = report /\ wiring' = wiring
  BY DEF Finish, inputs
<1>4. /\ thread \in Seq([role : Roles, mode : Modes])
      /\ message \in [role : Roles, mode : Modes]
  BY <1>1, <1>2 DEF Typed
<1>5. /\ thread' \in Seq([role : Roles, mode : Modes])
      /\ Len(thread') = k + 1
      /\ thread'[k + 1] = message
      /\ \A n \in 1 .. k : thread'[n] = thread[n]
  <2> HIDE DEF message
  <2>1. QED
    BY <1>3, <1>4, AppendProperties
<1>6. node' = Course[k + 2]
  <2>1. CASE k = 0
    BY <1>2, <1>3, <2>1 DEF Course, Successor
  <2>2. CASE k = 1
    BY <1>2, <1>3, <2>2 DEF Course, Successor
  <2>3. CASE k = 2
    BY <1>2, <1>3, <2>3 DEF Course, Successor
  <2>4. k \in {0, 1, 2}
    BY <1>2
  <2>5. QED
    BY <2>1, <2>2, <2>3, <2>4
<1>7. Typed'
  <2>1. playbook' \in BOOLEAN
    BY <1>3
  <2>2. requests' \in Nat /\ failures' \in Nat
    BY <1>1 DEF Typed
  <2>3. report' \in Reports
        /\ wiring' \in [llm : {"none", "auto", "injected"}, breaker : BOOLEAN]
    BY <1>1, <1>3 DEF Typed
  <2>4. QED
    BY <1>5, <2>1, <2>2, <2>3 DEF Typed
<1>8. InCourse'
  <2>1. Len(thread') \in 0 .. 3
    BY <1>2, <1>5
  <2>2. \A n \in 1 .. Len(thread') : thread'[n].role = Course[n]
    <3>1. ASSUME NEW n \in 1 .. k
          PROVE  thread'[n].role = Course[n]
      BY <1>1, <1>5 DEF InCourse
    <3>2. thread'[k + 1].role = Course[k + 1]
      BY <1>2, <1>5
    <3>3. \A n \in 1 .. (k + 1) : n \in 1 .. k \/ n = k + 1
      BY <1>2
    <3> HIDE DEF k
    <3>4. QED
      BY <1>5, <3>1, <3>2, <3>3
  <2>3. node' = Course[Len(thread') + 1]
    BY <1>2, <1>5, <1>6
  <2>4. playbook' <=> Len(thread') = 3
    <3>1. playbook <=> k = 3
      BY <1>1 DEF InCourse
    <3>2. node = "response" <=> k = 2
      <4>1. k = 0 => node = "triage"
        BY <1>2 DEF Course
      <4>2. k = 1 => node = "intel"
        BY <1>2 DEF Course
      <4>3. k = 2 => node = "response"
        BY <1>2 DEF Course
      <4>4. (k = 0 \/ k = 1 \/ k = 2) /\ 0 # 2 /\ 1 # 2
        BY <1>2
      <4>5. "triage" # "response" /\ "intel" # "response"
        OBVIOUS
      <4>6. QED
        BY <4>1, <4>2, <4>3, <4>4, <4>5, Zenon
    <3>3. playbook' <=> k = 3 \/ k = 2
      BY <1>3, <3>1, <3>2, Zenon
    <3>4. (k = 3 \/ k = 2) <=> Len(thread') = 3
      <4>1. k \in 0 .. 2 /\ Len(thread') = k + 1
        BY <1>2, <1>5
      <4> HIDE DEF k
      <4>2. QED
        BY <4>1
    <3>5. QED
      BY <3>3, <3>4, Zenon
  <2>5. requests' <= Len(thread') /\ failures' <= Len(thread')
    BY <1>1, <1>2, <1>5 DEF InCourse, Typed
  <2>6. QED
    BY <2>1, <2>2, <2>3, <2>4, <2>5, Zenon DEF InCourse
<1>9. OnlySettingsRaise'
  <2>1. node' # "raised"
    BY <1>2, <1>3 DEF Successor, Roles
  <2>2. QED
    BY <2>1 DEF OnlySettingsRaise
<1>10. Grounded'
  <2>1. (LastMessage.role)' = node
    BY <1>2, <1>5 DEF LastMessage
  <2>2. QED
    BY <1>3, <2>1 DEF Grounded
<1>11. QED
  BY <1>7, <1>8, <1>9, <1>10 DEF IInv

\* The same for a node that falls back on the default selection.
LEMMA FallBackStep ==
  ASSUME IInv, Running, FallBack,
         requests' \in {requests, requests + 1},
         failures' \in {failures, failures + 1},
         circuit' \in [model : {"unset", "none", "ready"}, failed : BOOLEAN],
         CircuitRemembers'
  PROVE  IInv'
<1>1. report \in Reports /\ node \in Roles
  BY DEF IInv, Typed, Running
<1>2. /\ WellFormed(DefaultSelection(report, node))
      /\ SelectionIsGrounded(DefaultSelection(report, node), report, node)
  BY <1>1, DefaultWellFormed, DefaultGrounded
<1>3. "deterministic_fallback" \in Modes
  BY DEF Modes
<1>4. Finish(DefaultSelection(report, node), "deterministic_fallback")
  BY DEF FallBack
<1>5. QED
  BY <1>2, <1>3, <1>4, FinishStep

\* A failure opens the circuit, and only calls of a closed one fail.
LEMMA CircuitStep ==
  ASSUME IInv, Next
  PROVE  /\ circuit' \in [model : {"unset", "none", "ready"}, failed : BOOLEAN]
         /\ CircuitRemembers'
<1>1. /\ circuit \in [model : {"unset", "none", "ready"}, failed : BOOLEAN]
      /\ wiring \in [llm : {"none", "auto", "injected"}, breaker : BOOLEAN]
      /\ failures \in Nat
      /\ CircuitRemembers
  BY DEF IInv, Typed
<1>2. wiring' = wiring
  BY DEF Next, WithoutModel, OpenCircuit, ModelUnavailable, SetUpRaises, RequestFails,
         AnswerRefused, AnswerAccepted, Ended, FallBack, Finish, inputs, vars
<1>3. CASE UNCHANGED <<circuit, failures>>
  BY <1>1, <1>2, <1>3 DEF CircuitRemembers
<1>4. CASE ModelUnavailable
  <2>1. /\ circuit' = IF wiring.breaker THEN [model |-> "none", failed |-> TRUE] ELSE circuit
        /\ failures' = failures + 1
    BY <1>4 DEF ModelUnavailable
  <2>2. CASE wiring.breaker
    BY <1>1, <1>2, <2>1, <2>2 DEF CircuitRemembers
  <2>3. CASE ~wiring.breaker
    BY <1>1, <1>2, <2>1, <2>3 DEF CircuitRemembers
  <2>4. QED
    BY <2>2, <2>3
<1>5. CASE RequestFails
  <2>1. /\ circuit'.failed = wiring.breaker
        /\ circuit' = [model |-> IF wiring.breaker THEN "ready" ELSE circuit.model,
                       failed |-> wiring.breaker]
        /\ failures' = failures + 1
    BY <1>5 DEF RequestFails
  <2>2. circuit.model \in {"unset", "none", "ready"} /\ wiring.breaker \in BOOLEAN
    BY <1>1
  <2>3. circuit' \in [model : {"unset", "none", "ready"}, failed : BOOLEAN]
    BY <2>1, <2>2
  <2>4. CircuitRemembers'
    BY <1>2, <2>1 DEF CircuitRemembers
  <2>5. QED
    BY <2>3, <2>4
<1>6. CASE AnswerRefused \/ AnswerAccepted
  <2>1. /\ circuit' = [circuit EXCEPT !.model = IF wiring.breaker THEN "ready" ELSE @]
        /\ failures' = failures
    BY <1>6 DEF AnswerRefused, AnswerAccepted
  <2>2. circuit' \in [model : {"unset", "none", "ready"}, failed : BOOLEAN]
        /\ circuit'.failed = circuit.failed
    BY <1>1, <2>1
  <2>3. QED
    BY <1>1, <1>2, <2>1, <2>2 DEF CircuitRemembers
<1>7. CASE WithoutModel \/ OpenCircuit \/ SetUpRaises \/ Ended
  <2>1. UNCHANGED <<circuit, failures>>
    BY <1>7 DEF WithoutModel, OpenCircuit, SetUpRaises, Ended, vars
  <2>2. QED
    BY <1>3, <2>1
<1>8. QED
  BY <1>4, <1>5, <1>6, <1>7 DEF Next

\* The inductive invariant of a run.
THEOREM Invariance == Spec => []IInv
<1>1. Init => IInv
  <2> SUFFICES ASSUME Init
               PROVE  IInv
    OBVIOUS
  <2>1. Typed
    <3>1. thread = <<>> /\ thread \in Seq([role : Roles, mode : Modes])
      BY DEF Init
    <3>2. circuit \in [model : {"unset", "none", "ready"}, failed : BOOLEAN]
      BY DEF Init
    <3>3. QED
      BY <3>1, <3>2 DEF Init, Typed
  <2>2. InCourse
    <3>1. thread = <<>> /\ Len(thread) = 0 /\ playbook = FALSE
      BY DEF Init
    <3>2. node = Course[1] /\ requests = 0 /\ failures = 0
      BY DEF Init, Course
    <3>3. Len(thread) \in 0 .. 3 /\ 1 .. Len(thread) = {} /\ Len(thread) + 1 = 1
      BY <3>1
    <3>4. requests <= Len(thread) /\ failures <= Len(thread) /\ Len(thread) # 3
      BY <3>1, <3>2
    <3>5. QED
      BY <3>1, <3>2, <3>3, <3>4, Zenon DEF InCourse
  <2>3. CircuitRemembers /\ OnlySettingsRaise
    BY DEF Init, CircuitRemembers, OnlySettingsRaise
  <2>4. Grounded
    <3>1. Cardinality({}) = 0
      BY FS_EmptySet, Zenon
    <3>2. 0 <= MaxFindings /\ 0 <= MaxFindings * MaxEvidence /\ 0 <= MaxListed
      <4>1. MaxFindings \in Nat /\ MaxEvidence \in Nat /\ MaxListed \in Nat
        BY CapsAssumption
      <4>2. MaxFindings * MaxEvidence \in Nat
        BY <4>1
      <4>3. QED
        BY <4>1, <4>2
    <3>3. WellFormed(NoSelection)
      BY <3>1, <3>2 DEF WellFormed, NoSelection
    <3>4. QED
      BY <3>3 DEF Init, Grounded
  <2>5. QED
    BY <2>1, <2>2, <2>3, <2>4 DEF IInv
<1>2. IInv /\ [Next]_vars => IInv'
  <2> SUFFICES ASSUME IInv, [Next]_vars
               PROVE  IInv'
    OBVIOUS
  <2>1. requests \in Nat /\ failures \in Nat
    BY DEF IInv, Typed
  <2>2. CASE UNCHANGED vars
    BY <2>2 DEF vars, IInv, Typed, InCourse, CircuitRemembers, OnlySettingsRaise, Grounded, LastMessage
  <2>3. CASE Next
    <3>1. /\ circuit' \in [model : {"unset", "none", "ready"}, failed : BOOLEAN]
          /\ CircuitRemembers'
      BY <2>3, CircuitStep
    <3>2. CASE WithoutModel \/ OpenCircuit
      <4>1. Running /\ FallBack /\ requests' = requests /\ failures' = failures
        BY <3>2 DEF WithoutModel, OpenCircuit
      <4>2. QED
        BY <3>1, <4>1, FallBackStep
    <3>3. CASE ModelUnavailable
      <4>1. Running /\ FallBack /\ requests' = requests /\ failures' = failures + 1
        BY <3>3 DEF ModelUnavailable
      <4>2. QED
        BY <3>1, <4>1, FallBackStep
    <3>4. CASE SetUpRaises
      <4>1. /\ Running /\ requests' = requests /\ failures' = failures /\ circuit' = circuit
            /\ wiring.llm = "auto"
        BY <3>4 DEF SetUpRaises, MustSetUp
      <4>2. CASE FallBack
        BY <3>1, <4>1, <4>2, FallBackStep
      <4>3. CASE ~wiring.breaker /\ node' = "raised" /\ UNCHANGED <<inputs, thread, selection, playbook>>
        <5>1. Len(thread) \in 0 .. 2
          BY <4>1, NextInCourse DEF IInv
        <5>2. /\ node' = "raised" /\ thread' = thread /\ selection' = selection
              /\ playbook' = playbook /\ report' = report /\ wiring' = wiring
          BY <4>3 DEF inputs
        <5>3. Typed' /\ OnlySettingsRaise' /\ Grounded'
          BY <3>1, <4>1, <4>3, <5>2
             DEF IInv, Typed, OnlySettingsRaise, Grounded, LastMessage
        <5>4. InCourse'
          BY <4>1, <5>1, <5>2 DEF IInv, InCourse
        <5>5. QED
          BY <3>1, <5>3, <5>4 DEF IInv
      <4>4. QED
        BY <3>4, <4>2, <4>3 DEF SetUpRaises
    <3>5. CASE RequestFails
      <4>1. Running /\ FallBack /\ requests' = requests + 1 /\ failures' = failures + 1
        BY <3>5 DEF RequestFails, Ask
      <4>2. QED
        BY <3>1, <4>1, FallBackStep
    <3>6. CASE AnswerRefused
      <4>1. Running /\ FallBack /\ requests' = requests + 1 /\ failures' = failures
        BY <3>6 DEF AnswerRefused, Ask
      <4>2. QED
        BY <3>1, <4>1, FallBackStep
    <3>7. CASE AnswerAccepted
      <4>1. PICK answer \in Answers :
              /\ WellFormed(answer)
              /\ SelectionIsGrounded(answer, report, node)
              /\ Finish(answer, "llm_selected_validated_facts")
        BY <3>7 DEF AnswerAccepted
      <4>2. Running /\ requests' = requests + 1 /\ failures' = failures
        BY <3>7 DEF AnswerAccepted, Ask
      <4>3. "llm_selected_validated_facts" \in Modes
        BY DEF Modes
      <4>4. QED
        BY <3>1, <4>1, <4>2, <4>3, FinishStep
    <3>8. CASE Ended
      BY <2>2, <3>8 DEF Ended
    <3>9. QED
      BY <2>3, <3>2, <3>3, <3>4, <3>5, <3>6, <3>7, <3>8 DEF Next
  <2>4. QED
    BY <2>2, <2>3
<1>3. QED
  BY <1>1, <1>2, PTL DEF Spec

\* The type invariant: a selection is always one the schema admits, and a run
\* makes at most three requests.
THEOREM RunTypeCorrect == Spec => []TypeOK
<1>1. IInv => TypeOK
  <2> SUFFICES ASSUME IInv
               PROVE  TypeOK
    OBVIOUS
  <2>1. node \in Roles \cup {"done", "raised"}
    BY DEF IInv, InCourse, Course, Roles
  <2>2. requests \in 0 .. 3 /\ failures \in 0 .. 3
    BY DEF IInv, InCourse, Typed
  <2>3. QED
    BY <2>1, <2>2 DEF IInv, Typed, CircuitRemembers, Grounded, TypeOK
<1>2. QED
  BY <1>1, Invariance, PTL

\* Every selection names only what the packet of its role showed.
THEOREM SelectionsInPacket == Spec => []SelectionInPacket
<1>1. IInv => SelectionInPacket
  <2> SUFFICES ASSUME IInv, thread # <<>>
               PROVE  InPacket(selection, report, LastMessage.role)
                        /\ SelectionIsGrounded(selection, report, LastMessage.role)
    BY DEF SelectionInPacket, InPacket
  <2>1. SelectionIsGrounded(selection, report, LastMessage.role) /\ report \in Reports
    BY DEF IInv, Grounded, Typed
  <2>2. LastMessage.role \in Roles
    <3>1. thread \in Seq([role : Roles, mode : Modes])
      BY DEF IInv, Typed
    <3>2. thread[Len(thread)] \in [role : Roles, mode : Modes]
      <4> DEFINE Message == [role : Roles, mode : Modes]
      <4>1. thread \in Seq(Message)
        BY <3>1
      <4> HIDE DEF Message
      <4>2. Len(thread) \in Nat /\ Len(thread) # 0
        BY <4>1, EmptySeq, LenProperties
      <4>3. Len(thread) \in 1 .. Len(thread)
        BY <4>2
      <4>4. thread[Len(thread)] \in Message
        BY <4>1, <4>3, ElementOfSeq
      <4>5. QED
        BY <4>4 DEF Message
    <3>3. QED
      BY <3>2 DEF LastMessage
  <2>3. QED
    BY <2>1, <2>2, GroundedInPacket
<1>2. QED
  BY <1>1, Invariance, PTL

\* A selection pushes nothing out of the triage and intel narratives.
THEOREM NarrativesShowSelections == Spec => []NarrativeShowsSelection
<1>1. IInv => NarrativeShowsSelection
  <2> SUFFICES ASSUME IInv, thread # <<>>
               PROVE  CASE LastMessage.role = "triage" ->
                             ShownFindings(report, selection) = PacketFindings(report)
                        [] LastMessage.role = "intel" ->
                             /\ selection.addresses \subseteq ShownAddresses(report, selection)
                             /\ selection.techniques \subseteq ShownTechniques(report, selection)
                        [] OTHER -> TRUE
    BY DEF NarrativeShowsSelection
  <2>1. /\ SelectionIsGrounded(selection, report, LastMessage.role)
        /\ WellFormed(selection)
        /\ report \in Reports
    BY DEF IInv, Grounded, Typed
  <2>2. CASE LastMessage.role = "triage"
    <3>1. selection.findings \subseteq PacketFindings(report)
      BY <2>1 DEF SelectionIsGrounded
    <3>2. ShownFindings(report, selection) = PacketFindings(report)
      BY <2>1, <3>1, TriageShowsPacket
    <3>3. QED
      BY <2>2, <3>2
  <2>3. CASE LastMessage.role = "intel"
    <3>1. /\ selection.addresses \subseteq ShownAddresses(report, selection)
          /\ selection.techniques \subseteq ShownTechniques(report, selection)
      BY <2>1, <2>3, IntelShowsCited
    <3>2. QED
      BY <2>3, <3>1
  <2>4. QED
    BY <2>2, <2>3
<1>2. QED
  BY <1>1, Invariance, PTL

\* A run that ends has its playbook and its three messages in order; only one
\* that makes its own models, without a circuit breaker, may raise.
THEOREM ThreadsComplete == Spec => []ThreadComplete
<1>1. IInv => ThreadComplete
  <2> SUFFICES ASSUME IInv
               PROVE  ThreadComplete
    OBVIOUS
  <2>1. ASSUME node = "done"
        PROVE  playbook /\ [n \in DOMAIN thread |-> thread[n].role] = <<"triage", "intel", "response">>
    <3>1. Len(thread) \in {0, 1, 2, 3} /\ node = Course[Len(thread) + 1]
      BY <2>1 DEF IInv, InCourse
    <3>2. Len(thread) = 3
      <4>1. "done" # "triage" /\ "done" # "intel" /\ "done" # "response"
        OBVIOUS
      <4>2. Course[0 + 1] = "triage" /\ Course[1 + 1] = "intel" /\ Course[2 + 1] = "response"
        BY DEF Course
      <4>3. QED
        BY <2>1, <3>1, <4>1, <4>2, Zenon
    <3>3. playbook
      BY <3>2 DEF IInv, InCourse
    <3>4. DOMAIN thread = 1 .. 3
      BY <3>2, LenProperties DEF IInv, Typed
    <3>5. /\ thread[1].role = "triage" /\ thread[2].role = "intel"
          /\ thread[3].role = "response"
      BY <3>2 DEF IInv, InCourse, Course
    <3>6. [n \in DOMAIN thread |-> thread[n].role] = <<"triage", "intel", "response">>
      BY <3>4, <3>5
    <3>7. QED
      BY <3>3, <3>6
  <2>2. QED
    BY <2>1 DEF IInv, OnlySettingsRaise, ThreadComplete
<1>2. QED
  BY <1>1, Invariance, PTL

\* With a circuit breaker the first failure is the last call.
THEOREM FailuresStopCalls == Spec => StopsAfterFailure
<1>1. IInv /\ [Next]_vars =>
        [wiring.breaker /\ failures > 0 => requests' = requests /\ failures' = failures]_vars
  <2> SUFFICES ASSUME IInv, Next, wiring.breaker, failures > 0
               PROVE  requests' = requests /\ failures' = failures
    OBVIOUS
  <2>1. ~Closed
    BY DEF IInv, CircuitRemembers, Closed
  <2>2. ~ModelUnavailable /\ ~RequestFails /\ ~AnswerRefused /\ ~AnswerAccepted
    BY <2>1 DEF ModelUnavailable, RequestFails, AnswerRefused, AnswerAccepted, Ask
  <2>3. QED
    BY <2>2 DEF Next, WithoutModel, OpenCircuit, SetUpRaises, Ended, vars
<1>2. QED
  BY <1>1, Invariance, PTL DEF Spec, StopsAfterFailure
=============================================================================
