-------------------------- MODULE Containment_proofs --------------------------
(***************************************************************************)
(* Proofs about the two lists of addresses a report proposes to block, for  *)
(* any number of hosts and events and any caps.                             *)
(*                                                                          *)
(* TypeOK and SourcesAccounted count, so they rest on how many members the  *)
(* first n of a set are (ListFacts); the invariant says of the playbook and   *)
(* the artifact that they are what the code derives from the one report,    *)
(* which no step changes.                                                   *)
(***************************************************************************)
EXTENDS Containment, ListFacts, TLAPS

\* The order of the text of the addresses.
ByNumber == {p \in Hosts \X Hosts : p[1].number < p[2].number}

\* A report has finitely many sources, and they are addresses.
LEMMA AttackersFinite ==
  ASSUME NEW n \in Nat,
         events \in [1 .. n -> [source : Hosts \cup {NoIP}, found : SUBSET Categories]]
  PROVE  Attackers \in SUBSET Hosts /\ IsFiniteSet(Attackers)
<1> DEFINE s == [i \in 1 .. n |-> events[i].source]
           Sources == {events[i].source : i \in 1 .. n}
<1>1. \A i \in 1 .. n : events[i].source \in Hosts \cup {NoIP}
  OBVIOUS
<1>2. DOMAIN events = 1 .. n
  OBVIOUS
<1>3. Attackers \in SUBSET Sources /\ Attackers \in SUBSET Hosts
  BY <1>1, <1>2 DEF Attackers
<1>4. s \in Surjection(1 .. n, Sources)
  BY DEF Surjection
<1>5. IsFiniteSet(1 .. n)
  BY FS_Interval
<1>6. IsFiniteSet(Sources)
  <2> HIDE DEF s, Sources
  <2> QED
    BY <1>4, <1>5, FS_Surjection
<1>7. QED
  BY <1>3, <1>6, FS_Subset

\* The numbers put any set of addresses in order.
LEMMA NumbersOrder ==
  ASSUME NEW S \in SUBSET Hosts
  PROVE  Orders(ByNumber, S)
<1>1. \A h \in S : h \in Hosts /\ h.number \in Nat
  BY HostsAssumption
<1>2. \A g, h \in S : g.number = h.number => g = h
  BY HostsAssumption
<1>3. \A g, h \in S : <<g, h>> \in ByNumber <=> g.number < h.number
  BY DEF ByNumber
<1>4. \A h \in S : <<h, h>> \notin ByNumber
  BY <1>1, <1>3
<1>5. \A f, g, h \in S : <<f, g>> \in ByNumber /\ <<g, h>> \in ByNumber => <<f, h>> \in ByNumber
  BY <1>1, <1>3
<1>6. \A g, h \in S : g # h => <<g, h>> \in ByNumber \/ <<h, g>> \in ByNumber
  BY <1>1, <1>2, <1>3
<1>7. QED
  BY <1>4, <1>5, <1>6 DEF Orders

\* What a cap shows and what it leaves out are together the whole.
LEMMA FirstCount ==
  ASSUME NEW S \in SUBSET Hosts, IsFiniteSet(S), NEW n \in Nat
  PROVE  /\ First(S, n) \in SUBSET S
         /\ IsFiniteSet(First(S, n))
         /\ Cardinality(First(S, n)) \in Nat /\ Excess(S, n) \in Nat
         /\ Cardinality(First(S, n)) <= n
         /\ Cardinality(First(S, n)) + Excess(S, n) = Cardinality(S)
<1>1. ASSUME NEW h \in S
      PROVE  Earlier(ByNumber, S, h) = {g \in S : g.number < h.number}
  BY DEF Earlier, ByNumber
<1>2. First(S, n) = Leading(ByNumber, S, n)
  BY <1>1 DEF First, Leading
<1>3. /\ IsFiniteSet(First(S, n))
      /\ Cardinality(First(S, n)) = IF Cardinality(S) <= n THEN Cardinality(S) ELSE n
  BY <1>2, NumbersOrder, LeadingCount
<1>4. Cardinality(S) \in Nat
  BY FS_CardinalityType
<1>5. First(S, n) \in SUBSET S
  BY DEF First
<1>6. QED
  BY <1>3, <1>4, <1>5 DEF Excess

-----------------------------------------------------------------------------
\* The playbook and the artifact are what the code derives from the report, and
\* a report has a number of events.
IInv ==
  /\ \E n \in Nat : events \in [1 .. n -> [source : Hosts \cup {NoIP}, found : SUBSET Categories]]
  /\ playbook = NotComposed \/ playbook = CommandTargets
  /\ artifact = NoArtifact \/ artifact = DeriveFirewallTargets

\* Whatever was composed or approved so far is what the code derives from the report.
LEMMA Invariance == Spec => []IInv
<1>1. Init => IInv
  <2> SUFFICES ASSUME Init PROVE IInv
    OBVIOUS
  <2>1. PICK n \in 1 .. MaxEvents :
          events \in [1 .. n -> [source : Hosts \cup {NoIP}, found : SUBSET Categories]]
    BY DEF Init
  <2>2. n \in Nat
    OBVIOUS
  <2>3. QED
    BY <2>1, <2>2 DEF Init, IInv
<1>2. IInv /\ [Next]_vars => IInv'
  <2> SUFFICES ASSUME IInv, [Next]_vars PROVE IInv'
    OBVIOUS
  <2>1. events' = events
    BY DEF Next, Compose, Approve, vars
  <2>2. CommandTargets' = CommandTargets /\ DeriveFirewallTargets' = DeriveFirewallTargets
    <3>1. Attackers' = Attackers
      BY <2>1 DEF Attackers
    <3>2. QED
      BY <3>1 DEF CommandTargets, DeriveFirewallTargets
  <2>3. /\ playbook' = playbook \/ playbook' = CommandTargets
        /\ artifact' = artifact \/ artifact' = DeriveFirewallTargets
    BY DEF Next, Compose, Approve, vars
  <2>4. QED
    BY <2>1, <2>2, <2>3 DEF IInv
<1>3. QED
  BY <1>1, <1>2, PTL DEF Spec

\* What the invariant says of the two lists, with the facts the counts need.
LEMMA DerivedLists ==
  ASSUME IInv
  PROVE  /\ Attackers \in SUBSET Hosts /\ IsFiniteSet(Attackers)
         /\ playbook.composed => playbook = CommandTargets
         /\ artifact.status # "none" => artifact = DeriveFirewallTargets
<1>1. PICK n \in Nat :
        events \in [1 .. n -> [source : Hosts \cup {NoIP}, found : SUBSET Categories]]
  BY DEF IInv
<1>2. QED
  BY <1>1, AttackersFinite DEF IInv, NotComposed, NoArtifact

-----------------------------------------------------------------------------
\* Whatever the report, no list is longer than its cap, and an artifact has
\* targets exactly when it was generated (nodes.py L921-941, remediation.py
\* L108-148).
THEOREM ListsWithinCaps == Spec => []TypeOK
<1>1. IInv => TypeOK
  <2> SUFFICES ASSUME IInv PROVE TypeOK
    OBVIOUS
  <2>1. Attackers \in SUBSET Hosts /\ IsFiniteSet(Attackers)
    BY DerivedLists
  <2>2. MaxCommands \in Nat /\ MaxTargets \in Nat
    BY CapsAssumption
  <2>3. Cardinality({}) = 0
    BY FS_EmptySet
  <2>4. /\ playbook.commands \subseteq Hosts /\ playbook.withheld \subseteq Hosts
        /\ Cardinality(playbook.commands) <= MaxCommands
        /\ Cardinality(playbook.withheld) <= MaxCommands
    <3>1. CASE playbook = NotComposed
      BY <2>2, <2>3, <3>1 DEF NotComposed
    <3>2. CASE playbook = CommandTargets
      <4> DEFINE public == {h \in Attackers : IsGlobalUnicast(h.class)}
                 withheld == Attackers \ public
      <4>1. public \in SUBSET Hosts /\ withheld \in SUBSET Hosts
            /\ IsFiniteSet(public) /\ IsFiniteSet(withheld)
        BY <2>1, FS_Subset
      <4>2. /\ playbook.commands = First(public, MaxCommands)
            /\ playbook.withheld = First(withheld, MaxCommands)
        BY <3>2 DEF CommandTargets
      <4> HIDE DEF public, withheld
      <4>3. QED
        BY <2>2, <4>1, <4>2, FirstCount
    <3>3. QED
      BY <3>1, <3>2 DEF IInv
  <2>5. /\ artifact.status \in {"none", "no target", "too many", "generated"}
        /\ Cardinality(artifact.targets) <= MaxTargets
        /\ artifact.targets # {} <=> artifact.status = "generated"
    <3>1. CASE artifact = NoArtifact
      BY <2>2, <2>3, <3>1 DEF NoArtifact
    <3>2. CASE artifact = DeriveFirewallTargets
      <4> DEFINE eligible == {h \in Attackers : IsEligibleUnicast(h.class)}
      <4>1. IsFiniteSet(eligible)
        BY <2>1, FS_Subset
      <4>2. Cardinality(eligible) \in Nat
        BY <4>1, FS_CardinalityType
      <4>3. artifact =
              IF eligible = {} THEN [status |-> "no target", targets |-> {}]
              ELSE IF Cardinality(eligible) > MaxTargets
                THEN [status |-> "too many", targets |-> {}]
                ELSE [status |-> "generated", targets |-> eligible]
        BY <3>2 DEF DeriveFirewallTargets
      <4> HIDE DEF eligible
      <4>4. CASE eligible = {}
        <5>1. artifact.status = "no target" /\ artifact.targets = {}
          BY <4>3, <4>4
        <5>2. Cardinality(artifact.targets) = 0
          BY <2>3, <5>1, Zenon
        <5>3. Cardinality(artifact.targets) <= MaxTargets
          BY <2>2, <5>2
        <5>4. artifact.targets # {} <=> artifact.status = "generated"
          BY <5>1
        <5>5. QED
          BY <5>1, <5>3, <5>4
      <4>5. CASE eligible # {} /\ Cardinality(eligible) > MaxTargets
        <5>1. artifact.status = "too many" /\ artifact.targets = {}
          BY <4>3, <4>5
        <5>2. Cardinality(artifact.targets) = 0
          BY <2>3, <5>1, Zenon
        <5>3. Cardinality(artifact.targets) <= MaxTargets
          BY <2>2, <5>2
        <5>4. artifact.targets # {} <=> artifact.status = "generated"
          BY <5>1
        <5>5. QED
          BY <5>1, <5>3, <5>4
      <4>6. CASE eligible # {} /\ ~(Cardinality(eligible) > MaxTargets)
        <5>1. artifact.status = "generated" /\ artifact.targets = eligible
          BY <4>3, <4>6
        <5>2. Cardinality(eligible) <= MaxTargets
          BY <2>2, <4>2, <4>6
        <5>3. QED
          BY <4>6, <5>1, <5>2
      <4>7. QED
        BY <4>4, <4>5, <4>6
    <3>3. QED
      BY <3>1, <3>2 DEF IInv
  <2>6. QED
    BY <2>4, <2>5 DEF TypeOK
<1>2. QED
  BY <1>1, Invariance, PTL

\* Whatever the report and the cap, no source of a SQL-injection finding goes
\* unmentioned (nodes.py L934-941).
THEOREM EverySourceAccounted == Spec => []SourcesAccounted
<1>1. IInv => SourcesAccounted
  <2> SUFFICES ASSUME IInv, playbook.composed
               PROVE  Cardinality(playbook.commands) + Cardinality(playbook.withheld)
                        + playbook.omitted + playbook.omittedWithheld
                        = Cardinality(Attackers)
    BY DEF SourcesAccounted
  <2> DEFINE public == {h \in Attackers : IsGlobalUnicast(h.class)}
             withheld == Attackers \ public
  <2>1. Attackers \in SUBSET Hosts /\ IsFiniteSet(Attackers) /\ playbook = CommandTargets
    BY DerivedLists
  <2>2. /\ public \in SUBSET Hosts /\ withheld \in SUBSET Hosts
        /\ IsFiniteSet(public) /\ IsFiniteSet(withheld)
    BY <2>1, FS_Subset
  <2>3. /\ playbook.commands = First(public, MaxCommands)
        /\ playbook.withheld = First(withheld, MaxCommands)
        /\ playbook.omitted = Excess(public, MaxCommands)
        /\ playbook.omittedWithheld = Excess(withheld, MaxCommands)
    BY <2>1 DEF CommandTargets
  <2>4. Cardinality(Attackers) = Cardinality(public) + Cardinality(withheld)
    <3>1. public \cup withheld = Attackers /\ public \cap withheld = {}
      BY <2>1
    <3>2. Cardinality(public \cup withheld)
            = Cardinality(public) + Cardinality(withheld) - Cardinality(public \cap withheld)
      <4> HIDE DEF public, withheld
      <4> QED
        BY <2>2, FS_Union
    <3>3. Cardinality(public) \in Nat /\ Cardinality(withheld) \in Nat
      <4> HIDE DEF public, withheld
      <4> QED
        BY <2>2, FS_CardinalityType
    <3>4. Cardinality(public \cap withheld) = 0
      BY <3>1, FS_EmptySet
    <3>5. Cardinality(Attackers)
            = Cardinality(public) + Cardinality(withheld) - Cardinality(public \cap withheld)
      BY <3>1, <3>2
    <3> HIDE DEF public, withheld
    <3>6. QED
      BY <3>3, <3>4, <3>5
  <2> HIDE DEF public, withheld
  <2>5. MaxCommands \in Nat
    BY CapsAssumption
  <2>6. /\ Cardinality(First(public, MaxCommands)) + Excess(public, MaxCommands)
             = Cardinality(public)
        /\ Cardinality(First(public, MaxCommands)) \in Nat
        /\ Excess(public, MaxCommands) \in Nat
    BY <2>2, <2>5, FirstCount
  <2>7. /\ Cardinality(First(withheld, MaxCommands)) + Excess(withheld, MaxCommands)
             = Cardinality(withheld)
        /\ Cardinality(First(withheld, MaxCommands)) \in Nat
        /\ Excess(withheld, MaxCommands) \in Nat
    BY <2>2, <2>5, FirstCount
  <2>8. QED
    BY <2>3, <2>4, <2>6, <2>7
<1>2. QED
  BY <1>1, Invariance, PTL

\* The two filters, written apart, agree on all an analyst sees previewed but
\* one class of address.
LEMMA PreviewedIsEligible ==
  ASSUME NEW class \in Classes, IsGlobalUnicast(class), class # "site local"
  PROVE  IsEligibleUnicast(class)
BY DEF Classes, IsGlobalUnicast, IsEligibleUnicast, Flags, NotAHost

\* Every address with a previewed command is a target of the artifact, unless it
\* is a site-local one (nodes.py L921-941, remediation.py L108-148).
THEOREM ApprovalCovers == Spec => []ApprovalCoversPreview
<1>1. IInv => ApprovalCoversPreview
  <2> SUFFICES ASSUME IInv, artifact.status = "generated",
                      NEW h \in playbook.commands, h.class # "site local"
               PROVE  h \in artifact.targets
    BY DEF ApprovalCoversPreview
  <2>1. Attackers \in SUBSET Hosts
    BY DerivedLists
  <2>2. playbook = CommandTargets
    <3>1. NotComposed.commands = {}
      BY DEF NotComposed
    <3>2. playbook # NotComposed
      BY <3>1, Zenon
    <3>3. QED
      BY <3>2 DEF IInv
  <2>3. h \in Attackers /\ IsGlobalUnicast(h.class)
    BY <2>2 DEF CommandTargets, First
  <2>4. h.class \in Classes
    BY <2>1, <2>3, HostsAssumption
  <2>5. artifact = DeriveFirewallTargets
    BY DerivedLists
  <2>6. artifact.targets = {g \in Attackers : IsEligibleUnicast(g.class)}
    BY <2>5 DEF DeriveFirewallTargets
  <2>7. QED
    BY <2>3, <2>4, <2>6, PreviewedIsEligible
<1>2. QED
  BY <1>1, Invariance, PTL

\* An artifact that is generated names every host that may be named and has a
\* SQL-injection finding (docs/architecture.md:322-325, remediation.py L108-148).
THEOREM ArtifactIsWhole == Spec => []ArtifactWholeOrNone
<1>1. IInv => ArtifactWholeOrNone
  <2> SUFFICES ASSUME IInv, artifact.status = "generated",
                      NEW i \in DOMAIN events,
                      events[i].source # NoIP, "sql_injection" \in events[i].found,
                      events[i].source.class
                        \in {"global", "private", "shared", "documentation"}
               PROVE  events[i].source \in artifact.targets
    BY DEF ArtifactWholeOrNone
  <2>1. events[i].source \in Attackers
    BY DEF Attackers
  <2>2. IsEligibleUnicast(events[i].source.class)
    BY DEF IsEligibleUnicast, Flags, NotAHost
  <2>3. artifact = DeriveFirewallTargets
    BY DerivedLists
  <2>4. artifact.targets = {g \in Attackers : IsEligibleUnicast(g.class)}
    BY <2>3 DEF DeriveFirewallTargets
  <2>5. QED
    BY <2>1, <2>2, <2>4
<1>2. QED
  BY <1>1, Invariance, PTL
=============================================================================
