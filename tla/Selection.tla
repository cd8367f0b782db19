------------------------------ MODULE Selection ------------------------------
(***************************************************************************)
(* What an agent may select (agents/nodes.py): the fact packet it is shown, *)
(* the check its answer must pass, and the selection used without it.       *)
(*                                                                          *)
(* A report is the sequence of its findings; a finding is known by its      *)
(* position there, a piece of evidence by its finding and its number.       *)
(* Addresses and techniques are numbered in the order of their text; a      *)
(* mapping is identified with its technique.  The lists of a selection are  *)
(* sets, and repeats tells that one of the lists named something twice.     *)
(***************************************************************************)
EXTENDS Naturals, Sequences, FiniteSets

CONSTANTS
  NoIP,         \* the source of an event without an address
  MaxFindings,  \* MAX_FINDINGS_FOR_LLM, and the schema's bound: 20
  MaxEvidence,  \* MAX_EVIDENCE_PER_FINDING: 3
  MaxListed     \* mappings, intelligence records and addresses: 20

ASSUME CapsAssumption ==
  /\ MaxFindings \in Nat \ {0}
  /\ MaxEvidence \in Nat \ {0}
  /\ MaxListed \in Nat
  /\ MaxListed >= MaxFindings

Roles == {"triage", "intel", "response"}
Categories == {"sql_injection", "weak_tls", "other"}
Focuses == {"network_containment", "application_remediation", "tls_hardening",
            "monitoring", "evidence_preservation"}

Ids(report) == DOMAIN report.findings

\* The order of every list of findings: highest risk first.
Before(report, i, j) ==
  LET ri == report.findings[i].risk
      rj == report.findings[j].risk
  IN  ri > rj \/ (ri = rj /\ i < j)

\* The position of finding i among those in S.
Rank(report, S, i) == 1 + Cardinality({j \in S : Before(report, j, i)})

Top(report, S, n) == {i \in S : Rank(report, S, i) <= n}

\* Faulty variant: nothing is left out.
PacketFindingsAll(report) == Ids(report)

\* The findings an agent is shown.
PacketFindings(report) == Top(report, Ids(report), MaxFindings)

ShownEvidence(report, S) ==
  {e \in S \X (1 .. MaxEvidence) : e[2] <= report.findings[e[1]].evidence}

AllEvidence(report, S) ==
  UNION {{<<i, k>> : k \in 1 .. report.findings[i].evidence} : i \in S}

Elements(s) == {s[i] : i \in DOMAIN s}

TechniquesOf(report, S) == UNION {Elements(report.findings[i].techniques) : i \in S}

SourcesOf(report, S) == {report.findings[i].source : i \in S} \ {NoIP}

CategoriesOf(report, S) == {report.findings[i].category : i \in S}

\* Two orders of the findings: the report's, and that of every sorted list.
ReportOrder(report) == {p \in Ids(report) \X Ids(report) : p[1] < p[2]}
RiskOrder(report) == {p \in Ids(report) \X Ids(report) : Before(report, p[1], p[2])}

\* The first n different values, when the places they stand at come in an order.
FirstDistinct(value, order, n) ==
  LET before(p) == {q \in DOMAIN value : <<q, p>> \in order}
  IN  {value[p] : p \in {p \in DOMAIN value : Cardinality({value[q] : q \in before(p)}) < n}}

\* report.threat_intelligence and greynoise_intelligence: one record for each
\* source, in the order of the findings.
IntelAddresses(report) ==
  FirstDistinct([i \in Ids(report) |-> report.findings[i].source],
                ReportOrder(report), MaxListed) \ {NoIP}

\* Where the findings in S name a technique: the finding and the place there.
Places(report, S) ==
  UNION {{<<i, k>> : k \in DOMAIN report.findings[i].techniques} : i \in S}

\* One finding's techniques after the other's.
PlaceOrder(report, S, order) ==
  {p \in Places(report, S) \X Places(report, S) :
     \/ <<p[1][1], p[2][1]>> \in order
     \/ p[1][1] = p[2][1] /\ p[1][2] < p[2][2]}

FirstTechniques(report, S, order) ==
  FirstDistinct([p \in Places(report, S) |-> report.findings[p[1]].techniques[p[2]]],
                PlaceOrder(report, S, order), MaxListed)

\* report.mitre_attack_mappings, as far as they are listed.
IntelTechniques(report) == FirstTechniques(report, Ids(report), ReportOrder(report))

AllowedResponseFocus(report, S) ==
  {"monitoring", "evidence_preservation"}
    \cup (IF "sql_injection" \in CategoriesOf(report, S)
            THEN {"network_containment", "application_remediation"} ELSE {})
    \cup (IF "weak_tls" \in CategoriesOf(report, S) THEN {"tls_hardening"} ELSE {})

-----------------------------------------------------------------------------
(* The facts a packet names for a role.                                      *)

PacketEvidence(report) == ShownEvidence(report, PacketFindings(report))

PacketTechniques(report, role) ==
  (IF role = "intel" THEN {} ELSE TechniquesOf(report, PacketFindings(report)))
    \cup (IF role = "triage" THEN {} ELSE IntelTechniques(report))

PacketAddresses(report, role) ==
  (IF role = "intel" THEN {} ELSE SourcesOf(report, PacketFindings(report)))
    \cup (IF role = "triage" THEN {} ELSE IntelAddresses(report))

-----------------------------------------------------------------------------
\* Faulty variant: every piece of evidence of a finding is cited.
DefaultSelectionUncapped(report, role) ==
  LET chosen == IF role = "intel" THEN {} ELSE PacketFindings(report)
  IN  [findings |-> chosen,
       evidence |-> AllEvidence(report, chosen),
       techniques |->
         IF role = "intel" THEN IntelTechniques(report)
         ELSE FirstTechniques(report, chosen, RiskOrder(report)),
       addresses |->
         IF role = "intel" THEN IntelAddresses(report) ELSE SourcesOf(report, chosen),
       focus |-> IF role = "response" THEN AllowedResponseFocus(report, chosen) ELSE {},
       repeats |-> FALSE]

DefaultSelection(report, role) ==
  LET chosen == IF role = "intel" THEN {} ELSE PacketFindings(report)
  IN  [findings |-> chosen,
       evidence |-> ShownEvidence(report, chosen),
       techniques |->
         IF role = "intel" THEN IntelTechniques(report)
         ELSE FirstTechniques(report, chosen, RiskOrder(report)),
       addresses |->
         IF role = "intel" THEN IntelAddresses(report) ELSE SourcesOf(report, chosen),
       focus |-> IF role = "response" THEN AllowedResponseFocus(report, chosen) ELSE {},
       repeats |-> FALSE]

\* The bounds of the AgentSelection schema.
WellFormed(selection) ==
  /\ Cardinality(selection.findings) <= MaxFindings
  /\ Cardinality(selection.evidence) <= MaxFindings * MaxEvidence
  /\ Cardinality(selection.techniques) <= MaxListed
  /\ Cardinality(selection.addresses) <= MaxListed
  /\ selection.focus \subseteq Focuses

\* Faulty variant: the identifiers are looked up in the whole report.
SelectionIsGroundedInReport(selection, report, role) ==
  LET chosen == selection.findings
      packet == Ids(report)
      bound == role # "intel" /\ Ids(report) # {}
  IN  /\ ~selection.repeats
      /\ role = "intel" => chosen = {} /\ selection.evidence = {}
      /\ chosen \subseteq packet
      /\ IF role = "response"
           THEN /\ Ids(report) # {} => selection.focus # {}
                /\ selection.focus \subseteq AllowedResponseFocus(report, chosen)
           ELSE selection.focus = {}
      /\ selection.evidence \subseteq ShownEvidence(report, packet)
      /\ bound => /\ chosen # {} /\ selection.evidence # {}
                  /\ selection.evidence \subseteq AllEvidence(report, chosen)
      /\ selection.techniques \subseteq
           IF role = "intel" THEN IntelTechniques(report) ELSE TechniquesOf(report, chosen)
      /\ selection.addresses \subseteq
           IF role = "intel" THEN IntelAddresses(report)
           ELSE SourcesOf(report, IF chosen = {} THEN Ids(report) ELSE chosen)

\* Every identifier is one the report and the role support, and a report with
\* findings has some of them prioritised.
SelectionIsGrounded(selection, report, role) ==
  LET chosen == selection.findings
      packet == PacketFindings(report)
      bound == role # "intel" /\ Ids(report) # {}
  IN  /\ ~selection.repeats
      /\ role = "intel" => chosen = {} /\ selection.evidence = {}
      /\ chosen \subseteq packet
      /\ IF role = "response"
           THEN /\ Ids(report) # {} => selection.focus # {}
                /\ selection.focus \subseteq AllowedResponseFocus(report, chosen)
           ELSE selection.focus = {}
      /\ selection.evidence \subseteq ShownEvidence(report, packet)
      /\ bound => /\ chosen # {} /\ selection.evidence # {}
                  /\ selection.evidence \subseteq AllEvidence(report, chosen)
      /\ selection.techniques \subseteq
           IF role = "intel" THEN IntelTechniques(report) ELSE TechniquesOf(report, chosen)
      /\ selection.addresses \subseteq
           IF role = "intel" THEN IntelAddresses(report)
           ELSE SourcesOf(report, IF chosen = {} THEN Ids(report) ELSE chosen)

\* The findings the triage narrative shows: the selected ones come first, the
\* others follow by risk, and the list is cut.
ShownFindings(report, selection) ==
  LET chosen == selection.findings \cap Ids(report)
  IN  chosen \cup Top(report, Ids(report) \ chosen, MaxFindings - Cardinality(chosen))

\* Faulty variant: the list is sorted by the text alone.
ShownFirstInOrder(cited, all) ==
  {x \in all : Cardinality({y \in all : y < x}) < MaxListed}

\* What a list of the intel narrative shows of all its items: the cited ones come
\* first, the others follow in order, and the list is cut.  (The cited ones are
\* shown in the order of the selection, which decides nothing: they fit.  Nor is
\* the record of an event without an address modelled; it is never cited.)
ShownFirst(cited, all) ==
  LET Precedes(y, x) == IF y \in cited <=> x \in cited THEN y < x ELSE y \in cited
  IN  {x \in all : Cardinality({y \in all : Precedes(y, x)}) < MaxListed}

ShownAddresses(report, selection) ==
  ShownFirst(selection.addresses, SourcesOf(report, Ids(report)))

ShownTechniques(report, selection) ==
  ShownFirst(selection.techniques, TechniquesOf(report, Ids(report)))
=============================================================================
