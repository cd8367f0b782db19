------------------------------- MODULE Findings -------------------------------
(***************************************************************************)
(* Findings and reports with their audit trails: what the detectors and     *)
(* _rescore_finding put into a finding, what _build_report puts into a      *)
(* report, and what the validators of models.py demand of both.             *)
(*                                                                          *)
(* A finding's evidence is known by its place in the finding, a report's by *)
(* the pair of the finding's place and its own.                             *)
(***************************************************************************)
EXTENDS RiskScore, SequencesExt

Component(points, evidence) == [points |-> points, evidence |-> evidence]
Entry(sequence, stage, evidence) ==
  [sequence |-> sequence, stage |-> stage, evidence |-> evidence]

\* The components calculate_risk_score returns beside the score; the noise
\* filter has one only if GreyNoise answered.
Components(profile, reputation, g, detection, lookup, noise) ==
  LET points == SeverityPoints(profile[1])
  IN  << Component(points, detection),
         Component(ConfidenceAdjusted(points, profile[2]) - points, detection),
         Component(ReputationPoints(reputation), lookup) >>
      \o IF g.mode # "live" THEN <<>>
         ELSE << Component(NoiseAdjustment(Subtotal(profile[1], profile[2], reputation), g),
                           noise) >>

NoContext == [mode |-> "none"]

\* A detector's finding.  "source" is the address its event names.
NewFinding(event, source, rule, profile, fields, techniques) ==
  LET all == DOMAIN fields
  IN  [event |-> event, source |-> source, rule |-> rule, profile |-> profile,
       score |-> DetectionScore(profile[1], profile[2]),
       components |-> Components(profile, 0, NoContext, all, {}, {}),
       evidence |-> [n \in all |-> [event |-> event, field |-> fields[n]]],
       techniques |-> techniques,
       trace |-> <<Entry(1, "detection", all), Entry(2, "scoring", all)>>]

\* Faulty variant: the entries of one call share a sequence number.
RescoreFindingRepeating(f, reputation, g) ==
  LET n == Len(f.evidence)
      t == Len(f.trace)
  IN  [f EXCEPT
        !.score = CalculateRiskScore(f.profile[1], f.profile[2], reputation, g),
        !.components = Components(f.profile, reputation, g, 1 .. n, {n + 1}, {n + 2}),
        !.evidence = @ \o <<[event |-> f.event, field |-> "abuseipdb"],
                            [event |-> f.event, field |-> "greynoise"]>>,
        !.trace = @ \o <<Entry(t + 1, "enrichment", {n + 1}),
                         Entry(t + 1, "enrichment", {n + 2}),
                         Entry(t + 2, "scoring", 1 .. n + 2)>>]

\* _rescore_finding: two pieces of evidence and three trace entries are added,
\* the score and its components replaced.
RescoreFinding(f, reputation, g) ==
  LET n == Len(f.evidence)
      t == Len(f.trace)
  IN  [f EXCEPT
        !.score = CalculateRiskScore(f.profile[1], f.profile[2], reputation, g),
        !.components = Components(f.profile, reputation, g, 1 .. n, {n + 1}, {n + 2}),
        !.evidence = @ \o <<[event |-> f.event, field |-> "abuseipdb"],
                            [event |-> f.event, field |-> "greynoise"]>>,
        !.trace = @ \o <<Entry(t + 1, "enrichment", {n + 1}),
                         Entry(t + 2, "enrichment", {n + 2}),
                         Entry(t + 3, "scoring", 1 .. n + 2)>>]

ClampedScore(components) ==
  LET upTo[n \in 0 .. Len(components)] ==
        IF n = 0 THEN 0 ELSE upTo[n - 1] + components[n].points
  IN  Clamp(upTo[Len(components)])

Contiguous(trace) == \A n \in DOMAIN trace : trace[n].sequence = n

Referenced(components, trace) ==
  UNION {entry.evidence : entry \in ToSet(components) \cup ToSet(trace)}

\* DetectionFinding: the field constraints and validate_audit_integrity.  Its
\* evidence was validated when it was made (Detectors).
FindingValid(f) ==
  /\ f.evidence # <<>>
  /\ \A n \in DOMAIN f.evidence : f.evidence[n].event = f.event
  /\ Referenced(f.components, f.trace) \subseteq DOMAIN f.evidence
  /\ ClampedScore(f.components) = f.score
  /\ Contiguous(f.trace)
  /\ {"detection", "scoring"} \subseteq {entry.stage : entry \in ToSet(f.trace)}
  /\ IsInjective(f.techniques)

-----------------------------------------------------------------------------
\* What the two loops "if key not in seen" make of a sequence: each member once,
\* in the order of its first place.
Deduplicated(s) ==
  LET upTo[n \in 0 .. Len(s)] ==
        IF n = 0 THEN <<>>
        ELSE IF \E i \in 1 .. n - 1 : s[i] = s[n] THEN upTo[n - 1]
        ELSE Append(upTo[n - 1], s[n])
  IN  upTo[Len(s)]

AggregateMitreMappings(findings) ==
  Deduplicated(FlattenSeq([i \in DOMAIN findings |-> findings[i].techniques]))

AllEvidence(findings) ==
  UNION {{<<i, n>> : n \in DOMAIN findings[i].evidence} : i \in DOMAIN findings}

\* The evidence of some of the findings' fields.
EvidenceOf(findings, fields) ==
  {id \in AllEvidence(findings) : findings[id[1]].evidence[id[2]].field \in fields}

Highest(findings) ==
  IF findings = <<>> THEN 0
  ELSE CHOOSE score \in {f.score : f \in ToSet(findings)} :
         \A f \in ToSet(findings) : f.score <= score

\* _build_report, of what its validator looks at.
Report(findings) ==
  LET lookups == {"abuseipdb", "greynoise"}
      all == AllEvidence(findings)
  IN  [score |-> Highest(findings),
       components |-> <<Component(Highest(findings),
         {id \in all : findings[id[1]].score = Highest(findings)})>>,
       techniques |-> AggregateMitreMappings(findings),
       trace |-> <<Entry(1, "ingestion", {}),
                   Entry(2, "detection", all \ EvidenceOf(findings, lookups)),
                   Entry(3, "enrichment", EvidenceOf(findings, {"abuseipdb"})),
                   Entry(4, "enrichment", EvidenceOf(findings, {"greynoise"})),
                   Entry(5, "triage", all)>>]

\* IncidentReport.validate_report_integrity, for a report without containment
\* recommendations; "modes" are those of the lookups' results.
ReportValid(report, findings, events, offline, modes) ==
  /\ events # <<>>
  /\ offline => "live" \notin modes
  /\ \A f \in ToSet(findings) : f.event \in DOMAIN events
  /\ Referenced(report.components, report.trace) \subseteq AllEvidence(findings)
  /\ ClampedScore(report.components) = report.score
  /\ Contiguous(report.trace)
  /\ IsInjective(report.techniques)
  /\ ToSet(report.techniques) = UNION {ToSet(f.techniques) : f \in ToSet(findings)}
=============================================================================
