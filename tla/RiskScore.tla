------------------------------ MODULE RiskScore ------------------------------
(***************************************************************************)
(* The additive risk formula of scoring/risk.py, over integers.             *)
(*                                                                          *)
(* A confidence is given in hundredths, as every detector and rule gives    *)
(* it.  A reputation is a whole number from 0 to 100.  A GreyNoise result   *)
(* is a record of the fields the formula reads.                             *)
(***************************************************************************)
EXTENDS Integers

Severities == {"informational", "low", "medium", "high", "critical"}
Percent == 0 .. 100

\* SEVERITY_BASE_POINTS
SeverityPoints(s) ==
  CASE s = "informational" -> 10
    [] s = "low" -> 25
    [] s = "medium" -> 45
    [] s = "high" -> 65
    [] s = "critical" -> 80

Classifications == {"benign", "malicious", "unknown"}

\* A GreyNoise result; "none" stands for the absent classification.
NoiseResults ==
  [mode : {"live", "mock"}, status : {"matched", "not_found", "unavailable"},
   class : Classifications \cup {"none"}, noise : BOOLEAN, riot : BOOLEAN]

Clamp(n) == IF n < 0 THEN 0 ELSE IF n > 100 THEN 100 ELSE n

\* The products points * confidence that Python's binary floats put just below
\* an exact half, and ROUND_HALF_UP therefore rounds down: 25 * 0.58 and
\* 45 * 0.7.  They are the only ones among the confidences in hundredths.
FloatBelowHalf == {<<25, 58>>, <<45, 70>>}

ConfidenceAdjusted(points, confidence) ==
  IF <<points, confidence>> \in FloatBelowHalf
    THEN (points * confidence) \div 100
    ELSE (2 * points * confidence + 100) \div 200

\* IP_REPUTATION_MAX_POINTS is 20: a fifth of the reputation, rounded.
ReputationPoints(reputation) == (2 * reputation + 5) \div 10

\* The components before the noise filter add up to this.
Subtotal(severity, confidence, reputation) ==
  LET points == SeverityPoints(severity)
      adjustment == ConfidenceAdjusted(points, confidence) - points
  IN  points + adjustment + ReputationPoints(reputation)

\* Faulty variant: the classification is not looked at.
EligibleIfNoisy(g) == g.mode = "live" /\ g.status = "matched" /\ g.noise

\* Live, matched context that names benign or unclassified background noise.
RiskReductionEligible(g) ==
  /\ g.mode = "live"
  /\ g.status = "matched"
  /\ g.class = "benign" \/ (g.noise /\ g.class = "unknown")

\* GREYNOISE_RETAINED_FRACTION of the subtotal, rounded half up.
Retained(subtotal) == (subtotal + 2) \div 4

NoiseAdjustment(subtotal, g) ==
  IF g.mode = "live" /\ RiskReductionEligible(g)
    THEN Retained(Clamp(subtotal)) - Clamp(subtotal)
    ELSE 0

\* What a detector scores: no reputation, no noise context.
DetectionScore(severity, confidence) == Clamp(Subtotal(severity, confidence, 0))

CalculateRiskScore(severity, confidence, reputation, g) ==
  LET subtotal == Subtotal(severity, confidence, reputation)
  IN  Clamp(subtotal + NoiseAdjustment(subtotal, g))

\* The report bands of severity_from_score.
SeverityFromScore(score) ==
  CASE score >= 80 -> "critical"
    [] score >= 60 /\ score < 80 -> "high"
    [] score >= 40 /\ score < 60 -> "medium"
    [] score >= 20 /\ score < 40 -> "low"
    [] OTHER -> "informational"
=============================================================================
