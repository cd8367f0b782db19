\* Every small condition, and pairs of rules, against small streams.
SPECIFICATION Spec
CONSTANTS
  Fields = {"url", "note"}
  Rulesets <- MCRulesets
  Streams <- MCStreams
INVARIANTS
  TypeOK
  FindingIffMatch
  EvidencePositive
  EvidenceSuffices
