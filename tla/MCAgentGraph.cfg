\* Reports of up to three findings, every way to wire and fail the model.
SPECIFICATION Spec
CONSTANTS
  NoIP = NoIP
  MaxFindings = 2
  MaxEvidence = 2
  MaxListed = 2
  Reports <- MCReports
  Answers <- MCAnswers
INVARIANTS
  TypeOK
  SelectionInPacket
  NarrativeShowsSelection
  ThreadComplete
PROPERTIES
  StopsAfterFailure
