\* Bodies of up to seven units, in chunks of one or two, against every limit.
SPECIFICATION HandlerSpec
CONSTANTS
  MaxLog = 2
  MaxRequest = 3
  MaxApproval = 4
  MaxChunk = 2
  MaxBody = 7
INVARIANTS
  HandlerTypeOK
  AnalysedAsAllowed
  NothingLeftBehind
