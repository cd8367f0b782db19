\* Two approvals, two crashes or power losses at any point.
SPECIFICATION FairSpec
CONSTANTS
  Requests = {r1, r2}
  Chunks = 2
  MaxCrashes = 2
  Absent = Absent
  Prior = Prior
  Special = Special
  None = None
INVARIANTS
  IInv
  ArtifactWhole
  ReceiptDurable
  NoStrayTemporary
PROPERTIES
  ReplacementReported
  ImplementsRegister
  EveryApprovalAnswered
CHECK_DEADLOCK FALSE
