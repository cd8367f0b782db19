\* Three analyses and two approvals: every order of clicks, publications, answers,
\* lost connections and power losses.
SPECIFICATION ApprovalSpec
CONSTANTS
  MaxAnalyses = 3
  MaxApprovals = 2
  Absent = Absent
  Prior = Prior
  Special = Special
INVARIANTS
  ApprovalTypeOK
  ConfirmationFresh
  ReceiptHonest
PROPERTIES
  ApprovalBound
  GateReopens
CHECK_DEADLOCK FALSE
