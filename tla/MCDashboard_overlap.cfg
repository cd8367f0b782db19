\* A second analysis while the approval of the first report is in flight.
SPECIFICATION Spec
CONSTANTS
  MaxAnalyses = 2
  MaxApprovals = 1
INVARIANT
  ReceiptForThisReport
CHECK_DEADLOCK FALSE
