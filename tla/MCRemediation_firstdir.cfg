\* One approval, one power loss, any initial directory.
SPECIFICATION Spec
CONSTANTS
  Requests = {r1}
  Chunks = 2
  MaxCrashes = 1
  Absent = Absent
  Prior = Prior
  Special = Special
  None = None
INVARIANT
  ReceiptSafelyWritten
CHECK_DEADLOCK FALSE
