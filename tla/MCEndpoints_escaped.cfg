\* A log within the limit whose encoding is not.
SPECIFICATION HandlerSpec
CONSTANTS
  MaxLog = 2
  MaxRequest = 3
  MaxApproval = 4
  MaxChunk = 2
  MaxBody = 5
INVARIANT
  RefusedOnlyWhenTooLarge
