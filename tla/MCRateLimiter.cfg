\* A window of three seconds at two ticks a second, and time for two windows.
SPECIFICATION Spec
CONSTANTS
  Limits = {0, 1, 2, 3}
  TicksPerSecond = 2
  WindowSeconds = 3
  MaxTime = 13
INVARIANTS
  TypeOK
  WindowBound
  RetryAfterExact
  ServedExactly
CHECK_DEADLOCK FALSE
