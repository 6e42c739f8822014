\* A fault-free device unplugged once and plugged in again.
CONSTANTS
  Faults = {}
  MaxFaults = 0
  IsrPreemptsIssue = FALSE
  MaxUnplug = 1
  EarlyUnplug = FALSE
SPECIFICATION SessionSpec
PROPERTY ReattachCompletes
CHECK_DEADLOCK FALSE
