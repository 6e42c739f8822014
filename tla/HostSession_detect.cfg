\* Up to two unplugs at any point of enumeration, a device that may also
\* answer with a STALL or a transaction error.
CONSTANTS
  Faults = {"STALL", "TERR"}
  MaxFaults = 3
  IsrPreemptsIssue = FALSE
  MaxUnplug = 2
  EarlyUnplug = FALSE
SPECIFICATION SessionSpec
PROPERTIES UnplugDetected FirstSessionRequestsComplete
\* A detach in the middle of a transfer can leave the control machine
\* waiting on a freed pipe forever (run session_stale_xfer): such states
\* are terminal.
CHECK_DEADLOCK FALSE
