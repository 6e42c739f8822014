\* Every fault the device or bus can produce, the ISR allowed to preempt a
\* phase handler anywhere: the safety properties under the full environment.
\* States where the code spins forever on an urbStatus that never changes
\* (the hangs shown by the liveness runs) are terminal here.
CONSTANTS
  Faults = {"NAK", "STALL", "TERR", "DTOG"}
  MaxFaults = 2
  IsrPreemptsIssue = TRUE
SPECIFICATION Spec
INVARIANTS TypeOK PhaseSequenceLegal CompleteOnlyWhenAcked
PROPERTIES ChannelQuiescentWhenIssued
CHECK_DEADLOCK FALSE
