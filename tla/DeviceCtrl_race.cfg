\* Only well-formed requests of a host that enumerates the device (class
\* requests of 7 bytes, as CDC line coding, once configured), a host that
\* never aborts, and enough transfers for an IN request, a request
\* without data and a rejected OUT request in a row.
CONSTANTS
  MPS = 8
  DescSizes = {18}
  WLengths = {64}
  ClassLengths = {7}
  CmdBufLen = 8
  ConfigNum = 1
  BmAttributes = {}
  Kinds = {"GET_DESC", "CLASS", "SET_ADDRESS", "SET_CONFIGURATION", "UNSUPPORTED"}
  SuspendStates = {}
  MaxReqs = 6
  MaxAborts = 0
  DevClasses = {"CDC"}
  StorageMaxLun = 2
  MaxBusEvents = 0
SPECIFICATION Spec
INVARIANT NoCmdBufOverrun
\* The host stops after MaxReqs transfers; the device then idles.
CHECK_DEADLOCK FALSE
