\* A host that lets every control transfer finish and enumerates the
\* device: a descriptor of one packet read with wLength 1, 4 and 0, a
\* reply that needs the trailing zero-length packet (size 2 < wLength 4),
\* class replies of 3 bytes that span two packets, every
\* standard request but GET_STATUS, the class requests of the CDC, HID and
\* MSC class drivers once configured (CDC both ways; HID's SET and GET of
\* the idle rate and protocol; GET_MAX_LUN of two LUNs and BOT_RESET), an
\* unsupported request that stalls, and bus resets and a suspend and
\* resume of the configured device.
CONSTANTS
  MPS = 2
  DescSizes = {2}
  WLengths = {0, 1, 4}
  ClassLengths = {0, 3}
  CmdBufLen = 8
  ConfigNum = 1
  BmAttributes = {}
  Kinds = {"GET_DESC", "CLASS", "UNSUPPORTED", "SET_ADDRESS", "SET_CONFIGURATION",
           "GET_CONFIGURATION", "GET_INTERFACE", "SET_INTERFACE", "SET_FEATURE",
           "CLEAR_FEATURE", "SET_IDLE", "GET_IDLE", "SET_PROTOCOL", "GET_PROTOCOL",
           "GET_MAX_LUN", "BOT_RESET"}
  SuspendStates = {"CONFIGURED"}
  MaxReqs = 4
  MaxAborts = 0
  DevClasses = {"CDC", "HID", "MSC"}
  StorageMaxLun = 2
  MaxBusEvents = 2
SPECIFICATION Spec
INVARIANTS DevTypeOK DataIntegrity DeviceStateAgrees
PROPERTY TransferCompletes
\* The host stops after MaxReqs transfers; the device then idles.
CHECK_DEADLOCK FALSE
