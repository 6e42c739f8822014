\* Both class drivers a build may install.  MSC: a single-LUN device, with
\* or without a stalled GET_MAX_LUN, through control faults, failed
\* commands, a phase error and an unplug.  CDC: two 3-byte messages in
\* 2-byte packets through two NAKed or failed packets (a lost handshake
\* among them), a failed bulk IN, the ISR inside USBH_BulkInData, control
\* faults and an unplug.  HID: three mouse reports through a lost
\* handshake, a NAK, a STALL or a transaction error, control faults and
\* an unplug.
CONSTANTS
  USBH_CHANNEL_MAX_NUM <- MCChannelMaxNum
  HOST_CHANNEL_NUM <- MCHostChannelNum
  Drivers = {"MSC", "CDC", "HID"}
  MaxCtrlFaults = 1
  MaxUnplugs = 1
  DevLun = {0}
  LunStalls = {FALSE, TRUE}
  MaxScsiFails = 11
  MaxPhaseErrors = 1
  MPS = 2
  MsgLens = {3}
  MaxMsgs = 2
  RxSizes = {0, 2}
  MaxTxFaults = 1
  MaxRxFaults = 1
  DevStalls = {}
  RxIsrPreempts = TRUE
  MaxReports = 3
  MaxIntFaults = 1
  IntIsrPreempts = FALSE
  LatePolls = FALSE
  MouseStalls = {}
  MouseReport <- MCMouseReport
  MouseSeats = {17}
SPECIFICATION Spec
INVARIANT ClassTypeOK ClassPipesOwned ReportsOnceInOrder MouseLineShowsReport
PROPERTY MscReady StreamRefined TxCompletes ReportsDelivered CdcConfigured
\* APP_STATE is where the MSC driver stays, and a CDC application with no
\* more to send may wait for data the device never sends.
CHECK_DEADLOCK FALSE
