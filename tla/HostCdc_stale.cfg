\* A fault-free CDC device that is unplugged once, at any point, and
\* plugged in again; the application sends nothing.
CONSTANTS
  USBH_CHANNEL_MAX_NUM <- MCChannelMaxNum
  HOST_CHANNEL_NUM <- MCHostChannelNum
  MaxCtrlFaults = 0
  MaxUnplugs = 1
  MPS = 2
  MsgLens = {3}
  MaxMsgs = 0
  RxSizes = {2}
  MaxTxFaults = 0
  MaxRxFaults = 0
  DevStalls = {}
  RxIsrPreempts = FALSE
SPECIFICATION CdcSpec
INVARIANT LineCodingSet
CHECK_DEADLOCK FALSE
