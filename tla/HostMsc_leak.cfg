\* A device that reports two LUNs: every session ends in NOT_SUPPORT, ERROR
\* and USBH_DeInit, and the host enumerates it again.
CONSTANTS
  USBH_CHANNEL_MAX_NUM <- MCChannelMaxNum
  HOST_CHANNEL_NUM <- MCHostChannelNum
  DevLun = {1}
  LunStalls = {FALSE}
  MaxCtrlFaults = 0
  MaxScsiFails = 0
  MaxPhaseErrors = 0
  MaxUnplugs = 0
SPECIFICATION MscSpec
INVARIANT SessionPipesOwned
CHECK_DEADLOCK FALSE
