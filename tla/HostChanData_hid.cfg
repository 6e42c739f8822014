\* The HID driver's poll: USBH_InterruptInData(hidDataInChannel, dat, 4) on
\* the channel USBH_HID_InitHandler opens with a maximum packet size of 8,
\* and a mouse whose report is longer than 4 bytes (a wheel byte or a
\* report ID), which the channel accepts up to its 8-byte transfer size.
CONSTANTS
  MPS = 8
  NP_TXH_FIFO_WORDS = 4
  P_TXH_FIFO_WORDS = 2
  Xfers <- MCHidPoll
  Overrun = TRUE
  MaxXfers = 1
  MaxUnplugs = 0
SPECIFICATION Spec
INVARIANT RxWithinBuffer
CHECK_DEADLOCK FALSE
