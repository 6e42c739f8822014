\* Host: a channel of 8-byte packets, TxFIFOs of 4 and 2 words, the
\* transfers of the control machine and the CDC driver, three in a row,
\* and one unplug; a bulk or interrupt device may send a full packet
\* whatever it was asked for (Overrun), a control one keeps to wLength.
\* Device: endpoint 1 with a TxFIFO of one packet (2
\* words), IN buffers of a full and a short packet, OUT buffers of
\* one packet, and the IN-token-on-empty-FIFO interrupt unmasked.
CONSTANTS
  MPS = 8
  NP_TXH_FIFO_WORDS = 4
  P_TXH_FIFO_WORDS = 2
  Xfers <- MCXfers
  Overrun = TRUE
  MaxXfers = 3
  MaxUnplugs = 1
  TX_FIFO_WORDS = 2
  AppTxLens = {12}
  AppRxLens = {8}
  ITxEmpUnmasked = TRUE
SPECIFICATION LinkSpec
INVARIANTS TxFifoWithinDepth OutPacketsExact RxWithinBuffer IdleFifosEmpty DevInExact
PROPERTY XferCompletes
\* The callers stop after MaxXfers transfers.
CHECK_DEADLOCK FALSE
