\* A bulk OUT transfer of 17 bytes against a non-periodic TxFIFO of 4 words
\* (16 bytes): USB_OTG_EnableOutChannelTransfer defers the whole transfer
\* to the TxFIFO-empty interrupt, whose handler never writes a piece.
CONSTANTS
  MPS = 8
  NP_TXH_FIFO_WORDS = 4
  P_TXH_FIFO_WORDS = 2
  Xfers <- MCLongOut
  Overrun = FALSE
  MaxXfers = 1
  MaxUnplugs = 0
SPECIFICATION Spec
PROPERTY XferCompletes
CHECK_DEADLOCK FALSE
