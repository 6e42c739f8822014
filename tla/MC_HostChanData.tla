--------------------------- MODULE MC_HostChanData ---------------------------
(* Model-checking instances of HostChanData.  The constants are set in the *)
(* .cfg files; see README.md for the runs.                                 *)
EXTENDS HostChanData

\* The transfers of the control machine (SETUP, a descriptor read longer
\* than a packet, the zero-length status stages with a NULL buffer), of
\* the CDC driver (a bulk packet each way) and of an interrupt OUT.
MCXfers ==
  { [dir |-> "OUT", type |-> "CONTROL", len |-> 8, buf |-> TRUE],
    [dir |-> "IN", type |-> "CONTROL", len |-> 18, buf |-> TRUE],
    [dir |-> "IN", type |-> "CONTROL", len |-> 0, buf |-> FALSE],
    [dir |-> "OUT", type |-> "CONTROL", len |-> 0, buf |-> FALSE],
    [dir |-> "OUT", type |-> "BULK", len |-> 5, buf |-> TRUE],
    [dir |-> "IN", type |-> "BULK", len |-> 8, buf |-> TRUE],
    [dir |-> "OUT", type |-> "INTERRUPT", len |-> 8, buf |-> TRUE] }

\* The HID driver's poll: USBH_InterruptInData(hidDataInChannel, dat, 4).
MCHidPoll == { [dir |-> "IN", type |-> "INTERRUPT", len |-> 4, buf |-> TRUE] }

\* A bulk OUT transfer one byte longer than the non-periodic TxFIFO of
\* the runs (4 words): USB_OTG_EnableOutChannelTransfer defers it.
MCLongOut == { [dir |-> "OUT", type |-> "BULK", len |-> 17, buf |-> TRUE] }

=============================================================================
