----------------------------- MODULE MC_HostClass -----------------------------
(* HostClass instantiated for TLC.                                         *)
EXTENDS HostClass

\* usbh_channel.h and drv_usb_host.h as built.
MCChannelMaxNum == 8
MCHostChannelNum == 12

\* Three mouse reports: right button held while moving right, left
\* button held while moving left (x = -1), both buttons without a move.
MCMouseReport ==
  <<[button |-> 2, x |-> 1], [button |-> 1, x |-> 255], [button |-> 3, x |-> 0]>>
=============================================================================
