------------------------------ MODULE MC_HostMsc ------------------------------
(* HostMsc instantiated for TLC.                                           *)
EXTENDS HostMsc

\* usbh_channel.h and drv_usb_host.h as built.
MCChannelMaxNum == 8
MCHostChannelNum == 12
=============================================================================
