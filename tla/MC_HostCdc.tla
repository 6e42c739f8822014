------------------------------ MODULE MC_HostCdc ------------------------------
(* HostCdc instantiated for TLC.                                           *)
EXTENDS HostCdc

\* usbh_channel.h and drv_usb_host.h as built.
MCChannelMaxNum == 8
MCHostChannelNum == 12
=============================================================================
