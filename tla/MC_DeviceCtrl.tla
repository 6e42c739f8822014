------------------------- MODULE MC_DeviceCtrl -------------------------
EXTENDS DeviceCtrl
====
