\* Devices with a packet size of 8 or 64, with and without a
\* serial-number string, with empty strings and strings of bLength 128,
\* three configuration layouts, and a STALL or
\* a transaction error on any one transfer.
CONSTANTS
  DevMPS = {8, 64}
  Configs <- MCConfigs
  SerialIdx = {0, 3}
  StrLens = {2, 128}
  INTERFACE_DESC_MAX_NUM = 2
  ENDPOINT_DESC_MAX_NUM = 2
  USB_EP0_PACKET_SIZE = 64
  Faults = {"STALL", "ERROR"}
  MaxFaults = 1
SPECIFICATION EnumSpec
INVARIANTS EnumTypeOK ChannelsMatchDevice ParsedInterfacesSound EnumResultAgrees
PROPERTY EnumCompletes
\* Enumeration ends in USER_INPUT, where the class driver (not modelled)
\* takes over: that state is terminal here.
CHECK_DEADLOCK FALSE
