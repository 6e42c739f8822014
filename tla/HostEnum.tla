------------------------------ MODULE HostEnum -------------------------------
(***************************************************************************)
(* Device enumeration by the host stack: the ENUM_*Handler state machine  *)
(* of Core_Host/Standard/src/usbh_enum.c driven by USBH_EnumHandler       *)
(* (usbh_core.c), the request builders and the descriptor parsers of      *)
(* usbh_stdReq.c, and the address and packet size of the two control      *)
(* channels.  One call of USBH_ControlXferHandler that returns COMPLETE,  *)
(* STALL or ERROR is one step here; the phases under it are the subject   *)
(* of HostCtrlXfer.  The device is an environment that follows chapter 9  *)
(* of USB 2.0 and may answer a transfer with a STALL or an error.         *)
(***************************************************************************)
EXTENDS Integers, Sequences

CONSTANTS
  DevMPS,          \* bMaxPacketSize0 values the attached device may have
  Configs,         \* configuration descriptor bodies the device may have
  SerialIdx,       \* iSerialNumber values the device may have
  StrLens,         \* bLength values of the device's string descriptors
  INTERFACE_DESC_MAX_NUM,   \* usb_user.h: size of g_usbHost...interface[]
  ENDPOINT_DESC_MAX_NUM,    \* usb_user.h: size of interface[i].epDesc[]
  USB_EP0_PACKET_SIZE,      \* usb_user.h: control packet size before enum
  Faults,          \* answers other than success the device may give
  MaxFaults        \* bound on the number of such answers

ASSUME DevMPS \subseteq {8, 16, 32, 64}
ASSUME \A m \in DevMPS : m <= USB_EP0_PACKET_SIZE
ASSUME Faults \subseteq {"STALL", "ERROR"} /\ MaxFaults \in Nat
ASSUME StrLens \subseteq 2..255

\* usbh_stdReq.h
STD_DEV_DESC_SIZE == 18
STD_CFG_DESC_SIZE == 9
STD_EP_DESC_SIZE == 7
\* usb_user.h: the address given to the device.
USBH_DEVICE_CONFIGURED_ADDRESS == 1
USBH_DEVICE_DEFAULT_ADDRESS == 0
\* bConfigurationValue of the device's only configuration.
ConfValue == 1

\* A configuration descriptor body is a sequence of interface, endpoint and
\* class-specific descriptors; their bLength and bDescriptorType.
DescLen == [ITF |-> 9, EP |-> 7, CS |-> 5]
DescType == [ITF |-> 4, EP |-> 5, CS |-> 36]

MinOf(a, b) == IF a < b THEN a ELSE b

\* Byte offset of the i-th descriptor of body b in the whole descriptor.
Off(b) == LET o[i \in 1..Len(b)] == IF i = 1 THEN STD_CFG_DESC_SIZE
                                    ELSE o[i - 1] + DescLen[b[i - 1]]
          IN o
\* wTotalLength.
Total(b) == IF b = <<>> THEN STD_CFG_DESC_SIZE
            ELSE Off(b)[Len(b)] + DescLen[b[Len(b)]]

\* Byte k of the configuration descriptor the device sends: the header of
\* the configuration descriptor and of each descriptor in the body; the
\* other bytes play no part in the parse and are written 0.
ByteAt(b, k) ==
  CASE k = 0 -> STD_CFG_DESC_SIZE
    [] k = 1 -> 2
    [] k = 2 -> Total(b) % 256
    [] k = 3 -> Total(b) \div 256
    [] k = 5 -> ConfValue
    [] \E i \in DOMAIN b : Off(b)[i] = k ->
         DescLen[b[CHOOSE i \in DOMAIN b : Off(b)[i] = k]]
    [] \E i \in DOMAIN b : Off(b)[i] + 1 = k ->
         DescType[b[CHOOSE i \in DOMAIN b : Off(b)[i] + 1 = k]]
    [] OTHER -> 0

\* usbh_enum.c: uint8_t s_stringBuf[64].
S_STRING_BUF_LEN == 64

\* Strings the device names in its device descriptor.
IManufacturer == 1
IProduct == 2

EnumStates == {"IDLE", "GET_DEV_DESC", "GET_FULL_DEV_DESC", "SET_ADDR",
               "GET_CFG_DESC", "GET_FULL_CFG_DESC", "GET_MFC_STRING_DESC",
               "GET_PRODUCT_STRING_DESC", "GET_SERIALNUM_STRING_DESC",
               "SET_CONFIGURATION", "CONFIGURED_OK"}

\* The interface table: slot i holds the offset of the interface descriptor
\* copied there and of the endpoint descriptors copied under it; 0 is an
\* empty (zero-initialised) slot, since no descriptor of the body is at 0.
ItfSlots == 0..(INTERFACE_DESC_MAX_NUM - 1)
EpSlots == 0..(ENDPOINT_DESC_MAX_NUM - 1)
EmptyItf == [itf |-> 0, ep |-> [k \in EpSlots |-> 0]]

VARIABLES
  device,       \* the attached device: [mps, body, iSerial, strLen] (fixed)
  dstate,       \* its chapter-9 state: [addr, st, conf]
  hostState,    \* g_usbHost.curHostState
  enumState,    \* g_usbHost.control.enumState
  xferState,    \* g_usbHost.control.xferState
  req,          \* g_usbHost.control.reqData
  devAddress,   \* g_usbHost.devAddress
  chan,         \* address and packet size the control channels are open with
  ddesc,        \* g_usbHost.control.descriptor.device: [mps, iSerial]
  cdesc,        \* descriptor.configuration: [total, conf]
  cfgRcv,       \* bytes received into descriptor.cfgDescBuf
  itfTbl,       \* descriptor.interface[]
  strBuf,       \* s_stringBuf: index of the string last parsed into it,
                \* and the bytes USBH_ParseStrDescriptor wrote
  hung,         \* the main loop is stuck in USBH_ParseCfgDesc
  faults        \* STALL / ERROR answers so far

vars == <<device, dstate, hostState, enumState, xferState, req, devAddress,
          chan, ddesc, cdesc, cfgRcv, itfTbl, strBuf, hung, faults>>

DeviceRecords == [mps : DevMPS, body : Configs, iSerial : SerialIdx, strLen : StrLens]

NoReq == [kind |-> "NONE", type |-> "NONE", idx |-> 0, len |-> 0]

EnumTypeOK ==
  /\ device \in DeviceRecords
  /\ dstate \in [addr : {0, USBH_DEVICE_CONFIGURED_ADDRESS},
                 st : {"DEFAULT", "ADDRESS", "CONFIGURED"}, conf : {0, ConfValue}]
  /\ hostState \in {"ENUM", "USER_INPUT"}
  /\ enumState \in EnumStates
  /\ xferState \in {"START", "WAITING"}
  /\ req.kind \in {"NONE", "GET_DESC", "SET_ADDRESS", "SET_CONFIGURATION"}
  /\ devAddress \in {0, USBH_DEVICE_CONFIGURED_ADDRESS}
  /\ chan \in [addr : {0, USBH_DEVICE_CONFIGURED_ADDRESS}, mps : DevMPS \cup {USB_EP0_PACKET_SIZE}]
  /\ ddesc \in [mps : {0} \cup DevMPS, iMfc : {0, IManufacturer},
                iProd : {0, IProduct}, iSerial : {0} \cup SerialIdx]
  /\ cdesc.total \in 0..65535 /\ cdesc.conf \in 0..255
  /\ cfgRcv \in 0..65535
  /\ DOMAIN itfTbl = ItfSlots
  /\ \A i \in ItfSlots : /\ itfTbl[i].itf \in 0..65535
                         /\ DOMAIN itfTbl[i].ep = EpSlots
                         /\ \A k \in EpSlots : itfTbl[i].ep[k] \in 0..65535
  /\ strBuf \in [idx : {0, IManufacturer, IProduct} \cup SerialIdx, len : 0..256]
  /\ hung \in BOOLEAN
  /\ faults \in 0..MaxFaults

-----------------------------------------------------------------------------
(* USBH_ParseCfgDesc and the reference it is checked against.             *)

\* The bytes of each configuration descriptor (computed once).
CfgBytes == [b \in Configs |-> [k \in 0..(Total(b) - 1) |-> ByteAt(b, k)]]

\* parseBuf[k]: the bytes received into cfgDescBuf, zero beyond them.
RcvByte(b, r, k) == IF k < r /\ k < Total(b) THEN CfgBytes[b][k] ELSE 0

\* One pass of the while loop at parseIndex idx and the passes after it.
\* An interface descriptor is copied while itfIndex < INTERFACE_DESC_MAX_NUM
\* and restarts epIndex; an endpoint descriptor is copied under interface
\* itfIndex - 1 when 0 < itfIndex < INTERFACE_DESC_MAX_NUM and epIndex <
\* ENDPOINT_DESC_MAX_NUM.  parseIndex is a uint16_t; the early exit is
\* computed in int.  A bLength of 0 never moves parseIndex: the loop runs
\* forever, written hang.
\* Mutation: an endpoint filed under slot itfIndex instead of itfIndex - 1.
RECURSIVE ParseLoopEpOwnSlot(_, _, _, _, _, _, _)
ParseLoopEpOwnSlot(b, r, totalLen, parseIndex, itfIndex, epIndex, tbl) ==
  LET subLen == RcvByte(b, r, parseIndex)
      type   == RcvByte(b, r, parseIndex + 1)
      isItf  == type = 4 /\ itfIndex < INTERFACE_DESC_MAX_NUM
      isEp   == /\ type = 5
                /\ 0 < itfIndex /\ itfIndex < INTERFACE_DESC_MAX_NUM
                /\ epIndex < ENDPOINT_DESC_MAX_NUM
      tbl2   == CASE isItf -> [tbl EXCEPT ![itfIndex].itf = parseIndex]
                  [] isEp  -> [tbl EXCEPT ![itfIndex].ep[epIndex] = parseIndex]
                  [] OTHER -> tbl
      itf2   == IF isItf THEN itfIndex + 1 ELSE itfIndex
      ep2    == CASE isItf -> 0 [] isEp -> epIndex + 1 [] OTHER -> epIndex
      next   == (parseIndex + subLen) % 65536
  IN CASE totalLen - next < STD_EP_DESC_SIZE -> [tbl |-> tbl2, hang |-> FALSE]
       [] totalLen > next /\ subLen = 0      -> [tbl |-> tbl2, hang |-> TRUE]
       [] totalLen > next -> ParseLoopEpOwnSlot(b, r, totalLen, next, itf2, ep2, tbl2)
       [] OTHER -> [tbl |-> tbl2, hang |-> FALSE]

RECURSIVE ParseLoop(_, _, _, _, _, _, _)
ParseLoop(b, r, totalLen, parseIndex, itfIndex, epIndex, tbl) ==
  LET subLen == RcvByte(b, r, parseIndex)
      type   == RcvByte(b, r, parseIndex + 1)
      isItf  == type = 4 /\ itfIndex < INTERFACE_DESC_MAX_NUM
      isEp   == /\ type = 5
                /\ 0 < itfIndex /\ itfIndex < INTERFACE_DESC_MAX_NUM
                /\ epIndex < ENDPOINT_DESC_MAX_NUM
      tbl2   == CASE isItf -> [tbl EXCEPT ![itfIndex].itf = parseIndex]
                  [] isEp  -> [tbl EXCEPT ![itfIndex - 1].ep[epIndex] = parseIndex]
                  [] OTHER -> tbl
      itf2   == IF isItf THEN itfIndex + 1 ELSE itfIndex
      ep2    == CASE isItf -> 0 [] isEp -> epIndex + 1 [] OTHER -> epIndex
      next   == (parseIndex + subLen) % 65536
  IN CASE totalLen - next < STD_EP_DESC_SIZE -> [tbl |-> tbl2, hang |-> FALSE]
       [] totalLen > next /\ subLen = 0      -> [tbl |-> tbl2, hang |-> TRUE]
       [] totalLen > next -> ParseLoop(b, r, totalLen, next, itf2, ep2, tbl2)
       [] OTHER -> [tbl |-> tbl2, hang |-> FALSE]

\* USBH_ParseCfgDesc(cfgDescBuf, &configuration, interface): the first
\* STD_CFG_DESC_SIZE bytes are copied over the configuration descriptor,
\* then the loop walks the rest up to wTotalLength (bytes 2 and 3).
ParseCfgDesc(b, r, tbl) ==
  LET totalLen == RcvByte(b, r, 3) * 256 + RcvByte(b, r, 2)
      res == IF totalLen > STD_CFG_DESC_SIZE
             THEN ParseLoop(b, r, totalLen, STD_CFG_DESC_SIZE, 0, 0, tbl)
             ELSE [tbl |-> tbl, hang |-> FALSE]
  IN [tbl |-> res.tbl, hang |-> res.hang,
      cfg |-> [total |-> totalLen, conf |-> RcvByte(b, r, 5)]]

\* Reference: what the interface table should hold for body b -- its first
\* INTERFACE_DESC_MAX_NUM interfaces, each with the first
\* ENDPOINT_DESC_MAX_NUM endpoints that follow it before the next one.
Positions(b) == [p \in DOMAIN b |-> p]
ItfPos(b) == SelectSeq(Positions(b), LAMBDA p : b[p] = "ITF")
EpPos(b, q) == SelectSeq(Positions(b), LAMBDA p : p > q /\ b[p] = "EP" /\
                           \A m \in (q + 1)..(p - 1) : b[m] # "ITF")
RefTable(b) ==
  [i \in ItfSlots |->
     IF i < Len(ItfPos(b))
     THEN LET q == ItfPos(b)[i + 1] IN
          [itf |-> Off(b)[q],
           ep  |-> [k \in EpSlots |-> IF k < Len(EpPos(b, q))
                                      THEN Off(b)[EpPos(b, q)[k + 1]] ELSE 0]]
     ELSE EmptyItf]
RefTables == [b \in Configs |-> RefTable(b)]

-----------------------------------------------------------------------------
(* The device and the control transfer.                                   *)


\* Bytes the host receives of an IN data stage of n bytes: the channel ends
\* the transfer at the first packet shorter than its own packet size.
Received(n) == IF device.mps < chan.mps THEN MinOf(n, device.mps) ELSE n

\* The device descriptor fields the host keeps, after receiving n bytes of
\* it (bMaxPacketSize0 is byte 7, the string indices bytes 14 to 16).
RecvDevDesc(n) ==
  [mps     |-> IF n > 7  THEN device.mps ELSE ddesc.mps,
   iMfc    |-> IF n > 14 THEN IManufacturer ELSE ddesc.iMfc,
   iProd   |-> IF n > 15 THEN IProduct ELSE ddesc.iProd,
   iSerial |-> IF n > 16 THEN device.iSerial ELSE ddesc.iSerial]

\* The answers a transfer may end with.  A request sent to an address the
\* device does not have is never answered and ends in an error; a
\* SET_CONFIGURATION with a value the device does not have is stalled.
Outcomes ==
  IF chan.addr # dstate.addr THEN {"ERROR"}
  ELSE IF req.kind = "SET_CONFIGURATION" /\ req.idx \notin {0, ConfValue}
       THEN {"STALL"}
       ELSE {"COMPLETE"} \cup (IF faults < MaxFaults THEN Faults ELSE {})

\* Chapter 9: the device takes its address and configuration when the
\* status stage of the request completes.
DeviceApplies(r) ==
  dstate' = CASE r.kind = "SET_ADDRESS" ->
                   [dstate EXCEPT !.addr = r.idx,
                                  !.st = IF r.idx = 0 THEN "DEFAULT" ELSE "ADDRESS"]
              [] r.kind = "SET_CONFIGURATION" ->
                   [dstate EXCEPT !.conf = r.idx,
                                  !.st = IF r.idx = 0 THEN "ADDRESS" ELSE "CONFIGURED"]
              [] OTHER -> dstate

-----------------------------------------------------------------------------
(* usbh_stdReq.c request builders, and the request each enumState sends.  *)

StandardGetDescriptor(type, idx, len) ==
  [kind |-> "GET_DESC", type |-> type, idx |-> idx, len |-> len % 65536]
StandardSetAddress(a) == [kind |-> "SET_ADDRESS", type |-> "NONE", idx |-> a, len |-> 0]
StandardSetConfiguration(c) ==
  [kind |-> "SET_CONFIGURATION", type |-> "NONE", idx |-> c, len |-> 0]

\* Mutation: the first device descriptor request asks for 7 bytes, one
\* short of bMaxPacketSize0.
RequestOfShortDevDesc(st) ==
  CASE st = "GET_DEV_DESC"      -> StandardGetDescriptor("DEVICE", 0, 7)
    [] st = "SET_ADDR"          -> StandardSetAddress(USBH_DEVICE_CONFIGURED_ADDRESS)
    [] st = "GET_FULL_DEV_DESC" -> StandardGetDescriptor("DEVICE", 0, STD_DEV_DESC_SIZE)
    [] st = "GET_CFG_DESC"      -> StandardGetDescriptor("CONFIG", 0, STD_CFG_DESC_SIZE)
    [] st = "GET_FULL_CFG_DESC" -> StandardGetDescriptor("CONFIG", 0, cdesc.total)
    [] st = "GET_MFC_STRING_DESC"     -> StandardGetDescriptor("STRING", ddesc.iMfc, 255)
    [] st = "GET_PRODUCT_STRING_DESC" -> StandardGetDescriptor("STRING", ddesc.iProd, 255)
    [] st = "GET_SERIALNUM_STRING_DESC" ->
         StandardGetDescriptor("STRING", ddesc.iSerial, 255)
    [] st = "SET_CONFIGURATION" -> StandardSetConfiguration(cdesc.conf)

\* Mutation: SET_CONFIGURATION sends the configuration's index (0) instead
\* of its bConfigurationValue.
RequestOfConfIndex(st) ==
  CASE st = "GET_DEV_DESC"      -> StandardGetDescriptor("DEVICE", 0, 8)
    [] st = "SET_ADDR"          -> StandardSetAddress(USBH_DEVICE_CONFIGURED_ADDRESS)
    [] st = "GET_FULL_DEV_DESC" -> StandardGetDescriptor("DEVICE", 0, STD_DEV_DESC_SIZE)
    [] st = "GET_CFG_DESC"      -> StandardGetDescriptor("CONFIG", 0, STD_CFG_DESC_SIZE)
    [] st = "GET_FULL_CFG_DESC" -> StandardGetDescriptor("CONFIG", 0, cdesc.total)
    [] st = "GET_MFC_STRING_DESC"     -> StandardGetDescriptor("STRING", ddesc.iMfc, 255)
    [] st = "GET_PRODUCT_STRING_DESC" -> StandardGetDescriptor("STRING", ddesc.iProd, 255)
    [] st = "GET_SERIALNUM_STRING_DESC" ->
         StandardGetDescriptor("STRING", ddesc.iSerial, 255)
    [] st = "SET_CONFIGURATION" -> StandardSetConfiguration(0)

\* The USBH_XFER_START branch of each ENUM_*Handler.
RequestOf(st) ==
  CASE st = "GET_DEV_DESC"      -> StandardGetDescriptor("DEVICE", 0, 8)
    [] st = "SET_ADDR"          -> StandardSetAddress(USBH_DEVICE_CONFIGURED_ADDRESS)
    [] st = "GET_FULL_DEV_DESC" -> StandardGetDescriptor("DEVICE", 0, STD_DEV_DESC_SIZE)
    [] st = "GET_CFG_DESC"      -> StandardGetDescriptor("CONFIG", 0, STD_CFG_DESC_SIZE)
    [] st = "GET_FULL_CFG_DESC" -> StandardGetDescriptor("CONFIG", 0, cdesc.total)
    [] st = "GET_MFC_STRING_DESC"     -> StandardGetDescriptor("STRING", ddesc.iMfc, 255)
    [] st = "GET_PRODUCT_STRING_DESC" -> StandardGetDescriptor("STRING", ddesc.iProd, 255)
    [] st = "GET_SERIALNUM_STRING_DESC" ->
         StandardGetDescriptor("STRING", ddesc.iSerial, 255)
    [] st = "SET_CONFIGURATION" -> StandardSetConfiguration(cdesc.conf)

-----------------------------------------------------------------------------
(* The enumeration handlers, one call of USBH_EnumHandler each.           *)

\* USBH_EnumHandler is called while curHostState is ENUM; the main loop is
\* stuck for good once USBH_ParseCfgDesc does not terminate.
Polled == hostState = "ENUM" /\ ~hung

\* ENUM_GetSerialNumStringHandler skips its request when iSerialNumber = 0.
SerialSkipped == enumState = "GET_SERIALNUM_STRING_DESC" /\ ddesc.iSerial = 0

\* ENUM_IdleHandler.
EnumIdle ==
  /\ Polled /\ enumState = "IDLE"
  /\ enumState' = "GET_DEV_DESC"
  /\ UNCHANGED <<device, dstate, hostState, xferState, req, devAddress, chan,
                 ddesc, cdesc, cfgRcv, itfTbl, strBuf, hung, faults>>

\* The START branch of a handler: build the request, xferState WAITING.
EnumStart ==
  /\ Polled /\ enumState \notin {"IDLE", "CONFIGURED_OK"} /\ ~SerialSkipped
  /\ xferState = "START"
  /\ req' = RequestOf(enumState)
  /\ xferState' = "WAITING"
  /\ UNCHANGED <<device, dstate, hostState, enumState, devAddress, chan,
                 ddesc, cdesc, cfgRcv, itfTbl, strBuf, hung, faults>>

\* The else branch of ENUM_GetSerialNumStringHandler.
SerialSkip ==
  /\ Polled /\ SerialSkipped
  /\ xferState' = "START"
  /\ enumState' = "SET_CONFIGURATION"
  /\ UNCHANGED <<device, dstate, hostState, req, devAddress, chan,
                 ddesc, cdesc, cfgRcv, itfTbl, strBuf, hung, faults>>

\* The WAITING branch when USBH_ControlXferHandler returns STALL or ERROR:
\* xferState START, and the same handler sends its request again.
XferFailed ==
  /\ Polled /\ xferState = "WAITING" /\ ~SerialSkipped
  /\ \E o \in Outcomes \ {"COMPLETE"} :
       faults' = IF "COMPLETE" \in Outcomes THEN faults + 1 ELSE faults
  /\ xferState' = "START"
  /\ UNCHANGED <<device, dstate, hostState, enumState, req, devAddress, chan,
                 ddesc, cdesc, cfgRcv, itfTbl, strBuf, hung>>

\* The WAITING branch of handler st when the transfer returns COMPLETE.
Completes(st) ==
  /\ Polled /\ xferState = "WAITING" /\ enumState = st /\ ~SerialSkipped
  /\ "COMPLETE" \in Outcomes
  /\ DeviceApplies(req)
  /\ xferState' = "START"
  /\ UNCHANGED <<device, faults>>

\* USBH_CH_OpenChannel on a control channel: the pipe keeps maxPackSize and
\* USB_OTG_InitChannel programs the channel's device address and maximum
\* packet size (its interrupt enables, endpoint number and direction are
\* the same for every call the enumeration makes).
OpenChannel(addr, mps) == [addr |-> addr, mps |-> mps]

\* USB_OTG_H_ConfigDeviceAddr: the channel's DVADDR field (7 bits).
ConfigDeviceAddr(c, addr) == [c EXCEPT !.addr = addr % 128]

\* Mutation: the channels are not reopened with bMaxPacketSize0.
GetDevDescDoneNoReopen ==
  LET d == RecvDevDesc(Received(MinOf(req.len, STD_DEV_DESC_SIZE))) IN
  /\ Completes("GET_DEV_DESC")
  /\ ddesc' = d
  /\ enumState' = "SET_ADDR"
  /\ UNCHANGED <<hostState, req, devAddress, chan, cdesc, cfgRcv, itfTbl, strBuf, hung>>

\* ENUM_GetDevDescHandler: keep bMaxPacketSize0 and reopen both control
\* channels with it at the current (default) address.
GetDevDescDone ==
  LET d == RecvDevDesc(Received(MinOf(req.len, STD_DEV_DESC_SIZE))) IN
  /\ Completes("GET_DEV_DESC")
  /\ ddesc' = d
  /\ chan' = OpenChannel(devAddress, d.mps)
  /\ enumState' = "SET_ADDR"
  /\ UNCHANGED <<hostState, req, devAddress, cdesc, cfgRcv, itfTbl, strBuf, hung>>

\* Mutation: the channels stay at the default address.
SetAddressDoneKeepsChan ==
  /\ Completes("SET_ADDR")
  /\ devAddress' = USBH_DEVICE_CONFIGURED_ADDRESS
  /\ enumState' = "GET_FULL_DEV_DESC"
  /\ UNCHANGED <<hostState, req, ddesc, chan, cdesc, cfgRcv, itfTbl, strBuf, hung>>

\* ENUM_SetAddressHandler: take the new address and move both channels to it.
SetAddressDone ==
  /\ Completes("SET_ADDR")
  /\ devAddress' = USBH_DEVICE_CONFIGURED_ADDRESS
  /\ chan' = ConfigDeviceAddr(chan, USBH_DEVICE_CONFIGURED_ADDRESS)
  /\ enumState' = "GET_FULL_DEV_DESC"
  /\ UNCHANGED <<hostState, req, ddesc, cdesc, cfgRcv, itfTbl, strBuf, hung>>

\* ENUM_GetFullDevDescHandler.
GetFullDevDescDone ==
  /\ Completes("GET_FULL_DEV_DESC")
  /\ ddesc' = RecvDevDesc(Received(MinOf(req.len, STD_DEV_DESC_SIZE)))
  /\ enumState' = "GET_CFG_DESC"
  /\ UNCHANGED <<hostState, req, devAddress, chan, cdesc, cfgRcv, itfTbl, strBuf, hung>>

\* ENUM_GetConfigurationDescHandler: the first 9 bytes land on the
\* configuration descriptor (wTotalLength is bytes 2-3, the value byte 5).
GetCfgDescDone ==
  LET n == Received(MinOf(req.len, Total(device.body))) IN
  /\ Completes("GET_CFG_DESC")
  /\ cdesc' = [total |-> IF n > 3 THEN Total(device.body) ELSE cdesc.total,
               conf  |-> IF n > 5 THEN ConfValue ELSE cdesc.conf]
  /\ enumState' = "GET_FULL_CFG_DESC"
  /\ UNCHANGED <<hostState, req, devAddress, chan, ddesc, cfgRcv, itfTbl, strBuf, hung>>

\* ENUM_GetFullConfigurationDescHandler: receive wTotalLength bytes into
\* cfgDescBuf and parse them; a parse that never ends keeps the handler
\* from reaching USBH_ConfigEnumState.
GetFullCfgDescDone ==
  LET n == Received(MinOf(req.len, Total(device.body)))
      p == ParseCfgDesc(device.body, n, itfTbl)
  IN
  /\ Completes("GET_FULL_CFG_DESC")
  /\ cfgRcv' = n
  /\ itfTbl' = p.tbl
  /\ cdesc' = p.cfg
  /\ hung' = p.hang
  /\ enumState' = IF p.hang THEN enumState ELSE "GET_MFC_STRING_DESC"
  /\ UNCHANGED <<hostState, req, devAddress, chan, ddesc, strBuf>>

\* The for loop of USBH_ParseStrDescriptor: from index 2 while index is
\* below bLength, in steps of 2, one byte (the low byte of each UTF-16
\* unit) per pass; n bytes written so far.
RECURSIVE StrCopyLoop(_, _, _)
StrCopyLoop(bLength, index, n) ==
  IF index < bLength THEN StrCopyLoop(bLength, index + 2, n + 1) ELSE n

ParseStrDescriptorFromZero(bLength, bType) ==
  IF bType = 3 THEN StrCopyLoop(bLength, 0, 0) + 1 ELSE 0

\* USBH_ParseStrDescriptor: the bytes it writes to strBuff, the characters
\* and the 0 end mark for a string descriptor (type 3), none otherwise.
ParseStrDescriptor(bLength, bType) ==
  IF bType = 3 THEN StrCopyLoop(bLength, 2, 0) + 1 ELSE 0

\* ENUM_GetMFCStringHandler, ENUM_GetProductStringHandler and the request
\* branch of ENUM_GetSerialNumStringHandler: USBH_ParseStrDescriptor copies
\* the string descriptor (bDescriptorType 3) into s_stringBuf.
GetStringDone(st, next) ==
  /\ Completes(st)
  /\ strBuf' = [idx |-> req.idx, len |-> ParseStrDescriptor(device.strLen, 3)]
  /\ enumState' = next
  /\ UNCHANGED <<hostState, req, devAddress, chan, ddesc, cdesc, cfgRcv, itfTbl, hung>>

\* ENUM_SetConfigurationHandler, then USBH_EnumHandler leaves ENUM.
SetConfigurationDone ==
  /\ Completes("SET_CONFIGURATION")
  /\ enumState' = "CONFIGURED_OK"
  /\ hostState' = "USER_INPUT"
  /\ UNCHANGED <<req, devAddress, chan, ddesc, cdesc, cfgRcv, itfTbl, strBuf, hung>>

EnumDone ==
  \/ GetDevDescDone \/ SetAddressDone \/ GetFullDevDescDone
  \/ GetCfgDescDone \/ GetFullCfgDescDone
  \/ GetStringDone("GET_MFC_STRING_DESC", "GET_PRODUCT_STRING_DESC")
  \/ GetStringDone("GET_PRODUCT_STRING_DESC", "GET_SERIALNUM_STRING_DESC")
  \/ GetStringDone("GET_SERIALNUM_STRING_DESC", "SET_CONFIGURATION")
  \/ SetConfigurationDone

-----------------------------------------------------------------------------
\* USBH_DevAttachedHandler has opened both control channels at address 0
\* with USB_EP0_PACKET_SIZE and set enumState IDLE; g_usbHost is
\* zero-initialised.  The attached device is still in the Default state.
EnumInit ==
  /\ device \in DeviceRecords
  /\ dstate = [addr |-> 0, st |-> "DEFAULT", conf |-> 0]
  /\ hostState = "ENUM"
  /\ enumState = "IDLE"
  /\ xferState = "START"
  /\ req = NoReq
  /\ devAddress = USBH_DEVICE_DEFAULT_ADDRESS
  /\ chan = OpenChannel(USBH_DEVICE_DEFAULT_ADDRESS, USB_EP0_PACKET_SIZE)
  /\ ddesc = [mps |-> 0, iMfc |-> 0, iProd |-> 0, iSerial |-> 0]
  /\ cdesc = [total |-> 0, conf |-> 0]
  /\ cfgRcv = 0
  /\ itfTbl = [i \in ItfSlots |-> EmptyItf]
  /\ strBuf = [idx |-> 0, len |-> 0]
  /\ hung = FALSE
  /\ faults = 0

EnumNext == EnumIdle \/ EnumStart \/ SerialSkip \/ XferFailed \/ EnumDone

\* The main loop calls USBH_PollingProcess without end, and the device (or
\* the host's transaction timeout) ends every transfer.
EnumFairness ==
  /\ WF_vars(EnumIdle) /\ WF_vars(EnumStart) /\ WF_vars(SerialSkip)
  /\ WF_vars(XferFailed \/ EnumDone)

EnumSpec == EnumInit /\ [][EnumNext]_vars /\ EnumFairness

-----------------------------------------------------------------------------
(* Properties.                                                            *)

\* Every transfer after the first is sent to the address the device has and
\* with its bMaxPacketSize0: the channels follow SET_ADDRESS and the device
\* descriptor (ENUM_GetDevDescHandler, ENUM_SetAddressHandler).
ChannelsMatchDevice ==
  (Polled /\ xferState = "WAITING" /\ enumState # "GET_DEV_DESC")
    => chan = [addr |-> dstate.addr, mps |-> device.mps]

\* USBH_ParseCfgDesc never files a descriptor in the wrong place: an
\* interface slot holds the interface of that rank and an endpoint slot the
\* endpoint of that rank under that interface, or nothing.
ParsedInterfacesSound ==
  LET ref == RefTables[device.body] IN
  \A i \in ItfSlots :
    /\ itfTbl[i].itf \in {0, ref[i].itf}
    /\ \A k \in EpSlots : itfTbl[i].ep[k] \in {0, ref[i].ep[k]}

\* Once the configuration descriptor is parsed, the interface table holds
\* every interface and endpoint that fits in it.
ParsedInterfacesComplete ==
  enumState \in {"GET_MFC_STRING_DESC", "GET_PRODUCT_STRING_DESC",
                 "GET_SERIALNUM_STRING_DESC", "SET_CONFIGURATION", "CONFIGURED_OK"}
    => itfTbl = RefTables[device.body]

\* When enumeration reports CONFIGURED_OK the device really is configured,
\* with the configuration it described, at the address the host keeps.
EnumResultAgrees ==
  enumState = "CONFIGURED_OK" =>
    dstate = [addr |-> devAddress, st |-> "CONFIGURED", conf |-> ConfValue]

\* USBH_ParseStrDescriptor never writes past the 64 bytes of s_stringBuf.
\* The loop bound bLength comes from the device and nothing checks it
\* against the buffer size of usbh_enum.c: a string of bLength 129 or more
\* breaks it (HostEnum_enum.cfg with StrLens = {130}), so no run holds it.
StringWithinBuffer == strBuf.len <= S_STRING_BUF_LEN

\* With finitely many STALLs and errors, enumeration ends configured.
EnumCompletes == <>(enumState = "CONFIGURED_OK")
=============================================================================
