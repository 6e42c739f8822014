----------------------------- MODULE DeviceCtrl -----------------------------
(***************************************************************************)
(* Endpoint 0 of the USB device stack -- the control-transfer engine of   *)
(* usbd_core.c, the standard requests of usbd_stdReq.c with the device    *)
(* state they keep, the CDC class request handler, and the EP0, reset,    *)
(* resume and suspend paths of usbd_interrupt.c -- against a USB host     *)
(* that follows chapters 8 and 9 of the USB 2.0 specification.            *)
(*                                                                         *)
(* The device runs entirely in USBD_OTG_IsrHandler; one invocation        *)
(* handles the OUT endpoint flags, then the IN endpoint flags, pops one   *)
(* entry of the receive FIFO, then takes the reset, resume and suspend    *)
(* flags.  The host and the OTG core act between invocations.  Data are   *)
(* abstracted to packets that carry the id of the request whose buffer    *)
(* they come from, their offset in it, and for one- and two-byte replies  *)
(* the value they carry.                                                  *)
(***************************************************************************)
EXTENDS Integers, Sequences

CONSTANTS
  MPS,           \* USB_EP0_PACKET_SIZE, max packet size of endpoint 0
  DescSizes,     \* sizes of the descriptors GET_DESCRIPTOR may return
  WLengths,      \* wLength values of GET_DESCRIPTOR requests
  ClassLengths,  \* wLength values of CDC class requests
  CmdBufLen,     \* sizeof cmdBuf in usbd_class_cdc.c
  ConfigNum,     \* USBD_CONFIGURATION_NUM, the number of configurations
  BmAttributes,  \* bmAttributes of the configuration descriptor (pDesc[7])
  Kinds,         \* the request kinds the host sends
  SuspendStates, \* states the host expects of a device it suspends
  MaxReqs,       \* bound on SETUP packets the host sends
  MaxAborts,     \* bound on SETUPs sent before the previous transfer ended
  MaxBusEvents,  \* bound on bus resets and suspends
  DevClasses,    \* class drivers the application may install as classReqHandler
  StorageMaxLun  \* STORAGE_MAX_LUN of the MSC storage layer

ASSUME /\ MPS \in Nat \ {0} /\ ConfigNum \in Nat
       /\ BmAttributes \subseteq {"SELF_POWERED", "REMOTE_WAKEUP"}
       /\ MaxReqs \in Nat /\ MaxAborts \in Nat /\ MaxBusEvents \in Nat
       /\ DevClasses \subseteq {"CDC", "HID", "MSC"} /\ StorageMaxLun \in 1..4

MinOf(a, b) == IF a < b THEN a ELSE b

DevStates == {"DEFAULT", "ADDRESS", "CONFIGURED", "SUSPENDED"}

\* bmRequestType.recipient, and the descriptor types the feature requests
\* compare it with (usbd_core.h).
RecipNum == [DEVICE |-> 0, INTERFACE |-> 1, ENDPOINT |-> 2]
USBD_DESC_DEVICE == 1
USBD_DESC_ENDPOINT == 5

\* A request as the host sends it.  "size" is the length of the reply the
\* device holds (a descriptor, or a one- or two-byte value).
Req(kind, dir, recip, value, wl, size) ==
  [kind |-> kind, dir |-> dir, recip |-> recip, value |-> value,
   wLength |-> wl, size |-> size]

AllRequests ==
  {Req("GET_DESC", "IN", "DEVICE", 0, w, s) : w \in WLengths, s \in DescSizes}
  \cup {Req("UNSUPPORTED", d, "DEVICE", 0, w, 0) : d \in {"IN", "OUT"}, w \in ClassLengths}
  \cup {Req("SET_ADDRESS", "OUT", "DEVICE", a, 0, 0) : a \in {0, 1}}
  \cup {Req("SET_CONFIGURATION", "OUT", "DEVICE", c, 0, 0) : c \in 0..ConfigNum}
  \cup {Req("GET_CONFIGURATION", "IN", "DEVICE", 0, 1, 1),
        Req("GET_INTERFACE", "IN", "INTERFACE", 0, 1, 1),
        Req("SET_INTERFACE", "OUT", "INTERFACE", 0, 0, 0),
        Req("GET_STATUS", "IN", "DEVICE", 0, 2, 2),
        Req("SET_FEATURE", "OUT", "DEVICE", "REMOTE_WAKEUP", 0, 0),
        Req("CLEAR_FEATURE", "OUT", "DEVICE", "REMOTE_WAKEUP", 0, 0)}

\* The class requests each class driver handles: any request of the CDC
\* class; SET_IDLE (duration 1 in the high byte of wValue), GET_IDLE,
\* SET_PROTOCOL (report protocol) and GET_PROTOCOL of HID 1.11; the two
\* requests of the mass-storage Bulk-Only Transport.
ClassRequests ==
  [CDC |-> {Req("CLASS", d, "INTERFACE", 0, w, 0) : d \in {"IN", "OUT"}, w \in ClassLengths},
   HID |-> {Req("SET_IDLE", "OUT", "INTERFACE", 256, 0, 0),
            Req("GET_IDLE", "IN", "INTERFACE", 0, 1, 1),
            Req("SET_PROTOCOL", "OUT", "INTERFACE", 1, 0, 0),
            Req("GET_PROTOCOL", "IN", "INTERFACE", 0, 1, 1)},
   MSC |-> {Req("GET_MAX_LUN", "IN", "INTERFACE", 0, 1, 1),
            Req("BOT_RESET", "OUT", "INTERFACE", 0, 0, 0)}]

ClassKinds == {r.kind : r \in UNION {ClassRequests[c] : c \in DOMAIN ClassRequests}}

Requests ==
  {r \in AllRequests \cup UNION {ClassRequests[c] : c \in DevClasses} : r.kind \in Kinds}

\* A packet on the bus: the request id of its buffer, its byte offset, its
\* length and, for the value replies, the value.
ZLP == [id |-> 0, off |-> 0, len |-> 0, val |-> 0]
Packets == [id : 0..MaxReqs, off : 0..64, len : 0..MPS, val : 0..3]

NoReq == [kind |-> "NONE", dir |-> "OUT", recip |-> "DEVICE", value |-> 0,
          wLength |-> 0, size |-> 0, id |-> 0, val |-> 0]

VARIABLES
  dev,     \* g_usbDev fields of EP0 and the EP0 registers of the OTG core
  rxq,     \* the receive FIFO: SETUP and OUT entries not yet popped
  hphase,  \* the host's stage of the current control transfer
  hreq,    \* the host's current request
  hcount,  \* bytes moved in the current data stage
  rcvd,    \* packets the host accepted in the current transfer
  hview,   \* the device state the host expects from USB 2.0 chapter 9
  reqs,    \* SETUP packets sent so far (the id of the last one)
  aborts,  \* SETUPs sent while a transfer was still running
  bus      \* bus resets and suspends so far

vars == <<dev, rxq, hphase, hreq, hcount, rcvd, hview, reqs, aborts, bus>>
hostVars == <<hphase, hreq, hcount, rcvd, hview, reqs, aborts, bus>>

HostPhases == {"IDLE", "IN_DATA", "OUT_DATA", "STATUS_IN", "STATUS_OUT"}

DevTypeOK ==
  /\ dev.ctrlState \in {"IN_DATA", "OUT_DATA"}
  /\ dev.inBuf \in [id : 0..MaxReqs, buf : {"NONE", "DESC", "CMD", "CONFIG", "ALT", "STACK",
                                       "IDLE", "PROTOCOL", "MAXLUN"},
                    pos : Nat, bufLen : Nat, packNum : 0..255, zeroPackFill : BOOLEAN]
  /\ dev.outBuf \in [buf : BOOLEAN, pos : Nat, bufLen : Int, packNum : 0..255]
  /\ dev.inEp \in [armed : BOOLEAN, xlen : 0..MPS]
  /\ dev.fifo \in Seq(Packets) /\ Len(dev.fifo) <= 1
  /\ dev.reqData.id \in 0..MaxReqs
  /\ dev.devState \in DevStates
  /\ dev.curConfiguration \in 0..ConfigNum
  /\ dev.cls \in DevClasses
  /\ {dev.hidIdleState, dev.hidProtocol, dev.mscMaxLen} \subseteq 0..255
  /\ {dev.txfeEn, dev.inCmp, dev.outArmed, dev.outCmp, dev.setupPend,
      dev.stalled, dev.remoteWakeup, dev.rstPend, dev.rwkPend, dev.susPend}
       \subseteq BOOLEAN
  /\ hphase \in HostPhases
  /\ hview \in [st : {"DEFAULT", "ADDRESS", "CONFIGURED"}, conf : 0..ConfigNum,
                susp : BOOLEAN, rw : BOOLEAN, idle : -1..255, proto : -1..255]
  /\ reqs \in 0..MaxReqs /\ aborts \in 0..MaxAborts /\ bus \in 0..MaxBusEvents

-----------------------------------------------------------------------------
(* usbd_core.c: the EP0 helpers, as functions of the device record.       *)

\* packNum is a uint8_t: the count and its decrements wrap at 256.  A
\* bufLen below zero stands for the uint32_t value it wraps to.
PackCount(len) == ((len + (MPS - 1)) \div MPS) % 256

\* USBD_CtrlTxStatus: a zero-length IN packet, then wait for a SETUP.
CtrlTxStatus(d) == [d EXCEPT !.inEp = [armed |-> TRUE, xlen |-> 0]]

\* USBD_CtrlRxStatus: arm EP0 OUT for the host's zero-length status packet.
CtrlRxStatus(d) == [d EXCEPT !.outArmed = TRUE]

\* USB_OTG_SetStall(USB_EP_0): both directions answer STALL.
SetStall(d) == [d EXCEPT !.stalled = TRUE]

\* The inBuf USBD_CtrlInData sets up: only the pointer is kept (buf names
\* what it points to); the bytes are read when the FIFO is filled.
InBufFor(d, buf, len) ==
  [id |-> d.reqData.id, buf |-> buf, pos |-> 0, bufLen |-> len,
   packNum |-> PackCount(len),
   zeroPackFill |-> (len < d.reqData.wLength /\ len % MPS = 0) \/ d.inBuf.zeroPackFill]

\* Mutation: the trailing zero-length packet is never requested.
CtrlInDataNoZlp(d, buf, len) ==
  LET d1 == [d EXCEPT !.inBuf = [InBufFor(d, buf, len) EXCEPT
                                   !.zeroPackFill = d.inBuf.zeroPackFill]]
  IN IF len # 0
       THEN [d1 EXCEPT !.inEp = [armed |-> TRUE, xlen |-> MinOf(len, MPS)],
                       !.txfeEn = TRUE, !.ctrlState = "IN_DATA"]
       ELSE CtrlTxStatus(d1)

\* Mutation: the first IN packet is armed with the whole reply length.
CtrlInDataWholeLen(d, buf, len) ==
  LET d1 == [d EXCEPT !.inBuf = InBufFor(d, buf, len)]
  IN IF len # 0
       THEN [d1 EXCEPT !.inEp = [armed |-> TRUE, xlen |-> len],
                       !.txfeEn = TRUE, !.ctrlState = "IN_DATA"]
       ELSE CtrlTxStatus(d1)

\* USBD_CtrlInData: remember the buffer, request a trailing zero-length
\* packet when the reply is shorter than wLength and a multiple of the
\* packet size, and start the first packet; a zero-length reply is sent
\* as the status packet.  zeroPackFill is only ever set here.
CtrlInData(d, buf, len) ==
  LET d1 == [d EXCEPT !.inBuf = InBufFor(d, buf, len)]
  IN IF len # 0
       THEN [d1 EXCEPT !.inEp = [armed |-> TRUE, xlen |-> MinOf(len, MPS)],
                       !.txfeEn = TRUE, !.ctrlState = "IN_DATA"]
       ELSE CtrlTxStatus(d1)

\* USBD_CtrlOutData: remember the buffer and arm one packet.
CtrlOutData(d, len) ==
  [d EXCEPT !.outBuf = [buf |-> TRUE, pos |-> 0, bufLen |-> len,
                        packNum |-> PackCount(len)],
            !.outArmed = TRUE, !.ctrlState = "OUT_DATA"]

\* USBD_CtrlInProcess, on transfer complete of EP0 IN.
CtrlInProcess(d) ==
  IF d.ctrlState # "IN_DATA" THEN d
  ELSE IF d.inBuf.packNum # 0
    THEN [d EXCEPT !.inEp = [armed |-> TRUE, xlen |-> MinOf(d.inBuf.bufLen, MPS)],
                   !.txfeEn = TRUE]
  ELSE IF d.inBuf.zeroPackFill
    THEN [d EXCEPT !.inEp = [armed |-> TRUE, xlen |-> 0],
                   !.inBuf.zeroPackFill = FALSE]
  ELSE CtrlRxStatus(d)

\* USBD_CtrlOutProcess, on transfer complete of EP0 OUT.
CtrlOutProcess(d) ==
  IF d.ctrlState # "OUT_DATA" THEN d
  ELSE IF d.outBuf.packNum # 0 THEN [d EXCEPT !.outArmed = TRUE]
  ELSE CtrlTxStatus(d)

\* The value USB_FIFO_WriteFifoPacket reads through pBuf: descriptors and
\* cmdBuf are told apart by id and offset alone; &curConfiguration and
\* &curAlternateSetting, and the static s_hidIdleState, s_hidProtocol and
\* s_mscMaxLen of the class drivers, are read as they are now; a pointer into the
\* stack frame of a function that has returned reads whatever is there.
BufValue(d, junk) ==
  CASE d.inBuf.buf = "CONFIG" -> d.curConfiguration
    [] d.inBuf.buf = "ALT"    -> d.curAlternateSetting
    [] d.inBuf.buf = "IDLE"     -> d.hidIdleState
    [] d.inBuf.buf = "PROTOCOL" -> d.hidProtocol
    [] d.inBuf.buf = "MAXLUN"   -> d.mscMaxLen
    [] d.inBuf.buf = "STACK"  -> junk
    [] OTHER                  -> 0

\* USBD_PushDataToTxFIFO(0): nothing without data; otherwise write the
\* next packet when the FIFO has room (its depth is one packet, so room
\* means empty) and mask the FIFO-empty interrupt.
PushDataToTxFIFO(d, junk) ==
  LET len == MinOf(d.inBuf.bufLen, MPS)
  IN IF d.inBuf.bufLen = 0 \/ d.inBuf.id = 0 \/ d.fifo # <<>> THEN d
     ELSE [d EXCEPT !.fifo = <<[id |-> d.inBuf.id, off |-> d.inBuf.pos, len |-> len,
                                val |-> BufValue(d, junk)]>>,
                    !.inBuf.pos = @ + len, !.inBuf.bufLen = @ - len,
                    !.inBuf.packNum = (@ - 1) % 256, !.txfeEn = FALSE]

-----------------------------------------------------------------------------
(* usbd_stdReq.c and the CDC class request handler.  The user callbacks   *)
(* of pStdReqCallback and stdReqExceptionHandler are NULL.                *)

\* Mutation: GET_DESCRIPTOR answers the whole descriptor whatever wLength.
GetDescriptorIgnoreWLength(d) == CtrlInData(d, "DESC", d.reqData.size)

\* USBD_StandardGetDescriptor: min(wLength, size) bytes of the device or
\* configuration descriptor.
GetDescriptor(d) == CtrlInData(d, "DESC", MinOf(d.reqData.wLength, d.reqData.size))

\* USBD_StandardGetConfiguration: for the device recipient, the current
\* configuration when CONFIGURED, 0 (stored first) in ADDRESS, else STALL.
GetConfiguration(d) ==
  CASE d.reqData.recip # "DEVICE"   -> SetStall(d)
    [] d.devState = "CONFIGURED"    -> CtrlInData(d, "CONFIG", 1)
    [] d.devState = "ADDRESS"       ->
         CtrlInData([d EXCEPT !.curConfiguration = 0], "CONFIG", 1)
    [] OTHER                        -> SetStall(d)

\* USBD_StandardGetInterface: the alternate setting for an interface
\* recipient of a CONFIGURED device; otherwise it returns ERROR without a
\* STALL and EP0 stays silent.
GetInterface(d) ==
  IF d.reqData.recip = "INTERFACE" /\ d.devState = "CONFIGURED"
    THEN CtrlInData(d, "ALT", 1)
    ELSE d

\* USBD_StandardGetStatus: two bytes built in the local array status[],
\* whose address is handed to USBD_CtrlInData; STALL for another recipient.
GetStatus(d) ==
  IF d.reqData.recip \in DOMAIN RecipNum THEN CtrlInData(d, "STACK", 2) ELSE SetStall(d)

\* USBD_StandardSetAddress: for an address below 127 and the device
\* recipient, the status packet, then STALL when CONFIGURED, else ADDRESS
\* (DEFAULT for address 0).
SetAddress(d) ==
  LET r == d.reqData
  IN IF r.value < 127 /\ r.recip = "DEVICE"
       THEN IF d.devState = "CONFIGURED" THEN SetStall(CtrlTxStatus(d))
            ELSE CtrlTxStatus([d EXCEPT !.devState = IF r.value # 0 THEN "ADDRESS"
                                                                    ELSE "DEFAULT"])
       ELSE SetStall(d)

\* Mutation: configuration 0 leaves the device CONFIGURED.
SetConfigurationKeepsState(d) ==
  LET r == d.reqData
  IN IF r.value <= ConfigNum /\ r.recip = "DEVICE"
       THEN CtrlTxStatus([d EXCEPT !.curConfiguration = r.value,
                                   !.devState = IF r.value = 0 THEN @ ELSE "CONFIGURED"])
       ELSE SetStall(d)

\* USBD_StandardSetConfiguration: a valid value is stored and selects
\* ADDRESS (0) or CONFIGURED, then the status packet.
SetConfiguration(d) ==
  LET r == d.reqData
  IN IF r.value <= ConfigNum /\ r.recip = "DEVICE"
       THEN CtrlTxStatus([d EXCEPT !.curConfiguration = r.value,
                                   !.devState = IF r.value = 0 THEN "ADDRESS"
                                                               ELSE "CONFIGURED"])
       ELSE SetStall(d)

\* USBD_StandardSetFeature compares the recipient with the descriptor
\* types USBD_DESC_DEVICE and USBD_DESC_ENDPOINT; the halt of an endpoint
\* other than EP0 is not modelled.
SetFeature(d) ==
  LET r == d.reqData
  IN CASE r.value = "REMOTE_WAKEUP" /\ RecipNum[r.recip] = USBD_DESC_DEVICE
            -> CtrlTxStatus([d EXCEPT !.remoteWakeup = TRUE])
       [] r.value = "ENDPOINT_HALT" /\ RecipNum[r.recip] = USBD_DESC_ENDPOINT
            -> CtrlTxStatus(d)
       [] OTHER -> SetStall(d)

\* USBD_StandardClearFeature compares the recipient with the recipients.
ClearFeature(d) ==
  LET r == d.reqData
  IN CASE r.value = "REMOTE_WAKEUP" /\ r.recip = "DEVICE"
            -> CtrlTxStatus([d EXCEPT !.remoteWakeup = FALSE])
       [] r.value = "ENDPOINT_HALT" /\ r.recip = "ENDPOINT"
            -> CtrlTxStatus(d)
       [] OTHER -> SetStall(d)

\* USBD_StandardSetInterface: for an interface recipient store the
\* alternate setting and send the status packet; otherwise EP0 stays silent.
SetInterface(d) ==
  IF d.reqData.recip = "INTERFACE"
    THEN CtrlTxStatus([d EXCEPT !.curAlternateSetting = d.reqData.value])
    ELSE d

\* USBD_StandardReqeust: dispatch on bRequest; an unknown one (and
\* SET_DESCRIPTOR without a callback) stalls EP0.
StandardReqeust(d) ==
  CASE d.reqData.kind = "GET_CONFIGURATION" -> GetConfiguration(d)
    [] d.reqData.kind = "GET_DESC"          -> GetDescriptor(d)
    [] d.reqData.kind = "GET_INTERFACE"     -> GetInterface(d)
    [] d.reqData.kind = "GET_STATUS"        -> GetStatus(d)
    [] d.reqData.kind = "SET_ADDRESS"       -> SetAddress(d)
    [] d.reqData.kind = "SET_CONFIGURATION" -> SetConfiguration(d)
    [] d.reqData.kind = "SET_FEATURE"       -> SetFeature(d)
    [] d.reqData.kind = "SET_INTERFACE"     -> SetInterface(d)
    [] d.reqData.kind = "CLEAR_FEATURE"     -> ClearFeature(d)
    [] OTHER                                -> SetStall(d)

\* USBD_ClassHandler of the CDC class: a request with data moves wLength
\* bytes through cmdBuf in its direction, whatever the size of cmdBuf;
\* one without data sends the status packet.
ClassHandler(d) ==
  LET r == d.reqData
  IN IF r.wLength = 0 THEN CtrlTxStatus(d)
     ELSE IF r.dir = "IN" THEN CtrlInData(d, "CMD", r.wLength)
     ELSE CtrlOutData(d, r.wLength)

\* USBD_ClassHandler of the HID class (usbd_class_hid.c): SET_IDLE keeps
\* the duration (wValue[1]), SET_PROTOCOL the protocol (wValue[0]); the
\* GET requests answer one byte from those statics; anything else stalls.
HidClassHandler(d) ==
  LET r == d.reqData
  IN CASE r.kind = "SET_IDLE"     -> CtrlTxStatus([d EXCEPT !.hidIdleState = r.value \div 256])
       [] r.kind = "GET_IDLE"     -> CtrlInData(d, "IDLE", 1)
       [] r.kind = "SET_PROTOCOL" -> CtrlTxStatus([d EXCEPT !.hidProtocol = r.value % 256])
       [] r.kind = "GET_PROTOCOL" -> CtrlInData(d, "PROTOCOL", 1)
       [] OTHER                   -> SetStall(d)

\* USBD_MSC_ClassHandler: GET_MAX_LUN and BOT_RESET only in the form the
\* Bulk-Only Transport gives them, else STALL.  BOT_RESET answers with
\* USBD_CtrlInData(NULL, 0), the status packet; USBD_MSC_BOT_Reset, which
\* it then calls, is not in the repository.
MscClassHandler(d) ==
  LET r == d.reqData
  IN CASE r.kind = "GET_MAX_LUN" /\ r.value = 0 /\ r.wLength = 1 /\ r.dir = "IN"
            -> CtrlInData([d EXCEPT !.mscMaxLen = StorageMaxLun - 1], "MAXLUN", 1)
       [] r.kind = "BOT_RESET" /\ r.value = 0 /\ r.wLength = 0 /\ r.dir = "OUT"
            -> CtrlInData(d, "NONE", 0)
       [] OTHER -> SetStall(d)

\* g_usbDev.classReqHandler, the handler USBD_Init installed.
ClassReqHandler(d) ==
  CASE d.cls = "CDC" -> ClassHandler(d)
    [] d.cls = "HID" -> HidClassHandler(d)
    [] d.cls = "MSC" -> MscClassHandler(d)

\* USBD_SetupProcess: dispatch on the request type.
SetupProcess(d) ==
  IF d.reqData.kind \in ClassKinds THEN ClassReqHandler(d) ELSE StandardReqeust(d)

-----------------------------------------------------------------------------
(* usbd_interrupt.c                                                       *)

\* USBD_OutEndpointIsrHandler for EP0: transfer complete first, then
\* SETUP done.
OutEndpointIsr(d) ==
  LET d1 == IF d.outCmp THEN CtrlOutProcess([d EXCEPT !.outCmp = FALSE]) ELSE d
  IN IF d1.setupPend THEN SetupProcess([d1 EXCEPT !.setupPend = FALSE]) ELSE d1

\* USBD_InEndpointIsrHandler for EP0: transfer complete masks the
\* FIFO-empty interrupt and runs USBD_CtrlInProcess; then the raw TXFE
\* status (read without its mask) pushes data.
InEndpointIsr(d, junk) ==
  LET d1 == IF d.inCmp
              THEN CtrlInProcess([d EXCEPT !.inCmp = FALSE, !.txfeEn = FALSE])
              ELSE d
  IN IF d1.fifo = <<>> THEN PushDataToTxFIFO(d1, junk) ELSE d1

\* USBD_RxFifoNoEmptyIsrHandler pops one entry: SETUP data go to reqData
\* and raise SETUP done; OUT data are copied to pBuf, advancing it, when
\* there are bytes and a buffer, and complete the one-packet transfer.
RxFifoNoEmpty(d, e) ==
  IF e.st = "SETUP"
    THEN [d EXCEPT !.reqData = e.req, !.setupPend = TRUE]
  ELSE IF e.n # 0 /\ d.outBuf.buf
    THEN [d EXCEPT !.outBuf.pos = @ + e.n, !.outBuf.bufLen = @ - e.n,
                   !.outBuf.packNum = (@ - 1) % 256, !.outCmp = TRUE]
  ELSE [d EXCEPT !.outCmp = TRUE]

\* USBD_ResetIsrHandler: flush the EP0 transmit FIFO, clear the endpoint
\* interrupt flags, address 0, re-open EP0 (its buffers and ctrlState are
\* left as they are), curFeature from bmAttributes, state DEFAULT.
ResetIsr(d) ==
  [d EXCEPT !.fifo = <<>>, !.inCmp = FALSE, !.outCmp = FALSE, !.setupPend = FALSE,
            !.remoteWakeup = "REMOTE_WAKEUP" \in BmAttributes,
            !.devState = "DEFAULT", !.rstPend = FALSE]

\* USBD_ResumeIsrHandler: the device is CONFIGURED, whatever it was.
ResumeIsr(d) == [d EXCEPT !.devState = "CONFIGURED", !.rwkPend = FALSE]

\* USBD_SuspendIsrHandler.
SuspendIsr(d) == [d EXCEPT !.devState = "SUSPENDED", !.susPend = FALSE]

\* The bus part of USBD_OTG_IsrHandler: reset, then resume, then suspend.
BusIsr(d) ==
  LET d1 == IF d.rstPend THEN ResetIsr(d) ELSE d
      d2 == IF d1.rwkPend THEN ResumeIsr(d1) ELSE d1
  IN IF d2.susPend THEN SuspendIsr(d2) ELSE d2

InIntPending(d) == d.inCmp \/ (d.txfeEn /\ d.fifo = <<>>)

\* Some interrupt of USBD_OTG_IsrHandler is pending.
IsrPending ==
  \/ dev.outCmp \/ dev.setupPend \/ InIntPending(dev) \/ rxq # <<>>
  \/ dev.rstPend \/ dev.rwkPend \/ dev.susPend

\* One invocation of USBD_OTG_IsrHandler.  junk is what a dead stack
\* frame holds when the TX FIFO is filled from it.
OTG_IsrHandler ==
  \E junk \in 0..3 :
    LET d1 == IF dev.outCmp \/ dev.setupPend THEN OutEndpointIsr(dev) ELSE dev
        d2 == IF InIntPending(d1) THEN InEndpointIsr(d1, junk) ELSE d1
        d3 == IF rxq # <<>> THEN RxFifoNoEmpty(d2, Head(rxq)) ELSE d2
    IN /\ IsrPending
       /\ dev' = BusIsr(d3)
       /\ rxq' = IF rxq # <<>> THEN Tail(rxq) ELSE rxq
       /\ UNCHANGED hostVars

-----------------------------------------------------------------------------
(* The host, following chapters 8 and 9 of USB 2.0: a SETUP may be sent  *)
(* at any time and aborts the transfer in progress; IN and OUT tokens are *)
(* retried while the device NAKs them; hview is the state chapter 9 says  *)
(* the device is in after the requests that completed.                    *)

FirstPhase(r) ==
  IF r.wLength = 0 THEN "STATUS_IN"
  ELSE IF r.dir = "IN" THEN "IN_DATA" ELSE "OUT_DATA"

\* The requests a host sends in the state it expects: nothing to a
\* suspended device; descriptors, SET_ADDRESS and unknown requests at any
\* time; the other device requests once addressed; interface and class
\* requests (of the class the descriptors name) once configured, and HID's GET_IDLE and GET_PROTOCOL only
\* after the matching SET since the last reset (HID 1.11 leaves their
\* values after a reset to the device, and the host does not assume them).
Allowed(r) ==
  /\ ~hview.susp
  /\ r.kind \in ClassKinds => r \in ClassRequests[dev.cls]
  /\ CASE r.kind \in {"GET_DESC", "SET_ADDRESS", "UNSUPPORTED"} -> TRUE
       [] r.kind \in {"GET_INTERFACE", "SET_INTERFACE"} -> hview.st = "CONFIGURED"
       [] r.kind \in {"GET_IDLE", "GET_PROTOCOL"} ->
            hview.st = "CONFIGURED" /\ hview[IF r.kind = "GET_IDLE" THEN "idle" ELSE "proto"] >= 0
       [] r.kind \in ClassKinds -> hview.st = "CONFIGURED"
       [] OTHER -> hview.st \in {"ADDRESS", "CONFIGURED"}

\* The value of the one-byte or two-byte reply to r (alternate settings
\* other than 0 are not sent).
ExpectedVal(r) ==
  CASE r.kind = "GET_CONFIGURATION" -> IF hview.st = "CONFIGURED" THEN hview.conf ELSE 0
    [] r.kind = "GET_STATUS" ->
         (IF hview.rw THEN 2 ELSE 0) + (IF "SELF_POWERED" \in BmAttributes THEN 1 ELSE 0)
    [] r.kind = "GET_IDLE"     -> hview.idle
    [] r.kind = "GET_PROTOCOL" -> hview.proto
    [] r.kind = "GET_MAX_LUN"  -> StorageMaxLun - 1
    [] OTHER -> 0

\* The effect of r on the device once its status stage has completed.
Applied(r, v) ==
  CASE r.kind = "SET_ADDRESS" ->
         [v EXCEPT !.st = IF r.value = 0 THEN "DEFAULT" ELSE "ADDRESS"]
    [] r.kind = "SET_CONFIGURATION" ->
         [v EXCEPT !.st = IF r.value = 0 THEN "ADDRESS" ELSE "CONFIGURED", !.conf = r.value]
    [] r.kind = "SET_FEATURE"   -> [v EXCEPT !.rw = TRUE]
    [] r.kind = "CLEAR_FEATURE" -> [v EXCEPT !.rw = FALSE]
    [] r.kind = "SET_IDLE"      -> [v EXCEPT !.idle = r.value \div 256]
    [] r.kind = "SET_PROTOCOL"  -> [v EXCEPT !.proto = r.value % 256]
    [] OTHER -> v

\* The host sends a SETUP packet.  It aborts a running transfer (a request
\* cancelled or timed out) only when the device has no interrupt pending:
\* host timeouts are milliseconds, the interrupt handler microseconds.
\* The core stores the packet in the receive FIFO, clears a STALL on EP0
\* and sets NAK on both directions of EP0, so that nothing armed before
\* is sent or received until the software arms the endpoint again (which
\* clears NAK).  The transmit FIFO is not flushed.  Reset and resume
\* signalling last 10 and 20 ms, so the device has taken their interrupt
\* before the host's next SETUP.
HostSetup(r) ==
  /\ reqs < MaxReqs
  /\ Allowed(r)
  /\ ~dev.rstPend /\ ~dev.rwkPend
  /\ hphase = "IDLE" \/ (aborts < MaxAborts /\ ~IsrPending)
  /\ aborts' = IF hphase = "IDLE" THEN aborts ELSE aborts + 1
  /\ reqs' = reqs + 1
  /\ hreq' = [kind |-> r.kind, dir |-> r.dir, recip |-> r.recip, value |-> r.value,
              wLength |-> r.wLength, size |-> r.size, id |-> reqs + 1,
              val |-> ExpectedVal(r)]
  /\ hphase' = FirstPhase(r)
  /\ hcount' = 0
  /\ rcvd' = <<>>
  /\ rxq' = Append(rxq, [st |-> "SETUP", req |-> hreq', n |-> 0])
  /\ dev' = [dev EXCEPT !.stalled = FALSE, !.inEp.armed = FALSE, !.outArmed = FALSE]
  /\ UNCHANGED <<hview, bus>>

\* An IN token: STALL ends the transfer; an armed endpoint sends a
\* zero-length packet or the packet in its FIFO and raises transfer
\* complete; otherwise the device NAKs.  In the data stage the host stops
\* after a short packet or wLength bytes; in the status stage it expects
\* the zero-length packet, which completes the request.
HostIn ==
  /\ hphase \in {"IN_DATA", "STATUS_IN"}
  /\ \/ /\ dev.stalled
        /\ hphase' = "IDLE"
        /\ UNCHANGED <<dev, rcvd, hcount, hview>>
     \/ /\ ~dev.stalled
        /\ dev.inEp.armed
        /\ dev.inEp.xlen = 0 \/ dev.fifo # <<>>
        /\ LET p == IF dev.inEp.xlen = 0 THEN ZLP ELSE Head(dev.fifo)
           IN /\ dev' = [dev EXCEPT !.inEp.armed = FALSE, !.inCmp = TRUE,
                                    !.fifo = IF p = ZLP THEN @ ELSE Tail(@)]
              /\ IF hphase = "IN_DATA"
                   THEN /\ rcvd' = Append(rcvd, p)
                        /\ hcount' = hcount + p.len
                        /\ hphase' = IF p.len < MPS \/ hcount + p.len >= hreq.wLength
                                       THEN "STATUS_OUT" ELSE "IN_DATA"
                        /\ UNCHANGED hview
                   ELSE /\ rcvd' = IF p = ZLP THEN rcvd ELSE Append(rcvd, p)
                        /\ hphase' = "IDLE"
                        /\ hview' = IF p = ZLP THEN Applied(hreq, hview) ELSE hview
                        /\ UNCHANGED hcount
  /\ UNCHANGED <<rxq, hreq, reqs, aborts, bus>>

\* An OUT data or status packet: STALL ends the transfer; an armed
\* endpoint takes the packet into the receive FIFO; otherwise NAK.
HostOut ==
  /\ hphase \in {"OUT_DATA", "STATUS_OUT"}
  /\ \/ /\ dev.stalled
        /\ hphase' = "IDLE"
        /\ UNCHANGED <<dev, rxq, hcount, hview>>
     \/ /\ ~dev.stalled
        /\ dev.outArmed
        /\ LET n == IF hphase = "OUT_DATA" THEN MinOf(MPS, hreq.wLength - hcount) ELSE 0
           IN /\ dev' = [dev EXCEPT !.outArmed = FALSE]
              /\ rxq' = Append(rxq, [st |-> "OUT", req |-> NoReq, n |-> n])
              /\ hcount' = hcount + n
              /\ hphase' = IF hphase = "STATUS_OUT" THEN "IDLE"
                           ELSE IF hcount + n = hreq.wLength THEN "STATUS_IN"
                           ELSE "OUT_DATA"
              /\ hview' = IF hphase = "STATUS_OUT" THEN Applied(hreq, hview) ELSE hview
  /\ UNCHANGED <<hreq, rcvd, reqs, aborts, bus>>

\* The host resets the bus between transfers, as it does to enumerate a
\* device or to recover one; chapter 9 puts the device in DEFAULT.
HostReset ==
  /\ bus < MaxBusEvents
  /\ hphase = "IDLE" /\ ~IsrPending
  /\ bus' = bus + 1
  /\ hview' = [st |-> "DEFAULT", conf |-> 0, susp |-> FALSE, rw |-> FALSE, idle |-> -1,
               proto |-> -1]
  /\ dev' = [dev EXCEPT !.rstPend = TRUE]
  /\ UNCHANGED <<rxq, hphase, hreq, hcount, rcvd, reqs, aborts>>

\* The host stops sending SOFs between transfers and the device detects
\* suspend; chapter 9 keeps its state for the resume.
HostSuspend ==
  /\ bus < MaxBusEvents
  /\ hphase = "IDLE" /\ ~IsrPending /\ ~hview.susp
  /\ hview.st \in SuspendStates
  /\ bus' = bus + 1
  /\ hview' = [hview EXCEPT !.susp = TRUE]
  /\ dev' = [dev EXCEPT !.susPend = TRUE]
  /\ UNCHANGED <<rxq, hphase, hreq, hcount, rcvd, reqs, aborts>>

\* The host drives resume signalling; the device returns to the state it
\* was in before the suspend.
HostResume ==
  /\ hview.susp /\ ~IsrPending
  /\ hview' = [hview EXCEPT !.susp = FALSE]
  /\ dev' = [dev EXCEPT !.rwkPend = TRUE]
  /\ UNCHANGED <<rxq, hphase, hreq, hcount, rcvd, reqs, aborts, bus>>

-----------------------------------------------------------------------------
\* After USBD_Init with one of the class drivers: g_usbDev and the class
\* drivers' statics are zero-initialised (ctrlState is
\* USBD_CTRL_STATE_IN_DATA and devState USBD_DEVICE_STATE_DEFAULT, the
\* first values of their enums), nothing is armed, and the reset the host
\* drives on attach is pending.
Init ==
  /\ \E c \in DevClasses :
       dev = [cls |-> c, hidIdleState |-> 0, hidProtocol |-> 0, mscMaxLen |-> 0,
              ctrlState |-> "IN_DATA",
              inBuf |-> [id |-> 0, buf |-> "NONE", pos |-> 0, bufLen |-> 0,
                         packNum |-> 0, zeroPackFill |-> FALSE],
              outBuf |-> [buf |-> FALSE, pos |-> 0, bufLen |-> 0, packNum |-> 0],
              reqData |-> NoReq,
              inEp |-> [armed |-> FALSE, xlen |-> 0],
              fifo |-> <<>>, txfeEn |-> FALSE, inCmp |-> FALSE,
              outArmed |-> FALSE, outCmp |-> FALSE, setupPend |-> FALSE,
              stalled |-> FALSE, devState |-> "DEFAULT", curConfiguration |-> 0,
              curAlternateSetting |-> 0, remoteWakeup |-> FALSE,
              rstPend |-> TRUE, rwkPend |-> FALSE, susPend |-> FALSE]
  /\ rxq = <<>>
  /\ hphase = "IDLE"
  /\ hreq = NoReq
  /\ hcount = 0
  /\ rcvd = <<>>
  /\ hview = [st |-> "DEFAULT", conf |-> 0, susp |-> FALSE, rw |-> FALSE, idle |-> -1,
              proto |-> -1]
  /\ reqs = 0
  /\ aborts = 0
  /\ bus = 0

Next ==
  \/ OTG_IsrHandler
  \/ \E r \in Requests : HostSetup(r)
  \/ HostIn
  \/ HostOut
  \/ HostReset \/ HostSuspend \/ HostResume

\* Pending interrupts are taken and the host keeps issuing tokens;
\* whether it sends another SETUP, or resets, suspends or resumes the
\* bus, is its choice.
Fairness == WF_vars(OTG_IsrHandler) /\ WF_vars(HostIn) /\ WF_vars(HostOut)

Spec == Init /\ [][Next]_vars /\ Fairness

-----------------------------------------------------------------------------
(* Properties.                                                            *)

\* Bytes the device answers to an IN request.
ReplyLen(r) ==
  CASE r.dir = "OUT"    -> 0
    [] r.kind = "CLASS" -> r.wLength
    [] OTHER            -> MinOf(r.wLength, r.size)

\* The i-th packet of a correct data stage for r: consecutive slices of
\* r's own buffer carrying the value chapter 9 gives the reply, then a
\* zero-length packet when the reply is a multiple of the packet size
\* (the host only asks for it when it is shorter than wLength).
ExpectedPacket(r, i) ==
  LET off == (i - 1) * MPS
  IN IF off = ReplyLen(r) THEN ZLP
     ELSE [id |-> r.id, off |-> off, len |-> MinOf(MPS, ReplyLen(r) - off), val |-> r.val]

\* Everything the host receives in a transfer is the device's reply to
\* that transfer's request, in order, with the zero-length packet
\* USBD_CtrlInData and USBD_CtrlInProcess decide on: no packet left over
\* from an earlier request, none missing, none in the status stage, and
\* GET_CONFIGURATION and GET_STATUS report what the earlier requests set.
DataIntegrity ==
  \A i \in 1..Len(rcvd) :
     /\ (i - 1) * MPS <= ReplyLen(hreq)
     /\ rcvd[i] = ExpectedPacket(hreq, i)

\* Every control transfer the host starts ends: the device arms each
\* data, zero-length and status packet the host waits for.
TransferCompletes == (hphase # "IDLE") ~> (hphase = "IDLE")

\* Between transfers, once the device has handled every interrupt, the
\* devState and curConfiguration that usbd_stdReq.c and the reset,
\* suspend and resume handlers keep are those chapter 9 gives the device
\* after the requests that completed and the bus events so far.
DeviceStateAgrees ==
  (hphase = "IDLE" /\ ~IsrPending) =>
     /\ dev.devState = IF hview.susp THEN "SUSPENDED" ELSE hview.st
     /\ hview.st = "CONFIGURED" => dev.curConfiguration = hview.conf

\* The CDC class handler never writes past the end of cmdBuf.
NoCmdBufOverrun == dev.outBuf.pos <= CmdBufLen
====
