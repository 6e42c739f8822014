---------------------------- MODULE DeviceEpData ----------------------------
(***************************************************************************)
(* The device side of the USB OTG library on a data endpoint: endpoint 1, *)
(* bulk IN and bulk OUT, as an application of Core_Device uses it:        *)
(*   - USBD_OpenOutEP / USBD_OpenInEP of usbd_init.c with                 *)
(*     USB_OTG_OutEpActive / USB_OTG_InEpActive of drv_usb_device.c;      *)
(*   - USBD_RxData, USBD_TxData and USBD_PushDataToTxFIFO of usbd_core.c  *)
(*     with USB_OTG_EnableOutEpTransfer / USB_OTG_EnableInEpTransfer;     *)
(*   - USBD_OTG_IsrHandler of usbd_interrupt.c as it runs for endpoint 1: *)
(*     the OUT endpoint handler, the IN endpoint handler, then one pop of *)
(*     the RxFIFO;                                                        *)
(*   - USB_DeviceInit's reset of the endpoints and FIFOs (usbd_init.c).   *)
(* The application's callbacks (outEpHandler, inEpHandler) and its calls *)
(* of the functions above are not in the library: the application is an *)
(* environment that opens the endpoint, keeps one OUT buffer armed and    *)
(* one IN buffer in flight.  The host side is an environment too: the     *)
(* bus steps InToken, InTokenNak and OutPacket are what the core does on  *)
(* a token, for a module composing this one with the host (BulkLink).     *)
(* Data are byte counts; a packet in the TxFIFO is [id, off, len]: which *)
(* TxData buffer, at which offset, how many bytes.                        *)
(***************************************************************************)
EXTENDS Naturals, Sequences, SequencesExt

CONSTANTS
  EP_MPS,          \* the maxPackSize the application opens endpoint 1 with
  TX_FIFO_WORDS,   \* the depth USB_DeviceInit gives TxFIFO 1, in words
  AppTxLens,       \* the lengths the application passes to USBD_TxData
  AppRxLens,       \* the lengths the application passes to USBD_RxData
  ITxEmpUnmasked   \* is USB_INT_EP_IN_ITXEMP in the application's
                   \* USB_INT_EP_IN_SOURCE (DIEPMASK)?

ASSUME EP_MPS \in Nat \ {0} /\ TX_FIFO_WORDS \in Nat \ {0}
ASSUME AppTxLens \subseteq Nat \ {0} /\ AppRxLens \subseteq Nat \ {0}
ASSUME ITxEmpUnmasked \in BOOLEAN

VARIABLES
  inBuf,    \* g_usbDev.inBuf[1]: maxPackSize, bufLen, packNum, and pBuf
            \* as buffer id and offset pos
  outBuf,   \* g_usbDev.outBuf[1]: maxPackSize, bufLen, packNum, xferCnt,
            \* pBuf as offset pos
  inEp,     \* EP_IN[1]: USBAEP (act), EPEN (en), DIEPTRS packet count and
            \* size, and its bit in DAEPIMASK.AINM (msk)
  outEp,    \* EP_OUT[1]: the same registers of the OUT endpoint
  txFifo,   \* TxFIFO 1: the packets written and not yet sent
  txfeMsk,  \* endpoint 1's bit of the TxFIFO-empty interrupt mask
  inInt,    \* the DIEPINT[1] flags set, of {"TSFCMP", "ITXEMP"}
  outCmp,   \* DOEPINT[1].TSFCMP
  drxq,     \* RxFIFO status entries of endpoint 1 not yet popped
  app,      \* the application: endpoint opened (cfg), an OUT buffer armed
            \* (rx), an IN buffer in flight (tx), and their lengths
  sentIn    \* history: the packets sent for the current USBD_TxData

devVars == <<inBuf, outBuf, inEp, outEp, txFifo, txfeMsk, inInt, outCmp, drxq,
             app, sentIn>>

MinOfDev(a, b) == IF a < b THEN a ELSE b

\* The words the packets in the TxFIFO take (USB_FIFO_WriteFifoPacket
\* pushes whole words).
FifoWords(q) == FoldLeft(LAMBDA w, p : w + (p.len + 3) \div 4, 0, q)

\* The raw DIEPINT[1].TXFE status ReadInEpIntStatus reads: the TxFIFO is
\* at least half empty (DCTRL's TXFELVL left at 0).
TxfeStatus(s) == 2 * FifoWords(s.txFifo) <= TX_FIFO_WORDS

\* The packet count the application's len gives: the uint8_t packNum.
PackNumOf(len, mps) == ((len + (mps - 1)) \div mps) % 256

-----------------------------------------------------------------------------
(* Device initialisation and the endpoint functions.                      *)

EpRegsAtReset == [act |-> FALSE, msk |-> FALSE, en |-> FALSE, pktCnt |-> 0, size |-> 0]

\* The loop of USB_DeviceInit over the endpoints: an enabled one is
\* disabled and NAKed, another has its control register cleared; then the
\* transfer size register and the flags are cleared.
DeviceInitEp(e) ==
  [IF e.en THEN [e EXCEPT !.en = FALSE] ELSE [e EXCEPT !.act = FALSE]
     EXCEPT !.pktCnt = 0, !.size = 0]

\* USB_DeviceInit as it bears on endpoint 1, applied to the registers after
\* power-on: both FIFOs flushed (FlushTxFIFO(0x10), FlushRxFIFO), the
\* endpoint loop, and DAEPIMASK's OUT half cleared.
DeviceInit(s) ==
  [s EXCEPT !.txFifo = <<>>, !.drxq = <<>>, !.inInt = {}, !.outCmp = FALSE,
            !.inEp = DeviceInitEp(@), !.outEp = [DeviceInitEp(@) EXCEPT !.msk = FALSE]]

\* g_usbDev is zero until the application opens the endpoint.
NoBuf == [mps |-> 0, bufLen |-> 0, packNum |-> 0, pos |-> 0, id |-> 0, xferCnt |-> 0]

\* The device after power-on and USBD_Init.
DevInitState ==
  DeviceInit([inBuf |-> NoBuf, outBuf |-> NoBuf, inEp |-> EpRegsAtReset,
              outEp |-> EpRegsAtReset, txFifo |-> <<>>, txfeMsk |-> FALSE,
              inInt |-> {}, outCmp |-> FALSE, drxq |-> <<>>,
              app |-> [cfg |-> FALSE, rx |-> FALSE, rxLen |-> 0, tx |-> FALSE, txLen |-> 0],
              sentIn |-> <<>>])

\* USB_OTG_OutEpActive / USB_OTG_InEpActive for an endpoint other than 0:
\* its DAEPIMASK bit, MAXPS, type (and TxFIFO number), USBAEP.
EpActive(e) == [e EXCEPT !.act = TRUE, !.msk = TRUE]

\* USB_OTG_EnableOutEpTransfer / USB_OTG_EnableInEpTransfer: the packet
\* count and transfer size, then NAK cleared and the endpoint enabled.
EnableEpTransfer(e, packNum, size) == [e EXCEPT !.pktCnt = packNum, !.size = size, !.en = TRUE]

\* USBD_OpenOutEP(1, BULK, mps) and USBD_OpenInEP(1, BULK, mps): the
\* buffer's maxPackSize, then the endpoint is activated.
OpenEP(buf, e) == [buf |-> [buf EXCEPT !.mps = EP_MPS], ep |-> EpActive(e)]

RxDataExtraPacket(len) ==
  LET pn == ((len + outBuf.mps) \div outBuf.mps) % 256
  IN /\ outBuf' = [outBuf EXCEPT !.bufLen = len, !.packNum = pn, !.pos = 0]
     /\ outEp' = EnableEpTransfer(outEp, pn, outBuf.mps * pn)

\* USBD_RxData(1, buf, len): the buffer and packNum, then
\* USB_OTG_EnableOutEpTransfer with packNum packets of maxPackSize bytes.
RxData(len) ==
  LET pn == PackNumOf(len, outBuf.mps)
  IN /\ outBuf' = [outBuf EXCEPT !.bufLen = len, !.packNum = pn, !.pos = 0]
     /\ outEp' = EnableEpTransfer(outEp, pn, outBuf.mps * pn)

\* USBD_TxData(1, buf, len): the buffer and packNum, then
\* USB_OTG_EnableInEpTransfer with the size len, and the endpoint's
\* TxFIFO-empty interrupt enabled.  A new buffer gets a new id.
TxData(len) ==
  LET pn == PackNumOf(len, inBuf.mps)
  IN /\ inBuf' = [inBuf EXCEPT !.bufLen = len, !.packNum = pn, !.pos = 0, !.id = 1 - @]
     /\ inEp' = EnableEpTransfer(inEp, pn, len)
     /\ txfeMsk' = TRUE

PushDataToTxFIFONoAdvance(s) ==
  LET len == MinOfDev(s.inBuf.bufLen, s.inBuf.mps)
  IN IF s.inBuf.bufLen # 0 /\ 4 * (TX_FIFO_WORDS - FifoWords(s.txFifo)) >= len
     THEN [s EXCEPT !.txFifo = Append(@, [id |-> s.inBuf.id, off |-> s.inBuf.pos, len |-> len]),
                    !.inBuf = [@ EXCEPT !.bufLen = @ - len, !.packNum = (@ + 255) % 256],
                    !.txfeMsk = FALSE]
     ELSE s

\* USBD_PushDataToTxFIFO(1): nothing when bufLen is 0; else one packet of
\* min(bufLen, maxPackSize) bytes if the FIFO has room for it, the buffer
\* advanced, and the TxFIFO-empty interrupt disabled.
PushDataToTxFIFO(s) ==
  LET len == MinOfDev(s.inBuf.bufLen, s.inBuf.mps)
  IN IF s.inBuf.bufLen # 0 /\ 4 * (TX_FIFO_WORDS - FifoWords(s.txFifo)) >= len
     THEN [s EXCEPT !.txFifo = Append(@, [id |-> s.inBuf.id, off |-> s.inBuf.pos, len |-> len]),
                    !.inBuf = [@ EXCEPT !.pos = @ + len, !.bufLen = @ - len,
                                        !.packNum = (@ + 255) % 256],
                    !.txfeMsk = FALSE]
     ELSE s

-----------------------------------------------------------------------------
(* usbd_interrupt.c for endpoint 1.                                       *)

\* USBD_OutEndpointIsrHandler: transfer complete is cleared and the
\* application's outEpHandler(1) takes the data (its buffer is free).
OutEndpointIsrHandler(s) ==
  IF s.outCmp THEN [s EXCEPT !.outCmp = FALSE, !.app.rx = FALSE] ELSE s

\* The IN endpoint's bit of DAEPINT: a flag unmasked in DIEPMASK, or the
\* TxFIFO-empty status with its interrupt enabled.
InEpIntPending(s) ==
  /\ s.inEp.msk
  /\ \/ "TSFCMP" \in s.inInt
     \/ ITxEmpUnmasked /\ "ITXEMP" \in s.inInt
     \/ s.txfeMsk /\ TxfeStatus(s)

\* USBD_InEndpointIsrHandler: transfer complete is cleared, the
\* TxFIFO-empty interrupt disabled and inEpHandler(1) called (the
\* application's IN buffer is free); then, if the raw TXFE status is set,
\* USBD_PushDataToTxFIFO; then ITXEMP is cleared.
InEndpointIsrHandler(s) ==
  LET s1 == IF "TSFCMP" \in s.inInt
              THEN [s EXCEPT !.inInt = @ \ {"TSFCMP"}, !.txfeMsk = FALSE, !.app.tx = FALSE]
              ELSE s
      s2 == IF TxfeStatus(s1) THEN PushDataToTxFIFO(s1) ELSE s1
  IN [s2 EXCEPT !.inInt = @ \ {"ITXEMP"}]

\* USBD_RxFifoNoEmptyIsrHandler: pop one status entry; OUT data of a
\* non-zero byteCount are read to pBuf, xferCnt = byteCount, pBuf and
\* bufLen advance and packNum is decremented.  The core raises the OUT
\* transfer-complete flag once the OUT_COMP entry is popped.  (bufLen is
\* uint32_t; nothing reads it again on this endpoint.)
RxFifoNoEmptyIsrHandler(s) ==
  LET e == Head(s.drxq)
  IN [s EXCEPT
        !.drxq = Tail(@),
        !.outBuf = IF e.sts = "DATA" /\ e.cnt # 0
                     THEN [@ EXCEPT !.xferCnt = e.cnt, !.pos = @ + e.cnt,
                                    !.bufLen = @ - e.cnt, !.packNum = (@ + 255) % 256]
                     ELSE @,
        !.outCmp = @ \/ e.sts = "COMP"]

\* USBD_OTG_IsrHandler: the OUT endpoint, the IN endpoint, then the
\* RxFIFO, each taken when its flag is set as the test is reached.
DevIsr ==
  LET s0 == [inBuf |-> inBuf, outBuf |-> outBuf, inEp |-> inEp, outEp |-> outEp,
             txFifo |-> txFifo, txfeMsk |-> txfeMsk, inInt |-> inInt,
             outCmp |-> outCmp, drxq |-> drxq, app |-> app]
      s1 == IF s0.outCmp /\ s0.outEp.msk THEN OutEndpointIsrHandler(s0) ELSE s0
      s2 == IF InEpIntPending(s1) THEN InEndpointIsrHandler(s1) ELSE s1
      s3 == IF s2.drxq # <<>> THEN RxFifoNoEmptyIsrHandler(s2) ELSE s2
  IN /\ (outCmp /\ outEp.msk) \/ InEpIntPending(s0) \/ drxq # <<>>
     /\ inBuf' = s3.inBuf /\ outBuf' = s3.outBuf /\ txFifo' = s3.txFifo
     /\ txfeMsk' = s3.txfeMsk /\ inInt' = s3.inInt /\ outCmp' = s3.outCmp
     /\ drxq' = s3.drxq /\ app' = s3.app
     /\ UNCHANGED <<inEp, outEp, sentIn>>

-----------------------------------------------------------------------------
(* The application.                                                       *)

\* When the host configures the device, the application opens both halves
\* of endpoint 1.
AppConfigure ==
  /\ ~app.cfg
  /\ LET o == OpenEP(outBuf, outEp)
         i == OpenEP(inBuf, inEp)
     IN /\ outBuf' = o.buf /\ outEp' = o.ep /\ inBuf' = i.buf /\ inEp' = i.ep
  /\ app' = [app EXCEPT !.cfg = TRUE]
  /\ UNCHANGED <<txFifo, txfeMsk, inInt, outCmp, drxq, sentIn>>

\* The application arms the OUT endpoint with a free buffer.
AppRxData(len) ==
  /\ app.cfg /\ ~app.rx
  /\ RxData(len)
  /\ app' = [app EXCEPT !.rx = TRUE, !.rxLen = len]
  /\ UNCHANGED <<inBuf, inEp, txFifo, txfeMsk, inInt, outCmp, drxq, sentIn>>

\* The application sends a buffer once the previous one is done.
AppTxData(len) ==
  /\ app.cfg /\ ~app.tx
  /\ TxData(len)
  /\ app' = [app EXCEPT !.tx = TRUE, !.txLen = len]
  /\ sentIn' = <<>>
  /\ UNCHANGED <<outBuf, outEp, txFifo, inInt, outCmp, drxq>>

-----------------------------------------------------------------------------
(* The core on the bus, for a host to join.                               *)

\* An IN token while endpoint 1 is enabled and its TxFIFO holds a packet:
\* the core sends it (k bytes), decrements the packet count and size, and
\* sets transfer complete with the last packet.
InToken(k) ==
  /\ inEp.en /\ inEp.pktCnt > 0 /\ txFifo # <<>> /\ Head(txFifo).len = k
  /\ txFifo' = Tail(txFifo)
  /\ sentIn' = Append(sentIn, Head(txFifo))
  /\ inEp' = [inEp EXCEPT !.pktCnt = @ - 1, !.size = @ - k, !.en = (inEp.pktCnt > 1)]
  /\ inInt' = IF inEp.pktCnt = 1 THEN inInt \cup {"TSFCMP"} ELSE inInt
  /\ UNCHANGED <<inBuf, outBuf, outEp, txfeMsk, outCmp, drxq, app>>

\* An IN token while endpoint 1 is enabled and its TxFIFO is empty: the
\* core NAKs it and sets ITXEMP.
InTokenNak ==
  /\ inEp.en /\ inEp.pktCnt > 0 /\ txFifo = <<>>
  /\ inInt' = inInt \cup {"ITXEMP"}
  /\ UNCHANGED <<inBuf, outBuf, inEp, outEp, txFifo, txfeMsk, outCmp, drxq, app, sentIn>>

\* An OUT packet of k bytes while endpoint 1 is enabled with packets left
\* (else the core NAKs it): a DATA entry, and an OUT_COMP entry when the
\* packet is short or the last one, which disables the endpoint.
OutPacket(k) ==
  /\ outEp.en /\ outEp.pktCnt > 0 /\ k <= outEp.size
  /\ LET last == k < outBuf.mps \/ outEp.pktCnt = 1
     IN /\ drxq' = Append(drxq, [sts |-> "DATA", cnt |-> k])
                   \o (IF last THEN <<[sts |-> "COMP", cnt |-> 0]>> ELSE <<>>)
        /\ outEp' = [outEp EXCEPT !.pktCnt = @ - 1, !.size = @ - k, !.en = ~last]
  /\ UNCHANGED <<inBuf, outBuf, inEp, txFifo, txfeMsk, inInt, outCmp, app, sentIn>>

\* Power is lost (a bus-powered device is unplugged): at the next plug-in
\* the device starts again from USBD_Init.
PowerLoss ==
  LET s == DevInitState
  IN /\ inBuf' = s.inBuf /\ outBuf' = s.outBuf /\ inEp' = s.inEp /\ outEp' = s.outEp
     /\ txFifo' = s.txFifo /\ txfeMsk' = s.txfeMsk /\ inInt' = s.inInt
     /\ outCmp' = s.outCmp /\ drxq' = s.drxq /\ app' = s.app /\ sentIn' = s.sentIn

-----------------------------------------------------------------------------
DevInit ==
  LET s == DevInitState
  IN /\ inBuf = s.inBuf /\ outBuf = s.outBuf /\ inEp = s.inEp /\ outEp = s.outEp
     /\ txFifo = s.txFifo /\ txfeMsk = s.txfeMsk /\ inInt = s.inInt
     /\ outCmp = s.outCmp /\ drxq = s.drxq /\ app = s.app /\ sentIn = s.sentIn

\* The device's own steps: its interrupt handler and the application.
DevStep ==
  \/ DevIsr
  \/ AppConfigure
  \/ \E len \in AppRxLens : AppRxData(len)
  \/ \E len \in AppTxLens : AppTxData(len)

\* Standing alone, any host: tokens and packets of any size.
DevNext ==
  \/ DevStep
  \/ \E k \in 0..EP_MPS : InToken(k) \/ OutPacket(k)
  \/ InTokenNak

DevSpec == DevInit /\ [][DevNext]_devVars

-----------------------------------------------------------------------------
(* Properties.                                                            *)

\* The RxFIFO handler never stores more bytes in the application's OUT
\* buffer than the len it gave USBD_RxData.  It holds only when len is a
\* multiple of maxPackSize: USBD_RxData rounds the transfer size up to
\* whole packets and the handler copies every byte the core accepts, so
\* no run checks it (BulkLink_xfer.cfg with AppRxLens = {4} breaks it).
DevRxWithinBuffer == outBuf.pos <= app.rxLen

\* The packets endpoint 1 sends for a USBD_TxData are the consecutive
\* maxPackSize pieces of that buffer, and when inEpHandler has been told
\* the transfer is complete they add up to its length: PushDataToTxFIFO,
\* the packet count of USBD_TxData and the TxFIFO-empty interrupt agree.
DevInExact ==
  /\ \A i \in 1..Len(sentIn) :
       sentIn[i] = [id |-> inBuf.id, off |-> (i - 1) * EP_MPS,
                    len |-> MinOfDev(EP_MPS, app.txLen - (i - 1) * EP_MPS)]
  /\ (app.cfg /\ ~app.tx /\ app.txLen > 0)
       => FoldLeft(LAMBDA n, p : n + p.len, 0, sentIn) = app.txLen

\* When outEpHandler is called, xferCnt is the number of bytes the
\* transfer stored.
RxCountMatches == outCmp => outBuf.xferCnt = outBuf.pos

=============================================================================
