-------------------------------- MODULE HostCdc -------------------------------
(***************************************************************************)
(* A host session with a CDC (virtual COM port) device: the host core of  *)
(* HostCore with the CDC class driver of Core_Host/Class/src/             *)
(* usbh_class_cdc.c installed as the host's class handlers, the bulk data *)
(* functions of usbh_dataXfer.c it calls, and the bulk channel ISR of     *)
(* usbh_interrupt.c that completes them.  The application calls           *)
(* CDC_SendData, USBH_CDCProcessSend, USBH_CDCProcessGet and CDC_DEMO     *)
(* from g_userCallback.applicationHandler, which USBH_CDC_CoreHandler     *)
(* calls in the CLASS state: each call is one step.  The device is the    *)
(* environment: it answers the bulk OUT packets with the USB data-toggle  *)
(* rule, and a transfer may be NAKed or fail on the wire.                 *)
(***************************************************************************)
EXTENDS HostCore, Sequences

CONSTANTS
  MPS,           \* wMaxPacketSize of the device's bulk endpoints
  MsgLens,       \* lengths the application passes to CDC_SendData
  MaxMsgs,       \* bound on CDC_SendData calls that are accepted
  RxSizes,       \* byte counts a bulk IN packet of the device may carry
  MaxTxFaults,   \* bound on NAKed or failed bulk OUT transfers
  MaxRxFaults,   \* bound on failed bulk IN transfers
  RxIsrPreempts, \* the channel ISR may run inside USBH_BulkInData
  DevStalls      \* class requests the device does not support: it
                 \* STALLs them every time (an ACM function whose
                 \* bmCapabilities D1 is 0 need not take them)

ASSUME MPS \in 1..64 /\ MsgLens \subseteq 1..1024 /\ RxSizes \subseteq 0..MPS
ASSUME RxIsrPreempts \in BOOLEAN
ASSUME DevStalls \subseteq {"SET_LINE_CODING", "GET_LINE_CODING", "SET_CONTROL_LINE_STATE"}

\* usbh_class_cdc.h
CDC_BUFFER_SIZE == 1024
\* The data interface's endpoints.  USBH_CDC_ClassInitHandler walks them
\* from the last, and the device lists bulk IN before bulk OUT.
CdcOutEp == 2
CdcInEp == 130

ReqStates == <<"SET_LINE_CODING", "GET_LINE_CODING", "SET_CONTROL_LINE_STATE",
               "CONFIGURED_OK">>
CdcStates == {"IDIE", "SEND_DATA", "SEND_WAIT", "GET_DATA", "GET_WAIT", "ERROR",
              "STALL", "COMPLETE"}

VARIABLES
  cdcReq,   \* s_classReqState
  txState,    \* CDC_Tx.cdcState
  rxState,    \* CDC_Rx.cdcState
  flagSend,   \* flagEnableSend
  flagGet,    \* flagEnableGet
  txCh, rxCh, \* CDC_Tx.chNum / CDC_Rx.chNum
  txOff,      \* CDC_Tx.buff, as an offset into the message being sent
  txLen,      \* CDC_Tx.dataLen
  txPkt,      \* the static len of USBH_CDCProcessSend
  rxLen,      \* CDC_Rx.dataLen
  rxCount,    \* g_usbHost.xferPipe[CDC_Rx.chNum].bufCount
  rxIssue,    \* USBH_BulkInData has enabled the channel and not yet stored
              \* urbStatus = IDLE
  txBusy, rxBusy,  \* the bulk OUT / IN channel is enabled in hardware
  msgs,       \* messages CDC_SendData accepted; the current one's number
  msgLen,     \* the current message's length
  devTog,     \* the device's expected DATA0/DATA1 on its bulk OUT endpoint
  devRx,      \* the bytes the device has received, in order
  devCoded,   \* SET_LINE_CODING completed since the device was last reset
  txFaults, rxFaults  \* environment budgets used

txVars == <<txState, flagSend, txCh, txOff, txLen, txPkt, txBusy, txFaults>>
rxVars == <<rxState, flagGet, rxCh, rxLen, rxCount, rxIssue, rxBusy, rxFaults>>
appVars == <<msgs, msgLen>>
cdcVars == <<cdcReq, txVars, rxVars, appVars, devTog, devRx, devCoded>>
vars == <<coreVars, cdcVars>>

\* Byte i of message m.
Msg == [i \in 1..msgLen |-> <<msgs, i>>]
Bytes == (1..MaxMsgs) \X (1..1024)

CdcTypeOK ==
  /\ CoreTypeOK({CdcOutEp, CdcInEp})
  /\ cdcReq \in {ReqStates[i] : i \in 1..4}
  /\ txState \in CdcStates /\ rxState \in CdcStates
  /\ flagSend \in {0, 1} /\ flagGet \in {0, 1}
  /\ {txCh, rxCh} \subseteq ChannelNums
  /\ txLen \in 0..1024 /\ txOff \in 0..1024 /\ txPkt \in 0..MPS
  /\ rxLen \in 0..CDC_BUFFER_SIZE /\ rxCount \in 0..MPS
  /\ rxIssue \in BOOLEAN /\ txBusy \in BOOLEAN /\ rxBusy \in BOOLEAN
  /\ msgs \in 0..MaxMsgs /\ msgLen \in {0} \cup MsgLens
  /\ devTog \in {0, 1} /\ devRx \in Seq(Bytes) /\ devCoded \in BOOLEAN
  /\ txFaults \in 0..MaxTxFaults /\ rxFaults \in 0..MaxRxFaults

\* Steps of the main loop: none runs while USBH_BulkInData is half done.
Main(A) == ~rxIssue /\ A

-----------------------------------------------------------------------------
(* Class init and deinit: the g_usbHost.classInitHandler and               *)
(* classDeInitHandler.                                                     *)

\* USBH_CDC_ClassDeInitHandler: the data paths only.
ClassDeInit ==
  /\ txState' = "IDIE" /\ txLen' = 0 /\ txOff' = 0
  /\ rxState' = "IDIE" /\ rxLen' = 0

\* USBH_DevDetachedHandler: USB_OTG_StopHost halts both bulk channels.
CdcDetach ==
  /\ Main(DetachCore) /\ ClassDeInit
  /\ txBusy' = FALSE /\ rxBusy' = FALSE
  /\ UNCHANGED <<cdcReq, flagSend, flagGet, txCh, rxCh, txPkt, rxCount, rxIssue,
                 msgs, msgLen, devTog, devRx, devCoded, txFaults, rxFaults>>

CdcCoreStep == Main(IdleH \/ AttachedH) /\ UNCHANGED cdcVars

\* Enumeration resets the device and sets its configuration, which sets
\* its bulk endpoints back to DATA0.
CdcEnumH ==
  /\ Main(EnumH)
  /\ devTog' = 0 /\ devCoded' = FALSE
  /\ UNCHANGED <<cdcReq, txVars, rxVars, appVars, devRx>>

\* CDC_EnableGet, called on a receive path that is IDIE.
EnableGet ==
  IF flagGet = 0 THEN flagGet' = 1 /\ rxState' = "GET_DATA"
  ELSE UNCHANGED flagGet /\ rxState' = "IDIE"

\* USBH_UserInputHandler calling USBH_CDC_ClassInitHandler: reset both
\* paths, allocate and open the bulk OUT then the bulk IN channel, go to
\* CLASS_REQ and enable receiving.
ClassInit ==
  LET o == AllocChannel(pipes, CdcOutEp)
      i == AllocChannel(o.pipes, CdcInEp)
  IN
  /\ Main(Polled("USER_INPUT"))
  /\ txState' = "IDIE" /\ txLen' = 0 /\ txOff' = 0 /\ rxLen' = 0
  /\ pipes' = i.pipes /\ txCh' = o.ch /\ rxCh' = i.ch
  /\ hostState' = "CLASS_REQ"
  /\ EnableGet
  /\ UNCHANGED <<connected, unplugs, errorState, xferState, ctrlOut, ctrlIn,
                 ctrlFaults, cdcReq, flagSend, txPkt, rxCount, rxIssue, txBusy,
                 rxBusy, msgs, msgLen, devTog, devRx, devCoded, txFaults, rxFaults>>

-----------------------------------------------------------------------------
(* USBH_ClassReqHandler calling USBH_CDC_ClassReqHandler, which runs       *)
(* CDC_REQ_Handler[s_classReqState] until CONFIGURED_OK.                   *)

\* The three request handlers of CDC_REQ_Handler[] run the same three
\* branches; they differ in the request the USBH_XFER_START branch builds
\* and the s_classReqState the USBH_XFER_OK branch sets.
\* CDC_REQ_SetLineCoding: class request 0x20, 7 bytes from setLineCode.
SetLineCodingHandler == [req |-> "SET_LINE_CODING", next |-> "GET_LINE_CODING"]
\* CDC_REQ_GetLineCoding: class request 0x21, 7 bytes into getLineCode.
GetLineCodingHandler == [req |-> "GET_LINE_CODING", next |-> "SET_CONTROL_LINE_STATE"]
SetControlLineStateHandlerLoop == [req |-> "SET_CONTROL_LINE_STATE", next |-> "SET_LINE_CODING"]

\* CDC_REQ_SetControlLineState: class request 0x22, wValue 0, no data.
SetControlLineStateHandler == [req |-> "SET_CONTROL_LINE_STATE", next |-> "CONFIGURED_OK"]

CdcReqHandler(r) ==
  CASE r = "SET_LINE_CODING"        -> SetLineCodingHandler
    [] r = "GET_LINE_CODING"        -> GetLineCodingHandler
    [] r = "SET_CONTROL_LINE_STATE" -> SetControlLineStateHandler

\* The request after each one, on USBH_XFER_OK.
ReqAfter == [r \in {ReqStates[i] : i \in 1..3} |-> CdcReqHandler(r).next]

\* How the device answers the request of handler r: one it does not
\* support is STALLed, which is no fault of the bus.
ReqAnswers(r) ==
  IF CdcReqHandler(r).req \in DevStalls THEN {"STALL"} ELSE CtrlAnswers

InReq == Main(Polled("CLASS_REQ")) /\ cdcReq # "CONFIGURED_OK"

\* The USBH_XFER_START branch of the three request handlers.
ReqStart ==
  /\ InReq /\ xferState = "START"
  /\ xferState' = "WAITING"
  /\ UNCHANGED <<connected, unplugs, hostState, errorState, pipes, ctrlOut, ctrlIn,
                 ctrlFaults, cdcVars>>

\* The USBH_XFER_WAITING branch: COMPLETE gives OK; STALL and ERROR start
\* the request again, with no bound.
ReqDone ==
  /\ InReq /\ xferState = "WAITING"
  /\ \E o \in ReqAnswers(cdcReq) :
       /\ xferState' = IF o = "COMPLETE" THEN "OK" ELSE "START"
       /\ ctrlFaults' = IF o = "COMPLETE" \/ CdcReqHandler(cdcReq).req \in DevStalls
                        THEN ctrlFaults ELSE ctrlFaults + 1
       /\ devCoded' = (devCoded \/ (o = "COMPLETE" /\ cdcReq = "SET_LINE_CODING"))
  /\ UNCHANGED <<connected, unplugs, hostState, errorState, pipes, ctrlOut, ctrlIn,
                 cdcReq, txVars, rxVars, appVars, devTog, devRx>>

\* The USBH_XFER_OK branch: on to the next request.
ReqOK ==
  /\ InReq /\ xferState = "OK"
  /\ xferState' = "START" /\ cdcReq' = ReqAfter[cdcReq]
  /\ UNCHANGED <<connected, unplugs, hostState, errorState, pipes, ctrlOut, ctrlIn,
                 ctrlFaults, txVars, rxVars, appVars, devTog, devRx, devCoded>>

\* USBH_CDC_ClassReqHandler at CONFIGURED_OK: back to SET_LINE_CODING for
\* the next session, and the host goes to CLASS.
ReqConfigured ==
  /\ Main(Polled("CLASS_REQ")) /\ cdcReq = "CONFIGURED_OK"
  /\ cdcReq' = "SET_LINE_CODING" /\ hostState' = "CLASS"
  /\ UNCHANGED <<connected, unplugs, errorState, xferState, pipes, ctrlOut, ctrlIn,
                 ctrlFaults, txVars, rxVars, appVars, devTog, devRx, devCoded>>

-----------------------------------------------------------------------------
(* The application's calls, from applicationHandler in the CLASS state.    *)

InClass == Main(Polled("CLASS"))

\* CDC_SendData(data, length) on an IDIE send path: the message is taken,
\* then CDC_EnableSend.  On any other state it returns 0 and does nothing.
SendData ==
  /\ InClass /\ txState = "IDIE" /\ msgs < MaxMsgs
  /\ \E L \in MsgLens :
       /\ msgs' = msgs + 1 /\ msgLen' = L
       /\ txOff' = 0 /\ txLen' = L
  /\ flagSend' = 1 /\ txState' = "SEND_DATA"
  /\ UNCHANGED <<coreVars, cdcReq, txCh, txPkt, txBusy, txFaults, rxVars,
                 devTog, devRx, devCoded>>

\* USBH_CDCProcessSend in SEND_DATA: USBH_BulkOutData of at most one packet
\* (urbStatus = IDLE is stored before the channel is enabled).
SendPacket ==
  /\ InClass /\ txState = "SEND_DATA"
  /\ txPkt' = IF txLen > MPS THEN MPS ELSE txLen
  /\ pipes' = [pipes EXCEPT ![txCh].urb = "IDLE"]
  /\ txBusy' = TRUE /\ txState' = "SEND_WAIT"
  /\ UNCHANGED <<connected, unplugs, hostState, errorState, xferState, ctrlOut,
                 ctrlIn, ctrlFaults, cdcReq, flagSend, txCh, txOff, txLen,
                 txFaults, rxVars, appVars, devTog, devRx, devCoded>>

\* Mutant: a NOREADY urbStatus is not handled and the path waits on it.
SendWaitNoNak ==
  LET u == pipes[txCh].urb IN
  /\ InClass /\ txState = "SEND_WAIT" /\ u \notin {"IDLE", "NOREADY"}
  /\ IF u = "OK"
     THEN /\ txOff' = txOff + txPkt /\ txLen' = txLen - txPkt
          /\ txState' = IF txLen - txPkt = 0 THEN "COMPLETE" ELSE "SEND_DATA"
     ELSE txState' = "SEND_DATA" /\ UNCHANGED <<txOff, txLen>>
  /\ UNCHANGED <<coreVars, cdcReq, flagSend, txCh, txPkt, txBusy, txFaults,
                 rxVars, appVars, devTog, devRx, devCoded>>

\* USBH_CDCProcessSend in SEND_WAIT.  OK moves past the packet; ERROR and
\* STALL go through the ERROR state to SEND_DATA, as NOREADY does, so the
\* same packet is sent again.  An urbStatus still IDLE changes nothing.
SendWait ==
  LET u == pipes[txCh].urb IN
  /\ InClass /\ txState = "SEND_WAIT" /\ u # "IDLE"
  /\ IF u = "OK"
     THEN /\ txOff' = txOff + txPkt /\ txLen' = txLen - txPkt
          /\ txState' = IF txLen - txPkt = 0 THEN "COMPLETE" ELSE "SEND_DATA"
     ELSE txState' = "SEND_DATA" /\ UNCHANGED <<txOff, txLen>>
  /\ UNCHANGED <<coreVars, cdcReq, flagSend, txCh, txPkt, txBusy, txFaults,
                 rxVars, appVars, devTog, devRx, devCoded>>

\* CDC_ReceiveData on CDC_Rx.dataLen = n: when pFillBuff has moved past
\* pEmptyBuff (by n bytes) it is put back and dataLen is cleared.
ReceiveData(n) == IF n > 0 THEN 0 ELSE n

\* USBH_CDCProcessGet with flagEnableGet set, from IDIE, COMPLETE or
\* GET_DATA: USBH_BulkInData of one packet enables the channel.
GetPacket ==
  /\ InClass /\ flagGet = 1 /\ rxState \in {"IDIE", "COMPLETE", "GET_DATA"}
  /\ rxLen < CDC_BUFFER_SIZE - MPS
  /\ rxCount' = 0 /\ rxBusy' = TRUE /\ rxIssue' = TRUE
  /\ rxState' = "GET_DATA"
  /\ UNCHANGED <<coreVars, cdcReq, txVars, flagGet, rxCh, rxLen, rxFaults,
                 appVars, devTog, devRx, devCoded>>

\* The rest of that call: USBH_BulkInData stores urbStatus = IDLE after the
\* enable, and the path goes to GET_WAIT.
GetIssued ==
  /\ rxIssue
  /\ pipes' = [pipes EXCEPT ![rxCh].urb = "IDLE"]
  /\ rxIssue' = FALSE /\ rxState' = "GET_WAIT"
  /\ UNCHANGED <<connected, unplugs, hostState, errorState, xferState, ctrlOut,
                 ctrlIn, ctrlFaults, cdcReq, txVars, flagGet, rxCh, rxLen, rxCount,
                 rxBusy, rxFaults, appVars, devTog, devRx, devCoded>>

\* USBH_CDCProcessGet in GET_WAIT.  OK takes bufCount bytes, calls
\* CDC_ReceiveData and completes; ERROR and STALL go through the ERROR
\* state to GET_DATA, as NOREADY does.  An urbStatus still IDLE changes
\* nothing.
GetWait ==
  LET u == pipes[rxCh].urb IN
  /\ InClass /\ flagGet = 1 /\ rxState = "GET_WAIT" /\ u # "IDLE"
  /\ IF u = "OK"
     THEN rxLen' = ReceiveData(rxLen + rxCount) /\ rxState' = "COMPLETE"
     ELSE rxState' = "GET_DATA" /\ UNCHANGED rxLen
  /\ UNCHANGED <<coreVars, cdcReq, txVars, flagGet, rxCh, rxCount, rxIssue,
                 rxBusy, rxFaults, appVars, devTog, devRx, devCoded>>

\* CDC_DEMO with the send path COMPLETE: USB_OTG_FlushTxFIFO and
\* CDC_DisableSend.  Its receive half only prints.
Demo ==
  /\ InClass /\ txState = "COMPLETE"
  /\ flagSend' = 0 /\ txState' = "IDIE"
  /\ UNCHANGED <<coreVars, cdcReq, txCh, txOff, txLen, txPkt, txBusy, txFaults,
                 rxVars, appVars, devTog, devRx, devCoded>>

-----------------------------------------------------------------------------
(* The bulk channels' interrupts and the device behind them.               *)

\* The bytes of the packet in flight.
Packet == SubSeq(Msg, txOff + 1, txOff + txPkt)

\* What the OUT channel's interrupts leave in urbStatus for each end of a
\* packet: ACK; NAK; a transaction error (TERR) after the device took the
\* data and its handshake was lost, or before it got the data.
TxOutcomes ==
  {"ACK"} \cup (IF txFaults < MaxTxFaults THEN {"NAK", "ACK_LOST", "DATA_LOST"} ELSE {})
UrbOf == [ACK |-> "OK", NAK |-> "NOREADY", ACK_LOST |-> "ERROR", DATA_LOST |-> "ERROR"]

\* Mutant: pidToggle flips at TSFCMPAN whatever the pipe state.
TogAfterAny(o, t) == 1 - t

\* The pidToggle after TSFCMPAN: flipped only for PIPE_OK on a bulk channel.
TogAfter(o, t) == IF o = "ACK" THEN 1 - t ELSE t

\* USBH_OUT_HostChannelIsrHandler for one packet of CDC_Tx.chNum, ending
\* with TSFCMPAN, and the device's side: a packet whose DATA0/DATA1 is
\* the one it expects is taken and the expected one flips; any other is a
\* retransmission it acknowledges and drops.
BulkOutDone ==
  /\ txBusy /\ connected
  /\ \E o \in TxOutcomes :
       LET took == o \in {"ACK", "ACK_LOST"} /\ pipes[txCh].tog = devTog IN
       /\ devRx' = IF took THEN devRx \o Packet ELSE devRx
       /\ devTog' = IF took THEN 1 - devTog ELSE devTog
       /\ pipes' = [pipes EXCEPT ![txCh].urb = UrbOf[o],
                                 ![txCh].tog = TogAfter(o, @)]
       /\ txFaults' = IF o = "ACK" THEN txFaults ELSE txFaults + 1
  /\ txBusy' = FALSE
  /\ UNCHANGED <<connected, unplugs, hostState, errorState, xferState, ctrlOut,
                 ctrlIn, ctrlFaults, cdcReq, txState, flagSend, txCh, txOff, txLen,
                 txPkt, rxVars, appVars, devCoded>>

\* USBH_IN_HostChannelIsrHandler for one packet of CDC_Rx.chNum: TSFCMPN
\* flips pidToggle and TSFCMPAN stores OK with bufCount bytes, or a
\* transaction error stores ERROR.  A NAK re-enables the channel and is no
\* step.  Inside USBH_BulkInData it runs only if the ISR may preempt there.
BulkInDone ==
  /\ rxBusy /\ connected /\ (rxIssue => RxIsrPreempts)
  /\ \/ \E n \in RxSizes :
          /\ rxCount' = n
          /\ pipes' = [pipes EXCEPT ![rxCh].urb = "OK", ![rxCh].tog = 1 - @]
          /\ UNCHANGED rxFaults
     \/ /\ rxFaults < MaxRxFaults /\ rxFaults' = rxFaults + 1
        /\ pipes' = [pipes EXCEPT ![rxCh].urb = "ERROR"]
        /\ UNCHANGED rxCount
  /\ rxBusy' = FALSE
  /\ UNCHANGED <<connected, unplugs, hostState, errorState, xferState, ctrlOut,
                 ctrlIn, ctrlFaults, cdcReq, txVars, rxState, flagGet, rxCh, rxLen,
                 rxIssue, appVars, devTog, devRx, devCoded>>

CdcUnplug == Unplug /\ UNCHANGED cdcVars
CdcPlug == Plug /\ UNCHANGED cdcVars

-----------------------------------------------------------------------------
\* g_usbHost after USBH_Init; the CDC globals as the C start-up leaves them.
CdcInit ==
  /\ CoreInit
  /\ cdcReq = "SET_LINE_CODING"
  /\ txState = "IDIE" /\ rxState = "IDIE" /\ flagSend = 0 /\ flagGet = 0
  /\ txCh = 0 /\ rxCh = 0 /\ txOff = 0 /\ txLen = 0 /\ txPkt = 0
  /\ rxLen = 0 /\ rxCount = 0 /\ rxIssue = FALSE /\ txBusy = FALSE /\ rxBusy = FALSE
  /\ msgs = 0 /\ msgLen = 0
  /\ devTog = 0 /\ devRx = <<>> /\ devCoded = FALSE
  /\ txFaults = 0 /\ rxFaults = 0

\* One call of USBH_PollingProcess outside the CLASS state.
HostStep ==
  \/ CdcDetach \/ CdcCoreStep \/ CdcEnumH \/ ClassInit
  \/ ReqStart \/ ReqDone \/ ReqOK \/ ReqConfigured

ProcessSend == SendPacket \/ SendWait
ProcessGet == GetPacket \/ GetIssued \/ GetWait
AppStep == SendData \/ ProcessSend \/ ProcessGet \/ Demo

CdcNext == HostStep \/ AppStep \/ BulkOutDone \/ BulkInDone \/ CdcUnplug \/ CdcPlug

\* The main loop polls without end, and the application calls the send,
\* receive and demo functions on every pass of its loop: a call that can
\* do something on infinitely many passes does it (strong fairness, as
\* a half-done USBH_BulkInData holds the loop for a moment).  A bulk OUT
\* transfer the host has enabled ends.  Whether the device sends data,
\* and whether the application has a message to send, is not assumed.
CdcSpec ==
  /\ CdcInit /\ [][CdcNext]_vars
  /\ WF_vars(HostStep) /\ SF_vars(ProcessSend) /\ SF_vars(ProcessGet)
  /\ SF_vars(Demo) /\ WF_vars(BulkOutDone)

-----------------------------------------------------------------------------
(* Properties.                                                             *)

\* The bytes still to reach the device: the rest of the message as
\* CDC_Tx.buff and dataLen describe it, less what the device already has.
NotReceived(b) == \A i \in DOMAIN devRx : devRx[i] # b
Pending == SelectSeq(SubSeq(Msg, txOff + 1, txOff + txLen), NotReceived)

Stream == INSTANCE CdcStream WITH
  open <- hostState \in {"CLASS_REQ", "CLASS"},
  queue <- Pending,
  recv <- devRx

\* The send path implements the byte stream of CdcStream: through NAKs,
\* failed packets and lost handshakes, USBH_CDCProcessSend and the
\* pidToggle handling of the OUT channel ISR get every byte handed to
\* CDC_SendData to the device once and in order, and bytes are lost only
\* when the device is detached.
StreamRefined == Stream!Spec

\* Every message CDC_SendData accepts is eventually sent in full by
\* USBH_CDCProcessSend (dataLen reaches 0), or dropped when the device is
\* detached: no NAK, error or lost handshake leaves the send path waiting.
TxCompletes == txLen > 0 ~> txLen = 0

\* A device that stays plugged in is brought to the CLASS state, where
\* the application may use it: enumeration, USBH_CDC_ClassInitHandler and
\* the three class requests end, through STALLs and errors, and it stays there.
CdcConfigured == <>[]connected => <>[](hostState = "CLASS")

\* Every channel the session works with, the bulk OUT and IN channels of
\* USBH_CDC_ClassInitHandler included, is allocated to its endpoint.
SessionPipesOwned ==
  PipesOwned(SessionPipesOf({<<txCh, CdcOutEp>>, <<rxCh, CdcInEp>>}))

\* In the CLASS state the device's line coding has been set since it was
\* last reset: USBH_CDC_ClassReqHandler has run SET_LINE_CODING in this
\* session.
LineCodingSet == hostState = "CLASS" => devCoded
=============================================================================
