------------------------------ MODULE BulkLink ------------------------------
(***************************************************************************)
(* The host's data path (HostChanData) joined to the device's (DeviceEpData)*)
(* on the bus: the host's bulk transfers go to the device's endpoint 1.    *)
(* A host OUT packet is a step of both: the host core takes it out of its *)
(* TxFIFO as the device core puts it in the RxFIFO of endpoint 1.  A host *)
(* IN packet is a step of both: the device core takes it out of the       *)
(* TxFIFO of endpoint 1 as the host core puts it in the host RxFIFO.  An  *)
(* IN token the device NAKs changes only the device (ITXEMP), and an OUT  *)
(* packet it NAKs changes nothing: the host core retries.  The host's     *)
(* other transfers go to endpoints outside this model and keep            *)
(* HostChanData's device.  Unplugging a bus-powered device powers it off. *)
(***************************************************************************)
EXTENDS HostChanData

CONSTANTS TX_FIFO_WORDS, AppTxLens, AppRxLens, ITxEmpUnmasked

VARIABLES inBuf, outBuf, inEp, outEp, txFifo, txfeMsk, inInt, outCmp, drxq, app,
          sentIn

D == INSTANCE DeviceEpData WITH EP_MPS <- MPS

devVars == <<inBuf, outBuf, inEp, outEp, txFifo, txfeMsk, inInt, outCmp, drxq,
             app, sentIn>>

linkVars == <<vars, devVars>>

\* The host transfer in flight is on the bulk pair.
OnBulk == busy /\ cur.type = "BULK"

\* A host class driver starts bulk transfers only after enumeration, whose
\* SET_CONFIGURATION is where the application opens endpoint 1.
LinkStart(x) == StartXfer(x) /\ (x.type = "BULK" => app.cfg) /\ UNCHANGED devVars

BusOut == OnBulk /\ DevAckOut /\ D!OutPacket(OutPacketLen)

BusIn(k) == OnBulk /\ DevSendIn(k) /\ D!InToken(k)

\* The host channel sends an IN token that the device NAKs.
BusInNak ==
  /\ OnBulk /\ port = "CONNECTED" /\ cur.dir = "IN" /\ hc.en /\ ~hc.fin /\ hc.pktCnt > 0
  /\ D!InTokenNak /\ UNCHANGED vars

OtherOut == ~OnBulk /\ DevAckOut /\ UNCHANGED devVars

OtherIn(k) == ~OnBulk /\ DevSendIn(k) /\ UNCHANGED devVars

LinkUnplug == Unplug /\ D!PowerLoss

\* The application opens endpoint 1 while the device is powered.
LinkConfigure == port = "CONNECTED" /\ D!AppConfigure /\ UNCHANGED vars

HostOnly == (OtgIsr \/ ChannelDone \/ DevDetachedHandler \/ Plug) /\ UNCHANGED devVars

DevIsrStep == D!DevIsr /\ UNCHANGED vars

AppRxStep == (\E len \in AppRxLens : D!AppRxData(len)) /\ UNCHANGED vars

AppTxStep == (\E len \in AppTxLens : D!AppTxData(len)) /\ UNCHANGED vars

LinkInit == Init /\ D!DevInit

LinkNext ==
  \/ \E x \in Xfers : LinkStart(x)
  \/ HostOnly
  \/ BusOut \/ OtherOut
  \/ \E k \in 0..MPS : BusIn(k) \/ OtherIn(k)
  \/ BusInNak
  \/ LinkUnplug
  \/ LinkConfigure \/ DevIsrStep \/ AppRxStep \/ AppTxStep

\* Both cores and both interrupt handlers run; the host main loop handles
\* a detach; the host channel keeps sending tokens while a transfer is in
\* flight; the application configures when the host has enumerated it,
\* and keeps an OUT buffer armed and IN data queued (an echo or a stream).
LinkFairness ==
  /\ WF_linkVars(OtgIsr /\ UNCHANGED devVars)
  /\ WF_linkVars(ChannelDone /\ UNCHANGED devVars)
  /\ WF_linkVars(DevDetachedHandler /\ UNCHANGED devVars)
  /\ WF_linkVars(BusOut \/ OtherOut)
  /\ WF_linkVars(\E k \in 0..MPS : BusIn(k) \/ OtherIn(k))
  /\ WF_linkVars(BusInNak)
  /\ WF_linkVars(LinkConfigure) /\ WF_linkVars(DevIsrStep)
  /\ WF_linkVars(AppRxStep) /\ WF_linkVars(AppTxStep)

LinkSpec == LinkInit /\ [][LinkNext]_linkVars /\ LinkFairness

\* The device endpoint's properties, in the composition.
DevRxWithinBuffer == D!DevRxWithinBuffer
DevInExact == D!DevInExact

=============================================================================
