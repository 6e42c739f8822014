------------------------------- MODULE HostClass ------------------------------
(***************************************************************************)
(* The host with the class driver the application installs: USBH_Init     *)
(* copies the class handlers of its USBH_InitParam_T into g_usbHost, so  *)
(* one build runs the host core with the MSC driver (HostMsc), the CDC   *)
(* driver (HostCdc) or the HID driver (HostHid).  drv is that choice; the *)
(* other drivers' state is never touched.                                 *)
(***************************************************************************)
EXTENDS HostCore

CONSTANTS
  Drivers,                                        \* class drivers a build may install
  DevLun, LunStalls, MaxScsiFails, MaxPhaseErrors, \* HostMsc's
  MPS, MsgLens, MaxMsgs, RxSizes, MaxTxFaults, MaxRxFaults, RxIsrPreempts, DevStalls, \* HostCdc's
  MaxReports, MaxIntFaults, IntIsrPreempts, LatePolls, MouseStalls, MouseReport,
  MouseSeats                                      \* HostHid's

ASSUME Drivers \subseteq {"MSC", "CDC", "HID"}

VARIABLES
  drv,   \* which driver's handlers g_usbHost holds
  dev, bulkOut, bulkIn, msc, classReq, preClassReq, stallCnt, errorCnt, maxLun,
  scsiFails, phaseErrors,
  cdcReq, txState, rxState, flagSend, flagGet, txCh, rxCh, txOff, txLen, txPkt,
  rxLen, rxCount, rxIssue, txBusy, rxBusy, msgs, msgLen, devTog, devRx, devCoded,
  txFaults, rxFaults,
  hidReq, hidState, hidCh, flagParse, expired, intBusy, intIssue, intPid, dat, parsed,
  mouseNext, mouseTog, mouseHalted, intFaults, mouseSeat, printMouse

Msc == INSTANCE HostMsc
Cdc == INSTANCE HostCdc
Hid == INSTANCE HostHid

mscVars == <<dev, bulkOut, bulkIn, msc, classReq, preClassReq, stallCnt, errorCnt,
             maxLun, scsiFails, phaseErrors>>
cdcVars == <<cdcReq, txState, rxState, flagSend, flagGet, txCh, rxCh, txOff, txLen,
             txPkt, rxLen, rxCount, rxIssue, txBusy, rxBusy, msgs, msgLen, devTog,
             devRx, devCoded, txFaults, rxFaults>>
hidVars == <<hidReq, hidState, hidCh, flagParse, expired, intBusy, intIssue, intPid,
             dat, parsed, mouseNext, mouseTog, mouseHalted, intFaults, mouseSeat,
             printMouse>>
vars == <<drv, coreVars, mscVars, cdcVars, hidVars>>

\* USBH_Init with the application's choice of class handlers.  A CDC or
\* HID build never looks at the mass-storage device, so one stands for all.
Init ==
  /\ drv \in Drivers /\ Msc!MscInit /\ Cdc!CdcInit /\ Hid!HidInit
  /\ drv # "MSC" => dev = CHOOSE d \in [lun : DevLun, lunStall : LunStalls] : TRUE

MscStep(A) == drv = "MSC" /\ A /\ UNCHANGED <<drv, cdcVars, hidVars>>
CdcStep(A) == drv = "CDC" /\ A /\ UNCHANGED <<drv, mscVars, hidVars>>
HidStep(A) == drv = "HID" /\ A /\ UNCHANGED <<drv, mscVars, cdcVars>>

Next == MscStep(Msc!MscNext) \/ CdcStep(Cdc!CdcNext) \/ HidStep(Hid!HidNext)

\* The fairness of HostMsc, HostCdc and HostHid, for the driver installed.
Spec ==
  /\ Init /\ [][Next]_vars
  /\ WF_vars(MscStep(Msc!HostStep))
  /\ WF_vars(CdcStep(Cdc!HostStep))
  /\ SF_vars(CdcStep(Cdc!ProcessSend)) /\ SF_vars(CdcStep(Cdc!ProcessGet))
  /\ SF_vars(CdcStep(Cdc!Demo)) /\ WF_vars(CdcStep(Cdc!BulkOutDone))
  /\ WF_vars(HidStep(Hid!HostStep)) /\ WF_vars(HidStep(Hid!Tick))
  /\ WF_vars(HidStep(Hid!IntInDone))

-----------------------------------------------------------------------------
(* Properties: those of the installed driver.                             *)

ClassTypeOK ==
  /\ drv \in Drivers
  /\ drv = "MSC" => Msc!MscTypeOK
  /\ drv = "CDC" => Cdc!CdcTypeOK
  /\ drv = "HID" => Hid!HidTypeOK

\* Every channel the session works with, control pair and the driver's
\* bulk pair or interrupt IN channel, is allocated to its endpoint,
\* however many sessions came before (the drivers' SessionPipesOwned).
ClassPipesOwned ==
  CASE drv = "MSC" -> Msc!SessionPipesOwned
    [] drv = "CDC" -> Cdc!SessionPipesOwned
    [] drv = "HID" -> Hid!SessionPipesOwned

\* A single-LUN mass-storage device that stays plugged in ends up ready
\* for the application (HostMsc's MscReady).
MscReady == drv = "MSC" => Msc!MscReady

\* The CDC send path implements the byte stream of CdcStream (HostCdc's
\* StreamRefined): bytes reach the device once and in order.
StreamRefined == Cdc!StreamRefined

\* Every message CDC_SendData accepts is sent in full or dropped at a
\* detach (HostCdc's TxCompletes).
TxCompletes == Cdc!TxCompletes

\* A CDC device that stays plugged in reaches the CLASS state: its class
\* requests end (HostCdc's CdcConfigured).
CdcConfigured == drv = "CDC" => Cdc!CdcConfigured

\* ParseMouseData sees each mouse report at most once and in order,
\* through lost handshakes, NAKs, STALLs and re-enumeration (HostHid's
\* ReportsOnceInOrder).
ReportsOnceInOrder == Hid!ReportsOnceInOrder

\* The line ParseMouseData prints shows the last report parsed, with the
\* cursor inside the bar (HostHid's MouseLineShowsReport).
MouseLineShowsReport == drv = "HID" => Hid!MouseLineShowsReport

\* Every mouse report acknowledged to the mouse is parsed, but for the one
\* HID_PollHandler may still parse (HostHid's ReportsNotLost).  No run
\* holds it: a STALL, a late main loop and the interrupt in
\* USBH_InterruptInData each break it.
ReportsNotLost == Hid!ReportsNotLost

\* A mouse that stays plugged in and never halts its interrupt endpoint
\* gets its last report parsed by the HID poll loop (HostHid's
\* ReportsDelivered).
ReportsDelivered == drv = "HID" => Hid!ReportsDelivered

\* The same for a mouse that may halt its endpoint: HID_PollHandler's
\* CLEAR_FEATURE names endpoint 0x01, so no run holds it.
ReportsDeliveredThroughHalt == drv = "HID" => Hid!ReportsDeliveredThroughHalt
=============================================================================
