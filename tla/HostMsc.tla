------------------------------- MODULE HostMsc --------------------------------
(***************************************************************************)
(* A host session with a mass-storage device: the host core of HostCore   *)
(* with the MSC class driver of Core_Host/Class/src/usbh_class_msc.c      *)
(* installed as the host's class handlers.  The SCSI command layer of     *)
(* MSC_SCSI and USBH_MSC_BOT is not in the repository: a command's result *)
(* is chosen by the environment.                                          *)
(***************************************************************************)
EXTENDS HostCore

CONSTANTS
  DevLun,          \* the max LUN values an attached device may report
  LunStalls,       \* whether the device stalls GET_MAX_LUN (one-LUN devices may)
  MaxScsiFails,    \* bound on SCSI commands that fail
  MaxPhaseErrors   \* bound on SCSI phase errors

ASSUME DevLun \subseteq 0..15 /\ LunStalls \subseteq BOOLEAN

\* usbh_class_msc.h
USBH_MSC_ERROR_RETRY_CNT == 10
USBH_MSC_SATLL_RETRY_CNT == 3
\* Endpoint addresses of the device's bulk pair.
BulkOutEp == 1
BulkInEp == 129

VARIABLES
  dev,          \* the attached device: [lun, lunStall]
  bulkOut, bulkIn,  \* g_BOTInfo.outChNum / inChNum
  msc,          \* g_MSCInfo.curMSCState
  classReq,     \* g_MSCInfo.curClassReqState
  preClassReq,  \* g_MSCInfo.preClassReqState
  stallCnt,     \* g_MSCInfo.stallCnt
  errorCnt,     \* g_MSCInfo.errorCnt
  maxLun,       \* g_MSCInfo.storageInfo.maxLun
  scsiFails, phaseErrors   \* environment budgets used

mscState == <<msc, classReq, preClassReq, stallCnt, errorCnt, maxLun>>
mscVars == <<dev, bulkOut, bulkIn, mscState, scsiFails, phaseErrors>>
vars == <<coreVars, mscVars>>

MscStates == {"RESET_BOT", "TEST_UNIT_READY", "READ_CAPACITY10", "MODE_SENSE6",
              "REQUEST_SENSE", "APP_STATE", "UNRECOVERED_STATE"}
ReqStates == {"GET_MAX_LUN", "BOT_RESET", "CTRL_ERROR"}

MscTypeOK ==
  /\ CoreTypeOK({BulkOutEp, BulkInEp})
  /\ dev \in [lun : DevLun, lunStall : LunStalls]
  /\ {bulkOut, bulkIn} \subseteq ChannelNums
  /\ msc \in MscStates /\ classReq \in ReqStates /\ preClassReq \in ReqStates
  /\ stallCnt \in 0..USBH_MSC_SATLL_RETRY_CNT
  /\ errorCnt \in 0..(USBH_MSC_ERROR_RETRY_CNT - 1)
  /\ maxLun \in {0} \cup DevLun
  /\ scsiFails \in 0..MaxScsiFails /\ phaseErrors \in 0..MaxPhaseErrors

-----------------------------------------------------------------------------
(* USBH_MSC_ClassDeInitHandler is the g_usbHost.classDeInitHandler that    *)
(* USBH_DeInit ends with; the core steps do nothing else of the class.     *)

\* USBH_MSC_ClassDeInitHandler.
ClassDeInit ==
  /\ msc' = "RESET_BOT"
  /\ classReq' = "GET_MAX_LUN" /\ preClassReq' = "GET_MAX_LUN"
  /\ errorCnt' = 0 /\ stallCnt' = 0 /\ maxLun' = 0

MscDetach == DetachCore /\ ClassDeInit /\ UNCHANGED <<dev, bulkOut, bulkIn, scsiFails, phaseErrors>>
MscErrorH == ErrorHCore /\ ClassDeInit /\ UNCHANGED <<dev, bulkOut, bulkIn, scsiFails, phaseErrors>>
MscCoreStep == (IdleH \/ AttachedH \/ EnumH) /\ UNCHANGED mscVars

\* USBH_UserInputHandler calling USBH_MSC_ClassInitHandler: the bulk pair
\* is allocated and opened, then the class state machine starts.
ClassInit ==
  LET o == AllocChannel(pipes, BulkOutEp)
      i == AllocChannel(o.pipes, BulkInEp)
  IN
  /\ Polled("USER_INPUT")
  /\ pipes' = i.pipes /\ bulkOut' = o.ch /\ bulkIn' = i.ch
  /\ maxLun' = 0 /\ stallCnt' = 0
  /\ hostState' = "CLASS" /\ msc' = "RESET_BOT"
  /\ UNCHANGED <<dev, connected, unplugs, errorState, xferState, ctrlOut, ctrlIn,
                 classReq, preClassReq, errorCnt, ctrlFaults, scsiFails, phaseErrors>>

-----------------------------------------------------------------------------
(* USBH_ClassReqHandler calling USBH_MSC_ClassReqHandler.  A handler that   *)
(* sets errorState is followed in the same call by ErrorManage, which puts *)
(* the host in ERROR.                                                      *)

\* The answers a class request may end with.
CtrlOutcomes ==
  IF classReq = "GET_MAX_LUN" /\ dev.lunStall THEN {"STALL"} ELSE CtrlAnswers

CountFault(o) ==
  ctrlFaults' = IF o # "COMPLETE" /\ "COMPLETE" \in CtrlOutcomes
                THEN ctrlFaults + 1 ELSE ctrlFaults

\* The USBH_XFER_START branch of MSC_GetMaxLunHandler, MSC_BotResetHandler
\* and MSC_CtrlErrorStateHandler: build the request, xferState WAITING.
ClassReqStart ==
  /\ Polled("CLASS_REQ") /\ xferState = "START"
  /\ xferState' = "WAITING"
  /\ UNCHANGED <<dev, connected, unplugs, hostState, errorState, pipes, ctrlOut,
                 ctrlIn, bulkOut, bulkIn, mscState, ctrlFaults, scsiFails, phaseErrors>>

\* Mutant: the stall counter is tested but never incremented.
StallRetryUncounted(r) ==
  /\ stallCnt' = stallCnt
  /\ preClassReq' = r /\ classReq' = "CTRL_ERROR"
  /\ UNCHANGED <<hostState, msc>>

\* A STALL of request r: clear the halt and retry while
\* stallCnt++ < USBH_MSC_SATLL_RETRY_CNT, else go on to TEST_UNIT_READY.
StallRetry(r) ==
  IF stallCnt < USBH_MSC_SATLL_RETRY_CNT
  THEN /\ stallCnt' = stallCnt + 1
       /\ preClassReq' = r /\ classReq' = "CTRL_ERROR"
       /\ UNCHANGED <<hostState, msc>>
  ELSE /\ stallCnt' = 0
       /\ hostState' = "CLASS" /\ msc' = "TEST_UNIT_READY"
       /\ UNCHANGED <<classReq, preClassReq>>

\* The USBH_XFER_WAITING branch of MSC_GetMaxLunHandler.  The STALL case
\* falls through into the ERROR case.
GetMaxLunDone ==
  /\ Polled("CLASS_REQ") /\ classReq = "GET_MAX_LUN" /\ xferState = "WAITING"
  /\ \E o \in CtrlOutcomes :
       /\ CountFault(o)
       /\ xferState' = "START"
       /\ CASE o = "COMPLETE" ->
               /\ stallCnt' = 0 /\ maxLun' = dev.lun
               /\ IF dev.lun = 0
                  THEN hostState' = "CLASS" /\ msc' = "TEST_UNIT_READY"
                       /\ UNCHANGED errorState
                  ELSE errorState' = "NOT_SUPPORT" /\ ErrorManage
                       /\ UNCHANGED msc
               /\ UNCHANGED <<classReq, preClassReq>>
            [] o = "STALL" -> StallRetry("GET_MAX_LUN") /\ maxLun' = 0
                              /\ UNCHANGED errorState
            [] o = "ERROR" -> UNCHANGED <<hostState, errorState, mscState>>
  /\ UNCHANGED <<dev, connected, unplugs, pipes, ctrlOut, ctrlIn, bulkOut, bulkIn,
                 errorCnt, scsiFails, phaseErrors>>

\* The USBH_XFER_WAITING branch of MSC_BotResetHandler.
BotResetDone ==
  /\ Polled("CLASS_REQ") /\ classReq = "BOT_RESET" /\ xferState = "WAITING"
  /\ \E o \in CtrlOutcomes :
       /\ CountFault(o)
       /\ CASE o = "COMPLETE" -> stallCnt' = 0 /\ xferState' = "OK"
                                 /\ UNCHANGED <<hostState, msc, classReq, preClassReq>>
            [] o = "STALL" -> StallRetry("BOT_RESET") /\ xferState' = "START"
            [] o = "ERROR" -> xferState' = "START"
                              /\ UNCHANGED <<hostState, msc, classReq, preClassReq, stallCnt>>
  /\ UNCHANGED <<dev, connected, unplugs, errorState, pipes, ctrlOut, ctrlIn,
                 bulkOut, bulkIn, errorCnt, maxLun, scsiFails, phaseErrors>>

\* The USBH_XFER_OK branch of MSC_BotResetHandler.
BotResetOK ==
  /\ Polled("CLASS_REQ") /\ classReq = "BOT_RESET" /\ xferState = "OK"
  /\ xferState' = "START" /\ classReq' = "GET_MAX_LUN"
  /\ UNCHANGED <<dev, connected, unplugs, hostState, errorState, pipes, ctrlOut,
                 ctrlIn, bulkOut, bulkIn, msc, preClassReq, stallCnt, errorCnt,
                 maxLun, ctrlFaults, scsiFails, phaseErrors>>

\* The USBH_XFER_WAITING branch of MSC_CtrlErrorStateHandler (the
\* CLEAR_FEATURE(ENDPOINT_HALT) request).
CtrlErrorDone ==
  /\ Polled("CLASS_REQ") /\ classReq = "CTRL_ERROR" /\ xferState = "WAITING"
  /\ \E o \in CtrlOutcomes :
       /\ CountFault(o)
       /\ xferState' = IF o = "COMPLETE" THEN "OK" ELSE "START"
  /\ UNCHANGED <<dev, connected, unplugs, hostState, errorState, pipes, ctrlOut,
                 ctrlIn, bulkOut, bulkIn, mscState, scsiFails, phaseErrors>>

\* The USBH_XFER_OK branch of MSC_CtrlErrorStateHandler: back to the
\* request that stalled.
CtrlErrorOK ==
  /\ Polled("CLASS_REQ") /\ classReq = "CTRL_ERROR" /\ xferState = "OK"
  /\ xferState' = "START" /\ maxLun' = 0 /\ classReq' = preClassReq
  /\ UNCHANGED <<dev, connected, unplugs, hostState, errorState, pipes, ctrlOut,
                 ctrlIn, bulkOut, bulkIn, msc, preClassReq, stallCnt, errorCnt,
                 ctrlFaults, scsiFails, phaseErrors>>

-----------------------------------------------------------------------------
(* USBH_ClassHandler calling USBH_MSC_CoreHandler (MSC_Handler[msc]).       *)

\* MSC_ResetBotHandler (USBH_MSC_BOT_Init is not in the repository).
ResetBotH ==
  /\ Polled("CLASS") /\ msc = "RESET_BOT"
  /\ hostState' = "CLASS_REQ" /\ classReq' = "BOT_RESET"
  /\ UNCHANGED <<dev, connected, unplugs, errorState, xferState, pipes, ctrlOut,
                 ctrlIn, bulkOut, bulkIn, msc, preClassReq, stallCnt, errorCnt,
                 maxLun, ctrlFaults, scsiFails, phaseErrors>>

ScsiStates == {"TEST_UNIT_READY", "READ_CAPACITY10", "MODE_SENSE6", "REQUEST_SENSE"}
\* The state each command handler moves to on USBH_BOT_OK.
NextOnOk == [TEST_UNIT_READY |-> "READ_CAPACITY10", READ_CAPACITY10 |-> "MODE_SENSE6",
             MODE_SENSE6 |-> "APP_STATE", REQUEST_SENSE |-> "TEST_UNIT_READY"]

\* USBH_BOT_OK: the three commands clear errorCnt; MSC_RequestSenseHandler
\* does not.
ScsiOk ==
  /\ Polled("CLASS") /\ msc \in ScsiStates
  /\ msc' = NextOnOk[msc]
  /\ errorCnt' = IF msc = "REQUEST_SENSE" THEN errorCnt ELSE 0
  /\ UNCHANGED <<dev, connected, unplugs, hostState, errorState, xferState, pipes,
                 ctrlOut, ctrlIn, bulkOut, bulkIn, classReq, preClassReq, stallCnt,
                 maxLun, ctrlFaults, scsiFails, phaseErrors>>

\* Mutant: the retry limit compared with <=.
ErrorHandlerLe ==
  IF errorCnt + 1 <= USBH_MSC_ERROR_RETRY_CNT
  THEN errorCnt' = errorCnt + 1 /\ msc' = "REQUEST_SENSE"
  ELSE errorCnt' = 0 /\ msc' = "UNRECOVERED_STATE"

\* MSC_ErrorHandler.
ErrorHandler ==
  IF errorCnt + 1 < USBH_MSC_ERROR_RETRY_CNT
  THEN errorCnt' = errorCnt + 1 /\ msc' = "REQUEST_SENSE"
  ELSE errorCnt' = 0 /\ msc' = "UNRECOVERED_STATE"

\* USBH_BOT_FAIL.
ScsiFail ==
  /\ Polled("CLASS") /\ msc \in ScsiStates /\ scsiFails < MaxScsiFails
  /\ scsiFails' = scsiFails + 1
  /\ ErrorHandler
  /\ UNCHANGED <<dev, connected, unplugs, hostState, errorState, xferState, pipes,
                 ctrlOut, ctrlIn, bulkOut, bulkIn, classReq, preClassReq, stallCnt,
                 maxLun, ctrlFaults, phaseErrors>>

\* USBH_BOT_PHASE_ERROR.
ScsiPhaseError ==
  /\ Polled("CLASS") /\ msc \in ScsiStates /\ phaseErrors < MaxPhaseErrors
  /\ phaseErrors' = phaseErrors + 1
  /\ msc' = "UNRECOVERED_STATE"
  /\ UNCHANGED <<dev, connected, unplugs, hostState, errorState, xferState, pipes,
                 ctrlOut, ctrlIn, bulkOut, bulkIn, classReq, preClassReq, stallCnt,
                 errorCnt, maxLun, ctrlFaults, scsiFails>>

\* MSC_UnrecoveredStateHandler, then ErrorManage.
UnrecoveredH ==
  /\ Polled("CLASS") /\ msc = "UNRECOVERED_STATE"
  /\ errorState' = "UNRECOVERED" /\ ErrorManage
  /\ UNCHANGED <<dev, connected, unplugs, xferState, pipes, ctrlOut, ctrlIn,
                 bulkOut, bulkIn, mscState, ctrlFaults, scsiFails, phaseErrors>>

-----------------------------------------------------------------------------
(* The device is unplugged and plugged in again.                           *)

MscUnplug == Unplug /\ UNCHANGED mscVars
MscPlug == Plug /\ UNCHANGED mscVars

-----------------------------------------------------------------------------
\* g_usbHost and g_MSCInfo are zero-initialised after USBH_Init.
MscInit ==
  /\ CoreInit
  /\ dev \in [lun : DevLun, lunStall : LunStalls]
  /\ bulkOut = 0 /\ bulkIn = 0
  /\ msc = "RESET_BOT" /\ classReq = "GET_MAX_LUN" /\ preClassReq = "GET_MAX_LUN"
  /\ stallCnt = 0 /\ errorCnt = 0 /\ maxLun = 0
  /\ scsiFails = 0 /\ phaseErrors = 0

\* One call of USBH_PollingProcess.
HostStep ==
  \/ MscDetach \/ MscCoreStep \/ ClassInit \/ MscErrorH
  \/ ClassReqStart \/ GetMaxLunDone \/ BotResetDone \/ BotResetOK
  \/ CtrlErrorDone \/ CtrlErrorOK
  \/ ResetBotH \/ ScsiOk \/ ScsiFail \/ ScsiPhaseError \/ UnrecoveredH

MscNext == HostStep \/ MscUnplug \/ MscPlug

\* The main loop calls USBH_PollingProcess without end.
MscSpec == MscInit /\ [][MscNext]_vars /\ WF_vars(HostStep)

-----------------------------------------------------------------------------
(* Properties.                                                             *)

\* Every channel the session works with is a channel of the pool, allocated
\* and allocated to that endpoint (so no two of them share one), however
\* many sessions came before: the allocation in USBH_DevAttachedHandler and
\* USBH_MSC_ClassInitHandler against the frees in USBH_DeInit and
\* USBH_DevDetachedHandler.
SessionPipesOwned ==
  PipesOwned(SessionPipesOf({<<bulkOut, BulkOutEp>>, <<bulkIn, BulkInEp>>}))

\* Once the device stays plugged in, a single-LUN device ends up ready for
\* the application, through any finite number of stalls, errors, failed
\* commands and phase errors.
MscReady ==
  <>[]connected => <>[](hostState = "CLASS" /\ msc = "APP_STATE")
=============================================================================
