------------------------------- MODULE HostCore -------------------------------
(***************************************************************************)
(* The part of a host session that every class driver shares: the host    *)
(* core state machine of Core_Host/Standard/src/usbh_core.c (one call of  *)
(* USBH_PollingProcess per step), the channel pool of usbh_channel.c and  *)
(* USBH_DeInit of usbh_init.c.  Enumeration is one step here (its detail  *)
(* is HostEnum's subject), and one call of USBH_ControlXferHandler that   *)
(* returns COMPLETE, STALL or ERROR is one step (HostCtrlXfer's subject). *)
(* The actions touch only the core's variables; a class module (HostMsc,  *)
(* HostCdc) conjoins each with what the class handlers do in that call.  *)
(***************************************************************************)
EXTENDS Integers

CONSTANTS
  USBH_CHANNEL_MAX_NUM,  \* usbh_channel.h: channels the allocator searches
  HOST_CHANNEL_NUM,      \* drv_usb_host.h: size of g_usbHost.xferPipe[]
  MaxCtrlFaults,   \* bound on STALL / ERROR answers to class requests
  MaxUnplugs       \* bound on unplug events

ASSUME USBH_CHANNEL_MAX_NUM \in 1..HOST_CHANNEL_NUM

\* Endpoint addresses of the control pipe.
CtrlOutEp == 0
CtrlInEp == 128

LastChannel == HOST_CHANNEL_NUM - 1
\* An entry of g_usbHost.xferPipe[] as USBH_CH_FreeChannel leaves it:
\* channelUsedFlag, epAddr, pidToggle and urbStatus.
FreePipe == [used |-> FALSE, ep |-> 0, tog |-> 0, urb |-> "IDLE"]

VARIABLES
  connected,    \* g_usbHost.connectedFlag (and portEnable)
  unplugs,      \* unplug events so far
  hostState,    \* g_usbHost.curHostState
  errorState,   \* g_usbHost.errorState
  xferState,    \* g_usbHost.control.xferState
  pipes,        \* g_usbHost.xferPipe[]
  ctrlOut, ctrlIn,  \* g_usbHost.control.outChannelNum / inChannelNum
  ctrlFaults    \* environment budget of faulty control answers used

coreVars == <<connected, unplugs, hostState, errorState, xferState, pipes,
              ctrlOut, ctrlIn, ctrlFaults>>

HostStates == {"IDLE", "DEVICE_ATTACHED", "ENUM", "USER_INPUT", "CLASS_REQ",
               "CLASS", "ERROR"}
UrbStates == {"IDLE", "OK", "NOREADY", "ERROR", "STALL"}
\* A channel number as stored: int8_t -1 ("no free channel") in a uint8_t.
ChannelNums == 0..(USBH_CHANNEL_MAX_NUM - 1) \cup {255}

\* The core's part of every class module's type invariant.
CoreTypeOK(Eps) ==
  /\ connected \in BOOLEAN /\ unplugs \in 0..MaxUnplugs
  /\ hostState \in HostStates
  /\ errorState \in {"NO", "NOT_SUPPORT", "UNRECOVERED"}
  /\ xferState \in {"START", "WAITING", "OK"}
  /\ pipes \in [0..LastChannel -> [used : BOOLEAN, ep : {0, CtrlOutEp, CtrlInEp} \cup Eps,
                                   tog : {0, 1}, urb : UrbStates]]
  /\ {ctrlOut, ctrlIn} \subseteq ChannelNums
  /\ ctrlFaults \in 0..MaxCtrlFaults

-----------------------------------------------------------------------------
(* usbh_channel.c                                                          *)

\* USBH_CH_ReadFreeChannelNum: the lowest free channel below
\* USBH_CHANNEL_MAX_NUM, or -1.
ReadFreeChannelNum(p) ==
  LET free == {i \in 0..(USBH_CHANNEL_MAX_NUM - 1) : ~p[i].used} IN
  IF free = {} THEN -1 ELSE CHOOSE i \in free : \A j \in free : i <= j

\* Mutant: the channel found is returned but not marked used.
AllocChannelUnmarked(p, epAddr) ==
  LET ch == ReadFreeChannelNum(p) IN [pipes |-> p, ch |-> ch % 256]

\* USBH_CH_AllocChannel(epAddr): the pool after the call and the channel
\* number as the caller stores it (a uint8_t).
AllocChannel(p, epAddr) ==
  LET ch == ReadFreeChannelNum(p) IN
  [pipes |-> IF ch >= 0 THEN [p EXCEPT ![ch].used = TRUE, ![ch].ep = epAddr] ELSE p,
   ch    |-> ch % 256]

\* USBH_CH_FreeChannel(chNum).
FreeChannel(p, ch) == [p EXCEPT ![ch] = FreePipe]

\* USBH_CH_FreeAllChannel.
FreeAllChannel(p) == [i \in DOMAIN p |-> FreePipe]

-----------------------------------------------------------------------------
(* usbh_core.c and usbh_init.c                                             *)

\* USBH_DeInit up to the class handler: back to IDLE, free the control pair.
DeInitCore(p) ==
  /\ hostState' = "IDLE"
  /\ xferState' = "START"
  /\ pipes' = FreeChannel(FreeChannel(p, ctrlIn), ctrlOut)

\* The check at the top of USBH_PollingProcess.
Detaching == ~connected /\ hostState # "IDLE"
Polled(st) == ~Detaching /\ hostState = st

\* USBH_DevDetachedHandler: free every channel, stop the host (which halts
\* every channel), then USBH_DeInit.
DetachCore ==
  /\ Detaching
  /\ DeInitCore(FreeAllChannel(pipes))
  /\ UNCHANGED <<connected, unplugs, errorState, ctrlOut, ctrlIn, ctrlFaults>>

\* USBH_IdleHandler.
IdleH ==
  /\ hostState = "IDLE" /\ connected
  /\ hostState' = "DEVICE_ATTACHED"
  /\ UNCHANGED <<connected, unplugs, errorState, xferState, pipes, ctrlOut,
                 ctrlIn, ctrlFaults>>

\* USBH_DevAttachedHandler: allocate and open the control pair.
AttachedH ==
  LET o == AllocChannel(pipes, CtrlOutEp)
      i == AllocChannel(o.pipes, CtrlInEp)
  IN
  /\ Polled("DEVICE_ATTACHED")
  /\ pipes' = i.pipes /\ ctrlOut' = o.ch /\ ctrlIn' = i.ch
  /\ errorState' = "NO"
  /\ hostState' = "ENUM"
  /\ UNCHANGED <<connected, unplugs, xferState, ctrlFaults>>

\* USBH_EnumHandler, the whole enumeration taken as one step.
EnumH ==
  /\ Polled("ENUM")
  /\ hostState' = "USER_INPUT"
  /\ UNCHANGED <<connected, unplugs, errorState, xferState, pipes, ctrlOut,
                 ctrlIn, ctrlFaults>>

\* USBH_ErrorHandler: USBH_DeInit.
ErrorHCore ==
  /\ Polled("ERROR")
  /\ DeInitCore(pipes)
  /\ UNCHANGED <<connected, unplugs, errorState, ctrlOut, ctrlIn, ctrlFaults>>

\* ErrorManage: the user callback, then the host goes to ERROR.
ErrorManage == hostState' = "ERROR"

\* The answers USBH_ControlXferHandler may end a class request with.
CtrlAnswers ==
  {"COMPLETE"} \cup (IF ctrlFaults < MaxCtrlFaults THEN {"STALL", "ERROR"} ELSE {})

\* The channels a session works with: the control pair from
\* USBH_DevAttachedHandler on, and the class driver's channels (pairs of
\* channel number and endpoint) once the class runs.
SessionPipesOf(classPipes) ==
  LET ctrl == {<<ctrlOut, CtrlOutEp>>, <<ctrlIn, CtrlInEp>>} IN
  CASE hostState \in {"ENUM", "USER_INPUT"} -> ctrl
    [] hostState \in {"CLASS_REQ", "CLASS"} -> ctrl \cup classPipes
    [] OTHER -> {}

\* Each of the channels S names is a channel of the pool, allocated, and
\* allocated to that endpoint.
PipesOwned(S) ==
  \A c \in S : c[1] < USBH_CHANNEL_MAX_NUM /\ pipes[c[1]].used /\ pipes[c[1]].ep = c[2]

-----------------------------------------------------------------------------
(* The device is unplugged and plugged in again.                           *)

Unplug ==
  /\ connected /\ unplugs < MaxUnplugs
  /\ connected' = FALSE /\ unplugs' = unplugs + 1
  /\ UNCHANGED <<hostState, errorState, xferState, pipes, ctrlOut, ctrlIn, ctrlFaults>>

Plug ==
  /\ ~connected
  /\ connected' = TRUE
  /\ UNCHANGED <<unplugs, hostState, errorState, xferState, pipes, ctrlOut,
                 ctrlIn, ctrlFaults>>

\* g_usbHost is zero-initialised after USBH_Init.
CoreInit ==
  /\ connected \in BOOLEAN /\ unplugs = 0
  /\ hostState = "IDLE" /\ errorState = "NO" /\ xferState = "START"
  /\ pipes = [i \in 0..LastChannel |-> FreePipe]
  /\ ctrlOut = 0 /\ ctrlIn = 0 /\ ctrlFaults = 0
=============================================================================
