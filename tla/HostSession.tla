---------------------------- MODULE HostSession -----------------------------
(***************************************************************************)
(* The host core of usbh_core.c around the control-transfer engine of     *)
(* HostCtrlXfer: USBH_PollingProcess with its detach check, the IDLE,     *)
(* DEVICE_ATTACHED and DEVICE_DETACHED handlers, the connect, port-enable *)
(* and disconnect interrupts of usbh_interrupt.c, and a user who unplugs  *)
(* and re-plugs the device.  While the host is in ENUM the enumeration    *)
(* handler drives HostCtrlXfer's caller and phase machine.                *)
(***************************************************************************)
EXTENDS HostCtrlXfer

CONSTANTS
  MaxUnplug,    \* bound on the number of times the device is unplugged
  EarlyUnplug   \* may the device be unplugged before the port-enable interrupt?

ASSUME MaxUnplug \in Nat /\ EarlyUnplug \in BOOLEAN

VARIABLES
  hostState,      \* g_usbHost.curHostState
  connectedFlag,  \* g_usbHost.connectedFlag
  portEnable,     \* g_usbHost.portEnable
  gintEnabled,    \* the OTG interrupt enables (GINTMASK and GAHBCFG.GINTEN)
  dedisMask,      \* GINTMASK.DEDISM, the disconnect interrupt unmasked
  connPend,       \* HPORTCSTS.PCINTFLG, device connect pending
  penChg,         \* HPORTCSTS.PENCHG, port enable changed
  hwPortEn,       \* HPORTCSTS.PEN, the port is enabled
  dedisPend,      \* GCINT.DEDIS, disconnect detected pending
  attached,       \* a device is plugged into the port (environment)
  unplugs         \* number of unplugs so far

sessionVars == <<hostState, connectedFlag, portEnable, gintEnabled, dedisMask,
                 connPend, penChg, hwPortEn, dedisPend, attached, unplugs>>
allVars == <<vars, sessionVars>>

HostStates == {"IDLE", "DEV_ATTACHED", "ENUM"}

SessionTypeOK ==
  /\ TypeOK
  /\ hostState \in HostStates
  /\ {connectedFlag, portEnable, gintEnabled, dedisMask, connPend, penChg,
      hwPortEn, dedisPend, attached} \subseteq BOOLEAN
  /\ unplugs \in 0..MaxUnplug

\* USBH_PollingProcess dispatches to the handler of state st: in any state
\* but IDLE it first goes to DEVICE_DETACHED when neither connectedFlag nor
\* portEnable is set, so st's handler runs only while one of them is.
PollReaches(st) ==
  /\ hostState = st
  /\ fg = "POLL"
  /\ st = "IDLE" \/ connectedFlag \/ portEnable

\* USB_OTG_PortReset: clear PENCHG, drive reset; the port comes out of
\* reset enabled, raising PENCHG again, only if a device is there.
PortReset ==
  /\ hwPortEn' = attached
  /\ penChg' = attached

-----------------------------------------------------------------------------
(* The control-transfer engine inside the session.                       *)

SessCallerStart == PollReaches("ENUM") /\ CallerStart /\ UNCHANGED sessionVars
SessIssue(ph) == PollReaches("ENUM") /\ IssuePhase(ph) /\ UNCHANGED sessionVars
SessFinish(ph) == FinishIssue(ph) /\ UNCHANGED sessionVars
SessWaitUrb == PollReaches("ENUM") /\ WaitUrb /\ UNCHANGED sessionVars

\* The channel interrupts are taken only while the global enable is set.
SessInIsr == gintEnabled /\ IN_HostChannelIsr /\ UNCHANGED sessionVars
SessOutIsr == gintEnabled /\ OUT_HostChannelIsr /\ UNCHANGED sessionVars

\* An unplugged device answers nothing: an active channel stays active
\* until the detach handler clears it (the disconnect interrupt is taken
\* long before a transaction would time out).
SessDeviceAnswers(c) == attached /\ DeviceAnswers(c) /\ UNCHANGED sessionVars
SessHaltDone(c) == HaltDone(c) /\ UNCHANGED sessionVars

-----------------------------------------------------------------------------
(* Port interrupts: the HPORT and DEDIS part of one USBH_OTG_IsrHandler   *)
(* invocation.  A flag is serviced only while its mask is set.            *)

\* Mutation: the port-enable branch does not unmask DEDIS.
UnmaskDedisMissing(m) == m

\* The port-enable branch unmasks DEDIS once the port is up.
UnmaskDedis(m) == m \/ (penChg /\ hwPortEn)

\* USBH_HostPortIsrHandler then USBH_DisconnectIsrHandler.  A connect sets
\* connectedFlag.  A port-enable change sets portEnable from PEN and, when
\* the port came up, unmasks DEDIS (full-speed device: the clock already
\* matches, so no port reset).  A pending and unmasked DEDIS -- it may have
\* just been unmasked -- then masks and disables every interrupt and clears
\* connectedFlag.
OtgPortIsr ==
  LET cf  == connectedFlag \/ connPend
      pe  == IF penChg THEN hwPortEn ELSE portEnable
      dm  == UnmaskDedis(dedisMask)
      dis == dm /\ dedisPend
  IN /\ gintEnabled
     /\ connPend \/ penChg \/ (dedisMask /\ dedisPend)
     /\ connPend' = FALSE
     /\ penChg' = FALSE
     /\ portEnable' = pe
     /\ connectedFlag' = (cf /\ ~dis)
     /\ dedisMask' = (dm /\ ~dis)
     /\ gintEnabled' = ~dis
     /\ dedisPend' = (dedisPend /\ ~dis)
     /\ UNCHANGED <<hostState, hwPortEn, attached, unplugs>>
     /\ UNCHANGED vars

-----------------------------------------------------------------------------
(* Host core handlers, each one call of USBH_PollingProcess.              *)

\* USBH_IdleHandler.
IdleHandler ==
  /\ PollReaches("IDLE")
  /\ connectedFlag
  /\ hostState' = "DEV_ATTACHED"
  /\ UNCHANGED <<connectedFlag, portEnable, gintEnabled, dedisMask, connPend,
                 penChg, hwPortEn, dedisPend, attached, unplugs>>
  /\ UNCHANGED vars

\* USBH_DevAttachedHandler: allocate and open the two control channels
\* (first fit in a pool that the last detach freed: the pipes keep their
\* freed values), reset the port and enter ENUM with enumState IDLE, whose
\* first handler starts a new request.
DevAttachedHandler ==
  /\ PollReaches("DEV_ATTACHED")
  /\ hostState' = "ENUM"
  /\ PortReset
  /\ UNCHANGED <<connectedFlag, portEnable, gintEnabled, dedisMask, connPend,
                 dedisPend, attached, unplugs>>
  /\ UNCHANGED vars

\* USBH_CH_FreeChannel on a control pipe.
FreedPipe == [urbStatus |-> "IDLE", pipeState |-> "OK", pidToggle |-> 0]

\* USBH_PollingProcess finding neither connectedFlag nor portEnable set,
\* followed in the same call by USBH_DevDetachedHandler: mask and clear the
\* global flags (DEDIS among them), free every channel, stop the host
\* (channel interrupts off), state IDLE, ctrlState SETUP, enumState IDLE,
\* xferState START, USBH_DeInit, then USB_HostInit -- a port reset and the
\* common interrupts unmasked without DEDIS -- and the global enable set.
\* The static s_curXferState and s_preXferState of usbh_dataXfer.c are not
\* touched.
DevDetachedHandler ==
  /\ hostState # "IDLE"
  /\ fg = "POLL"
  /\ ~connectedFlag /\ ~portEnable
  /\ hostState' = "IDLE"
  /\ ctrlState' = "SETUP"
  /\ xferState' = "START"
  /\ pipe' = [c \in Chan |-> FreedPipe]
  /\ hch' = [c \in Chan |-> [hch[c] EXCEPT !.en = "IDLE", !.flag = "NONE"]]
  /\ dedisPend' = FALSE
  /\ dedisMask' = FALSE
  /\ PortReset
  /\ gintEnabled' = TRUE
  /\ UNCHANGED <<curXfer, preXfer, errCnt, req, fg, faults, issued, acked>>
  /\ UNCHANGED <<connectedFlag, portEnable, connPend, attached, unplugs>>

-----------------------------------------------------------------------------
(* The user.                                                              *)

\* Unplugging raises DEDIS and, if the port was enabled, disables it and
\* raises PENCHG.  Unless EarlyUnplug, it happens only once the port-enable
\* interrupt has been taken.
Unplug ==
  /\ attached
  /\ unplugs < MaxUnplug
  /\ EarlyUnplug \/ portEnable
  /\ attached' = FALSE
  /\ dedisPend' = TRUE
  /\ penChg' = (penChg \/ hwPortEn)
  /\ hwPortEn' = FALSE
  /\ unplugs' = unplugs + 1
  /\ UNCHANGED <<hostState, connectedFlag, portEnable, gintEnabled, dedisMask,
                 connPend>>
  /\ UNCHANGED vars

\* The device is plugged in again once the host is back in IDLE.
Plug ==
  /\ ~attached
  /\ hostState = "IDLE"
  /\ attached' = TRUE
  /\ connPend' = TRUE
  /\ UNCHANGED <<hostState, connectedFlag, portEnable, gintEnabled, dedisMask,
                 penChg, hwPortEn, dedisPend, unplugs>>
  /\ UNCHANGED vars

-----------------------------------------------------------------------------
\* USBH_Init: USB_HostInit resets the port before it powers it (PP = 1),
\* unmasks the common interrupts without DEDIS and sets the global enable;
\* the powered device then raises its connect interrupt.
SessionInit ==
  /\ Init
  /\ hostState = "IDLE"
  /\ connectedFlag = FALSE
  /\ portEnable = FALSE
  /\ gintEnabled = TRUE
  /\ dedisMask = FALSE
  /\ connPend = TRUE
  /\ penChg = FALSE
  /\ hwPortEn = FALSE
  /\ dedisPend = FALSE
  /\ attached = TRUE
  /\ unplugs = 0

SessionNext ==
  \/ SessCallerStart \/ SessWaitUrb
  \/ \E ph \in Phases : SessIssue(ph) \/ SessFinish(ph)
  \/ SessInIsr \/ SessOutIsr
  \/ \E c \in Chan : SessDeviceAnswers(c) \/ SessHaltDone(c)
  \/ OtgPortIsr
  \/ IdleHandler \/ DevAttachedHandler \/ DevDetachedHandler
  \/ Unplug \/ Plug

\* The main loop polls, pending interrupts are taken, the hardware and a
\* plugged device answer, and an unplugged device is eventually plugged in
\* again.  Unplugging is not forced.
SessionFairness ==
  /\ WF_allVars(SessCallerStart) /\ WF_allVars(SessWaitUrb)
  /\ \A ph \in Phases : WF_allVars(SessIssue(ph)) /\ WF_allVars(SessFinish(ph))
  /\ WF_allVars(SessInIsr) /\ WF_allVars(SessOutIsr)
  /\ \A c \in Chan : WF_allVars(SessDeviceAnswers(c)) /\ WF_allVars(SessHaltDone(c))
  /\ WF_allVars(OtgPortIsr)
  /\ WF_allVars(IdleHandler) /\ WF_allVars(DevAttachedHandler)
  /\ WF_allVars(DevDetachedHandler)
  /\ WF_allVars(Plug)

SessionSpec == SessionInit /\ [][SessionNext]_allVars /\ SessionFairness

-----------------------------------------------------------------------------
(* Properties.                                                            *)

\* An unplug is always noticed: the port and disconnect interrupts clear
\* both flags USBH_PollingProcess looks at, and the host returns to IDLE
\* (USBH_DevDetachedHandler) whatever the enumeration was doing.
UnplugDetected == (~attached) ~> (hostState = "IDLE")

\* After an attach, enumeration completes a control transfer unless the
\* device is unplugged again: the detach left the transfer machine in a
\* state the next enumeration can start from.
ReattachCompletes ==
  (hostState = "DEV_ATTACHED") ~> (ctrlState = "COMPLETE" \/ ~attached)

\* Until the device is first unplugged, every control transfer an
\* enumeration handler starts completes (USBH_ControlXferHandler returns
\* COMPLETE) through finitely many STALLs and transaction errors: the
\* phase machine of usbh_dataXfer.c, the channel ISRs and the retry of
\* the ENUM handlers never wait on each other forever.  A transfer cut
\* short by the unplug only has to see the device gone.
FirstSessionRequestsComplete ==
  (xferState = "WAITING" /\ unplugs = 0) ~> (ctrlState = "COMPLETE" \/ ~attached)

=============================================================================
