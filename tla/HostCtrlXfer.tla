---------------------------- MODULE HostCtrlXfer ----------------------------
(***************************************************************************)
(* The host control-transfer engine of the USB OTG library:               *)
(*   - the polled phase machine of Core_Host/Standard/src/usbh_dataXfer.c *)
(*     (s_curXferState / s_preXferState, g_usbHost.control.ctrlState,     *)
(*     g_usbHost.control.errCnt),                                         *)
(*   - the per-channel bookkeeping it shares with the interrupt handler   *)
(*     (xferPipe[ch].urbStatus, pipeState, pidToggle),                    *)
(*   - the IN and OUT host-channel interrupt handlers of usbh_interrupt.c *)
(*     with their two-step "raw flag -> halt -> TSFCMPAN" protocol,       *)
(*   - the caller pattern of every ENUM_*Handler of usbh_enum.c           *)
(*     (xferState START / WAITING, retry of the same request after a      *)
(*     STALL or ERROR),                                                   *)
(*   - and, as environment, the channel hardware and the device on the    *)
(*     bus, which answers each transaction with an ACK or a fault.        *)
(*                                                                         *)
(* Control transfers use two channels, g_usbHost.control.outChannelNum    *)
(* and inChannelNum, written "OUT" and "IN" here.  Every data or status   *)
(* phase is one packet; wLength is abstracted to zero / non-zero.         *)
(***************************************************************************)
EXTENDS Naturals, Sequences, SequencesExt, FiniteSets

CONSTANTS
  Faults,            \* the faults the device/bus may answer with
  MaxFaults,         \* bound on the number of faulty answers in a behaviour
  IsrPreemptsIssue   \* may the channel ISR run between the channel enable
                     \* and the urbStatus = IDLE store of a phase handler?

ASSUME Faults \subseteq {"NAK", "STALL", "TERR", "DTOG"}
ASSUME MaxFaults \in Nat
ASSUME IsrPreemptsIssue \in BOOLEAN

\* usbh_dataXfer.h: CTRL_XFER_ERROR_CNT
CTRL_XFER_ERROR_CNT == 2

Chan == {"OUT", "IN"}
Phases == {"SETUP", "DATA_OUT", "DATA_IN", "STATUS_OUT", "STATUS_IN"}
\* A request: bmRequestType.bit.dir and wLength (0 or non-zero, written 1).
Requests == [dir : {"IN", "OUT"}, len : {0, 1}]
UrbStatus == {"IDLE", "NOREADY", "STALL", "ERROR", "OK"}
PipeStates == {"OK", "NAK", "STALL", "XACTERR", "DATATGLERR"}
\* Raw channel interrupt flags the model distinguishes; "NONE" = no flag.
RawFlags == {"NONE", "TSFCMPN", "NAK", "STALL", "TERR", "DTOG", "TSFCMPAN"}

VARIABLES
  curXfer,    \* s_curXferState: a phase or "WAIT_URB"
  preXfer,    \* s_preXferState
  ctrlState,  \* g_usbHost.control.ctrlState
  errCnt,     \* g_usbHost.control.errCnt (uint8_t)
  xferState,  \* g_usbHost.control.xferState of the calling ENUM handler
  req,        \* g_usbHost.control.reqData
  fg,         \* "POLL", or the phase whose handler has enabled the channel
              \* but not yet stored urbStatus = IDLE
  pipe,       \* g_usbHost.xferPipe[ch] for the two control channels
  hch,        \* channel hardware: enable state, pending raw flag, phase
  faults,     \* number of faulty answers so far
  issued,     \* history: phases started in the current attempt
  acked       \* history: phases the device acknowledged in this attempt

vars == <<curXfer, preXfer, ctrlState, errCnt, xferState, req, fg, pipe,
          hch, faults, issued, acked>>

\* Channel used by a phase (the chNum choice of USBH_CtrlXferWaitUrbState).
ChanOf(ph) == IF ph \in {"DATA_IN", "STATUS_IN"} THEN "IN" ELSE "OUT"

\* The ctrlState a phase handler stores before issuing its phase.
CtrlStateOf(ph) == ph

\* The phase sequence a request must follow (spec section 8).
LegalSeq(r) ==
  CASE r.dir = "IN"  /\ r.len = 1 -> <<"SETUP", "DATA_IN", "STATUS_OUT">>
    [] r.dir = "IN"  /\ r.len = 0 -> <<"SETUP", "STATUS_OUT">>
    [] r.dir = "OUT" /\ r.len = 1 -> <<"SETUP", "DATA_OUT", "STATUS_IN">>
    [] r.dir = "OUT" /\ r.len = 0 -> <<"SETUP", "STATUS_IN">>

TypeOK ==
  /\ curXfer \in Phases \cup {"WAIT_URB"}
  /\ preXfer \in Phases
  /\ ctrlState \in Phases \cup {"ERROR", "STALL", "COMPLETE"}
  /\ errCnt \in 0..255
  /\ xferState \in {"START", "WAITING"}
  /\ req \in Requests
  /\ fg \in {"POLL"} \cup Phases
  /\ pipe \in [Chan -> [urbStatus : UrbStatus, pipeState : PipeStates,
                        pidToggle : {0, 1}]]
  /\ hch \in [Chan -> [en : {"IDLE", "ACTIVE", "HALTING"}, flag : RawFlags,
                       phase : Phases]]
  /\ faults \in 0..MaxFaults
  /\ issued \in Seq(Phases)
  /\ acked \subseteq Phases

-----------------------------------------------------------------------------
(* Foreground: the calling ENUM handler and the control-transfer machine. *)

\* START branch of an ENUM_*Handler: a USBH_Standard* builder fills reqData
\* and sets ctrlState = SETUP; then xferState = WAITING.  After a STALL or
\* ERROR the handler is still in the same enumState and rebuilds the same
\* request; after COMPLETE the enumeration has moved on to another request.
CallerStart ==
  /\ xferState = "START"
  /\ \E r \in Requests :
       /\ ctrlState \in {"STALL", "ERROR"} => r = req
       /\ req' = r
  /\ ctrlState' = "SETUP"
  /\ xferState' = "WAITING"
  /\ issued' = <<>>
  /\ UNCHANGED <<curXfer, preXfer, errCnt, fg, pipe, hch, faults, acked>>

\* The data PID a phase is sent or expected with, as the handlers set it:
\* USBH_CtrlXferOutData calls ConfigDataPid(out, 1), USBH_CtrlOutData keeps
\* it for wLen > 0 and forces 1 for wLen = 0, USBH_CtrlInData sets 1.  The
\* SETUP packet uses the SETUP PID; its pidToggle is set after the enable.
PidBeforeEnable(ph, t) == IF ph = "SETUP" THEN t ELSE 1

\* First half of a phase handler (USBH_CtrlXferSetup, ...OutData, ...InData,
\* ...OutStatus, ...InStatus): ctrlState = phase, pipe buffer and PID set
\* up, and USB_OTG_Enable{Out,In}ChannelTransfer starts the transaction.
IssuePhase(ph) ==
  LET c == ChanOf(ph) IN
  /\ xferState = "WAITING"
  /\ fg = "POLL"
  /\ curXfer = ph
  /\ ctrlState' = CtrlStateOf(ph)
  /\ pipe' = [pipe EXCEPT ![c].pidToggle = PidBeforeEnable(ph, @)]
  /\ hch' = [hch EXCEPT ![c] = [en |-> "ACTIVE", flag |-> "NONE", phase |-> ph]]
  /\ issued' = IF ph = "SETUP" THEN <<"SETUP">>
               ELSE IF issued # <<>> /\ Last(issued) = ph THEN issued
               ELSE Append(issued, ph)
  /\ acked' = IF ph = "SETUP" THEN {} ELSE acked
  /\ fg' = ph
  /\ UNCHANGED <<curXfer, preXfer, errCnt, xferState, req, faults>>

\* Mutation: the urbStatus = IDLE store is left out.
FinishIssueNoIdle(ph) ==
  LET c == ChanOf(ph) IN
  /\ fg = ph
  /\ pipe' = [pipe EXCEPT ![c].pidToggle = IF ph = "SETUP" THEN 1 ELSE @]
  /\ preXfer' = curXfer
  /\ curXfer' = "WAIT_URB"
  /\ fg' = "POLL"
  /\ UNCHANGED <<ctrlState, errCnt, xferState, req, hch, faults, issued,
                 acked>>

\* Second half: the stores after the enable (USBH_CtrlSetupReq also sets
\* pidToggle = 1 here), urbStatus = IDLE, and s_preXferState = phase,
\* s_curXferState = WAIT_URB.
FinishIssue(ph) ==
  LET c == ChanOf(ph) IN
  /\ fg = ph
  /\ pipe' = [pipe EXCEPT ![c].urbStatus = "IDLE",
                          ![c].pidToggle = IF ph = "SETUP" THEN 1 ELSE @]
  /\ preXfer' = curXfer
  /\ curXfer' = "WAIT_URB"
  /\ fg' = "POLL"
  /\ UNCHANGED <<ctrlState, errCnt, xferState, req, hch, faults, issued,
                 acked>>

\* Mutation: status stage in the same direction as the IN data stage.
NextPhaseStatusSameDir(pre, r) ==
  CASE pre = "SETUP" /\ r.dir = "IN"  -> IF r.len = 1 THEN "DATA_IN" ELSE "STATUS_OUT"
    [] pre = "SETUP" /\ r.dir = "OUT" -> IF r.len = 1 THEN "DATA_OUT" ELSE "STATUS_IN"
    [] pre = "DATA_OUT" -> "STATUS_IN"
    [] pre = "DATA_IN"  -> "STATUS_IN"
    [] pre \in {"STATUS_OUT", "STATUS_IN"} -> "SETUP"

\* Phase after a URB_OK in USBH_CtrlXferWaitUrbState.
NextPhase(pre, r) ==
  CASE pre = "SETUP" /\ r.dir = "IN"  -> IF r.len = 1 THEN "DATA_IN" ELSE "STATUS_OUT"
    [] pre = "SETUP" /\ r.dir = "OUT" -> IF r.len = 1 THEN "DATA_OUT" ELSE "STATUS_IN"
    [] pre = "DATA_OUT" -> "STATUS_IN"
    [] pre = "DATA_IN"  -> "STATUS_OUT"
    [] pre \in {"STATUS_OUT", "STATUS_IN"} -> "SETUP"

\* What the caller's switch does with the value ControlXferHandler returns.
CallerReact(cs) ==
  xferState' = IF cs \in {"COMPLETE", "STALL", "ERROR"} THEN "START"
               ELSE "WAITING"

\* URB_OK branch.
WaitUrbOk(u) ==
  /\ u = "OK"
  /\ curXfer' = NextPhase(preXfer, req)
  /\ ctrlState' = IF preXfer \in {"STATUS_OUT", "STATUS_IN"} THEN "COMPLETE"
                  ELSE ctrlState
  /\ UNCHANGED errCnt

\* URB_ERROR branch: "if (errCnt++ < CTRL_XFER_ERROR_CNT)" increments the
\* uint8_t errCnt and picks curXfer = SETUP (retry) or ctrlState = ERROR;
\* the missing break then falls through into the URB_STALL branch, whose
\* stores (ctrlState = STALL, curXfer = SETUP) overwrite either outcome.
WaitUrbError(u) ==
  /\ u = "ERROR"
  /\ errCnt' = (errCnt + 1) % 256
  /\ ctrlState' = "STALL"
  /\ curXfer' = "SETUP"

\* Mutation: the URB_STALL branch does not go back to SETUP.
WaitUrbStallNoReset(u) ==
  /\ u = "STALL"
  /\ ctrlState' = "STALL"
  /\ curXfer' = curXfer
  /\ UNCHANGED errCnt

\* URB_STALL branch.
WaitUrbStall(u) ==
  /\ u = "STALL"
  /\ ctrlState' = "STALL"
  /\ curXfer' = "SETUP"
  /\ UNCHANGED errCnt

\* URB_NOREADY branch: only an OUT data phase is re-issued; any other
\* NOREADY falls into "default" and leaves the machine waiting.
WaitUrbNoReady(u) ==
  /\ u = "NOREADY"
  /\ preXfer = "DATA_OUT"
  /\ curXfer' = "DATA_OUT"
  /\ UNCHANGED <<ctrlState, errCnt>>

\* USBH_CtrlXferWaitUrbState, called by the caller's WAITING branch.  A call
\* that finds urbStatus IDLE (or an unhandled NOREADY) changes nothing and
\* is not a step of the model.
WaitUrb ==
  LET u == pipe[ChanOf(preXfer)].urbStatus IN
  /\ xferState = "WAITING"
  /\ fg = "POLL"
  /\ curXfer = "WAIT_URB"
  /\ \/ WaitUrbOk(u)
     \/ WaitUrbError(u)
     \/ WaitUrbStall(u)
     \/ WaitUrbNoReady(u)
  /\ CallerReact(ctrlState')
  /\ UNCHANGED <<preXfer, req, fg, pipe, hch, faults, issued, acked>>

-----------------------------------------------------------------------------
(* Interrupt context: USBH_HostChannelsIsrHandler dispatches a channel    *)
(* with a pending flag to the IN or OUT handler by its direction.  The    *)
(* model keeps one pending raw flag per channel, so each if/else chain    *)
(* takes the branch of that flag.                                         *)

\* The ISR runs when a flag is pending; unless IsrPreemptsIssue it is not
\* taken inside the enable-then-IDLE window of a phase handler.
IsrMayRun(c) ==
  /\ hch[c].flag # "NONE"
  /\ IsrPreemptsIssue \/ fg = "POLL"

\* USB_OTG_HaltChannel: the channel disable request; the hardware then
\* quiesces the channel and raises TSFCMPAN (HaltDone).
Halt(h) == [h EXCEPT !.en = "HALTING"]

\* urbStatus derived from pipeState at TSFCMPAN, IN handler: OK, STALL,
\* XACTERR or DATATGLERR are mapped; any other pipeState leaves it.
InUrbOf(ps, u) ==
  CASE ps = "OK" -> "OK"
    [] ps = "STALL" -> "STALL"
    [] ps \in {"XACTERR", "DATATGLERR"} -> "ERROR"
    [] OTHER -> u

\* ... OUT handler: OK, NAK (and NYET) -> NOREADY, STALL, XACTERR mapped;
\* DATATGLERR is not.
OutUrbOf(ps, u) ==
  CASE ps = "OK" -> "OK"
    [] ps = "NAK" -> "NOREADY"
    [] ps = "STALL" -> "STALL"
    [] ps = "XACTERR" -> "ERROR"
    [] OTHER -> u

\* Mutation: the toggle incremented instead of flipped.
PidToggledInc(t) == t + 1

\* "pidToggle ^= 1" on a 0/1 toggle.
PidToggled(t) == 1 - t

\* Mutation: the interrupt-endpoint branch (urbStatus = OK at TSFCMPN,
\* before the channel has halted) taken for a control channel.
InXferCompletedEarly(p) == [p EXCEPT !.pipeState = "OK", !.urbStatus = "OK",
                                     !.pidToggle = PidToggled(@)]

\* TSFCMPN branch of the IN handler for a control (or bulk) channel:
\* pipeState = OK and the toggle flips; urbStatus waits for TSFCMPAN.
InXferCompleted(p) == [p EXCEPT !.pipeState = "OK",
                                !.pidToggle = PidToggled(@)]

\* USBH_IN_HostChannelIsrHandler for a control channel.  intNak is read
\* from the DTOG flag on entry, so a DTOG also runs the final NAK branch of
\* the second chain: the channel is re-enabled (CHEN = 1, which does not
\* cancel the pending disable) and pipeState becomes NAK.
IN_HostChannelIsr ==
  LET c == "IN"
      f == hch[c].flag
      h == [hch[c] EXCEPT !.flag = "NONE"]
      p == pipe[c]
  IN
  /\ IsrMayRun(c)
  /\ \/ f = "STALL" /\ pipe' = [pipe EXCEPT ![c].pipeState = "STALL"]
                    /\ hch' = [hch EXCEPT ![c] = Halt(h)]
     \/ f = "DTOG"  /\ pipe' = [pipe EXCEPT ![c].pipeState = "NAK"]
                    /\ hch' = [hch EXCEPT ![c] = Halt(h)]
     \/ f = "TSFCMPN" /\ pipe' = [pipe EXCEPT ![c] = InXferCompleted(p)]
                      /\ hch' = [hch EXCEPT ![c] = Halt(h)]
     \/ f = "TSFCMPAN" /\ pipe' = [pipe EXCEPT ![c].urbStatus =
                                         InUrbOf(p.pipeState, p.urbStatus)]
                       /\ hch' = [hch EXCEPT ![c] = h]
     \/ f = "TERR" /\ pipe' = [pipe EXCEPT ![c].pipeState = "XACTERR"]
                   /\ hch' = [hch EXCEPT ![c] = Halt(h)]
     \/ f = "NAK" /\ pipe' = [pipe EXCEPT ![c].pipeState = "NAK"]
                  /\ hch' = [hch EXCEPT ![c] = h]
  /\ UNCHANGED <<curXfer, preXfer, ctrlState, errCnt, xferState, req, fg,
                 faults, issued, acked>>

\* USBH_OUT_HostChannelIsrHandler for a control channel: every raw flag
\* halts the channel and records pipeState; TSFCMPAN maps it to urbStatus.
OUT_HostChannelIsr ==
  LET c == "OUT"
      f == hch[c].flag
      h == [hch[c] EXCEPT !.flag = "NONE"]
      p == pipe[c]
      RawPipe == [TSFCMPN |-> "OK", STALL |-> "STALL", NAK |-> "NAK",
                  TERR |-> "XACTERR", DTOG |-> "DATATGLERR"]
  IN
  /\ IsrMayRun(c)
  /\ \/ /\ f \in DOMAIN RawPipe
        /\ pipe' = [pipe EXCEPT ![c].pipeState = RawPipe[f]]
        /\ hch' = [hch EXCEPT ![c] = Halt(h)]
     \/ /\ f = "TSFCMPAN"
        /\ pipe' = [pipe EXCEPT ![c].urbStatus =
                          OutUrbOf(p.pipeState, p.urbStatus)]
        /\ hch' = [hch EXCEPT ![c] = h]
  /\ UNCHANGED <<curXfer, preXfer, ctrlState, errCnt, xferState, req, fg,
                 faults, issued, acked>>

-----------------------------------------------------------------------------
(* Environment: the channel hardware and the device.                      *)

\* Answers the device may give to a transaction of phase ph: the device
\* must accept a SETUP packet (only a bus error can hit it); a data toggle
\* error is detected by the host only on received (IN) data.
Answers(ph) ==
  CASE ph = "SETUP" -> {"ACK", "TERR"}
    [] ChanOf(ph) = "OUT" -> {"ACK", "NAK", "STALL", "TERR"}
    [] OTHER -> {"ACK", "NAK", "STALL", "TERR", "DTOG"}

\* The transaction on an active channel ends: an ACK completes the phase
\* (raw flag TSFCMPN), a fault raises its flag.  Faults are bounded.
DeviceAnswers(c) ==
  /\ hch[c].en = "ACTIVE"
  /\ hch[c].flag = "NONE"
  /\ \E a \in Answers(hch[c].phase) \cap (Faults \cup {"ACK"}) :
       /\ a # "ACK" => faults < MaxFaults
       /\ faults' = IF a = "ACK" THEN faults ELSE faults + 1
       /\ hch' = [hch EXCEPT ![c].flag = IF a = "ACK" THEN "TSFCMPN" ELSE a]
       /\ acked' = IF a = "ACK" THEN acked \cup {hch[c].phase} ELSE acked
  /\ UNCHANGED <<curXfer, preXfer, ctrlState, errCnt, xferState, req, fg,
                 pipe, issued>>

\* A halting channel quiesces and raises TSFCMPAN (channel halted).
HaltDone(c) ==
  /\ hch[c].en = "HALTING"
  /\ hch[c].flag = "NONE"
  /\ hch' = [hch EXCEPT ![c].en = "IDLE", ![c].flag = "TSFCMPAN"]
  /\ UNCHANGED <<curXfer, preXfer, ctrlState, errCnt, xferState, req, fg,
                 pipe, faults, issued, acked>>

-----------------------------------------------------------------------------
(* Initial state: after USBH_DevAttachedHandler opened both control      *)
(* channels (USBH_CH_OpenChannel leaves the pipe zeroed by FreeChannel)   *)
(* and USBH_DevDetachedHandler / USBH_Init left ctrlState = SETUP and     *)
(* xferState = START; s_curXferState starts at SETUP.                    *)
Init ==
  /\ curXfer = "SETUP"
  /\ preXfer = "SETUP"
  /\ ctrlState = "SETUP"
  /\ errCnt = 0
  /\ xferState = "START"
  /\ req \in Requests
  /\ fg = "POLL"
  /\ pipe = [c \in Chan |-> [urbStatus |-> "IDLE", pipeState |-> "OK",
                             pidToggle |-> 0]]
  /\ hch = [c \in Chan |-> [en |-> "IDLE", flag |-> "NONE", phase |-> "SETUP"]]
  /\ faults = 0
  /\ issued = <<>>
  /\ acked = {}

Next ==
  \/ CallerStart
  \/ \E ph \in Phases : IssuePhase(ph) \/ FinishIssue(ph)
  \/ WaitUrb
  \/ IN_HostChannelIsr
  \/ OUT_HostChannelIsr
  \/ \E c \in Chan : DeviceAnswers(c) \/ HaltDone(c)

\* The main loop calls the enumeration handler continuously, the interrupt
\* is taken whenever a flag is pending, the hardware finishes a halt, and a
\* device on an active channel answers each transaction.
Fairness ==
  /\ WF_vars(CallerStart)
  /\ \A ph \in Phases : WF_vars(IssuePhase(ph)) /\ WF_vars(FinishIssue(ph))
  /\ WF_vars(WaitUrb)
  /\ WF_vars(IN_HostChannelIsr) /\ WF_vars(OUT_HostChannelIsr)
  /\ \A c \in Chan : WF_vars(DeviceAnswers(c)) /\ WF_vars(HaltDone(c))

Spec == Init /\ [][Next]_vars /\ Fairness

-----------------------------------------------------------------------------
(* Properties.                                                            *)

\* Spec section 8: the phases the foreground starts for a request follow
\* SETUP, then DATA in the request's direction if wLength > 0, then STATUS
\* in the opposite direction -- whatever the device answers and however the
\* interrupt handler interleaves with the polled machine.
PhaseSequenceLegal == IsPrefix(issued, LegalSeq(req))

\* USBH_CtrlXferWaitUrbState reports COMPLETE only when the device has
\* acknowledged every phase of the request in the current attempt: no
\* urbStatus left over from an earlier phase or transfer is taken for the
\* completion of the phase being waited for.
CompleteOnlyWhenAcked ==
  ctrlState = "COMPLETE" =>
    /\ issued = LegalSeq(req)
    /\ acked = Range(LegalSeq(req))

\* A phase handler only programs a control channel that the hardware has
\* finished with: no transaction, halt or unhandled interrupt flag of an
\* earlier phase is pending on it (the channel is owned by one transfer
\* at a time, spec section 5).
ChannelQuiescentWhenIssued ==
  [][\A ph \in Phases :
        IssuePhase(ph) => hch[ChanOf(ph)] \in
                            [en : {"IDLE"}, flag : {"NONE"}, phase : Phases]
    ]_vars

\* Spec section 4.5: a transaction error is retried and at last surfaced as
\* CTRL_ERROR; the caller sees CTRL_STALL only when the device stalled, i.e.
\* the urbStatus of the waited-for channel is STALL.
StallOnlyFromDevice ==
  [][(ctrlState' = "STALL" /\ ctrlState # "STALL") =>
       pipe[ChanOf(preXfer)].urbStatus = "STALL"]_vars
=============================================================================
