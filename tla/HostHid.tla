-------------------------------- MODULE HostHid -------------------------------
(***************************************************************************)
(* A host session with a HID mouse: the host core of HostCore with the    *)
(* HID class driver of Core_Host/Class/src/usbh_class_hid.c installed as  *)
(* the host's class handlers, USBH_InterruptInData of usbh_dataXfer.c and *)
(* the interrupt IN channel ISR of usbh_interrupt.c.  The mouse is the    *)
(* environment: it answers each poll with its next report, a NAK, a STALL *)
(* while its endpoint is halted, or a transaction error, and it keeps the *)
(* USB data toggle of its interrupt IN endpoint.  The frame counter is    *)
(* abstracted to whether HID_POLL_TIME frames have passed since the last  *)
(* poll was issued.                                                       *)
(***************************************************************************)
EXTENDS HostCore, Sequences

CONSTANTS
  MaxReports,       \* reports the mouse has to send
  MaxIntFaults,     \* bound on STALLs, errors and lost handshakes
  IntIsrPreempts,   \* the channel ISR may run inside USBH_InterruptInData
  LatePolls,        \* the main loop may be HID_POLL_TIME frames late
  MouseStalls,      \* class requests the mouse does not support: it
                    \* STALLs them every time (HID 1.11 appendix G makes
                    \* SET_IDLE optional for a boot mouse)
  MouseReport,      \* the button byte and x byte of each report
  MouseSeats        \* values mouseSeat may have when the model starts: the
                    \* global is 0 at reset and keeps the position earlier
                    \* sessions left it at, in 0..17, across a detach

ASSUME MaxReports \in Nat /\ IntIsrPreempts \in BOOLEAN /\ LatePolls \in BOOLEAN
ASSUME MouseStalls \subseteq {"SET_IDLE", "SET_PROTOCOL"}
ASSUME MouseReport \in [1..MaxReports -> [button : 0..255, x : 0..255]]
ASSUME MouseSeats \subseteq 0..17

\* USBH_HID_InitHandler opens the channel on endpoint 0x81, whatever the
\* descriptors say.
HidInEp == 129

HidReqStates == <<"IDLE", "GET_DEV_DESC", "GET_REQ_DEV_DESC", "SET_IDLE",
                  "SET_PROTOCOL", "CONFIGURED_OK">>
HidStates == {"IDLE", "SYNC", "GET_DATA", "POLL"}

VARIABLES
  hidReq,      \* s_classReqState
  hidState,    \* s_classState
  hidCh,       \* hidDataInChannel
  flagParse,   \* flagParseHID
  expired,     \* HID_POLL_TIME frames have passed since hidTimer was read
  intBusy,     \* the interrupt IN channel is enabled in hardware
  intIssue,    \* USBH_InterruptInData has enabled the channel and not yet
               \* stored urbStatus = IDLE
  intPid,      \* xferPipe[hidDataInChannel].dataPid of the poll in flight
  dat,         \* the report in dat[], as its number (0: none yet)
  parsed,      \* the reports ParseMouseData has been called on, in order
  mouseNext,   \* the number of the report the mouse sends next
  mouseTog,    \* the DATA0/DATA1 the mouse sends it with
  mouseHalted, \* the mouse's interrupt IN endpoint is halted
  intFaults,   \* environment budget used
  mouseSeat,   \* the cursor position ParseMouseData keeps (a uint8_t)
  printMouse   \* char printMouse[21], the line ParseMouseData prints

hidVars == <<hidReq, hidState, hidCh, flagParse, expired, intBusy, intIssue, intPid,
             dat, parsed, mouseNext, mouseTog, mouseHalted, intFaults, mouseSeat,
             printMouse>>
vars == <<coreVars, hidVars>>

HidTypeOK ==
  /\ CoreTypeOK({HidInEp})
  /\ hidReq \in {HidReqStates[i] : i \in 1..6} /\ hidState \in HidStates
  /\ hidCh \in ChannelNums /\ flagParse \in {0, 1} /\ expired \in BOOLEAN
  /\ intBusy \in BOOLEAN /\ intIssue \in BOOLEAN /\ intPid \in {0, 1}
  /\ dat \in 0..MaxReports /\ parsed \in Seq(1..MaxReports)
  /\ mouseNext \in 1..(MaxReports + 1) /\ mouseTog \in {0, 1}
  /\ mouseHalted \in BOOLEAN /\ intFaults \in 0..MaxIntFaults
  /\ mouseSeat \in 0..255 /\ printMouse \in [0..20 -> {"NUL", ".", "o", "|", "LF"}]

\* Steps of the main loop: none runs while USBH_InterruptInData is half done.
Main(A) == ~intIssue /\ A

-----------------------------------------------------------------------------
(* Class init and deinit.                                                  *)

\* USBH_HID_DeInitHandler.
ClassDeInit == hidReq' = "IDLE" /\ hidState' = "IDLE"

\* USBH_DevDetachedHandler: USB_OTG_StopHost halts the channel.
HidDetach ==
  /\ Main(DetachCore) /\ ClassDeInit /\ intBusy' = FALSE
  /\ UNCHANGED <<hidCh, flagParse, expired, intIssue, intPid, dat, parsed, mouseSeat,
                 printMouse, mouseNext, mouseTog, mouseHalted, intFaults>>

HidCoreStep == Main(IdleH \/ AttachedH) /\ UNCHANGED hidVars

\* Enumeration resets the mouse: DATA0, endpoint not halted, and a report
\* whose handshake it missed is not sent again.
HidEnumH ==
  /\ Main(EnumH)
  /\ mouseTog' = 0 /\ mouseHalted' = FALSE
  /\ mouseNext' = IF dat >= mouseNext THEN dat + 1 ELSE mouseNext
  /\ UNCHANGED <<hidReq, hidState, hidCh, flagParse, expired, intBusy, intIssue, intPid,
                 dat, parsed, mouseSeat, printMouse, intFaults>>

\* USBH_HID_InitHandler: allocate and open the interrupt IN channel, go to
\* CLASS_REQ.  The class state is left as the last deinit (or start-up)
\* left it.
ClassInit ==
  LET i == AllocChannel(pipes, HidInEp) IN
  /\ Main(Polled("USER_INPUT"))
  /\ pipes' = i.pipes /\ hidCh' = i.ch
  /\ hostState' = "CLASS_REQ"
  /\ UNCHANGED <<connected, unplugs, errorState, xferState, ctrlOut, ctrlIn, ctrlFaults,
                 hidReq, hidState, flagParse, expired, intBusy, intIssue, intPid, dat,
                 parsed, mouseSeat, printMouse, mouseNext, mouseTog, mouseHalted,
                 intFaults>>

-----------------------------------------------------------------------------
(* USBH_HID_ReqHandler: HID_REQ_Handler[s_classReqState], then, at         *)
(* CONFIGURED_OK, back to IDLE and the host goes to CLASS.                 *)

InReq == Main(Polled("CLASS_REQ"))
\* The four handlers that send a control request.  Their three branches
\* are the same code; they differ in the request the USBH_XFER_START
\* branch builds and the s_classReqState the USBH_XFER_OK branch sets.
Requests == {HidReqStates[i] : i \in 2..5}

\* HID_REQ_GetDevDescHandler: GET_DESCRIPTOR(HID, 9) to the interface.
GetDevDescHandler == [req |-> "GET_DESCRIPTOR", next |-> "GET_REQ_DEV_DESC"]
\* HID_REQ_GetReportDescHandler: GET_DESCRIPTOR(REPORT, 0x2E).
GetReportDescHandler == [req |-> "GET_DESCRIPTOR", next |-> "SET_IDLE"]
\* HID_REQ_SetIdleHandler: class request 0x0A, duration 0.
SetIdleHandler == [req |-> "SET_IDLE", next |-> "SET_PROTOCOL"]
\* HID_REQ_SetProtocolHandler: class request 0x0B, wValue 1 (report).
SetProtocolHandler == [req |-> "SET_PROTOCOL", next |-> "CONFIGURED_OK"]

HidReqHandler(r) ==
  CASE r = "GET_DEV_DESC"     -> GetDevDescHandler
    [] r = "GET_REQ_DEV_DESC" -> GetReportDescHandler
    [] r = "SET_IDLE"         -> SetIdleHandler
    [] r = "SET_PROTOCOL"     -> SetProtocolHandler

ReqAfter(r) == HidReqHandler(r).next

\* How the mouse answers the request of handler r: a request it does not
\* support is STALLed, which is no fault of the bus.
ReqAnswers(r) ==
  IF HidReqHandler(r).req \in MouseStalls THEN {"STALL"} ELSE CtrlAnswers

\* HID_REQ_IdleHandler.
ReqIdle ==
  /\ InReq /\ hidReq = "IDLE"
  /\ hidReq' = "GET_DEV_DESC"
  /\ UNCHANGED <<coreVars, hidState, hidCh, flagParse, expired, intBusy, intIssue,
                 intPid, dat, parsed, mouseSeat, printMouse, mouseNext, mouseTog,
                 mouseHalted, intFaults>>

\* The USBH_XFER_START branch of the four request handlers.
ReqStart ==
  /\ InReq /\ hidReq \in Requests /\ xferState = "START"
  /\ xferState' = "WAITING"
  /\ UNCHANGED <<connected, unplugs, hostState, errorState, pipes, ctrlOut, ctrlIn,
                 ctrlFaults, hidVars>>

\* The USBH_XFER_WAITING branch: COMPLETE gives OK; STALL and ERROR start
\* the request again, with no bound.
ReqDone ==
  /\ InReq /\ hidReq \in Requests /\ xferState = "WAITING"
  /\ \E o \in ReqAnswers(hidReq) :
       /\ xferState' = IF o = "COMPLETE" THEN "OK" ELSE "START"
       /\ ctrlFaults' = IF o = "COMPLETE" \/ HidReqHandler(hidReq).req \in MouseStalls
                        THEN ctrlFaults ELSE ctrlFaults + 1
  /\ UNCHANGED <<connected, unplugs, hostState, errorState, pipes, ctrlOut, ctrlIn,
                 hidVars>>

\* Mutant: at CONFIGURED_OK the host is not moved on to CLASS.
ReqOKNoClass ==
  /\ InReq /\ hidReq \in Requests /\ xferState = "OK"
  /\ xferState' = "START"
  /\ IF ReqAfter(hidReq) = "CONFIGURED_OK"
     THEN hidReq' = "IDLE" /\ UNCHANGED hostState
     ELSE hidReq' = ReqAfter(hidReq) /\ UNCHANGED hostState
  /\ UNCHANGED <<connected, unplugs, errorState, pipes, ctrlOut, ctrlIn, ctrlFaults,
                 hidState, hidCh, flagParse, expired, intBusy, intIssue, intPid, dat,
                 parsed, mouseSeat, printMouse, mouseNext, mouseTog, mouseHalted,
                 intFaults>>

\* The USBH_XFER_OK branch, and the CONFIGURED_OK test after it in
\* USBH_HID_ReqHandler.
ReqOK ==
  /\ InReq /\ hidReq \in Requests /\ xferState = "OK"
  /\ xferState' = "START"
  /\ IF ReqAfter(hidReq) = "CONFIGURED_OK"
     THEN hidReq' = "IDLE" /\ hostState' = "CLASS"
     ELSE hidReq' = ReqAfter(hidReq) /\ UNCHANGED hostState
  /\ UNCHANGED <<connected, unplugs, errorState, pipes, ctrlOut, ctrlIn, ctrlFaults,
                 hidState, hidCh, flagParse, expired, intBusy, intIssue, intPid, dat,
                 parsed, mouseSeat, printMouse, mouseNext, mouseTog, mouseHalted,
                 intFaults>>

-----------------------------------------------------------------------------
(* USBH_HID_CoreHandler: HID_Handler[s_classState]; the application        *)
(* handler after it does nothing to this state.                            *)

InClass == Main(Polled("CLASS"))

\* HID_IdleHandler.
HidIdleH ==
  /\ InClass /\ hidState = "IDLE"
  /\ hidState' = "SYNC"
  /\ UNCHANGED <<coreVars, hidReq, hidCh, flagParse, expired, intBusy, intIssue, intPid,
                 dat, parsed, mouseSeat, printMouse, mouseNext, mouseTog, mouseHalted,
                 intFaults>>

\* HID_SyncHandler on an even frame (on an odd one it changes nothing).
HidSyncH ==
  /\ InClass /\ hidState = "SYNC"
  /\ hidState' = "GET_DATA"
  /\ UNCHANGED <<coreVars, hidReq, hidCh, flagParse, expired, intBusy, intIssue, intPid,
                 dat, parsed, mouseSeat, printMouse, mouseNext, mouseTog, mouseHalted,
                 intFaults>>

\* Mutant: the poll is sent without USBH_ToggleDataPid.
InterruptInDataNoToggle(t) == t

\* The pidToggle USBH_InterruptInData leaves: USBH_ToggleDataPid flips it
\* once the dataPid of the poll has been read from it.
InterruptInDataToggle(t) == 1 - t

\* HID_GetDataHandler up to the channel enable inside USBH_InterruptInData.
HidGetData ==
  /\ InClass /\ hidState = "GET_DATA"
  /\ intPid' = pipes[hidCh].tog
  /\ pipes' = [pipes EXCEPT ![hidCh].tog = InterruptInDataToggle(@)]
  /\ intBusy' = TRUE /\ intIssue' = TRUE
  /\ UNCHANGED <<connected, unplugs, hostState, errorState, xferState, ctrlOut, ctrlIn,
                 ctrlFaults, hidReq, hidState, hidCh, flagParse, expired, dat, parsed,
                 mouseSeat, printMouse, mouseNext, mouseTog, mouseHalted, intFaults>>

\* The rest of that call: urbStatus = IDLE after the enable, then
\* flagParseHID = 1, POLL, and hidTimer is read.
HidIssued ==
  /\ intIssue
  /\ pipes' = [pipes EXCEPT ![hidCh].urb = "IDLE"]
  /\ intIssue' = FALSE /\ flagParse' = 1 /\ hidState' = "POLL" /\ expired' = FALSE
  /\ UNCHANGED <<connected, unplugs, hostState, errorState, xferState, ctrlOut, ctrlIn,
                 ctrlFaults, hidReq, hidCh, intBusy, intPid, dat, parsed, mouseSeat,
                 printMouse, mouseNext, mouseTog, mouseHalted, intFaults>>

\* HID_PollHandler reads xferPipe[2], not xferPipe[hidDataInChannel].
PollUrb == pipes[2].urb

\* HID_PollHandler once HID_POLL_TIME frames have passed (or the frame
\* counter wrapped): poll again.
HidPollTimeout ==
  /\ InClass /\ hidState = "POLL" /\ expired
  /\ hidState' = "GET_DATA"
  /\ UNCHANGED <<coreVars, hidReq, hidCh, flagParse, expired, intBusy, intIssue, intPid,
                 dat, parsed, mouseSeat, printMouse, mouseNext, mouseTog, mouseHalted,
                 intFaults>>

\* dat[] as ParseMouseData reads it: zeros before the first report.
ReportBytes(r) == IF r = 0 THEN [button |-> 0, x |-> 0] ELSE MouseReport[r]

MouseSeatNextNoClamp(seat, x) ==
  CASE x >= 128 -> IF seat > 0 THEN seat - 1 ELSE 0
    [] x > 0    -> seat + 1
    [] OTHER    -> seat

\* The cursor move of ParseMouseData: x is a uint8_t holding a signed
\* movement; bit 7 set moves the cursor left, any other non-zero value
\* right, and mouseSeat stays within 0..17.
MouseSeatNext(seat, x) ==
  CASE x >= 128 -> IF seat > 0 THEN seat - 1 ELSE 0
    [] x > 0    -> IF seat < 17 THEN seat + 1 ELSE 17
    [] OTHER    -> seat

\* printMouse as ParseMouseData leaves it: twenty dots and a line feed,
\* 'o' at 0 for the left button (bit 0) and at 19 for the right (bit 1),
\* then '|' at seat + 1, written last.  Nothing is written at index 21.
PrintMouseLine(button, seat) ==
  [i \in 0..20 |->
     CASE i = seat + 1                      -> "|"
       [] i = 20                            -> "LF"
       [] i = 0 /\ button % 2 = 1           -> "o"
       [] i = 19 /\ (button \div 2) % 2 = 1 -> "o"
       [] OTHER                             -> "."]

\* ParseMouseData(dat): the new mouseSeat and printMouse (mouseData.y is
\* read and never used).
ParseMouseData(seat, r) ==
  LET s == MouseSeatNext(seat, ReportBytes(r).x)
  IN [seat |-> s, line |-> PrintMouseLine(ReportBytes(r).button, s)]

\* HID_PollHandler before that, on URB_OK: ParseMouseData once per poll.
HidPollOk ==
  /\ InClass /\ hidState = "POLL" /\ ~expired /\ PollUrb = "OK" /\ flagParse = 1
  /\ flagParse' = 0 /\ parsed' = Append(parsed, dat)
  /\ mouseSeat' = ParseMouseData(mouseSeat, dat).seat
  /\ printMouse' = ParseMouseData(mouseSeat, dat).line
  /\ UNCHANGED <<coreVars, hidReq, hidState, hidCh, expired, intBusy, intIssue, intPid,
                 dat, mouseNext, mouseTog, mouseHalted, intFaults>>

\* USB_OTG_H_ReadEpNum(2), the wIndex of the CLEAR_FEATURE: the 4-bit
\* EDPNUM field of channel 2, the endpoint number without its direction bit.
ClearFeatureIndex == HidInEp % 16

\* The mouse's answers to CLEAR_FEATURE(ENDPOINT_HALT) for endpoint wIndex.
\* For an endpoint other than its interrupt IN one it has nothing to clear:
\* a boot mouse has no endpoint 0x01 and STALLs the request (a Request
\* Error, USB 2.0 9.4), and a mouse with an OUT endpoint 1 completes it.
ClearHaltAnswers(idx) ==
  IF idx = HidInEp THEN CtrlAnswers ELSE CtrlAnswers \cup {"STALL"}

\* HID_PollHandler on URB_STALL: CLEAR_FEATURE(ENDPOINT_HALT) through the
\* shared control.xferState, then poll again.  pidToggle is left as it is.
\* Only a request that names the halted endpoint clears it; a STALL that
\* the mouse gives for another endpoint is its fixed answer, not a fault.
HidPollStall ==
  /\ InClass /\ hidState = "POLL" /\ ~expired /\ PollUrb = "STALL"
  /\ \/ /\ xferState = "START" /\ xferState' = "WAITING"
        /\ UNCHANGED <<ctrlFaults, hidState, mouseTog, mouseHalted>>
     \/ /\ xferState = "WAITING"
        /\ \E o \in ClearHaltAnswers(ClearFeatureIndex) :
             /\ xferState' = IF o = "COMPLETE" THEN "OK" ELSE "START"
             /\ ctrlFaults' = IF o = "COMPLETE" \/ (o = "STALL" /\ ClearFeatureIndex # HidInEp)
                              THEN ctrlFaults ELSE ctrlFaults + 1
             /\ IF o = "COMPLETE" /\ ClearFeatureIndex = HidInEp
                THEN mouseHalted' = FALSE /\ mouseTog' = 0
                ELSE UNCHANGED <<mouseHalted, mouseTog>>
        /\ UNCHANGED hidState
     \/ /\ xferState = "OK" /\ xferState' = "START" /\ hidState' = "GET_DATA"
        /\ UNCHANGED <<ctrlFaults, mouseTog, mouseHalted>>
  /\ UNCHANGED <<connected, unplugs, hostState, errorState, pipes, ctrlOut, ctrlIn,
                 hidReq, hidCh, flagParse, expired, intBusy, intIssue, intPid, dat,
                 parsed, mouseSeat, printMouse, mouseNext, intFaults>>

\* HID_POLL_TIME frames pass.  An interrupt poll ends within a frame, so
\* the channel is idle by then.  Unless the loop may be late, the ten
\* frames are enough for HID_PollHandler to see a report received in time
\* and to finish the CLEAR_FEATURE transfer after a STALL.
Tick ==
  /\ hidState = "POLL" /\ ~expired /\ ~intBusy
  /\ \/ LatePolls
     \/ ~(PollUrb = "OK" /\ flagParse = 1) /\ PollUrb # "STALL"
  /\ expired' = TRUE
  /\ UNCHANGED <<coreVars, hidReq, hidState, hidCh, flagParse, intBusy, intIssue,
                 intPid, dat, parsed, mouseSeat, printMouse, mouseNext, mouseTog,
                 mouseHalted, intFaults>>

-----------------------------------------------------------------------------
(* The interrupt IN channel's interrupt and the mouse behind it.           *)

\* USBH_IN_HostChannelIsrHandler for one poll of an interrupt channel.
\* TSFCMPN stores URB_OK with no halt.  A STALL (from a halted mouse, or
\* one that halts now), a NAK (the mouse has no report), a transaction
\* error or a toggle error halts the channel, and TSFCMPAN flips pidToggle
\* back.  A packet whose DATA0/DATA1 is not intPid is acknowledged and
\* dropped (the DTOG branch, then the NAK branch through intNak): the
\* mouse takes it as delivered.  A handshake lost on the wire leaves the
\* mouse to send the same report again.
IntInDone ==
  LET back == [pipes EXCEPT ![hidCh].tog = 1 - @]
      has == mouseNext <= MaxReports
      fault == intFaults < MaxIntFaults
  IN
  /\ intBusy /\ connected /\ (intIssue => IntIsrPreempts)
  /\ \/ /\ mouseHalted \/ fault
        /\ pipes' = [back EXCEPT ![hidCh].urb = "STALL"] /\ mouseHalted' = TRUE
        /\ intFaults' = IF mouseHalted THEN intFaults ELSE intFaults + 1
        /\ UNCHANGED <<dat, mouseNext, mouseTog>>
     \/ /\ ~mouseHalted /\ has /\ mouseTog = intPid
        /\ pipes' = [pipes EXCEPT ![hidCh].urb = "OK"] /\ dat' = mouseNext
        /\ \/ mouseNext' = mouseNext + 1 /\ mouseTog' = 1 - mouseTog
              /\ UNCHANGED intFaults
           \/ fault /\ intFaults' = intFaults + 1
              /\ UNCHANGED <<mouseNext, mouseTog>>
        /\ UNCHANGED mouseHalted
     \/ /\ ~mouseHalted /\ has /\ mouseTog # intPid
        /\ pipes' = back
        /\ mouseNext' = mouseNext + 1 /\ mouseTog' = 1 - mouseTog
        /\ UNCHANGED <<dat, mouseHalted, intFaults>>
     \/ /\ ~mouseHalted /\ ~has
        /\ pipes' = back
        /\ UNCHANGED <<dat, mouseNext, mouseTog, mouseHalted, intFaults>>
     \/ /\ ~mouseHalted /\ fault /\ intFaults' = intFaults + 1
        /\ pipes' = [back EXCEPT ![hidCh].urb = "ERROR"]
        /\ UNCHANGED <<dat, mouseNext, mouseTog, mouseHalted>>
  /\ intBusy' = FALSE
  /\ UNCHANGED <<connected, unplugs, hostState, errorState, xferState, ctrlOut, ctrlIn,
                 ctrlFaults, hidReq, hidState, hidCh, flagParse, expired, intIssue,
                 intPid, parsed, mouseSeat, printMouse>>

HidUnplug == Unplug /\ UNCHANGED hidVars
HidPlug == Plug /\ UNCHANGED hidVars

-----------------------------------------------------------------------------
\* g_usbHost after USBH_Init; the HID globals are zero at start-up.
HidInit ==
  /\ CoreInit
  /\ hidReq = "IDLE" /\ hidState = "IDLE" /\ hidCh = 0 /\ flagParse = 0
  /\ expired = FALSE /\ intBusy = FALSE /\ intIssue = FALSE /\ intPid = 0
  /\ dat = 0 /\ parsed = <<>>
  /\ mouseNext = 1 /\ mouseTog = 0 /\ mouseHalted = FALSE /\ intFaults = 0
  /\ mouseSeat \in MouseSeats /\ printMouse = [i \in 0..20 |-> "NUL"]

\* One call of USBH_PollingProcess.
HostStep ==
  \/ HidDetach \/ HidCoreStep \/ HidEnumH \/ ClassInit
  \/ ReqIdle \/ ReqStart \/ ReqDone \/ ReqOK
  \/ HidIdleH \/ HidSyncH \/ HidGetData \/ HidIssued
  \/ HidPollTimeout \/ HidPollOk \/ HidPollStall

HidNext == HostStep \/ Tick \/ IntInDone \/ HidUnplug \/ HidPlug

\* The main loop polls without end; frames pass; an enabled interrupt
\* channel ends its poll within a frame.
HidSpec ==
  /\ HidInit /\ [][HidNext]_vars
  /\ WF_vars(HostStep) /\ WF_vars(Tick) /\ WF_vars(IntInDone)

-----------------------------------------------------------------------------
(* Properties.                                                             *)

\* ParseMouseData sees each report at most once and in the order the
\* mouse sent them: flagParseHID, the urbStatus = IDLE store of
\* USBH_InterruptInData and the pidToggle handling of the poll and the
\* channel ISR keep a report that was received, or sent again after a
\* lost handshake, from being parsed twice.
ReportsOnceInOrder ==
  \A i, j \in DOMAIN parsed : i < j => parsed[i] < parsed[j]

\* Every report the mouse has taken as delivered has been parsed, but for
\* the one in dat[] that HID_PollHandler may still parse: the poll is
\* being issued, or URB_OK waits with flagParseHID set.
ReportsNotLost ==
  \A r \in 1..(mouseNext - 1) :
    \/ \E i \in DOMAIN parsed : parsed[i] = r
    \/ /\ r = dat
       /\ \/ intIssue
          \/ hidState = "POLL" /\ flagParse = 1 /\ PollUrb = "OK"

\* A mouse that never halts its interrupt endpoint gets its reports
\* through: plugged in from the start, its last report reaches
\* ParseMouseData; plugged in again after an unplug (which may take a
\* report received and not yet parsed with it), the host polls it until it
\* has sent them all.  However polls end (data, NAK, error, a lost
\* handshake), the class request sequence, flagParseHID and the
\* HID_POLL_TIME timer keep the host polling and parsing.  A halted
\* endpoint is left out: the CLEAR_FEATURE of HID_PollHandler names
\* endpoint 0x01 and never clears it (ReportsDeliveredThroughHalt).
ReportsDelivered ==
  /\ ([]connected /\ []~mouseHalted) => <>(parsed # <<>> /\ parsed[Len(parsed)] = MaxReports)
  /\ (<>[]connected /\ []~mouseHalted) => <>(mouseNext > MaxReports)

\* The same, for a mouse that may halt its endpoint once.
ReportsDeliveredThroughHalt ==
  []connected => <>(parsed # <<>> /\ parsed[Len(parsed)] = MaxReports)

\* After each ParseMouseData call the line it prints shows the report it
\* parsed: the cursor strictly inside the bar, where the saturating moves
\* put it, and both button marks at the ends, neither overwritten by it.
MouseLineShowsReport ==
  parsed # <<>> =>
    LET rep == ReportBytes(parsed[Len(parsed)]) IN
    /\ mouseSeat + 1 \in 1..18
    /\ printMouse[mouseSeat + 1] = "|"
    /\ printMouse[0] = IF rep.button % 2 = 1 THEN "o" ELSE "."
    /\ printMouse[19] = IF (rep.button \div 2) % 2 = 1 THEN "o" ELSE "."

\* Every channel the session works with is allocated to its endpoint.
SessionPipesOwned == PipesOwned(SessionPipesOf({<<hidCh, HidInEp>>}))
=============================================================================
