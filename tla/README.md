# TLA+ models of the APM32F10x USB OTG library and USART DMA example

This directory holds TLA+ models of the code under
`src/APM32F10x_SDK_V1.8/`:
- the USB OTG host and device stacks in `Libraries/USB_OTG_Lib`;
- the USART idle-interrupt DMA echo example in `Examples/USART/USART_Interrupt`.

It also holds the TLC configurations that check the models. `PROJECT.json`
lists, in machine-readable form:
- the components;
- the runs;
- the mutants that show each checked property can fail;
- the map from every TLA+ definition to the source lines it translates;
- the findings;
- the hazards.

Paths below are relative to `src/APM32F10x_SDK_V1.8/Libraries/USB_OTG_Lib/`
unless they say otherwise.

## 1. Inventory

### Components and their state

| Component | Source | State it keeps |
|---|---|---|
| Host control-transfer machine | `Core_Host/Standard/src/usbh_dataXfer.c` | `s_curXferState`, `s_preXferState` (static), `g_usbHost.control.ctrlState`, `errCnt` (uint8), `reqData` |
| Host channel bookkeeping | `usbh_channel.c`, `g_usbHost.xferPipe[12]` | per channel: `channelUsedFlag`, `epAddr`, `buf/bufLen/bufCount`, `urbStatus`, `pipeState`, `pidToggle`, `dataPid`, `maxPackSize` |
| Host interrupt dispatcher | `usbh_interrupt.c` | writes `urbStatus`, `pipeState`, `pidToggle`, buffer cursors; `connectedFlag`, `portEnable` |
| Host enumeration | `usbh_enum.c` | `control.enumState`, `control.xferState` (START/WAITING), `devAddress`, descriptors |
| Host standard requests and descriptor parser | `usbh_stdReq.c` | fills `reqData`, and parses configuration descriptors into interface and endpoint tables |
| Host core | `usbh_core.c`, `usbh_init.c` | `curHostState` (IDLE / DEV_ATTACHED / DEV_DETACHED / ENUM / USER_INPUT / CLASS_REQ / CLASS / ERROR), `errorState` |
| Host OTG driver | `Driver/src/drv_usb_host.c` | channel registers: enable/disable, packet count, PID, interrupt masks |
| Host class drivers | `Core_Host/Class/src/usbh_class_{msc,cdc,hid}.c` | class request state, BOT state, retry counters |
| Device EP0 engine | `Core_Device/Standard/src/usbd_core.c` | `ctrlState`, EP0 `inBuf`/`outBuf` (`pBuf`, `bufLen`, `packNum` uint8, `zeroPackFill`, `xferCnt`) |
| Device standard requests | `usbd_stdReq.c` | `devState` (DEFAULT/ADDRESS/CONFIGURED/SUSPENDED), `curConfiguration`, `curFeature`, `curInterface`, `curAlternateSetting` |
| Device interrupt dispatcher | `usbd_interrupt.c` | reset/suspend/resume/enum-done transitions, RxFIFO pops into EP buffers |
| Device init and driver | `usbd_init.c`, `Driver/src/drv_usb_device.c`, `drv_usb.c` | endpoint registers (active, enabled, packet count, size, interrupt masks), TxFIFO depths; data endpoints' `inBuf`/`outBuf` in `g_usbDev` |
| FIFO packing | `Driver/src/usb_fifo.c` | none: byte/word copy to and from the FIFO |
| USART DMA echo | `Examples/USART/USART_Interrupt/Source/main.c` | `uart_tx_buf`, `uart_rx_buf` (256 bytes), DMA1 channel 4 (TX) and 5 (RX) counts and enables |
| Board glue and FatFs disk glue | `Boards/...`, `Middlewares/fat_fs/source/diskio.c` | none of interest |

### How they interact

The host runs in two contexts:
- **Foreground.** `USBH_PollingProcess` is called from the main loop. It runs the host core state, which runs an enumeration handler, which calls `USBH_ControlXferHandler` once per poll.
- **Interrupt.** `USBH_OTG_IsrHandler` is the single OTG interrupt.

The two contexts communicate only through `g_usbHost.xferPipe[ch]`. The foreground programs a channel and sets `urbStatus = IDLE`. The interrupt reacts to raw channel flags in two steps:
1. It records `pipeState` and requests a halt.
2. When the channel has halted (TSFCMPAN), it turns `pipeState` into `urbStatus`.

The foreground polls `urbStatus` to advance.

A control transfer uses two channels, allocated at attach (`USBH_DevAttachedHandler`): the OUT channel carries SETUP, DATA_OUT and STATUS_OUT, and the IN channel carries DATA_IN and STATUS_IN.

The device side is driven entirely by its interrupt. A SETUP packet goes into `USBD_SetupProcess` and then the standard-request engine, which answers through `USBD_CtrlInData` / `USBD_CtrlOutData` / status stages. Bus reset, suspend and resume change `devState`.

The USART example is independent of USB. The IDLE-line interrupt stops RX DMA, computes the received length, and echoes the bytes through TX DMA (`send_data`).

### Hard behaviours

- **Interrupt against foreground.** The handlers store to shared pipe state after enabling a channel. A completion interrupt can land in that window.
- **Two-step completion.** A raw flag is followed by a halt and then TSFCMPAN. The foreground must not act on a channel that is still halting.
- **Device faults.** A device can answer NAK, STALL, a transaction error or a data toggle error. The retry paths are the code's error handling.
- **Unbounded polling.** The code busy-polls with no timeout, so a lost status is a hang rather than an error.
- **Detach at any point.** A detach resets the host, except for static state.
- **Device-side sequences.** Suspend and resume, and reset in the middle of a control transfer.
- **USART DMA.** The TX DMA is reloaded while it is still sending, and RX DMA is stopped and restarted while bytes arrive.

### What makes each component correct (properties)

- **Control transfer:**
  - the phase order of spec §8;
  - COMPLETE only after the device acknowledged every phase;
  - no phase reprograms a busy channel;
  - a STALL reported only for a device stall;
  - every request eventually completes when the device has finitely many faults.
- **Enumeration:** the request sequence of spec §4.7, and reaching CONFIGURED under a well-behaved device.
- **Host session:** after a detach and re-attach, enumeration can still complete.
- **Channel pool:**
  - a channel is never owned twice;
  - allocation fails only when the pool is full;
  - a freed channel is reset.
- **Config descriptor parser:** agrees with a reference parse, terminates, and never drops an endpoint that fits the table.
- **Device EP0:**
  - the number of packets sent equals ceil(len/mps), plus one ZLP exactly when the spec's rule asks for it;
  - a state left over from one request does not leak into the next.
- **Device state:** CONFIGURED is reached only through SET_CONFIGURATION, and SET_ADDRESS in CONFIGURED changes nothing.
- **USART echo:** every received frame is echoed whole and in order, and none is lost.

## 2. Plan

The modules are listed in order of importance:
1. **HostCtrlXfer** (built) covers:
   - the control phase machine;
   - the IN and OUT channel ISR for control channels;
   - the START/WAITING caller pattern;
   - the channel hardware and the device as environment.
2. **HostSession** (built) EXTENDS HostCtrlXfer and adds host core attach, detach and idle, the port and disconnect interrupts, and channel free on detach.
3. **HostEnum** (built) covers the enumeration sequence of `usbh_enum.c` (the iSerialNumber skip and the channel re-open after the first descriptor included), the request builders it calls and `USBH_ParseCfgDesc` as a RECURSIVE operator checked against a reference table. A control transfer is one step; HostCtrlXfer models the phases under it.
4. **UsartDmaEcho** (built) covers the IDLE ISR, `send_data`, both DMA channels, and the line as environment.
5. **DeviceCtrl** (built) covers EP0 control transfers, every standard request with the device state it keeps, the CDC class request handler, and the device interrupt handler's EP0, reset, suspend and resume paths.
6. **CfgDescParser** (folded into HostEnum): the parser is checked there over three configuration layouts, received whole or short.
7. **HostCore** (built) covers the host core state machine from attach to the class handlers, `USBH_DeInit` and the channel pool of `usbh_channel.c`. Enumeration and each control transfer are one step, because HostEnum and HostCtrlXfer model them.
8. **HostMsc** (built) extends HostCore with the MSC class driver: the class request machine (`GetMaxLun` stall retry, BOT reset, control-error recovery) and the core machine over the SCSI commands.
9. **HostCdc** (built) extends HostCore with the CDC class driver, its bulk transfers and the bulk channel interrupts. It refines **CdcStream**, the byte stream the driver promises.
10. **HostClass** (built) composes HostMsc, HostCdc and HostHid over one host core, as `USBH_Init` installs one of them.
11. **HostHid** (built) extends HostCore with the HID mouse driver, `USBH_InterruptInData` and the interrupt IN channel interrupt.
12. **HostChanData** (built) covers the data path under one host channel: the transfer starters, the driver's packet count and TxFIFO check, the FIFO interrupt handlers and FIFO packing, and the FIFO flushes of the detach path.
13. **DeviceEpData** (built) covers the device library on a data endpoint: `USBD_Init`'s endpoint reset, opening the endpoint, `USBD_RxData`, `USBD_TxData`, `USBD_PushDataToTxFIFO` and the endpoint-1 paths of the device interrupt handler.
14. **BulkLink** (built) composes HostChanData and DeviceEpData on the bus: the host's bulk transfers go to the device's endpoint 1.

Abstract specifications worth stating:
- **ControlTransfer**: a request is started and later completes or fails. HostCtrlXfer should refine it, with the caller's view of `xferState` and `ctrlState` as the mapping.
- **EnumerationOrder** for HostEnum: the requests issued follow the §4.7 sequence.
- **EchoChannel**: the received frames appear on TX in order.
- **CdcStream** (built): the bytes handed to the CDC driver reach the device in order and once each. HostCdc refines it.

## 3. Modules and runs

### HostCtrlXfer (`HostCtrlXfer.tla`, instantiated by `MC_HostCtrlXfer.tla`)

State:
- `curXfer` and `preXfer` are `s_curXferState` and `s_preXferState`.
- `ctrlState` and `errCnt` are the fields of `g_usbHost.control`.
- `xferState` and `req` are the calling ENUM handler's `xferState` and `reqData`. The request is abstracted to its direction and whether wLength is zero.
- `pipe[c]` holds `urbStatus`, `pipeState` and `pidToggle` of the two control channels (`c` is "OUT" or "IN").
- `hch[c]` is the channel hardware: IDLE / ACTIVE / HALTING, one pending raw interrupt flag, and the phase it carries.
- `fg` marks the window inside a phase handler between the channel enable and the `urbStatus = IDLE` store.
- `issued` and `acked` are history variables: the phases started and the phases acknowledged by the device in the current attempt.

Actions:
- `CallerStart`: the START branch of an ENUM handler.
- `IssuePhase(ph)` and `FinishIssue(ph)`: the two halves of `USBH_CtrlXfer{Setup,OutData,InData,OutStatus,InStatus}` together with `USBH_CtrlSetupReq`, `USBH_CtrlOutData` and `USBH_CtrlInData`. The halves are split at the channel enable.
- `WaitUrb`: `USBH_CtrlXferWaitUrbState` together with the caller's switch on its result. It has one disjunct per `urbStatus` case.
- `IN_HostChannelIsr` and `OUT_HostChannelIsr`: the channel handlers, one raw flag per invocation.
- Environment: `DeviceAnswers(c)` (ACK or a fault, with at most `MaxFaults` faults) and `HaltDone(c)` (the halted channel raises TSFCMPAN).

Constants:
- `Faults`: the faults the device may produce.
- `MaxFaults`: the bound on the number of faults.
- `IsrPreemptsIssue`: whether the ISR may run inside the enable-then-IDLE window.

Fairness: weak fairness on every action.
- The main loop calls the handlers continuously.
- The interrupt is taken while a flag is pending.
- The hardware finishes a halt.
- A device on an active channel answers.

Device faults are bounded by `MaxFaults`. Without that bound, a device that STALLs forever would make any liveness property fail trivially.

| Run | cfg | Expect | What it shows |
|---|---|---|---|
| ctrl_safety | `HostCtrlXfer_safety.cfg` | pass | All four faults (at most 2), with the ISR allowed anywhere. The phases follow the §8 order (`PhaseSequenceLegal`). COMPLETE implies every phase was ACKed in this attempt (`CompleteOnlyWhenAcked`). No phase is issued on a channel that is still active, halting or has a pending flag (`ChannelQuiescentWhenIssued`). The hang states of the violation runs below are terminal, so deadlock is not checked. |

Bounds:
- Two faults are enough for a fault to hit any phase and be followed by another one on the retry.
- All four request shapes are enumerated.
- One packet per phase is enough for the phase machine. Multi-packet transfers only loop inside the hardware and the RxFIFO handler, which do not change `urbStatus`.

That every request completes is checked in HostSession, whose `FirstSessionRequestsComplete` is the same promise up to the first unplug (run session_detect). That run keeps the ISR out of the enable-then-IDLE window and is limited to STALL and transaction errors. The window and two more faults hang the transfer, and the project keeps them as hazards with a reproduction rather than runs:
- The race. With `Faults = {}`, `MaxFaults = 0`, `IsrPreemptsIssue = TRUE` and `MaxUnplug = 0` in `HostSession_detect.cfg`, TLC finds `FirstSessionRequestsComplete` violated. The ISR completes a phase between the enable and the IDLE store of `USBH_CtrlSetupReq`, `USBH_CtrlOutData` or `USBH_CtrlInData` (`usbh_dataXfer.c:120`, 150, 179). Its URB_OK is overwritten and the wait state spins for ever. `USBH_BulkOutData` has the store before the enable, with the old order commented out; `USBH_BulkInData` has the same race (HostCdc).
- NAK on the OUT status stage. With `Faults = {"NAK"}`, `MaxFaults = 1` and `MaxUnplug = 0` in that cfg, TLC finds `FirstSessionRequestsComplete` violated. The OUT handler maps the NAK to URB_NOREADY, and the wait state handles NOREADY only after DATA_OUT (`usbh_dataXfer.c:537`).
- A transaction error reported as a STALL. `StallOnlyFromDevice` states that CTRL_STALL reaches the caller only when the device stalled. Checking it alone with `Faults = {"TERR"}`, `MaxFaults = 1` and `IsrPreemptsIssue = FALSE` makes TLC find it violated: URB_ERROR falls through to URB_STALL (`usbh_dataXfer.c:523`), so the retry budget and CTRL_ERROR are dead code.
- An IN data toggle error. With `Faults = {"DTOG"}` in the same cfg, TLC also finds `FirstSessionRequestsComplete` violated. `intNak` is sampled from the DTOG flag, so the NAK branch runs as well, pipeState becomes NAK, and no urbStatus is produced (`usbh_interrupt.c:519`).

### HostSession (`HostSession.tla`, instantiated by `MC_HostSession.tla`)

HostSession puts HostCtrlXfer inside the host core of `usbh_core.c`. The device can be unplugged and plugged in again.

State, added to HostCtrlXfer's:
- `hostState`, `connectedFlag` and `portEnable` are the fields of `g_usbHost`.
- `gintEnabled` stands for the interrupt masks and the global enable taken together. `USBH_DisconnectIsrHandler` clears all of them, and `USBH_DevDetachedHandler` sets them again.
- `dedisMask` is `GINTMASK.DEDISM`.
- `connPend`, `penChg`, `hwPortEn` and `dedisPend` are the pending connect flag, the port-enable-change flag, the port enable and the pending disconnect flag.
- `attached` and `unplugs` describe the user.

Actions:
- `PollReaches(st)` is the detach check of `USBH_PollingProcess`. The handler of `st` runs only when neither `connectedFlag` nor `portEnable` says the device is gone. Every foreground step of HostCtrlXfer runs only while the host is in ENUM.
- `FinishIssue` runs inside a handler call, so it is not guarded.
- The channel ISRs run only while `gintEnabled` is set.
- A device that is not attached answers nothing.
- `OtgPortIsr` is the HPORT and DEDIS part of one `USBH_OTG_IsrHandler` invocation, in the code's order. DEDIS may be unmasked by the HPORT branch of the same invocation.
- `IdleHandler`, `DevAttachedHandler` and `DevDetachedHandler` are the three handlers of the host core. The detach check and `USBH_DevDetachedHandler` run in the same call, and together they are one action.
- `PortReset` (`USB_OTG_PortReset`) enables the port only if a device is present.
- `Unplug` and `Plug` are the user. Unplugging raises DEDIS, and also PENCHG if the port was enabled.
- The user plugs the device in again only once the host is back in IDLE.

Constants:
- `MaxUnplug` bounds the number of unplugs.
- `EarlyUnplug` says whether an unplug may come before the host has seen the port enabled.

Fairness: weak fairness on every host and interrupt step and on `Plug`, as in HostCtrlXfer. `Unplug` is not fair.

| Run | cfg | Expect | What it shows |
|---|---|---|---|
| session_detect | `HostSession_detect.cfg` | pass | With up to 2 unplugs at any point once the port is enabled, and up to 3 device STALLs or transaction errors, every unplug brings the host back to IDLE (`UnplugDetected`), and until the first unplug every control transfer an enumeration handler starts completes (`FirstSessionRequestsComplete`): the phase machine, the channel ISRs and the handlers' retry never wait on each other for ever. The hang states of the stale-transfer run are terminal, so deadlock is not checked. |
| session_stale_xfer | `HostSession_stale.cfg` | violation | One unplug during a transfer. `USBH_DevDetachedHandler` does not reset `s_curXferState`, so after re-attach the first request starts in WAIT_URB on a freed pipe and waits forever (`ReattachCompletes`). |

Bounds:
- Two unplugs allow an unplug, a re-attach and a second unplug during the re-enumeration.
- Three faults let STALLs and transaction errors hit several phases of one request and its retries, and reach the error paths during a session.

A further defect is kept as a hazard. An unplug before the port-enable interrupt finds DEDIS still masked and the port never enabled, so `connectedFlag` stays 1 and the detach is never noticed. Setting `EarlyUnplug = TRUE` in a copy of `HostSession_detect.cfg` makes TLC find `UnplugDetected` violated.

Only full-speed devices are modelled. For them the port-enable branch does not reset the port again, because the clock already matches.

### UsartDmaEcho (`UsartDmaEcho.tla`, instantiated by `MC_UsartDmaEcho.tla`)

This module models `Examples/USART/USART_Interrupt/Source/main.c`. Receive DMA (channel 5) fills `uart_rx_buf`. On the IDLE interrupt, `USART1_Isr` measures what was received, copies it into `uart_tx_buf` with `send_data`, and sends it back through TX DMA (channel 4).

**Time.** Time is counted in character times: one `Tick` moves one character on each wire. Code runs in no time against a character, so a tick can happen only while the CPU spins in a TXBE wait or idles in `while (1)` (`CodeReady`). Both DMA channels serve a request within the step that raised it.

**Bytes.** A byte is an integer:
- the k-th byte the peer sends is `k`;
- banner byte i is `-i`;
- the initial zeros of the buffers are `0`.

State:
- The peer: `frames`, `toSend` and `gap`.
- USART1: `rxFull` and `rdr` (the receive register), `idleArm` and `idleFlag` (IDLE detection), `txq` (shift register and data register) and `out` (the TX wire).
- DMA1: `ch5` and `ch4`.
- The buffers: `rx_buf` and `tx_buf`.
- The program: `mainPc`, `isrPc` and `tmp_len`.

Actions:
- `MainCopy` … `MainEnable` are the statements of main's `send_data` of the banner.
- `IsrEnter` is lines 175-181 up to the TXBE wait. `IsrSend` is the rest, including line 182.
- `TickByte`, `TickFrame(len)` and `TickIdle` are the peer and the wire.
- The hardware rules follow the DMA and USART behaviour the code relies on:
  - `DMA_ConfigDataNumber` is ignored while a channel is enabled.
  - Enabling a channel restarts it at its base address.
  - Reading the data register after the status register clears IDLE and RXBNE.
  - A byte that arrives while the data register is full is lost.

Fairness: weak fairness on the program, the ISR, the wire and the end of a frame. The peer is not obliged to start a frame.

| Run | cfg | Expect | What it shows |
|---|---|---|---|
| usart_echo | `UsartDmaEcho_echo.cfg` | pass | Buffers of 5 and up to four frames of 1, 2, 5 or 6 bytes, short frames among them arriving while the echo of a long one is still on the wire. The echo never repeats, reorders or invents a byte (`EchoInOrder`). Frames one byte too long lose only their tail. TX and RX share the baud rate, so a short frame's IDLE comes when the previous echo's unread bytes lie beyond the short frame's length, and the copy before the wait in `send_data` overwrites nothing still to be sent. |
| usart_first_frame | `UsartDmaEcho_first.cfg` | violation | `config_dma` never enables channel 5. The first frame overruns the data register, and the first IDLE echoes `tmp_len = 0` bytes (`EveryFrameEchoed`). |

Bounds:
- `MAX_LEN = 4` stands for 256, and `BannerLen = 2` stands for 14.
- Frames of up to `MAX_LEN + 1` bytes reach both the full-buffer and the overflow cases.
- Four frames let a short frame follow a long one while its echo is still being sent, and a third frame come during the ISR's wait.

Frames are lost as well as truncated. `LaterFramesEchoed` says that every frame after the first that fits the buffer is echoed whole, and it does not hold. In `UsartDmaEcho_overlap.cfg`, TLC breaks it at the fourth frame:
- a 1-byte frame arrives while the echo of a 5-byte frame is still being sent;
- `USART1_Isr` spins in `send_data` on TXBE with channel 5 disabled (`main.c:163`, lines 178-182);
- the next frame's second byte comes during the spin and is lost to an overrun.

No run slot is left for this reproduction; it is the hazard at `main.c:163`. The model takes TXBE as seen only once channel 4 has nothing more to give. A spin that catches TXBE between two DMA writes, and cuts the echo short, would lose more.

Not modelled: an IDLE interrupt that lands inside main's banner `send_data` between two statements, which needs a frame arriving during start-up. The model runs code in no time against a character, so an IDLE can land only in a TXBE wait; this start-up race would need a finer clock.

### DeviceCtrl (`DeviceCtrl.tla`, instantiated by `MC_DeviceCtrl.tla`)

DeviceCtrl models control transfers on endpoint 0 of the device stack (`Core_Device/Standard/src/`). The device runs entirely inside `USBD_OTG_IsrHandler`. The host is an environment that follows chapters 8 and 9 of USB 2.0.

State:
- `dev` is one record. It holds the EP0 fields of `g_usbDev`:
  - `ctrlState`;
  - `inBuf`, with `bufLen`, `packNum` (uint8, wraps at 256) and `zeroPackFill`;
  - `outBuf`, with its `pBuf` cursor `pos`;
  - `reqData`;
  - the device state of chapter 9: `devState`, `curConfiguration`, `curAlternateSetting` and the remote-wakeup feature.
- `dev` also holds the EP0 hardware: the IN endpoint's armed length, the one-packet TX FIFO, TXFE enabled, and the OUT endpoint armed. It also holds the pending flags (IN transfer complete, OUT transfer complete, SETUP done, bus reset, resume, suspend) and STALL.
- `rxq` is the receive FIFO.
- `hphase`, `hreq`, `hcount` and `rcvd` are the host's view of its current transfer. `hview` is the state the host believes the device is in, updated by chapter 9 when a request's status stage succeeds. `reqs` and `aborts` count SETUPs, `bus` counts resets and suspends.

Data are abstracted to packets `[id, off, len, val]`. A packet carries the id of the request whose buffer it was cut from and its offset in that buffer. A wrong or left-over packet is therefore visible. `val` is the value of a one- or two-byte reply (configuration, alternate setting, status). `inBuf.buf` names the buffer `pBuf` points into: a descriptor, `cmdBuf`, `curConfiguration`, `curAlternateSetting` or a stack array. `BufValue` reads it when the packet is pushed, as `USB_FIFO_WriteFifoPacket` does, not when the request is handled.

Actions:
- The code's handlers are operators from device record to device record, named after the functions they translate: `CtrlInData`, `CtrlOutData`, `CtrlInProcess`, `CtrlOutProcess`, `CtrlTxStatus`, `CtrlRxStatus`, `PushDataToTxFIFO`, `SetupProcess`, `StandardReqeust` with `GetDescriptor`, `GetConfiguration`, `GetInterface`, `GetStatus`, `SetAddress`, `SetConfiguration`, `SetFeature`, `ClearFeature` and `SetInterface`, the CDC `ClassHandler`, `OutEndpointIsr`, `InEndpointIsr`, `RxFifoNoEmpty`, `ResetIsr`, `ResumeIsr` and `SuspendIsr`. They compose in the order of the calls.
- `OTG_IsrHandler` is one invocation of `USBD_OTG_IsrHandler`. It runs the OUT endpoint part (transfer complete, then SETUP done), then the IN endpoint part (transfer complete, then TXFE into `PushDataToTxFIFO`), then pops one receive-FIFO entry, then takes a pending reset, resume and suspend in the order of the code (`BusIsr`). The IN part takes any value 0..3 for a stack read, since the bytes of a dead stack frame are whatever later calls left there.
- `ClassReqHandler` is `g_usbDev.classReqHandler`, the handler of the class driver `USBD_Init` installed (`cls`, one of `DevClasses`):
  - `ClassHandler` is the CDC handler: `wLength` bytes through `cmdBuf` in the request's direction;
  - `HidClassHandler` is `usbd_class_hid.c`: SET_IDLE keeps wValue's high byte, SET_PROTOCOL its low byte, GET_IDLE and GET_PROTOCOL answer one byte from those statics (`hidIdleState`, `hidProtocol`), anything else stalls;
  - `MscClassHandler` is `usbd_class_msc.c`: GET_MAX_LUN and BOT_RESET are answered only in the form the Bulk-Only Transport gives them (wValue 0, the right wLength and direction), anything else stalls. GET_MAX_LUN answers `STORAGE_MAX_LUN - 1` (`mscMaxLen`); `StorageMaxLun` is a constant, since the storage header is an application file not in the repository.
- `HostSetup(r)`, `HostIn` and `HostOut` are the host, with the core's answers: STALL, NAK when nothing is armed, or a packet. The host sends only the requests chapter 9 allows in the state it believes the device is in (`Allowed`).
- `HostReset`, `HostSuspend` and `HostResume` are the bus. A suspend comes only in a state of `SuspendStates`.

Requests:
- GET_DESCRIPTOR, with wLength shorter, equal or longer than the descriptor;
- the class requests of the installed class driver: CDC requests in both directions; HID SET_IDLE, GET_IDLE, SET_PROTOCOL and GET_PROTOCOL; MSC GET_MAX_LUN and BOT_RESET. The host sends a class request only to a configured device of that class, and a GET_IDLE or GET_PROTOCOL only once it has set the value since the last reset (`hview.idle` and `hview.proto` are -1, unknown, after a reset);
- SET_ADDRESS, SET_CONFIGURATION, GET_CONFIGURATION, GET_INTERFACE, SET_INTERFACE, GET_STATUS, SET_FEATURE and CLEAR_FEATURE (remote wakeup);
- an unsupported request, which is stalled.

Hardware assumptions:
- A SETUP clears STALL and sets NAK on both directions of EP0.
- The TX FIFO is not flushed on SETUP. Only `USBD_ResetIsrHandler` flushes it.
- TXFE is raised while the FIFO is empty, and the FIFO holds one packet of EP0.
- The host aborts a transfer (by sending a new SETUP), resets, suspends or resumes only when no device interrupt is pending. It sends a SETUP only once a reset or resume it signalled has been handled (reset and resume signalling last 10 and 20 ms). Host timeouts are milliseconds, and the handler takes microseconds.

Initial state: `g_usbDev` is zero-initialised, so `ctrlState` starts as `USBD_CTRL_STATE_IN_DATA`, the enum's first value, and `devState` starts as DEFAULT. The attach reset is pending.

Fairness: weak fairness on the interrupt handler (a pending interrupt is taken) and on the host's IN and OUT tokens (the host keeps polling a transfer it started). Sending another SETUP is the host's choice. The host stops after `MaxReqs` requests and the device then idles, so deadlock is not checked.

| Run | cfg | Expect | What it shows |
|---|---|---|---|
| device_ep0 | `DeviceCtrl_ep0.cfg` | pass | With a CDC, HID or MSC device, MPS 2, a descriptor of 2 bytes, wLength 0, 1 and 4, CDC requests of 0 and 3 bytes, the HID and MSC class requests, every standard request but GET_STATUS, up to 4 requests and 2 resets or suspends of the configured device, checks three things. Each data stage is exactly the request's own reply and value (the idle rate, protocol and LUN count included), with the trailing zero-length packet when a short reply is a multiple of MPS (`DataIntegrity`). Between transfers the device's state and configuration are the ones chapter 9 gives the host's history (`DeviceStateAgrees`). Every transfer ends (`TransferCompletes`). |
| device_stale_rxstatus | `DeviceCtrl_race.cfg` | violation | Well-formed CDC requests of 7 bytes and no abort. After an IN transfer `ctrlState` stays IN_DATA, so the status completion of a following SET_ADDRESS runs `USBD_CtrlRxStatus`. If that interrupt is handled after the next SETUP, it re-arms EP0 OUT. The OUT data of the next, stalled request are then written at the old cursor, past `cmdBuf` (`NoCmdBufOverrun`). |

Bounds:
- MPS 2 makes 3-byte class replies span two packets, and makes the 2-byte descriptor under wLength 4 need the zero-length packet. A 3-byte descriptor was dropped from the run: it adds no case the class replies do not reach, and doubled the run time.
- The three class drivers are checked in one run, each with its own requests; the race run keeps CDC alone.
- Four requests let an IN, a no-data and an OUT transfer follow each other, and let SET_ADDRESS, SET_CONFIGURATION and a request of the configured device follow a reset.
- Two bus events allow a reset after enumeration and a suspend and resume around it.
- In the race run MPS is 8 and the class length 7, as CDC line coding. The defect needs no malformed request.

A third defect is kept as a hazard rather than a run. The CDC handler passes `wLength` to `USBD_CtrlOutData` unchecked, with `cmdBuf` of 8 bytes (`usbd_class_cdc.c:81`). Setting `ClassLengths = {7, 9}` in `DeviceCtrl_race.cfg` makes TLC find `NoCmdBufOverrun` violated by a single class OUT request of 9 bytes.

Further defects kept as hazards, each with the way to reproduce it:
- `USBD_ResumeIsrHandler` sets CONFIGURED whatever the state before the suspend was (`usbd_interrupt.c:420`). `device_ep0` suspends only a configured device. With `SuspendStates = {"DEFAULT", "ADDRESS", "CONFIGURED"}`, `Kinds = {"GET_DESC", "SET_ADDRESS", "SET_CONFIGURATION"}` and `MaxBusEvents = 1`, TLC finds `DeviceStateAgrees` violated: a device suspended before it is configured is configured after the resume, without SET_CONFIGURATION.
- Nothing resets `ctrlState`, `inBuf` or the EP0 TX FIFO when a SETUP arrives (`usbd_core.c:130`). With `MaxAborts = 1`, `Kinds = {"GET_DESC", "SET_ADDRESS", "UNSUPPORTED"}` and `MaxReqs = 3` in a copy of `DeviceCtrl_ep0.cfg`, TLC finds `DataIntegrity` violated: after the host aborts an IN data stage, the packet already pushed stays in the FIFO and is the first packet of the next reply.
- `USBD_StandardGetStatus` passes its local array `status[]` to `USBD_CtrlInData`, which only stores the pointer; the bytes are copied after the function has returned (`usbd_stdReq.c:305`). Adding GET_STATUS to `Kinds` in `DeviceCtrl_ep0.cfg` (with `MaxReqs = 3`) makes TLC find `DataIntegrity` violated.
- `USBD_StandardSetFeature` compares the recipient with descriptor-type constants, so SET_FEATURE(DEVICE_REMOTE_WAKEUP) is stalled (`usbd_stdReq.c:461`), and the endpoint-halt branches of SET/CLEAR_FEATURE act only while `curConfiguration` is 0.
- `USBD_ResetIsrHandler` keeps `ctrlState`, the buffers and the configuration, and sets remote wakeup from bmAttributes.
- The HID handler's `s_hidProtocol` starts at 0, the boot protocol, and a bus reset does not set it back; HID 1.11 (7.2.6) has a device start in the report protocol. The modelled host asks for the protocol only after it has set it, so no property depends on the start value.

Not a hazard, since the model cannot reach it: `USBD_StandardGetInterface`, and `USBD_StandardSetInterface` for a non-interface recipient, return without a STALL, so the host waits for its own timeout (`usbd_stdReq.c:267`). The modelled host follows chapter 9 and never sends these requests in those cases.

Not modelled in DeviceCtrl:
- the other IN and OUT endpoints, and so the halt feature's effect and `curInterface`;
- string and qualifier descriptors (a GET_DESCRIPTOR of another size covers them);
- the user callbacks, which the example leaves NULL;
- `USBD_MSC_BOT_Reset` and the Bulk-Only Transport behind it, which are not in the repository.

### HostEnum (`HostEnum.tla`, instantiated by `MC_HostEnum.tla`)

HostEnum models device enumeration: `USBH_EnumHandler` (`usbh_core.c:233`) calling the `ENUM_*Handler` of the current `enumState` (`usbh_enum.c`), the request builders of `usbh_stdReq.c` those handlers call, and `USBH_ParseCfgDesc`. One call of `USBH_ControlXferHandler` that returns COMPLETE, STALL or ERROR is one step. The phases under that call are HostCtrlXfer's subject.

State:
- `hostState`, `enumState`, `xferState`, `req` and `devAddress` are the fields of `g_usbHost` of those names.
- `chan` is the address and packet size the two control channels are open with.
- `ddesc`, `cdesc`, `cfgRcv` and `itfTbl` are the parts of `g_usbHost.control.descriptor` that enumeration reads: bMaxPacketSize0 and the string indices, wTotalLength and bConfigurationValue, the bytes received into `cfgDescBuf`, and the interface table. A slot of the table holds the offset of the descriptor copied into it, so a wrong or missing copy is visible.
- `strBuf` is which string `s_stringBuf` holds and how many bytes `USBH_ParseStrDescriptor` wrote into it.
- `hung` is set when `USBH_ParseCfgDesc` never returns.
- `device` and `dstate` are the attached device: its packet size, its configuration layout (a sequence of interface, endpoint and class-specific descriptors), its serial index, and its chapter-9 address, state and configuration.

Actions: `EnumIdle`; `EnumStart` (the START branch of every handler: `RequestOf` builds its request); `SerialSkip` (iSerialNumber 0); `XferFailed` (STALL or ERROR, the handler sends its request again); and one `...Done` action per handler's COMPLETE branch. `GetDevDescDone` reopens both channels with bMaxPacketSize0 at the current address (`OpenChannel`, `USBH_CH_OpenChannel` as it bears on the pipe's address and packet size). `SetAddressDone` moves them to address 1 (`ConfigDeviceAddr`, the 7-bit DVADDR field of `USB_OTG_H_ConfigDeviceAddr`). `GetStringDone` is the three string handlers: `ParseStrDescriptor` is `USBH_ParseStrDescriptor`, whose copy loop is the RECURSIVE `StrCopyLoop`, and gives the bytes it writes (one per UTF-16 unit, and the end mark). `GetFullCfgDescDone` runs the parser.

The transfer is abstracted to its effect. The bytes received are the request's wLength capped by the descriptor's size, and cut at the first packet when the device's packet size is smaller than the channel's. A request to an address the device does not have ends in ERROR. A SET_CONFIGURATION of an unknown value is stalled. Any other request completes, or (at most `MaxFaults` times) is stalled or fails. The device applies SET_ADDRESS and SET_CONFIGURATION when the request completes.

`ParseLoop` is the `while` loop of `USBH_ParseCfgDesc` as a RECURSIVE operator over the received bytes, with its guards, the `uint16_t` wrap of `parseIndex`, the early exit when fewer than 7 bytes remain, and the non-termination on a bLength of 0. It is checked against `RefTable`, which is written from the layout: the first interfaces that fit, each with the first endpoints that follow it.

Fairness: weak fairness on each handler step. The main loop calls `USBH_PollingProcess` without end, and the device, or the host's transaction timeout, ends every transfer.

| Run | cfg | Expect | What it shows |
|---|---|---|---|
| enum_sequence | `HostEnum_enum.cfg` | pass | Devices of packet size 8 or 64, with and without a serial string and strings of bLength 2 and 128 (which exercise the copy loop), three layouts, and one STALL or error on any transfer. Every request after the first goes to the device's address with its packet size (`ChannelsMatchDevice`). The parser never files a descriptor in a wrong slot (`ParsedInterfacesSound`). CONFIGURED_OK means the device is configured with its value at the host's address (`EnumResultAgrees`). Enumeration ends (`EnumCompletes`). |

Bounds:
- Packet size 8 against the initial channel size 64 makes the first descriptor arrive in one short packet, and every later transfer depends on the re-open.
- The layouts are: one interface with three endpoints (more than the 2 slots), a CDC pair with a class-specific descriptor, and three interfaces (more than the 2 slots, one without endpoints).
- One fault lets a STALL or an error hit any request once, SET_ADDRESS and SET_CONFIGURATION included.
- `INTERFACE_DESC_MAX_NUM`, `ENDPOINT_DESC_MAX_NUM` and `USB_EP0_PACKET_SIZE` come from an application `usb_user.h` that is not in the repository; they are constants set to 2, 2 and 64.

Defects found while modelling, with no run (the parser's and the string buffer's are hazards in PROJECT.json):
- The endpoint case of `USBH_ParseCfgDesc` checks `itfIndex < INTERFACE_DESC_MAX_NUM` (`usbh_stdReq.c:449`). Once the last slot is filled, `itfIndex` equals the maximum, so the endpoints of the last interface that fits are dropped. `ParsedInterfacesComplete` states what should be stored. Checking it alone on `HostEnum_enum.cfg` with `DevMPS = {64}`, `SerialIdx = {0}`, `Faults = {}` and `MaxFaults = 0` makes TLC find it violated: with 2 slots, a CDC device's data interface has no endpoints.
- `reqLen` (wTotalLength from the device) is never compared with `CFG_DESC_MAX_LEN` (`usbh_enum.c:316`). The buffer sizes come from an application `usb_user.h` that is not in the repository.
- `USBH_ParseStrDescriptor` writes bLength/2 - 1 characters and an end mark into `s_stringBuf[64]` without a bound (`usbh_stdReq.c:492`). The device chooses bLength, so `StringWithinBuffer` states the bound and no run holds it. bLength 128 is the longest that fits, and `HostEnum_enum.cfg` with `StrLens = {130}` makes TLC find `StringWithinBuffer` violated: 65 bytes are stored. It leaves the buffer stale when the reply is not a string descriptor.
- The manufacturer and product strings are requested even when their index is 0. Nothing in the model observes the string's content.
- `USBH_StandardGetStatus` sends bRequest GET_INTERFACE (`usbh_stdReq.c:178`). Nothing calls it.

Not modelled in HostEnum: the user callbacks (they print), the string contents, and the builders nothing in the repository calls.

### HostCore (`HostCore.tla`)

HostCore is the part of a host session that every class driver shares, and it has no run of its own: HostMsc and HostCdc extend it. One step is one call of `USBH_PollingProcess` (`usbh_core.c:109`): the detach check, then the handler of `curHostState`.

State:
- `hostState`, `errorState` and `xferState` are `g_usbHost.curHostState`, `errorState` and `control.xferState`.
- `pipes` is `g_usbHost.xferPipe[0..11]`, reduced to `channelUsedFlag`, `epAddr`, `pidToggle` and `urbStatus`.
- `ctrlOut` and `ctrlIn` are the control channel numbers.
- `connected` is `connectedFlag`. `unplugs` and `ctrlFaults` are the environment's budgets.

The channel pool is four operators, one per function of `usbh_channel.c`. `ReadFreeChannelNum` searches only the first `USBH_CHANNEL_MAX_NUM` (8) channels. `FreeAllChannel` frees all `HOST_CHANNEL_NUM` (12). `AllocChannel` returns the number as the caller stores it (`% 256`). `FreeChannel` resets the used flag, the endpoint, `urbStatus` and `pidToggle`.

Core actions, each conjoined by the class module with what the class handlers do in the same call:
- `DetachCore` is `USBH_DevDetachedHandler`: `FreeAllChannel`, then `USBH_DeInit` (`DeInitCore`), which frees the control pair.
- `IdleH` and `AttachedH` are the idle and attached handlers. The second allocates the control pair and clears `errorState`.
- `EnumH` is the whole of enumeration, which HostEnum models.
- `ErrorHCore` is `USBH_ErrorHandler`.
- A class request's control transfer is one step that ends in one of `CtrlAnswers`: COMPLETE, or STALL or ERROR while `ctrlFaults < MaxCtrlFaults`. HostCtrlXfer models the phases under it.

### HostMsc (`HostMsc.tla`, instantiated by `MC_HostMsc.tla` and by HostClass)

HostMsc extends HostCore with the MSC driver (`Core_Host/Class/src/usbh_class_msc.c`) as the class handlers. In CLASS_REQ and CLASS the handler is the driver's, followed by `ErrorManage` when it set `errorState`.

State:
- `bulkOut` and `bulkIn` are `g_BOTInfo.outChNum` and `inChNum`, as stored: a failed allocation is 255.
- `msc`, `classReq`, `preClassReq`, `stallCnt`, `errorCnt` and `maxLun` are the fields of `g_MSCInfo`.
- `dev` is the device: the max LUN it reports, and whether it stalls GET_MAX_LUN.

Actions:
- `MscDetach` is `DetachCore` with `USBH_MSC_ClassDeInitHandler` (`ClassDeInit`).
- `MscErrorH` is `USBH_ErrorHandler`. It calls `USBH_DeInit`, which frees only the two control channels and calls `USBH_MSC_ClassDeInitHandler`. That function frees nothing.
- `ClassInit` is `USBH_MSC_ClassInitHandler`: it allocates the bulk pair and starts the class at RESET_BOT.
- `ClassReqStart` is the START branch shared by the three class requests. `GetMaxLunDone`, `BotResetDone` and `CtrlErrorDone` are their WAITING branches. Each ends in COMPLETE, STALL or ERROR, and a STALL falls through into the ERROR case as in the code. `StallRetry` is the `stallCnt++ < USBH_MSC_SATLL_RETRY_CNT` test.
- `BotResetOK` and `CtrlErrorOK` are the OK branches.
- `ResetBotH` enters CLASS_REQ.
- `ScsiOk`, `ScsiFail` and `ScsiPhaseError` are the three outcomes of the TEST_UNIT_READY, READ_CAPACITY10, MODE_SENSE6 and REQUEST_SENSE handlers. `ScsiFail` goes through `ErrorHandler` (`MSC_ErrorHandler`).
- `UnrecoveredH` is `MSC_UnrecoveredStateHandler`.
- `MscUnplug` and `MscPlug` are the environment.

A device with `lunStall` always stalls GET_MAX_LUN, as single-LUN devices may. A SCSI command fails at most `MaxScsiFails` times and has a phase error at most `MaxPhaseErrors` times. BUSY, which changes nothing, is not a step.

Fairness: weak fairness on the host step. The main loop calls `USBH_PollingProcess` without end, and every handler either moves or waits on the environment's answer, which the bounds make finite.

| Run | cfg | Expect | What it shows |
|---|---|---|---|
| msc_channel_leak | `HostMsc_leak.cfg` | violation | A device that reports a max LUN of 1 gets NOT_SUPPORT, ERROR and a re-enumeration, again and again. `USBH_DeInit` frees only the control pair, so each session leaks its two bulk channels. The fourth session's `USBH_CH_AllocChannel` returns -1, stored as 255 (`SessionPipesOwned`). |

The passing MSC properties are checked through HostClass (run class_session below).

Hazards kept without a run: a CLEAR_FEATURE that keeps failing is retried without a bound (`usbh_class_msc.c:416`). Ten failures in a row make a slow medium UNRECOVERED. A non-MSC interface is skipped, but the class still starts on stale endpoint addresses (`usbh_class_msc.c:113`).

Not modelled in HostMsc: the SCSI and BOT layer, the user callbacks (`ErrorManage`'s are not in the repository), and the register set-up of `USBH_CH_OpenChannel`.

### HostCdc (`HostCdc.tla`, instantiated by `MC_HostCdc.tla` and by HostClass)

HostCdc extends HostCore with the CDC host driver (`Core_Host/Class/src/usbh_class_cdc.c`) as the class handlers. It includes the bulk transfer functions of `usbh_dataXfer.c` the driver calls and the bulk channel interrupts of `usbh_interrupt.c` that complete them.

The application's calls (`CDC_SendData`, `USBH_CDCProcessSend`, `USBH_CDCProcessGet`, `CDC_DEMO`) come from `applicationHandler`, which `USBH_CDC_CoreHandler` calls in CLASS. No application is in the repository, so each call is one step that the model may take whenever the host is in CLASS.

State:
- `cdcReq` is `s_classReqState`.
- The send path:
  - `txState`, `txOff`, `txLen` and `txCh` are `CDC_Tx.cdcState`, `buff` (as an offset into the message), `dataLen` and `chNum`;
  - `txPkt` is the static `len` of `USBH_CDCProcessSend`.
- The receive path:
  - `rxState`, `rxLen` and `rxCh` are the same fields of `CDC_Rx`;
  - `rxCount` is the IN channel's `bufCount`.
- `flagSend` and `flagGet` are `flagEnableSend` and `flagEnableGet`.
- `txBusy` and `rxBusy` mean a channel is enabled in hardware.
- `rxIssue` marks the window inside `USBH_BulkInData` between the channel enable and its `urbStatus = IDLE` store.
- `msgs` and `msgLen` identify the message handed to `CDC_SendData`. Byte `i` of message `m` is `<<m, i>>`, so a duplicated, lost or reordered byte can be seen.
- The device:
  - `devTog` is the DATA0/DATA1 it expects on its bulk OUT endpoint;
  - `devRx` is the bytes it has received, in order;
  - `devCoded` means SET_LINE_CODING has completed since its last reset.

Actions:
- `ClassInit` is `USBH_CDC_ClassInitHandler`. It resets both paths, allocates bulk OUT and then bulk IN, goes to CLASS_REQ and calls `CDC_EnableGet`.
- `CdcDetach` is `DetachCore` with `USBH_CDC_ClassDeInitHandler`. `USB_OTG_StopHost` halts both channels.
- `CdcEnumH` is enumeration, which resets the device: `devTog` returns to DATA0 and the line coding is forgotten.
- The three line-coding requests share `ReqStart`, `ReqDone` and `ReqOK`, their START, WAITING and OK branches. A STALL or ERROR restarts the request with no bound. `ReqConfigured` is the CONFIGURED_OK branch of `USBH_CDC_ClassReqHandler`.
- `SendData` is `CDC_SendData` on an IDIE send path. It returns 0 in any other state and does nothing, so that case is no step.
- `SendPacket` and `SendWait` are the SEND_DATA and SEND_WAIT cases of `USBH_CDCProcessSend`. `SendPacket` includes `USBH_BulkOutData`, which stores IDLE before the enable. `SendWait` folds ERROR and STALL back to SEND_DATA as the code does.
- `GetPacket`, `GetIssued` and `GetWait` are `USBH_CDCProcessGet`. `GetPacket` ends at the channel enable inside `USBH_BulkInData`. `GetIssued` is the rest of that call: the IDLE store after the enable. `GetWait` includes `CDC_ReceiveData`.
- `Demo` is `CDC_DEMO` with a COMPLETE send path: `CDC_DisableSend`. Its receive half only prints.
- `BulkOutDone` is one bulk OUT packet through `USBH_OUT_HostChannelIsrHandler` to TSFCMPAN. The outcome is ACK, NAK, or a transaction error either before the device took the data or after it took them and the handshake was lost. `pidToggle` flips only on PIPE_OK (`TogAfter`). The device takes a packet only when its DATA0/DATA1 matches `devTog`, and drops a retransmission.
- `BulkInDone` is one bulk IN packet through `USBH_IN_HostChannelIsrHandler`: OK with 0 to MPS bytes, or ERROR. A NAK re-enables the channel in the ISR and is no step. With `RxIsrPreempts` it may run inside the `USBH_BulkInData` window.

Unreachable branches, kept out of the actions:
- The `flagEnableGet == 0` branch of `USBH_CDCProcessGet`: nothing in the repository calls `CDC_DisableGet`.
- A failed `dataLen < buffLen - maxPackSize` test: `CDC_ReceiveData` empties the buffer after every non-empty packet, so `dataLen` never grows past one packet.

Fairness (`CdcSpec`):
- Weak fairness on the host step.
- Strong fairness on `ProcessSend`, `ProcessGet` and `Demo`. The application calls them on every pass of its loop. A half-done `USBH_BulkInData` holds the loop for a moment, which disables them on and off, so weak fairness would be too weak.
- Weak fairness on `BulkOutDone`: an enabled OUT channel finishes its packet.
- The device's sending and the application's messages are not assumed.

### CdcStream (`CdcStream.tla`) and the refinement

CdcStream is what the CDC driver promises the application about the bytes it sends:
- a batch is accepted only while a session is open and the previous batch has gone;
- the device receives the bytes in order, each of them once;
- bytes still pending are dropped only when the session closes.

HostCdc defines `Stream == INSTANCE CdcStream WITH open <- hostState \in {"CLASS_REQ", "CLASS"}, queue <- Pending, recv <- devRx`. `Pending` is the rest of the message as `CDC_Tx.buff` and `dataLen` describe it, less the bytes the device already has. A packet whose handshake was lost is already delivered, though the host will send it again. `StreamRefined == Stream!Spec` is checked as a PROPERTY.

### HostHid (`HostHid.tla`, instantiated by HostClass)

HostHid extends HostCore with the HID host driver (`Core_Host/Class/src/usbh_class_hid.c`) as the class handlers. It includes `USBH_InterruptInData` (`usbh_dataXfer.c:222`) and the interrupt branches of `USBH_IN_HostChannelIsrHandler`. The device is a mouse with `MaxReports` reports to send, numbered 1, 2, ...; report `r` carries the button bits and x movement `MouseReport[r]`.

State:
- `hidReq`, `hidState`, `hidCh` and `flagParse` are `s_classReqState`, `s_classState`, `hidDataInChannel` and `flagParseHID`.
- `expired` means `HID_POLL_TIME` (10) frames have passed since `hidTimer` was read. The frame counter itself is not kept.
- `intBusy` means the interrupt channel is enabled in hardware. `intIssue` marks the window inside `USBH_InterruptInData` between the enable and the `urbStatus = IDLE` store. `intPid` is the `dataPid` of the poll in flight.
- `dat` is the number of the report in `dat[]`, and `parsed` the reports `ParseMouseData` has been given, in order.
- `mouseSeat` and `printMouse` are the statics of `ParseMouseData`: the cursor position and the 21-character line it prints. `mouseSeat` is zero at reset and is not reset by a detach, so a session starts with it wherever an earlier one left it: `Init` takes it from `MouseSeats`, a subset of 0..17.
- The mouse: `mouseNext` (the report it sends next), `mouseTog` (its DATA0/DATA1) and `mouseHalted`.

Actions:
- `ClassInit` is `USBH_HID_InitHandler`: it allocates a channel for endpoint 0x81 and goes to CLASS_REQ. It leaves `s_classState` as the last deinit left it.
- `HidDetach` is `DetachCore` with `USBH_HID_DeInitHandler`, which resets both class states.
- `HidEnumH` is enumeration. It resets the mouse to DATA0, not halted, and the mouse drops a report whose handshake it missed if the host already has it.
- `ReqIdle`, `ReqStart`, `ReqDone` and `ReqOK` are the four class requests' handlers and their START, WAITING and OK branches. `ReqOK` at the last request includes the CONFIGURED_OK test of `USBH_HID_ReqHandler`, which goes to CLASS.
- `HidIdleH` and `HidSyncH` are the IDLE and SYNC handlers. An odd frame in SYNC changes nothing and is no step.
- `HidGetData` is `HID_GetDataHandler` up to the channel enable: `dataPid` is read from `pidToggle`, and `USBH_ToggleDataPid` flips it. `HidIssued` is the rest: the IDLE store, `flagParseHID = 1`, POLL, and the timer read.
- `HidPollTimeout`, `HidPollOk` and `HidPollStall` are `HID_PollHandler`. `HidPollOk` calls `ParseMouseData`: `MouseSeatNext` moves the cursor left for an x with bit 7 set and right for any other non-zero x, clamped to 0..17, and `PrintMouseLine` lays out the line (`o` at 0 and 19 for the buttons, `|` at the cursor, a line feed at 20). The timer is tested first. The URB is read from `xferPipe[2]`, not from `hidDataInChannel` (`PollUrb`). That is the same channel as long as the control pair takes channels 0 and 1, which it always does after a detach frees the pool. The STALL branch is the CLEAR_FEATURE(ENDPOINT_HALT) transfer. Its wIndex is `USB_OTG_H_ReadEpNum(2)`, the 4-bit endpoint number of channel 2, so the request names endpoint 0x01, not the halted 0x81 (`ClearFeatureIndex`). The mouse's answer is chosen from `ClearHaltAnswers`. A boot mouse has no endpoint 0x01 and STALLs the request, which the handler sends again for ever. A mouse with an OUT endpoint 1 completes it, and the next poll STALLs again. The IN endpoint is cleared only if the request names it, and then the mouse goes back to DATA0.
- `Tick` is the timer expiring.
- `IntInDone` is one poll through the channel interrupt. TSFCMPN stores URB_OK and leaves the toggle alone. A STALL, NAK, transaction error or toggle error halts the channel, and TSFCMPAN flips the toggle back. A toggle error runs the DTOG branch and then the NAK branch (`intNak` is read from the DTOG flag), so the URB is left as it was. The mouse takes a report as delivered when the host acknowledged it: on URB_OK, or on a toggle error. A lost handshake leaves the mouse to send the same report again.

Environment bounds: `MaxIntFaults` STALLs, errors or lost handshakes in all. The mouse NAKs only when it has no report left; a NAK while it holds one only delays it.

Timing assumptions, each a constant:
- `IntIsrPreempts`: whether the interrupt may end a poll inside `USBH_InterruptInData`. On the bus a poll takes tens of microseconds, and the IDLE store follows the enable by a few instructions, so this needs another interrupt to hold the main loop in between.
- `LatePolls`: whether the main loop may come back to `HID_PollHandler` 10 frames late. Without it, `Tick` waits until a report received in time has been parsed and a STALL's CLEAR_FEATURE transfer has finished.

Fairness: weak fairness on the host step, on `Tick` (frames pass) and on `IntInDone` (an enabled interrupt channel finishes its poll within a frame).

Properties:
- `ReportsOnceInOrder` (checked in class_session): `parsed` is strictly increasing. A report whose ACK was lost comes back with the old toggle, and only the toggle at issue and the flip back at TSFCMPAN keep it from being parsed twice.
- `ReportsDelivered` (checked in class_session) is about a mouse that never halts its interrupt endpoint:
  - plugged in from the start, its last report reaches `ParseMouseData`;
  - plugged in again after an unplug, which may lose a report received and not yet parsed, the host polls it until it has sent them all.

  The report is the host's `parsed`, not the mouse's count. So an URB_OK that the host overwrites breaks the property as well.
- `ReportsDeliveredThroughHalt` (no run) drops the assumption about halts. In a copy of `HostClass_session.cfg` with `Drivers = {"HID"}`, TLC finds it violated after one STALL: the mouse stays halted, and `HID_PollHandler` loops CLEAR_FEATURE(0x01), STALL, CLEAR_FEATURE (`usbh_class_hid.c:497`, a hazard).
- `MouseLineShowsReport` (checked in class_session): the printed line shows the last report parsed, the cursor inside the bar (index 1..18) and the buttons of that report. A cursor clamp that lets `mouseSeat` reach 18 puts the cursor over the right button's place.
- The class requests of `USBH_HID_ReqHandler` restart on a STALL with no bound (`usbh_class_hid.c:336`). class_session's mouse supports every request (`MouseStalls = {}`); with `MouseStalls = {"SET_IDLE"}` and `Drivers = {"HID"}` TLC finds `ReportsDelivered` violated. A mouse may stall SET_IDLE.
- `ReportsNotLost` (no run): every report the mouse took as delivered is parsed, except one that `HID_PollHandler` may still parse. Each of three code paths breaks it, and each has its own hazard in `PROJECT.json`:
  - a STALL: the halt is never cleared, and a report in flight at the STALL is lost with all that follow;
  - the timer is tested before the URB (`usbh_class_hid.c:474`, with `LatePolls`);
  - the IDLE store comes after the enable (`usbh_dataXfer.c:237`, with `IntIsrPreempts`). That race overwrites every URB_OK, no report is parsed, and `ReportsDelivered` fails too (the hazard at `usbh_dataXfer.c:294` gives the cfg change).

### HostClass (`HostClass.tla`, instantiated by `MC_HostClass.tla`)

`USBH_Init` copies the class handlers of its parameter into `g_usbHost`, so a build runs the host core with one class driver. HostClass instantiates HostMsc, HostCdc and HostHid over the shared HostCore variables. `drv` is the driver installed. A step of the installed driver leaves the other driver's variables unchanged, and the fairness is each module's.

| Run | cfg | Expect | What it shows |
|---|---|---|---|
| class_session | `HostClass_session.cfg` | pass | Any of the three drivers, with one control fault and one unplug. Every CDC device that stays plugged in reaches CLASS through its three class requests (`CdcConfigured`). With `Drivers = {"CDC"}` and `DevStalls = {"SET_CONTROL_LINE_STATE"}` in `HostClass_session.cfg`, TLC finds `CdcConfigured` violated: `USBH_CDC_ClassReqHandler` restarts a stalled request for ever, and a device need not support SET_CONTROL_LINE_STATE. Every channel the session uses is allocated to its own endpoint, across sessions (`ClassPipesOwned`). MSC: a single-LUN device, which stalls GET_MAX_LUN or not, goes through eleven SCSI failures (ten in a row give UNRECOVERED) and a phase error, and always ends ready in APP_STATE (`MscReady`). CDC: two messages of 3 bytes with 2-byte packets, one NAKed, failed or lost-handshake OUT packet and one failed IN packet. The send path implements CdcStream (`StreamRefined`), and every accepted message is sent or dropped at a detach (`TxCompletes`). HID: three mouse reports through one lost handshake, NAK, STALL or transaction error. The reports are parsed at most once and in order (`ReportsOnceInOrder`). A mouse that never halts its endpoint gets its last report parsed, or, after a re-plug, is polled until it has sent them all (`ReportsDelivered`). A STALL halts the mouse for good (see HostHid), so for a STALL the run checks safety only. The line `ParseMouseData` prints shows the last report, with the cursor inside the bar (`MouseLineShowsReport`). |
| cdc_stale_req | `HostCdc_stale.cfg` | violation | (HostCdc alone.) SET_LINE_CODING and GET_LINE_CODING complete, and the device is unplugged during SET_CONTROL_LINE_STATE. `USBH_CDC_ClassDeInitHandler` does not reset `s_classReqState`, so the next session resumes at SET_CONTROL_LINE_STATE and reaches CLASS with the line coding never set (`LineCodingSet`). |

Bounds:
- 8 searchable channels of 12 are the values of `usbh_channel.h` and `drv_usb_host.h`. The MSC leak needs three error cycles, and the pass run allows at most two, so it checks that everything else about the pool is right.
- Eleven SCSI failures reach both branches of `MSC_ErrorHandler`. A stalling GET_MAX_LUN exhausts `stallCnt`.
- A 3-byte message with a packet size of 2 needs a full packet and a short one. A lost handshake then hits either of them. Two messages make the second one start on a toggle the first one left.
- Receive sizes 0 and 2 cover a zero-length packet and a full one.
- The unplug may come in any state, including with a packet in flight, and `FreeAllChannel` then resets the pool and the toggles.
- Three mouse reports and one interrupt fault: the fault can hit the first report, and a later one shows whether the toggles agree again. With two faults, a lost handshake followed by a STALL re-sends a report after CLEAR_FEATURE, which a correct host could not tell apart either.
- Three mouse reports move the cursor right, left and not at all, with each button pattern. `MouseSeats = {17}` starts the cursor at the right end of the bar, where a right move tests the clamp; starting at 0 as well doubled the run time, so the clamp at 0 is not reached by this run.
- class_session keeps both HID timing constants FALSE. The runs that set them are the reproductions of the hazards above.

Hazards kept without a run:
- **The bulk IN race.** `USBH_BulkInData` stores IDLE after the enable, as `USBH_InterruptInData` does for HID (see HostHid). A packet completed in the window leaves GET_WAIT waiting for ever. class_session reaches those states, but no property states that receiving goes on: the device may NAK for ever, and the code gives no ground to assume otherwise.
- **Bulk STALL.** A STALL on a bulk endpoint is retried without CLEAR_FEATURE (`usbh_class_cdc.c:536`).

### HostChanData (`HostChanData.tla`, instantiated by `MC_HostChanData.tla`)

HostChanData models what HostCtrlXfer abstracts to one step per phase: the bytes of one transfer on one host channel, between the caller's buffer, the TxFIFOs, the RxFIFO and the device. One transfer runs at a time, as on a control or class channel.

State:
- `busy`, `cur` and `nXfers`: a transfer started and not yet seen complete, the transfer (direction, endpoint type, length, whether the buffer is NULL), and a count.
- `pipe` is `xferPipe[ch]`'s `bufLen` and `bufCount`, and the bytes of the caller's buffer written so far (`stored`).
- `hc` is the channel: enabled, HCHTSIZE's transfer size and packet count, and whether the core has ended the transfer.
- `gint` is the TxFIFO-empty interrupts unmasked in GINTMASK. `used` is the words held in each TxFIFO, `queued` the transfer's bytes among them, `rxq` the RxFIFO status entries.
- `devBytes`, `devPkts` and `done`: what the device has received or sent, and the pending transfer-complete interrupt.
- `port` and `unplugs`: CONNECTED, DISCONNECTED (the disconnect interrupt has cleared `connectedFlag`) or STOPPED (the detach handler has run).

Actions:
- `StartXfer(x)` is a starter of `usbh_dataXfer.c` with `USB_OTG_EnableOutChannelTransfer` or `USB_OTG_EnableInChannelTransfer`. The packet count is `PacketNumOf` (clamped at 256); an IN size is rounded up to whole packets. An OUT transfer is written at once only when all of it fits the free words; otherwise the FIFO's empty interrupt is unmasked.
- `OtgIsr` is one `USBH_OTG_IsrHandler`: RxFIFO non-empty, then the non-periodic and the periodic TxFIFO-empty handlers, in the code's order. The TxFIFO loop is the RECURSIVE `TxFifoLoop`, with the non-periodic handler re-reading the space in bytes and the periodic one in words, as the code does. `RxBytesStored` is what `USB_FIFO_ReadRxFifoPacket` stores: whole words, then the low bytes of one more.
- `DevAckOut`, `DevSendIn(k)` and `ChannelDone` are the core and the device: an OUT packet leaves the FIFO and is acknowledged, an IN packet of `k` bytes is pushed with a status entry, and the channel ISR's transfer complete ends the transfer.
- `Unplug`, `DevDetachedHandler` and `Plug` are the detach path. `DevDetachedHandler` is `USBH_DevDetachedHandler` as it bears on the data path: `StopHost` (channels disabled, both FIFOs flushed), `GlobalInit` with `CoreSoftReset` (the soft reset flushes the FIFOs, unless the wait for the AHB master to go idle times out: `ahbIdle` is chosen), and `HostInit` (flushes again and leaves both TxFIFO-empty interrupts masked).

Fairness: weak fairness on the ISR, the core and device steps, `ChannelDone` and the detach handler. An interrupt that is pending is taken, the core moves a packet whose bytes are in the FIFO, and the main loop runs the detach handler. Callers and the user are not forced to act.

HostChanData's properties are checked in the run `chan_data`, where the module is composed with the device's data endpoint (BulkLink, below):
- `TxFifoWithinDepth`: no TxFIFO holds more than its depth.
- `OutPacketsExact`: a completed OUT transfer delivered exactly the caller's bytes in USB's packet count, against the reference `UsbPackets`.
- `RxWithinBuffer`: no IN byte is stored past the buffer of a control read (wLength, which a data stage never exceeds) or of CDC's bulk read (a whole packet). The final partial word is stored byte by byte. The device may send a full packet whatever it was asked (`Overrun`). HID's interrupt read of 4 bytes on an 8-byte endpoint is the exception (`HostChanData_hid.cfg`).
- `IdleFifosEmpty`: between transfers both TxFIFOs and the RxFIFO are empty, an unplug mid-transfer included.
- `XferCompletes`: every transfer completes.

`MC_HostChanData.tla` instantiates the module alone, with a device that answers any token; the reproductions below use it.

Two reproductions are kept as cfgs and hazards, not runs:
- `HostChanData_hid.cfg`: the HID poll asks for 4 bytes on a channel of packet size 8, and the channel accepts a whole packet. A mouse whose report is longer (a wheel byte or a report ID) makes TLC find `RxWithinBuffer` violated: the RxFIFO handler stores 5 bytes into `dat[4]` (`usbh_class_hid.c:452`).
- `HostChanData_long.cfg`: a 17-byte bulk OUT against a 4-word FIFO is deferred to the TxFIFO-empty interrupt, whose loop writes only while the space exceeds the whole remaining length, so it never writes a piece, and TLC finds `XferCompletes` violated (`usbh_interrupt.c:259`). Only transfers longer than the free space hit this; the FIFO sizes (`USB_FS_NP_TXH_FIFO_SIZE`) come from an application header that is not in the repository.

### DeviceEpData (`DeviceEpData.tla`) and BulkLink (`BulkLink.tla`, instantiated by `MC_BulkLink.tla`)

DeviceEpData models the device library on a data endpoint: endpoint 1, bulk IN and bulk OUT, as an application uses it. The application itself (its `outEpHandler` and `inEpHandler` callbacks, and its calls of `USBD_OpenOutEP`, `USBD_RxData` and the like) is not in the repository. It is an environment that opens the endpoint once the host has configured the device, keeps one OUT buffer armed, and sends one IN buffer at a time, as an echo or a stream does.

State:
- `inBuf` and `outBuf` are `g_usbDev.inBuf[1]` and `outBuf[1]`: `maxPackSize`, `bufLen`, `packNum` (uint8_t, kept modulo 256), `xferCnt`, and `pBuf` as an offset (with a buffer id for IN data).
- `inEp` and `outEp` are the endpoint registers: USBAEP, EPEN, the transfer-size register's packet count and size, and the endpoint's bit in DAEPIMASK.
- `txFifo` is TxFIFO 1, as the packets written to it. `txfeMsk` is the endpoint's bit of the TxFIFO-empty mask. `inInt` holds the DIEPINT flags TSFCMP and ITXEMP, and `outCmp` the DOEPINT flag TSFCMP. `drxq` is the RxFIFO's status entries for the endpoint.
- `app` is the application's view; `sentIn` is a history of the packets sent for the current IN buffer.

Operations:
- `DevInitState` is the device after power-on and `USBD_Init`. `DeviceInit` is `USB_DeviceInit` as it bears on the endpoint: both FIFOs flushed, and the endpoint loop (`DeviceInitEp`) that disables an enabled endpoint and clears another.
- `OpenEP` is `USBD_OpenOutEP` / `USBD_OpenInEP`: the buffer's `maxPackSize`, then `USB_OTG_OutEpActive` / `USB_OTG_InEpActive` (`EpActive`).
- `RxData(len)` is `USBD_RxData` with `USB_OTG_EnableOutEpTransfer` (`EnableEpTransfer`). The transfer size is `packNum * maxPackSize`, len rounded up to whole packets.
- `TxData(len)` is `USBD_TxData`: the transfer size is len, and the endpoint's TxFIFO-empty interrupt is enabled.
- `PushDataToTxFIFO` writes one packet if the FIFO has room, advances the buffer, and disables the TxFIFO-empty interrupt after every packet.
- `DevIsr` is one `USBD_OTG_IsrHandler` for the endpoint, in the code's order:
  - the OUT endpoint handler: TSFCMP cleared, then `outEpHandler`;
  - the IN endpoint handler: TSFCMP cleared, the TxFIFO-empty interrupt disabled, `inEpHandler`, then `PushDataToTxFIFO` if the raw TXFE status is set (`TxfeStatus`, the FIFO at least half empty), then ITXEMP cleared;
  - one RxFIFO pop, where OUT data set `xferCnt = byteCount` and advance `pBuf`.

  The IN endpoint handler runs when its DAEPINT bit is set (`InEpIntPending`). That needs TSFCMP, ITXEMP if the application's `USB_INT_EP_IN_SOURCE` unmasks it (the constant `ITxEmpUnmasked`), or TXFE with its interrupt enabled.
- The core on the bus, for the host to join:
  - `InToken(k)` sends the head packet, and the last one sets TSFCMP;
  - `InTokenNak` is a token on an empty FIFO, which sets ITXEMP;
  - `OutPacket(k)` pushes a DATA entry, plus an OUT_COMP entry for a short or last packet.

BulkLink EXTENDS HostChanData and instantiates DeviceEpData as `D`, with the device's packet size being the host channel's `MPS`. A host bulk transfer's packet is one step of both sides:
- `BusOut` is `DevAckOut` together with `D!OutPacket`. An OUT packet the device NAKs, because no buffer is armed, is no step: the host core retries it.
- `BusIn(k)` is `DevSendIn(k)` together with `D!InToken(k)`.
- `BusInNak` is a host IN token that only sets the device's ITXEMP.

The host's control and interrupt transfers go to endpoints outside this model and keep HostChanData's free device (`OtherOut`, `OtherIn`). A host bulk transfer starts only after the application has opened endpoint 1, since the host class driver runs after enumeration. An unplug powers the bus-powered device off (`D!PowerLoss`), and it comes back from `USBD_Init`.

Fairness: weak fairness on both interrupt handlers, the host main loop's detach handler, the bus steps (a host channel keeps sending tokens while its transfer is in flight), and the application's configure, arm and send steps.

| Run | cfg | Expect | What it shows |
|---|---|---|---|
| chan_data | `BulkLink_xfer.cfg` | pass | The host's transfers are an 8-byte SETUP, an 18-byte descriptor read, NULL-buffer status stages both ways, a 12-byte bulk OUT (one full and one short packet), an 8-byte bulk IN and an interrupt OUT, three in a row, with one unplug at any point. The bulk transfers meet a device application that arms 8-byte OUT buffers and sends 12-byte IN buffers through a one-packet TxFIFO. HostChanData's five properties hold, and so does one device-side property. `DevInExact`: each IN buffer goes out as its consecutive `maxPackSize` pieces, and when `inEpHandler` is told it is done, they add up to its length. |

Bounds:
- MPS 8 with an 18-byte read gives two full packets and a short one. The 8-byte interrupt OUT fills the 2-word periodic FIFO exactly.
- The 12-byte bulk OUT is two device transfers of one packet each. The 12-byte IN buffer needs two packets through a FIFO that holds one, so its second packet waits for the ITXEMP path.
- One unplug can land in any state of a transfer, with data in any FIFO.
- Larger IN buffer sets, `{5, 16}` for example, behave the same way but take four times as long.

Two more reproductions are kept as hazards:
- `BulkLink_xfer.cfg` with `ITxEmpUnmasked = FALSE`: TLC finds `XferCompletes` violated. `USBD_PushDataToTxFIFO` disables the TxFIFO-empty interrupt after the first packet (`usbd_core.c:348`), nothing enters the IN endpoint handler again, and the host's next bulk IN is NAKed for ever.
- `BulkLink_xfer.cfg` with `AppRxLens = {4}`: TLC finds `DevRxWithinBuffer` violated. `USBD_RxData` rounds the transfer up to a whole packet (`usbd_core.c:288`), so an 8-byte host packet lands in a 4-byte buffer. No caller of `USBD_RxData` is in the repository, so nothing bounds len, and no run holds `DevRxWithinBuffer`. The run's OUT buffers of one packet only exercise the RxFIFO path.

`RxCountMatches` states that `xferCnt` is the byte count of the transfer when `outEpHandler` runs. It is not a run's property: `xferCnt` is assigned the last packet's count (`usbd_interrupt.c:319`), not accumulated, and a zero-length packet leaves it unchanged. This is what `usbd_core.h` documents ("Data count of one pack"), so an application must use `pBuf` to learn a multi-packet transfer's length. The runs' OUT buffers are one packet long, so the property holds there.

## 4. Not modelled, and why

- **Register programming.** Some code only programs registers, and none of its state is read back by the code modelled:
  - the PHY, clock, VBUS and speed set-up of `USB_GlobalInit`, `USB_DeviceInit` and `usbh_init.c`;
  - the TxFIFO address arithmetic of `USB_DeviceInit` (the depth of TxFIFO 1 is the constant `TX_FIFO_WORDS`);
  - the EP0 packet-size encoding of the `Active` functions;
  - the interrupt masks other than the TxFIFO-empty and endpoint ones.

  The channel enable and halt are the hardware state `hch` in HostCtrlXfer and `hc` in HostChanData. The endpoint registers are `inEp` and `outEp` in DeviceEpData. The FIFO flushes and the soft reset are in HostChanData.
- **`USBD_CloseOutEP`, `USBD_CloseInEP` and the endpoint stall functions for data endpoints.** No code in the repository calls them for an endpoint other than 0, since the application that would is not in the repository. For the same reason the model has no bus reset while endpoint 1 is in use. `USBD_ResetIsrHandler` flushes only TxFIFO 0 (`usbd_interrupt.c:358`) and does not close endpoint 1, so a packet already written to TxFIFO 1 stays there after a reset. Only the application's reset handler could deal with it.
- **The HID poll handler's timing.** `HID_PollHandler` checks the `HID_POLL_TIME` timer before the URB (`usbh_class_hid.c:474`), so a late main loop can re-poll before parsing a report that has already arrived. HostHid abstracts the frame timer to the constant `LatePolls`, which class_session keeps FALSE.
- **The host toggle after a cleared halt.** After `CLEAR_FEATURE(ENDPOINT_HALT)` the handler does not reset `pidToggle` (`usbh_class_hid.c:521`). The request never names the halted endpoint, so no halt is cleared and this path is unreachable in the model.
- **Device FIFO byte packing.** DeviceCtrl moves whole EP0 packets. DeviceEpData counts a packet's words in TxFIFO 1, and the byte packing of `usb_fifo.c` is checked on the host side, in HostChanData.
- **Babble, frame overrun and AHB errors.** These are hardware error paths that are not modelled.
- **The device class callbacks other than the class request handlers.** They are thin calls into class code that is not in the repository (`USBD_MSC_BOT_*`). The device CDC, HID and MSC class request handlers are in DeviceCtrl; the host MSC, CDC and HID drivers are modelled in HostMsc, HostCdc and HostHid. The SCSI and BOT transfer layer the host MSC driver calls (`MSC_SCSI_*`, `USBH_MSC_BOT_*`) is not in the repository.
- **The `printf` of `ParseMouseData`.** HostHid keeps the line it prints, not the output; `printMouse` has 21 characters, the last a line feed, and no end mark, so the `%s` reads on past the array until it meets a zero byte.
- **Board glue, bsp_delay and FatFs diskio.** These are pure I/O.
