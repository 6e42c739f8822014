----------------------------- MODULE HostChanData -----------------------------
(***************************************************************************)
(* The data path of one host channel in the USB OTG library, one transfer *)
(* at a time, as the class drivers and the control machine use it:        *)
(*   - the transfer starters of Core_Host/Standard/src/usbh_dataXfer.c    *)
(*     (USBH_CtrlSetupReq ... USBH_IsocInData), which fill xferPipe[ch]   *)
(*     and call the driver;                                               *)
(*   - USB_OTG_EnableOutChannelTransfer and USB_OTG_EnableInChannelTransfer*)
(*     of Driver/src/drv_usb_host.c: packet count, transfer size, and for *)
(*     OUT the TxFIFO space check that writes the data or defers it to    *)
(*     the TxFIFO-empty interrupt;                                        *)
(*   - USBH_OTG_IsrHandler of usbh_interrupt.c with the RxFIFO-non-empty  *)
(*     and the two TxFIFO-empty handlers it runs, in that order;          *)
(*   - USB_FIFO_WriteFifoPacket and USB_FIFO_ReadRxFifoPacket of          *)
(*     Driver/src/usb_fifo.c, as the words they push and the bytes they   *)
(*     store.                                                             *)
(* The OTG core and the device are the environment.  Data are abstracted  *)
(* to byte counts: a FIFO holds words, a packet carries at most MPS bytes. *)
(* The channel ISR's halt protocol (HostCtrlXfer) is abstracted to the    *)
(* transfer-complete interrupt being taken and the caller seeing URB_OK.  *)
(***************************************************************************)
EXTENDS Naturals, Sequences

CONSTANTS
  MPS,               \* xferPipe[ch].maxPackSize, bytes
  NP_TXH_FIFO_WORDS, \* USB_FS_NP_TXH_FIFO_SIZE: the non-periodic TxFIFO depth
  P_TXH_FIFO_WORDS,  \* USB_FS_P_TXH_FIFO_SIZE: the periodic TxFIFO depth
  Xfers,             \* the transfers callers start: direction, endpoint
                     \* type, length, and whether the buffer is not NULL
  Overrun,           \* may an IN device send more than the caller asked
                     \* for (up to the transfer size the channel accepts)?
  MaxXfers,          \* bound on the transfers of a behaviour
  MaxUnplugs         \* bound on unplug events

EpTypes == {"CONTROL", "ISO", "BULK", "INTERRUPT"}

ASSUME MPS \in Nat \ {0} /\ MPS % 4 = 0
ASSUME Xfers \subseteq [dir : {"IN", "OUT"}, type : EpTypes, len : Nat, buf : BOOLEAN]
ASSUME Overrun \in BOOLEAN /\ MaxXfers \in Nat /\ MaxUnplugs \in Nat

\* The RxFIFO status words the model distinguishes (PKTSTS_IN,
\* PKTSTS_IN_XFER_COMPLETE).
RxEntries == [sts : {"IN", "XFER_COMPLETE"}, cnt : 0..MPS]

VARIABLES
  busy,     \* a transfer has been started and its URB is not yet OK
  cur,      \* that transfer
  nXfers,   \* transfers started so far
  pipe,     \* xferPipe[ch]: bufLen, bufCount, and the bytes of the
            \* caller's buffer written so far (stored)
  hc,       \* the channel: enabled, HCHTSIZE size and packet count, and
            \* whether the core has ended the transfer (fin)
  gint,     \* the TxFIFO-empty interrupts enabled in GINTMASK
  used,     \* words occupied in each TxFIFO
  queued,   \* bytes of the transfer in the TxFIFO, not yet sent
  rxq,      \* RxFIFO status entries not yet popped
  devBytes, \* bytes the device has received (OUT) or sent (IN)
  devPkts,  \* packets of the transfer on the bus
  done,     \* the transfer-complete channel interrupt is pending
  port,     \* CONNECTED; DISCONNECTED (g_usbHost.connectedFlag cleared,
            \* the main loop has not run the detach handler yet); STOPPED
  unplugs   \* unplug events so far

vars == <<busy, cur, nXfers, pipe, hc, gint, used, queued, rxq, devBytes,
          devPkts, done, port, unplugs>>

Fifos == {"NP", "P"}

\* The FIFO an OUT channel of a type writes to (drv_usb_host.c:157-189).
FifoOf(type) == IF type \in {"CONTROL", "BULK"} THEN "NP" ELSE "P"
Depth(f) == IF f = "NP" THEN NP_TXH_FIFO_WORDS ELSE P_TXH_FIFO_WORDS
IntOf(f) == IF f = "NP" THEN "NPTXFEM" ELSE "PTXFE"
\* GNPTXFQSTS.NPTXFSA and HPTXSTS.FSPACE: free words.
FreeWords(f) == Depth(f) - used[f]

MinOf(a, b) == IF a < b THEN a ELSE b

-----------------------------------------------------------------------------
(* drv_usb_host.c and usb_fifo.c.                                         *)

PacketClamp(n) == IF n > 256 THEN 256 ELSE n

PacketNumOfExtra(len) == IF len > 0 THEN PacketClamp((len + MPS) \div MPS) ELSE 1

\* The packet count of a transfer of len bytes: a zero-length transfer is
\* one packet.
PacketNumOf(len) == IF len > 0 THEN PacketClamp((len + MPS - 1) \div MPS) ELSE 1

\* The transfer size an OUT channel is given: len, unless the 256-packet
\* clamp cut it down.
OutXferLen(len) ==
  IF len > 0 /\ (len + MPS - 1) \div MPS > 256 THEN 256 * MPS ELSE len

\* An IN channel accepts whole packets: the size is rounded up to them.
InXferLen(len) == PacketNumOf(len) * MPS

\* The words the driver checks against the free space.
TransferWordLen(len) == (len + 3) \div 4

WriteWordCntExtra(wlen) == (wlen + 4) \div 4

\* USB_FIFO_WriteFifoPacket pushes (wlen + 3) / 4 words.
WriteWordCnt(wlen) == (wlen + 3) \div 4

\* USB_FIFO_ReadRxFifoPacket stores rLen / 4 whole words, then the
\* rLen & 3 low bytes of one more word.
RxBytesStoredWholeWords(rLen) == 4 * ((rLen + 3) \div 4)
RxBytesStored(rLen) == 4 * (rLen \div 4) + (rLen % 4)

\* USB_OTG_EnableOutChannelTransfer: program the size and packet count,
\* enable the channel, then write the data if the FIFO has room for all of
\* it, else enable the FIFO's empty interrupt.
EnableOutChannelTransfer(x) ==
  LET len == OutXferLen(x.len)
      f   == FifoOf(x.type)
  IN /\ hc' = [en |-> TRUE, size |-> len, pktCnt |-> PacketNumOf(x.len), fin |-> FALSE]
     /\ IF len > 0 /\ TransferWordLen(len) > FreeWords(f)
          THEN /\ gint' = gint \cup {IntOf(f)}
               /\ UNCHANGED <<used, queued>>
          ELSE /\ used' = [used EXCEPT ![f] = @ + (IF len > 0 THEN WriteWordCnt(len) ELSE 0)]
               /\ queued' = queued + len
               /\ UNCHANGED gint

\* USB_OTG_EnableInChannelTransfer.
EnableInChannelTransfer(x) ==
  /\ hc' = [en |-> TRUE, size |-> InXferLen(x.len), pktCnt |-> PacketNumOf(x.len),
            fin |-> FALSE]
  /\ UNCHANGED <<gint, used, queued>>

\* A transfer starter of usbh_dataXfer.c: buf, bufLen = len, bufCount = 0,
\* then the driver.  (The data PID and urbStatus are HostCtrlXfer's.)
StartXfer(x) ==
  /\ ~busy /\ port = "CONNECTED"
  /\ nXfers < MaxXfers
  /\ busy' = TRUE
  /\ cur' = x
  /\ nXfers' = nXfers + 1
  /\ pipe' = [bufLen |-> x.len, bufCount |-> 0, stored |-> 0]
  /\ devBytes' = 0 /\ devPkts' = 0 /\ done' = FALSE
  /\ IF x.dir = "OUT" THEN EnableOutChannelTransfer(x) ELSE EnableInChannelTransfer(x)
  /\ UNCHANGED <<rxq, port, unplugs>>

-----------------------------------------------------------------------------
(* usbh_interrupt.c.  A handler is an operator on the state it touches,   *)
(* so that USBH_OTG_IsrHandler can run them one after the other.          *)

RxFifoNoEmptyIsrHandlerNoReenable(s) ==
  LET e    == Head(s.rxq)
      copy == e.sts = "IN" /\ e.cnt > 0 /\ cur.buf
  IN [s EXCEPT
        !.rxq  = Tail(@),
        !.pipe = IF copy THEN [@ EXCEPT !.stored = s.pipe.bufCount + RxBytesStored(e.cnt),
                                        !.bufCount = @ + e.cnt]
                         ELSE @,
        !.done = @ \/ e.sts = "XFER_COMPLETE"]

\* USBH_RxFifoNoEmptyIsrHandler: pop one status word; for IN data, copy
\* byteCount bytes to buf (unless it is NULL), advance buf and bufCount,
\* and re-enable the channel if its packet count is not exhausted.  The
\* core raises the transfer-complete interrupt once the IN_XFER_COMPLETE
\* word has been popped.
RxFifoNoEmptyIsrHandler(s) ==
  LET e    == Head(s.rxq)
      copy == e.sts = "IN" /\ e.cnt > 0 /\ cur.buf
  IN [s EXCEPT
        !.rxq  = Tail(@),
        !.pipe = IF copy THEN [@ EXCEPT !.stored = s.pipe.bufCount + RxBytesStored(e.cnt),
                                        !.bufCount = @ + e.cnt]
                         ELSE @,
        !.hc   = IF copy /\ @.pktCnt > 0 THEN [@ EXCEPT !.en = TRUE] ELSE @,
        !.done = @ \/ e.sts = "XFER_COMPLETE"]

\* The free space a TxFIFO-empty handler re-reads after a write: in bytes
\* for the non-periodic FIFO (line 217), in words for the periodic one
\* (line 259).
RereadSpace(f, s) ==
  IF f = "NP" THEN 4 * (Depth(f) - s.used[f]) ELSE Depth(f) - s.used[f]

\* The while loop of USBH_NonPerTxFifoEmptyIsrHandler and
\* USBH_PerTxFifoEmptyIsrHandler: while the space exceeds len and bytes
\* remain, write the rest if it fits (and disable the interrupt), else a
\* space-sized piece.
RECURSIVE TxFifoLoop(_, _, _)
TxFifoLoop(f, s, space) ==
  IF space > s.len /\ s.pipe.bufLen # 0
  THEN LET last == space > s.pipe.bufLen
           l    == IF last THEN s.pipe.bufLen ELSE space
           s2   == [s EXCEPT !.len = l,
                             !.used[f] = @ + WriteWordCnt(l),
                             !.queued = @ + l,
                             !.pipe.bufLen = @ - l,
                             !.pipe.bufCount = @ + l,
                             !.gint = IF last THEN @ \ {IntOf(f)} ELSE @]
       IN TxFifoLoop(f, s2, RereadSpace(f, s2))
  ELSE s

\* Both handlers start with len = bufLen and the free space in bytes.
TxFifoEmptyIsrHandler(f, s) ==
  TxFifoLoop(f, [s EXCEPT !.len = s.pipe.bufLen], 4 * (Depth(f) - s.used[f]))

\* A TxFIFO-empty flag: its interrupt is unmasked and the FIFO is at least
\* half empty (GAHBCFG.TXFELVL and PTXFELVL are left at 0).
TxEmptyPending(f, s) == IntOf(f) \in s.gint /\ 2 * s.used[f] <= Depth(f)

\* USBH_OTG_IsrHandler: RxFIFO non-empty, then non-periodic, then periodic
\* TxFIFO empty, each flag read when its test is reached.
OtgIsr ==
  LET s0 == [pipe |-> pipe, hc |-> hc, gint |-> gint, used |-> used,
             queued |-> queued, rxq |-> rxq, done |-> done, len |-> 0]
      s1 == IF s0.rxq # <<>> THEN RxFifoNoEmptyIsrHandler(s0) ELSE s0
      s2 == IF TxEmptyPending("NP", s1) THEN TxFifoEmptyIsrHandler("NP", s1) ELSE s1
      s3 == IF TxEmptyPending("P", s2) THEN TxFifoEmptyIsrHandler("P", s2) ELSE s2
  IN /\ rxq # <<>> \/ \E f \in Fifos : TxEmptyPending(f, s0)
     /\ pipe' = s3.pipe /\ hc' = s3.hc /\ gint' = s3.gint /\ used' = s3.used
     /\ queued' = s3.queued /\ rxq' = s3.rxq /\ done' = s3.done
     /\ UNCHANGED <<busy, cur, nXfers, devBytes, devPkts, port, unplugs>>

-----------------------------------------------------------------------------
(* The OTG core and the device.                                           *)

\* The words a packet of k bytes takes out of a TxFIFO.
PacketWords(k) == (k + 3) \div 4

\* The bytes of the next OUT packet: MPS, or what is left of the size.
OutPacketLen == MinOf(MPS, hc.size - devBytes)

\* The core sends the next OUT packet once its bytes are in the FIFO, and
\* the device acknowledges it; the last packet raises transfer complete.
DevAckOut ==
  /\ busy /\ port = "CONNECTED" /\ cur.dir = "OUT" /\ hc.en /\ hc.pktCnt > 0
  /\ LET k == OutPacketLen
         f == FifoOf(cur.type)
     IN /\ queued >= k
        /\ used' = [used EXCEPT ![f] = @ - PacketWords(k)]
        /\ queued' = queued - k
        /\ devBytes' = devBytes + k
  /\ devPkts' = devPkts + 1
  /\ hc' = [hc EXCEPT !.pktCnt = @ - 1, !.en = (hc.pktCnt > 1), !.fin = (hc.pktCnt = 1)]
  /\ done' = (hc.pktCnt = 1)
  /\ UNCHANGED <<busy, cur, nXfers, pipe, gint, rxq, port, unplugs>>

\* The device answers an IN token with k bytes: a packet shorter than MPS,
\* or the last one the packet count allows, ends the transfer.  The core
\* disables the channel after each packet and ignores a re-enable after
\* the end.  A control data stage is never longer than wLength (USB 2.0
\* 9.3.5); unless Overrun, a bulk or interrupt device also sends no more
\* than was asked for, and with it may send a full packet whatever the
\* caller's bufLen.
DevSendIn(k) ==
  /\ busy /\ port = "CONNECTED" /\ cur.dir = "IN" /\ hc.en /\ ~hc.fin /\ hc.pktCnt > 0
  /\ k <= MinOf(MPS, hc.size - devBytes)
  /\ (Overrun /\ cur.type # "CONTROL") \/ devBytes + k <= cur.len
  /\ LET last == k < MPS \/ hc.pktCnt = 1
     IN /\ rxq' = Append(rxq, [sts |-> "IN", cnt |-> k])
                  \o (IF last THEN <<[sts |-> "XFER_COMPLETE", cnt |-> 0]>> ELSE <<>>)
        /\ hc' = [hc EXCEPT !.en = FALSE, !.pktCnt = @ - 1, !.fin = last]
  /\ devBytes' = devBytes + k
  /\ devPkts' = devPkts + 1
  /\ UNCHANGED <<busy, cur, nXfers, pipe, gint, used, queued, done, port, unplugs>>

\* The channel ISR takes transfer complete (halting a control or bulk
\* channel) and the caller's wait state sees URB_OK.
ChannelDone ==
  /\ busy /\ done /\ rxq = <<>>
  /\ busy' = FALSE /\ done' = FALSE
  /\ hc' = [hc EXCEPT !.en = FALSE]
  /\ UNCHANGED <<cur, nXfers, pipe, gint, used, queued, rxq, devBytes, devPkts, port,
                 unplugs>>

-----------------------------------------------------------------------------
(* Detach: the disconnect interrupt clears connectedFlag, and the next     *)
(* USBH_PollingProcess runs USBH_DevDetachedHandler.                       *)

\* The device is unplugged: it answers no more tokens.
Unplug ==
  /\ port = "CONNECTED" /\ unplugs < MaxUnplugs
  /\ port' = "DISCONNECTED" /\ unplugs' = unplugs + 1
  /\ UNCHANGED <<busy, cur, nXfers, pipe, hc, gint, used, queued, rxq, devBytes,
                 devPkts, done>>

\* A device is plugged in once the host is idle again.
Plug ==
  /\ port = "STOPPED"
  /\ port' = "CONNECTED"
  /\ UNCHANGED <<busy, cur, nXfers, pipe, hc, gint, used, queued, rxq, devBytes,
                 devPkts, done, unplugs>>

FlushTxFIFOZero(s) ==
  [s EXCEPT !.used["NP"] = 0, !.queued = IF FifoOf(cur.type) = "NP" THEN 0 ELSE @]

\* USB_OTG_FlushTxFIFO(0x10): every TxFIFO is emptied.  The waits for the
\* core end by themselves or by their timeout; either way the flush is done.
FlushTxFIFO(s) == [s EXCEPT !.used = [f \in Fifos |-> 0], !.queued = 0]

\* USB_OTG_FlushRxFIFO.
FlushRxFIFO(s) == [s EXCEPT !.rxq = <<>>]

\* USB_OTG_StopHost: every channel's interrupts are disabled and the
\* channel disabled (USB_OTG_H_ClearQueue), then both FIFOs are flushed.
StopHost(s) == FlushTxFIFO(FlushRxFIFO([s EXCEPT !.hc.en = FALSE, !.done = FALSE]))

\* USB_HostInit as it bears on the data path: the FIFOs are flushed again,
\* channel interrupts cleared, and GINTMASK holds the common interrupts,
\* neither TxFIFO-empty interrupt among them.
HostInit(s) == FlushRxFIFO(FlushTxFIFO([s EXCEPT !.gint = {}, !.done = FALSE]))

\* USB_CoreSoftReset: wait for the AHB master to go idle, returning without
\* a reset when it has not after 0x30000 reads; the core soft reset then
\* flushes both FIFOs.  ahbIdle is whether the wait ended in time.
CoreSoftReset(s, ahbIdle) == IF ahbIdle THEN FlushRxFIFO(FlushTxFIFO(s)) ELSE s

\* USB_GlobalInit: PHY selection, the core soft reset, power and VBUS
\* sensing; only the reset bears on the data path.
GlobalInit(s, ahbIdle) == CoreSoftReset(s, ahbIdle)

\* USBH_DevDetachedHandler: GINTMASK = 0, free every channel, stop the
\* host, USBH_DeInit (the class driver's DeInit forgets the transfer in
\* flight), USB_GlobalInit and USB_HostInit.  GINTMASK = 0 comes first,
\* so the ISR cannot run inside the handler.
DevDetachedHandler ==
  LET s0 == [hc |-> hc, gint |-> {}, used |-> used, queued |-> queued, rxq |-> rxq,
             done |-> done]
  IN \E ahbIdle \in BOOLEAN :
     LET s1 == HostInit(GlobalInit(StopHost(s0), ahbIdle))
     IN /\ port = "DISCONNECTED"
        /\ port' = "STOPPED"
        /\ busy' = FALSE
        /\ hc' = s1.hc /\ gint' = s1.gint /\ used' = s1.used /\ queued' = s1.queued
        /\ rxq' = s1.rxq /\ done' = s1.done
        /\ UNCHANGED <<cur, nXfers, pipe, devBytes, devPkts, unplugs>>

-----------------------------------------------------------------------------
Init ==
  /\ busy = FALSE /\ cur \in Xfers /\ nXfers = 0
  /\ pipe = [bufLen |-> 0, bufCount |-> 0, stored |-> 0]
  /\ hc = [en |-> FALSE, size |-> 0, pktCnt |-> 0, fin |-> FALSE]
  /\ gint = {} /\ used = [f \in Fifos |-> 0] /\ queued = 0 /\ rxq = <<>>
  /\ devBytes = 0 /\ devPkts = 0 /\ done = FALSE
  /\ port = "CONNECTED" /\ unplugs = 0

Next ==
  \/ \E x \in Xfers : StartXfer(x)
  \/ OtgIsr
  \/ DevAckOut
  \/ \E k \in 0..MPS : DevSendIn(k)
  \/ ChannelDone
  \/ Unplug \/ DevDetachedHandler \/ Plug

\* Interrupts are taken, the core moves packets and the device answers;
\* the main loop handles a detach; the callers are not forced to start
\* transfers, nor a user to plug a device in.
Fairness ==
  /\ WF_vars(OtgIsr) /\ WF_vars(DevAckOut) /\ WF_vars(DevDetachedHandler)
  /\ WF_vars(\E k \in 0..MPS : DevSendIn(k)) /\ WF_vars(ChannelDone)

Spec == Init /\ [][Next]_vars /\ Fairness

-----------------------------------------------------------------------------
(* Properties.                                                            *)

\* USB packetisation, as a reference: the least number of MPS-byte packets
\* that carry len bytes, and one zero-length packet for none.
UsbPackets(len) ==
  IF len = 0 THEN 1 ELSE CHOOSE n \in 1..len : n * MPS >= len /\ (n - 1) * MPS < len

\* The words USB_FIFO_WriteFifoPacket pushes never exceed the free space
\* the driver checked in words (drv_usb_host.c:160-163) or the TxFIFO-empty
\* handler checked in bytes: no TxFIFO ever holds more than its depth.
TxFifoWithinDepth == \A f \in Fifos : used[f] <= Depth(f)

\* When an OUT transfer completes, the device has received exactly the
\* caller's bytes, in as many packets as USB needs: the packet count and
\* transfer size of USB_OTG_EnableOutChannelTransfer agree with the data
\* written to the FIFO.
OutPacketsExact ==
  (busy /\ done /\ cur.dir = "OUT")
    => devBytes = cur.len /\ devPkts = UsbPackets(cur.len)

\* The RxFIFO handler never writes past the bufLen bytes the caller gave
\* USBH_CtrlInData or USBH_BulkInData, even against a device that sends a
\* full packet whatever it was asked: the callers pass wLength (which the
\* data stage never exceeds) or, for CDC, a whole packet, and the handler
\* stores a final partial word byte by byte.  HID's USBH_InterruptInData
\* into dat[4] on an 8-byte endpoint is the exception (HostChanData_hid.cfg).
RxWithinBuffer == (busy /\ cur.dir = "IN") => pipe.stored <= cur.len

\* Between transfers no TxFIFO or RxFIFO holds anything: a transfer that
\* ends leaves nothing behind, and when a device is unplugged in the
\* middle of one, USBH_DevDetachedHandler's USB_OTG_StopHost and
\* USB_HostInit flush what it left in either TxFIFO and the RxFIFO, so
\* the next device's first transfer starts on empty FIFOs.
IdleFifosEmpty == ~busy => queued = 0 /\ rxq = <<>> /\ \A f \in Fifos : used[f] = 0

\* Every transfer a caller starts completes: OUT data are written to the
\* FIFO at once or by the TxFIFO-empty handler, and every IN packet is
\* read and the channel re-enabled until the last; or the device is
\* unplugged and the detach handler drops it.
XferCompletes == busy ~> ~busy

=============================================================================
