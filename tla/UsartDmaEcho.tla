---------------------------- MODULE UsartDmaEcho ----------------------------
(***************************************************************************)
(* The USART idle-interrupt DMA echo of Examples/USART/USART_Interrupt:    *)
(* USART1 receives into uart_rx_buf through DMA1 channel 5 (normal mode,  *)
(* MAX_LEN bytes), and on the IDLE interrupt USART1_Isr copies what was   *)
(* received into uart_tx_buf and sends it back through DMA1 channel 4.    *)
(* main sends a start banner the same way with send_data.                 *)
(*                                                                         *)
(* Time is counted in character times: one Tick moves one character on    *)
(* each wire.  Code runs between ticks, and both DMA channels serve a      *)
(* request within the code step or tick that raised it (a few bus cycles  *)
(* against 87 us per character at 115200 baud).  A byte is an integer:    *)
(* the k-th byte the peer sends is k, banner byte i is -i, and the zeros  *)
(* the buffers start with are 0.                                           *)
(***************************************************************************)
EXTENDS Naturals, Integers, Sequences, SequencesExt

CONSTANTS
  MAX_LEN,     \* the buffer size (256 in the code), scaled down
  BannerLen,   \* strlen of the start banner (14 in the code), scaled down
  FrameLens,   \* lengths of the frames the peer may send
  MaxFrames    \* bound on the number of frames the peer sends

ASSUME /\ MAX_LEN \in Nat \ {0}
       /\ BannerLen \in 1..MAX_LEN
       /\ FrameLens \subseteq Nat \ {0}
       /\ MaxFrames \in Nat

VARIABLES
  \* the peer
  frames,      \* the frames sent so far, each a sequence of byte ids
  toSend,      \* bytes of the current frame still to send
  gap,         \* the line was idle during the last tick
  \* USART1
  rxFull,      \* RXBNE: the receive data register holds rdr
  rdr,         \* the receive data register
  idleArm,     \* a character was received since the last idle line
  idleFlag,    \* the IDLE flag
  txq,         \* shift register then transmit data register (0..2 bytes)
  out,         \* every character put on the TX wire
  \* DMA1
  ch5,         \* [en, cnt]: RX channel, writes uart_rx_buf[MAX_LEN - cnt]
  ch4,         \* [en, cnt, ptr]: TX channel, reads uart_tx_buf[ptr]
  rx_buf,      \* uart_rx_buf
  tx_buf,      \* uart_tx_buf
  \* the program
  mainPc,      \* where main is in send_data(sbuf, strlen(sbuf))
  isrPc,       \* "none", or "wait" in USART1_Isr's send_data
  tmp_len      \* USART1_Isr's tmp_len

vars == <<frames, toSend, gap, rxFull, rdr, idleArm, idleFlag, txq, out,
          ch5, ch4, rx_buf, tx_buf, mainPc, isrPc, tmp_len>>

Idx == 0..MAX_LEN-1
MaxByte == MaxFrames * (IF FrameLens = {} THEN 0 ELSE Max(FrameLens))
Bytes == (-BannerLen)..MaxByte
Banner == [i \in 1..BannerLen |-> -i]
MainPcs == {"copy", "wait", "disable", "config", "enable", "done"}

UsartTypeOK ==
  /\ frames \in Seq(Seq(1..MaxByte)) /\ Len(frames) <= MaxFrames
  /\ toSend \in Nat /\ gap \in BOOLEAN
  /\ rxFull \in BOOLEAN /\ rdr \in Bytes
  /\ idleArm \in BOOLEAN /\ idleFlag \in BOOLEAN
  /\ txq \in Seq(Bytes) /\ Len(txq) <= 2
  /\ out \in Seq(Bytes)
  /\ ch5 \in [en : BOOLEAN, cnt : 0..MAX_LEN]
  /\ ch4 \in [en : BOOLEAN, cnt : 0..MAX_LEN, ptr : 0..MAX_LEN]
  /\ rx_buf \in [Idx -> Bytes] /\ tx_buf \in [Idx -> Bytes]
  /\ mainPc \in MainPcs /\ isrPc \in {"none", "wait"}
  /\ tmp_len \in 0..MAX_LEN

-----------------------------------------------------------------------------
(* Hardware helpers.                                                      *)

\* TXBE: the transmit data register is empty (the shift register may not be).
TXBE == Len(txq) <= 1

\* DMA_ConfigDataNumber: CNDTR is read-only while the channel is enabled.
ConfigDataNumber(ch, n) == IF ch.en THEN ch ELSE [ch EXCEPT !.cnt = n]

\* DMA_Enable: a channel that was off starts again at its base address.
Enable(ch) == IF ch.en THEN ch ELSE [ch EXCEPT !.en = TRUE, !.ptr = 0]

\* DMA1 channel 4 serves TXBE once: one byte of uart_tx_buf into the
\* transmit data register.
TxServe(c, q, buf) ==
  IF c.en /\ c.cnt > 0 /\ Len(q) < 2
  THEN [c |-> [c EXCEPT !.cnt = @ - 1, !.ptr = @ + 1], q |-> Append(q, buf[c.ptr])]
  ELSE [c |-> c, q |-> q]

\* Channel 4 keeps serving until the data register is full or it is done.
TxPump(c, q, buf) ==
  LET s1 == TxServe(c, q, buf) IN TxServe(s1.c, s1.q, buf)

\* The new values of ch4 and txq after channel 4 has served TXBE.
PumpTx(c, buf) ==
  LET s == TxPump(c, txq, buf) IN ch4' = s.c /\ txq' = s.q

-----------------------------------------------------------------------------
(* main: the send_data of the start banner, after config_dma.           *)

MainCopy ==
  /\ isrPc = "none" /\ mainPc = "copy"
  /\ tx_buf' = [i \in Idx |-> IF i < BannerLen THEN Banner[i+1] ELSE tx_buf[i]]
  /\ mainPc' = "wait"
  /\ UNCHANGED <<frames, toSend, gap, rxFull, rdr, idleArm, idleFlag, txq, out,
                 ch5, ch4, rx_buf, isrPc, tmp_len>>

MainWait ==
  /\ isrPc = "none" /\ mainPc = "wait" /\ TXBE
  /\ mainPc' = "disable"
  /\ UNCHANGED <<frames, toSend, gap, rxFull, rdr, idleArm, idleFlag, txq, out,
                 ch5, ch4, rx_buf, tx_buf, isrPc, tmp_len>>

MainDisable ==
  /\ isrPc = "none" /\ mainPc = "disable"
  /\ ch4' = [ch4 EXCEPT !.en = FALSE]
  /\ mainPc' = "config"
  /\ UNCHANGED <<frames, toSend, gap, rxFull, rdr, idleArm, idleFlag, txq, out,
                 ch5, rx_buf, tx_buf, isrPc, tmp_len>>

MainConfig ==
  /\ isrPc = "none" /\ mainPc = "config"
  /\ ch4' = ConfigDataNumber(ch4, BannerLen)
  /\ mainPc' = "enable"
  /\ UNCHANGED <<frames, toSend, gap, rxFull, rdr, idleArm, idleFlag, txq, out,
                 ch5, rx_buf, tx_buf, isrPc, tmp_len>>

MainEnable ==
  /\ isrPc = "none" /\ mainPc = "enable"
  /\ PumpTx(Enable(ch4), tx_buf)
  /\ mainPc' = "done"
  /\ UNCHANGED <<frames, toSend, gap, rxFull, rdr, idleArm, idleFlag, out,
                 ch5, rx_buf, tx_buf, isrPc, tmp_len>>

-----------------------------------------------------------------------------
(* USART1_Isr, split at the TXBE wait of its send_data.                    *)

\* Mutation: off by one in tmp_len.
RxCountOverOne(c) == MAX_LEN - c.cnt + 1

\* Line 179: what channel 5 has received since its count was loaded.
RxCount(c) == MAX_LEN - c.cnt

\* Mutation: the count is reloaded before the channel is disabled, so the
\* write is ignored.
StopRxSwapped(c) == [ConfigDataNumber(c, MAX_LEN) EXCEPT !.en = FALSE]

\* Lines 178 and 180: channel 5 disabled, then its count reloaded.
StopRx(c) == ConfigDataNumber([c EXCEPT !.en = FALSE], MAX_LEN)

\* Lines 175-181 up to the wait: the IDLE flag is read and cleared by the
\* status-then-data read (which also takes any byte left in the data
\* register), channel 5 is stopped, tmp_len is what it received, and
\* send_data copies tmp_len bytes into uart_tx_buf.
IsrEnter ==
  /\ isrPc = "none" /\ idleFlag
  /\ tmp_len' = RxCount(ch5)
  /\ tx_buf' = [i \in Idx |-> IF i < RxCount(ch5) THEN rx_buf[i] ELSE tx_buf[i]]
  /\ idleFlag' = FALSE
  /\ rxFull' = FALSE
  /\ ch5' = StopRx(ch5)
  /\ isrPc' = "wait"
  /\ UNCHANGED <<frames, toSend, gap, rdr, idleArm, txq, out, ch4, rx_buf,
                 mainPc>>

\* Channel 5 serves a received byte: uart_rx_buf[MAX_LEN - cnt].
RxServe(c, full, b, buf) ==
  IF c.en /\ c.cnt > 0 /\ full
  THEN [c |-> [c EXCEPT !.cnt = @ - 1], full |-> FALSE,
        buf |-> [buf EXCEPT ![MAX_LEN - c.cnt] = b]]
  ELSE [c |-> c, full |-> full, buf |-> buf]

\* Mutation: line 182 is missing and channel 5 stays disabled.
RestartRxMissing(c) == c

\* Line 182: channel 5 enabled again.
RestartRx(c) == [c EXCEPT !.en = TRUE]

\* The rest, once TXBE is seen: channel 4 is disabled, given tmp_len and
\* enabled, then channel 5 is enabled again (and serves a byte waiting in
\* the data register).
IsrSend ==
  /\ isrPc = "wait" /\ TXBE
  /\ PumpTx(Enable(ConfigDataNumber([ch4 EXCEPT !.en = FALSE], tmp_len)), tx_buf)
  /\ LET r == RxServe(RestartRx(ch5), rxFull, rdr, rx_buf)
     IN ch5' = r.c /\ rxFull' = r.full /\ rx_buf' = r.buf
  /\ isrPc' = "none"
  /\ UNCHANGED <<frames, toSend, gap, rdr, idleArm, idleFlag, out, tx_buf,
                 mainPc, tmp_len>>

-----------------------------------------------------------------------------
(* One character time on both wires.                                      *)

Sent == Len(FlattenSeq(frames))

\* The CPU has code to run that is not a TXBE spin: a pending IDLE
\* interrupt, or a statement of main or USART1_Isr.  Code takes no time
\* against a character, so a character time passes only while the CPU
\* is spinning or idle in main's while (1).
CodeReady ==
  \/ isrPc = "none" /\ idleFlag
  \/ isrPc = "wait" /\ TXBE
  \/ isrPc = "none" /\ mainPc \in {"copy", "disable", "config", "enable"}
  \/ isrPc = "none" /\ mainPc = "wait" /\ TXBE

\* The transmitter finishes the character in its shift register; the
\* receiver gets byte b if arrives (lost on overrun when the data register
\* is still full) or sees an idle character, which sets IDLE after a
\* reception; then both DMA channels serve their requests.
Wire(arrives, b) ==
  LET q1 == IF txq = <<>> THEN txq ELSE Tail(txq)
      full1 == rxFull \/ arrives
      rdr1 == IF arrives /\ ~rxFull THEN b ELSE rdr
      r == RxServe(ch5, full1, rdr1, rx_buf)
      t == TxPump(ch4, q1, tx_buf)
  IN /\ ~CodeReady
     /\ out' = IF txq = <<>> THEN out ELSE Append(out, Head(txq))
     /\ rdr' = rdr1
     /\ rxFull' = r.full /\ ch5' = r.c /\ rx_buf' = r.buf
     /\ txq' = t.q /\ ch4' = t.c
     /\ idleArm' = arrives
     /\ idleFlag' = (idleFlag \/ (~arrives /\ idleArm))
     /\ gap' = ~arrives
     /\ UNCHANGED <<tx_buf, mainPc, isrPc, tmp_len>>

\* The peer sends the next byte of its current frame.
TickByte ==
  /\ toSend > 0
  /\ toSend' = toSend - 1
  /\ Wire(TRUE, Sent - toSend + 1)
  /\ UNCHANGED frames

\* The peer starts a new frame of len bytes after an idle character.
TickFrame(len) ==
  /\ toSend = 0 /\ gap /\ Len(frames) < MaxFrames
  /\ frames' = Append(frames, [i \in 1..len |-> Sent + i])
  /\ toSend' = len - 1
  /\ Wire(TRUE, Sent + 1)

\* The line is idle for a character time.
TickIdle ==
  /\ toSend = 0
  /\ Wire(FALSE, 0)
  /\ UNCHANGED <<frames, toSend>>

-----------------------------------------------------------------------------
\* After config_dma: channel 4 off with no count, channel 5 configured for
\* MAX_LEN bytes but not enabled, the buffers zero, main about to copy the
\* banner, and the line idle.
Init ==
  /\ frames = <<>> /\ toSend = 0 /\ gap = TRUE
  /\ rxFull = FALSE /\ rdr = 0 /\ idleArm = FALSE /\ idleFlag = FALSE
  /\ txq = <<>> /\ out = <<>>
  /\ ch5 = [en |-> FALSE, cnt |-> MAX_LEN]
  /\ ch4 = [en |-> FALSE, cnt |-> 0, ptr |-> 0]
  /\ rx_buf = [i \in Idx |-> 0] /\ tx_buf = [i \in Idx |-> 0]
  /\ mainPc = "copy" /\ isrPc = "none" /\ tmp_len = 0

Main == MainCopy \/ MainWait \/ MainDisable \/ MainConfig \/ MainEnable

Next ==
  \/ Main
  \/ IsrEnter \/ IsrSend
  \/ TickByte \/ TickIdle \/ \E len \in FrameLens : TickFrame(len)

\* Time passes, the CPU runs main and takes a pending interrupt, and a
\* frame once started is sent to its end; the peer need not send more.
Fairness ==
  /\ WF_vars(Main) /\ WF_vars(IsrEnter) /\ WF_vars(IsrSend)
  /\ WF_vars(TickByte) /\ WF_vars(TickIdle)

Spec == Init /\ [][Next]_vars /\ Fairness

-----------------------------------------------------------------------------
(* Properties.                                                            *)

\* The echo never reorders, repeats or invents data: the peer's bytes that
\* USART1_Isr sends back appear on TX in the order they were sent, each at
\* most once, and no byte of the zeroed buffers is ever sent.
EchoInOrder ==
  LET e == SelectSeq(out, LAMBDA x : x > 0)
  IN /\ \A i \in 1..Len(e)-1 : e[i] < e[i+1]
     /\ \A i \in 1..Len(out) : out[i] # 0

\* Every frame that fits in uart_rx_buf, after the first, is eventually
\* sent back whole by USART1_Isr.
LaterFramesEchoed ==
  \A k \in 2..MaxFrames :
    (Len(frames) >= k /\ Len(frames[k]) <= MAX_LEN /\ toSend = 0)
      ~> (Len(frames) >= k /\ frames[k] \in SubSeqs(out))

\* Every frame that fits in uart_rx_buf, the first one included, is
\* eventually sent back whole.
EveryFrameEchoed ==
  \A k \in 1..MaxFrames :
    (Len(frames) >= k /\ Len(frames[k]) <= MAX_LEN /\ toSend = 0)
      ~> (Len(frames) >= k /\ frames[k] \in SubSeqs(out))
=============================================================================
