\* Buffers of 5 bytes (256 in the code), a 2-byte banner, and up to four
\* frames of 1, 2, 5 or 6 bytes: frames that fill the buffer, frames one
\* byte too long, and short frames that arrive while the echo of a long
\* one is still on the wire, so that USART1_Isr waits on TXBE with
\* channel 5 disabled.
CONSTANTS
  MAX_LEN = 5
  BannerLen = 2
  FrameLens = {1, 2, 5, 6}
  MaxFrames = 4
SPECIFICATION Spec
INVARIANTS UsartTypeOK EchoInOrder
