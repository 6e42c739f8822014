\* A frame that the peer sends while USART1_Isr waits on TXBE for the echo
\* of the frame before (channel 5 disabled) is lost: LaterFramesEchoed is
\* violated at the fourth frame.
CONSTANTS
  MAX_LEN = 5
  BannerLen = 1
  FrameLens = {1, 5}
  MaxFrames = 4
SPECIFICATION Spec
PROPERTY LaterFramesEchoed
