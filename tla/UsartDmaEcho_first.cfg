\* One short frame after reset.
CONSTANTS
  MAX_LEN = 3
  BannerLen = 1
  FrameLens = {1, 2}
  MaxFrames = 1
SPECIFICATION Spec
PROPERTY EveryFrameEchoed
