SPECIFICATION ChainSpec
CONSTANTS
  L = 3
  M = 2
  FilterTaps = 7
  Slack = 2
  PopChunk = 2
  Blocks = {0, 1, 2, 4, 7}
  MaxFrames = 21
  L2 = 1
  M2 = 3
  FilterTaps2 = 5
  MaxFrames2 = 30
  Chunk = 2
  MaxChain = 15
INVARIANTS StagesConvolve SizingIsTight ChainIsExactRate FlushIsZeroPadding
PROPERTIES StagesAreExactRate AllPromisesKept
