CONSTANTS
  PhaseRange = 8
  Taps = 3
  Branches = 2
  Fractions = {2, 4}
  MuRange = 4
  Chunk = 2
  ChannelCounts = {1, 2, 3}
  MinInterleaved = 3
  Steps <- MCSteps
  Blocks = {0, 1, 3}
  Cuts = {1}
  MaxFrames = 12
SPECIFICATION Spec
INVARIANTS Interpolates ReadPosition
