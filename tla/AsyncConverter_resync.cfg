CONSTANTS
  Channels = 1
  TargetLatency = 1
  FifoFrames = 8
  Taps = 4
  PopChunk = 4
  FloorFrames = 16
  PhaseRange = 4
  EpsRange <- MCEps
  FadeFrames = 2
  CountRange = 2
  PushSizes = {1, 4}
  PullSizes = {1, 2}
SPECIFICATION Spec
PROPERTIES ResyncKeepsRing
