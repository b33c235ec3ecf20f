CONSTANTS
  Channels = 5
  TargetLatency = 2
  FifoFrames = 12
  Taps = 3
  PopChunk = 2
  FloorFrames = 16
  PhaseRange = 4
  EpsRange <- MCEps
  FadeFrames = 3
  CountRange = 2
  PushSizes = {1, 4}
  PullSizes = {0, 1, 8}
SPECIFICATION FairSpec
INVARIANTS FilterServed LevelsFit FadeContinuous
PROPERTIES FreshStartDelivers FillEnds
