CONSTANTS
  L = 5
  M = 3
  Taps = 4
  Prototype <- MCPrototype
  Slack = 3
  PopChunk = 2
  Blocks = {0, 1, 3, 8}
  MaxFrames = 60
SPECIFICATION Spec
INVARIANTS NeverOutrunsInput IsConvolution
PROPERTIES PromisesKept ImplementsExactRate
