SPECIFICATION AbiSpec
CONSTANTS
  SizeMax = 65535
  Channels = {0, 2}
  ManyChannels = {70, 9000}
  SampleRates = {0, 44100, 48000}
  Latencies = {0, 1, 400}
  Factors = {0, 1, 2, 3, 4, 6, 8, 257}
  StageDivisors <- MCDivisors
CHECK_DEADLOCK FALSE
INVARIANTS HeapIsHandles HandleIsAsked RejectionIsNull
