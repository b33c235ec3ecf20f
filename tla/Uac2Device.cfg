SPECIFICATION DeviceSpec
CONSTANTS
  MaxPacket = 49
  BacklogLimit = 147
  ResyncUs = 5000
  MaxPpm = 1000
  Gaps = {1, 4, 7}
  Lates = {0, 400, 5900}
  Polls = 6
  Wrap = 1000000
  Fifo = 4
  Chunk = 2
  Lines = 1
  Seconds = 3
CHECK_DEADLOCK FALSE
INVARIANTS EveryFrameOnce SteadyPackets RangeIsOfItsSecond
PROPERTIES PrimeIsPlayed
