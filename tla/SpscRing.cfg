CONSTANTS
  Capacity = 2
  IndexModulus = 4
  MaxRequest = 3
  MaxElements = 9
  NoElement = NoElement
SPECIFICATION FairSpec
INVARIANTS WraparoundBenign NoSlotRace
PROPERTIES ImplementsFifo Drained
