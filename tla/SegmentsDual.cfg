SPECIFICATION Spec
CONSTANTS
  SegmentBufferSize = 4
  BlockSlots = 2
  MaxAmassLevel = 1
  Moves <- MCMoves
  MaxBlocks = 2
  MaxResets = 0
INVARIANTS MotorsInStep
