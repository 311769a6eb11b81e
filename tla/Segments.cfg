SPECIFICATION Spec
CONSTANTS
  SegmentBufferSize = 4
  BlockSlots = 2
  MaxAmassLevel = 1
  Moves <- MCMoves
  MaxBlocks = 3
  MaxResets = 1
INVARIANTS TypeOK BlocksEndExactly MotorsFollowPosition
PROPERTIES LiveDataKept MotionEnds

