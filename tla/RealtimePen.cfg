CONSTANTS
  BlockSlots = 1
  SegmentSlots = 2
  BlockUnits = 2
  MaxLines = 2
  MaxCommands = 1
SPECIFICATION Spec
INVARIANT PenFollowsProgram
