CONSTANTS
  BlockSlots = 1
  SegmentSlots = 1
  BlockUnits = 2
  MaxLines = 2
  MaxCommands = 2
SPECIFICATION Spec
INVARIANTS
  TypeOK
  PenUpUnderReset
  PenMatchesProgram
  HoldIsStill
PROPERTIES
  StartsFromStandstill
  ResetTaken
  HoldEnds
  CycleEnds
