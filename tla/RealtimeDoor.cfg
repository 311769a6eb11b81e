CONSTANTS
  BlockSlots = 1
  SegmentSlots = 1
  BlockUnits = 1
  MaxLines = 1
  MaxCommands = 6
SPECIFICATION Spec
INVARIANT ResumeRestoresPen
