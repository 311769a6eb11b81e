CONSTANTS
  LINE_BUFFER_SIZE = 3
  StartupNumbers = {0, 1, 2, 3}
  Texts <- MCTexts
  MaxCommands = 2
  MaxPowerLosses = 2
SPECIFICATION Spec
INVARIANT LinesAsStored
CHECK_DEADLOCK FALSE
