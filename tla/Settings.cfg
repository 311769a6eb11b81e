CONSTANTS
  LINE_BUFFER_SIZE = 3
  StartupNumbers = {0, 1}
  Texts <- MCTexts
  MaxCommands = 2
  MaxPowerLosses = 2
SPECIFICATION Spec
INVARIANTS
  TypeOK
  SettingsMatchEeprom
  LinesAsStored
CHECK_DEADLOCK FALSE
