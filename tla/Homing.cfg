CONSTANTS
  Travel = 3
  MaxSkew = 1
  Search = 7
  Locate = 4
  Pulloff = 2
  Fail = 1
  Lag = 1
  Beyond = 5
  MaxCommands = 1
SPECIFICATION Spec
INVARIANTS TypeOK StartupIsHomed GantryStaysSquare LimitsGuarded AbandonedIsLocked
PROPERTY HomingEnds
