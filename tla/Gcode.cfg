CONSTANTS
  Lines <- MCLines
  JogLines <- MCJogLines
  StartupOverwrites = {"G54"}
  Systems <- MCSystems
  Travel = 2
  MmPerInch = 2
  Corrupt = Corrupt
  None = None
  PlanSlots = 2
  MaxLines = 3
SPECIFICATION Spec
INVARIANTS
  TypeOK
  PositionFollowsPlan
  
  CoordMatchesSelection
  WorkPositionAsAsked
