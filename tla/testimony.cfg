SPECIFICATION Spec
CONSTANTS
  keeper = keeper
  player = player
  Clients = {keeper, player}
  Keepers = {keeper}
  MaxStatements = 2
  MaxEntries = 5
INVARIANTS
  PositionInRange
  RecordingInStep
  TitleFirst
