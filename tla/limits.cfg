SPECIFICATION LimitsSpec
CONSTANTS
  keeper = keeper
  player = player
  Clients = {keeper, player}
  Keepers = {keeper}
  MaxStatements = 2
  MaxEntries = 5
  LogBuffer = 3
INVARIANT SomeLimitHolds
