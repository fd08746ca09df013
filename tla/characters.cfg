SPECIFICATION CharactersSpec
CONSTANTS
  c1 = c1
  c2 = c2
  c3 = c3
  c4 = c4
  c5 = c5
  home = home
  world = world
  exile = exile
  NoClient = NoClient
  Clients <- TwoClients
  MaxPlayers = 2
  AreaCount = 2
  Protected = {0, 1}
  CharCount = 2
  SelectableIds <- AnyId
  AskedAreas = {}
  Moderators = {c1}
  Address <- FromLoopback
  Loopback = {world}
  Barred = {}
  MultiClientLimit = 1
  MaxDrift = 0
INVARIANTS
  SpectatorHasNoCharacter
  CurseLeavesChoice
PROPERTIES
  LeaverFreesCharacter
  CurseIsKept
ACTION_CONSTRAINT ModeratorPresides
