SPECIFICATION Spec
CONSTANTS
  c1 = c1
  c2 = c2
  c3 = c3
  c4 = c4
  c5 = c5
  home = home
  world = world
  exile = exile
  NoClient = NoClient
  Clients <- ThreeClients
  MaxPlayers = 2
  AreaCount = 2
  Protected = {}
  CharCount = 0
  SelectableIds = {}
  AskedAreas = {0, 1}
  Moderators = {}
  Address <- FromLoopback
  Loopback = {world}
  Barred = {}
  MultiClientLimit = 1
  MaxDrift = 1
INVARIANT OwnersAreClients
