SPECIFICATION Spec
CONSTANTS
  c1 = c1
  c2 = c2
  c3 = c3
  c4 = c4
  c5 = c5
  home = home
  world = world
  exile = exile
  NoClient = NoClient
  Clients <- TwoClients
  MaxPlayers = 2
  AreaCount = 1
  Protected = {}
  CharCount = 0
  SelectableIds = {}
  AskedAreas = {}
  Moderators = {}
  Address <- FromLoopback
  Loopback = {world}
  Barred = {}
  MultiClientLimit = 1
  MaxDrift = 1
INVARIANT CountIsClients
