SPECIFICATION FairSpec
CONSTANTS
  c1 = c1
  c2 = c2
  c3 = c3
  c4 = c4
  c5 = c5
  home = home
  world = world
  exile = exile
  NoClient = NoClient
  Clients <- AllClients
  MaxPlayers = 2
  AreaCount = 1
  Protected = {}
  CharCount = 0
  SelectableIds = {}
  AskedAreas = {0, 1}
  Moderators = {c1}
  Address <- FromHome
  Loopback = {world}
  Barred = {exile}
  MultiClientLimit = 1
  MaxDrift = 1
INVARIANTS
  RegistryConsistent
  MultiClientLimitHeld
PROPERTIES
  AllocatorSpec
  IdReturns
  LastOwnerFreesLock
