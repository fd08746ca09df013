SPECIFICATION Spec
CONSTANTS
  first = first
  second = second
  ann = ann
  phoenix = phoenix
  Nothing = Nothing
  ServerLog = ServerLog
  Clients = {first, second}
  AreaCount = 2
  Allowed = {ann}
  Refused = {}
  Characters = {phoenix}
  LogBuffer = 1
  MaxFlags = 1
SYMMETRY Ids
INVARIANTS
  PlayersSeen
  BufferIsTail
