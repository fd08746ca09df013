SPECIFICATION Spec
CONSTANTS
  c1 = c1
  c2 = c2
  c3 = c3
  home = home
  work = work
  laptop = laptop
  desktop = desktop
  Clients = {c1, c2, c3}
  Ipid <- Addresses
  Hwid <- Machines
  NoHwid = NoHwid
  Moderators = {c2}
  Permanent <- Forever
  Minute = 1
  Times <- TypedTimes
  Minutes <- PacketMinutes
  MaxBans = 2
  MaxClock = 1
INVARIANTS
  BannedAreLeaving
ACTION_CONSTRAINT ModeratorStays
