SPECIFICATION FairSpec
CONSTANTS
  r1 = r1
  r2 = r2
  s1 = s1
  s2 = s2
  k1 = k1
  k2 = k2
  Songs = {r1, s1, s2}
  Categories = {k1, k2}
  Stop = stop
  Root = {r1, k1}
  RootLength <- OneOfRoot
  Lengths <- EveryLength
INVARIANTS
  ListsAgree
  NoNameTwice
  TimerFollowsQueue
  QueuedOnce
PROPERTIES
  PlaysUntilSwitchedOff
  QueuedSongPlays
