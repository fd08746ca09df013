SPECIFICATION Spec
CONSTANTS
  moderator = moderator
  player = player
  lobby = lobby
  court = court
  letter = letter
  knife = knife
  wit = wit
  Out = Out
  NoPosition = NoPosition
  Clients = {moderator, player}
  Moderators = {moderator}
  Blocked = {player}
  AreaCount = 2
  Evidence = {letter, knife}
  Addressed <- Addressees
  Positions = {NoPosition, wit}
  MaxEvidence = 2
  MaxHealth = 1
  HealthValues <- OutOfRange
  Scenes = {lobby, court}
  DefaultScene = lobby
  DefaultMode = "HIDDEN_CM"
  JudgeLogSize = 1
  MaxTime = 0
  MaxTouched = 1
CONSTRAINT FewTouched
INVARIANTS
  SceneIsCurrent
  EvidenceIsCurrent
  TimersAreCurrent
