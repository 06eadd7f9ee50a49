\* Two attempts, which may overlap; one death.
SPECIFICATION MCSpec
CONSTANTS
  Slots = {s1, s2}
  Kinds <- MCKinds
  Stages <- MCStages
  TurnKind = "chat_turn"
  MaxAttempts = 2
  MaxFaults = 1
CHECK_DEADLOCK FALSE
INVARIANTS StagesAreToldOnce AcksComeInTime
PROPERTIES WorkGoesOn
