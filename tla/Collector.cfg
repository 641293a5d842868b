SPECIFICATION FairSpec
CONSTANTS
  MaxGames = 2
  MaxSpawns = 2
  MaxXp = 1
  MaxHelpers = 2
  MaxFaults = 2
INVARIANTS
  TypeOK
  NoneLeftBehind
  AskedAlone
  SpawnsOnce
PROPERTIES
  AppIDIsFreed
  EndIsReported
CHECK_DEADLOCK FALSE
