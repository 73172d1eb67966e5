CONSTANTS
  PagefilePaths = {c, d}
  TargetPath = c
  PagefileSizes = {2, 4}
  WantedSizes = {0, 3, 9}
  FreeSpaceMb = 6
  MaxPagefileMb = 8
  Hosts = {h1}
  MaxPagefileDisturbances = 0
INIT PfInit
NEXT PfNext
INVARIANT PagefileRecoverable
CHECK_DEADLOCK FALSE
