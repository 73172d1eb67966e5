CONSTANTS
  PagefilePaths = {c, d}
  TargetPath = c
  PagefileSizes = {2, 4}
  WantedSizes = {0, 3, 9}
  FreeSpaceMb = 6
  MaxPagefileMb = 8
  Hosts = {h1, h2}
  MaxPagefileDisturbances = 2
  Guids = {g1, g2}
  PciDevices = {p1, p2}
  NetValues = {v0, v1}
  RssOn = v1
  Absent = absent
  SuiteNla = suite
  MaxNetChanges = 1
  DisplayDevices = {gpu}
  NetworkDevices = {nic, audio}
  KeylessDevices = {audio}
  ProcessorCounts = {0, 8}
  NoValue = none
  MaxHardwareChanges = 1
  Roots = {r1, r2}
  TempObjects = {dir, f1, f2}
  TempDirs = {dir}
  MaxNodes = 3
  MaxOutside = 2
  DrsSettings = {s1}
  UserValues = {"user"}
  MaxDrsEntries = 2
  MaxPanelChanges = 1
  BatchValues = {b1}
  GpuValue = gpuv
  RegTypes = {"DWord", "MultiSz"}
  MaxSystemEvents = 1
  CfgInstalls = {i1, i2}
  CfgAssets = {a1}
  LegacyAssets = {a1}
  UserBytes = {u1, big}
  OversizedBytes = {big}
  NoFile = nofile
  CfgSelections = {{"P1:34", "CS2:CFG"}, {"P1:34"}, {"CS2:CFG"}}
  MaxMinutes = 1
  MaxCfgEvents = 1
SPECIFICATION AdaptersSpec
INVARIANTS
  AdaptersTypeOK
  PagefileRestoreExact
  NetworkRestoreOutcome
  InterruptRecoverable
  DrsRestoreExact
  SystemRestored
  DeployedFilesRecoverable
PROPERTIES
  NetworkDeviceBound
  CompletedTreeEmptied
CHECK_DEADLOCK FALSE
SYMMETRY InstallSymmetry
