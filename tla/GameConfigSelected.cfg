CONSTANTS
  CfgInstalls = {i1}
  CfgAssets = {a1}
  LegacyAssets = {a1}
  UserBytes = {u1}
  OversizedBytes = {}
  NoFile = nofile
  CfgSelections = {{"P1:34"}, {"CS2:CFG"}}
  MaxMinutes = 0
  MaxCfgEvents = 0
SPECIFICATION CfgSpec
INVARIANT DeployedFilesJournaled
CHECK_DEADLOCK FALSE
