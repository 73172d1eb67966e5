CONSTANTS
  Preparers = {p1, p2, p3}
  Gpus = {nv, amd}
  NvidiaGpus = {nv}
  Packages = {oem1}
  Payloads = {good}
  NoPayload = nopayload
  NoFile = nofile
  Killed = killed
  MaxHostChanges = 2
  RtProcesses = {p1, p2}
  Generations = {g1, g2}
  PayloadFiles = {exe, toml}
  RtExecutable = exe
  RtManifest = manifest
  Releases = {r1, bad}
  PinnedReleases = {r1}
  NoContent = nocontent
  Partial = partial
  NoGeneration = nogen
  MaxTampering = 1
  Components = {"drv", "a", "b"}
  DisplayDriver = "drv"
  SetupFiles = "setup"
  BloatIds = {"b"}
  PresetIds <- MCPresets
  Resolve <- resolve_selection
  NoOutput = none
  NoPin = nopin
  InstallRequests <- MCInstallRequests
  MaxOthers = 1
  CleanRequests <- MCCleanRequests
  NcProcs = {p1, p2, p3}
  ElevatedProcs = {p3}
  Intervals = {50, 250}
  Inis = {ini}
  NoData = nodata
  Torn = torn
  Settable = {"affinity", "cpu"}
  UsableTargets = {"affinity", "cpu"}
  Levels = {10, 20, 60}
  SystemMasks = {10, 20}
  MaxPlans = 2
  MaxForeignWrites = 1
  TracedProcesses = {t1, t2}
  MaxSamples = 2
  MaxInterval = 2
  MaxTime = 4
  MaxOperations = 3
SPECIFICATION FairToolsSpec
INVARIANTS
  ToolsTypeOK
  DownloadOwned
  SelectedRuntimeAuthentic
  RetainedRuntimeStays
  PreparedFromOneRoot
  ResolvedExactly
  ScopesOnlyAdd
  WritesAccounted
  DesktopClosesSafely
PROPERTIES
  ForeignOutputsKept
  StoredFilesSurvive
  CaptureReturns
CHECK_DEADLOCK FALSE
