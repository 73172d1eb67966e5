CONSTANTS
  p1 = p1  pagefile = pagefile  size = size
  gameMode = gameMode  msiPrep = msiPrep  nicPrep = nicPrep
  gpuPref = gpuPref  pref = pref
  msi = msi  allow = allow  auto = auto  gpuInt = gpuInt
  off = off  on = on  hwA = hwA  hwB = hwB
  None = None
  Procs = {p1}
  Steps = {pagefile, gpuPref}
  Order <- MCOrder
  Audited = {}
  Receipted = {}
  Exact = {gpuPref}
  CaptureBound = {pagefile, gpuPref}
  AdvisoryRows = {pagefile}
  Requires <- MCRequires
  Targets = {size, pref}
  RowTargets <- MCRowTargets
  Values = {off, on}
  Original <- MCOriginal
  Desired <- MCDesired
  Bindings = {hwA}
SPECIFICATION ResumeSpec
PROPERTIES
  EveryRowRecorded
