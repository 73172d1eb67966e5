CONSTANTS
  p1 = p1  pagefile = pagefile  size = size
  gameMode = gameMode  msiPrep = msiPrep  nicPrep = nicPrep
  gpuPref = gpuPref  pref = pref
  msi = msi  allow = allow  auto = auto  gpuInt = gpuInt
  off = off  on = on  hwA = hwA  hwB = hwB
  None = None
  Procs = {p1}
  Steps = {pagefile, gameMode, msiPrep, nicPrep, gpuPref, msi}
  Order <- MCOrder
  Audited = {}
  Receipted = {msiPrep, nicPrep}
  Exact = {gpuPref, msi}
  CaptureBound = {pagefile, gpuPref}
  AdvisoryRows = {pagefile}
  Requires <- MCRequires
  Targets = {size, allow, auto, pref, gpuInt}
  RowTargets <- MCRowTargets
  Values = {off, on}
  Original <- MCOriginal
  Desired <- MCDesired
  Bindings = {hwA, hwB}
SPECIFICATION ResumeSpec
INVARIANTS
  ReceiptDurable
PROPERTIES
  ResumableRowsRecorded
