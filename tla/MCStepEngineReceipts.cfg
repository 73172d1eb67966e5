CONSTANTS
  p1 = p1  p2 = p2
  pagefile = pagefile  msiPrep = msiPrep  nicPrep = nicPrep  remove = remove  msi = msi
  size = size  gpuInt = gpuInt  nicInt = nicInt
  off = off  on = on  hwA = hwA  hwB = hwB
  None = None
  Procs = {p1, p2}
  Steps = {msiPrep, nicPrep}
  Order <- MCOrder
  Audited = {}
  Receipted = {msiPrep, nicPrep}
  Exact = {}
  CaptureBound = {}
  AdvisoryRows = {}
  Requires <- MCRequires
  Targets = {}
  RowTargets <- MCRowTargets
  Values = {off, on}
  Original <- MCOriginal
  Desired <- MCDesired
  Bindings = {hwA}
SPECIFICATION Spec
INVARIANTS
  ReceiptDurable
