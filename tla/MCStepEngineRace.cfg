CONSTANTS
  p1 = p1  p2 = p2
  pagefile = pagefile  msiPrep = msiPrep  nicPrep = nicPrep  remove = remove  msi = msi
  size = size  gpuInt = gpuInt  nicInt = nicInt
  off = off  on = on  hwA = hwA  hwB = hwB
  None = None
  Procs = {p1, p2}
  Steps = {remove, msi}
  Order <- MCOrder
  Audited = {remove}
  Receipted = {}
  Exact = {msi}
  CaptureBound = {}
  AdvisoryRows = {}
  Requires <- MCRequires
  Targets = {gpuInt, nicInt}
  RowTargets <- MCRowTargets
  Values = {off, on}
  Original <- MCOriginal
  Desired <- MCDesired
  Bindings = {hwA, hwB}
SYMMETRY MCSymmetry
SPECIFICATION Spec
INVARIANTS
  TypeOK
  Recoverable
  VerifiedUnderLock
  AuditTrail
PROPERTIES
  DroppedOnlyWhenRestored
