CONSTANTS
  p1 = p1  p2 = p2  alice = alice  bob = bob  g1 = g1  g2 = g2
  xmp = xmp  tweak = tweak  cfg = cfg  capA = capA  capB = capB
  None = None
  Procs = {p1, p2}
  Users = {alice, bob}
  Generations = {g1, g2}
  Captures = {capA}
  PhaseOneSteps = {tweak}
  AdvisoryAuthorized = {}
  PhaseThreeSteps = {}
  Outcomes <- MCOutcomes
SPECIFICATION Spec
INVARIANTS
  TypeOK
  CheckpointOrder
  SafeBootReleased
  RunBoundToTransaction
  HandoffRetained
  LateWorkBound
  LockedSessionCurrent
PROPERTIES
  TransactionMonotone
  ClearedOnlyWhenCoherent
  ImplementsProtocol
