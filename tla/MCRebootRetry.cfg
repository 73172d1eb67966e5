CONSTANTS
  p1 = p1  alice = alice  g1 = g1  xmp = xmp  tweak = tweak  cfg = cfg  capA = capA  capB = capB
  None = None
  Procs = {p1}
  Users = {alice}
  Generations = {g1}
  Captures = {capA, capB}
  PhaseOneSteps = {xmp, tweak}
  AdvisoryAuthorized = {xmp}
  PhaseThreeSteps = {cfg}
  Outcomes <- MCOutcomes
  MaxFaults = 2
SPECIFICATION RetrySpec
PROPERTIES
  CompletionReleasesHandoff
  MarkersKept
