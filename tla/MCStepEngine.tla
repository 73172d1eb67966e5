---------------------------- MODULE MCStepEngine ----------------------------
(* Small instances of StepEngine for TLC: the rows P1:8 Pagefile, P1:21    *)
(* and P1:22 (preparations), P2:2 (driver removal) and P3:2 (MSI           *)
(* interrupts).                                                            *)
EXTENDS StepEngine, TLC

CONSTANTS p1, p2, pagefile, msiPrep, nicPrep, remove, msi,
          size, gpuInt, nicInt, off, on, hwA, hwB

MCOrder == [s \in Steps |->
  CASE s = pagefile -> 8 [] s = msiPrep -> 21 [] s = nicPrep -> 22
    [] s = remove -> 40 [] s = msi -> 43]

MCRowTargets == [s \in Steps |->
  Targets \cap
    CASE s = pagefile -> {size} [] s = msi -> {gpuInt, nicInt}
      [] s \in {remove, msiPrep, nicPrep} -> {}]

MCRequires == [s \in Steps |-> IF s = msi /\ msiPrep \in Steps THEN msiPrep ELSE None]
MCOriginal == [t \in Targets |-> off]
MCDesired == [t \in Targets |-> on]
MCSymmetry == Permutations(Procs)
=============================================================================
