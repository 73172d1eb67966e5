--------------------------- MODULE MCEngineResume ---------------------------
(* Small instances of EngineResume for TLC: the rows P1:8 Pagefile (with   *)
(* an explicit size), P1:12 Game Mode, P1:21 and P1:22 (preparations),     *)
(* P1:30 GPU preference and P3:2 (MSI interrupts).                         *)
EXTENDS EngineResume, TLC

CONSTANTS p1, pagefile, gameMode, msiPrep, nicPrep, gpuPref, msi,
          size, allow, auto, pref, gpuInt, off, on, hwA, hwB

MCOrder == [s \in Steps |->
  CASE s = pagefile -> 8 [] s = gameMode -> 12 [] s = msiPrep -> 21 [] s = nicPrep -> 22
    [] s = gpuPref -> 30 [] s = msi -> 43]

MCRowTargets == [s \in Steps |->
  Targets \cap
    CASE s = pagefile -> {size} [] s = gameMode -> {allow, auto} [] s = gpuPref -> {pref}
      [] s = msi -> {gpuInt} [] s \in {msiPrep, nicPrep} -> {}]

MCRequires == [s \in Steps |-> IF s = msi /\ msiPrep \in Steps THEN msiPrep ELSE None]
MCOriginal == [t \in Targets |-> off]
MCDesired == [t \in Targets |-> on]
=============================================================================
