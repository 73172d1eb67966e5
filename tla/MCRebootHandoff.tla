-------------------------- MODULE MCRebootHandoff --------------------------
(* Small instances of RebootHandoff for TLC. *)
EXTENDS RebootHandoff, TLC

CONSTANTS p1, p2, alice, bob, g1, g2, xmp, tweak, cfg, capA, capB

(* Every outcome the Backend contract allows for each Engine row. *)
MCOutcomes == [s \in EngineSteps |->
  IF s \in PhaseOneSteps THEN {"completed", "skipped", "advisory"}
                         ELSE {"completed", "skipped"}]
=============================================================================
