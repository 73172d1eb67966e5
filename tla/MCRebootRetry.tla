--------------------------- MODULE MCRebootRetry ---------------------------
(* Small instances of RebootRetry for TLC. *)
EXTENDS RebootRetry, TLC

CONSTANTS p1, alice, g1, xmp, tweak, cfg, capA, capB

(* Every outcome the Backend contract allows for each Engine row. *)
MCOutcomes == [s \in EngineSteps |->
  IF s \in PhaseOneSteps THEN {"completed", "skipped", "advisory"}
                         ELSE {"completed", "skipped"}]
=============================================================================
