--------------------------- MODULE RebootProtocol ---------------------------
(***************************************************************************)
(* What the reboot workflow promises, without processes, files, crashes or *)
(* the registry: one transaction, owned by one user and bound to one       *)
(* runtime, walks through its stages; its Phase 3 handoff is in place      *)
(* before Phase 3 is entered and is released only after the final          *)
(* benchmark is certified.                                                 *)
(***************************************************************************)
EXTENDS Naturals

CONSTANTS Users, Generations, None

VARIABLES
  owner,    \* who armed the transaction, with which runtime
  stage,    \* 0 none, 1 safe mode armed, 2 safe mode, 3 phase 3, 4 complete
  handoff   \* the Phase 3 handoff is registered

protocolVars == <<owner, stage, handoff>>

ProtocolInit == owner = None /\ stage = 0 /\ handoff = FALSE

ArmTransaction ==
  /\ stage = 0
  /\ owner' \in [sid : Users, runtime : Generations]
  /\ stage' = 1
  /\ UNCHANGED handoff

LeaveSafeBoot ==
  /\ stage = 1
  /\ stage' = 2
  /\ UNCHANGED <<owner, handoff>>

RegisterHandoff ==
  /\ stage = 2
  /\ handoff' = TRUE
  /\ UNCHANGED <<owner, stage>>

EnterPhaseThree ==
  /\ stage = 2 /\ handoff
  /\ stage' = 3
  /\ UNCHANGED <<owner, handoff>>

Certify ==
  /\ stage = 3
  /\ stage' = 4
  /\ UNCHANGED <<owner, handoff>>

Release ==
  /\ stage = 4
  /\ handoff' = FALSE
  /\ UNCHANGED <<owner, stage>>

ProtocolNext ==
  \/ ArmTransaction \/ LeaveSafeBoot \/ RegisterHandoff \/ EnterPhaseThree
  \/ Certify \/ Release

ProtocolSpec == ProtocolInit /\ [][ProtocolNext]_protocolVars
=============================================================================
