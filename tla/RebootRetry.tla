---------------------------- MODULE RebootRetry ----------------------------
(***************************************************************************)
(* RebootHandoff with a user who keeps retrying: what the handoff promises *)
(* to reach in the end.  Interruptions (a kill, a failed write, power loss *)
(* in the middle of a command) happen at any point but at most MaxFaults   *)
(* times; a command that its guards refuse may be refused for ever.        *)
(***************************************************************************)
EXTENDS RebootHandoff

CONSTANT MaxFaults

ASSUME MaxFaultsAssumption == MaxFaults \in Nat

VARIABLE faults

retryVars == <<vars, faults>>

Fault == faults < MaxFaults /\ faults' = faults + 1

RetryInit == Init /\ faults = 0

(* The command ends because nothing is left that its guards allow. *)
Ended(p) == ~ENABLED Work(p) /\ Exit(p) /\ UNCHANGED faults

Interrupted(p) == ENABLED Work(p) /\ Fault /\ Exit(p)

Restart == (\A p \in Procs : pc[p] = "idle") /\ Reboot /\ UNCHANGED faults

PowerLoss == (\E p \in Procs : pc[p] # "idle") /\ Fault /\ Reboot

WorkStep(p) == Work(p) /\ UNCHANGED faults

StartStep(p, cmd, u, c) == Start(p, cmd, u, c) /\ UNCHANGED faults

Logon == (LogonWithoutHandoff \/ \E p \in Procs, u \in Users : LogonPhaseTwo(p, u))
         /\ UNCHANGED faults

RetryNext ==
  \/ \E p \in Procs : WorkStep(p) \/ Ended(p) \/ Interrupted(p)
  \/ \E p \in Procs, cmd \in Commands, u \in Users, c \in Captures : StartStep(p, cmd, u, c)
  \/ Logon \/ Restart \/ PowerLoss

(* A running command proceeds, the machine is restarted and logged on to,  *)
(* and every command is tried again and again by every user.               *)
RetrySpec ==
  /\ RetryInit /\ [][RetryNext]_retryVars
  /\ SF_retryVars(Restart) /\ WF_retryVars(Logon)
  /\ \A p \in Procs :
       /\ WF_retryVars(WorkStep(p))
       /\ WF_retryVars(Ended(p))
       /\ \A cmd \in Commands \ {"final-benchmark"} :
            SF_retryVars(\E u \in Users, c \in Captures : StartStep(p, cmd, u, c))
       /\ \A c \in Captures :
            SF_retryVars(\E u \in Users : StartStep(p, "final-benchmark", u, c))

(* persist_final_benchmark: "An exact retry reuses a receipt already       *)
(* present in either prefix".  Wherever the benchmark commit was cut       *)
(* short, once phase3Complete is on disk the exact retry finishes it and   *)
(* the Run handoff is cleared, unless a power loss left the lock behind.   *)
CompletionReleasesHandoff ==
  StageRank(state) = 4 ~>
    ((StageRank(state) = 4 /\ run[state.txn.sid] = None) \/ lock = StaleLock)

(* handoff.rs: "Native, retry-safe reboot handoff transactions".  Once the *)
(* transaction is armed in state.json, retrying completes P1:38.           *)
ArmingRetrySafe ==
  state.txn # None ~> (ArmSafeModeStep \in progress.completed \/ lock = StaleLock)
=============================================================================
