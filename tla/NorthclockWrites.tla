--------------------------- MODULE NorthclockWrites ---------------------------
(***************************************************************************)
(* northclock's writes: the affinity of a process and the CPU and GPU      *)
(* tuning operations.  A preview captures the present state in a plan, an  *)
(* apply re-reads that state, is authorized, writes, reads back and        *)
(* returns a receipt, and a rollback consumes a receipt.  Plans and        *)
(* receipts are files the user keeps and may replay at any time.  One      *)
(* northclock command runs at a time; other programs write at any moment.  *)
(***************************************************************************)
EXTENDS Integers, FiniteSets

CONSTANTS
  Settable,           \* what can be written: "affinity", "cpu", "gpu"
  UsableTargets,      \* those whose capability is reported usable
  Levels,             \* the values that can be read or asked for
  SystemMasks,        \* those that lie within the system's processor mask
  MaxPlans,           \* plans the user makes
  MaxForeignWrites    \* writes of other programs

ASSUME WritesAssumption ==
  SystemMasks \subseteq Levels /\ MaxPlans \in Nat /\ MaxForeignWrites \in Nat

VARIABLES nwState, nwForeign, nwWrites, nwPlans, nwReceipts, nwRun, nwReported

nwVars == <<nwState, nwForeign, nwWrites, nwPlans, nwReceipts, nwRun, nwReported>>

\* The build has the experimental-hardware-writes feature, both flags are given, the
\* process is elevated and the acknowledgement matches.
Gates == {"feature", "experimental", "apply", "elevated", "acknowledged"}

PlanRecords == [target : Settable, captured : Levels, requested : Levels]

NwIdle == [pc |-> "idle"]

\* Where a command stands, and the plan or the receipt it was given.
NwPoints == {"write", "readback", "undo", "undone", "revert", "reverted"}
NwRuns == {NwIdle} \cup [pc : NwPoints, plan : PlanRecords]

NwTypeOK ==
  /\ nwState \in [Settable -> Levels]
  /\ nwForeign \in [Settable -> SUBSET Levels]
  /\ nwWrites \in 0..MaxForeignWrites
  /\ nwPlans \subseteq PlanRecords
  /\ nwReceipts \subseteq PlanRecords
  /\ nwRun \in NwRuns
  /\ nwReported \subseteq Settable \X Levels

NwStart(state) ==
  /\ nwState = state
  /\ nwForeign = [t \in Settable |-> {nwState[t]}]
  /\ nwWrites = 0
  /\ nwPlans = {}
  /\ nwReceipts = {}
  /\ nwRun = NwIdle
  /\ nwReported = {}

NwInit == \E state \in [Settable -> SystemMasks] : NwStart(state)

\* What a command leaves behind when it reports that it could not undo its write.
Present(target) == <<target, nwState[target]>>

\* WriteAuthorization::validate, asked of every apply and every rollback.
authorize_write(gates) == gates = Gates

\* SafetyPolicy::validate: the curve optimizer offset, or the core clock offset.
SafetyPolicy(target, level) ==
  level \in IF target = "cpu" THEN -50..50 ELSE -500..500

\* validate_affinity_plan: no bit outside the system mask.
validate_affinity_plan(level) == level \in SystemMasks

\* A capability that is not reported, or not usable, refuses the command.
unusable_capability(target) == target \notin UsableTargets

Commanded(target) == nwRun = NwIdle /\ ~unusable_capability(target)

(***************************************************************************)
(* Previews: the present state is captured in a plan.                      *)
(***************************************************************************)
Plan(target, level) ==
  /\ Cardinality(nwPlans) < MaxPlans
  /\ nwPlans' = nwPlans \cup
       {[target |-> target, captured |-> nwState[target], requested |-> level]}
  /\ UNCHANGED <<nwState, nwForeign, nwWrites, nwReceipts, nwRun, nwReported>>

operation_preview(target, level) ==
  /\ target # "affinity"
  /\ Commanded(target)
  /\ SafetyPolicy(target, level)
  /\ Plan(target, level)

process_affinity_preview(level) ==
  /\ "affinity" \in Settable
  /\ Commanded("affinity")
  /\ validate_affinity_plan(level) /\ validate_affinity_plan(nwState["affinity"])
  /\ Plan("affinity", level)

(***************************************************************************)
(* Applies: the present state must still be the captured one.              *)
(***************************************************************************)
Proceed(pc, record) ==
  /\ nwRun' = [pc |-> pc, plan |-> record]
  /\ UNCHANGED <<nwState, nwForeign, nwWrites, nwPlans, nwReceipts, nwReported>>

operation_apply(plan, gates) ==
  /\ plan.target # "affinity"
  /\ Commanded(plan.target)
  /\ SafetyPolicy(plan.target, plan.requested)
  /\ nwState[plan.target] = plan.captured
  /\ authorize_write(gates)
  /\ Proceed("write", plan)

process_affinity_apply(plan, gates) ==
  /\ plan.target = "affinity"
  /\ Commanded("affinity")
  /\ validate_affinity_plan(plan.requested) /\ validate_affinity_plan(plan.captured)
  /\ nwState["affinity"] = plan.captured
  /\ authorize_write(gates)
  /\ Proceed("write", plan)

\* SetProcessAffinityMask takes the mask or fails.  A tuning backend may also settle
\* on another level than the one asked for.
backend_write(level) ==
  LET target == nwRun.plan.target IN
  /\ nwRun.pc = "write"
  /\ target = "affinity" => level = nwRun.plan.requested
  /\ nwState' = [nwState EXCEPT ![target] = level]
  /\ nwRun' = [nwRun EXCEPT !.pc = "readback"]
  /\ UNCHANGED <<nwForeign, nwWrites, nwPlans, nwReceipts, nwReported>>

backend_write_fails ==
  /\ nwRun.pc = "write"
  /\ nwRun' = NwIdle
  /\ UNCHANGED <<nwState, nwForeign, nwWrites, nwPlans, nwReceipts, nwReported>>

Matches == nwState[nwRun.plan.target] = nwRun.plan.requested

\* The receipt is returned when the read-back matches; otherwise the operation is undone.
operation_readback ==
  /\ nwRun.pc = "readback" /\ nwRun.plan.target # "affinity"
  /\ nwReceipts' = IF Matches THEN nwReceipts \cup {nwRun.plan} ELSE nwReceipts
  /\ nwRun' = IF Matches THEN NwIdle ELSE [nwRun EXCEPT !.pc = "undo"]
  /\ UNCHANGED <<nwState, nwForeign, nwWrites, nwPlans, nwReported>>

\* A failed validation of an affinity receipt is reported and nothing is undone.
affinity_readback ==
  /\ nwRun.pc = "readback" /\ nwRun.plan.target = "affinity"
  /\ nwReceipts' = IF Matches THEN nwReceipts \cup {nwRun.plan} ELSE nwReceipts
  /\ nwRun' = NwIdle
  /\ UNCHANGED <<nwState, nwForeign, nwWrites, nwPlans, nwReported>>

\* A receipt that does not describe the plan, or no read-back at all, is an error; the
\* write is not undone.
receipt_refused ==
  /\ nwRun.pc = "readback"
  /\ nwReported' = nwReported \cup {Present(nwRun.plan.target)}
  /\ nwRun' = NwIdle
  /\ UNCHANGED <<nwState, nwForeign, nwWrites, nwPlans, nwReceipts>>

rollback_after_failed_readbackAltered ==
  /\ nwRun.pc = "undo"
  /\ nwRun' = NwIdle
  /\ UNCHANGED <<nwState, nwReported>>

\* The captured state is written back; a backend that refuses is reported.
rollback_after_failed_readback ==
  LET plan == nwRun.plan IN
  /\ nwRun.pc = "undo"
  /\ \/ /\ nwState' = [nwState EXCEPT ![plan.target] = plan.captured]
        /\ nwRun' = [nwRun EXCEPT !.pc = "undone"]
        /\ UNCHANGED nwReported
     \/ /\ nwReported' = nwReported \cup {Present(plan.target)}
        /\ nwRun' = NwIdle
        /\ UNCHANGED nwState

nw_undo ==
  /\ rollback_after_failed_readback
  /\ UNCHANGED <<nwForeign, nwWrites, nwPlans, nwReceipts>>

\* "captured state was restored" only when the rollback's read-back says so.
undo_validated ==
  LET target == nwRun.plan.target IN
  /\ nwRun.pc = "undone"
  /\ nwReported' = IF nwState[target] = nwRun.plan.captured
                     THEN nwReported ELSE nwReported \cup {Present(target)}
  /\ nwRun' = NwIdle
  /\ UNCHANGED <<nwState, nwForeign, nwWrites, nwPlans, nwReceipts>>

(***************************************************************************)
(* Rollbacks: the present state must still be the one the apply left.      *)
(***************************************************************************)
\* Both the state to leave and the state to return to must be within the policy.
operation_rollback(receipt, gates) ==
  /\ receipt.target # "affinity"
  /\ Commanded(receipt.target)
  /\ SafetyPolicy(receipt.target, receipt.requested)
  /\ SafetyPolicy(receipt.target, receipt.captured)
  /\ nwState[receipt.target] = receipt.requested
  /\ authorize_write(gates)
  /\ Proceed("revert", receipt)

process_affinity_rollback(receipt, gates) ==
  /\ receipt.target = "affinity"
  /\ Commanded("affinity")
  /\ nwState["affinity"] = receipt.requested
  /\ authorize_write(gates)
  /\ Proceed("revert", receipt)

backend_rollback ==
  LET receipt == nwRun.plan IN
  /\ nwRun.pc = "revert"
  /\ \/ /\ nwState' = [nwState EXCEPT ![receipt.target] = receipt.captured]
        /\ nwRun' = [nwRun EXCEPT !.pc = "reverted"]
     \/ nwRun' = NwIdle /\ UNCHANGED nwState
  /\ UNCHANGED <<nwForeign, nwWrites, nwPlans, nwReceipts, nwReported>>

rollback_validated ==
  LET receipt == nwRun.plan IN
  /\ nwRun.pc = "reverted"
  /\ nwReported' = IF nwState[receipt.target] = receipt.captured
                     THEN nwReported ELSE nwReported \cup {Present(receipt.target)}
  /\ nwRun' = NwIdle
  /\ UNCHANGED <<nwState, nwForeign, nwWrites, nwPlans, nwReceipts>>

\* Another program, or the driver, changes what northclock manages; the host keeps an
\* affinity within the system mask.
ForeignWrite(target, level) ==
  /\ nwWrites < MaxForeignWrites
  /\ target = "affinity" => validate_affinity_plan(level)
  /\ nwWrites' = nwWrites + 1
  /\ nwState' = [nwState EXCEPT ![target] = level]
  /\ nwForeign' = [nwForeign EXCEPT ![target] = @ \cup {level}]
  /\ UNCHANGED <<nwPlans, nwReceipts, nwRun, nwReported>>

NwNext ==
  \/ \E t \in Settable, v \in Levels : operation_preview(t, v) \/ ForeignWrite(t, v)
  \/ \E v \in Levels : process_affinity_preview(v) \/ backend_write(v)
  \/ \E plan \in nwPlans, gates \in SUBSET Gates :
       operation_apply(plan, gates) \/ process_affinity_apply(plan, gates)
  \/ backend_write_fails
  \/ operation_readback \/ affinity_readback \/ receipt_refused
  \/ nw_undo \/ undo_validated
  \/ \E receipt \in nwReceipts, gates \in SUBSET Gates :
       operation_rollback(receipt, gates) \/ process_affinity_rollback(receipt, gates)
  \/ backend_rollback \/ rollback_validated

NwSpec == NwInit /\ [][NwNext]_nwVars

\* Between commands, what northclock manages holds a value that northclock did not
\* choose, one that a receipt the user holds describes, or one that a command reported
\* it could not undo (operation_workflow::apply and process_affinity_apply, under
\* writes of other programs at any moment).
WritesAccounted ==
  nwRun = NwIdle =>
    \A t \in Settable :
      \/ nwState[t] \in nwForeign[t]
      \/ Present(t) \in nwReported
      \/ \E receipt \in nwReceipts : receipt.target = t /\ receipt.requested = nwState[t]

-----------------------------------------------------------------------------
\* The inductive invariant behind it.

\* A value of t that someone answers for; once it is accounted for, it stays so.
ValueAccounted(t, v) ==
  \/ v \in nwForeign[t]
  \/ <<t, v>> \in nwReported
  \/ \E receipt \in nwReceipts : receipt.target = t /\ receipt.requested = v

\* Whatever a rollback may return to was there before northclock wrote.
CapturesAccounted ==
  /\ \A receipt \in nwReceipts : ValueAccounted(receipt.target, receipt.captured)
  /\ nwRun # NwIdle => ValueAccounted(nwRun.plan.target, nwRun.plan.captured)

\* Before a command writes, and wherever it does not write, the state is accounted for.
StateAccounted ==
  \A t \in Settable :
    (nwRun # NwIdle => nwRun.pc \in {"write", "revert"} \/ nwRun.plan.target # t) =>
      ValueAccounted(t, nwState[t])

\* An affinity is what the command wrote, unless another program wrote after it.
AffinityTaken ==
  nwRun # NwIdle /\ nwRun.pc = "readback" /\ nwRun.plan.target = "affinity" =>
    \/ nwState["affinity"] = nwRun.plan.requested
    \/ nwState["affinity"] \in nwForeign["affinity"]

NwInv == NwTypeOK /\ CapturesAccounted /\ StateAccounted /\ AffinityTaken

=============================================================================
