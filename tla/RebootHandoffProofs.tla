------------------------ MODULE RebootHandoffProofs ------------------------
(***************************************************************************)
(* Proofs about RebootHandoff for any set of processes, users, runtime     *)
(* generations, captures and rows.                                         *)
(*                                                                         *)
(* HandoffInv is inductive.  A process relies on more than what it holds   *)
(* under the suite lock: the session it loaded may be old, its executable  *)
(* may have been replaced.  What saves it is that the persisted            *)
(* transaction only moves forward and that a retained runtime cannot be    *)
(* replaced, so a step of one process leaves every other process's part of *)
(* the invariant alone (Frame).  Each action then shows the types, the     *)
(* process that moves, the other processes and the machine's part.         *)
(***************************************************************************)
EXTENDS RebootHandoff, TLAPS

USE DEF machine, disk, Goto, At, Keep

-----------------------------------------------------------------------------
(* The operators the model is built from. *)

(* The rank of a persisted state is 0 without a transaction and otherwise  *)
(* names its stage.                                                        *)
LEMMA StageRanks ==
  ASSUME NEW st \in States
  PROVE  /\ StageRank(st) \in 0 .. 4
         /\ StageRank(st) = 0 <=> st.txn = None
         /\ StageRank(st) = 1 <=> AuthorizedAt(st, "phase1SafeModeArmed")
         /\ StageRank(st) = 2 <=> AuthorizedAt(st, "phase2SafeMode")
         /\ StageRank(st) = 3 <=> AuthorizedAt(st, "phase3Armed")
         /\ StageRank(st) = 4 <=> AuthorizedAt(st, "phase3Complete")
         /\ st.txn # None => st.txn \in Transactions
<1>1. CASE st.txn = None
  BY <1>1 DEF StageRank, AuthorizedAt
<1>2. CASE st.txn # None
  <2>1. st.txn \in Transactions /\ st.txn.stage \in Stages
    BY <1>2 DEF States, Transactions
  <2> QED BY <1>2, <2>1 DEF StageRank, Rank, AuthorizedAt, Stages
<1> QED BY <1>1, <1>2

(* transition_to moves one edge forward and touches nothing else. *)
LEMMA Advanced ==
  ASSUME NEW st \in States, StageRank(st) \in 1 .. 3
  PROVE  /\ Advance(st) \in States
         /\ StageRank(Advance(st)) = StageRank(st) + 1
         /\ Advance(st).ready = st.ready /\ Advance(st).receipt = st.receipt
         /\ Advance(st).txn # None
         /\ Advance(st).txn.sid = st.txn.sid /\ Advance(st).txn.runtime = st.txn.runtime
         /\ [Advance(st).txn EXCEPT !.stage = st.txn.stage] = st.txn
<1>1. st.txn # None /\ st.txn \in Transactions
  BY StageRanks
<1>2. st.txn.stage \in Stages \ {"phase3Complete"}
  BY <1>1, StageRanks DEF Transactions, AuthorizedAt
<1>3. /\ NextStage[st.txn.stage] \in Stages
      /\ Rank[NextStage[st.txn.stage]] = Rank[st.txn.stage] + 1
  BY <1>2 DEF NextStage, Stages, Rank
<1>4. Advance(st).txn = [st.txn EXCEPT !.stage = NextStage[st.txn.stage]]
  BY <1>1 DEF Advance, States
<1>5. Advance(st).txn \in Transactions /\ Advance(st).txn.stage = NextStage[st.txn.stage]
  BY <1>1, <1>3, <1>4 DEF Transactions
<1>6. Advance(st).txn # None
  BY <1>5, ConstantsAssumption
<1>7. Advance(st) \in States /\ Advance(st).ready = st.ready /\ Advance(st).receipt = st.receipt
  BY <1>4, <1>5 DEF Advance, States
<1>8. /\ Advance(st).txn.sid = st.txn.sid /\ Advance(st).txn.runtime = st.txn.runtime
      /\ [Advance(st).txn EXCEPT !.stage = st.txn.stage] = st.txn
  BY <1>1, <1>4 DEF Transactions
<1>9. StageRank(Advance(st)) = StageRank(st) + 1
  BY <1>1, <1>3, <1>5, <1>6 DEF StageRank
<1> QED BY <1>6, <1>7, <1>8, <1>9

(* The rows that mark a checkpoint are none of the Engine's. *)
LEMMA MarkersApart ==
  /\ HandoffMarkers \cap EngineSteps = {}
  /\ HandoffMarkers \subseteq Steps /\ EngineSteps \subseteq Steps
BY ConstantsAssumption
   DEF HandoffMarkers, EngineSteps, PhaseThreeEngineSteps, PhaseTwoSteps, Steps,
       ArmSafeModeStep, ClearSafeBootStep, DriverCleanupStep, ArmPhaseThreeStep,
       DriverInstallStep, FinalBenchmarkStep

(* Recording a row keeps the shape of progress.json and completes no other *)
(* row.                                                                    *)
LEMMA Recording ==
  ASSUME NEW pr \in Progresses(Steps), NEW s \in Steps
  PROVE  /\ Complete(pr, s) \in Progresses(Steps)
         /\ Complete(pr, s).completed = pr.completed \cup {s}
         /\ \A outcome \in OutcomeKinds :
              /\ Record(pr, s, outcome) \in Progresses(Steps)
              /\ Record(pr, s, outcome).completed \subseteq pr.completed \cup {s}
<1>1. /\ Complete(pr, s) \in Progresses(Steps)
      /\ Complete(pr, s).completed = pr.completed \cup {s}
  BY DEF Progresses, Complete
<1>2. /\ Skip(pr, s) \in Progresses(Steps)
      /\ Skip(pr, s).completed \subseteq pr.completed
      /\ AcknowledgeAdvisory(pr, s) \in Progresses(Steps)
      /\ AcknowledgeAdvisory(pr, s).completed \subseteq pr.completed
  BY DEF Progresses, Skip, AcknowledgeAdvisory
<1> QED BY <1>1, <1>2 DEF Record, OutcomeKinds

(* A session a command starts without is behind every disk. *)
LEMMA EmptySession ==
  /\ EmptyState \in States /\ StageRank(EmptyState) = 0
  /\ EmptyProgress \in Progresses(Steps) /\ Backed(EmptyProgress)
  /\ EmptyMem \in [state : States, prog : Progresses(Steps)]
  /\ EmptyMem.state = EmptyState /\ EmptyMem.prog = EmptyProgress
<1>1. EmptyState \in States /\ StageRank(EmptyState) = 0
  BY DEF EmptyState, States, StageRank
<1>2. EmptyProgress \in Progresses(Steps) /\ Backed(EmptyProgress)
  BY DEF EmptyProgress, Progresses, Backed
<1> QED BY <1>1, <1>2 DEF EmptyMem

-----------------------------------------------------------------------------
(* What a step may do around a process that does not move. *)

(* A step that leaves process q's own variables alone. *)
SameProcess(q) ==
  /\ pc'[q] = pc[q] /\ user'[q] = user[q] /\ exe'[q] = exe[q]
  /\ mem'[q] = mem[q] /\ capture'[q] = capture[q]

(* The persisted transaction keeps its owner and its runtime and never     *)
(* falls back, and Phase 2 is entered only in Safe Mode.                   *)
Forward ==
  /\ state.txn # None =>
       /\ state'.txn # None
       /\ state'.txn.sid = state.txn.sid /\ state'.txn.runtime = state.txn.runtime
  /\ StageRank(state) <= StageRank(state')
  /\ state.ready => state'.ready
  /\ boot = "normal" /\ StageRank(state) < 2 => StageRank(state') < 2

(* A step that moves the transaction forward, replaces no runtime that q   *)
(* retains, and changes nothing q has locked.                              *)
SharedSafe(q) ==
  /\ boot' = boot /\ (logon' => logon)
  /\ Forward
  /\ Retains(q) => selected' = selected
  /\ lock = q =>
       /\ lock' = q
       /\ state' = state /\ progress' = progress /\ history' = history
       /\ run' = run /\ safeboot' = safeboot

(* What process q relies on survives the steps of the others. *)
LEMMA Frame ==
  ASSUME TypeOK, TypeOK', NEW q \in Procs, ProcessInv(q), SameProcess(q), SharedSafe(q)
  PROVE  ProcessInv(q)'
<1>1. Equipped(q)'
  BY DEF ProcessInv, Equipped, SameProcess, SharedSafe
<1>2. /\ StageRank(state) \in 0 .. 4 /\ StageRank(state') \in 0 .. 4
      /\ StageRank(mem[q].state) \in 0 .. 4
  BY StageRanks DEF TypeOK
<1>3. RuntimeKept(q)'
  <2>1. (Retains(q) => exe[q] = selected)'
    BY DEF ProcessInv, RuntimeKept, Retains, SameProcess, SharedSafe
  <2>2. (pc[q] \in {"phase1 engine", "publish"} => boot = "normal" /\ StageRank(state) < 2)'
    BY <1>2 DEF ProcessInv, RuntimeKept, SameProcess, SharedSafe, Forward
  <2>3. (pc[q] \in {"clear safe boot", "clear state"} => boot = "safe")'
    BY DEF ProcessInv, RuntimeKept, SameProcess, SharedSafe
  <2> QED BY <2>1, <2>2, <2>3 DEF RuntimeKept
<1>4. SessionBehind(q)'
  BY <1>2 DEF ProcessInv, SessionBehind, Backed, SameProcess, SharedSafe, Forward
<1>5. SessionHeld(q)'
  BY DEF ProcessInv, SessionHeld, Session, SameProcess, SharedSafe
<1>6. CheckpointReady(q)'
  <2>1. CASE pc[q] \in LockedPoints
    <3>1. UNCHANGED <<state, history, run, safeboot>>
      BY <2>1 DEF ProcessInv, SessionHeld, SharedSafe
    <3>2. ArmTransaction(q)' = ArmTransaction(q)
      BY DEF ArmTransaction, SameProcess
    <3> QED BY <3>1, <3>2 DEF ProcessInv, CheckpointReady, SameProcess
  <2>2. CASE pc[q] \notin LockedPoints
    BY <2>2 DEF CheckpointReady, LockedPoints, SameProcess
  <2> QED BY <2>1, <2>2
<1>7. LateBound(q)'
  BY DEF ProcessInv, LateBound, LatePoints, BoundUserPoints, SameProcess, SharedSafe, Forward
<1> QED BY <1>1, <1>3, <1>4, <1>5, <1>6, <1>7 DEF ProcessInv

(* The part of the invariant that belongs to no process. *)
MachineInv ==
  /\ RuntimeSettled /\ ReceiptRecorded /\ RunKept
  /\ Backed(progress) /\ SafeBootReleased /\ RunBoundToTransaction

(* A step of p keeps the invariant when p and the machine do, and the      *)
(* others are left alone.                                                  *)
LEMMA StepOf ==
  ASSUME HandoffInv, NEW p \in Procs,
         TypeOK', ProcessInv(p)', MachineInv',
         \A q \in Procs \ {p} : SameProcess(q) /\ SharedSafe(q)
  PROVE  HandoffInv'
<1>1. ASSUME NEW q \in Procs PROVE ProcessInv(q)'
  <2>1. CASE q # p
    BY <2>1, Frame DEF HandoffInv
  <2> QED BY <2>1
<1> QED BY <1>1 DEF HandoffInv, MachineInv

(* Nothing the machine's part looks at changes. *)
LEMMA MachineKept ==
  ASSUME HandoffInv, UNCHANGED <<safeboot, run, selected, state, progress, history>>
  PROVE  MachineInv'
BY DEF HandoffInv, MachineInv, RuntimeSettled, ReceiptRecorded, RunKept, Backed,
       SafeBootReleased, RunBoundToTransaction

(* Steps that leave state.json alone move nothing backward. *)
LEMMA StateKept ==
  ASSUME TypeOK, state' = state
  PROVE  Forward
BY StageRanks DEF TypeOK, Forward

(* A fresh session is not ahead of the disk it was read from. *)
LEMMA SessionLoaded ==
  ASSUME HandoffInv, NEW p \in Procs, mem'[p] = Session,
         UNCHANGED <<state, progress>>
  PROVE  SessionBehind(p)'
<1>1. StageRank(state) \in 0 .. 4
  BY StageRanks DEF HandoffInv, TypeOK
<1> QED BY <1>1 DEF HandoffInv, SessionBehind, Session, Backed

(* Steps that only move a process on: every guard before a checkpoint. *)
LEMMA GuardStep ==
  ASSUME HandoffInv, NEW p \in Procs, NEW point \in Points \ LockedPoints,
         Goto(p, point), Keep, UNCHANGED <<machine, disk, mem>>,
         pc[p] # "idle",
         point \in RuntimePoints => pc[p] \in RuntimePoints,
         point \in CapturePoints => pc[p] \in CapturePoints,
         RuntimeKept(p)', LateBound(p)'
  PROVE  HandoffInv'
<1>1. TypeOK'
  BY DEF HandoffInv, TypeOK
<1>2. \A q \in Procs \ {p} : SameProcess(q) /\ SharedSafe(q)
  BY StateKept DEF HandoffInv, TypeOK, SameProcess, SharedSafe
<1>3. pc'[p] = point /\ UNCHANGED <<user, exe, mem, capture>>
  BY DEF HandoffInv, TypeOK
<1>4. ProcessInv(p)'
  <2>1. ProcessInv(p)
    BY DEF HandoffInv
  <2>2. Equipped(p)'
    BY <1>3, <2>1 DEF ProcessInv, Equipped
  <2>3. SessionBehind(p)'
    BY <2>1 DEF ProcessInv, SessionBehind, Backed
  <2>4. CheckpointReady(p)' /\ SessionHeld(p)'
    BY <1>3 DEF CheckpointReady, SessionHeld, LockedPoints
  <2> QED BY <2>2, <2>3, <2>4 DEF ProcessInv
<1>5. MachineInv'
  BY MachineKept
<1> QED BY <1>1, <1>2, <1>4, <1>5, StepOf

-----------------------------------------------------------------------------
(* The guards. *)

(* Facts every guard starts from. *)
LEMMA Known ==
  ASSUME HandoffInv, NEW p \in Procs
  PROVE  /\ TypeOK /\ ProcessInv(p)
         /\ StageRank(state) \in 0 .. 4 /\ StageRank(mem[p].state) \in 0 .. 4
         /\ StageRank(mem[p].state) <= StageRank(state)
         /\ Retains(p) => exe[p] = selected
         /\ StageRank(state) >= 2 => state.txn # None /\ selected = state.txn.runtime
         /\ state.txn # None => state.txn.runtime \in Generations
<1>1. TypeOK /\ ProcessInv(p) /\ state \in States /\ mem[p].state \in States
  BY DEF HandoffInv, TypeOK
<1>2. /\ StageRank(state) \in 0 .. 4 /\ StageRank(mem[p].state) \in 0 .. 4
      /\ StageRank(state) = 0 <=> state.txn = None
      /\ state.txn # None => state.txn.runtime \in Generations
  BY <1>1, StageRanks DEF Transactions
<1>3. StageRank(state) >= 2 => state.txn # None /\ selected = state.txn.runtime
  BY <1>2 DEF HandoffInv, RuntimeSettled
<1>4. StageRank(mem[p].state) <= StageRank(state) /\ (Retains(p) => exe[p] = selected)
  BY <1>1 DEF ProcessInv, SessionBehind, RuntimeKept
<1> QED BY <1>1, <1>2, <1>3, <1>4

(* Phase 1 runs only while no runtime is selected, so before Phase 2. *)
LEMMA OptimizeAuthorizedStep ==
  ASSUME HandoffInv, NEW p \in Procs, OptimizeAuthorized(p)
  PROVE  HandoffInv'
<1>1. pc[p] = "optimize" /\ pc'[p] = "phase1 engine" /\ boot = "normal" /\ selected = None
  BY DEF HandoffInv, TypeOK, OptimizeAuthorized, AuthorizeOptimize, MigrationAllowed
<1>2. StageRank(state) < 2
  <2>1. StageRank(state) < 2 \/ StageRank(state) >= 2
    BY Known
  <2>2. None \notin Generations
    BY ConstantsAssumption
  <2>3. StageRank(state) >= 2 => selected \in Generations
    BY Known
  <2> QED BY <1>1, <2>1, <2>2, <2>3
<1>3. RuntimeKept(p)'
  BY <1>1, <1>2, Known DEF OptimizeAuthorized, RuntimeKept, Retains
<1>4. LateBound(p)'
  BY <1>1 DEF LateBound, LatePoints, BoundUserPoints
<1> QED
  BY <1>1, <1>3, <1>4, GuardStep
     DEF OptimizeAuthorized, Points, EnginePoints, LockedPoints, RuntimePoints, CapturePoints

LEMMA PublishReadyStep ==
  ASSUME HandoffInv, NEW p \in Procs, PublishReady(p)
  PROVE  HandoffInv'
<1>1. pc[p] = "phase1 engine" /\ pc'[p] = "publish"
  BY DEF HandoffInv, TypeOK, PublishReady
<1>2. RuntimeKept(p)'
  BY <1>1, Known DEF ProcessInv, PublishReady, RuntimeKept, Retains
<1>3. LateBound(p)'
  BY <1>1 DEF LateBound, LatePoints, BoundUserPoints
<1> QED
  BY <1>1, <1>2, <1>3, GuardStep
     DEF PublishReady, Points, LockedPoints, RuntimePoints, CapturePoints

LEMMA ArmAuthorizedStep ==
  ASSUME HandoffInv, NEW p \in Procs, ArmAuthorized(p)
  PROVE  HandoffInv'
<1>1. pc[p] = "boot-safe-mode" /\ pc'[p] = "arm"
  BY DEF HandoffInv, TypeOK, ArmAuthorized
<1>2. RuntimeKept(p)'
  BY <1>1, Known DEF ArmAuthorized, RuntimeKept, Retains
<1>3. LateBound(p)'
  BY <1>1 DEF LateBound, LatePoints, BoundUserPoints
<1> QED
  BY <1>1, <1>2, <1>3, GuardStep
     DEF ArmAuthorized, Points, Commands, LockedPoints, RuntimePoints, CapturePoints

(* P2:1 is authorized only in Safe Mode. *)
LEMMA PhaseTwoStepOneAuthorizedStep ==
  ASSUME HandoffInv, NEW p \in Procs, PhaseTwoStepOneAuthorized(p)
  PROVE  HandoffInv'
<1>1. pc[p] = "phase2" /\ pc'[p] = "clear safe boot" /\ boot = "safe"
  BY DEF HandoffInv, TypeOK, PhaseTwoStepOneAuthorized, AuthorizePhaseTwoStepOne,
         PhaseTwoEvidence
<1>2. RuntimeKept(p)'
  BY <1>1, Known DEF PhaseTwoStepOneAuthorized, RuntimeKept, Retains
<1>3. LateBound(p)'
  BY <1>1 DEF LateBound, LatePoints, BoundUserPoints
<1> QED
  BY <1>1, <1>2, <1>3, GuardStep
     DEF PhaseTwoStepOneAuthorized, Points, Commands, LockedPoints, RuntimePoints, CapturePoints

(* A session that has seen Phase 2 proves that the selected runtime is the *)
(* transaction's, and the process retains the selected one.                *)
LEMMA LateRuntime ==
  ASSUME HandoffInv, NEW p \in Procs, pc[p] \in RuntimePoints \ {"launch"},
         StageRank(mem[p].state) >= 2 \/ StageRank(state) >= 2
  PROVE  state.txn # None /\ exe[p] = state.txn.runtime
<1>1. Retains(p)
  BY Known DEF ProcessInv, Equipped, Retains
<1>2. StageRank(state) >= 2
  BY Known
<1> QED BY <1>1, <1>2, Known

LEMMA RemainingPhaseTwoAuthorizedStep ==
  ASSUME HandoffInv, NEW p \in Procs, RemainingPhaseTwoAuthorized(p)
  PROVE  HandoffInv'
<1>1. /\ pc[p] = "phase2" /\ pc'[p] = "phase2 engine"
      /\ AuthorizedAt(mem[p].state, "phase2SafeMode") /\ mem[p].state \in States
  BY DEF HandoffInv, TypeOK, RemainingPhaseTwoAuthorized, AuthorizeRemainingPhaseTwo
<1>2. pc[p] \in RuntimePoints \ {"launch"}
  BY <1>1 DEF RuntimePoints, Points, Commands
<1>3. state.txn # None /\ exe[p] = state.txn.runtime
  <2>1. StageRank(mem[p].state) = 2
    BY <1>1, StageRanks
  <2> QED BY <1>2, <2>1, LateRuntime
<1>4. RuntimeKept(p)'
  BY <1>1, Known DEF RemainingPhaseTwoAuthorized, RuntimeKept, Retains
<1>5. LateBound(p)'
  BY <1>1, <1>3 DEF RemainingPhaseTwoAuthorized, LateBound, BoundUserPoints
<1> QED
  BY <1>1, <1>2, <1>4, <1>5, GuardStep
     DEF RemainingPhaseTwoAuthorized, Points, EnginePoints, LockedPoints, CapturePoints


LEMMA ArmPhaseThreeReadyStep ==
  ASSUME HandoffInv, NEW p \in Procs, ArmPhaseThreeReady(p)
  PROVE  HandoffInv'
<1>1. pc[p] = "phase2 engine" /\ pc'[p] = "arm phase3"
  BY DEF HandoffInv, TypeOK, ArmPhaseThreeReady
<1>2. RuntimeKept(p)'
  BY <1>1, Known DEF ArmPhaseThreeReady, RuntimeKept, Retains
<1>3. LateBound(p)'
  BY <1>1, Known
     DEF ArmPhaseThreeReady, ProcessInv, LateBound, LatePoints, BoundUserPoints
<1> QED
  BY <1>1, <1>2, <1>3, GuardStep
     DEF ArmPhaseThreeReady, Points, EnginePoints, LockedPoints, RuntimePoints, CapturePoints

(* The work of Phase 3 that is authorized against a session at stage 3 or  *)
(* 4, and against the Run value and the transaction's user on disk.        *)
LEMMA PhaseThreeGuardStep ==
  ASSUME HandoffInv, NEW p \in Procs, NEW point \in BoundUserPoints \ LockedPoints,
         pc[p] \in RuntimePoints \ {"launch"},
         Goto(p, point), Keep, UNCHANGED <<machine, disk, mem>>,
         point \in CapturePoints => pc[p] \in CapturePoints,
         StageRank(mem[p].state) >= 2 \/ StageRank(state) >= 2,
         state.txn.sid = user[p]
  PROVE  HandoffInv'
<1>1. /\ pc'[p] = point /\ UNCHANGED <<user, exe, selected, state>>
      /\ pc[p] # "idle" /\ pc[p] # "launch"
      /\ point \notin {"idle", "launch", "phase1 engine", "publish", "clear safe boot",
                       "clear state"}
      /\ point \in Points
  BY DEF HandoffInv, TypeOK, BoundUserPoints, RuntimePoints, Points, EnginePoints, LockedPoints
<1>2. state.txn # None /\ exe[p] = state.txn.runtime
  BY LateRuntime
<1>3. RuntimeKept(p)'
  BY <1>1, Known DEF RuntimeKept, Retains
<1>4. LateBound(p)'
  BY <1>1, <1>2 DEF LateBound
<1> QED BY <1>1, <1>3, <1>4, GuardStep DEF LockedPoints

LEMMA RelaunchAuthorizedStep ==
  ASSUME HandoffInv, NEW p \in Procs, RelaunchAuthorized(p)
  PROVE  HandoffInv'
<1>1. /\ pc[p] = "phase3-handoff" /\ state.txn.sid = user[p]
      /\ AuthorizedAt(mem[p].state, "phase3Armed") /\ mem[p].state \in States
  BY DEF HandoffInv, TypeOK, RelaunchAuthorized, AuthorizePhaseThree, SameUserHandoff
<1>2. StageRank(mem[p].state) >= 2
  <2>1. StageRank(mem[p].state) = 3
    BY <1>1, StageRanks
  <2> QED BY <2>1
<1> QED
  BY <1>1, <1>2, PhaseThreeGuardStep
     DEF RelaunchAuthorized, BoundUserPoints, LockedPoints, RuntimePoints, Points, Commands,
         CapturePoints

LEMMA PhaseThreeAuthorizedStep ==
  ASSUME HandoffInv, NEW p \in Procs, PhaseThreeAuthorized(p)
  PROVE  HandoffInv'
<1>1. /\ pc[p] = "phase3" /\ state.txn.sid = user[p]
      /\ AuthorizedAt(mem[p].state, "phase3Armed") /\ mem[p].state \in States
  BY DEF HandoffInv, TypeOK, PhaseThreeAuthorized, AuthorizePhaseThree, SameUserHandoff
<1>2. StageRank(mem[p].state) >= 2
  <2>1. StageRank(mem[p].state) = 3
    BY <1>1, StageRanks
  <2> QED BY <2>1
<1> QED
  BY <1>1, <1>2, PhaseThreeGuardStep
     DEF PhaseThreeAuthorized, BoundUserPoints, LockedPoints, RuntimePoints, Points, Commands,
         CapturePoints

LEMMA PhaseThreeCoherentStep ==
  ASSUME HandoffInv, NEW p \in Procs, PhaseThreeCoherent(p)
  PROVE  HandoffInv'
<1>1. /\ pc[p] \in {"phase3", "phase3 engine"} /\ state.txn.sid = user[p]
      /\ AuthorizedAt(state, "phase3Complete") /\ state \in States
  BY DEF HandoffInv, TypeOK, PhaseThreeCoherent, AuthorizeClearHandoff, SameUserHandoff, Coherent
<1>2. StageRank(state) >= 2
  <2>1. StageRank(state) = 4
    BY <1>1, StageRanks
  <2> QED BY <2>1
<1>3. pc[p] \in RuntimePoints \ {"launch"}
  BY <1>1 DEF RuntimePoints, Points, Commands, EnginePoints
<1> QED
  BY <1>1, <1>2, <1>3, PhaseThreeGuardStep
     DEF PhaseThreeCoherent, BoundUserPoints, LockedPoints, CapturePoints

LEMMA BenchAuthorizedStep ==
  ASSUME HandoffInv, NEW p \in Procs, BenchAuthorized(p)
  PROVE  HandoffInv'
<1>1. /\ pc[p] = "final-benchmark" /\ state.txn.sid = user[p]
      /\ AuthorizedAt(mem[p].state, "phase3Armed") \/ AuthorizedAt(mem[p].state, "phase3Complete")
      /\ mem[p].state \in States
  BY DEF HandoffInv, TypeOK, BenchAuthorized, AuthorizeFinalBenchmark, SameUserHandoff
<1>2. StageRank(mem[p].state) >= 2
  <2>1. StageRank(mem[p].state) = 3 \/ StageRank(mem[p].state) = 4
    BY <1>1, StageRanks
  <2> QED BY <2>1
<1> QED
  BY <1>1, <1>2, PhaseThreeGuardStep
     DEF BenchAuthorized, BoundUserPoints, LockedPoints, RuntimePoints, Points, Commands,
         CapturePoints

(* An exact retry finds the stage complete; the clear is authorized on the *)
(* state just read.                                                        *)
LEMMA BenchDoneStep ==
  ASSUME HandoffInv, NEW p \in Procs, BenchComplete(p) \/ BenchClearAuthorized(p)
  PROVE  HandoffInv'
<1>1. /\ pc[p] \in {"bench", "bench done"}
      /\ AuthorizedAt(state, "phase3Complete") /\ state \in States
  BY DEF HandoffInv, TypeOK, BenchComplete, BenchClearAuthorized, AuthorizeClearHandoff, Coherent
<1>2. StageRank(state) >= 2
  <2>1. StageRank(state) = 4
    BY <1>1, StageRanks
  <2> QED BY <2>1
<1>3. pc[p] \in RuntimePoints \ {"launch"}
  BY <1>1 DEF RuntimePoints, Points
<1>4. state.txn.sid = user[p]
  BY <1>1, Known DEF ProcessInv, LateBound, BoundUserPoints
<1>5. \E point \in {"bench done", "clear handoff"} :
        Goto(p, point) /\ Keep /\ UNCHANGED <<machine, disk, mem>>
  BY DEF BenchComplete, BenchClearAuthorized
<1> QED
  BY <1>2, <1>3, <1>4, <1>5, PhaseThreeGuardStep
     DEF BoundUserPoints, LockedPoints, CapturePoints

LEMMA ResetAuthorizedStep ==
  ASSUME HandoffInv, NEW p \in Procs, ResetAuthorized(p)
  PROVE  HandoffInv'
<1>1. pc[p] = "reset-progress" /\ pc'[p] = "reset"
  BY DEF HandoffInv, TypeOK, ResetAuthorized
<1>2. RuntimeKept(p)'
  BY <1>1, Known DEF ResetAuthorized, RuntimeKept, Retains
<1>3. LateBound(p)'
  BY <1>1 DEF LateBound, LatePoints, BoundUserPoints
<1> QED
  BY <1>1, <1>2, <1>3, GuardStep
     DEF ResetAuthorized, Points, Commands, LockedPoints, RuntimePoints, CapturePoints

-----------------------------------------------------------------------------
(* Processes come and go. *)

(* A command starts with the session on disk and the selected runtime. *)
LEMMA LoadStep ==
  ASSUME HandoffInv, TypeOK', NEW p \in Procs,
         \A q \in Procs \ {p} : SameProcess(q),
         pc'[p] \in Commands, user'[p] \in Users, mem'[p] = Session,
         exe'[p] \in {None, selected},
         pc'[p] \in RuntimeCommands => exe'[p] # None,
         pc'[p] = "final-benchmark" => capture'[p] # None,
         ~logon', UNCHANGED <<boot, safeboot, run, selected, disk>>
  PROVE  HandoffInv'
<1>1. \A q \in Procs \ {p} : SameProcess(q) /\ SharedSafe(q)
  BY StateKept DEF HandoffInv, SharedSafe
<1>2. /\ pc'[p] \notin LockedPoints \cup LatePoints \cup BoundUserPoints
      /\ pc'[p] \notin {"bench", "bench state", "phase1 engine", "publish", "clear safe boot",
                        "clear state"}
      /\ pc'[p] \in RuntimePoints => pc'[p] \in RuntimeCommands
  BY DEF Commands, LockedPoints, LatePoints, BoundUserPoints, RuntimePoints, RuntimeCommands
<1>3. Equipped(p)'
  BY <1>2 DEF Equipped, CapturePoints
<1>4. RuntimeKept(p)'
  BY <1>2 DEF RuntimeKept, Retains
<1>5. SessionBehind(p)'
  BY SessionLoaded
<1>6. CheckpointReady(p)' /\ SessionHeld(p)' /\ LateBound(p)'
  BY <1>2 DEF CheckpointReady, SessionHeld, LateBound, LockedPoints
<1>7. MachineInv'
  BY MachineKept
<1> QED BY <1>1, <1>3, <1>4, <1>5, <1>6, <1>7, StepOf DEF ProcessInv

(* What a process loads has the shape of its memory. *)
LEMMA SessionType ==
  ASSUME TypeOK
  PROVE  Session \in [state : States, prog : Progresses(Steps)]
BY DEF TypeOK, Session

LEMMA StartStep ==
  ASSUME HandoffInv, NEW p \in Procs, NEW cmd \in Commands, NEW u \in Users,
         NEW c \in Captures, Start(p, cmd, u, c)
  PROVE  HandoffInv'
<1>1. TypeOK
  BY DEF HandoffInv
<1>2. TypeOK'
  BY <1>1, SessionType DEF TypeOK, Start, Load, Points
<1>3. \A q \in Procs \ {p} : SameProcess(q)
  BY <1>1 DEF TypeOK, SameProcess, Start, Load
<1>4. /\ pc'[p] = cmd /\ user'[p] = u /\ mem'[p] = Session
      /\ exe'[p] = IF cmd \in RuntimeCommands THEN selected ELSE None
      /\ capture'[p] = IF cmd = "final-benchmark" THEN c ELSE None
      /\ cmd \in RuntimeCommands => selected # None
      /\ ~logon' /\ UNCHANGED <<boot, safeboot, run, selected, disk>>
  BY <1>1 DEF TypeOK, Start, Load
<1>5. c # None
  BY ConstantsAssumption
<1> QED BY <1>2, <1>3, <1>4, <1>5, LoadStep

(* The first logon finds no process, because none outlives a reboot. *)
LEMMA LogonPhaseTwoStep ==
  ASSUME HandoffInv, NEW p \in Procs, NEW u \in Users, LogonPhaseTwo(p, u)
  PROVE  HandoffInv'
<1>1. TypeOK
  BY DEF HandoffInv
<1>2. TypeOK'
  BY <1>1, SessionType DEF TypeOK, LogonPhaseTwo, Load, Points, Commands
<1>3. \A q \in Procs \ {p} : SameProcess(q)
  BY <1>1 DEF TypeOK, SameProcess, LogonPhaseTwo, Load
<1>4. /\ pc'[p] = "phase2" /\ user'[p] = u /\ mem'[p] = Session
      /\ exe'[p] = selected /\ selected # None
      /\ ~logon' /\ UNCHANGED <<boot, safeboot, run, selected, disk>>
  BY <1>1 DEF TypeOK, LogonPhaseTwo, Load
<1> QED BY <1>2, <1>3, <1>4, LoadStep DEF Commands

LEMMA LogonWithoutHandoffStep ==
  ASSUME HandoffInv, LogonWithoutHandoff
  PROVE  HandoffInv'
<1>1. TypeOK'
  BY DEF HandoffInv, TypeOK, LogonWithoutHandoff, procs
<1>2. ASSUME NEW q \in Procs PROVE ProcessInv(q)'
  <2>1. SameProcess(q) /\ SharedSafe(q)
    BY StateKept DEF HandoffInv, SameProcess, SharedSafe, LogonWithoutHandoff, procs
  <2> QED BY <1>1, <2>1, Frame DEF HandoffInv
<1>3. MachineInv'
  BY MachineKept DEF LogonWithoutHandoff
<1> QED BY <1>1, <1>2, <1>3 DEF HandoffInv, MachineInv

LEMMA LaunchBootSafeModeStep ==
  ASSUME HandoffInv, NEW p \in Procs, NEW u \in Users, LaunchBootSafeMode(p, u)
  PROVE  HandoffInv'
<1>1. TypeOK /\ ProcessInv(p)
  BY DEF HandoffInv
<1>2. TypeOK'
  <2>1. Session \in [state : States, prog : Progresses(Steps)] /\ "boot-safe-mode" \in Points
    BY <1>1, SessionType DEF Points, Commands
  <2>2. /\ pc' = [pc EXCEPT ![p] = "boot-safe-mode"] /\ user' = [user EXCEPT ![p] = u]
        /\ mem' = [mem EXCEPT ![p] = Session]
        /\ UNCHANGED <<machine, disk, exe, capture, logonProc>>
    BY DEF LaunchBootSafeMode, Load
  <2> QED BY <1>1, <2>1, <2>2 DEF TypeOK
<1>3. \A q \in Procs \ {p} : SameProcess(q)
  BY <1>1 DEF TypeOK, SameProcess, LaunchBootSafeMode, Load
<1>4. pc[p] = "launch"
  BY DEF LaunchBootSafeMode
<1>5. exe[p] # None /\ ~logon
  BY <1>1, <1>4 DEF ProcessInv, Equipped, RuntimePoints, Points
<1>6. /\ pc'[p] = "boot-safe-mode" /\ user'[p] = u /\ mem'[p] = Session
      /\ exe'[p] = selected /\ exe'[p] # None
      /\ ~logon' /\ UNCHANGED <<boot, safeboot, run, selected, disk>>
  BY <1>1, <1>5 DEF TypeOK, LaunchBootSafeMode, Load
<1> QED BY <1>2, <1>3, <1>6, LoadStep DEF Commands

LEMMA RelaunchStep ==
  ASSUME HandoffInv, NEW p \in Procs, NEW u \in Users, Relaunch(p, u)
  PROVE  HandoffInv'
<1>1. TypeOK /\ ProcessInv(p)
  BY DEF HandoffInv
<1>2. TypeOK'
  BY <1>1, SessionType DEF TypeOK, Relaunch, Load, Points, Commands
<1>3. \A q \in Procs \ {p} : SameProcess(q)
  BY <1>1 DEF TypeOK, SameProcess, Relaunch, Load
<1>4. pc[p] = "relaunch"
  BY DEF Relaunch
<1>5. exe[p] # None /\ ~logon /\ exe[p] = selected
  BY <1>1, <1>4 DEF ProcessInv, Equipped, RuntimeKept, Retains, RuntimePoints, Points
<1>6. /\ pc'[p] = "phase3" /\ user'[p] = u /\ mem'[p] = Session
      /\ exe'[p] = selected /\ exe'[p] # None
      /\ ~logon' /\ UNCHANGED <<boot, safeboot, run, selected, disk>>
  BY <1>1, <1>5 DEF TypeOK, Relaunch, Load
<1> QED BY <1>2, <1>3, <1>6, LoadStep DEF Commands

(* A process that is gone relies on nothing. *)
LEMMA IdleProcess ==
  ASSUME TypeOK', NEW p \in Procs, pc'[p] = "idle", exe'[p] = None, mem'[p] = EmptyMem
  PROVE  ProcessInv(p)'
<1>1. /\ pc'[p] \notin LockedPoints \cup LatePoints \cup BoundUserPoints
      /\ pc'[p] \notin RuntimePoints \cup CapturePoints
  BY DEF LockedPoints, LatePoints, BoundUserPoints, RuntimePoints, CapturePoints
<1>2. Equipped(p)' /\ RuntimeKept(p)'
  BY <1>1 DEF Equipped, RuntimeKept, Retains
<1>3. SessionBehind(p)'
  <2>1. StageRank(state') \in 0 .. 4
    BY StageRanks DEF TypeOK
  <2>2. mem'[p].state = EmptyState /\ mem'[p].prog = EmptyProgress /\ StageRank(EmptyState) = 0
    BY EmptySession
  <2> QED BY <2>1, <2>2 DEF SessionBehind, Backed, EmptyProgress
<1>4. CheckpointReady(p)' /\ SessionHeld(p)' /\ LateBound(p)'
  BY <1>1 DEF CheckpointReady, SessionHeld, LateBound
<1> QED BY <1>2, <1>3, <1>4 DEF ProcessInv

(* However a process ends, what it has written so far stands. *)
LEMMA ExitStep ==
  ASSUME HandoffInv, NEW p \in Procs, Exit(p)
  PROVE  HandoffInv'
<1>1. TypeOK
  BY DEF HandoffInv
<1>2. TypeOK'
  <2>1. /\ lock' \in Procs \cup {None, StaleLock} /\ runOnce' \in Generations \cup {None}
        /\ logonProc' \in Procs \cup {None}
    BY <1>1 DEF TypeOK, Exit
  <2> QED BY <1>1, <2>1, EmptySession DEF TypeOK, Exit, Points
<1>3. \A q \in Procs \ {p} : SameProcess(q) /\ SharedSafe(q)
  BY <1>1, StateKept DEF TypeOK, SameProcess, SharedSafe, Exit
<1>4. pc'[p] = "idle" /\ exe'[p] = None /\ mem'[p] = EmptyMem
  BY <1>1 DEF TypeOK, Exit
<1>5. MachineInv'
  BY MachineKept DEF Exit
<1> QED BY <1>2, <1>3, <1>4, <1>5, IdleProcess, StepOf

(* A power loss ends every process at once and may leave a stale lock. *)
LEMMA RebootStep ==
  ASSUME HandoffInv, Reboot
  PROVE  HandoffInv'
<1>1. TypeOK'
  <2>1. lock' \in Procs \cup {None, StaleLock}
    BY DEF Reboot, LockAfterReboot
  <2> QED BY <2>1, EmptySession DEF HandoffInv, TypeOK, Reboot, Points
<1>2. ASSUME NEW q \in Procs PROVE ProcessInv(q)'
  <2>1. pc'[q] = "idle" /\ exe'[q] = None /\ mem'[q] = EmptyMem
    BY DEF Reboot
  <2> QED BY <1>1, <2>1, IdleProcess
<1>3. MachineInv'
  BY MachineKept DEF Reboot
<1> QED BY <1>1, <1>2, <1>3 DEF HandoffInv, MachineInv

-----------------------------------------------------------------------------
(* Writes outside a checkpoint. *)

(* An Engine row persists an old in-memory progress over whatever is on    *)
(* disk.  It may take a marker back; it never adds one.                    *)
LEMMA EngineRowStep ==
  ASSUME HandoffInv, NEW p \in Procs, NEW s \in EngineSteps, EngineStep(p, s)
  PROVE  HandoffInv'
<1>1. TypeOK /\ ProcessInv(p)
  BY DEF HandoffInv
<1>2. PICK outcome \in Outcomes[s] :
        /\ mem' = [mem EXCEPT ![p].prog = Record(mem[p].prog, s, outcome)]
        /\ progress' = Record(mem[p].prog, s, outcome)
  BY DEF EngineStep
<1> DEFINE next == Record(mem[p].prog, s, outcome)
<1>3. mem[p].prog \in Progresses(Steps) /\ s \in Steps /\ outcome \in OutcomeKinds
  BY <1>1, MarkersApart, ConstantsAssumption DEF TypeOK
<1>4. next \in Progresses(Steps) /\ next.completed \subseteq mem[p].prog.completed \cup {s}
  BY <1>3, Recording
<1>5. \A m \in HandoffMarkers : m \in next.completed => m \in mem[p].prog.completed
  BY <1>4, MarkersApart
<1>6. /\ mem'[p].state = mem[p].state /\ mem'[p].prog = next /\ progress' = next
      /\ \A q \in Procs \ {p} : mem'[q] = mem[q]
      /\ UNCHANGED <<machine, state, history, removal, lock, pc, user, exe, capture, logonProc>>
  BY <1>1, <1>2 DEF TypeOK, EngineStep
<1>7. TypeOK'
  <2>1. mem' \in [Procs -> [state : States, prog : Progresses(Steps)]]
    BY <1>1, <1>2, <1>4 DEF TypeOK
  <2> HIDE DEF next
  <2> QED BY <1>1, <1>4, <1>6, <2>1 DEF TypeOK
<1>8. \A q \in Procs \ {p} : SameProcess(q) /\ SharedSafe(q)
  <2>1. lock = None /\ None \notin Procs
    BY ConstantsAssumption DEF EngineStep
  <2> HIDE DEF next
  <2> QED BY <1>1, <1>6, <2>1, StateKept DEF SameProcess, SharedSafe
<1>9. Backed(next)
  <2> HIDE DEF next
  <2> QED BY <1>1, <1>5 DEF ProcessInv, SessionBehind, Backed, HandoffMarkers
<1>10. ProcessInv(p)'
  <2>1. pc[p] \notin LockedPoints
    BY DEF EngineStep, EnginePoints, LockedPoints
  <2> HIDE DEF next
  <2>2. Equipped(p)' /\ RuntimeKept(p)' /\ LateBound(p)'
    BY <1>1, <1>6 DEF ProcessInv, Equipped, RuntimeKept, Retains, LateBound
  <2>3. SessionBehind(p)'
    BY <1>1, <1>6, <1>9 DEF ProcessInv, SessionBehind, Backed
  <2>4. CheckpointReady(p)' /\ SessionHeld(p)'
    BY <1>6, <2>1 DEF CheckpointReady, SessionHeld, LockedPoints
  <2> QED BY <2>2, <2>3, <2>4 DEF ProcessInv
<1>11. MachineInv'
  <2> HIDE DEF next
  <2>1. Backed(progress)'
    BY <1>6, <1>9 DEF Backed
  <2> QED
    BY <1>6, <2>1
       DEF HandoffInv, MachineInv, RuntimeSettled, ReceiptRecorded, RunKept, SafeBootReleased,
           RunBoundToTransaction
<1> QED BY <1>7, <1>8, <1>10, <1>11, StepOf

(* Publication waits until nobody retains a runtime, and happens only      *)
(* before Phase 2.                                                         *)
LEMMA PublishStep ==
  ASSUME HandoffInv, NEW p \in Procs, NEW g \in Generations, Publish(p, g)
  PROVE  HandoffInv'
<1>1. TypeOK /\ ProcessInv(p)
  BY DEF HandoffInv
<1>2. TypeOK'
  BY <1>1 DEF TypeOK, Publish, Points
<1>3. \A q \in Procs \ {p} : SameProcess(q) /\ SharedSafe(q)
  BY <1>1, StateKept DEF TypeOK, SameProcess, SharedSafe, Publish
<1>4. /\ pc[p] = "publish" /\ pc'[p] = "launch" /\ exe'[p] = g
      /\ UNCHANGED <<boot, logon, safeboot, run, disk, user, mem>>
  BY <1>1 DEF TypeOK, Publish
<1>5. ProcessInv(p)'
  <2>1. g # None
    BY ConstantsAssumption
  <2>2. Equipped(p)' /\ RuntimeKept(p)'
    BY <1>1, <1>4, <2>1 DEF ProcessInv, Equipped, CapturePoints, RuntimeKept, Retains
  <2>3. SessionBehind(p)'
    BY <1>1, <1>4 DEF ProcessInv, SessionBehind, Backed
  <2>4. CheckpointReady(p)' /\ SessionHeld(p)' /\ LateBound(p)'
    BY <1>4 DEF CheckpointReady, SessionHeld, LateBound, LockedPoints, LatePoints,
                BoundUserPoints
  <2> QED BY <2>2, <2>3, <2>4 DEF ProcessInv
<1>6. MachineInv'
  <2>1. StageRank(state') < 2 /\ StageRank(state') \in 0 .. 4
    BY <1>1, <1>4, Known DEF ProcessInv, RuntimeKept
  <2>2. RuntimeSettled'
    BY <2>1 DEF RuntimeSettled
  <2> QED
    BY <1>4, <2>2
       DEF HandoffInv, MachineInv, ReceiptRecorded, RunKept, Backed, SafeBootReleased,
           RunBoundToTransaction
<1> QED BY <1>2, <1>3, <1>5, <1>6, StepOf

LEMMA RemovalEvidenceStep ==
  ASSUME HandoffInv, NEW p \in Procs, RemovalEvidence(p)
  PROVE  HandoffInv'
<1>1. TypeOK /\ TypeOK'
  BY DEF HandoffInv, TypeOK, RemovalEvidence
<1>2. \A q \in Procs : SameProcess(q) /\ SharedSafe(q)
  BY <1>1, StateKept DEF TypeOK, SameProcess, SharedSafe, RemovalEvidence
<1>3. MachineInv'
  BY MachineKept DEF RemovalEvidence
<1> QED BY <1>1, <1>2, <1>3, Frame DEF HandoffInv, MachineInv

(* The Run value goes only when the benchmark is recorded. *)
LEMMA ClearHandoffStep ==
  ASSUME HandoffInv, NEW p \in Procs, ClearHandoff(p)
  PROVE  HandoffInv'
<1>1. TypeOK /\ ProcessInv(p)
  BY DEF HandoffInv
<1>2. TypeOK'
  BY <1>1 DEF TypeOK, ClearHandoff, Points
<1>3. \A q \in Procs \ {p} : SameProcess(q) /\ SharedSafe(q)
  BY <1>1, StateKept, ConstantsAssumption DEF TypeOK, SameProcess, SharedSafe, ClearHandoff
<1>4. /\ pc[p] = "clear handoff" /\ pc'[p] = "exit"
      /\ UNCHANGED <<boot, logon, safeboot, selected, state, progress, history, lock>>
      /\ UNCHANGED <<user, exe, mem>>
  BY <1>1 DEF TypeOK, ClearHandoff
<1>5. ProcessInv(p)'
  <2>1. Equipped(p)' /\ RuntimeKept(p)'
    BY <1>1, <1>4 DEF ProcessInv, Equipped, RuntimePoints, CapturePoints, RuntimeKept, Retains
  <2>2. SessionBehind(p)'
    BY <1>1, <1>4 DEF ProcessInv, SessionBehind, Backed
  <2>3. CheckpointReady(p)' /\ SessionHeld(p)' /\ LateBound(p)'
    BY <1>4 DEF CheckpointReady, SessionHeld, LateBound, LockedPoints, LatePoints,
                BoundUserPoints
  <2> QED BY <2>1, <2>2, <2>3 DEF ProcessInv
<1>6. MachineInv'
  <2>1. StageRank(state) = 4 /\ StageRank(state) >= 2 /\ StageRank(state) # 3
    <3>1. StageRank(state) = 4
      BY <1>1, StageRanks DEF TypeOK, ClearHandoff, Coherent
    <3> QED BY <3>1
  <2>2. RunKept'
    BY <1>4, <2>1 DEF RunKept
  <2>3. RunBoundToTransaction'
    BY <1>1, <1>4, <2>1 DEF TypeOK, HandoffInv, RunBoundToTransaction, ClearHandoff
  <2> QED
    BY <1>4, <2>2, <2>3
       DEF HandoffInv, MachineInv, RuntimeSettled, ReceiptRecorded, Backed, SafeBootReleased
<1> QED BY <1>2, <1>3, <1>5, <1>6, StepOf

LEMMA ResetProgressStep ==
  ASSUME HandoffInv, NEW p \in Procs, ResetProgress(p)
  PROVE  HandoffInv'
<1>1. TypeOK /\ ProcessInv(p)
  BY DEF HandoffInv
<1>2. TypeOK'
  BY <1>1, EmptySession DEF TypeOK, ResetProgress, Points
<1>3. \A q \in Procs \ {p} : SameProcess(q) /\ SharedSafe(q)
  BY <1>1, StateKept, ConstantsAssumption DEF TypeOK, SameProcess, SharedSafe, ResetProgress
<1>4. /\ pc[p] = "reset" /\ pc'[p] = "exit" /\ progress' = EmptyProgress
      /\ UNCHANGED <<machine, state, history, user, exe, mem>>
  BY <1>1 DEF TypeOK, ResetProgress
<1>5. ProcessInv(p)'
  <2>1. Equipped(p)' /\ RuntimeKept(p)'
    BY <1>1, <1>4 DEF ProcessInv, Equipped, RuntimePoints, CapturePoints, RuntimeKept, Retains
  <2>2. SessionBehind(p)'
    BY <1>1, <1>4 DEF ProcessInv, SessionBehind, Backed
  <2>3. CheckpointReady(p)' /\ SessionHeld(p)' /\ LateBound(p)'
    BY <1>4 DEF CheckpointReady, SessionHeld, LateBound, LockedPoints, LatePoints,
                BoundUserPoints
  <2> QED BY <2>1, <2>2, <2>3 DEF ProcessInv
<1>6. MachineInv'
  <2>1. Backed(progress)'
    BY <1>4 DEF Backed, EmptyProgress
  <2> QED
    BY <1>4, <2>1
       DEF HandoffInv, MachineInv, RuntimeSettled, ReceiptRecorded, RunKept, SafeBootReleased,
           RunBoundToTransaction
<1> QED BY <1>2, <1>3, <1>5, <1>6, StepOf

-----------------------------------------------------------------------------
(* The checkpoints: the first write of each, which takes the lock. *)

(* Under a lock just taken, a process holds the session on disk; no other  *)
(* process holds anything.                                                 *)
LEMMA TakeLockStep ==
  ASSUME HandoffInv, TypeOK', NEW p \in Procs, NEW point \in LockedPoints,
         pc[p] \in RuntimePoints \ {"launch"},
         point = "bench state" => pc[p] \in CapturePoints,
         point = "clear state" => boot = "safe",
         lock = None, lock' = p, Load(p), Goto(p, point), Keep,
         UNCHANGED <<boot, logon, selected, state, progress>>,
         CheckpointReady(p)', LateBound(p)', MachineInv'
  PROVE  HandoffInv'
<1>1. TypeOK /\ ProcessInv(p)
  BY DEF HandoffInv
<1>2. /\ pc'[p] = point /\ mem'[p] = Session /\ UNCHANGED <<user, exe, capture>>
      /\ \A q \in Procs \ {p} : pc'[q] = pc[q] /\ mem'[q] = mem[q]
  BY <1>1 DEF TypeOK, Load
<1>3. \A q \in Procs \ {p} : SameProcess(q) /\ SharedSafe(q)
  BY <1>1, <1>2, StateKept, ConstantsAssumption DEF SameProcess, SharedSafe
<1>4. /\ point \notin {"idle", "phase1 engine", "publish", "clear safe boot", "launch",
                       "final-benchmark", "bench"}
      /\ pc[p] # "idle" /\ pc[p] # "launch"
  BY DEF LockedPoints, RuntimePoints
<1>5. Equipped(p)'
  BY <1>1, <1>2, <1>4 DEF ProcessInv, Equipped, CapturePoints
<1>6. RuntimeKept(p)'
  BY <1>1, <1>2, <1>4 DEF ProcessInv, RuntimeKept, Retains
<1>7. SessionBehind(p)'
  BY <1>2, SessionLoaded
<1>8. SessionHeld(p)'
  BY <1>2 DEF SessionHeld, Session
<1>9. ProcessInv(p)'
  BY <1>5, <1>6, <1>7, <1>8 DEF ProcessInv
<1> QED BY <1>3, <1>9, StepOf

LEMMA ArmRunOnceStep ==
  ASSUME HandoffInv, NEW p \in Procs, ArmRunOnce(p)
  PROVE  HandoffInv'
<1>1. TypeOK
  BY DEF HandoffInv
<1>2. TypeOK'
  <2>1. runOnce' \in Generations \cup {None}
    BY <1>1 DEF TypeOK, ArmRunOnce
  <2> QED BY <1>1, <2>1, SessionType DEF TypeOK, ArmRunOnce, Load, Points, LockedPoints
<1>3. /\ pc[p] = "arm" /\ pc'[p] = "arm safe boot"
      /\ state.txn \in {None, ArmTransaction(p)} /\ UNCHANGED <<state, user, exe>>
  BY <1>1 DEF TypeOK, ArmRunOnce
<1>4. CheckpointReady(p)'
  BY <1>3 DEF CheckpointReady, ArmTransaction
<1>5. LateBound(p)'
  BY <1>3 DEF LateBound, LatePoints, BoundUserPoints
<1>6. MachineInv'
  BY MachineKept DEF ArmRunOnce
<1>7. pc[p] \in RuntimePoints \ {"launch"}
  BY <1>3 DEF RuntimePoints, Points
<1>8. "arm safe boot" \in LockedPoints
  BY DEF LockedPoints
<1> QED BY <1>2, <1>4, <1>5, <1>6, <1>7, <1>8, TakeLockStep DEF ArmRunOnce

(* The stage is still phase1SafeModeArmed when safeboot is deleted. *)
LEMMA ClearSafeBootTaken ==
  ASSUME HandoffInv, NEW p \in Procs, ClearSafeBoot(p)
  PROVE  HandoffInv'
<1>1. TypeOK /\ ProcessInv(p)
  BY DEF HandoffInv
<1>2. TypeOK'
  BY <1>1, SessionType DEF TypeOK, ClearSafeBoot, Load, Points, LockedPoints
<1>3. /\ pc[p] = "clear safe boot" /\ pc'[p] = "clear state" /\ ~safeboot'
      /\ AuthorizedAt(state, "phase1SafeModeArmed") /\ exe[p] = state.txn.runtime
      /\ UNCHANGED <<state, exe, run, selected, progress, history>>
  BY <1>1 DEF TypeOK, ClearSafeBoot, RuntimeAndStage
<1>4. StageRank(state) = 1
  BY <1>1, <1>3, StageRanks DEF TypeOK
<1>5. CheckpointReady(p)'
  BY <1>3, <1>4 DEF CheckpointReady
<1>6. LateBound(p)'
  BY <1>3 DEF LateBound, BoundUserPoints, AuthorizedAt
<1>7. MachineInv'
  BY <1>3 DEF HandoffInv, MachineInv, RuntimeSettled, ReceiptRecorded, RunKept, Backed,
              SafeBootReleased, RunBoundToTransaction
<1>8. pc[p] \in RuntimePoints \ {"launch"} /\ boot = "safe"
  BY <1>1, <1>3 DEF ProcessInv, RuntimeKept, RuntimePoints, Points
<1>9. "clear state" \in LockedPoints
  BY DEF LockedPoints
<1> QED BY <1>2, <1>5, <1>6, <1>7, <1>8, <1>9, TakeLockStep DEF ClearSafeBoot

(* The Run value is written for the transaction's own user and runtime. *)
LEMMA HandoffRunStep ==
  ASSUME HandoffInv, NEW p \in Procs, HandoffRun(p)
  PROVE  HandoffInv'
<1>1. TypeOK /\ ProcessInv(p)
  BY DEF HandoffInv
<1>2. TypeOK'
  <2>1. run' \in [Users -> Generations \cup {None}]
    BY <1>1 DEF TypeOK, HandoffRun
  <2> QED BY <1>1, <2>1, SessionType DEF TypeOK, HandoffRun, Load, Points, LockedPoints
<1>3. /\ pc[p] = "arm phase3" /\ pc'[p] = "handoff state"
      /\ AuthorizedAt(state, "phase2SafeMode")
      /\ exe[p] = state.txn.runtime /\ user[p] = state.txn.sid
      /\ run' = [run EXCEPT ![user[p]] = exe[p]]
      /\ UNCHANGED <<state, user, exe, safeboot, selected, progress, history>>
  BY <1>1 DEF TypeOK, HandoffRun, RuntimeAndStage
<1>4. StageRank(state) = 2 /\ StageRank(state) >= 2 /\ StageRank(state) # 3
  <2>1. StageRank(state) = 2
    BY <1>1, <1>3, StageRanks DEF TypeOK
  <2> QED BY <2>1
<1>5. user[p] \in Users /\ exe[p] # None
  BY <1>1, <1>3 DEF ProcessInv, Equipped, RuntimePoints, Points
<1>6. run'[user[p]] = exe[p]
  BY <1>1, <1>3, <1>5 DEF TypeOK
<1>7. CheckpointReady(p)'
  BY <1>3, <1>4, <1>5, <1>6 DEF CheckpointReady
<1>8. LateBound(p)'
  BY <1>3 DEF LateBound, AuthorizedAt
<1>9. MachineInv'
  <2>1. RunBoundToTransaction'
    BY <1>1, <1>3, <1>4, <1>5, <1>6 DEF TypeOK, HandoffInv, RunBoundToTransaction
  <2>2. RunKept'
    BY <1>3, <1>4 DEF RunKept
  <2> QED
    BY <1>3, <2>1, <2>2
       DEF HandoffInv, MachineInv, RuntimeSettled, ReceiptRecorded, Backed, SafeBootReleased
<1>10. pc[p] \in RuntimePoints \ {"launch"}
  BY <1>3 DEF RuntimePoints, Points
<1>11. "handoff state" \in LockedPoints
  BY DEF LockedPoints
<1> QED BY <1>2, <1>7, <1>8, <1>9, <1>10, <1>11, TakeLockStep DEF HandoffRun

(* The history record comes first, and a receipt already written has the   *)
(* same capture.                                                           *)
LEMMA BenchHistoryStep ==
  ASSUME HandoffInv, NEW p \in Procs, BenchHistory(p)
  PROVE  HandoffInv'
<1>1. TypeOK /\ ProcessInv(p)
  BY DEF HandoffInv
<1>2. TypeOK'
  BY <1>1, SessionType DEF TypeOK, BenchHistory, Load, Points, LockedPoints
<1>3. /\ pc[p] = "bench" /\ pc'[p] = "bench state"
      /\ history' = capture[p]
      /\ \/ state.receipt = None /\ AuthorizedAt(state, "phase3Armed")
         \/ state.receipt = capture[p] /\ AuthorizedAt(state, "phase3Complete")
      /\ UNCHANGED <<state, user, exe, capture, run, safeboot, selected, progress>>
  BY <1>1 DEF TypeOK, BenchHistory, Reconciled
<1>4. \/ state.receipt = None /\ StageRank(state) = 3
      \/ state.receipt = capture[p] /\ StageRank(state) = 4
  BY <1>1, <1>3, StageRanks DEF TypeOK
<1>5. CheckpointReady(p)'
  BY <1>3, <1>4 DEF CheckpointReady
<1>6. LateBound(p)'
  BY <1>1, <1>3 DEF ProcessInv, LateBound, LatePoints, BoundUserPoints
<1>7. MachineInv'
  <2>1. ReceiptRecorded'
    BY <1>3, <1>4 DEF HandoffInv, ReceiptRecorded
  <2> QED
    BY <1>3, <2>1
       DEF HandoffInv, MachineInv, RuntimeSettled, RunKept, Backed, SafeBootReleased,
           RunBoundToTransaction
<1>8. pc[p] \in RuntimePoints \ {"launch"} /\ pc[p] \in CapturePoints
  BY <1>3 DEF RuntimePoints, Points, CapturePoints
<1>9. "bench state" \in LockedPoints
  BY DEF LockedPoints
<1> QED BY <1>2, <1>5, <1>6, <1>7, <1>8, <1>9, TakeLockStep DEF BenchHistory

-----------------------------------------------------------------------------
(* The checkpoints: the writes under the lock. *)

(* safeboot is set only while the transaction, if there is one, is still   *)
(* at its first stage.                                                     *)
LEMMA ArmSafeBootStep ==
  ASSUME HandoffInv, NEW p \in Procs, ArmSafeBoot(p)
  PROVE  HandoffInv'
<1>1. TypeOK /\ ProcessInv(p)
  BY DEF HandoffInv
<1>2. TypeOK'
  BY <1>1 DEF TypeOK, ArmSafeBoot, Points, LockedPoints
<1>3. /\ pc[p] = "arm safe boot" /\ pc'[p] = "arm state"
      /\ UNCHANGED <<boot, logon, run, selected, state, progress, history, lock>>
      /\ UNCHANGED <<user, exe, mem>>
  BY <1>1 DEF TypeOK, ArmSafeBoot
<1>4. lock = p /\ mem[p] = Session /\ state.txn \in {None, ArmTransaction(p)}
  BY <1>1, <1>3 DEF ProcessInv, SessionHeld, CheckpointReady, LockedPoints
<1>5. \A q \in Procs \ {p} : SameProcess(q) /\ SharedSafe(q)
  BY <1>1, <1>4, StateKept DEF TypeOK, SameProcess, SharedSafe, ArmSafeBoot
<1>6. ProcessInv(p)'
  <2>1. Equipped(p)' /\ RuntimeKept(p)'
    BY <1>1, <1>3
       DEF ProcessInv, Equipped, RuntimePoints, Points, LockedPoints, CapturePoints, RuntimeKept,
           Retains
  <2>2. SessionBehind(p)'
    BY <1>1, <1>3 DEF ProcessInv, SessionBehind, Backed
  <2>3. CheckpointReady(p)' /\ SessionHeld(p)'
    BY <1>3, <1>4 DEF CheckpointReady, ArmTransaction, SessionHeld, Session
  <2>4. LateBound(p)'
    BY <1>3 DEF LateBound, LatePoints, BoundUserPoints
  <2> QED BY <2>1, <2>2, <2>3, <2>4 DEF ProcessInv
<1>7. MachineInv'
  <2>1. StageRank(state) = 0 \/ StageRank(state) = 1
    <3>1. state \in States
      BY <1>1 DEF TypeOK
    <3>2. state.txn = None \/ AuthorizedAt(state, "phase1SafeModeArmed")
      BY <1>4 DEF ArmTransaction, AuthorizedAt
    <3> QED BY <3>1, <3>2, StageRanks
  <2>2. ~(StageRank(state) >= 2)
    BY <2>1
  <2>3. SafeBootReleased'
    BY <1>3, <2>2 DEF SafeBootReleased
  <2> QED
    BY <1>3, <2>3
       DEF HandoffInv, MachineInv, RuntimeSettled, ReceiptRecorded, RunKept, Backed,
           RunBoundToTransaction
<1> QED BY <1>2, <1>5, <1>6, <1>7, StepOf

(* Where a process stands once its state.json is written. *)
StateWritten == {"arm progress", "clear progress", "handoff progress", "bench progress"}

(* Replacing state.json under the lock with a state that is not behind it. *)
LEMMA PersistStateStep ==
  ASSUME HandoffInv, NEW p \in Procs, pc[p] \in LockedPoints,
         NEW point \in StateWritten, Goto(p, point),
         NEW st \in States, PersistState(p, st), Forward,
         CheckpointReady(p)', LateBound(p)',
         RuntimeSettled', ReceiptRecorded', RunKept', SafeBootReleased'
  PROVE  HandoffInv'
<1>1. TypeOK /\ ProcessInv(p)
  BY DEF HandoffInv
<1>2. TypeOK'
  <2>1. mem' \in [Procs -> [state : States, prog : Progresses(Steps)]]
    BY <1>1 DEF TypeOK, PersistState
  <2>2. pc' \in [Procs -> Points]
    BY <1>1 DEF TypeOK, Points, LockedPoints, StateWritten
  <2> QED BY <1>1, <2>1, <2>2 DEF TypeOK, PersistState
<1>3. /\ pc'[p] = point /\ state' = st
      /\ mem'[p].state = st /\ mem'[p].prog = mem[p].prog
      /\ UNCHANGED <<boot, logon, safeboot, run, selected, progress, history, lock>>
      /\ UNCHANGED <<user, exe, capture>>
      /\ \A q \in Procs \ {p} : pc'[q] = pc[q] /\ mem'[q] = mem[q]
  BY <1>1 DEF TypeOK, PersistState
<1>4. lock = p /\ mem[p].prog = progress
  BY <1>1 DEF ProcessInv, SessionHeld, Session
<1>5. \A q \in Procs \ {p} : SameProcess(q) /\ SharedSafe(q)
  BY <1>3, <1>4 DEF SameProcess, SharedSafe
<1>6. StageRank(state) \in 0 .. 4 /\ StageRank(state') \in 0 .. 4
  BY <1>1, <1>2, StageRanks DEF TypeOK
<1>7. /\ StageRank(state) >= 1 => StageRank(state') >= 1
      /\ StageRank(state) >= 2 => StageRank(state') >= 2
      /\ StageRank(state) >= 3 => StageRank(state') >= 3
      /\ StageRank(state) = 4 => StageRank(state') = 4
  <2>1. StageRank(state) <= StageRank(state')
    BY DEF Forward
  <2> QED BY <1>6, <2>1
<1>8. Backed(progress)'
  <2>1. Backed(progress) /\ (state.ready => state'.ready) /\ progress' = progress
    BY <1>3 DEF HandoffInv, Forward
  <2> QED BY <1>7, <2>1 DEF Backed
<1>9. ProcessInv(p)'
  <2>1. /\ point \notin {"idle", "phase1 engine", "publish", "clear safe boot", "clear state",
                         "launch", "final-benchmark", "bench", "bench state"}
        /\ pc[p] \in RuntimePoints \ {"idle", "launch"}
    BY DEF LockedPoints, StateWritten, RuntimePoints, Points
  <2>2. Equipped(p)' /\ RuntimeKept(p)'
    BY <1>1, <1>3, <2>1 DEF ProcessInv, Equipped, CapturePoints, RuntimeKept, Retains
  <2>3. mem'[p].prog = progress' /\ mem'[p].state = state'
    BY <1>3, <1>4
  <2>4. SessionBehind(p)'
    <3>1. StageRank(state') <= StageRank(state')
      BY <1>6
    <3> QED BY <1>8, <2>3, <3>1 DEF SessionBehind, Backed
  <2>5. SessionHeld(p)'
    <3>1. mem'[p] \in [state : States, prog : Progresses(Steps)]
      BY <1>2 DEF TypeOK
    <3>2. mem'[p] = Session'
      BY <2>3, <3>1 DEF Session
    <3> QED BY <1>3, <1>4, <3>2 DEF SessionHeld
  <2> QED BY <2>2, <2>4, <2>5 DEF ProcessInv
<1>10. RunBoundToTransaction'
  <2>1. ASSUME NEW u \in Users, run[u] # None
        PROVE  /\ StageRank(state') >= 2 /\ state'.txn.sid = u
               /\ state'.txn.runtime = run[u]
    <3>1. StageRank(state) >= 2 /\ state.txn.sid = u /\ state.txn.runtime = run[u]
      BY <2>1 DEF HandoffInv, RunBoundToTransaction
    <3>2. state.txn # None /\ StageRank(state') >= 2
      BY <1>7, <3>1, Known
    <3> QED BY <3>1, <3>2 DEF Forward
  <2> QED BY <1>3, <2>1 DEF RunBoundToTransaction
<1> QED BY <1>2, <1>5, <1>8, <1>9, <1>10, StepOf DEF MachineInv

(* The last write of a checkpoint, and the release of the lock. *)
LEMMA PersistProgressStep ==
  ASSUME HandoffInv, NEW p \in Procs, pc[p] \in LockedPoints,
         NEW point \in {"exit", "bench done"}, Goto(p, point),
         NEW s \in HandoffMarkers, PersistProgress(p, s),
         Backed([completed |-> {s}]), LateBound(p)'
  PROVE  HandoffInv'
<1>1. TypeOK /\ ProcessInv(p) /\ mem[p].prog \in Progresses(Steps) /\ s \in Steps
  BY MarkersApart DEF HandoffInv, TypeOK
<1> DEFINE next == Complete(mem[p].prog, s)
<1>2. next \in Progresses(Steps) /\ next.completed = mem[p].prog.completed \cup {s}
  BY <1>1, Recording
<1>3. /\ pc'[p] = point /\ progress' = next /\ lock' = None
      /\ UNCHANGED <<machine, state, history, removal, user, exe, mem, capture, logonProc>>
      /\ \A q \in Procs \ {p} : pc'[q] = pc[q]
  BY <1>1 DEF TypeOK, PersistProgress
<1>4. lock = p
  BY <1>1 DEF ProcessInv, SessionHeld
<1> HIDE DEF next
<1>5. TypeOK'
  <2>1. pc' \in [Procs -> Points]
    BY <1>1 DEF TypeOK, Points
  <2> QED BY <1>1, <1>2, <1>3, <2>1 DEF TypeOK
<1>6. \A q \in Procs \ {p} : SameProcess(q) /\ SharedSafe(q)
  BY <1>1, <1>3, <1>4, StateKept DEF SameProcess, SharedSafe
<1>7. Backed(progress)'
  <2>1. Backed(mem[p].prog)
    BY <1>1 DEF ProcessInv, SessionBehind
  <2> QED BY <1>2, <1>3, <2>1 DEF Backed
<1>8. ProcessInv(p)'
  <2>1. /\ pc[p] \in RuntimePoints \ {"idle", "launch"}
        /\ point \notin LockedPoints \cup CapturePoints
    BY DEF LockedPoints, RuntimePoints, CapturePoints, Points
  <2>2. Equipped(p)' /\ RuntimeKept(p)'
    BY <1>1, <1>3, <2>1 DEF ProcessInv, Equipped, RuntimeKept, Retains
  <2>3. SessionBehind(p)'
    BY <1>1, <1>3 DEF ProcessInv, SessionBehind, Backed
  <2>4. CheckpointReady(p)' /\ SessionHeld(p)'
    BY <1>3, <2>1 DEF CheckpointReady, SessionHeld, LockedPoints
  <2> QED BY <2>2, <2>3, <2>4 DEF ProcessInv
<1>9. MachineInv'
  BY <1>3, <1>7
     DEF HandoffInv, MachineInv, RuntimeSettled, ReceiptRecorded, RunKept, SafeBootReleased,
         RunBoundToTransaction
<1> QED BY <1>5, <1>6, <1>8, <1>9, StepOf

(* What a process knows under the lock. *)
LEMMA LockedFacts ==
  ASSUME HandoffInv, NEW p \in Procs, pc[p] \in LockedPoints
  PROVE  lock = p /\ mem[p].state = state /\ CheckpointReady(p) /\ LateBound(p)
<1>1. lock = p /\ mem[p] = Session /\ CheckpointReady(p) /\ LateBound(p)
  BY DEF HandoffInv, ProcessInv, SessionHeld
<1>2. mem[p].state = state
  BY <1>1 DEF Session
<1> QED BY <1>1, <1>2

(* The transaction is armed, or armed again by the same command. *)
LEMMA Armed ==
  ASSUME HandoffInv, NEW p \in Procs, ArmState(p)
  PROVE  /\ state.txn \in {None, ArmTransaction(p)}
         /\ ArmTransaction(p) \in Transactions /\ ArmTransaction(p) # None
         /\ state' \in States /\ state'.ready /\ state'.txn = ArmTransaction(p)
         /\ state'.receipt = state.receipt /\ run' = run
         /\ StageRank(state) = 0 \/ StageRank(state) = 1
         /\ StageRank(state') = 1
<1>1. TypeOK /\ ProcessInv(p) /\ state \in States /\ pc[p] = "arm state"
  BY DEF HandoffInv, TypeOK, ArmState
<1>2. /\ mem[p].state = state /\ state.txn \in {None, ArmTransaction(p)}
      /\ user[p] \in Users /\ exe[p] \in Generations
  <2>1. pc[p] \in LockedPoints
    BY <1>1 DEF LockedPoints
  <2>2. user[p] \in Users /\ exe[p] \in Generations
    BY <1>1 DEF TypeOK, ProcessInv, Equipped, RuntimePoints, Points, LockedPoints
  <2> QED BY <1>1, <2>1, <2>2, LockedFacts DEF CheckpointReady
<1>3. ArmTransaction(p) \in Transactions /\ ArmTransaction(p) # None
  BY <1>2, ConstantsAssumption DEF ArmTransaction, Transactions, Stages
<1>4. state' = [state EXCEPT !.ready = TRUE, !.txn = ArmTransaction(p)] /\ run' = run
  BY <1>2 DEF ArmState, PersistState
<1>5. /\ state' \in States /\ state'.ready /\ state'.txn = ArmTransaction(p)
      /\ state'.receipt = state.receipt
  BY <1>1, <1>3, <1>4 DEF States
<1>6. StageRank(state') = 1
  <2>1. AuthorizedAt(state', "phase1SafeModeArmed")
    BY <1>3, <1>5 DEF ArmTransaction, AuthorizedAt
  <2> QED BY <1>5, <2>1, StageRanks
<1>7. StageRank(state) = 0 \/ StageRank(state) = 1
  <2>1. state.txn = None \/ AuthorizedAt(state, "phase1SafeModeArmed")
    BY <1>2 DEF ArmTransaction, AuthorizedAt
  <2> QED BY <1>1, <2>1, StageRanks
<1> QED BY <1>2, <1>3, <1>4, <1>5, <1>6, <1>7

LEMMA ArmStateStep ==
  ASSUME HandoffInv, NEW p \in Procs, ArmState(p)
  PROVE  HandoffInv'
<1>1. pc[p] = "arm state" /\ pc'[p] = "arm progress"
  BY DEF HandoffInv, TypeOK, ArmState
<1>2. /\ StageRank(state) <= StageRank(state') /\ StageRank(state') < 2
      /\ StageRank(state') >= 1 /\ ~(StageRank(state') >= 2)
      /\ StageRank(state') # 3 /\ StageRank(state') # 4 /\ StageRank(state) # 4
  <2>1. StageRank(state') = 1 /\ (StageRank(state) = 0 \/ StageRank(state) = 1)
    BY Armed
  <2> QED BY <2>1
<1>3. Forward
  BY <1>2, Armed DEF Forward
<1>4. CheckpointReady(p)' /\ LateBound(p)'
  BY <1>1, <1>2, Armed DEF CheckpointReady, LateBound, LatePoints, BoundUserPoints
<1>5. RuntimeSettled' /\ RunKept' /\ SafeBootReleased'
  BY <1>2 DEF RuntimeSettled, RunKept, SafeBootReleased
<1>6. ReceiptRecorded'
  BY <1>2, Armed DEF HandoffInv, ReceiptRecorded, ArmState, PersistState
<1>7. PersistState(p, state') /\ Goto(p, "arm progress") /\ state' \in States
  BY Armed DEF ArmState, PersistState
<1> QED
  BY <1>1, <1>3, <1>4, <1>5, <1>6, <1>7, PersistStateStep DEF LockedPoints, StateWritten

(* Phase 2 is entered in Safe Mode, with safeboot gone and the armed       *)
(* runtime still selected.                                                 *)
LEMMA PhaseTwoEntered ==
  ASSUME HandoffInv, NEW p \in Procs, ClearState(p)
  PROVE  /\ StageRank(state) = 1 /\ StageRank(state') = 2
         /\ ~safeboot /\ exe[p] = state.txn.runtime /\ exe[p] = selected /\ boot = "safe"
         /\ state' = Advance(state) /\ state' \in States /\ run' = run
         /\ state'.ready = state.ready /\ state'.receipt = state.receipt
         /\ state.txn # None /\ state'.txn # None
         /\ state'.txn.sid = state.txn.sid /\ state'.txn.runtime = state.txn.runtime
<1>1. TypeOK /\ ProcessInv(p) /\ state \in States /\ pc[p] = "clear state"
  BY DEF HandoffInv, TypeOK, ClearState
<1>2. mem[p].state = state /\ StageRank(state) = 1 /\ ~safeboot
  <2>1. pc[p] \in LockedPoints
    BY <1>1 DEF LockedPoints
  <2> QED BY <1>1, <2>1, LockedFacts DEF CheckpointReady
<1>3. /\ state.txn # None /\ exe[p] = state.txn.runtime /\ exe[p] = selected
      /\ boot = "safe"
  BY <1>1 DEF ProcessInv, LateBound, LatePoints, RuntimeKept, Retains, Equipped, RuntimePoints,
              Points, LockedPoints
<1>4. state' = Advance(state) /\ run' = run
  BY <1>2 DEF ClearState, PersistState
<1>5. StageRank(state) \in 1 .. 3
  BY <1>2
<1>6. StageRank(Advance(state)) = StageRank(state) + 1
  BY <1>1, <1>5, Advanced
<1>7. StageRank(Advance(state)) = 2
  BY <1>2, <1>6
<1> QED BY <1>1, <1>2, <1>3, <1>4, <1>5, <1>7, Advanced

LEMMA ClearStateStep ==
  ASSUME HandoffInv, NEW p \in Procs, ClearState(p)
  PROVE  HandoffInv'
<1>1. pc[p] = "clear state" /\ pc'[p] = "clear progress"
  BY DEF HandoffInv, TypeOK, ClearState
<1>2. /\ StageRank(state) <= StageRank(state') /\ StageRank(state') >= 2
      /\ StageRank(state') # 3 /\ StageRank(state') # 4 /\ StageRank(state) # 4
  <2>1. StageRank(state) = 1 /\ StageRank(state') = 2
    BY PhaseTwoEntered
  <2> QED BY <2>1
<1>3. UNCHANGED <<user, exe, safeboot, selected, history>>
  BY DEF ClearState, PersistState
<1>4. Forward
  BY <1>2, PhaseTwoEntered DEF Forward
<1>5. CheckpointReady(p)' /\ LateBound(p)'
  BY <1>1, <1>2, <1>3, PhaseTwoEntered DEF CheckpointReady, LateBound, BoundUserPoints
<1>6. RuntimeSettled' /\ RunKept' /\ SafeBootReleased'
  BY <1>2, <1>3, PhaseTwoEntered DEF RuntimeSettled, RunKept, SafeBootReleased
<1>7. ReceiptRecorded'
  BY <1>2, <1>3, PhaseTwoEntered DEF HandoffInv, ReceiptRecorded
<1>8. PersistState(p, state') /\ Goto(p, "clear progress") /\ state' \in States
  BY PhaseTwoEntered DEF ClearState, PersistState
<1> QED
  BY <1>1, <1>4, <1>5, <1>6, <1>7, <1>8, PersistStateStep DEF LockedPoints, StateWritten

(* Phase 3 is armed with its Run value in place. *)
LEMMA PhaseThreeEntered ==
  ASSUME HandoffInv, NEW p \in Procs, HandoffState(p)
  PROVE  /\ StageRank(state) = 2 /\ StageRank(state') = 3
         /\ exe[p] = state.txn.runtime /\ user[p] = state.txn.sid /\ run[user[p]] # None
         /\ state' = Advance(state) /\ state' \in States /\ run' = run
         /\ state'.ready = state.ready /\ state'.receipt = state.receipt
         /\ state.txn # None /\ state'.txn # None
         /\ state'.txn.sid = state.txn.sid /\ state'.txn.runtime = state.txn.runtime
<1>1. TypeOK /\ ProcessInv(p) /\ state \in States /\ pc[p] = "handoff state"
  BY DEF HandoffInv, TypeOK, HandoffState
<1>2. mem[p].state = state /\ StageRank(state) = 2 /\ run[user[p]] # None
  <2>1. pc[p] \in LockedPoints
    BY <1>1 DEF LockedPoints
  <2> QED BY <1>1, <2>1, LockedFacts DEF CheckpointReady
<1>3. state.txn # None /\ exe[p] = state.txn.runtime /\ user[p] = state.txn.sid
  BY <1>1 DEF ProcessInv, LateBound, LatePoints, BoundUserPoints
<1>4. state' = Advance(state) /\ run' = run
  BY <1>2 DEF HandoffState, PersistState
<1>5. StageRank(state) \in 1 .. 3
  BY <1>2
<1>6. StageRank(Advance(state)) = StageRank(state) + 1
  BY <1>1, <1>5, Advanced
<1>7. StageRank(Advance(state)) = 3
  BY <1>2, <1>6
<1> QED BY <1>1, <1>2, <1>3, <1>4, <1>5, <1>7, Advanced

LEMMA HandoffStateStep ==
  ASSUME HandoffInv, NEW p \in Procs, HandoffState(p)
  PROVE  HandoffInv'
<1>1. pc[p] = "handoff state" /\ pc'[p] = "handoff progress"
  BY DEF HandoffInv, TypeOK, HandoffState
<1>2. /\ StageRank(state) <= StageRank(state') /\ ~(StageRank(state) < 2)
      /\ StageRank(state) >= 2 /\ StageRank(state') >= 3
      /\ StageRank(state') # 4 /\ StageRank(state) # 4
  <2>1. StageRank(state) = 2 /\ StageRank(state') = 3
    BY PhaseThreeEntered
  <2> QED BY <2>1
<1>3. UNCHANGED <<user, exe, safeboot, selected, history>>
  BY DEF HandoffState, PersistState
<1>4. Forward
  BY <1>2, PhaseThreeEntered DEF Forward
<1>5. CheckpointReady(p)' /\ LateBound(p)'
  BY <1>1, <1>2, <1>3, PhaseThreeEntered DEF CheckpointReady, LateBound
<1>6. RuntimeSettled' /\ RunKept' /\ SafeBootReleased'
  BY <1>2, <1>3, PhaseThreeEntered DEF HandoffInv, RuntimeSettled, RunKept, SafeBootReleased
<1>7. ReceiptRecorded'
  BY <1>2, <1>3, PhaseThreeEntered DEF HandoffInv, ReceiptRecorded
<1>8. PersistState(p, state') /\ Goto(p, "handoff progress") /\ state' \in States
  BY PhaseThreeEntered DEF HandoffState, PersistState
<1> QED
  BY <1>1, <1>4, <1>5, <1>6, <1>7, <1>8, PersistStateStep DEF LockedPoints, StateWritten

(* A receipt does not move the stage. *)
LEMMA ReceiptApart ==
  ASSUME NEW st \in States, NEW c \in Captures
  PROVE  LET with == [st EXCEPT !.receipt = c]
         IN  /\ with \in States /\ StageRank(with) = StageRank(st)
             /\ with.txn = st.txn /\ with.ready = st.ready /\ with.receipt = c
BY DEF States, StageRank

(* The receipt and the last stage are one write, after the record; a       *)
(* receipt found there has both already.                                   *)
LEMMA Certified ==
  ASSUME HandoffInv, NEW p \in Procs, BenchState(p)
  PROVE  /\ \/ StageRank(state) = 3 /\ state'.txn = Advance(state).txn
            \/ StageRank(state) = 4 /\ state'.txn = state.txn
         /\ StageRank(state') = 4
         /\ exe[p] = state.txn.runtime /\ user[p] = state.txn.sid
         /\ state' \in States /\ run' = run
         /\ state'.ready = state.ready
         /\ state'.receipt = capture[p] /\ history = capture[p] /\ capture[p] # None
         /\ state.txn # None /\ state'.txn # None
         /\ state'.txn.sid = state.txn.sid /\ state'.txn.runtime = state.txn.runtime
<1>1. TypeOK /\ ProcessInv(p) /\ state \in States /\ pc[p] = "bench state"
  BY DEF HandoffInv, TypeOK, BenchState
<1>2. /\ mem[p].state = state /\ history = capture[p]
      /\ \/ state.receipt = None /\ StageRank(state) = 3
         \/ state.receipt = capture[p] /\ StageRank(state) = 4
  <2>1. pc[p] \in LockedPoints
    BY <1>1 DEF LockedPoints
  <2> QED BY <1>1, <2>1, LockedFacts DEF CheckpointReady
<1>3. /\ state.txn # None /\ exe[p] = state.txn.runtime /\ user[p] = state.txn.sid
      /\ capture[p] \in Captures /\ capture[p] # None
  BY <1>1 DEF TypeOK, ProcessInv, LateBound, LatePoints, BoundUserPoints, Equipped, CapturePoints
<1>4. /\ state' = IF state.receipt = None THEN [Advance(state) EXCEPT !.receipt = capture[p]]
                  ELSE state
      /\ run' = run
  BY <1>2 DEF BenchState, PersistState
<1>5. CASE state.receipt = None
  <2>1. StageRank(state) = 3
    BY <1>2, <1>3, <1>5
  <2>2. StageRank(state) \in 1 .. 3
    BY <2>1
  <2>3. StageRank(Advance(state)) = StageRank(state) + 1
    BY <1>1, <2>2, Advanced
  <2>4. StageRank(Advance(state)) = 4
    BY <2>1, <2>3
  <2>5. state' = [Advance(state) EXCEPT !.receipt = capture[p]]
    BY <1>4, <1>5
  <2>6. Advance(state) \in States
    BY <1>1, <2>2, Advanced
  <2>7. /\ state' \in States /\ StageRank(state') = 4 /\ state'.txn = Advance(state).txn
        /\ state'.ready = Advance(state).ready /\ state'.receipt = capture[p]
    BY <1>3, <2>4, <2>5, <2>6, ReceiptApart
  <2>8. /\ Advance(state).ready = state.ready /\ Advance(state).txn # None
        /\ Advance(state).txn.sid = state.txn.sid
        /\ Advance(state).txn.runtime = state.txn.runtime
    BY <1>1, <2>2, Advanced
  <2> QED BY <1>2, <1>3, <1>4, <2>1, <2>7, <2>8
<1>6. CASE state.receipt # None
  BY <1>1, <1>2, <1>3, <1>4, <1>6
<1> QED BY <1>5, <1>6

LEMMA BenchStateStep ==
  ASSUME HandoffInv, NEW p \in Procs, BenchState(p)
  PROVE  HandoffInv'
<1>1. pc[p] = "bench state" /\ pc'[p] = "bench progress"
  BY DEF HandoffInv, TypeOK, BenchState
<1>2. /\ StageRank(state) <= StageRank(state') /\ ~(StageRank(state) < 2)
      /\ StageRank(state) >= 2 /\ StageRank(state') >= 2
      /\ StageRank(state') = 4 /\ StageRank(state') # 3
  <2>1. StageRank(state') = 4 /\ (StageRank(state) = 3 \/ StageRank(state) = 4)
    BY Certified
  <2> QED BY <2>1
<1>3. UNCHANGED <<user, exe, safeboot, selected, history>>
  BY DEF BenchState, PersistState
<1>4. Forward
  BY <1>2, Certified DEF Forward
<1>5. CheckpointReady(p)' /\ LateBound(p)'
  BY <1>1, <1>2, <1>3, Certified DEF CheckpointReady, LateBound
<1>6. RuntimeSettled' /\ RunKept' /\ SafeBootReleased'
  BY <1>2, <1>3, Certified DEF HandoffInv, RuntimeSettled, RunKept, SafeBootReleased
<1>7. ReceiptRecorded'
  BY <1>2, <1>3, Certified DEF ReceiptRecorded
<1>8. PersistState(p, state') /\ Goto(p, "bench progress") /\ state' \in States
  BY Certified DEF BenchState, PersistState
<1> QED
  BY <1>1, <1>4, <1>5, <1>6, <1>7, <1>8, PersistStateStep DEF LockedPoints, StateWritten

(* Each marker is written when its stage is on disk. *)
LEMMA ProgressSteps ==
  ASSUME HandoffInv, NEW p \in Procs,
         ArmProgress(p) \/ ClearProgress(p) \/ HandoffProgress(p) \/ BenchProgress(p)
  PROVE  HandoffInv'
<1>1. TypeOK /\ ProcessInv(p)
  BY DEF HandoffInv
<1>2. CASE ArmProgress(p)
  <2>1. pc[p] = "arm progress" /\ pc'[p] = "exit"
    BY <1>1, <1>2 DEF TypeOK, ArmProgress
  <2>2. Backed([completed |-> {ArmSafeModeStep}])
    BY <1>1, <2>1
       DEF ProcessInv, CheckpointReady, Backed, ArmSafeModeStep, ClearSafeBootStep,
           ArmPhaseThreeStep, FinalBenchmarkStep
  <2>3. LateBound(p)'
    BY <2>1 DEF LateBound, LatePoints, BoundUserPoints
  <2> QED
    BY <1>2, <2>1, <2>2, <2>3, PersistProgressStep
       DEF ArmProgress, HandoffMarkers, LockedPoints
<1>3. CASE ClearProgress(p)
  <2>1. pc[p] = "clear progress" /\ pc'[p] = "exit"
    BY <1>1, <1>3 DEF TypeOK, ClearProgress
  <2>2. Backed([completed |-> {ClearSafeBootStep}])
    BY <1>1, <2>1
       DEF ProcessInv, CheckpointReady, Backed, ArmSafeModeStep, ClearSafeBootStep,
           ArmPhaseThreeStep, FinalBenchmarkStep
  <2>3. LateBound(p)'
    BY <2>1 DEF LateBound, LatePoints, BoundUserPoints
  <2> QED
    BY <1>3, <2>1, <2>2, <2>3, PersistProgressStep
       DEF ClearProgress, HandoffMarkers, LockedPoints
<1>4. CASE HandoffProgress(p)
  <2>1. pc[p] = "handoff progress" /\ pc'[p] = "exit"
    BY <1>1, <1>4 DEF TypeOK, HandoffProgress
  <2>2. Backed([completed |-> {ArmPhaseThreeStep}])
    BY <1>1, <2>1
       DEF ProcessInv, CheckpointReady, Backed, ArmSafeModeStep, ClearSafeBootStep,
           ArmPhaseThreeStep, FinalBenchmarkStep
  <2>3. LateBound(p)'
    BY <2>1 DEF LateBound, LatePoints, BoundUserPoints
  <2> QED
    BY <1>4, <2>1, <2>2, <2>3, PersistProgressStep
       DEF HandoffProgress, HandoffMarkers, LockedPoints
<1>5. CASE BenchProgress(p)
  <2>1. /\ pc[p] = "bench progress" /\ pc'[p] = "bench done"
        /\ UNCHANGED <<state, user, exe>>
    BY <1>1, <1>5 DEF TypeOK, BenchProgress, PersistProgress
  <2>2. Backed([completed |-> {FinalBenchmarkStep}])
    BY <1>1, <2>1
       DEF ProcessInv, CheckpointReady, Backed, ArmSafeModeStep, ClearSafeBootStep,
           ArmPhaseThreeStep, FinalBenchmarkStep
  <2>3. LateBound(p)'
    BY <1>1, <2>1 DEF ProcessInv, LateBound, LatePoints, BoundUserPoints
  <2> QED
    BY <1>5, <2>1, <2>2, <2>3, PersistProgressStep
       DEF BenchProgress, HandoffMarkers, LockedPoints
<1> QED BY <1>2, <1>3, <1>4, <1>5

-----------------------------------------------------------------------------
(* The invariant. *)

(* A machine the workflow has never run on satisfies it. *)
LEMMA InitInv == Init => HandoffInv
<1> SUFFICES ASSUME Init PROVE HandoffInv
  OBVIOUS
<1>1. TypeOK
  BY EmptySession DEF Init, TypeOK, Points
<1>2. ASSUME NEW p \in Procs PROVE ProcessInv(p)
  <2>1. pc[p] = "idle" /\ exe[p] = None /\ mem[p] = EmptyMem
    BY DEF Init
  <2>2. Equipped(p) /\ RuntimeKept(p)
    BY <2>1 DEF Equipped, RuntimeKept, Retains, RuntimePoints, CapturePoints
  <2>3. SessionBehind(p)
    <3>1. mem[p].state = EmptyState /\ mem[p].prog = EmptyProgress /\ state = EmptyState
      BY <2>1, EmptySession DEF Init
    <3>2. StageRank(EmptyState) <= StageRank(EmptyState)
      BY EmptySession
    <3> QED BY <3>1, <3>2, EmptySession DEF SessionBehind
  <2>4. CheckpointReady(p) /\ LateBound(p) /\ SessionHeld(p)
    BY <2>1 DEF CheckpointReady, LateBound, LatePoints, BoundUserPoints, SessionHeld, LockedPoints
  <2> QED BY <2>2, <2>3, <2>4 DEF ProcessInv
<1>3. StageRank(state) = 0 /\ state.receipt = None /\ progress = EmptyProgress
  BY EmptySession DEF Init, EmptyState
<1>4. /\ ~(StageRank(state) >= 2) /\ StageRank(state) # 3 /\ StageRank(state) # 4
  BY <1>3
<1>5. RuntimeSettled /\ ReceiptRecorded /\ RunKept /\ SafeBootReleased
  BY <1>3, <1>4 DEF RuntimeSettled, ReceiptRecorded, RunKept, SafeBootReleased
<1>6. Backed(progress) /\ RunBoundToTransaction
  BY <1>3, EmptySession DEF Init, RunBoundToTransaction
<1> QED BY <1>1, <1>2, <1>5, <1>6 DEF HandoffInv

(* Every step of every command, of Windows and of the power supply keeps   *)
(* the invariant.                                                          *)
LEMMA NextInv ==
  ASSUME HandoffInv, [Next]_vars
  PROVE  HandoffInv'
<1>1. ASSUME NEW p \in Procs, Work(p) PROVE HandoffInv'
  <2>1. CASE PhaseOne(p)
    BY <2>1, OptimizeAuthorizedStep, PublishReadyStep, PublishStep, LaunchBootSafeModeStep,
       ResetAuthorizedStep, ResetProgressStep DEF PhaseOne
  <2>2. CASE Arming(p)
    BY <2>2, ArmAuthorizedStep, ArmRunOnceStep, ArmSafeBootStep, ArmStateStep, ProgressSteps
       DEF Arming
  <2>3. CASE PhaseTwo(p)
    BY <2>3, PhaseTwoStepOneAuthorizedStep, ClearSafeBootTaken, ClearStateStep, ProgressSteps,
       RemainingPhaseTwoAuthorizedStep, RemovalEvidenceStep, ArmPhaseThreeReadyStep,
       HandoffRunStep, HandoffStateStep DEF PhaseTwo
  <2>4. CASE PhaseThree(p)
    BY <2>4, RelaunchAuthorizedStep, PhaseThreeAuthorizedStep, PhaseThreeCoherentStep,
       ClearHandoffStep, RelaunchStep DEF PhaseThree
  <2>5. CASE Benchmark(p)
    BY <2>5, BenchAuthorizedStep, BenchDoneStep, BenchHistoryStep, BenchStateStep, ProgressSteps
       DEF Benchmark
  <2>6. CASE \E s \in EngineSteps : EngineStep(p, s)
    BY <2>6, EngineRowStep
  <2> QED BY <1>1, <2>1, <2>2, <2>3, <2>4, <2>5, <2>6 DEF Work
<1>2. CASE UNCHANGED vars
  <2>1. TypeOK'
    BY <1>2 DEF vars, procs, HandoffInv, TypeOK
  <2>2. \A q \in Procs : SameProcess(q) /\ SharedSafe(q)
    BY <1>2, StateKept DEF vars, procs, HandoffInv, SameProcess, SharedSafe
  <2>3. MachineInv'
    BY <1>2, MachineKept DEF vars
  <2> QED BY <2>1, <2>2, <2>3, Frame DEF HandoffInv, MachineInv
<1> QED
  BY <1>1, <1>2, StartStep, ExitStep, LogonPhaseTwoStep, LogonWithoutHandoffStep, RebootStep
     DEF Next

(* HandoffInv holds in every state that commands, crashes, logons and      *)
(* reboots can reach.                                                      *)
THEOREM HandoffInvariant == Spec => []HandoffInv
<1>1. Init => HandoffInv
  BY InitInv
<1>2. HandoffInv /\ [Next]_vars => HandoffInv'
  BY NextInv
<1> QED BY <1>1, <1>2, PTL DEF Spec

-----------------------------------------------------------------------------
(* What follows from it. *)

(* Every variable keeps its type: whatever is persisted, and whatever a    *)
(* process holds in memory, is a state and a progress the code can write.  *)
THEOREM TypeCorrect == Spec => []TypeOK
<1>1. HandoffInv => TypeOK
  BY DEF HandoffInv
<1> QED BY <1>1, HandoffInvariant, PTL

(* Whatever crashed or raced, the session a checkpoint writes back is the  *)
(* one on disk.                                                            *)
THEOREM SessionAlwaysCurrent == Spec => []LockedSessionCurrent
<1>1. HandoffInv => LockedSessionCurrent
  BY DEF HandoffInv, ProcessInv, SessionHeld, LockedSessionCurrent
<1> QED BY <1>1, HandoffInvariant, PTL

(* progress.json never runs ahead of state.json and the benchmark record. *)
THEOREM CheckpointsOrdered == Spec => []CheckpointOrder
<1>1. HandoffInv => CheckpointOrder
  BY DEF HandoffInv, Backed, ReceiptRecorded, CheckpointOrder
<1> QED BY <1>1, HandoffInvariant, PTL

(* Once P2:1 is recorded the machine never boots into Safe Mode again. *)
THEOREM SafeBootStaysReleased == Spec => []SafeBootReleased
<1>1. HandoffInv => SafeBootReleased
  BY DEF HandoffInv
<1> QED BY <1>1, HandoffInvariant, PTL

(* A Run value belongs to the transaction's user and starts its runtime. *)
THEOREM RunAlwaysBound == Spec => []RunBoundToTransaction
<1>1. HandoffInv => RunBoundToTransaction
  BY DEF HandoffInv
<1> QED BY <1>1, HandoffInvariant, PTL

(* From phase3Armed on the Run value is missing only after the benchmark.  *)
THEOREM HandoffStays == Spec => []HandoffRetained
<1>1. HandoffInv => HandoffRetained
  <2> SUFFICES ASSUME HandoffInv, StageRank(state) >= 3, run[state.txn.sid] = None
               PROVE  StageRank(state) = 4 /\ state.receipt # None /\ history = state.receipt
    BY DEF HandoffRetained
  <2>1. StageRank(state) \in 0 .. 4
    BY StageRanks DEF HandoffInv, TypeOK
  <2>2. StageRank(state) # 3
    BY DEF HandoffInv, RunKept
  <2>3. StageRank(state) = 4
    BY <2>1, <2>2
  <2> QED BY <2>3 DEF HandoffInv, ReceiptRecorded
<1> QED BY <1>1, HandoffInvariant, PTL

(* Late work runs from the armed runtime, Phase 3 under the armed user. *)
THEOREM LateWorkAlwaysBound == Spec => []LateWorkBound
<1>1. HandoffInv => LateWorkBound
  BY DEF HandoffInv, ProcessInv, LateBound, LateWorkBound
<1> QED BY <1>1, HandoffInvariant, PTL

-----------------------------------------------------------------------------
(* The transaction and its handoff, step by step. *)

(* The only steps that write the transaction, and the only ones that touch *)
(* a Run value.                                                            *)
TransactionWrite(p) == ArmState(p) \/ ClearState(p) \/ HandoffState(p) \/ BenchState(p)
RunWrite(p) == HandoffRun(p) \/ ClearHandoff(p)

LEMMA Elsewhere ==
  ASSUME [Next]_vars, \A p \in Procs : ~TransactionWrite(p) /\ ~RunWrite(p)
  PROVE  state' = state /\ run' = run
<1>1. ASSUME NEW p \in Procs, Work(p) PROVE state' = state /\ run' = run
  <2>1. CASE PhaseOne(p)
    BY <2>1
       DEF PhaseOne, OptimizeAuthorized, PublishReady, Publish, LaunchBootSafeMode,
           ResetAuthorized, ResetProgress
  <2>2. CASE Arming(p)
    BY <2>2
       DEF Arming, ArmAuthorized, ArmRunOnce, ArmSafeBoot, ArmProgress, PersistProgress,
           TransactionWrite
  <2>3. CASE PhaseTwo(p)
    BY <2>3
       DEF PhaseTwo, PhaseTwoStepOneAuthorized, ClearSafeBoot, ClearProgress, PersistProgress,
           RemainingPhaseTwoAuthorized, RemovalEvidence, ArmPhaseThreeReady, HandoffProgress,
           TransactionWrite, RunWrite
  <2>4. CASE PhaseThree(p)
    BY <2>4
       DEF PhaseThree, RelaunchAuthorized, PhaseThreeAuthorized, PhaseThreeCoherent, Relaunch,
           RunWrite
  <2>5. CASE Benchmark(p)
    BY <2>5
       DEF Benchmark, BenchAuthorized, BenchComplete, BenchHistory, BenchProgress,
           PersistProgress, BenchClearAuthorized, TransactionWrite
  <2>6. CASE \E s \in EngineSteps : EngineStep(p, s)
    BY <2>6 DEF EngineStep
  <2> QED BY <1>1, <2>1, <2>2, <2>3, <2>4, <2>5, <2>6 DEF Work
<1> QED BY <1>1 DEF Next, vars, Exit, Start, LogonPhaseTwo, LogonWithoutHandoff, Reboot

(* The transaction is armed once, keeps its user and its runtime, and      *)
(* moves one edge at a time.                                               *)
THEOREM TransactionOnlyAdvances == Spec => TransactionMonotone
<1>1. ASSUME HandoffInv, [Next]_vars PROVE [TransactionStep]_vars
  <2>1. ASSUME NEW p \in Procs, ArmState(p) PROVE TransactionStep
    <3>1. /\ state.txn \in {None, ArmTransaction(p)} /\ state'.txn = ArmTransaction(p)
          /\ ArmTransaction(p) # None
      BY <1>1, <2>1, Armed
    <3>2. ArmTransaction(p).stage = "phase1SafeModeArmed"
      BY DEF ArmTransaction
    <3> QED BY <3>1, <3>2 DEF TransactionStep
  <2>2. ASSUME NEW p \in Procs, ClearState(p) PROVE TransactionStep
    <3>1. StageRank(state) \in 1 .. 3 /\ state \in States
      <4>1. StageRank(state) = 1
        BY <1>1, <2>2, PhaseTwoEntered
      <4> QED BY <1>1, <4>1 DEF HandoffInv, TypeOK
    <3> QED BY <1>1, <2>2, <3>1, PhaseTwoEntered, Advanced DEF TransactionStep
  <2>3. ASSUME NEW p \in Procs, HandoffState(p) PROVE TransactionStep
    <3>1. StageRank(state) \in 1 .. 3 /\ state \in States
      <4>1. StageRank(state) = 2
        BY <1>1, <2>3, PhaseThreeEntered
      <4> QED BY <1>1, <4>1 DEF HandoffInv, TypeOK
    <3> QED BY <1>1, <2>3, <3>1, PhaseThreeEntered, Advanced DEF TransactionStep
  <2>4. ASSUME NEW p \in Procs, BenchState(p) PROVE TransactionStep
    <3>1. CASE state'.txn = state.txn
      BY <3>1 DEF TransactionStep
    <3>2. CASE state'.txn # state.txn
      <4>1. /\ StageRank(state) = 3 /\ StageRank(state') = 4
            /\ state'.txn = Advance(state).txn /\ state.txn # None /\ state'.txn # None
        BY <1>1, <2>4, <3>2, Certified
      <4>2. StageRank(state) \in 1 .. 3 /\ StageRank(state') = StageRank(state) + 1
        BY <4>1
      <4>3. [state'.txn EXCEPT !.stage = state.txn.stage] = state.txn
        BY <1>1, <4>1, <4>2, Advanced DEF HandoffInv, TypeOK
      <4> QED BY <4>1, <4>2, <4>3 DEF TransactionStep
    <3> QED BY <3>1, <3>2
  <2>5. ASSUME NEW p \in Procs, RunWrite(p) PROVE TransactionStep
    BY <2>5 DEF RunWrite, HandoffRun, ClearHandoff, TransactionStep
  <2>6. CASE \A p \in Procs : ~TransactionWrite(p) /\ ~RunWrite(p)
    BY <1>1, <2>6, Elsewhere DEF TransactionStep
  <2> QED BY <2>1, <2>2, <2>3, <2>4, <2>5, <2>6 DEF TransactionWrite
<1> QED BY <1>1, HandoffInvariant, PTL DEF Spec, TransactionMonotone

(* A Run value is deleted only while the persisted bundle is coherent. *)
THEOREM ClearsOnlyWhenCoherent == Spec => ClearedOnlyWhenCoherent
<1>1. ASSUME HandoffInv, [Next]_vars PROVE [ClearStep]_vars
  <2>1. ASSUME NEW p \in Procs, TransactionWrite(p) PROVE ClearStep
    BY <2>1 DEF TransactionWrite, ArmState, ClearState, HandoffState, BenchState, PersistState,
                ClearStep
  <2>2. ASSUME NEW p \in Procs, HandoffRun(p) PROVE ClearStep
    <3>1. pc[p] = "arm phase3" /\ run' = [run EXCEPT ![user[p]] = exe[p]]
      BY <2>2 DEF HandoffRun
    <3>2. exe[p] # None
      BY <1>1, <3>1 DEF HandoffInv, ProcessInv, Equipped, RuntimePoints, Points
    <3>3. run \in [Users -> Generations \cup {None}]
      BY <1>1 DEF HandoffInv, TypeOK
    <3> QED BY <3>1, <3>2, <3>3 DEF ClearStep
  <2>3. ASSUME NEW p \in Procs, ClearHandoff(p) PROVE ClearStep
    BY <2>3 DEF ClearHandoff, ClearStep
  <2>4. CASE \A p \in Procs : ~TransactionWrite(p) /\ ~RunWrite(p)
    BY <1>1, <2>4, Elsewhere DEF ClearStep
  <2> QED BY <2>1, <2>2, <2>3, <2>4 DEF RunWrite
<1> QED BY <1>1, HandoffInvariant, PTL DEF Spec, ClearedOnlyWhenCoherent

-----------------------------------------------------------------------------
(* The refinement of RebootProtocol. *)

(* The abstract owner and handoff, as the refinement maps them. *)
Owner == IF state.txn = None THEN None
         ELSE [sid |-> state.txn.sid, runtime |-> state.txn.runtime]
HandedOff == state.txn # None /\ run[state.txn.sid] # None

(* The persisted transaction is the protocol's, or has not changed. *)
AbstractStep ==
  \/ /\ StageRank(state) = 0 /\ StageRank(state') = 1
     /\ Owner' \in [sid : Users, runtime : Generations]
     /\ HandedOff' = HandedOff
  \/ /\ \/ StageRank(state) = 1 /\ StageRank(state') = 2
        \/ StageRank(state) = 2 /\ StageRank(state') = 3 /\ HandedOff
        \/ StageRank(state) = 3 /\ StageRank(state') = 4
     /\ Owner' = Owner /\ HandedOff' = HandedOff
  \/ /\ \/ StageRank(state) = 2 /\ HandedOff' = TRUE
        \/ StageRank(state) = 4 /\ HandedOff' = FALSE
     /\ Owner' = Owner /\ StageRank(state') = StageRank(state)
  \/ Owner' = Owner /\ StageRank(state') = StageRank(state) /\ HandedOff' = HandedOff

(* Steps that keep the owner of an existing transaction and the Run values *)
(* keep what the protocol sees of them.                                    *)
LEMMA OwnerKept ==
  ASSUME state.txn # None, state'.txn # None, run' = run,
         state'.txn.sid = state.txn.sid, state'.txn.runtime = state.txn.runtime
  PROVE  Owner' = Owner /\ HandedOff' = HandedOff
BY DEF Owner, HandedOff

LEMMA RefinesStep ==
  ASSUME HandoffInv, [Next]_vars
  PROVE  AbstractStep
<1>1. ASSUME NEW p \in Procs, ArmState(p) PROVE AbstractStep
  <2>1. CASE state.txn = None
    <3>1. state'.txn = ArmTransaction(p) /\ state'.txn \in Transactions /\ state'.txn # None
      BY <1>1, Armed
    <3>2. StageRank(state) = 0 /\ StageRank(state') = 1 /\ run' = run
      BY <1>1, <2>1, Armed, StageRanks DEF HandoffInv, TypeOK
    <3>3. Owner' \in [sid : Users, runtime : Generations]
      BY <3>1 DEF Owner, Transactions
    <3>4. ~HandedOff
      BY <2>1 DEF HandedOff
    <3>5. state'.txn.sid \in Users /\ ~(StageRank(state) >= 2)
      <4>1. ~(StageRank(state) >= 2)
        BY <3>2
      <4> QED BY <3>1, <4>1 DEF Transactions
    <3>6. run'[state'.txn.sid] = None
      BY <3>2, <3>5 DEF HandoffInv, RunBoundToTransaction
    <3>7. ~HandedOff'
      BY <3>6 DEF HandedOff
    <3>8. HandedOff' = HandedOff
      BY <3>4, <3>7 DEF HandedOff
    <3> QED BY <3>2, <3>3, <3>8 DEF AbstractStep
  <2>2. CASE state.txn # None
    <3>1. state'.txn = state.txn /\ run' = run
      BY <1>1, <2>2, Armed
    <3>2. Owner' = Owner /\ HandedOff' = HandedOff
      BY <2>2, <3>1, OwnerKept
    <3>3. StageRank(state') = StageRank(state)
      BY <3>1 DEF StageRank
    <3> QED BY <3>2, <3>3 DEF AbstractStep
  <2> QED BY <2>1, <2>2
<1>2. ASSUME NEW p \in Procs, ClearState(p) PROVE AbstractStep
  <2>1. StageRank(state) = 1 /\ StageRank(state') = 2
    BY <1>2, PhaseTwoEntered
  <2>2. Owner' = Owner /\ HandedOff' = HandedOff
    BY <1>2, PhaseTwoEntered, OwnerKept
  <2> QED BY <2>1, <2>2 DEF AbstractStep
<1>3. ASSUME NEW p \in Procs, HandoffState(p) PROVE AbstractStep
  <2>1. StageRank(state) = 2 /\ StageRank(state') = 3
    BY <1>3, PhaseThreeEntered
  <2>2. Owner' = Owner /\ HandedOff' = HandedOff
    BY <1>3, PhaseThreeEntered, OwnerKept
  <2>3. HandedOff
    BY <1>3, PhaseThreeEntered DEF HandedOff
  <2> QED BY <2>1, <2>2, <2>3 DEF AbstractStep
<1>4. ASSUME NEW p \in Procs, BenchState(p) PROVE AbstractStep
  <2>1. Owner' = Owner /\ HandedOff' = HandedOff
    BY <1>4, Certified, OwnerKept
  <2>2. \/ StageRank(state) = 3 /\ StageRank(state') = 4
        \/ StageRank(state') = StageRank(state)
    BY <1>4, Certified
  <2> QED BY <2>1, <2>2 DEF AbstractStep
<1>5. ASSUME NEW p \in Procs, HandoffRun(p) PROVE AbstractStep
  <2>1. /\ state' = state /\ AuthorizedAt(state, "phase2SafeMode") /\ state \in States
        /\ state.txn.sid = user[p] /\ run' = [run EXCEPT ![user[p]] = exe[p]]
        /\ pc[p] = "arm phase3" /\ run \in [Users -> Generations \cup {None}]
    BY <1>5 DEF HandoffInv, TypeOK, HandoffRun, RuntimeAndStage
  <2>2. StageRank(state) = 2 /\ state.txn # None
    BY <2>1, StageRanks DEF AuthorizedAt
  <2>3. user[p] \in Users /\ exe[p] # None
    BY <2>1 DEF HandoffInv, ProcessInv, Equipped, RuntimePoints, Points
  <2>4. HandedOff'
    BY <2>1, <2>2, <2>3 DEF HandedOff
  <2>5. Owner' = Owner /\ StageRank(state') = StageRank(state)
    BY <2>1 DEF Owner
  <2>6. HandedOff' = TRUE
    BY <2>4 DEF HandedOff
  <2> QED BY <2>2, <2>5, <2>6 DEF AbstractStep
<1>6. ASSUME NEW p \in Procs, ClearHandoff(p) PROVE AbstractStep
  <2>1. /\ state' = state /\ AuthorizedAt(state, "phase3Complete") /\ state \in States
        /\ state.txn.sid = user[p] /\ run' = [run EXCEPT ![user[p]] = None]
        /\ pc[p] = "clear handoff" /\ run \in [Users -> Generations \cup {None}]
    BY <1>6 DEF HandoffInv, TypeOK, ClearHandoff, RuntimeAndStage
  <2>2. StageRank(state) = 4
    BY <2>1, StageRanks
  <2>3. user[p] \in Users
    BY <2>1 DEF HandoffInv, ProcessInv, Equipped
  <2>4. ~HandedOff'
    BY <2>1, <2>3 DEF HandedOff
  <2>5. Owner' = Owner /\ StageRank(state') = StageRank(state)
    BY <2>1 DEF Owner
  <2>6. HandedOff' = FALSE
    BY <2>4 DEF HandedOff
  <2> QED BY <2>2, <2>5, <2>6 DEF AbstractStep
<1>7. CASE \A p \in Procs : ~TransactionWrite(p) /\ ~RunWrite(p)
  <2>1. state' = state /\ run' = run
    BY <1>7, Elsewhere
  <2> QED BY <2>1 DEF AbstractStep, Owner, HandedOff
<1> QED BY <1>1, <1>2, <1>3, <1>4, <1>5, <1>6, <1>7 DEF TransactionWrite, RunWrite

(* Whatever commands, crashes and reboots do, what is persisted walks      *)
(* through the protocol's stages in order, for one owner, and its handoff  *)
(* is there before Phase 3 is entered and until the benchmark is certified.*)
THEOREM RefinesProtocol == Spec => ImplementsProtocol
<1>1. Init => Protocol!ProtocolInit
  BY EmptySession DEF Init, Protocol!ProtocolInit, EmptyState
<1>2. AbstractStep => [Protocol!ProtocolNext]_(Protocol!protocolVars)
  BY DEF AbstractStep, Owner, HandedOff, Protocol!ProtocolNext, Protocol!protocolVars,
         Protocol!ArmTransaction, Protocol!LeaveSafeBoot, Protocol!RegisterHandoff,
         Protocol!EnterPhaseThree, Protocol!Certify, Protocol!Release
<1>3. HandoffInv /\ [Next]_vars => [Protocol!ProtocolNext]_(Protocol!protocolVars)
  BY <1>2, RefinesStep
<1> QED
  BY <1>1, <1>3, HandoffInvariant, PTL DEF Spec, ImplementsProtocol, Protocol!ProtocolSpec

-----------------------------------------------------------------------------
(* One process at a time: the completed handoff rows. *)

LEMMA LoneWork ==
  ASSUME \A p, q \in Procs : p = q, HandoffInv, LoneInv, NEW p \in Procs, Work(p)
  PROVE  LoneInv'
<1>1. pc \in [Procs -> Points] /\ mem \in [Procs -> [state : States, prog : Progresses(Steps)]]
  BY DEF HandoffInv, TypeOK
<1>2. SUFFICES LoneSession(p)'
  BY DEF LoneInv
<1>3. LoneSession(p)
  BY DEF LoneInv
<1>4. CASE PhaseOne(p)
  BY <1>1, <1>3, <1>4
     DEF PhaseOne, OptimizeAuthorized, PublishReady, Publish, LaunchBootSafeMode,
         ResetAuthorized, ResetProgress, LoneSession, EnginePoints
<1>5. CASE Arming(p)
  BY <1>1, <1>3, <1>5
     DEF Arming, ArmAuthorized, ArmRunOnce, ArmSafeBoot, ArmState, ArmProgress,
         PersistProgress, PersistState, LoneSession, EnginePoints
<1>6. CASE PhaseTwo(p)
  BY <1>1, <1>3, <1>6
     DEF PhaseTwo, PhaseTwoStepOneAuthorized, ClearSafeBoot, ClearState, ClearProgress,
         RemainingPhaseTwoAuthorized, RemovalEvidence, ArmPhaseThreeReady, HandoffRun,
         HandoffState, HandoffProgress, PersistProgress, PersistState, LoneSession, EnginePoints
<1>7. CASE PhaseThree(p)
  <2>1. ASSUME NEW u \in Users, Relaunch(p, u) PROVE LoneSession(p)'
    <3>1. pc'[p] = "phase3" /\ mem'[p].prog = progress /\ progress' = progress
      BY <1>1, <2>1 DEF Relaunch, Load, Session
    <3> QED BY <3>1 DEF LoneSession
  <2>2. CASE RelaunchAuthorized(p) \/ PhaseThreeAuthorized(p) \/ PhaseThreeCoherent(p)
               \/ ClearHandoff(p)
    <3>1. mem' = mem /\ progress' = progress
      BY <2>2 DEF RelaunchAuthorized, PhaseThreeAuthorized, PhaseThreeCoherent, ClearHandoff
    <3>2. \/ pc'[p] \in {"relaunch", "clear handoff", "exit"}
          \/ pc[p] = "phase3" /\ pc'[p] = "phase3 engine"
      BY <1>1, <2>2
         DEF RelaunchAuthorized, PhaseThreeAuthorized, PhaseThreeCoherent, ClearHandoff
    <3> QED BY <1>3, <3>1, <3>2 DEF LoneSession, EnginePoints
  <2> QED BY <1>7, <2>1, <2>2 DEF PhaseThree
<1>8. CASE Benchmark(p)
  BY <1>1, <1>3, <1>8
     DEF Benchmark, BenchAuthorized, BenchComplete, BenchHistory, BenchState, BenchProgress,
         PersistProgress, PersistState, BenchClearAuthorized, LoneSession, EnginePoints
<1>9. CASE \E s \in EngineSteps : EngineStep(p, s)
  <2>1. PICK s \in EngineSteps : EngineStep(p, s)
    BY <1>9
  <2>2. PICK next : mem' = [mem EXCEPT ![p].prog = next] /\ progress' = next
    BY <2>1 DEF EngineStep
  <2>3. mem'[p].prog = progress'
    BY <1>1, <2>2
  <2>4. pc' = pc /\ pc[p] \in EnginePoints
    BY <2>1 DEF EngineStep
  <2>5. pc[p] # "reset"
    BY <2>4 DEF EnginePoints
  <2> QED BY <2>3, <2>4, <2>5 DEF LoneSession
<1> QED BY <1>4, <1>5, <1>6, <1>7, <1>8, <1>9 DEF Work

LEMMA LoneNext ==
  ASSUME \A p, q \in Procs : p = q, HandoffInv, LoneInv, [Next]_vars
  PROVE  LoneInv'
<1>1. pc \in [Procs -> Points] /\ mem \in [Procs -> [state : States, prog : Progresses(Steps)]]
  BY DEF HandoffInv, TypeOK
<1>2. ASSUME NEW p \in Procs, Exit(p) PROVE LoneInv'
  BY <1>1, <1>2 DEF Exit, LoneInv, LoneSession, EnginePoints
<1>3. ASSUME NEW p \in Procs, NEW cmd \in Commands, NEW u \in Users, NEW c \in Captures,
             Start(p, cmd, u, c)
      PROVE  LoneInv'
  BY <1>1, <1>3 DEF Start, Load, Session, LoneInv, LoneSession, Commands
<1>4. ASSUME NEW p \in Procs, NEW u \in Users, LogonPhaseTwo(p, u) PROVE LoneInv'
  BY <1>1, <1>4 DEF LogonPhaseTwo, Load, Session, LoneInv, LoneSession
<1>5. CASE Reboot
  BY <1>5 DEF Reboot, LoneInv, LoneSession, EnginePoints
<1>6. CASE LogonWithoutHandoff \/ UNCHANGED vars
  BY <1>6 DEF LogonWithoutHandoff, vars, procs, LoneInv, LoneSession
<1> QED BY <1>2, <1>3, <1>4, <1>5, <1>6, LoneWork DEF Next

(* The only steps that write progress.json. *)
ProgressWrite(p) ==
  \/ ArmProgress(p) \/ ClearProgress(p) \/ HandoffProgress(p) \/ BenchProgress(p)
  \/ ResetProgress(p) \/ \E s \in EngineSteps : EngineStep(p, s)

LEMMA ProgressElsewhere ==
  ASSUME [Next]_vars, \A p \in Procs : ~ProgressWrite(p)
  PROVE  progress' = progress
<1>1. ASSUME NEW p \in Procs, Work(p) PROVE progress' = progress
  <2>1. CASE PhaseOne(p)
    BY <2>1
       DEF PhaseOne, OptimizeAuthorized, PublishReady, Publish, LaunchBootSafeMode,
           ResetAuthorized, ProgressWrite
  <2>2. CASE Arming(p)
    BY <2>2
       DEF Arming, ArmAuthorized, ArmRunOnce, ArmSafeBoot, ArmState, PersistState, ProgressWrite
  <2>3. CASE PhaseTwo(p)
    BY <2>3
       DEF PhaseTwo, PhaseTwoStepOneAuthorized, ClearSafeBoot, ClearState, PersistState,
           RemainingPhaseTwoAuthorized, RemovalEvidence, ArmPhaseThreeReady, HandoffRun,
           HandoffState, ProgressWrite
  <2>4. CASE PhaseThree(p)
    BY <2>4
       DEF PhaseThree, RelaunchAuthorized, PhaseThreeAuthorized, PhaseThreeCoherent, Relaunch,
           ClearHandoff
  <2>5. CASE Benchmark(p)
    BY <2>5
       DEF Benchmark, BenchAuthorized, BenchComplete, BenchHistory, BenchState, PersistState,
           BenchClearAuthorized, ProgressWrite
  <2> QED BY <1>1, <2>1, <2>2, <2>3, <2>4, <2>5 DEF Work, ProgressWrite
<1> QED BY <1>1 DEF Next, vars, Exit, Start, LogonPhaseTwo, LogonWithoutHandoff, Reboot

(* While commands do not overlap, however often they are interrupted and   *)
(* repeated, none takes back a completed handoff row: the engine persists  *)
(* the progress it read, and reset-progress is refused once there is a     *)
(* transaction.  Overlapping commands may lose one: the engine writes its  *)
(* in-memory progress over what the other completed.                       *)
THEOREM LoneCommandKeepsMarkers ==
  ASSUME \A p, q \in Procs : p = q
  PROVE  Spec => MarkersKept
<1>1. Init => LoneInv
  BY DEF Init, LoneInv, LoneSession, EnginePoints
<1>2. HandoffInv /\ LoneInv /\ [Next]_vars => LoneInv'
  BY LoneNext
<1>3. ASSUME HandoffInv, LoneInv, [Next]_vars PROVE [MarkerStep]_vars
  <2>1. ASSUME NEW p \in Procs,
               ArmProgress(p) \/ ClearProgress(p) \/ HandoffProgress(p) \/ BenchProgress(p)
        PROVE  MarkerStep
    <3>1. pc[p] \in LockedPoints
      BY <2>1 DEF LockedPoints, ArmProgress, ClearProgress, HandoffProgress, BenchProgress
    <3>2. SessionHeld(p)
      BY <1>3 DEF HandoffInv, ProcessInv
    <3>3. mem[p].prog = progress
      BY <3>1, <3>2 DEF SessionHeld, Session
    <3>4. PICK s : progress' = Complete(progress, s)
      BY <2>1, <3>3
         DEF ArmProgress, ClearProgress, HandoffProgress, BenchProgress, PersistProgress
    <3> QED BY <3>4 DEF MarkerStep, Complete
  <2>2. ASSUME NEW p \in Procs, ResetProgress(p) PROVE MarkerStep
    <3>1. StageRank(state) = 0
      BY <1>3, <2>2 DEF LoneInv, LoneSession, ResetProgress, StageRank
    <3>2. HandoffMarkers \cap progress.completed = {}
      BY <1>3, <3>1 DEF HandoffInv, Backed, HandoffMarkers
    <3> QED BY <3>2 DEF MarkerStep
  <2>3. ASSUME NEW p \in Procs, NEW s \in EngineSteps, EngineStep(p, s) PROVE MarkerStep
    <3>1. mem[p].prog = progress /\ s \notin HandoffMarkers
      BY <1>3, <2>3, MarkersApart DEF LoneInv, LoneSession, EngineStep
    <3>2. PICK outcome \in OutcomeKinds : progress' = Record(progress, s, outcome)
      <4>1. Outcomes[s] \subseteq OutcomeKinds
        BY ConstantsAssumption
      <4> QED BY <2>3, <3>1, <4>1 DEF EngineStep
    <3>3. progress.completed \ {s} \subseteq progress'.completed
      BY <3>2 DEF OutcomeKinds, Record, Complete, Skip, AcknowledgeAdvisory
    <3> QED BY <3>1, <3>3 DEF MarkerStep
  <2>4. CASE \A p \in Procs : ~ProgressWrite(p)
    BY <1>3, <2>4, ProgressElsewhere DEF MarkerStep
  <2> QED BY <2>1, <2>2, <2>3, <2>4 DEF ProgressWrite
<1> QED BY <1>1, <1>2, <1>3, HandoffInvariant, PTL DEF Spec, MarkersKept

=============================================================================
