--------------------------- MODULE RebootHandoff ---------------------------
(***************************************************************************)
(* The three-phase reboot workflow of frametime.cfg: the commands that     *)
(* drive it (frametime-app/src/workflow.rs), the guards that authorize     *)
(* them (frametime-domain/src/orchestration.rs) and the durable handoff    *)
(* checkpoints they write (frametime-windows/src/reboot/handoff.rs,        *)
(* frametime-windows/src/storage/persistence.rs).                          *)
(*                                                                         *)
(* Every durable write is a step of its own, so a process may be killed,   *)
(* and the machine may lose power, between any two of them.  Several       *)
(* processes may run at once; the suite lock is tried, never waited for.   *)
(***************************************************************************)
EXTENDS Naturals, WorkDir

CONSTANTS
  Procs,              \* process slots: how many commands may run at once
  Users,              \* token user SIDs
  Generations,        \* runtime generations that can be published
  Captures,           \* complete VProf captures
  PhaseOneSteps,      \* the Engine rows of Phase 1 (P1:1 to P1:37)
  AdvisoryAuthorized, \* the Phase 1 rows an advisory resolves (P1:2, P1:9)
  PhaseThreeSteps,    \* the Engine rows of Phase 3 after P3:1 (P3:2 to P3:12)
  Outcomes            \* what the Backend may make of each Engine row

(* The rows the orchestrator owns, and the two driver rows of the Engine. *)
ArmSafeModeStep == "P1:38"
ClearSafeBootStep == "P2:1"
DriverCleanupStep == "P2:2"
ArmPhaseThreeStep == "P2:3"
DriverInstallStep == "P3:1"
FinalBenchmarkStep == "P3:13"

PhaseTwoSteps == {ClearSafeBootStep, DriverCleanupStep, ArmPhaseThreeStep}
PhaseThreeEngineSteps == PhaseThreeSteps \cup {DriverInstallStep}
EngineSteps == PhaseOneSteps \cup {DriverCleanupStep} \cup PhaseThreeEngineSteps
Steps == EngineSteps \cup PhaseTwoSteps \cup {ArmSafeModeStep, FinalBenchmarkStep}

OutcomeKinds == {"completed", "skipped", "advisory"}

Stages == {"phase1SafeModeArmed", "phase2SafeMode", "phase3Armed", "phase3Complete"}
Transactions == [stage : Stages, sid : Users, runtime : Generations]

ASSUME ConstantsAssumption ==
  /\ {None, StaleLock} \cap Procs = {}
  /\ None \notin Users \cup Generations \cup Captures \cup Transactions
  /\ AdvisoryAuthorized \subseteq PhaseOneSteps
  /\ PhaseOneSteps \cap PhaseThreeSteps = {}
  /\ (PhaseOneSteps \cup PhaseThreeSteps) \cap
       (PhaseTwoSteps \cup {ArmSafeModeStep, DriverInstallStep, FinalBenchmarkStep}) = {}
  /\ Outcomes \in [EngineSteps -> SUBSET OutcomeKinds]

States == [ready : BOOLEAN, txn : Transactions \cup {None}, receipt : Captures \cup {None}]

EmptyState == [ready |-> FALSE, txn |-> None, receipt |-> None]

Commands == {"optimize", "boot-safe-mode", "phase2", "phase3", "phase3-handoff",
             "final-benchmark", "reset-progress"}
RuntimeCommands == Commands \ {"optimize", "reset-progress"}

(* Where a process may stand.  A command's own name: its session is loaded *)
(* and it is about to be authorized.                                       *)
LockedPoints == {"arm safe boot", "arm state", "arm progress",
                 "clear state", "clear progress",
                 "handoff state", "handoff progress",
                 "bench state", "bench progress"}
EnginePoints == {"phase1 engine", "phase2 engine", "phase3 engine"}
Points == Commands \cup LockedPoints \cup EnginePoints \cup
          {"idle", "publish", "launch", "arm", "clear safe boot", "arm phase3",
           "relaunch", "bench", "bench done", "clear handoff", "reset", "exit"}

VARIABLES
  \* The machine, shared by every process.
  boot,       \* the environment Windows is running in
  logon,      \* a boot has happened and nobody has logged on yet
  safeboot,   \* the BCD safeboot value of {current} is set
  runOnce,    \* HKLM RunOnce: the generation whose executable it starts
  run,        \* HKCU Run of each user: the generation it starts
  selected,   \* runtime-current.json
  published,  \* generation ids already used
  \* The protected work directory.
  state,      \* state.json
  progress,   \* progress.json
  history,    \* the P3:13 record of benchmark_history.json
  removal,    \* the driver transaction holds coherent P2:2 removal evidence
  lock,       \* who holds the suite lock
  \* The processes.
  pc, user, exe, mem, capture,
  logonProc   \* the process Windows started from RunOnce and waits for

machine == <<boot, logon, safeboot, runOnce, run, selected, published>>
disk == <<state, progress, history, removal, lock>>
procs == <<pc, user, exe, mem, capture, logonProc>>
vars == <<machine, disk, procs>>

EmptyMem == [state |-> EmptyState, prog |-> EmptyProgress]
Session == [state |-> state, prog |-> progress]

TypeOK ==
  /\ boot \in {"normal", "safe"}
  /\ logon \in BOOLEAN
  /\ safeboot \in BOOLEAN
  /\ runOnce \in Generations \cup {None}
  /\ run \in [Users -> Generations \cup {None}]
  /\ selected \in Generations \cup {None}
  /\ published \in SUBSET Generations
  /\ state \in States
  /\ progress \in Progresses(Steps)
  /\ history \in Captures \cup {None}
  /\ removal \in BOOLEAN
  /\ lock \in Procs \cup {None, StaleLock}
  /\ pc \in [Procs -> Points]
  /\ user \in [Procs -> Users \cup {None}]
  /\ exe \in [Procs -> Generations \cup {None}]
  /\ mem \in [Procs -> [state : States, prog : Progresses(Steps)]]
  /\ capture \in [Procs -> Captures \cup {None}]
  /\ logonProc \in Procs \cup {None}

-----------------------------------------------------------------------------
(* Progress and transaction operators (frametime-domain). *)

Record(pr, s, outcome) ==
  CASE outcome = "completed" -> Complete(pr, s)
    [] outcome = "skipped" -> Skip(pr, s)
    [] outcome = "advisory" -> AcknowledgeAdvisory(pr, s)

ResolvedPhaseOne(pr) ==
  \A s \in PhaseOneSteps :
    \/ s \in pr.completed \cup pr.skipped
    \/ s \in AdvisoryAuthorized /\ s \in pr.advisory

(* A persisted transaction always carries a valid schema, id, SID and      *)
(* runtime record (new_transaction refuses any other), so being authorized *)
(* at a stage is being at that stage.                                      *)
AuthorizedAt(st, stage) == st.txn # None /\ st.txn.stage = stage

(* RebootTransaction::transition_to along the only forward edges. *)
NextStage == [s \in Stages \ {"phase3Complete"} |->
                CASE s = "phase1SafeModeArmed" -> "phase2SafeMode"
                  [] s = "phase2SafeMode" -> "phase3Armed"
                  [] s = "phase3Armed" -> "phase3Complete"]

Advance(st) == [st EXCEPT !.txn.stage = NextStage[st.txn.stage]]

RuntimeAndStage(st, g, stage) == AuthorizedAt(st, stage) /\ st.txn.runtime = g

PhaseThreeResolved(pr) == PhaseThreeSteps \subseteq pr.completed \cup pr.skipped

(* validate_persisted_final_benchmark *)
Coherent(st, pr, h) ==
  /\ st.receipt # None
  /\ AuthorizedAt(st, "phase3Complete")
  /\ {DriverInstallStep, FinalBenchmarkStep} \subseteq pr.completed
  /\ FinalBenchmarkStep \notin pr.skipped
  /\ PhaseThreeResolved(pr)
  /\ h = st.receipt

(* final_benchmark_status_from_records, Absent *)
NoReceiptEvidence(st, pr, h) ==
  /\ st.receipt = None
  /\ ~AuthorizedAt(st, "phase3Complete")
  /\ FinalBenchmarkStep \notin pr.completed \cup pr.skipped
  /\ h = None

-----------------------------------------------------------------------------
(* orchestration.rs: authorize.  st and pr are the session the command     *)
(* loaded, the native evidence is read when the guard is evaluated.  The   *)
(* registry evidence is presence only; exactness is checked by the native  *)
(* checkpoint afterwards.                                                  *)

ResolvedIn(pr, steps) == (pr.completed \cup pr.skipped) \cap steps # {}

AuthorizeOptimize(st, pr, u) ==
  /\ boot = "normal"
  /\ runOnce = None /\ run[u] = None /\ ~safeboot
  /\ ~ResolvedIn(pr, PhaseTwoSteps \cup PhaseThreeEngineSteps \cup {FinalBenchmarkStep})

(* assess_inventory: the packaged executable is never the selected one, so *)
(* any selected generation counts as an incomplete runtime.                *)
MigrationAllowed(st) == selected = None /\ ~st.ready /\ st.txn = None

AuthorizeArmSafeMode(st, pr) ==
  /\ boot = "normal"
  /\ ResolvedPhaseOne(pr)
  /\ st.txn = None

PhaseTwoEvidence(st, pr) ==
  /\ boot = "safe"
  /\ st.ready
  /\ runOnce # None
  /\ ArmSafeModeStep \in pr.completed
  /\ ClearSafeBootStep \notin pr.skipped

AuthorizePhaseTwoStepOne(st, pr) ==
  /\ PhaseTwoEvidence(st, pr)
  /\ ~ResolvedIn(pr, PhaseTwoSteps)
  /\ AuthorizedAt(st, "phase1SafeModeArmed")
  /\ safeboot

AuthorizeRemainingPhaseTwo(st, pr) ==
  /\ PhaseTwoEvidence(st, pr)
  /\ ClearSafeBootStep \in pr.completed
  /\ AuthorizedAt(st, "phase2SafeMode")
  /\ ~safeboot

(* run_value_evidence and same_user_handoff_evidence for the user's HKCU. *)
SameUserHandoff(u) == run[u] # None /\ state.txn # None /\ state.txn.sid = u

AuthorizePhaseThree(st, pr, u) ==
  /\ boot = "normal"
  /\ AuthorizedAt(st, "phase3Armed")
  /\ SameUserHandoff(u)
  /\ PhaseTwoSteps \subseteq pr.completed

AuthorizeFinalBenchmark(st, pr, u) ==
  /\ boot = "normal"
  /\ AuthorizedAt(st, "phase3Armed") \/ AuthorizedAt(st, "phase3Complete")
  /\ SameUserHandoff(u)
  /\ PhaseTwoSteps \subseteq pr.completed

AuthorizeClearHandoff(st, pr, u) ==
  /\ AuthorizedAt(st, "phase3Complete")
  /\ SameUserHandoff(u)
  /\ {DriverInstallStep, FinalBenchmarkStep} \subseteq pr.completed

-----------------------------------------------------------------------------
(* Steps of a process.  Goto leaves the machine and the disk to the action. *)

Goto(p, point) == pc' = [pc EXCEPT ![p] = point]

At(p, point) == pc[p] = point

Keep == UNCHANGED <<user, exe, capture, logonProc>>

Load(p) == mem' = [mem EXCEPT ![p] = Session]

(* A retained VerifiedSelectedRuntime keeps runtime-current.json open and  *)
(* so prevents its replacement.                                            *)
Retains(p) == exe[p] # None /\ pc[p] # "launch"

RequiredBoot(cmd) == IF cmd = "phase2" THEN "safe" ELSE "normal"

Start(p, cmd, u, c) ==
  /\ At(p, "idle") /\ ~logon
  /\ boot = RequiredBoot(cmd)
  /\ cmd \in RuntimeCommands => selected # None
  /\ Goto(p, cmd)
  /\ user' = [user EXCEPT ![p] = u]
  /\ exe' = [exe EXCEPT ![p] = IF cmd \in RuntimeCommands THEN selected ELSE None]
  /\ capture' = [capture EXCEPT ![p] = IF cmd = "final-benchmark" THEN c ELSE None]
  /\ Load(p)
  /\ UNCHANGED <<machine, disk, logonProc>>

(* A process ends, successfully or not: every guard may refuse it, every   *)
(* write may fail, and it may be killed.  Its lock dies with it.  Windows  *)
(* deletes the "!" RunOnce value once the command it started has ended.    *)
Exit(p) ==
  /\ pc[p] # "idle"
  /\ Goto(p, "idle")
  /\ user' = [user EXCEPT ![p] = None]
  /\ exe' = [exe EXCEPT ![p] = None]
  /\ mem' = [mem EXCEPT ![p] = EmptyMem]
  /\ capture' = [capture EXCEPT ![p] = None]
  /\ lock' = IF lock = p THEN None ELSE lock
  /\ IF logonProc = p
       THEN logonProc' = None /\ runOnce' \in {runOnce, None}
       ELSE UNCHANGED <<logonProc, runOnce>>
  /\ UNCHANGED <<boot, logon, safeboot, run, selected, published,
                 state, progress, history, removal>>

(* Power loss or an ordinary restart: every process is gone, the durable   *)
(* state stays, BCD decides the next environment.  A power loss in the     *)
(* middle of a command may leave its lock file behind.                     *)
Reboot ==
  /\ boot' = IF safeboot THEN "safe" ELSE "normal"
  /\ logon' = TRUE
  /\ lock' \in LockAfterReboot(lock, \E p \in Procs : pc[p] # "idle")
  /\ logonProc' = None
  /\ pc' = [p \in Procs |-> "idle"]
  /\ user' = [p \in Procs |-> None]
  /\ exe' = [p \in Procs |-> None]
  /\ mem' = [p \in Procs |-> EmptyMem]
  /\ capture' = [p \in Procs |-> None]
  /\ UNCHANGED <<safeboot, runOnce, run, selected, published,
                 state, progress, history, removal>>

(* The first logon runs the RunOnce command before anything else: the "*"  *)
(* of its name makes Windows run it in Safe Mode too.  phase2 refuses a    *)
(* normal boot and an executable that is not the selected one.             *)
LogonPhaseTwo(p, u) ==
  /\ logon /\ runOnce # None /\ boot = "safe" /\ runOnce = selected
  /\ logon' = FALSE
  /\ Goto(p, "phase2")
  /\ user' = [user EXCEPT ![p] = u]
  /\ exe' = [exe EXCEPT ![p] = runOnce]
  /\ logonProc' = p
  /\ Load(p)
  /\ UNCHANGED <<boot, safeboot, runOnce, run, selected, published, disk, capture>>

LogonWithoutHandoff ==
  /\ logon /\ ~(runOnce # None /\ boot = "safe" /\ runOnce = selected)
  /\ logon' = FALSE
  /\ runOnce' \in {runOnce, None}
  /\ UNCHANGED <<boot, safeboot, run, selected, published, disk, procs>>

-----------------------------------------------------------------------------
(* optimize *)

OptimizeAuthorized(p) ==
  /\ At(p, "optimize")
  /\ MigrationAllowed(mem[p].state)
  /\ AuthorizeOptimize(mem[p].state, mem[p].prog, user[p])
  /\ Goto(p, "phase1 engine")
  /\ Keep /\ UNCHANGED <<machine, disk, mem>>

EngineList(point) ==
  CASE point = "phase1 engine" -> PhaseOneSteps
    [] point = "phase2 engine" -> {DriverCleanupStep}
    [] point = "phase3 engine" -> PhaseThreeEngineSteps

(* One Engine row: whatever the Backend makes of it, the engine persists   *)
(* its own in-memory progress, under the suite lock.                       *)
EngineStep(p, s) ==
  /\ pc[p] \in EnginePoints
  /\ s \in EngineList(pc[p]) \ Recorded(mem[p].prog)
  /\ lock = None
  /\ \E outcome \in Outcomes[s] :
       LET next == Record(mem[p].prog, s, outcome)
       IN  mem' = [mem EXCEPT ![p].prog = next] /\ progress' = next
  /\ Keep /\ UNCHANGED <<machine, state, history, removal, lock, pc>>

EngineDone(p) == EngineList(pc[p]) \subseteq Recorded(mem[p].prog)

(* The engine is done, the reloaded progress resolves Phase 1, and the     *)
(* user confirms P1:38.                                                    *)
PublishReady(p) ==
  /\ At(p, "phase1 engine") /\ EngineDone(p)
  /\ ResolvedPhaseOne(progress)
  /\ Goto(p, "publish")
  /\ Keep /\ UNCHANGED <<machine, disk, mem>>

Publish(p, g) ==
  /\ At(p, "publish")
  /\ g \notin published
  /\ \A q \in Procs : ~Retains(q)
  /\ selected' = g /\ published' = published \cup {g}
  /\ exe' = [exe EXCEPT ![p] = g]
  /\ Goto(p, "launch")
  /\ UNCHANGED <<boot, logon, safeboot, runOnce, run, disk, user, mem, capture, logonProc>>

(* The published executable is started elevated as boot-safe-mode, perhaps *)
(* with another account's token, while optimize waits for it.              *)
LaunchBootSafeMode(p, u) ==
  /\ At(p, "launch") /\ exe[p] = selected /\ boot = "normal"
  /\ Goto(p, "boot-safe-mode")
  /\ user' = [user EXCEPT ![p] = u]
  /\ Load(p)
  /\ UNCHANGED <<machine, disk, exe, capture, logonProc>>

-----------------------------------------------------------------------------
(* boot-safe-mode: arm_safe_mode_handoff *)

ArmAuthorized(p) ==
  /\ At(p, "boot-safe-mode")
  /\ AuthorizeArmSafeMode(mem[p].state, mem[p].prog)
  /\ Goto(p, "arm")
  /\ Keep /\ UNCHANGED <<machine, disk, mem>>

(* Altered: the token user is not recorded. *)
ArmTransactionWithoutSid(p) ==
  [stage |-> "phase1SafeModeArmed", sid |-> None, runtime |-> exe[p]]

ArmTransaction(p) == [stage |-> "phase1SafeModeArmed", sid |-> user[p], runtime |-> exe[p]]

(* Altered: the session is not re-examined under the lock. *)
ArmRunOnceUnchecked(p) ==
  /\ At(p, "arm") /\ lock = None
  /\ runOnce \in {None, exe[p]}
  /\ runOnce' = exe[p]
  /\ lock' = p /\ Load(p)
  /\ Goto(p, "arm safe boot")
  /\ Keep /\ UNCHANGED <<boot, logon, safeboot, run, selected, published,
                         state, progress, history, removal>>

ArmRunOnce(p) ==
  /\ At(p, "arm") /\ lock = None
  /\ state.txn \in {None, ArmTransaction(p)}
  /\ runOnce \in {None, exe[p]}
  /\ runOnce' = exe[p]
  /\ lock' = p /\ Load(p)
  /\ Goto(p, "arm safe boot")
  /\ Keep /\ UNCHANGED <<boot, logon, safeboot, run, selected, published,
                         state, progress, history, removal>>

ArmSafeBoot(p) ==
  /\ At(p, "arm safe boot")
  /\ safeboot' = TRUE
  /\ Goto(p, "arm state")
  /\ Keep /\ UNCHANGED <<boot, logon, runOnce, run, selected, published, disk, mem>>

(* persist_state_readback: the whole in-memory state replaces state.json. *)
PersistState(p, next) ==
  /\ mem' = [mem EXCEPT ![p].state = next]
  /\ state' = next
  /\ Keep /\ UNCHANGED <<machine, progress, history, removal, lock>>

(* persist_progress_readback, the last write before the lock is dropped. *)
PersistProgress(p, s) ==
  /\ progress' = Complete(mem[p].prog, s)
  /\ lock' = None
  /\ Keep /\ UNCHANGED <<machine, state, history, removal, mem>>

ArmState(p) ==
  /\ At(p, "arm state")
  /\ PersistState(p, [mem[p].state EXCEPT !.ready = TRUE, !.txn = ArmTransaction(p)])
  /\ Goto(p, "arm progress")

ArmProgress(p) ==
  /\ At(p, "arm progress")
  /\ PersistProgress(p, ArmSafeModeStep)
  /\ Goto(p, "exit")

-----------------------------------------------------------------------------
(* phase2 *)

PhaseTwoStepOneAuthorized(p) ==
  /\ At(p, "phase2")
  /\ AuthorizePhaseTwoStepOne(mem[p].state, mem[p].prog)
  /\ Goto(p, "clear safe boot")
  /\ Keep /\ UNCHANGED <<machine, disk, mem>>

RemainingPhaseTwoAuthorized(p) ==
  /\ At(p, "phase2")
  /\ AuthorizeRemainingPhaseTwo(mem[p].state, mem[p].prog)
  /\ Goto(p, "phase2 engine")
  /\ Keep /\ UNCHANGED <<machine, disk, mem>>

(* Altered: bcdedit's deletion is taken for granted. *)
ClearSafeBootUnverified(p) ==
  /\ At(p, "clear safe boot") /\ lock = None
  /\ RuntimeAndStage(state, exe[p], "phase1SafeModeArmed")
  /\ runOnce = exe[p]
  /\ safeboot' \in {safeboot, FALSE}
  /\ lock' = p /\ Load(p)
  /\ Goto(p, "clear state")
  /\ Keep /\ UNCHANGED <<boot, logon, runOnce, run, selected, published,
                         state, progress, history, removal>>

(* Altered: only the stage is compared, and the handoff only for presence. *)
ClearSafeBootAnyRuntime(p) ==
  /\ At(p, "clear safe boot") /\ lock = None
  /\ AuthorizedAt(state, "phase1SafeModeArmed")
  /\ safeboot' = FALSE
  /\ lock' = p /\ Load(p)
  /\ Goto(p, "clear state")
  /\ Keep /\ UNCHANGED <<boot, logon, runOnce, run, selected, published,
                         state, progress, history, removal>>

(* complete_phase_two_safe_boot_clear *)
ClearSafeBoot(p) ==
  /\ At(p, "clear safe boot") /\ lock = None
  /\ RuntimeAndStage(state, exe[p], "phase1SafeModeArmed")
  /\ runOnce = exe[p]
  /\ safeboot' = FALSE
  /\ lock' = p /\ Load(p)
  /\ Goto(p, "clear state")
  /\ Keep /\ UNCHANGED <<boot, logon, runOnce, run, selected, published,
                         state, progress, history, removal>>

(* Altered: progress is written before the state. *)
ClearStateProgressFirst(p) ==
  /\ At(p, "clear state")
  /\ progress' = Complete(mem[p].prog, ClearSafeBootStep)
  /\ Goto(p, "clear progress")
  /\ Keep /\ UNCHANGED <<machine, state, history, removal, lock, mem>>

ClearState(p) ==
  /\ At(p, "clear state")
  /\ PersistState(p, Advance(mem[p].state))
  /\ Goto(p, "clear progress")

ClearProgress(p) ==
  /\ At(p, "clear progress")
  /\ PersistProgress(p, ClearSafeBootStep)
  /\ Goto(p, "exit")

(* The Backend makes the P2:2 removal evidence durable. *)
RemovalEvidence(p) ==
  /\ At(p, "phase2 engine") /\ lock = None
  /\ DriverCleanupStep \notin Recorded(mem[p].prog)
  /\ removal' = TRUE
  /\ Keep /\ UNCHANGED <<machine, state, progress, history, lock, pc, mem>>

ArmPhaseThreeReady(p) ==
  /\ At(p, "phase2 engine") /\ EngineDone(p)
  /\ DriverCleanupStep \in progress.completed
  /\ Goto(p, "arm phase3")
  /\ Keep /\ UNCHANGED <<machine, disk, mem>>

(* Altered: the Run value goes to whoever runs Phase 2. *)
HandoffRunAnyUser(p) ==
  /\ At(p, "arm phase3") /\ lock = None
  /\ removal
  /\ DriverCleanupStep \in progress.completed
  /\ RuntimeAndStage(state, exe[p], "phase2SafeMode")
  /\ run[user[p]] \in {None, exe[p]}
  /\ run' = [run EXCEPT ![user[p]] = exe[p]]
  /\ lock' = p /\ Load(p)
  /\ Goto(p, "handoff state")
  /\ Keep /\ UNCHANGED <<boot, logon, safeboot, runOnce, selected, published,
                         state, progress, history, removal>>

(* Altered: the Run value is not read back. *)
HandoffRunUnverified(p) ==
  /\ At(p, "arm phase3") /\ lock = None
  /\ removal
  /\ DriverCleanupStep \in progress.completed
  /\ RuntimeAndStage(state, exe[p], "phase2SafeMode")
  /\ state.txn.sid = user[p]
  /\ run[user[p]] \in {None, exe[p]}
  /\ lock' = p /\ Load(p)
  /\ Goto(p, "handoff state")
  /\ Keep /\ UNCHANGED <<machine, state, progress, history, removal>>

(* arm_phase_three_handoff *)
HandoffRun(p) ==
  /\ At(p, "arm phase3") /\ lock = None
  /\ removal
  /\ DriverCleanupStep \in progress.completed
  /\ RuntimeAndStage(state, exe[p], "phase2SafeMode")
  /\ state.txn.sid = user[p]
  /\ run[user[p]] \in {None, exe[p]}
  /\ run' = [run EXCEPT ![user[p]] = exe[p]]
  /\ lock' = p /\ Load(p)
  /\ Goto(p, "handoff state")
  /\ Keep /\ UNCHANGED <<boot, logon, safeboot, runOnce, selected, published,
                         state, progress, history, removal>>

HandoffState(p) ==
  /\ At(p, "handoff state")
  /\ PersistState(p, Advance(mem[p].state))
  /\ Goto(p, "handoff progress")

HandoffProgress(p) ==
  /\ At(p, "handoff progress")
  /\ PersistProgress(p, ArmPhaseThreeStep)
  /\ Goto(p, "exit")

-----------------------------------------------------------------------------
(* phase3-handoff, phase3 *)

RelaunchAuthorized(p) ==
  /\ At(p, "phase3-handoff")
  /\ AuthorizePhaseThree(mem[p].state, mem[p].prog, user[p])
  /\ Goto(p, "relaunch")
  /\ Keep /\ UNCHANGED <<machine, disk, mem>>

(* relaunch_phase_three_handoff: phase3 is started elevated, perhaps with  *)
(* another account's token.                                                *)
Relaunch(p, u) ==
  /\ At(p, "relaunch") /\ lock = None
  /\ RuntimeAndStage(state, exe[p], "phase3Armed")
  /\ state.txn.sid = user[p]
  /\ ArmPhaseThreeStep \in progress.completed
  /\ run[user[p]] = exe[p]
  /\ Goto(p, "phase3")
  /\ user' = [user EXCEPT ![p] = u]
  /\ Load(p)
  /\ UNCHANGED <<machine, disk, exe, capture, logonProc>>

PhaseThreeAuthorized(p) ==
  /\ At(p, "phase3") /\ lock = None
  /\ NoReceiptEvidence(state, progress, history)
  /\ AuthorizePhaseThree(mem[p].state, mem[p].prog, user[p])
  /\ Goto(p, "phase3 engine")
  /\ Keep /\ UNCHANGED <<machine, disk, mem>>

(* A coherent receipt found before the engine clears with the session      *)
(* already loaded, one found after it reloads the session.                 *)
PhaseThreeCoherent(p) ==
  /\ \/ At(p, "phase3") /\ AuthorizeClearHandoff(mem[p].state, mem[p].prog, user[p])
     \/ At(p, "phase3 engine") /\ EngineDone(p) /\ AuthorizeClearHandoff(state, progress, user[p])
  /\ lock = None
  /\ Coherent(state, progress, history)
  /\ Goto(p, "clear handoff")
  /\ Keep /\ UNCHANGED <<machine, disk, mem>>

(* Altered: the bundle is not validated again under the lock. *)
ClearHandoffUnchecked(p) ==
  /\ At(p, "clear handoff") /\ lock = None
  /\ RuntimeAndStage(state, exe[p], "phase3Complete")
  /\ state.txn.sid = user[p]
  /\ run[user[p]] = exe[p]
  /\ run' = [run EXCEPT ![user[p]] = None]
  /\ Goto(p, "exit")
  /\ Keep /\ UNCHANGED <<boot, logon, safeboot, runOnce, selected, published, disk, mem>>

(* clear_phase_three_handoff *)
ClearHandoff(p) ==
  /\ At(p, "clear handoff") /\ lock = None
  /\ Coherent(state, progress, history)
  /\ RuntimeAndStage(state, exe[p], "phase3Complete")
  /\ state.txn.sid = user[p]
  /\ run[user[p]] = exe[p]
  /\ run' = [run EXCEPT ![user[p]] = None]
  /\ Goto(p, "exit")
  /\ Keep /\ UNCHANGED <<boot, logon, safeboot, runOnce, selected, published, disk, mem>>

-----------------------------------------------------------------------------
(* final-benchmark: persist_final_benchmark and reconcile_final_benchmark *)

BenchAuthorized(p) ==
  /\ At(p, "final-benchmark")
  /\ AuthorizeFinalBenchmark(mem[p].state, mem[p].prog, user[p])
  /\ Goto(p, "bench")
  /\ Keep /\ UNCHANGED <<machine, disk, mem>>

(* An exact retry of a completed benchmark writes nothing. *)
BenchComplete(p) ==
  /\ At(p, "bench") /\ lock = None
  /\ Coherent(state, progress, history)
  /\ state.receipt = capture[p]
  /\ Goto(p, "bench done")
  /\ Keep /\ UNCHANGED <<machine, disk, mem>>

(* Altered: a receipt already in the state is refused instead of reused. *)
ReconciledFreshOnly(c) ==
  /\ FinalBenchmarkStep \notin progress.completed \cup progress.skipped
  /\ history \in {None, c}
  /\ state.receipt = None /\ AuthorizedAt(state, "phase3Armed")
  /\ DriverInstallStep \in progress.completed
  /\ PhaseThreeResolved(progress)

(* A receipt prefix must carry this capture, and a receipt already in the  *)
(* state must have completed the stage.                                    *)
Reconciled(c) ==
  /\ FinalBenchmarkStep \notin progress.completed \cup progress.skipped
  /\ history \in {None, c}
  /\ \/ state.receipt = None /\ AuthorizedAt(state, "phase3Armed")
     \/ state.receipt = c /\ AuthorizedAt(state, "phase3Complete")
  /\ DriverInstallStep \in progress.completed
  /\ PhaseThreeResolved(progress)

BenchHistory(p) ==
  /\ At(p, "bench") /\ lock = None
  /\ Reconciled(capture[p])
  /\ history' = capture[p]
  /\ lock' = p /\ Load(p)
  /\ Goto(p, "bench state")
  /\ Keep /\ UNCHANGED <<machine, state, progress, removal>>

BenchState(p) ==
  /\ At(p, "bench state")
  /\ PersistState(p, IF mem[p].state.receipt = None
                       THEN [Advance(mem[p].state) EXCEPT !.receipt = capture[p]]
                       ELSE mem[p].state)
  /\ Goto(p, "bench progress")

BenchProgress(p) ==
  /\ At(p, "bench progress")
  /\ PersistProgress(p, FinalBenchmarkStep)
  /\ Goto(p, "bench done")

BenchClearAuthorized(p) ==
  /\ At(p, "bench done")
  /\ AuthorizeClearHandoff(state, progress, user[p])
  /\ Goto(p, "clear handoff")
  /\ Keep /\ UNCHANGED <<machine, disk, mem>>

-----------------------------------------------------------------------------
(* reset-progress: the reboot state is inspected before the lock is taken. *)

(* Altered: only the native evidence is inspected, not state.json. *)
ResetAuthorizedNativeOnly(p) ==
  /\ At(p, "reset-progress")
  /\ boot = "normal" /\ ~safeboot /\ runOnce = None /\ run[user[p]] = None
  /\ Goto(p, "reset")
  /\ Keep /\ UNCHANGED <<machine, disk, mem>>

ResetAuthorized(p) ==
  /\ At(p, "reset-progress")
  /\ boot = "normal" /\ ~safeboot /\ runOnce = None /\ run[user[p]] = None
  /\ ~state.ready /\ state.txn = None
  /\ Goto(p, "reset")
  /\ Keep /\ UNCHANGED <<machine, disk, mem>>

(* Altered: the suite lock is not taken. *)
ResetProgressUnlocked(p) ==
  /\ At(p, "reset")
  /\ progress' = EmptyProgress
  /\ Goto(p, "exit")
  /\ Keep /\ UNCHANGED <<machine, state, history, removal, lock, mem>>

ResetProgress(p) ==
  /\ At(p, "reset") /\ lock = None
  /\ progress' = EmptyProgress
  /\ Goto(p, "exit")
  /\ Keep /\ UNCHANGED <<machine, state, history, removal, lock, mem>>

-----------------------------------------------------------------------------
Init ==
  /\ boot = "normal" /\ logon = FALSE /\ safeboot = FALSE
  /\ runOnce = None /\ run = [u \in Users |-> None]
  /\ selected = None /\ published = {}
  /\ state = EmptyState /\ progress = EmptyProgress
  /\ history = None /\ removal = FALSE /\ lock = None
  /\ pc = [p \in Procs |-> "idle"]
  /\ user = [p \in Procs |-> None]
  /\ exe = [p \in Procs |-> None]
  /\ mem = [p \in Procs |-> EmptyMem]
  /\ capture = [p \in Procs |-> None]
  /\ logonProc = None

Arming(p) ==
  \/ ArmAuthorized(p) \/ ArmRunOnce(p) \/ ArmSafeBoot(p) \/ ArmState(p) \/ ArmProgress(p)

PhaseOne(p) ==
  \/ OptimizeAuthorized(p) \/ PublishReady(p)
  \/ \E g \in Generations : Publish(p, g)
  \/ \E u \in Users : LaunchBootSafeMode(p, u)
  \/ ResetAuthorized(p) \/ ResetProgress(p)

PhaseTwo(p) ==
  \/ PhaseTwoStepOneAuthorized(p) \/ ClearSafeBoot(p) \/ ClearState(p) \/ ClearProgress(p)
  \/ RemainingPhaseTwoAuthorized(p) \/ RemovalEvidence(p) \/ ArmPhaseThreeReady(p)
  \/ HandoffRun(p) \/ HandoffState(p) \/ HandoffProgress(p)

PhaseThree(p) ==
  \/ RelaunchAuthorized(p) \/ PhaseThreeAuthorized(p)
  \/ PhaseThreeCoherent(p) \/ ClearHandoff(p)
  \/ \E u \in Users : Relaunch(p, u)

Benchmark(p) ==
  \/ BenchAuthorized(p) \/ BenchComplete(p) \/ BenchHistory(p) \/ BenchState(p)
  \/ BenchProgress(p) \/ BenchClearAuthorized(p)

Work(p) ==
  \/ PhaseOne(p) \/ Arming(p) \/ PhaseTwo(p) \/ PhaseThree(p) \/ Benchmark(p)
  \/ \E s \in EngineSteps : EngineStep(p, s)

Next ==
  \/ \E p \in Procs : Work(p) \/ Exit(p)
  \/ \E p \in Procs, cmd \in Commands, u \in Users, c \in Captures : Start(p, cmd, u, c)
  \/ \E p \in Procs, u \in Users : LogonPhaseTwo(p, u)
  \/ LogonWithoutHandoff
  \/ Reboot

Spec == Init /\ [][Next]_vars

-----------------------------------------------------------------------------
(* Properties *)

Rank == [s \in Stages |->
           CASE s = "phase1SafeModeArmed" -> 1
             [] s = "phase2SafeMode" -> 2
             [] s = "phase3Armed" -> 3
             [] s = "phase3Complete" -> 4]

(* How far the persisted transaction has come; 0 before it exists. *)
StageRank(st) == IF st.txn = None THEN 0 ELSE Rank[st.txn.stage]

(* Progress is the last file of every checkpoint: whatever crash, retry or *)
(* concurrent command came before, a handoff row that progress.json marks  *)
(* completed is backed by the state.json stage (and, for P3:13, by the     *)
(* receipt and its history record) written before it.                      *)
CheckpointOrder ==
  /\ ArmSafeModeStep \in progress.completed => state.ready /\ StageRank(state) >= 1
  /\ ClearSafeBootStep \in progress.completed => StageRank(state) >= 2
  /\ ArmPhaseThreeStep \in progress.completed => StageRank(state) >= 3
  /\ FinalBenchmarkStep \in progress.completed =>
       StageRank(state) = 4 /\ state.receipt # None /\ history = state.receipt

(* Once P2:1 has recorded its stage the machine is never again configured  *)
(* to boot into Safe Mode: the value is gone before the stage is written,  *)
(* and no boot-safe-mode authorized earlier can still set it.              *)
SafeBootReleased == StageRank(state) >= 2 => ~safeboot

(* A Phase 3 Run value exists only in the initiating user's hive, starts   *)
(* only the transaction's runtime, and only from Phase 2 on.               *)
RunBoundToTransaction ==
  \A u \in Users : run[u] # None =>
    StageRank(state) >= 2 /\ state.txn.sid = u /\ state.txn.runtime = run[u]

(* README: Phase 3 "clears the handoff only after coherent completion".    *)
(* From phase3Armed on the Run value is missing only when the receipt and  *)
(* its history record agree.                                               *)
HandoffRetained ==
  StageRank(state) >= 3 /\ run[state.txn.sid] = None =>
    StageRank(state) = 4 /\ state.receipt # None /\ history = state.receipt

LatePoints == {"clear state", "clear progress", "phase2 engine", "arm phase3",
               "handoff state", "handoff progress", "relaunch", "phase3 engine",
               "bench", "bench state", "bench progress", "bench done", "clear handoff"}
BoundUserPoints == {"handoff state", "handoff progress", "relaunch", "phase3 engine",
                    "bench", "bench state", "bench progress", "bench done",
                    "clear handoff"}

(* All Phase 2 and Phase 3 work runs from the executable the transaction   *)
(* was armed with, and all Phase 3 work under the initiating user.  The    *)
(* guards compare only with the selected generation, which an optimize     *)
(* started before arming may still replace.                                *)
LateWorkBound ==
  \A p \in Procs :
    /\ pc[p] \in LatePoints => state.txn # None /\ exe[p] = state.txn.runtime
    /\ pc[p] \in BoundUserPoints => user[p] = state.txn.sid

(* The session a checkpoint writes back is the one on disk: no other       *)
(* process can have written state.json or progress.json since it was read. *)
LockedSessionCurrent ==
  \A p \in Procs : pc[p] \in LockedPoints => lock = p /\ mem[p] = Session

(* A transaction is armed once, keeps its user and its runtime for ever,   *)
(* and its stage only ever moves one edge forward.                         *)
TransactionStep ==
  \/ state'.txn = state.txn
  \/ state.txn = None /\ state'.txn # None /\ state'.txn.stage = "phase1SafeModeArmed"
  \/ /\ state.txn # None /\ state'.txn # None
     /\ [state'.txn EXCEPT !.stage = state.txn.stage] = state.txn
     /\ StageRank(state') = StageRank(state) + 1
TransactionMonotone == [][TransactionStep]_vars

(* The Run value is deleted only while the persisted bundle is coherent. *)
ClearStep ==
  \A u \in Users : run[u] # None /\ run'[u] = None => Coherent(state, progress, history)
ClearedOnlyWhenCoherent == [][ClearStep]_vars

HandoffMarkers == {ArmSafeModeStep, ClearSafeBootStep, ArmPhaseThreeStep, FinalBenchmarkStep}

(* Without a second process, no command ever takes back a completed        *)
(* handoff row: not reset-progress, and not an engine run persisting its   *)
(* in-memory progress.                                                     *)
MarkerStep == HandoffMarkers \cap progress.completed \subseteq progress'.completed
MarkersKept == [][MarkerStep]_vars

-----------------------------------------------------------------------------
(* The inductive invariant behind these properties, process by process and *)
(* then for the machine.                                                   *)

(* Who runs a command, and with what. *)
RuntimePoints == Points \ {"idle", "optimize", "phase1 engine", "publish",
                           "reset-progress", "reset", "exit"}
CapturePoints == {"final-benchmark", "bench", "bench state"}
Equipped(p) ==
  /\ pc[p] # "idle" => user[p] \in Users /\ ~logon
  /\ pc[p] \in RuntimePoints => exe[p] # None
  /\ pc[p] \in CapturePoints => capture[p] # None

(* A retained runtime is the selected one.  A command in Phase 1 can still *)
(* replace it, but runs only in the normal boot before Phase 2.            *)
RuntimeKept(p) ==
  /\ Retains(p) => exe[p] = selected
  /\ pc[p] \in {"phase1 engine", "publish"} => boot = "normal" /\ StageRank(state) < 2
  /\ pc[p] \in {"clear safe boot", "clear state"} => boot = "safe"

(* A handoff row is completed in pr only when its stage is on disk. *)
Backed(pr) ==
  /\ ArmSafeModeStep \in pr.completed => state.ready /\ StageRank(state) >= 1
  /\ ClearSafeBootStep \in pr.completed => StageRank(state) >= 2
  /\ ArmPhaseThreeStep \in pr.completed => StageRank(state) >= 3
  /\ FinalBenchmarkStep \in pr.completed => StageRank(state) = 4

(* A session, however old, is never ahead of the disk. *)
SessionBehind(p) ==
  /\ StageRank(mem[p].state) <= StageRank(state)
  /\ Backed(mem[p].prog)

(* What each checkpoint relies on between two of its writes. *)
CheckpointReady(p) ==
  /\ pc[p] \in {"arm safe boot", "arm state"} => state.txn \in {None, ArmTransaction(p)}
  /\ pc[p] = "arm progress" => state.ready /\ StageRank(state) >= 1
  /\ pc[p] = "clear state" => StageRank(state) = 1 /\ ~safeboot
  /\ pc[p] = "clear progress" => StageRank(state) >= 2
  /\ pc[p] = "handoff state" => StageRank(state) = 2 /\ run[user[p]] # None
  /\ pc[p] = "handoff progress" => StageRank(state) >= 3
  /\ pc[p] = "bench state" =>
       /\ history = capture[p]
       /\ \/ state.receipt = None /\ StageRank(state) = 3
          \/ state.receipt = capture[p] /\ StageRank(state) = 4
  /\ pc[p] = "bench progress" => StageRank(state) = 4

LateBound(p) ==
  /\ pc[p] \in LatePoints => state.txn # None /\ exe[p] = state.txn.runtime
  /\ pc[p] \in BoundUserPoints => user[p] = state.txn.sid

SessionHeld(p) == pc[p] \in LockedPoints => lock = p /\ mem[p] = Session

ProcessInv(p) ==
  /\ Equipped(p) /\ RuntimeKept(p) /\ SessionBehind(p)
  /\ CheckpointReady(p) /\ LateBound(p) /\ SessionHeld(p)

(* From Phase 2 on no other runtime can be selected. *)
RuntimeSettled == StageRank(state) >= 2 => selected = state.txn.runtime

(* The receipt completes the last stage, and its record precedes it. *)
ReceiptRecorded ==
  /\ StageRank(state) = 4 <=> state.receipt # None
  /\ state.receipt # None => history = state.receipt

RunKept == StageRank(state) = 3 => run[state.txn.sid] # None

HandoffInv ==
  /\ TypeOK
  /\ \A p \in Procs : ProcessInv(p)
  /\ RuntimeSettled /\ ReceiptRecorded /\ RunKept
  /\ Backed(progress) /\ SafeBootReleased /\ RunBoundToTransaction

(* Without a second process: an engine run, and the command that is about  *)
(* to start one, holds the progress on disk, and reset-progress goes ahead *)
(* only while there is no transaction.                                     *)
LoneSession(p) ==
  /\ pc[p] \in EnginePoints \cup {"optimize", "phase2", "phase3"} => mem[p].prog = progress
  /\ pc[p] = "reset" => state.txn = None
LoneInv == \A p \in Procs : LoneSession(p)

-----------------------------------------------------------------------------
(* What the workflow as a whole promises: every step of every process is a *)
(* step of the abstract transaction, or changes nothing of it.             *)
Protocol == INSTANCE RebootProtocol WITH
  owner <- IF state.txn = None THEN None
           ELSE [sid |-> state.txn.sid, runtime |-> state.txn.runtime],
  stage <- StageRank(state),
  handoff <- state.txn # None /\ run[state.txn.sid] # None

(* The stages are entered in order by one owner, the handoff is registered *)
(* before Phase 3 is entered and released after the benchmark is certified.*)
ImplementsProtocol == Protocol!ProtocolSpec
=============================================================================
