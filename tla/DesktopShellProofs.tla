------------------------- MODULE DesktopShellProofs -------------------------
(***************************************************************************)
(* Proofs about DesktopShell, for any number of operations.                *)
(*                                                                         *)
(* Closing looks at what the UI thread believes, once before it asks and   *)
(* not again after the answer.  DsInv is inductive: what the UI thread     *)
(* believes of a worker is true of it, nothing critical starts while a     *)
(* window asks whether it may close, and the elevated instance runs only   *)
(* while the one that started it is hidden, where it cannot be closed.     *)
(***************************************************************************)
EXTENDS DesktopShell, TLAPS

-----------------------------------------------------------------------------
(* The parts of the invariant that belong to one instance. *)
InstanceInv(i) ==
  /\ WorkerKnown(i) /\ QuestionHolds(i)
  /\ dsWindow[i] = "closed" => ~(dsWorker[i].phase = "running" /\ dsWorker[i].elevation)

LEMMA ByInstance ==
  DsTypeOK /\ AdminWatched /\ (\A i \in Instances : InstanceInv(i)) => DsInv
<1>1. AdminWatched => (dsWindow["admin"] \in {"shown", "hidden"} => dsWindow["user"] # "closed")
  BY DEF AdminWatched
<1> QED BY <1>1 DEF DsInv, InstanceInv, DesktopClosesSafely

LEMMA ByInstanceNext ==
  (DsTypeOK /\ AdminWatched /\ (\A i \in Instances : InstanceInv(i)))' => DsInv'
BY ByInstance, PTL

(* A step that leaves an instance alone. *)
DsSame(i) ==
  /\ dsWindow'[i] = dsWindow[i] /\ dsModal'[i] = dsModal[i]
  /\ dsWorker'[i] = dsWorker[i] /\ dsNative'[i] = dsNative[i]

LEMMA DsFrame ==
  ASSUME NEW i \in Instances, InstanceInv(i), DsSame(i)
  PROVE  InstanceInv(i)'
BY DEF InstanceInv, WorkerKnown, QuestionHolds, DsSame

LEMMA DsKnown ==
  ASSUME DsInv, NEW i \in Instances
  PROVE  DsTypeOK /\ AdminWatched /\ InstanceInv(i)
BY DEF DsInv, InstanceInv, DesktopClosesSafely

LEMMA DsStepOf ==
  ASSUME DsInv, NEW i \in Instances, DsTypeOK', AdminWatched', InstanceInv(i)',
         \A j \in Instances \ {i} : DsSame(j)
  PROVE  DsInv'
<1>1. ASSUME NEW j \in Instances PROVE InstanceInv(j)'
  <2>1. CASE j # i
    BY <2>1, DsFrame, DsKnown
  <2> QED BY <2>1
<1> QED BY <1>1, ByInstanceNext

(* A question that is on the screen. *)
LEMMA AQuestion ==
  /\ NoModal \in Modals /\ NoModal.kind = "none"
  /\ \A m \in Modals : m.kind # "none" => m # NoModal /\ m.elevation \in BOOLEAN
  /\ \A kind \in {"close", "network", "recovery"}, elevation \in BOOLEAN :
       /\ [kind |-> kind, elevation |-> elevation] \in Modals
       /\ [kind |-> kind, elevation |-> elevation].kind = kind
BY DEF Modals, NoModal

(* A window that is shown is watched by nobody, and so there is no         *)
(* elevated instance beside the one the user opened.                       *)
LEMMA Alone ==
  ASSUME DsInv, dsWindow["user"] = "shown"
  PROVE  ~dsWatchdog /\ dsWindow["admin"] \notin {"shown", "hidden"}
BY DEF DsInv, AdminWatched, DsTypeOK

-----------------------------------------------------------------------------
(* Starting. *)

LEMMA SpawnStep ==
  ASSUME DsInv, NEW i \in Instances, NEW kind \in {"diagnostic", "network", "recovery"},
         NEW critical \in BOOLEAN, Spawn(i, kind, critical), dsWindow[i] = "shown",
         dsModal' \in [Instances -> Modals], dsModal'[i] = NoModal,
         \A j \in Instances \ {i} : dsModal'[j] = dsModal[j]
  PROVE  DsInv'
<1> USE DEF Spawn
<1>1. dsStarted' \in 0 .. MaxOperations
  BY ShellAssumption DEF DsInv, DsTypeOK
<1>2. /\ dsWorker'[i] = [phase |-> "running", elevation |-> critical]
      /\ dsNative'[i] = [operation |-> kind, critical |-> critical]
      /\ \A j \in Instances \ {i} : DsSame(j)
  BY DEF DsInv, DsTypeOK, DsSame
<1>3. DsTypeOK'
  BY <1>1 DEF DsInv, DsTypeOK
<1>4. AdminWatched'
  BY DEF DsInv, AdminWatched
<1>5. InstanceInv(i)'
  BY <1>2, AQuestion DEF InstanceInv, WorkerKnown, QuestionHolds
<1> QED BY <1>2, <1>3, <1>4, <1>5, DsStepOf

(* The elevated instance begins with nothing, and the window hides. *)
LEMMA RelaunchStep ==
  ASSUME DsInv, relaunch_elevated, dsWindow["user"] = "shown",
         dsModal' \in [Instances -> Modals], dsModal'["user"] = NoModal,
         dsModal'["admin"] = dsModal["admin"]
  PROVE  DsInv'
<1> USE DEF relaunch_elevated
<1>1. dsStarted' \in 0 .. MaxOperations
  BY ShellAssumption DEF DsInv, DsTypeOK
<1>2. /\ dsWindow'["user"] = "hidden" /\ dsWindow'["admin"] = "shown"
      /\ dsWorker'["user"] = dsWorker["user"] /\ dsWorker'["admin"] = Idle
      /\ dsNative'["user"] = dsNative["user"] /\ dsNative'["admin"] = NoNative
  BY DEF DsInv, DsTypeOK, Instances
<1>3. DsTypeOK'
  <2>1. dsWindow' \in [Instances -> {"none", "shown", "hidden", "closed"}]
    BY DEF DsInv, DsTypeOK
  <2>2. dsArea' \in [Instances -> Areas] /\ dsTable' \in [Instances -> Areas]
    BY DEF DsInv, DsTypeOK, Areas
  <2>3. dsWorker' \in [Instances -> [phase : {"idle", "running", "sent", "lost"},
                                    elevation : BOOLEAN]]
    BY DEF DsInv, DsTypeOK, Idle
  <2>4. dsNative' \in [Instances -> [operation : {"none", "diagnostic", "network", "recovery"},
                                    critical : BOOLEAN]]
    BY DEF DsInv, DsTypeOK, NoNative
  <2> QED BY <1>1, <2>1, <2>2, <2>3, <2>4 DEF DsInv, DsTypeOK
<1>4. AdminWatched'
  BY <1>2 DEF AdminWatched
<1>5. InstanceInv("user")'
  BY <1>2, DsKnown, AQuestion DEF InstanceInv, WorkerKnown, QuestionHolds, Instances
<1>6. InstanceInv("admin")'
  <2>1. dsModal["admin"] = NoModal
    BY Alone, DsKnown DEF InstanceInv, QuestionHolds, Instances
  <2> QED BY <1>2, <2>1, AQuestion DEF InstanceInv, WorkerKnown, QuestionHolds, Idle
<1>7. \A i \in Instances : InstanceInv(i)'
  BY <1>5, <1>6 DEF Instances
<1> QED BY <1>3, <1>4, <1>7, ByInstanceNext

LEMMA RecoveryStarts ==
  ASSUME DsInv, NEW i \in Instances, NEW elevation \in BOOLEAN,
         start_native_recovery(i, elevation), dsWindow[i] = "shown",
         dsModal' \in [Instances -> Modals], dsModal'[i] = NoModal,
         \A j \in Instances \ {i} : dsModal'[j] = dsModal[j]
  PROVE  DsInv'
<1>1. CASE elevation /\ ~is_elevated(i)
  BY <1>1, RelaunchStep DEF start_native_recovery, is_elevated, Instances
<1>2. CASE ~(elevation /\ ~is_elevated(i))
  BY <1>2, SpawnStep DEF start_native_recovery
<1> QED BY <1>1, <1>2

LEMMA NetworkStarts ==
  ASSUME DsInv, NEW i \in Instances, start_network_apply(i), dsWindow[i] = "shown",
         dsModal' \in [Instances -> Modals], dsModal'[i] = NoModal,
         \A j \in Instances \ {i} : dsModal'[j] = dsModal[j]
  PROVE  DsInv'
<1>1. CASE is_elevated(i)
  BY <1>1, SpawnStep DEF start_network_apply
<1>2. CASE ~is_elevated(i)
  BY <1>2, RelaunchStep DEF start_network_apply, is_elevated, Instances
<1> QED BY <1>1, <1>2

-----------------------------------------------------------------------------
(* Questions and closing. *)

LEMMA AskStep ==
  ASSUME DsInv, NEW i \in Instances, NEW kind \in {"close", "network", "recovery"},
         NEW elevation \in BOOLEAN, Ask(i, kind, elevation), Responsive(i),
         kind = "close" => ~dsNative[i].critical
  PROVE  DsInv'
<1> USE DEF Ask, Responsive
<1> DEFINE m == [kind |-> kind, elevation |-> elevation]
<1>1. m \in Modals /\ m.kind = kind
  BY AQuestion
<1>2. dsModal'[i] = m /\ \A j \in Instances \ {i} : DsSame(j)
  BY DEF DsInv, DsTypeOK, DsSame
<1>3. DsTypeOK'
  <2>1. dsModal' \in [Instances -> Modals]
    BY <1>1 DEF DsInv, DsTypeOK
  <2> QED BY <2>1 DEF DsInv, DsTypeOK
<1>4. AdminWatched'
  BY DEF DsInv, AdminWatched
<1>5. InstanceInv(i)'
  BY <1>1, <1>2, DsKnown DEF InstanceInv, WorkerKnown, QuestionHolds
<1> QED BY <1>2, <1>3, <1>4, <1>5, DsStepOf

(* The window goes: no elevated worker runs, and the elevated instance, if  *)
(* the window is not its own, does not run.                                *)
LEMMA DestroyStep ==
  ASSUME DsInv, NEW i \in Instances, Destroy(i), dsWindow[i] = "shown", ~dsNative[i].critical
  PROVE  DsInv'
<1> USE DEF Destroy
<1>1. /\ dsWindow'[i] = "closed" /\ dsModal'[i] = NoModal
      /\ dsWorker' = dsWorker /\ dsNative' = dsNative /\ dsWatchdog' = dsWatchdog
      /\ \A j \in Instances \ {i} : DsSame(j)
  BY DEF DsInv, DsTypeOK, DsSame
<1>2. DsTypeOK'
  BY AQuestion DEF DsInv, DsTypeOK
<1>3. AdminWatched'
  <2>1. CASE i = "user"
    BY <1>1, <2>1, Alone DEF AdminWatched, Instances, DsSame
  <2>2. CASE i = "admin"
    BY <1>1, <2>2, DsKnown DEF AdminWatched, Instances, DsSame
  <2> QED BY <2>1, <2>2 DEF Instances
<1>4. InstanceInv(i)'
  BY <1>1, DsKnown, AQuestion DEF InstanceInv, WorkerKnown, QuestionHolds
<1> QED BY <1>1, <1>2, <1>3, <1>4, DsStepOf

LEMMA CloseStep ==
  ASSUME DsInv, NEW i \in Instances, handle_close(i)
  PROVE  DsInv'
<1> USE DEF handle_close
<1>1. CASE is_running(i)
  BY <1>1, AskStep
<1>2. CASE ~is_running(i)
  BY <1>2, DestroyStep DEF Responsive
<1> QED BY <1>1, <1>2

(* The answer to a question that was asked some steps ago. *)
LEMMA YesStep ==
  ASSUME DsInv, NEW i \in Instances, answer_yes(i)
  PROVE  DsInv'
<1> USE DEF answer_yes
<1>1. /\ dsModal[i] \in Modals /\ dsModal[i].kind # "none"
      /\ dsModal[i] # NoModal /\ dsModal[i].elevation \in BOOLEAN
  <2>1. dsModal[i] \in Modals /\ dsModal[i].kind # "none"
    BY DEF DsInv, DsTypeOK
  <2> QED BY <2>1, AQuestion
<1>2. dsWindow[i] = "shown" /\ (dsModal[i].kind = "close" => ~dsNative[i].critical)
  BY <1>1, DsKnown DEF InstanceInv, QuestionHolds
<1>3. dsModal' = [dsModal EXCEPT ![i] = NoModal]
  BY DEF Destroy
<1>4. /\ dsModal' \in [Instances -> Modals] /\ dsModal'[i] = NoModal
      /\ \A j \in Instances \ {i} : dsModal'[j] = dsModal[j]
  BY <1>3, AQuestion DEF DsInv, DsTypeOK
<1>5. CASE dsModal[i].kind = "close" /\ Destroy(i)
  BY <1>2, <1>5, DestroyStep
<1>6. CASE dsModal[i].kind = "network" /\ start_network_apply(i)
  BY <1>2, <1>4, <1>6, NetworkStarts
<1>7. CASE dsModal[i].kind = "recovery" /\ start_native_recovery(i, dsModal[i].elevation)
  BY <1>1, <1>2, <1>4, <1>7, RecoveryStarts
<1> QED BY <1>5, <1>6, <1>7

LEMMA NoStep ==
  ASSUME DsInv, NEW i \in Instances, answer_no(i)
  PROVE  DsInv'
<1> USE DEF answer_no
<1>1. dsModal'[i] = NoModal /\ \A j \in Instances \ {i} : DsSame(j)
  BY DEF DsInv, DsTypeOK, DsSame
<1>2. DsTypeOK'
  BY AQuestion DEF DsInv, DsTypeOK
<1>3. AdminWatched'
  BY DEF DsInv, AdminWatched
<1>4. InstanceInv(i)'
  BY <1>1, DsKnown, AQuestion DEF InstanceInv, WorkerKnown, QuestionHolds
<1> QED BY <1>1, <1>2, <1>3, <1>4, DsStepOf

(* Every operation says whether it asks for administrator rights. *)
LEMMA OperationFields ==
  \A op \in AssessOperations \cup SetupOperations \cup BenchmarkOperations
             \cup NetworkOperations \cup Cs2CfgOperations \cup RecoveryOperations :
    op.elevation \in BOOLEAN
<1>1. \A op \in AssessOperations : op.elevation = FALSE
  BY DEF AssessOperations, Operation
<1>2. \A op \in SetupOperations : op.elevation = TRUE \/ op.elevation = FALSE
  BY DEF SetupOperations, Operation
<1>3. \A op \in BenchmarkOperations : op.elevation = FALSE
  BY DEF BenchmarkOperations, Operation
<1>4. \A op \in NetworkOperations \cup Cs2CfgOperations : op.elevation = TRUE
  BY DEF NetworkOperations, Cs2CfgOperations, Operation
<1>5. \A op \in RecoveryOperations : op.elevation = TRUE \/ op.elevation = FALSE
  BY DEF RecoveryOperations, Operation
<1> QED BY <1>1, <1>2, <1>3, <1>4, <1>5

(* The five buttons. *)
LEMMA ActStep ==
  ASSUME DsInv, NEW i \in Instances, launch_or_act(i)
  PROVE  DsInv'
<1>1. /\ Responsive(i)
      /\ \E op \in Operations(dsArea[i]) :
           \/ start_diagnostic(i) /\ UNCHANGED dsModal
           \/ Ask(i, "network", TRUE)
           \/ start_native_recovery(i, op.elevation) /\ UNCHANGED dsModal
           \/ Ask(i, "recovery", op.elevation)
  BY DEF launch_or_act
<1>2. \A area \in Areas : \A op \in Operations(area) : op.elevation \in BOOLEAN
  BY OperationFields DEF Areas, Operations
<1>3. dsArea[i] \in Areas /\ dsModal \in [Instances -> Modals]
  BY DEF DsInv, DsTypeOK
<1>4. PICK op \in Operations(dsArea[i]) :
        \/ start_diagnostic(i) /\ UNCHANGED dsModal
        \/ Ask(i, "network", TRUE)
        \/ start_native_recovery(i, op.elevation) /\ UNCHANGED dsModal
        \/ Ask(i, "recovery", op.elevation)
  BY <1>1
<1>5. op.elevation \in BOOLEAN
  BY <1>2, <1>3
<1>6. dsWindow[i] = "shown" /\ dsModal[i] = NoModal
  BY <1>1 DEF Responsive
<1>7. CASE start_diagnostic(i) /\ UNCHANGED dsModal
  BY <1>3, <1>6, <1>7, SpawnStep DEF start_diagnostic
<1>8. CASE Ask(i, "network", TRUE) \/ Ask(i, "recovery", op.elevation)
  BY <1>1, <1>5, <1>8, AskStep
<1>9. CASE start_native_recovery(i, op.elevation) /\ UNCHANGED dsModal
  BY <1>3, <1>5, <1>6, <1>9, RecoveryStarts
<1> QED BY <1>4, <1>7, <1>8, <1>9

-----------------------------------------------------------------------------
(* The table, the worker and the timer. *)

LEMMA TableStep ==
  ASSUME DsInv, DsTypeOK',
         UNCHANGED <<dsWindow, dsModal, dsWorker, dsNative, dsWatchdog>>
  PROVE  DsInv'
BY DEF DsInv, DesktopClosesSafely, AdminWatched, WorkerKnown, QuestionHolds

LEMMA WorkerStep ==
  ASSUME DsInv, NEW i \in Instances, worker_ends(i)
  PROVE  DsInv'
<1>1. PICK phase \in {"sent", "lost"} : dsWorker' = [dsWorker EXCEPT ![i].phase = phase]
  BY DEF worker_ends
<1>2. UNCHANGED <<dsWindow, dsArea, dsTable, dsModal, dsNative, dsWatchdog, dsPackage, dsStarted>>
      /\ dsWorker[i].phase = "running"
  BY DEF worker_ends
<1>3. /\ dsWorker'[i].phase = phase /\ dsWorker'[i].elevation = dsWorker[i].elevation
      /\ \A j \in Instances \ {i} : DsSame(j)
  BY <1>1, <1>2 DEF DsInv, DsTypeOK, DsSame
<1>4. DsTypeOK'
  <2>1. dsWorker' \in [Instances -> [phase : {"idle", "running", "sent", "lost"},
                                    elevation : BOOLEAN]]
    BY <1>1 DEF DsInv, DsTypeOK
  <2> QED BY <1>2, <2>1 DEF DsInv, DsTypeOK
<1>5. AdminWatched'
  BY <1>2 DEF DsInv, AdminWatched
<1>6. InstanceInv(i)'
  BY <1>2, <1>3, DsKnown DEF InstanceInv, WorkerKnown, QuestionHolds
<1> QED BY <1>3, <1>4, <1>5, <1>6, DsStepOf

LEMMA ResultStep ==
  ASSUME DsInv, NEW i \in Instances, take_native_result(i)
  PROVE  DsInv'
<1> USE DEF take_native_result
<1>1. /\ dsWorker'[i] = Idle /\ dsNative'[i] = NoNative
      /\ \A j \in Instances \ {i} : DsSame(j)
  BY DEF DsInv, DsTypeOK, DsSame
<1>2. DsTypeOK'
  <2>1. dsTable' \in [Instances -> Areas]
    <3>1. PICK area \in PresentedArea(dsNative[i].operation, dsWorker[i].phase) \cup {dsTable[i]} :
            dsTable' = [dsTable EXCEPT ![i] = area]
      OBVIOUS
    <3>2. area \in Areas
      BY DEF DsInv, DsTypeOK, PresentedArea, Areas
    <3> QED BY <3>1, <3>2 DEF DsInv, DsTypeOK
  <2>2. dsWorker' \in [Instances -> [phase : {"idle", "running", "sent", "lost"},
                                    elevation : BOOLEAN]]
    BY DEF DsInv, DsTypeOK, Idle
  <2>3. dsNative' \in [Instances -> [operation : {"none", "diagnostic", "network", "recovery"},
                                    critical : BOOLEAN]]
    BY DEF DsInv, DsTypeOK, NoNative
  <2> QED BY <2>1, <2>2, <2>3 DEF DsInv, DsTypeOK
<1>3. AdminWatched'
  BY DEF DsInv, AdminWatched
<1>4. InstanceInv(i)'
  <2>1. dsWorker'[i].phase = "idle" /\ ~dsNative'[i].critical
    BY <1>1 DEF Idle, NoNative
  <2>2. dsWindow' = dsWindow /\ dsModal' = dsModal
    OBVIOUS
  <2>3. dsModal[i] # NoModal => dsWindow[i] = "shown"
    BY DsKnown DEF InstanceInv, QuestionHolds
  <2> QED BY <2>1, <2>2, <2>3 DEF InstanceInv, WorkerKnown, QuestionHolds
<1> QED BY <1>1, <1>2, <1>3, <1>4, DsStepOf

(* The elevated instance has ended: the window returns. *)
LEMMA WatchdogStep ==
  ASSUME DsInv, poll_elevation_watchdog
  PROVE  DsInv'
<1> USE DEF poll_elevation_watchdog
<1>1. /\ dsWindow'["user"] = "shown" /\ dsWindow'["admin"] = "closed"
      /\ \A j \in Instances \ {"user"} : DsSame(j)
  BY DEF DsInv, DsTypeOK, DsSame, Instances
<1>2. DsTypeOK'
  BY DEF DsInv, DsTypeOK
<1>3. AdminWatched'
  BY <1>1 DEF AdminWatched
<1>4. InstanceInv("user")'
  BY <1>1, DsKnown DEF InstanceInv, WorkerKnown, QuestionHolds, Instances
<1> QED BY <1>1, <1>2, <1>3, <1>4, DsStepOf DEF Instances

-----------------------------------------------------------------------------
(* The invariant. *)

LEMMA DsInitially == DsInit => DsInv
<1> SUFFICES ASSUME DsInit PROVE DsInv
  OBVIOUS
<1>1. PICK authenticated \in BOOLEAN : DsStart(authenticated)
  BY DEF DsInit
<1> USE DEF DsStart
<1>2. 0 \in 0 .. MaxOperations
  BY ShellAssumption
<1>3. DsTypeOK
  BY <1>1, <1>2, AQuestion DEF DsTypeOK, Areas, Idle, NoNative
<1>4. AdminWatched /\ DesktopClosesSafely
  BY <1>1 DEF AdminWatched, DesktopClosesSafely, Instances, Idle
<1>5. \A i \in Instances : WorkerKnown(i) /\ QuestionHolds(i)
  BY <1>1, AQuestion DEF WorkerKnown, QuestionHolds, Idle
<1> QED BY <1>3, <1>4, <1>5 DEF DsInv

LEMMA DsInductive == DsInv /\ [DsNext]_dsVars => DsInv'
<1> SUFFICES ASSUME DsInv, [DsNext]_dsVars PROVE DsInv'
  OBVIOUS
<1>1. CASE poll_elevation_watchdog
  BY <1>1, WatchdogStep
<1>2. ASSUME NEW i \in Instances, NEW area \in Areas, update_area(i, area) PROVE DsInv'
  <2>1. DsTypeOK'
    BY <1>2 DEF update_area, DsInv, DsTypeOK
  <2> QED BY <1>2, <2>1, TableStep DEF update_area
<1>3. ASSUME NEW i \in Instances, refresh_area_data(i) PROVE DsInv'
  <2>1. DsTypeOK'
    BY <1>3 DEF refresh_area_data, DsInv, DsTypeOK
  <2> QED BY <1>3, <2>1, TableStep DEF refresh_area_data
<1>4. ASSUME NEW i \in Instances,
             \/ launch_or_act(i) \/ handle_close(i) \/ answer_no(i) \/ answer_yes(i)
             \/ worker_ends(i) \/ take_native_result(i)
      PROVE  DsInv'
  BY <1>4, ActStep, CloseStep, NoStep, YesStep, WorkerStep, ResultStep
<1>5. CASE UNCHANGED dsVars
  BY <1>5
     DEF dsVars, DsInv, DsTypeOK, DesktopClosesSafely, AdminWatched, WorkerKnown, QuestionHolds
<1> QED BY <1>1, <1>2, <1>3, <1>4, <1>5 DEF DsNext

(* What the UI thread believes of its worker is true, and the elevated     *)
(* instance is watched while it runs (app.rs).                             *)
THEOREM ShellInvariant == DsSpec => []DsInv
BY DsInitially, DsInductive, PTL DEF DsSpec

(* No window closes under a worker whose operation asked for administrator *)
(* rights, and the instance that holds the authenticated package outlives  *)
(* the elevated one (handle_close, start_native_recovery,                  *)
(* ElevationWatchdog).                                                     *)
THEOREM ClosesSafely == DsSpec => []DesktopClosesSafely
<1>1. DsInv => DesktopClosesSafely
  BY DEF DsInv
<1> QED BY <1>1, ShellInvariant, PTL
=============================================================================
