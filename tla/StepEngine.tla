----------------------------- MODULE StepEngine -----------------------------
(***************************************************************************)
(* The step engine (frametime-domain/src/engine.rs) on the live backend    *)
(* (frametime-windows/src/backend/live.rs): how one catalogue row captures *)
(* what it is about to change, changes it, verifies it and is recorded,    *)
(* and how the recovery commands (backend/public.rs) undo it.              *)
(*                                                                         *)
(* Every durable write and every change of a Windows setting is a step of  *)
(* its own, so that a process may fail or be killed, and the machine may   *)
(* lose power, between any two of them.  Several engine runs and recovery  *)
(* commands may run at once; backup.lock is tried, never waited for.       *)
(***************************************************************************)
EXTENDS Naturals, WorkDir

CONSTANTS
  Procs,         \* process slots
  Steps,         \* the Engine rows of the run
  Order,         \* the position of each row in the catalogue
  Audited,       \* rows that need a manual recovery audit (P2:2, P3:1)
  Receipted,     \* rows that need a durable observation receipt (P1:18 to P1:22)
  Exact,         \* rows whose inspection compares the settings (else: always apply)
  CaptureBound,  \* rows verified only against the binding their capture retained
  AdvisoryRows,  \* rows whose inspection may answer Advisory
  Requires,      \* the row whose receipt a row demands (P3:2 of P1:21), or None
  Targets,       \* Windows settings the rows change
  RowTargets,    \* the settings of each row
  Values,        \* what a setting may hold
  Original,      \* what each setting held before the suite was ever run
  Desired,       \* what its row sets it to
  Bindings       \* what an observation of the hardware may show

Lossless == Steps \ (Audited \cup Receipted)

ASSUME ConstantsAssumption ==
  /\ {None, StaleLock} \cap Procs = {}
  /\ None \notin Steps \cup Values \cup Bindings
  /\ Audited \cup Receipted \cup Exact \cup CaptureBound \cup AdvisoryRows \subseteq Steps
  /\ Audited \cap Receipted = {}
  /\ Order \in [Steps -> Nat]
  /\ Requires \in [Steps -> Receipted \cup {None}]
  /\ RowTargets \in [Steps -> SUBSET Targets]
  /\ \A r, s \in Steps : r # s => RowTargets[r] \cap RowTargets[s] = {}
  /\ \A s \in Audited \cup Receipted : RowTargets[s] = {}
  /\ \A s \in Lossless \ Exact : RowTargets[s] # {}
  /\ Original \in [Targets -> Values]
  /\ Desired \in [Targets -> Values]

VARIABLES
  \* Windows.
  setting,    \* the value of each setting
  effect,     \* audited rows whose irreversible change has happened
  hardware,   \* what an observation would show now
  \* The protected work directory.
  backup,     \* backup.json: the retained value of each setting
  forgotten,  \* settings whose original was discarded with clear-backup
  pending,    \* audit.json: the number of pending audits of each audited row
  settled,    \* audit.json: the outcomes of its other audits
  evidence,   \* evidence.json: the receipt of each receipted row
  progress,   \* progress.json
  lock,       \* who holds backup.lock
  \* The processes.
  pc,
  row,        \* the row a run is at
  mem,        \* the progress in the engine's memory
  captured,   \* the values its capture retained
  seen,       \* the hardware its inspection saw
  file,       \* the evidence file it is about to write
  left,       \* the backup entries a restore has not tried yet
  restored    \* the backup entries it has restored

windows == <<setting, effect, hardware>>
disk == <<backup, forgotten, pending, settled, evidence, progress, lock>>
session == <<row, mem, captured, seen, file, left, restored>>
vars == <<windows, disk, pc, session>>

LosslessPoints == {"persist backup", "apply"}
AuditPoints == {"persist audit", "apply audit", "verify audit", "fail audit", "finalize audit"}
ReceiptPoints == {"load evidence", "write evidence", "read back", "verify evidence"}
Points == LosslessPoints \cup AuditPoints \cup ReceiptPoints \cup
          {"idle", "loop", "capture", "capture audit", "verify", "complete", "restore"}

NoCapture == [t \in Targets |-> None]
NoEvidence == [s \in Receipted |-> None]
EvidenceFiles == [Receipted -> Bindings \cup {None}]

TypeOK ==
  /\ setting \in [Targets -> Values]
  /\ effect \in SUBSET Audited
  /\ hardware \in Bindings
  /\ backup \in [Targets -> Values \cup {None}]
  /\ forgotten \in SUBSET Targets
  /\ pending \in [Audited -> Nat]
  /\ settled \in [Audited -> SUBSET {"failed", "finalized"}]
  /\ evidence \in EvidenceFiles
  /\ progress \in Progresses(Steps)
  /\ lock \in Procs \cup {None, StaleLock}
  /\ pc \in [Procs -> Points]
  /\ row \in [Procs -> Steps \cup {None}]
  /\ mem \in [Procs -> Progresses(Steps)]
  /\ captured \in [Procs -> [Targets -> Values \cup {None}]]
  /\ seen \in [Procs -> Bindings \cup {None}]
  /\ file \in [Procs -> EvidenceFiles]
  /\ left \in [Procs -> SUBSET Targets]
  /\ restored \in [Procs -> SUBSET Targets]

-----------------------------------------------------------------------------
Goto(p, point) == pc' = [pc EXCEPT ![p] = point]

(* The settings of a row hold what the row wants. *)
Satisfied(s) == \A t \in RowTargets[s] : setting[t] = Desired[t]

(* The first row of the list that is neither completed, skipped nor        *)
(* acknowledged in the engine's memory.                                    *)
NextRow(p, s) ==
  /\ pc[p] = "loop"
  /\ s \notin Recorded(mem[p])
  /\ \A r \in Steps : Order[r] < Order[s] => r \in Recorded(mem[p])

Start(p) ==
  /\ pc[p] = "idle"
  /\ mem' = [mem EXCEPT ![p] = progress]
  /\ Goto(p, "loop")
  /\ UNCHANGED <<windows, disk, row, captured, seen, file, left, restored>>

(* persist_progress: the whole in-memory progress replaces progress.json,  *)
(* under the row's own lock or a temporary one, and both are dropped.      *)
PersistProgress(p, next) ==
  /\ lock \in {p, None}
  /\ progress' = next
  /\ lock' = None
  /\ mem' = [mem EXCEPT ![p] = next]
  /\ row' = [row EXCEPT ![p] = None]
  /\ captured' = [captured EXCEPT ![p] = NoCapture]
  /\ seen' = [seen EXCEPT ![p] = None]
  /\ file' = [file EXCEPT ![p] = NoEvidence]
  /\ Goto(p, "loop")
  /\ UNCHANGED <<windows, backup, forgotten, pending, settled, evidence, left, restored>>

(* The policy or the user declines the row, or the row is inapplicable. *)
RecordSkip(p, s) == NextRow(p, s) /\ PersistProgress(p, Skip(mem[p], s))

RecordAdvisory(p, s) ==
  /\ NextRow(p, s) /\ s \in AdvisoryRows
  /\ PersistProgress(p, AcknowledgeAdvisory(mem[p], s))

(* inspect, and the branch run_live_step takes on its answer.  A row that  *)
(* requires a preparation demands that its receipt still describes the     *)
(* hardware.                                                               *)
Inspect(p, s) ==
  /\ NextRow(p, s)
  /\ Requires[s] # None => evidence[Requires[s]] = hardware
  /\ row' = [row EXCEPT ![p] = s]
  /\ seen' = [seen EXCEPT ![p] = hardware]
  /\ \/ s \in Receipted /\ Goto(p, "load evidence")
     \/ s \in Audited /\ Goto(p, "capture audit")
     \/ s \in Lossless /\ Goto(p, IF s \in Exact /\ Satisfied(s) THEN "verify" ELSE "capture")
  /\ UNCHANGED <<windows, disk, mem, captured, file, left, restored>>

-----------------------------------------------------------------------------
(* run_lossless_operation *)

(* Altered: a row whose entry is already retained is refused. *)
CaptureFreshOnly(p) ==
  /\ pc[p] = "capture" /\ lock = None
  /\ \A t \in RowTargets[row[p]] : backup[t] = None
  /\ lock' = p
  /\ captured' = [captured EXCEPT ![p] =
                    [t \in Targets |-> IF t \in RowTargets[row[p]] THEN setting[t] ELSE None]]
  /\ Goto(p, "persist backup")
  /\ UNCHANGED <<windows, backup, forgotten, pending, settled, evidence, progress,
                 row, mem, seen, file, left, restored>>

(* capture_backups takes the lock that apply, verify and persist_progress  *)
(* go on to use.                                                           *)
Capture(p) ==
  /\ pc[p] = "capture" /\ lock = None
  /\ lock' = p
  /\ captured' = [captured EXCEPT ![p] =
                    [t \in Targets |-> IF t \in RowTargets[row[p]] THEN setting[t] ELSE None]]
  /\ Goto(p, "persist backup")
  /\ UNCHANGED <<windows, backup, forgotten, pending, settled, evidence, progress,
                 row, mem, seen, file, left, restored>>

(* Altered: the newest value replaces the one the file has. *)
PersistBackupsLastValue(p) ==
  /\ pc[p] = "persist backup"
  /\ backup' = [t \in Targets |-> IF captured[p][t] = None THEN backup[t] ELSE captured[p][t]]
  /\ Goto(p, "apply")
  /\ UNCHANGED <<windows, forgotten, pending, settled, evidence, progress, lock, session>>

(* push_first_value: an entry the file already has is never replaced. *)
PersistBackups(p) ==
  /\ pc[p] = "persist backup"
  /\ backup' = [t \in Targets |-> IF backup[t] = None THEN captured[p][t] ELSE backup[t]]
  /\ Goto(p, "apply")
  /\ UNCHANGED <<windows, forgotten, pending, settled, evidence, progress, lock, session>>

Apply(p, t) ==
  /\ pc[p] = "apply"
  /\ t \in RowTargets[row[p]] /\ setting[t] # Desired[t]
  /\ setting' = [setting EXCEPT ![t] = Desired[t]]
  /\ UNCHANGED <<effect, hardware, disk, pc, session>>

(* Every write was accepted; whether it took effect is for verify to say. *)
Applied(p) ==
  /\ pc[p] = "apply"
  /\ Goto(p, "verify")
  /\ UNCHANGED <<windows, disk, session>>

(* Altered: the row is not read back. *)
VerifyNothing(p) ==
  /\ pc[p] = "verify"
  /\ Goto(p, "complete")
  /\ UNCHANGED <<windows, disk, session>>

(* The row's exact read-back.  Some rows compare with the binding that     *)
(* capture retained, whatever their inspection said.                       *)
Verify(p) ==
  /\ pc[p] = "verify"
  /\ Satisfied(row[p])
  /\ row[p] \in CaptureBound => captured[p] # NoCapture
  /\ Goto(p, "complete")
  /\ UNCHANGED <<windows, disk, session>>

CompleteRow(p) ==
  /\ pc[p] = "complete"
  /\ PersistProgress(p, Complete(mem[p], row[p]))

-----------------------------------------------------------------------------
(* run_pending_irreversible_audit *)

(* A pending audit of an interrupted run is taken over; more than one is   *)
(* ambiguous.                                                              *)
CaptureAudit(p) ==
  /\ pc[p] = "capture audit" /\ lock = None
  /\ pending[row[p]] <= 1
  /\ lock' = p
  /\ Goto(p, "persist audit")
  /\ UNCHANGED <<windows, backup, forgotten, pending, settled, evidence, progress, session>>

(* Altered: a retry appends a pending audit of its own. *)
PersistAuditAlways(p) ==
  /\ pc[p] = "persist audit"
  /\ pending' = [pending EXCEPT ![row[p]] = @ + 1]
  /\ Goto(p, "apply audit")
  /\ UNCHANGED <<windows, backup, forgotten, settled, evidence, progress, lock, session>>

PersistAudit(p) ==
  /\ pc[p] = "persist audit"
  /\ pending' = [pending EXCEPT ![row[p]] = IF @ = 0 THEN 1 ELSE @]
  /\ Goto(p, "apply audit")
  /\ UNCHANGED <<windows, backup, forgotten, settled, evidence, progress, lock, session>>

(* The driver operation succeeds, or fails with or without its effect. *)
ApplyAudited(p) ==
  /\ pc[p] = "apply audit"
  /\ \/ effect' = effect \cup {row[p]} /\ Goto(p, "verify audit")
     \/ effect' = effect \cup {row[p]} /\ Goto(p, "fail audit")
     \/ effect' = effect /\ Goto(p, "fail audit")
  /\ UNCHANGED <<setting, hardware, disk, session>>

VerifyAudited(p) ==
  /\ pc[p] = "verify audit"
  /\ row[p] \in effect
  /\ Goto(p, "finalize audit")
  /\ UNCHANGED <<windows, disk, session>>

(* A failed verification has already dropped the lock, so that the failed  *)
(* outcome is refused and the audit stays pending.                         *)
VerifyAuditedFails(p) ==
  /\ pc[p] = "verify audit"
  /\ lock' = None
  /\ Goto(p, "fail audit")
  /\ UNCHANGED <<windows, backup, forgotten, pending, settled, evidence, progress, session>>

(* replace_irreversible_audit, then the run ends with the apply error. *)
FailAudit(p) ==
  /\ pc[p] = "fail audit" /\ lock = p
  /\ pending[row[p]] = 1
  /\ pending' = [pending EXCEPT ![row[p]] = 0]
  /\ settled' = [settled EXCEPT ![row[p]] = @ \cup {"failed"}]
  /\ lock' = None
  /\ Goto(p, "idle")
  /\ row' = [row EXCEPT ![p] = None]
  /\ seen' = [seen EXCEPT ![p] = None]
  /\ mem' = [mem EXCEPT ![p] = EmptyProgress]
  /\ UNCHANGED <<windows, backup, forgotten, evidence, progress, captured, file, left, restored>>

FinalizeAudit(p) ==
  /\ pc[p] = "finalize audit" /\ lock = p
  /\ pending[row[p]] = 1
  /\ pending' = [pending EXCEPT ![row[p]] = 0]
  /\ settled' = [settled EXCEPT ![row[p]] = @ \cup {"finalized"}]
  /\ Goto(p, "complete")
  /\ UNCHANGED <<windows, backup, forgotten, evidence, progress, lock, session>>

-----------------------------------------------------------------------------
(* run_evidence_operation: evidence.json is read, changed and written      *)
(* without the suite lock.                                                 *)

(* Altered: the observation is verified without being persisted. *)
LoadEvidenceUnpersisted(p) ==
  /\ pc[p] = "load evidence"
  /\ Goto(p, "complete")
  /\ UNCHANGED <<windows, disk, session>>

LoadEvidence(p) ==
  /\ pc[p] = "load evidence"
  /\ file' = [file EXCEPT ![p] = [evidence EXCEPT ![row[p]] = seen[p]]]
  /\ Goto(p, "write evidence")
  /\ UNCHANGED <<windows, disk, row, mem, captured, seen, left, restored>>

WriteEvidence(p) ==
  /\ pc[p] = "write evidence"
  /\ evidence' = file[p]
  /\ Goto(p, "read back")
  /\ UNCHANGED <<windows, backup, forgotten, pending, settled, progress, lock, session>>

ReadBack(p) ==
  /\ pc[p] = "read back"
  /\ evidence = file[p]
  /\ Goto(p, "verify evidence")
  /\ UNCHANGED <<windows, disk, session>>

(* The persisted receipt is still the captured one and still true. *)
VerifyEvidence(p) ==
  /\ pc[p] = "verify evidence"
  /\ evidence[row[p]] = seen[p] /\ hardware = seen[p]
  /\ Goto(p, "complete")
  /\ UNCHANGED <<windows, disk, session>>

-----------------------------------------------------------------------------
(* Recovery commands: restore_matching, clear_backup, reset_progress. *)

(* Altered: rows without a retained entry are selected too. *)
StartRestoreAny(p, steps) ==
  /\ pc[p] = "idle" /\ lock = None
  /\ lock' = p
  /\ left' = [left EXCEPT ![p] = {t \in Targets : \E s \in steps : t \in RowTargets[s]}]
  /\ Goto(p, "restore")
  /\ UNCHANGED <<windows, backup, forgotten, pending, settled, evidence, progress,
                 row, mem, captured, seen, file, restored>>

(* All entries, or those of one row. *)
StartRestore(p, steps) ==
  /\ pc[p] = "idle" /\ lock = None
  /\ lock' = p
  /\ left' = [left EXCEPT ![p] =
                {t \in Targets : backup[t] # None /\ \E s \in steps : t \in RowTargets[s]}]
  /\ Goto(p, "restore")
  /\ UNCHANGED <<windows, backup, forgotten, pending, settled, evidence, progress,
                 row, mem, captured, seen, file, restored>>

RestoreEntry(p, t) ==
  /\ pc[p] = "restore" /\ t \in left[p]
  /\ setting' = [setting EXCEPT ![t] = backup[t]]
  /\ left' = [left EXCEPT ![p] = @ \ {t}]
  /\ restored' = [restored EXCEPT ![p] = @ \cup {t}]
  /\ UNCHANGED <<effect, hardware, disk, pc, row, mem, captured, seen, file>>

(* An entry that fails, before or after its write, is retained. *)
RestoreFails(p, t) ==
  /\ pc[p] = "restore" /\ t \in left[p]
  /\ setting' \in {setting, [setting EXCEPT ![t] = backup[t]]}
  /\ left' = [left EXCEPT ![p] = @ \ {t}]
  /\ UNCHANGED <<effect, hardware, disk, pc, row, mem, captured, seen, file, restored>>

(* Altered: failed entries are dropped with the restored ones. *)
CommitRestoreDropsFailed(p) ==
  /\ pc[p] = "restore" /\ left[p] = {}
  /\ backup' = NoCapture
  /\ restored' = [restored EXCEPT ![p] = {}]
  /\ lock' = None
  /\ Goto(p, "idle")
  /\ UNCHANGED <<windows, forgotten, pending, settled, evidence, progress,
                 row, mem, captured, seen, file, left>>

CommitRestore(p) ==
  /\ pc[p] = "restore" /\ left[p] = {}
  /\ backup' = [t \in Targets |-> IF t \in restored[p] THEN None ELSE backup[t]]
  /\ restored' = [restored EXCEPT ![p] = {}]
  /\ lock' = None
  /\ Goto(p, "idle")
  /\ UNCHANGED <<windows, forgotten, pending, settled, evidence, progress,
                 row, mem, captured, seen, file, left>>

ClearBackup ==
  /\ lock = None
  /\ backup' = NoCapture
  /\ forgotten' = forgotten \cup {t \in Targets : setting[t] # Original[t]}
  /\ UNCHANGED <<windows, pending, settled, evidence, progress, lock, pc, session>>

ResetProgress ==
  /\ lock = None
  /\ progress' = EmptyProgress
  /\ UNCHANGED <<windows, backup, forgotten, pending, settled, evidence, lock, pc, session>>

-----------------------------------------------------------------------------
(* A run or a recovery command ends: it is done, it was cancelled, one of  *)
(* its calls failed, or it was killed.  The lock goes with the process.    *)
Exit(p) ==
  /\ pc[p] # "idle"
  /\ Goto(p, "idle")
  /\ lock' = IF lock = p THEN None ELSE lock
  /\ row' = [row EXCEPT ![p] = None]
  /\ mem' = [mem EXCEPT ![p] = EmptyProgress]
  /\ captured' = [captured EXCEPT ![p] = NoCapture]
  /\ seen' = [seen EXCEPT ![p] = None]
  /\ file' = [file EXCEPT ![p] = NoEvidence]
  /\ left' = [left EXCEPT ![p] = {}]
  /\ restored' = [restored EXCEPT ![p] = {}]
  /\ UNCHANGED <<windows, backup, forgotten, pending, settled, evidence, progress>>

(* A row recorded without the capture lock takes the lock for that write,  *)
(* so that any process at work may leave the file behind.                  *)
PowerLoss ==
  /\ \E p \in Procs : pc[p] # "idle"
  /\ lock' \in LockAfterReboot(lock, TRUE)
  /\ pc' = [p \in Procs |-> "idle"]
  /\ row' = [p \in Procs |-> None]
  /\ mem' = [p \in Procs |-> EmptyProgress]
  /\ captured' = [p \in Procs |-> NoCapture]
  /\ seen' = [p \in Procs |-> None]
  /\ file' = [p \in Procs |-> NoEvidence]
  /\ left' = [p \in Procs |-> {}]
  /\ restored' = [p \in Procs |-> {}]
  /\ UNCHANGED <<windows, backup, forgotten, pending, settled, evidence, progress>>

HardwareChange ==
  /\ hardware' \in Bindings
  /\ UNCHANGED <<setting, effect, disk, pc, session>>

Init ==
  /\ setting = Original /\ effect = {} /\ hardware \in Bindings
  /\ backup = NoCapture /\ forgotten = {}
  /\ pending = [s \in Audited |-> 0] /\ settled = [s \in Audited |-> {}]
  /\ evidence = NoEvidence /\ progress = EmptyProgress /\ lock = None
  /\ pc = [p \in Procs |-> "idle"]
  /\ row = [p \in Procs |-> None]
  /\ mem = [p \in Procs |-> EmptyProgress]
  /\ captured = [p \in Procs |-> NoCapture]
  /\ seen = [p \in Procs |-> None]
  /\ file = [p \in Procs |-> NoEvidence]
  /\ left = [p \in Procs |-> {}]
  /\ restored = [p \in Procs |-> {}]

LosslessStep(p) ==
  \/ Capture(p) \/ PersistBackups(p) \/ Applied(p) \/ Verify(p) \/ CompleteRow(p)
  \/ \E t \in Targets : Apply(p, t)

AuditStep(p) ==
  \/ CaptureAudit(p) \/ PersistAudit(p) \/ ApplyAudited(p) \/ VerifyAudited(p)
  \/ VerifyAuditedFails(p) \/ FailAudit(p) \/ FinalizeAudit(p)

EvidenceStep(p) == LoadEvidence(p) \/ WriteEvidence(p) \/ ReadBack(p) \/ VerifyEvidence(p)

Run(p) ==
  \/ \E s \in Steps : Inspect(p, s) \/ RecordSkip(p, s) \/ RecordAdvisory(p, s)
  \/ LosslessStep(p) \/ AuditStep(p) \/ EvidenceStep(p)

Restore(p) ==
  \/ \E s \in Steps : StartRestore(p, {s})
  \/ StartRestore(p, Steps)
  \/ \E t \in Targets : RestoreEntry(p, t) \/ RestoreFails(p, t)
  \/ CommitRestore(p)

Next ==
  \/ \E p \in Procs : Start(p) \/ Run(p) \/ Restore(p) \/ Exit(p)
  \/ ClearBackup \/ ResetProgress \/ PowerLoss \/ HardwareChange

Spec == Init /\ [][Next]_vars

-----------------------------------------------------------------------------
(* Properties *)

(* A setting the suite has changed can be put back: backup.json still has  *)
(* the value the machine came with, through interrupted runs, repeated     *)
(* runs, failed and interrupted restores, unless the user discarded the    *)
(* recovery records while it was changed.                                  *)
Recoverable ==
  \A t \in Targets :
    setting[t] # Original[t] => backup[t] = Original[t] \/ t \in forgotten

(* A row that changed settings is recorded as completed only while they    *)
(* hold what it wants: no restore can come between its verification and    *)
(* its progress record.                                                    *)
VerifiedUnderLock ==
  \A p \in Procs :
    pc[p] = "complete" /\ lock = p /\ row[p] \in Lossless => Satisfied(row[p])

(* An irreversible change is never without a trace in audit.json, an       *)
(* interrupted one is retried under its own audit, and a completed row has *)
(* a finalized one.                                                        *)
AuditTrail ==
  \A s \in Audited :
    /\ pending[s] <= 1
    /\ s \in effect => pending[s] = 1 \/ settled[s] # {}
    /\ s \in progress.completed => "finalized" \in settled[s]

(* A completed preparation row has left the receipt that a later phase     *)
(* demands.                                                                *)
ReceiptDurable == \A s \in Receipted : s \in progress.completed => evidence[s] # None

(* A recovery record disappears only when its setting holds the recorded   *)
(* value again, or when the user discarded the records.                    *)
DropStep ==
  \A t \in Targets :
    backup[t] # None /\ backup'[t] = None => setting[t] = backup[t] \/ t \in forgotten'
DroppedOnlyWhenRestored == [][DropStep]_vars

-----------------------------------------------------------------------------
(* The inductive invariant behind these properties, process by process and *)
(* then for the machine.                                                   *)

(* What a process is at work on, and with what it was inspected. *)
RowKnown(p) ==
  /\ pc[p] \in LosslessPoints \cup {"capture", "verify"} => row[p] \in Lossless
  /\ pc[p] \in AuditPoints \cup {"capture audit"} => row[p] \in Audited
  /\ pc[p] \in ReceiptPoints => row[p] \in Receipted /\ seen[p] \in Bindings
  /\ pc[p] = "complete" => row[p] \in Steps
  /\ pc[p] # "restore" => left[p] = {} /\ restored[p] = {}

(* The points between taking the suite lock and giving it back. *)
LockedPoints == LosslessPoints \cup (AuditPoints \ {"fail audit"}) \cup {"restore"}
LockHeld(p) == pc[p] \in LockedPoints => lock = p

(* What a capture retained is what the settings still hold. *)
CaptureCurrent(p) ==
  pc[p] = "persist backup" =>
    \A t \in Targets : /\ captured[p][t] \in {None, setting[t]}
                       /\ t \in RowTargets[row[p]] => captured[p][t] = setting[t]

(* No setting is written before its value is retained. *)
ApplyCovered(p) == pc[p] = "apply" => \A t \in RowTargets[row[p]] : backup[t] # None

(* A restore works on entries the file has, and has put back the ones it   *)
(* is about to drop.                                                       *)
RestoreKnown(p) ==
  pc[p] = "restore" =>
    /\ \A t \in left[p] : backup[t] # None
    /\ \A t \in restored[p] : t \notin left[p] /\ backup[t] # None /\ setting[t] = backup[t]

(* A row that changed settings is about to be recorded with them in place. *)
VerifiedRow(p) ==
  pc[p] = "complete" /\ lock = p /\ row[p] \in Lossless => Satisfied(row[p])

(* Who may change an audit, and who may record its row. *)
AuditKnown(p) ==
  /\ pc[p] \in AuditPoints \ {"persist audit", "fail audit"} => pending[row[p]] = 1
  /\ pc[p] = "complete" /\ row[p] \in Audited => "finalized" \in settled[row[p]]
  /\ \A s \in Audited : s \in mem[p].completed => "finalized" \in settled[s]

ProcessInv(p) ==
  /\ RowKnown(p) /\ LockHeld(p) /\ CaptureCurrent(p) /\ ApplyCovered(p)
  /\ RestoreKnown(p) /\ VerifiedRow(p) /\ AuditKnown(p)

(* What is retained is the original. *)
BackupTrue == \A t \in Targets : backup[t] \in {None, Original[t]} \/ t \in forgotten

EngineInv ==
  /\ TypeOK
  /\ \A p \in Procs : ProcessInv(p)
  /\ BackupTrue /\ Recoverable /\ AuditTrail

(* What ReceiptDurable takes besides, as long as no other run shares       *)
(* evidence.json: the file about to be written has every receipt the old   *)
(* one had, and the row at work has its own before it is recorded.         *)
ReceiptKept(p) ==
  /\ \A s \in Receipted : s \in mem[p].completed => evidence[s] # None
  /\ pc[p] = "write evidence" =>
       \A s \in Receipted : s = row[p] \/ evidence[s] # None => file[p][s] # None
  /\ pc[p] \in {"read back", "verify evidence"} => evidence[row[p]] # None
  /\ pc[p] = "complete" /\ row[p] \in Receipted => evidence[row[p]] # None

ReceiptInv == ReceiptDurable /\ \A p \in Procs : ReceiptKept(p)
=============================================================================
