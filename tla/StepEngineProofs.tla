-------------------------- MODULE StepEngineProofs --------------------------
(***************************************************************************)
(* Proofs about StepEngine for any set of rows, settings and processes.    *)
(*                                                                         *)
(* EngineInv is inductive.  The argument is the suite lock: a step of one  *)
(* process leaves every other process's part of the invariant alone        *)
(* (Frame), because what another process relies on, it relies on under the *)
(* lock.  Each action then has a lemma with four steps: its types, the     *)
(* other processes, the process that moves, and the machine's part.        *)
(***************************************************************************)
EXTENDS StepEngine, TLAPS

USE DEF windows, disk, session, Goto
USE DEF LosslessPoints, AuditPoints, ReceiptPoints, LockedPoints

(* A step that leaves process q's own variables alone. *)
SameProcess(q) ==
  /\ pc'[q] = pc[q] /\ row'[q] = row[q] /\ mem'[q] = mem[q]
  /\ captured'[q] = captured[q] /\ seen'[q] = seen[q]
  /\ left'[q] = left[q] /\ restored'[q] = restored[q]

(* A step that changes nothing q has locked, neither takes nor gives q the *)
(* lock, and forgets no settled audit.                                     *)
SharedSafe(q) ==
  /\ lock = q => setting' = setting /\ backup' = backup /\ pending' = pending
  /\ lock = q <=> lock' = q
  /\ \A s \in Audited : settled[s] \subseteq settled'[s]

(* What process q relies on survives the steps of the others. *)
LEMMA Frame ==
  ASSUME NEW q \in Procs, ProcessInv(q), SameProcess(q), SharedSafe(q)
  PROVE  ProcessInv(q)'
<1>1. RowKnown(q)'
  BY DEF ProcessInv, RowKnown, SameProcess
<1>2. LockHeld(q)'
  BY DEF ProcessInv, LockHeld, SameProcess, SharedSafe
<1>3. CaptureCurrent(q)'
  BY DEF ProcessInv, LockHeld, CaptureCurrent, SameProcess, SharedSafe
<1>4. ApplyCovered(q)'
  BY DEF ProcessInv, LockHeld, ApplyCovered, SameProcess, SharedSafe
<1>5. RestoreKnown(q)'
  BY DEF ProcessInv, LockHeld, RestoreKnown, SameProcess, SharedSafe
<1>6. VerifiedRow(q)'
  BY DEF ProcessInv, VerifiedRow, Satisfied, SameProcess, SharedSafe
<1>7. AuditKnown(q)'
  BY DEF ProcessInv, RowKnown, LockHeld, AuditKnown, SameProcess, SharedSafe
<1> QED BY <1>1, <1>2, <1>3, <1>4, <1>5, <1>6, <1>7 DEF ProcessInv

(* Recording a row keeps the shape of progress.json, and only completing   *)
(* it adds to the completed rows.                                          *)
LEMMA ProgressRecorded ==
  ASSUME NEW pr \in Progresses(Steps), NEW s \in Steps
  PROVE  /\ Skip(pr, s) \in Progresses(Steps)
         /\ Skip(pr, s).completed \subseteq pr.completed
         /\ AcknowledgeAdvisory(pr, s) \in Progresses(Steps)
         /\ AcknowledgeAdvisory(pr, s).completed \subseteq pr.completed
         /\ Complete(pr, s) \in Progresses(Steps)
         /\ Complete(pr, s).completed = pr.completed \cup {s}
BY DEF Progresses, Skip, AcknowledgeAdvisory, Complete

(* A machine the suite has never run on satisfies the invariant. *)
LEMMA InitInv == Init => EngineInv
<1> SUFFICES ASSUME Init PROVE EngineInv
  OBVIOUS
<1>1. TypeOK
  BY ConstantsAssumption
     DEF Init, TypeOK, Points, NoCapture, NoEvidence, EvidenceFiles, Progresses, EmptyProgress
<1>2. ASSUME NEW p \in Procs PROVE ProcessInv(p)
  <2>1. /\ pc[p] = "idle" /\ left[p] = {} /\ restored[p] = {}
        /\ mem[p].completed = {}
    BY DEF Init, EmptyProgress
  <2> QED
    BY <2>1
       DEF ProcessInv, RowKnown, LockHeld, CaptureCurrent, ApplyCovered, RestoreKnown,
           VerifiedRow, AuditKnown
<1>3. BackupTrue /\ Recoverable
  BY DEF Init, BackupTrue, Recoverable, NoCapture
<1>4. AuditTrail
  BY DEF Init, AuditTrail, EmptyProgress
<1> QED BY <1>1, <1>2, <1>3, <1>4 DEF EngineInv

-----------------------------------------------------------------------------
(* The loop of run_with_control. *)

(* Starting a run only copies progress.json, whose audits are settled. *)
LEMMA StartStep ==
  ASSUME EngineInv, NEW p \in Procs, Start(p)
  PROVE  EngineInv'
<1>1. TypeOK'
  BY DEF EngineInv, TypeOK, Points, Start
<1>2. ASSUME NEW q \in Procs, q # p PROVE ProcessInv(q)'
  <2>1. SameProcess(q)
    BY <1>2 DEF EngineInv, TypeOK, SameProcess, Start
  <2>2. SharedSafe(q)
    BY <1>2, ConstantsAssumption
       DEF EngineInv, TypeOK, ProcessInv, LockHeld, SharedSafe, Start
  <2> QED BY <2>1, <2>2, Frame DEF EngineInv
<1>3. ProcessInv(p)'
  <2>1. /\ pc[p] = "idle"
        /\ pc'[p] = "loop"
        /\ mem'[p] = progress
        /\ UNCHANGED <<setting, backup, pending, settled, lock, row,
                       captured, seen, left, restored>>
    BY DEF EngineInv, TypeOK, Start
  <2>2. ProcessInv(p)
    BY DEF EngineInv
  <2>3. \A s \in Audited : s \in progress.completed => "finalized" \in settled[s]
    BY DEF EngineInv, AuditTrail
  <2> QED
    BY <2>1, <2>2, <2>3
       DEF ProcessInv, RowKnown, LockHeld, CaptureCurrent, ApplyCovered,
           RestoreKnown, VerifiedRow, AuditKnown
<1>4. BackupTrue' /\ Recoverable' /\ AuditTrail'
  BY DEF EngineInv, BackupTrue, Recoverable, AuditTrail, Start
<1> QED BY <1>1, <1>2, <1>3, <1>4 DEF EngineInv

(* persist_progress records only audited rows whose audit is finalized. *)
LEMMA PersistProgressStep ==
  ASSUME EngineInv, NEW p \in Procs, pc[p] \in {"loop", "complete"},
         NEW next \in Progresses(Steps), PersistProgress(p, next),
         \A s \in Audited : s \in next.completed => "finalized" \in settled[s]
  PROVE  EngineInv'
<1>1. TypeOK'
  BY ConstantsAssumption
     DEF EngineInv, TypeOK, Points, PersistProgress, NoCapture, NoEvidence, EvidenceFiles
<1>2. ASSUME NEW q \in Procs, q # p PROVE ProcessInv(q)'
  <2>1. SameProcess(q)
    BY <1>2 DEF EngineInv, TypeOK, SameProcess, PersistProgress
  <2>2. SharedSafe(q)
    BY <1>2, ConstantsAssumption DEF EngineInv, TypeOK, SharedSafe, PersistProgress
  <2> QED BY <2>1, <2>2, Frame DEF EngineInv
<1>3. ProcessInv(p)'
  <2>1. /\ pc'[p] = "loop" /\ mem'[p] = next /\ lock' = None
        /\ UNCHANGED <<settled, left, restored>>
    BY DEF EngineInv, TypeOK, PersistProgress
  <2>2. left[p] = {} /\ restored[p] = {}
    BY DEF EngineInv, ProcessInv, RowKnown
  <2> QED
    BY <2>1, <2>2
       DEF ProcessInv, RowKnown, LockHeld, CaptureCurrent, ApplyCovered, RestoreKnown,
           VerifiedRow, AuditKnown
<1>4. BackupTrue' /\ Recoverable'
  BY DEF EngineInv, BackupTrue, Recoverable, PersistProgress
<1>5. AuditTrail'
  BY DEF EngineInv, AuditTrail, PersistProgress
<1> QED BY <1>1, <1>2, <1>3, <1>4, <1>5 DEF EngineInv

(* Skipping or acknowledging a row completes no audited row. *)
LEMMA RecordStep ==
  ASSUME EngineInv, NEW p \in Procs, NEW s \in Steps,
         RecordSkip(p, s) \/ RecordAdvisory(p, s)
  PROVE  EngineInv'
<1>1. mem[p] \in Progresses(Steps)
  BY DEF EngineInv, TypeOK
<1>2. \A r \in Audited : r \in mem[p].completed => "finalized" \in settled[r]
  BY DEF EngineInv, ProcessInv, AuditKnown
<1>3. pc[p] = "loop"
  BY DEF RecordSkip, RecordAdvisory, NextRow
<1>4. CASE RecordSkip(p, s)
  <2>1. PersistProgress(p, Skip(mem[p], s))
    BY <1>4 DEF RecordSkip
  <2> QED BY <1>1, <1>2, <1>3, <2>1, ProgressRecorded, PersistProgressStep
<1>5. CASE RecordAdvisory(p, s)
  <2>1. PersistProgress(p, AcknowledgeAdvisory(mem[p], s))
    BY <1>5 DEF RecordAdvisory
  <2> QED BY <1>1, <1>2, <1>3, <2>1, ProgressRecorded, PersistProgressStep
<1> QED BY <1>4, <1>5

(* A row reaches its progress record with its audit, if any, finalized. *)
LEMMA CompleteRowStep ==
  ASSUME EngineInv, NEW p \in Procs, CompleteRow(p)
  PROVE  EngineInv'
<1>1. /\ pc[p] = "complete" /\ mem[p] \in Progresses(Steps) /\ row[p] \in Steps
      /\ PersistProgress(p, Complete(mem[p], row[p]))
  BY DEF EngineInv, TypeOK, ProcessInv, RowKnown, CompleteRow
<1>2. ASSUME NEW r \in Audited, r \in Complete(mem[p], row[p]).completed
      PROVE  "finalized" \in settled[r]
  <2>1. r \in mem[p].completed \/ r = row[p]
    BY <1>1, <1>2, ProgressRecorded
  <2> QED BY <1>1, <2>1 DEF EngineInv, ProcessInv, AuditKnown
<1> QED BY <1>1, <1>2, ProgressRecorded, PersistProgressStep

(* Inspection sends each row to the operation of its own kind. *)
LEMMA InspectStep ==
  ASSUME EngineInv, NEW p \in Procs, NEW s \in Steps, Inspect(p, s)
  PROVE  EngineInv'
<1>1. TypeOK'
  BY DEF EngineInv, TypeOK, Points, Inspect, NextRow
<1>2. ASSUME NEW q \in Procs, q # p PROVE ProcessInv(q)'
  <2>1. SameProcess(q)
    BY <1>2 DEF EngineInv, TypeOK, SameProcess, Inspect, NextRow
  <2>2. SharedSafe(q)
    BY <1>2, ConstantsAssumption
       DEF EngineInv, TypeOK, ProcessInv, LockHeld, SharedSafe, Inspect,
           NextRow
  <2> QED BY <2>1, <2>2, Frame DEF EngineInv
<1>3. ProcessInv(p)'
  <2>1. /\ pc[p] = "loop"
        /\ row'[p] = s
        /\ seen'[p] \in Bindings
        /\ \/ s \in Receipted /\ pc'[p] = "load evidence"
           \/ s \in Audited /\ pc'[p] = "capture audit"
           \/ s \in Lossless /\ pc'[p] = "verify"
           \/ s \in Lossless /\ pc'[p] = "capture"
        /\ UNCHANGED <<setting, backup, pending, settled, lock, mem,
                       captured, left, restored>>
    BY DEF EngineInv, TypeOK, Inspect, NextRow
  <2>2. ProcessInv(p)
    BY DEF EngineInv
  <2> QED
    BY <2>1, <2>2
       DEF ProcessInv, RowKnown, LockHeld, CaptureCurrent, ApplyCovered,
           RestoreKnown, VerifiedRow, AuditKnown
<1>4. BackupTrue' /\ Recoverable' /\ AuditTrail'
  BY DEF EngineInv, BackupTrue, Recoverable, AuditTrail, Inspect, NextRow
<1> QED BY <1>1, <1>2, <1>3, <1>4 DEF EngineInv

-----------------------------------------------------------------------------
(* run_lossless_operation *)

(* Capture takes the free lock: no other process is at a locked point. *)
LEMMA CaptureStep ==
  ASSUME EngineInv, NEW p \in Procs, Capture(p)
  PROVE  EngineInv'
<1>1. TypeOK'
  BY ConstantsAssumption DEF EngineInv, TypeOK, Points, Capture
<1>2. ASSUME NEW q \in Procs, q # p PROVE ProcessInv(q)'
  <2>1. SameProcess(q)
    BY <1>2 DEF EngineInv, TypeOK, SameProcess, Capture
  <2>2. SharedSafe(q)
    BY <1>2, ConstantsAssumption
       DEF EngineInv, TypeOK, ProcessInv, LockHeld, SharedSafe, Capture
  <2> QED BY <2>1, <2>2, Frame DEF EngineInv
<1>3. ProcessInv(p)'
  <2>1. /\ pc[p] = "capture"
        /\ pc'[p] = "persist backup"
        /\ lock' = p
        /\ \A t \in Targets : captured'[p][t] =
             IF t \in RowTargets[row[p]] THEN setting[t] ELSE None
        /\ UNCHANGED <<setting, backup, pending, settled, row, mem, seen,
                       left, restored>>
    BY DEF EngineInv, TypeOK, Capture
  <2>2. ProcessInv(p)
    BY DEF EngineInv
  <2> QED
    BY <2>1, <2>2
       DEF ProcessInv, RowKnown, LockHeld, CaptureCurrent, ApplyCovered,
           RestoreKnown, VerifiedRow, AuditKnown
<1>4. BackupTrue' /\ Recoverable' /\ AuditTrail'
  BY DEF EngineInv, BackupTrue, Recoverable, AuditTrail, Capture
<1> QED BY <1>1, <1>2, <1>3, <1>4 DEF EngineInv

(* First value wins: only originals or discarded values enter the file. *)
LEMMA PersistBackupsStep ==
  ASSUME EngineInv, NEW p \in Procs, PersistBackups(p)
  PROVE  EngineInv'
<1>1. TypeOK'
  <2>1. \A t \in Targets : captured[p][t] \in Values \cup {None}
    BY DEF EngineInv, TypeOK
  <2>2. backup' \in [Targets -> Values \cup {None}]
    BY <2>1 DEF EngineInv, TypeOK, PersistBackups
  <2> QED BY <2>2 DEF EngineInv, TypeOK, Points, PersistBackups
<1>2. ASSUME NEW q \in Procs, q # p PROVE ProcessInv(q)'
  <2>1. SameProcess(q)
    BY <1>2 DEF EngineInv, TypeOK, SameProcess, PersistBackups
  <2>2. SharedSafe(q)
    BY <1>2, ConstantsAssumption
       DEF EngineInv, TypeOK, ProcessInv, LockHeld, SharedSafe,
           PersistBackups
  <2> QED BY <2>1, <2>2, Frame DEF EngineInv
<1>3. ProcessInv(p)'
  <2>1. /\ pc[p] = "persist backup"
        /\ pc'[p] = "apply"
        /\ \A t \in Targets : backup'[t] =
             IF backup[t] = None THEN captured[p][t] ELSE backup[t]
        /\ UNCHANGED <<setting, pending, settled, lock, row, mem, captured,
                       seen, left, restored>>
    BY DEF EngineInv, TypeOK, PersistBackups
  <2>2. ProcessInv(p)
    BY DEF EngineInv
  <2>3. RowTargets[row[p]] \subseteq Targets /\ \A t \in Targets : setting[t] # None
    <3>1. row[p] \in Steps
      BY <2>1, <2>2 DEF ProcessInv, RowKnown, Lossless
    <3>2. RowTargets[row[p]] \subseteq Targets
      BY <3>1, ConstantsAssumption
    <3>3. \A t \in Targets : setting[t] # None
      BY ConstantsAssumption DEF EngineInv, TypeOK
    <3> QED BY <3>2, <3>3
  <2> QED
    BY <2>1, <2>2, <2>3
       DEF ProcessInv, RowKnown, LockHeld, CaptureCurrent, ApplyCovered,
           RestoreKnown, VerifiedRow, AuditKnown
<1>4. BackupTrue' /\ Recoverable' /\ AuditTrail'
  <2>1. \A t \in Targets : captured[p][t] \in {None, setting[t]}
    BY DEF EngineInv, ProcessInv, CaptureCurrent, PersistBackups
  <2>2. \A t \in Targets : Original[t] # None
    BY ConstantsAssumption
  <2>3. BackupTrue' /\ Recoverable'
    BY <2>1, <2>2 DEF EngineInv, BackupTrue, Recoverable, PersistBackups
  <2>4. AuditTrail'
    BY DEF EngineInv, AuditTrail, PersistBackups
  <2> QED BY <2>3, <2>4
<1> QED BY <1>1, <1>2, <1>3, <1>4 DEF EngineInv

(* A setting is written only after its value is in backup.json. *)
LEMMA ApplyStep ==
  ASSUME EngineInv, NEW p \in Procs, NEW t \in Targets, Apply(p, t)
  PROVE  EngineInv'
<1>1. TypeOK'
  BY ConstantsAssumption DEF EngineInv, TypeOK, Points, Apply
<1>2. ASSUME NEW q \in Procs, q # p PROVE ProcessInv(q)'
  <2>1. SameProcess(q)
    BY <1>2 DEF EngineInv, TypeOK, SameProcess, Apply
  <2>2. SharedSafe(q)
    BY <1>2, ConstantsAssumption
       DEF EngineInv, TypeOK, ProcessInv, LockHeld, SharedSafe, Apply
  <2> QED BY <2>1, <2>2, Frame DEF EngineInv
<1>3. ProcessInv(p)'
  <2>1. /\ pc[p] = "apply"
        /\ pc'[p] = "apply"
        /\ UNCHANGED <<backup, pending, settled, lock, row, mem, captured,
                       seen, left, restored>>
    BY DEF EngineInv, TypeOK, Apply
  <2>2. ProcessInv(p)
    BY DEF EngineInv
  <2> QED
    BY <2>1, <2>2
       DEF ProcessInv, RowKnown, LockHeld, CaptureCurrent, ApplyCovered,
           RestoreKnown, VerifiedRow, AuditKnown
<1>4. BackupTrue' /\ Recoverable' /\ AuditTrail'
  <2>1. backup[t] # None
    BY DEF EngineInv, ProcessInv, ApplyCovered, Apply
  <2>2. backup[t] = Original[t] \/ t \in forgotten
    BY <2>1 DEF EngineInv, BackupTrue
  <2>3. Recoverable'
    BY <2>2 DEF EngineInv, TypeOK, Recoverable, Apply
  <2> QED BY <2>3 DEF EngineInv, BackupTrue, AuditTrail, Apply
<1> QED BY <1>1, <1>2, <1>3, <1>4 DEF EngineInv

(* The end of apply changes nothing but the point the process is at. *)
LEMMA AppliedStep ==
  ASSUME EngineInv, NEW p \in Procs, Applied(p)
  PROVE  EngineInv'
<1>1. TypeOK'
  BY DEF EngineInv, TypeOK, Points, Applied
<1>2. ASSUME NEW q \in Procs, q # p PROVE ProcessInv(q)'
  <2>1. SameProcess(q)
    BY <1>2 DEF EngineInv, TypeOK, SameProcess, Applied
  <2>2. SharedSafe(q)
    BY <1>2, ConstantsAssumption
       DEF EngineInv, TypeOK, ProcessInv, LockHeld, SharedSafe, Applied
  <2> QED BY <2>1, <2>2, Frame DEF EngineInv
<1>3. ProcessInv(p)'
  <2>1. /\ pc[p] = "apply"
        /\ pc'[p] = "verify"
        /\ UNCHANGED <<setting, backup, pending, settled, lock, row, mem,
                       captured, seen, left, restored>>
    BY DEF EngineInv, TypeOK, Applied
  <2>2. ProcessInv(p)
    BY DEF EngineInv
  <2> QED
    BY <2>1, <2>2
       DEF ProcessInv, RowKnown, LockHeld, CaptureCurrent, ApplyCovered,
           RestoreKnown, VerifiedRow, AuditKnown
<1>4. BackupTrue' /\ Recoverable' /\ AuditTrail'
  BY DEF EngineInv, BackupTrue, Recoverable, AuditTrail, Applied
<1> QED BY <1>1, <1>2, <1>3, <1>4 DEF EngineInv

(* Verification passes only with the settings of the row in place. *)
LEMMA VerifyStep ==
  ASSUME EngineInv, NEW p \in Procs, Verify(p)
  PROVE  EngineInv'
<1>1. TypeOK'
  BY DEF EngineInv, TypeOK, Points, Verify
<1>2. ASSUME NEW q \in Procs, q # p PROVE ProcessInv(q)'
  <2>1. SameProcess(q)
    BY <1>2 DEF EngineInv, TypeOK, SameProcess, Verify
  <2>2. SharedSafe(q)
    BY <1>2, ConstantsAssumption
       DEF EngineInv, TypeOK, ProcessInv, LockHeld, SharedSafe, Verify
  <2> QED BY <2>1, <2>2, Frame DEF EngineInv
<1>3. ProcessInv(p)'
  <2>1. /\ pc[p] = "verify"
        /\ pc'[p] = "complete"
        /\ Satisfied(row[p])
        /\ UNCHANGED <<setting, backup, pending, settled, lock, row, mem,
                       captured, seen, left, restored>>
    BY DEF EngineInv, TypeOK, Verify
  <2>2. ProcessInv(p)
    BY DEF EngineInv
  <2> QED
    BY <2>1, <2>2, ConstantsAssumption
       DEF ProcessInv, RowKnown, LockHeld, CaptureCurrent, ApplyCovered,
           RestoreKnown, VerifiedRow, AuditKnown, Satisfied, Lossless
<1>4. BackupTrue' /\ Recoverable' /\ AuditTrail'
  BY DEF EngineInv, BackupTrue, Recoverable, AuditTrail, Verify
<1> QED BY <1>1, <1>2, <1>3, <1>4 DEF EngineInv

-----------------------------------------------------------------------------
(* run_pending_irreversible_audit *)

(* The audited operation takes the free lock as capture does. *)
LEMMA CaptureAuditStep ==
  ASSUME EngineInv, NEW p \in Procs, CaptureAudit(p)
  PROVE  EngineInv'
<1>1. TypeOK'
  BY DEF EngineInv, TypeOK, Points, CaptureAudit
<1>2. ASSUME NEW q \in Procs, q # p PROVE ProcessInv(q)'
  <2>1. SameProcess(q)
    BY <1>2 DEF EngineInv, TypeOK, SameProcess, CaptureAudit
  <2>2. SharedSafe(q)
    BY <1>2, ConstantsAssumption
       DEF EngineInv, TypeOK, ProcessInv, LockHeld, SharedSafe, CaptureAudit
  <2> QED BY <2>1, <2>2, Frame DEF EngineInv
<1>3. ProcessInv(p)'
  <2>1. /\ pc[p] = "capture audit"
        /\ pc'[p] = "persist audit"
        /\ lock' = p
        /\ UNCHANGED <<setting, backup, pending, settled, row, mem, captured,
                       seen, left, restored>>
    BY DEF EngineInv, TypeOK, CaptureAudit
  <2>2. ProcessInv(p)
    BY DEF EngineInv
  <2> QED
    BY <2>1, <2>2
       DEF ProcessInv, RowKnown, LockHeld, CaptureCurrent, ApplyCovered,
           RestoreKnown, VerifiedRow, AuditKnown
<1>4. BackupTrue' /\ Recoverable' /\ AuditTrail'
  BY DEF EngineInv, BackupTrue, Recoverable, AuditTrail, CaptureAudit
<1> QED BY <1>1, <1>2, <1>3, <1>4 DEF EngineInv

(* A row that is about to be changed irreversibly has one pending audit,   *)
(* its own or the one it took over.                                        *)
LEMMA OnePending ==
  ASSUME EngineInv, NEW p \in Procs, PersistAudit(p)
  PROVE  row[p] \in Audited /\ pending'[row[p]] = 1
<1>1. row[p] \in Audited
  BY DEF EngineInv, ProcessInv, RowKnown, PersistAudit
<1>2. pending[row[p]] \in Nat /\ pending[row[p]] <= 1
  BY <1>1 DEF EngineInv, TypeOK, AuditTrail
<1>3. pending'[row[p]] = IF pending[row[p]] = 0 THEN 1 ELSE pending[row[p]]
  BY <1>1 DEF EngineInv, TypeOK, PersistAudit
<1> QED BY <1>1, <1>2, <1>3

(* A pending audit is on disk before the irreversible change. *)
LEMMA PersistAuditStep ==
  ASSUME EngineInv, NEW p \in Procs, PersistAudit(p)
  PROVE  EngineInv'
<1>1. TypeOK'
  BY DEF EngineInv, TypeOK, Points, PersistAudit
<1>2. ASSUME NEW q \in Procs, q # p PROVE ProcessInv(q)'
  <2>1. SameProcess(q)
    BY <1>2 DEF EngineInv, TypeOK, SameProcess, PersistAudit
  <2>2. SharedSafe(q)
    BY <1>2, ConstantsAssumption
       DEF EngineInv, TypeOK, ProcessInv, LockHeld, SharedSafe, PersistAudit
  <2> QED BY <2>1, <2>2, Frame DEF EngineInv
<1>3. ProcessInv(p)'
  <2>1. /\ pc[p] = "persist audit"
        /\ pc'[p] = "apply audit"
        /\ pending'[row[p]] = 1
        /\ UNCHANGED <<setting, backup, settled, lock, row, mem, captured,
                       seen, left, restored>>
    BY OnePending DEF EngineInv, TypeOK, PersistAudit
  <2>2. ProcessInv(p)
    BY DEF EngineInv
  <2> QED
    BY <2>1, <2>2
       DEF ProcessInv, RowKnown, LockHeld, CaptureCurrent, ApplyCovered,
           RestoreKnown, VerifiedRow, AuditKnown
<1>4. BackupTrue' /\ Recoverable' /\ AuditTrail'
  <2>1. row[p] \in Audited
    BY DEF EngineInv, ProcessInv, RowKnown, PersistAudit
  <2>2. /\ pending'[row[p]] = 1 /\ settled'[row[p]] = settled[row[p]]
        /\ \A s \in Audited : s # row[p] => pending'[s] = pending[s] /\ settled'[s] = settled[s]
        /\ UNCHANGED <<effect, progress>>
    BY <2>1, OnePending DEF EngineInv, TypeOK, PersistAudit
  <2>3. AuditTrail'
    BY <2>1, <2>2 DEF EngineInv, AuditTrail
  <2> QED BY <2>3 DEF EngineInv, BackupTrue, Recoverable, PersistAudit
<1> QED BY <1>1, <1>2, <1>3, <1>4 DEF EngineInv

(* The irreversible change happens under a pending audit. *)
LEMMA ApplyAuditedStep ==
  ASSUME EngineInv, NEW p \in Procs, ApplyAudited(p)
  PROVE  EngineInv'
<1>1. TypeOK'
  <2>1. row[p] \in Audited
    BY DEF EngineInv, ProcessInv, RowKnown, ApplyAudited
  <2>2. effect' \in SUBSET Audited
    BY <2>1 DEF EngineInv, TypeOK, ApplyAudited
  <2>3. pc' \in [Procs -> Points]
    BY DEF EngineInv, TypeOK, Points, ApplyAudited
  <2> QED BY <2>2, <2>3 DEF EngineInv, TypeOK, ApplyAudited
<1>2. ASSUME NEW q \in Procs, q # p PROVE ProcessInv(q)'
  <2>1. SameProcess(q)
    BY <1>2 DEF EngineInv, TypeOK, SameProcess, ApplyAudited
  <2>2. SharedSafe(q)
    BY <1>2, ConstantsAssumption
       DEF EngineInv, TypeOK, ProcessInv, LockHeld, SharedSafe, ApplyAudited
  <2> QED BY <2>1, <2>2, Frame DEF EngineInv
<1>3. ProcessInv(p)'
  <2>1. /\ pc[p] = "apply audit"
        /\ pc'[p] \in {"verify audit", "fail audit"}
        /\ UNCHANGED <<setting, backup, pending, settled, lock, row, mem,
                       captured, seen, left, restored>>
    BY DEF EngineInv, TypeOK, ApplyAudited
  <2>2. ProcessInv(p)
    BY DEF EngineInv
  <2> QED
    BY <2>1, <2>2
       DEF ProcessInv, RowKnown, LockHeld, CaptureCurrent, ApplyCovered,
           RestoreKnown, VerifiedRow, AuditKnown
<1>4. BackupTrue' /\ Recoverable' /\ AuditTrail'
  <2>1. row[p] \in Audited /\ pending[row[p]] = 1
    BY DEF EngineInv, ProcessInv, RowKnown, AuditKnown, ApplyAudited
  <2>2. AuditTrail'
    BY <2>1 DEF EngineInv, TypeOK, AuditTrail, ApplyAudited
  <2> QED BY <2>2 DEF EngineInv, BackupTrue, Recoverable, ApplyAudited
<1> QED BY <1>1, <1>2, <1>3, <1>4 DEF EngineInv

(* Verification leaves the pending audit as it is. *)
LEMMA VerifyAuditedStep ==
  ASSUME EngineInv, NEW p \in Procs, VerifyAudited(p)
  PROVE  EngineInv'
<1>1. TypeOK'
  BY DEF EngineInv, TypeOK, Points, VerifyAudited
<1>2. ASSUME NEW q \in Procs, q # p PROVE ProcessInv(q)'
  <2>1. SameProcess(q)
    BY <1>2 DEF EngineInv, TypeOK, SameProcess, VerifyAudited
  <2>2. SharedSafe(q)
    BY <1>2, ConstantsAssumption
       DEF EngineInv, TypeOK, ProcessInv, LockHeld, SharedSafe, VerifyAudited
  <2> QED BY <2>1, <2>2, Frame DEF EngineInv
<1>3. ProcessInv(p)'
  <2>1. /\ pc[p] = "verify audit"
        /\ pc'[p] = "finalize audit"
        /\ UNCHANGED <<setting, backup, pending, settled, lock, row, mem,
                       captured, seen, left, restored>>
    BY DEF EngineInv, TypeOK, VerifyAudited
  <2>2. ProcessInv(p)
    BY DEF EngineInv
  <2> QED
    BY <2>1, <2>2
       DEF ProcessInv, RowKnown, LockHeld, CaptureCurrent, ApplyCovered,
           RestoreKnown, VerifiedRow, AuditKnown
<1>4. BackupTrue' /\ Recoverable' /\ AuditTrail'
  BY DEF EngineInv, BackupTrue, Recoverable, AuditTrail, VerifyAudited
<1> QED BY <1>1, <1>2, <1>3, <1>4 DEF EngineInv

(* The lock dropped by a failed verification leaves the audit pending. *)
LEMMA VerifyAuditedFailsStep ==
  ASSUME EngineInv, NEW p \in Procs, VerifyAuditedFails(p)
  PROVE  EngineInv'
<1>1. TypeOK'
  BY DEF EngineInv, TypeOK, Points, VerifyAuditedFails
<1>2. ASSUME NEW q \in Procs, q # p PROVE ProcessInv(q)'
  <2>1. SameProcess(q)
    BY <1>2 DEF EngineInv, TypeOK, SameProcess, VerifyAuditedFails
  <2>2. SharedSafe(q)
    BY <1>2, ConstantsAssumption
       DEF EngineInv, TypeOK, ProcessInv, LockHeld, SharedSafe,
           VerifyAuditedFails
  <2> QED BY <2>1, <2>2, Frame DEF EngineInv
<1>3. ProcessInv(p)'
  <2>1. /\ pc[p] = "verify audit"
        /\ pc'[p] = "fail audit"
        /\ lock' = None
        /\ UNCHANGED <<setting, backup, pending, settled, row, mem, captured,
                       seen, left, restored>>
    BY DEF EngineInv, TypeOK, VerifyAuditedFails
  <2>2. ProcessInv(p)
    BY DEF EngineInv
  <2> QED
    BY <2>1, <2>2, ConstantsAssumption
       DEF ProcessInv, RowKnown, LockHeld, CaptureCurrent, ApplyCovered,
           RestoreKnown, VerifiedRow, AuditKnown
<1>4. BackupTrue' /\ Recoverable' /\ AuditTrail'
  BY DEF EngineInv, BackupTrue, Recoverable, AuditTrail, VerifyAuditedFails
<1> QED BY <1>1, <1>2, <1>3, <1>4 DEF EngineInv

(* The failed outcome replaces the pending audit and keeps the trace. *)
LEMMA FailAuditStep ==
  ASSUME EngineInv, NEW p \in Procs, FailAudit(p)
  PROVE  EngineInv'
<1>1. TypeOK'
  BY DEF EngineInv, TypeOK, Points, FailAudit, EmptyProgress, Progresses
<1>2. ASSUME NEW q \in Procs, q # p PROVE ProcessInv(q)'
  <2>1. SameProcess(q)
    BY <1>2 DEF EngineInv, TypeOK, SameProcess, FailAudit
  <2>2. SharedSafe(q)
    BY <1>2, ConstantsAssumption
       DEF EngineInv, TypeOK, ProcessInv, LockHeld, SharedSafe, FailAudit
  <2> QED BY <2>1, <2>2, Frame DEF EngineInv
<1>3. ProcessInv(p)'
  <2>1. /\ pc[p] = "fail audit"
        /\ pc'[p] = "idle"
        /\ lock' = None
        /\ mem'[p].completed = {}
        /\ UNCHANGED <<setting, backup, captured, left, restored>>
    BY DEF EngineInv, TypeOK, FailAudit, EmptyProgress
  <2>2. ProcessInv(p)
    BY DEF EngineInv
  <2> QED
    BY <2>1, <2>2
       DEF ProcessInv, RowKnown, LockHeld, CaptureCurrent, ApplyCovered,
           RestoreKnown, VerifiedRow, AuditKnown
<1>4. BackupTrue' /\ Recoverable' /\ AuditTrail'
  <2>1. row[p] \in Audited
    BY DEF EngineInv, ProcessInv, RowKnown, FailAudit
  <2>2. /\ pending'[row[p]] = 0 /\ settled'[row[p]] = settled[row[p]] \cup {"failed"}
        /\ \A s \in Audited : s # row[p] => pending'[s] = pending[s] /\ settled'[s] = settled[s]
        /\ UNCHANGED <<effect, progress>>
    BY <2>1 DEF EngineInv, TypeOK, FailAudit
  <2>3. AuditTrail'
    BY <2>1, <2>2 DEF EngineInv, AuditTrail
  <2> QED BY <2>3 DEF EngineInv, BackupTrue, Recoverable, FailAudit
<1> QED BY <1>1, <1>2, <1>3, <1>4 DEF EngineInv

(* The audit is finalized before the row is recorded. *)
LEMMA FinalizeAuditStep ==
  ASSUME EngineInv, NEW p \in Procs, FinalizeAudit(p)
  PROVE  EngineInv'
<1>1. TypeOK'
  BY DEF EngineInv, TypeOK, Points, FinalizeAudit
<1>2. ASSUME NEW q \in Procs, q # p PROVE ProcessInv(q)'
  <2>1. SameProcess(q)
    BY <1>2 DEF EngineInv, TypeOK, SameProcess, FinalizeAudit
  <2>2. SharedSafe(q)
    BY <1>2, ConstantsAssumption
       DEF EngineInv, TypeOK, ProcessInv, LockHeld, SharedSafe, FinalizeAudit
  <2> QED BY <2>1, <2>2, Frame DEF EngineInv
<1>3. ProcessInv(p)'
  <2>1. /\ pc[p] = "finalize audit"
        /\ pc'[p] = "complete"
        /\ \A s \in Audited : settled[s] \subseteq settled'[s]
        /\ row[p] \in Audited => "finalized" \in settled'[row[p]]
        /\ UNCHANGED <<setting, backup, lock, row, mem, captured, seen, left,
                       restored>>
    BY DEF EngineInv, TypeOK, FinalizeAudit
  <2>2. ProcessInv(p)
    BY DEF EngineInv
  <2> QED
    BY <2>1, <2>2, ConstantsAssumption
       DEF ProcessInv, RowKnown, LockHeld, CaptureCurrent, ApplyCovered,
           RestoreKnown, VerifiedRow, AuditKnown, Lossless
<1>4. BackupTrue' /\ Recoverable' /\ AuditTrail'
  <2>1. row[p] \in Audited
    BY DEF EngineInv, ProcessInv, RowKnown, FinalizeAudit
  <2>2. /\ pending'[row[p]] = 0 /\ settled'[row[p]] = settled[row[p]] \cup {"finalized"}
        /\ \A s \in Audited : s # row[p] => pending'[s] = pending[s] /\ settled'[s] = settled[s]
        /\ UNCHANGED <<effect, progress>>
    BY <2>1 DEF EngineInv, TypeOK, FinalizeAudit
  <2>3. AuditTrail'
    BY <2>1, <2>2 DEF EngineInv, AuditTrail
  <2> QED BY <2>3 DEF EngineInv, BackupTrue, Recoverable, FinalizeAudit
<1> QED BY <1>1, <1>2, <1>3, <1>4 DEF EngineInv

-----------------------------------------------------------------------------
(* run_evidence_operation *)

(* The copy of evidence.json is nothing the invariant protects. *)
LEMMA LoadEvidenceStep ==
  ASSUME EngineInv, NEW p \in Procs, LoadEvidence(p)
  PROVE  EngineInv'
<1>1. TypeOK'
  BY DEF EngineInv, TypeOK, Points, LoadEvidence, EvidenceFiles
<1>2. ASSUME NEW q \in Procs, q # p PROVE ProcessInv(q)'
  <2>1. SameProcess(q)
    BY <1>2 DEF EngineInv, TypeOK, SameProcess, LoadEvidence
  <2>2. SharedSafe(q)
    BY <1>2, ConstantsAssumption
       DEF EngineInv, TypeOK, ProcessInv, LockHeld, SharedSafe, LoadEvidence
  <2> QED BY <2>1, <2>2, Frame DEF EngineInv
<1>3. ProcessInv(p)'
  <2>1. /\ pc[p] = "load evidence"
        /\ pc'[p] = "write evidence"
        /\ UNCHANGED <<setting, backup, pending, settled, lock, row, mem,
                       captured, seen, left, restored>>
    BY DEF EngineInv, TypeOK, LoadEvidence
  <2>2. ProcessInv(p)
    BY DEF EngineInv
  <2> QED
    BY <2>1, <2>2
       DEF ProcessInv, RowKnown, LockHeld, CaptureCurrent, ApplyCovered,
           RestoreKnown, VerifiedRow, AuditKnown
<1>4. BackupTrue' /\ Recoverable' /\ AuditTrail'
  BY DEF EngineInv, BackupTrue, Recoverable, AuditTrail, LoadEvidence
<1> QED BY <1>1, <1>2, <1>3, <1>4 DEF EngineInv

(* Writing evidence.json, unlocked, touches nothing it protects. *)
LEMMA WriteEvidenceStep ==
  ASSUME EngineInv, NEW p \in Procs, WriteEvidence(p)
  PROVE  EngineInv'
<1>1. TypeOK'
  BY DEF EngineInv, TypeOK, Points, WriteEvidence
<1>2. ASSUME NEW q \in Procs, q # p PROVE ProcessInv(q)'
  <2>1. SameProcess(q)
    BY <1>2 DEF EngineInv, TypeOK, SameProcess, WriteEvidence
  <2>2. SharedSafe(q)
    BY <1>2, ConstantsAssumption
       DEF EngineInv, TypeOK, ProcessInv, LockHeld, SharedSafe, WriteEvidence
  <2> QED BY <2>1, <2>2, Frame DEF EngineInv
<1>3. ProcessInv(p)'
  <2>1. /\ pc[p] = "write evidence"
        /\ pc'[p] = "read back"
        /\ UNCHANGED <<setting, backup, pending, settled, lock, row, mem,
                       captured, seen, left, restored>>
    BY DEF EngineInv, TypeOK, WriteEvidence
  <2>2. ProcessInv(p)
    BY DEF EngineInv
  <2> QED
    BY <2>1, <2>2
       DEF ProcessInv, RowKnown, LockHeld, CaptureCurrent, ApplyCovered,
           RestoreKnown, VerifiedRow, AuditKnown
<1>4. BackupTrue' /\ Recoverable' /\ AuditTrail'
  BY DEF EngineInv, BackupTrue, Recoverable, AuditTrail, WriteEvidence
<1> QED BY <1>1, <1>2, <1>3, <1>4 DEF EngineInv

(* Reading evidence.json back changes only the point. *)
LEMMA ReadBackStep ==
  ASSUME EngineInv, NEW p \in Procs, ReadBack(p)
  PROVE  EngineInv'
<1>1. TypeOK'
  BY DEF EngineInv, TypeOK, Points, ReadBack
<1>2. ASSUME NEW q \in Procs, q # p PROVE ProcessInv(q)'
  <2>1. SameProcess(q)
    BY <1>2 DEF EngineInv, TypeOK, SameProcess, ReadBack
  <2>2. SharedSafe(q)
    BY <1>2, ConstantsAssumption
       DEF EngineInv, TypeOK, ProcessInv, LockHeld, SharedSafe, ReadBack
  <2> QED BY <2>1, <2>2, Frame DEF EngineInv
<1>3. ProcessInv(p)'
  <2>1. /\ pc[p] = "read back"
        /\ pc'[p] = "verify evidence"
        /\ UNCHANGED <<setting, backup, pending, settled, lock, row, mem,
                       captured, seen, left, restored>>
    BY DEF EngineInv, TypeOK, ReadBack
  <2>2. ProcessInv(p)
    BY DEF EngineInv
  <2> QED
    BY <2>1, <2>2
       DEF ProcessInv, RowKnown, LockHeld, CaptureCurrent, ApplyCovered,
           RestoreKnown, VerifiedRow, AuditKnown
<1>4. BackupTrue' /\ Recoverable' /\ AuditTrail'
  BY DEF EngineInv, BackupTrue, Recoverable, AuditTrail, ReadBack
<1> QED BY <1>1, <1>2, <1>3, <1>4 DEF EngineInv

(* A verified receipt leads to the record of a row without an audit. *)
LEMMA VerifyEvidenceStep ==
  ASSUME EngineInv, NEW p \in Procs, VerifyEvidence(p)
  PROVE  EngineInv'
<1>1. TypeOK'
  BY DEF EngineInv, TypeOK, Points, VerifyEvidence
<1>2. ASSUME NEW q \in Procs, q # p PROVE ProcessInv(q)'
  <2>1. SameProcess(q)
    BY <1>2 DEF EngineInv, TypeOK, SameProcess, VerifyEvidence
  <2>2. SharedSafe(q)
    BY <1>2, ConstantsAssumption
       DEF EngineInv, TypeOK, ProcessInv, LockHeld, SharedSafe,
           VerifyEvidence
  <2> QED BY <2>1, <2>2, Frame DEF EngineInv
<1>3. ProcessInv(p)'
  <2>1. /\ pc[p] = "verify evidence"
        /\ pc'[p] = "complete"
        /\ UNCHANGED <<setting, backup, pending, settled, lock, row, mem,
                       captured, seen, left, restored>>
    BY DEF EngineInv, TypeOK, VerifyEvidence
  <2>2. ProcessInv(p)
    BY DEF EngineInv
  <2> QED
    BY <2>1, <2>2, ConstantsAssumption
       DEF ProcessInv, RowKnown, LockHeld, CaptureCurrent, ApplyCovered,
           RestoreKnown, VerifiedRow, AuditKnown, Lossless
<1>4. BackupTrue' /\ Recoverable' /\ AuditTrail'
  BY DEF EngineInv, BackupTrue, Recoverable, AuditTrail, VerifyEvidence
<1> QED BY <1>1, <1>2, <1>3, <1>4 DEF EngineInv

-----------------------------------------------------------------------------
(* Recovery commands, and the end of a process. *)

(* A restore takes the free lock and selects only retained entries. *)
LEMMA StartRestoreStep ==
  ASSUME EngineInv, NEW p \in Procs, NEW steps \in SUBSET Steps, StartRestore(p, steps)
  PROVE  EngineInv'
<1>1. TypeOK'
  BY DEF EngineInv, TypeOK, Points, StartRestore
<1>2. ASSUME NEW q \in Procs, q # p PROVE ProcessInv(q)'
  <2>1. SameProcess(q)
    BY <1>2 DEF EngineInv, TypeOK, SameProcess, StartRestore
  <2>2. SharedSafe(q)
    BY <1>2, ConstantsAssumption
       DEF EngineInv, TypeOK, ProcessInv, LockHeld, SharedSafe, StartRestore
  <2> QED BY <2>1, <2>2, Frame DEF EngineInv
<1>3. ProcessInv(p)'
  <2>1. /\ pc[p] = "idle"
        /\ pc'[p] = "restore"
        /\ lock' = p
        /\ \A t \in left'[p] : backup[t] # None
        /\ UNCHANGED <<setting, backup, pending, settled, row, mem, captured,
                       seen, restored>>
    BY DEF EngineInv, TypeOK, StartRestore
  <2>2. ProcessInv(p)
    BY DEF EngineInv
  <2> QED
    BY <2>1, <2>2
       DEF ProcessInv, RowKnown, LockHeld, CaptureCurrent, ApplyCovered,
           RestoreKnown, VerifiedRow, AuditKnown
<1>4. BackupTrue' /\ Recoverable' /\ AuditTrail'
  BY DEF EngineInv, BackupTrue, Recoverable, AuditTrail, StartRestore
<1> QED BY <1>1, <1>2, <1>3, <1>4 DEF EngineInv

(* A restored setting holds its retained value, still on disk. *)
LEMMA RestoreEntryStep ==
  ASSUME EngineInv, NEW p \in Procs, NEW t \in Targets, RestoreEntry(p, t)
  PROVE  EngineInv'
<1>1. TypeOK'
  <2>1. backup[t] \in Values
    BY DEF EngineInv, TypeOK, ProcessInv, RestoreKnown, RestoreEntry
  <2> QED BY <2>1 DEF EngineInv, TypeOK, RestoreEntry
<1>2. ASSUME NEW q \in Procs, q # p PROVE ProcessInv(q)'
  <2>1. SameProcess(q)
    BY <1>2 DEF EngineInv, TypeOK, SameProcess, RestoreEntry
  <2>2. SharedSafe(q)
    BY <1>2, ConstantsAssumption
       DEF EngineInv, TypeOK, ProcessInv, LockHeld, SharedSafe, RestoreEntry
  <2> QED BY <2>1, <2>2, Frame DEF EngineInv
<1>3. ProcessInv(p)'
  <2>1. /\ pc[p] = "restore"
        /\ pc'[p] = "restore"
        /\ left'[p] = left[p] \ {t}
        /\ restored'[p] = restored[p] \cup {t}
        /\ t \in left[p]
        /\ setting'[t] = backup[t]
        /\ \A u \in Targets : u # t => setting'[u] = setting[u]
        /\ left[p] \subseteq Targets
        /\ restored[p] \subseteq Targets
        /\ UNCHANGED <<backup, pending, settled, lock, row, mem, captured,
                       seen>>
    BY DEF EngineInv, TypeOK, RestoreEntry
  <2>2. ProcessInv(p)
    BY DEF EngineInv
  <2> QED
    BY <2>1, <2>2
       DEF ProcessInv, RowKnown, LockHeld, CaptureCurrent, ApplyCovered,
           RestoreKnown, VerifiedRow, AuditKnown
<1>4. BackupTrue' /\ Recoverable' /\ AuditTrail'
  <2>1. backup[t] # None
    BY DEF EngineInv, ProcessInv, RestoreKnown, RestoreEntry
  <2>2. backup[t] = Original[t] \/ t \in forgotten
    BY <2>1 DEF EngineInv, BackupTrue
  <2>3. Recoverable'
    BY <2>2 DEF EngineInv, TypeOK, Recoverable, RestoreEntry
  <2> QED BY <2>3 DEF EngineInv, BackupTrue, AuditTrail, RestoreEntry
<1> QED BY <1>1, <1>2, <1>3, <1>4 DEF EngineInv

(* A failed entry is retained, whether or not its write happened. *)
LEMMA RestoreFailsStep ==
  ASSUME EngineInv, NEW p \in Procs, NEW t \in Targets, RestoreFails(p, t)
  PROVE  EngineInv'
<1>1. TypeOK'
  <2>1. backup[t] \in Values
    BY DEF EngineInv, TypeOK, ProcessInv, RestoreKnown, RestoreFails
  <2> QED BY <2>1 DEF EngineInv, TypeOK, RestoreFails
<1>2. ASSUME NEW q \in Procs, q # p PROVE ProcessInv(q)'
  <2>1. SameProcess(q)
    BY <1>2 DEF EngineInv, TypeOK, SameProcess, RestoreFails
  <2>2. SharedSafe(q)
    BY <1>2, ConstantsAssumption
       DEF EngineInv, TypeOK, ProcessInv, LockHeld, SharedSafe, RestoreFails
  <2> QED BY <2>1, <2>2, Frame DEF EngineInv
<1>3. ProcessInv(p)'
  <2>1. /\ pc[p] = "restore"
        /\ pc'[p] = "restore"
        /\ left'[p] = left[p] \ {t}
        /\ t \in left[p]
        /\ \A u \in Targets : u # t => setting'[u] = setting[u]
        /\ left[p] \subseteq Targets
        /\ restored[p] \subseteq Targets
        /\ UNCHANGED <<backup, pending, settled, lock, row, mem, captured,
                       seen, restored>>
    BY DEF EngineInv, TypeOK, RestoreFails
  <2>2. ProcessInv(p)
    BY DEF EngineInv
  <2> QED
    BY <2>1, <2>2
       DEF ProcessInv, RowKnown, LockHeld, CaptureCurrent, ApplyCovered,
           RestoreKnown, VerifiedRow, AuditKnown
<1>4. BackupTrue' /\ Recoverable' /\ AuditTrail'
  <2>1. backup[t] # None
    BY DEF EngineInv, ProcessInv, RestoreKnown, RestoreFails
  <2>2. backup[t] = Original[t] \/ t \in forgotten
    BY <2>1 DEF EngineInv, BackupTrue
  <2>3. Recoverable'
    BY <2>2 DEF EngineInv, TypeOK, Recoverable, RestoreFails
  <2> QED BY <2>3 DEF EngineInv, BackupTrue, AuditTrail, RestoreFails
<1> QED BY <1>1, <1>2, <1>3, <1>4 DEF EngineInv

(* Only entries whose settings are back are dropped from backup.json. *)
LEMMA CommitRestoreStep ==
  ASSUME EngineInv, NEW p \in Procs, CommitRestore(p)
  PROVE  EngineInv'
<1>1. TypeOK'
  BY ConstantsAssumption DEF EngineInv, TypeOK, Points, CommitRestore
<1>2. ASSUME NEW q \in Procs, q # p PROVE ProcessInv(q)'
  <2>1. SameProcess(q)
    BY <1>2 DEF EngineInv, TypeOK, SameProcess, CommitRestore
  <2>2. SharedSafe(q)
    BY <1>2, ConstantsAssumption
       DEF EngineInv, TypeOK, ProcessInv, LockHeld, SharedSafe, CommitRestore
  <2> QED BY <2>1, <2>2, Frame DEF EngineInv
<1>3. ProcessInv(p)'
  <2>1. /\ pc[p] = "restore"
        /\ pc'[p] = "idle"
        /\ left[p] = {}
        /\ restored'[p] = {}
        /\ lock' = None
        /\ UNCHANGED <<setting, pending, settled, row, mem, captured, seen,
                       left>>
    BY DEF EngineInv, TypeOK, CommitRestore
  <2>2. ProcessInv(p)
    BY DEF EngineInv
  <2> QED
    BY <2>1, <2>2
       DEF ProcessInv, RowKnown, LockHeld, CaptureCurrent, ApplyCovered,
           RestoreKnown, VerifiedRow, AuditKnown
<1>4. BackupTrue' /\ Recoverable' /\ AuditTrail'
  <2>1. \A t \in restored[p] : backup[t] # None /\ setting[t] = backup[t]
    BY DEF EngineInv, ProcessInv, RestoreKnown, CommitRestore
  <2>2. BackupTrue' /\ Recoverable'
    BY <2>1 DEF EngineInv, BackupTrue, Recoverable, CommitRestore
  <2>3. AuditTrail'
    BY DEF EngineInv, AuditTrail, CommitRestore
  <2> QED BY <2>2, <2>3
<1> QED BY <1>1, <1>2, <1>3, <1>4 DEF EngineInv

(* A process that ends gives up its lock and leaves the disk as it is. *)
LEMMA ExitStep ==
  ASSUME EngineInv, NEW p \in Procs, Exit(p)
  PROVE  EngineInv'
<1>1. TypeOK'
  BY DEF EngineInv, TypeOK, Points, Exit, EmptyProgress, Progresses,
         NoCapture, NoEvidence, EvidenceFiles
<1>2. ASSUME NEW q \in Procs, q # p PROVE ProcessInv(q)'
  <2>1. SameProcess(q)
    BY <1>2 DEF EngineInv, TypeOK, SameProcess, Exit
  <2>2. SharedSafe(q)
    BY <1>2, ConstantsAssumption
       DEF EngineInv, TypeOK, ProcessInv, LockHeld, SharedSafe, Exit
  <2> QED BY <2>1, <2>2, Frame DEF EngineInv
<1>3. ProcessInv(p)'
  <2>1. /\ pc'[p] = "idle"
        /\ left'[p] = {}
        /\ restored'[p] = {}
        /\ mem'[p].completed = {}
        /\ UNCHANGED <<setting, backup, pending, settled>>
    BY DEF EngineInv, TypeOK, Exit, EmptyProgress
  <2>2. ProcessInv(p)
    BY DEF EngineInv
  <2> QED
    BY <2>1, <2>2
       DEF ProcessInv, RowKnown, LockHeld, CaptureCurrent, ApplyCovered,
           RestoreKnown, VerifiedRow, AuditKnown
<1>4. BackupTrue' /\ Recoverable' /\ AuditTrail'
  BY DEF EngineInv, BackupTrue, Recoverable, AuditTrail, Exit
<1> QED BY <1>1, <1>2, <1>3, <1>4 DEF EngineInv

(* The commands that touch no process's state change nothing that is locked. *)
LEMMA CommandStep ==
  ASSUME EngineInv, ClearBackup \/ ResetProgress \/ HardwareChange \/ UNCHANGED vars
  PROVE  EngineInv'
<1>1. TypeOK'
  <2>1. CASE ClearBackup
    BY <2>1 DEF EngineInv, TypeOK, ClearBackup, NoCapture
  <2>2. CASE ResetProgress
    BY <2>2 DEF EngineInv, TypeOK, ResetProgress, EmptyProgress, Progresses
  <2>3. CASE HardwareChange
    BY <2>3 DEF EngineInv, TypeOK, HardwareChange
  <2>4. CASE UNCHANGED vars
    BY <2>4 DEF EngineInv, TypeOK, vars
  <2> QED BY <2>1, <2>2, <2>3, <2>4
<1>2. ASSUME NEW q \in Procs PROVE ProcessInv(q)'
  <2>1. SameProcess(q)
    BY DEF ClearBackup, ResetProgress, HardwareChange, vars, SameProcess
  <2>2. SharedSafe(q)
    BY ConstantsAssumption DEF ClearBackup, ResetProgress, HardwareChange, vars, SharedSafe
  <2> QED BY <2>1, <2>2, Frame DEF EngineInv
<1>3. BackupTrue' /\ Recoverable'
  BY DEF EngineInv, BackupTrue, Recoverable, ClearBackup, ResetProgress, HardwareChange,
         vars, NoCapture
<1>4. AuditTrail'
  BY DEF EngineInv, AuditTrail, ClearBackup, ResetProgress, HardwareChange, vars,
         EmptyProgress
<1> QED BY <1>1, <1>2, <1>3, <1>4 DEF EngineInv

(* A power loss ends every process and leaves the disk as it is. *)
LEMMA PowerLossStep ==
  ASSUME EngineInv, PowerLoss
  PROVE  EngineInv'
<1>1. TypeOK'
  <2>1. lock' \in Procs \cup {None, StaleLock}
    BY DEF EngineInv, TypeOK, PowerLoss, LockAfterReboot
  <2> QED
    BY <2>1 DEF EngineInv, TypeOK, PowerLoss, Points, NoCapture, NoEvidence, EvidenceFiles,
                Progresses, EmptyProgress
<1>2. ASSUME NEW q \in Procs PROVE ProcessInv(q)'
  <2>1. /\ pc'[q] = "idle" /\ left'[q] = {} /\ restored'[q] = {}
        /\ mem'[q].completed = {}
    BY DEF PowerLoss, EmptyProgress
  <2> QED
    BY <2>1
       DEF ProcessInv, RowKnown, LockHeld, CaptureCurrent, ApplyCovered, RestoreKnown,
           VerifiedRow, AuditKnown
<1>3. BackupTrue' /\ Recoverable' /\ AuditTrail'
  BY DEF EngineInv, BackupTrue, Recoverable, AuditTrail, PowerLoss
<1> QED BY <1>1, <1>2, <1>3 DEF EngineInv

(* Every step of every process and of the machine keeps the invariant. *)
LEMMA NextInv ==
  ASSUME EngineInv, [Next]_vars
  PROVE  EngineInv'
<1>1. ASSUME NEW p \in Procs, Run(p) PROVE EngineInv'
  <2>1. CASE \E s \in Steps : Inspect(p, s) \/ RecordSkip(p, s) \/ RecordAdvisory(p, s)
    BY <2>1, InspectStep, RecordStep
  <2>2. CASE LosslessStep(p)
    BY <2>2, CaptureStep, PersistBackupsStep, ApplyStep, AppliedStep, VerifyStep,
       CompleteRowStep DEF LosslessStep
  <2>3. CASE AuditStep(p)
    BY <2>3, CaptureAuditStep, PersistAuditStep, ApplyAuditedStep, VerifyAuditedStep,
       VerifyAuditedFailsStep, FailAuditStep, FinalizeAuditStep DEF AuditStep
  <2>4. CASE EvidenceStep(p)
    BY <2>4, LoadEvidenceStep, WriteEvidenceStep, ReadBackStep, VerifyEvidenceStep
       DEF EvidenceStep
  <2> QED BY <1>1, <2>1, <2>2, <2>3, <2>4 DEF Run
<1>2. ASSUME NEW p \in Procs, Restore(p) PROVE EngineInv'
  BY <1>2, StartRestoreStep, RestoreEntryStep, RestoreFailsStep, CommitRestoreStep
     DEF Restore
<1> QED BY <1>1, <1>2, StartStep, ExitStep, CommandStep, PowerLossStep DEF Next

(* EngineInv holds in every state the engine, the recovery commands, power *)
(* losses and hardware changes can reach.                                  *)
THEOREM EngineInvariant == Spec => []EngineInv
<1>1. Init => EngineInv
  BY InitInv
<1>2. EngineInv /\ [Next]_vars => EngineInv'
  BY NextInv
<1> QED BY <1>1, <1>2, PTL DEF Spec

-----------------------------------------------------------------------------
(* Every variable keeps its type, so that what is restored is always a     *)
(* retained value and what is recorded is always a row of the run.         *)
THEOREM TypeCorrect == Spec => []TypeOK
<1>1. EngineInv => TypeOK
  BY DEF EngineInv
<1> QED BY <1>1, EngineInvariant, PTL

(* Whatever is interrupted and repeated, a changed setting's original      *)
(* value stays in backup.json until it is back or the user discards it.    *)
THEOREM AlwaysRecoverable == Spec => []Recoverable
<1>1. EngineInv => Recoverable
  BY DEF EngineInv
<1> QED BY <1>1, EngineInvariant, PTL

(* No recovery command comes between a locked row's verification and its   *)
(* progress record.                                                        *)
THEOREM AlwaysVerifiedUnderLock == Spec => []VerifiedUnderLock
<1>1. EngineInv => VerifiedUnderLock
  BY DEF EngineInv, ProcessInv, VerifiedRow, VerifiedUnderLock
<1> QED BY <1>1, EngineInvariant, PTL

(* audit.json accounts for every irreversible change. *)
THEOREM AlwaysAudited == Spec => []AuditTrail
<1>1. EngineInv => AuditTrail
  BY DEF EngineInv
<1> QED BY <1>1, EngineInvariant, PTL

(* The steps that leave backup.json alone drop nothing from it. *)
LEMMA KeepsBackup == ASSUME backup' = backup PROVE DropStep
BY DEF DropStep

(* Only a restore that has put a setting back, or clear-backup, drops its  *)
(* recovery record.                                                        *)
THEOREM DropsOnlyRestored == Spec => DroppedOnlyWhenRestored
<1>1. ASSUME EngineInv, Next PROVE DropStep
  <2>1. ASSUME NEW p \in Procs, Start(p) \/ Run(p) \/ Restore(p) \/ Exit(p) PROVE DropStep
    <3>1. CASE PersistBackups(p)
      BY <3>1 DEF DropStep, PersistBackups
    <3>2. CASE CommitRestore(p)
      <4>1. \A t \in restored[p] : setting[t] = backup[t]
        BY <1>1, <3>2 DEF EngineInv, ProcessInv, RestoreKnown, CommitRestore
      <4> QED BY <3>2, <4>1 DEF DropStep, CommitRestore
    <3>3. CASE ~PersistBackups(p) /\ ~CommitRestore(p)
      <4>1. backup' = backup
        BY <2>1, <3>3
           DEF Start, Run, Restore, Exit, LosslessStep, AuditStep, EvidenceStep, Inspect,
               RecordSkip, RecordAdvisory, PersistProgress, Capture, Apply, Applied, Verify,
               CompleteRow, CaptureAudit, PersistAudit, ApplyAudited, VerifyAudited,
               VerifyAuditedFails, FailAudit, FinalizeAudit, LoadEvidence, WriteEvidence,
               ReadBack, VerifyEvidence, StartRestore, RestoreEntry, RestoreFails
      <4> QED BY <4>1, KeepsBackup
    <3> QED BY <3>1, <3>2, <3>3
  <2>2. CASE ClearBackup
    BY <1>1, <2>2 DEF EngineInv, BackupTrue, DropStep, ClearBackup
  <2>3. CASE ResetProgress \/ PowerLoss \/ HardwareChange
    BY <2>3, KeepsBackup DEF ResetProgress, PowerLoss, HardwareChange
  <2> QED BY <1>1, <2>1, <2>2, <2>3 DEF Next
<1>2. EngineInv /\ [Next]_vars => [DropStep]_vars
  BY <1>1
<1> QED BY <1>2, EngineInvariant, PTL DEF Spec, DroppedOnlyWhenRestored

-----------------------------------------------------------------------------
(* evidence.json is read, changed and written without the suite lock, so   *)
(* that its receipts are safe only from the steps of one run at a time.    *)

(* A step that writes neither evidence.json nor a file for it, and that    *)
(* records no row without its receipt, keeps the receipts.                 *)
LEMMA ReceiptFrame ==
  ASSUME ReceiptInv, evidence' = evidence,
         \A s \in Receipted : s \in progress'.completed => evidence[s] # None,
         \A p \in Procs :
           /\ \A s \in Receipted : s \in mem'[p].completed => evidence[s] # None
           /\ pc'[p] # "write evidence"
           /\ pc'[p] \in {"read back", "verify evidence"} => evidence[row'[p]] # None
           /\ pc'[p] = "complete" /\ row'[p] \in Receipted => evidence[row'[p]] # None
  PROVE  ReceiptInv'
BY DEF ReceiptInv, ReceiptDurable, ReceiptKept

(* persist_progress of a run whose completed rows have their receipts. *)
LEMMA PersistReceipt ==
  ASSUME EngineInv, ReceiptInv, NEW p \in Procs, \A q \in Procs : q = p,
         NEW next \in Progresses(Steps), PersistProgress(p, next),
         \A s \in Receipted : s \in next.completed => evidence[s] # None
  PROVE  ReceiptInv'
<1>1. pc'[p] = "loop" /\ mem'[p] = next /\ progress' = next /\ evidence' = evidence
  BY DEF EngineInv, TypeOK, PersistProgress
<1> QED BY <1>1, ReceiptFrame

(* The rows a run records without completing them, and the one it           *)
(* completes, which has its receipt if it needs one.                       *)
LEMMA RecordReceipt ==
  ASSUME EngineInv, ReceiptInv, NEW p \in Procs, \A q \in Procs : q = p,
         \/ \E s \in Steps : RecordSkip(p, s) \/ RecordAdvisory(p, s)
         \/ CompleteRow(p)
  PROVE  ReceiptInv'
<1>1. mem[p] \in Progresses(Steps)
  BY DEF EngineInv, TypeOK
<1>2. \A s \in Receipted : s \in mem[p].completed => evidence[s] # None
  BY DEF ReceiptInv, ReceiptKept
<1>3. ASSUME NEW s \in Steps, RecordSkip(p, s) \/ RecordAdvisory(p, s) PROVE ReceiptInv'
  BY <1>1, <1>2, <1>3, ProgressRecorded, PersistReceipt DEF RecordSkip, RecordAdvisory
<1>4. CASE CompleteRow(p)
  <2>1. row[p] \in Steps /\ (row[p] \in Receipted => evidence[row[p]] # None)
    BY <1>4 DEF EngineInv, ProcessInv, RowKnown, ReceiptInv, ReceiptKept, CompleteRow
  <2>2. \A s \in Receipted : s \in Complete(mem[p], row[p]).completed => evidence[s] # None
    BY <1>1, <1>2, <2>1, ProgressRecorded
  <2>3. PersistProgress(p, Complete(mem[p], row[p]))
    BY <1>4 DEF CompleteRow
  <2> QED BY <1>1, <2>1, <2>2, <2>3, ProgressRecorded, PersistReceipt
<1> QED BY <1>3, <1>4

(* run_evidence_operation: the receipts of the other rows are carried over *)
(* from the file, and the row's own is added.                              *)
LEMMA EvidenceReceipt ==
  ASSUME EngineInv, ReceiptInv, NEW p \in Procs, \A q \in Procs : q = p, EvidenceStep(p)
  PROVE  ReceiptInv'
<1>1. pc[p] \in ReceiptPoints /\ row[p] \in Receipted /\ seen[p] # None
  <2>1. pc[p] \in ReceiptPoints
    BY DEF EvidenceStep, LoadEvidence, WriteEvidence, ReadBack, VerifyEvidence
  <2>2. RowKnown(p)
    BY DEF EngineInv, ProcessInv
  <2>3. row[p] \in Receipted /\ seen[p] \in Bindings
    BY <2>1, <2>2 DEF RowKnown
  <2> QED BY <2>1, <2>3, ConstantsAssumption
<1>2. ReceiptKept(p) /\ ReceiptDurable
  BY DEF ReceiptInv
<1>3. CASE LoadEvidence(p)
  <2>1. /\ pc'[p] = "write evidence"
        /\ UNCHANGED <<evidence, progress, mem, row>>
        /\ file'[p] = [evidence EXCEPT ![row[p]] = seen[p]]
    BY <1>3 DEF EngineInv, TypeOK, LoadEvidence
  <2>2. evidence \in [Receipted -> Bindings \cup {None}]
    BY DEF EngineInv, TypeOK, EvidenceFiles
  <2>3. \A s \in Receipted : s = row[p] \/ evidence[s] # None => file'[p][s] # None
    BY <1>1, <2>1, <2>2
  <2>4. ReceiptKept(p)'
    BY <1>2, <2>1, <2>3 DEF ReceiptKept
  <2> QED BY <1>2, <2>1, <2>4 DEF ReceiptInv, ReceiptDurable
<1>4. CASE WriteEvidence(p)
  <2>1. /\ pc[p] = "write evidence" /\ pc'[p] = "read back"
        /\ evidence' = file[p] /\ UNCHANGED <<progress, mem, row, file>>
    BY <1>4 DEF EngineInv, TypeOK, WriteEvidence
  <2>2. \A s \in Receipted : s = row[p] \/ evidence[s] # None => evidence'[s] # None
    BY <1>2, <2>1 DEF ReceiptKept
  <2>3. ReceiptKept(p)'
    BY <1>1, <1>2, <2>1, <2>2 DEF ReceiptKept
  <2>4. ReceiptDurable'
    BY <1>2, <2>1, <2>2 DEF ReceiptDurable
  <2> QED BY <2>3, <2>4 DEF ReceiptInv
<1>5. CASE ReadBack(p) \/ VerifyEvidence(p)
  <2>1. /\ pc[p] \in {"read back", "verify evidence"}
        /\ pc'[p] \in {"verify evidence", "complete"}
        /\ UNCHANGED <<evidence, progress, mem, row>>
    BY <1>5 DEF EngineInv, TypeOK, ReadBack, VerifyEvidence
  <2>2. ReceiptKept(p)'
    BY <1>2, <2>1 DEF ReceiptKept
  <2> QED BY <1>2, <2>1, <2>2 DEF ReceiptInv, ReceiptDurable
<1> QED BY <1>3, <1>4, <1>5 DEF EvidenceStep

(* No other step writes evidence.json, or brings a receipted row nearer to *)
(* its record.                                                             *)
LEMMA OtherReceipt ==
  ASSUME EngineInv, ReceiptInv, NEW p \in Procs, \A q \in Procs : q = p,
         \/ Start(p) \/ AuditStep(p) \/ Restore(p) \/ Exit(p)
         \/ \E s \in Steps : Inspect(p, s)
         \/ LosslessStep(p) /\ ~CompleteRow(p)
  PROVE  ReceiptInv'
<1>1. ReceiptKept(p) /\ ReceiptDurable /\ RowKnown(p)
  BY DEF EngineInv, ProcessInv, ReceiptInv
<1>2. evidence' = evidence /\ progress' = progress
  BY DEF Start, AuditStep, Restore, Exit, Inspect, LosslessStep, Capture, PersistBackups, Apply,
         Applied, Verify, CaptureAudit, PersistAudit, ApplyAudited, VerifyAudited,
         VerifyAuditedFails, FailAudit, FinalizeAudit, StartRestore, RestoreEntry, RestoreFails,
         CommitRestore
<1>3. mem'[p] \in {mem[p], progress, EmptyProgress}
  BY DEF EngineInv, TypeOK, Start, AuditStep, Restore, Exit, Inspect, LosslessStep, Capture,
         PersistBackups, Apply, Applied, Verify, CaptureAudit, PersistAudit, ApplyAudited,
         VerifyAudited, VerifyAuditedFails, FailAudit, FinalizeAudit, StartRestore, RestoreEntry,
         RestoreFails, CommitRestore
<1>4. /\ pc'[p] \notin {"write evidence", "read back", "verify evidence"}
      /\ pc'[p] = "complete" => row'[p] \notin Receipted
  <2>1. CASE LosslessStep(p) /\ ~CompleteRow(p)
    BY <1>1, <2>1
       DEF EngineInv, TypeOK, RowKnown, LosslessStep, Capture, PersistBackups, Apply, Applied,
           Verify, Lossless
  <2>2. CASE AuditStep(p)
    <3>1. /\ pc[p] \in AuditPoints \cup {"capture audit"}
          /\ pc'[p] \in AuditPoints \cup {"idle", "complete"}
          /\ pc'[p] = "complete" => row'[p] = row[p]
      BY <2>2
         DEF EngineInv, TypeOK, AuditStep, CaptureAudit, PersistAudit, ApplyAudited,
             VerifyAudited, VerifyAuditedFails, FailAudit, FinalizeAudit
    <3>2. row[p] \in Audited
      BY <1>1, <3>1 DEF RowKnown
    <3> QED BY <3>1, <3>2, ConstantsAssumption
  <2>3. CASE Start(p) \/ Restore(p) \/ Exit(p)
    BY <2>3
       DEF EngineInv, TypeOK, Start, Restore, Exit, StartRestore, RestoreEntry, RestoreFails,
           CommitRestore
  <2>4. CASE \E s \in Steps : Inspect(p, s)
    BY <2>4 DEF EngineInv, TypeOK, Inspect
  <2> QED BY <2>1, <2>2, <2>3, <2>4
<1>5. \A s \in Receipted : s \in mem'[p].completed => evidence[s] # None
  <2>1. EmptyProgress.completed = {}
    BY DEF EmptyProgress
  <2>2. \A s \in Receipted : s \in mem[p].completed => evidence[s] # None
    BY <1>1 DEF ReceiptKept
  <2>3. \A s \in Receipted : s \in progress.completed => evidence[s] # None
    BY <1>1 DEF ReceiptDurable
  <2>4. CASE mem'[p] = mem[p]
    BY <2>2, <2>4
  <2>5. CASE mem'[p] = progress
    BY <2>3, <2>5
  <2>6. CASE mem'[p] = EmptyProgress
    BY <2>1, <2>6
  <2> QED BY <1>3, <2>4, <2>5, <2>6
<1> QED BY <1>1, <1>2, <1>4, <1>5, ReceiptFrame DEF ReceiptDurable

(* While engine runs do not overlap, however often they are interrupted    *)
(* and repeated, a preparation recorded as completed has its receipt in    *)
(* evidence.json.  Overlapping runs may lose it: evidence.json is written  *)
(* outside the suite lock.                                                 *)
THEOREM LoneRunKeepsReceipts ==
  ASSUME \A p, q \in Procs : p = q
  PROVE  Spec => []ReceiptDurable
<1>1. Init => ReceiptInv
  BY DEF Init, ReceiptInv, ReceiptDurable, ReceiptKept, EmptyProgress
<1>2. ASSUME EngineInv, ReceiptInv, [Next]_vars PROVE ReceiptInv'
  <2>1. ASSUME NEW p \in Procs, Start(p) \/ Run(p) \/ Restore(p) \/ Exit(p) PROVE ReceiptInv'
    <3>1. \A q \in Procs : q = p
      OBVIOUS
    <3> QED
      BY <1>2, <2>1, <3>1, RecordReceipt, EvidenceReceipt, OtherReceipt DEF Run, LosslessStep
  <2>2. CASE ClearBackup \/ ResetProgress \/ HardwareChange \/ UNCHANGED vars
    <3>1. UNCHANGED <<evidence, mem, pc, row, file>>
      BY <2>2 DEF ClearBackup, ResetProgress, HardwareChange, vars
    <3>2. progress'.completed \subseteq progress.completed
      BY <2>2 DEF ClearBackup, ResetProgress, HardwareChange, vars, EmptyProgress
    <3>3. ReceiptDurable'
      BY <1>2, <3>1, <3>2 DEF ReceiptInv, ReceiptDurable
    <3>4. ASSUME NEW p \in Procs PROVE ReceiptKept(p)'
      BY <1>2, <3>1 DEF ReceiptInv, ReceiptKept
    <3> QED BY <3>3, <3>4 DEF ReceiptInv
  <2>3. CASE PowerLoss
    BY <1>2, <2>3, ReceiptFrame DEF ReceiptInv, ReceiptDurable, PowerLoss, EmptyProgress
  <2> QED BY <1>2, <2>1, <2>2, <2>3 DEF Next
<1>3. EngineInv /\ ReceiptInv /\ [Next]_vars => ReceiptInv'
  BY <1>2
<1>4. ReceiptInv => ReceiptDurable
  BY DEF ReceiptInv
<1> QED BY <1>1, <1>3, <1>4, EngineInvariant, PTL DEF Spec
=============================================================================
