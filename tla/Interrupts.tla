----------------------------- MODULE Interrupts -----------------------------
(***************************************************************************)
(* The interrupt rows: P3:2 (MSI for every display, network and media      *)
(* device) and P3:3 (the affinity of the one wired NIC)                    *)
(* (crates/frametime-windows/src/system/interrupts.rs,                     *)
(* interrupt_registry.rs, interrupt_backend.rs, device_bindings.rs; the    *)
(* records are in crates/frametime-domain/src/backup/interrupt.rs).        *)
(*                                                                         *)
(* A batch is inspected, journaled value by value, and then written value  *)
(* by value: a device may come or go, the processor count may change, and  *)
(* the process may end between any two of these.                           *)
(***************************************************************************)
EXTENDS Integers, Sequences, FiniteSets, SequencesExt

CONSTANTS
  DisplayDevices, NetworkDevices,  \* PCI devices by class (media are like network)
  KeylessDevices,                  \* devices whose driver made no MSI key
  ProcessorCounts,                 \* logical processors of the one group
  NoValue,                         \* an absent registry value
  MaxHardwareChanges               \* bound

ASSUME InterruptsAssumption ==
  /\ ProcessorCounts \subseteq 0..65 /\ MaxHardwareChanges \in Nat
  /\ DisplayDevices \cap NetworkDevices = {}
  /\ IsFiniteSet(DisplayDevices) /\ IsFiniteSet(NetworkDevices)

VARIABLES
  inHardware,  \* the present, started devices and the processor count
  inValues,    \* registry value of each (device, policy)
  inFirst,     \* the value each had before the suite ever ran
  inBackup,    \* InterruptPolicy entries of backup.json, in capture order
  inBatch,     \* captured_msi_batches / captured_nic_affinity_bindings
  inPc, inAt,  \* the running command and the next change or entry of it
  inLeft,      \* entries the running restore has retained
  inChanged    \* hardware changes so far

inVars == <<inHardware, inValues, inFirst, inBackup, inBatch, inPc, inAt, inLeft, inChanged>>

\* binding: devices whose class, instance ID, driver and INF could be read.
IrqDevices == DisplayDevices \cup NetworkDevices
MsiPolicies == {"MSISupported", "MessageNumberLimit"}
NicPolicies == {"DevicePolicy", "AssignmentSetOverride"}
Slots == IrqDevices \X (MsiPolicies \cup NicPolicies)

\* enumerate_set, status: the devices that are present, started and without a
\* problem code, one per instance (resolve_present_status_ok_pci).
enumerate_present_status_ok_pci(hw) == hw.devices

\* interrupt_parameters_key, affinity_policy_key: a policy's key exists where
\* the driver made it.
open(slot) == slot[1] \notin KeylessDevices
\* A value is read as absent where the key is, too.
read_interrupt_value(slot) == inValues[slot]
\* write, delete: a write needs the key, a deletion does not.
write_interrupt_value(slot, value) ==
  IF value = NoValue \/ open(slot) THEN {[inValues EXCEPT ![slot] = value]} ELSE {}

\* final_logical_processor, assignment_set_override: the one bit of the mask is
\* the last processor's, if the group has 1 to 64 of them.
assignment_set_override(n) == IF n \in 1..64 THEN {n - 1} ELSE {}

Change(d, policy, value) == [slot |-> <<d, policy>>, value |-> value]

\* MsiDeviceBatch::build: MSI on, and a message limit for a display device.
build(d) ==
  <<Change(d, "MSISupported", 1)>>
    \o IF d \in DisplayDevices THEN <<Change(d, "MessageNumberLimit", 16)>> ELSE <<>>

\* build_msi_device_batches: one batch per device, in a fixed order.
build_msi_device_batches(devices) ==
  FlattenSeq([i \in 1..Cardinality(devices) |-> build(SetToSeq(devices)[i])])

\* discover_nic_affinity_binding: exactly one active wired adapter.
discover_nic_affinity_binding(hw) ==
  LET nics == enumerate_present_status_ok_pci(hw) \cap NetworkDevices IN
  {<<Change(d, "DevicePolicy", 4), Change(d, "AssignmentSetOverride", m)>> :
     d \in IF Cardinality(nics) = 1 THEN nics ELSE {},
     m \in assignment_set_override(hw.cpus)}

\* The changes of a row on the present hardware; none if it is not applicable.
Changes(row, hw) ==
  IF row = "P3:2" THEN {build_msi_device_batches(enumerate_present_status_ok_pci(hw))} \ {<<>>}
  ELSE discover_nic_affinity_binding(hw)

interrupt_changes_satisfied(changes) ==
  \A i \in DOMAIN changes : read_interrupt_value(changes[i].slot) = changes[i].value

\* reobserve_msi_batches; same_nic_affinity_subject: every device of the batch
\* is still present, and for P3:3 nothing at all has changed.
reobserve(b) ==
  IF b.row = "P3:2" THEN \A i \in DOMAIN b.changes :
       b.changes[i].slot[1] \in enumerate_present_status_ok_pci(inHardware)
  ELSE b.changes \in discover_nic_affinity_binding(inHardware)

\* dedupe_identity, push_first_value: an entry joins unless the same device
\* and policy already has one.
\* Mutant: a step that has entries takes no more.
push_first_valueAltered(entries, e) == IF entries # <<>> THEN entries ELSE Append(entries, e)
push_first_value(entries, e) ==
  IF \E i \in DOMAIN entries : entries[i].slot = e.slot THEN entries ELSE Append(entries, e)

\* BackupFile after every entry of a row has been pushed, in their order.
push_all(entries, new) ==
  LET pushed[k \in 0..Len(new)] ==
        IF k = 0 THEN entries ELSE push_first_value(pushed[k - 1], new[k])
  IN pushed[Len(new)]

\* capture_interrupt_backups: the value each change is about to replace.
capture_interrupt_backups(changes) ==
  [i \in DOMAIN changes |-> [slot |-> changes[i].slot, value |-> read_interrupt_value(changes[i].slot)]]

-----------------------------------------------------------------------------
InTypeOK ==
  /\ inHardware.devices \subseteq IrqDevices /\ inHardware.cpus \in ProcessorCounts
  /\ DOMAIN inValues = Slots /\ DOMAIN inFirst = Slots
  /\ inPc \in {"idle", "inspected", "journaled", "apply", "verify", "restore"}
  /\ inAt \in 0..(Len(inBackup) + Cardinality(Slots)) /\ inChanged \in 0..MaxHardwareChanges

InStart(devices, cpus, value) ==
  /\ inHardware = [devices |-> devices, cpus |-> cpus]
  /\ inValues = [s \in Slots |-> value]
  /\ inFirst = inValues /\ inBackup = <<>> /\ inLeft = <<>>
  /\ inBatch = {} /\ inPc = "idle" /\ inAt = 0 /\ inChanged = 0

InInit ==
  \E D \in (SUBSET IrqDevices) \ {{}}, n \in ProcessorCounts, v \in {NoValue, 0} : InStart(D, n, v)

InBatch == CHOOSE b \in inBatch : TRUE

InStep(from, to) ==
  /\ inPc = from /\ inPc' = to
  /\ UNCHANGED <<inHardware, inFirst, inChanged>>

\* inspect_interrupt_action: the batch is remembered; a satisfied row ends.
InInspect ==
  \E row \in {"P3:2", "P3:3"} : \E c \in Changes(row, inHardware) :
    /\ ~interrupt_changes_satisfied(c)
    /\ InStep("idle", "inspected")
    /\ inBatch' = {[row |-> row, changes |-> c]} /\ inAt' = 1
    /\ UNCHANGED <<inValues, inBackup, inLeft>>

\* capture_interrupt_action and persist_backups: all entries in one write.
InCapture ==
  LET entries == capture_interrupt_backups(InBatch.changes) IN
  /\ InStep("inspected", "journaled")
  /\ inBackup' = push_all(inBackup, entries)
  /\ UNCHANGED <<inValues, inBatch, inAt, inLeft>>

\* apply_msi_batches, apply_native_nic_affinity: reobserve once, then write.
InReobserve ==
  /\ InStep("journaled", IF reobserve(InBatch) THEN "apply" ELSE "idle")
  /\ inBatch' = IF reobserve(InBatch) THEN inBatch ELSE {}
  /\ inAt' = IF reobserve(InBatch) THEN inAt ELSE 0
  /\ UNCHANGED <<inValues, inBackup, inLeft>>

\* apply_interrupt_changes: a value is written into an existing key; a device
\* without the key ends the row with the earlier values written.
InWrite ==
  LET c == InBatch.changes[inAt]
      ok == write_interrupt_value(c.slot, c.value) # {}
      last == inAt = Len(InBatch.changes)
  IN /\ InStep("apply", IF ~ok THEN "idle" ELSE IF last THEN "verify" ELSE "apply")
     /\ inValues' \in IF ok THEN write_interrupt_value(c.slot, c.value) ELSE {inValues}
     /\ inAt' = IF ok /\ ~last THEN inAt + 1 ELSE 0
     /\ inBatch' = IF ok THEN inBatch ELSE {}
     /\ UNCHANGED <<inBackup, inLeft>>

\* verify_msi_batches, verify_native_nic_affinity; the row then ends, passed
\* or failed, with its entries in the backup.
InVerify ==
  /\ InStep("verify", "idle")
  /\ inBatch' = {} /\ UNCHANGED <<inValues, inBackup, inAt, inLeft>>

\* restore_matching visits the entries from the last to the first.
InRestore ==
  /\ inBackup # <<>> /\ InStep("idle", "restore")
  /\ inAt' = Len(inBackup) /\ inLeft' = <<>>
  /\ UNCHANGED <<inValues, inBackup, inBatch>>

\* restore_interrupt_backup: the device must be present; an absent original
\* is deleted, which a missing key satisfies.
restore_interrupt_backup(e) ==
  IF e.slot[1] \in enumerate_present_status_ok_pci(inHardware)
  THEN write_interrupt_value(e.slot, e.value) ELSE {}

InRestoreEntry ==
  LET e == inBackup[inAt]
      restored == restore_interrupt_backup(e) IN
  /\ inAt > 0 /\ InStep("restore", "restore")
  /\ inValues' \in IF restored # {} THEN restored ELSE {inValues}
  /\ inLeft' = IF restored # {} THEN inLeft ELSE <<e>> \o inLeft
  /\ inAt' = inAt - 1 /\ UNCHANGED <<inBackup, inBatch>>

\* Only what was not restored stays, in one atomic write.
InCommit ==
  /\ inAt = 0 /\ InStep("restore", "idle")
  /\ inBackup' = inLeft /\ inLeft' = <<>>
  /\ UNCHANGED <<inValues, inBatch, inAt>>

InCrash ==
  /\ inPc # "idle" /\ inPc' = "idle" /\ inBatch' = {} /\ inLeft' = <<>> /\ inAt' = 0
  /\ UNCHANGED <<inHardware, inValues, inFirst, inBackup, inChanged>>

\* Cards are added, removed or disabled; the firmware changes the processors.
InHardware ==
  /\ inChanged < MaxHardwareChanges /\ inChanged' = inChanged + 1
  /\ \E D \in SUBSET IrqDevices, n \in ProcessorCounts : inHardware' = [devices |-> D, cpus |-> n]
  /\ inHardware' # inHardware
  /\ UNCHANGED <<inValues, inFirst, inBackup, inBatch, inPc, inAt, inLeft>>

InNext ==
  \/ InInspect \/ InCapture \/ InReobserve \/ InWrite \/ InVerify
  \/ InRestore \/ InRestoreEntry \/ InCommit \/ InCrash \/ InHardware

-----------------------------------------------------------------------------
\* Every interrupt value that differs from what the machine came with has its
\* own entry with that first value, whatever devices came, went or were half
\* written in between (capture_interrupt_backups, push_first_value).
InterruptRecoverable ==
  \A s \in Slots : inValues[s] # inFirst[s] =>
    \E i \in DOMAIN inBackup : inBackup[i] = [slot |-> s, value |-> inFirst[s]]

-----------------------------------------------------------------------------
InSpec == InInit /\ [][InNext]_inVars

(* The inductive invariant of InterruptRecoverable.                          *)
InLevels == 0..64 \cup {NoValue}
InOriginals == {[slot |-> s, value |-> inFirst[s]] : s \in Slots}
InChanges == [slot : Slots, value : InLevels]
InBatches == [row : {"P3:2", "P3:3"}, changes : Seq(InChanges)]

InShape ==
  /\ inHardware \in [devices : SUBSET IrqDevices, cpus : ProcessorCounts]
  /\ inValues \in [Slots -> InLevels] /\ inFirst \in [Slots -> InLevels]
  /\ inPc \in {"inspected", "journaled", "apply"} =>
       inBatch = {InBatch} /\ InBatch \in InBatches /\ inAt \in DOMAIN InBatch.changes
  /\ inPc = "restore" => inAt \in 0..Len(inBackup)

\* What is recorded, or retained by a restore, is the value a slot had first.
RecordsOriginal == inBackup \in Seq(InOriginals) /\ inLeft \in Seq(InOriginals)

\* A batch is written only once every slot of it is recorded.
BatchRecorded ==
  inPc \in {"journaled", "apply"} =>
    \A k \in DOMAIN InBatch.changes :
      \E i \in DOMAIN inBackup : inBackup[i].slot = InBatch.changes[k].slot

\* A record that a restore has passed is retained, or its slot is as it was.
PassedRecords ==
  inPc = "restore" => \A i \in DOMAIN inBackup : i > inAt =>
    \/ \E j \in DOMAIN inLeft : inLeft[j] = inBackup[i]
    \/ inValues[inBackup[i].slot] = inFirst[inBackup[i].slot]

InInv == InShape /\ RecordsOriginal /\ BatchRecorded /\ PassedRecords /\ InterruptRecoverable
=============================================================================
