----------------------------- MODULE SystemRows -----------------------------
(***************************************************************************)
(* The registry rows (Game Mode, P1:30 GPU preference) and the recovery of *)
(* the records earlier versions left: services, power plans, scheduled     *)
(* tasks, the dynamic tick and HAGS (crates/frametime-windows/src/         *)
(* storage/recovery.rs, system/registry.rs, system/services.rs,            *)
(* system/cs2/registry.rs, operations/hags.rs, operations/action_runtime/).*)
(*                                                                         *)
(* A record is restored by several Windows calls; every call may fail,     *)
(* with or without its effect, the process may end and the user may change *)
(* things between two of them.                                             *)
(* A registry value is a type and its data.  A power plan's GUID is an     *)
(* identity and a spelling, upper case or not; powercfg prints lower case. *)
(***************************************************************************)
EXTENDS Naturals, Sequences, FiniteSets, SequencesExt, Functions

CONSTANTS
  BatchValues,       \* values the Game Mode batch writes
  GpuValue,          \* the GPU preference value of the game's executable
  RegTypes,          \* registry types, those the suite cannot represent too
  MaxSystemEvents    \* bound: changes by the user

ASSUME SystemRowsAssumption ==
  /\ GpuValue \notin BatchValues /\ {"DWord", "String", "Binary"} \cap RegTypes # {}
  /\ IsFiniteSet(BatchValues) /\ BatchValues # {} /\ MaxSystemEvents \in Nat

VARIABLES
  syNow,      \* the machine: values, service, plans, task, tick, HwSchMode
  syFirst,    \* what it was when its records were made
  syThere,    \* the same game install, interface and configuration as then
  syBackup,   \* entries of backup.json
  syRun,      \* entries of the row that runs, or the restore's retained ones
  syAt, syPc, \* where the command is
  syEvents,
  syLost      \* history: values that were there and were recorded as absent

syVars == <<syNow, syFirst, syThere, syBackup, syRun, syAt, syPc, syEvents, syLost>>

RegValues == BatchValues \cup {GpuValue}
NoData == [type |-> "none", data |-> 0]
Data(type, n) == [type |-> type, data |-> n]
RegContents == [type : RegTypes, data : {0}] \cup {NoData}
RowTarget(v) == IF v = GpuValue THEN Data("String", 2) ELSE Data("DWord", 1)
SUITE_POWER_PLAN_NAME == "frametime.cfg"

Representable(content) == content = NoData \/ content.type \in {"DWord", "String", "Binary"}
\* native_registry::read: what it cannot represent is reported as absent, and
\* so is every value whose key or size cannot be read: contains("2") holds of
\* any "Win32 registry error".
registry_read(v, failed) ==
  IF v \notin failed /\ Representable(syNow.values[v]) THEN syNow.values[v] ELSE NoData
registry_write(v, content) == [syNow EXCEPT !.values[v] = content]

\* The row's values; P1:30 has one, and only for an install it can find.
RowValues(row) == IF row = "P1:30" THEN <<GpuValue>> ELSE SetToSeq(BatchValues)
capture_registry(row, v, failed) ==
  [kind |-> "registry", row |-> row, value |-> v, original |-> registry_read(v, failed)]

SameIdentity(d, e) == d.kind = e.kind /\ (e.kind = "registry" => d.value = e.value)
\* Mutant: the later capture replaces the first.
sy_push_first_valueAltered(entries, e) ==
  Append(SelectSeq(entries, LAMBDA d : ~SameIdentity(d, e)), e)
\* dedupe_identity: step, path and name, or the kind alone.
sy_push_first_value(entries, e) ==
  IF \E k \in DOMAIN entries : SameIdentity(entries[k], e) THEN entries ELSE Append(entries, e)
sy_push_all(entries, new) ==
  LET pushed[k \in 0..Len(new)] ==
        IF k = 0 THEN entries ELSE sy_push_first_value(pushed[k - 1], new[k])
  IN pushed[Len(new)]

\* restore_registry's bindings: P1:4 and P1:30 need the captured executable,
\* P1:25 the interface, P1:14 the configured name; a catalog row needs none.
RestoreBound(e) == e.row \in {"P1:30", "P1:25", "P1:14"} => syThere

-----------------------------------------------------------------------------
SyTypeOK ==
  /\ DOMAIN syNow.values = RegValues
  /\ syNow.service \in [present : BOOLEAN, start : {"Automatic", "Manual", "Disabled"},
                        delayed : BOOLEAN, status : {"Running", "Stopped"}]
  /\ syNow.task \in {"absent", "enabled", "disabled"}
  /\ syNow.tick \in {"absent", "yes", "no"}
  /\ syThere \in BOOLEAN /\ syEvents \in 0..MaxSystemEvents /\ syLost \subseteq RegValues
  /\ syPc \in {"idle", "journal", "bind", "write", "verify", "restore", "delayed", "status",
               "readback", "deleteplan"}

Service(start, delayed, status) ==
  [present |-> TRUE, start |-> start, delayed |-> delayed, status |-> status]

\* The state an earlier version left: services off, its plan active, the task
\* and the tick changed, HAGS requested.
Legacy(values, first) ==
  [values |-> values, service |-> Service("Disabled", FALSE, "Stopped"),
   plans |-> [g \in {"user", "suite"} |->
                IF g = "suite" THEN SUITE_POWER_PLAN_NAME ELSE "Balanced"],
   active |-> "suite", task |-> IF first.task = "absent" THEN "enabled" ELSE "disabled",
   tick |-> "yes", hags |-> Data("DWord", 2)]

\* One earlier record, or none; the registry rows may add theirs to it.
SyRecords ==
  [kind : {"service"}, original : [start : {"Automatic", "Disabled"}, delayed : BOOLEAN,
                                   status : {"Running", "Stopped"}]]
    \cup [kind : {"plan"}, upper : SUBSET {"user", "suite"}]
    \cup [kind : {"task"}, original : {"absent", "enabled", "disabled"}]
    \cup [kind : {"tick"}, original : {"absent", "yes", "no"}]
    \cup [kind : {"hags"}, original : {NoData, Data("DWord", 1)}, pending : BOOLEAN]

Before(now, e) ==
  CASE e.kind = "service" ->
         [now EXCEPT !.service = Service(e.original.start, e.original.delayed, e.original.status)]
    [] e.kind = "plan" -> [now EXCEPT !.active = "user", !.plans = Restrict(@, {"user"})]
    [] e.kind = "task" -> [now EXCEPT !.task = e.original]
    [] e.kind = "tick" -> [now EXCEPT !.tick = e.original]
    [] e.kind = "hags" -> [now EXCEPT !.hags = e.original]

SyStart(content, record) ==
  LET task == IF record.kind = "task" THEN record.original ELSE "enabled"
      now == Legacy([v \in RegValues |-> content], [task |-> task])
  IN /\ syNow = now /\ syFirst = Before(now, record) /\ syThere = TRUE
     /\ syBackup = <<record>> /\ syRun = <<>> /\ syAt = 0 /\ syPc = "idle" /\ syEvents = 0
     /\ syLost = {}

SyInit == \E content \in RegContents, record \in SyRecords : SyStart(content, record)

SyStep(from, to) == syPc = from /\ syPc' = to /\ UNCHANGED <<syThere, syEvents>>

SyIdle(backup) ==
  /\ syPc' = "idle" /\ syRun' = <<>> /\ syAt' = 0 /\ syBackup' = backup

ValueRecorded(v) ==
  \E n \in DOMAIN syBackup : syBackup[n].kind = "registry" /\ syBackup[n].value = v

-----------------------------------------------------------------------------
\* inspect_action: a batch always needs its apply, and after a failed read
\* inspect_cs2_registry finds that P1:30 does too, whatever is there.
\* capture_actions: one entry per value, of a read that may fail again.
SyCapture ==
  \E row \in {"P1:30", "batch"} : \E failed \in SUBSET ToSet(RowValues(row)) :
    /\ row = "P1:30" => syThere
    /\ SyStep("idle", "journal")
    /\ syRun' = [k \in DOMAIN RowValues(row) |-> capture_registry(row, RowValues(row)[k], failed)]
    /\ syFirst' = [syFirst EXCEPT !.values =
         [v \in RegValues |-> IF ValueRecorded(v) THEN @[v] ELSE syNow.values[v]]]
    /\ syLost' = {v \in RegValues :
         IF ValueRecorded(v) THEN v \in syLost
         ELSE v \in ToSet(RowValues(row)) /\ registry_read(v, failed) # syNow.values[v]}
    /\ UNCHANGED <<syNow, syBackup, syAt>>

\* persist_backups.
SyJournal ==
  /\ SyStep("journal", "bind")
  /\ syBackup' = sy_push_all(syBackup, syRun)
  /\ UNCHANGED <<syNow, syFirst, syRun, syAt, syLost>>

\* apply_cs2_registry: the captured install must still be the one found.
reobserve_cs2_registry_binding ==
  /\ syPc = "bind"
  /\ IF syRun[1].row = "P1:30" /\ ~syThere THEN SyIdle(syBackup)
     ELSE syPc' = "write" /\ syAt' = 1 /\ UNCHANGED <<syRun, syBackup>>
  /\ UNCHANGED <<syNow, syFirst, syThere, syEvents, syLost>>

\* apply_action: value by value.
SyWrite ==
  /\ SyStep("write", IF syAt = Len(syRun) THEN "verify" ELSE "write")
  /\ syNow' = registry_write(syRun[syAt].value, RowTarget(syRun[syAt].value))
  /\ syAt' = syAt + 1 /\ UNCHANGED <<syFirst, syRun, syBackup, syLost>>

\* verify_action: the row passes or fails, or it has failed at one of its
\* writes; the entries stay.
SyVerify ==
  /\ syPc \in {"write", "verify"} /\ SyIdle(syBackup)
  /\ UNCHANGED <<syNow, syFirst, syThere, syEvents, syLost>>

-----------------------------------------------------------------------------
\* restore_matching, from the last entry to the first.
SyRestore ==
  /\ syBackup # <<>> /\ SyStep("idle", "restore")
  /\ syAt' = Len(syBackup) /\ UNCHANGED <<syNow, syFirst, syBackup, syRun, syLost>>

SyEntry == syBackup[syAt]
AtEntry(pc, kind) == syPc = pc /\ syAt > 0 /\ SyEntry.kind = kind

\* The entry is restored, or it failed and is retained.
SyEnds(ok) ==
  /\ syPc' = "restore" /\ syAt' = syAt - 1
  /\ syRun' = IF ok THEN syRun ELSE <<SyEntry>> \o syRun

SyKeep == UNCHANGED <<syFirst, syThere, syBackup, syEvents, syLost>>

\* The entry's last call, when it is possible: it succeeds, or it or its
\* read-back fails, with or without the effect.
SyAttempt(possible, after) ==
  \/ possible /\ SyEnds(TRUE) /\ syNow' = after
  \/ SyEnds(FALSE) /\ syNow' \in IF possible THEN {syNow, after} ELSE {syNow}

\* restore_registry: what did not exist is deleted, which fails where there is
\* nothing to delete; what existed is written back.
restore_registry ==
  LET e == SyEntry
      gone == syNow.values[e.value] = NoData
  IN /\ AtEntry("restore", "registry") /\ SyKeep
     /\ SyAttempt(RestoreBound(e) /\ (e.original = NoData => ~gone),
                  registry_write(e.value, e.original))

\* native_services::restore: the start type first.
restore_service ==
  /\ AtEntry("restore", "service") /\ SyKeep
  /\ \/ /\ syNow.service.present
        /\ syPc' = "delayed" /\ UNCHANGED <<syAt, syRun>>
        /\ syNow' = [syNow EXCEPT !.service.start = SyEntry.original.start]
     \/ SyEnds(FALSE) /\ UNCHANGED syNow

configure_delayed_auto_start ==
  /\ AtEntry("delayed", "service") /\ SyKeep
  /\ \/ /\ syPc' = "status" /\ UNCHANGED <<syAt, syRun>>
        /\ syNow' = [syNow EXCEPT !.service.delayed = SyEntry.original.delayed]
     \/ SyEnds(FALSE) /\ UNCHANGED syNow

\* StartServiceW refuses a disabled service; wait_for_state gives up after its
\* attempts, whatever the service does later.
wait_for_state ==
  LET to == SyEntry.original.status
      started == to = "Stopped" \/ syNow.service.status = "Running"
                   \/ syNow.service.start # "Disabled"
  IN /\ AtEntry("status", "service") /\ SyKeep
     /\ \/ /\ started /\ syPc' = "readback" /\ UNCHANGED <<syAt, syRun>>
           /\ syNow' = [syNow EXCEPT !.service.status = to]
        \/ /\ SyEnds(FALSE)
           /\ syNow' \in {syNow} \cup
                IF started THEN {[syNow EXCEPT !.service.status = to]} ELSE {}

query_config ==
  LET o == SyEntry.original IN
  /\ AtEntry("readback", "service") /\ SyKeep
  /\ SyAttempt(syNow.service = Service(o.start, o.delayed, o.status), syNow)

\* restore_power_plan: the original plan becomes active and is read back; an
\* upper-case original never compares equal to what powercfg prints.
restore_power_plan ==
  LET active == [syNow EXCEPT !.active = "user"] IN
  /\ AtEntry("restore", "plan") /\ SyKeep
  /\ \/ /\ "user" \notin SyEntry.upper
        /\ syNow' = active /\ syPc' = "deleteplan" /\ UNCHANGED <<syAt, syRun>>
     \/ SyEnds(FALSE) /\ syNow' \in {syNow, active}

\* A suite plan that is found by its exact spelling is deleted, if it still
\* has the suite's name; one that is not found is skipped.
SyDeletePlan ==
  LET found == "suite" \in DOMAIN syNow.plans /\ "suite" \notin SyEntry.upper
  IN /\ AtEntry("deleteplan", "plan") /\ SyKeep
     /\ SyAttempt(found => syNow.plans["suite"] = SUITE_POWER_PLAN_NAME,
                  IF found THEN [syNow EXCEPT !.plans = Restrict(@, {"user"})] ELSE syNow)

\* native_task_scheduler::restore: a created task is deleted, another one
\* enabled or disabled; a missing one fails.
restore_debloat_task ==
  /\ AtEntry("restore", "task") /\ SyKeep
  /\ SyAttempt(syNow.task # "absent", [syNow EXCEPT !.task = SyEntry.original])

\* restore_boot: bcdedit /deletevalue fails on an absent element.
restore_boot ==
  /\ AtEntry("restore", "tick") /\ SyKeep
  /\ SyAttempt(SyEntry.original # "absent" \/ syNow.tick # "absent",
               [syNow EXCEPT !.tick = SyEntry.original])

\* restore_hags_entry: only a pending receipt; an acknowledged one is refused.
restore_hags_entry ==
  /\ AtEntry("restore", "hags") /\ SyKeep
  /\ SyAttempt(SyEntry.pending /\ (SyEntry.original = NoData => syNow.hags # NoData),
               [syNow EXCEPT !.hags = SyEntry.original])

SyCommit ==
  /\ syPc = "restore" /\ syAt = 0 /\ SyIdle(syRun)
  /\ UNCHANGED <<syNow, syFirst, syThere, syEvents, syLost>>

SyCrash ==
  /\ syPc # "idle" /\ SyIdle(syBackup) /\ UNCHANGED <<syNow, syFirst, syThere, syEvents, syLost>>

\* The user, another program or an update changes one of the things above.
SyChanges ==
  /\ syEvents < MaxSystemEvents /\ syEvents' = syEvents + 1
  /\ \/ syThere' = ~syThere /\ UNCHANGED syNow
     \/ /\ UNCHANGED syThere
        /\ syNow' \in
             {[syNow EXCEPT !.values[v] = c] : v \in RegValues, c \in RegContents}
               \cup {[syNow EXCEPT !.service = s] :
                       s \in {Service("Manual", FALSE, "Stopped"),
                              [Service("Disabled", FALSE, "Stopped") EXCEPT !.present = FALSE]}}
               \cup {[syNow EXCEPT !.plans[g] = "renamed"] : g \in DOMAIN syNow.plans \ {"user"}}
               \cup {[syNow EXCEPT !.task = "absent"], [syNow EXCEPT !.tick = "absent"]}
        /\ syNow' # syNow
  /\ UNCHANGED <<syFirst, syBackup, syRun, syAt, syPc, syLost>>

SyNext ==
  \/ SyCapture \/ SyJournal \/ reobserve_cs2_registry_binding \/ SyWrite \/ SyVerify
  \/ SyRestore \/ restore_registry \/ restore_service \/ configure_delayed_auto_start
  \/ wait_for_state \/ query_config \/ restore_power_plan \/ SyDeletePlan
  \/ restore_debloat_task \/ restore_boot \/ restore_hags_entry
  \/ SyCommit \/ SyCrash \/ SyChanges

-----------------------------------------------------------------------------
\* When recovery has emptied backup.json and nobody else has changed anything,
\* every registry value, the service, the active power plan, the task, the
\* tick and HwSchMode are what they were before the suite touched them,
\* whatever calls failed and wherever the process ended on the way
\* (recovery.rs, services.rs).  The one exception is a value that was there
\* and was recorded as absent, because its type has no representation or
\* because its read failed at the capture (registry.rs): that one is as it was
\* or deleted.  A suite plan recorded in upper case is not found and stays.
SystemRestored ==
  syPc = "idle" /\ syBackup = <<>> /\ syEvents = 0 =>
    /\ \A v \in RegValues :
         syNow.values[v] = syFirst.values[v] \/ (v \in syLost /\ syNow.values[v] = NoData)
    /\ \A thing \in {"service", "active", "task", "tick", "hags"} : syNow[thing] = syFirst[thing]

-----------------------------------------------------------------------------
SySpec == SyInit /\ [][SyNext]_syVars

(* The inductive invariant of SystemRestored.                                *)
SyContents == RegContents \cup {RowTarget(v) : v \in RegValues}
SyMachines ==
  [values : [RegValues -> SyContents],
   service : [present : BOOLEAN, start : {"Automatic", "Manual", "Disabled"}, delayed : BOOLEAN,
              status : {"Running", "Stopped"}],
   plans : UNION {[D -> {SUITE_POWER_PLAN_NAME, "Balanced"}] : D \in {{"user"}, {"user", "suite"}}},
   active : {"user", "suite"}, task : {"absent", "enabled", "disabled"},
   tick : {"absent", "yes", "no"}, hags : {NoData, Data("DWord", 1), Data("DWord", 2)}]
SyEntries ==
  SyRecords \cup [kind : {"registry"}, row : {"P1:30", "batch"}, value : RegValues, original : SyContents]
SyKinds == {"service", "plan", "task", "tick", "hags"}
RowPcs == {"journal", "bind", "write", "verify"}
RestorePcs == {"restore", "delayed", "status", "readback", "deleteplan"}

\* A value or a thing is as it was; a value recorded as absent may be deleted.
ValueBack(v) ==
  syNow.values[v] = syFirst.values[v] \/ (v \in syLost /\ syNow.values[v] = NoData)
ThingBack(kind) ==
  /\ kind = "service" => syNow.service = syFirst.service
  /\ kind = "plan" => syNow.active = syFirst.active
  /\ kind = "task" => syNow.task = syFirst.task
  /\ kind = "tick" => syNow.tick = syFirst.tick
  /\ kind = "hags" => syNow.hags = syFirst.hags
EntryBack(e) == IF e.kind = "registry" THEN ValueBack(e.value) ELSE ThingBack(e.kind)

\* An entry holds what was there first, or nothing of a lost value.
EntryTrue(e) ==
  /\ e.kind = "registry" =>
       e.original = IF e.value \in syLost THEN NoData ELSE syFirst.values[e.value]
  /\ e.kind = "service" =>
       syFirst.service = Service(e.original.start, e.original.delayed, e.original.status)
  /\ e.kind = "plan" => syFirst.active = "user"
  /\ e.kind = "task" => syFirst.task = e.original
  /\ e.kind = "tick" => syFirst.tick = e.original
  /\ e.kind = "hags" => syFirst.hags = e.original

ThingRecorded(kind) == \E n \in DOMAIN syBackup : syBackup[n].kind = kind

SyShape ==
  /\ syNow \in SyMachines /\ syFirst \in SyMachines /\ syThere = TRUE
  /\ syBackup \in Seq(SyEntries) /\ syRun \in Seq(SyEntries)
  /\ syPc \in {"idle"} \cup RowPcs \cup RestorePcs
  /\ syPc = "idle" => syRun = <<>>
  /\ syPc \in {"journal", "bind", "write"} => syRun # <<>>
  /\ syPc = "write" => syAt \in DOMAIN syRun
  /\ syPc \in RestorePcs => syAt \in 0..Len(syBackup)
  /\ syPc \in RestorePcs \ {"restore"} => syAt # 0
  /\ syPc \in {"delayed", "status", "readback"} => SyEntry.kind = "service"
  /\ syPc = "deleteplan" => SyEntry.kind = "plan" /\ syNow.active = "user"

EntriesTrue ==
  /\ \A n \in DOMAIN syBackup : EntryTrue(syBackup[n])
  /\ syPc \in RestorePcs => \A n \in DOMAIN syRun : EntryTrue(syRun[n])

\* What is not as it was has an entry.
Recorded ==
  /\ \A v \in RegValues : ValueRecorded(v) \/ ValueBack(v)
  /\ \A kind \in SyKinds : ThingRecorded(kind) \/ ThingBack(kind)

\* A row captured the present values; from its journal on they are recorded.
RowJournaled ==
  /\ syPc = "journal" =>
       \A k \in DOMAIN syRun :
         /\ syRun[k].kind = "registry"
         /\ ValueRecorded(syRun[k].value) \/ EntryTrue(syRun[k])
  /\ syPc \in {"bind", "write"} =>
       \A k \in DOMAIN syRun : syRun[k].kind = "registry" /\ ValueRecorded(syRun[k].value)

\* An entry that a restore has passed is retained, or what it is about is back.
EntriesPassed ==
  syPc \in RestorePcs => \A i \in DOMAIN syBackup : i > syAt =>
    (\E j \in DOMAIN syRun : syRun[j] = syBackup[i]) \/ EntryBack(syBackup[i])

SyInv ==
  syEvents = 0 => SyShape /\ EntriesTrue /\ Recorded /\ RowJournaled /\ EntriesPassed
=============================================================================
