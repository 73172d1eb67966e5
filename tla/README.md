# Formal models of frametime.cfg

`frametime.cfg` configures Windows and Counter-Strike 2 through a sequence of
catalogue rows that spans two reboots (normal boot, Safe Mode, normal boot).
Everything it relies on between two commands is a handful of files below
`C:\FRAMETIME_CFG`, two registry values and one BCD value, none of which can be
written together. The repository's host tests cover its Rust contracts; its
README says they "do not qualify ... filesystem races, or a complete reboot
sequence". These models cover that part: every durable write is a step of its
own, several processes run at once, and a process may be killed, a write may
fail and the machine may lose power between any two steps. The repository also
holds two tools that share no code with it, `driver-foundry` and `northclock`;
their stateful parts are modelled too.

Paths below are relative to `src/crates/`, those of the tools to `src/tools/`.

## Inventory

| Part | State it keeps | Operations | Interacts with |
|---|---|---|---|
| Reboot handoff checkpoints (`frametime-windows/src/reboot/`) | `state.json` (transaction: stage, initiating SID, runtime), `progress.json`, HKLM RunOnce, HKCU Run, BCD `safeboot` | P1:38 arm Safe Mode, P2:1 clear Safe Boot, P2:3 arm Phase 3, relaunch, clear | suite lock, authorization, published runtime |
| Reboot authorization (`frametime-domain/src/orchestration.rs`, `handoff.rs`, `migration.rs`) | none; reads a session and native evidence | one guard per `PhaseRequest` | every live command |
| Live workflow commands (`frametime-app/src/workflow.rs`, `workflow/live_commands.rs`) | the session in memory | optimize, boot-safe-mode, phase2, phase3, phase3-handoff, final-benchmark, reset-progress, restore, configure, ... | all of the others |
| Final and baseline benchmark bundles (`frametime-domain/src/benchmark.rs`, `frametime-windows/src/storage/persistence*.rs`) | receipt in `state.json`, capped `benchmark_history.json`, progress | persist, reconcile a prefix, validate | handoff clearing |
| Step engine (`frametime-domain/src/engine.rs`, `policy.rs`) | progress in memory | inspect, lossless / audited / evidence operation, skip, advisory | Backend trait |
| Live backend (`frametime-windows/src/backend/`) | transaction lock, captured bindings, `backup.json` | capture, persist, apply, verify, persist progress | adapters, recovery |
| Recovery (`backend/public.rs`, `storage/recovery.rs`) | `backup.json` | restore all or one row, clear-backup, reset-progress, export/import | suite lock |
| Irreversible audit (`storage/irreversible_audit.rs`) | `audit.json` | capture or take over, persist, fail, finalize | driver rows |
| Prerequisite evidence (`storage/evidence_*.rs`) | `evidence.json` | capture, persist with read-back, verify, demand | P1:18..P1:22, P3:2, P3:3 |
| Suite lock (`system/platform.rs`) | `backup.lock` | try-acquire, release with the handle | all writers but evidence |
| Row adapters (`frametime-windows/src/system/`, `driver/drs*`, `operations/`) | their surface of Windows, entries of `backup.json`, bindings in memory | capture, apply, verify, restore | live backend, recovery |
| Cleanup (`system/cleanup_native.rs`, `shader_cache/`) | retained handles of a tree, a report | preflight, walk, delete | other programs in the same directories |
| Runtime publication and launch (`trust/runtime_publish/`, `runtime_trust.rs`), package authentication (`trust/`) | runtime generations, `runtime-current.json`, open handles | authenticate, publish, retain, launch elevated | Phase 1, all runtime commands |
| Driver transaction (`driver/transaction*.rs`, `driver/capability/`) | `driver-transaction.json`, the artifact and its temporary file | prepare-nvidia, capture in Safe Mode, remove, install | P1:18, P1:19, P2:2, P3:1 |
| Desktop interface (`frametime-gui/src/`) | window, area, running operation, elevation watchdog | start an operation, poll, close, relaunch elevated | every command, a second instance |
| driver-foundry (`driver-foundry/crates/`) | work and prepared trees, outputs; a journal of clean actions | prepare, acquire, copy, export, archive; plan a clean | other programs |
| northclock (`northclock/crates/`) | settings, profile, measurements, history; plans and receipts; an ETW session | store, import, preview, apply, roll back, capture frames | other processes and programs |
| Catalogue, CLI, sensors and presentation | none between commands | | |

Hard behaviours: there is no rollback, so each multi-file checkpoint must be
safe to abandon after any prefix; commands authorize on a session read without
the lock and act later; the lock is tried and never waited for; Phase 2 and 3 are
started by Windows, possibly under another account, from a runtime that a
concurrent `optimize` may have replaced; settings written by an interrupted run
must not be mistaken for the user's originals; a restore runs days after the
capture, on a machine whose devices, files and settings may be others; a handle
protects a file only while it is open. `PROJECT.json` lists each of these hazards
at its line.

What makes each part correct, in one line: the workflow never loses its way
forward, its owner or its handoff; the engine and the adapters never lose the way
back to the user's values; a trusted file is the one that was verified at every
moment it is relied on; a tool never replaces what is not its own, never leaves
an unaccounted write, always returns.

## Modules

| Module | Models |
|---|---|
| `WorkDir` | `progress.json` operations and what becomes of `backup.lock` |
| `RebootHandoff` | the reboot workflow: commands, authorization, checkpoints, final benchmark bundle, logon and reboot |
| `RebootProtocol` | what that workflow promises, with neither processes nor files |
| `RebootRetry` | `RebootHandoff` with bounded interruptions and a user who retries: liveness |
| `StepEngine` | engine, live backend, audits, evidence, recovery commands |
| `EngineResume` | `StepEngine` with a user who resumes an interrupted run: liveness |
| `Pagefile`, `NetworkStack`, `Interrupts`, `GameConfig`, `DrsProfile`, `SystemRows` | one row adapter each: what it does to Windows and how it gets back |
| `Cleanup` | cleanup modes and the deletion of a tree through handles |
| `DriverTransaction` | preparation of the NVIDIA driver, as far as it comes: Windows refuses its rename |
| `RuntimeTrust` | package authentication, runtime publication, retention and launch |
| `DesktopShell` | the two window instances, their questions, worker and watchdog |
| `FoundryInstall`, `FoundryCatalog`, `FoundryClean` | driver-foundry's install pipeline, the selection it resolves, and the clean planner |
| `NorthclockStorage`, `NorthclockWrites`, `NorthclockTrace` | northclock's files, hardware writes and frame capture |
| `RebootHandoffProofs`, `StepEngineProofs`, `DesktopShellProofs` | theorems about the modules of those names |
| `AdapterProofs` | theorems about `NetworkStack`, `Pagefile` and `Cleanup` |
| `JournalProofs` | theorems about `DrsProfile`, `GameConfig`, `Interrupts` and `SystemRows` |
| `TrustProofs` | theorems about `RuntimeTrust` and `DriverTransaction` |
| `FoundryProofs` | theorems about `FoundryClean` and `FoundryInstall` |
| `NorthclockProofs` | theorems about `NorthclockStorage` and `NorthclockWrites` |
| `MC*` | instances for TLC; `MCAdapters` and `MCTools` hold the modules from `Pagefile` on |

### RebootHandoff

Machine: `boot`, `logon`, `safeboot` (BCD), `runOnce`, `run` (HKCU per user),
`selected`/`published` (runtime generations). Work directory: `state` (readiness,
transaction, receipt), `progress`, `history` (the P3:13 record only), `removal`
(durable P2:2 evidence), `lock`. A process has a program point `pc`, the account
`user` it runs under, the generation `exe` it was started from, the session `mem`
it loaded and its benchmark `capture`.

A command name as `pc` means "session loaded, not yet authorized"; the
`...Authorized` actions evaluate `authorize` with that session and with native
evidence read at that time. Checkpoints then take the lock, re-read state and
progress and write one durable object per action: RunOnce, safeboot, state,
progress for P1:38; safeboot, state, progress for P2:1; Run, state, progress for
P2:3; history, state, progress for P3:13. `Exit` is the end of a process for any
reason: a guard that refuses, a failed write or a kill, so no error path is left
out. `Reboot` is any restart or power loss. `EngineStep` records an engine row
with any outcome that `Outcomes` allows and writes the whole in-memory progress
back, as `LiveBackend::persist_progress` does.

The refinement to `RebootProtocol` reads owner and stage from `state.json` and
the handoff from the owner's Run value.

### StepEngine

Windows is `setting` (one value per setting), `effect` (irreversible changes that
have happened) and `hardware`. The work directory is `backup`, `pending` and
`settled` (audits), `evidence`, `progress`, `lock`. `forgotten` is a history
variable: settings that were changed when the user discarded `backup.json`.

`run_live_step` becomes `Inspect` and one chain of actions per kind of operation:
lossless (`Capture`, `PersistBackups`, `Apply` once per setting, `Applied`,
`Verify`, `CompleteRow`), audited (`CaptureAudit` ... `FinalizeAudit`) and
evidence (`LoadEvidence`, `WriteEvidence`, `ReadBack`, `VerifyEvidence`). The
sets `Audited`, `Receipted`, `Exact`, `CaptureBound`, `AdvisoryRows` and the
function `Requires` say of each row what the catalogue and the backend say.
Which rows policy and consent let through is a free choice (`RecordSkip`).
`Applied` may happen before every setting is written: an API may accept a write
without effect, and it is `Verify` that must notice.

The audited rows follow the Backend contract. At this commit live inspection
refuses P2:2 and P3:1; the model shows what the engine guarantees once it lets
them through with an operation that runs under the lock the audit already holds.

### The row adapters

`StepEngine` treats an adapter as one write per setting. The adapter modules show
what these writes are. Each has the row's capture, its journal entry, its writes
and verification, and a restore that re-identifies its target first; a process
may end, and a user, a driver panel or new hardware may intervene, between any
two calls to Windows. The suite lock keeps the commands of one work directory
apart, so that one command runs at a time in each.

- `Pagefile` (P1:8): automatic management off, update or create the system
  drive's setting, undo on failure, restore in four calls. The in-memory token of
  a created setting is lost with the process.
- `NetworkStack` (P1:16, recovery of P3:9): an adapter is a GUID joined with a
  PCI device; restore writes keyword, NLA value and key, and policy in turn.
- `Interrupts` (P3:2, P3:3): a batch over the present devices, journaled with
  `push_first_value` and written value by value.
- `GameConfig` (P1:34, CS2:CFG): two entries over overlapping files; bytes are
  the user's, an asset or a generated file with its minute; restore goes from the
  newest entry to the oldest and writes back what was captured, whatever the file
  holds by then. A file whose write or readback fails leaves its entry in the
  journal, and a command may restore one of the two steps on its own.
  `cfgOvertaken` is a history variable: the files of which a restore dropped an
  older record and left a younger one.
- `DrsProfile` (P3:4): load, change and save of a driver session; every capture
  adds an entry. Any call of a restore may fail; the entry is then retained and the
  restore goes on to the older ones. `drOvertaken` is a history variable: the oldest
  entry was dropped while a newer one was retained.
- `SystemRows`: registry rows with types, and the records of services, power
  plans, tasks, dynamic tick and HAGS, one action per Windows call, each of which
  may fail, with its effect or without. A read of a registry value that fails is
  recorded as an absent value, as one of an unsupported type is; `syLost` is a
  history variable: the values that were there and were recorded so.
- `Cleanup`: two walks over retained handles must agree before anything is
  deleted from the leaves up; a late failure is counted, never hidden.

### Trust, drivers and the desktop

`RuntimeTrust` has a step for every open, check, write and close. A handle
denies writing and deletion, so that a file can change exactly when no one holds
it (`TamperPackage`, `TamperTree`). `RebootHandoff` uses publication as one
step; what `RuntimeTrust` shows is why that is sound: a selected generation is
complete and authentic, and it stays selected while a runtime retains it.
`DriverTransaction` runs preparations side by side over one temporary file. It
stops where the code stops: the download is renamed while the handle that
created it, with share mode 0, is still open, `MoveFileExW` meets a sharing
violation, and `acquire` returns its error. No artifact and no record ever
appear, so what the code does with them (validation, the capture of P2:2,
removal, installation) has no state to run in and is not modelled.
`DesktopShell` has the unelevated and the elevated instance, each with its modal
question, worker and poll timer; a worker carries whether its operation asked
for administrator rights, which is what the code calls critical. `RebootHandoff`
and `StepEngine` take the outcome of the driver rows as an input.

At this commit `inspect_action` refuses P1:16, P2:2, P3:1 and P3:4 before the
engine reaches their captures. The modules model these operations from the point
where the Backend calls them, so that what they guarantee is known before the
inspection lets them through; the recovery of their records is reached today.

### The tools

`FoundryInstall` is one run beside other programs that create files or replace
the package it reads; `FoundryClean` is the planner, whose journal is all that
this build does. What a request resolves to is a parameter of `FoundryInstall`
(`Resolve`); `FoundryCatalog` computes it, with a recursive operator for the
dependency closure, and `MCTools` puts the two together. `NorthclockStorage`
interleaves the file operations of processes without a lock; `NorthclockWrites`
keeps plans and receipts as files that may be replayed; `NorthclockTrace` has
the two threads of a capture.

`MCAdapters` and `MCTools` put these modules side by side. The parts share no
state in the code, so a behaviour exercises the part that `focus` names and the
others stay at a fixed initial state; one run then checks each part completely,
without the product of parts that cannot interact.

### Data abstractions

A runtime generation stands for its files, hashes and identity; a capture for its
measured values, timestamp and receipt id (an exact retry supplies the same
capture); a setting value for the typed backup entry; a binding for the observed
devices. Files of the suite are read and written whole (the code uses atomic
replacement with read-back); northclock's are not, and there every file operation
is a step. In `RebootHandoff` publication is one step, enabled only while no
process retains the selected runtime. A transaction in `state.json` always
carries a valid id, SID and runtime, because `new_transaction` refuses others.

In the adapters a device, an install, a host or a GUID is an identity; file
bytes are tokens for whose they are; a registry value is a type and its data; a
power plan GUID is an identity and a spelling, because the code compares it as
text. In `RuntimeTrust` a signature check is membership in a set of pinned or
signed contents; three tests there compare an HRESULT with a plain Win32 code
(`runtime_trust.rs:503`, `publisher.rs:174` and `209`, `trust/windows.rs:390`)
and are never true, so that the code returns an error where the model may also
go on: the model has more behaviours than the code, and what is shown of it
holds of the code. In the foundry modules a path is the sequence of its names,
since containment matters, and a catalogue file stands for all of its lines. In
`NorthclockTrace` an event is a process and a time.

## Runs

| Run | Instance | Distinct states | Shows |
|---|---|---|---|
| `handoff_race` | 2 processes, 2 users, 2 generations, one Phase 1 row, P2:2, P3:1 | 1.55 M | checkpoint order, Safe Boot released, Run value bound to user and runtime, handoff retained until coherent, late work bound, session under lock current, transaction monotone, refinement of `RebootProtocol` |
| `handoff_retry` | 1 process, 2 Phase 1 rows (one authorized advisory), a Phase 3 row, 2 captures, 2 interruptions | 24 k | no command takes back a completed handoff row; a benchmark commit cut short anywhere is finished by its exact retry and the handoff is cleared |
| `arming_retry` (violation) | as above with 1 Phase 1 row, 1 interruption | | P1:38 is not retry-safe |
| `engine_race` | 2 processes, an audited row and a two-setting row | 172 k | originals recoverable, verification under lock, audit trail, entries dropped only when restored |
| `engine_receipts` (violation) | 2 processes, 2 preparation rows | | a receipt is lost to a concurrent run |
| `engine_resume` | 1 process, 6 rows (advisory, preparations, interrupts, GPU preference, Game Mode), any number of disturbances | 408 k | receipts of completed rows kept; resuming records every row, up to one that needs its capture again |
| `resume_refused` (violation) | 1 process, 2 rows | | an interrupted P1:30 is refused by every resumed run |
| `adapters` | seven parts, see below | 3.70 M | types; pagefile restore exact; network restore bound to its device and with an explained outcome; interrupt originals recoverable; a completed cleanup emptied its tree; NVIDIA profiles restored unless a retained entry was overtaken, system records restored but for values recorded as absent; a deployed game file has a record that covers it, unless a restore of one step overtook an older record of the file |
| `config_selected` (violation) | 1 install, restores of one step | | restoring the older transaction first loses the way back |
| `tools` | eight parts, see below | 0.59 M | types; an open download is its preparation's own; selected runtime authentic and retained one selected; foreign outputs kept, one source package, selection exact; scopes only add; stored files survive; writes accounted for; a capture returns; no window closes under an elevated worker |
| `pagefile_recovery` (violation) | `Pagefile` alone | | an updated pagefile setting is not restored |
| `driver_publish` (violation) | `DriverTransaction` alone, one preparer | | no retry of a preparation publishes a driver |

Why the bounds are enough. All interaction goes through the files, the registry
and one lock, so a harmful interleaving has one process that read and one that
wrote in between: two processes. Two users and two generations are the least
with which a binding can be wrong. A two-setting row has a state in which only
half of it is applied or restored. The final benchmark needs a capture that
disagrees with the persisted one: two. Interruptions are unbounded in the safety
runs and in those of `EngineResume`; `RebootRetry` allows two (`MaxFaults`), so
that a retry itself is cut short (`MarkersKept`, checked there, is proved for
any number). `adapters` and `tools` use the least instance in which each part's
target can be mistaken for another: two adapters and two cards, a display, a
network and a keyless media device, a tree of a directory and two files with two
foreign operations, two Drs entries, a supported and an unsupported registry
type, three preparers over one temporary file (one that has it open, one that
was killed, one that comes), two publishers or runtimes over two generations,
three foundry components in every dependency graph, three northclock processes
of which one is elevated, two traced processes. `Max...` constants bound what
users, programs and hardware do; one such change suffices where it may come
between any two steps, two where it has to be undone again. The game
configuration has two installs, because a restore must not take one for the
other, and a file in both kinds of entry, the least in which one captures what
the other deployed. `DrFocus` and `SyFocus` in `MCAdapters` start the two
largest parts from some of their initial states, so that the run stays short;
the panel, or the other records, lead to what the rest would show. Symmetry is
used for the processes of `engine_race` and for the installs of `adapters`,
which nothing tells apart but their names; neither run has a liveness property.

Fairness. `RetrySpec`: a running command goes on (`WF` of its steps and of its
end), the first logon happens, the machine is eventually restarted, and the user
tries every command again and again (`SF`, because a command can be started only
in its boot environment). `ResumeSpec`: the run is started again, goes on, and
ends when it is refused; kills, writes without effect, power losses and changes
of the hardware come any number of times, but not for ever (`Undisturbed`). Both
describe a user who retries, which is what the documents tell the user to do;
neither assumes that a guard accepts. `CompletionReleasesHandoff` and the
properties of `EngineResume` except by name the lock file that a power loss left
behind, which nothing in the code removes; the latter also a row whose
preparation has no receipt of the present hardware, which a preparation already
recorded does not observe again. `FairDtSpec` (in `driver_publish`): a
preparation under way is scheduled; nobody is obliged to start one,
`RetryPublishes` speaks of preparations that get their download again and again.
`NtFairness` (in `tools`): the operating system schedules both threads of a
capture, the sleep ends, and `ProcessTrace` returns once its session has stopped
or its handle is closed, as Windows documents; calls to stop may fail.

Deadlock is checked in the runs of the workflow and the engine: a command can
always be started, ended or interrupted, or refused again. In `adapters`
and `tools` it is not: a tool's run ends, without a game there is
nothing to deploy, and the bounds on outside events end the others.

Each property of a passing run has a mutant in `PROJECT.json`: an altered
definition (marked "Altered" in the modules, used by no specification) that
breaks the property under the run's own configuration.

## Findings

Places where the code does not do what a comment or a document says of it:

1. *Arming is not retry-safe* (`arming_retry`). Interrupted between `state.json`
   and `progress.json` of P1:38, the machine boots into Safe Mode with a
   transaction that no command accepts: `boot-safe-mode` and `optimize` refuse an
   active transaction, `phase2` demands a completed P1:38. P2:1 has the same
   window.
2. *Evidence is written without the lock* (`engine_receipts`). A completed
   preparation row can lose its receipt to a concurrent run.
3. *An updated pagefile setting cannot be restored* (`pagefile_recovery`).
   Restore looks the live instance up by the captured sizes, which P1:8 itself
   has replaced. The tests' store looks it up by its path.
4. *A downloaded driver is never published* (`driver_publish`). The comment in
   `acquire` says that a retry "atomically publishes the verified bytes". The rename
   is refused as long as the handle of the download, which shares nothing, is open,
   and it is closed only afterwards. Preparation fails on every machine, and with it
   P2:2 and P3:1.
5. *A selective restore can lose the user's CFG files* (`config_selected`). P1:34
   and CS2:CFG may cover the same file, and the younger entry then holds what the
   older one deployed. Restoring the older step on its own drops the only record
   of the user's bytes; restoring the younger one afterwards writes the deployed
   bytes back and drops its record too. A restore of everything is safe: it goes
   from the youngest entry to the oldest.
6. *An interrupted P1:30 or P1:34 is refused on every resume* (`resume_refused`).
   The CLI says "Start or resume native Phase 1", the GUI "Start / resume Phase 1".
   A run cut short between the apply and the progress record leaves the row
   satisfied, a satisfied row is not captured again, and its verification demands
   what only a capture retains. `ResumableRowsRecorded` says what is reached.

Disagreements met on the way that have no run of their own. The property named
with each states what the code does:

- `start_native_recovery` says "Closing this GUI is blocked until it reaches a safe
  result" (`actions.rs:370-374`). It is blocked for elevated operations only: the
  window may close while a backup is exported or a VProf capture is persisted
  (`DesktopClosesSafely`).
- `resolve_with_deps` says that it resolves the selection, required packages and
  their dependencies (`catalog.rs:82`). What a required package alone depends on is
  not added (`ResolvedExactly`).
- Recovery restores "in reverse capture order" (`public.rs:160`), but a profile
  entry that fails is retained while older ones are restored and dropped; its retry
  then writes back the suite's values and empties the journal (`DrsRestoreExact`,
  `drOvertaken`).
- A registry value whose read failed at the capture, for whatever reason, is
  recorded as absent and deleted by a restore (`registry.rs:58-62`, `77-82`), as is one
  of an unsupported type (`SystemRestored`, `syLost`).
- The driver's Safe Mode observation is stamped in local time and in a form that its
  validation does not parse (`capability/mod.rs:209`). No state that would show it is
  reachable, since no artifact is ever published (finding 4).

What the models showed and no document denies; the properties are stated around
these:

- an interrupted NLA restore leaves an empty key that its retry refuses;
- a suite power plan recorded in upper case is not found and stays;
- an optional foundry catalogue that cannot be read counts as empty;
  `clean_caches` replaces the shader caches of a full clean; outputs may lie
  inside the work directory;
- northclock's settings read as defaults between the two renames of a
  replacement (the data is in the backup file), and two first measurements may
  both write the CSV header;
- generations of interrupted publications are never collected, and the launcher
  waits for its child without a limit.

## Proofs

Every theorem holds for any values of the constants: any number of processes,
rows, settings, devices, files and values, and any bound `Max...`. Each proof has
an inductive invariant, defined at the end of the component's module, with one
lemma per action; the invariants were model-checked on the instances of the runs
before they were proved.

| Specification | Inductive invariant | What follows from it |
|---|---|---|
| `StepEngine` | `EngineInv` | `TypeOK`, `Recoverable`, `VerifiedUnderLock`, `AuditTrail`, action property `DroppedOnlyWhenRestored`; with `ReceiptInv` and one process, `ReceiptDurable` |
| `RebootHandoff` | `HandoffInv` | `TypeOK`, `LockedSessionCurrent`, `CheckpointOrder`, `SafeBootReleased`, `RunBoundToTransaction`, `HandoffRetained`, `LateWorkBound`, action properties `TransactionMonotone`, `ClearedOnlyWhenCoherent`, refinement `ImplementsProtocol`; with `LoneInv` and one process, action property `MarkersKept` |
| `NetworkStack` | `NsInv` | `NetworkRestoreOutcome`, action property `NetworkDeviceBound` |
| `Pagefile` | `PfInv` | `PagefileRestoreExact` |
| `Cleanup` | `ClInv` | action property `CompletedTreeEmptied` |
| `DrsProfile` | `DrInv` | `DrsRestoreExact` |
| `GameConfig` | `CfgInv` | `CfgTypeOK`, `DeployedFilesRecoverable` |
| `Interrupts` | `InInv` | `InterruptRecoverable` |
| `SystemRows` | `SyInv` | `SystemRestored` |
| `RuntimeTrust` | `RtInv` | `SelectedRuntimeAuthentic`, `RetainedRuntimeStays` |
| `DriverTransaction` | `DtInv` | `DownloadOwned` |
| `DesktopShell` | `DsInv` | `DesktopClosesSafely` |
| `FoundryClean` | `FcInv` | `ScopesOnlyAdd` |
| `FoundryInstall` | `FiInv` | `PreparedFromOneRoot`, action property `ForeignOutputsKept` |
| `NorthclockStorage` | `NcInv` | action property `StoredFilesSurvive` |
| `NorthclockWrites` | `NwInv` | `WritesAccounted` |

Assumptions. All are named `...Assumption` in the module that declares the
constants, and TLC evaluates them in the runs. They say that bounds are natural
numbers, that subsets are subsets, and that a sentinel (no process, no value, no
transaction, torn bytes) is not one of the values it stands beside. Those with
more content: rows have disjoint settings, and audited and evidence rows change
none (`StepEngine`); the rows of Phase 1 and Phase 3 are disjoint and neither
has a handoff row (`RebootHandoff`); there is an interface GUID and a PCI device
(`NetworkStack`); the executable is a payload file and the manifest is not
(`RuntimeTrust`); the system's affinity masks are levels (`NorthclockWrites`);
the assets, the present devices, a row's registry values and the objects of a
tree are finitely many (`GameConfig`, `Interrupts`, `SystemRows`, `Cleanup`),
since they are enumerated into sequences; the bytes of a file tell whether the
suite wrote them (`GameConfig`); a clean request is a record of the options the
code has (`FoundryClean`); a catalogue that passes its validation resolves to a
selection with its required ids (`FoundryInstall`). `LoneRunKeepsReceipts` and
`LoneCommandKeepsMarkers` assume one process at a time in their statement: with
two the first is refuted by `engine_receipts`, and the second by an engine run
that writes its older progress back.

### The engine

`Recoverable` alone is not inductive: `Apply` keeps it only if the
value was retained before (`ApplyCovered`), what was retained has to be the
original (`BackupTrue`), which `PersistBackups` keeps only if the capture still
describes the settings (`CaptureCurrent`), which in turn needs that nobody else
writes in between (`LockHeld`). Restores need `RestoreKnown`: what is about to be
dropped is back in place. Audits need `AuditKnown`, for the engine's memory too,
since the whole of it is written back. `ProcessInv(p)` collects what process `p`
relies on. The lemma `Frame` carries the concurrency: if a step leaves `q`'s own
variables alone, leaves the protected state alone while `q` holds the lock, and
only adds to settled audits, then `ProcessInv(q)` survives. Each action then has
one lemma of four parts: types, the other processes (by `Frame`), the moving
process, the machine.

`evidence.json` is outside the lock, so no frame protects it. `ReceiptKept` says
what a lone run may rely on: its memory completes no preparation without a
receipt, and the file it is about to write has every receipt of the one on disk.

### The reboot workflow

Here a process relies on more than the lock. It authorizes on a session that it
read without the lock, and it writes progress from memory. `SessionBehind` says
how such a session may differ from the one on disk: the persisted transaction has
only moved forward since. `RuntimeKept` says that a started runtime cannot be
replaced while it is retained, `CheckpointReady` what a checkpoint has already
written, `SessionHeld` that under the lock memory and disk agree. Together with
`Backed` (a recorded row has the state behind it) and `RuntimeSettled` (from
Phase 2 on no other runtime is selected) this is `HandoffInv`. Its own `Frame`
lemma needs of a step only that the transaction does not move back.

For `RefinesProtocol` the steps are split by what they write: a step that writes
neither `state.json`'s transaction nor a Run value is a stutter (`Elsewhere`);
each of the few others is one protocol step, or a stutter when it repeats a write.
`TransactionMonotone` and `ClearedOnlyWhenCoherent` use the same split.
`MarkersKept` splits by who writes `progress.json`: checkpoints write the session
they hold (`SessionHeld`), the engine what it has read (`LoneSession`), and
reset-progress empties it only while there is no transaction, and then `Backed`
leaves no completed handoff row to lose.

### The adapters

A restore makes its calls one after the other on whatever the machine is by then.
`StackProgress` and `PfProgress` say, for each call, what the calls before it have
achieved if nobody intervened. `NlaLeft` is the one trace that an interrupted
network restore leaves, and is why `NetworkRestoreOutcome` has to except it.
`EntrySound` and `BindingSound` connect a pagefile entry with what its capture
saw: without them a restore might take a created target for an updated one.
In `Cleanup` the count of deleted objects is right only if no object has two
handles and none is passed over: `OneTree`, `WalkedOnce` and `PassedGone` say so
for the two walks and for the deletion from the leaves up.

### The journaled rows

A row may run again over its own entries, fail half way or end with its process,
and so may a restore. What is recorded has to be a first value, so the invariants
are about the journal as much as about the machine.

- `Interrupts`: records hold first values (`RecordsOriginal`), a batch is recorded
  before it is written (`BatchRecorded`), and a record a restore has passed is
  retained or its value is back (`PassedRecords`).
- `SystemRows`: the same for every kind of record (`EntriesTrue`, `Recorded`,
  `RowJournaled`, `EntriesPassed`), but for a value in `syLost`, whose record says
  absent, while nobody else changes the machine.
- `DrsProfile`: entries are not deduplicated. Undisturbed, the suite reaches only
  three stores from the first one (`Reach`), and while no retained entry has been
  overtaken the oldest one stays the capture of the first: it is undone last.
- `GameConfig`: a younger entry may hold deployed bytes, but then an older one
  covers the same file (`Grounded`), and a restore still has the oldest entries
  left (`RestoreSound`). `Grounded` is what a selective restore breaks, for the
  files in `cfgOvertaken` and for no others.

Batches are appended by recursive functions over a sequence (`push_all`,
`sy_push_all`). What these compute is shown by induction stated for a set of
natural numbers (`SetInduction`), which follows from the library's well-founded
minimum without an operator parameter.

### driver-foundry

`FcInv` says that the journal of a clean is the union of what its stages so far
plan; `ScopesOnlyAdd` then compares stage by stage with the plan for fewer scopes.
`FiInv` follows the required components from the resolved selection
(`RequiredWanted`) through the copy (`RequiredReached`) to the prepared tree
(`PreparedWanted`), together with the package they come from.

### Trust, drivers and the desktop

In `RuntimeTrust` the rely conditions are handles, not a lock: `PackageOpen`,
`GenerationBuilt` and `RuntimeHeld` say what each open handle keeps true, and
`SelectionSound` what the selector may name. In `DriverTransaction`, which takes
no lock, the open handle protects the download: `DownloadOwned` is inductive
together with the types and the fact that nothing is ever published, since a
preparation that renames has its own handle open. In `DesktopShell` closing
relies on what the UI thread believes: `WorkerKnown` makes the belief true,
`QuestionHolds` keeps it true while a question is open, `AdminWatched` ties the
elevated instance to its parent.

### northclock

The processes of `NorthclockStorage` share files without a lock. `CopyKept` says
that every stored file has a copy no process is about to discard,
`ReplacementSound` that a process's own temporary and backup are what it put
there. The property is an action property because a legitimate replacement may
change the contents. `WritesAccounted` is about the moments between commands;
`CapturesAccounted` and `AffinityTaken` add what a running command may still
return to.

### Only model-checked

- Liveness (`RebootRetry`, `EngineResume`, `NorthclockTrace`, and `RetryPublishes`,
  which is violated): needs fairness.
- `ResolvedExactly`: `FoundryCatalog` computes the dependency closure with a
  recursive operator.
- `AdaptersTypeOK` and `ToolsTypeOK`, which collect the types of the parts side by
  side. What the proofs need of a part's types is in its inductive invariant.

## Not modelled

- Cryptography, the layout of signatures, catalogues and ACLs: whether a file is
  one of a pinned release.
- `configure`, backup export and import, the baseline benchmark bundle, FPS
  captures and the cap of the benchmark history.
- The step catalogue and its policy filters: a table and pure predicates; the
  models take rows and every outcome a policy may give as inputs.
- What follows the publication of a driver artifact (its record, the observation and
  capture of P2:2, removal, installation): no state in which it runs is reachable
  (finding 4).
- driver-foundry's live clean and live registry application, which this build
  refuses; download and archive extraction are one step each.
- northclock's sensors, VRAM test, WHEA and ROM readers: they keep nothing a
  later command relies on.
- Dry runs, verify, show-log, the command line, layout, text and rendering.

## Plan

1. `BenchmarkBundle`: baseline and final bundles with the capped history,
   `configure` and FPS captures in between; property: a coherent receipt is never
   made incoherent by a later capture.
2. The driver's record, removal and installation, once a download can be published.
3. `DeployedFilesJournaled` without the exception, once a selective restore takes
   younger entries of the same file into account.
