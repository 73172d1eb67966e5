----------------------------- MODULE GameConfig -----------------------------
(***************************************************************************)
(* The managed CFG files of the game: row P1:34 and the one-shot optional  *)
(* deployment CS2:CFG (crates/frametime-domain/src/cs2_config.rs,          *)
(* cs2_config/targets.rs, backup/cs2_config.rs;                            *)
(* crates/frametime-windows/src/system/cs2/config.rs, cs2/fs.rs;           *)
(* backend/public.rs).                                                     *)
(*                                                                         *)
(* Both journal the bytes of a closed set of files in one entry and then   *)
(* replace the files one at a time.  Their sets overlap, so one file may   *)
(* have two entries, and the bytes the second one captured are then those  *)
(* the first one deployed.                                                 *)
(***************************************************************************)
EXTENDS Naturals, Sequences, FiniteSets, SequencesExt

CONSTANTS
  CfgInstalls,     \* game installations SteamPath may lead to
  CfgAssets,       \* embedded optional CFG assets
  LegacyAssets,    \* those the P1:34 request always includes
  UserBytes,       \* contents the user may give a file
  OversizedBytes,  \* those above CS2_CONFIG_MAX_FILE_BYTES
  NoFile,          \* an absent file
  CfgSelections,   \* which steps a restore command may select
  MaxMinutes, MaxCfgEvents  \* bounds: clock minutes; edits and moved installs

ASSUME GameConfigAssumption ==
  /\ IsFiniteSet(CfgAssets) /\ LegacyAssets \subseteq CfgAssets
  /\ OversizedBytes \subseteq UserBytes /\ NoFile \notin CfgInstalls
  /\ CfgSelections \subseteq SUBSET {"P1:34", "CS2:CFG"}
  /\ MaxMinutes \in Nat /\ MaxCfgEvents \in Nat

VARIABLES
  cfgFiles,    \* bytes of every target of every install
  cfgBak,      \* optimization.cfg.bak of every install
  cfgInstall,  \* the install SteamPath leads to; NoFile if there is none
  cfgMinute,   \* the clock, as the generated file shows it
  cfgBackup,   \* Cs2ConfigTransaction entries of backup.json
  cfgRun,      \* the running transaction: entry, request and targets left
  cfgRestore,  \* the running restore: entries left, retained ones, selection
  cfgPc, cfgEvents,
  cfgOvertaken \* history: files of which a restore dropped an older record only

cfgVars ==
  <<cfgFiles, cfgBak, cfgInstall, cfgMinute, cfgBackup, cfgRun, cfgRestore, cfgPc, cfgEvents,
    cfgOvertaken>>

Optimization == "optimization.cfg"
CfgTargets == CfgAssets \cup {Optimization}

\* for_request, for_optional_assets: the closed, ordered write set of a step.
for_request == <<Optimization>> \o SetToSeq(LegacyAssets)
for_optional_assets(assets) == SetToSeq(assets)

\* render_optimization_cfg_at: the generated file carries the request's minute;
\* OptionalCfgAsset::bytes: an embedded asset never changes.
Rendered(f, minute) ==
  IF f = Optimization THEN [suite |-> f, at |-> minute] ELSE [suite |-> f, at |-> 0]
SuiteBytes == {Rendered(f, t) : f \in CfgTargets, t \in 0..MaxMinutes}

\* Bytes are tokens for whose they are.
ASSUME WhoseBytesAssumption == SuiteBytes \cap (UserBytes \cup {NoFile}) = {}

\* read_file, atomic_replace, remove_file below the trusted cfg directory: each
\* is one replacement of a whole file; bytes of NoFile remove it.
read_file(i, f) == cfgFiles[i][f]
atomic_replace(i, f, bytes) == [cfgFiles EXCEPT ![i][f] = bytes]

\* discover_cs2_install_from_hkcu, discover_steam_libraries: the install that
\* SteamPath leads to now.
discover_cs2_install == {cfgInstall} \ {NoFile}

\* Cs2ConfigController::verify, verify_optional_assets: exact readback.
verify(i, targets, minute) ==
  \A k \in DOMAIN targets : read_file(i, targets[k]) = Rendered(targets[k], minute)

\* capture_targets, validate_snapshot_bytes: nothing is captured of a set with
\* a file above the limit.
capture_targets(step, i, targets) ==
  [step |-> step, install |-> i, targets |-> targets,
   bytes |-> [k \in DOMAIN targets |-> read_file(i, targets[k])]]
Capturable(i, targets) == \A k \in DOMAIN targets : read_file(i, targets[k]) \notin OversizedBytes

\* dedupe_identity: a transaction is known by step, install and target names.
cfg_dedupe_identity(e) == <<e.step, e.install, e.targets>>
cfg_push_first_value(entries, e) ==
  IF \E n \in DOMAIN entries : cfg_dedupe_identity(entries[n]) = cfg_dedupe_identity(e)
  THEN entries ELSE Append(entries, e)

\* restore_order: the last captured entry first.
\* Mutant: entries are restored in the order they were captured.
restore_orderAltered(entries) == entries
restore_order(entries) == Reverse(entries)

-----------------------------------------------------------------------------
CfgTypeOK ==
  /\ cfgInstall \in CfgInstalls \cup {NoFile}
  /\ \A i \in CfgInstalls : \A f \in CfgTargets :
       cfgFiles[i][f] \in SuiteBytes \cup UserBytes \cup {NoFile}
  /\ cfgPc \in {"idle", "journal", "reobserve", "write", "verify", "restore"}
  /\ cfgMinute \in 0..MaxMinutes /\ cfgEvents \in 0..MaxCfgEvents
  /\ cfgOvertaken \subseteq CfgInstalls \X CfgTargets

CfgStart(bytes, install) ==
  /\ cfgFiles = [i \in CfgInstalls |-> [f \in CfgTargets |-> bytes]]
  /\ cfgBak = [i \in CfgInstalls |-> NoFile]
  /\ cfgInstall = install
  /\ cfgMinute = 0 /\ cfgBackup = <<>> /\ cfgRun = <<>> /\ cfgRestore = <<>>
  /\ cfgPc = "idle" /\ cfgEvents = 0 /\ cfgOvertaken = {}

CfgInit == \E u \in UserBytes \cup {NoFile}, i \in CfgInstalls : CfgStart(u, i)

CfgStep(from, to) ==
  /\ cfgPc = from /\ cfgPc' = to
  /\ cfgRun' = IF to = "idle" THEN <<>> ELSE cfgRun
  /\ cfgRestore' = IF to = "idle" THEN <<>> ELSE cfgRestore
  /\ UNCHANGED <<cfgInstall, cfgMinute, cfgEvents>>

CfgBegin(step, targets) ==
  /\ cfgPc = "idle" /\ cfgPc' = "journal"
  /\ \E i \in discover_cs2_install :
       /\ Capturable(i, targets)
       /\ cfgRun' = <<[entry |-> capture_targets(step, i, targets),
                       minute |-> cfgMinute, left |-> targets]>>
  /\ UNCHANGED <<cfgFiles, cfgBak, cfgInstall, cfgMinute, cfgBackup, cfgRestore, cfgEvents,
                 cfgOvertaken>>

\* inspect_cs2_config and capture_cs2_config: a row that verifies at the
\* present minute is satisfied; otherwise the closed set is captured.
capture_cs2_config ==
  /\ \A i \in discover_cs2_install : ~verify(i, for_request, cfgMinute)
  /\ CfgBegin("P1:34", for_request)

\* deploy_optional_cs2_cfgs, up to the capture; it always deploys.
deploy_optional_cs2_cfgs ==
  \E assets \in (SUBSET CfgAssets) \ {{}} : CfgBegin("CS2:CFG", for_optional_assets(assets))

\* push_first_value and the atomic write of backup.json.
CfgJournal ==
  /\ CfgStep("journal", "reobserve")
  /\ cfgBackup' = cfg_push_first_value(cfgBackup, cfgRun[1].entry)
  /\ UNCHANGED <<cfgFiles, cfgBak, cfgOvertaken>>

\* reobserve_cs2_config_binding, reobserve_trusted_cs2_config_install: the
\* install must still be the captured one.  P1:34 goes on with
\* create_optimization_backup, which keeps an earlier .bak.
CfgReobserve ==
  LET e == cfgRun[1].entry
      bound == e.install \in discover_cs2_install
      old == read_file(e.install, Optimization)
  IN /\ CfgStep("reobserve", IF bound THEN "write" ELSE "idle")
     /\ cfgBak' = IF bound /\ e.step = "P1:34" /\ cfgBak[e.install] = NoFile
                  THEN [cfgBak EXCEPT ![e.install] = old] ELSE cfgBak
     /\ UNCHANGED <<cfgFiles, cfgBackup, cfgOvertaken>>

\* Cs2ConfigController::apply, apply_optional_assets_if_unchanged: one atomic
\* replacement per target; only the optional deployment first compares the
\* file with its snapshot.
CfgWrite ==
  LET e == cfgRun[1].entry
      f == Head(cfgRun[1].left)
      at == Len(e.targets) - Len(cfgRun[1].left) + 1
  IN /\ cfgPc = "write"
     /\ IF e.step = "CS2:CFG" /\ read_file(e.install, f) # e.bytes[at]
        THEN cfgPc' = "idle" /\ cfgRun' = <<>> /\ UNCHANGED cfgFiles
        ELSE /\ cfgFiles' = atomic_replace(e.install, f, Rendered(f, cfgRun[1].minute))
             /\ cfgRun' = <<[cfgRun[1] EXCEPT !.left = Tail(@)]>>
             /\ cfgPc' = IF Tail(cfgRun[1].left) = <<>> THEN "verify" ELSE "write"
     /\ UNCHANGED <<cfgBak, cfgInstall, cfgMinute, cfgBackup, cfgRestore, cfgEvents,
                    cfgOvertaken>>

\* verify_cs2_config: it passes or fails; the entry stays either way.
CfgVerify == CfgStep("verify", "idle") /\ UNCHANGED <<cfgFiles, cfgBak, cfgBackup, cfgOvertaken>>

\* restore_all, restore_selected.
CfgRestore ==
  \E steps \in CfgSelections :
    /\ cfgPc = "idle" /\ cfgPc' = "restore" /\ cfgBackup # <<>>
    /\ cfgRestore' = <<[left |-> restore_order(cfgBackup), kept |-> <<>>, steps |-> steps,
                        at |-> 1]>>
    /\ UNCHANGED <<cfgFiles, cfgBak, cfgInstall, cfgMinute, cfgBackup, cfgRun, cfgEvents,
                   cfgOvertaken>>

\* validate_cs2_config_transaction, validate_optional_cs2_config_transaction:
\* the entry belongs to the install found now.
Restorable(e) == e.install \in discover_cs2_install

Retained(r) == Head(r.left).step \notin r.steps \/ ~Restorable(Head(r.left))
RestoredFiles(r) ==
  LET e == Head(r.left) IN atomic_replace(e.install, e.targets[r.at], e.bytes[r.at])

\* restore_targets: one file per step, written or removed, until the entry is
\* done.
CfgRestoreStep ==
  LET r == cfgRestore[1]
      last == r.at = Len(Head(r.left).targets)
  IN /\ cfgPc = "restore" /\ r.left # <<>> /\ ~Retained(r)
     /\ cfgFiles' = RestoredFiles(r)
     /\ cfgRestore' = <<[r EXCEPT !.left = IF last THEN Tail(@) ELSE @,
                                  !.at = IF last THEN 1 ELSE @ + 1]>>
     /\ UNCHANGED <<cfgBak, cfgInstall, cfgMinute, cfgBackup, cfgRun, cfgPc, cfgEvents,
                    cfgOvertaken>>

\* restore_matching: an entry of another step or another install, or one with a
\* file whose write or readback fails, is retained, and the next one has its turn.
CfgRestoreKeep ==
  LET r == cfgRestore[1]
  IN /\ cfgPc = "restore" /\ r.left # <<>>
     /\ cfgFiles' \in {cfgFiles} \cup (IF Retained(r) THEN {} ELSE {RestoredFiles(r)})
     /\ cfgRestore' = <<[r EXCEPT !.left = Tail(@), !.kept = <<Head(r.left)>> \o @, !.at = 1]>>
     /\ UNCHANGED <<cfgBak, cfgInstall, cfgMinute, cfgBackup, cfgRun, cfgPc, cfgEvents,
                    cfgOvertaken>>

\* An entry covers the files it captured.
Covers(e, x) == e.install = x[1] /\ x[2] \in ToSet(e.targets)

\* Files with an entry that stays although an older one does not stay before it.
Overtaken(before, after) ==
  {x \in CfgInstalls \X CfgTargets :
     \E n \in DOMAIN before : \E m \in 1..(n - 1) :
       /\ Covers(before[m], x) /\ Covers(before[n], x)
       /\ \E b \in DOMAIN after : after[b] = before[n] /\ \A a \in 1..(b - 1) : after[a] # before[m]}

\* restore_matching, its end: what was not restored is retained, in order.
CfgRestoreCommit ==
  /\ cfgPc = "restore" /\ cfgRestore[1].left = <<>>
  /\ CfgStep("restore", "idle")
  /\ cfgBackup' = cfgRestore[1].kept
  /\ cfgOvertaken' = cfgOvertaken \cup Overtaken(cfgBackup, cfgRestore[1].kept)
  /\ UNCHANGED <<cfgFiles, cfgBak>>

CfgCrash ==
  /\ cfgPc # "idle" /\ CfgStep(cfgPc, "idle")
  /\ UNCHANGED <<cfgFiles, cfgBak, cfgBackup, cfgOvertaken>>

CfgEvent ==
  /\ cfgEvents < MaxCfgEvents /\ cfgEvents' = cfgEvents + 1
  /\ \/ \E i \in CfgInstalls, f \in CfgTargets, u \in UserBytes \cup {NoFile} :
          /\ cfgFiles[i][f] # u
          /\ cfgFiles' = [cfgFiles EXCEPT ![i][f] = u] /\ UNCHANGED cfgInstall
     \/ \E i \in CfgInstalls \cup {NoFile} :
          cfgInstall' = i /\ i # cfgInstall /\ UNCHANGED cfgFiles
  /\ UNCHANGED <<cfgBak, cfgMinute, cfgBackup, cfgRun, cfgRestore, cfgPc, cfgOvertaken>>

CfgTick ==
  /\ cfgMinute < MaxMinutes /\ cfgMinute' = cfgMinute + 1
  /\ UNCHANGED <<cfgFiles, cfgBak, cfgInstall, cfgBackup, cfgRun, cfgRestore, cfgPc, cfgEvents,
                 cfgOvertaken>>

CfgNext ==
  \/ capture_cs2_config \/ deploy_optional_cs2_cfgs \/ CfgJournal \/ CfgReobserve
  \/ CfgWrite \/ CfgVerify \/ CfgRestore \/ CfgRestoreStep \/ CfgRestoreKeep
  \/ CfgRestoreCommit \/ CfgCrash \/ CfgEvent \/ CfgTick

-----------------------------------------------------------------------------
CfgSpec == CfgInit /\ [][CfgNext]_cfgVars

JournaledIn(backup, x) == \E n \in DOMAIN backup : Covers(backup[n], x)

\* The original bytes of a deployed file remain available to recovery: an install
\* that holds a file the suite wrote has an entry that covers it.  This is what
\* deploy_optional_cs2_cfgs promises; a restore of one selected step breaks it.
DeployedFilesJournaled ==
  \A x \in CfgInstalls \X CfgTargets :
    read_file(x[1], x[2]) \in SuiteBytes => JournaledIn(cfgBackup, x)

\* Deployed bytes are left without a way back only where a restore took a record
\* away and left a younger one of the same file in place.  Otherwise a file the
\* suite wrote has an entry that covers it, whatever failed, moved, was edited,
\* was half restored or restored in part in between (push_first_value,
\* restore_order, restore_targets, restore_matching).
DeployedFilesRecoverable ==
  \A x \in (CfgInstalls \X CfgTargets) \ cfgOvertaken :
    read_file(x[1], x[2]) \in SuiteBytes => JournaledIn(cfgBackup, x)

-----------------------------------------------------------------------------
(* The inductive invariant of DeployedFilesRecoverable.                      *)
CfgBytes == SuiteBytes \cup UserBytes \cup {NoFile}
CfgSteps == {"P1:34", "CS2:CFG"}
CfgEntries ==
  {e \in [step : CfgSteps, install : CfgInstalls, targets : Seq(CfgTargets), bytes : Seq(CfgBytes)] :
     e.targets # <<>> /\ Len(e.bytes) = Len(e.targets)}
CfgRuns == [entry : CfgEntries, minute : 0..MaxMinutes, left : Seq(CfgTargets)]
CfgRestores ==
  [left : Seq(CfgEntries), kept : Seq(CfgEntries), steps : SUBSET CfgSteps, at : Nat \ {0}]

CfgShape ==
  /\ cfgFiles \in [CfgInstalls -> [CfgTargets -> CfgBytes]]
  /\ cfgBackup \in Seq(CfgEntries)
  /\ cfgInstall \in CfgInstalls \cup {NoFile}
  /\ cfgMinute \in 0..MaxMinutes /\ cfgEvents \in 0..MaxCfgEvents
  /\ cfgPc \in {"idle", "journal", "reobserve", "write", "verify", "restore"}
  /\ cfgOvertaken \subseteq CfgInstalls \X CfgTargets
  /\ cfgPc \in {"journal", "reobserve", "write", "verify"} =>
       LET r == cfgRun[1] IN
       /\ cfgRun = <<r>> /\ r \in CfgRuns /\ (cfgPc # "verify" => r.left # <<>>)
       /\ \A k \in DOMAIN r.left : r.left[k] \in ToSet(r.entry.targets)
  /\ cfgPc = "restore" => cfgRestore = <<cfgRestore[1]>> /\ cfgRestore[1] \in CfgRestores

\* What entry e captured of file x is what the suite wrote.
CapturedDeployed(e, x) ==
  \E k \in DOMAIN e.targets : x = <<e.install, e.targets[k]>> /\ e.bytes[k] \in SuiteBytes

\* An entry with deployed bytes has an older one of the same file.
Grounded ==
  \A n \in DOMAIN cfgBackup, x \in (CfgInstalls \X CfgTargets) \ cfgOvertaken :
    CapturedDeployed(cfgBackup[n], x) => \E m \in 1..(n - 1) : Covers(cfgBackup[m], x)

\* A run's entry is grounded in the journal before it joins it, and covers the
\* run's targets from then on.
RunJournaled ==
  LET e == cfgRun[1].entry IN
  /\ cfgPc = "journal" => \A x \in (CfgInstalls \X CfgTargets) \ cfgOvertaken :
       CapturedDeployed(e, x) => JournaledIn(cfgBackup, x)
  /\ cfgPc \in {"reobserve", "write", "verify"} => \A x \in CfgInstalls \X CfgTargets :
       Covers(e, x) => JournaledIn(cfgBackup, x)

\* A restore has the oldest entries left; those it has kept or left cover every
\* deployed file; and what it wrote of its present entry are captured bytes.
RestoreSound(r) ==
  LET e == Head(r.left) IN
  /\ Len(r.left) <= Len(cfgBackup)
  /\ \A j \in DOMAIN r.left : r.left[j] = cfgBackup[Len(r.left) + 1 - j]
  /\ \A b \in DOMAIN r.kept : \E n \in DOMAIN cfgBackup : r.kept[b] = cfgBackup[n]
  /\ \A x \in (CfgInstalls \X CfgTargets) \ cfgOvertaken :
       read_file(x[1], x[2]) \in SuiteBytes => JournaledIn(r.left, x) \/ JournaledIn(r.kept, x)
  /\ r.left # <<>> =>
       /\ r.at <= Len(e.targets)
       /\ \A k \in 1..(r.at - 1) : read_file(e.install, e.targets[k]) \in SuiteBytes =>
            CapturedDeployed(e, <<e.install, e.targets[k]>>)
RestoreProgress == cfgPc = "restore" => RestoreSound(cfgRestore[1])

CfgInv == CfgShape /\ Grounded /\ RunJournaled /\ RestoreProgress /\ DeployedFilesRecoverable
=============================================================================
