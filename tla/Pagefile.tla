------------------------------ MODULE Pagefile ------------------------------
(***************************************************************************)
(* The fixed pagefile experiment, row P1:8                                 *)
(* (crates/frametime-windows/src/system/pagefile.rs, pagefile_native.rs).  *)
(*                                                                         *)
(* The row turns Windows' automatic management off and then updates or     *)
(* creates the setting of the system drive.  Each WMI call is one step: a  *)
(* user may edit the settings between two of them, a call may fail, and    *)
(* the process may end, which keeps the machine and the journal and drops  *)
(* the binding.  A setting is a pair of sizes under its path; WMI keys an  *)
(* instance by its name, so the path stands for the object path too.       *)
(***************************************************************************)
EXTENDS Integers, FiniteSets, Functions

CONSTANTS
  PagefilePaths,     \* the paths a setting may have
  TargetPath,        \* pagefile.sys of the system drive
  PagefileSizes,     \* sizes in MB
  WantedSizes,       \* values of state.pagefile_mb; 0 is "no experiment"
  FreeSpaceMb,       \* free space on the system drive
  MaxPagefileMb,     \* MAX_PAGEFILE_MB
  Hosts,             \* identities of the Win32_ComputerSystem instance
  MaxPagefileDisturbances  \* bound: edits by the user, failed calls, ended processes

ASSUME PagefileAssumption ==
  /\ TargetPath \in PagefilePaths
  /\ PagefileSizes \subseteq Nat /\ WantedSizes \subseteq Nat
  /\ FreeSpaceMb \in Nat /\ MaxPagefileMb \in Nat /\ MaxPagefileDisturbances \in Nat

VARIABLES
  pfLive,       \* the WMI inventory: host, automatic management, settings
  pfJournal,    \* the P1:8 entries of backup.json: none or one
  pfBinding,    \* captured_pagefile_bindings, created_pagefile_tokens
  pfPc,         \* where the running command is
  pfDisturbed,  \* disturbances so far
  pfQuiet       \* the user has edited nothing since the restore began

pfVars == <<pfLive, pfJournal, pfBinding, pfPc, pfDisturbed, pfQuiet>>

PfSizings == [initial : PagefileSizes \cup WantedSizes,
            maximum : PagefileSizes \cup WantedSizes]

PfInventories ==
  [host : Hosts, automatic : BOOLEAN,
   settings : UNION {[S -> PfSizings] : S \in SUBSET PagefilePaths}]

\* A setting's initial size is never above its maximum.
validate_pagefile_identity(sizing) == sizing.initial =< sizing.maximum

\* Names are unique by their key; what is left to check is every setting.
validate_inventory(live) ==
  \A p \in DOMAIN live.settings : validate_pagefile_identity(live.settings[p])

\* A configured size of zero asks for no experiment.
pagefile_size_mb(mb) == IF mb # 0 THEN {mb} ELSE {}

\* The binding of a capture, or none: the size is configured and fits.
capture_pagefile_binding(mb, live) ==
  {[size |-> n, before |-> live, existed |-> TargetPath \in DOMAIN live.settings,
    token |-> {}] :
     n \in {k \in pagefile_size_mb(mb) :
              validate_inventory(live) /\ k =< MaxPagefileMb /\ k =< FreeSpaceMb}}

\* The outcome of inspection: only a bindable experiment needs the mutation.
inspect_pagefile(mb, live) ==
  CASE mb = 0 /\ live.automatic -> "satisfied"
    [] mb = 0 /\ ~live.automatic -> "advisory"
    [] mb # 0 /\ capture_pagefile_binding(mb, live) # {} -> "needs apply"
    [] OTHER -> "error"

pagefile_backup_entry(b) ==
  [before |-> b.before, existed |-> b.existed, created |-> {},
   intent |-> IF b.existed THEN "update_pending" ELSE "create_pending"]

\* A setting is written or deleted only while it still has its captured sizes.
exact_pagefile(sizing) ==
  TargetPath \in DOMAIN pfLive.settings /\ pfLive.settings[TargetPath] = sizing

exact_computer(host, expected) == pfLive.host = host /\ pfLive.automatic \in expected

PfWith(live, sizing) ==
  [live EXCEPT !.settings =
     [p \in DOMAIN @ \cup {TargetPath} |-> IF p = TargetPath THEN sizing ELSE @[p]]]

PfWithout(live, path) == [live EXCEPT !.settings = Restrict(@, DOMAIN @ \ {path})]

PfFixed(n) == [initial |-> n, maximum |-> n]

PfSameSetting(a, b, p) ==
  /\ p \in DOMAIN a.settings <=> p \in DOMAIN b.settings
  /\ p \in DOMAIN a.settings => a.settings[p] = b.settings[p]

\* Every captured setting other than the target is still there, unchanged.
check_foreign_preservation(before, live) ==
  /\ validate_inventory(live)
  /\ \A p \in DOMAIN before.settings \ {TargetPath} : PfSameSetting(before, live, p)

\* What a backup entry entitles a restore to delete: nothing, one created
\* setting, or no restore at all.
created_pagefile_token(e) ==
  CASE e.intent = "update_pending" /\ e.existed -> "none"
    [] e.intent = "created" /\ ~e.existed -> "created"
    [] OTHER -> "refused"

-----------------------------------------------------------------------------
PfBindings ==
  [size : WantedSizes, before : PfInventories, existed : BOOLEAN, token : SUBSET PfSizings]

PfEntries ==
  [before : PfInventories, existed : BOOLEAN, created : SUBSET PfSizings,
   intent : {"update_pending", "create_pending", "created"}]

\* Where a row that holds a binding is, and where a restore is.
PfApplying ==
  {"captured", "journaled", "disabled", "token", "verify", "undo", "undo automatic"}
PfRestoring == {"restore", "target", "check", "automatic", "restored"}

PfTypeOK ==
  /\ pfLive \in PfInventories
  /\ pfJournal \subseteq PfEntries /\ \A e, f \in pfJournal : e = f
  /\ pfBinding \subseteq PfBindings /\ \A b, c \in pfBinding : b = c
  /\ pfPc \in PfApplying \cup PfRestoring \cup {"idle", "refused"}
  /\ pfDisturbed \in 0..MaxPagefileDisturbances /\ pfQuiet \in BOOLEAN

PfStart(live) ==
  /\ pfLive = live
  /\ pfJournal = {} /\ pfBinding = {} /\ pfPc = "idle" /\ pfDisturbed = 0 /\ pfQuiet = TRUE

PfInit ==
  \E h \in Hosts, a \in BOOLEAN, S \in SUBSET PagefilePaths, n \in PagefileSizes :
    PfStart([host |-> h, automatic |-> a, settings |-> [p \in S |-> PfFixed(n)]])

PfBound == CHOOSE b \in pfBinding : TRUE
PfEntry == CHOOSE e \in pfJournal : TRUE

\* The step of the command at `from`: it goes on or, on a refusal, elsewhere.
PfStep(from, to) ==
  /\ pfPc = from /\ pfPc' = to
  /\ UNCHANGED <<pfDisturbed, pfQuiet>>

\* inspect_action and capture: the row is captured when it needs its mutation.
PfCapture ==
  \E mb \in WantedSizes :
    /\ inspect_pagefile(mb, pfLive) = "needs apply"
    /\ PfStep("idle", "captured")
    /\ pfBinding' = capture_pagefile_binding(mb, pfLive)
    /\ UNCHANGED <<pfLive, pfJournal>>

\* The first captured value of a row stays; a later capture adds nothing.
PfJournal ==
  /\ PfStep("captured", "journaled")
  /\ pfJournal' = IF pfJournal = {} THEN {pagefile_backup_entry(PfBound)} ELSE pfJournal
  /\ UNCHANGED <<pfLive, pfBinding>>

\* begin: automatic management goes off first, if it is still as captured.
PfDisable ==
  LET ok == exact_computer(PfBound.before.host, {PfBound.before.automatic}) IN
  /\ PfStep("journaled", IF ok THEN "disabled" ELSE "undo")
  /\ pfLive' = IF ok THEN [pfLive EXCEPT !.automatic = FALSE] ELSE pfLive
  /\ UNCHANGED <<pfJournal, pfBinding>>

\* begin, after the readback: the target is updated or created.  An update
\* needs the captured sizes, a create needs that there is no such setting.
PfMutate ==
  LET sane == ~pfLive.automatic /\ check_foreign_preservation(PfBound.before, pfLive)
      ok == sane /\ IF PfBound.existed
                    THEN exact_pagefile(PfBound.before.settings[TargetPath])
                    ELSE TargetPath \notin DOMAIN pfLive.settings
  IN /\ PfStep("disabled",
               IF ~ok THEN "undo" ELSE IF PfBound.existed THEN "verify" ELSE "token")
     /\ pfLive' = IF ok THEN PfWith(pfLive, PfFixed(PfBound.size)) ELSE pfLive
     /\ pfBinding' = IF ok /\ ~PfBound.existed
                     THEN {[PfBound EXCEPT !.token = {PfFixed(PfBound.size)}]} ELSE pfBinding
     /\ UNCHANGED pfJournal

\* The created identity is added to the journal, and only to a journal that
\* was written for this creation and names none yet.
persist_created_pagefile_token(entries, token) ==
  {[e EXCEPT !.created = token, !.intent = "created"] :
     e \in {x \in entries : x.intent = "create_pending" /\ x.created = {}}}

PfToken ==
  LET written == persist_created_pagefile_token(pfJournal, PfBound.token) IN
  /\ PfStep("token", IF written # {} THEN "verify" ELSE "undo")
  /\ pfJournal' = IF written # {} THEN written ELSE pfJournal
  /\ UNCHANGED <<pfLive, pfBinding>>

verify_pagefile_mutation(b) ==
  /\ ~pfLive.automatic
  /\ check_foreign_preservation(b.before, pfLive)
  /\ exact_pagefile(PfFixed(b.size))

PfVerify ==
  LET ok == verify_pagefile_mutation(PfBound) IN
  /\ PfStep("verify", IF ok THEN "idle" ELSE "undo")
  /\ pfBinding' = IF ok THEN {} ELSE pfBinding
  /\ UNCHANGED <<pfLive, pfJournal>>

\* compensate: the created setting goes, or the target gets its sizes back,
\* each only if the exact instance is still there; then the automatic value.
PfUndoTarget ==
  /\ PfStep("undo", "undo automatic")
  /\ pfLive' = CASE PfBound.token # {} /\ (\E s \in PfBound.token : exact_pagefile(s))
                      -> PfWithout(pfLive, TargetPath)
                 [] PfBound.token = {} /\ PfBound.existed
                    /\ exact_pagefile(PfBound.before.settings[TargetPath])
                      -> PfWith(pfLive, PfBound.before.settings[TargetPath])
                 [] OTHER -> pfLive
  /\ UNCHANGED <<pfJournal, pfBinding>>

PfUndoAutomatic ==
  /\ PfStep("undo automatic", "idle")
  /\ pfLive' = IF exact_computer(PfBound.before.host, BOOLEAN)
               THEN [pfLive EXCEPT !.automatic = PfBound.before.automatic] ELSE pfLive
  /\ pfBinding' = {} /\ UNCHANGED pfJournal

\* parse_pagefile_restore_backup: an entry without authority is refused.
PfRestore ==
  /\ pfPc = "idle" /\ pfJournal # {}
  /\ pfPc' = IF created_pagefile_token(PfEntry) = "refused" THEN "refused" ELSE "restore"
  /\ pfQuiet' = TRUE
  /\ UNCHANGED <<pfLive, pfJournal, pfBinding, pfDisturbed>>

\* restore_pagefile_settings: the created setting is deleted if it is still
\* exactly the one the token names.
PfRestoreSettings ==
  LET ok == /\ validate_inventory(PfEntry.before) /\ validate_inventory(pfLive)
            /\ pfLive.host = PfEntry.before.host
            /\ PfEntry.created = {} \/ (\E s \in PfEntry.created : exact_pagefile(s))
  IN /\ PfStep("restore", IF ok THEN "target" ELSE "refused")
     /\ pfLive' = IF ok /\ PfEntry.created # {} THEN PfWithout(pfLive, TargetPath) ELSE pfLive
     /\ UNCHANGED <<pfJournal, pfBinding>>

\* restore_pagefile_settings: an updated target gets its original sizes.  The
\* native store looks the instance up with those original sizes.
PfRestoreTarget ==
  LET original == PfEntry.before.settings[TargetPath]
      ok == PfEntry.existed => exact_pagefile(original)
  IN /\ PfStep("target", IF ok THEN "check" ELSE "refused")
     /\ pfLive' = IF ok /\ PfEntry.existed THEN PfWith(pfLive, original) ELSE pfLive
     /\ UNCHANGED <<pfJournal, pfBinding>>

\* Mutant: the restore only looks at the target.
verify_pagefile_restorationAltered(e) == PfSameSetting(e.before, pfLive, TargetPath)
\* The captured settings are back and the created one is gone.
verify_pagefile_restoration(e) ==
  /\ \A p \in DOMAIN e.before.settings : PfSameSetting(e.before, pfLive, p)
  /\ e.created # {} => TargetPath \notin DOMAIN pfLive.settings

PfRestoreCheck ==
  /\ PfStep("check", IF verify_pagefile_restoration(PfEntry) THEN "automatic" ELSE "refused")
  /\ UNCHANGED <<pfLive, pfJournal, pfBinding>>

\* The automatic value comes last and is read back.
PfRestoreAutomatic ==
  LET ok == exact_computer(PfEntry.before.host, BOOLEAN) IN
  /\ PfStep("automatic", IF ok THEN "restored" ELSE "refused")
  /\ pfLive' = IF ok THEN [pfLive EXCEPT !.automatic = PfEntry.before.automatic] ELSE pfLive
  /\ UNCHANGED <<pfJournal, pfBinding>>

\* A restored entry leaves the backup; a refused one stays.
PfRestoreEnds ==
  /\ pfPc \in {"restored", "refused"} /\ pfPc' = "idle"
  /\ pfJournal' = IF pfPc = "restored" THEN {} ELSE pfJournal
  /\ UNCHANGED <<pfLive, pfBinding, pfDisturbed, pfQuiet>>

PfDisturb == pfDisturbed < MaxPagefileDisturbances /\ pfDisturbed' = pfDisturbed + 1

\* A WMI call or a write fails: apply compensates, restore refuses.  A failed
\* readback after CREATE_ONLY loses the token of what was created.
PfCallFails ==
  /\ pfPc \notin {"idle", "restored", "refused"}
  /\ PfDisturb
  /\ pfPc' = CASE pfPc \in {"journaled", "disabled", "token", "verify"} -> "undo"
               [] pfPc = "undo" -> "undo automatic"
               [] pfPc \in {"captured", "undo automatic"} -> "idle"
               [] pfPc \in {"restore", "target", "check", "automatic"} -> "refused"
  /\ \/ UNCHANGED <<pfLive, pfBinding>>
     \/ /\ pfPc = "disabled" /\ ~PfBound.existed
        /\ TargetPath \notin DOMAIN pfLive.settings
        /\ pfLive' = PfWith(pfLive, PfFixed(PfBound.size)) /\ UNCHANGED pfBinding
  /\ UNCHANGED <<pfJournal, pfQuiet>>

\* The process ends: the binding goes, the machine and the journal stay.
PfCrash ==
  /\ PfDisturb /\ pfPc # "idle" /\ pfPc' = "idle" /\ pfBinding' = {}
  /\ UNCHANGED <<pfLive, pfJournal, pfQuiet>>

\* The user edits the settings in the system's own dialog, or renames the PC.
PfUserEdits ==
  /\ PfDisturb
  /\ pfLive' \in {[pfLive EXCEPT !.automatic = ~@]}
                   \cup {[pfLive EXCEPT !.host = h] : h \in Hosts}
                   \cup {PfWithout(pfLive, p) : p \in PagefilePaths}
                   \cup {PfWith(pfLive, PfFixed(n)) : n \in PagefileSizes}
  /\ pfLive' # pfLive
  /\ pfQuiet' = FALSE
  /\ UNCHANGED <<pfJournal, pfBinding, pfPc>>

PfNext ==
  \/ PfCapture \/ PfJournal \/ PfDisable \/ PfMutate \/ PfToken \/ PfVerify
  \/ PfUndoTarget \/ PfUndoAutomatic
  \/ PfRestore \/ PfRestoreSettings \/ PfRestoreTarget \/ PfRestoreCheck
  \/ PfRestoreAutomatic \/ PfRestoreEnds
  \/ PfCallFails \/ PfCrash \/ PfUserEdits

PfSpec == PfInit /\ [][PfNext]_pfVars

-----------------------------------------------------------------------------
\* A restore that reports success with no edit during it leaves the host's
\* captured settings, created setting and automatic value as they were before
\* P1:8 (restore_pagefile_transaction).
PagefileRestoreExact ==
  (pfPc = "restored" /\ pfQuiet) =>
    LET b == PfEntry.before IN
    /\ pfLive.host = b.host /\ pfLive.automatic = b.automatic
    /\ \A p \in DOMAIN b.settings \cup {TargetPath} : PfSameSetting(b, pfLive, p)

\* A row that was applied and that nothing has disturbed since can be
\* restored: recovery is to "restore all recognised recovery records"
\* (backend/public.rs).
PagefileRecoverable == ~(pfPc = "refused" /\ pfDisturbed = 0)

-----------------------------------------------------------------------------
\* The inductive invariant behind PagefileRestoreExact.

\* An entry knows whether the target existed, and one that says "created"
\* names what was created.
EntrySound(e) ==
  /\ e.existed <=> TargetPath \in DOMAIN e.before.settings
  /\ e.intent = "created" => e.created # {}

BindingSound(b) ==
  /\ b.existed <=> TargetPath \in DOMAIN b.before.settings
  /\ pfPc = "token" => b.token # {}

\* What the restore has achieved so far, when nobody edits during it.
PfProgress(e) ==
  /\ pfPc \in {"target", "check", "automatic", "restored"} => pfLive.host = e.before.host
  /\ pfPc \in {"automatic", "restored"} => verify_pagefile_restoration(e)
  /\ pfPc = "restored" => pfLive.automatic = e.before.automatic

PfInv ==
  /\ PfTypeOK
  /\ \A e \in pfJournal : EntrySound(e)
  /\ \A b \in pfBinding : BindingSound(b)
  /\ pfPc \in PfApplying => pfBinding # {}
  /\ pfPc \in PfRestoring => pfJournal # {} /\ created_pagefile_token(PfEntry) # "refused"
  /\ pfQuiet => \A e \in pfJournal : PfProgress(e)

=============================================================================
