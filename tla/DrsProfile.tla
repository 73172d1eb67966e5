----------------------------- MODULE DrsProfile -----------------------------
(***************************************************************************)
(* The NVIDIA profile of the game, row P3:4                                *)
(* (crates/frametime-windows/src/driver/drs/mod.rs, drs_backend.rs,        *)
(* drs_windows.rs, storage/drs_recovery.rs).                               *)
(*                                                                         *)
(* Every operation loads the driver's settings into a session, changes the *)
(* session, and saves it: a process that ends before the save has changed  *)
(* nothing, and a driver panel may save in between.  Every call of the     *)
(* driver may fail, and what a failed call leaves unsaved is lost.  Backup *)
(* entries of this row have no dedupe identity, so every capture adds one. *)
(* The row starts here where the Backend calls its capture; inspect_action *)
(* of this commit still refuses P3:4 before that.                          *)
(***************************************************************************)
EXTENDS Naturals, Sequences, SequencesExt

CONSTANTS
  DrsSettings,       \* setting identifiers of CS2_SETTINGS
  UserValues,        \* values they may have before the suite
  MaxDrsEntries, MaxPanelChanges  \* bounds

ASSUME DrsAssumption ==
  MaxDrsEntries \in Nat /\ MaxPanelChanges \in Nat /\ "suite" \notin UserValues

VARIABLES
  drSaved,    \* the driver's saved profiles
  drSession,  \* the settings of the open session, if one is open
  drBackup,   \* Drs entries of backup.json, oldest first
  drCaptured, \* captured_drs_backups of this process
  drAt, drLeft, \* entry the running restore is at, entries it retains
  drPc, drFirst, drForeign, drPanel,
  drOvertaken \* history: the oldest entry went and a newer one was retained

drVars == <<drSaved, drSession, drBackup, drCaptured, drAt, drLeft, drPc, drFirst, drForeign,
            drPanel, drOvertaken>>

None == "none"
CS2_PROFILE_NAME == "Counter-strike 2"
CS2_PROFILE_ALIASES == <<CS2_PROFILE_NAME, "Counter-Strike 2">>
GLOBAL_PROFILE_NAME == "_GLOBAL_DRIVER_PROFILE"
DrsProfiles == ToSet(CS2_PROFILE_ALIASES)
CS2_APPLICATIONS == <<"cs2.exe", "csgos2.exe">>
DrsApps == ToSet(CS2_APPLICATIONS)
CS2_SETTINGS == [s \in DrsSettings |-> "suite"]
NoSettings == [s \in DrsSettings |-> None]

\* find_existing_profile: the owner of cs2.exe, unless it is the global
\* profile, and else the first alias there is.
find_existing_profile(store) ==
  IF store.owner["cs2.exe"] \in DrsProfiles THEN {store.owner["cs2.exe"]}
  ELSE LET there == {i \in DOMAIN CS2_PROFILE_ALIASES : CS2_PROFILE_ALIASES[i] \in store.profiles}
       IN {CS2_PROFILE_ALIASES[i] : i \in {i \in there : \A j \in there : i <= j}}

\* capture_application_originals: no application may belong elsewhere.
capture_application_originals(store, target) ==
  \A a \in DrsApps : store.owner[a] \in target \cup {None}

\* capture_cs2_backup, capture_originals.
capture_cs2_backup(store) ==
  LET target == find_existing_profile(store)
      p == IF target = {} THEN CS2_PROFILE_NAME ELSE CHOOSE q \in target : TRUE
  IN [profile |-> p, created |-> target = {}, owner |-> store.owner,
      settings |-> IF target = {} THEN NoSettings ELSE store.value[p]]

\* validate_current_originals: nothing changed since the capture.
validate_current_originals(store, b) ==
  /\ b.created <=> b.profile \notin store.profiles
  /\ store.owner = b.owner
  /\ ~b.created => store.value[b.profile] = b.settings

\* apply_cs2_profile on the session: create or find the profile, bind the
\* applications that had no owner, set every value.
apply_cs2_profile(store, b) ==
  [profiles |-> store.profiles \cup {b.profile},
   owner |-> [a \in DrsApps |-> IF b.owner[a] = None THEN b.profile ELSE store.owner[a]],
   value |-> [store.value EXCEPT ![b.profile] = CS2_SETTINGS]]

\* NVAPI: deleting a setting or a registration that is not there is refused.
DeletionsPossible(store, b) ==
  /\ \A s \in DrsSettings : b.settings[s] = None => store.value[b.profile][s] # None
  /\ \A a \in DrsApps : b.owner[a] = None => store.owner[a] = b.profile

\* restore_cs2_profile on the session: a created profile goes with its
\* registrations; otherwise values and added registrations are undone.
\* Mutant: the added registrations stay.
restore_cs2_profileAltered(store, b) ==
  IF b.created
  THEN [profiles |-> store.profiles \ {b.profile},
        owner |-> [a \in DrsApps |-> IF store.owner[a] = b.profile THEN None ELSE store.owner[a]],
        value |-> [store.value EXCEPT ![b.profile] = NoSettings]]
  ELSE [store EXCEPT !.value[b.profile] = b.settings]
restore_cs2_profile(store, b) ==
  IF b.created
  THEN [profiles |-> store.profiles \ {b.profile},
        owner |-> [a \in DrsApps |-> IF store.owner[a] = b.profile THEN None ELSE store.owner[a]],
        value |-> [store.value EXCEPT ![b.profile] = NoSettings]]
  ELSE [store EXCEPT !.value[b.profile] = b.settings,
                     !.owner = [a \in DrsApps |-> IF b.owner[a] = None THEN None ELSE @[a]]]

-----------------------------------------------------------------------------
Stores ==
  {st \in [profiles : SUBSET DrsProfiles,
           owner : [DrsApps -> DrsProfiles \cup {None, GLOBAL_PROFILE_NAME}],
           value : [DrsProfiles -> [DrsSettings -> UserValues \cup {None}]]] :
     /\ \A a \in DrsApps : st.owner[a] \in DrsProfiles => st.owner[a] \in st.profiles
     /\ \A p \in DrsProfiles \ st.profiles : st.value[p] = NoSettings}

DrTypeOK ==
  /\ drSaved.profiles \subseteq DrsProfiles
  /\ Len(drSession) \in 0..1 /\ Len(drCaptured) \in 0..1
  /\ drPc \in {"idle", "captured", "journaled", "applying", "verify", "restore", "restoring"}
  /\ drAt \in 0..MaxDrsEntries /\ {drForeign, drOvertaken} \subseteq BOOLEAN
  /\ drPanel \in 0..MaxPanelChanges

DrStart(store) ==
  /\ drSaved = store /\ drFirst = store
  /\ drSession = <<>> /\ drBackup = <<>> /\ drCaptured = <<>> /\ drAt = 0 /\ drLeft = <<>>
  /\ drPc = "idle" /\ drForeign = FALSE /\ drPanel = 0 /\ drOvertaken = FALSE

DrInit == \E store \in Stores : DrStart(store)

\* with_session closes the session whatever the operation returned.
DrEnd(backup) ==
  /\ drPc' = "idle" /\ drBackup' = backup
  /\ drSession' = <<>> /\ drCaptured' = <<>> /\ drAt' = 0 /\ drLeft' = <<>>
  /\ drOvertaken' = (drOvertaken \/ (backup # <<>> /\ backup[1] # drBackup[1]))
  /\ UNCHANGED <<drSaved, drFirst, drForeign, drPanel>>

\* capture_drs_backup; without an entry this store is the one to return to.
capture_drs_backup ==
  /\ drPc = "idle" /\ Len(drBackup) < MaxDrsEntries
  /\ capture_application_originals(drSaved, find_existing_profile(drSaved))
  /\ drPc' = "captured" /\ drCaptured' = <<capture_cs2_backup(drSaved)>>
  /\ drFirst' = IF drBackup = <<>> THEN drSaved ELSE drFirst
  /\ drForeign' = (drForeign /\ drBackup # <<>>)
  /\ drOvertaken' = (drOvertaken /\ drBackup # <<>>)
  /\ UNCHANGED <<drSaved, drSession, drBackup, drAt, drLeft, drPanel>>

\* push_first_value: no dedupe identity, the entry always joins.
DrJournal ==
  /\ drPc = "captured" /\ drPc' = "journaled" /\ drBackup' = drBackup \o drCaptured
  /\ UNCHANGED <<drSaved, drSession, drCaptured, drAt, drLeft, drFirst, drForeign, drPanel,
                 drOvertaken>>

\* Refused when something changed since the capture or a call fails.
apply_drs_backup ==
  /\ drPc = "journaled"
  /\ \/ /\ validate_current_originals(drSaved, drCaptured[1])
        /\ drPc' = "applying" /\ drSession' = <<apply_cs2_profile(drSaved, drCaptured[1])>>
        /\ UNCHANGED <<drSaved, drBackup, drCaptured, drAt, drLeft, drFirst, drForeign, drPanel,
                       drOvertaken>>
     \/ DrEnd(drBackup)

\* save_settings of the row: it saves the session or nothing.
DrSave ==
  /\ drPc = "applying"
  /\ \/ /\ drSaved' = drSession[1] /\ drSession' = <<>> /\ drPc' = "verify"
        /\ UNCHANGED <<drBackup, drCaptured, drAt, drLeft, drFirst, drForeign, drPanel,
                       drOvertaken>>
     \/ DrEnd(drBackup)

\* verify_drs_backup: the row passes or fails; its entry stays either way.
verify_drs_backup == drPc = "verify" /\ DrEnd(drBackup)

DrRestore ==
  /\ drPc = "idle" /\ drBackup # <<>> /\ drPc' = "restore" /\ drAt' = Len(drBackup)
  /\ UNCHANGED <<drSaved, drSession, drBackup, drCaptured, drLeft, drFirst, drForeign, drPanel,
                 drOvertaken>>

\* restore_matching: an entry that fails is retained, and the restore goes on
\* to the one before it.
DrRetain ==
  /\ drPc' = "restore" /\ drAt' = drAt - 1 /\ drSession' = <<>>
  /\ drLeft' = <<drBackup[drAt]>> \o drLeft

\* restore_drs_entry, up to the save: a missing profile, a refused deletion or
\* any other call that fails leaves nothing changed.
restore_drs_entry ==
  LET b == drBackup[drAt]
      possible == b.profile \in drSaved.profiles /\ (b.created \/ DeletionsPossible(drSaved, b))
  IN /\ drPc = "restore" /\ drAt > 0
     /\ \/ /\ possible /\ drPc' = "restoring"
           /\ drSession' = <<restore_cs2_profile(drSaved, b)>> /\ UNCHANGED <<drAt, drLeft>>
        \/ DrRetain
     /\ UNCHANGED <<drSaved, drBackup, drCaptured, drFirst, drForeign, drPanel,
                    drOvertaken>>

\* save_settings of a restore and the calls after it.
DrRestoreSave ==
  /\ drPc = "restoring" /\ drSaved' = drSession[1]
  /\ drPc' = "restore" /\ drAt' = drAt - 1 /\ drSession' = <<>>
  /\ UNCHANGED <<drBackup, drCaptured, drLeft, drFirst, drForeign, drPanel, drOvertaken>>

\* The save fails, or it succeeds and the read-back after it fails.
DrRestoreSaveFails ==
  /\ drPc = "restoring" /\ drSaved' \in {drSaved, drSession[1]} /\ DrRetain
  /\ UNCHANGED <<drBackup, drCaptured, drFirst, drForeign, drPanel, drOvertaken>>

DrCommit == drPc = "restore" /\ drAt = 0 /\ DrEnd(drLeft)

DrCrash == drPc # "idle" /\ DrEnd(drBackup)

\* The user saves other settings in the driver's own panel.
DrPanel ==
  /\ drPanel < MaxPanelChanges /\ drPanel' = drPanel + 1
  /\ drSaved' \in Stores /\ drSaved' # drSaved /\ drForeign' = TRUE
  /\ UNCHANGED <<drSession, drBackup, drCaptured, drAt, drLeft, drPc, drFirst, drOvertaken>>

DrNext ==
  \/ capture_drs_backup \/ DrJournal \/ apply_drs_backup \/ DrSave \/ verify_drs_backup
  \/ DrRestore \/ restore_drs_entry \/ DrRestoreSave \/ DrRestoreSaveFails
  \/ DrCommit \/ DrCrash \/ DrPanel

DrSpec == DrInit /\ [][DrNext]_drVars

-----------------------------------------------------------------------------
\* However often the row was applied, interrupted and restored and whatever
\* calls failed, once no entry is left the driver's profiles are again what
\* they were before the first of them was captured (capture_cs2_backup,
\* restore_cs2_profile, restore_order).  Two exceptions: the user saved other
\* settings meanwhile; or a newer entry failed and was retained while the
\* oldest one was undone and dropped.  restore_matching goes on after a
\* failure, so the retry of the newer entry writes back the suite's values it
\* captured, and the journal is empty.
DrsRestoreExact ==
  drPc = "idle" /\ drBackup = <<>> /\ ~drForeign /\ ~drOvertaken => drSaved = drFirst

-----------------------------------------------------------------------------
\* The inductive invariant behind it.  Whatever the user saved, the driver's
\* profiles and the entries keep this shape.
ReachedStores ==
  {st \in [profiles : SUBSET DrsProfiles,
           owner : [DrsApps -> DrsProfiles \cup {None, GLOBAL_PROFILE_NAME}],
           value : [DrsProfiles -> [DrsSettings -> UserValues \cup {None, "suite"}]]] :
     /\ \A a \in DrsApps : st.owner[a] \in DrsProfiles => st.owner[a] \in st.profiles
     /\ \A p \in DrsProfiles \ st.profiles : st.value[p] = NoSettings}

DrsEntries ==
  [profile : DrsProfiles, created : BOOLEAN,
   owner : [DrsApps -> DrsProfiles \cup {None, GLOBAL_PROFILE_NAME}],
   settings : [DrsSettings -> UserValues \cup {None, "suite"}]]

DrShape ==
  /\ {drSaved, drFirst} \subseteq ReachedStores
  /\ drBackup \in Seq(DrsEntries) /\ drLeft \in Seq(DrsEntries)
  /\ drPc \in {"captured", "journaled"} => \E b \in DrsEntries : drCaptured = <<b>>
  /\ drPc \in {"applying", "restoring"} => \E st \in ReachedStores : drSession = <<st>>
  /\ drAt \in 0..Len(drBackup) /\ {drForeign, drOvertaken} \subseteq BOOLEAN
  /\ drPc = "restoring" => drAt # 0
  /\ drPc \notin {"restore", "restoring"} => drLeft = <<>>

\* The stores an undisturbed suite can bring about from the first one: its
\* own, and the suite's values without the suite's registrations, which a
\* restore out of order leaves behind.
Applied(first) == apply_cs2_profile(first, capture_cs2_backup(first))
Unbound(first) ==
  IF capture_cs2_backup(first).created THEN Applied(first)
  ELSE [first EXCEPT !.value[capture_cs2_backup(first).profile] = CS2_SETTINGS]
Reach(first) == {first, Applied(first), Unbound(first)}
ReachEntries(first) == {capture_cs2_backup(st) : st \in Reach(first)}

\* The oldest entry stays the capture of the first store, and it is undone
\* last.
DrUndisturbed ==
  LET oldest == capture_cs2_backup(drFirst)
  IN /\ drSaved \in Reach(drFirst)
     /\ drBackup = <<>> => drSaved = drFirst /\ drPc \in {"idle", "captured"}
     /\ drBackup # <<>> => drBackup[1] = oldest
     /\ \A i \in 1..Len(drBackup) : drBackup[i] \in ReachEntries(drFirst)
     /\ drPc # "idle" \/ drBackup # <<>> =>
          capture_application_originals(drFirst, find_existing_profile(drFirst))
     /\ drPc \in {"captured", "journaled"} => drCaptured = <<capture_cs2_backup(drSaved)>>
     /\ drPc = "applying" => drSession = <<Applied(drFirst)>>
     /\ drPc = "restoring" =>
          /\ drSession[1] \in Reach(drFirst)
          /\ drAt = 1 => drSession[1] = drFirst
     /\ drPc \in {"restore", "restoring"} =>
          /\ \A i \in 1..Len(drLeft) : drLeft[i] \in ReachEntries(drFirst)
          /\ drLeft = <<>> /\ drAt = 0 => drSaved = drFirst

DrInv == DrShape /\ (~drForeign /\ ~drOvertaken => DrUndisturbed)
=============================================================================
