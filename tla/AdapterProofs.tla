---------------------------- MODULE AdapterProofs ----------------------------
(***************************************************************************)
(* Proofs about the row adapters NetworkStack, Pagefile and Cleanup.       *)
(*                                                                         *)
(* A restore of the network rows writes value after value into whatever    *)
(* the machine is by then. NsInv is inductive: it says how far the calls   *)
(* made so far have brought the machine, and that the only trace of an     *)
(* interrupted restore is an emptied NLA key.                              *)
(*                                                                         *)
(* A restore of the pagefile row acts on a journal entry that an           *)
(* interrupted run may have left. PfInv is inductive: it says what an      *)
(* entry and a binding know of the target, and what an undisturbed restore *)
(* has achieved at each call.                                              *)
(*                                                                         *)
(* A cleanup deletes the tree it walked, by handles, while others create   *)
(* and remove files in it.  ClInv is inductive: the retained handles are   *)
(* one root and objects below it, each of them once, and deletion passes   *)
(* none that is neither gone nor recorded as a failure.                    *)
(***************************************************************************)
EXTENDS NetworkStack, Pagefile, Cleanup, FiniteSetTheorems, SequenceTheorems, TLAPS

-----------------------------------------------------------------------------
(* Records and machines. *)

LEMMA EntryKinds ==
  ASSUME NEW e \in NsEntries
  PROVE  /\ e.adapter \in Adapters /\ e.adapter.device \in PciDevices /\ e.adapter.guid \in Guids
         /\ e \in StackEntries <=> e.kind = "stack"
         /\ e \in DnsEntries <=> e.kind = "dns"
         /\ e \in StackEntries =>
              /\ e.rss \in NetValues \cup {Absent} /\ e.nla \in NlaFacts
              /\ e.policy \in NetValues \cup {Absent}
         /\ e \in DnsEntries => e.servers \in NetValues
BY DEF NsEntries, StackEntries, DnsEntries, Adapters

LEMMA NlaForm ==
  ASSUME NEW n \in NlaFacts
  PROVE  /\ n = [key |-> n.key, value |-> n.value]
         /\ n.key = TRUE \/ n.key = FALSE
         /\ n.value # Absent => n.key = TRUE
         /\ n.value \in NetValues \cup {Absent, SuiteNla}
BY DEF NlaFacts

LEMMA RecordIs == \A e : nsEntry = {e} => NsRecord = e
BY DEF NsRecord

(* What NsInv says of the one record there is. *)
Refused(e) ==
  \/ nsEnded /\ ~e.nla.key /\ nsLive.nla = [key |-> TRUE, value |-> Absent]
  \/ e.policy # Absent /\ nsLive.policy \notin {Absent, e.policy}

Accounted(e) ==
  nsChanges = 0 =>
    /\ e.adapter \in nsLive.adapters
    /\ e \in StackEntries => /\ NlaLeft(e) /\ StackProgress(e)
                             /\ nsPc = "refused" => Refused(e)

DriversHere == nsChanges = 0 => \A d \in PciDevices : nsLive.rss[d] # Absent

LEMMA NsBuild ==
  /\ NsTypeOK /\ RecordHeld /\ DriversHere
  /\ \A e \in NsEntries : nsEntry = {e} => Accounted(e)
  => NsInv
<1> SUFFICES ASSUME NsTypeOK, RecordHeld, DriversHere,
                    \A e \in NsEntries : nsEntry = {e} => Accounted(e)
             PROVE  NsInv
  OBVIOUS
<1>1. CASE nsEntry = {}
  BY <1>1 DEF NsInv, NetworkRestoreOutcome, RecordHeld, DriversHere
<1>2. ASSUME NEW e \in NsEntries, nsEntry = {e} PROVE NsInv
  <2>1. NsRecord = e /\ Accounted(e)
    BY <1>2, RecordIs
  <2>2. e \in StackEntries <=> e.kind = "stack"
    BY EntryKinds
  <2>3. NetworkRestoreOutcome
    BY <2>1, <2>2 DEF NetworkRestoreOutcome, Accounted, StackProgress, Refused
  <2> QED BY <1>2, <2>1, <2>3 DEF NsInv, Accounted, DriversHere
<1> QED BY <1>1, <1>2 DEF NsTypeOK

LEMMA NsBuildNext ==
  (/\ NsTypeOK /\ RecordHeld /\ DriversHere
   /\ \A e \in NsEntries : nsEntry = {e} => Accounted(e))' => NsInv'
BY NsBuild, PTL

LEMMA NsKnown ==
  ASSUME NsInv, NEW e \in NsEntries, nsEntry = {e}
  PROVE  NsTypeOK /\ RecordHeld /\ DriversHere /\ Accounted(e) /\ NsRecord = e
<1>1. NsRecord = e
  BY RecordIs
<1>2. Accounted(e)
  <2>1. e.kind = "stack" <=> e \in StackEntries
    BY EntryKinds
  <2> QED BY <1>1, <2>1 DEF NsInv, Accounted, NetworkRestoreOutcome, Refused
<1> QED BY <1>1, <1>2 DEF NsInv, DriversHere

(* A driver key changes only when the user, or the restore of its own      *)
(* device, writes into it.                                                 *)
OwnDevice ==
  nsChanges' = nsChanges =>
    \A d \in PciDevices : nsLive'.rss[d] # nsLive.rss[d] =>
      \A e \in nsEntry \cup nsEntry' : e.adapter.device = d

NsKept == NsInv' /\ OwnDevice

(* A step with the record in place and no change by the user. *)
LEMMA NsStepOf ==
  ASSUME NsInv, NEW e \in NsEntries, nsEntry = {e}, nsEntry' = {e},
         nsLive' \in NsMachines, nsChanges' = nsChanges, nsEnded' \in BOOLEAN,
         nsLive'.adapters = nsLive.adapters,
         nsPc' \in StackCalls => e \in StackEntries,
         nsPc' \in DnsCalls => e \in DnsEntries,
         nsPc' \in StackCalls \cup DnsCalls \cup {"idle", "restored", "refused", "not captured"},
         \A d \in PciDevices \ {e.adapter.device} : nsLive'.rss[d] = nsLive.rss[d],
         nsChanges = 0 /\ e.adapter \in nsLive.adapters => nsLive'.rss[e.adapter.device] # Absent,
         (nsChanges = 0 /\ e \in StackEntries /\ NlaLeft(e) /\ StackProgress(e)) =>
            NlaLeft(e)' /\ StackProgress(e)' /\ (nsPc' = "refused" => Refused(e)')
  PROVE  NsKept
<1>1. NsTypeOK /\ RecordHeld /\ DriversHere /\ Accounted(e)
  BY NsKnown
<1>2. NsTypeOK'
  BY <1>1 DEF NsTypeOK
<1>3. RecordHeld'
  BY DEF RecordHeld
<1>4. DriversHere'
  BY <1>1 DEF DriversHere, Accounted
<1>5. Accounted(e)'
  BY <1>1 DEF Accounted
<1>6. OwnDevice
  BY DEF OwnDevice
<1> QED BY <1>2, <1>3, <1>4, <1>5, <1>6, NsBuildNext DEF NsKept

(* A step after which there is no record, and which writes nothing. *)
LEMMA NsNoRecord ==
  ASSUME NsInv, nsEntry' = {}, nsPc' \in {"idle", "refused", "not captured"},
         nsLive' = nsLive, nsChanges' = nsChanges, nsEnded' \in BOOLEAN
  PROVE  NsKept
<1>1. NsTypeOK'
  BY DEF NsInv, NsTypeOK
<1>2. RecordHeld'
  BY DEF RecordHeld, StackCalls, DnsCalls
<1>3. DriversHere'
  BY DEF NsInv, DriversHere
<1>4. \A e \in NsEntries : nsEntry' = {e} => Accounted(e)'
  OBVIOUS
<1>5. OwnDevice
  BY DEF OwnDevice
<1> QED BY <1>1, <1>2, <1>3, <1>4, <1>5, NsBuildNext DEF NsKept

(* A step that leaves the machine and the record, and ends. *)
LEMMA NsQuiet ==
  ASSUME NsInv, nsEntry' = nsEntry, nsLive' = nsLive, nsChanges' = nsChanges,
         nsEnded' \in BOOLEAN, nsEnded => nsEnded', nsPc' \in {"idle", "not captured"},
         nsPc = "nla key" => nsEnded'
  PROVE  NsKept
<1>1. CASE nsEntry = {}
  BY <1>1, NsNoRecord
<1>2. ASSUME NEW e \in NsEntries, nsEntry = {e} PROVE NsKept
  <2>1. NsTypeOK /\ DriversHere
    BY <1>2, NsKnown
  <2>2. nsPc' \notin StackCalls \cup DnsCalls \cup {"restored", "refused", "nla key", "read nla"}
    BY DEF StackCalls, DnsCalls
  <2>3. NlaLeft(e) => NlaLeft(e)'
    BY <2>2 DEF NlaLeft
  <2>4. StackProgress(e)'
    BY <2>2 DEF StackProgress, StackCalls
  <2>5. nsChanges = 0 => nsLive.rss[e.adapter.device] # Absent
    BY <2>1, EntryKinds DEF DriversHere
  <2> QED BY <1>2, <2>1, <2>2, <2>3, <2>4, <2>5, NsStepOf DEF NsTypeOK
<1> QED BY <1>1, <1>2 DEF NsInv, NsTypeOK

-----------------------------------------------------------------------------
(* Around a restore. *)

(* The capture of the automatic row never holds the inventory that         *)
(* validate demands, so the row never goes on to its mutation.             *)
LEMMA RowNeverCaptured ==
  ASSUME NEW a PROVE capture_network_stack(a) = {}
<1>1. "EEE" \notin SETTINGS /\ "EEE" \in P1_16_INVENTORY.settings
  BY DEF SETTINGS, P1_16_INVENTORY, Keywords
<1>2. [settings |-> SETTINGS, policies |-> {}] # P1_16_INVENTORY
  BY <1>1
<1> QED BY <1>2 DEF capture_network_stack, validate

LEMMA RunRowStep ==
  ASSUME NsInv, NsRunRow PROVE NsKept
<1>1. /\ nsPc' = "not captured" /\ UNCHANGED <<nsLive, nsEntry, nsChanges, nsEnded>>
      /\ nsPc = "idle"
  BY RowNeverCaptured DEF NsRunRow
<1> QED BY <1>1, NsQuiet DEF NsInv, NsTypeOK

LEMMA RestoreStarts ==
  ASSUME NsInv, NsRestore PROVE NsKept
<1>0. /\ UNCHANGED <<nsLive, nsEntry, nsChanges, nsEnded>> /\ nsPc = "idle" /\ nsEntry # {}
      /\ nsPc' = IF NsRecord.kind = "stack" THEN "setting" ELSE "servers"
  BY DEF NsRestore, NsStep
<1>1. PICK e \in NsEntries : nsEntry = {e}
  BY <1>0 DEF NsInv, NsTypeOK
<1>2. NsTypeOK /\ DriversHere /\ NsRecord = e
  BY <1>1, NsKnown
<1>3. /\ e \in StackEntries => nsPc' = "setting"
      /\ e \notin StackEntries => nsPc' = "servers" /\ e \in DnsEntries
  BY <1>0, <1>2, EntryKinds DEF NsEntries
<1>4. e \in StackEntries /\ NlaLeft(e) => NlaLeft(e)' /\ StackProgress(e)'
  BY <1>0, <1>3 DEF NlaLeft, StackProgress
<1>5. nsChanges = 0 => nsLive.rss[e.adapter.device] # Absent
  BY <1>2, EntryKinds DEF DriversHere
<1> QED BY <1>0, <1>1, <1>2, <1>3, <1>4, <1>5, NsStepOf DEF NsTypeOK, StackCalls, DnsCalls

LEMMA RestoreEnds ==
  ASSUME NsInv, NsEnds PROVE NsKept
<1>1. CASE nsPc = "restored"
  BY <1>1, NsNoRecord DEF NsEnds, NsInv, NsTypeOK
<1>2. CASE nsPc # "restored"
  BY <1>2, NsQuiet DEF NsEnds, NsInv, NsTypeOK
<1> QED BY <1>1, <1>2

LEMMA CrashStep ==
  ASSUME NsInv, NsCrash PROVE NsKept
BY NsQuiet DEF NsCrash

LEMMA UserStep ==
  ASSUME NsInv, NsUserChanges PROVE NsKept
<1>0. NsTypeOK /\ RecordHeld
  BY DEF NsInv
<1>1. /\ nsChanges' \in 0..MaxNetChanges /\ nsChanges' # 0 /\ nsChanges' # nsChanges
  <2>1. nsChanges < MaxNetChanges /\ nsChanges' = nsChanges + 1
    BY DEF NsUserChanges
  <2>2. nsChanges \in 0..MaxNetChanges /\ MaxNetChanges \in Nat
    BY <1>0, NetworkAssumption DEF NsTypeOK
  <2> QED BY <2>1, <2>2
<1>2. nsLive' \in NsMachines
  <2>1. CASE \E A \in SUBSET Adapters : nsLive' = [nsLive EXCEPT !.adapters = A]
    BY <1>0, <2>1 DEF NsTypeOK, NsMachines
  <2>2. ASSUME NEW d \in PciDevices, NEW v \in NetValues \cup {Absent},
               nsLive' = [nsLive EXCEPT !.rss[d] = v]
        PROVE  nsLive' \in NsMachines
    <3>1. [nsLive.rss EXCEPT ![d] = v] \in [PciDevices -> NetValues \cup {Absent}]
      BY <1>0 DEF NsTypeOK, NsMachines
    <3>2. nsLive' = [nsLive EXCEPT !.rss = [nsLive.rss EXCEPT ![d] = v]]
      BY <2>2
    <3> QED BY <1>0, <3>1, <3>2 DEF NsTypeOK, NsMachines
  <2>3. CASE \E n \in NlaFacts : nsLive' = [nsLive EXCEPT !.nla = n]
    BY <1>0, <2>3 DEF NsTypeOK, NsMachines
  <2>4. CASE \E v \in NetValues \cup {Absent} : nsLive' = [nsLive EXCEPT !.policy = v]
    BY <1>0, <2>4 DEF NsTypeOK, NsMachines
  <2> QED BY <2>1, <2>2, <2>3, <2>4 DEF NsUserChanges
<1>3. NsTypeOK'
  BY <1>0, <1>1, <1>2 DEF NsTypeOK, NsUserChanges
<1>4. RecordHeld'
  BY <1>0 DEF RecordHeld, NsUserChanges
<1>5. DriversHere' /\ \A e \in NsEntries : Accounted(e)'
  BY <1>1 DEF DriversHere, Accounted
<1>6. OwnDevice
  BY <1>1 DEF OwnDevice
<1> QED BY <1>3, <1>4, <1>5, <1>6, NsBuildNext DEF NsKept

-----------------------------------------------------------------------------
(* The calls of a restore. *)

(* What a call of a stack restore may rely on. *)
LEMMA InStackCall ==
  ASSUME NsInv, nsPc \in StackCalls
  PROVE  \E e \in StackEntries :
           /\ nsEntry = {e} /\ e \in NsEntries /\ NsRecord = e /\ NsTypeOK /\ DriversHere
           /\ Accounted(e)
           /\ nsChanges = 0 => nsLive.rss[e.adapter.device] # Absent
<1>1. nsEntry \cap StackEntries # {} /\ NsTypeOK
  BY DEF NsInv, RecordHeld
<1>2. PICK e \in NsEntries : nsEntry = {e}
  BY <1>1 DEF NsTypeOK
<1>3. e \in StackEntries
  BY <1>1, <1>2
<1>4. NsRecord = e /\ NsTypeOK /\ DriversHere /\ Accounted(e)
  BY <1>2, NsKnown
<1>5. nsChanges = 0 => nsLive.rss[e.adapter.device] # Absent
  BY <1>4, EntryKinds DEF DriversHere
<1> QED BY <1>2, <1>3, <1>4, <1>5

LEMMA InDnsCall ==
  ASSUME NsInv, nsPc \in DnsCalls
  PROVE  \E e \in DnsEntries :
           /\ nsEntry = {e} /\ e \in NsEntries /\ e \notin StackEntries /\ NsRecord = e
           /\ NsTypeOK /\ (nsChanges = 0 => nsLive.rss[e.adapter.device] # Absent)
<1>1. nsEntry \cap DnsEntries # {} /\ NsTypeOK
  BY DEF NsInv, RecordHeld
<1>2. PICK e \in NsEntries : nsEntry = {e}
  BY <1>1 DEF NsTypeOK
<1>3. e \in DnsEntries /\ e \notin StackEntries
  BY <1>1, <1>2, EntryKinds
<1>4. NsRecord = e /\ NsTypeOK /\ DriversHere
  BY <1>2, NsKnown
<1>5. nsChanges = 0 => nsLive.rss[e.adapter.device] # Absent
  BY <1>4, EntryKinds DEF DriversHere
<1> QED BY <1>2, <1>3, <1>4, <1>5

(* A call that only reads. *)
LEMMA ReadCall ==
  ASSUME NsInv, NEW e \in NsEntries, nsEntry = {e}, nsEntry' = nsEntry, nsLive' = nsLive,
         nsChanges' = nsChanges, nsEnded' = nsEnded,
         nsPc' \in StackCalls => e \in StackEntries, nsPc' \notin DnsCalls,
         nsPc' \in StackCalls \cup {"restored", "refused"},
         (nsChanges = 0 /\ e \in StackEntries /\ NlaLeft(e) /\ StackProgress(e)) =>
            NlaLeft(e)' /\ StackProgress(e)' /\ (nsPc' = "refused" => Refused(e)')
  PROVE  NsKept
<1>1. NsTypeOK /\ DriversHere
  BY NsKnown
<1>2. nsChanges = 0 => nsLive.rss[e.adapter.device] # Absent
  BY <1>1, EntryKinds DEF DriversHere
<1> QED BY <1>1, <1>2, NsStepOf DEF NsTypeOK

LEMMA SettingStep ==
  ASSUME NsInv, NsRestoreSetting PROVE NsKept
<1>0. nsPc = "setting" /\ UNCHANGED <<nsEntry, nsChanges, nsEnded>>
  BY DEF NsRestoreSetting, NsStep
<1>1. PICK e \in StackEntries :
           /\ nsEntry = {e} /\ e \in NsEntries /\ NsRecord = e /\ NsTypeOK /\ DriversHere
           /\ Accounted(e) /\ (nsChanges = 0 => nsLive.rss[e.adapter.device] # Absent)
  BY <1>0, InStackCall DEF StackCalls
<1> DEFINE dev == e.adapter.device
           keys == UNION {open_driver_key(a) : a \in exact_adapter(e.adapter)}
           found == exact_adapter(e.adapter) # {}
           ok == found /\ \A d \in keys : read_driver_setting(d) # Absent
           written == write_driver_setting(keys, e.rss)
<1>2. /\ found <=> e.adapter \in nsLive.adapters
      /\ keys = IF found THEN {dev} ELSE {}
  BY DEF exact_adapter, enumerate_network_adapters, open_driver_key
<1>3. /\ dev \in PciDevices /\ e.rss \in NetValues \cup {Absent}
      /\ nsLive \in NsMachines /\ nsLive.rss \in [PciDevices -> NetValues \cup {Absent}]
  BY <1>1, EntryKinds DEF NsTypeOK, NsMachines
<1>4. /\ nsPc' = IF ~found THEN "refused"
                 ELSE IF e.rss = Absent THEN "nla" ELSE IF ok THEN "read setting" ELSE "refused"
      /\ nsLive' = IF e.rss # Absent /\ ok THEN written ELSE nsLive
  BY <1>1 DEF NsRestoreSetting, NsStep
<1>5. /\ written \in NsMachines /\ written.adapters = nsLive.adapters /\ written.nla = nsLive.nla
      /\ written.policy = nsLive.policy
      /\ \A d \in PciDevices : written.rss[d] =
            IF d \in keys /\ nsLive.rss[d] # Absent THEN e.rss ELSE nsLive.rss[d]
  <2> DEFINE rss == [d \in PciDevices |->
                       IF d \in keys /\ nsLive.rss[d] # Absent THEN e.rss ELSE nsLive.rss[d]]
  <2>1. rss \in [PciDevices -> NetValues \cup {Absent}]
    BY <1>3
  <2>2. written = [nsLive EXCEPT !.rss = rss]
    BY DEF write_driver_setting
  <2> HIDE DEF written
  <2>3. /\ written \in NsMachines /\ written.adapters = nsLive.adapters /\ written.nla = nsLive.nla
        /\ written.policy = nsLive.policy /\ written.rss = rss
    <3> HIDE DEF rss
    <3> QED BY <1>3, <2>1, <2>2 DEF NsMachines
  <2> QED BY <2>3
<1> HIDE DEF written, keys, found, ok
<1>6. CASE nsLive' = written /\ e.rss # Absent /\ ok
  <2>1. nsPc' = "read setting" /\ found
    BY <1>4, <1>6 DEF ok
  <2>2. nsLive.rss[dev] # Absent /\ dev \in keys
    BY <1>2, <1>6, <2>1 DEF ok, read_driver_setting
  <2>3. nsLive'.rss[dev] = e.rss /\ \A d \in PciDevices \ {dev} : nsLive'.rss[d] = nsLive.rss[d]
    BY <1>2, <1>3, <1>5, <1>6, <2>1, <2>2
  <2>4. NlaLeft(e) => NlaLeft(e)'
    BY <1>0, <1>5, <1>6, <2>1 DEF NlaLeft
  <2>5. StackProgress(e)'
    BY <1>6, <2>1, <2>3 DEF StackProgress
  <2> QED BY <1>0, <1>1, <1>5, <1>6, <2>1, <2>3, <2>4, <2>5, NsStepOf
          DEF StackCalls, DnsCalls, NsTypeOK
<1>7. CASE nsLive' = nsLive /\ ~(e.rss # Absent /\ ok)
  <2>1. \/ nsPc' = "nla" /\ e.rss = Absent
        \/ nsPc' = "refused" /\ (~found \/ ~ok)
    BY <1>4, <1>7
  <2>2. nsChanges = 0 => found /\ ok
    BY <1>1, <1>2 DEF Accounted, ok, read_driver_setting
  <2>3. NlaLeft(e) => NlaLeft(e)'
    BY <1>0, <1>7, <2>1 DEF NlaLeft
  <2>4. nsChanges = 0 => StackProgress(e)' /\ nsPc' # "refused"
    BY <2>1, <2>2 DEF StackProgress
  <2> QED BY <1>0, <1>1, <1>7, <2>1, <2>3, <2>4, ReadCall DEF StackCalls, DnsCalls
<1> QED BY <1>4, <1>6, <1>7

LEMMA ReadSettingStep ==
  ASSUME NsInv, NsReadSetting PROVE NsKept
<1>0. nsPc = "read setting" /\ UNCHANGED <<nsLive, nsEntry, nsChanges, nsEnded>>
  BY DEF NsReadSetting, NsStep
<1>1. PICK e \in StackEntries :
           /\ nsEntry = {e} /\ e \in NsEntries /\ NsRecord = e /\ NsTypeOK /\ DriversHere
           /\ Accounted(e) /\ (nsChanges = 0 => nsLive.rss[e.adapter.device] # Absent)
  BY <1>0, InStackCall DEF StackCalls
<1>2. nsPc' \in {"nla", "refused"}
  BY DEF NsReadSetting, NsStep
<1>3. nsPc' = "refused" =>
        e.adapter \notin nsLive.adapters \/ nsLive.rss[e.adapter.device] # e.rss
  BY <1>1 DEF NsReadSetting, NsStep, exact_adapter, enumerate_network_adapters, read_driver_setting
<1>4. nsChanges = 0 =>
        nsLive.rss[e.adapter.device] = e.rss /\ e.adapter \in nsLive.adapters
  BY <1>0, <1>1 DEF Accounted, StackProgress, StackCalls
<1>5. nsChanges = 0 /\ NlaLeft(e) => nsPc' = "nla" /\ NlaLeft(e)' /\ StackProgress(e)'
  BY <1>0, <1>2, <1>3, <1>4 DEF NlaLeft, StackProgress
<1> QED BY <1>0, <1>1, <1>2, <1>5, ReadCall DEF StackCalls, DnsCalls

(* A call that writes outside the driver keys. *)
LEMMA OtherCall ==
  ASSUME NsInv, NEW e \in NsEntries, nsEntry = {e}, nsEntry' = nsEntry, nsLive' \in NsMachines,
         nsLive'.adapters = nsLive.adapters, nsLive'.rss = nsLive.rss,
         nsChanges' = nsChanges, nsEnded' = nsEnded,
         nsPc' \in StackCalls => e \in StackEntries, nsPc' \in DnsCalls => e \in DnsEntries,
         nsPc' \in StackCalls \cup DnsCalls \cup {"restored", "refused"},
         (nsChanges = 0 /\ e \in StackEntries /\ NlaLeft(e) /\ StackProgress(e)) =>
            NlaLeft(e)' /\ StackProgress(e)' /\ (nsPc' = "refused" => Refused(e)')
  PROVE  NsKept
<1>1. NsTypeOK /\ DriversHere
  BY NsKnown
<1>2. nsChanges = 0 => nsLive.rss[e.adapter.device] # Absent
  BY <1>1, EntryKinds DEF DriversHere
<1> QED BY <1>1, <1>2, NsStepOf DEF NsTypeOK

(* The machine after a write of the NLA value, or of the policy. *)
LEMMA NlaWritten ==
  ASSUME nsLive \in NsMachines, NEW value \in NetValues \cup {Absent, SuiteNla},
         value # Absent => nsLive.nla.key
  PROVE  LET m == [nsLive EXCEPT !.nla.value = value] IN
         /\ m \in NsMachines /\ m.adapters = nsLive.adapters /\ m.rss = nsLive.rss
         /\ m.policy = nsLive.policy /\ m.nla = [key |-> nsLive.nla.key, value |-> value]
<1> DEFINE nla == [nsLive.nla EXCEPT !.value = value]
<1>1. nsLive.nla \in NlaFacts
  BY DEF NsMachines
<1>2. nla = [key |-> nsLive.nla.key, value |-> value] /\ nla \in NlaFacts
  BY <1>1 DEF NlaFacts
<1>3. [nsLive EXCEPT !.nla.value = value] = [nsLive EXCEPT !.nla = nla]
  OBVIOUS
<1> HIDE DEF nla
<1> QED BY <1>2, <1>3 DEF NsMachines

LEMMA NlaCleared ==
  ASSUME nsLive \in NsMachines
  PROVE  LET m == [nsLive EXCEPT !.nla.value = Absent] IN
         /\ m \in NsMachines /\ m.adapters = nsLive.adapters /\ m.rss = nsLive.rss
         /\ m.policy = nsLive.policy /\ m.nla = [key |-> nsLive.nla.key, value |-> Absent]
BY NlaWritten

LEMMA NlaKeyGone ==
  ASSUME nsLive \in NsMachines, nsLive.nla.value = Absent
  PROVE  LET m == [nsLive EXCEPT !.nla.key = FALSE] IN
         /\ m \in NsMachines /\ m.adapters = nsLive.adapters /\ m.rss = nsLive.rss
         /\ m.policy = nsLive.policy /\ m.nla = [key |-> FALSE, value |-> Absent]
<1> DEFINE nla == [nsLive.nla EXCEPT !.key = FALSE]
<1>1. nsLive.nla \in NlaFacts
  BY DEF NsMachines
<1>2. nla = [key |-> FALSE, value |-> Absent]
  <2>1. PICK k : nsLive.nla = [key |-> k, value |-> Absent]
    BY <1>1, NlaForm
  <2>2. ASSUME NEW no PROVE [nsLive.nla EXCEPT !.key = no] = [key |-> no, value |-> Absent]
    BY <2>1
  <2> QED BY <2>2, Zenon
<1>3. [key |-> FALSE, value |-> Absent] \in NlaFacts
  BY DEF NlaFacts
<1>4. [nsLive EXCEPT !.nla.key = FALSE] = [nsLive EXCEPT !.nla = nla]
  OBVIOUS
<1> HIDE DEF nla
<1> QED BY <1>2, <1>3, <1>4 DEF NsMachines

LEMMA PolicyWritten ==
  ASSUME nsLive \in NsMachines, NEW v \in NetValues \cup {Absent}
  PROVE  LET m == [nsLive EXCEPT !.policy = v] IN
         /\ m \in NsMachines /\ m.adapters = nsLive.adapters /\ m.rss = nsLive.rss
         /\ m.policy = v /\ m.nla = nsLive.nla
BY DEF NsMachines

LEMMA NlaStep ==
  ASSUME NsInv, NsRestoreNla PROVE NsKept
<1>0. nsPc = "nla" /\ UNCHANGED <<nsEntry, nsChanges, nsEnded>>
  BY DEF NsRestoreNla, NsStep
<1>1. PICK e \in StackEntries :
           /\ nsEntry = {e} /\ e \in NsEntries /\ NsRecord = e /\ NsTypeOK /\ DriversHere
           /\ Accounted(e) /\ (nsChanges = 0 => nsLive.rss[e.adapter.device] # Absent)
  BY <1>0, InStackCall DEF StackCalls
<1> DEFINE was == e.nla
           now == nsLive.nla
<1>2. /\ was \in NlaFacts /\ now \in NlaFacts /\ nsLive \in NsMachines
  BY <1>1, EntryKinds DEF NsTypeOK, NsMachines
<1>3. nsChanges = 0 => exact_adapter(e.adapter) # {}
  BY <1>1 DEF Accounted, exact_adapter, enumerate_network_adapters
(* What the call does, by what it finds. *)
<1>4. \/ nsPc' = "refused" /\ nsLive' = nsLive
      \/ /\ nsPc' = "read nla" /\ was.value # Absent /\ now.key
         /\ nsLive' = [nsLive EXCEPT !.nla.value = was.value]
      \/ nsPc' = "read nla" /\ was.value = Absent /\ nsLive' = nsLive /\ now.value = Absent
      \/ /\ nsPc' = "nla key" /\ was.value = Absent /\ now.key /\ now.value = SuiteNla
         /\ nsLive' = [nsLive EXCEPT !.nla.value = Absent]
  <2>0. /\ now.key = TRUE \/ now.key = FALSE
        /\ was.key = TRUE \/ was.key = FALSE
        /\ now.key = FALSE => now.value = Absent
    BY <1>2, NlaForm
  <2> DEFINE found == exact_adapter(e.adapter) # {}
             to == CASE ~found -> "refused"
                     [] found /\ was.value # Absent -> IF now.key THEN "read nla" ELSE "refused"
                     [] found /\ was.value = Absent /\ ~now.key
                          -> IF was.key THEN "refused" ELSE "read nla"
                     [] found /\ was.value = Absent /\ now.key ->
                          CASE now.value = Absent -> "read nla"
                            [] now.value = SuiteNla -> "nla key"
                            [] OTHER -> "refused"
  <2>1. /\ nsPc' = to
        /\ nsLive' = CASE to = "read nla" /\ was.value # Absent
                            -> [nsLive EXCEPT !.nla.value = was.value]
                       [] to = "nla key" -> [nsLive EXCEPT !.nla.value = Absent]
                       [] OTHER -> nsLive
    BY <1>1 DEF NsRestoreNla, NsStep
  <2>2. \/ to = "refused"
        \/ to = "read nla" /\ was.value # Absent /\ now.key
        \/ to = "read nla" /\ was.value = Absent /\ now.value = Absent
        \/ to = "nla key" /\ was.value = Absent /\ now.key /\ now.value = SuiteNla
    BY <2>0, NetworkAssumption
  <2> HIDE DEF to, found
  <2> QED BY <2>1, <2>2
<1>5. nsPc' = "refused" =>
        \/ exact_adapter(e.adapter) = {}
        \/ was.value # Absent /\ ~now.key
        \/ was.value = Absent /\ ~now.key /\ was.key
        \/ was.value = Absent /\ now.key /\ now.value \notin {Absent, SuiteNla}
  BY <1>1, <1>2, NlaForm DEF NsRestoreNla, NsStep
<1>6. nsChanges = 0 => NlaLeft(e) /\ StackProgress(e)
  BY <1>1 DEF Accounted
<1>7. nsChanges = 0 => nsPc' # "refused"
  BY <1>0, <1>2, <1>3, <1>5, <1>6, NlaForm, NetworkAssumption DEF NlaLeft
<1>8. CASE nsPc' = "refused" /\ nsLive' = nsLive
  BY <1>0, <1>1, <1>7, <1>8, ReadCall DEF StackCalls, DnsCalls
<1>9. CASE /\ nsPc' = "read nla" /\ was.value # Absent /\ now.key
           /\ nsLive' = [nsLive EXCEPT !.nla.value = was.value]
  <2>1. /\ nsLive' \in NsMachines /\ nsLive'.adapters = nsLive.adapters
        /\ nsLive'.rss = nsLive.rss /\ nsLive'.policy = nsLive.policy
        /\ nsLive'.nla = [key |-> now.key, value |-> was.value]
    BY <1>2, <1>9, NlaWritten, NlaForm
  <2>2. nsLive'.nla = was
    BY <1>2, <1>9, <2>1, NlaForm
  <2>3. NlaLeft(e)' /\ (nsChanges = 0 => StackProgress(e)')
    BY <1>0, <1>6, <1>9, <2>1, <2>2 DEF NlaLeft, StackProgress, StackCalls
  <2> QED BY <1>0, <1>1, <1>9, <2>1, <2>3, OtherCall DEF StackCalls, DnsCalls
<1>10. CASE nsPc' = "read nla" /\ was.value = Absent /\ nsLive' = nsLive /\ now.value = Absent
  <2>1. nsChanges = 0 => NlaLeft(e)'
    <3>1. now.value # SuiteNla
      BY <1>10, NetworkAssumption
    <3>2. now # [key |-> TRUE, value |-> SuiteNla]
      BY <3>1
    <3>3. nsChanges = 0 => \/ now = was
                           \/ /\ now = [key |-> TRUE, value |-> Absent] /\ ~was.key
                              /\ nsPc = "nla key" \/ nsEnded
      BY <1>6, <3>2 DEF NlaLeft
    <3> QED BY <1>0, <1>10, <3>3 DEF NlaLeft
  <2>2. nsChanges = 0 => StackProgress(e)'
    BY <1>0, <1>6, <1>10 DEF StackProgress, StackCalls
  <2> QED BY <1>0, <1>1, <1>10, <2>1, <2>2, ReadCall DEF StackCalls, DnsCalls
<1>11. CASE /\ nsPc' = "nla key" /\ was.value = Absent /\ now.key /\ now.value = SuiteNla
            /\ nsLive' = [nsLive EXCEPT !.nla.value = Absent]
  <2>1. /\ nsLive' \in NsMachines /\ nsLive'.adapters = nsLive.adapters
        /\ nsLive'.rss = nsLive.rss /\ nsLive'.policy = nsLive.policy
        /\ nsLive'.nla = [key |-> TRUE, value |-> Absent]
    <3>1. now.key = TRUE
      BY <1>2, <1>11, NlaForm
    <3>2. /\ nsLive' \in NsMachines /\ nsLive'.adapters = nsLive.adapters
          /\ nsLive'.rss = nsLive.rss /\ nsLive'.policy = nsLive.policy
          /\ nsLive'.nla = [key |-> now.key, value |-> Absent]
      BY <1>2, <1>11, NlaCleared
    <3> QED BY <3>1, <3>2
  <2>2. NlaLeft(e)'
    BY <1>2, <1>11, <2>1, NlaForm DEF NlaLeft
  <2>3. nsChanges = 0 => StackProgress(e)'
    BY <1>0, <1>6, <1>11, <2>1 DEF StackProgress, StackCalls
  <2> QED BY <1>0, <1>1, <1>11, <2>1, <2>2, <2>3, OtherCall DEF StackCalls, DnsCalls
<1> QED BY <1>4, <1>8, <1>9, <1>10, <1>11

LEMMA NlaKeyStep ==
  ASSUME NsInv, NsRestoreNlaKey PROVE NsKept
<1>0. /\ nsPc = "nla key" /\ nsPc' = "read nla" /\ UNCHANGED <<nsEntry, nsChanges, nsEnded>>
  BY DEF NsRestoreNlaKey, NsStep
<1>1. PICK e \in StackEntries :
           /\ nsEntry = {e} /\ e \in NsEntries /\ NsRecord = e /\ NsTypeOK /\ DriversHere
           /\ Accounted(e) /\ (nsChanges = 0 => nsLive.rss[e.adapter.device] # Absent)
  BY <1>0, InStackCall DEF StackCalls
<1>2. nsLive \in NsMachines /\ e.nla \in NlaFacts /\ nsLive.nla \in NlaFacts
  BY <1>1, EntryKinds DEF NsTypeOK, NsMachines
<1>3. nsChanges = 0 => /\ nsLive.nla = [key |-> TRUE, value |-> Absent] /\ e.nla.value = Absent
                       /\ StackProgress(e)
  BY <1>0, <1>1 DEF Accounted, StackProgress
<1>4. CASE ~e.nla.key /\ nsLive.nla.value = Absent
  <2>1. nsLive' = [nsLive EXCEPT !.nla.key = FALSE]
    BY <1>1, <1>4 DEF NsRestoreNlaKey
  <2>2. /\ nsLive' \in NsMachines /\ nsLive'.adapters = nsLive.adapters
        /\ nsLive'.rss = nsLive.rss /\ nsLive'.policy = nsLive.policy
        /\ nsLive'.nla = [key |-> FALSE, value |-> Absent]
    BY <1>2, <1>4, <2>1, NlaKeyGone
  <2>3. nsChanges = 0 => nsLive'.nla = e.nla
    BY <1>2, <1>3, <1>4, <2>2, NlaForm
  <2>4. nsChanges = 0 => NlaLeft(e)' /\ StackProgress(e)'
    BY <1>0, <1>3, <2>2, <2>3 DEF NlaLeft, StackProgress, StackCalls
  <2> QED BY <1>0, <1>1, <2>2, <2>4, OtherCall DEF StackCalls, DnsCalls
<1>5. CASE ~(~e.nla.key /\ nsLive.nla.value = Absent)
  <2>1. nsLive' = nsLive
    BY <1>1, <1>5 DEF NsRestoreNlaKey
  <2>2. nsChanges = 0 => nsLive.nla = e.nla
    <3>1. nsChanges = 0 => e.nla.key = TRUE
      BY <1>2, <1>3, <1>5, NlaForm
    <3> QED BY <1>2, <1>3, <3>1, NlaForm
  <2>3. nsChanges = 0 => NlaLeft(e)' /\ StackProgress(e)'
    BY <1>0, <1>3, <2>1, <2>2 DEF NlaLeft, StackProgress, StackCalls
  <2> QED BY <1>0, <1>1, <2>1, <2>3, ReadCall DEF StackCalls, DnsCalls
<1> QED BY <1>4, <1>5

LEMMA ReadNlaStep ==
  ASSUME NsInv, NsReadNla PROVE NsKept
<1>0. nsPc = "read nla" /\ UNCHANGED <<nsLive, nsEntry, nsChanges, nsEnded>>
  BY DEF NsReadNla, NsStep
<1>1. PICK e \in StackEntries :
           /\ nsEntry = {e} /\ e \in NsEntries /\ NsRecord = e /\ NsTypeOK /\ DriversHere
           /\ Accounted(e) /\ (nsChanges = 0 => nsLive.rss[e.adapter.device] # Absent)
  BY <1>0, InStackCall DEF StackCalls
<1>2. nsPc' = IF nsLive.nla = e.nla THEN "policy" ELSE "refused"
  BY <1>1 DEF NsReadNla, NsStep, read_nla
<1>3. nsChanges = 0 => NlaLeft(e) /\ StackProgress(e)
  BY <1>1 DEF Accounted
<1>4. CASE nsLive.nla = e.nla
  <2>1. nsChanges = 0 => NlaLeft(e)' /\ StackProgress(e)'
    BY <1>0, <1>2, <1>3, <1>4 DEF NlaLeft, StackProgress, StackCalls
  <2> QED BY <1>0, <1>1, <1>2, <1>4, <2>1, ReadCall DEF StackCalls, DnsCalls
<1>5. CASE nsLive.nla # e.nla
  <2>1. nsChanges = 0 => Refused(e)' /\ NlaLeft(e)'
    BY <1>0, <1>2, <1>3, <1>5 DEF NlaLeft, Refused
  <2>2. StackProgress(e)'
    BY <1>2, <1>5 DEF StackProgress, StackCalls
  <2> QED BY <1>0, <1>1, <1>2, <1>5, <2>1, <2>2, ReadCall DEF StackCalls, DnsCalls
<1> QED BY <1>4, <1>5

LEMMA PolicyStep ==
  ASSUME NsInv, NsRestorePolicy PROVE NsKept
<1>0. nsPc = "policy" /\ UNCHANGED <<nsEntry, nsChanges, nsEnded>>
  BY DEF NsRestorePolicy, NsStep
<1>1. PICK e \in StackEntries :
           /\ nsEntry = {e} /\ e \in NsEntries /\ NsRecord = e /\ NsTypeOK /\ DriversHere
           /\ Accounted(e) /\ (nsChanges = 0 => nsLive.rss[e.adapter.device] # Absent)
  BY <1>0, InStackCall DEF StackCalls
<1> DEFINE ok == e.policy = Absent \/ nsLive.policy \in {Absent, e.policy}
<1>2. /\ nsPc' = IF ok THEN "read policy" ELSE "refused"
      /\ nsLive' = IF ok THEN [nsLive EXCEPT !.policy = e.policy] ELSE nsLive
  BY <1>1 DEF NsRestorePolicy, NsStep
<1>3. nsChanges = 0 => NlaLeft(e) /\ StackProgress(e)
  BY <1>1 DEF Accounted
<1>4. nsLive \in NsMachines /\ e.policy \in NetValues \cup {Absent}
  BY <1>1, EntryKinds DEF NsTypeOK
<1>5. CASE ok
  <2>1. /\ nsLive' \in NsMachines /\ nsLive'.adapters = nsLive.adapters
        /\ nsLive'.rss = nsLive.rss /\ nsLive'.policy = e.policy /\ nsLive'.nla = nsLive.nla
    BY <1>2, <1>4, <1>5, PolicyWritten
  <2>2. nsChanges = 0 => NlaLeft(e)' /\ StackProgress(e)'
    BY <1>0, <1>2, <1>3, <1>5, <2>1 DEF NlaLeft, StackProgress, StackCalls
  <2> QED BY <1>0, <1>1, <1>2, <1>5, <2>1, <2>2, OtherCall DEF StackCalls, DnsCalls
<1>6. CASE ~ok
  <2>1. Refused(e)'
    BY <1>2, <1>6 DEF Refused
  <2>2. nsChanges = 0 => NlaLeft(e)' /\ StackProgress(e)'
    BY <1>0, <1>2, <1>3, <1>6 DEF NlaLeft, StackProgress, StackCalls
  <2> QED BY <1>0, <1>1, <1>2, <1>6, <2>1, <2>2, ReadCall DEF StackCalls, DnsCalls
<1> QED BY <1>5, <1>6

LEMMA ReadPolicyStep ==
  ASSUME NsInv, NsReadPolicy PROVE NsKept
<1>0. nsPc = "read policy" /\ UNCHANGED <<nsLive, nsEntry, nsChanges, nsEnded>>
  BY DEF NsReadPolicy, NsStep
<1>1. PICK e \in StackEntries :
           /\ nsEntry = {e} /\ e \in NsEntries /\ NsRecord = e /\ NsTypeOK /\ DriversHere
           /\ Accounted(e) /\ (nsChanges = 0 => nsLive.rss[e.adapter.device] # Absent)
  BY <1>0, InStackCall DEF StackCalls
<1>2. nsPc' = IF nsLive.policy = e.policy THEN "restored" ELSE "refused"
  BY <1>1 DEF NsReadPolicy, NsStep
<1>3. nsChanges = 0 => NlaLeft(e) /\ StackProgress(e) /\ nsLive.policy = e.policy
  BY <1>0, <1>1 DEF Accounted, StackProgress
<1>4. nsChanges = 0 => nsPc' = "restored" /\ NlaLeft(e)' /\ StackProgress(e)'
  BY <1>0, <1>2, <1>3 DEF NlaLeft, StackProgress, StackCalls
<1> QED BY <1>0, <1>1, <1>2, <1>4, ReadCall DEF StackCalls, DnsCalls

LEMMA ServersStep ==
  ASSUME NsInv, NsRestoreServers \/ NsReadServers PROVE NsKept
<1>0. /\ nsPc \in DnsCalls /\ UNCHANGED <<nsEntry, nsChanges, nsEnded>>
      /\ nsPc' \in {"read servers", "restored", "refused"}
  BY DEF NsRestoreServers, NsReadServers, NsStep, DnsCalls
<1>1. PICK e \in DnsEntries :
           /\ nsEntry = {e} /\ e \in NsEntries /\ e \notin StackEntries /\ NsRecord = e
           /\ NsTypeOK /\ (nsChanges = 0 => nsLive.rss[e.adapter.device] # Absent)
  BY <1>0, InDnsCall
<1>2. nsLive \in NsMachines /\ e.servers \in NetValues /\ e.adapter.guid \in Guids
  BY <1>1, EntryKinds DEF NsTypeOK
<1>3. /\ nsLive' \in NsMachines /\ nsLive'.adapters = nsLive.adapters
      /\ nsLive'.rss = nsLive.rss
  <2>1. CASE nsLive' = nsLive
    BY <1>2, <2>1
  <2>2. CASE nsLive' = [nsLive EXCEPT !.servers[e.adapter.guid] = e.servers]
    <3> DEFINE servers == [nsLive.servers EXCEPT ![e.adapter.guid] = e.servers]
    <3>1. servers \in [Guids -> NetValues]
      BY <1>2 DEF NsMachines
    <3>2. nsLive' = [nsLive EXCEPT !.servers = servers]
      BY <2>2
    <3> HIDE DEF servers
    <3> QED BY <1>2, <3>1, <3>2 DEF NsMachines
  <2> QED BY <1>1, <2>1, <2>2 DEF NsRestoreServers, NsReadServers
<1> QED BY <1>0, <1>1, <1>3, OtherCall DEF StackCalls, DnsCalls

-----------------------------------------------------------------------------
(* The theorems about the network rows. *)

LEMMA NsInitially == NsInit => NsInv
<1> DEFINE card == CHOOSE x \in Adapters : TRUE
<1>0. card \in Adapters
  <2>1. \E x : x \in Adapters
    <3>1. PICK g \in Guids, d \in PciDevices : TRUE
      BY NetworkAssumption
    <3>2. [guid |-> g, device |-> d] \in Adapters
      BY DEF Adapters
    <3> QED BY <3>2
  <2> QED BY <2>1
<1> SUFFICES ASSUME NEW p \in NetValues \cup {Absent},
                    NEW n \in NlaFacts, n.value \in {SuiteNla, Absent}, NEW entry,
                    entry = {} \/ \E e \in NsEntries : entry = {e},
                    \A e \in entry : /\ e.adapter = card
                                     /\ e.kind = "stack" => (n.value = SuiteNla \/ e.nla = n),
                    NsStart(p, n, entry)
             PROVE  NsInv
  BY DEF NsInit
<1> HIDE DEF card
<1>1. nsLive = [adapters |-> {card}, rss |-> [d \in PciDevices |-> RssOn],
                nla |-> n, policy |-> p, servers |-> [g \in Guids |-> RssOn]]
      /\ nsEntry = entry /\ nsPc = "idle" /\ nsChanges = 0 /\ nsEnded = FALSE
  BY DEF NsStart, card
<1>2. NsTypeOK
  <2>1. nsLive \in NsMachines
    BY <1>0, <1>1, NetworkAssumption DEF NsMachines
  <2>2. nsChanges \in 0..MaxNetChanges
    BY <1>1, NetworkAssumption
  <2> QED BY <1>1, <2>1, <2>2 DEF NsTypeOK
<1>3. RecordHeld
  BY <1>1 DEF RecordHeld, StackCalls, DnsCalls
<1>4. DriversHere
  BY <1>1, NetworkAssumption DEF DriversHere
<1>5. ASSUME NEW e \in NsEntries, nsEntry = {e} PROVE Accounted(e)
  <2>1. e.adapter \in nsLive.adapters
    BY <1>1, <1>5
  <2>2. StackProgress(e)
    BY <1>1 DEF StackProgress, StackCalls
  <2>3. e \in StackEntries => NlaLeft(e)
    <3>1. n.value = SuiteNla => n = [key |-> TRUE, value |-> SuiteNla]
      BY NlaForm, NetworkAssumption
    <3>2. e \in StackEntries => n.value = SuiteNla \/ e.nla = n
      BY <1>1, <1>5, EntryKinds
    <3> QED BY <1>1, <3>1, <3>2 DEF NlaLeft
  <2> QED BY <1>1, <2>1, <2>2, <2>3 DEF Accounted
<1> QED BY <1>2, <1>3, <1>4, <1>5, NsBuild

LEMMA NsStepKeeps == NsInv /\ [NsNext]_nsVars => NsInv' /\ [OwnDevice]_nsVars
<1> SUFFICES ASSUME NsInv, [NsNext]_nsVars PROVE NsInv' /\ [OwnDevice]_nsVars
  OBVIOUS
<1>1. CASE NsNext
  <2>1. NsKept
    BY <1>1, RunRowStep, RestoreStarts, SettingStep, ReadSettingStep, NlaStep, NlaKeyStep,
       ReadNlaStep, PolicyStep, ReadPolicyStep, ServersStep, RestoreEnds, CrashStep, UserStep
       DEF NsNext
  <2> QED BY <2>1 DEF NsKept
<1>2. CASE UNCHANGED nsVars
  BY <1>2 DEF nsVars, NsInv, NsTypeOK, RecordHeld, NlaLeft, StackProgress,
     NetworkRestoreOutcome, NsRecord
<1> QED BY <1>1, <1>2

(* In every reachable state of the network rows, whatever the user changes *)
(* and wherever a restore is interrupted: a running restore has its        *)
(* record, and while nobody else has changed anything the machine is where *)
(* the calls of restore_network_stack made so far have brought it.         *)
THEOREM NetworkInvariant == NsSpec => []NsInv
<1>1. NsInv /\ [NsNext]_nsVars => NsInv'
  BY NsStepKeeps
<1> QED BY NsInitially, <1>1, PTL DEF NsSpec

(* A restore of P1:16 that succeeds undisturbed leaves the machine as      *)
(* captured, and one that is refused has met the emptied NLA key of an     *)
(* interrupted one or a foreign policy (restore_nla, restore_policy).      *)
THEOREM RestoreOutcome == NsSpec => []NetworkRestoreOutcome
<1>1. NsInv => NetworkRestoreOutcome
  BY DEF NsInv
<1> QED BY NetworkInvariant, <1>1, PTL

(* No card but the captured one is ever written to (exact_adapter,         *)
(* open_driver_key).                                                       *)
THEOREM DeviceBound == NsSpec => NetworkDeviceBound
<1>1. NsInv /\ [NsNext]_nsVars => [OwnDevice]_nsVars
  BY NsStepKeeps
<1> QED BY NetworkInvariant, <1>1, PTL DEF NsSpec, NetworkDeviceBound, OwnDevice

-----------------------------------------------------------------------------
(* The pagefile row: inventories. *)

LEMMA InventoryForm ==
  ASSUME NEW live \in PfInventories
  PROVE  /\ live.host \in Hosts /\ live.automatic \in BOOLEAN
         /\ DOMAIN live.settings \subseteq PagefilePaths
         /\ \A p \in DOMAIN live.settings : live.settings[p] \in PfSizings
<1>1. PICK S \in SUBSET PagefilePaths : live.settings \in [S -> PfSizings]
  BY DEF PfInventories
<1> QED BY <1>1 DEF PfInventories

LEMMA SettingsWritten ==
  ASSUME NEW live \in PfInventories, NEW S \in SUBSET PagefilePaths, NEW f \in [S -> PfSizings]
  PROVE  LET m == [live EXCEPT !.settings = f] IN
         /\ m \in PfInventories /\ m.settings = f
         /\ m.host = live.host /\ m.automatic = live.automatic
<1>1. f \in UNION {[T -> PfSizings] : T \in SUBSET PagefilePaths}
  OBVIOUS
<1> QED BY <1>1 DEF PfInventories

LEMMA WithTyped ==
  ASSUME NEW live \in PfInventories, NEW s \in PfSizings
  PROVE  /\ PfWith(live, s) \in PfInventories
         /\ PfWith(live, s).host = live.host /\ PfWith(live, s).automatic = live.automatic
<1> DEFINE S == DOMAIN live.settings \cup {TargetPath}
           f == [p \in S |-> IF p = TargetPath THEN s ELSE live.settings[p]]
<1>1. S \in SUBSET PagefilePaths /\ f \in [S -> PfSizings]
  BY InventoryForm, PagefileAssumption
<1>2. PfWith(live, s) = [live EXCEPT !.settings = f]
  BY DEF PfWith
<1> HIDE DEF f, S
<1> QED BY <1>1, <1>2, SettingsWritten

LEMMA WithoutTyped ==
  ASSUME NEW live \in PfInventories, NEW path
  PROVE  /\ PfWithout(live, path) \in PfInventories
         /\ PfWithout(live, path).host = live.host
         /\ PfWithout(live, path).automatic = live.automatic
<1> DEFINE S == DOMAIN live.settings \ {path}
           f == [p \in S |-> live.settings[p]]
<1>1. S \in SUBSET PagefilePaths /\ f \in [S -> PfSizings]
  BY InventoryForm
<1>2. PfWithout(live, path) = [live EXCEPT !.settings = f]
  BY DEF PfWithout, Restrict
<1> HIDE DEF f, S
<1> QED BY <1>1, <1>2, SettingsWritten

LEMMA HostSet ==
  ASSUME NEW live \in PfInventories, NEW h \in Hosts
  PROVE  [live EXCEPT !.host = h] \in PfInventories
BY DEF PfInventories

LEMMA AutomaticSet ==
  ASSUME NEW live \in PfInventories, NEW v \in BOOLEAN
  PROVE  LET m == [live EXCEPT !.automatic = v] IN
         /\ m \in PfInventories /\ m.automatic = v
         /\ m.host = live.host /\ m.settings = live.settings
BY DEF PfInventories

LEMMA FixedTyped ==
  ASSUME NEW n \in PagefileSizes \cup WantedSizes PROVE PfFixed(n) \in PfSizings
BY DEF PfFixed, PfSizings

LEMMA BoundIs ==
  ASSUME PfInv, pfBinding # {}
  PROVE  /\ PfBound \in pfBinding /\ pfBinding = {PfBound} /\ PfBound \in PfBindings
         /\ BindingSound(PfBound)
         /\ PfBound.size \in WantedSizes /\ PfBound.before \in PfInventories
         /\ PfBound.existed \in BOOLEAN /\ PfBound.token \in SUBSET PfSizings
         /\ PfBound.existed => PfBound.before.settings[TargetPath] \in PfSizings
<1>1. PfBound \in pfBinding
  BY DEF PfBound
<1>2. pfBinding = {PfBound} /\ PfBound \in PfBindings /\ BindingSound(PfBound)
  BY <1>1 DEF PfInv, PfTypeOK
<1>3. /\ PfBound.size \in WantedSizes /\ PfBound.before \in PfInventories
      /\ PfBound.existed \in BOOLEAN /\ PfBound.token \in SUBSET PfSizings
  BY <1>2 DEF PfBindings
<1>4. PfBound.existed => PfBound.before.settings[TargetPath] \in PfSizings
  BY <1>2, <1>3, InventoryForm DEF BindingSound
<1> QED BY <1>1, <1>2, <1>3, <1>4

LEMMA EntryIs ==
  ASSUME PfInv, pfJournal # {}
  PROVE  /\ PfEntry \in pfJournal /\ pfJournal = {PfEntry} /\ PfEntry \in PfEntries
         /\ EntrySound(PfEntry)
         /\ PfEntry.before \in PfInventories /\ PfEntry.created \in SUBSET PfSizings
         /\ PfEntry.existed \in BOOLEAN
         /\ PfEntry.existed => PfEntry.before.settings[TargetPath] \in PfSizings
<1>1. PfEntry \in pfJournal
  BY DEF PfEntry
<1>2. pfJournal = {PfEntry} /\ PfEntry \in PfEntries /\ EntrySound(PfEntry)
  BY <1>1 DEF PfInv, PfTypeOK
<1>3. /\ PfEntry.before \in PfInventories /\ PfEntry.created \in SUBSET PfSizings
      /\ PfEntry.existed \in BOOLEAN
  BY <1>2 DEF PfEntries
<1>4. PfEntry.existed => PfEntry.before.settings[TargetPath] \in PfSizings
  BY <1>2, <1>3, InventoryForm DEF EntrySound
<1> QED BY <1>1, <1>2, <1>3, <1>4

(* A step of the row: outside a restore before and after. *)
LEMMA PfRowStep ==
  ASSUME PfInv, pfLive' \in PfInventories,
         pfJournal' \subseteq PfEntries, \A e, f \in pfJournal' : e = f,
         \A e \in pfJournal' : EntrySound(e),
         pfBinding' \subseteq PfBindings, \A b, c \in pfBinding' : b = c,
         \A b \in pfBinding' : BindingSound(b)',
         pfPc' \in PfApplying \cup {"idle", "refused"}, pfPc' \in PfApplying => pfBinding' # {},
         pfDisturbed' \in 0..MaxPagefileDisturbances, pfQuiet' \in BOOLEAN
  PROVE  PfInv'
<1>1. PfTypeOK'
  BY DEF PfTypeOK
<1>2. pfPc' \notin PfRestoring
  BY DEF PfApplying, PfRestoring
<1>3. \A e \in pfJournal' : PfProgress(e)'
  BY <1>2 DEF PfProgress, PfRestoring
<1>4. \A e \in pfJournal' : EntrySound(e)'
  BY DEF EntrySound
<1> QED BY <1>1, <1>2, <1>3, <1>4 DEF PfInv

(* A step of the restore, which keeps its entry. *)
LEMMA PfRestoreStep ==
  ASSUME PfInv, pfJournal # {}, pfLive' \in PfInventories,
         pfJournal' = pfJournal, pfBinding' = pfBinding,
         pfPc \notin PfApplying, pfPc' \in PfRestoring \cup {"refused"},
         created_pagefile_token(PfEntry) # "refused" \/ pfPc' = "refused",
         pfDisturbed' = pfDisturbed, pfQuiet' \in BOOLEAN,
         pfQuiet' => PfProgress(PfEntry)'
  PROVE  PfInv'
<1>1. PfTypeOK'
  BY DEF PfInv, PfTypeOK
<1>2. pfPc' \notin PfApplying /\ pfPc' # "token"
  BY DEF PfApplying, PfRestoring
<1>3. PfEntry' = PfEntry /\ pfJournal = {PfEntry}
  BY EntryIs DEF PfEntry
<1>4. pfQuiet' => \A e \in pfJournal' : PfProgress(e)'
  BY <1>3
<1>5. \A b \in pfBinding' : BindingSound(b)'
  BY <1>2 DEF PfInv, BindingSound
<1>6. \A e \in pfJournal' : EntrySound(e)'
  BY DEF PfInv, EntrySound
<1>7. pfPc' \in PfRestoring => pfJournal' # {} /\ created_pagefile_token(PfEntry)' # "refused"
  BY <1>3 DEF created_pagefile_token, PfRestoring
<1> QED BY <1>1, <1>2, <1>4, <1>5, <1>6, <1>7 DEF PfInv

LEMMA PfDisturbed ==
  ASSUME PfInv, PfDisturb PROVE pfDisturbed' \in 0..MaxPagefileDisturbances
<1>1. pfDisturbed \in 0..MaxPagefileDisturbances /\ MaxPagefileDisturbances \in Nat
  BY PagefileAssumption DEF PfInv, PfTypeOK
<1>2. pfDisturbed < MaxPagefileDisturbances /\ pfDisturbed' = pfDisturbed + 1
  BY DEF PfDisturb
<1> QED BY <1>1, <1>2

-----------------------------------------------------------------------------
(* The pagefile row: apply. *)

(* What a step that writes neither journal nor binding keeps. *)
LEMMA PfKeeps ==
  ASSUME PfInv, pfPc' # "token", pfBinding' \in {pfBinding, {}}, pfJournal' = pfJournal
  PROVE  /\ pfJournal' \subseteq PfEntries /\ \A e, f \in pfJournal' : e = f
         /\ \A e \in pfJournal' : EntrySound(e)
         /\ pfBinding' \subseteq PfBindings /\ \A b, c \in pfBinding' : b = c
         /\ \A b \in pfBinding' : BindingSound(b)'
<1>1. \A b \in pfBinding' : BindingSound(b)'
  BY DEF PfInv, BindingSound
<1> QED BY <1>1 DEF PfInv, PfTypeOK

LEMMA PfQuietTyped ==
  ASSUME PfInv PROVE pfQuiet \in BOOLEAN /\ pfDisturbed \in 0..MaxPagefileDisturbances
                     /\ pfLive \in PfInventories
BY DEF PfInv, PfTypeOK

LEMMA CaptureStep ==
  ASSUME PfInv, PfCapture PROVE PfInv'
<1>1. PICK mb \in WantedSizes :
        /\ inspect_pagefile(mb, pfLive) = "needs apply" /\ PfStep("idle", "captured")
        /\ pfBinding' = capture_pagefile_binding(mb, pfLive) /\ UNCHANGED <<pfLive, pfJournal>>
  BY DEF PfCapture
<1>2. pfBinding' # {}
  BY <1>1 DEF inspect_pagefile
<1>3. ASSUME NEW b \in pfBinding'
      PROVE  b = [size |-> mb, before |-> pfLive,
                  existed |-> TargetPath \in DOMAIN pfLive.settings, token |-> {}]
  BY <1>1 DEF capture_pagefile_binding, pagefile_size_mb
<1>4. ASSUME NEW b \in pfBinding' PROVE b \in PfBindings /\ BindingSound(b)'
  <2> DEFINE here == TargetPath \in DOMAIN pfLive.settings
  <2>1. /\ here = TRUE \/ here = FALSE
        /\ here <=> TargetPath \in DOMAIN pfLive.settings
    OBVIOUS
  <2>2. b = [size |-> mb, before |-> pfLive, existed |-> here, token |-> {}]
    BY <1>3
  <2> HIDE DEF here
  <2>3. b \in PfBindings
    BY <1>1, <2>1, <2>2, PfQuietTyped DEF PfBindings
  <2>4. b.existed = here /\ b.before = pfLive /\ pfPc' # "token"
    BY <1>1, <2>2 DEF PfStep
  <2>5. BindingSound(b)'
    BY <2>1, <2>4 DEF BindingSound
  <2> QED BY <2>3, <2>5
<1>5. \A b, c \in pfBinding' : b = c
  BY <1>3
<1>6. /\ pfJournal' \subseteq PfEntries /\ \A e, f \in pfJournal' : e = f
      /\ \A e \in pfJournal' : EntrySound(e)
  BY <1>1 DEF PfInv, PfTypeOK
<1> QED BY <1>1, <1>2, <1>4, <1>5, <1>6, PfQuietTyped, PfRowStep DEF PfStep, PfApplying

LEMMA JournalStep ==
  ASSUME PfInv, PfJournal PROVE PfInv'
<1>0. PfStep("captured", "journaled") /\ UNCHANGED <<pfLive, pfBinding>> /\ pfBinding # {}
      /\ pfPc' = "journaled"
  BY DEF PfJournal, PfInv, PfApplying, PfStep
<1> DEFINE new == pagefile_backup_entry(PfBound)
<1>1. new \in PfEntries /\ EntrySound(new)
  <2>1. /\ PfBound.before \in PfInventories /\ PfBound.existed \in BOOLEAN
        /\ BindingSound(PfBound)
    BY <1>0, BoundIs
  <2> QED BY <2>1 DEF pagefile_backup_entry, PfEntries, EntrySound, BindingSound
<1>2. pfJournal' = {new} \/ pfJournal' = pfJournal
  BY DEF PfJournal
<1>3. /\ pfJournal' \subseteq PfEntries /\ \A e, f \in pfJournal' : e = f
      /\ \A e \in pfJournal' : EntrySound(e)
  <2> HIDE DEF new
  <2> QED BY <1>1, <1>2 DEF PfInv, PfTypeOK
<1>4. /\ pfBinding' \subseteq PfBindings /\ \A b, c \in pfBinding' : b = c
      /\ \A b \in pfBinding' : BindingSound(b)'
  BY <1>0 DEF PfInv, PfTypeOK, BindingSound
<1> QED BY <1>0, <1>3, <1>4, PfQuietTyped, PfRowStep DEF PfStep, PfApplying

LEMMA DisableStep ==
  ASSUME PfInv, PfDisable PROVE PfInv'
<1>1. /\ pfBinding # {} /\ pfPc' \in {"disabled", "undo"}
      /\ UNCHANGED <<pfJournal, pfBinding, pfDisturbed, pfQuiet>>
      /\ pfLive' = pfLive \/ pfLive' = [pfLive EXCEPT !.automatic = FALSE]
  BY DEF PfDisable, PfStep, PfInv, PfApplying
<1>2. pfLive' \in PfInventories
  BY <1>1, PfQuietTyped, AutomaticSet
<1> QED BY <1>1, <1>2, PfKeeps, PfQuietTyped, PfRowStep DEF PfApplying

LEMMA MutateStep ==
  ASSUME PfInv, PfMutate PROVE PfInv'
<1> DEFINE made == [PfBound EXCEPT !.token = {PfFixed(PfBound.size)}]
<1>0. pfPc = "disabled" /\ pfBinding # {} /\ UNCHANGED <<pfJournal, pfDisturbed, pfQuiet>>
  BY DEF PfMutate, PfStep, PfInv, PfApplying
<1>1. /\ pfPc' \in {"undo", "verify", "token"}
      /\ pfPc' = "token" => pfBinding' = {made}
      /\ pfBinding' = {made} \/ pfBinding' = pfBinding
      /\ pfLive' = pfLive \/ pfLive' = PfWith(pfLive, PfFixed(PfBound.size))
  BY DEF PfMutate, PfStep
<1>2. /\ PfBound \in PfBindings /\ BindingSound(PfBound) /\ PfBound.size \in WantedSizes
      /\ PfFixed(PfBound.size) \in PfSizings
  BY <1>0, BoundIs, FixedTyped
<1>3. made \in PfBindings /\ made.token # {} /\ made.existed = PfBound.existed
      /\ made.before = PfBound.before
  BY <1>2 DEF PfBindings
<1>4. pfLive' \in PfInventories
  BY <1>1, <1>2, PfQuietTyped, WithTyped
<1>5. /\ pfJournal' \subseteq PfEntries /\ \A e, f \in pfJournal' : e = f
      /\ \A e \in pfJournal' : EntrySound(e)
  BY <1>0 DEF PfInv, PfTypeOK
<1> HIDE DEF made
<1>6. /\ pfBinding' \subseteq PfBindings /\ \A b, c \in pfBinding' : b = c /\ pfBinding' # {}
      /\ \A b \in pfBinding' : BindingSound(b)'
  <2>1. CASE pfBinding' = {made}
    BY <1>2, <1>3, <2>1 DEF BindingSound
  <2>2. CASE pfBinding' = pfBinding /\ pfPc' # "token"
    BY <1>0, <2>2 DEF PfInv, PfTypeOK, BindingSound
  <2> QED BY <1>1, <2>1, <2>2
<1> QED BY <1>0, <1>1, <1>4, <1>5, <1>6, PfQuietTyped, PfRowStep DEF PfApplying

LEMMA TokenStep ==
  ASSUME PfInv, PfToken PROVE PfInv'
<1> DEFINE written == persist_created_pagefile_token(pfJournal, PfBound.token)
<1>0. /\ pfPc = "token" /\ pfBinding # {} /\ UNCHANGED <<pfLive, pfBinding, pfDisturbed, pfQuiet>>
      /\ pfPc' \in {"verify", "undo"} /\ (pfJournal' = written \/ pfJournal' = pfJournal)
  BY DEF PfToken, PfStep, PfInv, PfApplying
<1>1. PfBound.token \in SUBSET PfSizings /\ PfBound.token # {}
  BY <1>0, BoundIs DEF BindingSound
<1>2. ASSUME NEW w \in written PROVE w \in PfEntries /\ EntrySound(w)
  <2>1. PICK e \in pfJournal : w = [e EXCEPT !.created = PfBound.token, !.intent = "created"]
    BY <1>2 DEF persist_created_pagefile_token
  <2>2. e \in PfEntries /\ EntrySound(e)
    BY <2>1 DEF PfInv, PfTypeOK
  <2>3. w \in PfEntries /\ w.created = PfBound.token /\ w.existed = e.existed /\ w.before = e.before
    BY <1>1, <2>1, <2>2 DEF PfEntries
  <2> QED BY <1>1, <2>2, <2>3 DEF EntrySound
<1>3. \A v, w \in written : v = w
  BY DEF persist_created_pagefile_token, PfInv, PfTypeOK
<1> HIDE DEF written
<1>4. /\ pfJournal' \subseteq PfEntries /\ \A e, f \in pfJournal' : e = f
      /\ \A e \in pfJournal' : EntrySound(e)
  BY <1>0, <1>2, <1>3 DEF PfInv, PfTypeOK
<1>5. /\ pfBinding' \subseteq PfBindings /\ \A b, c \in pfBinding' : b = c
      /\ \A b \in pfBinding' : BindingSound(b)'
  BY <1>0 DEF PfInv, PfTypeOK, BindingSound
<1> QED BY <1>0, <1>4, <1>5, PfQuietTyped, PfRowStep DEF PfApplying

LEMMA VerifyStep ==
  ASSUME PfInv, PfVerify PROVE PfInv'
<1>1. /\ pfBinding # {} /\ pfPc' \in {"idle", "undo"} /\ UNCHANGED <<pfLive, pfJournal, pfDisturbed, pfQuiet>>
      /\ pfBinding' \in {pfBinding, {}} /\ (pfPc' = "undo" => pfBinding' = pfBinding)
  BY DEF PfVerify, PfStep, PfInv, PfApplying
<1> QED BY <1>1, PfKeeps, PfQuietTyped, PfRowStep DEF PfApplying

LEMMA UndoSteps ==
  ASSUME PfInv, PfUndoTarget \/ PfUndoAutomatic PROVE PfInv'
<1>0. pfBinding # {}
  BY DEF PfUndoTarget, PfUndoAutomatic, PfStep, PfInv, PfApplying
<1>1. CASE PfUndoTarget
  <2>1. /\ pfPc' = "undo automatic" /\ UNCHANGED <<pfJournal, pfBinding, pfDisturbed, pfQuiet>>
        /\ \/ pfLive' = PfWithout(pfLive, TargetPath)
           \/ PfBound.existed /\ pfLive' = PfWith(pfLive, PfBound.before.settings[TargetPath])
           \/ pfLive' = pfLive
    BY <1>1 DEF PfUndoTarget, PfStep
  <2>2. pfLive' \in PfInventories
    BY <1>0, <2>1, BoundIs, PfQuietTyped, WithTyped, WithoutTyped
  <2> QED BY <1>0, <2>1, <2>2, PfKeeps, PfQuietTyped, PfRowStep DEF PfApplying
<1>2. CASE PfUndoAutomatic
  <2>1. /\ pfPc' = "idle" /\ UNCHANGED <<pfJournal, pfDisturbed, pfQuiet>> /\ pfBinding' = {}
        /\ pfLive' = pfLive \/ pfLive' = [pfLive EXCEPT !.automatic = PfBound.before.automatic]
    BY <1>2 DEF PfUndoAutomatic, PfStep
  <2>2. pfLive' \in PfInventories
    <3>1. PfBound.before.automatic \in BOOLEAN
      BY <1>0, BoundIs, InventoryForm
    <3> QED BY <2>1, <3>1, PfQuietTyped, AutomaticSet
  <2> QED BY <2>1, <2>2, PfKeeps, PfQuietTyped, PfRowStep DEF PfApplying
<1> QED BY <1>1, <1>2

-----------------------------------------------------------------------------
(* The pagefile row: restore. *)

LEMMA PfRestoreStarts ==
  ASSUME PfInv, PfRestore PROVE PfInv'
<1>1. /\ pfPc = "idle" /\ pfJournal # {} /\ UNCHANGED <<pfLive, pfJournal, pfBinding, pfDisturbed>>
      /\ pfPc' = (IF created_pagefile_token(PfEntry) = "refused" THEN "refused" ELSE "restore")
      /\ pfQuiet' = TRUE
  BY DEF PfRestore
<1>2. PfProgress(PfEntry)'
  BY <1>1 DEF PfProgress
<1> QED BY <1>1, <1>2, PfQuietTyped, PfRestoreStep DEF PfApplying, PfRestoring

(* Where every call of the restore is. *)
LEMMA InPfRestore ==
  ASSUME PfInv, pfPc \in PfRestoring
  PROVE  /\ pfJournal # {} /\ created_pagefile_token(PfEntry) # "refused"
         /\ pfPc \notin PfApplying
         /\ pfQuiet => PfProgress(PfEntry)
         /\ pfJournal' = pfJournal => PfEntry' = PfEntry
<1>1. pfJournal # {} /\ created_pagefile_token(PfEntry) # "refused"
  BY DEF PfInv
<1>2. pfQuiet => PfProgress(PfEntry)
  BY <1>1, EntryIs DEF PfInv
<1> QED BY <1>1, <1>2 DEF PfApplying, PfRestoring, PfEntry

LEMMA RestoreSettingsStep ==
  ASSUME PfInv, PfRestoreSettings PROVE PfInv'
<1>1. /\ pfPc = "restore" /\ UNCHANGED <<pfJournal, pfBinding, pfDisturbed, pfQuiet>>
      /\ pfPc' \in {"target", "refused"}
      /\ pfPc' = "target" => pfLive.host = PfEntry.before.host
      /\ pfLive' = pfLive \/ pfLive' = PfWithout(pfLive, TargetPath)
  BY DEF PfRestoreSettings, PfStep
<1>2. pfLive' \in PfInventories /\ pfLive'.host = pfLive.host
  BY <1>1, PfQuietTyped, WithoutTyped
<1>3. PfEntry' = PfEntry /\ PfProgress(PfEntry)'
  BY <1>1, <1>2, InPfRestore DEF PfProgress, PfRestoring
<1> QED BY <1>1, <1>2, <1>3, InPfRestore, PfQuietTyped, PfRestoreStep DEF PfRestoring

LEMMA RestoreTargetStep ==
  ASSUME PfInv, PfRestoreTarget PROVE PfInv'
<1>1. /\ pfPc = "target" /\ UNCHANGED <<pfJournal, pfBinding, pfDisturbed, pfQuiet>>
      /\ pfPc' \in {"check", "refused"}
      /\ \/ pfLive' = pfLive
         \/ PfEntry.existed /\ pfLive' = PfWith(pfLive, PfEntry.before.settings[TargetPath])
  BY DEF PfRestoreTarget, PfStep
<1>2. pfJournal # {} /\ PfEntry' = PfEntry
  BY <1>1, InPfRestore DEF PfRestoring
<1>3. pfLive' \in PfInventories /\ pfLive'.host = pfLive.host
  BY <1>1, <1>2, PfQuietTyped, WithTyped, EntryIs
<1>4. pfQuiet => PfProgress(PfEntry)'
  BY <1>1, <1>2, <1>3, InPfRestore DEF PfProgress, PfRestoring
<1> QED BY <1>1, <1>2, <1>3, <1>4, InPfRestore, PfQuietTyped, PfRestoreStep DEF PfRestoring

LEMMA RestoreCheckStep ==
  ASSUME PfInv, PfRestoreCheck PROVE PfInv'
<1>1. /\ pfPc = "check" /\ UNCHANGED <<pfLive, pfJournal, pfBinding, pfDisturbed, pfQuiet>>
      /\ pfPc' \in {"automatic", "refused"}
      /\ pfPc' = "automatic" => verify_pagefile_restoration(PfEntry)
  BY DEF PfRestoreCheck, PfStep
<1>2. PfEntry' = PfEntry /\ (pfQuiet => PfProgress(PfEntry))
  BY <1>1, InPfRestore DEF PfRestoring
<1>3. verify_pagefile_restoration(PfEntry) => verify_pagefile_restoration(PfEntry)'
  BY <1>1, <1>2 DEF verify_pagefile_restoration
<1>4. pfQuiet => PfProgress(PfEntry)'
  BY <1>1, <1>2, <1>3 DEF PfProgress
<1> QED BY <1>1, <1>4, InPfRestore, PfQuietTyped, PfRestoreStep DEF PfRestoring

LEMMA RestoreAutomaticStep ==
  ASSUME PfInv, PfRestoreAutomatic PROVE PfInv'
<1>1. /\ pfPc = "automatic" /\ UNCHANGED <<pfJournal, pfBinding, pfDisturbed, pfQuiet>>
      /\ \/ pfPc' = "refused" /\ pfLive' = pfLive
         \/ /\ pfPc' = "restored"
            /\ pfLive' = [pfLive EXCEPT !.automatic = PfEntry.before.automatic]
  BY DEF PfRestoreAutomatic, PfStep
<1>2. PfEntry' = PfEntry /\ (pfQuiet => PfProgress(PfEntry)) /\ pfJournal # {}
  BY <1>1, InPfRestore DEF PfRestoring
<1>3. /\ pfLive' \in PfInventories /\ pfLive'.host = pfLive.host
      /\ pfLive'.settings = pfLive.settings
      /\ pfPc' = "restored" => pfLive'.automatic = PfEntry.before.automatic
  <2>1. CASE pfPc' = "refused" /\ pfLive' = pfLive
    BY <2>1, PfQuietTyped
  <2>2. CASE /\ pfPc' = "restored"
             /\ pfLive' = [pfLive EXCEPT !.automatic = PfEntry.before.automatic]
    <3>1. PICK v \in BOOLEAN : v = PfEntry.before.automatic
      BY <1>2, EntryIs, InventoryForm
    <3>2. pfLive' = [pfLive EXCEPT !.automatic = v]
      BY <2>2, <3>1
    <3> QED BY <2>2, <3>1, <3>2, PfQuietTyped, AutomaticSet
  <2> QED BY <1>1, <2>1, <2>2
<1>4. verify_pagefile_restoration(PfEntry) => verify_pagefile_restoration(PfEntry)'
  BY <1>2, <1>3 DEF verify_pagefile_restoration, PfSameSetting
<1>5. pfQuiet => PfProgress(PfEntry)'
  BY <1>1, <1>2, <1>3, <1>4 DEF PfProgress
<1> QED BY <1>1, <1>3, <1>5, InPfRestore, PfQuietTyped, PfRestoreStep DEF PfRestoring

LEMMA PfRestoreEndsStep ==
  ASSUME PfInv, PfRestoreEnds PROVE PfInv'
<1>1. /\ pfPc' = "idle" /\ UNCHANGED <<pfLive, pfBinding, pfDisturbed, pfQuiet>>
      /\ pfJournal' = {} \/ pfJournal' = pfJournal
  BY DEF PfRestoreEnds
<1>2. /\ pfJournal' \subseteq PfEntries /\ \A e, f \in pfJournal' : e = f
      /\ \A e \in pfJournal' : EntrySound(e)
      /\ pfBinding' \subseteq PfBindings /\ \A b, c \in pfBinding' : b = c
  BY <1>1 DEF PfInv, PfTypeOK
<1>3. \A b \in pfBinding' : BindingSound(b)'
  BY <1>1 DEF PfInv, BindingSound
<1> QED BY <1>1, <1>2, <1>3, PfQuietTyped, PfRowStep DEF PfApplying

-----------------------------------------------------------------------------
(* The pagefile row: what disturbs it. *)

LEMMA CallFailsStep ==
  ASSUME PfInv, PfCallFails PROVE PfInv'
<1>0. /\ pfDisturbed' \in 0..MaxPagefileDisturbances /\ UNCHANGED <<pfJournal, pfQuiet, pfBinding>>
  BY PfDisturbed DEF PfCallFails
<1>1. /\ pfPc' \in {"idle", "undo", "undo automatic", "refused"}
      /\ pfPc' \in {"undo", "undo automatic"} => pfPc \in PfApplying
  <2>1. pfPc \in PfApplying \cup PfRestoring /\ pfPc # "restored"
    BY DEF PfInv, PfTypeOK, PfCallFails
  <2> QED BY <2>1 DEF PfCallFails, PfApplying, PfRestoring
<1>2. pfLive' \in PfInventories
  <2>1. CASE pfLive' = pfLive
    BY <2>1, PfQuietTyped
  <2>2. CASE pfPc = "disabled" /\ pfLive' = PfWith(pfLive, PfFixed(PfBound.size))
    <3>1. PfBound.size \in WantedSizes
      BY <2>2, BoundIs DEF PfInv, PfApplying
    <3> QED BY <2>2, <3>1, PfQuietTyped, FixedTyped, WithTyped
  <2> QED BY <2>1, <2>2 DEF PfCallFails
<1>3. pfPc' \in PfApplying => pfBinding' # {}
  BY <1>0, <1>1 DEF PfInv, PfApplying
<1> QED BY <1>0, <1>1, <1>2, <1>3, PfKeeps, PfQuietTyped, PfRowStep DEF PfApplying

LEMMA PfCrashStep ==
  ASSUME PfInv, PfCrash PROVE PfInv'
<1>1. /\ pfDisturbed' \in 0..MaxPagefileDisturbances /\ UNCHANGED <<pfLive, pfJournal, pfQuiet>>
      /\ pfBinding' = {} /\ pfPc' = "idle"
  BY PfDisturbed DEF PfCrash
<1> QED BY <1>1, PfKeeps, PfQuietTyped, PfRowStep DEF PfApplying

LEMMA UserEditsStep ==
  ASSUME PfInv, PfUserEdits PROVE PfInv'
<1>1. /\ pfDisturbed' \in 0..MaxPagefileDisturbances /\ UNCHANGED <<pfJournal, pfBinding, pfPc>>
      /\ pfQuiet' = FALSE
  BY PfDisturbed DEF PfUserEdits
<1>2. pfLive' \in PfInventories
  <2>0. pfLive.automatic \in BOOLEAN
    BY PfQuietTyped, InventoryForm
  <2>1. CASE pfLive' = [pfLive EXCEPT !.automatic = ~pfLive.automatic]
    <3>1. PICK v \in BOOLEAN : pfLive' = [pfLive EXCEPT !.automatic = v]
      BY <2>1
    <3> QED BY <3>1, PfQuietTyped, AutomaticSet
  <2>2. CASE \E h \in Hosts : pfLive' = [pfLive EXCEPT !.host = h]
    BY <2>2, PfQuietTyped, HostSet
  <2>3. CASE \E p \in PagefilePaths : pfLive' = PfWithout(pfLive, p)
    BY <2>3, PfQuietTyped, WithoutTyped
  <2>4. CASE \E n \in PagefileSizes : pfLive' = PfWith(pfLive, PfFixed(n))
    BY <2>4, PfQuietTyped, FixedTyped, WithTyped
  <2> QED BY <2>1, <2>2, <2>3, <2>4 DEF PfUserEdits
<1>3. PfTypeOK'
  BY <1>1, <1>2 DEF PfInv, PfTypeOK
<1>4. /\ \A e \in pfJournal' : EntrySound(e)'
      /\ \A b \in pfBinding' : BindingSound(b)'
      /\ PfEntry' = PfEntry
  BY <1>1 DEF PfInv, EntrySound, BindingSound, PfEntry
<1>5. created_pagefile_token(PfEntry)' = created_pagefile_token(PfEntry)
  BY <1>4 DEF created_pagefile_token
<1>6. /\ pfPc' \in PfApplying => pfBinding' # {}
      /\ pfPc' \in PfRestoring => pfJournal' # {} /\ created_pagefile_token(PfEntry)' # "refused"
  BY <1>1, <1>5 DEF PfInv
<1>7. pfQuiet' => \A e \in pfJournal' : PfProgress(e)'
  BY <1>1
<1> QED BY <1>3, <1>4, <1>6, <1>7 DEF PfInv

-----------------------------------------------------------------------------
(* The theorems about the pagefile row. *)

LEMMA PfInitially == PfInit => PfInv
<1> SUFFICES ASSUME NEW h \in Hosts, NEW a \in BOOLEAN, NEW S \in SUBSET PagefilePaths,
                    NEW n \in PagefileSizes,
                    PfStart([host |-> h, automatic |-> a, settings |-> [p \in S |-> PfFixed(n)]])
             PROVE  PfInv
  BY DEF PfInit
<1>1. [p \in S |-> PfFixed(n)] \in [S -> PfSizings]
  BY FixedTyped
<1>2. pfLive \in PfInventories
  <2>1. [p \in S |-> PfFixed(n)] \in UNION {[T -> PfSizings] : T \in SUBSET PagefilePaths}
    BY <1>1
  <2> QED BY <2>1 DEF PfStart, PfInventories
<1>3. pfDisturbed \in 0..MaxPagefileDisturbances
  BY PagefileAssumption DEF PfStart
<1>4. PfTypeOK
  BY <1>2, <1>3 DEF PfStart, PfTypeOK
<1> QED BY <1>4 DEF PfInv, PfStart, PfApplying, PfRestoring

LEMMA PfStepKeeps == PfInv /\ [PfNext]_pfVars => PfInv'
<1> SUFFICES ASSUME PfInv, [PfNext]_pfVars PROVE PfInv'
  OBVIOUS
<1>1. CASE PfNext
  BY <1>1, CaptureStep, JournalStep, DisableStep, MutateStep, TokenStep, VerifyStep, UndoSteps,
     PfRestoreStarts, RestoreSettingsStep, RestoreTargetStep, RestoreCheckStep,
     RestoreAutomaticStep, PfRestoreEndsStep, CallFailsStep, PfCrashStep, UserEditsStep
     DEF PfNext
<1>2. CASE UNCHANGED pfVars
  <2>1. PfTypeOK' /\ PfEntry' = PfEntry
    BY <1>2 DEF pfVars, PfInv, PfTypeOK, PfEntry
  <2>2. \A e : PfProgress(e) => PfProgress(e)'
    BY <1>2 DEF pfVars, PfProgress, verify_pagefile_restoration
  <2> QED BY <1>2, <2>1, <2>2 DEF pfVars, PfInv, EntrySound, BindingSound, created_pagefile_token
<1> QED BY <1>1, <1>2

(* In every reachable state of row P1:8, whatever the user edits, whatever *)
(* call fails and wherever the process ends: the journal holds one entry,  *)
(* true to what its capture saw of the target, and an undisturbed restore  *)
(* is as far as restore_pagefile_transaction has come.                     *)
THEOREM PagefileInvariant == PfSpec => []PfInv
BY PfInitially, PfStepKeeps, PTL DEF PfSpec

(* A restore that reports success undisturbed has put back the host's      *)
(* automatic value and every captured setting, and has deleted the one the *)
(* row had created (restore_pagefile_transaction).                         *)
THEOREM RestoreExact == PfSpec => []PagefileRestoreExact
<1>1. PfInv => PagefileRestoreExact
  <2> SUFFICES ASSUME PfInv, pfPc = "restored", pfQuiet
               PROVE  LET b == PfEntry.before IN
                      /\ pfLive.host = b.host /\ pfLive.automatic = b.automatic
                      /\ \A p \in DOMAIN b.settings \cup {TargetPath} : PfSameSetting(b, pfLive, p)
    BY DEF PagefileRestoreExact
  <2>1. /\ pfJournal # {} /\ created_pagefile_token(PfEntry) # "refused" /\ PfProgress(PfEntry)
    BY InPfRestore DEF PfRestoring
  <2>2. EntrySound(PfEntry) /\ PfEntry.existed \in BOOLEAN
    BY <2>1, EntryIs
  <2>3. verify_pagefile_restoration(PfEntry)
    BY <2>1 DEF PfProgress
  <2>4. TargetPath \notin DOMAIN PfEntry.before.settings =>
          TargetPath \notin DOMAIN pfLive.settings
    <3>1. TargetPath \notin DOMAIN PfEntry.before.settings => PfEntry.intent = "created"
      BY <2>1, <2>2 DEF created_pagefile_token, EntrySound
    <3> QED BY <2>2, <2>3, <3>1 DEF EntrySound, verify_pagefile_restoration
  <2>5. \A p \in DOMAIN PfEntry.before.settings \cup {TargetPath} :
          PfSameSetting(PfEntry.before, pfLive, p)
    BY <2>3, <2>4 DEF verify_pagefile_restoration, PfSameSetting
  <2> QED BY <2>1, <2>5 DEF PfProgress
<1> QED BY PagefileInvariant, <1>1, PTL

-----------------------------------------------------------------------------
(* Cleanup: the retained handles of a walk. *)

(* The elements of a finite set as a sequence, each of them once.          *)
LEMMA SetToSeqListed ==
  ASSUME NEW S, IsFiniteSet(S), NEW s, s = SetToSeq(S)
  PROVE  /\ s \in Seq(S)
         /\ IsInjective(s) /\ ToSet(s) = S
<1>1. PICK n \in Nat : n = Cardinality(S)
  BY FS_CardinalityType
<1>2. ExistsBijection(1..n, S)
  BY <1>1, FS_CardinalityType
<1>3. \E f \in [1..n -> S] : IsInjective(f)
  BY <1>2 DEF ExistsBijection, Bijection, Injection
<1>4. s \in [1..n -> S] /\ IsInjective(s)
  BY <1>1, <1>3 DEF SetToSeq
<1>5. s \in Seq(S) /\ DOMAIN s = 1..n
  BY <1>4
<1>6. \A i, j \in DOMAIN s : s[i] = s[j] => i = j
  BY <1>4, <1>5 DEF IsInjective
<1>7. ToSet(s) = S
  <2>1. ToSet(s) \subseteq S
    BY <1>4, <1>5 DEF ToSet
  <2>2. s \in [1..n -> ToSet(s)] /\ \A e \in ToSet(s) : \E i \in 1..n : s[i] = e
    BY <1>4, <1>5 DEF ToSet
  <2>3. ExistsBijection(1..n, ToSet(s))
    <3>1. s \in Bijection(1..n, ToSet(s))
      BY <1>5, <1>6, <2>2 DEF Bijection, Injection, Surjection, IsInjective
    <3> QED BY <3>1 DEF ExistsBijection
  <2>4. Cardinality(ToSet(s)) = n
    BY <2>3, FS_CountingElements
  <2>5. IsFiniteSet(ToSet(s))
    BY <2>1, FS_Subset
  <2> QED BY <1>1, <2>1, <2>4, FS_Subset
<1> QED BY <1>4, <1>5, <1>7

(* What the concatenation r of a and b is made of.                         *)
IsJoin(T, a, b, r) ==
  /\ r \in Seq(T) /\ ToSet(r) = ToSet(a) \cup ToSet(b)
  /\ \A i \in DOMAIN a : i \in DOMAIN r /\ r[i] = a[i]
  /\ \A i \in DOMAIN r \ DOMAIN a : r[i] \in ToSet(b)
  /\ IsInjective(a) /\ IsInjective(b) /\ ToSet(a) \cap ToSet(b) = {} => IsInjective(r)

LEMMA Joined ==
  ASSUME NEW T, NEW a \in Seq(T), NEW b \in Seq(T), NEW r, r = a \o b
  PROVE  IsJoin(T, a, b, r)
<1>1. /\ Len(a) \in Nat /\ Len(b) \in Nat /\ DOMAIN a = 1..Len(a) /\ DOMAIN b = 1..Len(b)
  OBVIOUS
<1>2. /\ r \in Seq(T) /\ Len(r) = Len(a) + Len(b)
      /\ \A n \in 1..(Len(a) + Len(b)) : r[n] = IF n <= Len(a) THEN a[n] ELSE b[n - Len(a)]
  BY ConcatProperties
<1>3. DOMAIN r = 1..(Len(a) + Len(b))
  BY <1>2
<1>4. \A i \in DOMAIN a : i \in DOMAIN r /\ r[i] = a[i]
  BY <1>1, <1>2, <1>3
<1>5. \A i \in DOMAIN b : i + Len(a) \in DOMAIN r /\ r[i + Len(a)] = b[i]
  BY <1>1, <1>2, <1>3
<1>6. \A i \in DOMAIN r \ DOMAIN a : i - Len(a) \in DOMAIN b /\ r[i] = b[i - Len(a)]
  BY <1>1, <1>2, <1>3
<1>7. ToSet(r) = ToSet(a) \cup ToSet(b)
  <2>1. ToSet(r) \subseteq ToSet(a) \cup ToSet(b)
    BY <1>4, <1>6 DEF ToSet
  <2>2. ToSet(a) \subseteq ToSet(r)
    BY <1>4 DEF ToSet
  <2>3. ToSet(b) \subseteq ToSet(r)
    BY <1>5 DEF ToSet
  <2> QED BY <2>1, <2>2, <2>3
<1>8. \A i \in DOMAIN r \ DOMAIN a : r[i] \in ToSet(b)
  BY <1>6 DEF ToSet
<1>9. ASSUME IsInjective(a), IsInjective(b), ToSet(a) \cap ToSet(b) = {} PROVE IsInjective(r)
  <2> SUFFICES ASSUME NEW i \in DOMAIN r, NEW j \in DOMAIN r, r[i] = r[j] PROVE i = j
    BY DEF IsInjective
  <2>1. CASE i \in DOMAIN a /\ j \in DOMAIN a
    BY <1>4, <1>9, <2>1 DEF IsInjective
  <2>2. CASE i \notin DOMAIN a /\ j \notin DOMAIN a
    <3>1. i - Len(a) = j - Len(a)
      BY <1>6, <1>9, <2>2 DEF IsInjective
    <3> QED BY <1>1, <1>3, <3>1
  <2>3. \A k \in DOMAIN a : r[k] \in ToSet(a)
    BY <1>4 DEF ToSet
  <2>4. (i \in DOMAIN a) <=> (j \in DOMAIN a)
    BY <1>8, <1>9, <2>3
  <2> QED BY <2>1, <2>2, <2>4
<1> QED BY <1>2, <1>4, <1>7, <1>8, <1>9 DEF IsJoin

LEMMA TailOnce ==
  ASSUME NEW T, NEW s \in Seq(T), s # <<>>, IsInjective(s)
  PROVE  /\ Head(s) \in T /\ Head(s) \in ToSet(s) /\ Tail(s) \in Seq(T) /\ IsInjective(Tail(s))
         /\ ToSet(Tail(s)) \subseteq ToSet(s) /\ Head(s) \notin ToSet(Tail(s))
<1>1. Len(s) \in Nat /\ Len(s) # 0 /\ DOMAIN s = 1..Len(s) /\ 1 \in DOMAIN s /\ Head(s) = s[1]
  BY EmptySeq
<1>2. PICK t : t = Tail(s)
  OBVIOUS
<1>3. t \in Seq(T) /\ Len(t) = Len(s) - 1 /\ \A i \in 1..Len(t) : t[i] = s[i + 1]
  BY <1>1, <1>2, HeadTailProperties
<1>4. DOMAIN t = 1..(Len(s) - 1) /\ \A i \in DOMAIN t : i + 1 \in DOMAIN s /\ i + 1 # 1 /\ t[i] = s[i + 1]
  BY <1>1, <1>3
<1>5. IsInjective(t)
  <2> SUFFICES ASSUME NEW i \in DOMAIN t, NEW j \in DOMAIN t, t[i] = t[j] PROVE i = j
    BY DEF IsInjective
  <2>1. i + 1 = j + 1
    BY <1>4 DEF IsInjective
  <2> QED BY <1>1, <1>4, <2>1
<1>6. ToSet(t) \subseteq ToSet(s)
  BY <1>4 DEF ToSet
<1>7. s[1] \notin ToSet(t)
  BY <1>1, <1>4 DEF ToSet, IsInjective
<1> QED BY <1>1, <1>2, <1>3, <1>5, <1>6, <1>7 DEF ToSet

-----------------------------------------------------------------------------
(* An action ends and the tree is let go of.                               *)
LEMMA OutcomeInv ==
  ASSUME ClInv, clPc # "idle", NEW outcome \in {"Completed", "Deferred", "Failed"}, NEW items \in Nat,
         Outcome(outcome, items), UNCHANGED clParent
  PROVE  /\ ClInv'
         /\ \A k \in DOMAIN clReport' \ DOMAIN clReport :
              clReport'[k].outcome = outcome /\ clReport'[k].items = items
<1>1. /\ clReport \in Seq(ClResults) /\ clActions \in Seq(ClActions) /\ clActions # <<>>
      /\ clParent \in [TempObjects -> Directories \cup {Gone}]
  BY DEF ClInv, ClShape
<1>2. PICK h, t : h = Head(clActions) /\ t = Tail(clActions)
  OBVIOUS
<1>3. h \in ClActions /\ t \in Seq(ClActions)
  BY <1>1, <1>2, HeadTailProperties
<1>4. PICK res : res = [action |-> h, outcome |-> outcome, items |-> items]
  OBVIOUS
<1>5. res \in ClResults
  BY <1>3, <1>4 DEF ClResults
<1>6. /\ clReport' = Append(clReport, res) /\ clActions' = t
      /\ clPc' = IF t = <<>> THEN "idle" ELSE "next"
      /\ clNodes' = <<>> /\ clTodo' = <<>> /\ clFailures' = FALSE
  BY <1>2, <1>4 DEF Outcome, Result
<1>7. /\ clReport' \in Seq(ClResults) /\ clNodes' \in Seq(Roots \cup TempObjects)
      /\ clTodo' \in Seq(Directories)
  BY <1>1, <1>5, <1>6
<1>8. ClShape'
  BY <1>1, <1>3, <1>6, <1>7 DEF ClShape, TreePcs
<1>9. OneTree'
  BY <1>6 DEF OneTree, IsInjective
<1>10. WalkedOnce' /\ PassedGone'
  BY <1>6 DEF WalkedOnce, PassedGone
<1>11. \A k \in DOMAIN clReport' \ DOMAIN clReport : clReport'[k] = res
  BY <1>1, <1>6
<1> QED BY <1>4, <1>8, <1>9, <1>10, <1>11 DEF ClInv

LEMMA ClInitInv == ClInit => ClInv
<1> SUFFICES ASSUME NEW parent \in [TempObjects -> Roots \cup TempDirs \cup {Gone}], ClStart(parent)
             PROVE  ClInv
  BY DEF ClInit
<1>1. /\ clParent \in [TempObjects -> Directories \cup {Gone}] /\ clFailures \in BOOLEAN
      /\ clReport = <<>> /\ clActions = <<>> /\ clNodes = <<>> /\ clTodo = <<>> /\ clPc = "idle"
  BY DEF ClStart, Directories
<1>2. ClShape
  BY <1>1 DEF ClShape, TreePcs
<1>3. OneTree /\ WalkedOnce /\ PassedGone
  BY <1>1 DEF OneTree, WalkedOnce, PassedGone, IsInjective
<1> QED BY <1>2, <1>3 DEF ClInv

LEMMA RunInv == ASSUME ClInv, run_cleanup PROVE ClInv'
<1>1. PICK mode \in {"Quick", "Full", "Driver"} : clActions' = cleanup_actions(mode)
  BY DEF run_cleanup
<1>2. /\ clPc = "idle" /\ clPc' = "next"
      /\ UNCHANGED <<clParent, clNodes, clTodo, clFailures, clReport>>
  BY DEF run_cleanup
<1>3. cleanup_actions(mode) \in Seq(ClActions) /\ cleanup_actions(mode) # <<>>
  <2>1. CASE mode = "Driver"
    BY <2>1 DEF cleanup_actions, ClActions
  <2>2. CASE mode # "Driver"
    <3>1. PICK a, b, r : a = TreeActions /\ b = <<"FlushDnsResolverCache", "TrimSystemFileCache">> /\ r = a \o b
      OBVIOUS
    <3>2. TreeActions \in Seq(Roots)
      BY CleanupAssumption, SetToSeqListed DEF TreeActions
    <3>3. a \in Seq(ClActions)
      BY <3>1, <3>2 DEF ClActions
    <3>4. b \in Seq(ClActions) /\ Len(b) = 2
      BY <3>1 DEF ClActions
    <3>5. r \in Seq(ClActions) /\ Len(r) = Len(a) + 2 /\ Len(a) \in Nat
      BY <3>1, <3>3, <3>4, ConcatProperties
    <3>6. r # <<>>
      BY <3>5
    <3> QED BY <2>2, <3>1, <3>5, <3>6 DEF cleanup_actions
  <2> QED BY <2>1, <2>2
<1>4. ClShape'
  BY <1>1, <1>2, <1>3 DEF ClInv, ClShape, TreePcs
<1>5. OneTree' /\ WalkedOnce' /\ PassedGone'
  BY <1>2 DEF ClInv, OneTree, WalkedOnce, PassedGone
<1> QED BY <1>4, <1>5 DEF ClInv

(* The root is opened, and the tree begins with it.                        *)
LEMMA RootOpened ==
  ASSUME ClInv, clPc = "next", Head(clActions) \in Roots, clPc' = "walk",
         clNodes' = <<Head(clActions)>>, clTodo' = <<Head(clActions)>>,
         UNCHANGED <<clActions, clAt, clFailures, clReport, clParent>>
  PROVE  ClInv'
<1>1. PICK r \in Roots : r = Head(clActions)
  OBVIOUS
<1>2. /\ clNodes' = <<r>> /\ clTodo' = <<r>> /\ ToSet(<<r>>) = {r} /\ DOMAIN <<r>> = {1} /\ <<r>>[1] = r
      /\ r \notin TempObjects
  BY <1>1, CleanupAssumption DEF ToSet
<1>3. <<r>> \in Seq(Roots \cup TempObjects) /\ <<r>> \in Seq(Directories) /\ <<r>> # <<>>
  BY DEF Directories
<1>4. ClShape'
  BY <1>2, <1>3 DEF ClInv, ClShape, TreePcs
<1>5. IsInjective(<<r>>)
  BY <1>2 DEF IsInjective
<1>6. OneTree'
  BY <1>2, <1>5 DEF OneTree
<1>7. WalkedOnce'
  BY <1>2, <1>5 DEF WalkedOnce
<1>8. PassedGone'
  BY DEF PassedGone
<1> QED BY <1>4, <1>6, <1>7, <1>8 DEF ClInv

(* A directory is listed: what is found was not retained before.           *)
LEMMA Walked ==
  ASSUME ClInv, clPc = "walk", clTodo # <<>>, NEW d, d = Head(clTodo),
         NEW found, found = SetToSeq(enumerate_directory(d)),
         NEW dirs, dirs = SetToSeq(enumerate_directory(d) \cap TempDirs),
         clNodes' = clNodes \o found, clTodo' = dirs \o Tail(clTodo),
         UNCHANGED <<clPc, clActions, clAt, clFailures, clReport, clParent>>
  PROVE  ClInv'
<1>1. ClShape /\ OneTree /\ WalkedOnce
  BY DEF ClInv
<1>2. /\ clNodes \in Seq(Roots \cup TempObjects) /\ clNodes # <<>> /\ clTodo \in Seq(Directories)
      /\ clParent \in [TempObjects -> Directories \cup {Gone}]
  BY <1>1 DEF ClShape, TreePcs
<1>3. /\ IsInjective(clTodo) /\ ToSet(clTodo) \subseteq ToSet(clNodes) /\ IsInjective(clNodes)
      /\ \A o \in ToSet(clNodes) \cap TempObjects :
           clParent[o] \in ToSet(clNodes) /\ clParent[o] \notin ToSet(clTodo)
  BY <1>1 DEF WalkedOnce, OneTree
<1>4. PICK nodes, todo, rest : nodes = clNodes /\ todo = clTodo /\ rest = Tail(clTodo)
  OBVIOUS
<1>5. /\ d \in Directories /\ d \in ToSet(todo) /\ rest \in Seq(Directories) /\ IsInjective(rest)
      /\ ToSet(rest) \subseteq ToSet(todo) /\ d \notin ToSet(rest)
  BY <1>2, <1>3, <1>4, TailOnce
<1>6. PICK E : E = enumerate_directory(d)
  OBVIOUS
<1>7. /\ E \subseteq TempObjects /\ \A o \in E : clParent[o] = d
  BY <1>6 DEF enumerate_directory
<1>8. IsFiniteSet(E) /\ IsFiniteSet(E \cap TempDirs)
  BY <1>7, CleanupAssumption, FS_Subset
<1>9. /\ found \in Seq(E) /\ IsInjective(found) /\ ToSet(found) = E
      /\ dirs \in Seq(E \cap TempDirs) /\ IsInjective(dirs) /\ ToSet(dirs) = E \cap TempDirs
  BY <1>6, <1>8, SetToSeqListed
<1>10. E \cap ToSet(nodes) = {}
  BY <1>3, <1>4, <1>5, <1>7
<1>11. found \in Seq(Roots \cup TempObjects) /\ dirs \in Seq(Directories)
  <2>1. E \subseteq Roots \cup TempObjects /\ E \cap TempDirs \subseteq Directories
    BY <1>7 DEF Directories
  <2> QED BY <1>9, <2>1
<1>12. PICK m, t : m = clNodes' /\ t = clTodo'
  OBVIOUS
<1>13. /\ m \in Seq(Roots \cup TempObjects) /\ ToSet(m) = ToSet(nodes) \cup E
       /\ \A i \in DOMAIN nodes : i \in DOMAIN m /\ m[i] = nodes[i]
       /\ \A i \in DOMAIN m \ DOMAIN nodes : m[i] \in E
       /\ IsInjective(m)
  <2>1. m = nodes \o found /\ nodes \in Seq(Roots \cup TempObjects) /\ IsInjective(nodes)
    BY <1>2, <1>3, <1>4, <1>12
  <2>2. ToSet(nodes) \cap ToSet(found) = {}
    BY <1>9, <1>10
  <2>3. IsJoin(Roots \cup TempObjects, nodes, found, m)
    BY <1>11, <2>1, Joined
  <2> QED BY <1>9, <2>1, <2>2, <2>3 DEF IsJoin
<1>14. /\ t \in Seq(Directories) /\ ToSet(t) = (E \cap TempDirs) \cup ToSet(rest) /\ IsInjective(t)
  <2>1. t = dirs \o rest
    BY <1>4, <1>12
  <2>2. ToSet(dirs) \cap ToSet(rest) = {}
    BY <1>3, <1>4, <1>5, <1>9, <1>10
  <2>3. IsJoin(Directories, dirs, rest, t)
    BY <1>5, <1>11, <2>1, Joined
  <2> QED BY <1>5, <1>9, <2>2, <2>3 DEF IsJoin
<1>15. 1 \in DOMAIN nodes
  BY <1>2, <1>4
<1>16. m # <<>>
  BY <1>13, <1>15
<1>17. ClShape'
  BY <1>1, <1>2, <1>12, <1>13, <1>14, <1>16 DEF ClShape, TreePcs
<1>18. OneTree'
  <2>1. ASSUME NEW i \in DOMAIN m PROVE IF i = 1 THEN m[i] \in Roots ELSE m[i] \in TempObjects
    <3>1. CASE i \in DOMAIN nodes
      BY <1>1, <1>4, <1>13, <3>1 DEF OneTree
    <3>2. CASE i \notin DOMAIN nodes
      BY <1>7, <1>13, <1>15, <3>2
    <3> QED BY <3>1, <3>2
  <2> QED BY <1>12, <1>13, <2>1 DEF OneTree
<1>19. WalkedOnce'
  <2>1. ToSet(t) \subseteq ToSet(m)
    BY <1>3, <1>4, <1>5, <1>13, <1>14
  <2>2. ASSUME NEW o \in ToSet(m) \cap TempObjects
        PROVE  clParent[o] \in ToSet(m) /\ clParent[o] \notin ToSet(t)
    <3>1. CASE o \in E
      BY <1>3, <1>4, <1>5, <1>7, <1>10, <1>13, <1>14, <3>1
    <3>2. CASE o \in ToSet(nodes)
      BY <1>3, <1>4, <1>5, <1>10, <1>13, <1>14, <3>2
    <3> QED BY <1>13, <3>1, <3>2
  <2> QED BY <1>12, <1>14, <2>1, <2>2 DEF WalkedOnce
<1>20. PassedGone'
  BY DEF PassedGone
<1> QED BY <1>17, <1>18, <1>19, <1>20 DEF ClInv

(* Deletion, from the last handle to the root.                             *)
LEMMA NodeIndexes ==
  ASSUME ClInv, clPc \in TreePcs
  PROVE  /\ Len(clNodes) \in Nat /\ Len(clNodes) # 0 /\ DOMAIN clNodes = 1..Len(clNodes)
BY EmptySeq DEF ClInv, ClShape

LEMMA Agreed ==
  ASSUME ClInv, clPc = "walk", clPc' = "delete", clAt' = Len(clNodes),
         UNCHANGED <<clActions, clNodes, clTodo, clFailures, clReport, clParent>>
  PROVE  ClInv'
<1>1. Len(clNodes) \in Nat /\ Len(clNodes) # 0 /\ DOMAIN clNodes = 1..Len(clNodes)
  BY NodeIndexes DEF TreePcs
<1>2. ClShape'
  BY DEF ClInv, ClShape, TreePcs
<1>3. OneTree' /\ WalkedOnce'
  BY DEF ClInv, OneTree, WalkedOnce
<1>4. PassedGone'
  <2>1. clAt' \in DOMAIN clNodes /\ ~\E i \in DOMAIN clNodes : i > clAt'
    BY <1>1
  <2> QED BY <2>1 DEF PassedGone
<1> QED BY <1>2, <1>3, <1>4 DEF ClInv

LEMMA Revalidated == ASSUME ClInv, ClRevalidate PROVE ClInv'
<1>1. /\ clPc = "delete" /\ clAt > 1
      /\ UNCHANGED <<clParent, clActions, clNodes, clTodo, clReport>>
      /\ \/ clPc' = "dispose" /\ UNCHANGED <<clAt, clFailures>>
         \/ clAt' = clAt - 1 /\ clFailures' = TRUE /\ UNCHANGED clPc
  BY DEF ClRevalidate
<1>2. Len(clNodes) \in Nat /\ DOMAIN clNodes = 1..Len(clNodes) /\ clAt \in DOMAIN clNodes
  BY <1>1, NodeIndexes DEF TreePcs, ClInv, PassedGone
<1>3. ClShape'
  BY <1>1 DEF ClInv, ClShape, TreePcs
<1>4. OneTree' /\ WalkedOnce'
  BY <1>1 DEF ClInv, OneTree, WalkedOnce
<1>5. PassedGone'
  <2>1. CASE clPc' = "dispose" /\ UNCHANGED <<clAt, clFailures>>
    BY <1>1, <2>1 DEF ClInv, PassedGone
  <2>2. CASE clAt' = clAt - 1 /\ clFailures' = TRUE /\ UNCHANGED clPc
    <3>1. clAt' \in DOMAIN clNodes
      BY <1>1, <1>2, <2>2
    <3> QED BY <1>1, <2>2, <3>1 DEF PassedGone
  <2> QED BY <1>1, <2>1, <2>2
<1> QED BY <1>3, <1>4, <1>5 DEF ClInv

LEMMA Disposed == ASSUME ClInv, delete_postorder PROVE ClInv'
<1>1. /\ clPc = "dispose" /\ clPc' = "delete" /\ clAt' = clAt - 1
      /\ UNCHANGED <<clActions, clNodes, clTodo, clReport>>
  BY DEF delete_postorder
<1>2. /\ Len(clNodes) \in Nat /\ DOMAIN clNodes = 1..Len(clNodes) /\ clAt \in DOMAIN clNodes /\ clAt > 1
  BY <1>1, NodeIndexes DEF TreePcs, ClInv, PassedGone
<1>3. PICK o : o = clNodes[clAt]
  OBVIOUS
<1>4. o \in TempObjects
  BY <1>2, <1>3 DEF ClInv, OneTree
<1>5. \/ clParent' = [clParent EXCEPT ![o] = Gone] /\ clFailures' = clFailures
      \/ clParent' = clParent /\ clFailures' = TRUE
  BY <1>3 DEF delete_postorder, ClInv, ClShape
<1>6. clParent \in [TempObjects -> Directories \cup {Gone}] /\ clFailures \in BOOLEAN
  BY DEF ClInv, ClShape
<1>7. /\ clParent' \in [TempObjects -> Directories \cup {Gone}] /\ clFailures' \in BOOLEAN
      /\ \A x \in TempObjects : clParent[x] = Gone => clParent'[x] = Gone
      /\ clFailures' \/ clParent'[o] = Gone
  BY <1>4, <1>5, <1>6
<1>8. ClShape'
  BY <1>1, <1>7 DEF ClInv, ClShape, TreePcs
<1>9. OneTree' /\ WalkedOnce'
  BY <1>1 DEF ClInv, OneTree, WalkedOnce
<1>10. PassedGone'
  <2>1. clAt' \in DOMAIN clNodes
    BY <1>1, <1>2
  <2>2. ASSUME NEW i \in DOMAIN clNodes, i > clAt' PROVE clFailures' \/ clParent'[clNodes[i]] = Gone
    <3>1. CASE i = clAt
      BY <1>3, <1>7, <3>1
    <3>2. CASE i # clAt
      <4>1. i > clAt /\ i # 1
        BY <1>1, <1>2, <2>2, <3>2
      <4>2. clNodes[i] \in TempObjects
        BY <4>1 DEF ClInv, OneTree
      <4>3. clFailures \/ clParent[clNodes[i]] = Gone
        BY <1>1, <4>1 DEF ClInv, PassedGone
      <4> QED BY <1>5, <1>7, <4>2, <4>3
    <3> QED BY <3>1, <3>2
  <2> QED BY <1>1, <2>1, <2>2 DEF PassedGone
<1> QED BY <1>8, <1>9, <1>10 DEF ClInv

LEMMA OthersInv == ASSUME ClInv, ClOthers PROVE ClInv'
<1>1. UNCHANGED <<clPc, clActions, clNodes, clTodo, clAt, clFailures, clReport>>
  BY DEF ClOthers
<1>2. \/ UNCHANGED clParent
      \/ \E o \in TempObjects \ ToSet(clNodes), d \in Roots \cup TempDirs :
           clParent' = [clParent EXCEPT ![o] = d]
  BY DEF ClOthers
<1>3. clParent \in [TempObjects -> Directories \cup {Gone}]
  BY DEF ClInv, ClShape
<1>4. /\ clParent' \in [TempObjects -> Directories \cup {Gone}]
      /\ \A x \in TempObjects \cap ToSet(clNodes) : clParent'[x] = clParent[x]
  BY <1>2, <1>3 DEF Directories
<1>5. ClShape'
  BY <1>1, <1>4 DEF ClInv, ClShape
<1>6. OneTree'
  BY <1>1 DEF ClInv, OneTree
<1>7. WalkedOnce'
  BY <1>1, <1>4 DEF ClInv, WalkedOnce
<1>8. PassedGone'
  <2> SUFFICES ASSUME clPc \in {"delete", "dispose"}, NEW i \in DOMAIN clNodes, i > clAt
               PROVE  clFailures \/ clParent'[clNodes[i]] = Gone
    BY <1>1 DEF ClInv, PassedGone
  <2>1. i # 1
    BY NodeIndexes DEF ClInv, PassedGone, TreePcs
  <2>2. clNodes[i] \in TempObjects \cap ToSet(clNodes)
    BY <2>1 DEF ClInv, OneTree, ToSet
  <2> QED BY <1>4, <2>2 DEF ClInv, PassedGone
<1> QED BY <1>5, <1>6, <1>7, <1>8 DEF ClInv

(* A tree that is complete: as many objects as handles below the root.     *)
LEMMA TreeCounted ==
  ASSUME ClInv, clPc \in TreePcs
  PROVE  Cardinality(ToSet(clNodes) \cap TempObjects) = Len(clNodes) - 1 /\ Len(clNodes) - 1 \in Nat
<1>1. Len(clNodes) \in Nat /\ Len(clNodes) # 0 /\ DOMAIN clNodes = 1..Len(clNodes)
  BY NodeIndexes
<1>2. PICK n \in Nat : n = Len(clNodes) - 1
  <2>1. Len(clNodes) - 1 \in Nat
    BY <1>1
  <2> QED BY <2>1
<1>3. PICK s, S : s = clNodes /\ S = ToSet(clNodes) \cap TempObjects
  OBVIOUS
<1>4. PICK f : f = [i \in 1..n |-> s[i + 1]]
  OBVIOUS
<1>5. \A i \in 1..n : i + 1 \in DOMAIN s /\ i + 1 # 1 /\ f[i] = s[i + 1]
  BY <1>1, <1>2, <1>3, <1>4
<1>6. IsInjective(s) /\ \A i \in DOMAIN s : IF i = 1 THEN s[i] \in Roots ELSE s[i] \in TempObjects
  BY <1>3 DEF ClInv, OneTree
<1>7. f \in [1..n -> S]
  <2>1. \A i \in 1..n : s[i + 1] \in S
    BY <1>3, <1>5, <1>6 DEF ToSet
  <2> QED BY <1>4, <2>1
<1>8. ASSUME NEW i \in 1..n, NEW j \in 1..n, f[i] = f[j] PROVE i = j
  <2>1. i + 1 = j + 1
    BY <1>5, <1>6, <1>8 DEF IsInjective
  <2> QED BY <2>1
<1>9. ASSUME NEW o \in S PROVE \E i \in 1..n : f[i] = o
  <2>1. PICK j \in DOMAIN s : s[j] = o /\ o \in TempObjects
    BY <1>3 DEF ToSet
  <2>2. j # 1
    BY <1>6, <2>1, CleanupAssumption
  <2>3. j - 1 \in 1..n /\ (j - 1) + 1 = j
    BY <1>1, <1>2, <1>3, <2>2
  <2> QED BY <1>5, <2>1, <2>3
<1>10. f \in Bijection(1..n, S)
  BY <1>7, <1>8, <1>9 DEF Bijection, Injection, Surjection, IsInjective
<1>11. ExistsBijection(1..n, S)
  BY <1>10 DEF ExistsBijection
<1> QED BY <1>2, <1>3, <1>11, FS_CountingElements

LEMMA ClNextInv ==
  ASSUME ClInv, [ClNext]_clVars
  PROVE  /\ ClInv'
         /\ \A k \in DOMAIN clReport' \ DOMAIN clReport :
              clReport'[k].outcome = "Completed" /\ clNodes # <<>> =>
                /\ clReport'[k].items = Cardinality(ToSet(clNodes) \cap TempObjects)
                /\ \A o \in ToSet(clNodes) \cap TempObjects : clParent'[o] = Gone
<1> DEFINE Emptied ==
      \A k \in DOMAIN clReport' \ DOMAIN clReport :
        clReport'[k].outcome = "Completed" /\ clNodes # <<>> =>
          /\ clReport'[k].items = Cardinality(ToSet(clNodes) \cap TempObjects)
          /\ \A o \in ToSet(clNodes) \cap TempObjects : clParent'[o] = Gone
<1>1. ASSUME UNCHANGED clReport PROVE Emptied
  BY <1>1
<1>2. ASSUME NEW outcome \in {"Completed", "Deferred", "Failed"}, Outcome(outcome, 0), UNCHANGED clParent,
             clPc = "next" \/ (clPc # "idle" /\ outcome = "Failed")
      PROVE  ClInv' /\ Emptied
  <2>1. clPc = "next" => clNodes = <<>>
    BY DEF ClInv, ClShape, TreePcs
  <2>2. clPc # "idle" /\ 0 \in Nat
    BY <1>2
  <2>3. ClInv' /\ \A k \in DOMAIN clReport' \ DOMAIN clReport : clReport'[k].outcome = outcome
    BY <1>2, <2>2, OutcomeInv
  <2> QED BY <1>2, <2>1, <2>3
<1>3. CASE run_cleanup
  <2>1. UNCHANGED clReport
    BY <1>3 DEF run_cleanup
  <2> QED BY <1>1, <1>3, <2>1, RunInv
<1>4. CASE driver_report \/ action_effect
  <2>1. /\ clPc = "next" /\ UNCHANGED clParent
        /\ \E outcome \in {"Completed", "Deferred", "Failed"} : Outcome(outcome, 0)
    BY <1>4 DEF driver_report, action_effect
  <2> HIDE DEF Emptied
  <2>2. ClInv' /\ Emptied
    BY <1>2, <2>1
  <2> QED BY <2>2 DEF Emptied
<1>5. CASE preflight
  <2>1. /\ clPc = "next" /\ UNCHANGED clParent /\ Head(clActions) \in Roots
        /\ \/ /\ clPc' = "walk" /\ clNodes' = <<Head(clActions)>> /\ clTodo' = <<Head(clActions)>>
              /\ UNCHANGED <<clActions, clAt, clFailures, clReport>>
           \/ Outcome("Failed", 0) \/ Outcome("Completed", 0)
    BY <1>5 DEF preflight
  <2>2. CASE Outcome("Failed", 0) \/ Outcome("Completed", 0)
    BY <1>2, <2>1, <2>2
  <2>3. CASE /\ clPc' = "walk" /\ clNodes' = <<Head(clActions)>> /\ clTodo' = <<Head(clActions)>>
             /\ UNCHANGED <<clActions, clAt, clFailures, clReport>>
    BY <1>1, <2>1, <2>3, RootOpened
  <2> QED BY <2>1, <2>2, <2>3
<1>6. CASE walk_directory
  <2>1. PICK d : d = Head(clTodo)
    OBVIOUS
  <2>2. PICK found, dirs : /\ found = SetToSeq(enumerate_directory(d))
                           /\ dirs = SetToSeq(enumerate_directory(d) \cap TempDirs)
    OBVIOUS
  <2>3. /\ clPc = "walk" /\ clTodo # <<>> /\ UNCHANGED clParent
        /\ \/ /\ clNodes' = clNodes \o found /\ clTodo' = dirs \o Tail(clTodo)
              /\ UNCHANGED <<clPc, clActions, clAt, clFailures, clReport>>
           \/ Outcome("Failed", 0)
    BY <1>6, <2>1, <2>2 DEF walk_directory
  <2>4. CASE Outcome("Failed", 0)
    BY <1>2, <2>3, <2>4
  <2>5. CASE /\ clNodes' = clNodes \o found /\ clTodo' = dirs \o Tail(clTodo)
             /\ UNCHANGED <<clPc, clActions, clAt, clFailures, clReport>>
    BY <1>1, <2>1, <2>2, <2>3, <2>5, Walked
  <2> QED BY <2>3, <2>4, <2>5
<1>7. CASE ClAgree
  <2>1. /\ clPc = "walk" /\ UNCHANGED clParent
        /\ \/ /\ clPc' = "delete" /\ clAt' = Len(clNodes)
              /\ UNCHANGED <<clActions, clNodes, clTodo, clFailures, clReport>>
           \/ Outcome("Failed", 0)
    BY <1>7 DEF ClAgree
  <2>2. CASE Outcome("Failed", 0)
    BY <1>2, <2>1, <2>2
  <2>3. CASE /\ clPc' = "delete" /\ clAt' = Len(clNodes)
             /\ UNCHANGED <<clActions, clNodes, clTodo, clFailures, clReport>>
    BY <1>1, <2>1, <2>3, Agreed
  <2> QED BY <2>1, <2>2, <2>3
<1>8. CASE ClRevalidate
  <2>1. UNCHANGED clReport
    BY <1>8 DEF ClRevalidate
  <2> QED BY <1>1, <1>8, <2>1, Revalidated
<1>9. CASE delete_postorder
  <2>1. UNCHANGED clReport
    BY <1>9 DEF delete_postorder
  <2> QED BY <1>1, <1>9, <2>1, Disposed
<1>10. CASE ClDone
  <2>1. PICK outcome : outcome = IF clFailures THEN "Failed" ELSE "Completed"
    OBVIOUS
  <2>2. PICK items : items = Len(clNodes) - 1
    OBVIOUS
  <2>3. clPc = "delete" /\ clAt = 1 /\ Outcome(outcome, items) /\ UNCHANGED clParent
    BY <1>10, <2>1, <2>2 DEF ClDone
  <2>4. items = Cardinality(ToSet(clNodes) \cap TempObjects) /\ items \in Nat
    BY <2>2, <2>3, TreeCounted DEF TreePcs
  <2>5. /\ ClInv'
        /\ \A k \in DOMAIN clReport' \ DOMAIN clReport :
             clReport'[k].outcome = outcome /\ clReport'[k].items = items
    <3>1. outcome \in {"Completed", "Deferred", "Failed"} /\ clPc # "idle"
      BY <2>1, <2>3
    <3> QED BY <2>3, <2>4, <3>1, OutcomeInv
  <2>6. ASSUME outcome = "Completed", NEW o \in ToSet(clNodes) \cap TempObjects PROVE clParent'[o] = Gone
    <3>1. clFailures = FALSE
      BY <2>1, <2>6 DEF ClInv, ClShape
    <3>2. PICK i \in DOMAIN clNodes : clNodes[i] = o
      BY DEF ToSet
    <3>3. i # 1
      BY <3>2, CleanupAssumption DEF ClInv, OneTree
    <3>4. i > clAt
      BY <2>3, <3>3, NodeIndexes DEF TreePcs
    <3>5. clParent[o] = Gone
      BY <2>3, <3>1, <3>2, <3>4 DEF ClInv, PassedGone
    <3> QED BY <2>3, <3>5
  <2> QED BY <2>4, <2>5, <2>6
<1>11. CASE ClOthers
  <2>1. UNCHANGED clReport
    BY <1>11 DEF ClOthers
  <2> QED BY <1>1, <1>11, <2>1, OthersInv
<1>12. CASE UNCHANGED clVars
  <2>1. UNCHANGED clReport
    BY <1>12 DEF clVars
  <2>2. ClInv'
    BY <1>12 DEF clVars, ClInv, ClShape, OneTree, WalkedOnce, PassedGone
  <2> QED BY <1>1, <2>1, <2>2
<1> QED BY <1>3, <1>4, <1>5, <1>6, <1>7, <1>8, <1>9, <1>10, <1>11, <1>12 DEF ClNext

(* The retained handles are one root and objects below it, each of them    *)
(* once, and deletion passes none that is neither gone nor recorded as a   *)
(* failure (handles.rs: walk_directory, delete_postorder).                 *)
THEOREM ClInvariant == ClSpec => []ClInv
<1>1. ClInv /\ [ClNext]_clVars => ClInv'
  BY ClNextInv
<1> QED BY <1>1, ClInitInv, PTL DEF ClSpec

(* For any number of roots and objects: an action reported as completed    *)
(* with n items has deleted exactly the n objects both of its passes saw   *)
(* (delete_fixed_roots, delete_postorder).                                 *)
THEOREM CompletedTreesEmptied == ClSpec => CompletedTreeEmptied
<1> DEFINE Emptied ==
      \A k \in DOMAIN clReport' \ DOMAIN clReport :
        clReport'[k].outcome = "Completed" /\ clNodes # <<>> =>
          /\ clReport'[k].items = Cardinality(ToSet(clNodes) \cap TempObjects)
          /\ \A o \in ToSet(clNodes) \cap TempObjects : clParent'[o] = Gone
<1>1. ClInv /\ [ClNext]_clVars => [Emptied]_clVars
  BY ClNextInv
<1> QED BY <1>1, ClInvariant, PTL DEF ClSpec, CompletedTreeEmptied

=============================================================================
