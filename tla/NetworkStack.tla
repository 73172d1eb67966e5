---------------------------- MODULE NetworkStack ----------------------------
(***************************************************************************)
(* The network rows: P1:16, the latency stack of one wired adapter with    *)
(* its QoS policy and NLA value, and the recovery of the older DNS records *)
(* P3:9 (crates/frametime-windows/src/system/network_stack/, dns.rs,       *)
(* network_adapter_bindings.rs; the record's rules are in                  *)
(* crates/frametime-domain/src/backup/network_stack.rs).                   *)
(*                                                                         *)
(* An adapter is an interface GUID joined with the PCI device behind it;   *)
(* its settings live in the device's driver key.  One driver keyword       *)
(* stands for the four of the inventory, which restore treats alike.  The  *)
(* steps of a restore are its registry and WMI calls: the user may move a  *)
(* card or change a value, or the process may end, between any two.        *)
(***************************************************************************)
EXTENDS Integers, FiniteSets

CONSTANTS
  Guids,            \* interface GUIDs
  PciDevices,       \* PCI devices
  NetValues,        \* values of a driver keyword, a server list, a policy
  Absent,           \* no value
  SuiteNla,         \* target_nla_value(): what the suite itself had written
  RssOn,            \* the fixed target of the RSS keyword
  MaxNetChanges     \* bound: changes by the user

ASSUME NetworkAssumption ==
  /\ Guids # {} /\ PciDevices # {}
  /\ Absent \notin NetValues \cup {SuiteNla} /\ RssOn \in NetValues /\ MaxNetChanges \in Nat

VARIABLES
  nsLive,     \* wired adapters, driver keywords, NLA, policy, DNS servers
  nsEntry,    \* the network entry of backup.json: none or one
  nsPc,       \* the next call of the running restore, or "idle"
  nsChanges,  \* changes by the user so far
  nsEnded     \* a restore was interrupted

nsVars == <<nsLive, nsEntry, nsPc, nsChanges, nsEnded>>

Adapters == [guid : Guids, device : PciDevices]
Keywords == {"EEE", "FlowControl", "RSS", "UdpRsc"}

\* SETTINGS: the one keyword the automatic transaction captures and writes.
SETTINGS == {"RSS"}
\* P1_16_INVENTORY: what a persisted transaction has to hold.
P1_16_INVENTORY == [settings |-> Keywords \cup {"QosNla"}, policies |-> {"ports", "app"}]

NlaFacts == {n \in [key : BOOLEAN, value : NetValues \cup {Absent, SuiteNla}] :
               n.value # Absent => n.key}

\* NetworkStackTransaction::validate: the complete inventory, with coherent
\* existence facts.
validate(t) ==
  /\ [settings |-> t.settings, policies |-> t.policies] = P1_16_INVENTORY
  /\ t.nla \in NlaFacts

\* enumerate, adapters, pci_links: interfaces that are up, wired and joined
\* with the PCI device whose driver key names them.
enumerate_network_adapters == nsLive.adapters
\* native_dns::discover: the same interfaces, by their hardware address.
discover_active_physical == nsLive.adapters

\* exact_adapter, reobserve: the one adapter present that has
\* both the interface and the device of the record.
\* Mutant: the interface GUID alone identifies the adapter.
exact_adapterAltered(captured) == {a \in enumerate_network_adapters : a.guid = captured.guid}
exact_adapter(captured) == {a \in enumerate_network_adapters : a = captured}
\* exact_binding of the DNS record: the same, among its own enumeration.
exact_binding(captured) == {a \in discover_active_physical : a = captured}

\* Exactly one active wired adapter can be captured.
select_adapter(observed) == IF Cardinality(observed) = 1 THEN observed ELSE {}

\* The driver key of a device is opened through its present PCI instance and
\* must name the adapter's interface (verify_netcfg_identity).
open_driver_key(adapter) == {a.device : a \in {x \in enumerate_network_adapters : x = adapter}}

\* read_driver_setting, read_raw_value; write_driver_setting: a keyword the
\* driver does not have is reported absent and never created.
read_driver_setting(d) == nsLive.rss[d]
write_driver_setting(keys, value) ==
  [nsLive EXCEPT !.rss = [d \in PciDevices |->
     IF d \in keys /\ @[d] # Absent THEN value ELSE @[d]]]

-----------------------------------------------------------------------------
NsMachines ==
  [adapters : SUBSET Adapters, rss : [PciDevices -> NetValues \cup {Absent}], nla : NlaFacts,
   policy : NetValues \cup {Absent}, servers : [Guids -> NetValues]]

\* Entries an earlier version of the suite left: P1:16 with its NLA and policy
\* facts, or a P3:9 record of one interface.
StackEntries ==
  [kind : {"stack"}, adapter : Adapters, rss : NetValues \cup {Absent},
   nla : NlaFacts, policy : NetValues \cup {Absent}]
DnsEntries == [kind : {"dns"}, adapter : Adapters, servers : NetValues]
NsEntries == StackEntries \cup DnsEntries

\* The calls of restore_network_stack and of restore_dns_entry.
StackCalls ==
  {"setting", "read setting", "nla", "nla key", "read nla", "policy", "read policy"}
DnsCalls == {"servers", "read servers"}

NsTypeOK ==
  /\ nsLive \in NsMachines
  /\ nsEntry = {} \/ \E e \in NsEntries : nsEntry = {e}
  /\ nsPc \in StackCalls \cup DnsCalls \cup {"idle", "restored", "refused", "not captured"}
  /\ nsChanges \in 0..MaxNetChanges /\ nsEnded \in BOOLEAN

\* The adapter an entry names is one the machine had; the suite's NLA value
\* is what a P1:16 of that version had left in place.  Which adapter and which
\* server list it is makes no difference.
NsStart(policy, nla, entry) ==
  /\ nsLive = [adapters |-> {CHOOSE x \in Adapters : TRUE}, rss |-> [d \in PciDevices |-> RssOn],
               nla |-> nla, policy |-> policy, servers |-> [g \in Guids |-> RssOn]]
  /\ nsEntry = entry
  /\ nsPc = "idle" /\ nsChanges = 0 /\ nsEnded = FALSE

NsInit ==
  \E p \in NetValues \cup {Absent}, n \in {x \in NlaFacts : x.value \in {SuiteNla, Absent}},
     entry \in {{}} \cup {{e} : e \in NsEntries} :
    /\ \A e \in entry :
         /\ e.adapter = CHOOSE x \in Adapters : TRUE
         /\ e.kind = "stack" => (n.value = SuiteNla \/ e.nla = n)
    /\ NsStart(p, n, entry)

NsRecord == CHOOSE e \in nsEntry : TRUE

NsStep(from, to) == nsPc = from /\ nsPc' = to /\ UNCHANGED <<nsChanges, nsEnded>>

\* apply_network_stack: RSS is switched on where the driver has the keyword;
\* verify_network_stack reads it back.
apply_network_stack(adapter) == write_driver_setting(open_driver_key(adapter), RssOn)

\* capture_network_stack: the transaction of the automatic row holds SETTINGS
\* and no policy, and is validated before anything is written.
capture_network_stack(adapter) ==
  {t \in {[adapter |-> adapter, settings |-> SETTINGS, policies |-> {},
           nla |-> [key |-> FALSE, value |-> Absent]]} : validate(t)}

\* The Backend's P1:16, as capture and apply have it: a valid capture goes on to
\* the mutation.  inspect_action of this commit refuses the row before that.
NsRunRow ==
  /\ nsPc = "idle" /\ nsEntry = {}
  /\ \E a \in select_adapter(enumerate_network_adapters) :
       IF capture_network_stack(a) # {}
       THEN /\ nsLive' = apply_network_stack(a) /\ nsPc' = "idle"
            /\ nsEntry' = {[kind |-> "stack", adapter |-> a, rss |-> nsLive.rss[a.device],
                            nla |-> nsLive.nla, policy |-> nsLive.policy]}
       ELSE nsPc' = "not captured" /\ UNCHANGED <<nsLive, nsEntry>>
  /\ UNCHANGED <<nsChanges, nsEnded>>

\* restore_network_stack and restore_dns_entry start at their first item.
NsRestore ==
  /\ nsEntry # {}
  /\ NsStep("idle", IF NsRecord.kind = "stack" THEN "setting" ELSE "servers")
  /\ UNCHANGED <<nsLive, nsEntry>>

\* A driver keyword gets its original value back if the adapter and the
\* keyword are still there; an absent original is never synthesised.
NsRestoreSetting ==
  LET found == exact_adapter(NsRecord.adapter)
      keys == UNION {open_driver_key(a) : a \in found}
      skip == NsRecord.rss = Absent
      ok == found # {} /\ \A d \in keys : read_driver_setting(d) # Absent
  IN /\ NsStep("setting", IF found = {} THEN "refused"
                          ELSE IF skip THEN "nla" ELSE IF ok THEN "read setting" ELSE "refused")
     /\ nsLive' = IF ~skip /\ ok THEN write_driver_setting(keys, NsRecord.rss) ELSE nsLive
     /\ UNCHANGED nsEntry

NsReadSetting ==
  LET found == exact_adapter(NsRecord.adapter) IN
  /\ NsStep("read setting",
            IF found # {} /\ \A a \in found : read_driver_setting(a.device) = NsRecord.rss
            THEN "nla" ELSE "refused")
  /\ UNCHANGED <<nsLive, nsEntry>>

\* restore_nla: a captured value is written back into an existing key; a
\* captured absence deletes the value, but only the suite's own.
NsRestoreNla ==
  LET was == NsRecord.nla
      now == nsLive.nla
      found == exact_adapter(NsRecord.adapter) # {}
      to == CASE ~found -> "refused"
              [] found /\ was.value # Absent -> IF now.key THEN "read nla" ELSE "refused"
              [] found /\ was.value = Absent /\ ~now.key
                   -> IF was.key THEN "refused" ELSE "read nla"
              [] found /\ was.value = Absent /\ now.key ->
                   CASE now.value = Absent -> "read nla"
                     [] now.value = SuiteNla -> "nla key"
                     [] OTHER -> "refused"
  IN /\ NsStep("nla", to)
     /\ nsLive' = CASE to = "read nla" /\ was.value # Absent
                         -> [nsLive EXCEPT !.nla.value = was.value]
                    [] to = "nla key" -> [nsLive EXCEPT !.nla.value = Absent]
                    [] OTHER -> nsLive
     /\ UNCHANGED nsEntry

\* restore_nla, after the value is gone: a key the suite created goes too, if
\* nothing was put into it meanwhile.
NsRestoreNlaKey ==
  /\ NsStep("nla key", "read nla")
  /\ nsLive' = IF ~NsRecord.nla.key /\ nsLive.nla.value = Absent
               THEN [nsLive EXCEPT !.nla.key = FALSE] ELSE nsLive
  /\ UNCHANGED nsEntry

\* Mutant: the key is not part of the readback.
read_nlaAltered(was) == nsLive.nla.value = was.value
read_nla(was) == nsLive.nla = was

NsReadNla ==
  /\ NsStep("read nla", IF read_nla(NsRecord.nla) THEN "policy" ELSE "refused")
  /\ UNCHANGED <<nsLive, nsEntry>>

\* restore_policy creates a missing policy and refuses to replace a foreign
\* one; delete_policy removes whatever has the suite's name.
NsRestorePolicy ==
  LET was == NsRecord.policy
      ok == was = Absent \/ nsLive.policy \in {Absent, was}
  IN /\ NsStep("policy", IF ok THEN "read policy" ELSE "refused")
     /\ nsLive' = IF ok THEN [nsLive EXCEPT !.policy = was] ELSE nsLive
     /\ UNCHANGED nsEntry

NsReadPolicy ==
  /\ NsStep("read policy", IF nsLive.policy = NsRecord.policy THEN "restored" ELSE "refused")
  /\ UNCHANGED <<nsLive, nsEntry>>

\* restore_dns_entry: the server list of the exact interface is written back.
NsRestoreServers ==
  LET found == exact_binding(NsRecord.adapter) IN
  /\ NsStep("servers", IF found # {} THEN "read servers" ELSE "refused")
  /\ nsLive' = IF found # {}
               THEN [nsLive EXCEPT !.servers[NsRecord.adapter.guid] = NsRecord.servers]
               ELSE nsLive
  /\ UNCHANGED nsEntry

NsReadServers ==
  /\ NsStep("read servers", IF nsLive.servers[NsRecord.adapter.guid] = NsRecord.servers
                            THEN "restored" ELSE "refused")
  /\ UNCHANGED <<nsLive, nsEntry>>

\* A restored entry leaves the backup; a refused one stays for a retry.
NsEnds ==
  /\ nsPc \in {"restored", "refused", "not captured"} /\ nsPc' = "idle"
  /\ nsEntry' = IF nsPc = "restored" THEN {} ELSE nsEntry
  /\ UNCHANGED <<nsLive, nsChanges, nsEnded>>

\* The process ends between two calls.
NsCrash ==
  /\ nsPc # "idle" /\ nsPc' = "idle" /\ nsEnded' = TRUE
  /\ UNCHANGED <<nsLive, nsEntry, nsChanges>>

\* The user moves or removes a card, or changes one of the values.
NsUserChanges ==
  /\ nsChanges < MaxNetChanges /\ nsChanges' = nsChanges + 1
  /\ \/ \E A \in SUBSET Adapters :
          /\ \A a, b \in A : (a.guid = b.guid \/ a.device = b.device) => a = b
          /\ nsLive' = [nsLive EXCEPT !.adapters = A]
     \/ \E d \in PciDevices, v \in NetValues \cup {Absent} :
          nsLive' = [nsLive EXCEPT !.rss[d] = v]
     \/ \E n \in NlaFacts : nsLive' = [nsLive EXCEPT !.nla = n]
     \/ \E v \in NetValues \cup {Absent} : nsLive' = [nsLive EXCEPT !.policy = v]
  /\ nsLive' # nsLive
  /\ UNCHANGED <<nsEntry, nsPc, nsEnded>>

NsNext ==
  \/ NsRunRow \/ NsRestore \/ NsRestoreSetting \/ NsReadSetting
  \/ NsRestoreNla \/ NsRestoreNlaKey \/ NsReadNla \/ NsRestorePolicy \/ NsReadPolicy
  \/ NsRestoreServers \/ NsReadServers \/ NsEnds \/ NsCrash \/ NsUserChanges

NsSpec == NsInit /\ [][NsNext]_nsVars

-----------------------------------------------------------------------------
\* A restore writes only into the driver key of the PCI device it was captured
\* from: a card that took over the interface GUID keeps its own values
\* (exact_adapter, open_driver_key).
NetworkDeviceBound ==
  [][nsChanges' = nsChanges =>
       \A d \in PciDevices : nsLive'.rss[d] # nsLive.rss[d] =>
         \A e \in nsEntry \cup nsEntry' : e.adapter.device = d]_nsVars

\* With no change by the user a restore that succeeds leaves the NLA key, the
\* policy and the driver value as captured, and one that is refused is either
\* the retry of an interrupted one, over an NLA key the suite had created, or
\* finds a driver value or policy its record cannot account for (restore_nla).
NetworkRestoreOutcome ==
  nsChanges = 0 =>
    /\ (nsPc = "restored" /\ NsRecord.kind = "stack") =>
         /\ nsLive.nla = NsRecord.nla /\ nsLive.policy = NsRecord.policy
         /\ NsRecord.rss # Absent => nsLive.rss[NsRecord.adapter.device] = NsRecord.rss
    /\ (nsPc = "refused" /\ nsEntry # {} /\ NsRecord.kind = "stack") =>
         \/ nsEnded /\ ~NsRecord.nla.key /\ nsLive.nla = [key |-> TRUE, value |-> Absent]
         \/ NsRecord.policy # Absent /\ nsLive.policy \notin {Absent, NsRecord.policy}

-----------------------------------------------------------------------------
\* The inductive invariant behind both.

\* A running restore has its record.
RecordHeld ==
  /\ nsPc \in StackCalls => nsEntry \cap StackEntries # {}
  /\ nsPc \in DnsCalls => nsEntry \cap DnsEntries # {}
  /\ nsPc = "restored" => nsEntry # {}

\* Where a restore of record e may find or leave the NLA key: as the suite had
\* left it, as it was before, or emptied and not yet deleted.
NlaLeft(e) ==
  \/ nsLive.nla = [key |-> TRUE, value |-> SuiteNla] /\ nsPc \notin {"nla key", "read nla"}
  \/ nsLive.nla = e.nla
  \/ /\ nsLive.nla = [key |-> TRUE, value |-> Absent] /\ ~e.nla.key
     /\ nsPc = "nla key" \/ nsEnded

\* What the calls made so far have achieved.
StackProgress(e) ==
  /\ nsPc = "read setting" => e.rss # Absent
  /\ (e.rss # Absent /\ nsPc \in (StackCalls \cup {"restored"}) \ {"setting"}) =>
       nsLive.rss[e.adapter.device] = e.rss
  /\ nsPc = "nla key" => e.nla.value = Absent /\ nsLive.nla = [key |-> TRUE, value |-> Absent]
  /\ nsPc \in {"policy", "read policy", "restored"} => nsLive.nla = e.nla
  /\ nsPc \in {"read policy", "restored"} => nsLive.policy = e.policy

NsInv ==
  /\ NsTypeOK /\ RecordHeld
  /\ nsChanges = 0 => /\ \A d \in PciDevices : nsLive.rss[d] # Absent
                      /\ \A e \in nsEntry : e.adapter \in nsLive.adapters
                      /\ \A e \in nsEntry \cap StackEntries : NlaLeft(e) /\ StackProgress(e)
  /\ NetworkRestoreOutcome

=============================================================================
