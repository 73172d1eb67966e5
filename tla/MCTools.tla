------------------------------ MODULE MCTools ------------------------------
(* Driver preparation, runtime publication, the desktop shell and the two   *)
(* tools, side by side: one behaviour exercises the part that `focus`       *)
(* names, and the others stay at a fixed initial state.  They share no      *)
(* state: driver-foundry and northclock are programs of their own, and the  *)
(* shell reaches the suite only through the commands the other modules      *)
(* model.                                                                   *)
EXTENDS DriverTransaction, RuntimeTrust, FoundryCatalog, FoundryClean,
        NorthclockStorage, NorthclockWrites, NorthclockTrace, DesktopShell

VARIABLE focus   \* the part this behaviour exercises

toolVars == <<focus, dtVars, rtVars, fiVars, fcVars, ncVars, nwVars, ntVars, dsVars>>

-----------------------------------------------------------------------------
\* driver-foundry install: the three component graph, in every form the
\* catalogue may have; every place an output may be given; every source.
MCPresets == [clean |-> {"a"}, minimal |-> {}]

ShippedCatalog ==
  [ids |-> Components, required |-> {DisplayDriver},
   deps |-> [c \in Components |-> IF c = "a" THEN {"b"} ELSE {}]]

InstallOptions(given, outputs, catalog, preset, select, deselect, pin, dry) ==
  [given |-> given, work |-> <<"w">>, root |-> <<"pkg">>, outputs |-> outputs,
   catalog |-> catalog, preset |-> preset, select |-> select, deselect |-> deselect,
   pin |-> pin, dry_run |-> dry, live_registry_apply |-> FALSE, elevated |-> FALSE]

NoOutputs == [k \in Outputs |-> NoOutput]

MCInstallRequests ==
  {InstallOptions({}, NoOutputs, [ids |-> Components, required |-> q, deps |-> d],
                  "minimal", s, {}, NoPin, TRUE) :
     d \in [drv : SUBSET {"a"}, a : SUBSET {"b", "drv"}, b : SUBSET {"drv"}],
     q \in {{}, {DisplayDriver}, {DisplayDriver, "b"}}, s \in SUBSET Components}
  \cup
  {InstallOptions({"root", "url"}, out, ShippedCatalog, "clean", {}, {}, NoPin, TRUE) :
     out \in [Outputs -> {NoOutput, <<"out">>, <<"w", "out">>, <<"pkg", "x">>,
                          <<"w", "prepared", "x">>}]}
  \cup
  {InstallOptions(g, NoOutputs, ShippedCatalog, "full", {}, {"b"}, pin, dry) :
     g \in {{"archive"}, {"url"}}, pin \in {NoPin, "pinned"}, dry \in BOOLEAN}

\* driver-foundry clean: scopes of every vendor, with and without catalogues.
CleanOptions(vendor, scopes, unread, cache, offline, dry) ==
  [vendor |-> vendor, scopes |-> scopes, unread |-> unread, cache_only |-> cache,
   no_setup_api |-> offline, dry_run |-> dry, report |-> dry, no_restore_point |-> offline,
   block_driver_search |-> cache, safeboot |-> {"clear"}, power |-> {"restart"}]

MCCleanRequests ==
  {CleanOptions(v, s, u, cache, offline, dry) :
     v \in GpuVendors \cup {"realtek"}, cache \in BOOLEAN, offline \in BOOLEAN, dry \in BOOLEAN,
     u \in {{}, {"services"}, {"gfeservice", "packages"}},
     s \in {{"gfe"}, {"gfe", "nvb", "audiobus"}, {"kmpfd", "monitors", "unpack_amd"},
            {"igs", "npu", "oneapi", "physx"}}}

-----------------------------------------------------------------------------
\* The fixed initial state of a part that is not in focus.
DtRestState == DtStart([gpus |-> {}, packages |-> [g \in Gpus |-> {}]])
RtRestState == RtStart([f \in TreeFiles |-> CHOOSE r \in PinnedReleases : TRUE])
FiRestState ==
  FiStart(InstallOptions({}, NoOutputs, ShippedCatalog, "clean", {}, {}, NoPin, TRUE))
FcRestState == FcStart(CleanOptions("nvidia", {}, {}, FALSE, FALSE, TRUE))
NcRestState == NcStart(NoData)
NwRestState == NwStart([t \in Settable |-> CHOOSE m \in SystemMasks : TRUE])
DsRestState == DsStart(FALSE)

ToolsInit ==
  /\ focus \in {"driver", "runtime", "install", "clean", "storage", "writes", "trace", "shell"}
  /\ IF focus = "driver" THEN DtInit ELSE DtRestState
  /\ IF focus = "runtime" THEN RtInit ELSE RtRestState
  /\ IF focus = "install" THEN FiInit ELSE FiRestState
  /\ IF focus = "clean" THEN FcInit ELSE FcRestState
  /\ IF focus = "storage" THEN NcInit ELSE NcRestState
  /\ IF focus = "writes" THEN NwInit ELSE NwRestState
  /\ NtInit
  /\ IF focus = "shell" THEN DsInit ELSE DsRestState

ToolsNext ==
  \/ /\ focus = "driver" /\ DtNext
     /\ UNCHANGED <<focus, rtVars, fiVars, fcVars, ncVars, nwVars, ntVars, dsVars>>
  \/ /\ focus = "runtime" /\ RtNext
     /\ UNCHANGED <<focus, dtVars, fiVars, fcVars, ncVars, nwVars, ntVars, dsVars>>
  \/ /\ focus = "install" /\ FiNext
     /\ UNCHANGED <<focus, dtVars, rtVars, fcVars, ncVars, nwVars, ntVars, dsVars>>
  \/ /\ focus = "clean" /\ FcNext
     /\ UNCHANGED <<focus, dtVars, rtVars, fiVars, ncVars, nwVars, ntVars, dsVars>>
  \/ /\ focus = "storage" /\ NcNext
     /\ UNCHANGED <<focus, dtVars, rtVars, fiVars, fcVars, nwVars, ntVars, dsVars>>
  \/ /\ focus = "writes" /\ NwNext
     /\ UNCHANGED <<focus, dtVars, rtVars, fiVars, fcVars, ncVars, ntVars, dsVars>>
  \/ /\ focus = "trace" /\ NtNext
     /\ UNCHANGED <<focus, dtVars, rtVars, fiVars, fcVars, ncVars, nwVars, dsVars>>
  \/ /\ focus = "shell" /\ DsNext
     /\ UNCHANGED <<focus, dtVars, rtVars, fiVars, fcVars, ncVars, nwVars, ntVars>>

ToolsSpec == ToolsInit /\ [][ToolsNext]_toolVars

\* Both threads of a capture are scheduled.
FairToolsSpec == ToolsSpec /\ (focus = "trace" => NtFairness)

-----------------------------------------------------------------------------
\* The type invariant of every part: files, handles, plans and windows keep
\* their shape through every interleaving.
ToolsTypeOK ==
  /\ DtTypeOK /\ RtTypeOK /\ FiTypeOK /\ FcTypeOK
  /\ NcTypeOK /\ NwTypeOK /\ NtTypeOK /\ DsTypeOK
=============================================================================
