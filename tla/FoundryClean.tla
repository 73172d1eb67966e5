----------------------------- MODULE FoundryClean -----------------------------
(***************************************************************************)
(* The cleanup planner of driver-foundry                                   *)
(* (tools/driver-foundry/crates/driver-foundry-clean/src/).  Live clean is *)
(* refused in this build, so a run only journals the actions it would      *)
(* take.  A journal entry is a pair: the surface it acts on, and where its *)
(* target comes from, which is a catalogue file of the vendor or a word    *)
(* for the targets that are written in the code.  All lines of a file are  *)
(* planned together or not at all.                                         *)
(***************************************************************************)
EXTENDS Sequences, FiniteSets, Naturals

CONSTANTS
  CleanRequests   \* the options a run may be started with

GpuVendors == {"nvidia", "amd", "intel", "lisuan"}

\* The optional scopes of RemoveScopes.
RemoveScopes == {"gfe", "nvb", "kmpfd", "igs", "npu", "oneapi", "endurance", "vulkan", "physx",
                 "audiobus", "monitors", "unpack_nvidia", "unpack_amd", "install_cache"}

CleanRecords ==
  [vendor : GpuVendors \cup {"realtek"}, scopes : SUBSET RemoveScopes, unread : SUBSET STRING,
   cache_only : BOOLEAN, no_setup_api : BOOLEAN, dry_run : BOOLEAN, report : BOOLEAN,
   no_restore_point : BOOLEAN, block_driver_search : BOOLEAN,
   safeboot : SUBSET {"prepare", "clear"}, power : SUBSET {"restart", "shutdown"}]

ASSUME CleanRequestsAssumption == CleanRequests \subseteq CleanRecords

VARIABLES
  fcOpts,     \* the options of this run
  fcUnread,   \* catalogues of the vendor that are missing, or hold an unsafe entry
  fcDone,     \* stages that have run, in order
  fcPlan,     \* the journal
  fcResult    \* "running", "refused", "planned", or "reported"

fcVars == <<fcOpts, fcUnread, fcDone, fcPlan, fcResult>>

FcStart(opts) ==
  /\ fcOpts = opts /\ fcUnread = opts.unread /\ fcDone = <<>> /\ fcPlan = {} /\ fcResult = "running"
FcInit == \E opts \in CleanRequests : FcStart(opts)

FcTypeOK ==
  /\ fcOpts.scopes \subseteq RemoveScopes /\ fcOpts.vendor \in GpuVendors \cup {"realtek"}
  /\ fcResult \in {"running", "refused", "planned", "reported"} /\ Len(fcDone) <= 9

-----------------------------------------------------------------------------
On(o, vendor, scope) == o.vendor = vendor /\ scope \in o.scopes

\* Entries of the files that can be read; the others are taken for empty.
try_load_lines(surface, files) == {<<surface, f>> : f \in files \ fcUnread}
Fixed(surface, words) == {<<surface, w>> : w \in words}

load_lines(files) == files \cap fcUnread = {}

\* Stage 0: restore point and driver-search block, when asked for.
stage_resolve_gpu(o) ==
  (IF o.no_restore_point THEN {} ELSE Fixed("Restore", {"pre-clean"}))
    \cup (IF o.block_driver_search THEN Fixed("Search", {"block"}) ELSE {})

stage_early_services(o) ==
  Fixed("Process", {"vendor"})
    \cup try_load_lines("Process", {"services"})
    \cup try_load_lines("Service", {"services"}
           \cup {f \in {"gfeservice"} : On(o, "nvidia", "gfe")}
           \cup {f \in {"nvbservice"} : On(o, "nvidia", "nvb")}
           \cup {f \in {"servicesigs"} : On(o, "intel", "igs")})

stage_intel_package_scopes(o) ==
  try_load_lines("Registry", {f \in {"clsidleftoverigs"} : On(o, "intel", "igs")})
    \cup try_load_lines("Appx",
           {f \in {"packagesigs"} : On(o, "intel", "igs")}
           \cup {f \in {"packagesnpu"} : On(o, "intel", "npu")}
           \cup {f \in {"packagesoneapi"} : On(o, "intel", "oneapi")}
           \cup {f \in {"packagesendurance"} : On(o, "intel", "endurance")})

remove_vendor_appx(o) ==
  Fixed("Appx", {w \in {"vendor"} : o.vendor # "lisuan"} \cup {w \in {"NVIDIA"} : On(o, "nvidia", "gfe")})

stage_preclean_packages(o) ==
  try_load_lines("Registry", {"classroot", "clsidleftover", "interface"}
         \cup {f \in {"classrootgfe", "clsidleftoverGFE", "interfaceGFE"} : On(o, "nvidia", "gfe")}
         \cup {f \in {"clsidleftoverNVB"} : On(o, "nvidia", "nvb")})
    \cup try_load_lines("Appx", {"packages"})
    \cup stage_intel_package_scopes(o) \cup remove_vendor_appx(o)

\* Stage 4, with every scope it serves, is left out under no_setup_api.
stage_setupapi(o) ==
  IF o.no_setup_api THEN {} ELSE
    Fixed("Device", {"vendor"} \cup {w \in {"npu"} : On(o, "intel", "npu")}
                    \cup {w \in {"KMPFD"} : On(o, "amd", "kmpfd")}
                    \cup {w \in {"audiobus"} : "audiobus" \in o.scopes}
                    \cup {w \in {"monitor"} : "monitors" \in o.scopes})
      \cup try_load_lines("File", {f \in {"driverfilesKMPFD"} : On(o, "amd", "kmpfd")})
      \cup try_load_lines("Service", {"servicesaudio"}) \cup try_load_lines("Device", {"servicesaudio"})
      \cup Fixed("MMDevices", {w \in {"vendor"} : "audiobus" \in o.scopes})

deep_file_tokensAltered(o) ==
  LET extra == {f \in {"gfedriverfiles"} : On(o, "nvidia", "gfe")}
                 \cup {f \in {"nvbdriverfiles"} : On(o, "nvidia", "nvb")}
                 \cup {f \in {"driverfilesKMPFD", "driverfilesKMAFD"} : On(o, "amd", "kmpfd")}
                 \cup {f \in {"shareddriverfiles"} : o.vendor = "intel"}
  IN try_load_lines("File", IF extra = {} THEN {"driverfiles"} ELSE extra)
deep_file_tokens(o) ==
  try_load_lines("File", {"driverfiles"}
    \cup {f \in {"gfedriverfiles"} : On(o, "nvidia", "gfe")}
    \cup {f \in {"nvbdriverfiles"} : On(o, "nvidia", "nvb")}
    \cup {f \in {"driverfilesKMPFD", "driverfilesKMAFD"} : On(o, "amd", "kmpfd")}
    \cup {f \in {"shareddriverfiles"} : o.vendor = "intel"})

\* One or the other: the install caches take the place of the shader caches.
clean_caches(o) ==
  Fixed("Path", IF o.scopes \cap {"gfe", "install_cache"} # {} THEN {"install caches"}
                                                               ELSE {"shader caches"})

Unpack(o) == On(o, "nvidia", "unpack_nvidia") \/ On(o, "amd", "unpack_amd")

clean_unpack_targets(o) ==
  IF Unpack(o) THEN Fixed("Path", {"unpacked", "unpacked display"}) ELSE {}

clean_optional_runtime_scopes(o) ==
  UNION {{<<"File", s>>, <<"Registry", s>>} : s \in o.scopes \cap {"physx", "vulkan"}}

stage_deep_clean(o) ==
  deep_file_tokens(o) \cup try_load_lines("Service", {"services"}) \cup Fixed("Task", {"vendor"})
    \cup clean_caches(o) \cup clean_unpack_targets(o) \cup clean_optional_runtime_scopes(o)

\* Driver store, its registry, the lockdown values and the PCI root.
stage_finalize_gpu(o) ==
  Fixed("DriverStore", {"vendor"}) \cup Fixed("Registry", {"driverstore"})
    \cup Fixed("Lockdown", {"vendor"}) \cup Fixed("PciRoot", {"vendor"})

run_cache_only(o) ==
  Fixed("Path", {"shader caches"}
    \cup {w \in {"install caches"} : o.scopes \cap {"gfe", "install_cache"} # {}}
    \cup {w \in {"unpacked"} : Unpack(o)})

run_audio_path(o) ==
  try_load_lines("Service", {"services"}) \cup try_load_lines("Process", {"services"})
    \cup try_load_lines("Registry", {"classroot", "clsidleftover"}) \cup try_load_lines("Appx", {"packages"})
    \cup Fixed("Device", {"vendor"}) \cup Fixed("MMDevices", {"vendor"})
    \cup try_load_lines("File", {"driverfiles"})
    \cup Fixed("DriverStore", {"vendor"}) \cup Fixed("Lockdown", {"vendor"}) \cup Fixed("PciRoot", {"vendor"})

\* prepare_safeboot and clear_safeboot, whichever the request asks for.
safeboot(o) == Fixed("SafeMode", o.safeboot)

request_power(o) == Fixed("Power", o.power)

\* The stages of a run, in order.
run_clean_stages(o) ==
  <<"safemode">> \o (IF o.vendor = "realtek" THEN <<"audio">>
                     ELSE IF o.cache_only THEN <<"cache">>
                     ELSE <<"resolve", "services", "packages", "setupapi", "deep", "finalize">>)
    \o <<"power">>

StagePlan(stage, o) ==
  CASE stage = "safemode" -> safeboot(o)
    [] stage = "audio" -> run_audio_path(o)
    [] stage = "cache" -> run_cache_only(o)
    [] stage = "resolve" -> stage_resolve_gpu(o)
    [] stage = "services" -> stage_early_services(o)
    [] stage = "packages" -> stage_preclean_packages(o)
    [] stage = "setupapi" -> stage_setupapi(o)
    [] stage = "deep" -> stage_deep_clean(o)
    [] stage = "finalize" -> stage_finalize_gpu(o)
    [] stage = "power" -> request_power(o)

\* The catalogues without which a stage is an error.
CoreCatalogues(stage) ==
  CASE stage = "cache" -> {"services"}
    [] stage \in {"audio", "resolve"} -> {"services", "driverfiles"}
    [] OTHER -> {}

-----------------------------------------------------------------------------
\* run_clean: live clean is refused before anything is read.
run_clean ==
  /\ fcResult = "running" /\ ~ fcOpts.dry_run /\ fcResult' = "refused"
  /\ UNCHANGED <<fcOpts, fcUnread, fcDone, fcPlan>>

\* run_clean_with_env: the next stage is journaled, or its catalogues end the run.
run_clean_with_env ==
  /\ fcResult = "running" /\ fcOpts.dry_run /\ Len(fcDone) < Len(run_clean_stages(fcOpts))
  /\ LET stage == run_clean_stages(fcOpts)[Len(fcDone) + 1]
     IN IF load_lines(CoreCatalogues(stage))
        THEN /\ fcPlan' = fcPlan \cup StagePlan(stage, fcOpts)
             /\ fcDone' = Append(fcDone, stage) /\ UNCHANGED fcResult
        ELSE fcResult' = "refused" /\ UNCHANGED <<fcPlan, fcDone>>
  /\ UNCHANGED <<fcOpts, fcUnread>>

\* The plan report is a new file; one that exists makes the whole run an error.
plan_report ==
  /\ fcResult = "running" /\ Len(fcDone) = Len(run_clean_stages(fcOpts))
  /\ fcResult' \in (IF fcOpts.report THEN {"reported", "refused"} ELSE {"planned"})
  /\ UNCHANGED <<fcOpts, fcUnread, fcDone, fcPlan>>

FcNext == run_clean \/ run_clean_with_env \/ plan_report

FcSpec == FcInit /\ [][FcNext]_fcVars

-----------------------------------------------------------------------------
PlanOf(o) == UNION {StagePlan(run_clean_stages(o)[i], o) : i \in DOMAIN run_clean_stages(o)}

\* Asking for more scopes never takes an entry out of the plan: what a run with fewer scopes
\* would plan is in this one's plan too, whichever catalogues are unreadable ("Optional
\* remove-scopes that pull extra catalogs into the plan", options.rs:67).  The shader caches of
\* a full clean are the exception: clean_caches wipes the install caches instead of them.
ScopesOnlyAdd ==
  fcResult \in {"planned", "reported"} =>
    \A fewer \in SUBSET fcOpts.scopes :
      PlanOf([fcOpts EXCEPT !.scopes = fewer]) \ Fixed("Path", {"shader caches"}) \subseteq fcPlan

\* The inductive invariant behind it: the journal is what the stages so far
\* plan, and a finished run has been through all of them.
FcInv ==
  /\ fcOpts \in CleanRecords /\ Len(fcDone) \in 0..Len(run_clean_stages(fcOpts))
  /\ fcDone = SubSeq(run_clean_stages(fcOpts), 1, Len(fcDone))
  /\ fcPlan = UNION {StagePlan(run_clean_stages(fcOpts)[i], fcOpts) : i \in 1..Len(fcDone)}
  /\ fcResult \in {"planned", "reported"} => Len(fcDone) = Len(run_clean_stages(fcOpts))
=============================================================================
