---------------------------- MODULE FoundryProofs ----------------------------
(***************************************************************************)
(* Proofs about FoundryClean and FoundryInstall, for any requests,         *)
(* packages and replies.                                                   *)
(*                                                                         *)
(* FcInv is inductive: the journal of a clean is at every point what its   *)
(* stages so far plan, so what a run plans is a function of what it was    *)
(* asked for and of the catalogues it could read.                          *)
(*                                                                         *)
(* FiInv is inductive: what a copy holds came from the one package root it *)
(* opened, and a required component that is not there yet is still to be   *)
(* copied.  The resolution of the selection is a parameter (Resolve); all  *)
(* that is assumed of it is that it keeps the required components.         *)
(***************************************************************************)
EXTENDS FoundryClean, FoundryInstall, TLAPS

-----------------------------------------------------------------------------
(* driver-foundry clean: what a run plans, by scope. *)

(* The options of a run that asks for fewer scopes. *)
Fewer(o, fewer) ==
  /\ fewer.scopes \subseteq o.scopes
  /\ fewer.vendor = o.vendor /\ fewer.cache_only = o.cache_only
  /\ fewer.no_setup_api = o.no_setup_api /\ fewer.no_restore_point = o.no_restore_point
  /\ fewer.block_driver_search = o.block_driver_search
  /\ fewer.safeboot = o.safeboot /\ fewer.power = o.power

LEMMA FewerScopes ==
  ASSUME NEW o \in CleanRecords, NEW scopes \in SUBSET o.scopes
  PROVE  Fewer(o, [o EXCEPT !.scopes = scopes])
BY DEF CleanRecords, Fewer

(* More files, or more words, are more entries. *)
LEMMA MoreFiles ==
  ASSUME NEW surface, NEW files, NEW more, files \subseteq more
  PROVE  try_load_lines(surface, files) \subseteq try_load_lines(surface, more)
BY DEF try_load_lines

LEMMA MoreWords ==
  ASSUME NEW surface, NEW words, NEW more, words \subseteq more
  PROVE  Fixed(surface, words) \subseteq Fixed(surface, more)
BY DEF Fixed

LEMMA MoreOn ==
  ASSUME NEW o, NEW fewer, Fewer(o, fewer), NEW v, NEW scope, On(fewer, v, scope)
  PROVE  On(o, v, scope)
BY DEF Fewer, On

(* Stage by stage: what a run with fewer scopes plans. *)
LEMMA MoreServices ==
  ASSUME NEW o, NEW fewer, Fewer(o, fewer)
  PROVE  stage_early_services(fewer) \subseteq stage_early_services(o)
<1> DEFINE Files(r) ==
  {"services"}
    \cup {f \in {"gfeservice"} : On(r, "nvidia", "gfe")}
    \cup {f \in {"nvbservice"} : On(r, "nvidia", "nvb")}
    \cup {f \in {"servicesigs"} : On(r, "intel", "igs")}
<1>1. Files(fewer) \subseteq Files(o)
  BY MoreOn
<1>2. try_load_lines("Service", Files(fewer)) \subseteq try_load_lines("Service", Files(o))
  BY <1>1, MoreFiles
<1> QED BY <1>2 DEF stage_early_services

LEMMA MorePackages ==
  ASSUME NEW o, NEW fewer, Fewer(o, fewer)
  PROVE  stage_preclean_packages(fewer) \subseteq stage_preclean_packages(o)
<1> DEFINE Registry(r) ==
             {"classroot", "clsidleftover", "interface"}
               \cup {f \in {"classrootgfe", "clsidleftoverGFE", "interfaceGFE"} : On(r, "nvidia", "gfe")}
               \cup {f \in {"clsidleftoverNVB"} : On(r, "nvidia", "nvb")}
           Leftover(r) == {f \in {"clsidleftoverigs"} : On(r, "intel", "igs")}
           Packages(r) ==
             {f \in {"packagesigs"} : On(r, "intel", "igs")}
               \cup {f \in {"packagesnpu"} : On(r, "intel", "npu")}
               \cup {f \in {"packagesoneapi"} : On(r, "intel", "oneapi")}
               \cup {f \in {"packagesendurance"} : On(r, "intel", "endurance")}
           Vendor(r) ==
             {w \in {"vendor"} : r.vendor # "lisuan"} \cup {w \in {"NVIDIA"} : On(r, "nvidia", "gfe")}
<1>1. /\ Registry(fewer) \subseteq Registry(o) /\ Leftover(fewer) \subseteq Leftover(o)
      /\ Packages(fewer) \subseteq Packages(o)
  BY MoreOn
<1>2. Vendor(fewer) \subseteq Vendor(o)
  BY MoreOn DEF Fewer
<1>3. /\ try_load_lines("Registry", Registry(fewer)) \subseteq try_load_lines("Registry", Registry(o))
      /\ try_load_lines("Registry", Leftover(fewer)) \subseteq try_load_lines("Registry", Leftover(o))
      /\ try_load_lines("Appx", Packages(fewer)) \subseteq try_load_lines("Appx", Packages(o))
      /\ Fixed("Appx", Vendor(fewer)) \subseteq Fixed("Appx", Vendor(o))
  BY <1>1, <1>2, MoreFiles, MoreWords
<1>4. /\ stage_intel_package_scopes(fewer) \subseteq stage_intel_package_scopes(o)
      /\ remove_vendor_appx(fewer) \subseteq remove_vendor_appx(o)
  BY <1>3 DEF stage_intel_package_scopes, remove_vendor_appx
<1> QED BY <1>3, <1>4 DEF stage_preclean_packages

LEMMA MoreSetupApi ==
  ASSUME NEW o, NEW fewer, Fewer(o, fewer)
  PROVE  stage_setupapi(fewer) \subseteq stage_setupapi(o)
<1> DEFINE Devices(r) ==
             {"vendor"} \cup {w \in {"npu"} : On(r, "intel", "npu")}
               \cup {w \in {"KMPFD"} : On(r, "amd", "kmpfd")}
               \cup {w \in {"audiobus"} : "audiobus" \in r.scopes}
               \cup {w \in {"monitor"} : "monitors" \in r.scopes}
           Files(r) == {f \in {"driverfilesKMPFD"} : On(r, "amd", "kmpfd")}
           Audio(r) == {w \in {"vendor"} : "audiobus" \in r.scopes}
<1>1. /\ Devices(fewer) \subseteq Devices(o) /\ Files(fewer) \subseteq Files(o)
      /\ Audio(fewer) \subseteq Audio(o)
  BY MoreOn DEF Fewer
<1>2. /\ Fixed("Device", Devices(fewer)) \subseteq Fixed("Device", Devices(o))
      /\ Fixed("MMDevices", Audio(fewer)) \subseteq Fixed("MMDevices", Audio(o))
      /\ try_load_lines("File", Files(fewer)) \subseteq try_load_lines("File", Files(o))
  BY <1>1, MoreFiles, MoreWords
<1>3. fewer.no_setup_api = o.no_setup_api
  BY DEF Fewer
<1> QED BY <1>2, <1>3 DEF stage_setupapi

LEMMA MoreDeep ==
  ASSUME NEW o, NEW fewer, Fewer(o, fewer)
  PROVE  stage_deep_clean(fewer) \ Fixed("Path", {"shader caches"}) \subseteq stage_deep_clean(o)
<1> DEFINE Files(r) ==
             {"driverfiles"}
               \cup {f \in {"gfedriverfiles"} : On(r, "nvidia", "gfe")}
               \cup {f \in {"nvbdriverfiles"} : On(r, "nvidia", "nvb")}
               \cup {f \in {"driverfilesKMPFD", "driverfilesKMAFD"} : On(r, "amd", "kmpfd")}
               \cup {f \in {"shareddriverfiles"} : r.vendor = "intel"}
<1>1. Files(fewer) \subseteq Files(o)
  BY MoreOn DEF Fewer
<1>2. deep_file_tokens(fewer) \subseteq deep_file_tokens(o)
  BY <1>1, MoreFiles DEF deep_file_tokens
<1>3. clean_caches(fewer) \ Fixed("Path", {"shader caches"}) \subseteq clean_caches(o)
  BY DEF clean_caches, Fewer
<1>4. clean_unpack_targets(fewer) \subseteq clean_unpack_targets(o)
  BY MoreOn DEF clean_unpack_targets, Unpack
<1>5. clean_optional_runtime_scopes(fewer) \subseteq clean_optional_runtime_scopes(o)
  <2>1. fewer.scopes \cap {"physx", "vulkan"} \subseteq o.scopes \cap {"physx", "vulkan"}
    BY DEF Fewer
  <2> QED BY <2>1 DEF clean_optional_runtime_scopes
<1> QED BY <1>2, <1>3, <1>4, <1>5 DEF stage_deep_clean

LEMMA MoreCaches ==
  ASSUME NEW o, NEW fewer, Fewer(o, fewer)
  PROVE  run_cache_only(fewer) \subseteq run_cache_only(o)
<1> DEFINE Words(r) ==
             {"shader caches"}
               \cup {w \in {"install caches"} : r.scopes \cap {"gfe", "install_cache"} # {}}
               \cup {w \in {"unpacked"} : Unpack(r)}
<1>1. Unpack(fewer) => Unpack(o)
  BY MoreOn DEF Unpack
<1>2. Words(fewer) \subseteq Words(o)
  BY <1>1 DEF Fewer
<1>3. run_cache_only(fewer) = Fixed("Path", Words(fewer)) /\ run_cache_only(o) = Fixed("Path", Words(o))
  BY DEF run_cache_only
<1> HIDE DEF Words
<1> QED BY <1>2, <1>3, MoreWords

Stages == {"safemode", "audio", "cache", "resolve", "services", "packages", "setupapi", "deep",
           "finalize", "power"}

LEMMA MoreOfStage ==
  ASSUME NEW o, NEW fewer, Fewer(o, fewer), NEW stage \in Stages
  PROVE  StagePlan(stage, fewer) \ Fixed("Path", {"shader caches"}) \subseteq StagePlan(stage, o)
<1>1. CASE stage = "safemode"
  BY <1>1 DEF StagePlan, safeboot, Fewer
<1>2. CASE stage = "audio"
  BY <1>2 DEF StagePlan, run_audio_path
<1>3. CASE stage = "cache"
  BY <1>3, MoreCaches DEF StagePlan
<1>4. CASE stage = "resolve"
  BY <1>4 DEF StagePlan, stage_resolve_gpu, Fewer
<1>5. CASE stage = "services"
  BY <1>5, MoreServices DEF StagePlan
<1>6. CASE stage = "packages"
  BY <1>6, MorePackages DEF StagePlan
<1>7. CASE stage = "setupapi"
  BY <1>7, MoreSetupApi DEF StagePlan
<1>8. CASE stage = "deep"
  BY <1>8, MoreDeep DEF StagePlan
<1>9. CASE stage = "finalize"
  BY <1>9 DEF StagePlan, stage_finalize_gpu
<1>10. CASE stage = "power"
  BY <1>10 DEF StagePlan, request_power, Fewer
<1> QED BY <1>1, <1>2, <1>3, <1>4, <1>5, <1>6, <1>7, <1>8, <1>9, <1>10 DEF Stages

(* The stages themselves do not depend on the scopes. *)
LEMMA StageNames ==
  ASSUME NEW o
  PROVE  /\ run_clean_stages(o) \in Seq(Stages)
         /\ \A fewer : Fewer(o, fewer) => run_clean_stages(fewer) = run_clean_stages(o)
<1>1. /\ <<"safemode">> \in Seq(Stages) /\ <<"audio">> \in Seq(Stages)
      /\ <<"cache">> \in Seq(Stages) /\ <<"power">> \in Seq(Stages)
      /\ <<"resolve", "services", "packages", "setupapi", "deep", "finalize">> \in Seq(Stages)
  BY DEF Stages
<1> QED BY <1>1 DEF run_clean_stages, Fewer

-----------------------------------------------------------------------------
(* The planner: FcInv is inductive. *)

LEMMA FcInitInv == FcInit => FcInv
<1> SUFFICES ASSUME NEW opts \in CleanRequests, FcStart(opts) PROVE FcInv
  BY DEF FcInit
<1>1. fcOpts \in CleanRecords /\ fcDone = <<>> /\ fcPlan = {} /\ fcResult = "running"
  BY CleanRequestsAssumption DEF FcStart
<1>2. Len(fcDone) = 0 /\ run_clean_stages(fcOpts) \in Seq(Stages)
  BY <1>1, StageNames
<1>3. SubSeq(run_clean_stages(fcOpts), 1, 0) = <<>> /\ 1..0 = {}
  BY <1>2
<1> QED BY <1>1, <1>2, <1>3 DEF FcInv

(* The catalogues that cannot be read stay the same, and so do the plans. *)
LEMMA SamePlan ==
  ASSUME NEW stage, NEW o, fcUnread' = fcUnread
  PROVE  StagePlan(stage, o)' = StagePlan(stage, o)
<1>1. ASSUME NEW surface, NEW files
      PROVE  try_load_lines(surface, files)' = try_load_lines(surface, files)
  BY DEF try_load_lines
<1>2. ASSUME NEW surface, NEW words PROVE Fixed(surface, words)' = Fixed(surface, words)
  BY DEF Fixed
<1> QED
  BY <1>1, <1>2
     DEF StagePlan, safeboot, run_audio_path, run_cache_only, stage_resolve_gpu,
         stage_early_services, stage_preclean_packages, stage_intel_package_scopes,
         remove_vendor_appx, stage_setupapi, stage_deep_clean, deep_file_tokens, clean_caches,
         clean_unpack_targets, clean_optional_runtime_scopes, stage_finalize_gpu, request_power

(* The invariant, for rigid options and stages. *)
LEMMA FcKnown ==
  ASSUME NEW o, NEW stages, stages = run_clean_stages(o), fcOpts = o
  PROVE  FcInv <=> /\ o \in CleanRecords /\ Len(fcDone) \in 0..Len(stages)
                   /\ fcDone = SubSeq(stages, 1, Len(fcDone))
                   /\ fcPlan = UNION {StagePlan(stages[i], o) : i \in 1..Len(fcDone)}
                   /\ fcResult \in {"planned", "reported"} => Len(fcDone) = Len(stages)
BY DEF FcInv

LEMMA FcNextInv ==
  ASSUME FcInv, [FcNext]_fcVars
  PROVE  FcInv'
<1>1. PICK o : o = fcOpts
  OBVIOUS
<1>2. PICK stages \in Seq(Stages) : stages = run_clean_stages(o)
  BY StageNames
<1>3. fcOpts' = o /\ fcUnread' = fcUnread
  BY <1>1 DEF FcNext, run_clean, run_clean_with_env, plan_report, fcVars
<1>4. PICK n : n = Len(fcDone)
  OBVIOUS
<1>5. /\ o \in CleanRecords /\ n \in 0..Len(stages) /\ fcDone = SubSeq(stages, 1, n)
      /\ fcPlan = UNION {StagePlan(stages[i], o) : i \in 1..n}
      /\ fcResult \in {"planned", "reported"} => n = Len(stages)
  BY <1>1, <1>2, <1>4, FcKnown
<1>6. \A stage : StagePlan(stage, o)' = StagePlan(stage, o)
  BY <1>3, SamePlan
<1>7. ASSUME Len(fcDone') \in 0..Len(stages), fcDone' = SubSeq(stages, 1, Len(fcDone')),
             fcPlan' = UNION {StagePlan(stages[i], o) : i \in 1..Len(fcDone')},
             fcResult' \in {"planned", "reported"} => Len(fcDone') = Len(stages)
      PROVE  FcInv'
  <2>1. fcPlan' = UNION {StagePlan(stages[i], o)' : i \in 1..Len(fcDone')}
    BY <1>6, <1>7
  <2>2. run_clean_stages(o) = stages
    BY <1>2
  <2>3. fcOpts' \in CleanRecords /\ run_clean_stages(fcOpts)' = stages
    BY <1>3, <1>5, <2>2
  <2>4. fcPlan' = UNION {StagePlan(run_clean_stages(fcOpts)[i], fcOpts)' : i \in 1..Len(fcDone')}
    BY <1>3, <2>1, <2>3
  <2> QED BY <1>7, <2>3, <2>4 DEF FcInv
<1>8. CASE fcDone' = fcDone /\ fcPlan' = fcPlan
  <2>1. fcResult' \in {"planned", "reported"} => n = Len(stages)
    BY <1>1, <1>2, <1>4, <1>5 DEF FcNext, run_clean, run_clean_with_env, plan_report, fcVars
  <2> QED BY <1>4, <1>5, <1>7, <1>8, <2>1
<1>9. CASE ~(fcDone' = fcDone /\ fcPlan' = fcPlan)
  <2>1. /\ n < Len(stages) /\ fcResult' = "running"
        /\ fcDone' = Append(fcDone, stages[n + 1])
        /\ fcPlan' = fcPlan \cup StagePlan(stages[n + 1], o)
    BY <1>1, <1>2, <1>4, <1>9
       DEF FcNext, run_clean, run_clean_with_env, plan_report, fcVars
  <2>2. /\ n \in Nat /\ n + 1 \in 0..Len(stages) /\ Len(stages) \in Nat
    BY <1>5, <2>1
  <2>3. fcDone' = SubSeq(stages, 1, n + 1) /\ Len(fcDone') = n + 1
    BY <1>5, <2>1, <2>2
  <2>4. 1..(n + 1) = 1..n \cup {n + 1}
    BY <2>2
  <2>5. fcPlan' = UNION {StagePlan(stages[i], o) : i \in 1..(n + 1)}
    BY <1>5, <2>1, <2>4
  <2> QED BY <1>7, <2>1, <2>2, <2>3, <2>5
<1> QED BY <1>8, <1>9

(* The journal is at every point of a run what the stages so far plan. *)
THEOREM FcInvariant == FcSpec => []FcInv
<1>1. FcInv /\ [FcNext]_fcVars => FcInv'
  BY FcNextInv
<1> QED BY <1>1, FcInitInv, PTL DEF FcSpec

(* Whatever is asked for and whichever catalogues are unreadable, a run    *)
(* plans everything a run with fewer scopes would plan, but for the shader *)
(* caches of a full clean.                                                 *)
THEOREM MoreScopesMorePlanned == FcSpec => []ScopesOnlyAdd
<1>1. ASSUME FcInv, fcResult \in {"planned", "reported"}, NEW scopes \in SUBSET fcOpts.scopes
      PROVE  PlanOf([fcOpts EXCEPT !.scopes = scopes]) \ Fixed("Path", {"shader caches"})
               \subseteq fcPlan
  <2>1. PICK fewer : fewer = [fcOpts EXCEPT !.scopes = scopes]
    OBVIOUS
  <2>2. fcOpts \in CleanRecords
    BY <1>1 DEF FcInv
  <2>3. Fewer(fcOpts, fewer)
    BY <1>1, <2>1, <2>2, FewerScopes
  <2>4. PICK stages \in Seq(Stages) :
          stages = run_clean_stages(fcOpts) /\ stages = run_clean_stages(fewer)
    BY <2>3, StageNames
  <2>5. PlanOf(fewer) = UNION {StagePlan(stages[i], fewer) : i \in 1..Len(stages)}
    BY <2>4 DEF PlanOf
  <2>6. fcPlan = UNION {StagePlan(stages[i], fcOpts) : i \in 1..Len(stages)}
    BY <1>1, <2>4 DEF FcInv
  <2>7. ASSUME NEW i \in 1..Len(stages)
        PROVE  StagePlan(stages[i], fewer) \ Fixed("Path", {"shader caches"})
                 \subseteq StagePlan(stages[i], fcOpts)
    <3>1. stages[i] \in Stages
      OBVIOUS
    <3> QED BY <2>3, <3>1, MoreOfStage
  <2> QED BY <2>1, <2>5, <2>6, <2>7
<1>2. FcInv => ScopesOnlyAdd
  BY <1>1 DEF ScopesOnlyAdd
<1> QED BY <1>2, FcInvariant, PTL

-----------------------------------------------------------------------------
(* driver-foundry install: one step at a time. *)

(* The run before its copy, and what leaves the selection and the copy     *)
(* alone.                                                                  *)
LEMMA FiInitInv == FiInit => FiInv
BY DEF FiInit, FiStart, FiInv, RequiredWanted, RequiredReached, PreparedWanted,
       BeforeCopy, Copying, AfterCopy

LEMMA Preparing ==
  ASSUME FiInv, prepare PROVE FiInv'
<1>1. /\ fiPc = "start" /\ fiPc' = "acquire" /\ fiResolved' = Resolve(fiOpts)
      /\ validate_dependencies(fiOpts.catalog)
      /\ UNCHANGED <<fiOpts, fiRootId, fiTodo, fiSeen, fiPrepared, fiStripped>>
  BY DEF prepare, FiGo
<1>2. fiOpts.catalog.required \subseteq Resolve(fiOpts)
  BY <1>1, InstallRequestsAssumption DEF FiInv
<1>3. fiPrepared = {} /\ fiStripped = {}
  BY <1>1 DEF FiInv, PreparedWanted, BeforeCopy
<1> QED BY <1>1, <1>2, <1>3 DEF FiInv, RequiredWanted, RequiredReached, PreparedWanted,
                                BeforeCopy, Copying, AfterCopy

LEMMA Acquiring ==
  ASSUME FiInv, NEW package, AcquiredIn(package) PROVE FiInv'
<1>1. /\ fiPc = "acquire" /\ fiPc' = "filter"
      /\ UNCHANGED <<fiOpts, fiResolved, fiRootId, fiTodo, fiSeen, fiPrepared, fiStripped>>
  BY DEF AcquiredIn, FiGo
<1> QED BY <1>1 DEF FiInv, RequiredWanted, RequiredReached, PreparedWanted,
                    BeforeCopy, Copying, AfterCopy, Kept

LEMMA Filtering ==
  ASSUME FiInv, filter_components PROVE FiInv'
<1>1. /\ fiPc = "filter" /\ fiPc' = "copy" /\ fiTodo' = fiOpts.catalog.ids \cup {SetupFiles}
      /\ UNCHANGED <<fiOpts, fiResolved, fiSeen, fiPrepared, fiStripped>>
  BY DEF filter_components, FiGo
<1>2. fiPrepared = {} /\ fiStripped = {}
  BY <1>1 DEF FiInv, PreparedWanted, BeforeCopy
<1>3. fiOpts.catalog.required \subseteq fiTodo'
  BY <1>1, InstallRequestsAssumption DEF FiInv
<1> QED BY <1>1, <1>2, <1>3 DEF FiInv, RequiredWanted, RequiredReached, PreparedWanted,
                                BeforeCopy, Copying, AfterCopy

(* The copy, entry by entry.                                               *)
LEMMA Skipping ==
  ASSUME FiInv, NEW e, prepare_copy_strip_skip(e) PROVE FiInv'
<1>1. /\ fiPc = "copy" /\ fiPc' = "copy" /\ fiTodo' = fiTodo \ {e}
      /\ ~Kept(e) \/ e \notin fiOpts.catalog.required
      /\ fiStripped' = IF Kept(e) THEN fiStripped ELSE fiStripped \cup {e}
      /\ UNCHANGED <<fiOpts, fiResolved, fiRootId, fiSeen, fiPrepared>>
  BY DEF prepare_copy_strip_skip
<1>2. e \notin fiOpts.catalog.required
  BY <1>1 DEF FiInv, RequiredWanted, Copying, Kept
<1>3. RequiredReached'
  BY <1>1, <1>2 DEF FiInv, RequiredReached, Copying, InPrepared
<1>4. PreparedWanted'
  BY <1>1 DEF FiInv, PreparedWanted, BeforeCopy, Kept
<1> QED BY <1>1, <1>3, <1>4 DEF FiInv, RequiredWanted, BeforeCopy, Copying, AfterCopy

LEMMA Seeing ==
  ASSUME FiInv, NEW e, metadata_for(e) PROVE FiInv'
<1>1. /\ fiPc = "copy" /\ fiPc' = "seen" /\ fiTodo' = fiTodo \ {e} /\ Kept(e) /\ fiSeen'.entry = e
      /\ UNCHANGED <<fiOpts, fiResolved, fiRootId, fiPrepared, fiStripped>>
  BY DEF metadata_for, FiGo
<1>2. RequiredReached'
  BY <1>1 DEF FiInv, RequiredReached, Copying, InPrepared
<1>3. PreparedWanted'
  BY <1>1 DEF FiInv, PreparedWanted, BeforeCopy, Kept
<1> QED BY <1>1, <1>2, <1>3 DEF FiInv, RequiredWanted, BeforeCopy, Copying, AfterCopy

LEMMA Copied ==
  ASSUME FiInv, copy_source_file PROVE FiInv'
<1>1. /\ fiPc = "seen" /\ fiPc' = "copied" /\ fiSeen.root = fiRootId /\ fiPrepared' = fiPrepared \cup {fiSeen}
      /\ UNCHANGED <<fiOpts, fiResolved, fiRootId, fiTodo, fiSeen, fiStripped>>
  BY DEF copy_source_file, FiGo, verify_root, same_file_identity
<1>2. RequiredReached'
  BY <1>1 DEF FiInv, RequiredReached, Copying, InPrepared
<1>3. PreparedWanted'
  BY <1>1 DEF FiInv, PreparedWanted, BeforeCopy, Kept
<1> QED BY <1>1, <1>2, <1>3 DEF FiInv, RequiredWanted, BeforeCopy, Copying, AfterCopy

(* Every other step moves on without touching the selection or the copy.   *)
LEMMA MovingOn ==
  ASSUME FiInv, UNCHANGED <<fiOpts, fiResolved, fiRootId, fiTodo, fiPrepared, fiStripped>>,
         \/ fiPc \in AfterCopy /\ fiPc' \in AfterCopy
         \/ fiPc = "copied" /\ fiPc' = "copy"
         \/ fiPc = "copy" /\ fiPc' = "export" /\ fiTodo = {}
         \/ fiPc' = fiPc /\ fiSeen' = fiSeen
         \/ fiPc' = "failed"
  PROVE  FiInv'
<1>1. RequiredWanted'
  BY DEF FiInv, RequiredWanted, BeforeCopy, Copying, AfterCopy
<1>2. RequiredReached'
  BY DEF FiInv, RequiredReached, Copying, AfterCopy, InPrepared
<1>3. PreparedWanted'
  BY DEF FiInv, PreparedWanted, BeforeCopy, AfterCopy, Kept
<1> QED BY <1>1, <1>2, <1>3 DEF FiInv, BeforeCopy, Copying, AfterCopy

(* The required components and the package opened for the copy are kept    *)
(* track of through every step of the run and of the programs beside it    *)
(* (prepare, prepare_copy_strip, copy_source.rs).                          *)
THEOREM FiInvariant == FiSpec => []FiInv
<1>1. FiInv /\ [FiNext]_fiVars => FiInv'
  <2> SUFFICES ASSUME FiInv, [FiNext]_fiVars PROVE FiInv'
    OBVIOUS
  <2>1. CASE prepare
    BY <2>1, Preparing
  <2>2. CASE acquire_local \/ acquire_archive \/ acquire_remote \/ acquire_synthetic
    <3>1. \E package : AcquiredIn(package)
      BY <2>2 DEF acquire_local, acquire_archive, acquire_remote, acquire_synthetic
    <3> QED BY <3>1, Acquiring
  <2>3. CASE filter_components
    BY <2>3, Filtering
  <2>4. CASE FiCopies
    <3>1. CASE \E e \in Components \cup {SetupFiles} : prepare_copy_strip_skip(e) \/ metadata_for(e)
      BY <3>1, Skipping, Seeing
    <3>2. CASE copy_source_file
      BY <3>2, Copied
    <3>3. CASE copy_verified
      BY <3>3, MovingOn DEF copy_verified, FiGo
    <3> QED BY <2>4, <3>1, <3>2, <3>3 DEF FiCopies
  <2>5. CASE apply_tweaks
    BY <2>5, MovingOn DEF apply_tweaks, FiGo
  <2>6. CASE export_workspace
    BY <2>6, MovingOn DEF export_workspace, FiGo, AfterCopy
  <2>7. CASE build_zip
    BY <2>7, MovingOn DEF build_zip, AfterCopy
  <2>8. CASE finalize_new_output
    BY <2>8, MovingOn DEF finalize_new_output, AfterCopy
  <2>9. CASE write_report
    BY <2>9, MovingOn DEF write_report, FiGo, AfterCopy
  <2>10. CASE FiFails
    BY <2>10, MovingOn DEF FiFails
  <2>11. CASE OthersCreate \/ OthersReplacePackage
    BY <2>11, MovingOn DEF OthersCreate, OthersReplacePackage, Others
  <2>12. CASE UNCHANGED fiVars
    BY <2>12, MovingOn DEF fiVars
  <2> QED BY <2>1, <2>2, <2>3, <2>4, <2>5, <2>6, <2>7, <2>8, <2>9, <2>10, <2>11, <2>12 DEF FiNext
<1> QED BY <1>1, FiInitInv, PTL DEF FiSpec

(* However the package at the input path is replaced while it is copied, a *)
(* run past its copy holds every required component, and only entries of   *)
(* the package it opened (copy_source.rs: verify_root, copy_source_file).  *)
THEOREM PreparedStaysFromOneRoot == FiSpec => []PreparedFromOneRoot
<1>1. FiInv => PreparedFromOneRoot
  <2> SUFFICES ASSUME FiInv, fiPc \in AfterCopy
               PROVE  /\ \A e \in fiPrepared : e.root = fiRootId /\ e.entry \notin fiStripped
                      /\ \A c \in fiOpts.catalog.required : InPrepared(c)
    BY DEF PreparedFromOneRoot, AfterCopy
  <2>1. fiTodo = {} /\ fiPc # "seen"
    BY DEF FiInv, AfterCopy
  <2>2. \A e \in fiPrepared : e.root = fiRootId /\ e.entry \notin fiStripped
    BY DEF FiInv, PreparedWanted
  <2>3. \A c \in fiOpts.catalog.required : InPrepared(c)
    BY <2>1 DEF FiInv, RequiredReached
  <2> QED BY <2>2, <2>3
<1> QED BY <1>1, FiInvariant, PTL

(* No step of the run replaces a path that another program created, and    *)
(* no other program's step takes one away (archive.rs:                     *)
(* create_output_stage, finalize_new_output).                              *)
THEOREM ForeignPathsKept == FiSpec => ForeignOutputsKept
<1> DEFINE Kept1 == \A p \in DOMAIN fiTree :
                      fiTree[p] = "other" => p \in DOMAIN fiTree' /\ fiTree'[p] = "other"
<1>1. ASSUME NEW p, NEW who, p \notin DOMAIN fiTree, fiTree' = Created(p, who) PROVE Kept1
  BY <1>1 DEF Created
<1>2. ASSUME [FiNext]_fiVars PROVE Kept1
  <2>1. CASE UNCHANGED fiTree
    BY <2>1
  <2>2. CASE \E p, who : p \notin DOMAIN fiTree /\ fiTree' = Created(p, who)
    <3> HIDE DEF Kept1
    <3> QED BY <1>1, <2>2
  <2>3. UNCHANGED fiTree \/ \E p, who : p \notin DOMAIN fiTree /\ fiTree' = Created(p, who)
    <3>1. CASE UNCHANGED fiVars
      BY <3>1 DEF fiVars
    <3>2. CASE prepare \/ filter_components
      BY <3>2 DEF prepare, filter_components, create_new_output, validate_new_path
    <3>3. CASE acquire_local \/ acquire_archive \/ acquire_remote \/ acquire_synthetic
      BY <3>3 DEF acquire_local, acquire_archive, acquire_remote, acquire_synthetic, AcquiredIn
    <3>4. CASE FiCopies
      BY <3>4 DEF FiCopies, prepare_copy_strip_skip, metadata_for, copy_source_file, copy_verified
    <3>5. CASE apply_tweaks \/ build_zip \/ FiFails
      BY <3>5 DEF apply_tweaks, build_zip, FiFails
    <3>6. CASE export_workspace \/ write_report
      BY <3>6 DEF export_workspace, write_report, OutputMade, create_new_output, validate_new_path
    <3>7. CASE finalize_new_output
      BY <3>7 DEF finalize_new_output
    <3>8. CASE OthersCreate \/ OthersReplacePackage
      BY <3>8 DEF OthersCreate, OthersReplacePackage, validate_new_path
    <3> QED BY <1>2, <3>1, <3>2, <3>3, <3>4, <3>5, <3>6, <3>7, <3>8 DEF FiNext
  <2> QED BY <2>1, <2>2, <2>3
<1>3. [FiNext]_fiVars => [Kept1]_fiVars
  BY <1>2
<1> QED BY <1>3, PTL DEF FiSpec, ForeignOutputsKept

=============================================================================
