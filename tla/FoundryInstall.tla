---------------------------- MODULE FoundryInstall ----------------------------
(***************************************************************************)
(* The install pipeline of driver-foundry                                  *)
(* (tools/driver-foundry/crates/driver-foundry-install/src/): a selection  *)
(* of driver components is resolved, a package acquired, its components    *)
(* copied into a prepared tree, and that tree exported, archived and       *)
(* reported.  The run works beside other programs, which may create files  *)
(* where it wants to write and may put another package in place of the one *)
(* it reads.  A path is the sequence of its names.  A step is enabled when *)
(* its checks pass; FiFails is every error and every crash.                *)
(***************************************************************************)
EXTENDS Naturals, Sequences, SequencesExt, FiniteSets, FiniteSetsExt

CONSTANTS
  Components,       \* component ids a package may hold
  DisplayDriver,    \* the component "Display.Driver"
  SetupFiles,       \* setup.exe and NVI2, copied whenever they are there
  NoOutput, NoPin,
  InstallRequests,  \* the options a run may be started with
  Resolve(_),       \* the ids a request resolves to: FoundryCatalog!resolve_selection
  MaxOthers         \* bound: what other programs do

ASSUME InstallAssumption ==
  /\ DisplayDriver \in Components /\ SetupFiles \notin Components /\ MaxOthers \in Nat

Outputs == {"export", "archive", "report"}

VARIABLES
  fiOpts,      \* the options of this run
  fiTree,      \* the paths that exist, with the program they belong to
  fiRoots,     \* every package the input path has held, the last one current
  fiPc,
  fiResolved,  \* the components to keep
  fiPackage,   \* the acquired package: "local", or its components in work
  fiRootId,    \* SourceRoot.metadata: the package the copy was opened on
  fiTodo,      \* entries of the package still to be looked at
  fiSeen,      \* the entry being copied, and the package it was seen in
  fiPrepared,  \* entries of the prepared tree, with the package they come from
  fiStripped, fiStage, fiExit, fiOthers

fiVars == <<fiOpts, fiTree, fiRoots, fiPc, fiResolved, fiPackage, fiRootId, fiTodo, fiSeen,
            fiPrepared, fiStripped, fiStage, fiExit, fiOthers>>

NothingSeen == [entry |-> SetupFiles, root |-> 0]

FiStart(opts) ==
  /\ fiOpts = opts /\ fiTree = [p \in {opts.root} |-> "other"]
  /\ fiRoots = <<Components \cup {SetupFiles}>>
  /\ fiPc = "start" /\ fiResolved = {} /\ fiPackage = {} /\ fiRootId = 0
  /\ fiTodo = {} /\ fiSeen = NothingSeen /\ fiPrepared = {} /\ fiStripped = {}
  /\ fiStage = FALSE /\ fiExit = "none" /\ fiOthers = 0
FiInit == \E opts \in InstallRequests : FiStart(opts)

FiTypeOK ==
  /\ fiOpts.given \subseteq {"root", "archive", "url", "index"}
  /\ \A p \in DOMAIN fiTree : fiTree[p] \in {"run", "other"}
  /\ fiResolved \subseteq Components /\ fiTodo \subseteq Components \cup {SetupFiles}
  /\ fiRootId \in 0 .. Len(fiRoots) /\ fiOthers \in 0 .. MaxOthers
  /\ fiExit \in {"none", "0", "1"} /\ fiStage \in BOOLEAN

-----------------------------------------------------------------------------
(* The catalogue; FoundryCatalog has the selection. *)

\* load_from_json, validate_dependencies: dependencies are known ids, without a cycle.
validate_dependencies(cat) ==
  /\ \A id \in cat.ids : cat.deps[id] \subseteq cat.ids
  /\ \A S \in (SUBSET cat.ids) \ {{}} : \E id \in S : cat.deps[id] \cap S = {}

\* The required ids are ids of the catalogue, and resolving a selection only adds to them.
ASSUME InstallRequestsAssumption ==
  \A o \in InstallRequests :
    /\ o.catalog.required \subseteq o.catalog.ids
    /\ validate_dependencies(o.catalog) => o.catalog.required \subseteq Resolve(o)

-----------------------------------------------------------------------------
(* Paths. *)

paths_overlap(p, q) == IsPrefix(p, q) \/ IsPrefix(q, p)
path_is_within(p, q) == IsPrefix(q, p)
HasInput(o) == o.given \cap {"root", "archive"} # {}
Asked(o) == {k \in Outputs : o.outputs[k] # NoOutput}

\* Inputs, work directory and outputs do not overlap, but an output may be inside work.
validate_install_path_separation(o) ==
  /\ HasInput(o) => ~ paths_overlap(o.work, o.root)
  /\ \A k \in Asked(o) :
       /\ path_is_within(o.outputs[k], o.work) \/ ~ paths_overlap(o.work, o.outputs[k])
       /\ HasInput(o) => ~ paths_overlap(o.outputs[k], o.root)
       /\ \A j \in Asked(o) \ {k} : ~ paths_overlap(o.outputs[k], o.outputs[j])

validate_pre_workspace_options(o) == o.dry_run /\ ~ o.live_registry_apply /\ ~ o.elevated

\* A path that does not exist yet in a directory that does.
validate_new_path(p) ==
  /\ p \notin DOMAIN fiTree
  /\ Len(p) > 1 => Front(p) \in DOMAIN fiTree
Created(p, who) == [q \in DOMAIN fiTree \cup {p} |-> IF q = p THEN who ELSE fiTree[q]]

\* fs::create_dir and OpenOptions::create_new: nothing that exists is opened.
create_new_output(p) == validate_new_path(p) /\ fiTree' = Created(p, "run")

-----------------------------------------------------------------------------
FiGo(from, to) == fiPc = from /\ fiPc' = to

\* prepare: every check, the selection and the marked workspace.
prepare ==
  /\ FiGo("start", "acquire")
  /\ validate_install_path_separation(fiOpts) /\ validate_pre_workspace_options(fiOpts)
  /\ validate_dependencies(fiOpts.catalog)
  /\ fiResolved' = Resolve(fiOpts)
  /\ create_new_output(fiOpts.work)
  /\ UNCHANGED <<fiOpts, fiRoots, fiPackage, fiRootId, fiTodo, fiSeen, fiPrepared, fiStripped,
                 fiStage, fiExit, fiOthers>>

AcquiredIn(package) ==
  /\ FiGo("acquire", "filter") /\ fiPackage' = package
  /\ UNCHANGED <<fiOpts, fiTree, fiRoots, fiResolved, fiRootId, fiTodo, fiSeen, fiPrepared,
                 fiStripped, fiStage, fiExit, fiOthers>>

acquire_local == "root" \in fiOpts.given /\ AcquiredIn({"local"})

\* extract_zip: whatever components the archive holds, in a directory of this run.
acquire_archive ==
  /\ "root" \notin fiOpts.given /\ "archive" \in fiOpts.given
  /\ \E held \in SUBSET Components : AcquiredIn(held \cup {SetupFiles})

\* A pin that the bytes do not have removes the file and is an error.
download_https(bytes) == fiOpts.pin \in {NoPin, bytes}

\* A download that is no archive stays as setup.exe alone.
extract_download(zip, held) == IF zip THEN held \cup {SetupFiles} ELSE {SetupFiles}

\* acquire_remote_url and acquire_driver_index.
acquire_remote ==
  /\ fiOpts.given \cap {"root", "archive"} = {} /\ fiOpts.given \cap {"url", "index"} # {}
  /\ \E bytes \in {"pinned", "other"}, zip \in BOOLEAN, held \in SUBSET Components :
       download_https(bytes) /\ AcquiredIn(extract_download(zip, held))

\* create_synthetic_package: every component of the catalogue.
acquire_synthetic == fiOpts.given = {} /\ AcquiredIn(fiOpts.catalog.ids \cup {SetupFiles})

-----------------------------------------------------------------------------
(* The copy.  Only a local package can be replaced while it is read. *)

Local == fiPackage = {"local"}
RootNow == IF Local THEN Len(fiRoots) ELSE 0
PackageHeld == IF Local THEN fiRoots[RootNow] ELSE fiPackage

\* run_optional_uninstall only writes a plan; SourceRoot::open and the new prepared directory.
filter_components ==
  /\ FiGo("filter", "copy") /\ fiRootId' = RootNow
  /\ fiTodo' = fiOpts.catalog.ids \cup {SetupFiles}
  /\ create_new_output(Append(fiOpts.work, "prepared"))
  /\ UNCHANGED <<fiOpts, fiRoots, fiResolved, fiPackage, fiSeen, fiPrepared, fiStripped, fiStage,
                 fiExit, fiOthers>>

Kept(e) == e \in fiResolved \cup {SetupFiles}

\* An entry that is absent or not wanted; a required component that is absent is an error.
prepare_copy_strip_skip(e) ==
  /\ fiPc = "copy" /\ e \in fiTodo
  /\ ~ Kept(e) \/ (e \notin PackageHeld /\ e \notin fiOpts.catalog.required)
  /\ fiTodo' = fiTodo \ {e} /\ fiStripped' = IF Kept(e) THEN fiStripped ELSE fiStripped \cup {e}
  /\ UNCHANGED <<fiOpts, fiTree, fiRoots, fiPc, fiResolved, fiPackage, fiRootId, fiSeen,
                 fiPrepared, fiStage, fiExit, fiOthers>>

\* metadata_for: the entry's identity is noted before it is opened.
metadata_for(e) ==
  /\ FiGo("copy", "seen") /\ e \in fiTodo /\ Kept(e) /\ e \in PackageHeld
  /\ fiSeen' = [entry |-> e, root |-> RootNow] /\ fiTodo' = fiTodo \ {e}
  /\ UNCHANGED <<fiOpts, fiTree, fiRoots, fiResolved, fiPackage, fiRootId, fiPrepared,
                 fiStripped, fiStage, fiExit, fiOthers>>

verify_rootAltered == TRUE
verify_root == RootNow = fiRootId

same_file_identity == RootNow = fiSeen.root

\* The root is verified, the entry opened and compared with what was noted.
copy_source_file ==
  /\ FiGo("seen", "copied") /\ verify_root /\ same_file_identity
  /\ fiPrepared' = fiPrepared \cup {fiSeen}
  /\ UNCHANGED <<fiOpts, fiTree, fiRoots, fiResolved, fiPackage, fiRootId, fiTodo, fiSeen,
                 fiStripped, fiStage, fiExit, fiOthers>>

\* The root is verified again after the bytes are copied.
copy_verified ==
  /\ FiGo("copied", "copy") /\ verify_root /\ fiSeen' = NothingSeen
  /\ UNCHANGED <<fiOpts, fiTree, fiRoots, fiResolved, fiPackage, fiRootId, fiTodo, fiPrepared,
                 fiStripped, fiStage, fiExit, fiOthers>>

-----------------------------------------------------------------------------
(* Outputs. *)

\* Tweaks, signing plan and setup plan only write inside the prepared tree.
apply_tweaks ==
  /\ FiGo("copy", "export") /\ fiTodo = {}
  /\ UNCHANGED <<fiOpts, fiTree, fiRoots, fiResolved, fiPackage, fiRootId, fiTodo, fiSeen,
                 fiPrepared, fiStripped, fiStage, fiExit, fiOthers>>

OutputMade(k, p) ==
  IF fiOpts.outputs[k] = NoOutput THEN UNCHANGED fiTree ELSE create_new_output(p)

\* A copy of the prepared tree into itself never comes to an end, so such a run only fails.
export_workspace ==
  /\ FiGo("export", "archive")
  /\ fiOpts.outputs["export"] # NoOutput =>
       ~ path_is_within(fiOpts.outputs["export"], Append(fiOpts.work, "prepared"))
  /\ OutputMade("export", fiOpts.outputs["export"])
  /\ UNCHANGED <<fiOpts, fiRoots, fiResolved, fiPackage, fiRootId, fiTodo, fiSeen, fiPrepared,
                 fiStripped, fiStage, fiExit, fiOthers>>

\* create_output_stage and the zip itself; the other formats are errors.
build_zip ==
  /\ fiPc = "archive"
  /\ IF fiOpts.outputs["archive"] = NoOutput
     THEN fiPc' = "report" /\ fiStage' = FALSE
     ELSE /\ validate_new_path(fiOpts.outputs["archive"])
          /\ fiPc' = "publish" /\ fiStage' = TRUE
  /\ UNCHANGED <<fiOpts, fiTree, fiRoots, fiResolved, fiPackage, fiRootId, fiTodo, fiSeen,
                 fiPrepared, fiStripped, fiExit, fiOthers>>

\* hard_link fails when the output exists; the staging directory goes either way.
finalize_new_outputAltered ==
  /\ FiGo("publish", "report") /\ fiStage' = FALSE
  /\ fiTree' = Created(fiOpts.outputs["archive"], "run")
  /\ UNCHANGED <<fiOpts, fiRoots, fiResolved, fiPackage, fiRootId, fiTodo, fiSeen, fiPrepared,
                 fiStripped, fiExit, fiOthers>>
finalize_new_output ==
  /\ fiPc = "publish" /\ fiStage' = FALSE
  /\ IF fiOpts.outputs["archive"] \in DOMAIN fiTree
     THEN fiPc' = "failed" /\ UNCHANGED fiTree
     ELSE fiPc' = "report" /\ fiTree' = Created(fiOpts.outputs["archive"], "run")
  /\ UNCHANGED <<fiOpts, fiRoots, fiResolved, fiPackage, fiRootId, fiTodo, fiSeen, fiPrepared,
                 fiStripped, fiExit, fiOthers>>

InPrepared(c) == \E entry \in fiPrepared : entry.entry = c

\* write_report, into_result: exit code 0 needs a prepared Display.Driver.
write_report ==
  /\ FiGo("report", "done")
  /\ OutputMade("report", fiOpts.outputs["report"])
  /\ fiExit' = IF InPrepared(DisplayDriver) THEN "0" ELSE "1"
  /\ UNCHANGED <<fiOpts, fiRoots, fiResolved, fiPackage, fiRootId, fiTodo, fiSeen, fiPrepared,
                 fiStripped, fiStage, fiOthers>>

FiFails ==
  /\ fiPc \notin {"done", "failed"} /\ fiPc' = "failed"
  /\ UNCHANGED <<fiOpts, fiTree, fiRoots, fiResolved, fiPackage, fiRootId, fiTodo, fiSeen,
                 fiPrepared, fiStripped, fiStage, fiExit, fiOthers>>

Others ==
  /\ fiOthers < MaxOthers /\ fiOthers' = fiOthers + 1
  /\ UNCHANGED <<fiOpts, fiPc, fiResolved, fiPackage, fiRootId, fiTodo, fiSeen, fiPrepared,
                 fiStripped, fiStage, fiExit>>

\* Another program, or another run, creates one of the paths this run was given.
OthersCreate ==
  /\ Others /\ UNCHANGED fiRoots
  /\ \E p \in {fiOpts.work} \cup {fiOpts.outputs[k] : k \in Asked(fiOpts)} :
       validate_new_path(p) /\ fiTree' = Created(p, "other")

\* Another package is moved to the input path; the earlier one does not come back.
OthersReplacePackage ==
  /\ Others /\ UNCHANGED fiTree /\ "root" \in fiOpts.given
  /\ \E held \in SUBSET Components : fiRoots' = Append(fiRoots, held \cup {SetupFiles})

FiCopies ==
  \/ \E e \in Components \cup {SetupFiles} : prepare_copy_strip_skip(e) \/ metadata_for(e)
  \/ copy_source_file \/ copy_verified
FiNext ==
  \/ prepare \/ acquire_local \/ acquire_archive \/ acquire_remote \/ acquire_synthetic
  \/ filter_components \/ FiCopies \/ apply_tweaks
  \/ export_workspace \/ build_zip \/ finalize_new_output \/ write_report
  \/ FiFails \/ OthersCreate \/ OthersReplacePackage
FiSpec == FiInit /\ [][FiNext]_fiVars

-----------------------------------------------------------------------------
\* A path that another program created is never replaced, however late it appears: not between
\* the check of an output and its creation, nor while an archive is staged (archive.rs:
\* create_output_stage, finalize_new_output).
ForeignOutputsKept ==
  [][\A p \in DOMAIN fiTree :
       fiTree[p] = "other" => p \in DOMAIN fiTree' /\ fiTree'[p] = "other"]_fiVars

\* A run that got past the copy has every required component, and each entry it prepared is
\* from the package it opened, even when the package was replaced between two entries or in the
\* middle of one (copy_source.rs: verify_root before and after each entry).  An optional entry
\* that only the replaced package had is left out unnoticed: a skip does not verify the root.
PreparedFromOneRoot ==
  fiPc \in {"export", "archive", "publish", "report", "done"} =>
    /\ \A e \in fiPrepared : e.root = fiRootId /\ e.entry \notin fiStripped
    /\ \A c \in fiOpts.catalog.required : InPrepared(c)

(* The inductive invariant of PreparedFromOneRoot. *)
BeforeCopy == {"start", "acquire", "filter"}
Copying == {"copy", "seen", "copied"}
AfterCopy == {"export", "archive", "publish", "report", "done"}

\* Every required component is wanted, and is still to be looked at, being copied or prepared.
RequiredWanted == fiPc \in {"acquire", "filter"} \cup Copying => fiOpts.catalog.required \subseteq fiResolved
RequiredReached ==
  fiPc \in Copying \cup AfterCopy => \A c \in fiOpts.catalog.required :
    c \in fiTodo \/ (fiPc = "seen" /\ fiSeen.entry = c) \/ InPrepared(c)

\* What is prepared is wanted and from the package that was opened; what is stripped is not wanted.
PreparedWanted ==
  /\ fiPc \in BeforeCopy => fiPrepared = {} /\ fiStripped = {}
  /\ fiPc = "seen" => Kept(fiSeen.entry)
  /\ \A e \in fiPrepared : e.root = fiRootId /\ Kept(e.entry)
  /\ \A e \in fiStripped : ~Kept(e)

FiInv ==
  /\ fiOpts \in InstallRequests
  /\ fiPc \in BeforeCopy \cup Copying \cup AfterCopy \cup {"failed"}
  /\ fiPc \in AfterCopy => fiTodo = {}
  /\ RequiredWanted /\ RequiredReached /\ PreparedWanted
=============================================================================
