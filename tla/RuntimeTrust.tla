----------------------------- MODULE RuntimeTrust -----------------------------
(***************************************************************************)
(* Package authentication, runtime publication and the retained runtime    *)
(* (crates/frametime-windows/src/trust/).                                  *)
(*                                                                         *)
(* A packaged process authenticates its own files, copies them into a new  *)
(* generation and names that generation in runtime-current.json; the       *)
(* runtime started from a generation opens the selector, the generation    *)
(* and every file of it, and keeps the handles.  Every handle denies       *)
(* writing and deletion to others for as long as it is open; between two   *)
(* handles anything may happen to a file.  A step is enabled when its      *)
(* checks pass; RtEnds is every error, exit and power loss.                *)
(***************************************************************************)
EXTENDS Naturals

CONSTANTS
  RtProcesses,       \* processes of the package or of a published runtime
  Generations,       \* directory names a publication may draw
  PayloadFiles,      \* RUNTIME_PAYLOAD_PATHS
  RtExecutable,      \* frametime.exe among them
  RtManifest,        \* the manifest, of a package or a generation
  Releases,          \* contents: a file as it is in a release of this name
  PinnedReleases,    \* releases whose signers are the pinned publisher
  NoContent, Partial,\* no file; a file that is being written
  NoGeneration,
  MaxTampering       \* bound: changes to files nobody holds, and to the root

ASSUME RuntimeAssumption ==
  /\ RtExecutable \in PayloadFiles /\ RtManifest \notin PayloadFiles
  /\ PinnedReleases \subseteq Releases /\ {NoContent, Partial} \cap Releases = {}
  /\ NoGeneration \notin Generations /\ MaxTampering \in Nat

TreeFiles == PayloadFiles \cup {RtManifest}

VARIABLES
  rtPackage,   \* the files of the package directory
  rtTrees,     \* the files of each generation
  rtSelector,  \* runtime-current.json: a generation and its manifest's hash
  rtRoot,      \* the work directory has exactly its protected security
  rtLock,      \* processes that hold the publication lock
  rtPc, rtMem, \* of each process: where it is; what it holds open
  rtLate,      \* generations that were changed after they were selected
  rtTampered

rtVars == <<rtPackage, rtTrees, rtSelector, rtRoot, rtLock, rtPc, rtMem, rtLate, rtTampered>>

Nothing == [package |-> {}, gen |-> NoGeneration, tree |-> {}, file |-> NoContent,
            image |-> NoGeneration]
EmptyTree == [f \in TreeFiles |-> NoContent]
NoSelector == [gen |-> NoGeneration, manifest |-> NoContent]

RtStart(package) ==
  /\ rtPackage = package /\ rtTrees = [g \in Generations |-> EmptyTree]
  /\ rtSelector = NoSelector /\ rtRoot = TRUE /\ rtLock = {}
  /\ rtPc = [p \in RtProcesses |-> "idle"] /\ rtMem = [p \in RtProcesses |-> Nothing]
  /\ rtLate = {} /\ rtTampered = 0
RtInit == \E package \in [TreeFiles -> Releases] : RtStart(package)

\* Where a process may stand: a publisher up to "waiting", a runtime after it.
RtPoints == {"idle", "authenticate", "trusted", "locked", "publish", "copy", "reopen",
             "published", "waiting", "inspect", "walk", "retained"}

\* What a process holds open, and the generation it was started from.
RtHandles ==
  [package : SUBSET TreeFiles, gen : Generations \cup {NoGeneration}, tree : SUBSET TreeFiles,
   file : TreeFiles \cup {NoContent}, image : Generations \cup {NoGeneration}]

RtTypeOK ==
  /\ rtPackage \in [TreeFiles -> Releases \cup {NoContent}]
  /\ rtTrees \in [Generations -> [TreeFiles -> Releases \cup {NoContent, Partial}]]
  /\ rtSelector \in [gen : Generations \cup {NoGeneration},
                     manifest : Releases \cup {NoContent}]
  /\ rtRoot \in BOOLEAN
  /\ rtLock \in SUBSET RtProcesses /\ \A p, q \in rtLock : p = q
  /\ rtPc \in [RtProcesses -> RtPoints]
  /\ rtMem \in [RtProcesses -> RtHandles]
  /\ rtLate \in SUBSET Generations /\ rtTampered \in 0 .. MaxTampering

-----------------------------------------------------------------------------
RtGo(p, from, to) == rtPc[p] = from /\ rtPc' = [rtPc EXCEPT ![p] = to]
RtHold(p, field, value) == rtMem' = [rtMem EXCEPT ![p][field] = value]

\* open, retained: a file of the package that is there.
package_open(p, f) ==
  /\ rtPackage[f] # NoContent
  /\ RtHold(p, "package", rtMem[p].package \cup {f})
  /\ UNCHANGED <<rtPackage, rtTrees, rtSelector, rtRoot, rtLock, rtLate, rtTampered>>

\* Root, inventory and manifest; the inventory is not held.
verify_tree_inventory(p) ==
  /\ \A f \in TreeFiles : rtPackage[f] # NoContent
  /\ RtGo(p, "idle", "authenticate") /\ package_open(p, RtManifest)

\* Each payload: opened, then hashed against the manifest.
verify_payload(p, f) ==
  /\ rtPc[p] = "authenticate" /\ f \in PayloadFiles \ rtMem[p].package
  /\ rtPackage[f] = rtPackage[RtManifest]
  /\ package_open(p, f) /\ UNCHANGED rtPc

\* verify_file, verify_catalog_member and the publisher's pins.
signers_pinned(release) == release \in PinnedReleases

authenticate(p) ==
  /\ rtMem[p].package = TreeFiles /\ signers_pinned(rtPackage[RtManifest])
  /\ RtGo(p, "authenticate", "trusted")
  /\ UNCHANGED <<rtPackage, rtTrees, rtSelector, rtRoot, rtLock, rtMem, rtLate, rtTampered>>

\* publish: the lock file is CREATE_NEW and deleted with its handle.
\* Mutant: an existing lock file is opened.
PublicationLock_acquireAltered(p) ==
  /\ rtRoot /\ rtLock' = rtLock \cup {p} /\ RtGo(p, "trusted", "locked")
  /\ UNCHANGED <<rtPackage, rtTrees, rtSelector, rtRoot, rtMem, rtLate, rtTampered>>
PublicationLock_acquire(p) ==
  /\ rtRoot /\ rtLock = {} /\ rtLock' = {p} /\ RtGo(p, "trusted", "locked")
  /\ UNCHANGED <<rtPackage, rtTrees, rtSelector, rtRoot, rtMem, rtLate, rtTampered>>

\* create_generation: a directory that did not exist.
create_generation(p, g) ==
  /\ RtGo(p, "locked", "publish") /\ rtTrees[g] = EmptyTree
  /\ \A q \in RtProcesses : rtMem[q].gen # g
  /\ rtSelector.gen # g /\ RtHold(p, "gen", g)
  /\ UNCHANGED <<rtPackage, rtTrees, rtSelector, rtRoot, rtLock, rtLate, rtTampered>>

\* The payloads in turn, then the manifest made of their hashes.
manifest_for(p) == rtMem[p].tree = PayloadFiles

create_destination_file(p, f) ==
  /\ IF f = RtManifest THEN manifest_for(p) ELSE f \notin rtMem[p].tree
  /\ RtGo(p, "publish", "copy") /\ rtTrees[rtMem[p].gen][f] = NoContent
  /\ rtTrees' = [rtTrees EXCEPT ![rtMem[p].gen][f] = Partial] /\ RtHold(p, "file", f)
  /\ UNCHANGED <<rtPackage, rtSelector, rtRoot, rtLock, rtLate, rtTampered>>

\* copy_bounded, validate_destination; then the writing handle is closed.
copy_bounded(p) ==
  /\ rtRoot /\ RtGo(p, "copy", "reopen")
  /\ rtTrees' = [rtTrees EXCEPT ![rtMem[p].gen][rtMem[p].file] = rtPackage[rtMem[p].file]]
  /\ UNCHANGED <<rtPackage, rtSelector, rtRoot, rtLock, rtMem, rtLate, rtTampered>>

\* Mutant: the reopened file is not hashed again.
reopen_destinationAltered(p) ==
  LET m == rtMem[p] IN
  /\ rtRoot /\ RtGo(p, "reopen", "publish") /\ rtTrees[m.gen][m.file] # NoContent
  /\ rtMem' = [rtMem EXCEPT ![p].tree = @ \cup {m.file}, ![p].file = NoContent]
  /\ UNCHANGED <<rtPackage, rtTrees, rtSelector, rtRoot, rtLock, rtLate, rtTampered>>
reopen_destination(p) ==
  LET m == rtMem[p] IN
  /\ rtRoot /\ RtGo(p, "reopen", "publish")
  /\ rtTrees[m.gen][m.file] = rtPackage[m.file]
  /\ rtMem' = [rtMem EXCEPT ![p].tree = @ \cup {m.file}, ![p].file = NoContent]
  /\ UNCHANGED <<rtPackage, rtTrees, rtSelector, rtRoot, rtLock, rtLate, rtTampered>>

\* Mutant: the selector is opened with every sharing mode.
SelectorHeldAltered == FALSE
\* A runtime that retains the selector keeps a rename off it.
SelectorHeld == \E p \in RtProcesses : rtPc[p] \in {"walk", "retained"}

\* write_json_atomic of runtime-current.json, once the generation is complete;
\* the lock goes with publish, the handles stay.
write_json_atomic(p) ==
  /\ rtRoot /\ rtMem[p].tree = TreeFiles /\ ~SelectorHeld
  /\ RtGo(p, "publish", "published")
  /\ rtSelector' = [gen |-> rtMem[p].gen, manifest |-> rtPackage[RtManifest]]
  /\ rtLock' = {} /\ UNCHANGED <<rtPackage, rtTrees, rtRoot, rtMem, rtLate, rtTampered>>

-----------------------------------------------------------------------------
\* A runtime starts from the executable of a generation: at logon, by hand.
RuntimeStarts(q, g) ==
  /\ rtPc[q] = "idle" /\ rtTrees[g][RtExecutable] \in Releases
  /\ RtHold(q, "image", g)
  /\ UNCHANGED <<rtPackage, rtTrees, rtSelector, rtRoot, rtLock, rtLate, rtTampered>>

StartRuntime(q, g) == RuntimeStarts(q, g) /\ rtPc' = [rtPc EXCEPT ![q] = "inspect"]

\* launch: the publisher starts its executable and waits, without a limit, for
\* the child to end.
launch(p, q) ==
  /\ p # q /\ rtPc[p] = "published" /\ RuntimeStarts(q, rtMem[p].gen)
  /\ rtPc' = [rtPc EXCEPT ![p] = "waiting", ![q] = "inspect"]

\* inspect: the selector, its generation, and the handles kept on them.
open_selector(q) ==
  /\ rtRoot /\ RtGo(q, "inspect", "walk") /\ rtSelector # NoSelector
  /\ RtHold(q, "gen", rtSelector.gen)
  /\ UNCHANGED <<rtPackage, rtTrees, rtSelector, rtRoot, rtLock, rtLate, rtTampered>>

\* open_walked_node, open_entry_by_id: one file of the tree, and its handle.
open_walked_node(q, f) ==
  /\ rtPc[q] = "walk" /\ f \in TreeFiles \ rtMem[q].tree
  /\ rtTrees[rtMem[q].gen][f] \in Releases
  /\ RtHold(q, "tree", rtMem[q].tree \cup {f})
  /\ UNCHANGED <<rtPackage, rtTrees, rtSelector, rtRoot, rtLock, rtPc, rtLate, rtTampered>>

\* The selector holds the manifest's hash, the manifest those of the payloads.
validate_runtime_contract(g) == \A f \in TreeFiles : rtTrees[g][f] = rtSelector.manifest

\* ensure_current_process_is_selected: the same file as the running image.
inspect(q) ==
  /\ rtMem[q].tree = TreeFiles /\ validate_runtime_contract(rtMem[q].gen)
  /\ rtMem[q].image = rtMem[q].gen /\ RtGo(q, "walk", "retained")
  /\ UNCHANGED <<rtPackage, rtTrees, rtSelector, rtRoot, rtLock, rtMem, rtLate, rtTampered>>

\* An error at any step, the end of a command, a power loss: the handles are
\* closed, what was written stays.
RtEnds(p) ==
  /\ rtPc[p] # "idle"
  /\ rtPc[p] = "waiting" =>
       ~\E q \in RtProcesses \ {p} : rtPc[q] \in {"inspect", "walk", "retained"}
  /\ rtPc' = [rtPc EXCEPT ![p] = "idle"] /\ rtMem' = [rtMem EXCEPT ![p] = Nothing]
  /\ rtLock' = rtLock \ {p}
  /\ UNCHANGED <<rtPackage, rtTrees, rtSelector, rtRoot, rtLate, rtTampered>>

\* A handle denies writing and deletion to others.
Held(g, f) ==
  \E p \in RtProcesses :
    rtMem[p].gen = g /\ (f \in rtMem[p].tree \/ (rtPc[p] = "copy" /\ f = rtMem[p].file))

\* Another program of the administrator changes a file that nobody holds.
TamperTree(g, f) ==
  /\ rtTampered < MaxTampering /\ rtTampered' = rtTampered + 1
  /\ ~Held(g, f) /\ rtTrees[g][f] # NoContent
  /\ \E c \in Releases \cup {NoContent} :
       c # rtTrees[g][f] /\ rtTrees' = [rtTrees EXCEPT ![g][f] = c]
  /\ rtLate' = IF rtSelector.gen = g THEN rtLate \cup {g} ELSE rtLate
  /\ UNCHANGED <<rtPackage, rtSelector, rtRoot, rtLock, rtPc, rtMem>>

TamperPackage(f) ==
  /\ rtTampered < MaxTampering /\ rtTampered' = rtTampered + 1
  /\ \A p \in RtProcesses : f \notin rtMem[p].package
  /\ \E c \in Releases \cup {NoContent} :
       c # rtPackage[f] /\ rtPackage' = [rtPackage EXCEPT ![f] = c]
  /\ UNCHANGED <<rtTrees, rtSelector, rtRoot, rtLock, rtPc, rtMem, rtLate>>

RootChanges ==
  /\ rtTampered < MaxTampering /\ rtTampered' = rtTampered + 1 /\ rtRoot' = ~rtRoot
  /\ UNCHANGED <<rtPackage, rtTrees, rtSelector, rtLock, rtPc, rtMem, rtLate>>

RtNext ==
  \/ RootChanges
  \/ \E f \in TreeFiles : TamperPackage(f) \/ \E g \in Generations : TamperTree(g, f)
  \/ \E p \in RtProcesses :
       \/ verify_tree_inventory(p) \/ authenticate(p) \/ PublicationLock_acquire(p)
       \/ copy_bounded(p) \/ reopen_destination(p) \/ write_json_atomic(p)
       \/ open_selector(p) \/ inspect(p) \/ RtEnds(p)
       \/ \E f \in TreeFiles : \/ verify_payload(p, f) \/ create_destination_file(p, f)
                               \/ open_walked_node(p, f)
       \/ \E g \in Generations : create_generation(p, g) \/ StartRuntime(p, g)
       \/ \E q \in RtProcesses : launch(p, q)

RtSpec == RtInit /\ [][RtNext]_rtVars

-----------------------------------------------------------------------------
\* The generation runtime-current.json names is complete, and every file of it
\* is one of a release of the pinned publisher, as long as nobody changes it
\* after it was selected: no crash, no second publisher and no change before or
\* between the handles of a publication leads to another selection
\* (publisher.rs, publish).
SelectedRuntimeAuthentic ==
  rtSelector # NoSelector /\ rtSelector.gen \notin rtLate =>
    \E r \in PinnedReleases : \A f \in TreeFiles : rtTrees[rtSelector.gen][f] = r

\* What a runtime has verified stays so while it acts on it: its generation is
\* the selected one, and its files are a pinned release (runtime_trust.rs,
\* inspect; "the retained handles prevent a replacement").
RetainedRuntimeStays ==
  \A p \in RtProcesses : rtPc[p] = "retained" =>
    /\ rtSelector.gen = rtMem[p].gen
    /\ \E r \in PinnedReleases : \A f \in TreeFiles : rtTrees[rtMem[p].gen][f] = r

-----------------------------------------------------------------------------
\* The inductive invariant behind these properties: what each handle keeps true.

AuthenticPoints == {"trusted", "locked", "publish", "copy", "reopen", "published", "waiting"}
PublishingPoints == {"publish", "copy", "reopen"}

\* The files a publisher has opened are those of the release its manifest names,
\* which is a pinned one once it has authenticated them.
PackageOpen(p) ==
  /\ rtPc[p] = "idle" => rtMem[p] = Nothing
  /\ rtPc[p] \in {"authenticate", "trusted", "locked"} => rtMem[p].tree = {}
  /\ rtPc[p] \in AuthenticPoints \cup {"authenticate"} =>
       /\ RtManifest \in rtMem[p].package /\ rtPackage[RtManifest] \in Releases
       /\ \A f \in rtMem[p].package : rtPackage[f] = rtPackage[RtManifest]
  /\ rtPc[p] \in AuthenticPoints =>
       rtMem[p].package = TreeFiles /\ rtPackage[RtManifest] \in PinnedReleases

\* Under the publication lock, a generation that is not selected is built, and what
\* has been reopened is a copy of the package.
GenerationBuilt(p) ==
  /\ rtPc[p] \in PublishingPoints \cup {"locked"} => rtLock = {p}
  /\ rtPc[p] \in PublishingPoints =>
       /\ rtMem[p].gen \in Generations /\ rtSelector.gen # rtMem[p].gen
       /\ \A f \in rtMem[p].tree : rtTrees[rtMem[p].gen][f] = rtPackage[f]
  /\ rtPc[p] \in {"copy", "reopen"} => rtMem[p].file \in TreeFiles

\* A runtime holds the selector, then every file the selector vouches for.
RuntimeHeld(p) ==
  /\ rtPc[p] \in {"walk", "retained"} =>
       rtSelector # NoSelector /\ rtMem[p].gen = rtSelector.gen
  /\ rtPc[p] = "retained" =>
       /\ rtMem[p].tree = TreeFiles
       /\ \A f \in TreeFiles : rtTrees[rtMem[p].gen][f] = rtSelector.manifest

SelectionSound ==
  rtSelector # NoSelector =>
    /\ rtSelector.gen \in Generations /\ rtSelector.manifest \in PinnedReleases
    /\ rtSelector.gen \notin rtLate =>
         \A f \in TreeFiles : rtTrees[rtSelector.gen][f] = rtSelector.manifest

RtProcessInv(p) == PackageOpen(p) /\ GenerationBuilt(p) /\ RuntimeHeld(p)

RtInv == RtTypeOK /\ (\A p \in RtProcesses : RtProcessInv(p)) /\ SelectionSound
=============================================================================
