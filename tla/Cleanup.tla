------------------------------ MODULE Cleanup ------------------------------
(***************************************************************************)
(* Standalone cleanup and the handle-based tree deletion it rests on       *)
(* (crates/frametime-windows/src/system/cleanup_native.rs,                 *)
(* shader_cache/handles.rs, shader_cache/validation.rs, shader_cache/      *)
(* mod.rs; the modes are in crates/frametime-domain/src/cleanup.rs).       *)
(*                                                                         *)
(* Other programs use the same temporary directories while they are        *)
(* emptied: they add files, link them a second time or keep them open.     *)
(***************************************************************************)
EXTENDS Naturals, Sequences, FiniteSets, SequencesExt

CONSTANTS
  Roots,         \* the temporary directory of each tree action
  TempObjects,   \* objects that may live below them
  TempDirs,      \* those that are directories
  MaxNodes,      \* MAX_NODES of a retained tree, roots included
  MaxOutside     \* bound: steps of other programs

ASSUME CleanupAssumption ==
  /\ TempDirs \subseteq TempObjects /\ Roots \cap TempObjects = {}
  /\ IsFiniteSet(Roots) /\ IsFiniteSet(TempObjects) /\ MaxNodes \in Nat /\ MaxOutside \in Nat

VARIABLES
  clParent,    \* where every object is; Gone if nowhere
  clLinked,    \* objects with a second name (nNumberOfLinks # 1)
  clBusy,      \* objects whose deletion Windows refuses
  clPc,
  clActions,   \* cleanup actions still to run
  clNodes,     \* CacheTree.nodes: the retained handles, parents first
  clTodo,      \* directories of it still to be walked
  clAt,        \* delete_postorder's index
  clFailures,  \* late failures of this action
  clReport,    \* CleanupReport.action_results
  clOutside

clVars == <<clParent, clLinked, clBusy, clPc, clActions, clNodes, clTodo, clAt, clFailures,
            clReport, clOutside>>

Gone == "gone"
Directories == Roots \cup TempDirs
\* enumerate_directory, parse_directory_buffer: the entries of an open handle.
enumerate_directory(d) == {o \in TempObjects : clParent[o] = d}

\* cleanup_actions: Full is the quick baseline; Driver does no cleanup.
TreeActions == SetToSeq(Roots)
cleanup_actions(mode) ==
  IF mode = "Driver" THEN <<"ArmDriverRefresh">>
  ELSE TreeActions \o <<"FlushDnsResolverCache", "TrimSystemFileCache">>

Result(action, outcome, items) == [action |-> action, outcome |-> outcome, items |-> items]

\* CleanupReport::is_complete.
is_complete(report) == \A k \in DOMAIN report : report[k].outcome \notin {"Deferred", "Failed"}

\* observe_node: a second name of any object refuses the tree.
Observable(o) == o \notin clLinked

\* validate_node, ensure_direct_child: the retained handle is still the object
\* the walk saw, in the same place, with one name.  A rename cannot happen to
\* an object whose handle does not share deletion.
validate_node(o) == Observable(o)

\* reenumerate_retained_handles: the same handles list the same tree.
reenumerate_retained_handles ==
  /\ \A o \in ToSet(clNodes) \cap TempObjects : validate_node(o)
  /\ \A o \in TempObjects :
       clParent[o] \in ToSet(clNodes) <=> o \in ToSet(clNodes)

-----------------------------------------------------------------------------
ClTypeOK ==
  /\ clParent \in [TempObjects -> Directories \cup {Gone}]
  /\ clLinked \subseteq TempObjects /\ clBusy \subseteq TempObjects
  /\ clPc \in {"idle", "next", "walk", "delete", "dispose"}
  /\ ToSet(clNodes) \subseteq Roots \cup TempObjects /\ Len(clNodes) <= MaxNodes
  /\ clAt \in 0..MaxNodes /\ clFailures \in BOOLEAN /\ clOutside \in 0..MaxOutside

ClStart(parent) ==
  /\ clParent = parent
  /\ clLinked = {} /\ clBusy = {} /\ clPc = "idle" /\ clActions = <<>> /\ clNodes = <<>>
  /\ clTodo = <<>> /\ clAt = 0 /\ clFailures = FALSE /\ clReport = <<>> /\ clOutside = 0

ClInit ==
  \E parent \in [TempObjects -> Roots \cup TempDirs \cup {Gone}] :
    /\ \A o \in TempObjects : parent[o] # o
    /\ \A d \in TempDirs : parent[d] \in Roots
    /\ ClStart(parent)

Outcome(outcome, items) ==
  /\ clReport' = Append(clReport, Result(Head(clActions), outcome, items))
  /\ clActions' = Tail(clActions)
  /\ clPc' = IF Tail(clActions) = <<>> THEN "idle" ELSE "next"
  /\ clNodes' = <<>> /\ clTodo' = <<>> /\ clAt' = 0 /\ clFailures' = FALSE

\* run: every action of the mode is attempted, whatever the earlier ones did.
run_cleanup ==
  /\ clPc = "idle" /\ clPc' = "next" /\ clReport = <<>>
  /\ \E mode \in {"Quick", "Full", "Driver"} : clActions' = cleanup_actions(mode)
  /\ UNCHANGED <<clParent, clLinked, clBusy, clNodes, clTodo, clAt, clFailures, clReport, clOutside>>

\* driver_report: resolved Phase 1 rows, a prepared NVIDIA transaction with no
\* later work, a published runtime, and P1:38 recorded by it afterwards.
driver_report ==
  /\ clPc = "next" /\ Head(clActions) = "ArmDriverRefresh"
  /\ \E resolved, prepared, published, recorded \in BOOLEAN :
       Outcome(IF resolved /\ prepared /\ published /\ recorded THEN "Completed" ELSE "Failed", 0)
  /\ UNCHANGED <<clParent, clLinked, clBusy, clOutside>>

\* dns::flush is deferred where the export is missing; system_cache::trim fails
\* without its privilege.
action_effect ==
  /\ clPc = "next"
  /\ \/ Head(clActions) = "FlushDnsResolverCache"
        /\ \E o \in {"Completed", "Deferred"} : Outcome(o, 0)
     \/ Head(clActions) = "TrimSystemFileCache"
        /\ \E o \in {"Completed", "Failed"} : Outcome(o, 0)
  /\ UNCHANGED <<clParent, clLinked, clBusy, clOutside>>

\* open_root: the root is opened without following it, is not there, or is
\* refused (not a fixed drive, not its own final path, no access).
open_root == {"opened", "missing", "refused"}

\* preflight: a missing root is an empty tree, a refused one fails the action.
preflight ==
  /\ clPc = "next" /\ Head(clActions) \in Roots
  /\ \E root \in open_root :
       \/ /\ root = "opened" /\ clPc' = "walk"
          /\ clNodes' = <<Head(clActions)>> /\ clTodo' = <<Head(clActions)>>
          /\ UNCHANGED <<clActions, clAt, clFailures, clReport>>
       \/ root = "refused" /\ Outcome("Failed", 0)
       \/ root = "missing" /\ Outcome("Completed", 0)
  /\ UNCHANGED <<clParent, clLinked, clBusy, clOutside>>

\* push_node: a tree never holds more than MAX_NODES handles.
\* Mutant: the limit is tested once for the directory, before its entries.
NodesFitAltered(found) == Len(clNodes) <= MaxNodes
NodesFit(found) == Len(clNodes) + Len(found) <= MaxNodes

\* walk_directory: one directory is listed and its entries opened
\* by file ID; a linked entry or the node limit ends the action untouched.
walk_directory ==
  LET d == Head(clTodo)
      found == SetToSeq(enumerate_directory(d))
      dirs == SetToSeq(enumerate_directory(d) \cap TempDirs)
  IN /\ clPc = "walk" /\ clTodo # <<>>
     /\ \/ /\ \A o \in ToSet(found) : Observable(o)
           /\ NodesFit(found)
           /\ clNodes' = clNodes \o found /\ clTodo' = dirs \o Tail(clTodo)
           /\ UNCHANGED <<clPc, clActions, clAt, clFailures, clReport>>
        \/ /\ (\E o \in ToSet(found) : ~Observable(o)) \/ ~NodesFit(found)
           /\ Outcome("Failed", 0)
     /\ UNCHANGED <<clParent, clLinked, clBusy, clOutside>>

\* delete_fixed_roots: both passes must agree before anything is deleted.
ClAgree ==
  /\ clPc = "walk" /\ clTodo = <<>>
  /\ \/ /\ reenumerate_retained_handles /\ clPc' = "delete" /\ clAt' = Len(clNodes)
        /\ UNCHANGED <<clActions, clNodes, clTodo, clFailures, clReport>>
     \/ ~reenumerate_retained_handles /\ Outcome("Failed", 0)
  /\ UNCHANGED <<clParent, clLinked, clBusy, clOutside>>

\* delete_postorder, one node: revalidated, then dispositioned in a call of
\* its own; a node that fails either is recorded and passed over.
ClRevalidate ==
  /\ clPc = "delete" /\ clAt > 1
  /\ \/ validate_node(clNodes[clAt]) /\ clPc' = "dispose" /\ UNCHANGED <<clAt, clFailures>>
     \/ ~validate_node(clNodes[clAt]) /\ clAt' = clAt - 1 /\ clFailures' = TRUE /\ UNCHANGED clPc
  /\ UNCHANGED <<clParent, clLinked, clBusy, clActions, clNodes, clTodo, clReport, clOutside>>

\* Mutant: a refused disposition is not recorded.
delete_postorderAltered ==
  LET o == clNodes[clAt]
      ok == o \notin clBusy /\ enumerate_directory(o) = {}
  IN /\ clPc = "dispose" /\ clPc' = "delete" /\ clAt' = clAt - 1
     /\ clParent' = IF ok THEN [clParent EXCEPT ![o] = Gone] ELSE clParent
     /\ UNCHANGED <<clFailures, clLinked, clBusy, clActions, clNodes, clTodo, clReport, clOutside>>
delete_postorder ==
  LET o == clNodes[clAt]
      ok == o \notin clBusy /\ enumerate_directory(o) = {}
  IN /\ clPc = "dispose" /\ clPc' = "delete" /\ clAt' = clAt - 1
     /\ clParent' = IF ok THEN [clParent EXCEPT ![o] = Gone] ELSE clParent
     /\ clFailures' = (clFailures \/ ~ok)
     /\ UNCHANGED <<clLinked, clBusy, clActions, clNodes, clTodo, clReport, clOutside>>

ClDone ==
  /\ clPc = "delete" /\ clAt = 1
  /\ Outcome(IF clFailures THEN "Failed" ELSE "Completed", Len(clNodes) - 1)
  /\ UNCHANGED <<clParent, clLinked, clBusy, clOutside>>

\* Other programs: create a file, link an object a second time, hold it open.
\* They cannot delete or move what the cleanup keeps open.
ClOthers ==
  /\ clOutside < MaxOutside /\ clOutside' = clOutside + 1
  /\ \E o \in TempObjects :
       \/ /\ clParent[o] = Gone /\ o \notin TempDirs /\ o \notin ToSet(clNodes)
          /\ \E d \in Roots \cup {x \in TempDirs : clParent[x] # Gone} :
               clParent' = [clParent EXCEPT ![o] = d]
          /\ UNCHANGED <<clLinked, clBusy>>
       \/ /\ clParent[o] # Gone /\ o \notin TempDirs
          /\ clLinked' = clLinked \cup {o} /\ UNCHANGED <<clParent, clBusy>>
       \/ /\ clParent[o] # Gone /\ clBusy' = clBusy \cup {o} /\ UNCHANGED <<clParent, clLinked>>
  /\ UNCHANGED <<clPc, clActions, clNodes, clTodo, clAt, clFailures, clReport>>

ClNext ==
  \/ run_cleanup \/ driver_report \/ action_effect \/ preflight \/ walk_directory \/ ClAgree
  \/ ClRevalidate \/ delete_postorder \/ ClDone \/ ClOthers

-----------------------------------------------------------------------------
\* What the report says of a tree is what happened to it: at the moment an
\* action completes with n items, the n objects its two passes agreed on are
\* gone, whatever other programs did meanwhile (delete_fixed_roots,
\* delete_postorder).
CompletedTreeEmptied ==
  [][\A k \in DOMAIN clReport' \ DOMAIN clReport :
       clReport'[k].outcome = "Completed" /\ clNodes # <<>> =>
         /\ clReport'[k].items = Cardinality(ToSet(clNodes) \cap TempObjects)
         /\ \A o \in ToSet(clNodes) \cap TempObjects : clParent'[o] = Gone]_clVars

-----------------------------------------------------------------------------
ClSpec == ClInit /\ [][ClNext]_clVars

(* The inductive invariant of CompletedTreeEmptied. *)
ClActions == Roots \cup {"ArmDriverRefresh", "FlushDnsResolverCache", "TrimSystemFileCache"}
ClResults == [action : ClActions, outcome : {"Completed", "Deferred", "Failed"}, items : Nat]
TreePcs == {"walk", "delete", "dispose"}

ClShape ==
  /\ clParent \in [TempObjects -> Directories \cup {Gone}] /\ clFailures \in BOOLEAN
  /\ clReport \in Seq(ClResults) /\ clActions \in Seq(ClActions)
  /\ clNodes \in Seq(Roots \cup TempObjects) /\ clTodo \in Seq(Directories)
  /\ clPc \in {"idle", "next"} \cup TreePcs
  /\ clPc # "idle" => clActions # <<>>
  /\ clNodes = <<>> <=> clPc \notin TreePcs

\* The retained handles are one root and objects below it, each of them once.
OneTree ==
  /\ IsInjective(clNodes)
  /\ \A i \in DOMAIN clNodes : IF i = 1 THEN clNodes[i] \in Roots ELSE clNodes[i] \in TempObjects

\* Every directory of the tree is walked once: an object of it is in one that was.
WalkedOnce ==
  clPc = "walk" =>
    /\ IsInjective(clTodo) /\ ToSet(clTodo) \subseteq ToSet(clNodes)
    /\ \A o \in ToSet(clNodes) \cap TempObjects :
         clParent[o] \in ToSet(clNodes) /\ clParent[o] \notin ToSet(clTodo)

\* A node the deletion has passed is gone, or its failure is recorded.
PassedGone ==
  clPc \in {"delete", "dispose"} =>
    /\ clAt \in DOMAIN clNodes /\ (clPc = "dispose" => clAt > 1)
    /\ \A i \in DOMAIN clNodes : i > clAt => clFailures \/ clParent[clNodes[i]] = Gone

ClInv == ClShape /\ OneTree /\ WalkedOnce /\ PassedGone
=============================================================================
