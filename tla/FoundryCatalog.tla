---------------------------- MODULE FoundryCatalog ----------------------------
(***************************************************************************)
(* The selection of driver-foundry install                                 *)
(* (tools/driver-foundry/crates/driver-foundry-install/src/catalog.rs and  *)
(* the pipeline's resolve_selection): what the requests of FoundryInstall  *)
(* resolve to.  The dependencies are visited depth first.                  *)
(***************************************************************************)
EXTENDS FoundryInstall

CONSTANTS
  BloatIds,         \* bloat_telemetry_ids
  PresetIds         \* optional_selections: the ids each preset but full names

ASSUME CatalogAssumption == BloatIds \subseteq Components

create_selection(cat, preset) ==
  IF preset = "full" THEN (cat.ids \ cat.required) \ BloatIds
                     ELSE PresetIds[preset] \cap cat.ids

\* One selected id and its dependencies; what is in out already is not visited again.
RECURSIVE add_with_deps(_, _, _)
add_with_depsAltered(cat, id, out) ==
  IF id \in out \/ id \notin cat.ids THEN out ELSE out \cup {id} \cup cat.deps[id]
add_with_deps(cat, id, out) ==
  IF id \in out \/ id \notin cat.ids THEN out
  ELSE {id} \cup FoldSet(LAMBDA d, acc : add_with_deps(cat, d, acc), out, cat.deps[id])

resolve_with_deps(cat, selected) ==
  FoldSet(LAMBDA id, acc : add_with_deps(cat, id, acc), cat.required, selected)

\* Preset, imported and selected ids, less the deselected ones.
resolve_selection(o) ==
  resolve_with_deps(o.catalog, (create_selection(o.catalog, o.preset) \cup o.select) \ o.deselect)

-----------------------------------------------------------------------------
\* The resolved selection is the least set with the required and the selected ids that
\* holds the dependencies of each member that is not required, whatever order the ids are
\* visited in.  What a required package alone depends on is not in it: the required ids are
\* in the set before the visit begins and are never visited, although the comment of
\* resolve_with_deps promises the dependencies of those too (catalog.rs).
ResolvedExactly ==
  LET cat == fiOpts.catalog
      wanted == ((create_selection(cat, fiOpts.preset) \cup fiOpts.select) \ fiOpts.deselect) \cap cat.ids
      closed == {S \in SUBSET cat.ids : cat.required \cup wanted \subseteq S
                                        /\ \A id \in S \ cat.required : cat.deps[id] \subseteq S}
  IN fiPc # "start" /\ fiResolved # {}
       => fiResolved = CHOOSE S \in closed : \A T \in closed : S \subseteq T
=============================================================================
