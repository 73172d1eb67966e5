-------------------------- MODULE NorthclockStorage --------------------------
(***************************************************************************)
(* northclock's local storage: settings.toml, the profile imported from a  *)
(* legacy INI with its completion marker, measurements.csv and             *)
(* history.jsonl.  Every northclock process runs one command and there is  *)
(* no lock, so the file operations of several processes interleave; any of *)
(* them may fail and a process may stop after any of them.                 *)
(***************************************************************************)
EXTENDS Integers, Sequences

CONSTANTS
  NcProcs,        \* processes; each runs one command and ends
  ElevatedProcs,  \* those that run elevated
  Intervals,      \* measurement intervals (ms) asked for by settings set
  Inis,           \* legacy INI files a user may import
  NoData,         \* a file that does not exist
  Torn            \* a file whose writing has not finished

ASSUME StorageAssumption ==
  NoData # Torn /\ {NoData, Torn} \cap (Intervals \cup Inis) = {}

VARIABLES ncFiles, ncTemps, ncBackups, ncCsv, ncHistory, ncRun

ncVars == <<ncFiles, ncTemps, ncBackups, ncCsv, ncHistory, ncRun>>

NcPaths == {"settings", "profile", "marker"}

NcContents == Intervals \cup Inis

\* The steps of Storage::replace_file, and where else a command may be.
StoringPoints == {"create", "fill", "check", "place", "aside", "swap", "restore", "discard"}
NcPoints ==
  StoringPoints \cup {"new", "read_settings", "open_new", "open_old", "header", "rows",
                      "history", "ended"}

NcRuns ==
  [pc : NcPoints, path : NcPaths, data : NcContents \cup {NoData},
   result : {"none", "ok", "failed", "killed"}]

NcLive(p) == ncRun[p].pc \notin {"new", "ended"}

NcTypeOK ==
  /\ ncFiles \in [NcPaths -> NcContents \cup {NoData, Torn}]
  /\ ncTemps \in [NcProcs -> [NcPaths -> NcContents \cup {NoData, Torn}]]
  /\ ncBackups \in [NcProcs -> [NcPaths -> NcContents \cup {NoData, Torn}]]
  /\ ncCsv \in Seq({"header"} \cup NcProcs) \cup {NoData}
  /\ ncHistory \in Seq(NcProcs)
  /\ ncRun \in [NcProcs -> NcRuns]

Goto(p, pc) == ncRun' = [ncRun EXCEPT ![p].pc = pc]

Ended(p, result) == ncRun' = [ncRun EXCEPT ![p].pc = "ended", ![p].result = result]

Storing(p, path, data) ==
  ncRun' = [ncRun EXCEPT ![p] =
              [pc |-> "create", path |-> path, data |-> data, result |-> "none"]]

NcStart(settings) ==
  /\ ncFiles = [x \in NcPaths |-> IF x = "settings" THEN settings ELSE NoData]
  /\ ncTemps = [p \in NcProcs |-> [x \in NcPaths |-> NoData]]
  /\ ncBackups = [p \in NcProcs |-> [x \in NcPaths |-> NoData]]
  /\ ncCsv = NoData
  /\ ncHistory = <<>>
  /\ ncRun = [p \in NcProcs |->
                [pc |-> "new", path |-> "settings", data |-> NoData, result |-> "none"]]

NcInit == \E v \in Intervals \cup {NoData} : NcStart(v)

NoFileChange == UNCHANGED <<ncFiles, ncTemps, ncBackups, ncCsv, ncHistory>>

(***************************************************************************)
(* The commands.                                                           *)
(***************************************************************************)
\* An elevated process gets no storage root.
HasStorage(p) == p \notin ElevatedProcs

\* Without storage a settings or profile command fails; measurements are reported and
\* not recorded.
without_storage(p) ==
  /\ ncRun[p].pc = "new"
  /\ ~HasStorage(p)
  /\ \E result \in {"failed", "ok"} : Ended(p, result)
  /\ NoFileChange

\* The intervals that may be stored, in milliseconds.
MeasurementIntervals == 100..60000

\* An interval outside them is refused before the storage is touched.
settings_set(p, interval) ==
  /\ ncRun[p].pc = "new" /\ HasStorage(p)
  /\ IF interval \in MeasurementIntervals
       THEN Storing(p, "settings", interval)
       ELSE Ended(p, "failed")
  /\ NoFileChange

\* A missing file stands for the defaults: existence is asked first and the file
\* read in a second step, which fails when a replacement has moved it aside.
settings_show(p) ==
  /\ ncRun[p].pc = "new" /\ HasStorage(p)
  /\ IF ncFiles["settings"] = NoData THEN Ended(p, "ok") ELSE Goto(p, "read_settings")
  /\ NoFileChange

load_settings(p) ==
  /\ ncRun[p].pc = "read_settings"
  /\ Ended(p, IF ncFiles["settings"] \in Intervals THEN "ok" ELSE "failed")
  /\ NoFileChange

\* Only *.toml names are listed, never a temporary or a backup.
list_profiles(p) ==
  /\ ncRun[p].pc = "new" /\ HasStorage(p)
  /\ Ended(p, IF ncFiles["profile"] = Torn THEN "failed" ELSE "ok")
  /\ NoFileChange

\* The marker is asked first; the profile is replaced, and the marker after it.
import_ini_once(p, ini) ==
  /\ ncRun[p].pc = "new" /\ HasStorage(p)
  /\ IF ncFiles["marker"] # NoData
       THEN Ended(p, "ok")
       ELSE Storing(p, "profile", ini)
  /\ NoFileChange

(***************************************************************************)
(* Storage::replace_file.                                                  *)
(***************************************************************************)
\* The next thing after a file is in place: the marker after the profile.
Replaced(p) ==
  IF ncRun[p].path = "profile"
    THEN Storing(p, "marker", ncRun[p].data)
    ELSE Ended(p, "ok")

create_temporary(p) ==
  /\ ncRun[p].pc = "create"
  /\ ncTemps' = [ncTemps EXCEPT ![p][ncRun[p].path] = Torn]
  /\ Goto(p, "fill")
  /\ UNCHANGED <<ncFiles, ncBackups, ncCsv, ncHistory>>

fill_temporary(p) ==
  /\ ncRun[p].pc = "fill"
  /\ \/ /\ ncTemps' = [ncTemps EXCEPT ![p][ncRun[p].path] = ncRun[p].data]
        /\ Goto(p, "check")
     \/ Ended(p, "failed") /\ UNCHANGED ncTemps
  /\ UNCHANGED <<ncFiles, ncBackups, ncCsv, ncHistory>>

path_exists(p) ==
  /\ ncRun[p].pc = "check"
  /\ Goto(p, IF ncFiles[ncRun[p].path] = NoData THEN "place" ELSE "aside")
  /\ NoFileChange

\* fs::rename replaces an existing destination.
TempToPath(p) ==
  LET path == ncRun[p].path IN
  /\ ncFiles' = [ncFiles EXCEPT ![path] = ncTemps[p][path]]
  /\ ncTemps' = [ncTemps EXCEPT ![p][path] = NoData]

place_first(p) ==
  /\ ncRun[p].pc = "place"
  /\ \/ TempToPath(p) /\ Replaced(p)
     \/ Ended(p, "failed") /\ UNCHANGED <<ncFiles, ncTemps>>
  /\ UNCHANGED <<ncBackups, ncCsv, ncHistory>>

MoveAsideAltered(p) ==
  /\ ncFiles' = [ncFiles EXCEPT ![ncRun[p].path] = NoData]
  /\ UNCHANGED ncBackups

MoveAside(p) ==
  LET path == ncRun[p].path IN
  /\ ncFiles' = [ncFiles EXCEPT ![path] = NoData]
  /\ ncBackups' = [ncBackups EXCEPT ![p][path] = ncFiles[path]]

move_aside(p) ==
  /\ ncRun[p].pc = "aside"
  /\ \/ /\ ncFiles[ncRun[p].path] # NoData
        /\ MoveAside(p)
        /\ Goto(p, "swap")
     \/ Ended(p, "failed") /\ UNCHANGED <<ncFiles, ncBackups>>
  /\ UNCHANGED <<ncTemps, ncCsv, ncHistory>>

swap_in(p) ==
  /\ ncRun[p].pc = "swap"
  /\ \/ TempToPath(p) /\ Goto(p, "discard")
     \/ Goto(p, "restore") /\ UNCHANGED <<ncFiles, ncTemps>>
  /\ UNCHANGED <<ncBackups, ncCsv, ncHistory>>

restore_backup(p) ==
  LET path == ncRun[p].path IN
  /\ ncRun[p].pc = "restore"
  /\ \/ /\ ncFiles' = [ncFiles EXCEPT ![path] = ncBackups[p][path]]
        /\ ncBackups' = [ncBackups EXCEPT ![p][path] = NoData]
     \/ UNCHANGED <<ncFiles, ncBackups>>
  /\ Ended(p, "failed")
  /\ UNCHANGED <<ncTemps, ncCsv, ncHistory>>

\* A backup that cannot be removed is an error although the new file is in place.
discard_backup(p) ==
  /\ ncRun[p].pc = "discard"
  /\ \/ /\ ncBackups' = [ncBackups EXCEPT ![p][ncRun[p].path] = NoData]
        /\ Replaced(p)
     \/ Ended(p, "failed") /\ UNCHANGED ncBackups
  /\ UNCHANGED <<ncFiles, ncTemps, ncCsv, ncHistory>>

(***************************************************************************)
(* record_measurements: the CSV, then the history.  Whether the CSV is new *)
(* is decided before it is opened for appending.                           *)
(***************************************************************************)
record_measurements(p) ==
  /\ ncRun[p].pc = "new" /\ HasStorage(p)
  /\ Goto(p, IF ncCsv = NoData THEN "open_new" ELSE "open_old")
  /\ NoFileChange

open_csv(p) ==
  /\ ncRun[p].pc \in {"open_new", "open_old"}
  /\ \/ /\ ncCsv' = IF ncCsv = NoData THEN <<>> ELSE ncCsv
        /\ Goto(p, IF ncRun[p].pc = "open_new" THEN "header" ELSE "rows")
     \/ Ended(p, "failed") /\ UNCHANGED ncCsv
  /\ UNCHANGED <<ncFiles, ncTemps, ncBackups, ncHistory>>

append_csv(p) ==
  /\ ncRun[p].pc \in {"header", "rows"}
  /\ \/ /\ ncCsv' = Append(ncCsv, IF ncRun[p].pc = "header" THEN "header" ELSE p)
        /\ Goto(p, IF ncRun[p].pc = "header" THEN "rows" ELSE "history")
     \/ Ended(p, "failed") /\ UNCHANGED ncCsv
  /\ UNCHANGED <<ncFiles, ncTemps, ncBackups, ncHistory>>

append_history(p) ==
  /\ ncRun[p].pc = "history"
  /\ \/ ncHistory' = Append(ncHistory, p) /\ Ended(p, "ok")
     \/ Ended(p, "failed") /\ UNCHANGED ncHistory
  /\ UNCHANGED <<ncFiles, ncTemps, ncBackups, ncCsv>>

\* The process is killed, or the machine stops, between two file operations.
NcCrash(p) ==
  /\ NcLive(p)
  /\ Ended(p, "killed")
  /\ NoFileChange

NcNext ==
  \E p \in NcProcs :
    \/ \E v \in Intervals : settings_set(p, v)
    \/ \E ini \in Inis : import_ini_once(p, ini)
    \/ without_storage(p)
    \/ settings_show(p) \/ load_settings(p) \/ list_profiles(p)
    \/ create_temporary(p) \/ fill_temporary(p) \/ path_exists(p)
    \/ place_first(p) \/ move_aside(p) \/ swap_in(p)
    \/ restore_backup(p) \/ discard_backup(p)
    \/ record_measurements(p) \/ open_csv(p) \/ append_csv(p) \/ append_history(p)
    \/ NcCrash(p)

NcSpec == NcInit /\ [][NcNext]_ncVars

\* A whole copy of the file: under its name, or in the backup of a replacement.
WholeCopy(path) ==
  \/ ncFiles[path] \notin {NoData, Torn}
  \/ \E p \in NcProcs : ncBackups[p][path] \notin {NoData, Torn}

\* However the replacements of several processes interleave, fail or stop half-way,
\* a file that was ever stored is never lost: a whole copy of it remains under its
\* name or as a backup (Storage::replace_file), no reader meets a torn one, and an
\* import is marked complete only when its profile was stored (import_ini_once).
StoredFilesSurvive ==
  [][/\ \A path \in NcPaths : WholeCopy(path) => WholeCopy(path)'
     /\ \A path \in NcPaths : ncFiles'[path] # Torn
     /\ WholeCopy("marker")' => WholeCopy("profile")']_ncVars

-----------------------------------------------------------------------------
\* The inductive invariant behind it.

\* A copy that no process is about to discard.
CopyKept(path) ==
  \/ ncFiles[path] \in NcContents
  \/ \E p \in NcProcs :
       /\ ncBackups[p][path] \in NcContents
       /\ ~(ncRun[p].pc = "discard" /\ ncRun[p].path = path)

\* Nothing torn reaches a name or a backup, whoever moved it there.
NothingTorn ==
  \A path \in NcPaths :
    ncFiles[path] # Torn /\ \A p \in NcProcs : ncBackups[p][path] # Torn

\* What a command has in its temporary and in its backup, and what it may rely on.
ReplacementSound(p) ==
  LET r == ncRun[p] IN
  /\ r.pc \in StoringPoints => r.data \in NcContents
  /\ r.pc \in {"check", "place", "aside", "swap"} => ncTemps[p][r.path] = r.data
  /\ r.pc \in {"swap", "restore", "discard"} => ncBackups[p][r.path] \in NcContents
  /\ r.pc \in StoringPoints /\ r.path = "marker" => WholeCopy("profile")
  /\ r.pc \in {"header", "rows"} => ncCsv \in Seq({"header"} \cup NcProcs)

NcInv ==
  /\ NcTypeOK /\ NothingTorn
  /\ \A p \in NcProcs : ReplacementSound(p)
  /\ \A path \in NcPaths : WholeCopy(path) => CopyKept(path)
  /\ WholeCopy("marker") => WholeCopy("profile")

=============================================================================
