-------------------------- MODULE NorthclockProofs ---------------------------
(***************************************************************************)
(* Proofs about NorthclockStorage, for any number of processes and any     *)
(* contents.                                                               *)
(*                                                                         *)
(* There is no lock, so a process may find any file gone or replaced by    *)
(* another one between two of its own steps.  NcInv is inductive: what a   *)
(* process has in its own temporary and backup is what it put there, so a  *)
(* copy that a process is about to discard is never the last one.          *)
(*                                                                         *)
(* Proofs about NorthclockWrites for any targets, levels, plans and        *)
(* receipts the user keeps, and any number of writes of other programs.    *)
(*                                                                         *)
(* WritesAccounted speaks of the moments between commands, so it says      *)
(* nothing about the command that is running.  NwInv adds what a command   *)
(* relies on while it runs: the value it captured, and with it every value *)
(* a rollback may return to, was accounted for when it was read, and a     *)
(* value that is accounted for stays so.  It need not still be the present *)
(* value: other programs write between the read-back and the undo.         *)
(***************************************************************************)
EXTENDS NorthclockStorage, NorthclockWrites, TLAPS

-----------------------------------------------------------------------------
(* Values, runs and what a step of one process leaves alone. *)

(* A file is whole when it is neither missing nor torn. *)
LEMMA WholeValues ==
  ASSUME NEW v \in NcContents \cup {NoData, Torn}
  PROVE  v \notin {NoData, Torn} <=> v \in NcContents
BY StorageAssumption DEF NcContents

LEMMA StorageTypes ==
  ASSUME NcTypeOK, NEW p \in NcProcs
  PROVE  /\ ncRun[p] \in NcRuns /\ ncRun[p].pc \in NcPoints /\ ncRun[p].path \in NcPaths
         /\ ncRun[p].data \in NcContents \cup {NoData}
         /\ \A path \in NcPaths :
              /\ ncFiles[path] \in NcContents \cup {NoData, Torn}
              /\ ncTemps[p][path] \in NcContents \cup {NoData, Torn}
              /\ ncBackups[p][path] \in NcContents \cup {NoData, Torn}
BY DEF NcTypeOK, NcRuns

LEMMA WholeIs ==
  ASSUME NcTypeOK, NEW path \in NcPaths
  PROVE  WholeCopy(path) <=> \/ ncFiles[path] \in NcContents
                             \/ \E p \in NcProcs : ncBackups[p][path] \in NcContents
<1>1. ncFiles[path] \notin {NoData, Torn} <=> ncFiles[path] \in NcContents
  <2>1. ncFiles[path] \in NcContents \cup {NoData, Torn}
    BY DEF NcTypeOK
  <2> QED BY <2>1, WholeValues
<1>2. \A p \in NcProcs :
        ncBackups[p][path] \notin {NoData, Torn} <=> ncBackups[p][path] \in NcContents
  BY StorageTypes, WholeValues
<1> QED BY <1>1, <1>2 DEF WholeCopy

WholeExactly ==
  \A path \in NcPaths :
    WholeCopy(path) <=> \/ ncFiles[path] \in NcContents
                        \/ \E p \in NcProcs : ncBackups[p][path] \in NcContents

LEMMA WholeIsNext == NcTypeOK' => WholeExactly'
<1>1. NcTypeOK => WholeExactly
  BY WholeIs DEF WholeExactly
<1> QED BY <1>1, PTL

(* Where process p is after a step, and that only p moved. *)
RunIs(p, pc, path, data) ==
  /\ ncRun' \in [NcProcs -> NcRuns]
  /\ ncRun'[p].pc = pc /\ ncRun'[p].path = path /\ ncRun'[p].data = data
  /\ \A q \in NcProcs \ {p} : ncRun'[q] = ncRun[q]

LEMMA GotoRun ==
  ASSUME NcTypeOK, NEW p \in NcProcs, NEW pc \in NcPoints, Goto(p, pc)
  PROVE  RunIs(p, pc, ncRun[p].path, ncRun[p].data)
<1>1. ncRun \in [NcProcs -> NcRuns]
  BY DEF NcTypeOK
<1> QED BY <1>1 DEF RunIs, Goto, NcRuns

LEMMA EndedRun ==
  ASSUME NcTypeOK, NEW p \in NcProcs, NEW result \in {"none", "ok", "failed", "killed"},
         Ended(p, result)
  PROVE  RunIs(p, "ended", ncRun[p].path, ncRun[p].data)
<1>1. ncRun \in [NcProcs -> NcRuns] /\ "ended" \in NcPoints
  BY DEF NcTypeOK, NcPoints
<1> QED BY <1>1 DEF RunIs, Ended, NcRuns

LEMMA StoringRun ==
  ASSUME NcTypeOK, NEW p \in NcProcs, NEW path \in NcPaths, NEW data \in NcContents,
         Storing(p, path, data)
  PROVE  RunIs(p, "create", path, data)
<1>1. ncRun \in [NcProcs -> NcRuns] /\ "create" \in NcPoints
  BY DEF NcTypeOK, NcPoints, StoringPoints
<1> QED BY <1>1 DEF RunIs, Storing, NcRuns

LEMMA ReplacedRun ==
  ASSUME NcTypeOK, NEW p \in NcProcs, ncRun[p].data \in NcContents, Replaced(p)
  PROVE  \/ /\ ncRun[p].path = "profile"
            /\ RunIs(p, "create", "marker", ncRun[p].data)
         \/ RunIs(p, "ended", ncRun[p].path, ncRun[p].data)
<1>1. CASE ncRun[p].path = "profile"
  <2>1. Storing(p, "marker", ncRun[p].data) /\ "marker" \in NcPaths
    BY <1>1 DEF Replaced, NcPaths
  <2> QED BY <1>1, <2>1, StoringRun
<1>2. CASE ncRun[p].path # "profile"
  <2>1. Ended(p, "ok")
    BY <1>2 DEF Replaced
  <2> QED BY <2>1, EndedRun
<1> QED BY <1>1, <1>2

(* What becomes of one file name in a step of process p: its copy is kept, *)
(* and a copy appears only where p is storing.                             *)
PathSound(p, path) ==
  /\ CopyKept(path) => CopyKept(path)'
  /\ WholeCopy(path)' => CopyKept(path)'
  /\ WholeCopy(path)' => \/ WholeCopy(path)
                         \/ ncRun[p].pc \in StoringPoints /\ ncRun[p].path = path

LEMMA PathSame ==
  ASSUME NcInv, NcTypeOK', NEW p \in NcProcs, NEW path \in NcPaths,
         ncFiles'[path] = ncFiles[path],
         \A q \in NcProcs : ncBackups'[q][path] = ncBackups[q][path],
         \A q \in NcProcs \ {p} : ncRun'[q] = ncRun[q],
         ~(ncRun'[p].pc = "discard" /\ ncRun'[p].path = path)
  PROVE  PathSound(p, path)
<1>1. CopyKept(path) => CopyKept(path)'
  BY DEF CopyKept
<1>2. WholeCopy(path)' => WholeCopy(path)
  BY DEF WholeCopy
<1>3. WholeCopy(path) => CopyKept(path)
  BY DEF NcInv
<1> QED BY <1>1, <1>2, <1>3 DEF PathSound

(* A file that is whole after a step is kept whatever happens to backups. *)
LEMMA PathFilled ==
  ASSUME NEW p \in NcProcs, NEW path \in NcPaths, ncFiles'[path] \in NcContents,
         ncRun[p].pc \in StoringPoints /\ ncRun[p].path = path
  PROVE  PathSound(p, path)
BY DEF PathSound, CopyKept

(* The step of one process, from what it does to its own run and to the    *)
(* file names.                                                             *)
LEMMA StorageStep ==
  ASSUME NcInv, NEW p \in NcProcs, NcTypeOK', NothingTorn', ReplacementSound(p)',
         \A q \in NcProcs \ {p} :
            ncRun'[q] = ncRun[q] /\ ncTemps'[q] = ncTemps[q] /\ ncBackups'[q] = ncBackups[q],
         ncCsv \in Seq({"header"} \cup NcProcs) => ncCsv' \in Seq({"header"} \cup NcProcs),
         \A path \in NcPaths : PathSound(p, path)
  PROVE  NcInv' /\ \A path \in NcPaths : WholeCopy(path) => WholeCopy(path)'
<1>1. ASSUME NEW path \in NcPaths PROVE CopyKept(path)' => WholeCopy(path)'
  BY WholeIsNext DEF WholeExactly, CopyKept
<1>2. ASSUME NEW path \in NcPaths PROVE WholeCopy(path) => WholeCopy(path)'
  BY <1>1 DEF NcInv, PathSound
<1>3. WholeCopy("profile") => WholeCopy("profile")'
  BY <1>2 DEF NcPaths
<1>4. ASSUME NEW q \in NcProcs PROVE ReplacementSound(q)'
  <2>1. CASE q # p
    <3>1. ReplacementSound(q)
      BY DEF NcInv
    <3>2. ncRun'[q] = ncRun[q] /\ ncTemps'[q] = ncTemps[q] /\ ncBackups'[q] = ncBackups[q]
      BY <2>1
    <3> QED BY <3>1, <3>2, <1>3 DEF ReplacementSound
  <2> QED BY <2>1
<1>5. WholeCopy("marker")' => WholeCopy("profile")'
  <2>1. SUFFICES ASSUME WholeCopy("marker")' PROVE WholeCopy("profile")'
    OBVIOUS
  <2>2. CASE WholeCopy("marker")
    BY <2>2, <1>3 DEF NcInv
  <2>3. CASE ncRun[p].pc \in StoringPoints /\ ncRun[p].path = "marker"
    BY <2>3, <1>3 DEF NcInv, ReplacementSound
  <2> QED BY <2>1, <2>2, <2>3 DEF PathSound, NcPaths
<1>6. \A path \in NcPaths : WholeCopy(path)' => CopyKept(path)'
  BY DEF PathSound
<1> QED BY <1>2, <1>4, <1>5, <1>6 DEF NcInv

StorageKept == NcInv' /\ \A path \in NcPaths : WholeCopy(path) => WholeCopy(path)'

(* A step that touches no file, temporary or backup. *)
LEMMA QuietStep ==
  ASSUME NcInv, NEW p \in NcProcs, NEW pc \in NcPoints \ {"discard"},
         NEW path \in NcPaths, NEW data \in NcContents \cup {NoData},
         RunIs(p, pc, path, data), UNCHANGED <<ncFiles, ncTemps, ncBackups>>,
         ncCsv' \in Seq({"header"} \cup NcProcs) \cup {NoData}, ncHistory' \in Seq(NcProcs),
         ncCsv \in Seq({"header"} \cup NcProcs) => ncCsv' \in Seq({"header"} \cup NcProcs),
         ReplacementSound(p)'
  PROVE  StorageKept
<1>1. NcTypeOK'
  BY DEF NcInv, NcTypeOK, RunIs
<1>2. NothingTorn'
  BY DEF NcInv, NothingTorn
<1>3. ASSUME NEW x \in NcPaths PROVE PathSound(p, x)
  BY <1>1, PathSame DEF RunIs
<1> QED BY <1>1, <1>2, <1>3, StorageStep DEF RunIs, StorageKept

(* A command that ends, or moves outside the storing of a file, relies on  *)
(* nothing it has stored.                                                  *)
LEMMA OutsideStep ==
  ASSUME NcInv, NEW p \in NcProcs, NEW pc \in NcPoints \ StoringPoints,
         RunIs(p, pc, ncRun[p].path, ncRun[p].data), UNCHANGED <<ncFiles, ncTemps, ncBackups>>,
         ncCsv' \in Seq({"header"} \cup NcProcs) \cup {NoData}, ncHistory' \in Seq(NcProcs),
         ncCsv \in Seq({"header"} \cup NcProcs) => ncCsv' \in Seq({"header"} \cup NcProcs),
         pc \in {"header", "rows"} => ncCsv' \in Seq({"header"} \cup NcProcs)
  PROVE  StorageKept
<1>1. ReplacementSound(p)'
  BY DEF ReplacementSound, RunIs, StoringPoints
<1>2. /\ ncRun[p].path \in NcPaths /\ ncRun[p].data \in NcContents \cup {NoData}
      /\ pc \in NcPoints \ {"discard"}
  BY StorageTypes DEF NcInv, StoringPoints
<1> QED BY <1>1, <1>2, QuietStep

LEMMA EndsQuietly ==
  ASSUME NcInv, NEW p \in NcProcs, NEW result \in {"ok", "failed", "killed"},
         Ended(p, result), NoFileChange
  PROVE  StorageKept
<1>1. RunIs(p, "ended", ncRun[p].path, ncRun[p].data)
  BY EndedRun DEF NcInv
<1>2. "ended" \in NcPoints \ StoringPoints /\ "ended" \notin {"header", "rows"}
  BY DEF NcPoints, StoringPoints
<1>3. /\ UNCHANGED <<ncFiles, ncTemps, ncBackups>> /\ ncCsv' = ncCsv
      /\ ncCsv' \in Seq({"header"} \cup NcProcs) \cup {NoData} /\ ncHistory' \in Seq(NcProcs)
  BY DEF NoFileChange, NcInv, NcTypeOK
<1> QED BY <1>1, <1>2, <1>3, OutsideStep

LEMMA GoesQuietly ==
  ASSUME NcInv, NEW p \in NcProcs, NEW pc \in {"read_settings", "open_new", "open_old"},
         Goto(p, pc), NoFileChange
  PROVE  StorageKept
<1>1. pc \in NcPoints \ StoringPoints /\ pc \notin {"header", "rows"}
  BY DEF NcPoints, StoringPoints
<1>2. RunIs(p, pc, ncRun[p].path, ncRun[p].data)
  BY <1>1, GotoRun DEF NcInv
<1>3. /\ UNCHANGED <<ncFiles, ncTemps, ncBackups>> /\ ncCsv' = ncCsv
      /\ ncCsv' \in Seq({"header"} \cup NcProcs) \cup {NoData} /\ ncHistory' \in Seq(NcProcs)
  BY DEF NoFileChange, NcInv, NcTypeOK
<1> QED BY <1>1, <1>2, <1>3, OutsideStep

(* A command that begins to store a file; only an import goes on to the    *)
(* marker, when its profile is whole.                                      *)
LEMMA BeginsStoring ==
  ASSUME NcInv, NEW p \in NcProcs, NEW path \in NcPaths, NEW data \in NcContents,
         Storing(p, path, data), path # "marker", NoFileChange
  PROVE  StorageKept
<1>1. RunIs(p, "create", path, data)
  BY StoringRun DEF NcInv
<1>2. "create" \in NcPoints \ {"discard"}
  BY DEF NcPoints, StoringPoints
<1>3. /\ UNCHANGED <<ncFiles, ncTemps, ncBackups>> /\ ncCsv' = ncCsv
      /\ ncCsv' \in Seq({"header"} \cup NcProcs) \cup {NoData} /\ ncHistory' \in Seq(NcProcs)
  BY DEF NoFileChange, NcInv, NcTypeOK
<1>4. ReplacementSound(p)'
  BY <1>1 DEF ReplacementSound, RunIs, StoringPoints
<1> QED BY <1>1, <1>2, <1>3, <1>4, QuietStep

-----------------------------------------------------------------------------
(* The commands. *)

(* An interval is stored, or refused when it is out of range. *)
LEMMA SettingsSetStep ==
  ASSUME NcInv, NEW p \in NcProcs, NEW v \in Intervals, settings_set(p, v)
  PROVE  StorageKept
<1>1. NoFileChange /\ (Storing(p, "settings", v) \/ Ended(p, "failed"))
  BY DEF settings_set
<1>2. v \in NcContents /\ "settings" \in NcPaths
  BY DEF NcContents, NcPaths
<1> QED BY <1>1, <1>2, EndsQuietly, BeginsStoring

LEMMA CommandSteps ==
  ASSUME NcInv, NEW p \in NcProcs,
         \/ \E v \in Intervals : settings_set(p, v)
         \/ \E ini \in Inis : import_ini_once(p, ini)
         \/ without_storage(p) \/ settings_show(p) \/ load_settings(p) \/ list_profiles(p)
         \/ record_measurements(p) \/ NcCrash(p)
  PROVE  StorageKept
<1>0. /\ \A result \in {"ok", "failed", "killed"} : Ended(p, result) /\ NoFileChange => StorageKept
      /\ \A pc \in {"read_settings", "open_new", "open_old"} :
           Goto(p, pc) /\ NoFileChange => StorageKept
      /\ \A path \in NcPaths \ {"marker"}, data \in NcContents :
           Storing(p, path, data) /\ NoFileChange => StorageKept
  BY EndsQuietly, GoesQuietly, BeginsStoring
<1>1. ASSUME NEW v \in Intervals, settings_set(p, v) PROVE StorageKept
  BY <1>1, SettingsSetStep
<1>2. ASSUME NEW ini \in Inis, import_ini_once(p, ini) PROVE StorageKept
  <2>1. ini \in NcContents /\ "profile" \in NcPaths \ {"marker"}
    BY DEF NcContents, NcPaths
  <2> QED BY <1>0, <1>2, <2>1 DEF import_ini_once
<1>3. CASE without_storage(p)
  BY <1>0, <1>3 DEF without_storage
<1>4. CASE settings_show(p)
  BY <1>0, <1>4 DEF settings_show
<1>5. CASE load_settings(p)
  BY <1>0, <1>5 DEF load_settings
<1>6. CASE list_profiles(p)
  BY <1>0, <1>6 DEF list_profiles
<1>7. CASE record_measurements(p)
  BY <1>0, <1>7 DEF record_measurements
<1>8. CASE NcCrash(p)
  BY <1>0, <1>8 DEF NcCrash
<1> QED BY <1>1, <1>2, <1>3, <1>4, <1>5, <1>6, <1>7, <1>8

(* Appending to measurements.csv and history.jsonl. *)
LEMMA RecordSteps ==
  ASSUME NcInv, NEW p \in NcProcs, open_csv(p) \/ append_csv(p) \/ append_history(p)
  PROVE  StorageKept
<1> DEFINE Lines == {"header"} \cup NcProcs
<1>0. /\ ncCsv \in Seq(Lines) \cup {NoData} /\ ncHistory \in Seq(NcProcs) /\ NcTypeOK
      /\ \A pc \in {"ended", "header", "rows", "history"} : pc \in NcPoints \ StoringPoints
      /\ ReplacementSound(p)
  BY DEF NcInv, NcTypeOK, NcPoints, StoringPoints
<1>1. CASE open_csv(p)
  <2>1. UNCHANGED <<ncFiles, ncTemps, ncBackups>> /\ ncHistory' \in Seq(NcProcs)
    BY <1>0, <1>1 DEF open_csv
  <2>2. CASE ncCsv' = (IF ncCsv = NoData THEN <<>> ELSE ncCsv)
             /\ Goto(p, IF ncRun[p].pc = "open_new" THEN "header" ELSE "rows")
    <3>1. PICK pc \in {"header", "rows"} : Goto(p, pc)
      BY <2>2
    <3>2. RunIs(p, pc, ncRun[p].path, ncRun[p].data)
      BY <1>0, <3>1, GotoRun
    <3>3. ncCsv' \in Seq(Lines)
      BY <1>0, <2>2
    <3> QED BY <1>0, <2>1, <3>2, <3>3, OutsideStep
  <2>3. CASE Ended(p, "failed") /\ UNCHANGED ncCsv
    <3>1. NoFileChange
      BY <1>1, <2>3 DEF open_csv, NoFileChange
    <3> QED BY <2>3, <3>1, EndsQuietly
  <2> QED BY <1>1, <2>2, <2>3 DEF open_csv
<1>2. CASE append_csv(p)
  <2>1. /\ UNCHANGED <<ncFiles, ncTemps, ncBackups>> /\ ncHistory' \in Seq(NcProcs)
        /\ ncCsv \in Seq(Lines)
    BY <1>0, <1>2 DEF append_csv, ReplacementSound
  <2>2. CASE ncCsv' = Append(ncCsv, IF ncRun[p].pc = "header" THEN "header" ELSE p)
             /\ Goto(p, IF ncRun[p].pc = "header" THEN "rows" ELSE "history")
    <3>1. PICK pc \in {"rows", "history"} : Goto(p, pc)
      BY <2>2
    <3>2. RunIs(p, pc, ncRun[p].path, ncRun[p].data)
      BY <1>0, <3>1, GotoRun
    <3>3. PICK line \in Lines : ncCsv' = Append(ncCsv, line)
      BY <2>2
    <3>4. ncCsv' \in Seq(Lines)
      BY <2>1, <3>3
    <3> QED BY <1>0, <2>1, <3>2, <3>4, OutsideStep
  <2>3. CASE Ended(p, "failed") /\ UNCHANGED ncCsv
    <3>1. NoFileChange
      BY <1>2, <2>3 DEF append_csv, NoFileChange
    <3> QED BY <2>3, <3>1, EndsQuietly
  <2> QED BY <1>2, <2>2, <2>3 DEF append_csv
<1>3. CASE append_history(p)
  <2>1. CASE ncHistory' = Append(ncHistory, p) /\ Ended(p, "ok")
    <3>1. RunIs(p, "ended", ncRun[p].path, ncRun[p].data)
      BY <1>0, <2>1, EndedRun
    <3>2. UNCHANGED <<ncFiles, ncTemps, ncBackups, ncCsv>> /\ ncHistory' \in Seq(NcProcs)
      BY <1>0, <1>3, <2>1 DEF append_history
    <3> QED BY <1>0, <3>1, <3>2, OutsideStep
  <2>2. CASE Ended(p, "failed") /\ UNCHANGED ncHistory
    <3>1. NoFileChange
      BY <1>3, <2>2 DEF append_history, NoFileChange
    <3> QED BY <2>2, <3>1, EndsQuietly
  <2> QED BY <1>3, <2>1, <2>2 DEF append_history
<1> QED BY <1>1, <1>2, <1>3

-----------------------------------------------------------------------------
(* Storage::replace_file. *)

Values == NcContents \cup {NoData, Torn}
Cells == [NcProcs -> [NcPaths -> Values]]

LEMMA SomeValues ==
  NoData \in Values /\ Torn \in Values /\ \A v \in NcContents : v \in Values
BY DEF Values

(* One temporary or backup changes and the others do not. *)
CellSet(f, g, p, path, v) == g = [f EXCEPT ![p][path] = v]

LEMMA OneCell ==
  ASSUME NEW f \in Cells, NEW g, NEW p \in NcProcs, NEW path \in NcPaths,
         NEW v \in Values, CellSet(f, g, p, path, v)
  PROVE  /\ g \in Cells /\ g[p][path] = v
         /\ \A q \in NcProcs \ {p} : g[q] = f[q]
         /\ \A x \in NcPaths \ {path} : g[p][x] = f[p][x]
<1> DEFINE row == [f[p] EXCEPT ![path] = v]
<1>1. row \in [NcPaths -> Values]
  BY DEF Cells
<1>2. g = [f EXCEPT ![p] = row]
  BY DEF CellSet
<1>3. row[path] = v /\ \A x \in NcPaths \ {path} : row[x] = f[p][x]
  BY DEF Cells
<1> HIDE DEF row
<1> QED BY <1>1, <1>2, <1>3 DEF Cells

(* What is known when a process is storing a file. *)
LEMMA StoringKnown ==
  ASSUME NcInv, NEW p \in NcProcs, ncRun[p].pc \in StoringPoints
  PROVE  /\ NcTypeOK /\ NothingTorn /\ ReplacementSound(p)
         /\ ncRun[p].path \in NcPaths /\ ncRun[p].data \in NcContents
         /\ ncTemps \in Cells /\ ncBackups \in Cells
         /\ ncRun[p].path = "marker" => WholeCopy("profile")
         /\ \A v \in NcContents : v # Torn /\ v # NoData
<1>1. NcTypeOK /\ NothingTorn /\ ReplacementSound(p)
  BY DEF NcInv
<1>2. \A v \in NcContents : v # Torn /\ v # NoData
  BY StorageAssumption DEF NcContents
<1> QED BY <1>1, <1>2, StorageTypes DEF ReplacementSound, NcTypeOK, Cells, Values

(* The files after a step of process p. *)
FileTypes ==
  /\ ncFiles' \in [NcPaths -> NcContents \cup {NoData, Torn}]
  /\ ncTemps' \in Cells /\ ncBackups' \in Cells
  /\ ncCsv' = ncCsv /\ ncHistory' = ncHistory

LEMMA FilesTyped ==
  ASSUME NcInv, NEW p \in NcProcs, NEW pc, NEW path, NEW data, RunIs(p, pc, path, data), FileTypes
  PROVE  NcTypeOK'
BY DEF NcInv, NcTypeOK, RunIs, FileTypes, Cells, Values

LEMMA ReplaceStep ==
  ASSUME NcInv, NEW p \in NcProcs, NcTypeOK', FileTypes, NothingTorn', ReplacementSound(p)',
         \A q \in NcProcs \ {p} :
            ncRun'[q] = ncRun[q] /\ ncTemps'[q] = ncTemps[q] /\ ncBackups'[q] = ncBackups[q],
         \A path \in NcPaths : PathSound(p, path)
  PROVE  StorageKept
BY StorageStep DEF FileTypes, StorageKept

(* A name that p is not storing. *)
LEMMA OtherPaths ==
  ASSUME NcInv, NcTypeOK', NEW p \in NcProcs, NEW path \in NcPaths, path # ncRun[p].path,
         ncFiles'[path] = ncFiles[path], ncBackups'[p][path] = ncBackups[p][path],
         \A q \in NcProcs \ {p} : ncRun'[q] = ncRun[q] /\ ncBackups'[q] = ncBackups[q],
         ncRun'[p].pc # "discard" \/ ncRun'[p].path = ncRun[p].path
  PROVE  PathSound(p, path)
<1>1. \A q \in NcProcs : ncBackups'[q][path] = ncBackups[q][path]
  OBVIOUS
<1>2. ~(ncRun'[p].pc = "discard" /\ ncRun'[p].path = path)
  OBVIOUS
<1> QED BY <1>1, <1>2, PathSame

LEMMA TemporarySteps ==
  ASSUME NcInv, NEW p \in NcProcs, create_temporary(p) \/ fill_temporary(p) \/ path_exists(p)
  PROVE  StorageKept
<1> DEFINE path == ncRun[p].path
           data == ncRun[p].data
<1>0. ncRun[p].pc \in {"create", "fill", "check"}
  BY DEF create_temporary, fill_temporary, path_exists
<1>1. /\ NcTypeOK /\ NothingTorn /\ ReplacementSound(p) /\ path \in NcPaths /\ data \in NcContents
      /\ ncTemps \in Cells /\ ncBackups \in Cells
      /\ path = "marker" => WholeCopy("profile")
  BY <1>0, StoringKnown DEF StoringPoints
<1>2. UNCHANGED <<ncFiles, ncBackups, ncCsv, ncHistory>>
  BY DEF create_temporary, fill_temporary, path_exists, NoFileChange
<1>3. WholeCopy("profile")' = WholeCopy("profile")
  BY <1>2 DEF WholeCopy
<1>4. ASSUME NEW pc \in {"fill", "check", "place", "aside"}, Goto(p, pc),
             ncTemps' \in Cells, \A q \in NcProcs \ {p} : ncTemps'[q] = ncTemps[q],
             pc # "fill" => ncTemps'[p][path] = data
      PROVE  StorageKept
  <2>1. RunIs(p, pc, path, data)
    BY <1>1, <1>4, GotoRun DEF NcPoints, StoringPoints
  <2>2. FileTypes
    BY <1>1, <1>2, <1>4 DEF FileTypes, NcTypeOK
  <2>3. NcTypeOK'
    BY <2>1, <2>2, FilesTyped
  <2>4. NothingTorn'
    BY <1>1, <1>2 DEF NothingTorn
  <2>5. ReplacementSound(p)'
    BY <1>1, <1>3, <1>4, <2>1 DEF ReplacementSound, RunIs
  <2>6. ASSUME NEW x \in NcPaths PROVE PathSound(p, x)
    BY <1>2, <1>4, <2>1, <2>3, PathSame DEF RunIs
  <2> QED BY <1>2, <1>4, <2>1, <2>2, <2>3, <2>4, <2>5, <2>6, ReplaceStep DEF RunIs
<1>5. CASE create_temporary(p)
  <2>1. CellSet(ncTemps, ncTemps', p, path, Torn) /\ Goto(p, "fill")
    BY <1>5 DEF create_temporary, CellSet
  <2>2. /\ ncTemps' \in Cells /\ \A q \in NcProcs \ {p} : ncTemps'[q] = ncTemps[q]
        /\ ncTemps'[p][path] = Torn
    BY <1>1, <2>1, SomeValues, OneCell
  <2> QED BY <1>4, <2>1, <2>2
<1>6. CASE fill_temporary(p)
  <2>1. CASE CellSet(ncTemps, ncTemps', p, path, data) /\ Goto(p, "check")
    <3>1. /\ ncTemps' \in Cells /\ \A q \in NcProcs \ {p} : ncTemps'[q] = ncTemps[q]
          /\ ncTemps'[p][path] = data
      BY <1>1, <2>1, SomeValues, OneCell
    <3> QED BY <1>4, <2>1, <3>1
  <2>2. CASE Ended(p, "failed") /\ UNCHANGED ncTemps
    <3>1. NoFileChange
      BY <1>2, <2>2 DEF NoFileChange
    <3> QED BY <2>2, <3>1, EndsQuietly
  <2> QED BY <1>6, <2>1, <2>2 DEF fill_temporary, CellSet
<1>7. CASE path_exists(p)
  <2>1. PICK pc \in {"place", "aside"} : Goto(p, pc)
    BY <1>7 DEF path_exists
  <2>2. ncTemps' = ncTemps /\ ncTemps[p][path] = data
    BY <1>1, <1>7 DEF path_exists, NoFileChange, ReplacementSound
  <2> QED BY <1>1, <1>4, <2>1, <2>2
<1> QED BY <1>5, <1>6, <1>7

(* A whole temporary takes the name: it becomes a copy nobody is about to  *)
(* discard.                                                                *)
LEMMA TempPlaced ==
  ASSUME NcInv, NEW p \in NcProcs, ncRun[p].pc \in {"place", "swap"}, TempToPath(p)
  PROVE  /\ ncFiles' \in [NcPaths -> NcContents \cup {NoData, Torn}]
         /\ ncFiles'[ncRun[p].path] \in NcContents
         /\ \A x \in NcPaths \ {ncRun[p].path} : ncFiles'[x] = ncFiles[x]
         /\ ncTemps' \in Cells /\ \A q \in NcProcs \ {p} : ncTemps'[q] = ncTemps[q]
<1> DEFINE path == ncRun[p].path
<1>1. /\ path \in NcPaths /\ ncRun[p].data \in NcContents /\ ReplacementSound(p)
      /\ ncTemps \in Cells /\ NcTypeOK
  BY StoringKnown DEF StoringPoints
<1>2. ncTemps[p][path] \in NcContents
  BY <1>1 DEF ReplacementSound
<1>3. ncFiles' = [ncFiles EXCEPT ![path] = ncTemps[p][path]]
      /\ CellSet(ncTemps, ncTemps', p, path, NoData)
  BY DEF TempToPath, CellSet
<1>4. /\ ncTemps' \in Cells /\ \A q \in NcProcs \ {p} : ncTemps'[q] = ncTemps[q]
      /\ ncTemps'[p][path] = NoData
  BY <1>1, <1>3, SomeValues, OneCell
<1> QED BY <1>1, <1>2, <1>3, <1>4 DEF NcTypeOK

LEMMA PlaceStep ==
  ASSUME NcInv, NEW p \in NcProcs, place_first(p)
  PROVE  StorageKept
<1> DEFINE path == ncRun[p].path
           data == ncRun[p].data
<1>0. ncRun[p].pc = "place" /\ UNCHANGED <<ncBackups, ncCsv, ncHistory>>
  BY DEF place_first
<1>1. /\ NcTypeOK /\ NothingTorn /\ path \in NcPaths /\ data \in NcContents /\ ncBackups \in Cells
      /\ \A v \in NcContents : v # Torn
  BY <1>0, StoringKnown DEF StoringPoints
<1>2. CASE TempToPath(p) /\ Replaced(p)
  <2>1. /\ ncFiles' \in [NcPaths -> NcContents \cup {NoData, Torn}]
        /\ ncFiles'[path] \in NcContents
        /\ \A x \in NcPaths \ {path} : ncFiles'[x] = ncFiles[x]
        /\ ncTemps' \in Cells /\ \A q \in NcProcs \ {p} : ncTemps'[q] = ncTemps[q]
    BY <1>0, <1>2, TempPlaced
  <2>2. PICK pc \in {"create", "ended"}, target \in NcPaths :
             RunIs(p, pc, target, data) /\ (pc = "create" => path = "profile")
    BY <1>1, <1>2, ReplacedRun DEF NcPaths
  <2>3. FileTypes
    BY <1>0, <1>1, <2>1 DEF FileTypes
  <2>4. NcTypeOK'
    BY <2>2, <2>3, FilesTyped
  <2>5. NothingTorn'
    BY <1>0, <1>1, <2>1 DEF NothingTorn
  <2>6. pc = "create" => WholeCopy("profile")'
    BY <1>1, <2>1, <2>2, <2>4, WholeIsNext DEF WholeExactly
  <2>7. ReplacementSound(p)'
    BY <1>1, <2>2, <2>6 DEF ReplacementSound, RunIs, StoringPoints
  <2>8. ASSUME NEW x \in NcPaths PROVE PathSound(p, x)
    <3>1. CASE x = path
      BY <1>0, <2>1, <3>1, PathFilled DEF StoringPoints
    <3>2. CASE x # path
      BY <1>0, <2>1, <2>2, <2>4, <3>2, OtherPaths DEF RunIs
    <3> QED BY <3>1, <3>2
  <2> QED BY <1>0, <2>1, <2>2, <2>3, <2>4, <2>5, <2>7, <2>8, ReplaceStep DEF RunIs
<1>3. CASE Ended(p, "failed") /\ UNCHANGED <<ncFiles, ncTemps>>
  BY <1>0, <1>3, EndsQuietly DEF NoFileChange
<1> QED BY <1>2, <1>3 DEF place_first

(* The file is moved to the process's own backup, which it does not        *)
(* discard before its temporary has taken the name.                        *)
LEMMA MoveAsideStep ==
  ASSUME NcInv, NEW p \in NcProcs, move_aside(p)
  PROVE  StorageKept
<1> DEFINE path == ncRun[p].path
           data == ncRun[p].data
<1>0. ncRun[p].pc = "aside" /\ UNCHANGED <<ncTemps, ncCsv, ncHistory>>
  BY DEF move_aside
<1>1. /\ NcTypeOK /\ NothingTorn /\ ReplacementSound(p) /\ path \in NcPaths /\ data \in NcContents
      /\ ncTemps \in Cells /\ ncBackups \in Cells
      /\ path = "marker" => WholeCopy("profile")
      /\ \A v \in NcContents : v # Torn /\ v # NoData
  BY <1>0, StoringKnown DEF StoringPoints
<1>2. CASE ncFiles[path] # NoData /\ MoveAside(p) /\ Goto(p, "swap")
  <2>0. ncFiles[path] \in NcContents
    BY <1>1, <1>2 DEF NothingTorn, NcTypeOK
  <2>1. /\ ncFiles' = [ncFiles EXCEPT ![path] = NoData]
        /\ CellSet(ncBackups, ncBackups', p, path, ncFiles[path])
    BY <1>2 DEF MoveAside, CellSet
  <2>2. /\ ncFiles' \in [NcPaths -> NcContents \cup {NoData, Torn}]
        /\ ncFiles'[path] = NoData
        /\ \A x \in NcPaths \ {path} : ncFiles'[x] = ncFiles[x]
    BY <1>1, <2>1 DEF NcTypeOK
  <2>3. /\ ncBackups' \in Cells /\ ncBackups'[p][path] = ncFiles[path]
        /\ \A q \in NcProcs \ {p} : ncBackups'[q] = ncBackups[q]
        /\ \A x \in NcPaths \ {path} : ncBackups'[p][x] = ncBackups[p][x]
    BY <1>1, <2>0, <2>1, SomeValues, OneCell
  <2>4. RunIs(p, "swap", path, data)
    BY <1>1, <1>2, GotoRun DEF NcPoints, StoringPoints
  <2>5. FileTypes
    BY <1>0, <1>1, <2>2, <2>3 DEF FileTypes
  <2>6. NcTypeOK'
    BY <2>4, <2>5, FilesTyped
  <2>7. NothingTorn'
    <3>1. ASSUME NEW x \in NcPaths PROVE ncFiles'[x] # Torn
      BY <1>1, <2>2, StorageAssumption DEF NothingTorn
    <3>2. ASSUME NEW x \in NcPaths, NEW q \in NcProcs PROVE ncBackups'[q][x] # Torn
      <4>1. CASE q = p /\ x = path
        BY <1>1, <2>0, <2>3, <4>1
      <4>2. CASE ~(q = p /\ x = path)
        BY <1>1, <2>3, <4>2 DEF NothingTorn
      <4> QED BY <4>1, <4>2
    <3> QED BY <3>1, <3>2 DEF NothingTorn
  <2>8. ASSUME NEW x \in NcPaths PROVE PathSound(p, x)
    <3>1. CASE x = path
      <4>1. CopyKept(x)'
        BY <2>0, <2>3, <2>4, <3>1 DEF CopyKept, RunIs
      <4> QED BY <1>0, <3>1, <4>1 DEF PathSound, StoringPoints
    <3>2. CASE x # path
      BY <2>2, <2>3, <2>4, <2>6, <3>2, OtherPaths DEF RunIs
    <3> QED BY <3>1, <3>2
  <2>9. path = "marker" => WholeCopy("profile")'
    <3>1. path = "marker" => "profile" \in NcPaths \ {path}
      BY DEF NcPaths
    <3> QED BY <1>1, <2>2, <2>3, <3>1 DEF WholeCopy
  <2>10. ReplacementSound(p)'
    BY <1>0, <1>1, <2>0, <2>3, <2>4, <2>9 DEF ReplacementSound, RunIs
  <2> QED BY <1>0, <2>3, <2>4, <2>5, <2>6, <2>7, <2>8, <2>10, ReplaceStep DEF RunIs
<1>3. CASE Ended(p, "failed") /\ UNCHANGED <<ncFiles, ncBackups>>
  BY <1>0, <1>3, EndsQuietly DEF NoFileChange
<1> QED BY <1>2, <1>3 DEF move_aside

(* The temporary takes the name; when it cannot, the backup is restored. *)
LEMMA SwapStep ==
  ASSUME NcInv, NEW p \in NcProcs, swap_in(p)
  PROVE  StorageKept
<1> DEFINE path == ncRun[p].path
           data == ncRun[p].data
<1>0. ncRun[p].pc = "swap" /\ UNCHANGED <<ncBackups, ncCsv, ncHistory>>
  BY DEF swap_in
<1>1. /\ NcTypeOK /\ NothingTorn /\ ReplacementSound(p) /\ path \in NcPaths /\ data \in NcContents
      /\ ncTemps \in Cells /\ ncBackups \in Cells
      /\ path = "marker" => WholeCopy("profile")
      /\ \A v \in NcContents : v # Torn /\ v # NoData
  BY <1>0, StoringKnown DEF StoringPoints
<1>2. CASE TempToPath(p) /\ Goto(p, "discard")
  <2>1. /\ ncFiles' \in [NcPaths -> NcContents \cup {NoData, Torn}]
        /\ ncFiles'[path] \in NcContents
        /\ \A x \in NcPaths \ {path} : ncFiles'[x] = ncFiles[x]
        /\ ncTemps' \in Cells /\ \A q \in NcProcs \ {p} : ncTemps'[q] = ncTemps[q]
    BY <1>0, <1>2, TempPlaced
  <2>2. RunIs(p, "discard", path, data)
    BY <1>1, <1>2, GotoRun DEF NcPoints, StoringPoints
  <2>3. FileTypes
    BY <1>0, <1>1, <2>1 DEF FileTypes
  <2>4. NcTypeOK'
    BY <2>2, <2>3, FilesTyped
  <2>5. NothingTorn'
    BY <1>0, <1>1, <2>1 DEF NothingTorn
  <2>6. path = "marker" => WholeCopy("profile")'
    <3>1. path = "marker" => "profile" \in NcPaths \ {path}
      BY DEF NcPaths
    <3> QED BY <1>0, <1>1, <2>1, <3>1 DEF WholeCopy
  <2>7. ReplacementSound(p)'
    BY <1>0, <1>1, <2>2, <2>6 DEF ReplacementSound, RunIs
  <2>8. ASSUME NEW x \in NcPaths PROVE PathSound(p, x)
    <3>1. CASE x = path
      BY <1>0, <2>1, <3>1, PathFilled DEF StoringPoints
    <3>2. CASE x # path
      BY <1>0, <2>1, <2>2, <2>4, <3>2, OtherPaths DEF RunIs
    <3> QED BY <3>1, <3>2
  <2> QED BY <1>0, <2>1, <2>2, <2>3, <2>4, <2>5, <2>7, <2>8, ReplaceStep DEF RunIs
<1>3. CASE Goto(p, "restore") /\ UNCHANGED <<ncFiles, ncTemps>>
  <2>1. RunIs(p, "restore", path, data)
    BY <1>1, <1>3, GotoRun DEF NcPoints, StoringPoints
  <2>2. FileTypes
    BY <1>0, <1>1, <1>3 DEF FileTypes, NcTypeOK
  <2>3. NcTypeOK'
    BY <2>1, <2>2, FilesTyped
  <2>4. NothingTorn'
    BY <1>0, <1>1, <1>3 DEF NothingTorn
  <2>5. WholeCopy("profile")' = WholeCopy("profile")
    BY <1>0, <1>3 DEF WholeCopy
  <2>6. ReplacementSound(p)'
    BY <1>0, <1>1, <2>1, <2>5 DEF ReplacementSound, RunIs
  <2>7. ASSUME NEW x \in NcPaths PROVE PathSound(p, x)
    BY <1>0, <1>3, <2>1, <2>3, PathSame DEF RunIs
  <2> QED BY <1>0, <1>3, <2>1, <2>2, <2>3, <2>4, <2>6, <2>7, ReplaceStep DEF RunIs
<1> QED BY <1>2, <1>3 DEF swap_in

(* The backup goes back under its name, over whatever another process has  *)
(* placed there meanwhile.                                                 *)
LEMMA RestoreStep ==
  ASSUME NcInv, NEW p \in NcProcs, restore_backup(p)
  PROVE  StorageKept
<1> DEFINE path == ncRun[p].path
           data == ncRun[p].data
<1>0. ncRun[p].pc = "restore" /\ Ended(p, "failed") /\ UNCHANGED <<ncTemps, ncCsv, ncHistory>>
  BY DEF restore_backup
<1>1. /\ NcTypeOK /\ NothingTorn /\ ReplacementSound(p) /\ path \in NcPaths
      /\ ncTemps \in Cells /\ ncBackups \in Cells
      /\ \A v \in NcContents : v # Torn /\ v # NoData
  BY <1>0, StoringKnown DEF StoringPoints
<1>2. CASE /\ ncFiles' = [ncFiles EXCEPT ![path] = ncBackups[p][path]]
           /\ ncBackups' = [ncBackups EXCEPT ![p][path] = NoData]
  <2>0. ncBackups[p][path] \in NcContents
    BY <1>0, <1>1 DEF ReplacementSound
  <2>1. /\ ncFiles' \in [NcPaths -> NcContents \cup {NoData, Torn}]
        /\ ncFiles'[path] \in NcContents
        /\ \A x \in NcPaths \ {path} : ncFiles'[x] = ncFiles[x]
    BY <1>1, <1>2, <2>0 DEF NcTypeOK
  <2>2. CellSet(ncBackups, ncBackups', p, path, NoData)
    BY <1>2 DEF CellSet
  <2>3. /\ ncBackups' \in Cells /\ ncBackups'[p][path] = NoData
        /\ \A q \in NcProcs \ {p} : ncBackups'[q] = ncBackups[q]
        /\ \A x \in NcPaths \ {path} : ncBackups'[p][x] = ncBackups[p][x]
    <3>1. NoData \in Values /\ ncBackups \in Cells /\ path \in NcPaths
      BY <1>1, SomeValues
    <3> HIDE DEF path
    <3> QED BY <2>2, <3>1, OneCell
  <2>4. RunIs(p, "ended", path, data)
    BY <1>0, <1>1, EndedRun
  <2>5. FileTypes
    BY <1>0, <1>1, <2>1, <2>3 DEF FileTypes
  <2>6. NcTypeOK'
    BY <2>4, <2>5, FilesTyped
  <2>7. NothingTorn'
    <3>1. ASSUME NEW x \in NcPaths PROVE ncFiles'[x] # Torn
      BY <1>1, <2>1 DEF NothingTorn
    <3>2. ASSUME NEW x \in NcPaths, NEW q \in NcProcs PROVE ncBackups'[q][x] # Torn
      <4>1. CASE q = p /\ x = path
        BY <2>3, <4>1, StorageAssumption
      <4>2. CASE ~(q = p /\ x = path)
        BY <1>1, <2>3, <4>2 DEF NothingTorn
      <4> QED BY <4>1, <4>2
    <3> QED BY <3>1, <3>2 DEF NothingTorn
  <2>8. ReplacementSound(p)'
    BY <2>4 DEF ReplacementSound, RunIs, StoringPoints
  <2>9. ASSUME NEW x \in NcPaths PROVE PathSound(p, x)
    <3>1. CASE x = path
      BY <1>0, <2>1, <3>1, PathFilled DEF StoringPoints
    <3>2. CASE x # path
      BY <2>1, <2>3, <2>4, <2>6, <3>2, OtherPaths DEF RunIs
    <3> QED BY <3>1, <3>2
  <2> QED BY <1>0, <2>3, <2>4, <2>5, <2>6, <2>7, <2>8, <2>9, ReplaceStep DEF RunIs
<1>3. CASE UNCHANGED <<ncFiles, ncBackups>>
  BY <1>0, <1>3, EndsQuietly DEF NoFileChange
<1> QED BY <1>2, <1>3 DEF restore_backup

(* The backup is removed: another copy is kept, and for a profile that     *)
(* copy is what lets the import go on to its marker.                       *)
LEMMA DiscardStep ==
  ASSUME NcInv, NEW p \in NcProcs, discard_backup(p)
  PROVE  StorageKept
<1> DEFINE path == ncRun[p].path
           data == ncRun[p].data
<1>0. ncRun[p].pc = "discard" /\ UNCHANGED <<ncFiles, ncTemps, ncCsv, ncHistory>>
  BY DEF discard_backup
<1>1. /\ NcTypeOK /\ NothingTorn /\ ReplacementSound(p) /\ path \in NcPaths /\ data \in NcContents
      /\ ncTemps \in Cells /\ ncBackups \in Cells
      /\ \A v \in NcContents : v # Torn /\ v # NoData
  BY <1>0, StoringKnown DEF StoringPoints
<1>2. CASE ncBackups' = [ncBackups EXCEPT ![p][path] = NoData] /\ Replaced(p)
  <2>0. CopyKept(path)
    <3>1. WholeCopy(path)
      BY <1>0, <1>1, WholeIs DEF ReplacementSound
    <3> QED BY <1>1, <3>1 DEF NcInv
  <2>1. CellSet(ncBackups, ncBackups', p, path, NoData)
    BY <1>2 DEF CellSet
  <2>2. /\ ncBackups' \in Cells /\ ncBackups'[p][path] = NoData
        /\ \A q \in NcProcs \ {p} : ncBackups'[q] = ncBackups[q]
        /\ \A x \in NcPaths \ {path} : ncBackups'[p][x] = ncBackups[p][x]
    BY <1>1, <2>1, SomeValues, OneCell
  <2>3. PICK pc \in {"create", "ended"}, target \in NcPaths :
             RunIs(p, pc, target, data) /\ (pc = "create" => path = "profile")
    BY <1>1, <1>2, ReplacedRun DEF NcPaths
  <2>4. FileTypes
    BY <1>0, <1>1, <2>2 DEF FileTypes, NcTypeOK
  <2>5. NcTypeOK'
    BY <2>3, <2>4, FilesTyped
  <2>6. NothingTorn'
    <3>1. ASSUME NEW x \in NcPaths PROVE ncFiles'[x] # Torn
      BY <1>0, <1>1 DEF NothingTorn
    <3>2. ASSUME NEW x \in NcPaths, NEW q \in NcProcs PROVE ncBackups'[q][x] # Torn
      <4>1. CASE q = p /\ x = path
        BY <2>2, <4>1, StorageAssumption
      <4>2. CASE ~(q = p /\ x = path)
        BY <1>1, <2>2, <4>2 DEF NothingTorn
      <4> QED BY <4>1, <4>2
    <3> QED BY <3>1, <3>2 DEF NothingTorn
  <2>7. ASSUME NEW x \in NcPaths, x = path PROVE CopyKept(x)'
    <3>1. CASE ncFiles[x] \in NcContents
      BY <1>0, <3>1 DEF CopyKept
    <3>2. CASE ncFiles[x] \notin NcContents
      <4>1. PICK q \in NcProcs : /\ ncBackups[q][x] \in NcContents
                                 /\ ~(ncRun[q].pc = "discard" /\ ncRun[q].path = x)
        BY <2>0, <2>7, <3>2 DEF CopyKept
      <4>2. q # p
        BY <1>0, <2>7, <4>1
      <4>3. ncBackups'[q] = ncBackups[q] /\ ncRun'[q] = ncRun[q]
        BY <2>2, <2>3, <4>2 DEF RunIs
      <4> QED BY <4>1, <4>3 DEF CopyKept
    <3> QED BY <3>1, <3>2
  <2>8. pc = "create" => WholeCopy("profile")'
    BY <1>1, <2>3, <2>5, <2>7, WholeIsNext DEF WholeExactly, CopyKept, NcPaths
  <2>9. ReplacementSound(p)'
    BY <1>1, <2>3, <2>8 DEF ReplacementSound, RunIs, StoringPoints
  <2>10. ASSUME NEW x \in NcPaths PROVE PathSound(p, x)
    <3>1. CASE x = path
      BY <1>0, <2>7, <3>1 DEF PathSound, StoringPoints
    <3>2. CASE x # path
      BY <1>0, <2>2, <2>3, <2>5, <3>2, OtherPaths DEF RunIs
    <3> QED BY <3>1, <3>2
  <2> QED BY <1>0, <2>2, <2>3, <2>4, <2>5, <2>6, <2>9, <2>10, ReplaceStep DEF RunIs
<1>3. CASE Ended(p, "failed") /\ UNCHANGED ncBackups
  BY <1>0, <1>3, EndsQuietly DEF NoFileChange
<1> QED BY <1>2, <1>3 DEF discard_backup

-----------------------------------------------------------------------------
(* The theorems. *)

LEMMA NcInitially == NcInit => NcInv
<1> SUFFICES ASSUME NEW v \in Intervals \cup {NoData}, NcStart(v) PROVE NcInv
  BY DEF NcInit
<1>0. v \in NcContents \cup {NoData} /\ \A p \in NcProcs : ncRun[p].pc = "new"
  BY DEF NcStart, NcContents
<1>1. NcTypeOK
  <2>1. [pc |-> "new", path |-> "settings", data |-> NoData, result |-> "none"] \in NcRuns
    BY DEF NcRuns, NcPoints, NcPaths
  <2>2. ncRun \in [NcProcs -> NcRuns]
    BY <2>1 DEF NcStart
  <2> QED BY <1>0, <2>2 DEF NcTypeOK, NcStart
<1>2. NothingTorn
  BY <1>0, StorageAssumption DEF NothingTorn, NcStart, NcContents
<1>3. \A p \in NcProcs : ReplacementSound(p)
  BY <1>0 DEF ReplacementSound, StoringPoints
<1>4. ASSUME NEW path \in NcPaths, WholeCopy(path) PROVE CopyKept(path)
  BY <1>0, <1>1, <1>4, WholeIs DEF CopyKept
<1>5. ~WholeCopy("marker")
  BY DEF WholeCopy, NcStart, NcPaths
<1> QED BY <1>1, <1>2, <1>3, <1>4, <1>5 DEF NcInv

LEMMA NcStep == NcInv /\ [NcNext]_ncVars => StorageKept
<1> SUFFICES ASSUME NcInv, [NcNext]_ncVars PROVE StorageKept
  OBVIOUS
<1>1. CASE NcNext
  <2>1. PICK p \in NcProcs :
          \/ \E v \in Intervals : settings_set(p, v)
          \/ \E ini \in Inis : import_ini_once(p, ini)
          \/ without_storage(p)
          \/ settings_show(p) \/ load_settings(p) \/ list_profiles(p)
          \/ create_temporary(p) \/ fill_temporary(p) \/ path_exists(p)
          \/ place_first(p) \/ move_aside(p) \/ swap_in(p)
          \/ restore_backup(p) \/ discard_backup(p)
          \/ record_measurements(p) \/ open_csv(p) \/ append_csv(p) \/ append_history(p)
          \/ NcCrash(p)
    BY <1>1 DEF NcNext
  <2> QED BY <2>1, CommandSteps, RecordSteps, TemporarySteps, PlaceStep, MoveAsideStep,
             SwapStep, RestoreStep, DiscardStep
<1>2. CASE UNCHANGED ncVars
  <2>1. NcInv'
    BY <1>2 DEF NcInv, NcTypeOK, NothingTorn, ReplacementSound, CopyKept, WholeCopy, ncVars
  <2>2. \A path \in NcPaths : WholeCopy(path)' = WholeCopy(path)
    BY <1>2 DEF WholeCopy, ncVars
  <2> QED BY <2>1, <2>2 DEF StorageKept
<1> QED BY <1>1, <1>2

(* In every reachable state of northclock's storage, whatever processes    *)
(* run beside each other and wherever they stop: nothing torn is under a   *)
(* name or in a backup, a process has in its temporary and backup what     *)
(* Storage::replace_file put there, every stored file has a copy that no   *)
(* process is about to discard, and a marker has its profile.              *)
THEOREM StorageInvariant == NcSpec => []NcInv
<1>1. NcInv /\ [NcNext]_ncVars => NcInv'
  BY NcStep DEF StorageKept
<1> QED BY NcInitially, <1>1, PTL DEF NcSpec

(* Storage::replace_file never loses a stored file, never shows a torn     *)
(* one, and import_ini_once never completes without its profile.           *)
THEOREM FilesSurvive == NcSpec => StoredFilesSurvive
<1> DEFINE Body == /\ \A path \in NcPaths : WholeCopy(path) => WholeCopy(path)'
                   /\ \A path \in NcPaths : ncFiles'[path] # Torn
                   /\ WholeCopy("marker")' => WholeCopy("profile")'
<1>1. NcInv /\ [NcNext]_ncVars => [Body]_ncVars
  BY NcStep DEF StorageKept, NcInv, NothingTorn
<1> QED BY StorageInvariant, <1>1, PTL DEF NcSpec, StoredFilesSurvive

-----------------------------------------------------------------------------
(* Foreign writes, reports and receipts are never taken back. *)
OnlyMore ==
  /\ \A t \in Settable : nwForeign[t] \subseteq nwForeign'[t]
  /\ nwReported \subseteq nwReported' /\ nwReceipts \subseteq nwReceipts'

(* A value that is accounted for stays so. *)
LEMMA AccountedStays ==
  ASSUME OnlyMore, NEW t \in Settable, NEW v, ValueAccounted(t, v)
  PROVE  ValueAccounted(t, v)'
BY DEF OnlyMore, ValueAccounted

(* The plan of a command that is running. *)
LEMMA Running ==
  ASSUME nwRun \in NwRuns, nwRun.pc # "idle"
  PROVE  /\ nwRun # NwIdle /\ nwRun \in [pc : NwPoints, plan : PlanRecords]
         /\ nwRun.plan \in PlanRecords /\ nwRun.plan.target \in Settable
         /\ nwRun.plan.captured \in Levels /\ nwRun.plan.requested \in Levels
BY DEF NwRuns, NwIdle, PlanRecords

LEMMA Settled == NwIdle \in NwRuns /\ NwIdle.pc = "idle"
BY DEF NwRuns, NwIdle

-----------------------------------------------------------------------------
(* Previews: only the plans change. *)
LEMMA PlanStep ==
  ASSUME NwInv, NEW t \in Settable, NEW v \in Levels, Plan(t, v)
  PROVE  NwInv'
<1> USE DEF Plan
<1>1. [target |-> t, captured |-> nwState[t], requested |-> v] \in PlanRecords
  BY DEF NwInv, NwTypeOK, PlanRecords
<1>2. NwTypeOK'
  BY <1>1 DEF NwInv, NwTypeOK
<1>3. CapturesAccounted' /\ StateAccounted' /\ AffinityTaken'
  BY DEF NwInv, CapturesAccounted, StateAccounted, AffinityTaken, ValueAccounted
<1> QED BY <1>2, <1>3 DEF NwInv

(* A command starts, with a plan whose captured value is the present one,  *)
(* or with a receipt.                                                      *)
LEMMA StartsCommand ==
  ASSUME NwInv, NEW record \in PlanRecords, NEW pc \in {"write", "revert"},
         nwRun = NwIdle, Proceed(pc, record),
         ValueAccounted(record.target, record.captured)
  PROVE  NwInv'
<1> USE DEF Proceed
<1>1. /\ nwRun' \in NwRuns /\ nwRun'.pc = pc /\ nwRun'.plan = record
      /\ nwRun' # NwIdle
  BY DEF NwRuns, NwPoints, NwIdle
<1>2. NwTypeOK'
  BY <1>1 DEF NwInv, NwTypeOK
<1>3. CapturesAccounted'
  BY <1>1 DEF NwInv, CapturesAccounted, ValueAccounted
<1>4. StateAccounted'
  BY DEF NwInv, StateAccounted, ValueAccounted
<1>5. AffinityTaken'
  BY <1>1 DEF AffinityTaken
<1> QED BY <1>2, <1>3, <1>4, <1>5 DEF NwInv

LEMMA ApplyStarts ==
  ASSUME NwInv, NEW plan \in nwPlans, NEW gates,
         operation_apply(plan, gates) \/ process_affinity_apply(plan, gates)
  PROVE  NwInv'
<1>1. plan \in PlanRecords /\ plan.target \in Settable
  BY DEF NwInv, NwTypeOK, PlanRecords
<1>2. nwRun = NwIdle /\ Proceed("write", plan) /\ nwState[plan.target] = plan.captured
  BY DEF operation_apply, process_affinity_apply, Commanded
<1>3. ValueAccounted(plan.target, plan.captured)
  BY <1>1, <1>2 DEF NwInv, StateAccounted
<1> QED BY <1>1, <1>2, <1>3, StartsCommand

LEMMA RollbackStarts ==
  ASSUME NwInv, NEW receipt \in nwReceipts, NEW gates,
         operation_rollback(receipt, gates) \/ process_affinity_rollback(receipt, gates)
  PROVE  NwInv'
<1>1. receipt \in PlanRecords
  BY DEF NwInv, NwTypeOK
<1>2. nwRun = NwIdle /\ Proceed("revert", receipt)
  BY DEF operation_rollback, process_affinity_rollback, Commanded
<1>3. ValueAccounted(receipt.target, receipt.captured)
  BY DEF NwInv, CapturesAccounted
<1> QED BY <1>1, <1>2, <1>3, StartsCommand

-----------------------------------------------------------------------------
(* A command writes. *)

(* The target of the command that runs is written: the others keep what    *)
(* they had, and no account changes.                                       *)
LEMMA WritesTarget ==
  ASSUME NwInv, nwRun.pc # "idle", NEW v \in Levels, NEW pc \in {"readback", "undone", "reverted"},
         nwState' = [nwState EXCEPT ![nwRun.plan.target] = v],
         nwRun' = [nwRun EXCEPT !.pc = pc],
         UNCHANGED <<nwForeign, nwWrites, nwPlans, nwReceipts, nwReported>>,
         pc = "readback" /\ nwRun.plan.target = "affinity" => v = nwRun.plan.requested
  PROVE  NwInv'
<1>1. nwRun # NwIdle /\ nwRun.plan \in PlanRecords /\ nwRun.plan.target \in Settable
  BY Running DEF NwInv, NwTypeOK
<1>2. nwRun' \in NwRuns /\ nwRun' # NwIdle /\ nwRun'.pc = pc /\ nwRun'.plan = nwRun.plan
  <2>1. nwRun \in [pc : NwPoints, plan : PlanRecords] /\ pc \in NwPoints /\ pc # "idle"
    BY Running DEF NwInv, NwTypeOK, NwPoints
  <2>2. /\ nwRun' \in [pc : NwPoints, plan : PlanRecords]
        /\ nwRun'.pc = pc /\ nwRun'.plan = nwRun.plan
    BY <2>1
  <2> QED BY <2>1, <2>2, Settled DEF NwRuns
<1>3. NwTypeOK'
  BY <1>1, <1>2 DEF NwInv, NwTypeOK
<1>4. /\ nwState'[nwRun.plan.target] = v
      /\ \A t \in Settable \ {nwRun.plan.target} : nwState'[t] = nwState[t]
  BY <1>1 DEF NwInv, NwTypeOK
<1>5. CapturesAccounted'
  BY <1>1, <1>2 DEF NwInv, CapturesAccounted, ValueAccounted
<1>6. StateAccounted'
  BY <1>1, <1>2, <1>4 DEF NwInv, StateAccounted, ValueAccounted
<1>7. AffinityTaken'
  BY <1>2, <1>4 DEF AffinityTaken
<1> QED BY <1>3, <1>5, <1>6, <1>7 DEF NwInv

(* The command ends, with the state it leaves accounted for. *)
LEMMA EndsCommand ==
  ASSUME NwInv, NwTypeOK', OnlyMore, nwRun.pc # "idle", nwRun' = NwIdle, nwState' = nwState,
         NEW target, target = nwRun.plan.target, ValueAccounted(target, nwState[target])',
         \A receipt \in nwReceipts' : receipt \in nwReceipts \/ receipt = nwRun.plan
  PROVE  NwInv'
<1>1. nwRun # NwIdle /\ nwRun.plan \in PlanRecords /\ nwRun.plan.target \in Settable
  BY Running DEF NwInv, NwTypeOK
<1>2. CapturesAccounted'
  <2>1. \A receipt \in nwReceipts' :
          receipt.target \in Settable /\ ValueAccounted(receipt.target, receipt.captured)
    BY <1>1 DEF NwInv, NwTypeOK, CapturesAccounted, PlanRecords
  <2>2. \A receipt \in nwReceipts' : ValueAccounted(receipt.target, receipt.captured)'
    BY <2>1, AccountedStays
  <2> QED BY <2>2 DEF CapturesAccounted
<1>3. StateAccounted'
  <2>1. ASSUME NEW t \in Settable PROVE ValueAccounted(t, nwState[t])'
    <3>1. CASE t = target
      BY <3>1
    <3>2. CASE t # target
      BY <1>1, <3>2, AccountedStays DEF NwInv, StateAccounted
    <3> QED BY <3>1, <3>2
  <2> QED BY <2>1 DEF StateAccounted
<1>4. AffinityTaken'
  BY DEF AffinityTaken
<1> QED BY <1>2, <1>3, <1>4 DEF NwInv

LEMMA WriteFails ==
  ASSUME NwInv, backend_write_fails
  PROVE  NwInv'
<1> USE DEF backend_write_fails
<1>1. nwRun.pc # "idle" /\ nwRun.plan.target \in Settable /\ nwRun # NwIdle
  BY Running DEF NwInv, NwTypeOK
<1>2. NwTypeOK' /\ OnlyMore
  BY Settled DEF NwInv, NwTypeOK, OnlyMore
<1>3. PICK target \in Settable : target = nwRun.plan.target
  BY <1>1
<1>4. ValueAccounted(target, nwState[target])'
  BY <1>1, <1>2, <1>3, AccountedStays DEF NwInv, StateAccounted
<1> QED BY <1>1, <1>2, <1>3, <1>4, EndsCommand

LEMMA RefusedStep ==
  ASSUME NwInv, receipt_refused
  PROVE  NwInv'
<1> USE DEF receipt_refused, Present
<1>1. nwRun.pc # "idle" /\ nwRun.plan.target \in Settable
  BY Running DEF NwInv, NwTypeOK
<1>2. PICK target \in Settable : target = nwRun.plan.target
  BY <1>1
<1>3. NwTypeOK' /\ OnlyMore
  BY <1>1, Settled DEF NwInv, NwTypeOK, OnlyMore
<1>4. ValueAccounted(target, nwState[target])'
  BY <1>2 DEF ValueAccounted
<1> QED BY <1>1, <1>2, <1>3, <1>4, EndsCommand

(* A read-back that matches leaves its receipt. *)
LEMMA ReceiptStep ==
  ASSUME NwInv, nwRun.pc = "readback", Matches, nwReceipts' = nwReceipts \cup {nwRun.plan},
         nwRun' = NwIdle, UNCHANGED <<nwState, nwForeign, nwWrites, nwPlans, nwReported>>
  PROVE  NwInv'
<1>1. nwRun.pc # "idle" /\ nwRun.plan \in PlanRecords /\ nwRun.plan.target \in Settable
  BY Running DEF NwInv, NwTypeOK
<1>2. PICK target \in Settable : target = nwRun.plan.target
  BY <1>1
<1>3. NwTypeOK' /\ OnlyMore
  BY <1>1, Settled DEF NwInv, NwTypeOK, OnlyMore
<1>4. ValueAccounted(target, nwState[target])'
  BY <1>2 DEF ValueAccounted, Matches
<1> QED BY <1>1, <1>2, <1>3, <1>4, EndsCommand

(* A tuning read-back that does not match goes on to the undo. *)
LEMMA ReadbackStep ==
  ASSUME NwInv, operation_readback
  PROVE  NwInv'
<1> USE DEF operation_readback
<1>1. CASE Matches
  BY <1>1, ReceiptStep
<1>2. CASE ~Matches
  <2>1. nwRun # NwIdle /\ nwRun \in [pc : NwPoints, plan : PlanRecords]
    BY Running DEF NwInv, NwTypeOK
  <2>2. /\ nwRun' \in [pc : NwPoints, plan : PlanRecords]
        /\ nwRun'.pc = "undo" /\ nwRun'.plan = nwRun.plan
    BY <1>2, <2>1 DEF NwPoints
  <2>3. nwRun' # NwIdle /\ nwRun' \in NwRuns
    BY <2>2, Settled DEF NwRuns
  <2>4. UNCHANGED <<nwState, nwForeign, nwWrites, nwPlans, nwReceipts, nwReported>>
    BY <1>2
  <2>5. NwTypeOK'
    BY <2>3, <2>4 DEF NwInv, NwTypeOK
  <2>6. CapturesAccounted'
    BY <2>1, <2>2, <2>4 DEF NwInv, CapturesAccounted, ValueAccounted
  <2>7. StateAccounted'
    BY <2>1, <2>2, <2>3, <2>4 DEF NwInv, StateAccounted, ValueAccounted
  <2>8. AffinityTaken'
    BY <2>2 DEF AffinityTaken
  <2> QED BY <2>5, <2>6, <2>7, <2>8 DEF NwInv
<1> QED BY <1>1, <1>2

(* An affinity read-back that does not match met another program's write,  *)
(* so there is nothing of northclock's to undo.                            *)
LEMMA AffinityStep ==
  ASSUME NwInv, affinity_readback
  PROVE  NwInv'
<1> USE DEF affinity_readback
<1>1. CASE Matches
  BY <1>1, ReceiptStep
<1>2. CASE ~Matches
  <2>1. nwRun.pc # "idle" /\ nwRun # NwIdle /\ nwRun.plan.target \in Settable
    BY Running DEF NwInv, NwTypeOK
  <2>2. PICK target \in Settable : target = nwRun.plan.target
    BY <2>1
  <2>3. NwTypeOK' /\ OnlyMore
    BY <1>2, Settled DEF NwInv, NwTypeOK, OnlyMore
  <2>4. ValueAccounted(target, nwState[target])'
    BY <1>2, <2>1, <2>2 DEF NwInv, AffinityTaken, Matches, ValueAccounted
  <2> QED BY <1>2, <2>1, <2>2, <2>3, <2>4, EndsCommand
<1> QED BY <1>1, <1>2

LEMMA WriteStep ==
  ASSUME NwInv, NEW v \in Levels, backend_write(v)
  PROVE  NwInv'
BY WritesTarget DEF backend_write

(* The undo writes the captured value back, or reports what is there. *)
LEMMA UndoStep ==
  ASSUME NwInv, nw_undo
  PROVE  NwInv'
<1> USE DEF nw_undo, rollback_after_failed_readback
<1>1. nwRun.pc # "idle" /\ nwRun.plan.target \in Settable /\ nwRun.plan.captured \in Levels
  BY Running DEF NwInv, NwTypeOK
<1>2. CASE /\ nwState' = [nwState EXCEPT ![nwRun.plan.target] = nwRun.plan.captured]
           /\ nwRun' = [nwRun EXCEPT !.pc = "undone"]
           /\ UNCHANGED nwReported
  BY <1>1, <1>2, WritesTarget
<1>3. CASE /\ nwReported' = nwReported \cup {Present(nwRun.plan.target)}
           /\ nwRun' = NwIdle
           /\ UNCHANGED nwState
  <2>1. PICK target \in Settable : target = nwRun.plan.target
    BY <1>1
  <2>2. NwTypeOK' /\ OnlyMore
    BY <1>1, <1>3, Settled DEF NwInv, NwTypeOK, OnlyMore, Present
  <2>3. ValueAccounted(target, nwState[target])'
    BY <1>3, <2>1 DEF ValueAccounted, Present
  <2> QED BY <1>1, <1>3, <2>1, <2>2, <2>3, EndsCommand
<1> QED BY <1>2, <1>3

(* A rollback, of a failed apply or of a receipt, ends with its read-back: *)
(* the captured value, which was accounted for, or a report.               *)
LEMMA ValidatedStep ==
  ASSUME NwInv, undo_validated \/ rollback_validated
  PROVE  NwInv'
<1> USE DEF undo_validated, rollback_validated
<1>1. nwRun.pc # "idle" /\ nwRun # NwIdle /\ nwRun.plan.target \in Settable
  BY Running DEF NwInv, NwTypeOK
<1>2. PICK target \in Settable : target = nwRun.plan.target
  BY <1>1
<1>3. NwTypeOK' /\ OnlyMore
  <2>1. nwReported \subseteq nwReported' /\ nwReported' \subseteq Settable \X Levels
    BY <1>1 DEF NwInv, NwTypeOK, Present
  <2>2. UNCHANGED <<nwState, nwForeign, nwWrites, nwPlans, nwReceipts>> /\ nwRun' = NwIdle
    OBVIOUS
  <2> QED BY <2>1, <2>2, Settled DEF NwInv, NwTypeOK, OnlyMore
<1>4. ValueAccounted(target, nwState[target])'
  <2>1. CASE nwState[target] = nwRun.plan.captured
    <3>1. ValueAccounted(target, nwState[target])
      BY <1>1, <1>2, <2>1 DEF NwInv, CapturesAccounted
    <3>2. nwState' = nwState
      OBVIOUS
    <3> QED BY <1>3, <3>1, <3>2, AccountedStays
  <2>2. CASE nwState[target] # nwRun.plan.captured
    BY <1>2, <2>2 DEF ValueAccounted, Present
  <2> QED BY <2>1, <2>2
<1> QED BY <1>1, <1>2, <1>3, <1>4, EndsCommand

LEMMA RevertStep ==
  ASSUME NwInv, backend_rollback
  PROVE  NwInv'
<1> USE DEF backend_rollback
<1>1. /\ nwRun.pc # "idle" /\ nwRun # NwIdle
      /\ nwRun.plan.target \in Settable /\ nwRun.plan.captured \in Levels
  BY Running DEF NwInv, NwTypeOK
<1>2. CASE /\ nwState' = [nwState EXCEPT ![nwRun.plan.target] = nwRun.plan.captured]
           /\ nwRun' = [nwRun EXCEPT !.pc = "reverted"]
  BY <1>1, <1>2, WritesTarget
<1>3. CASE nwRun' = NwIdle /\ UNCHANGED nwState
  <2>1. PICK target \in Settable : target = nwRun.plan.target
    BY <1>1
  <2>2. NwTypeOK' /\ OnlyMore
    BY <1>3, Settled DEF NwInv, NwTypeOK, OnlyMore
  <2>3. ValueAccounted(target, nwState[target])'
    BY <1>1, <1>3, <2>1, <2>2, AccountedStays DEF NwInv, StateAccounted
  <2> QED BY <1>1, <1>3, <2>1, <2>2, <2>3, EndsCommand
<1> QED BY <1>2, <1>3

(* Another program writes, at any moment of a command. *)
LEMMA ForeignStep ==
  ASSUME NwInv, NEW t \in Settable, NEW v \in Levels, ForeignWrite(t, v)
  PROVE  NwInv'
<1> USE DEF ForeignWrite
<1>1. nwWrites' \in 0 .. MaxForeignWrites
  BY WritesAssumption DEF NwInv, NwTypeOK
<1>2. /\ nwForeign' \in [Settable -> SUBSET Levels] /\ nwState' \in [Settable -> Levels]
      /\ nwForeign'[t] = nwForeign[t] \cup {v} /\ nwState'[t] = v
      /\ \A s \in Settable \ {t} : nwForeign'[s] = nwForeign[s] /\ nwState'[s] = nwState[s]
  BY DEF NwInv, NwTypeOK
<1>3. NwTypeOK' /\ OnlyMore
  BY <1>1, <1>2 DEF NwInv, NwTypeOK, OnlyMore
<1>4. CapturesAccounted'
  <2>1. \A receipt \in nwReceipts : ValueAccounted(receipt.target, receipt.captured)'
    BY <1>3, AccountedStays DEF NwInv, NwTypeOK, CapturesAccounted, PlanRecords
  <2>2. ASSUME nwRun # NwIdle
        PROVE  ValueAccounted(nwRun.plan.target, nwRun.plan.captured)'
    <3>1. PICK target \in Settable : target = nwRun.plan.target
      BY <2>2 DEF NwInv, NwTypeOK, NwRuns, PlanRecords
    <3>2. ValueAccounted(target, nwRun.plan.captured)
      BY <2>2, <3>1 DEF NwInv, CapturesAccounted
    <3> QED BY <1>3, <3>1, <3>2, AccountedStays
  <2> QED BY <2>1, <2>2 DEF CapturesAccounted
<1>5. StateAccounted'
  <2>1. ASSUME NEW s \in Settable,
               nwRun # NwIdle => nwRun.pc \in {"write", "revert"} \/ nwRun.plan.target # s
        PROVE  ValueAccounted(s, nwState[s])'
    <3>1. CASE s = t
      BY <1>2, <3>1 DEF ValueAccounted
    <3>2. CASE s # t
      BY <1>2, <1>3, <2>1, <3>2, AccountedStays DEF NwInv, StateAccounted
    <3> QED BY <3>1, <3>2
  <2> QED BY <2>1 DEF StateAccounted
<1>6. AffinityTaken'
  BY <1>2 DEF NwInv, NwTypeOK, NwRuns, PlanRecords, AffinityTaken
<1> QED BY <1>3, <1>4, <1>5, <1>6 DEF NwInv

-----------------------------------------------------------------------------
(* The invariant. *)

LEMMA NwInitially == NwInit => NwInv
<1> SUFFICES ASSUME NwInit PROVE NwInv
  OBVIOUS
<1>1. PICK state \in [Settable -> SystemMasks] : NwStart(state)
  BY DEF NwInit
<1> USE DEF NwStart
<1>2. 0 \in 0 .. MaxForeignWrites
  BY WritesAssumption
<1>3. nwState \in [Settable -> Levels] /\ nwForeign \in [Settable -> SUBSET Levels]
  BY <1>1, WritesAssumption
<1>4. NwTypeOK
  BY <1>1, <1>2, <1>3, Settled DEF NwTypeOK
<1>5. CapturesAccounted /\ StateAccounted /\ AffinityTaken
  BY <1>1 DEF CapturesAccounted, StateAccounted, AffinityTaken, ValueAccounted
<1> QED BY <1>4, <1>5 DEF NwInv

LEMMA NwInductive == NwInv /\ [NwNext]_nwVars => NwInv'
<1> SUFFICES ASSUME NwInv, [NwNext]_nwVars PROVE NwInv'
  OBVIOUS
<1>1. ASSUME NEW t \in Settable, NEW v \in Levels, operation_preview(t, v) \/ ForeignWrite(t, v)
      PROVE  NwInv'
  BY <1>1, PlanStep, ForeignStep DEF operation_preview
<1>2. ASSUME NEW v \in Levels, process_affinity_preview(v) \/ backend_write(v)
      PROVE  NwInv'
  BY <1>2, PlanStep, WriteStep DEF process_affinity_preview
<1>3. ASSUME NEW plan \in nwPlans, NEW gates \in SUBSET Gates,
             operation_apply(plan, gates) \/ process_affinity_apply(plan, gates)
      PROVE  NwInv'
  BY <1>3, ApplyStarts
<1>4. ASSUME NEW receipt \in nwReceipts, NEW gates \in SUBSET Gates,
             operation_rollback(receipt, gates) \/ process_affinity_rollback(receipt, gates)
      PROVE  NwInv'
  BY <1>4, RollbackStarts
<1>5. CASE \/ backend_write_fails \/ operation_readback \/ affinity_readback
           \/ receipt_refused \/ nw_undo \/ undo_validated
           \/ backend_rollback \/ rollback_validated
  BY <1>5, WriteFails, ReadbackStep, AffinityStep, RefusedStep, UndoStep, ValidatedStep,
     RevertStep
<1>6. CASE UNCHANGED nwVars
  BY <1>6
     DEF nwVars, NwInv, NwTypeOK, CapturesAccounted, StateAccounted, AffinityTaken,
         ValueAccounted
<1> QED BY <1>1, <1>2, <1>3, <1>4, <1>5, <1>6 DEF NwNext

(* Every value a northclock command found, wrote or returned to is one     *)
(* that somebody answers for (operation_workflow.rs, affinity commands).   *)
THEOREM WritesInvariant == NwSpec => []NwInv
BY NwInitially, NwInductive, PTL DEF NwSpec

(* Between commands, what northclock manages holds a value another program *)
(* chose, one a receipt describes, or one a command reported               *)
(* (operation_workflow::apply, process_affinity_apply).                    *)
THEOREM AlwaysAccounted == NwSpec => []WritesAccounted
<1>1. NwInv => WritesAccounted
  BY DEF NwInv, StateAccounted, WritesAccounted, ValueAccounted, Present
<1> QED BY <1>1, WritesInvariant, PTL

=============================================================================
