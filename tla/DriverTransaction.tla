-------------------------- MODULE DriverTransaction --------------------------
(***************************************************************************)
(* The NVIDIA driver preparation of P1:18/P1:19                            *)
(* (crates/frametime-windows/src/driver/, capability/native.rs).           *)
(*                                                                         *)
(* `frametime driver prepare-nvidia` takes the suite lock only to write    *)
(* its record: two of them may inspect and download side by side, with one *)
(* temporary file between them.  The download is renamed while its own     *)
(* handle, which shares nothing, is open, and Windows refuses that: no     *)
(* artifact appears, no record is written, and P2:2 and P3:1, which begin  *)
(* with that record, refuse.  What follows the rename is left out.         *)
(***************************************************************************)
EXTENDS Naturals

CONSTANTS
  Preparers,        \* processes that run prepare-nvidia
  Gpus, NvidiaGpus, \* exact GPU identities, those of NVIDIA
  Packages,         \* published oem<N>.inf names
  Payloads,         \* bytes of an acceptable length an HTTPS answer may carry
  NoPayload, NoFile, Killed,
  MaxHostChanges    \* bound: changes of the GPU and its packages

\* A temporary file: its bytes, and the process that created it or Killed once that one is.
Downloads == [by : Preparers \cup {Killed}, bytes : Payloads \cup {NoPayload}]

ASSUME DriverAssumption ==
  /\ NvidiaGpus \subseteq Gpus /\ NoFile \notin Downloads
  /\ NoPayload \notin Payloads /\ Killed \notin Preparers /\ MaxHostChanges \in Nat

VARIABLES
  dtHost,     \* GPUs that are present, packages of each
  dtTemp,     \* <artifact>.download.tmp
  dtArtifact, \* the bytes of the artifact file
  dtPc,       \* where each preparer is
  dtChanges

dtVars == <<dtHost, dtTemp, dtArtifact, dtPc, dtChanges>>

DtHosts == [gpus : SUBSET Gpus, packages : [Gpus -> SUBSET Packages]]

DtTypeOK ==
  /\ dtHost \in DtHosts
  /\ dtTemp = NoFile \/ dtTemp \in Downloads
  /\ dtArtifact \in Payloads \cup {NoPayload}
  /\ dtPc \in [Preparers -> {"idle", "delete", "create", "write", "publish", "close", "cleanup"}]
  /\ dtChanges \in 0..MaxHostChanges

DtStart(host) ==
  /\ dtHost = host /\ dtTemp = NoFile /\ dtArtifact = NoPayload
  /\ dtPc = [p \in Preparers |-> "idle"] /\ dtChanges = 0

DtInit == \E host \in DtHosts : DtStart(host)

DtGo(p, from, to) == dtPc[p] = from /\ dtPc' = [dtPc EXCEPT ![p] = to]

-----------------------------------------------------------------------------
\* The handle of create_new, with dwShareMode 0, from its creation to CloseHandle.
HandleOpen(p) == dtPc[p] \in {"write", "publish", "close"}
TempOpen == \E p \in Preparers : HandleOpen(p)

\* inspect_exact_gpu: exactly one display identity.
inspect_exact_gpu(gpu) == dtHost.gpus = {gpu}

\* packages_for: what SetupAPI names as installed for exactly this GPU.
packages_for(gpu) == dtHost.packages[gpu]

\* prepare_nvidia_driver, up to acquire_verified: one NVIDIA GPU with packages.
prepare_nvidia_driver(p) ==
  /\ \E gpu \in NvidiaGpus : inspect_exact_gpu(gpu) /\ packages_for(gpu) # {}
  /\ DtGo(p, "idle", "delete") /\ UNCHANGED <<dtHost, dtTemp, dtArtifact, dtChanges>>

\* delete_if_present: DeleteFileW fails on a file that is open, and the error is
\* dropped.
DeleteTempAltered == dtTemp' = NoFile
DeleteTemp == IF TempOpen THEN UNCHANGED dtTemp ELSE dtTemp' = NoFile

delete_if_present(p) ==
  /\ DtGo(p, "delete", "create") \/ DtGo(p, "cleanup", "idle")
  /\ DeleteTemp /\ UNCHANGED <<dtHost, dtArtifact, dtChanges>>

\* create_new, CREATE_NEW: an error of it leaves acquire at once.
create_new(p) ==
  /\ IF dtTemp # NoFile
     THEN DtGo(p, "create", "idle") /\ UNCHANGED dtTemp
     ELSE DtGo(p, "create", "write") /\ dtTemp' = [by |-> p, bytes |-> NoPayload]
  /\ UNCHANGED <<dtHost, dtArtifact, dtChanges>>

\* download_to_handle, flush, verify_download: what the server sent, or an error.
download_to_handle(p) ==
  /\ \/ DtGo(p, "write", "publish") /\ \E bytes \in Payloads : dtTemp' = [dtTemp EXCEPT !.bytes = bytes]
     \/ DtGo(p, "write", "close") /\ UNCHANGED dtTemp
  /\ UNCHANGED <<dtHost, dtArtifact, dtChanges>>

\* MoveFileExW refuses a file that anyone has open without sharing, this process
\* included.
rename_atomically(p) ==
  /\ DtGo(p, "publish", "close")
  /\ IF TempOpen THEN UNCHANGED <<dtTemp, dtArtifact>>
                 ELSE dtArtifact' = dtTemp.bytes /\ dtTemp' = NoFile
  /\ UNCHANGED <<dtHost, dtChanges>>

\* The error path of acquire: CloseHandle, then delete_if_present.
CloseHandle(p) ==
  /\ DtGo(p, "close", "cleanup") /\ UNCHANGED <<dtHost, dtTemp, dtArtifact, dtChanges>>

\* The process is killed: its handle is closed, its temporary file stays.
DtKill(p) ==
  /\ dtPc[p] # "idle" /\ dtPc' = [dtPc EXCEPT ![p] = "idle"]
  /\ dtTemp' = IF dtTemp # NoFile /\ dtTemp.by = p THEN [dtTemp EXCEPT !.by = Killed] ELSE dtTemp
  /\ UNCHANGED <<dtHost, dtArtifact, dtChanges>>

\* A driver update, or another card.
DtHostChanges ==
  /\ dtChanges < MaxHostChanges /\ dtChanges' = dtChanges + 1
  /\ \/ \E gpus \in SUBSET Gpus : gpus # dtHost.gpus /\ dtHost' = [dtHost EXCEPT !.gpus = gpus]
     \/ \E gpu \in Gpus, names \in SUBSET Packages :
          names # dtHost.packages[gpu] /\ dtHost' = [dtHost EXCEPT !.packages[gpu] = names]
  /\ UNCHANGED <<dtTemp, dtArtifact, dtPc>>

\* The steps of NvidiaArtifactAcquirer::acquire_verified, as far as they come.
DtWork(p) ==
  \/ delete_if_present(p) \/ create_new(p) \/ download_to_handle(p)
  \/ rename_atomically(p) \/ CloseHandle(p)

DtNext ==
  \/ \E p \in Preparers : prepare_nvidia_driver(p) \/ DtWork(p) \/ DtKill(p)
  \/ DtHostChanges

DtSpec == DtInit /\ [][DtNext]_dtVars

\* A preparation that is under way is scheduled.
FairDtSpec == DtSpec /\ \A p \in Preparers : WF_dtVars(DtWork(p))

-----------------------------------------------------------------------------
\* However preparations overlap and are killed, a download that is open is the one its
\* preparation created, neither deleted nor replaced by another one, and what a
\* preparation that was not killed created it is still going to delete: only a kill
\* leaves a partial download behind (capability/native.rs acquire).
DownloadOwned ==
  /\ \A p \in Preparers : HandleOpen(p) => dtTemp # NoFile /\ dtTemp.by = p
  /\ dtTemp # NoFile /\ dtTemp.by # Killed => HandleOpen(dtTemp.by) \/ dtPc[dtTemp.by] = "cleanup"

\* native.rs says that a retry "atomically publishes the verified bytes": while some
\* preparation gets a complete download again and again, there is an artifact in the end.
RetryPublishes ==
  \A p \in Preparers : []<>(dtPc[p] = "publish") => <>(dtArtifact # NoPayload)

-----------------------------------------------------------------------------
\* The inductive invariant behind DownloadOwned.  That nothing is ever published is part
\* of it: a preparation that renames has its own handle open.
DtInv ==
  /\ DtTypeOK /\ DownloadOwned
  /\ dtArtifact = NoPayload
=============================================================================
