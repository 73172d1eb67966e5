----------------------------- MODULE DesktopShell -----------------------------
(***************************************************************************)
(* The desktop front end: window callbacks on the UI thread, one worker    *)
(* thread for the operation that is running, modal questions during which  *)
(* the poll timer keeps firing, and the elevated second instance that the  *)
(* unelevated one starts and must outlive, because it holds the            *)
(* authenticated package.                                                  *)
(***************************************************************************)
EXTENDS Naturals

CONSTANTS
  MaxOperations      \* operations the user starts

ASSUME ShellAssumption == MaxOperations \in Nat

VARIABLES
  dsWindow,          \* "none", "shown", "hidden" or "closed"
  dsArea,            \* AppState::area
  dsTable,           \* the area whose rows the table shows
  dsModal,           \* the question on the screen and what it leads to
  dsWorker,          \* the worker thread, and whether its operation asked for
                     \* administrator rights
  dsNative,          \* native_result, native_operation and critical_operation
  dsWatchdog,        \* elevation_watchdog
  dsPackage,         \* the package was authenticated
  dsStarted          \* operations started so far

dsVars == <<dsWindow, dsArea, dsTable, dsModal, dsWorker, dsNative, dsWatchdog,
            dsPackage, dsStarted>>

\* The instance the user opened and the one it starts with administrator rights.
Instances == {"user", "admin"}

is_elevated(i) == i = "admin"

Areas == {"Overview", "Assess", "SetupVerify", "Benchmark", "Network", "Video", "Cs2Cfg",
          "Recovery"}

\* An operation: how it is started, and whether it asks for administrator rights, asks
\* the user first, and sits on the area's primary button.
Operation(kind, elevation, asks, primary) ==
  [kind |-> kind, elevation |-> elevation, asks |-> asks, primary |-> primary]

\* The hardware doctor, and the other read-only diagnostics.
AssessOperations ==
  {Operation("diagnostic", FALSE, FALSE, primary) : primary \in BOOLEAN}

\* Configure the profile, start or resume Phase 1, verify.
SetupOperations ==
  {Operation("recovery", TRUE, FALSE, primary) : primary \in BOOLEAN}
    \cup {Operation("recovery", FALSE, FALSE, FALSE)}

\* Persist a VProf capture, capture frames.
BenchmarkOperations ==
  {Operation(kind, FALSE, FALSE, FALSE) : kind \in {"recovery", "diagnostic"}}

NetworkOperations == {Operation("network", TRUE, TRUE, TRUE)}

\* Install the selected CS2 configuration.
Cs2CfgOperations == {Operation("recovery", TRUE, FALSE, TRUE)}

\* Export the backup through a file dialog; restore all, restore selected or clear.
RecoveryOperations ==
  {Operation("recovery", FALSE, TRUE, TRUE), Operation("recovery", TRUE, TRUE, FALSE)}

Operations(area) ==
  CASE area = "Assess"      -> AssessOperations
    [] area = "SetupVerify" -> SetupOperations
    [] area = "Benchmark"   -> BenchmarkOperations
    [] area = "Network"     -> NetworkOperations
    [] area = "Cs2Cfg"      -> Cs2CfgOperations
    [] area = "Recovery"    -> RecoveryOperations
    [] OTHER                -> {}

NoModal == [kind |-> "none"]

Modals == {NoModal} \cup [kind : {"close", "network", "recovery"}, elevation : BOOLEAN]

NoNative == [operation |-> "none", critical |-> FALSE]

Idle == [phase |-> "idle", elevation |-> FALSE]

DsTypeOK ==
  /\ dsWindow \in [Instances -> {"none", "shown", "hidden", "closed"}]
  /\ dsArea \in [Instances -> Areas] /\ dsTable \in [Instances -> Areas]
  /\ dsModal \in [Instances -> Modals]
  /\ dsWorker \in [Instances -> [phase : {"idle", "running", "sent", "lost"},
                                 elevation : BOOLEAN]]
  /\ dsNative \in [Instances -> [operation : {"none", "diagnostic", "network", "recovery"},
                                 critical : BOOLEAN]]
  /\ dsWatchdog \in BOOLEAN /\ dsPackage \in BOOLEAN
  /\ dsStarted \in 0..MaxOperations

DsStart(authenticated) ==
  /\ dsWindow = [i \in Instances |-> IF i = "user" THEN "shown" ELSE "none"]
  /\ dsArea = [i \in Instances |-> "Overview"]
  /\ dsTable = [i \in Instances |-> "Overview"]
  /\ dsModal = [i \in Instances |-> NoModal]
  /\ dsWorker = [i \in Instances |-> Idle]
  /\ dsNative = [i \in Instances |-> NoNative]
  /\ dsWatchdog = FALSE
  /\ dsPackage = authenticated
  /\ dsStarted = 0

DsInit == \E authenticated \in BOOLEAN : DsStart(authenticated)

\* A modal question disables its owner window.
Responsive(i) == dsWindow[i] = "shown" /\ dsModal[i] = NoModal

is_running(i) == dsNative[i] # NoNative \/ (i = "user" /\ dsWatchdog)

\* The worker thread, and what the UI thread records of it.
Spawn(i, kind, critical) ==
  /\ dsStarted < MaxOperations
  /\ dsStarted' = dsStarted + 1
  /\ dsWorker' = [dsWorker EXCEPT ![i] = [phase |-> "running", elevation |-> critical]]
  /\ dsNative' = [dsNative EXCEPT ![i] = [operation |-> kind, critical |-> critical]]
  /\ UNCHANGED <<dsWindow, dsArea, dsTable, dsWatchdog, dsPackage>>

\* ShellExecuteExW(runas) starts the elevated instance; this one hides and watches it.
relaunch_elevated ==
  /\ dsStarted < MaxOperations
  /\ dsStarted' = dsStarted + 1
  /\ dsWindow' = [dsWindow EXCEPT !["user"] = "hidden", !["admin"] = "shown"]
  /\ dsArea' = [dsArea EXCEPT !["admin"] = "Overview"]
  /\ dsTable' = [dsTable EXCEPT !["admin"] = "Overview"]
  /\ dsWorker' = [dsWorker EXCEPT !["admin"] = Idle]
  /\ dsNative' = [dsNative EXCEPT !["admin"] = NoNative]
  /\ dsWatchdog' = TRUE
  /\ UNCHANGED dsPackage

start_diagnostic(i) ==
  /\ ~is_running(i)
  /\ Spawn(i, "diagnostic", FALSE)

start_native_recoveryAltered(i, elevation) ==
  /\ dsPackage
  /\ IF elevation /\ ~is_elevated(i)
       THEN relaunch_elevated
       ELSE /\ ~is_running(i)
            /\ dsStarted < MaxOperations
            /\ dsStarted' = dsStarted + 1
            /\ dsWorker' = [dsWorker EXCEPT ![i] = [phase |-> "running", elevation |-> elevation]]
            /\ dsNative' = [dsNative EXCEPT ![i] =
                              [operation |-> "recovery", critical |-> FALSE]]
            /\ UNCHANGED <<dsWindow, dsArea, dsTable, dsWatchdog, dsPackage>>

\* The elevated instance is asked for before anyone looks whether something runs.
start_native_recovery(i, elevation) ==
  /\ dsPackage
  /\ IF elevation /\ ~is_elevated(i)
       THEN relaunch_elevated
       ELSE ~is_running(i) /\ Spawn(i, "recovery", elevation)

\* After the user agreed; nothing is asked again.
start_network_apply(i) ==
  IF is_elevated(i) THEN Spawn(i, "network", TRUE) ELSE relaunch_elevated

Ask(i, kind, elevation) ==
  /\ dsModal' = [dsModal EXCEPT ![i] = [kind |-> kind, elevation |-> elevation]]
  /\ UNCHANGED <<dsWindow, dsArea, dsTable, dsWorker, dsNative, dsWatchdog, dsPackage,
                 dsStarted>>

(***************************************************************************)
(* Window callbacks.                                                       *)
(***************************************************************************)
update_area(i, area) ==
  /\ Responsive(i)
  /\ dsArea[i] # area
  /\ dsArea' = [dsArea EXCEPT ![i] = area]
  /\ dsTable' = [dsTable EXCEPT ![i] = area]
  /\ UNCHANGED <<dsWindow, dsModal, dsWorker, dsNative, dsWatchdog, dsPackage, dsStarted>>

\* The five buttons of an area.  Only the primary one looks first whether something
\* runs; the network operation looks before it asks, a recovery after.
launch_or_act(i) ==
  /\ Responsive(i)
  /\ \E op \in Operations(dsArea[i]) :
       /\ op.primary => ~is_running(i)
       /\ \/ /\ op.kind = "diagnostic"
             /\ start_diagnostic(i)
             /\ UNCHANGED dsModal
          \/ /\ op.kind = "network"
             /\ dsPackage /\ ~is_running(i)
             /\ Ask(i, "network", TRUE)
          \/ /\ op.kind = "recovery" /\ ~op.asks
             /\ start_native_recovery(i, op.elevation)
             /\ UNCHANGED dsModal
          \/ /\ op.kind = "recovery" /\ op.asks
             /\ Ask(i, "recovery", op.elevation)

\* The refresh button and the catalogue filter render the table of the area shown.
refresh_area_data(i) ==
  /\ Responsive(i)
  /\ dsTable[i] # dsArea[i]
  /\ dsTable' = [dsTable EXCEPT ![i] = dsArea[i]]
  /\ UNCHANGED <<dsWindow, dsArea, dsModal, dsWorker, dsNative, dsWatchdog, dsPackage,
                 dsStarted>>

Destroy(i) ==
  /\ dsWindow' = [dsWindow EXCEPT ![i] = "closed"]
  /\ dsModal' = [dsModal EXCEPT ![i] = NoModal]
  /\ UNCHANGED <<dsArea, dsTable, dsWorker, dsNative, dsWatchdog, dsPackage, dsStarted>>

\* Closing is refused while the elevated instance or a critical operation runs, and
\* needs a confirmation while anything else runs.
handle_close(i) ==
  /\ Responsive(i)
  /\ ~(i = "user" /\ dsWatchdog)
  /\ ~dsNative[i].critical
  /\ IF is_running(i) THEN Ask(i, "close", FALSE) ELSE Destroy(i)

answer_no(i) ==
  /\ dsModal[i] # NoModal
  /\ dsModal' = [dsModal EXCEPT ![i] = NoModal]
  /\ UNCHANGED <<dsWindow, dsArea, dsTable, dsWorker, dsNative, dsWatchdog, dsPackage,
                 dsStarted>>

\* What was read before the question is not read again after it.  A start that is then
\* refused only reports it, as answer_no does.
answer_yes(i) ==
  \/ dsModal[i].kind = "close" /\ Destroy(i)
  \/ /\ dsModal[i].kind = "network"
     /\ start_network_apply(i)
     /\ dsModal' = [dsModal EXCEPT ![i] = NoModal]
  \/ /\ dsModal[i].kind = "recovery"
     /\ start_native_recovery(i, dsModal[i].elevation)
     /\ dsModal' = [dsModal EXCEPT ![i] = NoModal]

\* The worker sends its result, or ends without one.
worker_ends(i) ==
  /\ dsWindow[i] # "closed"
  /\ dsWorker[i].phase = "running"
  /\ \E phase \in {"sent", "lost"} :
       dsWorker' = [dsWorker EXCEPT ![i].phase = phase]
  /\ UNCHANGED <<dsWindow, dsArea, dsTable, dsModal, dsNative, dsWatchdog, dsPackage,
                 dsStarted>>

\* The area whose rows the result of an operation is rendered into the table with,
\* whatever area the user has moved to.
PresentedArea(operation, phase) ==
  CASE operation = "network" -> {"Network"}
    [] operation = "recovery" /\ phase = "sent" -> {"Recovery"}
    [] operation = "diagnostic" /\ phase = "sent" -> {"Assess", "Benchmark"}
    [] OTHER -> {}

\* poll_terminal, first the watchdog: the window returns when the elevated instance
\* has ended.
poll_elevation_watchdog ==
  /\ dsWatchdog /\ dsWindow["user"] # "closed"
  /\ dsWindow["admin"] = "closed"
  /\ dsWatchdog' = FALSE
  /\ dsWindow' = [dsWindow EXCEPT !["user"] = "shown"]
  /\ UNCHANGED <<dsArea, dsTable, dsModal, dsWorker, dsNative, dsPackage, dsStarted>>

\* A disconnected channel counts as a failed transaction.
take_native_result(i) ==
  LET areas == PresentedArea(dsNative[i].operation, dsWorker[i].phase) IN
  /\ dsWindow[i] \in {"shown", "hidden"}
  /\ dsWorker[i].phase \in {"sent", "lost"}
  /\ dsNative' = [dsNative EXCEPT ![i] = NoNative]
  /\ dsWorker' = [dsWorker EXCEPT ![i] = Idle]
  /\ \E area \in areas \cup {dsTable[i]} :
       /\ areas # {} => area \in areas
       /\ dsTable' = [dsTable EXCEPT ![i] = area]
  /\ UNCHANGED <<dsWindow, dsArea, dsModal, dsWatchdog, dsPackage, dsStarted>>

DsNext ==
  \/ poll_elevation_watchdog
  \/ \E i \in Instances :
       \/ \E area \in Areas : update_area(i, area)
       \/ launch_or_act(i) \/ refresh_area_data(i)
       \/ handle_close(i) \/ answer_no(i) \/ answer_yes(i)
       \/ worker_ends(i) \/ take_native_result(i)

DsSpec == DsInit /\ [][DsNext]_dsVars

\* However questions, timers, results and the second instance interleave, no window
\* closes under a worker whose operation asked for administrator rights, and the
\* unelevated instance, which holds the authenticated package, is never gone while the
\* elevated one runs (handle_close, start_native_recovery, ElevationWatchdog).  The
\* exporting of the backup and the persisting of a VProf capture write and ask for no
\* such rights: a confirmation is enough to close under them, although the status text
\* of start_native_recovery says that closing is blocked until a safe result.
DesktopClosesSafely ==
  /\ \A i \in Instances :
       dsWindow[i] = "closed" => ~(dsWorker[i].phase = "running" /\ dsWorker[i].elevation)
  /\ dsWindow["admin"] \in {"shown", "hidden"} => dsWindow["user"] # "closed"

-----------------------------------------------------------------------------
\* The inductive invariant behind it.

\* What the UI thread believes of a worker that has not been taken is true of it.
WorkerKnown(i) == dsWorker[i].phase # "idle" => dsNative[i].critical = dsWorker[i].elevation

\* A question is asked by a window that is shown, and nothing critical has started
\* since a window asked whether it may close.
QuestionHolds(i) ==
  /\ dsModal[i] # NoModal => dsWindow[i] = "shown"
  /\ dsModal[i].kind = "close" => ~dsNative[i].critical

\* The elevated instance runs only while the one that started it is hidden and watches.
AdminWatched ==
  /\ dsWatchdog => dsWindow["user"] = "hidden"
  /\ dsWindow["admin"] \in {"shown", "hidden"} => dsWatchdog

DsInv ==
  /\ DsTypeOK /\ AdminWatched /\ DesktopClosesSafely
  /\ \A i \in Instances : WorkerKnown(i) /\ QuestionHolds(i)

=============================================================================
