---------------------------- MODULE EngineResume ----------------------------
(***************************************************************************)
(* StepEngine with a user who only ever starts or resumes the run: what    *)
(* resuming must reach.  Nothing is restored or reset.  Any number of      *)
(* times, but not for ever, a run is cut short, a write of it has no       *)
(* effect, power is lost or the hardware changes.                          *)
(***************************************************************************)
EXTENDS StepEngine

(* What may happen: anything but a restore or a reset. *)
ResumeNext ==
  \/ \E p \in Procs : Start(p) \/ Run(p) \/ Exit(p)
  \/ PowerLoss \/ HardwareChange

(* A call of the run that succeeds: Windows has done what it was asked. *)
RunStep(p) ==
  /\ Run(p)
  /\ pc[p] = "apply" /\ pc'[p] = "verify" => Satisfied(row[p])

(* A row that is not declined: nothing obliges the user to decline one. *)
Proceed(p) == RunStep(p) /\ progress'.skipped = progress.skipped

(* The run ends because no row is left, or because a call refuses. *)
Ended(p) == ~ENABLED Proceed(p) /\ Exit(p)

(* A step that nothing has cut short, and on the same hardware. *)
Undisturbed == \E p \in Procs : Start(p) \/ RunStep(p) \/ Ended(p)

(* However often a run was disturbed, in the end it is not any more. *)
ResumeSpec ==
  /\ Init /\ [][ResumeNext]_vars
  /\ \A p \in Procs : WF_vars(Start(p)) /\ WF_vars(Proceed(p)) /\ WF_vars(Ended(p))
  /\ <>[][Undisturbed]_vars

-----------------------------------------------------------------------------
(* What resuming cannot get over: a lock that a power loss left, and a row *)
(* whose preparation has no receipt of the present hardware and is not     *)
(* observed again because it is recorded.                                  *)
NeedsNewReceipt(s) ==
  /\ Requires[s] # None /\ Requires[s] \in Recorded(progress)
  /\ evidence[Requires[s]] # hardware

(* A row whose settings are in place is not captured, and one of these is  *)
(* verified only against what a capture retained.                          *)
NeedsItsCapture(s) == s \in Exact \cap CaptureBound /\ Satisfied(s)

(* The row every further run begins with. *)
FirstLeft(s) ==
  /\ s \notin Recorded(progress)
  /\ \A r \in Steps : Order[r] < Order[s] => r \in Recorded(progress)

AllRecorded == Steps \subseteq Recorded(progress)

HeldUp == lock = StaleLock \/ \E s \in Steps : FirstLeft(s) /\ NeedsNewReceipt(s)

(* The CLI's optimize, "Start or resume native Phase 1", and the GUI's     *)
(* "Start / resume Phase 1": wherever the runs before were cut short,      *)
(* resuming records every row, unless the lock or a receipt holds it up.   *)
EveryRowRecorded == <>[](AllRecorded \/ HeldUp)

(* What the code does reach: the rows before a row that is inspected       *)
(* exactly and verified by its captured binding (P1:30, P1:34), and all    *)
(* rows if an interruption never leaves that row applied but unrecorded    *)
(* (engine.rs run_lossless_operation, live.rs verify).                     *)
ResumableRowsRecorded ==
  <>[](AllRecorded \/ HeldUp \/ \E s \in Steps : FirstLeft(s) /\ NeedsItsCapture(s))
=============================================================================
