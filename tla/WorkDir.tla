------------------------------ MODULE WorkDir ------------------------------
(***************************************************************************)
(* What every command shares of the protected work directory: the rows of  *)
(* progress.json (frametime-domain/src/state.rs, state/progress.rs) and    *)
(* the suite lock file backup.lock (frametime-windows/src/system/          *)
(* platform.rs).                                                           *)
(***************************************************************************)

CONSTANT None   \* an absent value

EmptyProgress == [completed |-> {}, skipped |-> {}, advisory |-> {}]

Progresses(steps) ==
  [completed : SUBSET steps, skipped : SUBSET steps, advisory : SUBSET steps]

Complete(pr, s) ==
  [completed |-> pr.completed \cup {s},
   skipped |-> pr.skipped \ {s},
   advisory |-> pr.advisory \ {s}]

Skip(pr, s) ==
  [completed |-> pr.completed \ {s},
   skipped |-> pr.skipped \cup {s},
   advisory |-> pr.advisory \ {s}]

AcknowledgeAdvisory(pr, s) ==
  [completed |-> pr.completed \ {s},
   skipped |-> pr.skipped \ {s},
   advisory |-> pr.advisory \cup {s}]

(* The rows an engine run passes over. *)
Recorded(pr) == pr.completed \cup pr.skipped \cup pr.advisory

(* WorkLock::acquire creates backup.lock and fails if it exists; closing   *)
(* the handle deletes it, which a process's end does and a power loss does *)
(* not.  Nothing else ever removes the file.                               *)
StaleLock == "stale lock"

LockAfterReboot(lock, working) ==
  CASE lock = StaleLock -> {StaleLock}
    [] lock # StaleLock /\ working -> {None, StaleLock}
    [] lock # StaleLock /\ ~working -> {None}
=============================================================================
