--------------------------- MODULE NorthclockTrace ---------------------------
(***************************************************************************)
(* northclock's ETW frame capture: the capturing thread starts a trace     *)
(* session, opens a consumer and joins the thread that runs ProcessTrace.  *)
(* ProcessTrace returns only when the session has stopped or its handle    *)
(* was closed, so a stop that fails must be followed by a close, while the *)
(* consumer thread closes the same handle when it drops its consumer.      *)
(***************************************************************************)
EXTENDS Integers, Sequences, FiniteSets

CONSTANTS
  TracedProcesses,      \* processes that present frames
  MaxSamples,           \* MAX_SAMPLES
  MaxInterval,          \* MAX_FRAME_INTERVAL_100NS
  MaxTime               \* the last event time

VARIABLES
  ntMain,               \* the capturing thread
  ntWorker,             \* the consumer thread
  ntSession,            \* the kernel's trace session
  ntActive,             \* TraceSession::active
  ntClosed,             \* close_once
  ntHandle,             \* the consumer handle: how often it was opened and closed
  ntLast, ntSamples,    \* CaptureState
  ntNow                 \* the time of the last event delivered

ntVars == <<ntMain, ntWorker, ntSession, ntActive, ntClosed, ntHandle, ntLast,
            ntSamples, ntNow>>

NoSession == "absent"

NtTypeOK ==
  /\ ntMain \in {"start", "enable", "open", "spawn", "sleep", "cancel", "join", "drop",
                 "returned"}
  /\ ntWorker \in {"none", "processing", "dropping", "gone"}
  /\ ntSession \in {"absent", "running", "stopped"}
  /\ ntActive \in BOOLEAN /\ ntClosed \in BOOLEAN
  /\ ntHandle \in [opened : 0..1, closes : 0..2]
  /\ ntLast \in [TracedProcesses -> 0..MaxTime]
  /\ ntSamples \in Seq(TracedProcesses \X (1..MaxInterval))
  /\ ntNow \in 0..MaxTime

NtInit ==
  /\ ntMain = "start"
  /\ ntWorker = "none"
  /\ ntSession = NoSession
  /\ ntActive = FALSE /\ ntClosed = FALSE
  /\ ntHandle = [opened |-> 0, closes |-> 0]
  /\ ntLast = [p \in TracedProcesses |-> 0]
  /\ ntSamples = <<>>
  /\ ntNow = 0

Captured == <<ntLast, ntSamples, ntNow>>

\* CloseTrace is called by whoever is first to set the flag.
close_trace_once ==
  /\ ntClosed' = TRUE
  /\ ntHandle' = IF ntClosed THEN ntHandle ELSE [ntHandle EXCEPT !.closes = @ + 1]

\* A session that cannot be started has nothing to drop.
TraceSession_start ==
  /\ ntMain = "start"
  /\ \/ /\ ntSession' = "running" /\ ntActive' = TRUE
        /\ ntMain' = "enable"
     \/ ntMain' = "returned" /\ UNCHANGED <<ntSession, ntActive>>
  /\ UNCHANGED <<ntWorker, ntClosed, ntHandle, Captured>>

enable_provider ==
  /\ ntMain = "enable"
  /\ ntMain' \in {"open", "drop"}
  /\ UNCHANGED <<ntWorker, ntSession, ntActive, ntClosed, ntHandle, Captured>>

TraceConsumer_open ==
  /\ ntMain = "open"
  /\ \/ ntHandle' = [ntHandle EXCEPT !.opened = 1] /\ ntMain' = "spawn"
     \/ ntMain' = "drop" /\ UNCHANGED ntHandle
  /\ UNCHANGED <<ntWorker, ntSession, ntActive, ntClosed, Captured>>

\* A thread that cannot be spawned drops its closure, and the consumer with it.
spawn_consumer ==
  /\ ntMain = "spawn"
  /\ \/ /\ ntWorker' = "processing" /\ ntMain' = "sleep"
        /\ UNCHANGED <<ntClosed, ntHandle>>
     \/ /\ close_trace_once
        /\ ntMain' = "drop"
        /\ UNCHANGED ntWorker
  /\ UNCHANGED <<ntSession, ntActive, Captured>>

\* ControlTraceW(stop): a session another controller has stopped cannot be stopped
\* again, and a running one may refuse.
StopTrace(stopped) ==
  /\ stopped => ntSession = "running"
  /\ ntSession' = IF stopped THEN "stopped" ELSE ntSession
  /\ ntActive' = ~stopped

stop_sessionAltered ==
  \E stopped \in BOOLEAN :
    /\ StopTrace(stopped)
    /\ ntMain' = "join"

\* After a failed stop the consumer is cancelled before it is joined.
stop_session ==
  \E stopped \in BOOLEAN :
    /\ StopTrace(stopped)
    /\ ntMain' = IF stopped THEN "join" ELSE "cancel"

capture_ends ==
  /\ ntMain = "sleep"
  /\ stop_session
  /\ UNCHANGED <<ntWorker, ntClosed, ntHandle, Captured>>

cancel_consumer ==
  /\ ntMain = "cancel"
  /\ close_trace_once
  /\ ntMain' = "join"
  /\ UNCHANGED <<ntWorker, ntSession, ntActive, Captured>>

join_consumer ==
  /\ ntMain = "join"
  /\ ntWorker = "gone"
  /\ ntMain' = "drop"
  /\ UNCHANGED <<ntWorker, ntSession, ntActive, ntClosed, ntHandle, Captured>>

\* TraceSession::drop tries a second stop while the session is still active and
\* ignores its outcome.
TraceSession_drop ==
  /\ ntMain = "drop"
  /\ IF ntActive
       THEN \E stopped \in BOOLEAN : StopTrace(stopped)
       ELSE UNCHANGED <<ntSession, ntActive>>
  /\ ntMain' = "returned"
  /\ UNCHANGED <<ntWorker, ntClosed, ntHandle, Captured>>

\* external: ProcessTrace delivers events in time order until it returns.
Returning == ntSession = "stopped" \/ ntHandle.closes > 0

\* A record that is not a present-start event of the provider changes nothing.
on_event_record(process, time) ==
  LET interval == time - ntLast[process] IN
  /\ ntWorker = "processing" /\ ntHandle.closes = 0
  /\ time \in (ntNow + 1)..MaxTime
  /\ ntNow' = time
  /\ IF Len(ntSamples) >= MaxSamples
       THEN UNCHANGED <<ntLast, ntSamples>>
       ELSE /\ ntLast' = [ntLast EXCEPT ![process] = time]
            /\ ntSamples' = IF ntLast[process] # 0 /\ interval \in 1..MaxInterval
                              THEN Append(ntSamples, <<process, interval>>)
                              ELSE ntSamples
  /\ UNCHANGED <<ntMain, ntWorker, ntSession, ntActive, ntClosed, ntHandle>>

\* external: the call returns once it is told to, or with an error at any time.
ProcessTrace_returns ==
  /\ ntWorker = "processing"
  /\ Returning
  /\ ntWorker' = "dropping"
  /\ UNCHANGED <<ntMain, ntSession, ntActive, ntClosed, ntHandle, Captured>>

ProcessTrace_fails ==
  /\ ntWorker = "processing"
  /\ ~Returning
  /\ ntWorker' = "dropping"
  /\ UNCHANGED <<ntMain, ntSession, ntActive, ntClosed, ntHandle, Captured>>

TraceConsumer_drop ==
  /\ ntWorker = "dropping"
  /\ close_trace_once
  /\ ntWorker' = "gone"
  /\ UNCHANGED <<ntMain, ntSession, ntActive, Captured>>

\* external: another controller stops the session by its name.
ForeignStop ==
  /\ ntSession = "running"
  /\ ntSession' = "stopped"
  /\ UNCHANGED <<ntMain, ntWorker, ntActive, ntClosed, ntHandle, Captured>>

NtMainStep ==
  \/ TraceSession_start \/ enable_provider \/ TraceConsumer_open \/ spawn_consumer
  \/ capture_ends \/ cancel_consumer \/ join_consumer \/ TraceSession_drop

NtWorkerStep == ProcessTrace_returns \/ TraceConsumer_drop

NtNext ==
  \/ NtMainStep \/ NtWorkerStep
  \/ ProcessTrace_fails \/ ForeignStop
  \/ \E p \in TracedProcesses, t \in 1..MaxTime : on_event_record(p, t)

\* The two threads are scheduled, and ProcessTrace returns once it has been told to.
NtFairness == WF_ntVars(NtMainStep) /\ WF_ntVars(NtWorkerStep)

\* Every capture that has begun returns, whatever fails and whoever else stops the session; by then
\* the consumer thread is gone, and the handle it opened was closed exactly once, by
\* one of the two threads that share it (capture_frames, close_trace_once).
CaptureReturns ==
  ntMain # "start" ~>
    /\ ntMain = "returned"
    /\ ntWorker \in {"none", "gone"}
    /\ ntHandle.closes = ntHandle.opened
=============================================================================
