---------------------------- MODULE ServerProcess ----------------------------
(***************************************************************************)
(* One server process (src/index.ts): its requests, the lines they leave   *)
(* in the transport log, and its end.  A signal closes the listener; when  *)
(* the last connection is gone the log and the watchdog are closed and the *)
(* process exits with 0; after five seconds it exits with 1 in any case.   *)
(* The log is that of LogWriter.                                           *)
(***************************************************************************)
EXTENDS LogWriter

CONSTANTS Requests,   \* the requests that may arrive
          MaxSignals  \* bound: SIGINT and SIGTERM, together

VARIABLES request,     \* where each request is
          handling,    \* handleStateless is under way for these: activeRequests
          ends,        \* the lines that tell the end of a request
          signals,     \* signals received
          listening,   \* httpServer.close has not been called
          drained,     \* the last connection is gone: its callbacks are called
          stopping,    \* the callbacks that wait for log and watchdog
          watchdog,    \* "runs", "stopping" or "gone"
          exit         \* "no", "clean" (0) or "forced" (1)

serverVars == <<request, handling, ends, signals, listening, drained,
                stopping, watchdog, exit>>
vars == <<logVars, serverVars>>

Begins(at) ==
    /\ LogInit
    /\ request = [r \in Requests |-> "none"]
    /\ handling = {}
    /\ ends = [r \in Requests |-> 0]
    /\ signals = 0 /\ listening = TRUE /\ drained = FALSE
    /\ stopping = 0 /\ watchdog = "runs" /\ exit = at
Init == Begins("no")

Alive == exit = "no"
Logs == \E s \in Sizes : WriteLine(s)
NextEnd == IF closed THEN 0 ELSE Len(accepted) + 1

(***************************************************************************)
(* Requests                                                                *)
(***************************************************************************)
\* The middleware logs request_start; handleMcp counts the request and hands it
\* to a server and a transport of its own.
Arrive(r) ==
    /\ Alive /\ listening /\ request[r] = "none"
    /\ Logs
    /\ request' = [request EXCEPT ![r] = "active"]
    /\ handling' = handling \cup {r}
    /\ UNCHANGED <<ends, signals, listening, drained, stopping, watchdog, exit>>

\* res "finish": the answer is out; a handler that fails answers with 500.
Respond(r) ==
    /\ Alive /\ request[r] = "active" /\ r \in handling
    /\ request' = [request EXCEPT ![r] = "answered"]
    /\ Logs /\ ends' = [ends EXCEPT ![r] = NextEnd]
    /\ UNCHANGED <<handling, signals, listening, drained, stopping, watchdog, exit>>

\* res "close" with or without an answer; without one it is logged.
Disconnect(r) ==
    /\ Alive /\ request[r] \in {"active", "answered"}
    /\ request' = [request EXCEPT ![r] = "gone"]
    /\ IF request[r] = "active"
       THEN Logs /\ ends' = [ends EXCEPT ![r] = NextEnd]
       ELSE UNCHANGED <<logVars, ends>>
    /\ UNCHANGED <<handling, signals, listening, drained, stopping, watchdog, exit>>

\* The promise of handleStateless settles.
Settle(r) ==
    /\ Alive /\ r \in handling /\ request[r] # "active"
    /\ handling' = handling \ {r}
    /\ UNCHANGED <<logVars, request, ends, signals, listening, drained,
                   stopping, watchdog, exit>>

(***************************************************************************)
(* The end                                                                 *)
(***************************************************************************)
Signal ==
    /\ Alive /\ signals < MaxSignals
    /\ Logs
    /\ signals' = signals + 1 /\ listening' = FALSE
    /\ UNCHANGED <<request, handling, ends, drained, stopping, watchdog, exit>>

Connected == {r \in Requests : request[r] \in {"active", "answered"}}

\* The server's close event, once no connection is left: every callback closes
\* log and watchdog.
MayDrain == Connected = {}
Drained ==
    /\ Alive /\ ~listening /\ ~drained /\ MayDrain
    /\ drained' = TRUE /\ stopping' = signals
    /\ watchdog' = "stopping"
    /\ CloseLog
    /\ UNCHANGED <<request, handling, ends, signals, listening, exit>>

\* The watchdog's thread ends, or is terminated after half a second.
WatchdogGone ==
    /\ Alive /\ watchdog = "stopping"
    /\ watchdog' = "gone"
    /\ UNCHANGED <<logVars, request, handling, ends, signals, listening,
                   drained, stopping, exit>>

LogClosed == closer = "done"

\* A callback's Promise.all is settled: the first one's by the end of log and
\* watchdog; another finds both closed already, and waits for the drain only.
MayExit ==
    \/ LogClosed /\ watchdog = "gone"
    \/ stopping > 1 /\ closer \in {"closing", "done"}
CleanExit ==
    /\ Alive /\ drained /\ MayExit
    /\ exit' = "clean"
    /\ UNCHANGED <<logVars, request, handling, ends, signals, listening,
                   drained, stopping, watchdog>>

MayForce == signals > 0
\* The five seconds after a signal are over.
ForcedExit ==
    /\ Alive /\ MayForce
    /\ exit' = "forced"
    /\ UNCHANGED <<logVars, request, handling, ends, signals, listening,
                   drained, stopping, watchdog>>

\* The log's own steps end with the process.
LogStep == Alive /\ LogNext /\ UNCHANGED serverVars

Next ==
    \/ \E r \in Requests : Arrive(r) \/ Respond(r) \/ Disconnect(r) \/ Settle(r)
    \/ Signal \/ Drained \/ WatchdogGone \/ CleanExit \/ ForcedExit
    \/ LogStep

\* The event loop runs what is due: timers, callbacks, the log's file operations.
\* Nothing makes a client disconnect or a handler settle.
LiveLog == Alive /\ (FlushTimer \/ CloseHandle \/ DrainSteps) /\ UNCHANGED serverVars
Fairness ==
    /\ WF_vars(LiveLog) /\ WF_vars(Drained) /\ WF_vars(WatchdogGone)
    /\ WF_vars(CleanExit) /\ WF_vars(ForcedExit)
Spec == Init /\ [][Next]_vars /\ Fairness

(***************************************************************************)
(* Properties                                                              *)
(***************************************************************************)
Ended(r) == request[r] \in {"answered", "gone"}

\* A process that exits with 0 has answered, or was left by, everybody who was
\* connected, and unless a file operation failed the log has the line that tells
\* how each request ended, however the last lines, the close of the log and the
\* signals fell together (stop).
CleanExitLeavesNothing ==
    exit = "clean" =>
        \A r \in Requests :
            /\ request[r] # "active"
            /\ Ended(r) /\ failures = 0 => ends[r] \in OnDisk

\* A line that was accepted is written, given up after a failure, or the process
\* has ended (LogWriter).
LineSettles == (queued # <<>>) ~> (queued = <<>> \/ ~Alive)

ServerTypes ==
    /\ TypesHold
    /\ handling \subseteq Requests
    /\ request \in [Requests -> {"none", "active", "answered", "gone"}]
    /\ listening \in BOOLEAN /\ drained \in BOOLEAN
    /\ watchdog \in {"runs", "stopping", "gone"} /\ exit \in {"no", "clean", "forced"}
=============================================================================
