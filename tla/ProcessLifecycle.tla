-------------------------- MODULE ProcessLifecycle --------------------------
(***************************************************************************)
(* The life of a process under ProcessManager: a start call passes its      *)
(* checks, claims a host slot and registers; the launch worker opens a      *)
(* session thread for it; the session spawns its children and reports their *)
(* exit; the manager retries a recognised failure once or publishes the     *)
(* terminal state and gives the slot back.                                  *)
(*                                                                         *)
(* Threads and what connects them:                                          *)
(*   manager  --toLauncher[p]-->  launch worker  -->  session thread of p   *)
(*   manager  <----------------- toMain[p] ---------  session thread of p   *)
(* The launch worker only forwards, so a message that it hands on is taken  *)
(* in one step with its delivery.  Messages of different processes commute, *)
(* so each process has its own pair of channels.  Output text, pids and     *)
(* telemetry are left out (OutputPaging is about the output).               *)
(***************************************************************************)
EXTENDS Integers, Sequences, FiniteSets

CONSTANTS
  Call,              \* start calls; a call that registers is a process
  CallerOf,          \* caller_id of each call
  IdentityOf,        \* what the dedupe compares: command, cwd, target, action class
  Repairable,        \* calls started as a command line (runtimeRepairAllowed)
  Protected,         \* calls whose command is the protected control plane
  Sync,              \* calls made through the synchronous entry points
  MaxLivePerCaller,  \* maxLivePerCaller
  MaxLiveTotal,      \* maxLiveTotal: host admission slots
  MaxCompleted,      \* maxCompletedProcesses
  MaxSteps           \* bound: steps of one execution plan

ASSUME ConstantsAssumption ==
  /\ IsFiniteSet(Call)
  /\ Repairable \subseteq Call
  /\ Protected \subseteq Call
  /\ Sync \subseteq Call
  /\ MaxLivePerCaller \in Nat \ {0}
  /\ MaxLiveTotal \in Nat \ {0}
  /\ MaxCompleted \in Nat
  /\ MaxSteps \in Nat \ {0}

VARIABLES
  phase,          \* control of the start call
  entry,          \* its entry in the manager's processes map
  outcome,        \* exitCode / signal / error of the published terminal state
  launching,      \* ProcessState.launching
  repaired,       \* repairAttempts.length = 1
  resetting,      \* the spool reset before a retry is in flight
  killRequested,  \* ProcessState.killRequested
  handlers,       \* keys of sharedLauncherHandlers
  slots,          \* processes that hold a host admission slot
  launcher,       \* the launch worker thread
  launcherFailed, \* sharedLauncherFailure is set
  toLauncher,     \* messages posted to the launch worker, by process
  toMain,         \* messages posted to the manager, by process
  session,        \* the launch worker's session of the process
  step,           \* steps of the plan started by the session
  killPending,    \* the session's pendingKills holds the process
  child,          \* the operating-system child
  signalled       \* the child was sent SIGTERM (SIGKILL follows after 2s)

startVars == <<phase, slots>>
managerVars == <<entry, outcome, launching, repaired, resetting, killRequested, handlers>>
launcherVars == <<launcher, launcherFailed>>
channelVars == <<toLauncher, toMain>>
sessionVars == <<session, step, killPending, child, signalled>>
vars == <<startVars, managerVars, launcherVars, channelVars, sessionVars>>

Phase == {"idle", "preflight", "admitting", "spooling", "returned", "reused", "refused"}
ExitKind == {"ok", "fail", "signal"}
Message == {"started", "error"} \cup ExitKind

TypeOK ==
  /\ phase \in [Call -> Phase]
  /\ entry \in [Call -> {"absent", "live", "done"}]
  /\ outcome \in [Call -> {"none", "error"} \cup ExitKind]
  /\ launching \in [Call -> BOOLEAN]
  /\ repaired \in [Call -> BOOLEAN]
  /\ resetting \in [Call -> BOOLEAN]
  /\ killRequested \in [Call -> BOOLEAN]
  /\ handlers \subseteq Call
  /\ slots \subseteq Call
  /\ launcher \in {"up", "dead"}
  /\ launcherFailed \in BOOLEAN
  /\ toLauncher \in [Call -> Seq({"launch", "kill"})]
  /\ toMain \in [Call -> Seq(Message)]
  /\ session \in [Call -> {"none", "starting", "running", "failing", "closing"}]
  /\ step \in [Call -> 0 .. MaxSteps]
  /\ killPending \in [Call -> BOOLEAN]
  /\ child \in [Call -> {"none", "running", "exited"}]
  /\ signalled \in [Call -> BOOLEAN]

Init ==
  /\ phase = [p \in Call |-> "idle"]
  /\ entry = [p \in Call |-> "absent"]
  /\ outcome = [p \in Call |-> "none"]
  /\ launching = [p \in Call |-> FALSE]
  /\ repaired = [p \in Call |-> FALSE]
  /\ resetting = [p \in Call |-> FALSE]
  /\ killRequested = [p \in Call |-> FALSE]
  /\ handlers = {}
  /\ slots = {}
  /\ launcher = "up"
  /\ launcherFailed = FALSE
  /\ toLauncher = [p \in Call |-> <<>>]
  /\ toMain = [p \in Call |-> <<>>]
  /\ session = [p \in Call |-> "none"]
  /\ step = [p \in Call |-> 0]
  /\ killPending = [p \in Call |-> FALSE]
  /\ child = [p \in Call |-> "none"]
  /\ signalled = [p \in Call |-> FALSE]

-----------------------------------------------------------------------------
(* What the start checks read.                                             *)

Live(p) == entry[p] = "live"
LiveOf(c) == {q \in Call : Live(q) /\ CallerOf[q] = c}

\* A live process of the same caller with the same identity is reused.
HasDuplicate(p) == \E q \in LiveOf(CallerOf[p]) : IdentityOf[q] = IdentityOf[p]

CapReached(p) == Cardinality(LiveOf(CallerOf[p])) >= MaxLivePerCaller

HostFull == Cardinality(slots) >= MaxLiveTotal

\* postMessage to the launch worker; a thread that has ended drops it silently.
Post(p, m) ==
  toLauncher' = IF launcher = "up" THEN [toLauncher EXCEPT ![p] = Append(@, m)]
                                   ELSE toLauncher

\* pruneCompleted: entries past the retention time go, and the oldest ones
\* until at most MaxCompleted remain; which ones is left open.
PrunedTo(kept) ==
  [q \in Call |-> IF entry[q] = "done" /\ q \notin kept THEN "absent" ELSE entry[q]]

Keepable == {kept \in SUBSET {q \in Call : entry[q] = "done"} : Cardinality(kept) <= MaxCompleted}

-----------------------------------------------------------------------------
(* Start.                                                                  *)

\* Entering startAsync or startStructuredAsync: prune, then await the preflight.
BeginStart(p) ==
  /\ p \notin Sync
  /\ phase[p] = "idle"
  /\ \E kept \in Keepable : entry' = PrunedTo(kept)
  /\ phase' = [phase EXCEPT ![p] = "preflight"]
  /\ UNCHANGED <<slots, outcome, launching, repaired, resetting, killRequested,
                 handlers, launcherVars, channelVars, sessionVars>>

\* The preflight or an active retrieval stop rejects the command.
RefuseStart(p) ==
  /\ phase[p] = "preflight"
  /\ phase' = [phase EXCEPT ![p] = "refused"]
  /\ UNCHANGED <<slots, managerVars, launcherVars, channelVars, sessionVars>>

\* The checks between the awaits: dedupe, the caller's cap, the launcher.
CheckStart(p) ==
  /\ phase[p] = "preflight"
  /\ phase' = [phase EXCEPT ![p] = IF HasDuplicate(p) THEN "reused"
                                   ELSE IF CapReached(p) \/ launcherFailed THEN "refused"
                                   ELSE "admitting"]
  /\ UNCHANGED <<slots, managerVars, launcherVars, channelVars, sessionVars>>

\* claimHostAdmissionSlotAsync, as an atomic counter (HostAdmission has the files).
ClaimSlot(p) ==
  /\ phase[p] = "admitting"
  /\ \/ HostFull /\ phase' = [phase EXCEPT ![p] = "refused"] /\ UNCHANGED slots
     \/ ~HostFull /\ phase' = [phase EXCEPT ![p] = "spooling"] /\ slots' = slots \cup {p}
  /\ UNCHANGED <<managerVars, launcherVars, channelVars, sessionVars>>

\* initializeOutputSpoolsAsync fails: the slot is given back and the call throws.
SpoolFails(p) ==
  /\ phase[p] = "spooling"
  /\ phase' = [phase EXCEPT ![p] = "refused"]
  /\ slots' = slots \ {p}
  /\ UNCHANGED <<managerVars, launcherVars, channelVars, sessionVars>>

\* The process enters the map, its handler is registered, the launch is posted.
Enter(p) ==
  /\ launching' = [launching EXCEPT ![p] = TRUE]
  /\ handlers' = handlers \cup {p}
  /\ Post(p, "launch")
  /\ UNCHANGED <<outcome, repaired, resetting, killRequested, launcherVars, toMain, sessionVars>>

Register(p) ==
  /\ phase[p] = "spooling"
  /\ phase' = [phase EXCEPT ![p] = "returned"]
  /\ entry' = [entry EXCEPT ![p] = "live"]
  /\ UNCHANGED slots
  /\ Enter(p)

\* start, startStructured and startScript: the same checks and effects with no
\* await between them.  A failed spool write throws before anything gives the
\* claimed slot back.
StartSync(p) ==
  /\ p \in Sync
  /\ phase[p] = "idle"
  /\ ~HasDuplicate(p) /\ ~CapReached(p) /\ ~launcherFailed /\ ~HostFull
  /\ slots' = slots \cup {p}
  /\ \E kept \in Keepable :
       \/ /\ phase' = [phase EXCEPT ![p] = "returned"]
          /\ entry' = [PrunedTo(kept) EXCEPT ![p] = "live"]
          /\ Enter(p)
       \/ /\ phase' = [phase EXCEPT ![p] = "refused"]
          /\ entry' = PrunedTo(kept)
          /\ UNCHANGED <<outcome, launching, repaired, resetting, killRequested,
                         handlers, launcherVars, channelVars, sessionVars>>

-----------------------------------------------------------------------------
(* The manager: terminal state, launcher messages, retry, kill.            *)

\* observeTerminal for the processes in S: a state already terminal is left alone.
ObserveTerminal(S, kind) ==
  LET ending == {p \in S : Live(p)} IN
  /\ entry' = [p \in Call |-> IF p \in ending THEN "done" ELSE entry[p]]
  /\ outcome' = [p \in Call |-> IF p \in ending THEN kind ELSE outcome[p]]
  /\ launching' = [p \in Call |-> launching[p] /\ p \notin ending]
  /\ handlers' = handlers \ S

\* The next message of p's session; without a handler or a live entry it is dropped.
Receive(p, kinds) ==
  /\ toMain[p] # <<>>
  /\ Head(toMain[p]) \in kinds
  /\ toMain' = [toMain EXCEPT ![p] = Tail(@)]

Heard(p) == p \in handlers /\ Live(p)

IgnoreMessage(p) ==
  /\ ~Heard(p)
  /\ Receive(p, Message)
  /\ UNCHANGED <<startVars, managerVars, launcherVars, toLauncher, sessionVars>>

\* Mutant of HandleStarted: the kill asked for in the meantime is forgotten.
HandleStartedForgetsKill(p) ==
  /\ Heard(p)
  /\ Receive(p, {"started"})
  /\ launching' = [launching EXCEPT ![p] = FALSE]
  /\ UNCHANGED <<startVars, entry, outcome, repaired, resetting, killRequested, handlers,
                 launcherVars, toLauncher, sessionVars>>

\* "started" and "step_started": a kill asked for in the meantime is sent again.
HandleStarted(p) ==
  /\ Heard(p)
  /\ Receive(p, {"started"})
  /\ launching' = [launching EXCEPT ![p] = FALSE]
  /\ IF killRequested[p] THEN Post(p, "kill") ELSE UNCHANGED toLauncher
  /\ UNCHANGED <<startVars, entry, outcome, repaired, resetting, killRequested, handlers,
                 launcherVars, sessionVars>>

HandleError(p) ==
  /\ Heard(p)
  /\ Receive(p, {"error"})
  /\ ObserveTerminal({p}, "error")
  /\ UNCHANGED <<startVars, repaired, resetting, killRequested, launcherVars, toLauncher, sessionVars>>

\* tryRuntimeRepair accepts a failed exit at most once and never after a kill;
\* whether the output shows a failure it can repair is left open.
MayRepair(p) ==
  /\ Head(toMain[p]) = "fail"
  /\ ~killRequested[p] /\ p \in Repairable /\ ~repaired[p]

\* Mutant of HandleExit: neither the handler nor an earlier terminal state is looked at.
HandleExitUnchecked(p) ==
  /\ Receive(p, ExitKind)
  /\ entry' = [entry EXCEPT ![p] = "done"]
  /\ outcome' = [outcome EXCEPT ![p] = Head(toMain[p])]
  /\ launching' = [launching EXCEPT ![p] = FALSE]
  /\ UNCHANGED <<startVars, repaired, resetting, killRequested, handlers, launcherVars, toLauncher,
                 sessionVars>>

HandleExit(p) ==
  /\ Heard(p)
  /\ Receive(p, ExitKind)
  /\ ObserveTerminal({p}, Head(toMain[p]))
  /\ UNCHANGED <<startVars, repaired, resetting, killRequested, launcherVars, toLauncher, sessionVars>>

Repair(p) ==
  /\ Heard(p)
  /\ Receive(p, ExitKind)
  /\ MayRepair(p)
  /\ repaired' = [repaired EXCEPT ![p] = TRUE]
  /\ resetting' = [resetting EXCEPT ![p] = TRUE]
  /\ launching' = [launching EXCEPT ![p] = TRUE]
  /\ UNCHANGED <<startVars, entry, outcome, killRequested, handlers, launcherVars, toLauncher,
                 sessionVars>>

\* resetOutputSpoolsAsync resolves: the retry is posted, whatever happened meanwhile.
Relaunch(p) ==
  /\ resetting[p]
  /\ resetting' = [resetting EXCEPT ![p] = FALSE]
  /\ Post(p, "launch")
  /\ UNCHANGED <<startVars, entry, outcome, launching, repaired, killRequested, handlers,
                 launcherVars, toMain, sessionVars>>

\* ... or rejects: the process ends in an error.
ResetFails(p) ==
  /\ resetting[p]
  /\ resetting' = [resetting EXCEPT ![p] = FALSE]
  /\ ObserveTerminal({p}, "error")
  /\ UNCHANGED <<startVars, repaired, killRequested, launcherVars, channelVars, sessionVars>>

\* Mutant of SlotReleased: the slot is given back as soon as a kill is asked for.
SlotReleasedOnKill(p) ==
  /\ phase[p] = "returned"
  /\ p \in slots
  /\ ~Live(p) \/ killRequested[p]
  /\ slots' = slots \ {p}
  /\ UNCHANGED <<phase, managerVars, launcherVars, channelVars, sessionVars>>

\* releaseHostAdmissionSlotAsync, started by observeTerminal and not awaited.
SlotReleased(p) ==
  /\ phase[p] = "returned"
  /\ p \in slots
  /\ ~Live(p)
  /\ slots' = slots \ {p}
  /\ UNCHANGED <<phase, managerVars, launcherVars, channelVars, sessionVars>>

\* kill: refused for the protected control plane, moot for an ended process.
\* Bound: one kill per process (a second one posts the same message again).
Kill(p) ==
  /\ Live(p)
  /\ p \notin Protected
  /\ ~killRequested[p]
  /\ killRequested' = [killRequested EXCEPT ![p] = TRUE]
  /\ Post(p, "kill")
  /\ UNCHANGED <<startVars, entry, outcome, launching, repaired, resetting, handlers,
                 launcherVars, toMain, sessionVars>>

-----------------------------------------------------------------------------
(* The launch worker and its sessions.                                     *)

Send(p, m) == toMain' = [toMain EXCEPT ![p] = Append(@, m)]

Deliver(p, m) ==
  /\ launcher = "up"
  /\ toLauncher[p] # <<>>
  /\ Head(toLauncher[p]) = m
  /\ toLauncher' = [toLauncher EXCEPT ![p] = Tail(@)]

\* startSession: one session per process at a time, and its thread may fail to start.
StartSession(p) ==
  /\ Deliver(p, "launch")
  /\ \/ /\ session[p] = "none"
        /\ session' = [session EXCEPT ![p] = "starting"]
        /\ UNCHANGED toMain
     \/ Send(p, "error") /\ UNCHANGED session
  /\ UNCHANGED <<startVars, managerVars, launcherVars, step, killPending, child, signalled>>

\* A kill reaches the session's requestKill; with no session, or one whose port
\* is closed, it is dropped.  It queues behind a launch not yet taken.
DeliverKill(p) ==
  /\ session[p] # "starting"
  /\ Deliver(p, "kill")
  /\ IF session[p] \in {"running", "failing"}
       THEN /\ killPending' = [killPending EXCEPT ![p] = TRUE]
            /\ signalled' = [signalled EXCEPT ![p] = @ \/ child[p] = "running"]
       ELSE UNCHANGED <<killPending, signalled>>
  /\ UNCHANGED <<startVars, managerVars, launcherVars, toMain, session, step, child>>

\* runStep: the child has a pid, or its spawn failed and the plan ends in an error.
\* The processes of a native pipeline are one child here: it ends with the last.
RunStep(p) ==
  \/ /\ step' = [step EXCEPT ![p] = @ + 1]
     /\ child' = [child EXCEPT ![p] = "running"]
     /\ signalled' = [signalled EXCEPT ![p] = FALSE]
     /\ session' = [session EXCEPT ![p] = "running"]
     /\ Send(p, "started")
  \/ /\ session' = [session EXCEPT ![p] = "closing"]
     /\ Send(p, "error")
     /\ UNCHANGED <<step, child, signalled>>

\* The session thread takes the launch message and runs the first step.
FirstStep(p) ==
  /\ session[p] = "starting"
  /\ step[p] < MaxSteps
  /\ RunStep(p)
  /\ killPending' = [killPending EXCEPT ![p] = FALSE]
  /\ UNCHANGED <<startVars, managerVars, launcherVars, toLauncher>>

\* executePlan goes on to the next step unless a kill is pending.
NextStep(p) ==
  /\ session[p] = "running"
  /\ child[p] = "exited"
  /\ ~killPending[p]
  /\ step[p] < MaxSteps
  /\ RunStep(p)
  /\ UNCHANGED <<startVars, managerVars, launcherVars, toLauncher, killPending>>

\* Mutant of ReportExit: a killed child is not waited for.
ReportExitOfKilled(p) ==
  /\ session[p] \in {"running", "failing"}
  /\ child[p] = "exited" \/ killPending[p]
  /\ session' = [session EXCEPT ![p] = "closing"]
  /\ step' = [step EXCEPT ![p] = 0]
  /\ \E kind \in ExitKind : Send(p, kind)
  /\ UNCHANGED <<startVars, managerVars, launcherVars, toLauncher, killPending, child, signalled>>

\* executePlan ends: the exit is sent, the port closes.  ownedPidResult waited
\* for the child's exit or close, so the child is gone.
ReportExit(p) ==
  /\ session[p] \in {"running", "failing"}
  /\ child[p] = "exited"
  /\ session' = [session EXCEPT ![p] = "closing"]
  /\ step' = [step EXCEPT ![p] = 0]
  /\ \E kind \in ExitKind : Send(p, kind)
  /\ UNCHANGED <<startVars, managerVars, launcherVars, toLauncher, killPending, child, signalled>>

\* queueOutput cannot append to the spool: it sends an error and kills the child.
SpoolAppendFails(p) ==
  /\ session[p] = "running"
  /\ child[p] = "running"
  /\ session' = [session EXCEPT ![p] = "failing"]
  /\ killPending' = [killPending EXCEPT ![p] = TRUE]
  /\ signalled' = [signalled EXCEPT ![p] = TRUE]
  /\ Send(p, "error")
  /\ UNCHANGED <<startVars, managerVars, launcherVars, toLauncher, step, child>>

\* runNativePipeline cannot spawn a later process of the pipeline: it kills the
\* ones it has and the plan ends in an error.
PipelineSpawnFails(p) ==
  /\ session[p] = "running"
  /\ child[p] = "running"
  /\ session' = [session EXCEPT ![p] = "closing"]
  /\ signalled' = [signalled EXCEPT ![p] = TRUE]
  /\ Send(p, "error")
  /\ UNCHANGED <<startVars, managerVars, launcherVars, toLauncher, step, killPending, child>>

\* finishSession: the thread of a session that sent its terminal message has
\* ended, or the timer armed by that message terminates it.
FinishSession(p) ==
  /\ session[p] \in {"failing", "closing"}
  /\ session' = [session EXCEPT ![p] = "none"]
  /\ UNCHANGED <<startVars, managerVars, launcherVars, channelVars, step, killPending, child, signalled>>

\* The thread dies of an uncaught exception; the launch worker reports it.
SessionCrashes(p) ==
  /\ session[p] \in {"starting", "running"}
  /\ session' = [session EXCEPT ![p] = "none"]
  /\ Send(p, "error")
  /\ UNCHANGED <<startVars, managerVars, launcherVars, toLauncher, step, killPending, child, signalled>>

ChildExits(p) ==
  /\ child[p] = "running"
  /\ child' = [child EXCEPT ![p] = "exited"]
  /\ UNCHANGED <<startVars, managerVars, launcherVars, channelVars, session, step, killPending, signalled>>

\* SIGTERM, and SIGKILL after two seconds while the session thread is there to send it.
KilledChildExits(p) ==
  /\ signalled[p]
  /\ session[p] \in {"running", "failing"}
  /\ ChildExits(p)

\* The launch worker thread ends and takes its sessions with it, not the children.
LauncherDies ==
  /\ launcher = "up"
  /\ launcher' = "dead"
  /\ toLauncher' = [p \in Call |-> <<>>]
  /\ session' = [p \in Call |-> "none"]
  /\ UNCHANGED <<startVars, managerVars, launcherFailed, toMain, step, killPending, child, signalled>>

\* failSharedLauncher, on the worker's error or exit event: every registered
\* handler is told of an error, and the failure is remembered for good.
FailSharedLauncher ==
  /\ launcher = "dead"
  /\ ~launcherFailed
  /\ launcherFailed' = TRUE
  /\ ObserveTerminal(handlers, "error")
  /\ UNCHANGED <<startVars, repaired, resetting, killRequested, launcher, channelVars, sessionVars>>

-----------------------------------------------------------------------------

Start(p) == BeginStart(p) \/ RefuseStart(p) \/ CheckStart(p) \/ ClaimSlot(p)
              \/ SpoolFails(p) \/ Register(p) \/ StartSync(p)

Manage(p) == IgnoreMessage(p) \/ HandleStarted(p) \/ HandleError(p) \/ HandleExit(p)
               \/ Repair(p) \/ Relaunch(p) \/ ResetFails(p) \/ SlotReleased(p) \/ Kill(p)

Launch(p) == StartSession(p) \/ DeliverKill(p) \/ FirstStep(p) \/ NextStep(p)
               \/ ReportExit(p) \/ SpoolAppendFails(p)
               \/ PipelineSpawnFails(p) \/ FinishSession(p) \/ SessionCrashes(p) \/ ChildExits(p)

Next == (\E p \in Call : Start(p) \/ Manage(p) \/ Launch(p)) \/ LauncherDies \/ FailSharedLauncher

Spec == Init /\ [][Next]_vars

(***************************************************************************)
(* The event loops run what is queued and the promises they wait for settle; *)
(* a killed child dies.  Nothing makes a child exit by itself, a thread      *)
(* crash, or a caller kill.                                                 *)
(***************************************************************************)
Fairness ==
  /\ \A p \in Call :
       /\ WF_vars(IgnoreMessage(p) \/ HandleStarted(p) \/ HandleError(p) \/ HandleExit(p) \/ Repair(p))
       /\ WF_vars(Relaunch(p) \/ ResetFails(p))
       /\ WF_vars(SlotReleased(p))
       /\ WF_vars(StartSession(p) \/ DeliverKill(p))
       /\ WF_vars(FirstStep(p))
       /\ WF_vars(NextStep(p) \/ ReportExit(p))
       /\ WF_vars(KilledChildExits(p))
       /\ WF_vars(FinishSession(p))
  /\ WF_vars(FailSharedLauncher)

FairSpec == Spec /\ Fairness

-----------------------------------------------------------------------------
(* Properties.                                                             *)

\* When the published outcome is an exit of the child (not an error of the
\* machinery around it), no child of the process is left running: the exit is
\* sent only after the owned pid is gone, no retry or step is started after it,
\* and neither is one in any channel.
ExitMeansChildGone ==
  \A p \in Call : outcome[p] \in ExitKind => child[p] # "running"

\* maxLiveTotal bounds what runs: apart from processes reported with an error,
\* there are never more running children than host admission slots, although
\* the slot is claimed long before the child exists and is given back without
\* waiting, while retries and messages are under way.
HostCapBoundsChildren ==
  Cardinality({p \in Call : child[p] = "running" /\ outcome[p] # "error"}) <= MaxLiveTotal

\* The published terminal state is never rewritten: not by a message already
\* under way, not by a failing retry, not by the failure of the launch worker.
OutcomeIsFinal ==
  [][\A p \in Call : outcome[p] # "none" => outcome'[p] = outcome[p]]_vars

\* A kill that was accepted ends the process, also when it meets a retry between
\* the exit and the relaunch, a session that has not spawned yet, or the gap
\* between two steps; unless the launch worker has failed.
KillSettles ==
  \A p \in Call : killRequested[p] ~> (~Live(p) \/ launcherFailed)

\* No process stays "launching" for ever: every launch and every retry is
\* answered by a start or by a terminal state, unless the launch worker has failed.
LaunchIsAnswered ==
  \A p \in Call : launching[p] ~> (~launching[p] \/ launcherFailed)

\* A process that ended gives its host slot back.
SlotIsReturned ==
  \A p \in Call : (phase[p] = "returned" /\ ~Live(p)) ~> (p \notin slots)

-----------------------------------------------------------------------------
(* What the repository says and the code does not keep; see the README.    *)

\* A repaired command runs: "assert.equal(atlasResult.exit_code, 0" with one
\* repair attempt (scripts/test-powershell-preflight.mjs:153).  A retry must
\* then not meet the session of the attempt before it in startSession.
RetryFindsNoOldSession ==
  \A p \in Call :
    toLauncher[p] # <<>> /\ Head(toLauncher[p]) = "launch" => session[p] = "none"

=============================================================================
