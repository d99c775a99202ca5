# A formal model of chatgpt-mcp

The repository is an MCP server that gives a chat client three tools,
`start_process`, `read_output` and `kill_process`, over HTTP, with OAuth in
front of it, several clones of the server behind one front door, and a separate
coordinator (BUSY) in which workers claim the scopes they edit.  This directory
holds TLA+ models of its concurrent parts and of the rules by which it reads
command lines, TLC configurations that check them on small instances, and
proofs that hold for every instance.

## 1. The system

| Component | State | Operations | Interacts with |
|---|---|---|---|
| Start gate and preflight worker (`src/lib/process-manager.ts` 1438-1498, 3380-3766, 3930-3975; `process-preflight-worker.ts`) | worker thread, questions under way, processes of a caller | preflight, working directory, duplicate and cap, rejection receipts, launch; with and without awaits | all below |
| Process lifecycle (`process-manager.ts` 2238-2525, 4067-4152; `process-launch-worker.ts`; `process-launch-session-worker.ts`) | `processes` map, launcher handlers, the launch worker's sessions, children, pending kills | start, kill, launcher messages, runtime retry, pruning | host admission, launch worker (messages), output spools |
| Host admission (`process-manager.ts` 1955-2236) | one file per slot, shared by all server processes on the host; `hostAdmissionSlots` in each | claim, record the child's pid, release, reclaim of a dead manager's slot | process lifecycle, the file system |
| Retrieval stop (2286-2452) | marker files keyed by caller and activity target | arm, look up, sweep | the end of a process, the start gate |
| Output capture and paging (2567-2732, 3837-4065) | spools, cursors per process and caller, waiters | append, page, wait for change, reset on retry | process lifecycle |
| Runtime repair and evidence (`process-manager.ts` 259-313, 1548-1824, 2238-2284, 3780-3827) | captured output, counters, digests, the attempt before | append, repair, finish the audit, diagnose | lifecycle, receipts |
| Receipts (2829-2952, 3170-3370) | receipt files and their archive | persist, read, prune | output paging, kill |
| Control mailbox (2954-3168) | request and response files shared by the clones | request, sweep, answer, prune | kill and read of other clones |
| Command plans, rewriting and policy (`command-execution-plan.ts`; `process-manager.ts` 391-1425, 1826-1872) | none: functions of a text | plan, normalise, rewrite, refuse | start gate, runtime repair |
| BUSY store (`src/lib/busy-store.ts`) | `busy.json`, its lock file | claim, list, release, refresh, load, persist | the coordinator's file |
| BUSY coordinator (`stack/busy/python/busy.py`) | jobs file, its lock, operation replay table | claim, heartbeat, release, sweep | lease guard |
| Lease guard (`stack/busy/python/lease_guard.py`) | child process, lease id | claim, heartbeat, run, release | coordinator |
| OAuth provider (`src/lib/local-oauth-provider.ts`) | codes, tokens, refresh families, on disk and in memory | authorize, exchange, refresh, revoke, persist | HTTP server |
| Front door (`src/front-door.ts`) | routes from process ids to clones, the configured backend | route, learn a route, forget it, persist, follow a switch | clones |
| Bounded JSONL (`src/lib/bounded-jsonl.ts`) | pending lines, file size, rotation | append, rotate, close | server process |
| Server process (`src/index.ts`) | requests, connections, the way it ends | request, signal, clean and forced exit | the log, the watchdog |
| Stall watchdog (`src/lib/stall-watchdog.ts`, `stall-watchdog-worker.ts`) | age of the last heartbeat, the stall it reports | heartbeat, tick, close | server process |
| Bootstrap snapshot (`src/lib/bootstrap-snapshot.ts`) | sessions of pages | first page, next page | tool calls |
| Tool calls (`src/server.ts`) | aliases of startup processes, clients for OMEN | start, read, call a remote tool | process lifecycle, snapshot |
| Environment of children, telemetry, caller ids, installation, tests | | | |

What is hard here: several server processes share files with no lock but
exclusive creation; each server interleaves its requests at every `await`; a
command passes through three threads and a child, any of which can die; a retry
re-uses the identity of the attempt before it; kills cross with exits; and a
command line is read by half a dozen scanners, each with rules of its own for
quotes, escapes and comments.

What makes each component correct, in a sentence.  The names are definitions in
the modules; those in **bold** are what the runs check, most of them
conjunctions of the others.

- *Start gate.* Nothing starts that the policy did not pass, more than a
  caller's cap only where checks overlapped (**StartsAreChecked**), and every
  call is answered whatever the worker does (**CallsAreAnswered**); without
  awaits the cap is strict, and a start that fails leaves nothing
  (**SyncStartsAreWhole**).
- *Process lifecycle.* A published exit is final and true
  (**ExitMeansChildGone**, **OutcomeIsFinal**); what runs is bounded by the host
  cap (**HostCapBoundsChildren**); a kill settles, a launch is answered, a slot
  comes back (**ProcessSettles**).
- *Host admission.* The files of all servers behave as one counter with a test
  and increment (`CounterSpec`, **OneHolderPerSlot**), and a dead server's slot
  is used again (**DeadSlotIsHandedOn**).
- *Retrieval stop.* Who was told that searching is over keeps being told so, on
  every server, until its time is over, and nobody longer (**StopHolds**).
- *Output.* A caller that is told to stop has been given everything
  (**StopMeansAll**), is told to stop in the end, and a quiet answer hides nothing
  (**WaitingPaysOff**).
- *Evidence.* A command is repaired once at most and only by what it complained
  of; counters and digests are of the attempt that ended; the receipt tells what
  the process told (**EvidenceIsTrue**).
- *Receipts.* A process that ended stays readable through any clone, with its
  output, in one of process map, hot receipt or archive, across a crash
  (**EvidenceIsKept**, **ReadThroughAnyClone**).
- *Control mailbox.* A request for another clone takes effect once, or again only
  for a sweep that had read it before (**EffectIsTakenOnce**); neither call nor
  file waits for ever (**MailboxEmpties**).
- *Command lines.* A plan cuts a text only outside of quotes and runs its steps
  as the shell would (**PlansAreSound**); no rewriting touches what strings and
  comments say or leaves what it was written for (**RewritingsAreSound**); the
  policy refuses what is done and not what is said,
  before and after a command is put right (**GuardsAreSteady**).
- *BUSY lock.* Read-modify-write cycles exclude each other
  (**OneWriterInside**), every call ends and a dead holder's file goes
  (**LockGoesOn**).
- *BUSY claims.* A scope has one owner, and keeps it for the lease it was told
  (**FileSpeaksTrue**, **LeaseSpec**).
- *Operation replay.* A repeated operation id takes effect once
  (**EffectOnce**).
- *Lease guard.* The guarded child runs only while its lease is held, and the
  exit code says so (**GuardIsHonest**); a guard that is gone, or has lost its
  lease, leaves no child (**CommandsAreStopped**).
- *OAuth.* Mutations of the store exclude each other (**MutationsExclude**), what
  a client was told is in the file, and any clone finds it
  (**AnswersHoldEverywhere**); a family of refresh tokens never branches and
  retries agree (**FamilyIsOneLine**), a replay ends it, and a delivered token
  stays otherwise (**OnlyReplayEndsFamily**).
- *Front door.* Calls about a running process reach the clone that has it
  (**ReachedAtHome**), others the configured one, and routes outlive a restart
  (**NothingFallsBehind**).
- *Log, server process, watchdog.* Lines are in order, files bounded, and a clean
  exit leaves no connection and no line behind (**LogIsSound**); a stall is reported
  only of a thread that was held up (**AlarmsAreTrue**); a line that was queued is
  settled and a stall comes to its end (**LinesAndStallsEnd**).
- *Snapshot and tool calls.* The pages of a document join up
  (**PagesJoinUp**), `bootstrap` names the process its reader was sent to
  (**AliasFollowsReader**), no client is closed under a call
  (**ClientsOutliveCalls**), and no call whose effect took place is refused by the
  schema of its answer (**CallsSurviveTheirSchemas**).

## 2. The plan

Most important first.  A component's theorems are in a module `*_proofs` of their
own; no module uses a recursive operator, so all can be proved about.

| # | Modules | Composes / implements | State |
|---|---|---|---|
| 1 | `ProcessLifecycle`, `ProcessLifecycle_proofs` | manager, launch worker, session and child of each process | proved, liveness checked |
| 2 | `SlotCounter`, `HostAdmission`, `HostAdmission_proofs` | several servers over one directory; implements `SlotCounter` | proved |
| 3 | `BusyLock`, `Busy_proofs` | servers and coordinator over one lock file | proved |
| 4 | `ScopeLease`, `BusyClaims`, `BusyClaims_proofs` | servers and coordinator over one store; implements `ScopeLease` | proved |
| 5 | `OutputPaging`, `Calls_proofs` | session, manager and overlapping reads | proved, liveness checked |
| 6 | `Receipts`, `Reading_proofs` | process map, hot receipt, archive, spools; crash between the steps | proved |
| 7 | `ControlMailbox`, `Calls_proofs` | two clones over request and response files | proved |
| 8 | `LeaseGuard`, `Busy_proofs` | guarded commands and repeated calls over the coordinator | proved, liveness checked |
| 9 | `OAuthStore`, `OAuth_proofs` | clones over one token file and its lock | proved |
| 10 | `RefreshRotation`, `OAuth_proofs` | the tokens of one authorization, over the store of 9 | proved |
| 11 | `FrontDoor`, `Calls_proofs` | routes, restarts, switches | proved |
| 12 | `LogWriter`, `ServerProcess`, `StallWatchdog`, `Server_proofs` | a server with its log; its watchdog | proved, liveness checked |
| 13 | `SnapshotPages`, `ToolCalls`, `ToolContracts` | documents, startup processes and remote clients of a server; what its tools take and answer | proved in `Reading_proofs` |
| 14 | `StartGate`, `SyncStart`, `RetrievalStop` | a start call, with and without awaits; what may stop it | `StartGate` proved in `HostAdmission_proofs`, `RetrievalStop` in `ProcessLifecycle_proofs`, `SyncStart` in `Server_proofs` |
| 15 | `CommandPlan`, `CommandRewrites`, `CommandGuards` | what a server makes of a command line | checked |
| 16 | `ProcessEvidence` | capture, repair, audit, diagnosis, receipt | proved in `Reading_proofs` |

How they compose: `StartGate` ends where `ProcessLifecycle` begins, and takes from
`RetrievalStop` and `CommandGuards` only that they may refuse; `ProcessLifecycle`
takes from `HostAdmission` that slots are a bounded set (`SlotCounter`),
`BusyClaims` from `BusyLock`, and `RefreshRotation` from `OAuthStore`, that an
operation is one step; `LeaseGuard` uses the coordinator of `BusyClaims` for one
scope; `Receipts` begins where `OutputPaging` ends; what `FrontDoor` sends to a
backend that has not the process is answered there by `ControlMailbox` or
`Receipts`; `ServerProcess` extends `LogWriter`, `ToolCalls` extends
`SnapshotPages`, `CommandGuards` extends `CommandRewrites`.

`ToolContracts` has of a process only what an answer says of it.

Abstract specifications: `SlotCounter` and `ScopeLease`.

## 3. The models

Common to all: a step is what runs between two points at which something else can
run, that is between two `await`s of one event loop, two messages of a thread, or
two file operations of a process.  Telemetry, texts, hashes and timestamps are
left out, unless a property is about them.  Where two components share no state
but one run checks both, a variable `scene` says which of them a behaviour is
about, and the other rests in its initial state (section 4).  Ghost variables are read by properties only, as their comments say.

### ProcessLifecycle

State: the control of each start call (`phase`), its entry in `processes`, the
terminal state, the flags of `ProcessState`, `sharedLauncherHandlers`, the slots,
the launch worker and its failure, a queue in each direction per process, the
session thread and its child.  Actions, in the order of a process's life:
`BeginStart` ... `Register` are `startPreparedAsync` cut at its awaits, and
`StartSync` is `startPrepared`, which has none; `StartSession`, `DeliverKill` are
the launch worker's message handler; `FirstStep`, `NextStep`, `ReportExit`,
`SpoolAppendFails`, `PipelineSpawnFails` are the session thread; `HandleStarted`,
`HandleError`, `HandleExit`, `Repair` are `handleLauncherMessage`; `Relaunch` and
`ResetFails` are the two ends of the promise in `tryRuntimeRepair`;
`SlotReleased` is the release that `observeTerminal` does not wait for; `Kill` is
`kill`.  `SessionCrashes`, `LauncherDies`, `FailSharedLauncher` are the failures
of threads.

Assumed: a session's messages and its thread's exit arrive in order; SIGTERM ends
a child (SIGKILL follows after 2 s); a plan is a sequence of at most `MaxSteps`
steps.  Host admission appears as a set with a bound: that this is right is what
`HostAdmission` shows.

### SlotCounter and HostAdmission

`HostAdmission` keeps the name of a slot (`dir`) apart from the file it refers to
(`content`), because a write goes to the file that was opened, whatever has become
of its name.  A claim walks through the slots (`ClaimCreate`: the exclusive
creation; `ClaimWrite`; `ReclaimCheck`: read the record and probe the pids;
`ReclaimUnlink`), the record of the child's pid is read, truncated and written
(`update`), a release reads the record and unlinks (`release`).  All processes
interleave at every file operation.  `Crash` takes a server with all its
operations; its children live on.

`SlotCounter` is the promise: an admission happens while fewer than
`MaxLiveTotal` hold a slot.  The refinement maps its holders to the processes
whose server has a slot for them in `hostAdmissionSlots`.

### BusyLock

One lock file and one operation per writer: `Open` (exclusive), `WritePid`,
`Stat`, `Probe`, `Reclaim`, `Leave`, in `withLock` and `StoreLock` alike; the
coordinator has no probe.  File operations follow POSIX (on Windows an unlink of
an open file fails, and the code then waits, which only removes behaviours).  Each
writer is a process of its own, which allows more than operations of one server
can do: they wait with `sleep`, but each attempt, and the cycle under the lock, runs
without yielding the event loop.

### ScopeLease and BusyClaims

Every operation is one step, which is what `BusyLock` provides.  The state is what
can be read of the file (nothing, when it is half a file), the map each server
keeps, and `told`: until when each actor has been told that it owns the scope, or
earlier, if an answer got lost.  A server reads what it can, drops claims older
than the lease, decides and writes; the coordinator normalises its jobs, sweeps
by their leases, decides and writes, and refuses a file that it cannot read.
Writes fail before, after or (`Torn`) in the middle.

### OutputPaging

One process, its session and the calls of one caller.  `Write`, `Flush` and `Exit`
are the session thread, which appends to the spool before it tells anybody;
`HandleOutput`, `HandleExit`, `Repair`, `Truncate`, `ForgetCursors` the manager;
`PruneSpool` the retention of any server.  A read is `CallRead`, `Look`
(`readWithWait` up to the wait), `WaitTimeout` or `Abort`, `BeginRead`, `ReadSizes`
(`readAsync`), `PageTotals`, `PageCursor`, `PageEnd` (`pageSpoolOutputAsync`).
`unread` stands for `revision > lastReadRevisionByCaller`, which is all that is
asked of the two; a call that waits is woken by every change, so in `WaitTimeout`
there is none to see.  Characters are numbered per stream and attempt; base64 output that
is replaced by a marker is left out, and reads answered from a receipt are in
`Receipts`.

### Receipts

A process of `Pages` pages has ended at its `Owner`.  The owner writes the hot
receipt and the archive (`persistReceipt`), forgets the process by age or number
(`pruneCompleted`), and every server prunes: it archives an old receipt and then
unlinks it, one await at a time, drops days of the archive and spools by age.  A
call looks in the map (`Begin`), in the receipt (`FindHot`), in the archive
(`FindArchived`), measures the spools, and takes a page from them or from the
receipt's own copy.  Times are an age in stages, because what matters is which
retention has passed; a call or a sweep does not last longer than a week.  The
reading caller is at one server (`Reader`), which in the run is the owner: after
its crash, or when it has forgotten the process, it is as any other clone.

### ControlMailbox

`Ask` ... `GiveUp` are `requestRemoteControl` with its deadline, `SweepStep` one
step of `sweepControlRequests` (list, read, decide), `HandlerStep` of
`handleControlRequest` (execute, respond, unlink).  `Forget` takes the process from
the owner's map, `OwnerDies` the owner.  Executing a read is one step: its pages
are those of `OutputPaging`.

### LeaseGuard

`BeginClaim` ... `Released` are `run_guarded` cut at its calls of the coordinator,
each of which is executed (`Execute`) and answered later, or fails before or after
its effect.  `Spawn`, `Couple`, `OpenGate` and `PassGate` are the child's gate and
its coupling to the guard.  `Call` is an operation with an id by another client,
answered from the table if it is there (`idempotent`, `remember`).  Time is counted
down in what is left of the lease and to the next heartbeat (`Tick`); `slow` marks
the guards for whom time passed during a step.

### OAuthStore and RefreshRotation

`OAuthStore` is `withStoreMutation` with one step per file operation - open, pid,
stat, read of the pid, unlink, load, rename, unlock - by two requests at one or two
servers, and `verifyAccessToken`, whose load on a miss takes no lock.  A store is
the set of what can be exchanged: each exchange removes one and adds another.
`RefreshRotation` is what happens to the tokens of one authorization when a
mutation is one step: `Rotate`, `Coalesce` (a retry answered from the memory of the
server that made the successor), `RejectRetry`, `Replay` after the grace, `Renew`
of a confidential client, `RevokeToken`, expiry and pruning (`Tick`), `RestartServer`, which
empties that memory.  `Lose` is a mutation whose write fails; an answer may get
lost, so `known` has what the client was told.

### FrontDoor

`Switch` is the operator's script; `Notice`, `RefreshRead`, `RefreshStat` and
`Stat` are the watcher, `refreshBackendTarget` and the check of the file's time
before a request; `Begin`, `Sent`, `Answer`, `Unanswered` a request;
`PersistWrite`, `WriteEnds` the loop of `schedulePersistProcessRoutes`; `Restart`
reads the routes back and drops old ones or those beyond the limit.  Answers longer than
1 MB are not parsed: a route not learned is as an answer that is not given.  A
client uses a process id only when it has it, that is after the answer.

### StartGate, SyncStart and RetrievalStop

`StartGate` is a start call with its awaits: `Enter`, the working directory
(`FoundOrLate`, `NoDirectory`), the question to the preflight worker
(`WorkerChecks`, `HearAnswer`, `PreflightTimeout`, `WorkerDies`, `HearDeath`),
`Stopped`, `Check` (duplicates and cap), the rejection's archive, `Claim`,
`SpoolsFail`, `Launch`, and the wait for the process within the call (`Answer`).
What the policy says is open; `verdict` remembers what it said.
`SyncStart` is `startPrepared`: a call has the event loop of its server (`turn`)
from `Enter` to its return, and shares nothing with it but the slot files, the
marker, its spools and the files of its rejection with other servers; every file
operation may fail, and a server may die after each.  `PostFails`, `ReadOwn`,
`UnlinkOwn`, `DropSpools` are what it undoes.  Where two servers find a
file that a third has left behind, the later may take the new file of the earlier for it:
hence the premise `TwoServers`.  `RetrievalStop` is one marker: a
recall that ends well writes it (truncate, write), searches read it, sweeps list,
read and unlink; times are those of the marker and of the sweeps.

### CommandPlan, CommandRewrites, CommandGuards

Functions of a text, which is a sequence of words, operators, quotes and escapes.
Each scanner of the code is the set of rules it has: what it takes as an escape,
whether it knows comments; `Scan` is one fold with these rules as a parameter.
`CommandPlan` is `planCommandExecution` with the sequence and pipeline scanners and
the loop of the session worker that runs the steps; `CommandRewrites` the mask,
the four rewritings for PowerShell, and what is refused after them; `CommandGuards`
the normalisations before a start, the scans of roots, waits, routes and nested
payloads that `commandPolicyError` refuses, and the check of other shells.

### ProcessEvidence

One process as a producer of output: `Output` (`BoundedCapture.append`, counters
and digests), `TryRuntimeRepair` and the two ends of the reset, `Terminal` with the
audit and the receipt; `OldReceipt` takes the audit from a receipt, as those of
the first schema have none.  A command is the set of features that the repairs look for, an
output a sequence of the marks they look for; `ToldOfReceipt` and `Told` are the
diagnosis and the audit from a receipt and from the process.

### LogWriter, ServerProcess, StallWatchdog

`LogWriter` is the queue, the drain cut at its awaits, and the files by order of
creation, so that what was moved away stays part of the log.  `ServerProcess` has
the requests, their two lines, and the stop: listener, connections, log,
watchdog, exit; or five seconds.  `StallWatchdog` counts time in ticks; either
thread may be held up, and messages wait in `inbox`.

### SnapshotPages, ToolCalls, ToolContracts

`SnapshotPages` is `readBootstrapSnapshot`, cut at its only await: the document is a
length with ranges that should stay whole, a session has a version, an offset and
an age, sessions are dropped by age and number.  That ranges are in order and do not
overlap is assumed (`SnapshotAssumption`): `serializeSnapshotPayload` (:56) makes each
where the one before has ended.  The ghost `crossed` marks a key whose document was
given whole while one of its sessions was open.  `ToolCalls` adds the map from
callers to startup processes, with starts and reads that fail, and the clients for
OMEN: connecting, calling, failing, pruned at each call.

`ToolContracts` is one call as it goes through `server.ts`: `Ask` (the input and its
schema), `Forward` to the server of OMEN, whose schema takes it again, `Throw` or
`Enter`, `Start`, `ReadOutput` or `Kill` with every answer that the process manager or
the documents may give (`StartResult`, `NoChange`, `Read`, `PageSpoolOutput`,
`FormatReceipt`, `KillAnswers`, `SnapshotAnswers`), `Validate` (`resultData` and the
output schema), and `Relay` back through the proxy.  An answer is a function from field
names to the kind of value; `retained_chars` and `retained_bytes` stand for three fields
each.  What schemas ask of the length or alphabet of a text is left out: the code takes
care of that where the text is made (`boundedFailureCode`, `validateRuntimeIdentity`).

## 4. The runs

Twelve runs.  Several of them check components that share no state, each in a
scene of its own: the scene is chosen in the initial state, and the variables of
the other scenes keep their initial values, in which nothing of theirs that is
fair is enabled.  No behaviour mixes them, so that a state count is the sum and
not the product, and a property of one holds trivially in the others.  The names of the properties are those of section 1;
most are conjunctions, defined in the component's module or the MC module.

Deadlock is checked where a system never comes to rest (`front_door`); in the others
calls, characters, time and tokens are bounded, so that they rest when all has been done, and the
liveness properties say what must not be left undone.  The types of the models
are asserted on every state (`TypesHold`, `TypesAsserted`, as a CONSTRAINT that is
never false).

| Run | Shows | Bounds, and why they are enough |
|---|---|---|
| `lifecycle_safety` | `ExitMeansChildGone`, `HostCapBoundsChildren`, `OutcomeIsFinal`; `StopHolds` | Two calls for one host slot, one through the synchronous entry, one retry, two steps: two processes meet only in the slots, the caller's limits and the launch worker's failure, and two are enough for each. Two servers with a recall each, one search, one failure, a marker that lives two units of three: one server writes or sweeps while the other does. |
| `admission` | `OneHolderPerSlot`, `DeadSlotIsHandedOn`; `StartsAreChecked`, `CallsAreAnswered`; `ProcessSettles` | Two servers with one process each and two slots, one server dies anywhere: one claim, one release or reclaim in its way. (With two servers that reclaim, `OneHolderPerSlot` fails: below. More processes and slots, without crashes, are covered by the theorems.) Three calls of one caller with a cap of one, two for the same work: a duplicate, an excess, and a third that overlaps them. One process with everything that can happen to it. |
| `busy` | `OneWriterInside`, `LockGoesOn`; `GuardIsHonest`, `EffectOnce`, `CommandsAreStopped` | A server that dies, one that cannot write its pid, and the coordinator: one holds, one decides, one takes the name in between. A guard and an actor for one scope, two operation ids and a table for one, a lease that the coordinator caps at two and a heartbeat after one: the smallest in which a heartbeat can be in time. |
| `claims_shared` | `FileSpeaksTrue`, and that `BusyClaims` implements `ScopeLease` (`LeaseSpec`) | Two servers, two actors, one scope, leases of one or two units, five units of time: a lease that runs out, a renewal, and the next owner's. Scopes meet only where expired ones are dropped. |
| `output_pages` | `StopMeansAll`, `WaitingPaysOff` | Two reads that overlap, one character per stream in pages of one: the page ends between the streams, which is where the share of stderr is computed. |
| `reading` | `EvidenceIsKept`, `ReadThroughAnyClone`; `EvidenceIsTrue`; `PagesJoinUp`; `AliasFollowsReader`; `ClientsOutliveCalls`; `CallsSurviveTheirSchemas` | Two servers, of which the owner may die, two pages: the process moves from the map to the receipt and the archive between the first page and the last. Seven jobs, which between them have every feature and mark that a repair looks for, two attempts, three marks in a capture of two. Three documents (a range longer than a page, one with text around it, one unfinished), two reads that overlap, four in all, of two keys: a read finds the session of its key, or that it was dropped. Two startup processes of a caller with serial calls and one without. Three calls, three clients, room for one. Every combination of fields that an input may have, with one that no schema knows, in five environments (proxy, SSH, neither, native, misconfigured); processes with up to two optional facts or with all: a field of an answer depends on one fact, a diagnosis on two. |
| `control_mailbox` | `EffectIsTakenOnce`, `MailboxEmpties` | One request, two sweeps and two handlers that overlap, three executions: the second is the one that must be explained, the third would be one too many. Requests meet in nothing but the directory. |
| `oauth_store` | `MutationsExclude`, `AnswersHoldEverywhere` | Two requests at one or two servers, two tokens after the code, one restart or failure: one mutation holds the lock, another decides about it; a code is exchanged and its token exchanged again. |
| `refresh_rotation` | `FamilyIsOneLine`, `OnlyReplayEndsFamily` | Two servers, five tokens, a grace of one and a life of three units: a chain of four, of which the first has left its grace while the last is fresh. |
| `front_door` | `ReachedAtHome`, `NothingFallsBehind` | Two backends, two requests, two switches (there and back), one restart, one failure, one process, which is what a limit of one route has room for. |
| `server_process` | `LogIsSound`, `LinesAndStallsEnd`; `AlarmsAreTrue`; `SyncStartsAreWhole` | One request and its lines of one or two bytes in files of three, batches of two, one failure, one file moved away, two signals: a rotation within a batch and between two. A threshold of three ticks with ages up to five. Three calls without awaits at two servers, or at three, of which the first dies: what it leaves is found by two others. |
| `command_texts` | `PlansAreSound`, `RewritingsAreSound`, `GuardsAreSteady` | All texts of up to four to eight tokens over 23 alphabets, each with the quotes, escapes or operators of one question: nested quotes need five tokens, a loop in a pipe within a string six. |

Every property has a mutant of the code with which it fails (PROJECT.json
`mutants`; the mutated operators stand before the ones they replace).

### Seen on the way

Definitions that the modules have and no run lists, because TLC refutes them: the
code does otherwise.

- `RetryFindsNoOldSession` (ProcessLifecycle): the retry of a failed command re-uses the request id,
  and the launch worker may still have the session that reported the exit (it is kept for 1 s after its
  last message, process-launch-worker.ts:47); the launch is refused as a
  duplicate and the process ends in an error.
- `SlotFilesCountTheLive` (HostAdmission): a release that reads the slot file while the record of
  the child is being rewritten finds it truncated and leaves it (process-manager.ts:2233); the slot stays
  taken as long as the server lives.
- `OnlyDeadLocksReclaimed` (BusyLock): between the look at a lock's age and pid and its
  unlink the name may have gone to another (busy-store.ts:166); a lock without a pid counts as dead.
- `OneOwnerPerScope` (BusyClaims): a server whose read of the store fails goes on with what it
  had read before and writes that over the file (busy-store.ts:217).
- `OutputIsLossless` (OutputPaging): spools are unlinked 30 minutes after their last write, also
  those of a running process whose output was not read (process-manager.ts:2818).
- `OverlappingReadsJoinUp` (SnapshotPages): a read that is given its document whole leaves
  the session that an overlapping read of the same caller has begun
  (bootstrap-snapshot.ts:348), and the next read goes on with that one, although the
  caller was told that it had everything.
- `RelayedReadIsLossless` (ControlMailbox): a page taken for an asker who has given up, or taken
  again for a sweep that was overtaken, is read by nobody.

Others, which follow from the models or from reading.  Starts and processes:

- Identical start calls share a process, and a caller's cap holds, only if the
  calls do not overlap: both are tested (process-manager.ts:3542, :3549) before the
  awaits that precede the registration (:3574).  `startPrepared` has no such gap.
- `startPrepared` does not give its slot back when the spools cannot be created
  (:3467); a slot file whose record could not be written stays for good (:2119).
- The directory for the rejection of a preflight is made outside of the `try`
  (:2874) in a promise that nobody awaits: if that fails, the rejection is
  unhandled, which ends a Node.js process.
- An error of the spool frees the slot before the child it kills is gone
  (process-launch-session-worker.ts:91), hence the exception in
  `HostCapBoundsChildren`.
- Two servers that find the same dead holder may both unlink the slot's name, the
  second after it was given away (:2179).  The theorems are about servers that do
  not die.
- A step of a sequence that cannot be spawned, or is killed by a signal, ends the
  sequence, also before `||` or `;`.
- A launcher that fails while a retry waits for its spools ends the process first;
  the reset that follows clears counters and digests, and the process then tells
  an empty audit, unlike its receipt.  A reset that fails leaves the counters of
  the first attempt with an empty capture.
- An output of exactly `MAX_CAPTURE_CHARS` is told as truncated.
- A marker of the retrieval stop may be removed by a sweep while it is written; and
  a result that is told through the receipt, at another server, does not wait for
  the marker.

Command lines:

- A heredoc can become a step of a sequence: a backtick within double quotes hides what
  follows from `splitTopLevelSequence` (command-execution-plan.ts:219) and not from the
  parser of words, so its line ends do not cut.  A quote in its body is then open for the parser of
  the whole text, and `CutsAreTopLevel`, a part of `PlansAreSound`, is false of
  a text of twelve tokens; the run has plans of texts of up to seven.
- An escaped reference outside of quotes gets braces; text with a quote in a
  here-string may be rewritten as if it were code; `$PID` inside double quotes keeps
  its name when the assignments to it are renamed, and when the repair of quotes
  escaped as in C comes after the renaming.
- A loop before `||` is refused although it could be rewritten as one before `|` is.
- To put a command right is not idempotent when `--json` or `--ttl-seconds` is
  given twice, or two peeled revisions follow `git cat-file -e`
  (hence the premise of `PutRightOnce`); the `; exit 0` that is appended to a silent
  probe is lost in a trailing comment.
- `claim` and a word in any text of a command for the coordinator is taken for an
  actor by the repair; the repair is reached only where quotes escaped as in C had hidden
  the actor from the normalisation before the start.

Output and receipts:

- A retry that empties the spools while a page is under way has its output skipped
  by the cursor which that page sets afterwards (:2725).  `StopMeansAll` leaves out
  the runs in which a read holds sizes or a cursor from before (`StaleRead`).
- The archive of a receipt falls back to its own copy of the output when the spools
  are gone, but `spoolCharLengthAsync` answers 0 for a missing file (:2646), so
  the asynchronous path returns no output if they went before it measured.
- A kill of a process that has ended, at a server without it, reads a page for its
  answer and so consumes it (:4071).
- Overlapping reads of an old startup process drop the alias of a newer one
  (server.ts:539); an alias whose process is forgotten stays, and refuses further
  startups.

BUSY, OAuth, front door:

- The coordinator takes a lock for its age alone (busy.py:124).
- The guard compares the heartbeat with the lease it asks for, and the coordinator
  caps that lease at 240 s (busy.py:17): with a heartbeat between the two
  `RunsUnderLease` fails (`Beat = 2` in `busy.cfg`).
- README.md:7 of the repository has request ceilings of 270 s at backend and front
  door; the front door gives up after 250 s (front-door-timeout.ts:4).
- A mutation of the OAuth store whose read fails writes what the server had in
  memory (local-oauth-provider.ts:129, `blind`); a load outside the lock can make
  that memory older than what a mutation has made of it, so a revoked access token may
  be accepted again from memory.
- Revoking a superseded token on its own cuts its family: a later replay of an older one
  ends only what comes before the cut.  Access tokens outlive the revocation
  of their family.  A retry at another clone, or after a restart, is refused.
- A switch between the read and the stat of `refreshBackendTarget`
  (front-door.ts:60-63) leaves the old backend under the new time until the next
  switch or event.

The end of a server:

- A second signal lets `exit(0)` come before the line with which the watchdog ends
  (index.ts:346); the line `process_exit` is always dropped, because the log is
  closed by then (index.ts:341).
- Every tick in a stall sets the time of the last sample
  (stall-watchdog-worker.ts:175), so that no `stall_sample` is written when the tick is shorter than the
  sample's interval.

### Fairness

- Event loops run what is queued and promises over files settle: weak fairness of
  each message handler, each continuation, each step of an operation.
- Time passes: timers fire, a lock of a dead or held up writer grows old, a call
  reaches its deadline, the preflight's question its timeout.
- A killed child dies, because SIGKILL follows SIGTERM.
- A caller reads until it is told to stop (`ReadingEnds` only), which is what
  `next_action` asks of it.
- A sweep of control requests is repeated by its interval and the asker's call
  goes on (`control_mailbox`); a guard's loop goes on, and a gated child looks at
  its gate (`busy`); the log's drain, the end of connections that were cut and the
  watchdog's messages go on (`server_process`).
- Nothing makes a child write or exit, a guarded command end, the preflight worker
  answer, the handling of a relayed request go on, a caller kill, a thread or a
  process die, a held up thread go on, or a lock holder leave: storage may hang.  `CallSettles` therefore has
  failure as one of its ends, the lifecycle's properties the failure of the launch
  worker, and `StallEnds` the premise that both threads run.

## 5. The proofs

All are for every value of the constants under the modules' assumptions (named
`...Assumption`): limits are natural numbers, sets of calls are finite where they are
counted, the sets of special calls, servers and writers are subsets of what they are
subsets of, and the ranges of a document do not overlap.

- `ProcessLifecycle_proofs`: `TypeCorrect`, `ExitIsLast`, `HostCapIsKept`,
  `OutcomeNeverRewritten`, from one inductive invariant `IInv`.
  `ExitMeansChildGone` is not inductive: it has to be known that no launch, no
  session that could go on and no second exit message is anywhere when an exit is
  handled.  `OneToken` says this: the right to run a child is in at most one of a
  queued launch, an open session, a queued exit, a reset under way, and the
  published exit.  `LiveUntilOutcome` makes each handler run at most once;
  `SlotsHeld` gives each live process its own slot, from which the cap follows.
  For `RetrievalStop`, `StopIsKept` (`StopHolds`): a marker that was written and is not
  over is there, or a sweep crossed its write (`Covered`), because a sweep removes what
  it read as over, and time does not go back (`Removers`); what a search is told comes
  from a marker some recall wrote (`Sources`).
- `HostAdmission_proofs`: `TypeCorrect` whatever crashes; `Invariance`,
  `Exclusion` and `ImplementsCounter` with `Crashing = {}`.  From the creation of
  its file to the unlink in its release a process occupies a slot, and the slot's
  name refers to the file it created (`OwnFile`): nobody unlinks the name, since no
  holder is found dead (`NoReclaim`), releases see another's record and return, and
  an update creates a file only where the name is free.  That the files implement
  the counter is the pigeonhole principle: holders map one to one into the slots,
  and the slot of the new one is not yet in the image.
  For `StartGate`, `StartsChecked`: what runs was passed by the policy, in the gate
  (`Asked`, `Checked`: from the question to the launch a call remembers what it was
  told, and the worker's answer is to the question of the call that hears it), and
  more than the cap only where the looks of two calls overlapped (`Overlaps`).
- `Busy_proofs`, on the lock: `TypeCorrect`, and `WritersExclude` without any
  assumption on who dies.  Until a lock file is old nobody gets beyond looking at it
  (`NoReclaim`), so from open to unlink the name refers to the writer's own file
  (`OwnLock`).
- `Busy_proofs`, on the guard: `LeaseTypeCorrect`, `OperationsOnce` (`EffectOnce`),
  `NoOrphans`, `ExitIsHonest`, and `GuardHonest` (`GuardIsHonest`).  An effect and its
  entry in the table are one step, so an id without an entry has had no effect or was
  forgotten (`Table`); a child that runs has a guard that runs, because it passes the
  gate only when coupled (`Children`); a guard that has lost its lease knows, or its next
  call tells it (`Losts`).  `GuardHonest` assumes `Beat < MaxLease`.  lease_guard.py:287
  demands a heartbeat below the lease asked for, and only the coordinator's cap
  (busy.py:17, :42) makes the difference: with `Beat = MaxLease` TLC refutes it (above).
- `BusyClaims_proofs`: `TypeCorrect`, `JobsHaveClaims` whatever is torn or misread;
  `FileIsRight` (`FileSpeaksTrue`), `OneOwner` and `StoreImplementsLease` (`LeaseSpec`)
  with `~Torn` and `~Misread`.  The two halves of the file agree, job by claim
  (`Good`), and whoever was told of a lease that is not over has a job for as long
  (`Told`).  A half-written file, or a read that failed, makes a server write an older map
  over the file (`OneOwnerPerScope`, above): without the two hypotheses the theorems
  are false, with them the directory is one whose writes and reads succeed.
- `OAuth_proofs`, of `OAuthStore`: `TypeCorrect`, `MutationsOneByOne` (`MutationsExclude`),
  `AnswersHold` (`AnswersHoldEverywhere`).  Who is in a mutation has the lock file,
  with its pid (`Locked`); a file that is old has its pid, or its server is dead
  (`OldLocks`), so a lock is only taken from the dead, unless one was exchanged under a
  thief (the ghost `raced`).  Under exclusion what a mutation has read is the file
  (`Mutating`); what was given and is not dead is in the file (`Truth`), and a token
  that is rejected after a reload begun when it was due is dead (`Verifying`).
- `OAuth_proofs`, of `RefreshRotation`: `RefreshTypeCorrect`, `FamilyStaysOneLine` (from
  `FamilyNeverBranches` and `RetriesTellOne`), `FamilyEndsByReplay`
  (`OnlyReplayEndsFamily`), with servers that restart and mutations that are lost.  The step that could
  branch a family is a rotation, and it is harmless because at most one stored token
  is not superseded (`OneLive`); that is kept because a code that is still stored has
  led to nothing (`CodeFirst`), and because a token is superseded in the step that
  mints its successor, later than itself (`InOrder`, `NextIsChild`).  Retries agree
  since the successor on file is the only one a client may know of
  (`ChildIsNext`).  What a replay revokes is the line of successors on file, what it
  ought to revoke are the descendants; from a stored token the one leads to all that
  are stored of the other, unless a token between them was revoked on its own
  (`OnLine`), since an earlier token of a family expires first (`Ages`) and a stored
  token keeps the last successor it was given.  `Line` is the least set that is closed under
  a map, not a recursion, so that an induction over the line is an argument about one set.
- `Calls_proofs`, on the mailbox: `TypeCorrect`, `EffectTakenOnce` (from `HandledByOne`
  and `AgainOnlyForOvertaken`).
  What a handler has is marked as in flight (`Marked`), so a sweep that decides does
  not give it to another.  After an execution the request is about to be answered,
  or neither file nor sweep nor handler has it any more; else a sweep has been
  overtaken (`Done`).
- `Calls_proofs`, on the pages: `PagingTypeCorrect`, `StopIsComplete` (`StopMeansAll`),
  `NoChangeHidesNothing` (`NoChangeIsTrue`).  What is before the caller's cursor, and what
  a call takes to be before it, has been in a page (`CursorGiven`, `Reading`).  The exit
  is the session's last message (`LastWord`), so a call begun after it has measured all
  that was written (`Final`).  A waiting call has left nothing unread that is
  not announced (`Waiting`).  Of `StopMeansAll` only the runs are left out that the
  property leaves out: a retry, or a retention, under a read that holds sizes or a
  cursor from before.
- `Calls_proofs`, on the front door: `DoorTypeCorrect`, `HomeIsReached`, `NothingBehind`
  (from `SwitchIsFollowed` and `RoutesSaved`).  What is being written is the map of routes,
  or the loop goes round again (`Loop`); a client that was told of a process has a route
  for it, or the process has ended or its route was given up (`Home`); the backend in
  memory is the configured one whenever the time in memory is that of the file (`Follow`).
- `Reading_proofs`, on `Receipts`: `ReceiptTypes`, `CopyRemains` (`EvidenceIsKept`),
  `ReadToTheEnd` (`ReadThroughAnyClone`).  What a prune is about to unlink is in the
  archive, so one copy at least is left (`Copies`); a call that began when the receipt
  was written finds none in its place only when it is in the next (`Found`); what is
  before the cursor was in a page, and spools are measured whole or not at all
  (`Paged`).  Any number of servers read, while the run has one that does.
- `Reading_proofs`, on documents: `SessionTypes`, `PagesAreWhole` (`PagesJoinUp`).  A page
  ends in no range, because ranges are disjoint and an end is moved to the end or the start
  of the one it is in (`PageEnd`); a session goes on where the pages of its caller have
  ended, unless `crossed` (`GoesOn`).  What dropping and moving sessions in the order of
  their use does to the set of open ones are lemmas on sequences (`KeysWithout`, `KeysAnd`,
  `PrunedKeys`).
- `Reading_proofs`, on the alias: `AliasIsFollowed` (`AliasFollowsReader`).  A caller with
  serial calls has one call at a time, and a read of the alias is of the process it
  was sent to (`Follows`).  The theorems are about the specifications of `Receipts` and
  `ToolCalls`, which have every step that `MCReading` takes of them.
- `Reading_proofs`, on the clients for OMEN: `ClientsAreKept` (`ClientsOutliveCalls`), for any
  finite number of calls and any size of the cache.  A client's counter is the number of calls that
  use it, and one that a call uses stays in the cache until it fails or all are closed; so
  pruning, which spares those that are counted, closes none under a call (`ClientInv`).
- `Reading_proofs`, on what is told of a command: `EvidenceHolds` (`EvidenceIsTrue`), for any
  jobs, output and `MAX_CAPTURE_CHARS`.  A capture holds the last of what the attempt wrote,
  and says so if it is not all (`Captures`); counters and hashes are of all of it, unless the
  spools are still to be emptied (`Evident`); the receipt was made of what the process tells
  (`Receipted`).  A repair takes away only what the output complained of (`MendsComplaints`),
  by cases on the features.  That the chunks which `Shortened` keeps are the end of the text
  is an induction over their number; it is done on the set of the numbers for which the
  statement fails, which has no least member (`Least`), so that no operator is a parameter.
  `EvidenceAssumption` says what reaches a run: a command that only waits is refused, and
  one with a `$PID` that is still to be renamed hides it in quotes escaped as in C.
- `Reading_proofs`, on what tools take and answer: `CallsSurvive` (`CallsSurviveTheirSchemas`),
  for any environments, and for any set of the optional facts of a process where the run
  has two or all.  An answer is put together of pieces by `@@`; each piece has only fields that the
  schema knows, with values that it takes (`Known`), which is kept when pieces are joined
  (`KnownBoth`) or fields left out, and the first pieces have what is required, of which
  nothing is left out (`Answering`, `Good`).  So only the pieces are looked at one by one.  An
  answer that has passed its schema at OMEN has still the shape that it needs here, with the fields that
  `Relay` adds (`RelayedIsGood`); and what is forwarded is again an input (`ForwardedAccepted`).
- `Server_proofs`, on the log and the server: `LogHolds` (`LogIsSound`).  A line goes
  from the queue to the drain, from there to a chunk and to the end of the last file, and
  keeps its place behind those before it (`InLine`); only the last file is written, and its
  size is known or there is none yet (`Named`), and a chunk was cut to what fits (`Fits`).
  Without a failed write, every line is on disk or on its way to the disk (`Accounted`),
  so that a log that is closed with nothing on its way has them all; and it is closed
  only when nobody is connected (`Stopped`).
- `Server_proofs`, on the watchdog: `AlarmsHold` (`AlarmsAreTrue`), for every threshold of two
  heartbeats or more.  A beat that the worker has not counted is in its inbox, and a late tick
  means that the worker itself was held up (`Known`).
- `Server_proofs`, on starts without awaits: `SyncStartsHold` (`SyncStartsAreWhole`), for any
  calls, servers and deaths.  A server's event loop belongs to the call that is under way (`Turns`),
  so what it found of the caller's processes is so until it launches (`Gates`), which keeps
  the cap.  A slot's file is that of a call which is between its creation and its release
  (`SlotFiles`); a call that has its slot has its file (`Kept`), because a file is only
  reclaimed from a dead server, and of two servers only the other can do that.

`MCProcessLifecycle`, `MCAdmission`, `MCBusy`, `MCReading` and `MCServerProcess` take the
constants of their other components as constants of their own, so that these theorems are
about every value of them, too.

Only model-checked: liveness (the prover does not do fairness or ENABLED); the
functions of texts (`PlansAreSound`, `RewritingsAreSound`, `GuardsAreSteady`), which compose
scanners that are folds with many states: each would need an induction of its own like that
of `FlattenSeq`, and a relation of two of them one over both (and `PlansAreSound` is
about short texts only: see the heredoc under "Seen on the way"); what holds of
`HostAdmission` after a crash.

## 6. Not modelled

- What `mcpProductionMutationError` (process-manager.ts:842) refuses, and how commands
  are classified by lists of regular expressions: tables, which a model could only copy.
- The environment of children and the wording of answers: pure functions without state.
- The order of steps in the synchronous reads of output and receipts, which repeat the
  asynchronous ones without their awaits (their fields are in `ToolContracts`).
- HTTP sessions, transports and the checks of a request before its handler
  (index.ts): the SDK's, or one comparison each.
- Telemetry, caller ids, sizes of responses: logging and formatting.
- Installation, supervision and test scripts, recorded evidence.
- Of the modelled components: children that ignore SIGTERM after their session is
  gone, unlink errors on Windows, base64 output that is replaced by a marker, the
  sweeps of old temporary and control files, the room for OAuth clients.  The launch worker may fail anywhere, but
  the liveness properties end there: a process registered after the failure is
  told of nothing.
