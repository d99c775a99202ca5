-------------------------------- MODULE FrontDoor --------------------------------
(***************************************************************************)
(* The stable front door (front-door.ts) before generations of backends.    *)
(* An operator switches the configuration file to another backend; a        *)
(* request goes to the configured one, or, if it names a process, to the    *)
(* backend that started the process.  These routes are kept in memory and   *)
(* written to a file by a loop that runs while they are dirty.             *)
(*                                                                         *)
(* A step ends where the front door waits: for a file, for the refresh that *)
(* is under way, for the backend.  What the backend does with a request is  *)
(* one step (the other modules have its details); a backend that does not   *)
(* own a process answers through the mailbox of ControlMailbox.            *)
(***************************************************************************)
EXTENDS Integers, FiniteSets

CONSTANTS
  Backend,
  Process,
  HttpRequest,  \* requests the front door has at a time
  MaxRoutes,    \* PROCESS_ROUTE_MAX_ENTRIES
  MaxSwitches,  \* bound: changes of the configuration
  MaxRestarts,  \* bound: restarts of the front door
  MaxFaults     \* bound: reads and writes that fail

NoBackend == "none"
NoProcess == "none"

ASSUME DoorAssumption ==
  /\ Backend # {} /\ NoBackend \notin Backend /\ NoProcess \notin Process
  /\ MaxRoutes \in Nat /\ MaxSwitches \in Nat /\ MaxRestarts \in Nat /\ MaxFaults \in Nat

VARIABLES
  config,     \* the configuration file, and its mtime
  last,       \* lastBackend, and lastBackendConfigMtimeMs
  refresh,    \* refreshBackendTarget
  events,     \* the watcher has something to tell
  routes,     \* processRoutes
  saved,      \* the file of routes
  persist,    \* schedulePersistProcessRoutes: dirty, and what is being written
  req,        \* each request
  proc,       \* each process: the backend that started it, and how far it is
  restarts, faults,
  told,       \* ghost: processes a client was told of
  lost,       \* ghost: processes whose route did not survive a restart
  unsaved,    \* ghost: the last write of the routes failed
  overlap     \* ghost: the configuration changed between a refresh's read and its stat

frontVars == <<last, refresh, routes, persist, req>>
ghosts == <<told, lost, unsaved, overlap>>
bounds == <<restarts, faults>>
doorVars == <<config, last, refresh, events, routes, saved, persist, req, proc, restarts, faults, told, lost, unsaved, overlap>>

Target == Backend \cup {NoBackend}
Routes == [Process -> Target]
\* A call of start_process (or any that names no process), one that names a process, and
\* of these one whose tool is not read_output or kill_process.
Tool == {"start_process", "read_or_kill", "other"}
\* "ok" is a ghost: the backends the request may go to.
RequestState == [at : {"idle", "stat", "wait", "sent", "answered"}, tool : Tool, id : Process \cup {NoProcess},
                 to : Target, ok : SUBSET Backend, ended : BOOLEAN]
Idle == [at |-> "idle", tool |-> "other", id |-> NoProcess, to |-> NoBackend, ok |-> {}, ended |-> FALSE]
Choosing(r) == req[r].at \in {"stat", "wait"}

DoorTypes ==
  /\ config \in [backend : Backend, mtime : 0 .. MaxSwitches]
  /\ last \in [backend : Backend, mtime : -1 .. MaxSwitches]
  /\ refresh \in {"none", "read", "stat"}
  /\ events \in BOOLEAN
  /\ routes \in Routes /\ saved \in Routes
  /\ persist \in [dirty : BOOLEAN, writing : SUBSET Routes]
  /\ req \in [HttpRequest -> RequestState]
  /\ proc \in [Process -> [by : Target, at : {"none", "running", "ended"}]]
  /\ restarts \in 0 .. MaxRestarts /\ faults \in 0 .. MaxFaults
  /\ told \subseteq Process /\ lost \subseteq Process /\ unsaved \in BOOLEAN /\ overlap \in BOOLEAN

NoRoutes == [p \in Process |-> NoBackend]

DoorInit ==
  /\ config \in [backend : Backend, mtime : {0}]
  /\ last = [config EXCEPT !.mtime = -1]
  /\ refresh = "none" /\ events = FALSE
  /\ routes = NoRoutes /\ saved = NoRoutes
  /\ persist = [dirty |-> FALSE, writing |-> {}]
  /\ req = [r \in HttpRequest |-> Idle]
  /\ proc = [p \in Process |-> [by |-> NoBackend, at |-> "none"]]
  /\ restarts = 0 /\ faults = 0
  /\ told = {} /\ lost = {} /\ unsaved = FALSE /\ overlap = FALSE

Fault == faults < MaxFaults /\ faults' = faults + 1

-----------------------------------------------------------------------------
(* The configuration (switch-backend.ps1) and refreshBackendTarget.        *)

\* Only to a backend that is healthy and not the configured one; by rename.
Switch ==
  /\ config.mtime < MaxSwitches
  /\ \E b \in Backend \ {config.backend} :
       /\ config' = [backend |-> b, mtime |-> config.mtime + 1]
       /\ req' = [r \in HttpRequest |-> IF Choosing(r) THEN [req[r] EXCEPT !.ok = @ \cup {b}] ELSE req[r]]
  /\ events' = TRUE
  /\ overlap' = (overlap \/ refresh = "stat")
  /\ UNCHANGED <<last, refresh, routes, persist, saved, proc, bounds, told, lost, unsaved>>

\* The watcher starts a refresh, unless one is under way.
Notice ==
  /\ events /\ events' = FALSE
  /\ refresh' = IF refresh = "none" THEN "read" ELSE refresh
  /\ UNCHANGED <<config, last, routes, saved, persist, req, proc, bounds, ghosts>>

RefreshRead ==
  /\ refresh = "read" /\ refresh' = "stat"
  /\ last' = [last EXCEPT !.backend = config.backend]
  /\ overlap' = FALSE
  /\ UNCHANGED <<config, events, routes, saved, persist, req, proc, bounds, told, lost, unsaved>>

\* A request goes to the backend that is known now.
Sent(q) == [q EXCEPT !.at = "sent", !.to = last.backend, !.ok = IF overlap THEN Backend ELSE @]

\* Who waited for the refresh goes on when it ends; "excuse" is what that allows him.
EndRefresh(excuse) ==
  /\ refresh' = "none"
  /\ req' = [r \in HttpRequest |-> IF req[r].at = "wait" THEN Sent([req[r] EXCEPT !.ok = @ \cup excuse]) ELSE req[r]]

RefreshStat ==
  /\ refresh = "stat" /\ EndRefresh({})
  /\ last' = [last EXCEPT !.mtime = config.mtime]
  /\ UNCHANGED <<config, events, routes, saved, persist, proc, bounds, ghosts>>

\* A read that fails leaves what is known, a stat that fails the mtime.
RefreshFails ==
  /\ refresh # "none" /\ Fault /\ EndRefresh(IF refresh = "read" THEN Backend ELSE {})
  /\ UNCHANGED <<config, last, events, routes, saved, persist, proc, restarts, ghosts>>

-----------------------------------------------------------------------------
(* proxyRequest.                                                           *)

\* A request of a client, who names processes he was told of.
Begin(r) ==
  /\ req[r].at = "idle"
  /\ \E tool \in Tool, p \in told \cup {NoProcess} :
       /\ (p = NoProcess) = (tool = "start_process")
       /\ LET pinned == IF p = NoProcess THEN NoBackend ELSE routes[p]
              q == [Idle EXCEPT !.tool = tool, !.id = p]
          IN req' = [req EXCEPT ![r] = IF pinned = NoBackend THEN [q EXCEPT !.at = "stat", !.ok = {config.backend}]
                                       ELSE [q EXCEPT !.at = "sent", !.to = pinned, !.ok = {pinned}]]
  /\ UNCHANGED <<config, last, refresh, events, routes, saved, persist, proc, bounds, ghosts>>

\* Mutant of Stat: what a refresh under way will find is not waited for.
StatOnly(r) ==
  /\ req[r].at = "stat"
  /\ refresh' = IF refresh = "none" /\ config.mtime # last.mtime THEN "read" ELSE refresh
  /\ req' = [req EXCEPT ![r] = Sent(@)]
  /\ UNCHANGED <<config, last, events, routes, saved, persist, proc, bounds, ghosts>>

\* refreshBackendTargetIfChanged.
Stat(r) ==
  /\ req[r].at = "stat"
  /\ LET changed == config.mtime # last.mtime IN
     /\ refresh' = IF changed /\ refresh = "none" THEN "read" ELSE refresh
     /\ req' = [req EXCEPT ![r] = IF changed \/ refresh # "none" THEN [@ EXCEPT !.at = "wait"] ELSE Sent(@)]
  /\ UNCHANGED <<config, last, events, routes, saved, persist, proc, bounds, ghosts>>

StatFails(r) ==
  /\ req[r].at = "stat" /\ Fault
  /\ LET q == [req[r] EXCEPT !.ok = Backend] IN
     req' = [req EXCEPT ![r] = IF refresh # "none" THEN [q EXCEPT !.at = "wait"] ELSE Sent(q)]
  /\ UNCHANGED <<config, last, refresh, events, routes, saved, persist, proc, restarts, ghosts>>

\* What the backend does: it starts a process or does not; it tells whether one has ended
\* (a kill may end it now).  "ended" says that the answer has running false, killed or
\* already_exited.
Started(r) ==
  \E p \in Process :
    /\ proc[p].at = "none"
    /\ proc' = [proc EXCEPT ![p] = [by |-> req[r].to, at |-> "running"]]
    /\ req' = [req EXCEPT ![r].at = "answered", ![r].id = p, ![r].ok = {}]
Looked(r, at) ==
  LET p == req[r].id IN
  /\ proc' = [proc EXCEPT ![p].at = at]
  /\ req' = [req EXCEPT ![r] = [Idle EXCEPT !.at = "answered", !.tool = req[r].tool, !.id = p,
                                            !.ended = (at = "ended")]]
Failed(r) == req' = [req EXCEPT ![r] = Idle] /\ UNCHANGED proc

Serve(r) ==
  /\ req[r].at = "sent"
  /\ CASE req[r].tool = "start_process" -> Started(r) \/ Failed(r)
       [] req[r].tool = "read_or_kill" -> Looked(r, proc[req[r].id].at) \/ Looked(r, "ended")
       [] OTHER -> Looked(r, proc[req[r].id].at)
  /\ UNCHANGED <<config, last, refresh, events, routes, saved, persist, bounds, ghosts>>

\* The loop that writes the routes: a write takes what the routes are when it begins.
Scheduled(now) == IF persist.writing = {} THEN [dirty |-> FALSE, writing |-> {now}] ELSE [persist EXCEPT !.dirty = TRUE]
WriteEnds == IF persist.dirty THEN [dirty |-> FALSE, writing |-> {routes}] ELSE [persist EXCEPT !.writing = {}]

\* Mutant of Routed: whatever is asked about a process ends its route.
RoutedOnce(q) == [routes EXCEPT ![q.id] = IF q.tool = "start_process" THEN q.to ELSE NoBackend]
\* updateProcessRoute.
Routed(q) ==
  CASE q.tool = "start_process" -> [routes EXCEPT ![q.id] = q.to]
    [] q.tool = "read_or_kill" /\ q.ended -> [routes EXCEPT ![q.id] = NoBackend]
    [] OTHER -> routes

\* The end of the response: the route first, then the end of the answer to the client.
Answer(r) ==
  LET q == req[r] now == Routed(q) IN
  /\ q.at = "answered"
  /\ routes' = now
  /\ persist' = IF now = routes THEN persist ELSE Scheduled(now)
  /\ told' = told \cup {q.id}
  /\ req' = [req EXCEPT ![r] = Idle]
  /\ UNCHANGED <<config, last, refresh, events, saved, proc, bounds, lost, unsaved, overlap>>

\* 503, because the backend is not there or does not answer in time, or the client leaves;
\* the backend may have done what was asked.
Unanswered(r) ==
  /\ req[r].at \in {"sent", "answered"}
  /\ req' = [req EXCEPT ![r] = Idle]
  /\ UNCHANGED <<config, last, refresh, events, routes, saved, persist, proc, bounds, ghosts>>

-----------------------------------------------------------------------------
(* The file of routes.                                                     *)

PersistWrite ==
  /\ persist.writing # {}
  /\ saved' \in persist.writing /\ persist' = WriteEnds /\ unsaved' = FALSE
  /\ UNCHANGED <<config, last, refresh, events, routes, req, proc, bounds, told, lost, overlap>>

\* Logged, and not tried again before a route changes.
PersistFails ==
  /\ persist.writing # {} /\ Fault
  /\ persist' = WriteEnds /\ unsaved' = TRUE
  /\ UNCHANGED <<config, last, refresh, events, routes, saved, req, proc, restarts, told, lost, overlap>>

\* The front door dies and is started again: it reads the configuration and the routes, and
\* drops the routes that are too old or too many.
Restart ==
  /\ restarts < MaxRestarts /\ restarts' = restarts + 1
  /\ last' = [backend |-> config.backend, mtime |-> -1]
  /\ refresh' = "none" /\ events' = FALSE
  /\ \E kept \in SUBSET {p \in Process : saved[p] # NoBackend} :
       /\ Cardinality(kept) <= MaxRoutes
       /\ routes' = [p \in Process |-> IF p \in kept THEN saved[p] ELSE NoBackend]
  /\ lost' = {p \in Process : routes'[p] # proc[p].by}
  /\ persist' = [dirty |-> FALSE, writing |-> IF routes' = saved THEN {} ELSE {routes'}]
  /\ req' = [r \in HttpRequest |-> Idle]
  /\ unsaved' = FALSE /\ overlap' = FALSE
  /\ UNCHANGED <<config, saved, proc, faults, told>>

-----------------------------------------------------------------------------
(* The backends.                                                           *)

\* A backend dies, and its processes with it; its supervisor starts it again on its port, and
\* meanwhile requests are not answered.
BackendDies(b) ==
  /\ Fault /\ \E p \in Process : proc[p] = [by |-> b, at |-> "running"]
  /\ proc' = [p \in Process |-> IF proc[p].by = b THEN [proc[p] EXCEPT !.at = "ended"] ELSE proc[p]]
  /\ UNCHANGED <<config, frontVars, events, saved, restarts, ghosts>>

Ends(p) ==
  /\ proc[p].at = "running" /\ proc' = [proc EXCEPT ![p].at = "ended"]
  /\ UNCHANGED <<config, frontVars, events, saved, bounds, ghosts>>

-----------------------------------------------------------------------------
Refresh == RefreshRead \/ RefreshStat \/ RefreshFails
Proxy(r) == Stat(r) \/ StatFails(r) \/ Serve(r) \/ Answer(r) \/ Unanswered(r)
Persist == PersistWrite \/ PersistFails

DoorNext ==
  \/ Switch \/ Notice \/ Refresh \/ Persist \/ Restart
  \/ \E r \in HttpRequest : Begin(r) \/ Proxy(r)
  \/ \E b \in Backend : BackendDies(b)
  \/ \E p \in Process : Ends(p)

DoorSpec == DoorInit /\ [][DoorNext]_doorVars

-----------------------------------------------------------------------------
(* Properties.                                                             *)

\* A process that a client was told of and that still runs is reached where it was started,
\* whatever was switched since, unless a restart found no route of it.
ReachedAtHome ==
  \A p \in told : proc[p].at = "running" /\ p \notin lost =>
    /\ routes[p] = proc[p].by
    /\ \A r \in HttpRequest : req[r].at = "sent" /\ req[r].id = p => req[r].to = proc[p].by

\* A request that is not pinned goes to a backend that was configured when it came or since,
\* unless the file could not be read, or a switch fell between the read of a refresh and its stat:
\* then the refresh takes the old backend for the new mtime.
FollowsTheSwitch == \A r \in HttpRequest : req[r].at = "sent" => req[r].to \in req[r].ok

\* When the loop has ended the file has the routes, unless its last write failed.
RoutesAreSaved == persist.writing = {} /\ ~unsaved => saved = routes

\* Neither the target nor the file of routes falls behind (refreshBackendTarget,
\* schedulePersistProcessRoutes).
NothingFallsBehind == FollowsTheSwitch /\ RoutesAreSaved
=============================================================================
