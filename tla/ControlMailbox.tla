----------------------------- MODULE ControlMailbox -----------------------------
(***************************************************************************)
(* A server that is asked to read or kill a process it does not know writes *)
(* a request file; the server that has the process finds it in a sweep of   *)
(* the directory, does what is asked, writes a response file and unlinks    *)
(* the request.  The asker waits for the response until a deadline and then *)
(* unlinks both.                                                           *)
(*                                                                         *)
(* Sweeps are started by file events and by a timer and may overlap; each   *)
(* one reads the requests it found one by one.  Files appear under their    *)
(* name by a rename, so a file that can be read is complete.  What a        *)
(* request does at the owner is one step: for a read, the next page is      *)
(* taken from the caller's cursor.                                         *)
(***************************************************************************)
EXTENDS Naturals, FiniteSets

CONSTANTS
  Request,   \* calls at other servers, about one process
  Sweep,     \* bound: sweeps of the owner at a time
  Handler,   \* bound: requests the owner handles at a time
  MaxRuns,   \* bound: executions of one request
  None       \* no request

ASSUME ConstantsAssumption ==
  /\ None \notin Request
  /\ MaxRuns \in Nat

VARIABLES
  asker,      \* requestRemoteControl of each request
  late,       \* its deadline has passed
  request,    \* request files
  response,   \* response files: the execution whose result is in it, or 0
  knows,      \* the process is in the map of the owner
  sweep,      \* each sweep: what it has listed and what it has read
  inFlight,   \* controlRequestsInFlight
  handler,    \* handleControlRequest: the request and how far it is
  runs,       \* executions of each request that took effect
  got,        \* the execution whose result the asker has
  overtaken   \* ghost: requests a sweep had read when their execution ended

askerVars == <<asker, got>>
files == <<request, response>>
ownerVars == <<knows, sweep, inFlight, handler, runs>>
vars == <<askerVars, late, files, ownerVars, overtaken>>

AskerState == {"new", "writing", "waiting", "settled", "cleaning", "done", "dead"}
Free == [req |-> None, at |-> "free"]

TypeOK ==
  /\ asker \in [Request -> AskerState]
  /\ late \in [Request -> BOOLEAN]
  /\ request \subseteq Request
  /\ response \in [Request -> 0 .. MaxRuns]
  /\ knows \in BOOLEAN
  /\ sweep \in [Sweep -> [todo : SUBSET Request, have : Request \cup {None}]]
  /\ inFlight \subseteq Request
  /\ handler \in [Handler -> [req : Request \cup {None}, at : {"free", "run", "respond", "unlink"}]]
  /\ runs \in [Request -> 0 .. MaxRuns]
  /\ got \in [Request -> 0 .. MaxRuns]
  /\ overtaken \subseteq Request

NotSweeping == [todo |-> {}, have |-> None]

Init ==
  /\ asker = [r \in Request |-> "new"]
  /\ late = [r \in Request |-> FALSE]
  /\ request = {}
  /\ response = [r \in Request |-> 0]
  /\ knows = TRUE
  /\ sweep = [k \in Sweep |-> NotSweeping]
  /\ inFlight = {}
  /\ handler = [h \in Handler |-> Free]
  /\ runs = [r \in Request |-> 0]
  /\ got = [r \in Request |-> 0]
  /\ overtaken = {}

-----------------------------------------------------------------------------
(* The asker: requestRemoteControl.                                        *)

Asker(r, from, to) == asker[r] = from /\ asker' = [asker EXCEPT ![r] = to]

\* The deadline is fixed, then the request is written.
Ask(r) ==
  /\ Asker(r, "new", "writing")
  /\ UNCHANGED <<late, files, ownerVars, got, overtaken>>

WriteRequest(r) ==
  /\ \/ Asker(r, "writing", "waiting") /\ request' = request \cup {r}
     \/ Asker(r, "writing", "done") /\ UNCHANGED request
  /\ UNCHANGED <<late, response, ownerVars, got, overtaken>>

\* waitForControlResponse: tryRead, at first and at each event of the directory.
TryRead(r) ==
  /\ Asker(r, "waiting", "settled")
  /\ response[r] > 0
  /\ got' = [got EXCEPT ![r] = response[r]]
  /\ UNCHANGED <<late, files, ownerVars, overtaken>>

\* Mutant of Timeout: a request that was taken up is waited for.
TimeoutUntaken(r) ==
  /\ Asker(r, "waiting", "settled")
  /\ late[r] /\ r \in request
  /\ UNCHANGED <<late, files, ownerVars, got, overtaken>>

\* Its timer.
Timeout(r) ==
  /\ Asker(r, "waiting", "settled")
  /\ late[r]
  /\ UNCHANGED <<late, files, ownerVars, got, overtaken>>

\* The caller is gone, or the directory cannot be watched.
GiveUp(r) ==
  /\ Asker(r, "waiting", "settled")
  /\ UNCHANGED <<late, files, ownerVars, got, overtaken>>

\* finally: both files are unlinked.
CleanRequest(r) ==
  /\ Asker(r, "settled", "cleaning")
  /\ request' = request \ {r}
  /\ UNCHANGED <<late, response, ownerVars, got, overtaken>>

CleanResponse(r) ==
  /\ Asker(r, "cleaning", "done")
  /\ response' = [response EXCEPT ![r] = 0]
  /\ UNCHANGED <<late, request, ownerVars, got, overtaken>>

AskerDies(r) ==
  /\ asker[r] \notin {"new", "done", "dead"}
  /\ asker' = [asker EXCEPT ![r] = "dead"]
  /\ UNCHANGED <<late, files, ownerVars, got, overtaken>>

DeadlinePasses(r) ==
  /\ asker[r] # "new" /\ ~late[r]
  /\ late' = [late EXCEPT ![r] = TRUE]
  /\ UNCHANGED <<askerVars, files, ownerVars, overtaken>>

-----------------------------------------------------------------------------
(* The owner: sweepControlRequestsAsync, handleControlRequest.             *)

BeginSweep(k) ==
  /\ sweep[k] = NotSweeping
  /\ request # {}
  /\ sweep' = [sweep EXCEPT ![k].todo = request]
  /\ UNCHANGED <<askerVars, late, files, knows, inFlight, handler, runs, overtaken>>

SweepRead(k, r) ==
  /\ sweep[k].have = None
  /\ r \in sweep[k].todo
  /\ sweep' = [sweep EXCEPT ![k] = [todo |-> @.todo \ {r}, have |-> IF r \in request THEN r ELSE None]]
  /\ UNCHANGED <<askerVars, late, files, knows, inFlight, handler, runs, overtaken>>

Handling(h, r, place) == handler[h] = [req |-> r, at |-> place]
Move(h, place) == handler' = [handler EXCEPT ![h].at = place]

\* Mutant of SweepDecide: requests in flight are not looked for.
DecideAgain(k, r) ==
  /\ sweep[k].have = r /\ r # None
  /\ sweep' = [sweep EXCEPT ![k].have = None]
  /\ IF late[r]
       THEN request' = request \ {r} /\ UNCHANGED <<inFlight, handler>>
       ELSE /\ \/ ~knows /\ UNCHANGED <<inFlight, handler>>
               \/ \E h \in Handler :
                    /\ knows /\ handler[h] = Free /\ runs[r] < MaxRuns
                    /\ inFlight' = inFlight \cup {r}
                    /\ handler' = [handler EXCEPT ![h] = [req |-> r, at |-> "run"]]
            /\ UNCHANGED request
  /\ UNCHANGED <<askerVars, late, response, knows, runs, overtaken>>

\* A late request is unlinked; one for a process of this server that is not in
\* flight is handled, and the sweep goes on.
SweepDecide(k, r) ==
  /\ sweep[k].have = r /\ r # None
  /\ sweep' = [sweep EXCEPT ![k].have = None]
  /\ IF late[r]
       THEN request' = request \ {r} /\ UNCHANGED <<inFlight, handler>>
       ELSE /\ \/ (~knows \/ r \in inFlight) /\ UNCHANGED <<inFlight, handler>>
               \/ \E h \in Handler :
                    /\ knows /\ r \notin inFlight /\ handler[h] = Free /\ runs[r] < MaxRuns
                    /\ inFlight' = inFlight \cup {r}
                    /\ handler' = [handler EXCEPT ![h] = [req |-> r, at |-> "run"]]
            /\ UNCHANGED request
  /\ UNCHANGED <<askerVars, late, response, knows, runs, overtaken>>

\* The page is taken, or the process killed.
Execute(h, r) ==
  /\ Handling(h, r, "run")
  /\ Move(h, "respond")
  /\ runs' = [runs EXCEPT ![r] = @ + 1]
  /\ UNCHANGED <<askerVars, late, files, knows, sweep, inFlight, overtaken>>

\* writeControlFileAsync; if it fails, the request is unlinked all the same.
Respond(h, r) ==
  /\ Handling(h, r, "respond")
  /\ Move(h, "unlink")
  /\ response' \in {response, [response EXCEPT ![r] = runs[r]]}
  /\ UNCHANGED <<askerVars, late, request, knows, sweep, inFlight, runs, overtaken>>

\* The request goes, then its mark.
Finish(h, r) ==
  /\ Handling(h, r, "unlink")
  /\ request' = request \ {r}
  /\ inFlight' = inFlight \ {r}
  /\ handler' = [handler EXCEPT ![h] = Free]
  /\ overtaken' = overtaken \cup {q \in {r} : \E k \in Sweep : sweep[k].have = q}
  /\ UNCHANGED <<askerVars, late, response, knows, sweep, runs>>

\* pruneCompleted drops a process that has ended; or the owner dies, and is started
\* again without it.
Forget ==
  /\ knows
  /\ knows' = FALSE
  /\ UNCHANGED <<askerVars, late, files, sweep, inFlight, handler, runs, overtaken>>

OwnerDies ==
  /\ knows
  /\ knows' = FALSE
  /\ sweep' = [k \in Sweep |-> NotSweeping]
  /\ inFlight' = {}
  /\ handler' = [h \in Handler |-> Free]
  /\ UNCHANGED <<askerVars, late, files, runs, overtaken>>

-----------------------------------------------------------------------------

AskerGoesOn(r) == WriteRequest(r) \/ TryRead(r) \/ Timeout(r) \/ CleanRequest(r) \/ CleanResponse(r)

SweepStep(k) == BeginSweep(k) \/ \E r \in Request : SweepRead(k, r) \/ SweepDecide(k, r)

HandlerStep(h) == \E r \in Request : Execute(h, r) \/ Respond(h, r) \/ Finish(h, r)

Next ==
  \/ \E r \in Request : Ask(r) \/ AskerGoesOn(r) \/ GiveUp(r) \/ AskerDies(r) \/ DeadlinePasses(r)
  \/ \E k \in Sweep : SweepStep(k)
  \/ \E h \in Handler : HandlerStep(h)
  \/ Forget \/ OwnerDies

Spec == Init /\ [][Next]_vars

(***************************************************************************)
(* Time passes, files answer, and the timer of CONTROL_RECONCILE_MS sweeps  *)
(* again and again.  Nothing makes an execution end.                       *)
(***************************************************************************)
FairSpec ==
  /\ Spec
  /\ \A r \in Request : WF_vars(AskerGoesOn(r)) /\ WF_vars(DeadlinePasses(r))
  /\ \A k \in Sweep : WF_vars(SweepStep(k))

-----------------------------------------------------------------------------
(* Properties.                                                             *)

\* A request is never handled twice at the same time, however sweeps overlap.
OneAtATime ==
  \A h, g \in Handler : h # g /\ handler[h].at # "free" => handler[g].req # handler[h].req

\* It is executed again only for a sweep that had read it when its execution ended:
\* the pages of all other reads are taken once.
AgainOnlyWhenOvertaken == \A r \in Request : runs[r] > 1 => r \in overtaken

\* A request takes effect once, except for a sweep that was overtaken
\* (handleControlRequest, controlInFlight).
EffectIsTakenOnce == OneAtATime /\ AgainOnlyWhenOvertaken

\* A call at a server that does not have the process ends, whatever dies at the
\* other.
AskerSettles == \A r \in Request : asker[r] = "waiting" ~> asker[r] \in {"done", "dead"}

\* No request file stays: it is unlinked by its asker, by the server that handled
\* it, or by a sweep once it is late.
RequestGoes == \A r \in Request : r \in request ~> r \notin request

\* Neither the call nor its file outlives the deadline for long.
MailboxEmpties == AskerSettles /\ RequestGoes

\* "Process output remains losslessly retained/pageable through the same
\* process_id" (README.md:37): an asker that is answered has every page that was
\* taken for its request.
RelayedReadIsLossless == \A r \in Request : got[r] > 0 => runs[r] = 1
=============================================================================
