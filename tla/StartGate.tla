------------------------------ MODULE StartGate ------------------------------
(***************************************************************************)
(* A start call from its entry to its answer (startWithWait,               *)
(* startScriptWithWait, startStructuredWithWait): the working directory,   *)
(* the preflight, which for a long command is a message to a worker        *)
(* thread, the retrieval stop, the checks, the slot and the spools, the    *)
(* launch, and the wait for the process within the call.  What happens to  *)
(* the process is ProcessLifecycle's, what the retrieval stop says         *)
(* RetrievalStop's; here it is open.                                       *)
(***************************************************************************)
EXTENDS Integers, Sequences, FiniteSets

CONSTANTS Call, CallerOf,
          IdentityOf,   \* dedupeIdentity, cwd, target and action class
          Long,         \* calls with a command of PREFLIGHT_WORKER_THRESHOLD_CHARS
          Plain,        \* calls that ask for no wait
          Signalled,    \* calls with an abort signal
          MaxLivePerCaller

GateAssumption ==
    /\ IsFiniteSet(Call) /\ Long \subseteq Call
    /\ MaxLivePerCaller \in Nat \ {0}

VARIABLES
    call,      \* where each call is
    process,   \* its process: "none", "launching", "running", "ended"
    held,      \* host slots, by call
    follows,   \* the process whose end the call waits for: another's if it was reused
    worker,    \* sharedPreflightWorker: "none", "up", "dead" (not yet noticed), "failed"
    posted,    \* messages to the worker
    answers,   \* messages from the worker: call and verdict
    waiters,   \* preflightWorkerWaiters
    verdict,   \* ghost: what the policy said of the call's command
    overlapped \* ghost: pairs of calls that were between their checks and their launch at once

gateVars == <<call, process, held, follows, worker, posted, answers, waiters, verdict, overlapped>>
WorkerVars == <<worker, posted, answers, waiters>>
Effects == <<process, held, follows, overlapped>>

GateInit ==
    /\ call = [c \in Call |-> "idle"]
    /\ process = [c \in Call |-> "none"] /\ held = {} /\ follows = [c \in Call |-> c]
    /\ worker = "none" /\ posted = <<>> /\ answers = <<>> /\ waiters = {}
    /\ verdict = [c \in Call |-> "none"] /\ overlapped = {}

Goes(c, at) == call' = [call EXCEPT ![c] = at]
Fails(c) == Goes(c, "failed")

(***************************************************************************)
(* Working directory and preflight                                         *)
(***************************************************************************)
Enter(c) ==
    /\ call[c] = "idle" /\ Goes(c, "validating")
    /\ UNCHANGED <<Effects, WorkerVars, verdict>>

\* The directory is found, or cannot be looked at within 250 ms; then the short command
\* is looked at in the same step, the long one is posted.
FoundOrLate(c) ==
    /\ call[c] = "validating"
    /\ IF c \in Long
       THEN IF worker = "failed"
            THEN Fails(c) /\ UNCHANGED <<WorkerVars, verdict>>
            ELSE /\ Goes(c, "preflight")
                 /\ worker' = IF worker = "none" THEN "up" ELSE worker
                 /\ posted' = IF worker = "dead" THEN posted ELSE Append(posted, c)
                 /\ waiters' = waiters \cup {c}
                 /\ UNCHANGED <<answers, verdict>>
       ELSE \E says \in {"fit", "unfit"} :
                /\ Goes(c, IF says = "fit" THEN "looking" ELSE "failed")
                /\ verdict' = [verdict EXCEPT ![c] = says]
                /\ UNCHANGED WorkerVars
    /\ UNCHANGED Effects

\* It is not there, or not a directory.
NoDirectory(c) ==
    /\ call[c] = "validating" /\ Fails(c)
    /\ UNCHANGED <<Effects, WorkerVars, verdict>>

\* The worker takes one message at a time; a check may throw, or never end.
WorkerChecks ==
    /\ worker = "up" /\ posted # <<>>
    /\ posted' = Tail(posted)
    /\ \E says \in {"fit", "unfit", "threw"} :
          /\ answers' = Append(answers, [of |-> Head(posted), says |-> says])
          /\ verdict' = [verdict EXCEPT ![Head(posted)] = says]
    /\ UNCHANGED <<call, Effects, worker, waiters>>

\* An answer for a call that waits no more is dropped.
HearAnswer ==
    /\ answers # <<>>
    /\ answers' = Tail(answers)
    /\ LET a == Head(answers)
       IN IF a.of \in waiters
          THEN /\ waiters' = waiters \ {a.of}
               /\ Goes(a.of, IF a.says = "fit" THEN "looking" ELSE "failed")
          ELSE UNCHANGED <<call, waiters>>
    /\ UNCHANGED <<Effects, worker, posted, verdict>>

\* Mutant of IsLate: nobody looks at the clock.
NeverLate(c) == FALSE

\* The timer of ten seconds.
IsLate(c) == c \in waiters
PreflightTimeout(c) ==
    /\ IsLate(c)
    /\ waiters' = waiters \ {c} /\ Fails(c)
    /\ UNCHANGED <<Effects, worker, posted, answers, verdict>>

WorkerDies ==
    /\ worker = "up"
    /\ worker' = "dead" /\ posted' = <<>>
    /\ UNCHANGED <<call, Effects, answers, waiters, verdict>>

\* What the death of the worker does to the calls that wait for it: they are rejected,
\* as is every long command from then on.
RejectsAll == [c \in Call |-> IF c \in waiters THEN "failed" ELSE call[c]]
HearDeath ==
    /\ worker = "dead" /\ answers = <<>>
    /\ worker' = "failed" /\ waiters' = {}
    /\ call' = RejectsAll
    /\ UNCHANGED <<Effects, posted, answers, verdict>>

(***************************************************************************)
(* Checks, slot, spools, launch                                            *)
(***************************************************************************)
Stopped(c) ==
    /\ call[c] = "looking" /\ Fails(c)
    /\ UNCHANGED <<Effects, WorkerVars, verdict>>

Live(c) == process[c] \in {"launching", "running"}

\* Mutant of LiveOfCaller: only processes that have their pid are counted.
LiveWithPid(c) == {q \in Call : process[q] = "running" /\ CallerOf[q] = CallerOf[c]}

\* Those that count against a call of the same caller: all that have not ended.
LiveOfCaller(c) == {q \in Call : Live(q) /\ CallerOf[q] = CallerOf[c]}
Twins(c) == {q \in LiveOfCaller(c) : IdentityOf[q] = IdentityOf[c]}

Gap == {c \in Call : call[c] \in {"claiming", "spooling"}}

\* Between two awaits: a twin is given in its place, the cap and a failed launcher refuse.
Check(c) ==
    /\ call[c] = "looking"
    /\ \/ \E q \in Twins(c) :
             /\ Goes(c, IF c \in Plain THEN "answered" ELSE "waiting")
             /\ follows' = [follows EXCEPT ![c] = q]
             /\ UNCHANGED overlapped
       \/ /\ Twins(c) = {} /\ Cardinality(LiveOfCaller(c)) >= MaxLivePerCaller
          /\ Goes(c, "rejecting") /\ UNCHANGED <<follows, overlapped>>
       \/ /\ Twins(c) = {} /\ Cardinality(LiveOfCaller(c)) < MaxLivePerCaller
          /\ Goes(c, "claiming")
          /\ overlapped' = overlapped \cup {{c, q} : q \in Gap}
          /\ UNCHANGED follows
       \/ Twins(c) = {} /\ Fails(c) /\ UNCHANGED <<follows, overlapped>>
    /\ UNCHANGED <<process, held, WorkerVars, verdict>>

\* The rejection is archived, or that fails; either way the call fails after it.
Archive(c) ==
    /\ call[c] = "rejecting" /\ Fails(c)
    /\ UNCHANGED <<Effects, WorkerVars, verdict>>

Claim(c) ==
    /\ call[c] = "claiming"
    /\ \/ Goes(c, "spooling") /\ held' = held \cup {c}
       \/ Goes(c, "rejecting") /\ UNCHANGED held
       \/ Fails(c) /\ UNCHANGED held
    /\ UNCHANGED <<process, follows, overlapped, WorkerVars, verdict>>

SpoolsFail(c) ==
    /\ call[c] = "spooling"
    /\ Goes(c, "unwinding")
    /\ UNCHANGED <<Effects, WorkerVars, verdict>>
GiveBack(c) ==
    /\ call[c] = "unwinding"
    /\ held' = held \ {c} /\ Fails(c)
    /\ UNCHANGED <<process, follows, overlapped, WorkerVars, verdict>>

Launch(c) ==
    /\ call[c] = "spooling"
    /\ process' = [process EXCEPT ![c] = "launching"]
    /\ Goes(c, IF c \in Plain THEN "answered" ELSE "waiting")
    /\ UNCHANGED <<held, follows, overlapped, WorkerVars, verdict>>

(***************************************************************************)
(* The process, and the wait for it                                        *)
(***************************************************************************)
Starts(c) ==
    /\ process[c] = "launching" /\ process' = [process EXCEPT ![c] = "running"]
    /\ UNCHANGED <<call, held, follows, overlapped, WorkerVars, verdict>>
Ends(c) ==
    /\ Live(c) /\ process' = [process EXCEPT ![c] = "ended"]
    /\ UNCHANGED <<call, held, follows, overlapped, WorkerVars, verdict>>
SlotReleased(c) ==
    /\ process[c] = "ended" /\ c \in held /\ held' = held \ {c}
    /\ UNCHANGED <<call, process, follows, overlapped, WorkerVars, verdict>>

\* The process ends or the time is over: it is read, and the call answered.
WaitIsOver(c) == TRUE
Answer(c) ==
    /\ call[c] = "waiting" /\ WaitIsOver(c)
    /\ Goes(c, "answered")
    /\ UNCHANGED <<Effects, WorkerVars, verdict>>

\* The client goes away: the call fails, its process lives on.
Abort(c) ==
    /\ call[c] = "waiting" /\ c \in Signalled
    /\ Goes(c, "aborted")
    /\ UNCHANGED <<Effects, WorkerVars, verdict>>

CallNext(c) ==
    \/ Enter(c) \/ FoundOrLate(c) \/ NoDirectory(c) \/ PreflightTimeout(c) \/ Stopped(c)
    \/ Check(c) \/ Archive(c) \/ Claim(c) \/ SpoolsFail(c) \/ GiveBack(c) \/ Launch(c)
    \/ Starts(c) \/ Ends(c) \/ SlotReleased(c) \/ Answer(c) \/ Abort(c)
GateNext ==
    \/ \E c \in Call : CallNext(c)
    \/ WorkerChecks \/ HearAnswer \/ WorkerDies \/ HearDeath

\* The event loop takes every step of a call that is ready, timers included.  Nothing is
\* assumed of the worker, which may hang in a check, nor of processes, which may not end.
GateFairness ==
    \A c \in Call :
        /\ WF_gateVars(FoundOrLate(c) \/ NoDirectory(c))
        /\ WF_gateVars(PreflightTimeout(c))
        /\ WF_gateVars(Stopped(c) \/ Check(c))
        /\ WF_gateVars(Archive(c) \/ Claim(c) \/ SpoolsFail(c) \/ GiveBack(c) \/ Launch(c))
        /\ WF_gateVars(Answer(c))
GateSpec == GateInit /\ [][GateNext]_gateVars /\ GateFairness

\* A process is launched only for a command that the policy was asked about and passed,
\* whether the worker dies with the question, answers late or throws.
NoUncheckedStart ==
    \A c \in Call : process[c] # "none" => verdict[c] = "fit"

\* Two live processes of one identity, and more live ones than a caller may have, come
\* only from calls that were between their checks and their launch at the same time.
ExcessOverlaps ==
    /\ \A c, d \in Call :
          Live(c) /\ Live(d) /\ c # d /\ CallerOf[c] = CallerOf[d] /\ IdentityOf[c] = IdentityOf[d] =>
              {c, d} \in overlapped
    /\ \A c \in Call : \A S \in SUBSET LiveOfCaller(c) :
          Cardinality(S) > MaxLivePerCaller => \E p, q \in S : p # q /\ {p, q} \in overlapped

\* Every start call comes to an end, with an answer or an error, although the worker
\* hangs or dies and the process runs for ever; and a call that failed holds no slot.
CallsAreAnswered ==
    /\ \A c \in Call : call[c] # "idle" ~> call[c] \in {"answered", "failed", "aborted"}
    /\ [](\A c \in Call : call[c] = "failed" => c \notin held)

GateTypes ==
    /\ \A c \in Call : call[c] \in
          {"idle", "validating", "preflight", "looking", "rejecting", "claiming", "spooling",
           "unwinding", "waiting", "answered", "failed", "aborted"}
    /\ \A c \in Call : process[c] \in {"none", "launching", "running", "ended"}
    /\ held \subseteq Call /\ waiters \subseteq Long /\ follows \in [Call -> Call]
    /\ Len(posted) + Len(answers) <= Cardinality(Long)
=============================================================================
