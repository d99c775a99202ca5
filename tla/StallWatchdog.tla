---------------------------- MODULE StallWatchdog ----------------------------
(***************************************************************************)
(* The stall watchdog: the main thread posts a heartbeat in every interval *)
(* (src/lib/stall-watchdog.ts), a worker thread looks every tick how long  *)
(* ago it got one, and writes when a stall begins and when it is over      *)
(* (src/lib/stall-watchdog-worker.ts).  Time goes in ticks; heartbeat and  *)
(* tick have the same length.  Either thread may be held up, by its own    *)
(* work or with the whole host.                                            *)
(***************************************************************************)
EXTENDS Naturals, Sequences

CONSTANTS Threshold,  \* stallThresholdMs, in ticks
          Horizon     \* bound: ages are counted up to here

VARIABLES mainHeld,    \* the main thread is held up
          workerHeld,  \* the worker is held up
          beatAge,     \* main: time since the last heartbeat was posted
          inbox,       \* messages to the worker
          gap,         \* worker: time since a heartbeat was received
          tickAge,     \* worker: time since its last tick (lastTickAt)
          polled,      \* worker: messages were taken since its last tick, as its
                       \* event loop does before the next one
          stall,       \* worker: stallStartedAt is set
          wrote,       \* the last line the worker wrote
          closing,     \* main: "no", "asked" (for half a second at most), "done"
          ended,       \* the worker's thread has ended
          quiet,       \* ghost: how long the main thread has posted nothing, at most,
                       \* since the worker last read a heartbeat
          held         \* ghost: how long the worker made no tick, at most, since then

watchVars == <<mainHeld, workerHeld, beatAge, inbox, gap, tickAge, polled, stall, wrote,
               closing, ended, quiet, held>>

Beat == "heartbeat"
Stop == "stop"
Older(age) == IF age < Horizon THEN age + 1 ELSE age
Longest(a, b) == IF a > b THEN a ELSE b

WatchBegins(at) ==
    /\ mainHeld = FALSE /\ workerHeld = FALSE
    /\ beatAge = 0 /\ inbox = <<Beat>>
    /\ gap = 0 /\ tickAge = 0 /\ polled = TRUE /\ stall = FALSE /\ wrote = "watchdog_started"
    /\ closing = at /\ ended = (at = "done")
    /\ quiet = 0 /\ held = 0
WatchInit == WatchBegins("no")

MainDue == ~mainHeld /\ closing = "no" /\ beatAge >= 1
WorkerDue == ~workerHeld /\ ~ended /\ (inbox # <<>> \/ tickAge >= 1)

\* The interval of the main thread, which ends with the watchdog.
Heartbeat ==
    /\ MainDue
    /\ beatAge' = 0
    /\ inbox' = IF ended THEN inbox ELSE Append(inbox, Beat)
    /\ UNCHANGED <<mainHeld, workerHeld, gap, tickAge, polled, stall, wrote, closing, ended, quiet, held>>

\* A tick of the worker: stalled, if the main thread or the worker itself is late.
Stalled(late) == gap >= Threshold \/ late >= Threshold
Tick ==
    /\ ~workerHeld /\ ~ended /\ tickAge >= 1 /\ (polled \/ inbox = <<>>)
    /\ LET stalled == Stalled(tickAge - 1)
       IN /\ stall' = stalled
          /\ wrote' = IF stalled /\ ~stall THEN "stall_begin"
                      ELSE IF stall /\ ~stalled THEN "stall_recovered" ELSE wrote
    /\ tickAge' = 0 /\ polled' = FALSE
    /\ UNCHANGED <<mainHeld, workerHeld, beatAge, inbox, gap, closing, ended, quiet, held>>

\* Mutant of Beaten: a heartbeat is not taken note of.
MissesBeats == UNCHANGED gap

\* A message arrives: a heartbeat, or the end.
Beaten == gap' = 0
Message ==
    /\ ~workerHeld /\ ~ended /\ inbox # <<>>
    /\ inbox' = Tail(inbox)
    /\ polled' = (Tail(inbox) = <<>>)
    /\ \/ /\ Head(inbox) = Beat
          /\ Beaten
          /\ quiet' = beatAge /\ held' = tickAge
          /\ UNCHANGED <<ended, wrote>>
       \/ /\ Head(inbox) = Stop
          /\ ended' = TRUE /\ wrote' = "watchdog_stopped"
          /\ UNCHANGED <<gap, quiet, held>>
    /\ UNCHANGED <<mainHeld, workerHeld, beatAge, tickAge, stall, closing>>

Close ==
    /\ ~mainHeld /\ closing = "no"
    /\ closing' = "asked" /\ inbox' = Append(inbox, Stop)
    /\ UNCHANGED <<mainHeld, workerHeld, beatAge, gap, tickAge, polled, stall, wrote, ended, quiet, held>>

\* close() has waited for the thread's end, or for half a second, after which it
\* terminates the thread.
WaitIsOver ==
    /\ closing = "asked" /\ ~mainHeld
    /\ closing' = "done" /\ ended' = TRUE
    /\ UNCHANGED <<mainHeld, workerHeld, beatAge, inbox, gap, tickAge, polled, stall, wrote, quiet, held>>

\* A thread is held up, or goes on.
Hold ==
    /\ closing # "done"
    /\ \/ mainHeld' = ~mainHeld /\ UNCHANGED workerHeld
       \/ workerHeld' = ~workerHeld /\ UNCHANGED mainHeld
    /\ UNCHANGED <<beatAge, inbox, gap, tickAge, polled, stall, wrote, closing, ended, quiet, held>>

\* Time passes when no thread that runs has something due; ages that have reached
\* the horizon stay there.
Pass ==
    /\ closing # "done" /\ ~MainDue /\ ~WorkerDue
    /\ beatAge' = Older(beatAge) /\ gap' = Older(gap) /\ tickAge' = Older(tickAge)
    /\ quiet' = Longest(quiet, Older(beatAge))
    /\ held' = IF workerHeld THEN Longest(held, Older(tickAge)) ELSE held
    /\ UNCHANGED <<mainHeld, workerHeld, inbox, polled, stall, wrote, closing, ended>>

Room == Len(inbox) < 3

WatchNext ==
    \/ Room /\ Heartbeat
    \/ Tick \/ Message \/ Close \/ WaitIsOver \/ Hold \/ Pass

\* A thread that is not held up does what is due; time passes.
WatchFairness ==
    /\ WF_watchVars(Room /\ Heartbeat) /\ WF_watchVars(Tick) /\ WF_watchVars(Message)
    /\ WF_watchVars(WaitIsOver) /\ WF_watchVars(Pass)

(***************************************************************************)
(* Properties                                                              *)
(***************************************************************************)
\* No stall is reported of a process whose threads both ran: the main thread
\* posted nothing, or the worker was held up, for the whole of the threshold, although
\* heartbeats are taken late and after the tick (the worker's interval).
NoFalseAlarm ==
    [][stall' /\ ~stall => quiet >= Threshold \/ held >= Threshold]_watchVars

\* A reported stall is over in the end if both threads run: the worker compares
\* with heartbeats of now, not of before.
StallEnds == (<>[](~mainHeld /\ ~workerHeld)) => []<>(~stall \/ ended)

WatchTypes ==
    /\ mainHeld \in BOOLEAN /\ workerHeld \in BOOLEAN /\ stall \in BOOLEAN /\ ended \in BOOLEAN
    /\ {beatAge, gap, tickAge, quiet, held} \subseteq 0..Horizon
    /\ inbox \in Seq({Beat, Stop})
    /\ closing \in {"no", "asked", "done"}
=============================================================================
