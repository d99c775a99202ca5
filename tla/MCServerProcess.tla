--------------------------- MODULE MCServerProcess ---------------------------
(***************************************************************************)
(* Instances of ServerProcess, of StallWatchdog and of SyncStart.  A       *)
(* server meets its watchdog only when it ends, and a start only in that   *)
(* both have the event loop; so each runs while the others rest: as a      *)
(* process that has ended, a watchdog that was closed, calls that wait.    *)
(***************************************************************************)
EXTENDS ServerProcess, SyncStart, TLC

CONSTANTS r1, Threshold, Horizon, s1, s2, s3, c1, c2, c3

\* The first of two servers may die and leave its slot to two calls of the other, or to
\* one call each of two others.
OneCaller == [c \in Call |-> "caller"]
Two == [c \in Call |-> IF c = c1 THEN s1 ELSE s2]
Three == [c \in Call |-> IF c = c1 THEN s1 ELSE IF c = c2 THEN s2 ELSE s3]
SameWork == [c \in Call |-> "same"]
MCSituations == {[server |-> Two, identity |-> SameWork],
                 [server |-> Two, identity |-> [SameWork EXCEPT ![c3] = "other"]],
                 [server |-> Three, identity |-> SameWork]}

\* The threshold is two heartbeats at least (boundedInteger).
ASSUME WatchAssumption == Threshold \in Nat /\ Threshold >= 2 /\ Horizon \in Nat

VARIABLES mainHeld, workerHeld, beatAge, inbox, gap, tickAge, polled, stall, wrote,
          closing, ended, quiet, held
watch == <<mainHeld, workerHeld, beatAge, inbox, gap, tickAge, polled, stall, wrote,
           closing, ended, quiet, held>>
Watch == INSTANCE StallWatchdog

VARIABLE runs   \* which of the three
MCInit ==
    /\ SyncInit
    /\ \/ runs = "server" /\ Init /\ Watch!WatchBegins("done")
       \/ runs = "watchdog" /\ Begins("forced") /\ Watch!WatchInit
       \/ runs = "starts" /\ Begins("forced") /\ Watch!WatchBegins("done")
    /\ runs # "starts" => situation = CHOOSE x \in Situations : TRUE
MCNext ==
    /\ UNCHANGED runs
    /\ \/ Next /\ UNCHANGED <<watch, syncVars>>
       \/ Watch!WatchNext /\ UNCHANGED <<vars, syncVars>>
       \/ runs = "starts" /\ SyncNext /\ UNCHANGED <<vars, watch>>
MCSpec ==
    /\ MCInit /\ [][MCNext]_<<vars, watch, syncVars, runs>>
    /\ Fairness /\ Watch!WatchFairness

\* The lines of the log are in order, its files do not grow beyond their limit, and a
\* process that ends cleanly leaves no line behind (LogWriter, ServerProcess).
LogIsSound == LinesInOrder /\ FilesStayBounded /\ CleanExitLeavesNothing

\* What the watchdog reports is so: no stall of threads that ran (Tick).
AlarmsAreTrue == Watch!NoFalseAlarm

\* A line that was queued is settled, and a stall that was reported is over in the end
\* (LogWriter, StallWatchdog).
LinesAndStallsEnd == LineSettles /\ Watch!StallEnds

\* In every state the variables have their types: TLC stops where they do not.
TypesAsserted == Assert(ServerTypes /\ Watch!WatchTypes /\ SyncTypes, "types")
=============================================================================
