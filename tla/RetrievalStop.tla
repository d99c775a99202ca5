---------------------------- MODULE RetrievalStop ----------------------------
(***************************************************************************)
(* The retrieval stop of the process manager: when a process that recalled *)
(* memory for a target ends well, a marker file tells every server of the  *)
(* host to refuse further searches on that target for a while.             *)
(*                                                                         *)
(* One target, hence one file.  Servers share it and nothing else: each    *)
(* writes it (truncation, then the text), reads it for a search, and       *)
(* sweeps the directory from time to time, with an await between finding,  *)
(* reading and removing a file.                                            *)
(***************************************************************************)
EXTENDS Integers, FiniteSets

CONSTANTS Server, Recall, Search,
          HomeOf,     \* the server of each recall and each search
          Life,       \* RETRIEVAL_STOP_TTL_MS
          Interval,   \* RETRIEVAL_STOP_PRUNE_INTERVAL_MS
          MaxTime,    \* bound: the clock
          MaxFaults   \* bound: failing writes and restarts

StopAssumption ==
    /\ HomeOf \in [Recall \cup Search -> Server]
    /\ Life \in Nat \ {0} /\ Interval \in Nat /\ MaxTime \in Nat /\ MaxFaults \in Nat

VARIABLES now, faults,
          file,     \* the marker: Absent, Torn, or when it expires
          recall,   \* a process that recalls memory, and the writing of its marker
          search,   \* a start call that searches
          sweep,    \* the sweep in flight of a server: retrievalStopPruneInFlight
          pruned,   \* lastRetrievalStopPruneAt
          spoiled   \* ghost: a marker was lost to a removal or a write that crossed it

stopVars == <<now, faults, file, recall, search, sweep, pruned, spoiled>>

Absent == 0 - 2
Torn == 0 - 1
Idle == [at |-> "idle", since |-> 0, read |-> 0]

StopInit ==
    /\ now = 0 /\ faults = 0 /\ file = Absent /\ spoiled = FALSE
    /\ recall = [r \in Recall |-> [at |-> "running", end |-> 0, armed |-> FALSE]]
    /\ search = [q \in Search |-> [at |-> "idle", read |-> 0]]
    /\ sweep = [s \in Server |-> Idle]
    /\ pruned = [s \in Server |-> 0 - Interval]

IsMarker(content) == content \notin {Absent, Torn}
Active(content) == IsMarker(content) /\ now < content
Expiry(r) == recall[r].end + Life
Filling == {r \in Recall : recall[r].at = "filling"}

Goes(r, at) == recall' = [recall EXCEPT ![r].at = at]

(***************************************************************************)
(* Removing: by name, whatever is there by now.  A writer that has the     *)
(* file open goes on in a file without a name.                             *)
(***************************************************************************)
Remove(read) ==
    /\ file' = Absent
    /\ recall' = [r \in Recall |-> IF r \in Filling THEN [recall[r] EXCEPT !.at = "adrift"] ELSE recall[r]]
    /\ spoiled' = (spoiled \/ Filling # {} \/ (Active(file) /\ file # read))

\* A sweep that is due starts, if none is in flight.
DueSweep(s) == sweep[s].at = "idle" /\ now - pruned[s] >= Interval
BeginsSweep(s) ==
    IF DueSweep(s)
    THEN /\ sweep' = [sweep EXCEPT ![s] = [at |-> "listing", since |-> now, read |-> 0]]
         /\ pruned' = [pruned EXCEPT ![s] = now]
    ELSE UNCHANGED <<sweep, pruned>>

List(s) ==
    /\ sweep[s].at = "listing"
    /\ sweep' = [sweep EXCEPT ![s].at = IF file = Absent THEN "idle" ELSE "reading"]
    /\ UNCHANGED <<now, faults, file, recall, search, pruned, spoiled>>

\* What a sweep that began at `since` removes: what has expired and what is no marker,
\* a file that is gone included.
Sweeps(content, since) == ~IsMarker(content) \/ content <= since

ReadEntry(s) ==
    /\ sweep[s].at = "reading"
    /\ sweep' = [sweep EXCEPT ![s] = IF Sweeps(file, @.since)
                                     THEN [@ EXCEPT !.at = "removing", !.read = file]
                                     ELSE Idle]
    /\ UNCHANGED <<now, faults, file, recall, search, pruned, spoiled>>

RemoveEntry(s) ==
    /\ sweep[s].at = "removing"
    /\ Remove(sweep[s].read)
    /\ sweep' = [sweep EXCEPT ![s] = Idle]
    /\ UNCHANGED <<now, faults, search, pruned>>

(***************************************************************************)
(* Arming                                                                  *)
(***************************************************************************)
\* Mutant of Arms: a recall that failed stops searches, too.
ArmsAlways(r, code) == TRUE

\* Only a recall that ended with code 0 arms the stop.
Arms(r, code) == code = 0
Finish(r, code) ==
    /\ recall[r].at = "running"
    /\ recall' = [recall EXCEPT ![r] = [at |-> IF Arms(r, code) THEN "opening" ELSE "settled",
                                        end |-> now, armed |-> code = 0]]
    /\ UNCHANGED <<now, faults, file, search, sweep, pruned, spoiled>>

Truncate(r) ==
    /\ recall[r].at = "opening"
    /\ Goes(r, "filling") /\ file' = Torn
    /\ UNCHANGED <<now, faults, search, sweep, pruned, spoiled>>

\* The text is on disk.  A recall that ended earlier may write later.
Fill(r) ==
    /\ recall[r].at \in {"filling", "adrift"}
    /\ Goes(r, "written")
    /\ IF recall[r].at = "adrift" THEN UNCHANGED <<file, spoiled>>
       ELSE /\ file' = Expiry(r)
            /\ spoiled' = (spoiled \/ \E o \in Recall : recall[o].armed /\ Expiry(o) > Expiry(r))
    /\ UNCHANGED <<now, faults, search, sweep, pruned>>

\* writeFile resolves: the sweep that is due starts, retrievalStopReady resolves.
Settle(r) ==
    /\ recall[r].at = "written"
    /\ Goes(r, "settled") /\ BeginsSweep(HomeOf[r])
    /\ UNCHANGED <<now, faults, file, search, spoiled>>

\* It fails, which is only logged; what it truncated stays.
WriteFails(r) ==
    /\ recall[r].at \in {"opening", "filling", "adrift"} /\ faults < MaxFaults
    /\ faults' = faults + 1
    /\ recall' = [recall EXCEPT ![r].at = "settled", ![r].armed = FALSE]
    /\ spoiled' = (spoiled \/ recall[r].at # "opening")
    /\ UNCHANGED <<now, file, search, sweep, pruned>>

\* readAsync waits for retrievalStopReady before it reports the process.
MayTell(r) == recall[r].at = "settled"
Tell(r) ==
    /\ MayTell(r)
    /\ Goes(r, "told")
    /\ UNCHANGED <<now, faults, file, search, sweep, pruned, spoiled>>

(***************************************************************************)
(* A start call with a search on the target                                *)
(***************************************************************************)
BeginSearch(q) ==
    /\ search[q].at = "idle"
    /\ search' = [search EXCEPT ![q].at = "looking"]
    /\ BeginsSweep(HomeOf[q])
    /\ UNCHANGED <<now, faults, file, recall, spoiled>>

\* No marker, or one that cannot be parsed, lets the call pass.
LookUp(q) ==
    /\ search[q].at = "looking"
    /\ search' = [search EXCEPT ![q] =
          [at |-> IF Active(file) THEN "refused" ELSE IF IsMarker(file) THEN "expiring" ELSE "passed",
           read |-> file]]
    /\ UNCHANGED <<now, faults, file, recall, sweep, pruned, spoiled>>

RemoveExpired(q) ==
    /\ search[q].at = "expiring"
    /\ Remove(search[q].read)
    /\ search' = [search EXCEPT ![q].at = "passed"]
    /\ UNCHANGED <<now, faults, sweep, pruned>>

(***************************************************************************)
(* Time and restarts                                                       *)
(***************************************************************************)
Tick ==
    /\ now < MaxTime /\ now' = now + 1
    /\ UNCHANGED <<faults, file, recall, search, sweep, pruned, spoiled>>

\* The sweep without awaits: a new manager clears the directory before anything else
\* runs in its server.
ClearedAtOnce == file # Absent /\ Sweeps(file, now)

\* A server stops at any point and starts again: its calls and sweep are gone.
Restart(s) ==
    /\ faults < MaxFaults /\ faults' = faults + 1
    /\ sweep' = [sweep EXCEPT ![s] = Idle] /\ pruned' = [pruned EXCEPT ![s] = now]
    /\ search' = [q \in Search |-> IF HomeOf[q] = s /\ search[q].at \in {"looking", "expiring"}
                                   THEN [search[q] EXCEPT !.at = "lost"] ELSE search[q]]
    /\ LET gone   == {r \in Recall : HomeOf[r] = s /\ recall[r].at \notin {"told", "lost"}}
           others == Filling \ gone
       IN /\ recall' = [r \in Recall |->
                IF r \in gone THEN [recall[r] EXCEPT !.at = "lost", !.armed = FALSE]
                ELSE IF ClearedAtOnce /\ r \in others THEN [recall[r] EXCEPT !.at = "adrift"]
                ELSE recall[r]]
          /\ file' = IF ClearedAtOnce THEN Absent ELSE file
          /\ spoiled' = (spoiled \/ Filling # {})
    /\ UNCHANGED now

StopNext ==
    \/ Tick
    \/ \E s \in Server : List(s) \/ ReadEntry(s) \/ RemoveEntry(s) \/ Restart(s)
    \/ \E r \in Recall : \E code \in {0, 1} : Finish(r, code)
    \/ \E r \in Recall : Truncate(r) \/ Fill(r) \/ Settle(r) \/ WriteFails(r) \/ Tell(r)
    \/ \E q \in Search : BeginSearch(q) \/ LookUp(q) \/ RemoveExpired(q)
StopSpec == StopInit /\ [][StopNext]_stopVars

\* From the moment its result is told, a recall that ended well stops searches on every
\* server until its time is over: sweeps, expiry and restarts never cost a marker that
\* still holds, except those that cross a write (retrievalStopReady is awaited for this
\* by readAsync).  And what a search was refused for had ended well at most that long
\* before.
StopHolds ==
    /\ \A r \in Recall :
          recall[r].at = "told" /\ recall[r].armed /\ now < Expiry(r) /\ ~spoiled =>
              Active(file) \/ Filling # {}
    /\ \A q \in Search :
          search[q].at = "refused" =>
              \E r \in Recall : recall[r].end + Life = search[q].read /\ recall[r].at # "running"
                                /\ (recall[r].armed \/ recall[r].at = "lost")

StopTypes ==
    /\ file \in {Absent, Torn} \cup (0..(MaxTime + Life))
    /\ \A r \in Recall : recall[r].at \in
          {"running", "opening", "filling", "adrift", "written", "settled", "told", "lost"}
    /\ \A q \in Search : search[q].at \in
          {"idle", "looking", "expiring", "refused", "passed", "lost"}
    /\ \A s \in Server : sweep[s].at \in {"idle", "listing", "reading", "removing"}
=============================================================================
