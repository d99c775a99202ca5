----------------------------- MODULE OutputPaging -----------------------------
(***************************************************************************)
(* What one caller reads of one process.  The session thread appends the    *)
(* child's output to two spool files and tells the manager; read_output     *)
(* waits for news, measures the files and returns the next page after the   *)
(* caller's cursor.  A retry empties the files and drops the cursors; spool *)
(* files not written for COMPLETED_RETENTION_MS are unlinked.               *)
(*                                                                         *)
(* A read is cut at its awaits, so reads of the same caller, output, exit,  *)
(* retry and pruning come between its steps.  Texts are numbered characters *)
(* of the current attempt; opaque base64 output, which is replaced by a     *)
(* marker, is left out.                                                    *)
(***************************************************************************)
EXTENDS Integers, Sequences, FiniteSets

CONSTANTS
  Read,    \* read_output calls of the caller that may overlap
  MaxOut,  \* bound: characters an attempt writes to each stream
  Limit    \* page_limit

ASSUME PagingAssumption ==
  /\ MaxOut \in Nat
  /\ Limit \in Nat \ {0}

VARIABLES
  attempt,    \* 1, and 2 after the retry
  written,    \* characters the attempt has appended to each spool
  gone,       \* how many of them are in no file any more
  unsent,     \* the session's pendingOutput is not empty
  toMain,     \* messages posted to the manager
  child,      \* the attempt's child: "running" or "exited"
  running,    \* exitCode === null
  resetting,  \* resetOutputSpoolsAsync
  unread,     \* revision > lastReadRevisionByCaller of the caller
  cursor,     \* outputCursors of the caller, where there is none the start
  hasCursor,  \* there is one
  read,       \* each call: where it is and what it remembers
  seen,       \* characters of this attempt that were in a returned page
  disturbed   \* a reset or a prune has taken files from under a cursor

sessionVars == <<attempt, written, unsent, child>>
managerVars == <<running, resetting>>
callerVars == <<unread, cursor, hasCursor>>
ghostVars == <<seen, disturbed>>
pagingVars == <<sessionVars, gone, toMain, managerVars, callerVars, read, ghostVars>>

Stream == {"stdout", "stderr"}
Count == [Stream -> 0 .. MaxOut]
Start == [s \in Stream |-> 0]
Char == Stream \X (1 .. MaxOut)
Characters(from, to) == {c \in Char : from[c[1]] < c[2] /\ c[2] <= to[c[1]]}

\* Where a call is: before the size check of readWithWait, in waitForProcessChange,
\* about to enter readAsync, before its size check, in pageSpoolOutputAsync before
\* the sizes, the cursor and the slices; and whether the last one was told
\* STOP_READING.
Place == {"idle", "look", "wait", "begin", "sizes", "totals", "cursor", "slice"}
ReadState == [at : Place, base : Count, live : BOOLEAN, had : BOOLEAN,
              total : Count, stopped : BOOLEAN]
Message == {"output", "exit", "fail"}

PagingTypes ==
  /\ attempt \in 1 .. 2
  /\ written \in Count
  /\ gone \in Count
  /\ unsent \in BOOLEAN
  /\ toMain \in Seq(Message)
  /\ child \in {"running", "exited"}
  /\ running \in BOOLEAN
  /\ resetting \in {"no", "truncate", "forget"}
  /\ unread \in BOOLEAN
  /\ cursor \in Count
  /\ hasCursor \in BOOLEAN
  /\ read \in [Read -> ReadState]
  /\ seen \subseteq Char
  /\ disturbed \in BOOLEAN

NotReading(stopped) ==
  [at |-> "idle", base |-> Start, live |-> FALSE, had |-> FALSE,
   total |-> Start, stopped |-> stopped]
At(place) == [NotReading(FALSE) EXCEPT !.at = place]

\* The process is registered and its child runs.
PagingInit ==
  /\ attempt = 1
  /\ written = Start
  /\ gone = Start
  /\ unsent = FALSE
  /\ toMain = <<>>
  /\ child = "running"
  /\ running = TRUE
  /\ resetting = "no"
  /\ unread = FALSE
  /\ cursor = Start
  /\ hasCursor = FALSE
  /\ read = [r \in Read |-> NotReading(FALSE)]
  /\ seen = {}
  /\ disturbed = FALSE

Least(m, n) == IF m < n THEN m ELSE n

\* stat of a spool file; a missing file has size 0.
Size(s) == written[s] - gone[s]
Sizes == [s \in Stream |-> Size(s)]
AllWritten == Characters(Start, written)
Total(n) == n["stdout"] + n["stderr"]

\* The file was unlinked and not written since.
Missing(s) == gone[s] = written[s] /\ gone[s] > 0 /\ resetting # "forget"

-----------------------------------------------------------------------------
(* The session worker.                                                     *)

\* queueOutput: append first, tell later.
Write(s) ==
  /\ child = "running"
  /\ written[s] < MaxOut
  /\ written' = [written EXCEPT ![s] = @ + 1]
  /\ unsent' = TRUE
  /\ UNCHANGED <<attempt, child, gone, toMain, managerVars, callerVars, read, ghostVars>>

\* flushOutput, from its timer or because the batch is full.
Pending == IF unsent THEN Append(toMain, "output") ELSE toMain
Flush ==
  /\ unsent
  /\ unsent' = FALSE
  /\ toMain' = Pending
  /\ UNCHANGED <<attempt, written, child, gone, managerVars, callerVars, read, ghostVars>>

\* Mutant of Exit: the exit overtakes the output that is pending.
ExitBeforeOutput(kind) ==
  /\ child = "running"
  /\ child' = "exited"
  /\ toMain' = Append(toMain, kind)
  /\ UNCHANGED <<attempt, written, unsent, gone, managerVars, callerVars, read, ghostVars>>

\* executePlan: what is pending goes out before the exit does.
Exit(kind) ==
  /\ child = "running"
  /\ child' = "exited"
  /\ unsent' = FALSE
  /\ toMain' = Append(Pending, kind)
  /\ UNCHANGED <<attempt, written, gone, managerVars, callerVars, read, ghostVars>>

-----------------------------------------------------------------------------
(* The manager.                                                            *)

\* markProcessChanged: the calls that wait go on.
Changed ==
  /\ unread' = TRUE
  /\ read' = [r \in Read |-> IF read[r].at = "wait" THEN At("begin") ELSE read[r]]

Receive(kinds) ==
  /\ toMain # <<>>
  /\ Head(toMain) \in kinds
  /\ toMain' = Tail(toMain)

HandleOutput ==
  /\ running
  /\ Receive({"output"})
  /\ Changed
  /\ UNCHANGED <<sessionVars, gone, running, resetting, cursor, hasCursor, ghostVars>>

\* observeTerminal.
HandleExit ==
  /\ running
  /\ Receive({"exit", "fail"})
  /\ Changed
  /\ running' = FALSE
  /\ UNCHANGED <<sessionVars, gone, resetting, cursor, hasCursor, ghostVars>>

\* tryRuntimeRepair, once.
Repair ==
  /\ running
  /\ attempt = 1 /\ resetting = "no"
  /\ Receive({"fail"})
  /\ Changed
  /\ resetting' = "truncate"
  /\ UNCHANGED <<sessionVars, gone, running, cursor, hasCursor, ghostVars>>

\* resetOutputSpoolsAsync empties the files ...
Truncate ==
  /\ resetting = "truncate"
  /\ resetting' = "forget"
  /\ gone' = written
  /\ UNCHANGED <<sessionVars, toMain, running, callerVars, read, ghostVars>>

\* A read remembers sizes or a cursor from before the files were emptied.
StaleRead ==
  \E r \in Read : \/ read[r].at = "look" /\ read[r].base # Start
                  \/ read[r].at \in {"cursor", "slice"} /\ read[r].total # Start

\* ... and then drops the cursors; the retry is launched.
ForgetCursors ==
  /\ resetting = "forget"
  /\ resetting' = "no"
  /\ cursor' = Start /\ hasCursor' = FALSE
  /\ attempt' = 2
  /\ written' = Start /\ gone' = Start /\ seen' = {}
  /\ child' = "running"
  /\ disturbed' = (disturbed \/ StaleRead)
  /\ UNCHANGED <<unsent, toMain, running, unread, read>>

\* pruneOutputSpoolsAsync, of any server process: the file was not written for
\* COMPLETED_RETENTION_MS, whether or not its process runs.
PruneSpool(s) ==
  /\ Size(s) > 0
  /\ gone' = [gone EXCEPT ![s] = written[s]]
  /\ disturbed' = TRUE
  /\ UNCHANGED <<sessionVars, toMain, managerVars, callerVars, read, seen>>

-----------------------------------------------------------------------------
(* read_output.                                                            *)

Go(r, place) == read' = [read EXCEPT ![r] = At(place)]
Return(r, stopped) == read' = [read EXCEPT ![r] = NotReading(stopped)]

\* readWithWait: an ended process, or a call that does not wait, is read at once.
CallRead(r) ==
  /\ read[r].at = "idle"
  /\ \/ Go(r, "begin")
     \/ running /\ read' = [read EXCEPT ![r] = [At("look") EXCEPT !.base = cursor]]
  /\ UNCHANGED <<sessionVars, gone, toMain, managerVars, callerVars, ghostVars>>

\* Mutant of Look: only the revision is looked at.
LookAtRevision(r) ==
  /\ read[r].at = "look"
  /\ IF unread THEN Go(r, "begin") ELSE Go(r, "wait")
  /\ UNCHANGED <<sessionVars, gone, toMain, managerVars, callerVars, ghostVars>>

\* ... otherwise it looks for output after the cursor or an unread revision.
Look(r) ==
  /\ read[r].at = "look"
  /\ IF (\E s \in Stream : Size(s) > read[r].base[s]) \/ unread THEN Go(r, "begin") ELSE Go(r, "wait")
  /\ UNCHANGED <<sessionVars, gone, toMain, managerVars, callerVars, ghostVars>>

\* waitForProcessChange ends by its timer, and the answer is no_change ...
WaitTimeout(r) ==
  /\ read[r].at = "wait"
  /\ Return(r, FALSE)
  /\ UNCHANGED <<sessionVars, gone, toMain, managerVars, callerVars, ghostVars>>

\* ... or the request is aborted.
Abort(r) ==
  /\ read[r].at = "wait"
  /\ Return(r, FALSE)
  /\ UNCHANGED <<sessionVars, gone, toMain, managerVars, callerVars, ghostVars>>

\* readAsync up to its first await.
BeginRead(r) ==
  /\ read[r].at = "begin"
  /\ unread' = FALSE
  /\ read' = [read EXCEPT ![r] = [At("sizes") EXCEPT !.live = running, !.had = hasCursor]]
  /\ UNCHANGED <<sessionVars, gone, toMain, managerVars, cursor, hasCursor, ghostVars>>

\* The manager's own copy, of what it has been told; after the exit it hears no more.
InMemory == IF unsent \/ toMain # <<>> THEN {} ELSE AllWritten

\* The whole output in memory is returned if the process has ended and it fits;
\* a process that ended only now is said to run, and is read again.
ReadSizes(r) ==
  /\ read[r].at = "sizes"
  /\ IF running \/ read[r].had \/ Total(Sizes) > Limit
       THEN read' = [read EXCEPT ![r].at = "totals", ![r].had = FALSE] /\ UNCHANGED seen
       ELSE /\ Return(r, ~read[r].live)
            /\ seen' = IF read[r].live THEN seen ELSE seen \cup InMemory
  /\ UNCHANGED <<sessionVars, gone, toMain, managerVars, callerVars, disturbed>>

\* pageSpoolOutputAsync measures the files ...
PageTotals(r) ==
  /\ read[r].at = "totals"
  /\ read' = [read EXCEPT ![r].at = "cursor", ![r].total = Sizes]
  /\ UNCHANGED <<sessionVars, gone, toMain, managerVars, callerVars, ghostVars>>

\* ... then looks up the cursor ...
PageCursor(r) ==
  /\ read[r].at = "cursor"
  /\ read' = [read EXCEPT ![r].at = "slice",
                          ![r].base = [s \in Stream |-> Least(cursor[s], read[r].total[s])]]
  /\ UNCHANGED <<sessionVars, gone, toMain, managerVars, callerVars, ghostVars>>

\* The page: up to Limit characters, of stdout first.
NextAfter(r) ==
  LET out == Least(Limit, read[r].total["stdout"] - read[r].base["stdout"])
      err == Least(Limit - out, read[r].total["stderr"] - read[r].base["stderr"])
  IN  [read[r].base EXCEPT !["stdout"] = @ + out, !["stderr"] = @ + err]

\* ... reads the slices, which fails if a file is missing, and sets the cursor, or
\* drops it after the last page of an ended process.  What comes between the read
\* of a slice and the end changes no more than if it came before the read.
PageEnd(r) ==
  LET next == NextAfter(r)
      wanted == Characters(read[r].base, next)
      goesOn == next # read[r].total \/ read[r].live
  IN
  /\ read[r].at = "slice"
  /\ IF \E c \in wanted : Missing(c[1])
       THEN Return(r, FALSE) /\ UNCHANGED <<seen, cursor, hasCursor>>
       ELSE /\ Return(r, ~goesOn)
            /\ seen' = seen \cup {<<c[1], gone[c[1]] + c[2]>> : c \in {d \in wanted : d[2] <= Size(d[1])}}
            /\ hasCursor' = goesOn
            /\ cursor' = IF goesOn THEN next ELSE Start
  /\ UNCHANGED <<sessionVars, gone, toMain, managerVars, unread, disturbed>>

-----------------------------------------------------------------------------

Session == (\E s \in Stream : Write(s)) \/ Flush \/ (\E kind \in {"exit", "fail"} : Exit(kind))

Manage == HandleOutput \/ HandleExit \/ Repair \/ Truncate \/ ForgetCursors

GoOn(r) == Look(r) \/ WaitTimeout(r) \/ BeginRead(r) \/ ReadSizes(r) \/ PageTotals(r)
             \/ PageCursor(r) \/ PageEnd(r)

PagingNext ==
  \/ Session
  \/ Manage
  \/ \E s \in Stream : PruneSpool(s)
  \/ \E r \in Read : CallRead(r) \/ GoOn(r) \/ Abort(r)

PagingSpec == PagingInit /\ [][PagingNext]_pagingVars

(***************************************************************************)
(* Event loops run, files answer and timers fire; the caller reads again    *)
(* until it is told to stop.  Nothing makes the child write or exit.        *)
(***************************************************************************)
FairPaging ==
  /\ PagingSpec
  /\ WF_pagingVars(Flush)
  /\ WF_pagingVars(Manage)
  /\ \A r \in Read : WF_pagingVars(CallRead(r)) /\ WF_pagingVars(GoOn(r))

-----------------------------------------------------------------------------
(* Properties.                                                             *)

\* A caller that is told STOP_READING has been given every character of the final
\* attempt in its pages, although its reads overlap each other, the output and a
\* retry; unless files were emptied or unlinked under a cursor.
StopMeansAll == ~disturbed => \A r \in Read : read[r].stopped => AllWritten \subseteq seen

\* "no_change" hides nothing: once the output's messages are through, all that is
\* in the spools has been in a page.
NoChangeIsTrue ==
  [][\A r \in Read :
       (WaitTimeout(r) /\ ~unsent /\ toMain = <<>> /\ ~disturbed)
         => Characters(gone, written) \subseteq seen]_pagingVars

\* A caller that keeps reading an ended process is told to stop.
ReadingEnds == ~running ~> \E r \in Read : read[r].stopped

\* A reader who waits is neither sent away with output unread nor kept for ever.
WaitingPaysOff == NoChangeIsTrue /\ ReadingEnds

\* "Process output remains losslessly retained/pageable through the same
\* process_id" (README.md:37).
OutputIsLossless == \A r \in Read : read[r].stopped => AllWritten \subseteq seen
=============================================================================
