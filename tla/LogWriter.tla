------------------------------ MODULE LogWriter ------------------------------
(***************************************************************************)
(* BoundedJsonlWriter (src/lib/bounded-jsonl.ts): lines are queued, taken  *)
(* in batches by one drain at a time, and appended to a file that is moved *)
(* to the archive when it is full or old.  A line is the number under      *)
(* which it was accepted; its size is chosen when it is accepted.  A step  *)
(* is what runs between two awaits.  Any file operation may fail, and the  *)
(* file may be moved away by somebody else.                                *)
(***************************************************************************)
EXTENDS Naturals, Sequences, FiniteSets, Functions

CONSTANTS Sizes,        \* the sizes of lines
          MaxBytes,     \* of a file
          MaxBatch,     \* of a chunk, and of the queue before it is drained
          MaxLines,     \* bound: lines accepted
          MaxFailures,  \* bound: file operations that fail
          MaxMoves,     \* bound: the file is moved away by somebody else
          Ageing        \* TRUE if a file may be found to be a day old

\* A line has its newline at least; requireInteger asks for the other two.
ASSUME LogAssumption ==
    /\ Sizes \subseteq Nat \ {0} /\ MaxBytes \in Nat \ {0} /\ MaxBatch \in Nat \ {0}
    /\ MaxFailures \in Nat /\ MaxMoves \in Nat /\ Ageing \in BOOLEAN

VARIABLES accepted,   \* the sizes of the lines accepted
          queued,     \* queuedLines
          timer,      \* flushTimer is armed
          scheduled,  \* drainScheduled
          closed,     \* closed
          drain,      \* the drain: where it is, its lines, its chunk
          handle,     \* the file that is open, 0 for none
          size,       \* its size, as the writer counts
          path,       \* the file under the log's name, 0 for none
          files,      \* what is in each file, in the order of creation
          closer,     \* close(): what it waits for
          failures, moves

logVars == <<accepted, queued, timer, scheduled, closed, drain, handle, size,
             path, files, closer, failures, moves>>

Lines == 1..Len(accepted)
\* The bytes of a sequence of lines, none of which is in it twice.
Bytes(lines) == Cardinality(UNION {{l} \X (1..accepted[l]) : l \in Range(lines)})
OnDisk == UNION {Range(files[f]) : f \in DOMAIN files}
Rest == [at |-> "idle", lines |-> <<>>, chunk |-> <<>>]

LogInit ==
    /\ accepted = <<>> /\ queued = <<>>
    /\ timer = FALSE /\ scheduled = FALSE /\ closed = FALSE
    /\ drain = Rest
    /\ handle = 0 /\ size = 0 /\ path = 0 /\ files = <<>>
    /\ closer = "none" /\ failures = 0 /\ moves = 0

(***************************************************************************)
(* Accepting lines and closing                                             *)
(***************************************************************************)
\* scheduleDrain, given the queue it finds.
Schedules(queue) == scheduled \/ queue # <<>>
Start(queue) ==
    IF scheduled \/ queue = <<>> THEN drain ELSE [Rest EXCEPT !.at = "take"]

\* writeLine: a full queue is drained at once, another one after a delay.
Arms(queue) == ~closed /\ ~scheduled
WriteLine(s) ==
    LET line  == Len(accepted) + 1
        queue == Append(queued, line)
        full  == Bytes(queued) + s >= MaxBatch
    IN IF closed THEN UNCHANGED logVars
       ELSE /\ Len(accepted) < MaxLines
            /\ accepted' = Append(accepted, s)
            /\ queued' = queue
            /\ timer' = (~full /\ (timer \/ Arms(queue)))
            /\ scheduled' = (scheduled \/ full)
            /\ drain' = IF full THEN Start(queue) ELSE drain
            /\ UNCHANGED <<closed, handle, size, path, files, closer, failures, moves>>

FlushTimer ==
    /\ timer
    /\ timer' = FALSE
    /\ scheduled' = Schedules(queued) /\ drain' = Start(queued)
    /\ UNCHANGED <<accepted, queued, closed, handle, size, path, files, closer, failures, moves>>

\* close() drains once more and waits for the drain there is then.
DrainsToClose ==
    /\ scheduled' = Schedules(queued) /\ drain' = Start(queued)
    /\ closer' = IF Schedules(queued) THEN "waiting" ELSE "closing"
CloseLog ==
    /\ ~closed
    /\ closed' = TRUE /\ timer' = FALSE
    /\ DrainsToClose
    /\ UNCHANGED <<accepted, queued, handle, size, path, files, failures, moves>>

CloseHandle ==
    /\ closer = "closing"
    /\ closer' = "done" /\ handle' = 0
    /\ UNCHANGED <<accepted, queued, timer, scheduled, closed, drain, size, path, files, failures, moves>>

(***************************************************************************)
(* The drain                                                               *)
(***************************************************************************)
At(place) == drain.at = place
Steps(place) == drain' = [drain EXCEPT !.at = place]
StaysOpen == UNCHANGED <<accepted, closed, failures, moves>>

\* Mutant of DrainsAgain: what was queued meanwhile is forgotten.
NeverAgain == /\ scheduled' = FALSE /\ timer' = FALSE /\ drain' = Rest

\* The end of a drain, finally: what was queued meanwhile is drained next.
DrainsAgain ==
    /\ scheduled' = (queued # <<>> /\ closed)
    /\ timer' = (queued # <<>> /\ ~closed)
    /\ drain' = IF queued # <<>> /\ closed THEN [Rest EXCEPT !.at = "take"] ELSE Rest
Finish ==
    /\ DrainsAgain
    /\ closer' = IF closer = "waiting" THEN "closing" ELSE closer

Take ==
    /\ At("take")
    /\ \/ /\ queued # <<>>
          /\ queued' = <<>>
          /\ drain' = [at |-> "open", lines |-> queued, chunk |-> <<>>]
          /\ UNCHANGED <<timer, scheduled, closer>>
       \/ queued = <<>> /\ Finish /\ UNCHANGED queued
    /\ StaysOpen /\ UNCHANGED <<handle, size, path, files>>

\* ensureOpen: the open file if it still has the log's name, else the file of
\* that name, which is created if there is none.
StillNamed == handle # 0 /\ handle = path
Opens(next) ==
    /\ Steps(next)
    /\ IF StillNamed THEN UNCHANGED <<handle, path, size, files>>
       ELSE LET f == IF path = 0 THEN Len(files) + 1 ELSE path
            IN /\ handle' = f /\ path' = f
               /\ files' = IF path = 0 THEN Append(files, <<>>) ELSE files
               /\ size' = IF path = 0 THEN 0 ELSE Bytes(files[path])
EnsureOpen ==
    /\ At("open") /\ closer # "closing"
    /\ Opens("lines")
    /\ StaysOpen /\ UNCHANGED <<queued, timer, scheduled, closer>>

\* rotationRequired; old is what the clock says.
RotationRequired(next, buffered) ==
    size + buffered > 0 /\ size + buffered + next > MaxBytes
Required(next, buffered, old) ==
    RotationRequired(next, buffered) \/ (size > 0 /\ old)

Buffered == Bytes(drain.chunk)
Buffers == drain' = [drain EXCEPT !.at = "lines", !.lines = Tail(@),
                                  !.chunk = Append(@, Head(drain.lines))]

\* One round of writeBatch's loop, up to the write or rotation it waits for.
NextLine(old) ==
    /\ At("lines") /\ drain.lines # <<>>
    /\ LET bytes == accepted[Head(drain.lines)]
       IN IF Required(bytes, Buffered, old)
          THEN Steps(IF drain.chunk = <<>> THEN "close" ELSE "flushToRotate")
          ELSE IF drain.chunk # <<>> /\ Buffered + bytes > MaxBatch THEN Steps("flush")
          ELSE Buffers
    /\ StaysOpen /\ UNCHANGED <<queued, timer, scheduled, closer, handle, size, path, files>>

LastFlush ==
    /\ At("lines") /\ drain.lines = <<>>
    /\ Steps(IF drain.chunk = <<>> THEN "take" ELSE "flush")
    /\ StaysOpen /\ UNCHANGED <<queued, timer, scheduled, closer, handle, size, path, files>>

\* flushChunk, in each of its places.
Counts(written) == size' = size + Bytes(written)
FlushChunk(old) ==
    /\ drain.at \in {"flush", "flushToRotate"}
    /\ handle # 0 /\ closer # "closing"
    /\ files' = [files EXCEPT ![handle] = @ \o drain.chunk]
    /\ Counts(drain.chunk)
    /\ LET rotate == /\ At("flushToRotate")
                     /\ size + Buffered > 0
                     /\ old \/ size + Buffered + accepted[Head(drain.lines)] > MaxBytes
       IN drain' = [drain EXCEPT
            !.at = IF rotate THEN "close" ELSE "lines",
            !.lines = IF rotate \/ @ = <<>> THEN @ ELSE Tail(@),
            !.chunk = IF rotate \/ drain.lines = <<>> THEN <<>> ELSE <<Head(drain.lines)>>]
    /\ StaysOpen /\ UNCHANGED <<queued, timer, scheduled, closer, handle, path>>

\* rotate: close the file, give it a name in the archive, open a new one.
RotateClose ==
    /\ At("close") /\ Steps("rename")
    /\ handle' = 0
    /\ StaysOpen /\ UNCHANGED <<queued, timer, scheduled, closer, size, path, files>>

RotateRename ==
    /\ At("rename") /\ Steps("reopen")
    /\ path' = 0 /\ size' = 0
    /\ StaysOpen /\ UNCHANGED <<queued, timer, scheduled, closer, handle, files>>

Reopen ==
    /\ At("reopen")
    /\ Opens("fresh")
    /\ StaysOpen /\ UNCHANGED <<queued, timer, scheduled, closer>>

FirstLine ==
    /\ At("fresh") /\ Buffers
    /\ StaysOpen /\ UNCHANGED <<queued, timer, scheduled, closer, handle, size, path, files>>

Waiting == drain.at \in {"open", "flush", "flushToRotate", "close", "rename", "reopen"}

\* Mutant of Give: the lines of a failed drain are queued again.
Requeues == /\ Finish /\ queued' = queued \o drain.chunk \o drain.lines
            /\ UNCHANGED <<accepted, closed, handle, size, path, files, moves>>

\* An operation fails: the drain's lines are given up.  One on a handle that
\* close() has closed must fail.
Give == /\ Finish
        /\ UNCHANGED <<accepted, closed, queued, handle, size, path, files, moves>>
FileFails ==
    /\ Waiting /\ failures < MaxFailures
    /\ failures' = failures + 1
    /\ Give
HandleGone ==
    /\ \/ drain.at \in {"flush", "flushToRotate"} /\ (handle = 0 \/ closer = "closing")
       \/ At("open") /\ closer = "closing"
    /\ UNCHANGED failures
    /\ Give

MovedAway ==
    /\ path # 0 /\ moves < MaxMoves
    /\ path' = 0 /\ moves' = moves + 1
    /\ UNCHANGED <<accepted, queued, timer, scheduled, closed, drain, handle, size, files, closer, failures>>

DrainSteps ==
    \/ Take \/ EnsureOpen \/ LastFlush \/ RotateClose \/ RotateRename
    \/ Reopen \/ FirstLine \/ HandleGone
    \/ \E old \in {FALSE, Ageing} : NextLine(old) \/ FlushChunk(old)

LogNext == FlushTimer \/ CloseHandle \/ DrainSteps \/ FileFails \/ MovedAway

(***************************************************************************)
(* Properties                                                              *)
(***************************************************************************)
Increasing(s) == \A i, j \in DOMAIN s : i < j => s[i] < s[j]
Before(s, t) == \A i \in DOMAIN s, j \in DOMAIN t : s[i] < t[j]

\* Lines stand in the files, taken in the order of their creation, in the order
\* in which they were accepted, and none twice: whatever is queued, rotated or
\* lost in between (writeLine, drainQueued, rotate).
LinesInOrder ==
    /\ \A f \in DOMAIN files : Increasing(files[f])
    /\ \A f, g \in DOMAIN files : f < g => Before(files[f], files[g])

\* No file outgrows its limit, except by a line that is longer than a file: the
\* size the writer counts is that of the file, across rotations, reopenings and
\* failures (rotationRequired, ensureOpen).
FilesStayBounded ==
    \A f \in DOMAIN files : Bytes(files[f]) <= MaxBytes \/ Len(files[f]) = 1

TypesHold ==
    /\ accepted \in Seq(Sizes)
    /\ Range(queued) \subseteq Lines /\ Range(drain.lines) \subseteq Lines
    /\ timer \in BOOLEAN /\ scheduled \in BOOLEAN /\ closed \in BOOLEAN
    /\ handle \in 0..Len(files) /\ path \in 0..Len(files)
    /\ size \in Nat
    /\ closer \in {"none", "waiting", "closing", "done"}
    /\ scheduled <=> drain.at # "idle"
=============================================================================
