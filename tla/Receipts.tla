-------------------------------- MODULE Receipts --------------------------------
(***************************************************************************)
(* What is left of a process that has ended, and how it is read.  The       *)
(* server that ran it keeps it in its process map, writes a receipt into a  *)
(* directory that all servers read, and a copy into an archive.  Servers    *)
(* prune: a receipt older than COMPLETED_RETENTION_MS is archived and then  *)
(* unlinked, a day of the archive goes after RECEIPT_ARCHIVE_RETENTION_MS,  *)
(* and the spools with the output go by an age of their own.  A server that *)
(* does not know the process reads the receipt, then the archive.           *)
(*                                                                         *)
(* Every step lies between two awaits.  The output is a number of pages of  *)
(* one stream (OutputPaging has the streams), and fits in the receipt.  A   *)
(* temporary file is not seen by anybody: writing and renaming it is one    *)
(* step, which may fail.                                                   *)
(***************************************************************************)
EXTENDS Naturals, FiniteSets

CONSTANTS
  Server,    \* the processes that share the directory
  Owner,     \* the one that ran the process
  Reader,    \* those the caller uses
  Crashing,  \* servers that may die (and are started again)
  Pages      \* of output, each of page_limit

ASSUME ConstantsAssumption ==
  /\ Owner \in Server
  /\ Reader \subseteq Server
  /\ Crashing \subseteq Server
  /\ Pages \in Nat \ {0}

VARIABLES
  age,        \* since the end: "fresh", "old" after 30 min, "expired" after 7 days
  entry,      \* it is in the process map of its owner
  persist,    \* where persistReceiptAsync is
  hot,        \* the receipt is in the directory
  archived,   \* and in the archive
  spools,     \* the files with its output are there
  prune,      \* pruneReceiptsAsync of each server, and what it has seen
  call,       \* the caller's read_output or kill_process at each server
  cursor,     \* outputCursors of each server: pages the caller was given
  seen,       \* ghost: the pages the caller got from a server since it was told to stop
  kept,       \* ghost: the receipt has been written
  disturbed   \* ghost: pages were lost to a missing spool or to a kill

evidence == <<entry, hot, archived, spools>>
ghosts == <<seen, kept, disturbed>>
vars == <<age, evidence, persist, prune, call, cursor, ghosts>>

Page == 1 .. Pages
Idle == [at |-> "idle", kill |-> FALSE, own |-> FALSE, total |-> 0,
         sure |-> FALSE, answer |-> "none"]
CallState ==
  [at : {"idle", "hot", "archive", "measure", "totals", "slice"}, kill : BOOLEAN,
   own : BOOLEAN, total : 0 .. Pages, sure : BOOLEAN,
   answer : {"none", "unknown", "more", "stop"}]

TypeOK ==
  /\ age \in {"fresh", "old", "expired"}
  /\ entry \in BOOLEAN /\ hot \in BOOLEAN /\ archived \in BOOLEAN /\ spools \in BOOLEAN
  /\ persist \in {"hot", "archive", "done"}
  /\ prune \in [Server -> [at : {"idle", "stat", "read", "archive", "unlink", "days"},
                           old : BOOLEAN]]
  /\ call \in [Server -> CallState]
  /\ cursor \in [Server -> 0 .. Pages]
  /\ seen \in [Server -> SUBSET Page]
  /\ kept \in BOOLEAN
  /\ disturbed \in [Server -> BOOLEAN]

NotPruning == [at |-> "idle", old |-> FALSE]

\* observeTerminal has published the end.
Init ==
  /\ age = "fresh"
  /\ entry = TRUE
  /\ persist = "hot"
  /\ hot = FALSE /\ archived = FALSE
  /\ spools = TRUE
  /\ prune = [s \in Server |-> NotPruning]
  /\ call = [s \in Server |-> Idle]
  /\ cursor = [s \in Server |-> 0]
  /\ seen = [s \in Server |-> {}]
  /\ kept = FALSE
  /\ disturbed = [s \in Server |-> FALSE]

-----------------------------------------------------------------------------
(* The owner writes the receipt, then the archive; an error ends it.       *)

PersistHot ==
  /\ persist = "hot"
  /\ \/ /\ persist' = "archive"
        /\ hot' = TRUE
        /\ kept' = TRUE
     \/ /\ persist' = "done"
        /\ UNCHANGED <<hot, kept>>
  /\ UNCHANGED <<age, entry, archived, spools, prune, call, cursor, seen, disturbed>>

PersistArchive ==
  /\ persist = "archive"
  /\ persist' = "done"
  /\ archived' \in {archived, TRUE}
  /\ UNCHANGED <<age, entry, hot, spools, prune, call, cursor, ghosts>>

\* Bounds: the writes are over after half an hour, and a prune or a read that was
\* begun is over before a week has passed.
TimePasses ==
  /\ persist = "done"
  /\ \/ age = "fresh" /\ age' = "old"
     \/ /\ age = "old" /\ age' = "expired"
        /\ \A s \in Server : prune[s].at = "idle" /\ call[s].at = "idle"
  /\ UNCHANGED <<evidence, persist, prune, call, cursor, ghosts>>

\* pruneCompleted: it is old, or too many others have ended since.
PruneCompleted ==
  /\ entry
  /\ entry' = FALSE
  /\ UNCHANGED <<age, persist, hot, archived, spools, prune, call, cursor, ghosts>>

-----------------------------------------------------------------------------
(* pruneReceiptsAsync of a server, once per interval.                      *)

PruneAt(s, place) == prune' = [prune EXCEPT ![s].at = place]

BeginPrune(s) ==
  /\ prune[s].at = "idle"
  /\ PruneAt(s, IF hot THEN "stat" ELSE "days")
  /\ UNCHANGED <<age, evidence, persist, call, cursor, ghosts>>

PruneStat(s) ==
  /\ prune[s].at = "stat"
  /\ prune' = [prune EXCEPT ![s] = [at |-> IF hot THEN "read" ELSE "days", old |-> age # "fresh"]]
  /\ UNCHANGED <<age, evidence, persist, call, cursor, ghosts>>

PruneRead(s) ==
  /\ prune[s].at = "read"
  /\ PruneAt(s, IF hot THEN "archive" ELSE "days")
  /\ UNCHANGED <<age, evidence, persist, call, cursor, ghosts>>

\* Mutant of PruneArchive: an old receipt goes whether or not it was archived.
UnlinkUnarchived(s) ==
  /\ prune[s].at = "archive"
  /\ archived' \in {archived, TRUE}
  /\ PruneAt(s, IF prune[s].old THEN "unlink" ELSE "days")
  /\ UNCHANGED <<age, entry, hot, spools, persist, call, cursor, ghosts>>

\* persistArchivedReceiptAsync; if it fails the receipt is left alone.
PruneArchive(s) ==
  /\ prune[s].at = "archive"
  /\ \/ archived' = TRUE /\ PruneAt(s, IF prune[s].old THEN "unlink" ELSE "days")
     \/ archived' = archived /\ PruneAt(s, "days")
  /\ UNCHANGED <<age, entry, hot, spools, persist, call, cursor, ghosts>>

PruneUnlink(s) ==
  /\ prune[s].at = "unlink"
  /\ hot' = FALSE
  /\ PruneAt(s, "days")
  /\ UNCHANGED <<age, entry, archived, spools, persist, call, cursor, ghosts>>

\* pruneReceiptArchiveAsync, if its own interval has passed.
PruneDays(s) ==
  /\ prune[s].at = "days"
  /\ prune' = [prune EXCEPT ![s] = NotPruning]
  /\ \/ UNCHANGED archived
     \/ age = "expired" /\ archived' = FALSE
  /\ UNCHANGED <<age, entry, hot, spools, persist, call, cursor, ghosts>>

\* pruneOutputSpoolsAsync of any server: what counts is the last write, which may
\* have been long before the end.
PruneSpools ==
  /\ spools
  /\ spools' = FALSE
  /\ UNCHANGED <<age, entry, hot, archived, persist, prune, call, cursor, ghosts>>

-----------------------------------------------------------------------------
(* read_output and kill_process at a server.                               *)

\* A new series of pages begins after the caller was told to stop.
Afresh(s) == call[s].answer = "stop"

\* The process is in this server's map, or its receipt is looked for.  (A kill of a
\* process in the map answers that it has ended.)
Begin(s) ==
  /\ call[s].at = "idle"
  /\ \E kill \in BOOLEAN :
       LET own == s = Owner /\ entry /\ age = "fresh" IN
       /\ call' = [call EXCEPT ![s] = [Idle EXCEPT !.at = IF own THEN "measure" ELSE "hot", !.kill = kill,
                                                   !.own = own, !.sure = kept /\ age # "expired"]]
       /\ ~(own /\ kill)
  /\ seen' = [seen EXCEPT ![s] = IF Afresh(s) THEN {} ELSE @]
  /\ disturbed' = [disturbed EXCEPT ![s] = @ /\ ~Afresh(s)]
  /\ UNCHANGED <<age, evidence, persist, prune, cursor, kept>>

Answer(s, what) == call' = [call EXCEPT ![s] = [Idle EXCEPT !.sure = call[s].sure, !.answer = what]]

\* Mutant of FindHot: without a receipt the archive is not looked at.
FindHotOnly(s) ==
  /\ call[s].at = "hot"
  /\ IF hot THEN call' = [call EXCEPT ![s].at = "measure"] ELSE Answer(s, "unknown")
  /\ UNCHANGED <<age, evidence, persist, prune, cursor, ghosts>>

\* receiptReadPaths: the receipt, then the archive, day by day.
FindHot(s) ==
  /\ call[s].at = "hot"
  /\ call' = [call EXCEPT ![s].at = IF hot THEN "measure" ELSE "archive"]
  /\ UNCHANGED <<age, evidence, persist, prune, cursor, ghosts>>

FindArchived(s) ==
  /\ call[s].at = "archive"
  /\ IF archived THEN call' = [call EXCEPT ![s].at = "measure"] ELSE Answer(s, "unknown")
  /\ UNCHANGED <<age, evidence, persist, prune, cursor, ghosts>>

\* What the call has read goes to the caller, unless it is a kill.
Give(s, pages, stop) ==
  /\ Answer(s, IF call[s].kill THEN "none" ELSE IF stop THEN "stop" ELSE "more")
  /\ seen' = [seen EXCEPT ![s] = IF call[s].kill THEN @ ELSE @ \cup pages]
  /\ disturbed' = [disturbed EXCEPT ![s] = @ \/ (call[s].kill /\ pages # {})
                                             \/ (call[s].total = 0 /\ ~(pages = Page))]

\* One page after the cursor, of what has n pages.
GivePage(s, n) ==
  LET from == IF cursor[s] < n THEN cursor[s] ELSE n
      next == IF from < n THEN from + 1 ELSE n
  IN  /\ Give(s, {p \in Page : from < p /\ p <= next}, next = n)
      /\ cursor' = [cursor EXCEPT ![s] = IF next = n THEN 0 ELSE next]

\* stat of the spools: a missing file has no characters.
Measured == IF spools THEN Pages ELSE 0

\* readAsync and formatReceiptAsync: what fits in one page is returned whole, from
\* the manager's memory or from the spools.
Measure(s) ==
  /\ call[s].at = "measure"
  /\ LET n == Measured IN
     IF cursor[s] > 0 \/ n > 1
       THEN call' = [call EXCEPT ![s].at = "totals"] /\ UNCHANGED <<cursor, seen, disturbed>>
       ELSE IF call[s].own
         THEN Give(s, {Pages}, TRUE) /\ UNCHANGED cursor
         ELSE IF n = 0
           THEN Give(s, {}, TRUE) /\ UNCHANGED cursor
           ELSE /\ call' = [call EXCEPT ![s].at = "slice", ![s].total = n]
                /\ UNCHANGED <<cursor, seen, disturbed>>
  /\ UNCHANGED <<age, evidence, persist, prune, kept>>

\* pageSpoolOutputAsync measures again.
PageTotals(s) ==
  /\ call[s].at = "totals"
  /\ IF spools
       THEN call' = [call EXCEPT ![s].at = "slice", ![s].total = Pages] /\ UNCHANGED <<cursor, seen, disturbed>>
       ELSE GivePage(s, 0)
  /\ UNCHANGED <<age, evidence, persist, prune, kept>>

\* The text is read.  If the file went since it was measured, the receipt has a copy
\* of its own (pageOutput); without a receipt the call fails.
Slice(s) ==
  /\ call[s].at = "slice"
  /\ IF spools \/ ~call[s].own
       THEN GivePage(s, Pages)
       ELSE Answer(s, "none") /\ UNCHANGED <<cursor, seen, disturbed>>
  /\ UNCHANGED <<age, evidence, persist, prune, kept>>

-----------------------------------------------------------------------------

\* A server dies and is started again: its map, cursors and work are gone.
Crash(s) ==
  /\ s \in Crashing
  /\ IF s = Owner THEN entry' = FALSE /\ persist' = "done" ELSE UNCHANGED <<entry, persist>>
  /\ prune' = [prune EXCEPT ![s] = NotPruning]
  /\ call' = [call EXCEPT ![s] = Idle]
  /\ cursor' = [cursor EXCEPT ![s] = 0]
  /\ seen' = [seen EXCEPT ![s] = {}]
  /\ disturbed' = [disturbed EXCEPT ![s] = FALSE]
  /\ UNCHANGED <<age, hot, archived, spools, kept>>

Pruning(s) == BeginPrune(s) \/ PruneStat(s) \/ PruneRead(s) \/ PruneArchive(s) \/ PruneUnlink(s) \/ PruneDays(s)
GoOn(s) == FindHot(s) \/ FindArchived(s) \/ Measure(s) \/ PageTotals(s) \/ Slice(s)

Next ==
  \/ PersistHot \/ PersistArchive \/ TimePasses \/ PruneCompleted \/ PruneSpools
  \/ \E s \in Server : Pruning(s) \/ Crash(s)
  \/ \E s \in Reader : Begin(s) \/ GoOn(s)

Spec == Init /\ [][Next]_vars

-----------------------------------------------------------------------------
(* Properties.                                                             *)

\* Once the receipt was written, one of the two copies exists for the seven days
\* that README.md promises, although all servers prune, archiving may fail and
\* servers die between any two steps.
EvidenceIsKept == kept /\ age # "expired" => hot \/ archived

\* "Completed process receipts are readable through any clone" (README.md:42): a
\* call that begins when the receipt is written finds one of the copies, although a
\* prune moves it while the call looks.
ReadableThroughAnyClone == \A s \in Server : call[s].sure => call[s].answer # "unknown"

\* A caller told to stop by a server has had every page from it, although the
\* process moves from the map to its receipt and the archive between two pages and
\* the spools may go while a page is read; unless they had gone before it was
\* measured, or a kill of the ended process read a page.
StopMeansAllPages == \A s \in Server : call[s].answer = "stop" /\ ~disturbed[s] => seen[s] = Page

\* What a caller is told of a finished process is all there is, through any server.
ReadThroughAnyClone == ReadableThroughAnyClone /\ StopMeansAllPages
=============================================================================
