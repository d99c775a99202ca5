------------------------------ MODULE BusyLock ------------------------------
(***************************************************************************)
(* The lock file beside the BUSY store.  Every operation of a server        *)
(* (BusyStore.withLock) and of the coordinator (StoreLock) creates it       *)
(* exclusively, writes its pid into it, and unlinks the name when done.  A  *)
(* waiting operation takes an old file away: the server unless the pid in   *)
(* the file is that of a living process, the coordinator in any case.       *)
(*                                                                         *)
(* stat, read and unlink name the file afresh each time, and other          *)
(* processes run between them.                                             *)
(***************************************************************************)
EXTENDS Naturals, FiniteSets

CONSTANTS
  Writer,       \* operations on the store, each in a process of its own
  Coordinator,  \* those of the Python coordinator; the others are a server's
  Crashing,     \* writers whose process may die
  NoPid,        \* servers whose pid cannot be written into the file
  HeldUp        \* where a living writer may be held up for LOCK_STALE_MS

ASSUME ConstantsAssumption ==
  /\ Coordinator \subseteq Writer
  /\ Crashing \subseteq Writer
  /\ NoPid \subseteq Writer \ Coordinator
  /\ HeldUp \subseteq {"opened", "inside"}

VARIABLES
  lock,  \* the lock file, if there is one
  pc,    \* where each writer is
  late,  \* writers whose deadline (LOCK_TIMEOUT_MS) has passed
  aged   \* some lock file has reached LOCK_STALE_MS

vars == <<lock, pc, late, aged>>

LockFile == [by : Writer, pid : BOOLEAN, old : BOOLEAN]
Place == {"idle", "try", "stat", "probe", "unlink", "opened", "inside", "done", "failed", "dead"}

TypeOK ==
  /\ lock \subseteq LockFile
  /\ Cardinality(lock) <= 1
  /\ pc \in [Writer -> Place]
  /\ late \subseteq Writer
  /\ aged \in BOOLEAN

Init ==
  /\ lock = {}
  /\ pc = [w \in Writer |-> "idle"]
  /\ late = {}
  /\ aged = FALSE

Go(w, place) == pc' = [pc EXCEPT ![w] = place]

\* Bound: each writer makes one call.
Call(w) ==
  /\ pc[w] = "idle"
  /\ Go(w, "try")
  /\ UNCHANGED <<lock, late, aged>>

\* Mutant: the file is opened without the exclusive flag.
OpenShared(w) ==
  /\ pc[w] = "try"
  /\ lock' = {[by |-> w, pid |-> FALSE, old |-> FALSE]}
  /\ Go(w, "opened")
  /\ UNCHANGED <<late, aged>>

\* openSync with flag "wx", O_CREAT | O_EXCL.
Open(w) ==
  /\ pc[w] = "try"
  /\ IF lock = {}
       THEN lock' = {[by |-> w, pid |-> FALSE, old |-> FALSE]} /\ Go(w, "opened")
       ELSE UNCHANGED lock /\ Go(w, "stat")
  /\ UNCHANGED <<late, aged>>

\* The pid goes into the file that was opened, should its name be gone.
WritePid(w) ==
  /\ pc[w] = "opened"
  /\ lock' = {[f EXCEPT !.pid = @ \/ f.by = w] : f \in lock}
  /\ Go(w, "inside")
  /\ UNCHANGED <<late, aged>>

\* A server goes on without the pid when it cannot write it.
PidWriteFails(w) ==
  /\ pc[w] = "opened"
  /\ w \in NoPid
  /\ Go(w, "inside")
  /\ UNCHANGED <<lock, late, aged>>

\* Not reclaimed: give up after the deadline, sleep and try again before.
RetryOrFail(w) == Go(w, IF w \in late THEN "failed" ELSE "try")

\* The age of the file: gone, old enough to be reclaimed, or too young.
Stat(w) ==
  /\ pc[w] = "stat"
  /\ \/ lock = {} /\ Go(w, "try")
     \/ (\E f \in lock : f.old) /\ Go(w, IF w \in Coordinator THEN "unlink" ELSE "probe")
     \/ (\E f \in lock : ~f.old) /\ RetryOrFail(w)
  /\ UNCHANGED <<lock, late, aged>>

\* Mutant: a pid that was once recorded counts as alive.
ProbeTrusting(w) ==
  /\ pc[w] = "probe"
  /\ IF \E f \in lock : f.pid THEN RetryOrFail(w) ELSE Go(w, "unlink")
  /\ UNCHANGED <<lock, late, aged>>

\* staleLockHolderIsAlive: a missing or empty file has no living holder.
Probe(w) ==
  /\ pc[w] = "probe"
  /\ IF \E f \in lock : f.pid /\ pc[f.by] # "dead" THEN RetryOrFail(w) ELSE Go(w, "unlink")
  /\ UNCHANGED <<lock, late, aged>>

\* Take the file away, whichever has the name by now, and try again.
Reclaim(w) ==
  /\ pc[w] = "unlink"
  /\ lock' = {}
  /\ Go(w, "try")
  /\ UNCHANGED <<late, aged>>

\* The operation is over, or has thrown: unlink the name.
Leave(w) ==
  /\ pc[w] = "inside"
  /\ lock' = {}
  /\ Go(w, "done")
  /\ UNCHANGED <<late, aged>>

\* Time passes: LOCK_STALE_MS over the file, LOCK_TIMEOUT_MS over a call.
Grow ==
  /\ \E f \in lock : pc[f.by] \in HeldUp \cup {"dead"}
  /\ lock' = {[f EXCEPT !.old = TRUE] : f \in lock}
  /\ aged' = TRUE
  /\ UNCHANGED <<pc, late>>

Deadline(w) ==
  /\ pc[w] \in {"try", "stat", "probe", "unlink"}
  /\ late' = late \cup {w}
  /\ UNCHANGED <<lock, pc, aged>>

\* A process ends, or a coordinator throws because it cannot write its pid.
Crash(w) ==
  /\ w \in Crashing
  /\ pc[w] \notin {"idle", "done", "failed", "dead"}
  /\ Go(w, "dead")
  /\ UNCHANGED <<lock, late, aged>>

Acquire(w) == Open(w) \/ WritePid(w) \/ PidWriteFails(w) \/ Stat(w) \/ Probe(w) \/ Reclaim(w)

Next == Grow \/ \E w \in Writer : Call(w) \/ Acquire(w) \/ Leave(w) \/ Deadline(w) \/ Crash(w)

Spec == Init /\ [][Next]_vars

\* A call that is after the lock takes its steps, and time passes.  Nothing makes
\* a holder leave: its storage may hang.
Fairness ==
  /\ WF_vars(Grow)
  /\ \A w \in Writer : WF_vars(Acquire(w)) /\ WF_vars(Deadline(w))

-----------------------------------------------------------------------------
(* Properties.                                                             *)

Inside == {w \in Writer : pc[w] = "inside"}

\* Read-modify-write cycles of the store do not overlap before some lock file has
\* reached LOCK_STALE_MS, whoever waits, gives up, dies or has no pid in the file.
OneWriterInside == ~aged => \A v, w \in Inside : v = w

\* A call gets the lock or fails: it "must fail fast with a clear error, never
\* block a tool call" (busy-store.ts:12-14), whoever holds the lock or died
\* holding it.
CallSettles ==
  \A w \in Writer : pc[w] = "try" ~> pc[w] \in {"inside", "failed", "dead"}

\* "A stale lock must not wedge the store forever" (concurrency-busy.mjs): the
\* old file of a dead writer goes when a call meets it.
DeadLockYields ==
  \A v, w \in Writer :
    (pc[w] = "try" /\ \E f \in lock : f.by = v /\ f.old /\ pc[v] = "dead")
      ~> (pc[w] = "dead" \/ ~\E f \in lock : f.by = v)

\* "A stale lock is reclaimed only when its recorded holder PID is no longer
\* alive" (busy-store.ts:144).
OnlyDeadLocksReclaimed ==
  [][\A w \in Writer : Reclaim(w) => \A f \in lock : pc[f.by] = "dead"]_vars
=============================================================================
