---------------------------- MODULE HostAdmission ----------------------------
(***************************************************************************)
(* Host admission: one file per slot in a directory that all server         *)
(* processes of the host share.  A claim creates the first free file        *)
(* exclusively, the start of the child is recorded in the file, the end of  *)
(* the process unlinks it, and a claim that meets the file of a dead server *)
(* with no living child unlinks it first.                                   *)
(*                                                                         *)
(* No step spans two file operations: creating or truncating a file,        *)
(* writing it, reading it and unlinking it are steps of their own, as they  *)
(* are in fs.promises.  A write goes to the file that was opened, which may *)
(* have been unlinked since; so files and their names are kept apart.       *)
(***************************************************************************)
EXTENDS Integers, FiniteSets

CONSTANTS
  Manager,       \* server processes (ProcessManager instances)
  Proc,          \* process ids, one claim each
  ManagerOf,     \* the server that starts each process
  MaxLiveTotal,  \* number of slots
  Crashing       \* servers that may crash

ASSUME ConstantsAssumption ==
  /\ ManagerOf \in [Proc -> Manager]
  /\ Crashing \subseteq Manager
  /\ MaxLiveTotal \in Nat \ {0}
  /\ IsFiniteSet(Proc)

VARIABLES
  dir,      \* the file each slot's name refers to
  content,  \* what is written in each file
  up,       \* servers that run
  child,    \* the operating-system child of each process
  held,     \* hostAdmissionSlots: the slot each process holds
  claim,    \* claimHostAdmissionSlotAsync of each process
  update,   \* updateHostAdmissionChildPidAsync of each process
  release   \* releaseHostAdmissionSlotAsync of each process

fileVars == <<dir, content>>
vars == <<dir, content, up, child, held, claim, update, release>>

Slot == 0 .. MaxLiveTotal - 1
NoSlot == -1
NoFile == <<>>

\* Every claim and every update creates at most one file.
File == Proc \X {"claim", "update"}

\* The manager_pid of a record is that of the server of its process.  A file
\* holds one record, or none that can be parsed.
Record == [process : Proc, childPid : BOOLEAN]

\* Where a claim, an update or a release is, and what it remembers.
ClaimPoint == {"idle", "open", "write", "check", "unlink", "done", "failed", "rejected"}
ClaimState == [at : ClaimPoint, slot : 0 .. MaxLiveTotal, attempt : 0 .. 1]
UpdatePoint == {"idle", "read", "open", "write", "done", "failed"}
UpdateState == [at : UpdatePoint, slot : Slot \cup {NoSlot}, file : File \cup {NoFile}]
ReleasePoint == {"idle", "read", "unlink", "done"}
ReleaseState == [at : ReleasePoint, slot : Slot \cup {NoSlot}]

TypeOK ==
  /\ dir \in [Slot -> File \cup {NoFile}]
  /\ content \in [File -> SUBSET Record]
  /\ up \subseteq Manager
  /\ child \in [Proc -> {"none", "running", "exited"}]
  /\ held \in [Proc -> Slot \cup {NoSlot}]
  /\ claim \in [Proc -> ClaimState]
  /\ update \in [Proc -> UpdateState]
  /\ release \in [Proc -> ReleaseState]

Init ==
  /\ dir = [s \in Slot |-> NoFile]
  /\ content = [f \in File |-> {}]
  /\ up = Manager
  /\ child = [p \in Proc |-> "none"]
  /\ held = [p \in Proc |-> NoSlot]
  /\ claim = [p \in Proc |-> [at |-> "idle", slot |-> 0, attempt |-> 0]]
  /\ update = [p \in Proc |-> [at |-> "idle", slot |-> NoSlot, file |-> NoFile]]
  /\ release = [p \in Proc |-> [at |-> "idle", slot |-> NoSlot]]

Runs(p) == ManagerOf[p] \in up

\* readHostAdmissionRecordAsync: a missing or torn file reads as undefined.
RecordsIn(s) == IF dir[s] = NoFile THEN {} ELSE content[dir[s]]

-----------------------------------------------------------------------------
(* claimHostAdmissionSlotAsync.                                            *)

\* The steps of a claim: where it is, in which slot, in which of the two attempts.
ClaimAt(p, at) == claim' = [claim EXCEPT ![p].at = at]

\* Go on with the next slot, or reject when there is none left.
NextSlot(p) ==
  claim' = [claim EXCEPT ![p] =
              [at |-> IF @.slot + 1 < MaxLiveTotal THEN "open" ELSE "rejected",
               slot |-> @.slot + 1, attempt |-> 0]]

BeginClaim(p) ==
  /\ Runs(p)
  /\ claim[p].at = "idle"
  /\ ClaimAt(p, "open")
  /\ UNCHANGED <<fileVars, up, child, held, update, release>>

\* Mutant: the claim is opened without the exclusive flag.
ClaimCreateShared(p) ==
  /\ Runs(p)
  /\ claim[p].at = "open"
  /\ dir' = [dir EXCEPT ![claim[p].slot] = <<p, "claim">>]
  /\ ClaimAt(p, "write")
  /\ UNCHANGED <<content, up, child, held, update, release>>

\* Mutant: a name in use is passed over without a look at its record.
ClaimCreateOnly(p) ==
  /\ Runs(p)
  /\ claim[p].at = "open"
  /\ IF dir[claim[p].slot] = NoFile
       THEN /\ dir' = [dir EXCEPT ![claim[p].slot] = <<p, "claim">>]
            /\ ClaimAt(p, "write")
       ELSE NextSlot(p) /\ UNCHANGED dir
  /\ UNCHANGED <<content, up, child, held, update, release>>

\* writeFile with flag "wx" creates the file, or finds that the name exists.
ClaimCreate(p) ==
  /\ Runs(p)
  /\ claim[p].at = "open"
  /\ IF dir[claim[p].slot] = NoFile
       THEN /\ dir' = [dir EXCEPT ![claim[p].slot] = <<p, "claim">>]
            /\ ClaimAt(p, "write")
       ELSE /\ IF claim[p].attempt = 0 THEN ClaimAt(p, "check") ELSE NextSlot(p)
            /\ UNCHANGED dir
  /\ UNCHANGED <<content, up, child, held, update, release>>

\* ... and writes the record; the slot is then the process's.
ClaimWrite(p) ==
  /\ Runs(p)
  /\ claim[p].at = "write"
  /\ content' = [content EXCEPT ![<<p, "claim">>] = {[process |-> p, childPid |-> FALSE]}]
  /\ held' = [held EXCEPT ![p] = claim[p].slot]
  /\ ClaimAt(p, "done")
  /\ UNCHANGED <<dir, up, child, update, release>>

\* ... or fails to write it: the claim throws, the empty file stays.
ClaimWriteFails(p) ==
  /\ Runs(p)
  /\ claim[p].at = "write"
  /\ ClaimAt(p, "failed")
  /\ UNCHANGED <<fileVars, up, child, held, update, release>>

\* pidIsAlive of the manager and of the recorded child.
Stale(r) ==
  /\ ManagerOf[r.process] \notin up
  /\ ~(r.childPid /\ child[r.process] = "running")

\* tryReclaimStaleHostAdmissionSlotAsync reads the record and probes its pids ...
ReclaimCheck(p) ==
  /\ Runs(p)
  /\ claim[p].at = "check"
  /\ IF \E r \in RecordsIn(claim[p].slot) : Stale(r)
       THEN ClaimAt(p, "unlink")
       ELSE NextSlot(p)
  /\ UNCHANGED <<fileVars, up, child, held, update, release>>

\* ... and unlinks the name, whatever file it refers to by then.
ReclaimUnlink(p) ==
  /\ Runs(p)
  /\ claim[p].at = "unlink"
  /\ IF dir[claim[p].slot] # NoFile
       THEN /\ dir' = [dir EXCEPT ![claim[p].slot] = NoFile]
            /\ claim' = [claim EXCEPT ![p].at = "open", ![p].attempt = 1]
       ELSE NextSlot(p) /\ UNCHANGED dir
  /\ UNCHANGED <<content, up, child, held, update, release>>

-----------------------------------------------------------------------------
(* The child starts: updateHostAdmissionChildPidAsync.                     *)

Spawn(p) ==
  /\ Runs(p)
  /\ held[p] # NoSlot
  /\ child[p] = "none"
  /\ child' = [child EXCEPT ![p] = "running"]
  /\ UNCHANGED <<fileVars, up, held, claim, update, release>>

\* The manager hears of the start while the process is live.  Bound: one update
\* per process (each further step of a plan makes another).
BeginUpdate(p) ==
  /\ Runs(p)
  /\ child[p] # "none"
  /\ held[p] # NoSlot
  /\ update[p].at = "idle"
  /\ update' = [update EXCEPT ![p].at = "read", ![p].slot = held[p]]
  /\ UNCHANGED <<fileVars, up, child, held, claim, release>>

Own(p, s) == \E r \in RecordsIn(s) : r.process = p

UpdateRead(p) ==
  /\ Runs(p)
  /\ update[p].at = "read"
  /\ update' = [update EXCEPT ![p].at = IF Own(p, update[p].slot) THEN "open" ELSE "done"]
  /\ UNCHANGED <<fileVars, up, child, held, claim, release>>

\* writeFile with flag "w" truncates the file of that name, or creates one ...
UpdateOpen(p) ==
  /\ Runs(p)
  /\ update[p].at = "open"
  /\ LET s == update[p].slot
         f == IF dir[s] = NoFile THEN <<p, "update">> ELSE dir[s]
     IN  /\ dir' = [dir EXCEPT ![s] = f]
         /\ content' = [content EXCEPT ![f] = {}]
         /\ update' = [update EXCEPT ![p].at = "write", ![p].file = f]
  /\ UNCHANGED <<up, child, held, claim, release>>

\* ... and writes the record read before, with the child's pid.
UpdateWrite(p) ==
  /\ Runs(p)
  /\ update[p].at = "write"
  /\ content' = [content EXCEPT ![update[p].file] = {[process |-> p, childPid |-> TRUE]}]
  /\ update' = [update EXCEPT ![p].at = "done"]
  /\ UNCHANGED <<dir, up, child, held, claim, release>>

\* ... or either operation fails, which is only logged.
UpdateFails(p) ==
  /\ Runs(p)
  /\ update[p].at \in {"open", "write"}
  /\ update' = [update EXCEPT ![p].at = "failed"]
  /\ UNCHANGED <<fileVars, up, child, held, claim, release>>

-----------------------------------------------------------------------------
(* The process ends: releaseHostAdmissionSlotAsync.                        *)

ChildExits(p) ==
  /\ child[p] = "running"
  /\ child' = [child EXCEPT ![p] = "exited"]
  /\ UNCHANGED <<fileVars, up, held, claim, update, release>>

\* observeTerminal forgets the slot at once and starts the release; the child
\* may still run when the session reported an error.
BeginRelease(p) ==
  /\ Runs(p)
  /\ held[p] # NoSlot
  /\ release' = [release EXCEPT ![p] = [at |-> "read", slot |-> held[p]]]
  /\ held' = [held EXCEPT ![p] = NoSlot]
  /\ UNCHANGED <<fileVars, up, child, claim, update>>

ReleaseRead(p) ==
  /\ Runs(p)
  /\ release[p].at = "read"
  /\ release' = [release EXCEPT ![p].at = IF Own(p, release[p].slot) THEN "unlink" ELSE "done"]
  /\ UNCHANGED <<fileVars, up, child, held, claim, update>>

ReleaseUnlink(p) ==
  /\ Runs(p)
  /\ release[p].at = "unlink"
  /\ dir' = [dir EXCEPT ![release[p].slot] = NoFile]
  /\ release' = [release EXCEPT ![p].at = "done"]
  /\ UNCHANGED <<content, up, child, held, claim, update>>

\* A server process dies; its children and what it wrote remain.
Crash(m) ==
  /\ m \in up \cap Crashing
  /\ up' = up \ {m}
  /\ UNCHANGED <<fileVars, child, held, claim, update, release>>

-----------------------------------------------------------------------------

Claim(p) == BeginClaim(p) \/ ClaimCreate(p) \/ ClaimWrite(p) \/ ClaimWriteFails(p)
              \/ ReclaimCheck(p) \/ ReclaimUnlink(p)

Update(p) == BeginUpdate(p) \/ UpdateRead(p) \/ UpdateOpen(p) \/ UpdateWrite(p) \/ UpdateFails(p)

Release(p) == BeginRelease(p) \/ ReleaseRead(p) \/ ReleaseUnlink(p)

Next ==
  \/ \E p \in Proc : Claim(p) \/ Spawn(p) \/ Update(p) \/ ChildExits(p) \/ Release(p)
  \/ \E m \in Manager : Crash(m)

Spec == Init /\ [][Next]_vars

\* A claim that has begun goes on, its server's event loop and file system willing.
Fairness ==
  \A p \in Proc : WF_vars(ClaimCreate(p) \/ ClaimWrite(p) \/ ReclaimCheck(p) \/ ReclaimUnlink(p))
FairSpec == Spec /\ Fairness

-----------------------------------------------------------------------------
(* Properties.                                                             *)

Holders == {p \in Proc : Runs(p) /\ held[p] # NoSlot}

\* No two processes of running servers hold the same slot, although claims,
\* updates and releases of the same file names overlap in every way.
OneHolderPerSlot == \A p, q \in Holders : held[p] = held[q] => p = q

\* While no server crashes, the files implement the counter.
Counter == INSTANCE SlotCounter WITH holders <- {p \in Proc : held[p] # NoSlot}
CounterSpec == Counter!Spec

\* A slot whose server died, with no living child recorded, is not passed over:
\* a claim that has yet to look at it takes that slot or an earlier one (or
\* fails to write, or dies with its server), unless somebody else reclaims it.
LeftBehind(s) == \E r \in RecordsIn(s) : Stale(r)
DeadSlotIsHandedOn ==
  \A p \in Proc, s \in Slot :
    (claim[p].at = "open" /\ claim[p].attempt = 0 /\ claim[p].slot <= s /\ LeftBehind(s))
      ~> \/ claim[p].at \in {"done", "failed"} /\ claim[p].slot <= s
         \/ ~LeftBehind(s)
         \/ ~Runs(p)

\* With no operation under way and no failed write, there are as many slot
\* files as live processes: that number is what the receipt of a rejected start
\* reports as live_process_count (scripts/test-concurrency-rejection-receipt.mjs:33).
Quiet ==
  \A p \in Proc : /\ claim[p].at \in {"idle", "done"}
                  /\ update[p].at \in {"idle", "done"}
                  /\ release[p].at \in {"idle", "done"}
SlotFilesCountTheLive ==
  Quiet => Cardinality({s \in Slot : dir[s] # NoFile}) = Cardinality(Holders)
=============================================================================
