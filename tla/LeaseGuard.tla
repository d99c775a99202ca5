------------------------------- MODULE LeaseGuard -------------------------------
(***************************************************************************)
(* Clients of the BUSY coordinator on one scope: guards (lease_guard.py),   *)
(* each of which claims the scope, runs a command under a renewable lease   *)
(* and releases it; and an actor who calls with operation ids, so that a    *)
(* call whose answer got lost can be repeated.                             *)
(*                                                                         *)
(* A guard's call is executed by the coordinator (operate, one step under   *)
(* its lock; BusyClaims has the file) and answered later.  Time is counted  *)
(* down: in the lease that is on file and to each guard's next heartbeat.   *)
(* The command is started by a runner that waits at a gate until the guard  *)
(* has coupled it to its own life (job object or PR_SET_PDEATHSIG).         *)
(***************************************************************************)
EXTENDS Naturals, Sequences, FiniteSets

CONSTANTS
  Guard,      \* runs of lease_guard.py
  Actor,      \* other clients
  Id,         \* operation ids
  Lease,      \* --lease-seconds
  MaxLease,   \* MAX_LEASE_S
  Beat,       \* --heartbeat-seconds
  MaxOps      \* MAX_OPERATIONS

\* parse_outer.
ConstantsAssumption ==
  /\ Guard \cap Actor = {}
  /\ Lease \in Nat /\ MaxLease \in Nat \ {0} /\ MaxOps \in Nat \ {0}
  /\ Beat \in Nat \ {0} /\ Beat < Lease

VARIABLES
  claim,      \* on file: the owner and what is left of the lease, or nothing
  known,      \* the actor has inspected the claim that is on file
  ops,        \* the coordinator's table of operations, oldest first
  guard,      \* each guard
  child,      \* its runner: "none", "waiting" at the gate, "running", "exited"
  coupled,    \* it dies with the guard
  gate,       \* the gate file is there
  effects,    \* ghost: how often an operation id changed the claim
  forgotten,  \* ghost: operation ids pruned from the table
  slow,       \* ghost: guards that took longer than a unit of time for a step
  taken,      \* ghost: guards whose claim was recovered by the actor
  unheld      \* ghost: guards whose command ran without a lease

fileVars == <<claim, known, ops>>
childVars == <<child, coupled, gate>>
ghosts == <<effects, forgotten, slow, taken, unheld>>
vars == <<fileVars, guard, childVars, ghosts>>

Client == Guard \cup Actor
Claim == [owner : Client, left : 0 .. MaxLease]

GuardAt == {"idle", "claim", "claimed", "spawn", "couple", "gate", "run", "beat", "beaten",
            "kill", "release", "released", "out"}
GuardState == [at : GuardAt, next : 0 .. Beat, ok : BOOLEAN, lost : BOOLEAN,
               exit : {"none", "busy", "lost", "child"}]

TypeOK ==
  /\ claim \subseteq Claim /\ Cardinality(claim) <= 1
  /\ known \in BOOLEAN
  /\ ops \in Seq(Id) /\ Len(ops) <= MaxOps
  /\ guard \in [Guard -> GuardState]
  /\ child \in [Guard -> {"none", "waiting", "running", "exited"}]
  /\ coupled \subseteq Guard /\ gate \subseteq Guard
  /\ effects \in [Id -> 0 .. 2]
  /\ forgotten \subseteq Id
  /\ slow \subseteq Guard /\ taken \subseteq Guard /\ unheld \subseteq Guard

Init ==
  /\ claim = {}
  /\ known = FALSE
  /\ ops = <<>>
  /\ guard = [g \in Guard |-> [at |-> "idle", next |-> 0, ok |-> FALSE, lost |-> FALSE,
                               exit |-> "none"]]
  /\ child = [g \in Guard |-> "none"]
  /\ coupled = {} /\ gate = {}
  /\ effects = [i \in Id |-> 0]
  /\ forgotten = {} /\ slow = {} /\ taken = {} /\ unheld = {}

-----------------------------------------------------------------------------
(* The coordinator: what a command finds and does, after sweep_expired.    *)

\* capped_lease_seconds.
Capped(n) == IF n < MaxLease THEN n ELSE MaxLease

Swept == {c \in claim : c.left > 0}
Owns(who) == \E c \in Swept : c.owner = who

\* claim takes a free scope or renews; heartbeat and release are for the owner.
Accepts(command, who) == IF command = "claim" THEN \A c \in Swept : c.owner = who ELSE Owns(who)

\* The claim after an accepted command.
After(command, who, lease) ==
  IF command \in {"claim", "heartbeat"} THEN {[owner |-> who, left |-> Capped(lease)]} ELSE {}

\* A command without an operation id, and whether it was accepted; or it fails, with
\* the lock or the write, or its answer gets lost.
Operate(command, who, lease, ok) ==
  LET done == IF Accepts(command, who) THEN After(command, who, lease) ELSE Swept IN
  /\ \/ claim' = done /\ ok = Accepts(command, who)
     \/ claim' = claim /\ ~ok
     \/ claim' = done /\ ~ok
  /\ known' = (known /\ claim' = claim)

-----------------------------------------------------------------------------
(* run_guarded.                                                            *)

Go(g, from, to) == guard[g].at = from /\ guard' = [guard EXCEPT ![g].at = to]

BeginClaim(g) ==
  /\ Go(g, "idle", "claim")
  /\ UNCHANGED <<fileVars, childVars, ghosts>>

Execute(g, command, from, to) ==
  /\ guard[g].at = from
  /\ \E ok \in BOOLEAN : Operate(command, g, Lease, ok) /\ guard' = [guard EXCEPT ![g].at = to, ![g].ok = ok]
  /\ UNCHANGED <<ops, childVars, ghosts>>

ExecuteClaim(g) == Execute(g, "claim", "claim", "claimed")
ExecuteBeat(g) == Execute(g, "heartbeat", "beat", "beaten")
ExecuteRelease(g) == Execute(g, "release", "release", "released")

\* BUSY_EXIT, or the end with an error; a claim that was made without an answer stays.
Claimed(g) ==
  /\ guard[g].at = "claimed"
  /\ guard' = [guard EXCEPT ![g].at = IF guard[g].ok THEN "spawn" ELSE "out",
                            ![g].exit = IF guard[g].ok THEN "none" ELSE "busy"]
  /\ UNCHANGED <<fileVars, childVars, ghosts>>

\* CoupledChild.start: the runner, the coupling, the gate; any of it may fail.
Lose(g) == guard' = [guard EXCEPT ![g].at = "kill", ![g].lost = TRUE]
StartFails(g) ==
  /\ guard[g].at \in {"spawn", "couple", "gate"}
  /\ Lose(g)
  /\ UNCHANGED <<fileVars, childVars, ghosts>>

Spawn(g) ==
  /\ Go(g, "spawn", "couple")
  /\ child' = [child EXCEPT ![g] = "waiting"]
  /\ UNCHANGED <<fileVars, coupled, gate, ghosts>>

Couple(g) ==
  /\ Go(g, "couple", "gate")
  /\ coupled' = coupled \cup {g}
  /\ UNCHANGED <<fileVars, child, gate, ghosts>>

OpenGate(g) ==
  /\ guard[g].at = "gate"
  /\ gate' = gate \cup {g}
  /\ guard' = [guard EXCEPT ![g].at = "run", ![g].next = Beat]
  /\ UNCHANGED <<fileVars, child, coupled, ghosts>>

\* The loop: a child that has ended, or a heartbeat that is due; the next one is due
\* Beat after this one began.
Ended(g) ==
  /\ child[g] = "exited"
  /\ Go(g, "run", "release")
  /\ UNCHANGED <<fileVars, childVars, ghosts>>

BeginBeat(g) ==
  /\ guard[g].at = "run" /\ guard[g].next = 0 /\ child[g] # "exited"
  /\ guard' = [guard EXCEPT ![g].at = "beat", ![g].next = Beat]
  /\ UNCHANGED <<fileVars, childVars, ghosts>>

\* Mutant of Beaten: a heartbeat that failed is tried again next time.
BeatenAgain(g) ==
  /\ guard[g].at = "beaten"
  /\ guard' = [guard EXCEPT ![g].at = "run"]
  /\ UNCHANGED <<fileVars, childVars, ghosts>>

Beaten(g) ==
  /\ guard[g].at = "beaten"
  /\ IF guard[g].ok
       THEN guard' = [guard EXCEPT ![g].at = "run"]
       ELSE Lose(g)
  /\ UNCHANGED <<fileVars, childVars, ghosts>>

\* CoupledChild.terminate.
Kill(g) ==
  /\ Go(g, "kill", "release")
  /\ child' = [child EXCEPT ![g] = IF @ = "none" THEN @ ELSE "exited"]
  /\ UNCHANGED <<fileVars, coupled, gate, ghosts>>

\* child.close and the exit code.
Released(g) ==
  /\ guard[g].at = "released"
  /\ guard' = [guard EXCEPT ![g].at = "out",
                            ![g].exit = IF guard[g].lost \/ ~guard[g].ok THEN "lost" ELSE "child"]
  /\ gate' = gate \ {g}
  /\ UNCHANGED <<fileVars, child, coupled, ghosts>>

\* KeyboardInterrupt, once: with a child it is caught, otherwise the guard ends.
Interrupt(g) ==
  /\ ~guard[g].lost
  /\ \/ guard[g].at \in {"spawn", "couple", "gate", "run", "beat", "beaten"} /\ Lose(g)
     \/ /\ guard[g].at \in {"claim", "claimed", "release", "released"}
        /\ guard' = [guard EXCEPT ![g].at = "out", ![g].lost = TRUE, ![g].exit = "lost"]
  /\ UNCHANGED <<fileVars, childVars, ghosts>>

\* A dead guard takes with it the child that is coupled to it.
GuardDies(g) ==
  /\ guard[g].at \notin {"idle", "out"}
  /\ guard' = [guard EXCEPT ![g].at = "out", ![g].exit = "lost"]
  /\ child' = [child EXCEPT ![g] = IF g \in coupled THEN "exited" ELSE @]
  /\ UNCHANGED <<fileVars, coupled, gate, ghosts>>

\* child_runner, and the command.
PassGate(g) ==
  /\ child[g] = "waiting" /\ g \in gate
  /\ child' = [child EXCEPT ![g] = "running"]
  /\ gate' = gate \ {g}
  /\ unheld' = IF Owns(g) THEN unheld ELSE unheld \cup {g}
  /\ UNCHANGED <<fileVars, guard, coupled, effects, forgotten, slow, taken>>

GateTimesOut(g) ==
  /\ child[g] = "waiting" /\ g \notin gate
  /\ child' = [child EXCEPT ![g] = "exited"]
  /\ UNCHANGED <<fileVars, guard, coupled, gate, ghosts>>

CommandEnds(g) ==
  /\ child[g] = "running"
  /\ child' = [child EXCEPT ![g] = "exited"]
  /\ UNCHANGED <<fileVars, guard, coupled, gate, ghosts>>

-----------------------------------------------------------------------------
(* The actor, with operation ids.                                          *)

Recorded(i) == \E k \in 1 .. Len(ops) : ops[k] = i

\* prune_operations.
Remember(i) ==
  LET all == Append(ops, i)
      kept == IF Len(all) > MaxOps THEN Tail(all) ELSE all
  IN  /\ ops' = kept
      /\ forgotten' = forgotten \cup {j \in Id : Recorded(j) /\ ~\E k \in 1 .. Len(kept) : kept[k] = j}

Inspect ==
  /\ Swept # {}
  /\ claim' = Swept
  /\ known' = TRUE
  /\ UNCHANGED <<ops, guard, childVars, ghosts>>

Effect(i) == effects' = [effects EXCEPT ![i] = IF @ < 2 THEN @ + 1 ELSE @]

\* What a command of the actor does: recover is for whoever inspected the claim.
Does(command, a) == IF command = "recover" THEN known /\ Swept # {} ELSE Accepts(command, a)
Makes(command, a) == IF command = "recover" THEN {} ELSE After(command, a, MaxLease)

\* Mutant of Call: the table is looked at after the operation.
CallThenLook(a, i, command) ==
  /\ IF Does(command, a)
       THEN claim' = Makes(command, a) /\ Effect(i)
       ELSE claim' = Swept /\ UNCHANGED effects
  /\ known' = (known /\ claim' = claim)
  /\ IF Recorded(i) THEN UNCHANGED <<ops, forgotten>> ELSE Remember(i)
  /\ taken' = taken \cup {g \in Guard : command = "recover" /\ Does(command, a) /\ Owns(g)}
  /\ unheld' = unheld \cup {g \in Guard : child[g] = "running" /\ ~\E c \in claim' : c.owner = g}
  /\ UNCHANGED <<guard, childVars, slow>>

\* A recorded id is answered from the table, or refused if the call was another;
\* otherwise the effect and its record are written together.
Call(a, i, command) ==
  /\ IF Recorded(i)
       THEN claim' = Swept /\ UNCHANGED <<ops, effects, forgotten>>
       ELSE /\ Remember(i)
            /\ IF Does(command, a)
                 THEN claim' = Makes(command, a) /\ Effect(i)
                 ELSE claim' = Swept /\ UNCHANGED effects
  /\ known' = (known /\ claim' = claim)
  /\ taken' = taken \cup {g \in Guard : command = "recover" /\ ~Recorded(i) /\ Does(command, a) /\ Owns(g)}
  /\ unheld' = unheld \cup {g \in Guard : child[g] = "running" /\ ~\E c \in claim' : c.owner = g}
  /\ UNCHANGED <<guard, childVars, slow>>

-----------------------------------------------------------------------------

Down(n) == IF n > 0 THEN n - 1 ELSE 0

\* A unit of time.  A guard is in time if all it has to do is wait.
InTime(g) == guard[g].at \in {"idle", "out"} \/ (guard[g].at = "run" /\ guard[g].next > 0)

Tick ==
  /\ claim' = {[c EXCEPT !.left = Down(@)] : c \in claim}
  /\ guard' = [g \in Guard |-> [guard[g] EXCEPT !.next = Down(@)]]
  /\ slow' = slow \cup {g \in Guard : ~InTime(g)}
  /\ unheld' = unheld \cup {g \in Guard : child[g] = "running" /\ ~\E c \in claim' : c.owner = g /\ c.left > 0}
  /\ UNCHANGED <<known, ops, childVars, effects, forgotten, taken>>

GuardGoesOn(g) ==
  \/ ExecuteClaim(g) \/ Claimed(g) \/ Spawn(g) \/ Couple(g) \/ OpenGate(g)
  \/ Ended(g) \/ BeginBeat(g) \/ ExecuteBeat(g) \/ Beaten(g) \/ Kill(g) \/ ExecuteRelease(g) \/ Released(g)

Next ==
  \/ Tick
  \/ \E g \in Guard : \/ BeginClaim(g) \/ GuardGoesOn(g) \/ StartFails(g) \/ Interrupt(g) \/ GuardDies(g)
                      \/ PassGate(g) \/ GateTimesOut(g) \/ CommandEnds(g)
  \/ Inspect
  \/ \E a \in Actor, i \in Id, command \in {"claim", "heartbeat", "release", "recover"} : Call(a, i, command)

Spec == Init /\ [][Next]_vars

(***************************************************************************)
(* Time passes, guards go on and the gate is looked at.  Nothing makes a    *)
(* command end.                                                            *)
(***************************************************************************)
Fairness ==
  /\ WF_vars(Tick)
  /\ \A g \in Guard : WF_vars(GuardGoesOn(g)) /\ WF_vars(PassGate(g) \/ GateTimesOut(g))

-----------------------------------------------------------------------------
(* Properties.                                                             *)

\* "Run one mutation critical section under a short renewable Busy lease"
\* (lease_guard.py:246): while the command runs its guard has the lease, whatever
\* fails, is interrupted or dies; unless the guard was slower than its lease, or
\* somebody recovered the scope.  It takes heartbeats more frequent than MAX_LEASE_S,
\* which nothing in the code demands (:287 looks at the lease that is asked for).
RunsUnderLease ==
  \A g \in Guard \ (slow \cup taken) :
    child[g] = "running" => \E c \in claim : c.owner = g /\ c.left > 0

\* A guard that returns the command's exit code held the lease as long as the
\* command ran, however slow it was.
HonestExit == \A g \in Guard : guard[g].exit = "child" => g \notin unheld

\* "guard death stops the child" (lease_guard.py:247).
NoOrphanRuns == \A g \in Guard : guard[g].at = "out" => child[g] # "running"

\* A repeated operation takes effect once, as long as it is in the table.
EffectOnce == \A i \in Id : effects[i] > 1 => i \in forgotten

\* A command whose lease is gone is stopped in the end.
LosersAreStopped == \A g \in Guard : g \in unheld ~> child[g] = "exited"
=============================================================================
