----------------------------- MODULE BusyClaims -----------------------------
(***************************************************************************)
(* The BUSY store: one file of claims and of the coordinator's jobs (lease   *)
(* metadata), written by the servers (BusyStore, which keep a copy of what   *)
(* they last read) and by the coordinator (busy.py, which keeps nothing and  *)
(* reads the jobs first).  Each operation is one step, under the lock file  *)
(* of BusyLock; its write may fail, may be the last thing its process does, *)
(* and may leave half a file.                                              *)
(*                                                                         *)
(* Scopes are canonical.  Calls carry no operation id.                     *)
(***************************************************************************)
EXTENDS Integers, FiniteSets

CONSTANTS
  Server,    \* server processes with a BusyStore
  Actor,     \* who claims
  Scope,     \* what is claimed
  MaxLease,  \* COLLISION_LEASE_MS, MAX_LEASE_S
  MaxTime,   \* bound on the clock
  Torn,      \* TRUE: a write that fails or is cut off may leave half a file
  Misread    \* TRUE: a server's read of the file may fail

ASSUME ConstantsAssumption ==
  /\ MaxLease \in Nat \ {0}
  /\ MaxTime \in Nat
  /\ Torn \in BOOLEAN /\ Misread \in BOOLEAN

VARIABLES
  now,     \* the time
  file,    \* what can be read from the store, nothing if it is half a file
  memory,  \* claims and passthrough of each server
  told     \* until when each actor has been told that it owns a scope

vars == <<now, file, memory, told>>

Claim == [actor : Actor, scope : Scope, at : Nat]
Job == [owner : Actor, scope : Scope, since : Nat, until : Nat]
Content == [claims : SUBSET Claim, jobs : SUBSET Job]
Empty == [claims |-> {}, jobs |-> {}]

TypeOK ==
  /\ now \in Nat
  /\ file \subseteq Content /\ Cardinality(file) <= 1
  /\ memory \in [Server -> Content]
  /\ told \in [Actor -> [Scope -> Nat]]

\* A missing file reads as no claims.
Init ==
  /\ now = 0
  /\ file = {Empty}
  /\ memory = [v \in Server |-> Empty]
  /\ told = [a \in Actor |-> [s \in Scope |-> 0]]

ClaimOf(x, s) == {c \in x.claims : c.scope = s}
Without(x, S) == [claims |-> {c \in x.claims : c.scope \notin S}, jobs |-> {j \in x.jobs : j.scope \notin S}]

\* A claim and its job, in the place of those the scope had.
With(x, a, s, lease) ==
  LET y == Without(x, {s})
  IN  [claims |-> y.claims \cup {[actor |-> a, scope |-> s, at |-> now]},
       jobs |-> y.jobs \cup {[owner |-> a, scope |-> s, since |-> now, until |-> now + lease]}]

Least(m, n) == IF m < n THEN m ELSE n
Tell(a, s, until) == told' = [told EXCEPT ![a][s] = until]

\* An answer that did not come leaves the actor with what it knew, shortened by
\* what it asked for.
Unheard(a, s, until) == Tell(a, s, Least(told[a][s], until))

\* A write that is not answered: it was cut off before or after the file was
\* replaced, or in the middle of an overwrite.
CutOff(x) == {file, {x}} \cup (IF Torn THEN {{}} ELSE {})

-----------------------------------------------------------------------------
(* BusyStore, in a server.                                                 *)

\* load: an unreadable file leaves the server with what it had read before.
Loaded(v) == IF file = {} THEN {memory[v]} ELSE file \cup (IF Misread THEN {memory[v]} ELSE {})

\* prune.
Pruned(x) == Without(x, {c.scope : c \in {d \in x.claims : now - d.at >= MaxLease}})

\* The operation ends after refresh: the file is written if prune changed something.
Kept(v, x) ==
  /\ memory' = [memory EXCEPT ![v] = Pruned(x)]
  /\ file' \in IF Pruned(x) = x THEN {file} ELSE {{Pruned(x)}} \cup CutOff(Pruned(x))

\* ... or goes on to write y.
Written(v, y) ==
  /\ memory' = [memory EXCEPT ![v] = y]
  /\ file' = {y}

\* ... or one of the two writes fails; should the server die of it, it restarts.
NotWritten(v, x, y) ==
  /\ memory' \in {[memory EXCEPT ![v] = y], [memory EXCEPT ![v] = Pruned(x)]}
  /\ file' \in CutOff(y) \cup CutOff(Pruned(x))

\* Mutant of ServerClaim: the file is not read first.
ServerClaimUnread(v, a, s) ==
  /\ ~\E c \in ClaimOf(Pruned(memory[v]), s) : c.actor # a
  /\ Written(v, With(Pruned(memory[v]), a, s, MaxLease))
  /\ Tell(a, s, now + MaxLease)
  /\ UNCHANGED now

ServerClaim(v, a, s) ==
  /\ \E x \in Loaded(v) :
       LET y == With(Pruned(x), a, s, MaxLease)
       IN  IF \E c \in ClaimOf(Pruned(x), s) : c.actor # a
             THEN Kept(v, x) /\ UNCHANGED told
             ELSE \/ Written(v, y) /\ Tell(a, s, now + MaxLease)
                  \/ NotWritten(v, x, y) /\ Unheard(a, s, now + MaxLease)
  /\ UNCHANGED now

ServerRelease(v, a, s) ==
  /\ \E x \in Loaded(v) :
       LET y == Without(Pruned(x), {s})
       IN  IF \E c \in ClaimOf(Pruned(x), s) : c.actor = a
             THEN Written(v, y) \/ NotWritten(v, x, y)
             ELSE Kept(v, x)
  /\ Tell(a, s, 0)
  /\ UNCHANGED now

ServerList(v) ==
  /\ \E x \in Loaded(v) : Kept(v, x)
  /\ UNCHANGED <<now, told>>

Restart(v) ==
  /\ memory' = [memory EXCEPT ![v] = Empty]
  /\ UNCHANGED <<now, file, told>>

-----------------------------------------------------------------------------
(* operate, in the coordinator: it refuses a file it cannot read.          *)

\* normalize_jobs: one job per claim, its lease no later than MaxLease after the claim.
LeaseOf(x, c) ==
  LET raw == {j \in x.jobs : j.scope = c.scope}
  IN  IF raw = {} THEN c.at + MaxLease
      ELSE Least((CHOOSE j \in raw : TRUE).until, c.at + MaxLease)
Normalized(x) ==
  [x EXCEPT !.jobs = {[owner |-> c.actor, scope |-> c.scope, since |-> c.at, until |-> LeaseOf(x, c)]
                        : c \in x.claims}]

\* Mutant of Swept: a lease is swept in its last unit of time.
SweptEarly(x) == Without(Normalized(x), {j.scope : j \in {k \in Normalized(x).jobs : k.until <= now + 1}})

\* sweep_expired, on normalized jobs, whose owners are those of the claims.
Swept(x) == Without(Normalized(x), {j.scope : j \in {k \in Normalized(x).jobs : k.until <= now}})

\* persist.
Persisted(y) == file' = {y} /\ UNCHANGED <<now, memory>>
Unpersisted(y) == file' \in CutOff(y) /\ UNCHANGED <<now, memory>>

\* claim takes a free scope or renews the actor's claim, heartbeat only renews.
Coordinate(a, s, lease, renewing) ==
  \E x \in file :
    LET y == With(Swept(x), a, s, lease)
        held == ClaimOf(Swept(x), s)
    IN  IF (\A c \in held : c.actor = a) /\ (renewing => held # {})
          THEN \/ Persisted(y) /\ Tell(a, s, now + lease)
               \/ Unpersisted(y) /\ Unheard(a, s, now + lease)
          ELSE (Persisted(Swept(x)) \/ Unpersisted(Swept(x))) /\ UNCHANGED told

CoordinatorClaim(a, s, lease) == Coordinate(a, s, lease, FALSE)

Heartbeat(a, s, lease) == Coordinate(a, s, lease, TRUE)

CoordinatorRelease(a, s) ==
  /\ \E x \in file :
       LET y == IF \E c \in ClaimOf(Swept(x), s) : c.actor = a THEN Without(Swept(x), {s}) ELSE Swept(x)
       IN  Persisted(y) \/ Unpersisted(y)
  /\ Tell(a, s, 0)

\* Somebody recovers the scope of an owner, naming it and the time of its claim.
Recover(a, s, at) ==
  \E x \in file :
    LET found == \E c \in ClaimOf(Swept(x), s) : c.actor = a /\ c.at = at
        y == IF found THEN Without(Swept(x), {s}) ELSE Swept(x)
    IN  /\ Persisted(y) \/ Unpersisted(y)
        /\ IF found THEN Tell(a, s, 0) ELSE UNCHANGED told

\* list, snapshot, inspect and sweep write the file if something has changed.
CoordinatorList ==
  /\ \E x \in file : Persisted(Swept(x)) \/ Unpersisted(Swept(x))
  /\ UNCHANGED told

-----------------------------------------------------------------------------

Tick ==
  /\ now < MaxTime
  /\ now' = now + 1
  /\ UNCHANGED <<file, memory, told>>

ServerStep(v) ==
  \/ \E a \in Actor, s \in Scope : ServerClaim(v, a, s) \/ ServerRelease(v, a, s)
  \/ ServerList(v)
  \/ Restart(v)

CoordinatorStep ==
  \/ \E a \in Actor, s \in Scope :
       \/ \E lease \in 1 .. MaxLease : CoordinatorClaim(a, s, lease) \/ Heartbeat(a, s, lease)
       \/ CoordinatorRelease(a, s)
       \/ \E at \in 0 .. now : Recover(a, s, at)
  \/ CoordinatorList

Next == Tick \/ (\E v \in Server : ServerStep(v)) \/ CoordinatorStep

Spec == Init /\ [][Next]_vars

-----------------------------------------------------------------------------
(* Properties.                                                             *)

\* What an actor was told it owns is on file, whatever servers and coordinator
\* did since: no writer loses another's claim or ends a lease early.
ToldIsOnFile ==
  \A a \in Actor, s \in Scope :
    told[a][s] > now => \E x \in file : \E c \in ClaimOf(x, s) : c.actor = a

\* "active scope metadata has a matching claim and owner" and "unowned scope
\* metadata is not retained" (coordinator-contract.json), after every writer.
JobsMatchClaims ==
  \A x \in file :
    {<<j.scope, j.owner, j.since>> : j \in x.jobs} = {<<c.scope, c.actor, c.at>> : c \in x.claims}

\* The file knows what was told, and its two halves agree: what coordinator.list says
\* and what a claim is refused for is one thing.
FileSpeaksTrue == ToldIsOnFile /\ JobsMatchClaims

\* The file implements the promise of ScopeLease.
Leases == INSTANCE ScopeLease WITH
  owner <- [s \in Scope |-> {[actor |-> j.owner, until |-> j.until] :
                               j \in {k \in UNION {x.jobs : x \in file} : k.scope = s}}]
LeaseSpec == Leases!Spec

\* "one claim per exact scope" (coordinator-contract.json): no two actors have
\* been told that they own a scope now.
OneOwnerPerScope ==
  \A a, b \in Actor, s \in Scope : told[a][s] > now /\ told[b][s] > now => a = b
=============================================================================
