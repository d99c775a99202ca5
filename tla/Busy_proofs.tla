----------------------------- MODULE Busy_proofs -----------------------------
(***************************************************************************)
(* Proofs about BusyLock and about LeaseGuard (L), for any number of        *)
(* operations, guards and actors.                                          *)
(*                                                                         *)
(* BusyLock: types and, until a lock file has reached LOCK_STALE_MS,        *)
(* exclusion of the read-modify-write cycles.  From its open to its unlink  *)
(* a writer's file has the name, because no file is old and so nobody gets  *)
(* to probe or unlink it.                                                  *)
(***************************************************************************)
EXTENDS MCBusy, Sequences, TLAPS, FiniteSetTheorems

\* The name refers to one file.
AtMostOne == \A f, g \in lock : f = g

TypeInv ==
  /\ lock \subseteq LockFile
  /\ AtMostOne
  /\ pc \in [Writer -> Place]
  /\ late \subseteq Writer
  /\ aged \in BOOLEAN

\* No file is ever old enough to be taken away.
NoReclaim ==
  /\ \A f \in lock : ~f.old
  /\ \A w \in Writer : pc[w] \notin {"probe", "unlink"}

\* The lock is that of the writer that has opened it.
OwnLock ==
  \A w \in Writer : pc[w] \in {"opened", "inside"} => lock # {} /\ \A f \in lock : f.by = w

IInv == TypeInv /\ (~aged => NoReclaim /\ OwnLock)

-----------------------------------------------------------------------------
(* Types.                                                                  *)

LEMMA SingleFile == TypeInv => TypeOK
<1>1. SUFFICES ASSUME TypeInv PROVE Cardinality(lock) <= 1
  BY <1>1 DEF TypeInv, TypeOK
<1>2. CASE lock = {}
  BY <1>2, FS_EmptySet
<1>3. CASE lock # {}
  <2>1. PICK f : f \in lock
    BY <1>3
  <2>2. lock = {f}
    BY <1>1, <2>1 DEF TypeInv, AtMostOne
  <2>3. Cardinality({f}) = 1
    BY FS_Singleton
  <2> QED BY <2>2, <2>3
<1> QED BY <1>2, <1>3

LEMMA TypeInit == Init => TypeInv
  BY DEF Init, TypeInv, AtMostOne, Place

\* A new file has no pid and is not old.
LEMMA NewFileTyped == \A w \in Writer : [by |-> w, pid |-> FALSE, old |-> FALSE] \in LockFile
  BY DEF LockFile

LEMMA TypeStep == TypeInv /\ [Next]_vars => TypeInv'
<1> SUFFICES ASSUME TypeInv, [Next]_vars PROVE TypeInv'
  OBVIOUS
<1> USE DEF TypeInv, AtMostOne
<1>1. CASE UNCHANGED vars
  BY <1>1 DEF vars
<1>2. CASE Grow
  <2>1. \A f \in lock : [f EXCEPT !.old = TRUE] \in LockFile
    BY DEF LockFile
  <2> QED BY <1>2, <2>1 DEF Grow
<1>3. ASSUME NEW w \in Writer, Call(w) \/ Deadline(w) \/ Crash(w) PROVE TypeInv'
  BY <1>3 DEF Call, Deadline, Crash, Go, Place
<1>4. ASSUME NEW w \in Writer, Open(w) PROVE TypeInv'
  BY <1>4, NewFileTyped DEF Open, Go, Place
<1>5. ASSUME NEW w \in Writer, WritePid(w) PROVE TypeInv'
  <2>1. \A f \in lock : [f EXCEPT !.pid = @ \/ f.by = w] \in LockFile
    BY DEF LockFile
  <2> QED BY <1>5, <2>1 DEF WritePid, Go, Place
<1>6. ASSUME NEW w \in Writer, PidWriteFails(w) \/ Reclaim(w) \/ Leave(w) PROVE TypeInv'
  BY <1>6 DEF PidWriteFails, Reclaim, Leave, Go, Place
<1>7. ASSUME NEW w \in Writer, Stat(w) PROVE TypeInv'
  BY <1>7 DEF Stat, RetryOrFail, Go, Place
<1>8. ASSUME NEW w \in Writer, Probe(w) PROVE TypeInv'
  BY <1>8 DEF Probe, RetryOrFail, Go, Place
<1> QED BY <1>1, <1>2, <1>3, <1>4, <1>5, <1>6, <1>7, <1>8 DEF Next, Acquire

-----------------------------------------------------------------------------
(* Nobody reclaims before a file is old.                                   *)

LEMMA NoReclaimStep ==
  ASSUME TypeInv, NoReclaim, [Next]_vars, ~aged'
  PROVE  NoReclaim'
<1> USE DEF TypeInv, NoReclaim
<1>1. CASE UNCHANGED vars
  BY <1>1 DEF vars
<1>2. ~Grow
  BY DEF Grow
<1>3. ASSUME NEW w \in Writer, Call(w) \/ Deadline(w) \/ Crash(w) PROVE NoReclaim'
  BY <1>3 DEF Call, Deadline, Crash, Go
<1>4. ASSUME NEW w \in Writer PROVE ~(Probe(w) \/ Reclaim(w))
  BY <1>4 DEF Probe, Reclaim
<1>5. ASSUME NEW w \in Writer, Open(w) PROVE NoReclaim'
  BY <1>5 DEF Open, Go
<1>6. ASSUME NEW w \in Writer, WritePid(w) PROVE NoReclaim'
  <2>1. \A f \in lock : ~[f EXCEPT !.pid = @ \/ f.by = w].old
    BY DEF LockFile
  <2> QED BY <1>6, <2>1 DEF WritePid, Go
<1>7. ASSUME NEW w \in Writer, PidWriteFails(w) \/ Leave(w) PROVE NoReclaim'
  BY <1>7 DEF PidWriteFails, Leave, Go
<1>8. ASSUME NEW w \in Writer, Stat(w) PROVE NoReclaim'
  BY <1>8 DEF Stat, RetryOrFail, Go
<1> QED BY <1>1, <1>2, <1>3, <1>4, <1>5, <1>6, <1>7, <1>8 DEF Next, Acquire

LEMMA OwnLockStep ==
  ASSUME TypeInv, NoReclaim, OwnLock, [Next]_vars, ~aged'
  PROVE  OwnLock'
<1> USE DEF TypeInv, OwnLock
<1>1. CASE UNCHANGED vars
  BY <1>1 DEF vars
<1>2. ~Grow
  BY DEF Grow
<1>3. ASSUME NEW w \in Writer, Call(w) \/ Deadline(w) \/ Crash(w) PROVE OwnLock'
  BY <1>3 DEF Call, Deadline, Crash, Go
<1>4. ASSUME NEW w \in Writer PROVE ~(Probe(w) \/ Reclaim(w))
  BY <1>4 DEF Probe, Reclaim, NoReclaim
<1>5. ASSUME NEW w \in Writer, Open(w) PROVE OwnLock'
  \* The name was free, so nobody else is inside.
  <2>1. CASE lock = {}
    <3>1. lock' = {[by |-> w, pid |-> FALSE, old |-> FALSE]}
      BY <1>5, <2>1 DEF Open
    <3>2. lock' # {} /\ \A f \in lock' : f.by = w
      BY <3>1
    <3>3. \A v \in Writer : v # w => pc'[v] \notin {"opened", "inside"}
      BY <1>5, <2>1 DEF Open, Go
    <3> QED BY <3>2, <3>3
  <2>2. CASE lock # {}
    BY <1>5, <2>2 DEF Open, Go
  <2> QED BY <2>1, <2>2
<1>6. ASSUME NEW w \in Writer, WritePid(w) PROVE OwnLock'
  <2>1. \A f \in lock : [f EXCEPT !.pid = @ \/ f.by = w].by = f.by
    BY DEF LockFile
  <2>2. (lock = {} <=> lock' = {}) /\ \A g \in lock' : \E f \in lock : g.by = f.by
    <3> DEFINE Signed(f) == [f EXCEPT !.pid = @ \/ f.by = w]
    <3>1. lock' = {Signed(f) : f \in lock}
      BY <1>6 DEF WritePid
    <3>2. \A f \in lock : Signed(f).by = f.by
      BY <2>1
    <3> HIDE DEF Signed
    <3> QED BY <3>1, <3>2
  <2>3. \A v \in Writer : pc'[v] \in {"opened", "inside"} => pc[v] \in {"opened", "inside"}
    BY <1>6 DEF WritePid, Go
  <2> QED BY <2>2, <2>3
<1>7. ASSUME NEW w \in Writer, PidWriteFails(w) PROVE OwnLock'
  BY <1>7 DEF PidWriteFails, Go
<1>8. ASSUME NEW w \in Writer, Leave(w) PROVE OwnLock'
  \* Another writer inside would own the same file.
  <2>1. \A v \in Writer : v # w => pc[v] \notin {"opened", "inside"}
    BY <1>8 DEF Leave
  <2> QED BY <1>8, <2>1 DEF Leave, Go
<1>9. ASSUME NEW w \in Writer, Stat(w) PROVE OwnLock'
  BY <1>9 DEF Stat, RetryOrFail, Go
<1> QED BY <1>1, <1>2, <1>3, <1>4, <1>5, <1>6, <1>7, <1>8, <1>9 DEF Next, Acquire

-----------------------------------------------------------------------------
(* The theorems.                                                           *)

\* Every variable of the lock protocol keeps its type, and the lock's name
\* refers to at most one file, writers dying or held up anywhere (busy-store.ts
\* withLock, busy.py StoreLock).
THEOREM TypeCorrect == Spec => []TypeOK
<1>1. Spec => []TypeInv
  BY TypeInit, TypeStep, PTL DEF Spec
<1> QED BY <1>1, SingleFile, PTL

\* The read-modify-write cycles of the store do not overlap before some lock file
\* has reached LOCK_STALE_MS: servers and coordinators exclude each other by the
\* file alone, whoever waits, gives up, dies or cannot write its pid.
THEOREM WritersExclude == Spec => []OneWriterInside
<1>1. Init => IInv
  BY TypeInit DEF Init, IInv, NoReclaim, OwnLock
<1>2. IInv /\ [Next]_vars => IInv'
  <2> SUFFICES ASSUME IInv, [Next]_vars, ~aged' PROVE NoReclaim' /\ OwnLock'
    BY TypeStep DEF IInv
  <2>1. ~aged
    <3>1. CASE UNCHANGED vars
      BY <3>1 DEF vars
    <3>2. CASE Next
      BY <3>2 DEF Next, Grow, Call, Acquire, Open, WritePid, PidWriteFails, Stat, Probe,
                  Reclaim, Leave, Deadline, Crash
    <3> QED BY <3>1, <3>2
  <2> QED BY <2>1, NoReclaimStep, OwnLockStep DEF IInv
<1>3. IInv => OneWriterInside
  BY DEF IInv, OwnLock, OneWriterInside, Inside
<1> QED BY <1>1, <1>2, <1>3, PTL DEF Spec

-----------------------------------------------------------------------------
(* The lease guard: types, and what an operation does to the claim.        *)

LeaseTypes ==
  /\ claim \subseteq L!Claim /\ \A c, d \in claim : c = d
  /\ known \in BOOLEAN
  /\ guard \in [Guard -> L!GuardState]
  /\ child \in [Guard -> {"none", "waiting", "running", "exited"}]
  /\ coupled \subseteq Guard /\ gate \subseteq Guard
  /\ slow \subseteq Guard /\ taken \subseteq Guard /\ unheld \subseteq Guard

TableTypes ==
  /\ ops \in Seq(Id) /\ Len(ops) <= MaxOps
  /\ effects \in [Id -> 0 .. 2] /\ forgotten \subseteq Id

\* A client that has the lease keeps it, and one that has not does not get it.
Keeps(h) ==
  /\ \A c \in claim : c.owner = h /\ c.left > 0 => c \in claim'
  /\ \A c \in claim' : c.owner = h => c \in claim

LEMMA AfterTyped ==
  ASSUME NEW command, NEW who \in L!Client, NEW n \in Nat
  PROVE  /\ L!After(command, who, n) \subseteq L!Claim
         /\ \A c, d \in L!After(command, who, n) : c = d /\ c.owner = who
<1>1. L!Capped(n) \in 0 .. MaxLease
  BY LeaseAssumption DEF L!Capped, L!ConstantsAssumption
<1>2. QED
  BY <1>1 DEF L!After, L!Claim

LEMMA OthersKeep ==
  ASSUME LeaseTypes, NEW command, NEW who \in L!Client, NEW n \in Nat, L!Accepts(command, who),
         claim' = L!After(command, who, n), NEW h, h # who
  PROVE  Keeps(h)
<1>1. \A c \in claim : c.owner = h => ~(c.left > 0)
  BY DEF L!Accepts, L!Owns, L!Swept, LeaseTypes
<1>2. \A c \in claim' : c.owner = who
  BY AfterTyped
<1>3. QED
  BY <1>1, <1>2 DEF Keeps

LEMMA SweepKeeps ==
  ASSUME LeaseTypes, claim' = L!Swept \/ claim' = claim
  PROVE  /\ claim' \subseteq L!Claim /\ (\A c, d \in claim' : c = d)
         /\ \A h : Keeps(h)
BY DEF L!Swept, LeaseTypes, Keeps

LEMMA Operates ==
  ASSUME LeaseTypes, NEW command, NEW who \in L!Client, NEW ok \in BOOLEAN,
         L!Operate(command, who, Lease, ok)
  PROVE  /\ claim' \subseteq L!Claim /\ (\A c, d \in claim' : c = d) /\ known' \in BOOLEAN
         /\ \A h : h # who => Keeps(h)
         /\ ok => L!Accepts(command, who) /\ claim' = L!After(command, who, Lease)
         /\ IF L!Accepts(command, who) THEN claim' \in {claim, L!After(command, who, Lease)} ELSE Keeps(who)
<1>1. Lease \in Nat
  BY LeaseAssumption DEF L!ConstantsAssumption
<1>2. /\ ok => L!Accepts(command, who) /\ claim' = L!After(command, who, Lease)
      /\ L!Accepts(command, who) => claim' \in {claim, L!After(command, who, Lease)}
      /\ ~L!Accepts(command, who) => claim' = L!Swept \/ claim' = claim
      /\ known' \in BOOLEAN
  BY DEF L!Operate
<1>3. CASE claim' = L!After(command, who, Lease) /\ L!Accepts(command, who)
  BY <1>1, <1>2, <1>3, AfterTyped, OthersKeep
<1>4. CASE claim' = L!Swept \/ claim' = claim
  BY <1>2, <1>4, SweepKeeps
<1>5. QED
  BY <1>2, <1>3, <1>4

\* What the actor's calls do to the claim.
LEMMA CallKeeps ==
  ASSUME LeaseTypes, NEW a \in Actor, NEW i, NEW command, L!Call(a, i, command)
  PROVE  /\ claim' \subseteq L!Claim /\ (\A c, d \in claim' : c = d) /\ known' \in BOOLEAN
         /\ \A g \in Guard \ taken' : Keeps(g)
         /\ \A g \in Guard, c \in claim' : c.owner = g => c \in claim
<1> USE LeaseAssumption DEF L!ConstantsAssumption
<1>1. a \in L!Client /\ a \notin Guard
  BY DEF L!Client
<1>2. \/ claim' = L!Swept
      \/ L!Does(command, a) /\ ~L!Recorded(i) /\ claim' = L!Makes(command, a)
  BY DEF L!Call
<1>3. CASE claim' = L!Swept
  BY <1>3, SweepKeeps DEF L!Call, LeaseTypes, Keeps
<1>4. CASE L!Does(command, a) /\ claim' = L!Makes(command, a) /\ command # "recover"
  <2>1. L!Accepts(command, a) /\ claim' = L!After(command, a, MaxLease)
    BY <1>4 DEF L!Does, L!Makes
  <2>2. \A g \in Guard : Keeps(g)
    BY <1>1, <2>1, OthersKeep
  <2>3. QED
    BY <1>1, <2>1, <2>2, AfterTyped DEF L!Call, LeaseTypes, Keeps
<1>5. CASE L!Does(command, a) /\ ~L!Recorded(i) /\ claim' = L!Makes(command, a) /\ command = "recover"
  <2>1. claim' = {}
    BY <1>5 DEF L!Makes
  <2>2. \A g \in Guard : L!Owns(g) => g \in taken'
    BY <1>5 DEF L!Call
  <2>3. \A g \in Guard \ taken' : Keeps(g)
    BY <2>1, <2>2 DEF L!Owns, L!Swept, Keeps
  <2>4. QED
    BY <2>1, <2>3 DEF L!Call, LeaseTypes
<1>6. QED
  BY <1>2, <1>3, <1>4, <1>5

LEMMA LeaseTypesStep == LeaseTypes /\ [L!Next]_(L!vars) => LeaseTypes'
<1> SUFFICES ASSUME LeaseTypes, [L!Next]_(L!vars) PROVE LeaseTypes'
  OBVIOUS
<1> USE LeaseAssumption DEF L!ConstantsAssumption
<1>1. /\ guard \in [Guard -> L!GuardState]
      /\ child \in [Guard -> {"none", "waiting", "running", "exited"}]
      /\ coupled \subseteq Guard /\ gate \subseteq Guard /\ Beat \in Nat
  BY DEF LeaseTypes
<1>2. \A g \in Guard, p \in L!GuardAt : [guard EXCEPT ![g].at = p] \in [Guard -> L!GuardState]
  BY <1>1 DEF L!GuardState
<1>3. ASSUME UNCHANGED <<claim, known>>, UNCHANGED <<slow, taken, unheld>>, guard' \in [Guard -> L!GuardState],
             child' \in [Guard -> {"none", "waiting", "running", "exited"}],
             coupled' \subseteq Guard, gate' \subseteq Guard
      PROVE  LeaseTypes'
  BY <1>3 DEF LeaseTypes
<1>4. ASSUME NEW g \in Guard, L!BeginClaim(g) \/ L!Ended(g) \/ L!Spawn(g) \/ L!Couple(g) \/ L!Kill(g)
      PROVE  LeaseTypes'
  <2>a. \E p \in L!GuardAt : guard' = [guard EXCEPT ![g].at = p]
    BY <1>4 DEF L!BeginClaim, L!Ended, L!Spawn, L!Couple, L!Kill, L!Go, L!GuardAt
  <2>1. guard' \in [Guard -> L!GuardState]
    BY <1>2, <2>a
  <2>2. /\ child' \in [Guard -> {"none", "waiting", "running", "exited"}]
        /\ coupled' \subseteq Guard /\ gate' \subseteq Guard
        /\ UNCHANGED <<claim, known>> /\ UNCHANGED <<slow, taken, unheld>>
    BY <1>1, <1>4
    DEF L!BeginClaim, L!Ended, L!Spawn, L!Couple, L!Kill, L!fileVars, L!childVars, L!ghosts
  <2>3. QED
    BY <1>3, <2>1, <2>2
<1>5. ASSUME NEW g \in Guard, L!ExecuteClaim(g) \/ L!ExecuteBeat(g) \/ L!ExecuteRelease(g)
      PROVE  LeaseTypes'
  <2>1. PICK command, from, to : to \in L!GuardAt /\ L!Execute(g, command, from, to)
    BY <1>5 DEF L!ExecuteClaim, L!ExecuteBeat, L!ExecuteRelease, L!GuardAt
  <2>2. PICK ok \in BOOLEAN : L!Operate(command, g, Lease, ok) /\ guard' = [guard EXCEPT ![g].at = to, ![g].ok = ok]
    BY <2>1 DEF L!Execute
  <2>3. guard' \in [Guard -> L!GuardState]
    <3>1. [[guard[g] EXCEPT !.at = to] EXCEPT !.ok = ok] \in L!GuardState
      BY <1>1, <2>1 DEF L!GuardState
    <3>2. guard' = [guard EXCEPT ![g] = [[guard[g] EXCEPT !.at = to] EXCEPT !.ok = ok]]
      BY <1>1, <2>2 DEF L!GuardState
    <3>3. QED
      BY <1>1, <3>1, <3>2
  <2>4. claim' \subseteq L!Claim /\ (\A c, d \in claim' : c = d) /\ known' \in BOOLEAN
    BY <2>2, Operates DEF L!Client
  <2>5. QED
    BY <1>1, <2>1, <2>3, <2>4 DEF L!Execute, L!childVars, L!ghosts, LeaseTypes
<1>6. ASSUME NEW g \in Guard,
             \/ L!Claimed(g) \/ L!OpenGate(g) \/ L!BeginBeat(g) \/ L!Beaten(g) \/ L!Released(g)
             \/ L!StartFails(g) \/ L!Interrupt(g) \/ L!GuardDies(g)
      PROVE  LeaseTypes'
  <2>1. guard' \in [Guard -> L!GuardState]
    <3>1. CASE L!Claimed(g) \/ L!Released(g) \/ L!GuardDies(g)
      BY <1>1, <3>1 DEF L!Claimed, L!Released, L!GuardDies, L!GuardState, L!GuardAt
    <3>2. CASE L!OpenGate(g) \/ L!BeginBeat(g)
      BY <1>1, <3>2 DEF L!OpenGate, L!BeginBeat, L!GuardState, L!GuardAt
    <3>3. CASE L!Beaten(g) \/ L!StartFails(g)
      BY <1>1, <3>3 DEF L!Beaten, L!StartFails, L!Lose, L!GuardState, L!GuardAt
    <3>4. CASE L!Interrupt(g)
      BY <1>1, <3>4 DEF L!Interrupt, L!Lose, L!GuardState, L!GuardAt
    <3>5. QED
      BY <1>6, <3>1, <3>2, <3>3, <3>4
  <2>2. /\ child' \in [Guard -> {"none", "waiting", "running", "exited"}]
        /\ coupled' \subseteq Guard /\ gate' \subseteq Guard
        /\ UNCHANGED <<claim, known>> /\ UNCHANGED <<slow, taken, unheld>>
    BY <1>1, <1>6
    DEF L!Claimed, L!OpenGate, L!BeginBeat, L!Beaten, L!Released, L!StartFails, L!Interrupt, L!GuardDies,
        L!fileVars, L!childVars, L!ghosts
  <2>3. QED
    BY <1>3, <2>1, <2>2
<1>7. ASSUME NEW g \in Guard, L!PassGate(g) \/ L!GateTimesOut(g) \/ L!CommandEnds(g)
      PROVE  LeaseTypes'
  BY <1>7 DEF L!PassGate, L!GateTimesOut, L!CommandEnds, L!fileVars, L!ghosts, LeaseTypes
<1>8. CASE L!Tick
  <2>1. claim' \subseteq L!Claim /\ \A c, d \in claim' : c = d
    <3>1. claim' = {[c EXCEPT !.left = L!Down(@)] : c \in claim}
      BY <1>8 DEF L!Tick
    <3>2. \A c \in claim : [c EXCEPT !.left = L!Down(@)] \in L!Claim
      BY DEF LeaseTypes, L!Claim, L!Down
    <3>3. QED
      BY <3>1, <3>2 DEF LeaseTypes
  <2>2. guard' \in [Guard -> L!GuardState]
    <3>1. \A x \in L!GuardState : [x EXCEPT !.next = L!Down(@)] \in L!GuardState
      BY DEF L!GuardState, L!Down
    <3>2. QED
      BY <1>1, <1>8, <3>1 DEF L!Tick
  <2>3. QED
    BY <1>8, <2>1, <2>2 DEF L!Tick, L!childVars, LeaseTypes
<1>9. CASE L!Inspect
  BY <1>9, SweepKeeps DEF L!Inspect, L!childVars, L!ghosts, LeaseTypes
<1>10. ASSUME NEW a \in Actor, NEW i \in Id, NEW command, L!Call(a, i, command)
       PROVE  LeaseTypes'
  BY <1>10, CallKeeps DEF L!Call, L!childVars, LeaseTypes
<1>11. CASE UNCHANGED L!vars
  BY <1>11 DEF L!vars, L!fileVars, L!childVars, L!ghosts, LeaseTypes
<1>12. QED
  BY <1>4, <1>5, <1>6, <1>7, <1>8, <1>9, <1>10, <1>11 DEF L!Next, L!GuardGoesOn

-----------------------------------------------------------------------------
(* A child runs only while its guard looks after it.                       *)

Early == {"idle", "claim", "claimed", "spawn"}
Watching == {"run", "beat", "beaten", "kill"}
Ending == {"release", "released"}

ChildOf(g) ==
  /\ guard[g].at \in Early => child[g] = "none" /\ g \notin coupled
  /\ guard[g].at = "couple" => g \notin coupled
  /\ guard[g].at = "gate" => g \in coupled
  /\ g \in gate => g \in coupled /\ guard[g].at \in Watching \cup Ending \cup {"out"}
  /\ child[g] = "running" => g \in coupled /\ guard[g].at \in Watching
  /\ guard[g].at \in Ending => child[g] \in {"none", "exited"}
  /\ guard[g].at = "out" /\ g \in coupled => child[g] \in {"none", "exited"}

Children == \A g \in Guard : ChildOf(g)

\* What the steps of one guard are to the others.
Alone(g) ==
  \A h \in Guard \ {g} : /\ guard'[h] = guard[h] /\ child'[h] = child[h]
                         /\ h \in coupled' <=> h \in coupled
                         /\ h \in gate' <=> h \in gate

LEMMA ChildrenStep == LeaseTypes /\ Children /\ [L!Next]_(L!vars) => Children'
<1> SUFFICES ASSUME LeaseTypes, Children, [L!Next]_(L!vars) PROVE Children'
  OBVIOUS
<1>1. /\ guard \in [Guard -> L!GuardState] /\ \A g \in Guard : guard[g] \in L!GuardState
      /\ child \in [Guard -> {"none", "waiting", "running", "exited"}]
  BY DEF LeaseTypes
<1>2. ASSUME NEW g \in Guard, Alone(g), ChildOf(g)'
      PROVE  Children'
  <2>1. \A h \in Guard \ {g} : ChildOf(h)'
    BY <1>2 DEF Alone, Children, ChildOf
  <2>2. QED
    BY <1>2, <2>1 DEF Children
<1>3. ASSUME UNCHANGED <<child, coupled, gate>>, \A g \in Guard : guard'[g].at = guard[g].at
      PROVE  Children'
  BY <1>3 DEF Children, ChildOf
<1>4. ASSUME NEW g \in Guard, L!BeginClaim(g) \/ L!Ended(g) \/ L!Spawn(g) \/ L!Couple(g) \/ L!Kill(g)
      PROVE  Children'
  <2>1. /\ \A h \in Guard \ {g} : guard'[h] = guard[h]
        /\ <<guard[g].at, guard'[g].at>> \in
             {<<"idle", "claim">>, <<"run", "release">>, <<"spawn", "couple">>, <<"couple", "gate">>,
              <<"kill", "release">>}
    BY <1>1, <1>4 DEF L!BeginClaim, L!Ended, L!Spawn, L!Couple, L!Kill, L!Go, L!GuardState
  <2>2. CASE L!BeginClaim(g) \/ L!Ended(g)
    <3>1. UNCHANGED <<child, coupled, gate>> /\ (guard[g].at = "run" => child[g] = "exited")
      BY <1>1, <2>2 DEF L!BeginClaim, L!Ended, L!childVars, L!Go
    <3>2. guard'[g].at \in {"claim", "release"} /\ (guard[g].at = "idle" <=> guard'[g].at = "claim")
          /\ guard[g].at \in {"idle", "run"}
      BY <2>1, <2>2 DEF L!BeginClaim, L!Ended, L!Go
    <3>3. Alone(g) /\ ChildOf(g)'
      BY <2>1, <3>1, <3>2 DEF Alone, Children, ChildOf, Early, Watching, Ending
    <3>4. QED
      BY <1>2, <3>3
  <2>3. CASE L!Spawn(g)
    BY <1>1, <1>2, <2>1, <2>3 DEF L!Spawn, L!Go, Alone, Children, ChildOf, Early, Watching, Ending
  <2>4. CASE L!Couple(g)
    BY <1>1, <1>2, <2>1, <2>4 DEF L!Couple, L!Go, Alone, Children, ChildOf, Early, Watching, Ending
  <2>5. CASE L!Kill(g)
    BY <1>1, <1>2, <2>1, <2>5 DEF L!Kill, L!Go, Alone, Children, ChildOf, Early, Watching, Ending
  <2>6. QED
    BY <1>4, <2>2, <2>3, <2>4, <2>5
<1>5. ASSUME NEW g \in Guard,
             \/ L!ExecuteClaim(g) \/ L!ExecuteBeat(g) \/ L!ExecuteRelease(g)
             \/ L!Claimed(g) \/ L!BeginBeat(g) \/ L!Beaten(g) \/ L!StartFails(g) \/ L!Interrupt(g)
      PROVE  Children'
  <2>1. UNCHANGED <<child, coupled, gate>>
    BY <1>5 DEF L!ExecuteClaim, L!ExecuteBeat, L!ExecuteRelease, L!Execute, L!Claimed, L!BeginBeat, L!Beaten,
                L!StartFails, L!Interrupt, L!childVars
  <2>2. \A h \in Guard \ {g} : guard'[h] = guard[h]
    BY <1>1, <1>5
    DEF L!ExecuteClaim, L!ExecuteBeat, L!ExecuteRelease, L!Execute, L!Claimed, L!BeginBeat, L!Beaten,
        L!StartFails, L!Interrupt, L!Lose
  <2>3. \/ guard[g].at \in Early /\ guard'[g].at \in Early \cup {"out", "kill"}
        \/ guard[g].at \in Watching /\ guard'[g].at \in Watching
        \/ guard[g].at \in Ending /\ guard'[g].at \in Ending \cup {"out"}
        \/ guard[g].at \in {"couple", "gate"} /\ guard'[g].at = "kill"
    <3>1. CASE L!ExecuteClaim(g) \/ L!ExecuteBeat(g) \/ L!ExecuteRelease(g)
      BY <1>1, <3>1 DEF L!ExecuteClaim, L!ExecuteBeat, L!ExecuteRelease, L!Execute, L!GuardState,
                        Early, Watching, Ending
    <3>2. CASE L!Claimed(g) \/ L!BeginBeat(g)
      BY <1>1, <3>2 DEF L!Claimed, L!BeginBeat, L!GuardState, Early, Watching, Ending
    <3>3. CASE L!Beaten(g) \/ L!StartFails(g)
      BY <1>1, <3>3 DEF L!Beaten, L!StartFails, L!Lose, L!GuardState, Early, Watching, Ending
    <3>4. CASE L!Interrupt(g)
      BY <1>1, <3>4 DEF L!Interrupt, L!Lose, L!GuardState, Early, Watching, Ending
    <3>5. QED
      BY <1>5, <3>1, <3>2, <3>3, <3>4
  <2>4. ChildOf(g)
    BY DEF Children
  <2>5. ChildOf(g)'
    BY <2>1, <2>3, <2>4 DEF ChildOf, Early, Watching, Ending
  <2>6. Alone(g)
    BY <2>1, <2>2 DEF Alone
  <2>7. QED
    BY <1>2, <2>5, <2>6
<1>6. ASSUME NEW g \in Guard, L!OpenGate(g)
      PROVE  Children'
  BY <1>1, <1>2, <1>6 DEF L!OpenGate, L!GuardState, Alone, Children, ChildOf, Early, Watching, Ending
<1>7. ASSUME NEW g \in Guard, L!Released(g)
      PROVE  Children'
  BY <1>1, <1>2, <1>7 DEF L!Released, L!GuardState, Alone, Children, ChildOf, Early, Watching, Ending
<1>8. ASSUME NEW g \in Guard, L!GuardDies(g)
      PROVE  Children'
  <2>1. /\ \A h \in Guard \ {g} : guard'[h] = guard[h] /\ child'[h] = child[h]
        /\ guard'[g].at = "out" /\ child'[g] = IF g \in coupled THEN "exited" ELSE child[g]
        /\ UNCHANGED <<coupled, gate>>
    BY <1>1, <1>8 DEF L!GuardDies, L!GuardState
  <2>2. Alone(g)
    BY <2>1 DEF Alone
  <2>3. ChildOf(g)'
    BY <2>1 DEF Children, ChildOf, Early, Watching, Ending
  <2>4. QED
    BY <1>2, <2>2, <2>3
<1>9. ASSUME NEW g \in Guard, L!PassGate(g) \/ L!GateTimesOut(g) \/ L!CommandEnds(g)
      PROVE  Children'
  <2>1. guard' = guard /\ coupled' = coupled
    BY <1>9 DEF L!PassGate, L!GateTimesOut, L!CommandEnds
  <2>2. Alone(g)
    BY <1>1, <1>9, <2>1 DEF L!PassGate, L!GateTimesOut, L!CommandEnds, Alone
  <2>3. CASE L!PassGate(g)
    <3>1. /\ child[g] = "waiting" /\ g \in gate /\ child'[g] = "running" /\ gate' = gate \ {g}
      BY <1>1, <2>3 DEF L!PassGate
    <3>2. ChildOf(g)'
      BY <2>1, <3>1 DEF Children, ChildOf, Early, Watching, Ending
    <3>3. QED
      BY <1>2, <2>2, <3>2
  <2>4. CASE L!GateTimesOut(g) \/ L!CommandEnds(g)
    <3>1. child[g] # "none" /\ child'[g] = "exited" /\ gate' = gate
      BY <1>1, <2>4 DEF L!GateTimesOut, L!CommandEnds
    <3>2. ChildOf(g)'
      BY <2>1, <3>1 DEF Children, ChildOf, Early, Watching, Ending
    <3>3. QED
      BY <1>2, <2>2, <3>2
  <2>5. QED
    BY <1>9, <2>3, <2>4
<1>10. CASE L!Tick
  BY <1>1, <1>3, <1>10 DEF L!Tick, L!childVars, L!GuardState
<1>11. CASE L!Inspect \/ \E a \in Actor, i \in Id : \E command : L!Call(a, i, command)
  BY <1>3, <1>11 DEF L!Inspect, L!Call, L!childVars
<1>12. CASE UNCHANGED L!vars
  BY <1>3, <1>12 DEF L!vars, L!childVars
<1>13. QED
  BY <1>4, <1>5, <1>6, <1>7, <1>8, <1>9, <1>10, <1>11, <1>12 DEF L!Next, L!GuardGoesOn

-----------------------------------------------------------------------------
(* A guard whose command ran without the lease never gets it back.         *)

LostOf(g) ==
  /\ g \in unheld => /\ \A c \in claim : c.owner = g => c.left = 0
                     /\ guard[g].at \in Watching \cup Ending \cup {"out"}
                     /\ guard[g].at = "released" => guard[g].ok = FALSE
                     /\ guard[g].exit # "child"
  /\ guard[g].exit = "child" => guard[g].at = "out"

Losts == \A g \in Guard : LostOf(g)

LEMMA LostStep == LeaseTypes /\ Children /\ Losts /\ [L!Next]_(L!vars) => Losts'
<1> SUFFICES ASSUME LeaseTypes, Children, Losts, [L!Next]_(L!vars) PROVE Losts'
  OBVIOUS
<1>1. /\ guard \in [Guard -> L!GuardState] /\ \A g \in Guard : guard[g] \in L!GuardState
      /\ \A c \in claim : c.left \in Nat /\ c \in L!Claim
  BY DEF LeaseTypes, L!Claim
<1>2. ASSUME UNCHANGED unheld, NEW g \in Guard, LostOf(g)', \A h \in Guard \ {g} : guard'[h] = guard[h],
             \A h \in Guard \ {g} : \A c \in claim' : c.owner = h => c \in claim
      PROVE  Losts'
  <2>1. \A h \in Guard \ {g} : LostOf(h)'
    BY <1>2 DEF Losts, LostOf
  <2>2. QED
    BY <1>2, <2>1 DEF Losts
<1>3. ASSUME NEW g \in Guard,
             \/ L!BeginClaim(g) \/ L!Ended(g) \/ L!Spawn(g) \/ L!Couple(g) \/ L!Kill(g) \/ L!OpenGate(g)
             \/ L!Claimed(g) \/ L!BeginBeat(g) \/ L!Beaten(g) \/ L!StartFails(g) \/ L!Interrupt(g)
             \/ L!Released(g) \/ L!GuardDies(g)
      PROVE  Losts'
  <2>1. UNCHANGED <<claim, unheld>>
    BY <1>3
    DEF L!BeginClaim, L!Ended, L!Spawn, L!Couple, L!Kill, L!OpenGate, L!Claimed, L!BeginBeat, L!Beaten,
        L!StartFails, L!Interrupt, L!Released, L!GuardDies, L!fileVars, L!ghosts
  <2>2. \A h \in Guard \ {g} : guard'[h] = guard[h]
    BY <1>1, <1>3
    DEF L!BeginClaim, L!Ended, L!Spawn, L!Couple, L!Kill, L!OpenGate, L!Claimed, L!BeginBeat, L!Beaten,
        L!StartFails, L!Interrupt, L!Released, L!GuardDies, L!Go, L!Lose
  <2>3. LostOf(g)
    BY DEF Losts
  <2>4. CASE L!BeginClaim(g) \/ L!Claimed(g) \/ L!Spawn(g) \/ L!Couple(g) \/ L!OpenGate(g) \/ L!StartFails(g)
    <3>1. guard[g].at \in {"idle", "claimed", "spawn", "couple", "gate"}
      BY <2>4 DEF L!BeginClaim, L!Claimed, L!Spawn, L!Couple, L!OpenGate, L!StartFails, L!Go
    <3>2. g \notin unheld /\ guard[g].exit # "child"
      BY <2>3, <3>1 DEF LostOf, Watching, Ending
    <3>3. guard'[g].exit # "child"
      BY <1>1, <2>4, <3>2
      DEF L!BeginClaim, L!Claimed, L!Spawn, L!Couple, L!OpenGate, L!StartFails, L!Go, L!Lose, L!GuardState
    <3>4. LostOf(g)'
      BY <2>1, <3>2, <3>3 DEF LostOf
    <3>5. QED
      BY <1>2, <2>1, <2>2, <3>4
  <2>5. CASE L!Ended(g) \/ L!BeginBeat(g) \/ L!Beaten(g) \/ L!Kill(g)
    <3>1. /\ guard[g].at \in Watching /\ guard'[g].at \in Watching \cup {"release"}
          /\ guard'[g].exit = guard[g].exit
      BY <1>1, <2>5 DEF L!Ended, L!BeginBeat, L!Beaten, L!Kill, L!Go, L!Lose, L!GuardState, Watching
    <3>2. LostOf(g)'
      BY <2>1, <2>3, <3>1 DEF LostOf, Watching, Ending
    <3>3. QED
      BY <1>2, <2>1, <2>2, <3>2
  <2>6. CASE L!Interrupt(g)
    <3>1. \/ /\ guard[g].at \in Watching \cup {"spawn", "couple", "gate"} /\ guard'[g].at = "kill"
             /\ guard'[g].exit = guard[g].exit
          \/ guard'[g].at = "out" /\ guard'[g].exit = "lost"
      BY <1>1, <2>6 DEF L!Interrupt, L!Lose, L!GuardState, Watching
    <3>2. LostOf(g)'
      BY <2>1, <2>3, <3>1 DEF LostOf, Watching, Ending
    <3>3. QED
      BY <1>2, <2>1, <2>2, <3>2
  <2>7. CASE L!Released(g)
    <3>1. /\ guard[g].at = "released" /\ guard'[g].at = "out"
          /\ guard[g].ok = FALSE => guard'[g].exit = "lost"
      BY <1>1, <2>7 DEF L!Released, L!GuardState
    <3>2. LostOf(g)'
      BY <2>1, <2>3, <3>1 DEF LostOf
    <3>3. QED
      BY <1>2, <2>1, <2>2, <3>2
  <2>8. CASE L!GuardDies(g)
    <3>1. guard'[g].at = "out" /\ guard'[g].exit = "lost"
      BY <1>1, <2>8 DEF L!GuardDies, L!GuardState
    <3>2. LostOf(g)'
      BY <2>1, <2>3, <3>1 DEF LostOf
    <3>3. QED
      BY <1>2, <2>1, <2>2, <3>2
  <2>9. QED
    BY <1>3, <2>4, <2>5, <2>6, <2>7, <2>8
<1>4. ASSUME NEW g \in Guard, L!ExecuteClaim(g) \/ L!ExecuteBeat(g) \/ L!ExecuteRelease(g)
      PROVE  Losts'
  <2>1. PICK command, from, to :
          /\ <<command, from, to>> \in {<<"claim", "claim", "claimed">>, <<"heartbeat", "beat", "beaten">>,
                                        <<"release", "release", "released">>}
          /\ L!Execute(g, command, from, to)
    BY <1>4 DEF L!ExecuteClaim, L!ExecuteBeat, L!ExecuteRelease
  <2>2. PICK ok \in BOOLEAN : L!Operate(command, g, Lease, ok) /\ guard' = [guard EXCEPT ![g].at = to, ![g].ok = ok]
    BY <2>1 DEF L!Execute
  <2>3. /\ guard[g].at = from /\ unheld' = unheld
        /\ guard'[g].at = to /\ guard'[g].ok = ok /\ guard'[g].exit = guard[g].exit
        /\ \A h \in Guard \ {g} : guard'[h] = guard[h]
    BY <1>1, <2>1, <2>2 DEF L!Execute, L!ghosts, L!GuardState
  <2>4. /\ \A h : h # g => Keeps(h)
        /\ ok => L!Accepts(command, g)
        /\ ~L!Accepts(command, g) => Keeps(g)
    BY <2>2, Operates DEF L!Client
  <2>5. LostOf(g)
    BY DEF Losts
  <2>6. CASE g \in unheld
    <3>1. command # "claim" /\ to \in Watching \cup Ending
      BY <2>1, <2>3, <2>5, <2>6 DEF LostOf, Watching, Ending
    <3>2. ~L!Accepts(command, g)
      BY <1>1, <2>5, <2>6, <3>1 DEF LostOf, L!Accepts, L!Owns, L!Swept
    <3>3. \A c \in claim' : c.owner = g => c.left = 0
      BY <2>4, <2>5, <2>6, <3>2 DEF Keeps, LostOf
    <3>4. LostOf(g)'
      BY <2>3, <2>4, <2>5, <2>6, <3>1, <3>2, <3>3 DEF LostOf, Watching, Ending
    <3>5. QED
      BY <1>2, <2>3, <2>4, <3>4 DEF Keeps
  <2>7. CASE g \notin unheld
    <3>1. guard[g].at # "out"
      BY <2>1, <2>3
    <3>2. LostOf(g)'
      BY <2>3, <2>5, <2>7, <3>1 DEF LostOf
    <3>3. QED
      BY <1>2, <2>3, <2>4, <3>2 DEF Keeps
  <2>8. QED
    BY <2>6, <2>7
<1>5. ASSUME NEW g \in Guard, L!PassGate(g)
      PROVE  Losts'
  <2>1. UNCHANGED <<claim, guard>> /\ unheld' = IF L!Owns(g) THEN unheld ELSE unheld \cup {g}
    BY <1>5 DEF L!PassGate, L!fileVars
  <2>2. guard[g].at \in Watching
    BY <1>5 DEF L!PassGate, Children, ChildOf, Watching, Ending
  <2>3. ~L!Owns(g) => \A c \in claim : c.owner = g => c.left = 0
    BY <1>1 DEF L!Owns, L!Swept
  <2>4. LostOf(g)'
    BY <2>1, <2>2, <2>3 DEF Losts, LostOf, Watching, Ending
  <2>5. \A h \in Guard \ {g} : LostOf(h)'
    BY <2>1 DEF Losts, LostOf
  <2>6. QED
    BY <2>4, <2>5 DEF Losts
<1>6. ASSUME NEW g \in Guard, L!GateTimesOut(g) \/ L!CommandEnds(g)
      PROVE  Losts'
  BY <1>6 DEF L!GateTimesOut, L!CommandEnds, L!fileVars, L!ghosts, Losts, LostOf
<1>7. ASSUME NEW g \in Guard, child[g] = "running", guard'[g].at = guard[g].at, guard'[g].exit = guard[g].exit,
             \A c \in claim' : c.owner = g => c.left = 0
      PROVE  LostOf(g)'
  <2>1. guard[g].at \in Watching
    BY <1>7 DEF Children, ChildOf
  <2>2. QED
    BY <1>7, <2>1 DEF Losts, LostOf, Watching, Ending
<1>8. CASE L!Tick
  <2>1. /\ claim' = {[c EXCEPT !.left = L!Down(@)] : c \in claim}
        /\ unheld' = unheld \cup {g \in Guard : child[g] = "running" /\ ~\E c \in claim' : c.owner = g /\ c.left > 0}
        /\ \A g \in Guard : /\ guard'[g].at = guard[g].at /\ guard'[g].ok = guard[g].ok
                            /\ guard'[g].exit = guard[g].exit
    BY <1>1, <1>8 DEF L!Tick, L!GuardState
  <2>2. \A c \in claim' : \E d \in claim : c.owner = d.owner /\ c.left \in Nat /\ (d.left = 0 => c.left = 0)
    BY <1>1, <2>1 DEF L!Claim, L!Down
  <2>3. SUFFICES ASSUME NEW g \in Guard PROVE LostOf(g)'
    BY DEF Losts
  <2>4. CASE g \in unheld \/ g \notin unheld'
    BY <2>1, <2>2, <2>4 DEF Losts, LostOf
  <2>5. CASE g \notin unheld /\ g \in unheld'
    <3>1. child[g] = "running" /\ \A c \in claim' : c.owner = g => c.left = 0
      BY <2>1, <2>2, <2>5
    <3>2. QED
      BY <1>7, <2>1, <3>1
  <2>6. QED
    BY <2>4, <2>5
<1>9. CASE L!Inspect
  BY <1>9 DEF L!Inspect, L!Swept, L!ghosts, Losts, LostOf
<1>10. ASSUME NEW a \in Actor, NEW i \in Id, NEW command, L!Call(a, i, command)
       PROVE  Losts'
  <2>1. /\ guard' = guard
        /\ unheld' = unheld \cup {g \in Guard : child[g] = "running" /\ ~\E c \in claim' : c.owner = g}
        /\ \A g \in Guard, c \in claim' : c.owner = g => c \in claim
    BY <1>10, CallKeeps DEF L!Call
  <2>2. SUFFICES ASSUME NEW g \in Guard PROVE LostOf(g)'
    BY DEF Losts
  <2>3. CASE g \in unheld \/ g \notin unheld'
    BY <2>1, <2>3 DEF Losts, LostOf
  <2>4. CASE g \notin unheld /\ g \in unheld'
    BY <1>7, <2>1, <2>4
  <2>5. QED
    BY <2>3, <2>4
<1>11. CASE UNCHANGED L!vars
  BY <1>11 DEF L!vars, L!fileVars, L!ghosts, Losts, LostOf
<1>12. QED
  BY <1>3, <1>4, <1>5, <1>6, <1>8, <1>9, <1>10, <1>11 DEF L!Next, L!GuardGoesOn

-----------------------------------------------------------------------------
(* A guard that is in time has the lease, if it beats more often than the   *)
(* lease it gets would run out.                                            *)

Left == L!Capped(Lease)
Holds(g, n) == \E c \in claim : c.owner = g /\ c.left + Beat >= n

SustainedOf(g) ==
  g \notin slow \cup taken =>
    /\ guard[g].at \in {"spawn", "couple", "gate"} => Holds(g, Left + Beat)
    /\ guard[g].at \in {"claimed", "beaten"} /\ guard[g].ok => Holds(g, Left + Beat)
    /\ guard[g].at = "run" => Holds(g, Left + guard[g].next)
    /\ guard[g].at \in Watching => Holds(g, Left)

Sustained == \A g \in Guard : SustainedOf(g)

LEMMA HoldsKept ==
  ASSUME LeaseTypes, Beat < Left, NEW g, Keeps(g), NEW n \in Nat, n >= Left, Holds(g, n)
  PROVE  Holds(g, n)'
<1>1. PICK c \in claim : c.owner = g /\ c.left + Beat >= n
  BY DEF Holds
<1>2. Beat \in Nat /\ Left \in Nat /\ c.left \in Nat
  BY LeaseAssumption DEF L!ConstantsAssumption, Left, L!Capped, LeaseTypes, L!Claim
<1>3. c.left > 0
  BY <1>1, <1>2
<1>4. QED
  BY <1>1, <1>3 DEF Keeps, Holds

LEMMA SustainedStep ==
  ASSUME Beat < Left
  PROVE  LeaseTypes /\ Sustained /\ [L!Next]_(L!vars) => Sustained'
<1> SUFFICES ASSUME LeaseTypes, Sustained, [L!Next]_(L!vars) PROVE Sustained'
  OBVIOUS
<1>1. /\ guard \in [Guard -> L!GuardState] /\ \A g \in Guard : guard[g] \in L!GuardState
      /\ Beat \in Nat /\ Left \in Nat /\ \A g \in Guard : guard[g].next \in 0 .. Beat
      /\ \A c \in claim : c.left \in Nat
  BY LeaseAssumption DEF L!ConstantsAssumption, Left, L!Capped, LeaseTypes, L!Claim, L!GuardState
<1>2. ASSUME NEW g \in Guard, Keeps(g), guard'[g] = guard[g], g \notin slow' \cup taken' => g \notin slow \cup taken
      PROVE  SustainedOf(g)'
  <2>1. /\ Left + Beat \in Nat /\ Left + Beat >= Left
        /\ Left + guard[g].next \in Nat /\ Left + guard[g].next >= Left /\ Left >= Left
    BY <1>1
  <2>2. /\ Holds(g, Left + Beat) => Holds(g, Left + Beat)'
        /\ Holds(g, Left + guard[g].next) => Holds(g, Left + guard[g].next)'
        /\ Holds(g, Left) => Holds(g, Left)'
    BY <1>1, <1>2, <2>1, HoldsKept
  <2>3. SustainedOf(g)
    BY DEF Sustained
  <2>4. QED
    BY <1>2, <2>2, <2>3 DEF SustainedOf, Holds
<1>3. ASSUME NEW g \in Guard, UNCHANGED <<slow, taken>>, SustainedOf(g)', \A h \in Guard \ {g} : guard'[h] = guard[h],
             \A h : h # g => Keeps(h)
      PROVE  Sustained'
  BY <1>2, <1>3 DEF Sustained
<1>4. UNCHANGED claim => \A h : Keeps(h)
  BY DEF Keeps
<1>5. ASSUME NEW g \in Guard,
             \/ L!BeginClaim(g) \/ L!Ended(g) \/ L!Kill(g) \/ L!Released(g) \/ L!GuardDies(g)
             \/ L!Claimed(g) \/ L!Spawn(g) \/ L!Couple(g) \/ L!OpenGate(g) \/ L!BeginBeat(g) \/ L!Beaten(g)
             \/ L!StartFails(g) \/ L!Interrupt(g)
      PROVE  Sustained'
  <2>1. UNCHANGED <<claim, slow, taken>>
    BY <1>5
    DEF L!BeginClaim, L!Ended, L!Spawn, L!Couple, L!Kill, L!OpenGate, L!Claimed, L!BeginBeat, L!Beaten,
        L!StartFails, L!Interrupt, L!Released, L!GuardDies, L!fileVars, L!ghosts
  <2>2. \A h \in Guard \ {g} : guard'[h] = guard[h]
    BY <1>1, <1>5
    DEF L!BeginClaim, L!Ended, L!Spawn, L!Couple, L!Kill, L!OpenGate, L!Claimed, L!BeginBeat, L!Beaten,
        L!StartFails, L!Interrupt, L!Released, L!GuardDies, L!Go, L!Lose
  <2>3. SustainedOf(g) /\ \A n : Holds(g, n)' = Holds(g, n)
    BY <2>1 DEF Sustained, Holds
  <2>4. CASE L!BeginClaim(g) \/ L!Ended(g) \/ L!Kill(g) \/ L!Released(g) \/ L!GuardDies(g)
    <3>1. guard'[g].at \in {"claim", "release", "out"}
      BY <1>1, <2>4 DEF L!BeginClaim, L!Ended, L!Kill, L!Released, L!GuardDies, L!Go, L!GuardState
    <3>2. SustainedOf(g)'
      BY <3>1 DEF SustainedOf, Watching
    <3>3. QED
      BY <1>3, <1>4, <2>1, <2>2, <3>2
  <2>5. /\ Holds(g, Left + Beat) => Holds(g, Left)
        /\ Holds(g, Left + guard[g].next) => Holds(g, Left)
    BY <1>1 DEF Holds
  <2>6. CASE L!Claimed(g) \/ L!Spawn(g) \/ L!Couple(g)
    <3>1. /\ guard'[g].at \in {"spawn", "couple", "gate", "out"}
          /\ guard'[g].at # "out" => \/ guard[g].at = "claimed" /\ guard[g].ok
                                     \/ guard[g].at \in {"spawn", "couple"}
      BY <1>1, <2>6 DEF L!Claimed, L!Spawn, L!Couple, L!Go, L!GuardState
    <3>2. SustainedOf(g)'
      BY <2>1, <2>3, <3>1 DEF SustainedOf, Watching
    <3>3. QED
      BY <1>3, <1>4, <2>1, <2>2, <3>2
  <2>7. CASE L!OpenGate(g)
    <3>1. guard[g].at = "gate" /\ guard'[g].at = "run" /\ guard'[g].next = Beat
      BY <1>1, <2>7 DEF L!OpenGate, L!GuardState
    <3>2. SustainedOf(g)'
      BY <2>1, <2>3, <2>5, <3>1 DEF SustainedOf, Watching
    <3>3. QED
      BY <1>3, <1>4, <2>1, <2>2, <3>2
  <2>8. CASE L!BeginBeat(g)
    <3>1. guard[g].at = "run" /\ guard'[g].at = "beat"
      BY <1>1, <2>8 DEF L!BeginBeat, L!GuardState
    <3>2. SustainedOf(g)'
      BY <2>1, <2>3, <3>1 DEF SustainedOf, Watching
    <3>3. QED
      BY <1>3, <1>4, <2>1, <2>2, <3>2
  <2>9. CASE L!Beaten(g)
    <3>1. /\ guard[g].at = "beaten"
          /\ \/ guard[g].ok /\ guard'[g].at = "run" /\ guard'[g].next = guard[g].next
             \/ guard'[g].at = "kill"
      BY <1>1, <2>9 DEF L!Beaten, L!Lose, L!GuardState
    <3>2. Holds(g, Left + Beat) => Holds(g, Left + guard[g].next)
      BY <1>1 DEF Holds
    <3>3. SustainedOf(g)'
      BY <2>1, <2>3, <3>1, <3>2 DEF SustainedOf, Watching
    <3>4. QED
      BY <1>3, <1>4, <2>1, <2>2, <3>3
  <2>10. CASE L!StartFails(g) \/ L!Interrupt(g)
    <3>1. \/ guard'[g].at = "out"
          \/ guard'[g].at = "kill" /\ guard[g].at \in {"spawn", "couple", "gate", "run", "beat", "beaten"}
      BY <1>1, <2>10 DEF L!StartFails, L!Interrupt, L!Lose, L!GuardState
    <3>2. SustainedOf(g)'
      BY <2>1, <2>3, <2>5, <3>1 DEF SustainedOf, Watching
    <3>3. QED
      BY <1>3, <1>4, <2>1, <2>2, <3>2
  <2>11. QED
    BY <1>5, <2>4, <2>6, <2>7, <2>8, <2>9, <2>10
<1>6. ASSUME NEW g \in Guard, L!ExecuteClaim(g) \/ L!ExecuteBeat(g) \/ L!ExecuteRelease(g)
      PROVE  Sustained'
  <2>1. PICK command, from, to :
          /\ <<command, from, to>> \in {<<"claim", "claim", "claimed">>, <<"heartbeat", "beat", "beaten">>,
                                        <<"release", "release", "released">>}
          /\ L!Execute(g, command, from, to)
    BY <1>6 DEF L!ExecuteClaim, L!ExecuteBeat, L!ExecuteRelease
  <2>2. PICK ok \in BOOLEAN : L!Operate(command, g, Lease, ok) /\ guard' = [guard EXCEPT ![g].at = to, ![g].ok = ok]
    BY <2>1 DEF L!Execute
  <2>3. /\ guard[g].at = from /\ UNCHANGED <<slow, taken>>
        /\ guard'[g].at = to /\ guard'[g].ok = ok
        /\ \A h \in Guard \ {g} : guard'[h] = guard[h]
    BY <1>1, <2>1, <2>2 DEF L!Execute, L!ghosts, L!GuardState
  <2>4. /\ \A h : h # g => Keeps(h)
        /\ ok => claim' = L!After(command, g, Lease)
        /\ L!Accepts(command, g) => claim' \in {claim, L!After(command, g, Lease)}
    BY <2>2, Operates DEF L!Client
  <2>5. ASSUME command \in {"claim", "heartbeat"}, claim' = L!After(command, g, Lease)
        PROVE  Holds(g, Left + Beat)' /\ Holds(g, Left)'
    <3>1. claim' = {[owner |-> g, left |-> Left]}
      BY <2>5 DEF L!After, Left
    <3>2. PICK c \in claim' : c.owner = g /\ c.left = Left
      BY <3>1
    <3>3. c.left + Beat >= Left + Beat /\ c.left + Beat >= Left
      BY <1>1, <3>2
    <3>4. QED
      BY <3>2, <3>3 DEF Holds
  <2>6. SustainedOf(g)'
    <3>1. CASE command = "claim"
      BY <2>1, <2>3, <2>4, <2>5, <3>1 DEF SustainedOf, Watching
    <3>2. CASE command = "release"
      BY <2>1, <2>3, <3>2 DEF SustainedOf, Watching
    <3>3. CASE command = "heartbeat"
      <4>1. SUFFICES ASSUME g \notin slow \cup taken
                     PROVE  (ok => Holds(g, Left + Beat)') /\ Holds(g, Left)'
        BY <2>1, <2>3, <3>3, <4>1 DEF SustainedOf, Watching
      <4>2. PICK c \in claim : c.owner = g /\ c.left + Beat >= Left
        BY <2>1, <2>3, <3>3, <4>1 DEF Sustained, SustainedOf, Watching, Holds
      <4>3. L!Accepts(command, g)
        BY <1>1, <3>3, <4>2 DEF L!Accepts, L!Owns, L!Swept
      <4>4. CASE claim' = claim /\ ~ok
        BY <4>2, <4>4 DEF Holds
      <4>5. CASE claim' = L!After(command, g, Lease)
        BY <2>5, <3>3, <4>5
      <4>6. QED
        BY <2>4, <4>3, <4>4, <4>5
    <3>4. QED
      BY <2>1, <3>1, <3>2, <3>3
  <2>7. QED
    BY <1>3, <2>3, <2>4, <2>6
<1>7. ASSUME NEW g \in Guard, L!PassGate(g) \/ L!GateTimesOut(g) \/ L!CommandEnds(g)
      PROVE  Sustained'
  BY <1>7 DEF L!PassGate, L!GateTimesOut, L!CommandEnds, L!fileVars, L!ghosts, Sustained, SustainedOf, Holds
<1>8. CASE L!Tick
  <2>1. SUFFICES ASSUME NEW g \in Guard, g \notin slow' \cup taken PROVE SustainedOf(g)'
    BY <1>8 DEF L!Tick, Sustained, SustainedOf
  <2>2. /\ g \notin slow \cup taken /\ L!InTime(g)
        /\ claim' = {[c EXCEPT !.left = L!Down(@)] : c \in claim}
        /\ guard'[g].at = guard[g].at /\ guard'[g].next = L!Down(guard[g].next)
    BY <1>1, <1>8, <2>1 DEF L!Tick, L!GuardState
  <2>3. CASE guard[g].at \in {"idle", "out"}
    BY <2>2, <2>3 DEF SustainedOf, Watching
  <2>4. CASE guard[g].at = "run" /\ guard[g].next > 0
    <3>1. PICK c \in claim : c.owner = g /\ c.left + Beat >= Left + guard[g].next
      BY <2>2, <2>4 DEF Sustained, SustainedOf, Holds
    <3>2. /\ c.left > 0 /\ guard'[g].next = guard[g].next - 1
          /\ L!Down(c.left) = c.left - 1
      BY <1>1, <2>2, <2>4, <3>1 DEF L!Down
    <3>3. PICK d \in claim' : d = [c EXCEPT !.left = L!Down(@)]
      BY <2>2
    <3>4. d.owner = g /\ d.left = c.left - 1
      BY <3>1, <3>2, <3>3 DEF LeaseTypes, L!Claim
    <3>5. d.left + Beat >= Left + guard'[g].next /\ d.left + Beat >= Left
      BY <1>1, <2>4, <3>1, <3>2, <3>4
    <3>6. Holds(g, Left + guard[g].next)' /\ Holds(g, Left)'
      BY <3>4, <3>5 DEF Holds
    <3>7. QED
      BY <2>2, <2>4, <3>6 DEF SustainedOf
  <2>5. QED
    BY <2>2, <2>3, <2>4 DEF L!InTime
<1>9. CASE L!Inspect
  BY <1>2, <1>9, SweepKeeps DEF L!Inspect, L!ghosts, Sustained
<1>10. ASSUME NEW a \in Actor, NEW i \in Id, NEW command, L!Call(a, i, command)
       PROVE  Sustained'
  <2>1. /\ guard' = guard /\ slow' = slow /\ taken \subseteq taken'
        /\ \A g \in Guard \ taken' : Keeps(g)
    BY <1>10, CallKeeps DEF L!Call
  <2>2. \A g \in Guard \ taken' : SustainedOf(g)'
    BY <1>2, <2>1
  <2>3. QED
    BY <2>2 DEF Sustained, SustainedOf
<1>11. CASE UNCHANGED L!vars
  BY <1>2, <1>4, <1>11 DEF L!vars, L!fileVars, L!ghosts, Sustained
<1>12. QED
  BY <1>5, <1>6, <1>7, <1>8, <1>9, <1>10, <1>11 DEF L!Next, L!GuardGoesOn

-----------------------------------------------------------------------------
(* The table of operations: an id that took effect is in it, or was pruned. *)

OnceOf(i) ==
  /\ effects[i] > 0 => L!Recorded(i) \/ i \in forgotten
  /\ effects[i] > 1 => i \in forgotten

Table == TableTypes /\ \A i \in Id : OnceOf(i)

\* prune_operations keeps what it was given last, and no more than MAX_OPERATIONS.
LEMMA Pruned ==
  ASSUME TableTypes, NEW i \in Id, L!Remember(i)
  PROVE  /\ ops' \in Seq(Id) /\ Len(ops') <= MaxOps
         /\ forgotten \subseteq forgotten' /\ forgotten' \subseteq Id
         /\ L!Recorded(i)'
         /\ \A j \in Id : L!Recorded(j) => L!Recorded(j)' \/ j \in forgotten'
<1> USE LeaseAssumption DEF L!ConstantsAssumption, TableTypes
<1>1. PICK kept : /\ kept = IF Len(Append(ops, i)) > MaxOps THEN Tail(Append(ops, i)) ELSE Append(ops, i)
                  /\ ops' = kept
                  /\ forgotten' = forgotten \cup {j \in Id : L!Recorded(j) /\ ~\E k \in 1 .. Len(kept) : kept[k] = j}
  BY DEF L!Remember
<1>2. /\ Append(ops, i) \in Seq(Id) /\ Len(Append(ops, i)) = Len(ops) + 1
      /\ Append(ops, i)[Len(ops) + 1] = i /\ Len(ops) \in Nat
  OBVIOUS
<1>3. kept \in Seq(Id) /\ Len(kept) <= MaxOps /\ Len(kept) >= 1 /\ kept[Len(kept)] = i
  <2>1. CASE Len(ops) + 1 > MaxOps
    <3>1. kept = Tail(Append(ops, i)) /\ Len(ops) >= 1
      BY <1>1, <1>2, <2>1
    <3>2. kept \in Seq(Id) /\ Len(kept) = Len(ops) /\ kept[Len(ops)] = Append(ops, i)[Len(ops) + 1]
      BY <1>2, <3>1
    <3>3. QED
      BY <1>2, <3>1, <3>2
  <2>2. CASE ~(Len(ops) + 1 > MaxOps)
    BY <1>1, <1>2, <2>2
  <2>3. QED
    BY <2>1, <2>2
<1>4. L!Recorded(i)'
  BY <1>1, <1>3 DEF L!Recorded
<1>5. \A j \in Id : L!Recorded(j) => L!Recorded(j)' \/ j \in forgotten'
  BY <1>1 DEF L!Recorded
<1>6. QED
  BY <1>1, <1>3, <1>4, <1>5

LEMMA TableStep == Table /\ [L!Next]_(L!vars) => Table'
<1> SUFFICES ASSUME Table, [L!Next]_(L!vars) PROVE Table'
  OBVIOUS
<1>1. ASSUME UNCHANGED <<ops, effects, forgotten>> PROVE Table'
  BY <1>1 DEF Table, TableTypes, OnceOf, L!Recorded
<1>2. ASSUME NEW a \in Actor, NEW i \in Id, NEW command, L!Call(a, i, command), ~L!Recorded(i)
      PROVE  Table'
  <2>1. /\ L!Remember(i)
        /\ UNCHANGED effects \/ L!Effect(i)
    BY <1>2 DEF L!Call
  <2>2. /\ ops' \in Seq(Id) /\ Len(ops') <= MaxOps
        /\ forgotten \subseteq forgotten' /\ forgotten' \subseteq Id
        /\ L!Recorded(i)'
        /\ \A j \in Id : L!Recorded(j) => L!Recorded(j)' \/ j \in forgotten'
    BY <2>1, Pruned DEF Table
  <2>3. /\ effects' \in [Id -> 0 .. 2]
        /\ effects[i] \in 0 .. 2 /\ effects'[i] \in {effects[i], effects[i] + 1}
        /\ \A j \in Id \ {i} : effects'[j] = effects[j]
    BY <2>1 DEF L!Effect, Table, TableTypes
  <2>4. OnceOf(i)'
    BY <1>2, <2>2, <2>3 DEF Table, OnceOf
  <2>5. \A j \in Id \ {i} : OnceOf(j)'
    BY <2>2, <2>3 DEF Table, OnceOf
  <2>6. QED
    BY <2>2, <2>3, <2>4, <2>5 DEF Table, TableTypes
<1>3. ASSUME NEW a \in Actor, NEW i \in Id, NEW command, L!Call(a, i, command), L!Recorded(i)
      PROVE  Table'
  BY <1>1, <1>3 DEF L!Call
<1>4. ASSUME NEW g \in Guard,
             \/ L!BeginClaim(g) \/ L!GuardGoesOn(g) \/ L!StartFails(g) \/ L!Interrupt(g) \/ L!GuardDies(g)
             \/ L!PassGate(g) \/ L!GateTimesOut(g) \/ L!CommandEnds(g)
      PROVE  UNCHANGED <<ops, effects, forgotten>>
  BY <1>4
  DEF L!BeginClaim, L!GuardGoesOn, L!StartFails, L!Interrupt, L!GuardDies, L!PassGate, L!GateTimesOut,
      L!CommandEnds, L!ExecuteClaim, L!Claimed, L!Spawn, L!Couple, L!OpenGate, L!Ended, L!BeginBeat,
      L!ExecuteBeat, L!Beaten, L!Kill, L!ExecuteRelease, L!Released, L!Execute, L!fileVars, L!ghosts
<1>5. CASE L!Tick \/ L!Inspect \/ UNCHANGED L!vars
  BY <1>1, <1>5 DEF L!Tick, L!Inspect, L!vars, L!fileVars, L!ghosts
<1>6. QED
  BY <1>1, <1>2, <1>3, <1>4, <1>5 DEF L!Next

-----------------------------------------------------------------------------
(* From the steps of the guard and the coordinator to those of MCBusy.      *)

LEMMA LeaseStep == [MCNext]_<<vars, leaseVars, scene>> => [L!Next]_(L!vars)
BY DEF MCNext, leaseVars, L!vars, L!fileVars, L!childVars, L!ghosts

LEMMA LeaseInit == L!Init => LeaseTypes /\ Table /\ Children /\ Losts /\ Sustained
<1> SUFFICES ASSUME L!Init PROVE LeaseTypes /\ Table /\ Children /\ Losts /\ Sustained
  OBVIOUS
<1> USE LeaseAssumption DEF L!ConstantsAssumption, L!Init
<1>1. /\ guard \in [Guard -> L!GuardState]
      /\ \A g \in Guard : guard[g].at = "idle" /\ guard[g].exit = "none" /\ child[g] = "none"
  BY DEF L!GuardState, L!GuardAt
<1>2. LeaseTypes
  BY <1>1 DEF LeaseTypes
<1>3. Table
  BY DEF Table, TableTypes, OnceOf
<1>4. Children /\ Losts /\ Sustained
  BY <1>1 DEF Children, ChildOf, Losts, LostOf, Sustained, SustainedOf, Early, Watching, Ending
<1>5. QED
  BY <1>2, <1>3, <1>4

LEMMA LeaseInv == MCSpec => [](LeaseTypes /\ Table /\ Children /\ Losts)
<1>1. MCInit => LeaseTypes /\ Table /\ Children /\ Losts
  BY LeaseInit DEF MCInit
<1>2. LeaseTypes /\ Table /\ Children /\ Losts /\ [MCNext]_<<vars, leaseVars, scene>>
        => (LeaseTypes /\ Table /\ Children /\ Losts)'
  BY LeaseStep, LeaseTypesStep, TableStep, ChildrenStep, LostStep
<1>3. QED
  BY <1>1, <1>2, PTL DEF MCSpec

\* Every variable of the guards and of the coordinator keeps its type, with at most
\* one claim on the scope and no more operations than MAX_OPERATIONS.
THEOREM LeaseTypeCorrect == MCSpec => []L!TypeOK
<1>1. ASSUME LeaseTypes, Table PROVE L!TypeOK
  <2>1. Cardinality(claim) <= 1
    <3>1. CASE claim = {}
      BY <3>1, FS_EmptySet
    <3>2. CASE claim # {}
      <4>1. PICK c \in claim : TRUE
        BY <3>2
      <4>2. claim = {c}
        BY <1>1, <4>1 DEF LeaseTypes
      <4>3. Cardinality({c}) = 1
        BY FS_Singleton
      <4>4. QED
        BY <4>2, <4>3
    <3>3. QED
      BY <3>1, <3>2
  <2>2. L!Cardinality(claim) = Cardinality(claim)
    BY DEF L!Cardinality, Cardinality
  <2>3. QED
    BY <1>1, <2>1, <2>2 DEF LeaseTypes, Table, TableTypes, L!TypeOK
<1>2. QED
  BY <1>1, LeaseInv, PTL

\* An operation id that is repeated takes effect once, as long as the table of
\* operations has not forgotten it: the effect and its record are one write
\* (busy.py operate, prune_operations).
THEOREM OperationsOnce == MCSpec => []EffectOnce
<1>1. Table => EffectOnce
  BY DEF Table, OnceOf, EffectOnce, L!EffectOnce
<1>2. QED
  BY <1>1, LeaseInv, PTL

\* No command runs on after its guard has ended, however it ended: the runner does
\* not pass the gate before it is coupled (lease_guard.py CoupledChild).
THEOREM NoOrphans == MCSpec => []L!NoOrphanRuns
<1>1. Children => L!NoOrphanRuns
  BY DEF Children, ChildOf, L!NoOrphanRuns, Watching
<1>2. QED
  BY <1>1, LeaseInv, PTL

\* A guard that hands on its command's exit code had the lease as long as the command
\* ran, whatever the heartbeat, however slow the guard and whoever recovered the scope
\* meanwhile: a lease that was lost is found lost by the release at the latest.
THEOREM ExitIsHonest == MCSpec => []L!HonestExit
<1>1. Losts => L!HonestExit
  BY DEF Losts, LostOf, L!HonestExit
<1>2. QED
  BY <1>1, LeaseInv, PTL

\* Under a heartbeat more frequent than MAX_LEASE_S, the command of a guard that keeps
\* its time runs under the lease; and no exit code hides that it did not.
THEOREM GuardHonest ==
  ASSUME Beat < MaxLease
  PROVE  MCSpec => []GuardIsHonest
<1>1. Beat < Left
  BY LeaseAssumption DEF L!ConstantsAssumption, Left, L!Capped
<1>2. MCInit => LeaseTypes /\ Sustained
  BY LeaseInit DEF MCInit
<1>3. LeaseTypes /\ Sustained /\ [MCNext]_<<vars, leaseVars, scene>> => (LeaseTypes /\ Sustained)'
  BY <1>1, LeaseStep, LeaseTypesStep, SustainedStep
<1>4. MCSpec => [](LeaseTypes /\ Sustained)
  BY <1>2, <1>3, PTL DEF MCSpec
<1>5. LeaseTypes /\ Children /\ Sustained => L!RunsUnderLease
  <2>1. SUFFICES ASSUME LeaseTypes, Children, Sustained, NEW g \in Guard \ (slow \cup taken), child[g] = "running"
                 PROVE  \E c \in claim : c.owner = g /\ c.left > 0
    BY DEF L!RunsUnderLease
  <2>2. guard[g].at \in Watching
    BY <2>1 DEF Children, ChildOf
  <2>3. PICK c \in claim : c.owner = g /\ c.left + Beat >= Left
    BY <2>1, <2>2 DEF Sustained, SustainedOf, Holds
  <2>4. Beat \in Nat /\ Left \in Nat /\ c.left \in Nat
    BY <2>1, LeaseAssumption DEF L!ConstantsAssumption, Left, L!Capped, LeaseTypes, L!Claim
  <2>5. QED
    BY <1>1, <2>3, <2>4
<1>6. QED
  BY <1>4, <1>5, LeaseInv, ExitIsHonest, PTL DEF GuardIsHonest
=============================================================================
