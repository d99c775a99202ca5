--------------------------- MODULE BusyClaims_proofs ---------------------------
(***************************************************************************)
(* Proofs about BusyClaims, for any servers, actors, scopes and leases:     *)
(* types, that the two halves of the file agree, and, where no write leaves *)
(* half a file and no read fails, that the file knows what actors were told *)
(* and implements ScopeLease.                                              *)
(***************************************************************************)
EXTENDS BusyClaims, FiniteSetTheorems, TLAPS

\* One claim and one job per scope, of one owner and one time, for a lease that is not too long.
Same(c, j) == j.scope = c.scope /\ j.owner = c.actor /\ j.since = c.at
Good(x) ==
  /\ x \in Content
  /\ \A c, d \in x.claims : c.scope = d.scope => c = d
  /\ \A j, k \in x.jobs : j.scope = k.scope => j = k
  /\ \A c \in x.claims : \E j \in x.jobs : Same(c, j)
  /\ \A j \in x.jobs : \E c \in x.claims : Same(c, j)
  /\ \A j \in x.jobs : j.until <= j.since + MaxLease

\* What there is, on file and in memory, whatever is torn or misread.
GoodContents ==
  /\ now \in Nat
  /\ \A x, y \in file : x = y
  /\ \A x \in file : Good(x)
  /\ memory \in [Server -> Content] /\ \A v \in Server : Good(memory[v])
  /\ told \in [Actor -> [Scope -> Nat]]

\* An actor that has been told of a lease has one on file, as long at least.
Told(x) ==
  \A a \in Actor, s \in Scope :
    told[a][s] > now => \E j \in x.jobs : j.scope = s /\ j.owner = a /\ told[a][s] <= j.until

IInv == GoodContents /\ \E x \in Content : file = {x} /\ Told(x)

-----------------------------------------------------------------------------
(* The operators on contents.                                              *)

LEMMA Emptiness == Good(Empty)
BY DEF Good, Empty, Content

LEMMA WithoutGood ==
  ASSUME NEW x, NEW S, Good(x)
  PROVE  Good(Without(x, S))
<1> DEFINE y == Without(x, S)
<1>1. /\ y.claims = {c \in x.claims : c.scope \notin S}
      /\ y.jobs = {j \in x.jobs : j.scope \notin S}
      /\ y \in Content
  BY DEF Without, Good, Content
<1>2. /\ \A c \in y.claims : \E j \in y.jobs : Same(c, j)
      /\ \A j \in y.jobs : \E c \in y.claims : Same(c, j)
  BY <1>1 DEF Good, Same
<1>3. QED
  BY <1>1, <1>2 DEF Good

LEMMA AddedGood ==
  ASSUME NEW w, Good(w), NEW c \in Claim, NEW j \in Job, Same(c, j), j.until <= j.since + MaxLease,
         \A d \in w.claims : d.scope # c.scope, \A k \in w.jobs : k.scope # c.scope,
         NEW y, y = [claims |-> w.claims \cup {c}, jobs |-> w.jobs \cup {j}]
  PROVE  Good(y)
<1>1. y \in Content
  BY DEF Good, Content
<1>2. y.claims = w.claims \cup {c} /\ y.jobs = w.jobs \cup {j}
  OBVIOUS
<1>3. /\ \A d \in y.claims : \E k \in y.jobs : Same(d, k)
      /\ \A k \in y.jobs : \E d \in y.claims : Same(d, k)
  BY <1>2 DEF Good
<1>4. \A d, e \in y.claims : d.scope = e.scope => d = e
  BY <1>2 DEF Good
<1>5. \A k, l \in y.jobs : k.scope = l.scope => k = l
  BY <1>2 DEF Good, Same
<1>6. \A k \in y.jobs : k.until <= k.since + MaxLease
  BY <1>2 DEF Good
<1>7. QED
  BY <1>1, <1>3, <1>4, <1>5, <1>6 DEF Good

LEMMA WithGood ==
  ASSUME NEW x, NEW a \in Actor, NEW s \in Scope, NEW lease \in 1 .. MaxLease, now \in Nat, Good(x)
  PROVE  /\ Good(With(x, a, s, lease))
         /\ With(x, a, s, lease).jobs =
              {j \in x.jobs : j.scope # s} \cup {[owner |-> a, scope |-> s, since |-> now, until |-> now + lease]}
<1>1. PICK w : w = Without(x, {s})
  OBVIOUS
<1>2. Good(w) /\ w.claims = {d \in x.claims : d.scope # s} /\ w.jobs = {k \in x.jobs : k.scope # s}
  BY <1>1, WithoutGood DEF Without
<1>3. PICK c \in Claim : c = [actor |-> a, scope |-> s, at |-> now]
  BY DEF Claim
<1>4. PICK j \in Job : j = [owner |-> a, scope |-> s, since |-> now, until |-> now + lease]
  <2>1. now + lease \in Nat
    BY ConstantsAssumption
  <2>2. QED
    BY <2>1 DEF Job
<1>5. With(x, a, s, lease) = [claims |-> w.claims \cup {c}, jobs |-> w.jobs \cup {j}]
  BY <1>1, <1>3, <1>4 DEF With
<1>6. Same(c, j) /\ j.until <= j.since + MaxLease
  BY <1>3, <1>4, ConstantsAssumption DEF Same
<1>7. /\ \A d \in w.claims : d.scope # c.scope
      /\ \A k \in w.jobs : k.scope # c.scope
  BY <1>2, <1>3
<1>8. Good(With(x, a, s, lease))
  BY <1>2, <1>5, <1>6, <1>7, AddedGood
<1>9. QED
  BY <1>2, <1>4, <1>5, <1>8

\* normalize_jobs changes nothing that any of the writers left.
LEMMA NormalizedSame ==
  ASSUME NEW x, Good(x)
  PROVE  Normalized(x) = x
<1> DEFINE n(c) == [owner |-> c.actor, scope |-> c.scope, since |-> c.at, until |-> LeaseOf(x, c)]
<1>1. ASSUME NEW c \in x.claims, NEW j \in x.jobs, Same(c, j)
      PROVE  n(c) = j
  <2>1. {k \in x.jobs : k.scope = c.scope} = {j}
    BY <1>1 DEF Good, Same
  <2>2. j \in Job /\ j.until <= c.at + MaxLease /\ c.at \in Nat
    BY <1>1 DEF Good, Same, Content, Claim
  <2>3. LeaseOf(x, c) = Least(j.until, c.at + MaxLease)
    BY <2>1 DEF LeaseOf
  <2>4. LeaseOf(x, c) = j.until
    BY <2>2, <2>3, ConstantsAssumption DEF Least, Job
  <2>5. QED
    BY <1>1, <2>2, <2>4 DEF Same, Job
<1>2. {n(c) : c \in x.claims} = x.jobs
  <2>1. \A c \in x.claims : n(c) \in x.jobs
    BY <1>1 DEF Good
  <2>2. \A j \in x.jobs : \E c \in x.claims : j = n(c)
    BY <1>1 DEF Good
  <2>3. QED
    BY <2>1, <2>2
<1>3. Normalized(x) = [x EXCEPT !.jobs = {n(c) : c \in x.claims}]
  BY DEF Normalized
<1>4. QED
  BY <1>2, <1>3 DEF Good, Content

\* What prune and sweep_expired take: leases that have run out.
Outdated(x, S) == \A j \in x.jobs : j.scope \in S => j.until <= now

LEMMA PrunedDrops ==
  ASSUME NEW x, now \in Nat, Good(x)
  PROVE  \E S : Outdated(x, S) /\ Pruned(x) = Without(x, S)
<1> DEFINE S == {c.scope : c \in {d \in x.claims : now - d.at >= MaxLease}}
<1>1. Outdated(x, S)
  <2> SUFFICES ASSUME NEW j \in x.jobs, j.scope \in S PROVE j.until <= now
    BY DEF Outdated
  <2>1. PICK c \in x.claims : c.scope = j.scope /\ now - c.at >= MaxLease
    OBVIOUS
  <2>2. PICK d \in x.claims : Same(d, j)
    BY DEF Good
  <2>3. c = d
    BY <2>1, <2>2 DEF Good, Same
  <2>4. j.since = c.at /\ j.until <= j.since + MaxLease /\ j \in Job
    BY <2>2, <2>3 DEF Good, Same, Content
  <2>5. QED
    BY <2>1, <2>4, ConstantsAssumption DEF Job
<1>2. QED
  BY <1>1 DEF Pruned

LEMMA SweptDrops ==
  ASSUME NEW x, Good(x)
  PROVE  \E S : Outdated(x, S) /\ Swept(x) = Without(x, S)
<1> DEFINE S == {j.scope : j \in {k \in x.jobs : k.until <= now}}
<1>1. Outdated(x, S)
  BY DEF Outdated, Good
<1>2. QED
  BY <1>1, NormalizedSame DEF Swept

-----------------------------------------------------------------------------
(* Types, and what is on file and in memory.                               *)

Stored(f) == (\A x, y \in f : x = y) /\ \A x \in f : Good(x)

LEMMA LoadedGood ==
  ASSUME GoodContents, NEW v \in Server, NEW x \in Loaded(v)
  PROVE  Good(x)
BY DEF GoodContents, Loaded

LEMMA CutOffStored ==
  ASSUME GoodContents, NEW y, Good(y), NEW f \in CutOff(y)
  PROVE  Stored(f)
BY DEF GoodContents, CutOff, Stored

LEMMA ToldTyped ==
  ASSUME GoodContents, NEW a \in Actor, NEW s \in Scope, NEW n \in Nat, Tell(a, s, n) \/ Unheard(a, s, n)
  PROVE  told' \in [Actor -> [Scope -> Nat]]
<1>1. told[a][s] \in Nat
  BY DEF GoodContents
<1>2. PICK k \in Nat : told' = [told EXCEPT ![a][s] = k]
  BY <1>1 DEF Tell, Unheard, Least
<1>3. QED
  BY <1>2 DEF GoodContents

\* What a server has read it prunes, keeps and writes; nothing else.
LEMMA ServerGood ==
  ASSUME GoodContents, NEW v \in Server, NEW x \in Loaded(v), NEW y, Good(y),
         Kept(v, x) \/ Written(v, y) \/ NotWritten(v, x, y)
  PROVE  Stored(file') /\ memory' \in [Server -> Content] /\ \A u \in Server : Good(memory'[u])
<1>1. Good(x)
  BY LoadedGood
<1>2. Good(Pruned(x))
  BY <1>1, WithoutGood DEF Pruned
<1>3. PICK m : Good(m) /\ memory' = [memory EXCEPT ![v] = m]
  BY <1>2 DEF Kept, Written, NotWritten
<1>4. m \in Content
  BY <1>3 DEF Good
<1>5. memory' \in [Server -> Content] /\ \A u \in Server : Good(memory'[u])
  BY <1>3, <1>4 DEF GoodContents
<1>6. Stored(file) /\ Stored({y}) /\ Stored({Pruned(x)})
  BY <1>2 DEF GoodContents, Stored
<1>7. file' \in {file, {y}, {Pruned(x)}} \cup CutOff(y) \cup CutOff(Pruned(x))
  BY DEF Kept, Written, NotWritten
<1>8. Stored(file')
  BY <1>2, <1>6, <1>7, CutOffStored
<1>9. QED
  BY <1>5, <1>8

LEMMA CoordinatorGood ==
  ASSUME GoodContents, NEW y, Good(y), Persisted(y) \/ Unpersisted(y)
  PROVE  Stored(file') /\ UNCHANGED <<now, memory>>
BY CutOffStored DEF Persisted, Unpersisted, Stored

LEMMA GoodStep == GoodContents /\ [Next]_vars => GoodContents'
<1> SUFFICES ASSUME GoodContents, [Next]_vars PROVE GoodContents'
  OBVIOUS
<1> USE ConstantsAssumption
<1>0. ASSUME Stored(file'), memory' \in [Server -> Content] /\ \A u \in Server : Good(memory'[u]),
             told' \in [Actor -> [Scope -> Nat]], now' = now
      PROVE  GoodContents'
  BY <1>0 DEF GoodContents, Stored
<1>m. now \in Nat /\ memory \in [Server -> Content] /\ \A u \in Server : Good(memory[u])
  BY DEF GoodContents
<1>t. told \in [Actor -> [Scope -> Nat]]
  BY DEF GoodContents
<1>p. \A v \in Server : \A x \in Loaded(v) : Good(x) /\ Good(Pruned(x))
  BY LoadedGood, WithoutGood DEF Pruned
<1>s. \A x \in file : Good(x) /\ Good(Swept(x))
  BY NormalizedSame, WithoutGood DEF GoodContents, Swept
<1>1. ASSUME NEW v \in Server, NEW a \in Actor, NEW s \in Scope, ServerClaim(v, a, s)
      PROVE  GoodContents'
  <2>1. PICK x \in Loaded(v) :
          \/ Kept(v, x) /\ UNCHANGED told
          \/ Written(v, With(Pruned(x), a, s, MaxLease)) /\ Tell(a, s, now + MaxLease)
          \/ NotWritten(v, x, With(Pruned(x), a, s, MaxLease)) /\ Unheard(a, s, now + MaxLease)
    BY <1>1 DEF ServerClaim
  <2>2. Good(With(Pruned(x), a, s, MaxLease))
    BY <1>m, <1>p, WithGood
  <2>3. Stored(file') /\ memory' \in [Server -> Content] /\ \A u \in Server : Good(memory'[u])
    BY <2>1, <2>2, ServerGood
  <2>4. now + MaxLease \in Nat
    BY <1>m
  <2>5. told' \in [Actor -> [Scope -> Nat]]
    BY <1>t, <2>1, <2>4, ToldTyped
  <2>6. QED
    BY <1>0, <1>1, <2>3, <2>5 DEF ServerClaim
<1>2. ASSUME NEW v \in Server, NEW a \in Actor, NEW s \in Scope, ServerRelease(v, a, s)
      PROVE  GoodContents'
  <2>1. PICK x \in Loaded(v) :
          LET y == Without(Pruned(x), {s}) IN Written(v, y) \/ NotWritten(v, x, y) \/ Kept(v, x)
    BY <1>2 DEF ServerRelease
  <2>2. Good(Without(Pruned(x), {s}))
    BY <1>p, WithoutGood
  <2>3. Stored(file') /\ memory' \in [Server -> Content] /\ \A u \in Server : Good(memory'[u])
    BY <2>1, <2>2, ServerGood
  <2>4. told' \in [Actor -> [Scope -> Nat]]
    BY <1>2, ToldTyped DEF ServerRelease
  <2>5. QED
    BY <1>0, <1>2, <2>3, <2>4 DEF ServerRelease
<1>3. ASSUME NEW v \in Server, ServerList(v)
      PROVE  GoodContents'
  <2>1. PICK x \in Loaded(v) : Kept(v, x)
    BY <1>3 DEF ServerList
  <2>2. Stored(file') /\ memory' \in [Server -> Content] /\ \A u \in Server : Good(memory'[u])
    BY <2>1, <1>p, ServerGood
  <2>3. QED
    BY <1>0, <1>3, <1>t, <2>2 DEF ServerList
<1>4. ASSUME NEW v \in Server, Restart(v)
      PROVE  GoodContents'
  <2>1. Empty \in Content
    BY Emptiness DEF Good
  <2>2. memory' \in [Server -> Content] /\ \A u \in Server : Good(memory'[u])
    BY <1>4, <1>m, <2>1, Emptiness DEF Restart
  <2>3. QED
    BY <1>4, <2>2 DEF Restart, GoodContents
<1>5. ASSUME NEW a \in Actor, NEW s \in Scope, NEW lease \in 1 .. MaxLease, NEW renewing \in BOOLEAN,
             Coordinate(a, s, lease, renewing)
      PROVE  GoodContents'
  <2>1. PICK x \in file : \E y \in {With(Swept(x), a, s, lease), Swept(x)} :
          /\ Persisted(y) \/ Unpersisted(y)
          /\ Tell(a, s, now + lease) \/ Unheard(a, s, now + lease) \/ UNCHANGED told
    BY <1>5 DEF Coordinate
  <2>2. PICK y : Good(y) /\ (Persisted(y) \/ Unpersisted(y))
    BY <1>m, <1>s, <2>1, WithGood
  <2>3. now + lease \in Nat
    BY <1>m
  <2>4. told' \in [Actor -> [Scope -> Nat]]
    BY <1>t, <2>1, <2>3, ToldTyped
  <2>5. QED
    BY <1>0, <1>m, <2>2, <2>4, CoordinatorGood
<1>6. ASSUME NEW a \in Actor, NEW s \in Scope,
             CoordinatorRelease(a, s) \/ \E at \in 0 .. now : Recover(a, s, at)
      PROVE  GoodContents'
  <2>1. PICK x \in file : \E y \in {Without(Swept(x), {s}), Swept(x)} : Persisted(y) \/ Unpersisted(y)
    BY <1>6 DEF CoordinatorRelease, Recover
  <2>2. PICK y : Good(y) /\ (Persisted(y) \/ Unpersisted(y))
    BY <1>s, <2>1, WithoutGood
  <2>3. Tell(a, s, 0) \/ UNCHANGED told
    BY <1>6 DEF CoordinatorRelease, Recover
  <2>4. told' \in [Actor -> [Scope -> Nat]]
    BY <1>t, <2>3, ToldTyped
  <2>5. QED
    BY <1>0, <1>m, <2>2, <2>4, CoordinatorGood
<1>7. CASE CoordinatorList
  BY <1>7, <1>0, <1>m, <1>s, <1>t, CoordinatorGood DEF CoordinatorList
<1>8. CASE Tick
  BY <1>8 DEF Tick, GoodContents
<1>9. CASE UNCHANGED vars
  BY <1>9 DEF vars, GoodContents
<1>10. QED
  BY <1>1, <1>2, <1>3, <1>4, <1>5, <1>6, <1>7, <1>8, <1>9
  DEF Next, ServerStep, CoordinatorStep, CoordinatorClaim, Heartbeat

LEMMA GoodInitially == Init => GoodContents
<1> SUFFICES ASSUME Init PROVE GoodContents
  OBVIOUS
<1>1. Empty \in Content
  BY Emptiness DEF Good
<1>2. QED
  BY <1>1, Emptiness DEF Init, GoodContents

LEMMA GoodAlways == Spec => []GoodContents
BY GoodInitially, GoodStep, PTL DEF Spec

\* Every variable has its type, and there is one store at most, whatever writes are torn
\* and whatever reads fail.
THEOREM TypeCorrect == Spec => []TypeOK
<1>1. GoodContents => TypeOK
  <2> SUFFICES ASSUME GoodContents PROVE TypeOK
    OBVIOUS
  <2>1. Cardinality(file) <= 1
    <3>1. CASE file = {}
      BY <3>1, FS_EmptySet
    <3>2. CASE file # {}
      <4>1. PICK x : x \in file
        BY <3>2
      <4>2. file = {x}
        BY <4>1 DEF GoodContents
      <4>3. QED
        BY <4>2, FS_Singleton
    <3>3. QED
      BY <3>1, <3>2
  <2>2. file \subseteq Content
    BY DEF GoodContents, Good
  <2>3. QED
    BY <2>1, <2>2 DEF GoodContents, TypeOK
<1>2. QED
  BY <1>1, GoodAlways, PTL

\* The jobs on file are those of the claims, owner and time, after every writer
\* (coordinator-contract.json), even one that fails or reads a file that is torn.
THEOREM JobsHaveClaims == Spec => []JobsMatchClaims
<1>1. GoodContents => JobsMatchClaims
  <2> SUFFICES ASSUME GoodContents, NEW x \in file
               PROVE  {<<j.scope, j.owner, j.since>> : j \in x.jobs} = {<<c.scope, c.actor, c.at>> : c \in x.claims}
    BY DEF JobsMatchClaims
  <2>1. Good(x)
    BY DEF GoodContents
  <2>2. \A j \in x.jobs : \E c \in x.claims : <<j.scope, j.owner, j.since>> = <<c.scope, c.actor, c.at>>
    BY <2>1 DEF Good, Same
  <2>3. \A c \in x.claims : \E j \in x.jobs : <<j.scope, j.owner, j.since>> = <<c.scope, c.actor, c.at>>
    BY <2>1 DEF Good, Same
  <2>4. QED
    BY <2>2, <2>3
<1>2. QED
  BY <1>1, GoodAlways, PTL

-----------------------------------------------------------------------------
(* What an operation on behalf of an actor and a scope does to the file and *)
(* to what the actor was told, when no write is torn and no read fails.     *)

\* Only leases that have run out were dropped, and nobody was told of more.
Drops(x, y) == \E S : Outdated(x, S) /\ y = Without(x, S)
Swapped(a, s, x, y) ==
  /\ Drops(x, y)
  /\ told' = told \/ \E n \in Nat : n <= told[a][s] /\ Tell(a, s, n)

\* ... and the actor took the scope, which was free or its own, and was told no more than that.
Takes(a, s, x, y) ==
  \E d : \E lease \in 1 .. MaxLease, n \in Nat :
    /\ Drops(x, d) /\ (\A c \in ClaimOf(d, s) : c.actor = a)
    /\ y = With(d, a, s, lease)
    /\ n <= now + lease /\ Tell(a, s, n)

\* ... or lost it, and was told so.
Loses(a, s, x, y) ==
  \E d : /\ Drops(x, d) /\ (\A c \in ClaimOf(d, s) : c.actor = a)
         /\ y = Without(d, {s}) /\ Tell(a, s, 0)

Operated(x, y) ==
  /\ now' = now
  /\ \/ Drops(x, y) /\ told' = told
     \/ \E a \in Actor, s \in Scope : Swapped(a, s, x, y) \/ Takes(a, s, x, y) \/ Loses(a, s, x, y)

LEMMA LeastBounds ==
  ASSUME NEW m \in Nat, NEW n \in Nat
  PROVE  Least(m, n) \in Nat /\ Least(m, n) <= m /\ Least(m, n) <= n
BY DEF Least

LEMMA NothingDropped ==
  ASSUME NEW x, Good(x)
  PROVE  Drops(x, x)
<1>1. Outdated(x, {}) /\ Without(x, {}) = x
  BY DEF Outdated, Without, Good, Content
<1>2. QED
  BY <1>1 DEF Drops

LEMMA Operations ==
  ASSUME ~Torn, ~Misread, GoodContents, NEW x, file = {x}, [Next]_vars
  PROVE  \/ Tick \/ UNCHANGED <<now, file, told>>
         \/ \E y : file' = {y} /\ Operated(x, y)
<1> USE ConstantsAssumption
<1> DEFINE Goal == \E y : file' = {y} /\ Operated(x, y)
<1>1. now \in Nat /\ Good(x) /\ told \in [Actor -> [Scope -> Nat]]
  BY DEF GoodContents
<1>2. \A v \in Server : Loaded(v) = {x}
  BY DEF Loaded
<1>3. \A y : CutOff(y) = {{x}, {y}}
  BY DEF CutOff
<1>4. Drops(x, x) /\ Drops(x, Pruned(x)) /\ Drops(x, Swept(x))
  BY <1>1, NothingDropped, PrunedDrops, SweptDrops DEF Drops
<1>5. ASSUME now' = now, told' = told, file' \in {{x}, {Pruned(x)}, {Swept(x)}}
      PROVE  Goal
  BY <1>4, <1>5 DEF Operated
<1>6. ASSUME now' = now, NEW a \in Actor, NEW s \in Scope, NEW n \in Nat, n <= told[a][s], Tell(a, s, n),
             file' \in {{x}, {Pruned(x)}, {Swept(x)}}
      PROVE  Goal
  <2>1. PICK y \in {x, Pruned(x), Swept(x)} : file' = {y}
    BY <1>6
  <2>2. Swapped(a, s, x, y)
    BY <1>4, <1>6 DEF Swapped
  <2>3. QED
    BY <1>6, <2>1, <2>2 DEF Operated
<1>7. ASSUME now' = now, NEW a \in Actor, NEW s \in Scope, NEW lease \in 1 .. MaxLease, NEW n \in Nat,
             n <= now + lease, Tell(a, s, n), NEW d \in {Pruned(x), Swept(x)},
             \A c \in ClaimOf(d, s) : c.actor = a, file' = {With(d, a, s, lease)}
      PROVE  Goal
  <2>1. Takes(a, s, x, With(d, a, s, lease))
    BY <1>4, <1>7 DEF Takes
  <2>2. QED
    BY <1>7, <2>1 DEF Operated
<1>8. ASSUME now' = now, NEW a \in Actor, NEW s \in Scope, NEW d \in {Pruned(x), Swept(x)}, Tell(a, s, 0),
             \E c \in ClaimOf(d, s) : c.actor = a, file' = {Without(d, {s})}
      PROVE  Goal
  <2>1. Good(d)
    BY <1>1, WithoutGood, NormalizedSame DEF Pruned, Swept
  <2>2. \A c \in ClaimOf(d, s) : c.actor = a
    BY <1>8, <2>1 DEF Good, ClaimOf
  <2>3. Loses(a, s, x, Without(d, {s}))
    BY <1>4, <1>8, <2>2 DEF Loses
  <2>4. QED
    BY <1>8, <2>3 DEF Operated
<1>9. ASSUME NEW a \in Actor, NEW s \in Scope, NEW n \in Nat, Unheard(a, s, n)
      PROVE  \E k \in Nat : k <= told[a][s] /\ k <= n /\ Tell(a, s, k)
  <2>1. told[a][s] \in Nat
    BY <1>1
  <2>2. QED
    BY <1>9, <2>1, LeastBounds DEF Unheard
<1>10. ASSUME NEW v \in Server, NEW a \in Actor, NEW s \in Scope, ServerClaim(v, a, s)
       PROVE  Goal
  <2> DEFINE y == With(Pruned(x), a, s, MaxLease)
  <2>1. \/ Kept(v, x) /\ UNCHANGED told
        \/ /\ \A c \in ClaimOf(Pruned(x), s) : c.actor = a
           /\ \/ Written(v, y) /\ Tell(a, s, now + MaxLease)
              \/ NotWritten(v, x, y) /\ Unheard(a, s, now + MaxLease)
    BY <1>2, <1>10 DEF ServerClaim
  <2>2. now' = now /\ now + MaxLease \in Nat /\ now + MaxLease <= now + MaxLease /\ MaxLease \in 1 .. MaxLease
    BY <1>1, <1>10 DEF ServerClaim
  <2>3. CASE Kept(v, x) /\ UNCHANGED told
    BY <1>3, <1>5, <2>2, <2>3 DEF Kept
  <2>4. CASE (\A c \in ClaimOf(Pruned(x), s) : c.actor = a) /\ Written(v, y) /\ Tell(a, s, now + MaxLease)
    BY <1>7, <2>2, <2>4 DEF Written
  <2>5. CASE (\A c \in ClaimOf(Pruned(x), s) : c.actor = a) /\ NotWritten(v, x, y) /\ Unheard(a, s, now + MaxLease)
    <3>1. PICK k \in Nat : k <= told[a][s] /\ k <= now + MaxLease /\ Tell(a, s, k)
      BY <1>9, <2>2, <2>5
    <3>2. file' \in {{x}, {y}, {Pruned(x)}}
      BY <1>3, <2>5 DEF NotWritten
    <3>3. CASE file' = {y}
      BY <1>7, <2>2, <2>5, <3>1, <3>3
    <3>4. QED
      BY <1>6, <2>2, <3>1, <3>2, <3>3
  <2>6. QED
    BY <2>1, <2>3, <2>4, <2>5
<1>11. ASSUME NEW v \in Server, NEW a \in Actor, NEW s \in Scope, ServerRelease(v, a, s)
       PROVE  Goal
  <2> DEFINE y == Without(Pruned(x), {s})
  <2>1. /\ now' = now /\ Tell(a, s, 0) /\ 0 <= told[a][s]
        /\ \/ Kept(v, x)
           \/ (\E c \in ClaimOf(Pruned(x), s) : c.actor = a) /\ (Written(v, y) \/ NotWritten(v, x, y))
    BY <1>1, <1>2, <1>11 DEF ServerRelease
  <2>2. file' \in {{x}, {Pruned(x)}} \/ ((\E c \in ClaimOf(Pruned(x), s) : c.actor = a) /\ file' = {y})
    BY <1>3, <2>1 DEF Kept, Written, NotWritten
  <2>3. QED
    BY <1>6, <1>8, <2>1, <2>2
<1>12. ASSUME NEW v \in Server, ServerList(v)
       PROVE  Goal
  BY <1>2, <1>3, <1>5, <1>12 DEF ServerList, Kept
<1>13. ASSUME NEW a \in Actor, NEW s \in Scope, NEW lease \in 1 .. MaxLease, NEW renewing \in BOOLEAN,
              Coordinate(a, s, lease, renewing)
       PROVE  Goal
  <2> DEFINE y == With(Swept(x), a, s, lease)
  <2>1. \/ /\ \A c \in ClaimOf(Swept(x), s) : c.actor = a
           /\ \/ Persisted(y) /\ Tell(a, s, now + lease)
              \/ Unpersisted(y) /\ Unheard(a, s, now + lease)
        \/ (Persisted(Swept(x)) \/ Unpersisted(Swept(x))) /\ UNCHANGED told
    BY <1>13 DEF Coordinate
  <2>2. now' = now /\ now + lease \in Nat /\ now + lease <= now + lease
    BY <1>1, <2>1 DEF Persisted, Unpersisted
  <2>3. CASE (Persisted(Swept(x)) \/ Unpersisted(Swept(x))) /\ UNCHANGED told
    BY <1>3, <1>5, <2>2, <2>3 DEF Persisted, Unpersisted
  <2>4. CASE (\A c \in ClaimOf(Swept(x), s) : c.actor = a) /\ Persisted(y) /\ Tell(a, s, now + lease)
    BY <1>7, <2>2, <2>4 DEF Persisted
  <2>5. CASE (\A c \in ClaimOf(Swept(x), s) : c.actor = a) /\ Unpersisted(y) /\ Unheard(a, s, now + lease)
    <3>1. PICK k \in Nat : k <= told[a][s] /\ k <= now + lease /\ Tell(a, s, k)
      BY <1>9, <2>2, <2>5
    <3>2. file' \in {{x}, {y}}
      BY <1>3, <2>5 DEF Unpersisted
    <3>3. CASE file' = {y}
      BY <1>7, <2>2, <2>5, <3>1, <3>3
    <3>4. QED
      BY <1>6, <2>2, <3>1, <3>2, <3>3
  <2>6. QED
    BY <2>1, <2>3, <2>4, <2>5
<1>14. ASSUME NEW a \in Actor, NEW s \in Scope, CoordinatorRelease(a, s)
       PROVE  Goal
  <2>1. /\ Tell(a, s, 0) /\ 0 <= told[a][s]
        /\ \E y : /\ y = Swept(x) \/ ((\E c \in ClaimOf(Swept(x), s) : c.actor = a) /\ y = Without(Swept(x), {s}))
                  /\ Persisted(y) \/ Unpersisted(y)
    BY <1>1, <1>14 DEF CoordinatorRelease
  <2>2. /\ now' = now
        /\ \/ file' \in {{x}, {Swept(x)}}
           \/ (\E c \in ClaimOf(Swept(x), s) : c.actor = a) /\ file' = {Without(Swept(x), {s})}
    BY <1>3, <2>1 DEF Persisted, Unpersisted
  <2>3. QED
    BY <1>6, <1>8, <2>1, <2>2
<1>15. ASSUME NEW a \in Actor, NEW s \in Scope, NEW at \in 0 .. now, Recover(a, s, at)
       PROVE  Goal
  <2>1. \E y : /\ Persisted(y) \/ Unpersisted(y)
               /\ \/ /\ \E c \in ClaimOf(Swept(x), s) : c.actor = a
                     /\ y = Without(Swept(x), {s}) /\ Tell(a, s, 0)
                  \/ y = Swept(x) /\ UNCHANGED told
    BY <1>15 DEF Recover
  <2>2. /\ now' = now
        /\ \/ /\ \E c \in ClaimOf(Swept(x), s) : c.actor = a
              /\ file' \in {{x}, {Without(Swept(x), {s})}} /\ Tell(a, s, 0)
           \/ file' \in {{x}, {Swept(x)}} /\ told' = told
    BY <1>3, <2>1 DEF Persisted, Unpersisted
  <2>3. 0 <= told[a][s]
    BY <1>1
  <2>4. QED
    BY <1>5, <1>6, <1>8, <2>2, <2>3
<1>16. CASE CoordinatorList
  BY <1>3, <1>5, <1>16 DEF CoordinatorList, Persisted, Unpersisted
<1>17. QED
  BY <1>10, <1>11, <1>12, <1>13, <1>14, <1>15, <1>16
  DEF Next, ServerStep, CoordinatorStep, CoordinatorClaim, Heartbeat, Restart, vars

-----------------------------------------------------------------------------
(* The file knows what was told.                                           *)

LEMMA DropsGood ==
  ASSUME NEW x, NEW y, Good(x), now \in Nat, Drops(x, y)
  PROVE  Good(y) /\ \A j \in x.jobs : j.until > now => j \in y.jobs
<1>1. PICK S : Outdated(x, S) /\ y = Without(x, S)
  BY DEF Drops
<1>2. Good(y) /\ y.jobs = {j \in x.jobs : j.scope \notin S}
  BY <1>1, WithoutGood DEF Without
<1>3. \A j \in x.jobs : j.until \in Nat
  BY DEF Good, Content, Job
<1>4. QED
  BY <1>1, <1>2, <1>3 DEF Outdated

LEMMA ToldStep ==
  ASSUME GoodContents, NEW x, NEW y, Good(x), Told(x), Operated(x, y)
  PROVE  Told(y)'
<1> USE ConstantsAssumption
<1>1. now \in Nat /\ now' = now /\ told \in [Actor -> [Scope -> Nat]]
  BY DEF GoodContents, Operated
<1> SUFFICES ASSUME NEW b \in Actor, NEW r \in Scope, told'[b][r] > now
             PROVE  \E j \in y.jobs : j.scope = r /\ j.owner = b /\ told'[b][r] <= j.until
  BY <1>1 DEF Told
<1>2. ASSUME told'[b][r] <= told[b][r], told'[b][r] \in Nat
      PROVE  \A d : Drops(x, d) => \E j \in d.jobs : j.scope = r /\ j.owner = b /\ told'[b][r] <= j.until
  <2> SUFFICES ASSUME NEW d, Drops(x, d)
               PROVE  \E j \in d.jobs : j.scope = r /\ j.owner = b /\ told'[b][r] <= j.until
    OBVIOUS
  <2>1. told[b][r] \in Nat /\ told[b][r] > now
    BY <1>1, <1>2
  <2>2. PICK j \in x.jobs : j.scope = r /\ j.owner = b /\ told[b][r] <= j.until
    BY <2>1 DEF Told
  <2>3. j.until \in Nat
    BY DEF Good, Content, Job
  <2>4. j \in d.jobs
    BY <1>1, <2>1, <2>2, <2>3, DropsGood
  <2>5. QED
    BY <1>2, <2>1, <2>2, <2>3, <2>4
<1>3. CASE Drops(x, y) /\ told' = told
  BY <1>1, <1>2, <1>3
<1>4. ASSUME NEW a \in Actor, NEW s \in Scope, NEW n \in Nat, Tell(a, s, n)
      PROVE  /\ told'[a][s] = n
             /\ <<b, r>> # <<a, s>> => told'[b][r] = told[b][r]
  BY <1>1, <1>4 DEF Tell
<1>5. ASSUME NEW a \in Actor, NEW s \in Scope, Swapped(a, s, x, y)
      PROVE  \E j \in y.jobs : j.scope = r /\ j.owner = b /\ told'[b][r] <= j.until
  <2>1. told'[b][r] <= told[b][r] /\ told'[b][r] \in Nat
    <3>1. CASE told' = told
      BY <1>1, <3>1
    <3>2. CASE \E n \in Nat : n <= told[a][s] /\ Tell(a, s, n)
      <4>1. PICK n \in Nat : n <= told[a][s] /\ Tell(a, s, n)
        BY <3>2
      <4>2. CASE <<b, r>> = <<a, s>>
        BY <1>4, <4>1, <4>2
      <4>3. CASE <<b, r>> # <<a, s>>
        BY <1>1, <1>4, <4>1, <4>3
      <4>4. QED
        BY <4>2, <4>3
    <3>3. QED
      BY <1>5, <3>1, <3>2 DEF Swapped
  <2>2. QED
    BY <1>2, <1>5, <2>1 DEF Swapped
<1>6. ASSUME NEW a \in Actor, NEW s \in Scope, NEW d, Drops(x, d), \A c \in ClaimOf(d, s) : c.actor = a,
             <<b, r>> # <<a, s>>, told'[b][r] = told[b][r]
      PROVE  \E j \in d.jobs : j.scope = r /\ j.scope # s /\ j.owner = b /\ told'[b][r] <= j.until
  <2>1. PICK j \in d.jobs : j.scope = r /\ j.owner = b /\ told'[b][r] <= j.until
    BY <1>1, <1>2, <1>6
  <2>2. Good(d)
    BY <1>1, <1>6, DropsGood
  <2>3. PICK c \in d.claims : Same(c, j)
    BY <2>2 DEF Good
  <2>4. j.scope # s
    BY <1>6, <2>1, <2>3 DEF Same, ClaimOf
  <2>5. QED
    BY <2>1, <2>4
<1>7. ASSUME NEW a \in Actor, NEW s \in Scope, Takes(a, s, x, y)
      PROVE  \E j \in y.jobs : j.scope = r /\ j.owner = b /\ told'[b][r] <= j.until
  <2>1. PICK d, lease : /\ lease \in 1 .. MaxLease
                        /\ \E n \in Nat : n <= now + lease /\ Tell(a, s, n)
                        /\ Drops(x, d) /\ (\A c \in ClaimOf(d, s) : c.actor = a)
                        /\ y = With(d, a, s, lease)
    BY <1>7 DEF Takes
  <2>2. PICK n \in Nat : n <= now + lease /\ Tell(a, s, n)
    BY <2>1
  <2>3. y.jobs = {j \in d.jobs : j.scope # s}
                   \cup {[owner |-> a, scope |-> s, since |-> now, until |-> now + lease]}
    BY <1>1, <2>1, DropsGood, WithGood
  <2>4. CASE <<b, r>> = <<a, s>>
    <3>1. b = a /\ r = s /\ told'[a][s] = n
      BY <1>4, <2>2, <2>4
    <3>2. PICK j \in y.jobs : j = [owner |-> a, scope |-> s, since |-> now, until |-> now + lease]
      BY <2>3
    <3>3. j.scope = s /\ j.owner = a /\ j.until = now + lease
      BY <3>2
    <3>4. QED
      BY <2>2, <3>1, <3>3
  <2>5. CASE <<b, r>> # <<a, s>>
    BY <1>4, <1>6, <2>1, <2>2, <2>3, <2>5
  <2>6. QED
    BY <2>4, <2>5
<1>8. ASSUME NEW a \in Actor, NEW s \in Scope, Loses(a, s, x, y)
      PROVE  \E j \in y.jobs : j.scope = r /\ j.owner = b /\ told'[b][r] <= j.until
  <2>1. PICK d : /\ Drops(x, d) /\ (\A c \in ClaimOf(d, s) : c.actor = a)
                 /\ y = Without(d, {s}) /\ Tell(a, s, 0)
    BY <1>8 DEF Loses
  <2>2. <<b, r>> # <<a, s>> /\ told'[b][r] = told[b][r]
    BY <1>1, <1>4, <2>1
  <2>3. y.jobs = {j \in d.jobs : j.scope # s}
    BY <2>1 DEF Without
  <2>4. PICK j \in d.jobs : j.scope = r /\ j.scope # s /\ j.owner = b /\ told'[b][r] <= j.until
    BY <1>6, <2>1, <2>2
  <2>5. j \in y.jobs
    BY <2>3, <2>4
  <2>6. QED
    BY <2>4, <2>5
<1>9. QED
  BY <1>3, <1>5, <1>7, <1>8 DEF Operated

LEMMA Initially == Init => IInv
<1> SUFFICES ASSUME Init PROVE IInv
  OBVIOUS
<1>1. GoodContents
  BY GoodInitially
<1>2. Told(Empty)
  BY DEF Init, Told
<1>3. Empty \in Content /\ file = {Empty}
  BY Emptiness DEF Good, Init
<1>4. QED
  BY <1>1, <1>2, <1>3 DEF IInv

LEMMA Step ==
  ASSUME ~Torn, ~Misread
  PROVE  IInv /\ [Next]_vars => IInv'
<1> SUFFICES ASSUME IInv, [Next]_vars PROVE IInv'
  OBVIOUS
<1>1. PICK x \in Content : file = {x} /\ Told(x) /\ Good(x)
  BY DEF IInv, GoodContents
<1>2. GoodContents' /\ GoodContents
  BY GoodStep DEF IInv
<1>3. CASE Tick \/ UNCHANGED <<now, file, told>>
  <2>1. file' = file /\ told' = told /\ (now' = now \/ now' = now + 1) /\ now \in Nat
    BY <1>2, <1>3 DEF Tick, GoodContents
  <2>2. \A a \in Actor, s \in Scope : told[a][s] \in Nat
    BY <1>2 DEF GoodContents
  <2>3. Told(x)'
    BY <1>1, <2>1, <2>2 DEF Told
  <2>4. QED
    BY <1>1, <1>2, <2>1, <2>3 DEF IInv
<1>4. ASSUME NEW y, file' = {y}, Operated(x, y)
      PROVE  IInv'
  <2>1. Told(y)'
    BY <1>1, <1>2, <1>4, ToldStep
  <2>2. y \in Content
    BY <1>2, <1>4 DEF GoodContents, Good
  <2>3. QED
    BY <1>2, <1>4, <2>1, <2>2 DEF IInv
<1>5. QED
  BY <1>1, <1>2, <1>3, <1>4, Operations

LEMMA Invariant ==
  ASSUME ~Torn, ~Misread
  PROVE  Spec => []IInv
BY Initially, Step, PTL DEF Spec

\* If writes replace the file whole and servers can read it, what an actor was told it owns
\* is on file, with a lease at least as long, whatever servers and coordinators do after each
\* other, fail at or die of; and coordinator.list shows what claims are refused for.
THEOREM FileIsRight ==
  ASSUME ~Torn, ~Misread
  PROVE  Spec => []FileSpeaksTrue
<1>1. IInv => ToldIsOnFile
  <2> SUFFICES ASSUME IInv, NEW a \in Actor, NEW s \in Scope, told[a][s] > now
               PROVE  \E x \in file : \E c \in ClaimOf(x, s) : c.actor = a
    BY DEF ToldIsOnFile
  <2>1. PICK x \in file : Told(x) /\ Good(x)
    BY DEF IInv, GoodContents
  <2>2. PICK j \in x.jobs : j.scope = s /\ j.owner = a
    BY <2>1 DEF Told
  <2>3. PICK c \in x.claims : Same(c, j)
    BY <2>1 DEF Good
  <2>4. QED
    BY <2>2, <2>3 DEF Same, ClaimOf
<1>2. QED
  BY <1>1, Invariant, JobsHaveClaims, PTL DEF FileSpeaksTrue

\* "one claim per exact scope" (coordinator-contract.json): under the same conditions no two
\* actors have been told that they own a scope now.
THEOREM OneOwner ==
  ASSUME ~Torn, ~Misread
  PROVE  Spec => []OneOwnerPerScope
<1>1. IInv => OneOwnerPerScope
  <2> SUFFICES ASSUME IInv, NEW a \in Actor, NEW b \in Actor, NEW s \in Scope,
                      told[a][s] > now, told[b][s] > now
               PROVE  a = b
    BY DEF OneOwnerPerScope
  <2>1. PICK x \in file : Told(x) /\ Good(x)
    BY DEF IInv, GoodContents
  <2>2. QED
    BY <2>1 DEF Told, Good
<1>2. QED
  BY <1>1, Invariant, PTL

-----------------------------------------------------------------------------
(* The file implements ScopeLease.                                         *)

Owners(x, s) == {[actor |-> j.owner, until |-> j.until] : j \in {k \in x.jobs : k.scope = s}}
owners == [s \in Scope |-> {[actor |-> j.owner, until |-> j.until] :
                              j \in {k \in UNION {x.jobs : x \in file} : k.scope = s}}]

LEMMA OwnersOnFile ==
  ASSUME NEW x, file = {x}
  PROVE  owners = [s \in Scope |-> Owners(x, s)]
<1>1. UNION {y.jobs : y \in file} = x.jobs
  OBVIOUS
<1>2. QED
  BY <1>1 DEF owners, Owners

LEMMA OwnersOnFileNext ==
  ASSUME NEW x, file' = {x}
  PROVE  owners' = [s \in Scope |-> Owners(x, s)]
<1>1. UNION {y.jobs : y \in file'} = x.jobs
  OBVIOUS
<1>2. QED
  BY <1>1 DEF owners, Owners

\* A lease that was dropped had run out, the others are as they were.
LEMMA DropsOwners ==
  ASSUME NEW x, NEW y, Drops(x, y), NEW s \in Scope
  PROVE  \/ Owners(y, s) = Owners(x, s)
         \/ Owners(y, s) = {} /\ \A o \in Owners(x, s) : o.until <= now
<1>1. PICK S : Outdated(x, S) /\ y = Without(x, S)
  BY DEF Drops
<1>2. y.jobs = {j \in x.jobs : j.scope \notin S}
  BY <1>1 DEF Without
<1>3. CASE s \in S
  <2>1. Owners(y, s) = {}
    BY <1>2, <1>3 DEF Owners
  <2>2. \A o \in Owners(x, s) : o.until <= now
    BY <1>1, <1>3 DEF Owners, Outdated
  <2>3. QED
    BY <2>1, <2>2
<1>4. CASE s \notin S
  <2>1. {k \in y.jobs : k.scope = s} = {k \in x.jobs : k.scope = s}
    BY <1>2, <1>4
  <2>2. QED
    BY <2>1 DEF Owners
<1>5. QED
  BY <1>3, <1>4

LEMMA LeaseStep ==
  ASSUME GoodContents, NEW x, NEW y, Good(x), file = {x}, file' = {y}, Operated(x, y)
  PROVE  [Leases!Next]_<<now, owners, told>>
<1> USE ConstantsAssumption
<1>1. now \in Nat /\ now' = now /\ told \in [Actor -> [Scope -> Nat]]
  BY DEF GoodContents, Operated
<1>2. /\ \A s \in Scope : owners[s] = Owners(x, s)
      /\ \A s \in Scope : owners'[s] = Owners(y, s)
  BY OwnersOnFile, OwnersOnFileNext
<1>3. ASSUME NEW d, Drops(x, d), NEW r \in Scope
      PROVE  Owners(d, r) = owners[r] \/ (Leases!Expired(r) /\ Owners(d, r) = {})
  BY <1>2, <1>3, DropsOwners DEF Leases!Expired, owners
<1>4. ASSUME NEW a \in Actor, NEW s \in Scope, Swapped(a, s, x, y)
      PROVE  Leases!Operate(a, s)
  <2>1. \A r \in Scope : owners'[r] = owners[r] \/ (Leases!Expired(r) /\ owners'[r] = {})
    BY <1>2, <1>3, <1>4 DEF Swapped
  <2>2. told' = [told EXCEPT ![a][s] = told'[a][s]] /\ told'[a][s] <= told[a][s]
    BY <1>1, <1>4 DEF Swapped, Tell
  <2>3. QED
    BY <1>1, <2>1, <2>2 DEF Leases!Operate, owners
<1>5. CASE Drops(x, y) /\ told' = told
  <2>1. CASE x.jobs = {}
    <3>1. y.jobs = {}
      BY <1>5, <2>1 DEF Drops, Without
    <3>2. owners' = owners
      BY <2>1, <3>1, OwnersOnFile, OwnersOnFileNext DEF Owners
    <3>3. QED
      BY <1>1, <1>5, <3>2
  <2>2. CASE x.jobs # {}
    <3>1. PICK j \in x.jobs : j.owner \in Actor /\ j.scope \in Scope
      BY <2>2 DEF Good, Content, Job
    <3>2. Swapped(j.owner, j.scope, x, y)
      BY <1>5 DEF Swapped
    <3>3. QED
      BY <1>4, <3>1, <3>2 DEF Leases!Next
  <2>3. QED
    BY <2>1, <2>2
<1>6. ASSUME NEW a \in Actor, NEW s \in Scope, NEW d, Drops(x, d), \A c \in ClaimOf(d, s) : c.actor = a
      PROVE  Leases!Expired(s) \/ \A o \in owners[s] : o.actor = a
  <2>1. Good(d)
    BY <1>1, <1>6, DropsGood
  <2>2. \A o \in Owners(d, s) : o.actor = a
    BY <1>6, <2>1 DEF Good, Same, Owners, ClaimOf
  <2>3. QED
    BY <1>3, <1>6, <2>2
<1>7. ASSUME NEW a \in Actor, NEW s \in Scope, Takes(a, s, x, y)
      PROVE  Leases!Operate(a, s)
  <2>1. PICK d, lease : /\ lease \in 1 .. MaxLease
                        /\ \E n \in Nat : n <= now + lease /\ Tell(a, s, n)
                        /\ Drops(x, d) /\ (\A c \in ClaimOf(d, s) : c.actor = a)
                        /\ y = With(d, a, s, lease)
    BY <1>7 DEF Takes
  <2>2. PICK n \in Nat : n <= now + lease /\ Tell(a, s, n)
    BY <2>1
  <2>3. told' = [told EXCEPT ![a][s] = told'[a][s]] /\ told'[a][s] <= now + lease
    BY <1>1, <2>2 DEF Tell
  <2>4. y.jobs = {j \in d.jobs : j.scope # s}
                   \cup {[owner |-> a, scope |-> s, since |-> now, until |-> now + lease]}
    BY <1>1, <2>1, DropsGood, WithGood
  <2>5. Owners(y, s) = {[actor |-> a, until |-> now + lease]}
    <3>1. PICK j : j = [owner |-> a, scope |-> s, since |-> now, until |-> now + lease]
      OBVIOUS
    <3>2. {k \in y.jobs : k.scope = s} = {j}
      BY <2>4, <3>1
    <3>3. Owners(y, s) = {[actor |-> j.owner, until |-> j.until]}
      BY <3>2 DEF Owners
    <3>4. QED
      BY <3>1, <3>3
  <2>6. ASSUME NEW r \in Scope, r # s
        PROVE  Owners(y, r) = Owners(d, r)
    <3>1. {k \in y.jobs : k.scope = r} = {k \in d.jobs : k.scope = r}
      BY <2>4, <2>6
    <3>2. QED
      BY <3>1 DEF Owners
  <2>7. Leases!Take(a, s)
    BY <1>2, <1>6, <2>1, <2>3, <2>5 DEF Leases!Take, owners
  <2>8. \A r \in Scope : \/ owners'[r] = owners[r]
                         \/ Leases!Expired(r) /\ owners'[r] = {}
                         \/ r = s
    BY <1>2, <1>3, <2>1, <2>6
  <2>9. QED
    BY <1>1, <2>3, <2>7, <2>8 DEF Leases!Operate, owners
<1>8. ASSUME NEW a \in Actor, NEW s \in Scope, Loses(a, s, x, y)
      PROVE  Leases!Operate(a, s)
  <2>1. PICK d : /\ Drops(x, d) /\ (\A c \in ClaimOf(d, s) : c.actor = a)
                 /\ y = Without(d, {s}) /\ Tell(a, s, 0)
    BY <1>8 DEF Loses
  <2>2. told' = [told EXCEPT ![a][s] = told'[a][s]] /\ told'[a][s] = 0 /\ 0 <= told[a][s]
    <3>1. told[a][s] \in Nat
      BY <1>1
    <3>2. told'[a][s] = 0
      BY <1>1, <2>1 DEF Tell
    <3>3. told' = [told EXCEPT ![a][s] = told'[a][s]]
      BY <2>1, <3>2 DEF Tell
    <3>4. QED
      BY <3>1, <3>2, <3>3
  <2>3. y.jobs = {j \in d.jobs : j.scope # s}
    BY <2>1 DEF Without
  <2>4. owners'[s] = {}
    BY <1>2, <2>3 DEF Owners
  <2>5. ASSUME NEW r \in Scope, r # s
        PROVE  Owners(y, r) = Owners(d, r)
    <3>1. {k \in y.jobs : k.scope = r} = {k \in d.jobs : k.scope = r}
      BY <2>3, <2>5
    <3>2. QED
      BY <3>1 DEF Owners
  <2>6. Leases!Expired(s) \/ Leases!GiveBack(a, s)
    BY <1>6, <2>1, <2>2, <2>4 DEF Leases!GiveBack, owners
  <2>7. \A r \in Scope : \/ owners'[r] = owners[r]
                         \/ Leases!Expired(r) /\ owners'[r] = {}
                         \/ r = s /\ Leases!GiveBack(a, s)
    BY <1>2, <1>3, <2>1, <2>4, <2>5, <2>6
  <2>8. QED
    BY <1>1, <2>2, <2>7 DEF Leases!Operate, owners
<1>9. QED
  BY <1>4, <1>5, <1>7, <1>8 DEF Operated, Leases!Next

\* The store implements the promise of ScopeLease, under the same conditions: a scope changes
\* hands only when its owner gives it back, is recovered by name or has let the lease run out,
\* and nobody is told of more (BusyStore.claim, busy.py operate).
THEOREM StoreImplementsLease ==
  ASSUME ~Torn, ~Misread
  PROVE  Spec => LeaseSpec
<1>1. Init => Leases!Init
  <2> SUFFICES ASSUME Init PROVE Leases!Init
    OBVIOUS
  <2>1. owners = [s \in Scope |-> Owners(Empty, s)]
    BY OwnersOnFile DEF Init
  <2>2. owners = [s \in Scope |-> {}]
    BY <2>1 DEF Owners, Empty
  <2>3. QED
    BY <2>2 DEF Init, Leases!Init, owners
<1>2. IInv /\ [Next]_vars => [Leases!Next]_<<now, owners, told>>
  <2> SUFFICES ASSUME IInv, [Next]_vars PROVE [Leases!Next]_<<now, owners, told>>
    OBVIOUS
  <2>1. PICK x : file = {x} /\ Good(x) /\ GoodContents
    BY DEF IInv, GoodContents
  <2>2. CASE Tick
    BY <2>2 DEF Tick, owners, Leases!Next, Leases!Tick
  <2>3. CASE UNCHANGED <<now, file, told>>
    BY <2>3 DEF owners
  <2>4. QED
    BY <2>1, <2>2, <2>3, Operations, LeaseStep
<1>3. Spec => Leases!Init /\ [][Leases!Next]_<<now, owners, told>>
  BY <1>1, <1>2, Invariant, PTL DEF Spec
<1>4. QED
  BY <1>3, PTL DEF LeaseSpec, Leases!Spec, owners
=============================================================================
