------------------------------ MODULE OAuth_proofs ------------------------------
(***************************************************************************)
(* Proofs about OAuthStore, for any servers, requests, tokens and number of *)
(* mishaps: types, that mutations exclude each other, and that answers hold *)
(* at every server; and about RefreshRotation, for any servers, number of  *)
(* tokens, grace and life: types, that a family stays one line, and that   *)
(* only a late replay ends it.                                             *)
(***************************************************************************)
EXTENDS OAuthStore, RefreshRotation, FiniteSetTheorems, TLAPS

LockFile == [by : Request, alive : BOOLEAN, signed : BOOLEAN, old : BOOLEAN]

Types ==
  /\ file \in Store
  /\ lock \subseteq LockFile
  /\ mem \in [Server -> Store]
  /\ req \in [Request -> RequestState]
  /\ minted \in 0 .. MaxTokens
  /\ mishaps \in 0 .. MaxMishaps
  /\ given \in Store /\ dead \in Store
  /\ swapped \subseteq Request /\ raced \in BOOLEAN /\ blind \in BOOLEAN
  /\ \A r \in Request : req[r].at # "idle" => Home(r) \in Server

\* There is one lock file at most, and a call has read one store at most.
OneEach ==
  /\ \A l, m \in lock : l = m
  /\ \A r \in Request : \A d, e \in req[r].data : d = e

\* An old lock has its pid, or its server is dead.  A call about to read or steal a lock
\* that was not exchanged under it is about an old one, and steals it from the dead.
OldLocks ==
  /\ \A l \in lock : l.old => l.signed \/ ~l.alive
  /\ \A r \in Request \ swapped : req[r].at \in {"peek", "steal"} => \A l \in lock : l.old
  /\ \A r \in Request \ swapped : req[r].at = "steal" => \A l \in lock : ~l.alive

\* Who is in the mutation has the lock.
Locked(r) == req[r].at \in Inside \cup {"sign"} => \E l \in lock : l.by = r /\ l.alive /\ (req[r].at \in Inside => l.signed)
Exclusive == ~raced => \A r \in Request : Locked(r)

\* No entry is anywhere that was not made yet.
Made(S) == \A t \in S : t <= minted
AllMade ==
  /\ Made(file) /\ Made(given) /\ Made(dead)
  /\ \A s \in Server : Made(mem[s])
  /\ \A r \in Request : \A d \in req[r].data : Made(d)
  /\ \A r \in Request : req[r].op.entry <= minted /\ req[r].answer <= minted

\* What a mutation takes from the store, and what it is about to write.
Gone(r) == IF req[r].op.kind \in {"exchange", "revoke"} THEN {req[r].op.entry} ELSE {}
Sound(m, r) ==
  /\ (given \ dead) \ Gone(r) \subseteq m
  /\ (dead \cup Gone(r)) \cap m = {}
  /\ req[r].answer # Code => req[r].answer \in m

Mutating(r) ==
  /\ req[r].at = "change" => req[r].data = {file}
  /\ req[r].at = "write" => \E m \in Store : req[r].data = {m} /\ Sound(m, r)
  /\ req[r].at = "unlock" => req[r].answer = Code \/ req[r].answer \in file

\* A token that was due to be found is in the file, or dead for good.
Verifying(r) ==
  req[r].due =>
    /\ req[r].at \in {"miss", "reload", "rejected"} => req[r].op.entry \in given
    /\ req[r].at = "reload" => \E d \in Store : req[r].data = {d} /\ (req[r].op.entry \in d \cup dead)
    /\ req[r].at = "rejected" => req[r].op.entry \in dead

Truth == given \ dead \subseteq file /\ dead \cap file = {}
Answers == raced \/ blind \/ (Truth /\ \A r \in Request : Mutating(r) /\ Verifying(r))

IInv == Types /\ OneEach /\ OldLocks /\ Exclusive /\ AllMade /\ Answers

-----------------------------------------------------------------------------

LEMMA AtMostOne ==
  ASSUME NEW S, \A x, y \in S : x = y
  PROVE  Cardinality(S) <= 1
<1>1. CASE S = {}
  BY <1>1, FS_EmptySet
<1>2. CASE S # {}
  <2>1. PICK x : S = {x}
    BY <1>2
  <2>2. QED
    BY <2>1, FS_Singleton
<1>3. QED
  BY <1>1, <1>2

LEMMA AtTyped == \A s \in Server \cup {NoServer} : At(s) \in RequestState
BY ConstantsAssumption DEF At, RequestState, Point, Op, Entry, Code

LEMMA Initially == Init => IInv
<1> SUFFICES ASSUME Init PROVE IInv
  OBVIOUS
<1> USE ConstantsAssumption DEF Init
<1>1. Types
  <2>1. Idle \in RequestState
    BY AtTyped DEF Idle
  <2>2. {Code} \in Store /\ {} \in Store
    BY DEF Store, Entry, Code
  <2>3. req \in [Request -> RequestState] /\ mem \in [Server -> Store]
    BY <2>1, <2>2
  <2>4. minted \in 0 .. MaxTokens /\ mishaps \in 0 .. MaxMishaps
    OBVIOUS
  <2>5. lock \subseteq LockFile /\ swapped \subseteq Request /\ raced \in BOOLEAN /\ blind \in BOOLEAN
    OBVIOUS
  <2>6. file \in Store /\ given \in Store /\ dead \in Store
    BY <2>2
  <2>7. \A r \in Request : req[r].at = "idle"
    BY DEF Idle, At
  <2>8. QED
    BY <2>3, <2>4, <2>5, <2>6, <2>7 DEF Types
<1>2. OneEach /\ OldLocks
  BY DEF OneEach, OldLocks, Idle, At
<1>3. Exclusive
  BY DEF Exclusive, Locked, Idle, At, Inside
<1>4. AllMade
  BY DEF AllMade, Made, Idle, At, Code
<1>5. Answers
  BY DEF Answers, Truth, Mutating, Verifying, Idle, At
<1>6. QED
  BY <1>1, <1>2, <1>3, <1>4, <1>5 DEF IInv

\* What a call has read, or has in its server's maps, is a store of made entries.
LEMMA MapsTyped ==
  ASSUME IInv, NEW r \in Request, Home(r) \in Server \/ req[r].data # {}
  PROVE  /\ Maps(r) \in Store /\ Made(Maps(r))
         /\ \A d : req[r].data = {d} => Maps(r) = d
<1> USE DEF IInv, Types, OneEach, AllMade
<1>1. req[r].data \subseteq Store
  BY DEF RequestState
<1>2. CASE req[r].data = {}
  <2>1. Home(r) \in Server
    BY <1>2
  <2>2. Maps(r) = mem[Home(r)]
    BY <1>2 DEF Maps
  <2>3. QED
    BY <1>2, <2>1, <2>2
<1>3. CASE req[r].data # {}
  <2>1. PICK d \in Store : req[r].data = {d}
    BY <1>1, <1>3
  <2>2. Maps(r) = d
    BY <2>1 DEF Maps
  <2>3. QED
    BY <2>1, <2>2
<1>4. QED
  BY <1>2, <1>3

\* What a mutation makes of the maps: it takes an entry or none, and adds a new one or none.
LEMMA Changes ==
  ASSUME IInv, NEW r \in Request, Exchange(r) \/ Issue(r) \/ Refuse(r) \/ Revoke(r)
  PROVE  \E kind \in {"exchange", "none", "revoke"}, t \in Entry, m \in Store, answer \in Entry :
           /\ Change(r, kind, t, m, answer)
           /\ m = (Maps(r) \ (IF kind \in {"exchange", "revoke"} THEN {t} ELSE {}))
                    \cup (IF answer = Code THEN {} ELSE {answer})
           /\ t <= minted
           /\ \/ answer = Code /\ minted' = minted
              \/ answer = minted' /\ minted' = minted + 1 /\ minted' <= MaxTokens
<1> USE ConstantsAssumption DEF Code, Entry, Store
<1>1. req[r].at = "change"
  BY DEF Exchange, Issue, Refuse, Revoke, Change
<1>2. Maps(r) \in Store /\ Made(Maps(r)) /\ minted \in 0 .. MaxTokens
  BY <1>1, MapsTyped DEF IInv, Types
<1>3. CASE Exchange(r)
  <2>1. PICK t \in Maps(r) :
          /\ minted < MaxTokens /\ minted' = minted + 1
          /\ Change(r, "exchange", t, (Maps(r) \ {t}) \cup {minted'}, minted')
    BY <1>3 DEF Exchange
  <2>2. t \in Entry /\ t <= minted
    BY <1>2 DEF Made
  <2>3. minted' \in Entry /\ minted' # Code
    BY <1>2, <2>1
  <2>4. QED
    BY <1>2, <2>1, <2>2, <2>3
<1>4. CASE Issue(r)
  BY <1>2, <1>4 DEF Issue
<1>5. CASE Refuse(r)
  BY <1>2, <1>5 DEF Refuse
<1>6. CASE Revoke(r)
  <2>1. PICK t \in 1 .. minted : Change(r, "revoke", t, Maps(r) \ {t}, Code) /\ UNCHANGED minted
    BY <1>6 DEF Revoke
  <2>2. t \in Entry /\ t <= minted
    BY <1>2
  <2>3. QED
    BY <1>2, <2>1, <2>2
<1>7. QED
  BY <1>3, <1>4, <1>5, <1>6

LEMMA TypesStep == IInv /\ [Next]_vars => Types'
<1> SUFFICES ASSUME IInv, [Next]_vars PROVE Types'
  OBVIOUS
<1> USE ConstantsAssumption DEF IInv, Types
<1>0. \A r \in Request, p \in Point : [req EXCEPT ![r].at = p] \in [Request -> RequestState]
  BY DEF RequestState
<1>a. \A r \in Request, x \in RequestState : [req EXCEPT ![r] = x] \in [Request -> RequestState]
  OBVIOUS
<1>b. Idle \in RequestState /\ \A r \in Request : At(Home(r)) \in RequestState
  BY AtTyped DEF Idle, Home, RequestState
<1> DEFINE AtHome == \A q \in Request : req'[q].at # "idle" => Home(q)' \in Server
<1>c. ASSUME NEW r \in Request, NEW x \in RequestState, req' = [req EXCEPT ![r] = x],
             x.at # "idle" => x.home \in Server
      PROVE  AtHome
  BY <1>c DEF Home
<1>d. ASSUME NEW r \in Request, NEW p \in Point, req' = [req EXCEPT ![r].at = p], req[r].at # "idle"
      PROVE  AtHome
  BY <1>d DEF Home, RequestState
<1>e. \A h : At(h).at = "idle" /\ At(h).home = h
  BY DEF At
<1>f. Idle.at = "idle"
  BY <1>e DEF Idle
<1>1. ASSUME NEW r \in Request, Open(r)
      PROVE  Types'
  <2>1. req' \in [Request -> RequestState]
    BY <1>1, <1>0 DEF Open, Go, Point
  <2>2. lock' \subseteq LockFile
    <3>1. [by |-> r, alive |-> TRUE, signed |-> FALSE, old |-> FALSE] \in LockFile
      BY DEF LockFile
    <3>2. QED
      BY <1>1, <3>1 DEF Open
  <2>3. swapped' \subseteq Request
    BY <1>1 DEF Open
  <2>4. AtHome
    BY <1>1, <1>d DEF Open, Go, Point
  <2>5. QED
    BY <1>1, <2>1, <2>2, <2>3, <2>4 DEF Open
<1>2. ASSUME NEW r \in Request, Sign(r)
      PROVE  Types'
  <2>1. req' \in [Request -> RequestState]
    BY <1>2, <1>0 DEF Sign, Go, Point
  <2>2. lock' \subseteq LockFile
    BY <1>2 DEF Sign, LockFile
  <2>3. AtHome
    BY <1>2, <1>d DEF Sign, Go, Point
  <2>4. QED
    BY <1>2, <2>1, <2>2, <2>3 DEF Sign, ghosts
<1>3. ASSUME NEW r \in Request, SignFails(r)
      PROVE  Types'
  <2>1. lock' \subseteq LockFile
    BY <1>3 DEF SignFails, LockFile
  <2>2. AtHome
    BY <1>3, <1>b, <1>c, <1>f DEF SignFails
  <2>3. QED
    BY <1>3, <2>1, <2>2, <1>a, <1>b DEF SignFails, Mishap, ghosts
<1>4. ASSUME NEW r \in Request, Stat(r) \/ Peek(r) \/ Steal(r)
      PROVE  Types'
  <2>1. /\ req[r].at # "idle"
        /\ (\E p \in Point : req' = [req EXCEPT ![r].at = p]) \/ req' = [req EXCEPT ![r] = Idle]
    BY <1>4 DEF Stat, Peek, Steal, Go, Wait, Point
  <2>2. req' \in [Request -> RequestState]
    BY <2>1, <1>0, <1>a, <1>b
  <2>3. AtHome
    BY <2>1, <1>b, <1>c, <1>d, <1>f
  <2>4. lock' \subseteq LockFile /\ swapped' \subseteq Request /\ raced' \in BOOLEAN
    BY <1>4 DEF Stat, Peek, Steal, ghosts
  <2>5. QED
    BY <1>4, <2>2, <2>3, <2>4 DEF Stat, Peek, Steal, ghosts
<1>5. ASSUME NEW r \in Request, BeginMutation(r)
      PROVE  Types'
  <2>1. PICK s \in Server : req' = [req EXCEPT ![r] = [@ EXCEPT !.at = "open", !.home = s]]
    BY <1>5 DEF BeginMutation
  <2>2. [req[r] EXCEPT !.at = "open", !.home = s] \in RequestState
    BY DEF RequestState, Point
  <2>3. req' \in [Request -> RequestState]
    BY <2>1, <2>2
  <2>4. AtHome
    BY <2>1 DEF Home, RequestState
  <2>5. QED
    BY <1>5, <2>3, <2>4 DEF BeginMutation, ghosts
<1>6. ASSUME NEW r \in Request, BeginVerify(r)
      PROVE  Types'
  <2>1. req' \in [Request -> RequestState]
    <3>1. PICK s \in Server, t \in 0 .. minted :
             req' = [req EXCEPT ![r] = [At(s) EXCEPT !.at = "miss", !.op = [kind |-> "verify", entry |-> t],
                                                     !.due = t \in given /\ t \in file]]
      BY <1>6 DEF BeginVerify
    <3>2. [kind |-> "verify", entry |-> t] \in Op
      BY DEF Op, Entry, Code
    <3>3. [At(s) EXCEPT !.at = "miss", !.op = [kind |-> "verify", entry |-> t],
                        !.due = t \in given /\ t \in file] \in RequestState
      BY <3>2, AtTyped DEF RequestState, Point, At
    <3>4. QED
      BY <3>1, <3>3, <1>a
  <2>2. AtHome
    BY <1>6, <1>e DEF BeginVerify, Home, At
  <2>3. QED
    BY <1>6, <2>1, <2>2 DEF BeginVerify, ghosts
<1>7. ASSUME NEW r \in Request, Load(r) \/ ReadMiss(r)
      PROVE  Types'
  <2>1. req' \in [Request -> RequestState]
    BY <1>7 DEF Load, ReadMiss, RequestState, Point
  <2>2. AtHome
    BY <1>7 DEF Load, ReadMiss, Home, RequestState
  <2>3. QED
    BY <1>7, <2>1, <2>2 DEF Load, ReadMiss, ghosts
<1>8. ASSUME NEW r \in Request, LoadFails(r)
      PROVE  Types'
  <2>1. AtHome
    BY <1>8, <1>d DEF LoadFails, Go, Point
  <2>2. req' \in [Request -> RequestState]
    BY <1>8, <1>0 DEF LoadFails, Go, Point
  <2>3. blind' \in BOOLEAN /\ mishaps' \in 0 .. MaxMishaps
    BY <1>8 DEF LoadFails, Mishap
  <2>4. QED
    BY <1>8, <2>1, <2>2, <2>3 DEF LoadFails
<1>9. ASSUME NEW r \in Request, Exchange(r) \/ Issue(r) \/ Refuse(r) \/ Revoke(r)
      PROVE  Types'
  <2>1. PICK kind \in {"exchange", "none", "revoke"}, t \in Entry, m \in Store, answer \in Entry :
           /\ Change(r, kind, t, m, answer)
           /\ minted' \in {minted, minted + 1} /\ minted' <= MaxTokens
    BY <1>9, Changes
  <2>2. [kind |-> kind, entry |-> t] \in Op
    BY DEF Op
  <2>3. [At(Home(r)) EXCEPT !.at = "write", !.op = [kind |-> kind, entry |-> t],
                            !.data = {m}, !.answer = answer] \in RequestState
    BY <1>b, <2>2 DEF RequestState, Point
  <2>4. req' \in [Request -> RequestState] /\ mem' \in [Server -> Store]
    BY <1>a, <2>1, <2>3 DEF Change
  <2>5. AtHome
    BY <2>1 DEF Change, At, Home
  <2>6. QED
    BY <2>1, <2>4, <2>5 DEF Change, ghosts
<1>10. ASSUME NEW r \in Request, Rename(r) \/ WriteFails(r) \/ Unlock(r)
      PROVE  Types'
  <2>1. req' \in [Request -> RequestState]
    <3>1. /\ [At(Home(r)) EXCEPT !.at = "unlock", !.answer = req[r].answer] \in RequestState
          /\ [At(Home(r)) EXCEPT !.at = "unlock"] \in RequestState
      BY <1>b DEF RequestState, Point
    <3>2. QED
      BY <1>10, <1>a, <1>b, <3>1 DEF Rename, WriteFails, Unlock
  <2>2. AtHome
    <3>1. req[r].at # "idle"
      BY <1>10 DEF Rename, WriteFails, Unlock
    <3>2. CASE Unlock(r)
      BY <1>b, <1>c, <1>f, <3>2 DEF Unlock
    <3>3. CASE Rename(r) \/ WriteFails(r)
      <4>1. PICK x \in RequestState : req' = [req EXCEPT ![r] = x] /\ x.home = Home(r)
        <5>1. [At(Home(r)) EXCEPT !.at = "unlock", !.answer = req[r].answer].home = Home(r)
          BY DEF At
        <5>2. [At(Home(r)) EXCEPT !.at = "unlock"].home = Home(r)
          BY DEF At
        <5>3. /\ [At(Home(r)) EXCEPT !.at = "unlock", !.answer = req[r].answer] \in RequestState
              /\ [At(Home(r)) EXCEPT !.at = "unlock"] \in RequestState
          BY <1>b DEF RequestState, Point
        <5>4. QED
          BY <3>3, <5>1, <5>2, <5>3 DEF Rename, WriteFails
      <4>2. Home(r) \in Server
        BY <3>1
      <4>3. QED
        BY <4>1, <4>2, <1>c
    <3>4. QED
      BY <1>10, <3>2, <3>3
  <2>3. CASE Rename(r)
    <3>1. file' \in Store
      BY <2>3, MapsTyped DEF Rename
    <3>2. dead' \in Store
      BY <2>3 DEF Rename, Store, RequestState, Op
    <3>3. QED
      BY <2>1, <2>2, <2>3, <3>1, <3>2 DEF Rename
  <2>4. CASE WriteFails(r)
    BY <2>1, <2>2, <2>4 DEF WriteFails, Mishap, ghosts
  <2>5. CASE Unlock(r)
    <3>1. given' \in Store
      BY <2>5 DEF Unlock, Store, RequestState
    <3>2. QED
      BY <2>1, <2>2, <2>5, <3>1 DEF Unlock
  <2>6. QED
    BY <1>10, <2>3, <2>4, <2>5
<1>11. ASSUME NEW r \in Request, Reload(r)
      PROVE  Types'
  <2>1. [At(Home(r)) EXCEPT !.at = "rejected", !.op = req[r].op, !.due = req[r].due] \in RequestState
    BY <1>b DEF RequestState, Point
  <2>2. req' \in [Request -> RequestState]
    BY <1>11, <1>a, <1>b, <2>1 DEF Reload
  <2>3. mem' \in [Server -> Store]
    BY <1>11, MapsTyped DEF Reload
  <2>4. AtHome
    BY <1>11 DEF Reload, At, Idle, Home
  <2>5. QED
    BY <1>11, <2>2, <2>3, <2>4 DEF Reload, ghosts
<1>12. ASSUME NEW r \in Request, ReadMissFails(r) \/ Rejected(r)
      PROVE  Types'
  <2>1. req' \in [Request -> RequestState]
    BY <1>12, <1>a, <1>b DEF ReadMissFails, Rejected
  <2>2. AtHome
    BY <1>12 DEF ReadMissFails, Rejected, At, Idle, Home
  <2>3. QED
    BY <1>12, <2>1, <2>2 DEF ReadMissFails, Rejected, Mishap, ghosts
<1>13. CASE LockAges
  <2>1. \A l \in LockFile : [l EXCEPT !.old = TRUE] \in LockFile
    BY DEF LockFile
  <2>2. lock' \subseteq LockFile
    BY <1>13, <2>1 DEF LockAges
  <2>3. QED
    BY <1>13, <2>2 DEF LockAges, ghosts, Home
<1>14. ASSUME NEW s \in Server, Restart(s)
      PROVE  Types'
  <2>1. lock' \subseteq LockFile
    BY <1>14 DEF Restart, LockFile
  <2>2. req' \in [Request -> RequestState]
    BY <1>14, <1>b DEF Restart
  <2>3. AtHome
    BY <1>14 DEF Restart, At, Idle, Home
  <2>4. QED
    BY <1>14, <2>1, <2>2, <2>3 DEF Restart, Mishap
<1>15. CASE UNCHANGED vars
  BY <1>15 DEF vars, ghosts, Home
<1>16. QED
  BY <1>1, <1>2, <1>3, <1>4, <1>5, <1>6, <1>7, <1>8, <1>9, <1>10, <1>11, <1>12, <1>13, <1>14, <1>15
  DEF Next, Goes

\* A step of a call that does not touch the lock, nor gets in or out of the mutation but by
\* its end.
LEMMA Aside ==
  ASSUME IInv, Types', NEW r \in Request, UNCHANGED <<lock, swapped, raced>>,
         \A q \in Request : q # r => req'[q] = req[q],
         req'[r].at \in Inside => req[r].at \in Inside,
         req'[r].at \notin {"sign", "peek", "steal"},
         \A d, e \in req'[r].data : d = e
  PROVE  OneEach' /\ OldLocks' /\ Exclusive'
<1> USE DEF IInv
<1>1. OneEach'
  BY DEF OneEach
<1>2. OldLocks'
  BY DEF OldLocks
<1>3. Exclusive'
  BY DEF Exclusive, Locked, Inside
<1>4. QED
  BY <1>1, <1>2, <1>3

LEMMA LockStep == IInv /\ Types' /\ [Next]_vars => OneEach' /\ OldLocks' /\ Exclusive'
<1> SUFFICES ASSUME IInv, Types', [Next]_vars PROVE OneEach' /\ OldLocks' /\ Exclusive'
  OBVIOUS
<1> USE DEF IInv
<1>0. /\ \A h : At(h).at = "idle" /\ At(h).data = {}
      /\ Idle.at = "idle" /\ Idle.data = {}
  BY DEF At, Idle
<1>a. \A r \in Request : \A d, e \in req[r].data : d = e
  BY DEF OneEach
<1>b. req \in [Request -> RequestState] /\ lock \subseteq LockFile
  BY DEF Types
<1>1. ASSUME NEW r \in Request, Open(r)
      PROVE  OneEach' /\ OldLocks' /\ Exclusive'
  <2>1. OneEach'
    <3>1. \A q \in Request : req'[q].data = req[q].data
      BY <1>1, <1>b DEF Open, Go, RequestState
    <3>2. \A l, k \in lock' : l = k
      BY <1>1 DEF Open, OneEach
    <3>3. QED
      BY <3>1, <3>2, <1>a DEF OneEach
  <2>2. CASE lock = {}
    <3>1. lock' = {[by |-> r, alive |-> TRUE, signed |-> FALSE, old |-> FALSE]}
      BY <1>1, <2>2 DEF Open
    <3>2. \A q \in Request : req'[q].at = IF q = r THEN "sign" ELSE req[q].at
      BY <1>1, <1>b, <2>2 DEF Open, Go, RequestState
    <3>3. swapped' = swapped \cup {q \in Request : req[q].at \in {"peek", "steal"}} /\ raced' = raced
      BY <1>1, <2>2 DEF Open
    <3>4. OldLocks'
      BY <3>1, <3>2, <3>3 DEF OldLocks
    <3>5. ASSUME ~raced, NEW q \in Request PROVE Locked(q)'
      <4>1. req[q].at \notin Inside \cup {"sign"}
        BY <2>2, <3>5 DEF Exclusive, Locked
      <4>2. req'[q].at \notin Inside
        BY <3>2, <4>1 DEF Inside
      <4>3. req'[q].at = "sign" => q = r
        BY <3>2, <4>1
      <4>4. QED
        BY <3>1, <4>2, <4>3 DEF Locked
    <3>6. QED
      BY <2>1, <3>3, <3>4, <3>5 DEF Exclusive
  <2>3. CASE lock # {}
    <3>1. lock' = lock /\ swapped' = swapped /\ raced' = raced
      BY <1>1, <2>3 DEF Open
    <3>2. \A q \in Request : req'[q].at = IF q = r THEN "stat" ELSE req[q].at
      BY <1>1, <1>b, <2>3 DEF Open, Go, RequestState
    <3>3. QED
      BY <2>1, <3>1, <3>2 DEF OldLocks, Exclusive, Locked, Inside
  <2>4. QED
    BY <2>2, <2>3
<1>2. ASSUME NEW r \in Request, Sign(r)
      PROVE  OneEach' /\ OldLocks' /\ Exclusive'
  <2>1. \A q \in Request : req'[q].at = (IF q = r THEN "load" ELSE req[q].at) /\ req'[q].data = req[q].data
    BY <1>2, <1>b DEF Sign, Go, RequestState
  <2>2. lock' = {IF l.by = r /\ l.alive THEN [l EXCEPT !.signed = TRUE] ELSE l : l \in lock}
    BY <1>2 DEF Sign
  <2>3. swapped' = swapped /\ raced' = raced
    BY <1>2 DEF Sign, ghosts
  <2>4. OneEach'
    <3>1. \A q \in Request : \A d, e \in req'[q].data : d = e
      BY <2>1, <1>a
    <3>2. \A l, k \in lock : l = k
      BY DEF OneEach
    <3>3. \A l, k \in lock' : l = k
      BY <2>2, <3>2
    <3>4. QED
      BY <3>1, <3>3 DEF OneEach
  <2>5. \A l \in lock' : \E k \in lock : /\ l.old = k.old /\ l.alive = k.alive /\ l.by = k.by
                                         /\ k.signed => l.signed
    BY <2>2, <1>b DEF LockFile
  <2>6. OldLocks'
    <3>1. \A l \in lock' : l.old => l.signed \/ ~l.alive
      BY <2>5 DEF OldLocks
    <3>2. QED
      BY <3>1, <2>1, <2>3, <2>5 DEF OldLocks
  <2>7. \A l \in lock : \E k \in lock' : /\ l.old = k.old /\ l.alive = k.alive /\ l.by = k.by
                                         /\ l.signed \/ (l.by = r /\ l.alive) => k.signed
    <3> SUFFICES ASSUME NEW l \in lock
                 PROVE  \E k \in lock' : /\ l.old = k.old /\ l.alive = k.alive /\ l.by = k.by
                                         /\ l.signed \/ (l.by = r /\ l.alive) => k.signed
      OBVIOUS
    <3> DEFINE k == IF l.by = r /\ l.alive THEN [l EXCEPT !.signed = TRUE] ELSE l
    <3>1. k \in lock'
      BY <2>2
    <3>2. /\ l.old = k.old /\ l.alive = k.alive /\ l.by = k.by
          /\ l.signed \/ (l.by = r /\ l.alive) => k.signed
      BY <1>b DEF LockFile
    <3>3. QED
      BY <3>1, <3>2
  <2>8. Exclusive'
    <3> SUFFICES ASSUME ~raced, NEW q \in Request PROVE Locked(q)'
      BY <2>3 DEF Exclusive
    <3>1. Locked(q) /\ req[r].at = "sign"
      BY <1>2 DEF Exclusive, Sign, Go
    <3>2. CASE q = r
      BY <3>1, <3>2, <2>1, <2>7 DEF Locked
    <3>3. CASE q # r
      BY <3>1, <3>3, <2>1, <2>7 DEF Locked
    <3>4. QED
      BY <3>2, <3>3
  <2>9. QED
    BY <2>4, <2>6, <2>8
<1>3. ASSUME NEW r \in Request, SignFails(r)
      PROVE  OneEach' /\ OldLocks' /\ Exclusive'
  <2>1. \A q \in Request : req'[q] = IF q = r THEN Idle ELSE req[q]
    BY <1>3, <1>b DEF SignFails
  <2>2. lock' = {IF l.by = r THEN [l EXCEPT !.alive = FALSE] ELSE l : l \in lock}
    BY <1>3 DEF SignFails
  <2>3. swapped' = swapped /\ raced' = raced
    BY <1>3 DEF SignFails, ghosts
  <2>4. OneEach'
    <3>1. \A q \in Request : \A d, e \in req'[q].data : d = e
      BY <2>1, <1>0 DEF OneEach
    <3>2. \A l, k \in lock : l = k
      BY DEF OneEach
    <3>3. \A l, k \in lock' : l = k
      BY <2>2, <3>2
    <3>4. QED
      BY <3>1, <3>3 DEF OneEach
  <2>5. \A l \in lock' : \E k \in lock : l.old = k.old /\ l.signed = k.signed /\ (l.alive => k.alive)
    BY <2>2, <1>b DEF LockFile
  <2>6. OldLocks'
    <3>1. \A l \in lock' : l.old => l.signed \/ ~l.alive
      BY <2>5 DEF OldLocks
    <3>2. QED
      BY <3>1, <2>1, <2>3, <2>5, <1>0 DEF OldLocks
  <2>7. Exclusive'
    <3> SUFFICES ASSUME ~raced, NEW q \in Request PROVE Locked(q)'
      BY <2>3 DEF Exclusive
    <3>1. CASE q = r
      BY <3>1, <2>1, <1>0 DEF Locked, Inside
    <3>2. CASE q # r
      BY <3>2, <2>1, <2>2 DEF Exclusive, Locked
    <3>3. QED
      BY <3>1, <3>2
  <2>8. QED
    BY <2>4, <2>6, <2>7
<1>4. ASSUME NEW r \in Request, Stat(r)
      PROVE  OneEach' /\ OldLocks' /\ Exclusive'
  <2>1. /\ req[r].at = "stat"
        /\ lock' = lock /\ swapped' = swapped \ {r} /\ raced' = raced
        /\ \A q \in Request : q # r => req'[q] = req[q]
        /\ req'[r].at \in {"idle", "open", "peek"}
        /\ req'[r].data = req[r].data \/ req'[r].data = {}
        /\ req'[r].at = "peek" => \E l \in lock : l.old
    BY <1>4, <1>b, <1>0 DEF Stat, Go, Wait, RequestState
  <2>2. OneEach'
    BY <2>1 DEF OneEach
  <2>3. OldLocks'
    BY <2>1 DEF OldLocks, OneEach
  <2>4. Exclusive'
    BY <2>1 DEF Exclusive, Locked, Inside
  <2>5. QED
    BY <2>2, <2>3, <2>4
<1>5. ASSUME NEW r \in Request, Peek(r)
      PROVE  OneEach' /\ OldLocks' /\ Exclusive'
  <2>1. /\ req[r].at = "peek"
        /\ lock' = lock /\ swapped' = swapped /\ raced' = raced
        /\ \A q \in Request : q # r => req'[q] = req[q]
        /\ req'[r].at \in {"idle", "open", "steal"}
        /\ req'[r].data = req[r].data \/ req'[r].data = {}
        /\ req'[r].at = "steal" => \E l \in lock : ~(l.signed /\ l.alive)
    BY <1>5, <1>b, <1>0 DEF Peek, Go, Wait, RequestState, ghosts
  <2>2. OneEach'
    BY <2>1 DEF OneEach
  <2>3. OldLocks'
    BY <2>1 DEF OldLocks, OneEach
  <2>4. Exclusive'
    BY <2>1 DEF Exclusive, Locked, Inside
  <2>5. QED
    BY <2>2, <2>3, <2>4
<1>6. ASSUME NEW r \in Request, Steal(r)
      PROVE  OneEach' /\ OldLocks' /\ Exclusive'
  <2>1. /\ req[r].at = "steal" /\ req'[r].at = "open"
        /\ lock' = {} /\ swapped' = swapped \ {r} /\ raced' = (raced \/ r \in swapped)
        /\ \A q \in Request : q # r => req'[q] = req[q]
        /\ req'[r].data = req[r].data
    BY <1>6, <1>b DEF Steal, Go, RequestState
  <2>2. OneEach' /\ OldLocks'
    BY <2>1 DEF OneEach, OldLocks
  <2>3. Exclusive'
    <3> SUFFICES ASSUME ~raced', NEW q \in Request PROVE Locked(q)'
      BY DEF Exclusive
    <3>1. ~raced /\ r \notin swapped
      BY <2>1
    <3>2. \A l \in lock : ~l.alive
      BY <2>1, <3>1 DEF OldLocks
    <3>3. req[q].at \notin Inside \cup {"sign"}
      BY <3>1, <3>2 DEF Exclusive, Locked
    <3>4. QED
      BY <2>1, <3>3 DEF Locked, Inside
  <2>4. QED
    BY <2>2, <2>3
<1>7. CASE LockAges
  <2>1. /\ req' = req /\ swapped' = swapped /\ raced' = raced
        /\ lock' = {[l EXCEPT !.old = TRUE] : l \in lock}
        /\ \A l \in lock : l.signed \/ ~l.alive
    BY <1>7 DEF LockAges, OneEach, ghosts
  <2>2. OneEach'
    BY <2>1 DEF OneEach
  <2>3. \A l \in lock' : \E k \in lock : l.old /\ l.signed = k.signed /\ l.alive = k.alive
    BY <2>1, <1>b DEF LockFile
  <2>4. OldLocks'
    BY <2>1, <2>3 DEF OldLocks
  <2>5. \A k \in lock : \E l \in lock' : l.signed = k.signed /\ l.alive = k.alive /\ l.by = k.by
    <3> SUFFICES ASSUME NEW k \in lock
                 PROVE  \E l \in lock' : l.signed = k.signed /\ l.alive = k.alive /\ l.by = k.by
      OBVIOUS
    <3>1. [k EXCEPT !.old = TRUE] \in lock'
      BY <2>1
    <3>2. QED
      BY <3>1, <1>b DEF LockFile
  <2>6. Exclusive'
    <3> SUFFICES ASSUME ~raced, NEW q \in Request, req[q].at \in Inside \cup {"sign"}
                 PROVE  \E l \in lock' : l.by = q /\ l.alive /\ (req[q].at \in Inside => l.signed)
      BY <2>1 DEF Exclusive, Locked
    <3>1. PICK k \in lock : k.by = q /\ k.alive /\ (req[q].at \in Inside => k.signed)
      BY DEF Exclusive, Locked
    <3>2. QED
      BY <3>1, <2>5
  <2>7. QED
    BY <2>2, <2>4, <2>6
<1>8. ASSUME NEW r \in Request, Unlock(r)
      PROVE  OneEach' /\ OldLocks' /\ Exclusive'
  <2>1. /\ req[r].at = "unlock"
        /\ lock' = {} /\ swapped' = swapped /\ raced' = raced
        /\ \A q \in Request : req'[q] = IF q = r THEN Idle ELSE req[q]
    BY <1>8, <1>b DEF Unlock
  <2>2. OneEach' /\ OldLocks'
    BY <2>1, <1>0 DEF OneEach, OldLocks
  <2>3. Exclusive'
    BY <2>1, <1>0 DEF Exclusive, Locked, Inside, OneEach
  <2>4. QED
    BY <2>2, <2>3
<1>9. ASSUME NEW s \in Server, Restart(s)
      PROVE  OneEach' /\ OldLocks' /\ Exclusive'
  <2>1. /\ \A q \in Request : req'[q] = IF Home(q) = s THEN Idle ELSE req[q]
        /\ lock' = {IF Home(l.by) = s THEN [l EXCEPT !.alive = FALSE] ELSE l : l \in lock}
        /\ swapped' = {r \in swapped : Home(r) # s} /\ raced' = raced
    BY <1>9 DEF Restart
  <2>2. OneEach'
    <3>1. \A q \in Request : \A d, e \in req'[q].data : d = e
      BY <2>1, <1>0, <1>a
    <3>2. \A l, k \in lock' : l = k
      BY <2>1 DEF OneEach
    <3>3. QED
      BY <3>1, <3>2 DEF OneEach
  <2>3. \A l \in lock' : \E k \in lock : l.old = k.old /\ l.signed = k.signed /\ (l.alive => k.alive)
    BY <2>1, <1>b DEF LockFile
  <2>4. OldLocks'
    BY <2>1, <2>3, <1>0 DEF OldLocks
  <2>5. Exclusive'
    BY <2>1, <1>0 DEF Exclusive, Locked, Inside
  <2>6. QED
    BY <2>2, <2>4, <2>5
<1>10. ASSUME NEW r \in Request,
              \/ BeginMutation(r) \/ BeginVerify(r) \/ Load(r) \/ LoadFails(r) \/ Rename(r) \/ WriteFails(r)
              \/ ReadMiss(r) \/ ReadMissFails(r) \/ Reload(r) \/ Rejected(r)
       PROVE  OneEach' /\ OldLocks' /\ Exclusive'
  <2>1. UNCHANGED <<lock, swapped, raced>>
    BY <1>10 DEF BeginMutation, BeginVerify, Load, LoadFails, Rename, WriteFails, ReadMiss, ReadMissFails,
                 Reload, Rejected, ghosts
  <2>2. \A q \in Request : q # r => req'[q] = req[q]
    BY <1>10, <1>b DEF BeginMutation, BeginVerify, Load, LoadFails, Rename, WriteFails, ReadMiss,
                       ReadMissFails, Reload, Rejected, Go
  <2>3. CASE BeginMutation(r) \/ BeginVerify(r) \/ Load(r) \/ LoadFails(r) \/ ReadMiss(r)
    <3>1. /\ req'[r].at \in Inside => req[r].at \in Inside
          /\ req'[r].at \notin {"sign", "peek", "steal"}
          /\ req'[r].data = req[r].data \/ req'[r].data = {} \/ req'[r].data = {file}
      <4>1. CASE BeginMutation(r)
        BY <4>1, <1>b DEF BeginMutation, RequestState, Inside
      <4>2. CASE BeginVerify(r)
        BY <4>2, <1>b DEF BeginVerify, Inside, At
      <4>3. CASE Load(r) \/ ReadMiss(r)
        BY <4>3, <1>b DEF Load, ReadMiss, RequestState, Inside
      <4>4. CASE LoadFails(r)
        BY <4>4, <1>b DEF LoadFails, Go, RequestState, Inside
      <4>5. QED
        BY <2>3, <4>1, <4>2, <4>3, <4>4
    <3>2. QED
      BY <2>1, <2>2, <3>1, <1>a, Aside
  <2>4. CASE Rename(r) \/ WriteFails(r) \/ ReadMissFails(r) \/ Reload(r) \/ Rejected(r)
    <3>1. /\ req'[r].at \in Inside => req[r].at \in Inside
          /\ req'[r].at \notin {"sign", "peek", "steal"}
          /\ \A d, e \in req'[r].data : d = e
      <4>1. CASE Rename(r) \/ WriteFails(r)
        <5>1. req[r].at = "write" /\ "write" \in Inside
          BY <4>1 DEF Rename, WriteFails, Inside
        <5>2. req'[r].at = "unlock" /\ req'[r].data = {}
          BY <4>1, <1>b DEF Rename, WriteFails, At
        <5>3. QED
          BY <5>1, <5>2
      <4>2. CASE ReadMissFails(r) \/ Rejected(r)
        BY <4>2, <1>b, <1>0 DEF ReadMissFails, Rejected, Inside, At
      <4>3. CASE Reload(r)
        BY <4>3, <1>b, <1>0 DEF Reload, Inside, At
      <4>4. QED
        BY <2>4, <4>1, <4>2, <4>3
    <3>2. QED
      BY <2>1, <2>2, <3>1, Aside
  <2>5. QED
    BY <1>10, <2>3, <2>4
<1>11. ASSUME NEW r \in Request, Exchange(r) \/ Issue(r) \/ Refuse(r) \/ Revoke(r)
       PROVE  OneEach' /\ OldLocks' /\ Exclusive'
  <2>1. PICK kind \in {"exchange", "none", "revoke"}, t \in Entry, m \in Store, answer \in Entry :
           Change(r, kind, t, m, answer)
    BY <1>11, Changes
  <2>2. /\ UNCHANGED <<lock, swapped, raced>>
        /\ \A q \in Request : q # r => req'[q] = req[q]
        /\ req[r].at = "change" /\ req'[r].at = "write" /\ req'[r].data = {m}
    BY <2>1, <1>b DEF Change, ghosts, At
  <2>3. QED
    BY <2>2, Aside DEF Inside
<1>12. CASE UNCHANGED vars
  BY <1>12 DEF vars, ghosts, OneEach, OldLocks, Exclusive, Locked
<1>13. QED
  BY <1>1, <1>2, <1>3, <1>4, <1>5, <1>6, <1>7, <1>8, <1>9, <1>10, <1>11, <1>12 DEF Next, Goes

-----------------------------------------------------------------------------

LEMMA MadeStep == IInv /\ Types' /\ [Next]_vars => AllMade'
<1> SUFFICES ASSUME IInv, Types', [Next]_vars PROVE AllMade'
  OBVIOUS
<1> USE DEF IInv
<1>1. req \in [Request -> RequestState] /\ minted \in 0 .. MaxTokens /\ mem \in [Server -> Store]
  BY DEF Types
<1>2. /\ \A h : At(h).data = {} /\ At(h).op.entry = 0 /\ At(h).answer = 0
      /\ Idle.data = {} /\ Idle.op.entry = 0 /\ Idle.answer = 0
  BY DEF At, Idle, Code
<1>a. \A q \in Request : req[q].op.entry <= minted /\ req[q].answer <= minted
  BY DEF AllMade
<1> DEFINE Bounds == \A q \in Request : req'[q].op.entry <= minted' /\ req'[q].answer <= minted'
<1>3. ASSUME UNCHANGED <<file, given, dead, mem, minted>>, NEW S, Made(S), Bounds,
             \A q \in Request : req'[q].data = req[q].data \/ req'[q].data = {} \/ req'[q].data = {S}
      PROVE  AllMade'
  <2>1. \A q \in Request : \A d \in req'[q].data : Made(d)
    BY <1>3 DEF AllMade
  <2>2. QED
    BY <1>3, <2>1 DEF AllMade, Made
<1>4. ASSUME NEW r \in Request,
             \/ Open(r) \/ Sign(r) \/ SignFails(r) \/ Stat(r) \/ Peek(r) \/ Steal(r) \/ BeginMutation(r) \/ LoadFails(r)
      PROVE  AllMade'
  <2>1. \A q \in Request : \/ /\ req'[q].data = req[q].data
                              /\ req'[q].op = req[q].op /\ req'[q].answer = req[q].answer
                           \/ req'[q] = Idle
    BY <1>4, <1>1, <1>2
    DEF Open, Sign, SignFails, Stat, Peek, Steal, BeginMutation, LoadFails, Go, Wait, RequestState
  <2>2. UNCHANGED <<file, given, dead, mem, minted>>
    BY <1>4 DEF Open, Sign, SignFails, Stat, Peek, Steal, BeginMutation, LoadFails, ghosts
  <2>3. Bounds
    BY <2>1, <2>2, <1>1, <1>2, <1>a
  <2>4. QED
    BY <2>1, <2>2, <2>3, <1>2, <1>3 DEF Made
<1>5. ASSUME NEW r \in Request, Load(r) \/ ReadMiss(r) \/ ReadMissFails(r) \/ Rejected(r) \/ WriteFails(r)
      PROVE  AllMade'
  <2>1. \A q \in Request : \/ req'[q].data = req[q].data /\ req'[q].op = req[q].op /\ req'[q].answer = req[q].answer
                           \/ req'[q].data = {file} /\ req'[q].op = req[q].op /\ req'[q].answer = req[q].answer
                           \/ req'[q].data = {} /\ req'[q].op.entry = 0 /\ req'[q].answer = 0
    <3>1. CASE Load(r) \/ ReadMiss(r)
      BY <3>1, <1>1 DEF Load, ReadMiss, RequestState
    <3>2. CASE ReadMissFails(r) \/ Rejected(r) \/ WriteFails(r)
      BY <3>2, <1>1, <1>2 DEF ReadMissFails, Rejected, WriteFails, At
    <3>3. QED
      BY <1>5, <3>1, <3>2
  <2>2. UNCHANGED <<file, given, dead, mem, minted>>
    BY <1>5 DEF Load, ReadMiss, ReadMissFails, Rejected, WriteFails, ghosts
  <2>3. Bounds
    BY <2>1, <2>2, <1>1, <1>a
  <2>4. Made(file)
    BY DEF AllMade
  <2>5. \A q \in Request : req'[q].data = req[q].data \/ req'[q].data = {} \/ req'[q].data = {file}
    BY <2>1
  <2>6. QED
    BY <2>2, <2>3, <2>4, <2>5, <1>3
<1>b. ASSUME NEW r \in Request, BeginVerify(r)
      PROVE  AllMade'
  <2>1. UNCHANGED <<file, given, dead, mem, minted>>
    BY <1>b DEF BeginVerify, ghosts
  <2>2. Bounds
    BY <1>b, <2>1, <1>1, <1>a DEF BeginVerify, At, Code
  <2>3. \A q \in Request : req'[q].data = req[q].data \/ req'[q].data = {}
    BY <1>b, <1>1 DEF BeginVerify, At
  <2>4. QED
    BY <2>1, <2>2, <2>3, <1>3 DEF Made
<1>6. ASSUME NEW r \in Request, Exchange(r) \/ Issue(r) \/ Refuse(r) \/ Revoke(r)
      PROVE  AllMade'
  <2>1. PICK kind \in {"exchange", "none", "revoke"}, t \in Entry, m \in Store, answer \in Entry :
           /\ Change(r, kind, t, m, answer)
           /\ m = (Maps(r) \ (IF kind \in {"exchange", "revoke"} THEN {t} ELSE {}))
                    \cup (IF answer = Code THEN {} ELSE {answer})
           /\ t <= minted
           /\ \/ answer = Code /\ minted' = minted
              \/ answer = minted' /\ minted' = minted + 1 /\ minted' <= MaxTokens
    BY <1>6, Changes
  <2>2. Made(Maps(r)) /\ Maps(r) \in Store
    BY <2>1, MapsTyped DEF Change, Types
  <2>3. minted' >= minted /\ minted' \in Nat
    BY <2>1, <1>1
  <2>4. \A x \in Entry : x <= minted => x <= minted'
    BY <2>3, <1>1 DEF Entry, Code
  <2>5. \A S \in Store : Made(S) => Made(S)'
    BY <2>4 DEF Made, Store
  <2>6. Made(m)'
    <3> SUFFICES ASSUME NEW x \in m PROVE x <= minted'
      BY DEF Made
    <3>1. x \in Maps(r) \/ x = minted'
      BY <2>1
    <3>2. x \in Entry
      BY DEF Store
    <3>3. QED
      BY <3>1, <3>2, <2>2, <2>3, <2>4 DEF Made
  <2>7. /\ mem' = [mem EXCEPT ![Home(r)] = m]
        /\ \A q \in Request : q # r => req'[q] = req[q]
        /\ req'[r].data = {m} /\ req'[r].op.entry = t /\ req'[r].answer = answer
        /\ UNCHANGED <<file, given, dead>>
    BY <2>1, <1>1 DEF Change, ghosts, At
  <2>8. Made(file)' /\ Made(given)' /\ Made(dead)'
    BY <2>5, <2>7 DEF AllMade, Types
  <2>9. \A s \in Server : \A x \in mem'[s] : x <= minted'
    <3>1. ASSUME NEW s \in Server, s # Home(r) PROVE \A x \in mem'[s] : x <= minted'
      <4>1. mem'[s] = mem[s] /\ mem[s] \in Store /\ Made(mem[s])
        BY <3>1, <2>7, <1>1 DEF AllMade
      <4>2. QED
        BY <4>1, <2>5 DEF Made
    <3>2. QED
      BY <3>1, <2>6, <2>7, <1>1 DEF Made
  <2>10. \A q \in Request : \A d \in req'[q].data : \A x \in d : x <= minted'
    <3>1. ASSUME NEW q \in Request, q # r, NEW d \in req[q].data PROVE \A x \in d : x <= minted'
      BY <3>1, <2>5, <1>1 DEF AllMade, RequestState, Made
    <3>2. QED
      BY <3>1, <2>6, <2>7 DEF Made
  <2>11. Bounds
    <3>1. ASSUME NEW q \in Request, q # r PROVE req'[q].op.entry <= minted' /\ req'[q].answer <= minted'
      BY <3>1, <2>4, <2>7, <1>1, <1>a DEF RequestState, Op
    <3>2. t <= minted' /\ answer <= minted'
      BY <2>1, <2>3, <2>4 DEF Code
    <3>3. QED
      BY <3>1, <3>2, <2>7
  <2>12. QED
    BY <2>8, <2>9, <2>10, <2>11 DEF AllMade, Made
<1>7. ASSUME NEW r \in Request, Rename(r)
      PROVE  AllMade'
  <2>1. file' = Maps(r) /\ Made(Maps(r))
    BY <1>7, MapsTyped DEF Rename, Types
  <2>2. dead' = dead \cup Gone(r) /\ UNCHANGED <<mem, minted, given>>
    BY <1>7 DEF Rename, Gone
  <2>3. /\ \A q \in Request : q # r => req'[q] = req[q]
        /\ req'[r].data = {} /\ req'[r].op.entry = 0 /\ req'[r].answer = req[r].answer
    BY <1>7, <1>1, <1>2 DEF Rename, At
  <2>4. Bounds
    BY <2>2, <2>3, <1>1, <1>a
  <2>5. Made(dead')
    BY <2>2, <1>a DEF AllMade, Made, Gone
  <2>6. \A q \in Request : \A d \in req'[q].data : Made(d)
    BY <2>3 DEF AllMade
  <2>7. QED
    BY <2>1, <2>2, <2>4, <2>5, <2>6 DEF AllMade, Made
<1>8. ASSUME NEW r \in Request, Unlock(r)
      PROVE  AllMade'
  <2>1. given' \in {given, given \cup ({req[r].answer} \ {Code})} /\ UNCHANGED <<mem, minted, file, dead>>
    BY <1>8 DEF Unlock
  <2>2. \A q \in Request : req'[q] = req[q] \/ req'[q] = Idle
    BY <1>8, <1>1 DEF Unlock
  <2>3. Bounds
    BY <2>1, <2>2, <1>1, <1>2, <1>a
  <2>4. Made(given')
    BY <2>1, <1>a DEF AllMade, Made
  <2>5. \A q \in Request : \A d \in req'[q].data : Made(d)
    BY <2>2, <1>2 DEF AllMade
  <2>6. QED
    BY <2>1, <2>3, <2>4, <2>5 DEF AllMade, Made
<1>9. ASSUME NEW r \in Request, Reload(r)
      PROVE  AllMade'
  <2>1. Made(Maps(r))
    BY <1>9, MapsTyped DEF Reload, Types
  <2>2. \A s \in Server : mem'[s] = mem[s] \/ mem'[s] = Maps(r)
    BY <1>9, <1>1 DEF Reload
  <2>3. \A q \in Request : \/ req'[q] = req[q] \/ req'[q] = Idle
                           \/ req'[q].data = {} /\ req'[q].op = req[q].op /\ req'[q].answer = 0
    BY <1>9, <1>1, <1>2 DEF Reload, At
  <2>4. UNCHANGED <<file, given, dead, minted>>
    BY <1>9 DEF Reload, ghosts
  <2>5. Bounds
    BY <2>3, <2>4, <1>1, <1>2, <1>a
  <2>6. \A q \in Request : \A d \in req'[q].data : Made(d)
    BY <2>3, <1>2 DEF AllMade
  <2>7. \A s \in Server : Made(mem'[s])
    BY <2>1, <2>2 DEF AllMade
  <2>8. QED
    BY <2>4, <2>5, <2>6, <2>7 DEF AllMade, Made
<1>10. ASSUME NEW s \in Server, Restart(s)
       PROVE  AllMade'
  <2>1. /\ \A q \in Request : req'[q] = Idle \/ req'[q] = req[q]
        /\ mem' = [mem EXCEPT ![s] = file]
        /\ UNCHANGED <<file, given, dead, minted>>
    BY <1>10 DEF Restart
  <2>2. Bounds
    BY <2>1, <1>1, <1>2, <1>a
  <2>3. \A q \in Request : \A d \in req'[q].data : Made(d)
    BY <2>1, <1>2 DEF AllMade
  <2>4. \A z \in Server : Made(mem'[z])
    BY <2>1, <1>1 DEF AllMade
  <2>5. QED
    BY <2>1, <2>2, <2>3, <2>4 DEF AllMade, Made
<1>11. CASE LockAges \/ UNCHANGED vars
  BY <1>11 DEF LockAges, vars, ghosts, AllMade, Made
<1>12. QED
  BY <1>4, <1>5, <1>b, <1>6, <1>7, <1>8, <1>9, <1>10, <1>11 DEF Next, Goes

-----------------------------------------------------------------------------

\* Who is in the mutation is there alone.
LEMMA Alone ==
  ASSUME IInv, ~raced, NEW q \in Request, NEW r \in Request, req[q].at \in Inside, req[r].at \in Inside
  PROVE  q = r
<1>1. PICK l \in lock : l.by = q
  BY DEF IInv, Exclusive, Locked
<1>2. PICK k \in lock : k.by = r
  BY DEF IInv, Exclusive, Locked
<1>3. QED
  BY <1>1, <1>2 DEF IInv, OneEach

\* A step that leaves the file and what is known of tokens, and most calls, alone.
LEMMA Bystanders ==
  ASSUME IInv, UNCHANGED <<file, given, dead, raced, blind>>,
         ~raced /\ ~blind /\ Truth =>
           \A q \in Request : req'[q] = req[q] \/ (Mutating(q)' /\ Verifying(q)')
  PROVE  Answers'
<1> SUFFICES ASSUME ~raced, ~blind PROVE Truth' /\ \A q \in Request : Mutating(q)' /\ Verifying(q)'
  BY DEF Answers
<1>1. Truth /\ \A q \in Request : Mutating(q) /\ Verifying(q)
  BY DEF IInv, Answers
<1>2. Truth'
  BY <1>1 DEF Truth
<1>3. ASSUME NEW q \in Request, req'[q] = req[q] PROVE Mutating(q)' /\ Verifying(q)'
  <2>1. Mutating(q) /\ Verifying(q)
    BY <1>1
  <2>2. Mutating(q)'
    BY <1>3, <2>1 DEF Mutating, Sound, Gone
  <2>3. Verifying(q)'
    BY <1>3, <2>1 DEF Verifying
  <2>4. QED
    BY <2>2, <2>3
<1>4. QED
  BY <1>1, <1>2, <1>3

LEMMA AnswersStep == IInv /\ Types' /\ [Next]_vars => Answers'
<1> SUFFICES ASSUME IInv, Types', [Next]_vars PROVE Answers'
  OBVIOUS
<1>1. req \in [Request -> RequestState] /\ minted \in 0 .. MaxTokens /\ file \in Store /\ dead \in Store
  BY DEF IInv, Types
<1>2. /\ \A h : At(h).due = FALSE /\ At(h).answer = Code /\ At(h).data = {} /\ At(h).at = "idle"
      /\ Idle.due = FALSE /\ Idle.at = "idle"
  BY DEF At, Idle
<1>3. ~raced /\ ~blind => Truth /\ \A q \in Request : Mutating(q) /\ Verifying(q)
  BY DEF IInv, Answers
<1>a. ASSUME NEW q \in Request,
             req'[q].at \in {"idle", "open", "sign", "stat", "peek", "steal", "load"}
      PROVE  Mutating(q)' /\ Verifying(q)'
  BY <1>a DEF Mutating, Verifying
<1>4. ASSUME NEW r \in Request,
             \/ Open(r) \/ Sign(r) \/ SignFails(r) \/ Stat(r) \/ Peek(r) \/ BeginMutation(r)
             \/ ReadMissFails(r) \/ Rejected(r)
      PROVE  Answers'
  <2>1. \A q \in Request : \/ req'[q] = req[q]
                           \/ req'[q].at \in {"idle", "open", "sign", "stat", "peek", "steal", "load"}
    BY <1>4, <1>1, <1>2
    DEF Open, Sign, SignFails, Stat, Peek, BeginMutation, ReadMissFails, Rejected, Go, Wait, RequestState
  <2>2. UNCHANGED <<file, given, dead, raced, blind>>
    BY <1>4 DEF Open, Sign, SignFails, Stat, Peek, BeginMutation, ReadMissFails, Rejected, ghosts
  <2>3. QED
    BY <2>1, <2>2, <1>a, Bystanders
<1>5. ASSUME NEW r \in Request, Steal(r)
      PROVE  Answers'
  <2>1. CASE raced'
    BY <2>1 DEF Answers
  <2>2. CASE ~raced'
    <3>1. \A q \in Request : req'[q] = req[q] \/ req'[q].at = "open"
      BY <1>5, <1>1 DEF Steal, Go, RequestState
    <3>2. UNCHANGED <<file, given, dead, blind>> /\ raced' = raced
      BY <1>5, <2>2 DEF Steal, IInv, Types
    <3>3. QED
      BY <3>1, <3>2, <1>a, Bystanders
  <2>3. QED
    BY <2>1, <2>2
<1>6. ASSUME NEW r \in Request, LoadFails(r)
      PROVE  Answers'
  BY <1>6 DEF LoadFails, Answers
<1>7. ASSUME NEW r \in Request, Load(r)
      PROVE  Answers'
  <2>1. /\ \A q \in Request : q # r => req'[q] = req[q]
        /\ req'[r].at = "change" /\ req'[r].data = {file}
        /\ UNCHANGED <<file, given, dead, raced, blind>>
    BY <1>7, <1>1 DEF Load, RequestState, ghosts
  <2>2. Mutating(r)' /\ Verifying(r)'
    BY <2>1 DEF Mutating, Verifying
  <2>3. QED
    BY <2>1, <2>2, Bystanders
<1>8. ASSUME NEW r \in Request, Exchange(r) \/ Issue(r) \/ Refuse(r) \/ Revoke(r)
      PROVE  Answers'
  <2>1. PICK kind \in {"exchange", "none", "revoke"}, t \in Entry, m \in Store, answer \in Entry :
           /\ Change(r, kind, t, m, answer)
           /\ m = (Maps(r) \ (IF kind \in {"exchange", "revoke"} THEN {t} ELSE {}))
                    \cup (IF answer = Code THEN {} ELSE {answer})
           /\ t <= minted
           /\ \/ answer = Code /\ minted' = minted
              \/ answer = minted' /\ minted' = minted + 1 /\ minted' <= MaxTokens
    BY <1>8, Changes
  <2>2. /\ \A q \in Request : q # r => req'[q] = req[q]
        /\ req[r].at = "change" /\ req'[r].at = "write" /\ req'[r].data = {m} /\ req'[r].due = FALSE
        /\ req'[r].op = [kind |-> kind, entry |-> t] /\ req'[r].answer = answer
        /\ UNCHANGED <<file, given, dead, raced, blind>>
    BY <2>1, <1>1 DEF Change, ghosts, At
  <2>3. ASSUME ~raced, ~blind, Truth PROVE Mutating(r)'
    <3>1. Maps(r) = file
      <4>1. req[r].data = {file}
        BY <2>2, <2>3, <1>3 DEF Mutating
      <4>2. QED
        BY <4>1, MapsTyped
    <3> DEFINE G == IF kind \in {"exchange", "revoke"} THEN {t} ELSE {}
    <3>2. Gone(r)' = G
      BY <2>2 DEF Gone
    <3>3. (given \ dead) \ G \subseteq m
      BY <2>1, <2>3, <3>1 DEF Truth
    <3>4. answer # Code => answer \notin dead /\ answer # t /\ answer \in m
      <4> SUFFICES ASSUME answer # Code PROVE answer \notin dead /\ answer # t /\ answer \in m
        OBVIOUS
      <4>1. answer = minted + 1
        BY <2>1
      <4>2. \A x \in dead : x <= minted
        BY DEF IInv, AllMade, Made
      <4>3. answer \notin dead
        BY <4>1, <4>2, <1>1
      <4>4. QED
        BY <2>1, <4>1, <4>3, <1>1
    <3>5. (dead \cup G) \cap m = {}
      BY <2>1, <2>3, <3>1, <3>4 DEF Truth
    <3>6. Sound(m, r)'
      BY <2>2, <3>2, <3>3, <3>4, <3>5 DEF Sound
    <3>7. QED
      BY <2>2, <3>6 DEF Mutating
  <2>4. Verifying(r)'
    BY <2>2 DEF Verifying
  <2>5. QED
    BY <2>2, <2>3, <2>4, Bystanders
<1>9. ASSUME NEW r \in Request, Rename(r)
      PROVE  Answers'
  <2> SUFFICES ASSUME ~raced, ~blind PROVE Truth' /\ \A q \in Request : Mutating(q)' /\ Verifying(q)'
    BY <1>9 DEF Answers, Rename
  <2>1. req[r].at = "write" /\ Truth /\ \A q \in Request : Mutating(q) /\ Verifying(q)
    BY <1>9, <1>3 DEF Rename
  <2>2. PICK m \in Store : req[r].data = {m} /\ Sound(m, r)
    BY <2>1 DEF Mutating
  <2>3. file' = m /\ dead' = dead \cup Gone(r) /\ UNCHANGED <<given, raced, blind>>
    BY <1>9, <2>2, MapsTyped DEF Rename, Gone
  <2>4. /\ \A q \in Request : q # r => req'[q] = req[q]
        /\ req'[r].at = "unlock" /\ req'[r].answer = req[r].answer /\ req'[r].due = FALSE
    BY <1>9, <1>1, <1>2 DEF Rename, At
  <2>5. Truth'
    BY <2>2, <2>3 DEF Truth, Sound
  <2>6. Mutating(r)' /\ Verifying(r)'
    BY <2>2, <2>3, <2>4 DEF Mutating, Verifying, Sound
  <2>7. ASSUME NEW q \in Request, q # r PROVE Mutating(q)' /\ Verifying(q)'
    <3>1. req[q].at \notin Inside
      BY <2>1, <2>7, Alone DEF Inside
    <3>2. Mutating(q)'
      BY <2>4, <2>7, <3>1 DEF Mutating, Inside
    <3>3. Verifying(q)'
      BY <2>1, <2>3, <2>4, <2>7 DEF Verifying
    <3>4. QED
      BY <3>2, <3>3
  <2>8. QED
    BY <2>5, <2>6, <2>7
<1>10. ASSUME NEW r \in Request, WriteFails(r)
       PROVE  Answers'
  <2>1. /\ \A q \in Request : q # r => req'[q] = req[q]
        /\ req'[r].at = "unlock" /\ req'[r].answer = Code /\ req'[r].due = FALSE
        /\ UNCHANGED <<file, given, dead, raced, blind>>
    BY <1>10, <1>1, <1>2 DEF WriteFails, ghosts
  <2>2. Mutating(r)' /\ Verifying(r)'
    BY <2>1 DEF Mutating, Verifying
  <2>3. QED
    BY <2>1, <2>2, Bystanders
<1>11. ASSUME NEW r \in Request, Unlock(r)
       PROVE  Answers'
  <2> SUFFICES ASSUME ~raced, ~blind PROVE Truth' /\ \A q \in Request : Mutating(q)' /\ Verifying(q)'
    BY <1>11 DEF Answers, Unlock
  <2>1. req[r].at = "unlock" /\ Truth /\ \A q \in Request : Mutating(q) /\ Verifying(q)
    BY <1>11, <1>3 DEF Unlock
  <2>2. given' \in {given, given \cup ({req[r].answer} \ {Code})} /\ UNCHANGED <<file, dead, raced, blind>>
    BY <1>11 DEF Unlock
  <2>3. /\ \A q \in Request : q # r => req'[q] = req[q]
        /\ req'[r].at = "idle" /\ req'[r].due = FALSE
    BY <1>11, <1>1, <1>2 DEF Unlock
  <2>4. req[r].answer = Code \/ req[r].answer \in file
    BY <2>1 DEF Mutating
  <2>5. Truth' /\ given \subseteq given'
    BY <2>1, <2>2, <2>4 DEF Truth
  <2>6. Mutating(r)' /\ Verifying(r)'
    BY <2>3, <1>a
  <2>7. ASSUME NEW q \in Request, q # r PROVE Mutating(q)' /\ Verifying(q)'
    <3>1. req[q].at \notin Inside
      BY <2>1, <2>7, Alone DEF Inside
    <3>2. Mutating(q)'
      BY <2>3, <2>7, <3>1 DEF Mutating, Inside
    <3>3. Verifying(q)'
      BY <2>1, <2>2, <2>3, <2>5, <2>7 DEF Verifying
    <3>4. QED
      BY <3>2, <3>3
  <2>8. QED
    BY <2>5, <2>6, <2>7
<1>12. ASSUME NEW r \in Request, BeginVerify(r)
       PROVE  Answers'
  <2>1. PICK s \in Server, t \in 0 .. minted :
          req' = [req EXCEPT ![r] = [At(s) EXCEPT !.at = "miss", !.op = [kind |-> "verify", entry |-> t],
                                                  !.due = t \in given /\ t \in file]]
    BY <1>12 DEF BeginVerify
  <2>2. /\ \A q \in Request : q # r => req'[q] = req[q]
        /\ req'[r].at = "miss" /\ req'[r].op.entry = t /\ (req'[r].due => t \in given)
    BY <2>1, <1>1 DEF At
  <2>3. UNCHANGED <<file, given, dead, raced, blind>>
    BY <1>12 DEF BeginVerify, ghosts
  <2>4. Mutating(r)' /\ Verifying(r)'
    BY <2>2, <2>3 DEF Mutating, Verifying
  <2>5. QED
    BY <2>2, <2>3, <2>4, Bystanders
<1>13. ASSUME NEW r \in Request, ReadMiss(r)
       PROVE  Answers'
  <2>1. /\ \A q \in Request : q # r => req'[q] = req[q]
        /\ req[r].at = "miss" /\ req'[r].at = "reload" /\ req'[r].data = {file}
        /\ req'[r].op = req[r].op /\ (req'[r].due => req[r].due)
        /\ UNCHANGED <<file, given, dead, raced, blind>>
    BY <1>13, <1>1 DEF ReadMiss, RequestState, ghosts
  <2>2. ASSUME ~raced, ~blind, Truth PROVE Mutating(r)' /\ Verifying(r)'
    <3>1. req[r].due => req[r].op.entry \in given /\ req[r].op.entry \in file \cup dead
      BY <2>1, <2>2, <1>3 DEF Verifying, Truth
    <3>2. Mutating(r)'
      BY <2>1 DEF Mutating
    <3>3. req'[r].due => \E d \in Store : req'[r].data = {d} /\ req'[r].op.entry \in d \cup dead
      BY <2>1, <3>1, <1>1
    <3>4. Verifying(r)'
      BY <2>1, <3>1, <3>3 DEF Verifying
    <3>5. QED
      BY <3>2, <3>4
  <2>3. QED
    BY <2>1, <2>2, Bystanders
<1>14. ASSUME NEW r \in Request, Reload(r)
       PROVE  Answers'
  <2>1. /\ \A q \in Request : q # r => req'[q] = req[q]
        /\ req[r].at = "reload"
        /\ UNCHANGED <<file, given, dead, raced, blind>>
    BY <1>14, <1>1 DEF Reload, ghosts
  <2>2. CASE req[r].op.entry \in Maps(r)
    <3>1. req'[r].at = "idle"
      BY <1>14, <2>2, <1>1, <1>2 DEF Reload
    <3>2. QED
      BY <2>1, <3>1, <1>a, Bystanders
  <2>3. CASE req[r].op.entry \notin Maps(r)
    <3>1. req'[r].at = "rejected" /\ req'[r].op = req[r].op /\ (req'[r].due => req[r].due)
      BY <1>14, <2>3, <1>1 DEF Reload, At
    <3>2. ASSUME ~raced, ~blind, Truth PROVE Mutating(r)' /\ Verifying(r)'
      <4>1. ASSUME req[r].due PROVE req[r].op.entry \in given /\ req[r].op.entry \in dead
        <5>1. PICK d \in Store : req[r].data = {d} /\ req[r].op.entry \in d \cup dead
          BY <2>1, <3>2, <4>1, <1>3 DEF Verifying
        <5>a. req[r].op.entry \in given
          BY <2>1, <3>2, <4>1, <1>3 DEF Verifying
        <5>2. Maps(r) = d
          BY <5>1, MapsTyped
        <5>3. QED
          BY <2>3, <5>1, <5>a, <5>2
      <4>2. Mutating(r)'
        BY <3>1 DEF Mutating
      <4>3. Verifying(r)'
        BY <2>1, <3>1, <4>1 DEF Verifying
      <4>4. QED
        BY <4>2, <4>3
    <3>3. QED
      BY <2>1, <3>2, Bystanders
  <2>4. QED
    BY <2>2, <2>3
<1>15. ASSUME NEW s \in Server, Restart(s)
       PROVE  Answers'
  <2>1. \A q \in Request : req'[q] = req[q] \/ req'[q].at = "idle"
    BY <1>15, <1>2 DEF Restart
  <2>2. UNCHANGED <<file, given, dead, raced, blind>>
    BY <1>15 DEF Restart
  <2>3. QED
    BY <2>1, <2>2, <1>a, Bystanders
<1>16. CASE LockAges \/ UNCHANGED vars
  BY <1>16, Bystanders DEF LockAges, vars, ghosts
<1>17. QED
  BY <1>4, <1>5, <1>6, <1>7, <1>8, <1>9, <1>10, <1>11, <1>12, <1>13, <1>14, <1>15, <1>16 DEF Next, Goes

-----------------------------------------------------------------------------

LEMMA Invariant == Spec => []IInv
<1>1. IInv /\ [Next]_vars => IInv'
  BY TypesStep, LockStep, MadeStep, AnswersStep DEF IInv
<1>2. QED
  BY <1>1, Initially, PTL DEF Spec

\* Every variable has its type: the store file and every server's maps hold entries that
\* there are, there is one lock file at most, and a call has read one store at most.
THEOREM TypeCorrect == Spec => []TypeOK
<1>1. IInv => TypeOK
  <2> SUFFICES ASSUME IInv PROVE TypeOK
    OBVIOUS
  <2>1. Cardinality(lock) <= 1
    BY AtMostOne DEF IInv, OneEach
  <2>2. \A r \in Request : Cardinality(req[r].data) <= 1
    BY AtMostOne DEF IInv, OneEach
  <2>3. QED
    BY <2>1, <2>2 DEF IInv, Types, TypeOK, LockFile
<1>2. QED
  BY <1>1, Invariant, PTL

\* Mutations exclude each other, whatever number of servers and requests there is, whoever
\* ends and whatever fails (withStoreMutation), until a call unlinks a lock that replaced
\* the one it had judged.
THEOREM MutationsOneByOne == Spec => []MutationsExclude
<1>1. IInv => MutationsExclude
  <2> SUFFICES ASSUME IInv, ~raced PROVE MutationsExclude
    BY DEF MutationsExclude
  <2>1. \A q, r \in {x \in Request : req[x].at \in Inside} : q = r
    BY Alone
  <2>2. QED
    BY <2>1, AtMostOne DEF MutationsExclude
<1>2. QED
  BY <1>1, Invariant, PTL

\* An answer that a client had from one server holds at every other (persistAsync, loadAsync
\* and verifyAccessToken): a new token is in the file until it is exchanged or revoked, what
\* was exchanged or revoked never comes back, and no server rejects a token that was told
\* to a client and is in the file.
THEOREM AnswersHold == Spec => []AnswersHoldEverywhere
<1>1. IInv => AnswersHoldEverywhere
  <2> SUFFICES ASSUME IInv, ~raced, ~blind PROVE AnswersHoldEverywhere
    BY DEF AnswersHoldEverywhere, FileIsTheTruth, HandoffSeesIssued
  <2>1. Truth /\ \A r \in Request : Verifying(r)
    BY DEF IInv, Answers
  <2>2. HandoffSeesIssued
    BY <2>1 DEF HandoffSeesIssued, Verifying, Truth
  <2>3. QED
    BY <2>1, <2>2 DEF AnswersHoldEverywhere, FileIsTheTruth, Truth
<1>2. QED
  BY <1>1, Invariant, PTL

-----------------------------------------------------------------------------
(* RefreshRotation                                                         *)

Live(t) == Stored(t) /\ ~Superseded(t)

\* As long as the code is stored nothing was made of it.
CodeFirst == code => known = {} /\ \A t \in Token : ~Stored(t)

\* Two tokens that could be rotated are one.
OneLive == \A t, u \in Token : Live(t) /\ Live(u) => t = u

\* Tokens of a confidential client are not superseded.
ConfidentialKeeps ==
  ~public => \A t \in Token : ~Superseded(t) /\ parent[t] = None

\* What is stored or known was made, and later than what it was made from.
InOrder ==
  /\ \A t \in Token : Stored(t) => t <= made
  /\ \A t \in known : t <= made /\ parent[t] < t

\* The successor on file is the one that was made from the token.
NextIsChild ==
  \A t \in Token : Superseded(t) => refresh[t].next <= made /\ t < refresh[t].next /\ parent[refresh[t].next] = t

\* A known successor of a token that is still stored is the one on file.
ChildIsNext ==
  \A u \in known : parent[u] # None /\ Stored(parent[u]) => refresh[parent[u]].next = u

FamilyInv ==
  RefreshTypes /\ CodeFirst /\ OneLive /\ ConfidentialKeeps /\ InOrder /\ NextIsChild /\ ChildIsNext /\ RetriesAgree

\* u is t or came from it; a token between them was revoked on its own.
From(u, t) == t \in Line(u, parent)
Cut(u, t) == \E w \in revoked : From(u, w) /\ From(w, t)

\* A token is made after its parent, and of one that was made.
Parents == \A t \in Token : parent[t] < t /\ (parent[t] # None => t <= made)

\* Nothing that is stored is later than the token that could be rotated.
Latest == \A t, u \in Token : Live(t) /\ Stored(u) => u <= t

\* A token that is gone has no successor.
Marked == \A t \in Token : Superseded(t) => Stored(t)

\* Earlier tokens expire first.
Ages == \A t, u \in Token : Stored(t) /\ Stored(u) /\ t < u => refresh[t].left <= refresh[u].left

\* What was replayed or revoked was known, and is never stored again.
Dead == replayed \cup revoked \subseteq known /\ \A t \in replayed \cup revoked : ~Stored(t)

\* From a stored token the successors on file lead to all that came from it and is stored.
OnLine ==
  \A t, u \in Token : Stored(t) /\ Stored(u) /\ From(u, t) => u \in Family(t) \/ Cut(u, t)

\* Nothing is left of what was replayed, ...
Ended == \A t \in replayed, u \in Token : Stored(u) /\ From(u, t) => Cut(u, t)

\* ... and all that was lost was expired, revoked or came from what was replayed.
Kept == \A t \in known : Stored(t) \/ t \in expired \cup revoked \/ \E u \in replayed : From(t, u)

LInv == Parents /\ Latest /\ Marked /\ Ages /\ Dead /\ OnLine /\ Ended /\ Kept

Untouched == UNCHANGED <<public, made, parent, known>>

-----------------------------------------------------------------------------

LEMMA Records ==
  /\ Absent \in Record /\ Fresh \in Record
  /\ \A n \in Token : [left |-> Life, next |-> n, since |-> 0] \in Record
  /\ \A r \in Record : Older(r) \in Record
<1>1. /\ Absent \in Record /\ Fresh \in Record
      /\ \A n \in Token : [left |-> Life, next |-> n, since |-> 0] \in Record
  BY GraceAssumption DEF Record, Absent, Fresh, Token, None
<1>2. \A r \in Record : Older(r) \in Record
  <2> TAKE r \in Record
  <2>1. CASE r.left <= 1
    BY <2>1, <1>1 DEF Older
  <2>2. CASE ~(r.left <= 1)
    <3> DEFINE since == IF r.next = None \/ r.since > Grace THEN r.since ELSE r.since + 1
    <3>1. /\ r.left - 1 \in 0 .. Life /\ r.next \in Token \cup {None}
          /\ since \in 0 .. Grace + 1
      BY <2>2, GraceAssumption DEF Record
    <3>2. Older(r) = [left |-> r.left - 1, next |-> r.next, since |-> since]
      BY <2>2 DEF Older, Record
    <3> HIDE DEF since
    <3>3. QED
      BY <3>1, <3>2 DEF Record
  <2>3. QED
    BY <2>1, <2>2
<1>3. QED
  BY <1>1, <1>2

\* One token is made.
LEMMA Minting ==
  ASSUME RefreshTypes, NEW f \in Token \cup {None}, Mint(f)
  PROVE  /\ made' \in Token /\ made' = made + 1
         /\ parent' \in [Token -> Token \cup {None}]
         /\ parent'[made'] = f
         /\ \A t \in Token : t # made' => parent'[t] = parent[t]
BY GraceAssumption DEF RefreshTypes, Mint, Token, None

\* Tokens go, or stay with the successors they have.
LEMMA Dropping ==
  ASSUME FamilyInv, Untouched, RefreshTypes', code' => code,
         \A t \in Token : \/ refresh'[t].left = 0 /\ refresh'[t].next = None
                          \/ /\ refresh'[t].left > 0 => refresh[t].left > 0
                             /\ refresh'[t].next = refresh[t].next
  PROVE  FamilyInv'
<1> USE DEF FamilyInv, Untouched
<1>1. \A t \in Token : refresh[t] \in Record /\ refresh'[t] \in Record
  BY DEF RefreshTypes
<1>2. \A t \in Token : /\ Stored(t)' => Stored(t)
                       /\ Superseded(t)' => Superseded(t) /\ refresh'[t].next = refresh[t].next
                       /\ Stored(t)' => refresh'[t].next = refresh[t].next
  BY <1>1 DEF Stored, Superseded, Record
<1>3. \A t \in Token : Live(t)' => Live(t)
  BY <1>2 DEF Live, Superseded
<1>4. CodeFirst'
  BY <1>2 DEF CodeFirst
<1>5. OneLive'
  BY <1>3 DEF OneLive
<1>6. ConfidentialKeeps'
  BY <1>2 DEF ConfidentialKeeps
<1>7. InOrder'
  BY <1>2 DEF InOrder
<1>8. NextIsChild'
  BY <1>2 DEF NextIsChild
<1>9. ChildIsNext'
  <2> SUFFICES ASSUME NEW u \in known, parent[u] # None, Stored(parent[u])'
               PROVE  refresh'[parent[u]].next = u
    BY DEF ChildIsNext
  <2>1. parent[u] \in Token
    BY DEF RefreshTypes
  <2>2. QED
    BY <2>1, <1>2 DEF ChildIsNext
<1>10. RetriesAgree'
  BY DEF RetriesAgree
<1>11. QED
  BY <1>4, <1>5, <1>6, <1>7, <1>8, <1>9, <1>10

\* A token was made but the store could not be written.
LEMMA Losing ==
  ASSUME FamilyInv, NEW f \in Token \cup {None}, Mint(f), Lose, public' = public, public \/ f = None, RefreshTypes'
  PROVE  FamilyInv'
<1> USE DEF FamilyInv, Lose
<1>1. /\ made' \in Token /\ made' = made + 1 /\ made \in Nat
      /\ parent'[made'] = f
      /\ \A t \in Token : t # made' => parent'[t] = parent[t]
  BY Minting DEF RefreshTypes
<1>2. \A t \in known : t \in Token /\ t # made' /\ parent'[t] = parent[t]
  BY <1>1 DEF RefreshTypes, InOrder, Token
<1>3. \A t \in Token : Superseded(t) => refresh[t].next \in Token /\ refresh[t].next # made'
  <2> TAKE t \in Token
  <2>1. refresh[t] \in Record
    BY DEF RefreshTypes
  <2>2. QED
    BY <2>1, <1>1 DEF Superseded, NextIsChild, Record, Token
<1>4. CodeFirst' /\ OneLive'
  BY DEF CodeFirst, OneLive, Live, Stored, Superseded
<1>5. ConfidentialKeeps'
  BY <1>1 DEF ConfidentialKeeps, Superseded
<1>6. InOrder'
  <2>1. \A t \in Token : Stored(t)' => t <= made'
    BY <1>1 DEF InOrder, Stored, Token
  <2>2. \A t \in known' : t <= made' /\ parent'[t] < t
    BY <1>1, <1>2 DEF InOrder, Token
  <2>3. QED
    BY <2>1, <2>2 DEF InOrder
<1>7. NextIsChild'
  <2> SUFFICES ASSUME NEW t \in Token, Superseded(t)
               PROVE  refresh[t].next <= made' /\ t < refresh[t].next /\ parent'[refresh[t].next] = t
    BY DEF NextIsChild, Superseded
  <2>1. QED
    BY <1>1, <1>3 DEF NextIsChild, Token
<1>8. ChildIsNext'
  BY <1>2 DEF ChildIsNext, Stored
<1>9. RetriesAgree'
  BY <1>2 DEF RetriesAgree
<1>10. QED
  BY <1>4, <1>5, <1>6, <1>7, <1>8, <1>9

-----------------------------------------------------------------------------
(* Types.                                                                  *)

LEMMA InitType == RefreshInit => RefreshTypes
BY Records, GraceAssumption DEF RefreshInit, RefreshTypes, Token, None

LEMMA StepType == RefreshTypes /\ [RefreshNext]_refreshVars => RefreshTypes'
<1> SUFFICES ASSUME RefreshTypes, [RefreshNext]_refreshVars PROVE RefreshTypes'
  OBVIOUS
<1> USE DEF RefreshTypes
<1>1. CASE UNCHANGED refreshVars
  BY <1>1 DEF refreshVars, refreshGhosts
<1>2. CASE ExchangeCode
  <2>1. /\ made' \in Token /\ parent' \in [Token -> Token \cup {None}]
    BY <1>2, Minting DEF ExchangeCode
  <2>2. refresh' \in [Token -> Record] /\ known' \subseteq Token /\ code' \in BOOLEAN
    BY <1>2, <2>1, Records DEF ExchangeCode, Write, Answer, Lose
  <2>3. UNCHANGED <<public, recent, expired, replayed, revoked>>
    BY <1>2 DEF ExchangeCode, Lose
  <2>4. made' \in 0 .. MaxRefresh
    BY <2>1 DEF Token
  <2>5. QED
    BY <2>1, <2>2, <2>3, <2>4
<1>3. CASE Tick
  <2>1. refresh' \in [Token -> Record] /\ expired' \subseteq Token
    BY <1>3, Records DEF Tick
  <2>2. QED
    BY <1>3, <2>1 DEF Tick
<1>4. CASE CodeExpires
  BY <1>4 DEF CodeExpires, refreshGhosts
<1>5. ASSUME NEW t \in known, Renew(t)
      PROVE  RefreshTypes'
  BY <1>5, Records DEF Renew, Write, refreshGhosts
<1>6. ASSUME NEW t \in known, Replay(t)
      PROVE  RefreshTypes'
  <2>1. refresh' \in [Token -> Record] /\ replayed' \subseteq Token /\ UNCHANGED <<code, known, revoked>>
    BY <1>6, Records DEF Replay, Revokes, Write, Without, Lose
  <2>2. QED
    BY <1>6, <2>1 DEF Replay, Revokes
<1>7. ASSUME NEW t \in known, RevokeToken(t)
      PROVE  RefreshTypes'
  BY <1>7, Records DEF RevokeToken, Write
<1>8. ASSUME NEW s \in Provider, NEW t \in known, Rotate(s, t)
      PROVE  RefreshTypes'
  <2>1. t \in Token /\ made' \in Token /\ parent' \in [Token -> Token \cup {None}]
    BY <1>8, Minting DEF Rotate, Succeed
  <2>2. recent' \in [Provider -> [Token -> Token \cup {None}]]
    BY <1>8, <2>1 DEF Rotate, Succeed
  <2>3. refresh' \in [Token -> Record] /\ known' \subseteq Token
    BY <1>8, <2>1, Records DEF Rotate, Succeed, Write, Answer, Lose
  <2>4. UNCHANGED <<public, code, replayed, revoked, expired>>
    BY <1>8 DEF Rotate, Succeed, Lose
  <2>5. made' \in 0 .. MaxRefresh
    BY <2>1 DEF Token
  <2>6. QED
    BY <2>1, <2>2, <2>3, <2>4, <2>5
<1>9. ASSUME NEW s \in Provider, NEW t \in known, Coalesce(s, t)
      PROVE  RefreshTypes'
  <2>1. recent[s][t] \in Token
    BY <1>9 DEF Coalesce, Cached, InGrace, Superseded
  <2>2. QED
    BY <1>9, <2>1 DEF Coalesce, Answer
<1>10. ASSUME NEW s \in Provider, NEW t \in known, RejectRetry(s, t)
       PROVE  RefreshTypes'
  BY <1>10 DEF RejectRetry, refreshVars, refreshGhosts
<1>11. ASSUME NEW s \in Provider, RestartServer(s)
       PROVE  RefreshTypes'
  <2>1. recent' \in [Provider -> [Token -> Token \cup {None}]]
    BY <1>11 DEF RestartServer
  <2>2. QED
    BY <1>11, <2>1 DEF RestartServer, refreshGhosts
<1>12. QED
  BY <1>1, <1>2, <1>3, <1>4, <1>5, <1>6, <1>7, <1>8, <1>9, <1>10, <1>11 DEF RefreshNext

\* Every variable keeps its type.
THEOREM RefreshTypeCorrect == RefreshSpec => []RefreshTypes
BY InitType, StepType, PTL DEF RefreshSpec

-----------------------------------------------------------------------------
(* The invariant.                                                          *)

LEMMA InitInv == RefreshInit => FamilyInv
<1> SUFFICES ASSUME RefreshInit PROVE FamilyInv
  OBVIOUS
<1>1. \A t \in Token : ~Stored(t) /\ ~Superseded(t)
  BY DEF RefreshInit, Stored, Superseded, Absent
<1>2. QED
  BY <1>1, InitType DEF RefreshInit, FamilyInv, CodeFirst, OneLive, Live, ConfidentialKeeps, InOrder, NextIsChild,
    ChildIsNext, RetriesAgree

\* The code is exchanged: the first token is the only one.
LEMMA ExchangeInv ==
  ASSUME FamilyInv, RefreshTypes', ExchangeCode
  PROVE  FamilyInv'
<1>1. None \in Token \cup {None} /\ Mint(None)
  BY DEF ExchangeCode
<1>2. CASE Lose
  BY <1>1, <1>2, Losing DEF ExchangeCode
<1>3. CASE code' = FALSE /\ Write([refresh EXCEPT ![made'] = Fresh]) /\ Answer(made')
  <2> USE DEF FamilyInv
  <2>1. /\ made' \in Token /\ made' = made + 1 /\ made \in Nat
        /\ parent' \in [Token -> Token \cup {None}] /\ parent'[made'] = None
        /\ \A t \in Token : t # made' => parent'[t] = parent[t]
    BY <1>1, Minting DEF RefreshTypes
  <2>2. known' \subseteq {made'} /\ \A t \in Token : ~Stored(t)
    BY <1>3, CodeFirst DEF ExchangeCode, Answer, CodeFirst
  <2>3. refresh \in [Token -> Record] /\ Fresh.next = None
    BY DEF RefreshTypes, Fresh
  <2>4. \A t \in Token : /\ t # made' => refresh'[t] = refresh[t]
                         /\ Superseded(t)' => Superseded(t) /\ refresh'[t] = refresh[t]
                         /\ Stored(t)' => t = made'
    BY <1>3, <2>1, <2>2, <2>3 DEF Write, Superseded, Stored
  <2>5. CodeFirst'
    BY <1>3 DEF CodeFirst
  <2>6. OneLive'
    BY <2>4 DEF OneLive, Live
  <2>7. ConfidentialKeeps'
    BY <2>1, <2>4 DEF ConfidentialKeeps, ExchangeCode
  <2>8. InOrder'
    <3>1. \A t \in Token : Stored(t)' => t <= made'
      BY <2>1, <2>4
    <3>2. \A t \in known' : t <= made' /\ parent'[t] < t
      BY <2>1, <2>2 DEF Token, None
    <3>3. QED
      BY <3>1, <3>2 DEF InOrder
  <2>9. NextIsChild'
    <3> SUFFICES ASSUME NEW t \in Token, Superseded(t)'
                 PROVE  refresh'[t].next <= made' /\ t < refresh'[t].next /\ parent'[refresh'[t].next] = t
      BY DEF NextIsChild
    <3>1. refresh[t].next \in Token /\ Superseded(t) /\ refresh'[t] = refresh[t]
      BY <2>4, <2>3 DEF Superseded, Record
    <3>2. QED
      BY <3>1, <2>1 DEF NextIsChild, Token
  <2>10. ChildIsNext'
    BY <2>1, <2>2 DEF ChildIsNext
  <2>11. RetriesAgree'
    BY <2>2 DEF RetriesAgree
  <2>12. QED
    BY <2>5, <2>6, <2>7, <2>8, <2>9, <2>10, <2>11
<1>4. QED
  BY <1>2, <1>3 DEF ExchangeCode

\* A confidential client's token stays the only one.
LEMMA RenewInv ==
  ASSUME FamilyInv, RefreshTypes', NEW t \in known, Renew(t)
  PROVE  FamilyInv'
<1> USE DEF FamilyInv
<1>1. t \in Token /\ refresh \in [Token -> Record] /\ Stored(t) /\ ~public /\ ~code
  BY DEF RefreshTypes, Renew, CodeFirst
<1>2. refresh' = [refresh EXCEPT ![t] = Fresh] /\ Fresh.next = None
  BY DEF Renew, Write, Fresh
<1>3. \A u \in Token : /\ Stored(u)' => Stored(u)
                       /\ ~Superseded(u) /\ ~Superseded(u)'
                       /\ refresh'[u].next = refresh[u].next
  BY <1>1, <1>2 DEF Stored, Superseded, ConfidentialKeeps
<1>4. UNCHANGED <<public, code, recent, made, parent, known>>
  BY DEF Renew, refreshGhosts
<1>5. CodeFirst' /\ RetriesAgree'
  BY <1>1, <1>4 DEF CodeFirst, RetriesAgree
<1>6. OneLive'
  BY <1>3 DEF OneLive, Live
<1>7. ConfidentialKeeps'
  BY <1>3, <1>4 DEF ConfidentialKeeps
<1>8. InOrder' /\ NextIsChild'
  BY <1>3, <1>4 DEF InOrder, NextIsChild
<1>9. ChildIsNext'
  BY <1>1, <1>4 DEF ChildIsNext, ConfidentialKeeps, RefreshTypes
<1>10. QED
  BY <1>5, <1>6, <1>7, <1>8, <1>9

\* A token is superseded by a new one, which takes its place as the only live one.
LEMMA RotateInv ==
  ASSUME FamilyInv, RefreshTypes', NEW s \in Provider, NEW t \in known, Rotate(s, t)
  PROVE  FamilyInv'
<1> USE DEF FamilyInv
<1>1. t \in Token /\ Stored(t) /\ ~Superseded(t) /\ public /\ ~code /\ Mint(t)
  BY DEF RefreshTypes, Rotate, Succeed, CodeFirst
<1>2. CASE Lose
  BY <1>1, <1>2, Losing DEF Rotate, Succeed
<1>3. CASE /\ Write([refresh EXCEPT ![t] = [left |-> Life, next |-> made', since |-> 0], ![made'] = Fresh])
           /\ Answer(made') /\ code' = code
  <2>1. /\ made' \in Token /\ made' = made + 1 /\ made \in Nat
        /\ parent' \in [Token -> Token \cup {None}] /\ parent'[made'] = t
        /\ \A u \in Token : u # made' => parent'[u] = parent[u]
    BY <1>1, Minting DEF RefreshTypes
  <2>2. t < made'
    BY <1>1, <2>1 DEF InOrder, Token
  <2>3. refresh \in [Token -> Record] /\ Fresh.next = None
    BY DEF RefreshTypes, Fresh
  <2>4. /\ refresh'[t].next = made'
        /\ refresh'[made'].next = None
        /\ \A u \in Token : u # t /\ u # made' => refresh'[u] = refresh[u]
    BY <1>1, <1>3, <2>1, <2>2, <2>3 DEF Write, Token
  <2>5. known' \subseteq known \cup {made'} /\ known \subseteq Token
    BY <1>3 DEF Answer, RefreshTypes
  <2>6. \A u \in known : u # made' /\ parent'[u] = parent[u] /\ parent[u] # made' /\ parent[u] # t
    <3> TAKE u \in known
    <3>1. u \in Token /\ u <= made /\ parent[u] < u
      BY <2>5 DEF InOrder
    <3>2. parent[u] \in Token \cup {None}
      BY <3>1 DEF RefreshTypes
    <3>3. parent[u] # t
      BY <1>1, <3>1 DEF ChildIsNext, Superseded, Token, None
    <3>4. QED
      BY <2>1, <3>1, <3>2, <3>3 DEF Token, None
  <2>7. CodeFirst'
    BY <1>1, <1>3 DEF CodeFirst
  <2>8. OneLive'
    <3> SUFFICES ASSUME NEW u \in Token, Live(u)' PROVE u = made'
      BY DEF OneLive
    <3>1. u # t
      BY <2>1, <2>4 DEF Live, Superseded, Token, None
    <3>2. CASE u # made'
      BY <1>1, <2>4, <3>1, <3>2 DEF Live, Stored, Superseded, OneLive
    <3>3. QED
      BY <3>2
  <2>9. ConfidentialKeeps'
    BY <1>1 DEF ConfidentialKeeps, Rotate, Succeed
  <2>10. InOrder'
    <3>1. \A u \in Token : Stored(u)' => u <= made'
      BY <2>1, <2>2, <2>4 DEF InOrder, Stored, Token
    <3>2. \A u \in known' : u <= made' /\ parent'[u] < u
      BY <2>1, <2>2, <2>5, <2>6 DEF InOrder, Token
    <3>3. QED
      BY <3>1, <3>2 DEF InOrder
  <2>11. NextIsChild'
    <3> SUFFICES ASSUME NEW u \in Token, Superseded(u)'
                 PROVE  refresh'[u].next <= made' /\ u < refresh'[u].next /\ parent'[refresh'[u].next] = u
      BY DEF NextIsChild
    <3>1. u # made'
      BY <2>4 DEF Superseded
    <3>2. CASE u = t
      BY <2>1, <2>2, <2>4, <3>2 DEF Token
    <3>3. CASE u # t
      <4>1. refresh[u].next \in Token /\ Superseded(u) /\ refresh'[u] = refresh[u]
        BY <2>3, <2>4, <3>1, <3>3 DEF Superseded, Record
      <4>2. QED
        BY <4>1, <2>1 DEF NextIsChild, Token
    <3>4. QED
      BY <3>2, <3>3
  <2>12. ChildIsNext'
    <3> SUFFICES ASSUME NEW u \in known', parent'[u] # None, refresh'[parent'[u]].left > 0
                 PROVE  refresh'[parent'[u]].next = u
      BY DEF ChildIsNext, Stored
    <3>1. CASE u = made'
      BY <2>1, <2>4, <3>1
    <3>2. CASE u \in known
      <4>1. parent'[u] = parent[u] /\ parent[u] \in Token /\ refresh'[parent[u]] = refresh[parent[u]]
        BY <2>4, <2>5, <2>6, <3>2 DEF RefreshTypes
      <4>2. Stored(parent[u])
        BY <4>1 DEF Stored
      <4>3. QED
        BY <4>1, <4>2, <3>2 DEF ChildIsNext
    <3>3. QED
      BY <2>5, <3>1, <3>2
  <2>13. RetriesAgree'
    BY <2>1, <2>5, <2>6 DEF RetriesAgree
  <2>14. QED
    BY <2>7, <2>8, <2>9, <2>10, <2>11, <2>12, <2>13
<1>4. QED
  BY <1>2, <1>3 DEF Rotate, Succeed

\* A retry is told of the successor on file.
LEMMA CoalesceInv ==
  ASSUME FamilyInv, RefreshTypes', NEW s \in Provider, NEW t \in known, Coalesce(s, t)
  PROVE  FamilyInv'
<1> USE DEF FamilyInv
<1> DEFINE n == refresh[t].next
<1>1. t \in Token /\ Stored(t) /\ Superseded(t) /\ ~code
  BY DEF RefreshTypes, Coalesce, InGrace, CodeFirst
<1>2. n \in Token /\ n <= made /\ t < n /\ parent[n] = t
  BY <1>1 DEF RefreshTypes, Superseded, Record, NextIsChild
<1>3. known' \subseteq known \cup {n} /\ UNCHANGED <<public, code, refresh, made, parent>>
  BY DEF Coalesce, Cached, Answer
<1>4. CodeFirst' /\ OneLive' /\ ConfidentialKeeps' /\ NextIsChild'
  BY <1>1, <1>3 DEF CodeFirst, OneLive, Live, Stored, Superseded, ConfidentialKeeps, NextIsChild
<1>5. InOrder'
  BY <1>2, <1>3 DEF InOrder, Stored
<1>6. ChildIsNext'
  BY <1>2, <1>3 DEF ChildIsNext, Stored
<1>7. RetriesAgree'
  <2> SUFFICES ASSUME NEW u \in known, parent[u] = t PROVE u = n
    BY <1>2, <1>3 DEF RetriesAgree
  <2>1. t # None
    BY <1>1 DEF Token, None
  <2>2. QED
    BY <1>1, <2>1 DEF ChildIsNext
<1>8. QED
  BY <1>4, <1>5, <1>6, <1>7

LEMMA StepInv == FamilyInv /\ [RefreshNext]_refreshVars => FamilyInv'
<1> SUFFICES ASSUME FamilyInv, [RefreshNext]_refreshVars PROVE FamilyInv'
  OBVIOUS
<1>0. RefreshTypes /\ RefreshTypes'
  BY StepType DEF FamilyInv
<1>a. refresh \in [Token -> Record] /\ known \subseteq Token /\ code \in BOOLEAN
  BY <1>0 DEF RefreshTypes
<1>1. ASSUME UNCHANGED <<public, code, refresh, made, parent, known>>
      PROVE  FamilyInv'
  BY <1>0, <1>1 DEF FamilyInv, CodeFirst, OneLive, Live, Stored, Superseded, ConfidentialKeeps, InOrder,
    NextIsChild, ChildIsNext, RetriesAgree
<1>2. CASE UNCHANGED refreshVars
  BY <1>1, <1>2 DEF refreshVars, refreshGhosts
<1>3. CASE ExchangeCode
  BY <1>0, <1>3, ExchangeInv
<1>4. CASE Tick
  <2>1. \A t \in Token : \/ refresh'[t].left = 0 /\ refresh'[t].next = None
                         \/ /\ refresh'[t].left > 0 => refresh[t].left > 0
                            /\ refresh'[t].next = refresh[t].next
    <3> TAKE t \in Token
    <3>1. refresh'[t] = Older(refresh[t]) /\ refresh[t] \in Record
      BY <1>a, <1>4 DEF Tick
    <3>2. CASE refresh[t].left <= 1
      BY <3>1, <3>2 DEF Older, Absent
    <3>3. CASE ~(refresh[t].left <= 1)
      BY <3>1, <3>3 DEF Older, Record
    <3>4. QED
      BY <3>2, <3>3
  <2>2. Untouched /\ (code' => code)
    BY <1>4 DEF Tick, Untouched
  <2>3. QED
    BY <1>0, <2>1, <2>2, Dropping
<1>5. CASE CodeExpires
  <2>1. CodeFirst'
    BY <1>5 DEF CodeExpires, CodeFirst
  <2>2. UNCHANGED <<public, refresh, made, parent, known>>
    BY <1>5 DEF CodeExpires, refreshGhosts
  <2>3. QED
    BY <1>0, <2>1, <2>2 DEF FamilyInv, OneLive, Live, Stored, Superseded, ConfidentialKeeps, InOrder,
      NextIsChild, ChildIsNext, RetriesAgree
<1>6. ASSUME NEW t \in known, Renew(t)
      PROVE  FamilyInv'
  BY <1>0, <1>6, RenewInv
<1>7. ASSUME NEW t \in known, Replay(t)
      PROVE  FamilyInv'
  <2>1. CASE Lose
    BY <1>1, <1>7, <2>1 DEF Replay, Revokes, Lose
  <2>2. CASE refresh' = Without(Family(t)) /\ UNCHANGED <<code, known>>
    <3>1. Untouched /\ (code' => code)
      BY <1>7, <2>2 DEF Replay, Revokes, Untouched
    <3>2. \A u \in Token : refresh'[u] = Absent \/ refresh'[u] = refresh[u]
      BY <2>2 DEF Without
    <3>3. \A u \in Token : \/ refresh'[u].left = 0 /\ refresh'[u].next = None
                           \/ /\ refresh'[u].left > 0 => refresh[u].left > 0
                              /\ refresh'[u].next = refresh[u].next
      BY <3>2 DEF Absent
    <3>4. QED
      BY <1>0, <3>1, <3>3, Dropping
  <2>3. QED
    BY <1>7, <2>1, <2>2 DEF Replay, Revokes, Write
<1>8. ASSUME NEW t \in known, RevokeToken(t)
      PROVE  FamilyInv'
  <2>1. Untouched /\ (code' => code)
    BY <1>8 DEF RevokeToken, Untouched
  <2>2. \A u \in Token : refresh'[u] = Absent \/ refresh'[u] = refresh[u]
    BY <1>8, <1>a DEF RevokeToken, Write
  <2>3. \A u \in Token : \/ refresh'[u].left = 0 /\ refresh'[u].next = None
                         \/ /\ refresh'[u].left > 0 => refresh[u].left > 0
                            /\ refresh'[u].next = refresh[u].next
    BY <2>2 DEF Absent
  <2>4. QED
    BY <1>0, <2>1, <2>3, Dropping
<1>9. ASSUME NEW s \in Provider, NEW t \in known, Rotate(s, t)
      PROVE  FamilyInv'
  BY <1>0, <1>9, RotateInv
<1>10. ASSUME NEW s \in Provider, NEW t \in known, Coalesce(s, t)
       PROVE  FamilyInv'
  BY <1>0, <1>10, CoalesceInv
<1>11. ASSUME NEW s \in Provider, NEW t \in known, RejectRetry(s, t)
       PROVE  FamilyInv'
  BY <1>1, <1>11 DEF RejectRetry, refreshVars, refreshGhosts
<1>12. ASSUME NEW s \in Provider, RestartServer(s)
       PROVE  FamilyInv'
  BY <1>1, <1>12 DEF RestartServer, refreshGhosts
<1>13. QED
  BY <1>2, <1>3, <1>4, <1>5, <1>6, <1>7, <1>8, <1>9, <1>10, <1>11, <1>12 DEF RefreshNext

THEOREM Invariance == RefreshSpec => []FamilyInv
BY InitInv, StepInv, PTL DEF RefreshSpec

\* The refresh family has at most one token that has not been superseded, whatever is
\* retried, replayed, lost, revoked or restarted.
THEOREM FamilyNeverBranches == RefreshSpec => []NeverBranches
<1>1. FamilyInv => NeverBranches
  <2> SUFFICES ASSUME FamilyInv PROVE NeverBranches
    OBVIOUS
  <2> DEFINE S == {t \in Token : Stored(t) /\ ~Superseded(t)}
  <2>1. CASE S = {}
    BY <2>1, FS_EmptySet DEF NeverBranches
  <2>2. ASSUME NEW t \in S
        PROVE  NeverBranches
    <3>1. S = {t}
      BY <2>2 DEF FamilyInv, OneLive, Live
    <3>2. Cardinality(S) = 1
      BY <3>1, FS_Singleton
    <3>3. QED
      BY <3>2 DEF NeverBranches
  <2>3. QED
    BY <2>1, <2>2
<1>2. QED
  BY <1>1, Invariance, PTL

\* All retries of a token, at any server, were told of the same successor.
THEOREM RetriesTellOne == RefreshSpec => []RetriesAgree
<1>1. FamilyInv => RetriesAgree
  BY DEF FamilyInv
<1>2. QED
  BY <1>1, Invariance, PTL

\* The family stays one line, and all retries are on it.
THEOREM FamilyStaysOneLine == RefreshSpec => []FamilyIsOneLine
BY FamilyNeverBranches, RetriesTellOne, PTL DEF FamilyIsOneLine

-----------------------------------------------------------------------------
(* Lines: where a map from tokens to tokens leads.                          *)

Map == [Token -> Token \cup {None}]

LEMMA LineHas ==
  ASSUME NEW f \in Map, NEW t \in Token
  PROVE  t \in Line(t, f) /\ \A u \in Line(t, f) : u \in Token
BY DEF Line

LEMMA LineGoesOn ==
  ASSUME NEW f \in Map, NEW t \in Token, NEW u \in Line(t, f), f[u] # None
  PROVE  f[u] \in Line(t, f)
<1>1. u \in Token /\ f[u] \in Token
  BY DEF Line, Map
<1>2. ASSUME NEW C \in SUBSET Token, t \in C, \A v \in C : f[v] \in C \cup {None}
      PROVE  f[u] \in C
  <2>1. u \in C
    BY <1>2 DEF Line
  <2>2. QED
    BY <1>2, <2>1
<1>3. QED
  BY <1>1, <1>2 DEF Line

\* Induction along a line.
LEMMA LineIsLeast ==
  ASSUME NEW f \in Map, NEW t \in Token, NEW C \in SUBSET Token,
         t \in C, \A v \in C : f[v] \in C \cup {None}
  PROVE  Line(t, f) \subseteq C
BY DEF Line

LEMMA LineOfLine ==
  ASSUME NEW f \in Map, NEW t \in Token, NEW u \in Line(t, f)
  PROVE  Line(u, f) \subseteq Line(t, f)
<1>1. u \in Token /\ Line(t, f) \in SUBSET Token
  BY DEF Line
<1>2. \A v \in Line(t, f) : f[v] \in Line(t, f) \cup {None}
  BY LineGoesOn
<1>3. QED
  BY <1>1, <1>2, LineIsLeast

\* A line is its start and the line of the next.
LEMMA LineUnfolds ==
  ASSUME NEW f \in Map, NEW t \in Token, NEW u \in Line(t, f), u # t
  PROVE  f[t] \in Token /\ u \in Line(f[t], f)
<1>1. CASE f[t] = None
  <2>1. Line(t, f) \subseteq {t}
    <3>1. {t} \in SUBSET Token /\ \A v \in {t} : f[v] \in {t} \cup {None}
      BY <1>1
    <3>2. QED
      BY <3>1, LineIsLeast
  <2>2. QED
    BY <2>1
<1>2. CASE f[t] # None
  <2>1. f[t] \in Token
    BY <1>2 DEF Map
  <2> DEFINE C == {t} \cup Line(f[t], f)
  <2>2. C \in SUBSET Token /\ t \in C
    BY DEF Line
  <2>3. \A v \in C : f[v] \in C \cup {None}
    BY <2>1, LineHas, LineGoesOn
  <2>4. Line(t, f) \subseteq C
    BY <2>2, <2>3, LineIsLeast
  <2>5. QED
    BY <2>1, <2>4
<1>3. QED
  BY <1>1, <1>2

\* A map that leads back each step of another leads back along its lines.
LEMMA LineBack ==
  ASSUME NEW f \in Map, NEW g \in Map, NEW t \in Token, NEW u \in Line(t, f),
         \A v \in Token : f[v] # None => g[f[v]] = v
  PROVE  t \in Line(u, g)
<1> DEFINE C == {v \in Token : t \in Line(v, g)}
<1>1. t \in C
  BY LineHas
<1>2. ASSUME NEW v \in C, f[v] # None
      PROVE  f[v] \in C
  <2>1. v \in Token /\ f[v] \in Token /\ g[f[v]] = v
    BY <1>2 DEF Map
  <2>2. v \in Line(f[v], g)
    <3>1. f[v] \in Line(f[v], g)
      BY <2>1, LineHas
    <3>2. g[f[v]] # None
      BY <2>1 DEF Token, None
    <3>3. QED
      BY <2>1, <3>1, <3>2, LineGoesOn
  <2>3. QED
    BY <2>1, <2>2, LineOfLine
<1>3. C \in SUBSET Token /\ \A v \in C : f[v] \in C \cup {None}
  BY <1>2
<1>4. Line(t, f) \subseteq C
  BY <1>1, <1>3, LineIsLeast
<1>5. QED
  BY <1>4

\* Two tokens on a line are one on the line of the other.
LEMMA LineIsLinear ==
  ASSUME NEW f \in Map, NEW t \in Token, NEW u \in Line(t, f), NEW v \in Line(t, f)
  PROVE  v \in Line(u, f) \/ u \in Line(v, f)
<1> DEFINE C == {w \in Token : v \in Line(w, f) \/ w \in Line(v, f)}
<1>0. v \in Token
  BY LineHas
<1>1. t \in C
  OBVIOUS
<1>2. ASSUME NEW w \in C, f[w] # None
      PROVE  f[w] \in C
  <2>1. w \in Token /\ f[w] \in Token
    BY <1>2 DEF Map
  <2>2. CASE w \in Line(v, f)
    BY <1>0, <1>2, <2>1, <2>2, LineGoesOn
  <2>3. CASE v \in Line(w, f) /\ v # w
    BY <2>1, <2>3, LineUnfolds
  <2>4. CASE v = w
    BY <1>0, <2>2, <2>4, LineHas
  <2>5. QED
    BY <2>2, <2>3, <2>4
<1>3. C \in SUBSET Token /\ \A w \in C : f[w] \in C \cup {None}
  BY <1>2
<1>4. Line(t, f) \subseteq C
  BY <1>1, <1>3, LineIsLeast
<1>5. QED
  BY <1>4

\* Steps that are added leave what a line has.
LEMMA LineGrows ==
  ASSUME NEW f \in Map, NEW g \in Map, NEW t \in Token, \A v \in Token : f[v] # None => g[v] = f[v]
  PROVE  Line(t, f) \subseteq Line(t, g)
<1>1. Line(t, g) \in SUBSET Token /\ t \in Line(t, g)
  BY LineHas
<1>2. \A v \in Line(t, g) : f[v] \in Line(t, g) \cup {None}
  BY LineGoesOn DEF Line
<1>3. QED
  BY <1>1, <1>2, LineIsLeast

\* What a line loses with the steps of T came after one of T.
LEMMA LineShrinks ==
  ASSUME NEW f \in Map, NEW g \in Map, NEW T, NEW t \in Token, NEW u \in Line(t, f),
         \A v \in Token : v \in T \/ g[v] = f[v]
  PROVE  u \in Line(t, g) \/ \E w \in T : w \in Line(t, f) /\ u \in Line(w, f)
<1> DEFINE C == {v \in Line(t, f) : v \in Line(t, g) \/ \E w \in T : w \in Line(t, f) /\ v \in Line(w, f)}
<1>1. t \in C
  BY LineHas
<1>2. ASSUME NEW v \in C, f[v] # None
      PROVE  f[v] \in C
  <2>1. v \in Token /\ f[v] \in Token /\ v \in Line(t, f) /\ f[v] \in Line(t, f)
    <3>1. v \in Line(t, f)
      OBVIOUS
    <3>2. QED
      BY <1>2, <3>1, LineHas, LineGoesOn
  <2>2. ASSUME NEW w \in T, w \in Line(t, f), v \in Line(w, f)
        PROVE  f[v] \in C
    <3>1. w \in Token
      BY <2>2, LineHas
    <3>2. f[v] \in Line(w, f)
      BY <1>2, <2>2, <3>1, LineGoesOn
    <3>3. QED
      BY <2>1, <2>2, <3>2
  <2>3. CASE v \in T
    BY <2>1, <2>2, <2>3, LineHas
  <2>4. CASE v \notin T /\ v \in Line(t, g)
    <3>1. g[v] = f[v]
      BY <2>1, <2>4
    <3>2. f[v] \in Line(t, g)
      BY <1>2, <2>4, <3>1, LineGoesOn
    <3>3. QED
      BY <2>1, <3>2
  <2>5. QED
    BY <2>2, <2>3, <2>4
<1>3. C \in SUBSET Token /\ \A v \in C : f[v] \in C \cup {None}
  BY <1>2 DEF Line
<1> HIDE DEF C
<1>4. Line(t, f) \subseteq C
  BY <1>1, <1>3, LineIsLeast
<1>5. QED
  BY <1>4 DEF C

-----------------------------------------------------------------------------
(* Families and descent.                                                    *)

LEMMA ParentMaps ==
  ASSUME RefreshTypes
  PROVE  parent \in Map /\ Successor \in Map
BY DEF RefreshTypes, Map, Successor, Record

LEMMA FromEarlier ==
  ASSUME RefreshTypes, Parents, NEW u \in Token, NEW t \in Token, From(u, t)
  PROVE  t <= u
<1> DEFINE C == {v \in Token : v <= u}
<1>1. C \in SUBSET Token /\ u \in C
  BY DEF Token
<1>2. \A v \in C : parent[v] \in C \cup {None}
  BY ParentMaps DEF Map, Parents, Token
<1>3. Line(u, parent) \subseteq C
  BY <1>1, <1>2, ParentMaps, LineIsLeast
<1>4. QED
  BY <1>3 DEF From

LEMMA FromTransitive ==
  ASSUME RefreshTypes, NEW u \in Token, NEW v \in Token, NEW t \in Token, From(u, v), From(v, t)
  PROVE  From(u, t)
BY ParentMaps, LineOfLine DEF From

\* What the successors on file lead to came from the token.
LEMMA FamilyIsFrom ==
  ASSUME RefreshTypes, NextIsChild, NEW t \in Token, NEW u \in Family(t)
  PROVE  u \in Token /\ From(u, t)
<1>1. \A v \in Token : Successor[v] # None => parent[Successor[v]] = v
  BY DEF Successor, NextIsChild, Superseded
<1>2. QED
  BY <1>1, ParentMaps, LineHas, LineBack DEF Family, From

\* A new token is a leaf: descent between the others stays.
LEMMA NewLeaf ==
  ASSUME RefreshTypes, RefreshTypes', Parents, NEW f \in Token \cup {None}, f <= made, Mint(f)
  PROVE  /\ Parents'
         /\ \A u \in Token : u # made' => Line(u, parent') = Line(u, parent) /\ made' \notin Line(u, parent')
         /\ \A t \in Token : t \in Line(made', parent') <=> t = made' \/ (f # None /\ t \in Line(f, parent))
<1> DEFINE n == made'
<1>1. n \in Token /\ n = made + 1 /\ made \in Nat /\ parent'[n] = f /\ \A t \in Token : t # n => parent'[t] = parent[t]
  BY Minting DEF RefreshTypes
<1>2. parent \in Map /\ parent' \in Map
  BY DEF RefreshTypes, Map
<1>3. parent[n] = None /\ \A t \in Token : parent[t] # n
  <2>1. \A t \in Token : parent[t] \in Token \cup {None}
    BY <1>2 DEF Map
  <2>2. \A t \in Token : t <= made => parent[t] # n
    BY <1>1, <2>1 DEF Parents, Token
  <2>3. \A t \in Token : ~(t <= made) => parent[t] = None
    BY DEF Parents
  <2>4. ~(n <= made)
    BY <1>1
  <2>5. QED
    BY <1>1, <2>2, <2>3, <2>4 DEF Token, None
<1>4. Parents'
  <2> SUFFICES ASSUME NEW t \in Token
               PROVE  parent'[t] < t /\ (parent'[t] # None => t <= n)
    BY DEF Parents
  <2>1. CASE t = n
    BY <1>1, <2>1 DEF Token, None
  <2>2. CASE t # n
    BY <1>1, <2>2 DEF Parents, Token
  <2>3. QED
    BY <2>1, <2>2
<1>5. \A v \in Token : parent[v] # None => parent'[v] = parent[v]
  BY <1>1, <1>3
<1>6. ASSUME NEW u \in Token, u # n
      PROVE  Line(u, parent') = Line(u, parent) /\ n \notin Line(u, parent')
  <2> DEFINE C == Line(u, parent) \ {n}
  <2>1. C \in SUBSET Token /\ u \in C
    BY <1>2, <1>6, LineHas DEF Line
  <2>2. ASSUME NEW v \in C, parent'[v] # None
        PROVE  parent'[v] \in C
    <3>1. v \in Token /\ v \in Line(u, parent) /\ v # n
      BY <2>1
    <3>2. parent'[v] = parent[v] /\ parent[v] # n
      BY <1>1, <1>3, <3>1
    <3>3. parent[v] \in Line(u, parent)
      BY <1>2, <2>2, <3>1, <3>2, LineGoesOn
    <3>4. QED
      BY <3>2, <3>3
  <2>3. Line(u, parent') \subseteq C
    <3>1. \A v \in C : parent'[v] \in C \cup {None}
      BY <2>2
    <3> HIDE DEF C
    <3>2. QED
      BY <1>2, <1>6, <2>1, <3>1, LineIsLeast
  <2>4. Line(u, parent) \subseteq Line(u, parent')
    BY <1>2, <1>5, LineGrows
  <2>5. QED
    BY <2>3, <2>4
<1>8. ASSUME NEW t \in Token
      PROVE  t \in Line(n, parent') <=> t = n \/ (f # None /\ t \in Line(f, parent))
  <2>1. ASSUME t \in Line(n, parent'), t # n
        PROVE  f # None /\ t \in Line(f, parent)
    <3>1. f \in Token /\ t \in Line(f, parent')
      BY <1>1, <1>2, <2>1, LineUnfolds
    <3>2. f # n
      BY <1>1
    <3>3. QED
      BY <1>6, <3>1, <3>2 DEF Token, None
  <2>2. ASSUME f # None, t \in Line(f, parent)
        PROVE  t \in Line(n, parent')
    <3>1. f \in Token /\ f # n /\ n \in Line(n, parent')
      BY <1>1, <1>2, <2>2, LineHas
    <3>2. f \in Line(n, parent')
      BY <1>1, <1>2, <2>2, <3>1, LineGoesOn
    <3>3. t \in Line(f, parent')
      BY <1>6, <2>2, <3>1
    <3>4. QED
      BY <1>1, <1>2, <3>2, <3>3, LineOfLine
  <2>3. n \in Line(n, parent')
    BY <1>1, <1>2, LineHas
  <2>4. QED
    BY <2>1, <2>2, <2>3
<1>9. QED
  BY <1>4, <1>6, <1>8

\* Tokens are removed: families lose what came after them.
LEMMA Removing ==
  ASSUME RefreshTypes, RefreshTypes', LInv, UNCHANGED <<parent, made>>, revoked \subseteq revoked', NEW T \in SUBSET Token,
         \A t \in Token : IF t \in T THEN refresh'[t] = Absent
                          ELSE refresh'[t].next = refresh[t].next /\ (Stored(t)' <=> Stored(t)),
         \A t, u \in Token, w \in T :
           Stored(t)' /\ Stored(u)' /\ w \in Family(t) /\ u \in Family(w) => Cut(u, t)'
  PROVE  /\ Parents' /\ Latest' /\ Marked' /\ OnLine'
         /\ \A t \in replayed, u \in Token : Stored(u)' /\ From(u, t)' => Cut(u, t)'
<1> USE DEF LInv
<1>1. \A t \in Token : /\ Stored(t)' => t \notin T /\ Stored(t)
                       /\ Superseded(t)' => t \notin T /\ Superseded(t)
                       /\ t \notin T => (Superseded(t)' <=> Superseded(t)) /\ (Stored(t)' <=> Stored(t))
  BY DEF Stored, Superseded, Absent
<1>2. parent \in Map /\ Successor \in Map /\ Successor' \in Map
  BY ParentMaps DEF RefreshTypes, Map, Successor, Record
<1>3. \A v \in Token : v \in T \/ Successor'[v] = Successor[v]
  BY DEF Successor
<1>4. \A u, t \in Token : (From(u, t)' <=> From(u, t)) /\ (Cut(u, t) => Cut(u, t)')
  BY DEF From, Cut
<1>5. OnLine'
  <2> SUFFICES ASSUME NEW t \in Token, NEW u \in Token, Stored(t)', Stored(u)', From(u, t)', u \notin Line(t, Successor')
               PROVE  Cut(u, t)'
    BY DEF OnLine, Family
  <2>1. u \in Family(t) \/ Cut(u, t)
    BY <1>1, <1>4 DEF OnLine
  <2>2. CASE u \in Family(t)
    <3>1. PICK w \in T : w \in Line(t, Successor) /\ u \in Line(w, Successor)
      BY <1>2, <1>3, <2>2, LineShrinks DEF Family
    <3>2. QED
      BY <3>1 DEF Family
  <2>3. QED
    BY <1>4, <2>1, <2>2
<1>6. Parents'
  BY DEF Parents
<1>7. Latest'
  BY <1>1 DEF Latest, Live
<1>8. Marked'
  BY <1>1 DEF Marked
<1>9. \A t \in replayed, u \in Token : Stored(u)' /\ From(u, t)' => Cut(u, t)'
  BY <1>1, <1>4 DEF Ended, RefreshTypes
<1>10. QED
  BY <1>5, <1>6, <1>7, <1>8, <1>9

\* A token is made, and stored as the successor of its parent or not at all.
LEMMA Making ==
  ASSUME FamilyInv, RefreshTypes', LInv, NEW f \in Token \cup {None}, f <= made, Mint(f),
         UNCHANGED <<replayed, revoked, expired>>,
         known \subseteq known', known' \subseteq known \cup {made'}, made' \in known' => refresh'[made'].left > 0,
         \A u \in Token : u # made' => (Stored(u)' <=> Stored(u)),
         \A u \in Token : refresh[u].next # None => refresh'[u].next = refresh[u].next,
         refresh'[made'].left > 0 /\ f # None => Stored(f) /\ refresh'[f].next = made',
         Latest', Marked', Ages'
  PROVE  LInv'
<1> USE DEF FamilyInv, LInv
<1> DEFINE n == made'
<1>1. n \in Token /\ n = made + 1 /\ made \in Nat
  BY Minting DEF RefreshTypes
<1>2. /\ Parents'
      /\ \A u \in Token : u # n => Line(u, parent') = Line(u, parent) /\ n \notin Line(u, parent)
      /\ \A t \in Token : t \in Line(n, parent') <=> t = n \/ (f # None /\ t \in Line(f, parent))
  BY NewLeaf
<1>3. parent \in Map /\ parent' \in Map /\ Successor \in Map /\ Successor' \in Map
  BY ParentMaps DEF RefreshTypes, Map, Successor, Record
<1>4. known \subseteq Token /\ n \notin known /\ replayed \subseteq known /\ revoked \subseteq known
  BY <1>1 DEF RefreshTypes, InOrder, Dead
<1>5. f # n
  BY <1>1
<1>6. ASSUME NEW u \in Token, NEW t \in Token, u # n, Cut(u, t)
      PROVE  /\ Cut(u, t)'
             /\ u = f => \E w \in revoked' : w \in Line(n, parent') /\ t \in Line(w, parent')
  <2>1. PICK w \in revoked : w \in Line(u, parent) /\ t \in Line(w, parent)
    BY <1>6 DEF Cut, From
  <2>2. w \in Token /\ w # n /\ w \in revoked'
    BY <1>4
  <2>3. w \in Line(u, parent') /\ t \in Line(w, parent')
    BY <1>2, <1>6, <2>1, <2>2
  <2>4. u = f => w \in Line(n, parent')
    BY <1>2, <1>6, <2>1, <2>2 DEF Token, None
  <2>5. QED
    BY <2>2, <2>3, <2>4 DEF Cut, From
<1>7. Dead'
  BY <1>4 DEF Dead
<1>8. OnLine'
  <2> SUFFICES ASSUME NEW t \in Token, NEW u \in Token, Stored(t)', Stored(u)', t \in Line(u, parent')
               PROVE  u \in Line(t, Successor') \/ Cut(u, t)'
    BY DEF OnLine, From, Family
  <2>1. \A v \in Token : Successor[v] # None => Successor'[v] = Successor[v]
    BY DEF Successor
  <2>2. Line(t, Successor) \subseteq Line(t, Successor')
    BY <1>3, <2>1, LineGrows
  <2>3. CASE u # n
    <3>1. t # n /\ From(u, t) /\ Stored(t) /\ Stored(u)
      BY <1>2, <2>3 DEF From
    <3>2. u \in Family(t) \/ Cut(u, t)
      BY <3>1 DEF OnLine
    <3>3. QED
      BY <1>6, <2>2, <2>3, <3>2 DEF Family
  <2>4. CASE u = n /\ t = n
    BY <1>1, <1>3, <2>4, LineHas
  <2>5. CASE u = n /\ t # n
    <3>1. f \in Token /\ From(f, t) /\ Stored(f) /\ Stored(t) /\ Successor'[f] = n
      BY <1>2, <2>5 DEF From, Successor, Stored
    <3>2. CASE f \in Family(t)
      <4>1. f \in Line(t, Successor') /\ n # None
        BY <1>1, <2>2, <3>2 DEF Family, Token, None
      <4>2. QED
        BY <1>3, <2>5, <3>1, <4>1, LineGoesOn
    <3>3. CASE Cut(f, t)
      BY <1>5, <1>6, <2>5, <3>1, <3>3 DEF Cut, From
    <3>4. QED
      BY <3>1, <3>2, <3>3 DEF OnLine
  <2>6. QED
    BY <2>3, <2>4, <2>5
<1>9. Ended'
  <2> SUFFICES ASSUME NEW t \in replayed, NEW u \in Token, Stored(u)', t \in Line(u, parent')
               PROVE  Cut(u, t)'
    BY DEF Ended, From
  <2>1. t \in Token /\ t # n
    BY <1>4
  <2>2. CASE u # n
    <3>1. Stored(u) /\ From(u, t)
      BY <1>2, <2>2 DEF From
    <3>2. Cut(u, t)
      BY <3>1 DEF Ended
    <3>3. QED
      BY <1>6, <2>1, <2>2, <3>2
  <2>3. CASE u = n
    <3>1. f \in Token /\ From(f, t) /\ Stored(f)
      BY <1>2, <2>1, <2>3 DEF From, Stored
    <3>2. Cut(f, t)
      BY <3>1 DEF Ended
    <3>3. QED
      BY <1>5, <1>6, <2>1, <2>3, <3>1, <3>2 DEF Cut, From
  <2>4. QED
    BY <2>2, <2>3 DEF Cut, From
<1>10. Kept'
  <2> SUFFICES ASSUME NEW t \in known', ~Stored(t)', t \notin (expired \cup revoked)'
               PROVE  \E u \in replayed' : From(t, u)'
    BY DEF Kept
  <2>1. t \in known /\ t \in Token /\ t # n
    BY <1>4 DEF Stored
  <2>2. PICK u \in replayed : u \in Line(t, parent)
    BY <2>1 DEF Kept, From
  <2>3. u \in Line(t, parent') /\ u \in replayed'
    BY <1>2, <2>1, <2>2
  <2>4. QED
    BY <2>3 DEF From
<1>11. QED
  BY <1>2, <1>7, <1>8, <1>9, <1>10

LEMMA InitLines == RefreshInit => LInv
<1> SUFFICES ASSUME RefreshInit PROVE LInv
  OBVIOUS
<1>1. \A t \in Token : ~Stored(t) /\ ~Superseded(t)
  BY DEF RefreshInit, Stored, Superseded, Absent
<1>2. Parents
  BY GraceAssumption DEF RefreshInit, Parents, Token, None
<1>3. QED
  BY <1>1, <1>2 DEF RefreshInit, LInv, Latest, Live, Marked, Ages, Dead, OnLine, Ended, Kept

LEMMA ExchangeLines ==
  ASSUME FamilyInv, FamilyInv', LInv, ExchangeCode
  PROVE  LInv'
<1> USE DEF FamilyInv, LInv
<1>1. /\ Mint(None) /\ None \in Token \cup {None} /\ None <= made
      /\ code /\ known = {} /\ \A t \in Token : ~Stored(t) /\ ~Superseded(t)
  BY DEF ExchangeCode, CodeFirst, Marked, RefreshTypes, None
<1>2. made' \in Token /\ refresh \in [Token -> Record]
  BY <1>1, Minting DEF RefreshTypes
<1>3. UNCHANGED <<replayed, revoked, expired>>
  BY DEF ExchangeCode, Lose
<1>4. CASE Lose
  <2>1. Latest' /\ Marked' /\ Ages'
    BY <1>1, <1>4 DEF Lose, Latest, Marked, Ages, Live, Stored, Superseded
  <2>2. made' \in known' => refresh'[made'].left > 0
    BY <1>1, <1>4 DEF Lose
  <2>3. refresh' = refresh /\ known' = known /\ ~(refresh'[made'].left > 0)
    BY <1>1, <1>2, <1>4 DEF Lose, Stored
  <2>4. QED
    BY <1>1, <1>3, <2>1, <2>2, <2>3, Making DEF Stored
<1>5. CASE Write([refresh EXCEPT ![made'] = Fresh]) /\ Answer(made')
  <2>1. \A u \in Token : /\ u # made' => refresh'[u] = refresh[u]
                         /\ u = made' => refresh'[u].left > 0 /\ refresh'[u].next = None
    BY <1>2, <1>5, GraceAssumption DEF Write, Fresh
  <2>2. Latest' /\ Marked' /\ Ages'
    BY <1>1, <2>1, <1>2 DEF Latest, Marked, Ages, Live, Stored, Superseded, Token
  <2>3. /\ known \subseteq known' /\ known' \subseteq known \cup {made'}
        /\ made' \in known' => refresh'[made'].left > 0
        /\ \A u \in Token : u # made' => (Stored(u)' <=> Stored(u))
        /\ \A u \in Token : refresh[u].next # None => refresh'[u].next = refresh[u].next
    BY <1>1, <1>2, <1>5, <2>1 DEF Answer, Stored, Superseded
  <2>4. QED
    BY <1>1, <1>3, <2>2, <2>3, Making
<1>6. QED
  BY <1>4, <1>5 DEF ExchangeCode

LEMMA RotateLines ==
  ASSUME FamilyInv, FamilyInv', LInv, NEW s \in Provider, NEW t \in known, Rotate(s, t)
  PROVE  LInv'
<1> USE DEF FamilyInv, LInv
<1>1. /\ Mint(t) /\ t \in Token /\ t <= made /\ Stored(t) /\ ~Superseded(t)
      /\ UNCHANGED <<replayed, revoked, expired>>
  BY DEF Rotate, Succeed, Lose, InOrder, RefreshTypes
<1>2. made' \in Token /\ made' = made + 1 /\ made \in Nat /\ refresh \in [Token -> Record]
  BY <1>1, Minting DEF RefreshTypes
<1>3. ~Stored(made') /\ ~Superseded(made') /\ t # made'
  BY <1>1, <1>2 DEF InOrder, Marked
<1>4. CASE Lose
  <2>1. refresh' = refresh /\ known' = known
    BY <1>4 DEF Lose
  <2>2. Latest' /\ Marked' /\ Ages'
    BY <2>1 DEF Latest, Marked, Ages, Live, Stored, Superseded
  <2>3. made' \notin known' /\ ~(refresh'[made'].left > 0)
    BY <1>2, <1>3, <2>1 DEF InOrder, Stored
  <2>4. QED
    BY <1>1, <2>1, <2>2, <2>3, Making DEF Stored
<1>5. CASE /\ Write([refresh EXCEPT ![t] = [left |-> Life, next |-> made', since |-> 0], ![made'] = Fresh])
           /\ Answer(made')
  <2>1. \A u \in Token :
          /\ u # made' /\ u # t => refresh'[u] = refresh[u]
          /\ u = made' => refresh'[u].left = Life /\ refresh'[u].next = None
          /\ u = t => refresh'[u].left = Life /\ refresh'[u].next = made'
    BY <1>2, <1>3, <1>5 DEF Write, Fresh
  <2>2. /\ Life > 0 /\ made' # None
        /\ \A u \in Token : refresh[u].left <= Life /\ refresh[u].left \in Nat /\ refresh'[u].left \in Nat
    <3>1. \A u \in Token : refresh[u] \in Record /\ refresh'[u] \in Record
      BY DEF RefreshTypes
    <3>2. QED
      BY <1>2, <3>1, GraceAssumption DEF Record, Token, None
  <2>3. \A u \in Token : /\ u # made' => (Stored(u)' <=> Stored(u))
                         /\ Live(u)' => u = made'
                         /\ Stored(u)' => u <= made'
    <3> TAKE u \in Token
    <3>1. u # made' => (Stored(u)' <=> Stored(u))
      BY <1>1, <2>1, <2>2 DEF Stored
    <3>2. Live(u)' => u = made'
      BY <1>1, <2>1, <2>2 DEF Live, Stored, Superseded, OneLive
    <3>3. Stored(u)' => u <= made'
      BY DEF InOrder
    <3>4. QED
      BY <3>1, <3>2, <3>3
  <2>4. Latest'
    BY <2>3 DEF Latest
  <2>5. Marked'
    <3> SUFFICES ASSUME NEW u \in Token, refresh'[u].next # None
                 PROVE  refresh'[u].left > 0
      BY DEF Marked, Stored, Superseded
    <3>1. QED
      BY <2>1, <2>2 DEF Marked, Stored, Superseded
  <2>6. Ages'
    <3> SUFFICES ASSUME NEW v \in Token, NEW u \in Token, Stored(v)', Stored(u)', v < u
                 PROVE  refresh'[v].left <= refresh'[u].left
      BY DEF Ages
    <3>1. v # made'
      BY <1>2, <2>3 DEF Token
    <3>2. CASE u = made' \/ u = t
      BY <2>1, <2>2, <3>1, <3>2
    <3>3. CASE u # made' /\ u # t
      <4>1. Stored(u) /\ u <= t
        BY <1>1, <2>3, <3>3 DEF Latest, Live
      <4>2. v # t /\ Stored(v)
        BY <1>1, <2>3, <3>1, <4>1 DEF Token
      <4>3. QED
        BY <2>1, <3>1, <3>3, <4>1, <4>2 DEF Ages
    <3>4. QED
      BY <3>2, <3>3
  <2>7. /\ known \subseteq known' /\ known' \subseteq known \cup {made'}
        /\ made' \in known' => refresh'[made'].left > 0
    BY <1>2, <1>5, <2>1, <2>2 DEF Answer
  <2>8. /\ \A u \in Token : refresh[u].next # None => refresh'[u].next = refresh[u].next
        /\ refresh'[t].next = made'
    BY <1>1, <1>3, <2>1 DEF Superseded
  <2>9. QED
    BY <1>1, <2>3, <2>4, <2>5, <2>6, <2>7, <2>8, Making
<1>6. QED
  BY <1>4, <1>5 DEF Rotate, Succeed

\* The store stays, and the client is told of nothing that is not stored.
LEMMA TellingLines ==
  ASSUME LInv, known \subseteq known', \A t \in known' : t \in known \/ Stored(t),
         UNCHANGED <<refresh, made, parent, replayed, revoked, expired>>
  PROVE  LInv'
<1> USE DEF LInv
<1>1. \A u, t \in Token : (From(u, t)' <=> From(u, t)) /\ (Cut(u, t)' <=> Cut(u, t))
  BY DEF From, Cut
<1>2. \A t \in Token : Family(t)' = Family(t)
  BY DEF Family, Successor
<1>3. Parents' /\ Latest' /\ Marked' /\ Ages' /\ Dead'
  BY DEF Parents, Latest, Marked, Ages, Dead, Live, Stored, Superseded
<1>4. OnLine' /\ Ended'
  BY DEF OnLine, Ended, From, Cut, Family, Successor, Stored
<1>5. Kept'
  BY DEF Kept, From, Stored
<1>6. QED
  BY <1>3, <1>4, <1>5

LEMMA RenewLines ==
  ASSUME FamilyInv, FamilyInv', LInv, NEW t \in known, Renew(t)
  PROVE  LInv'
<1> USE DEF FamilyInv, LInv
<1>1. /\ t \in Token /\ refresh \in [Token -> Record] /\ Stored(t) /\ ~public
      /\ refresh' = [refresh EXCEPT ![t] = Fresh] /\ Fresh.next = None /\ Fresh.left = Life
      /\ UNCHANGED <<made, parent, known, replayed, revoked, expired>>
  BY DEF RefreshTypes, Renew, Write, Fresh, refreshGhosts
<1>2. \A u \in Token : refresh[u] \in Record /\ ~Superseded(u) /\ ~Superseded(u)' /\ refresh'[u].next = refresh[u].next
  BY <1>1 DEF Superseded, ConfidentialKeeps
<1>3. \A u \in Token : (Stored(u)' <=> Stored(u)) /\ (Stored(u) => u = t)
  BY <1>1, <1>2, GraceAssumption DEF Stored, OneLive, Live
<1>4. Parents' /\ Latest' /\ Marked' /\ Dead'
  BY <1>1, <1>2, <1>3 DEF Parents, Latest, Marked, Dead, Live, RefreshTypes
<1>5. Ages'
  BY <1>3 DEF Ages, Token
<1>6. OnLine'
  <2> SUFFICES ASSUME NEW v \in Token, NEW u \in Token, Stored(v)', Stored(u)'
               PROVE  u \in Line(v, Successor')
    BY DEF OnLine, Family
  <2>1. u = v /\ Successor' \in Map
    BY <1>3 DEF Successor, Map, RefreshTypes, Record
  <2>2. QED
    BY <2>1, LineHas
<1>7. Ended' /\ Kept'
  <2>1. Ended'
    BY <1>1, <1>3 DEF Ended, From, Cut
  <2>2. Kept'
    BY <1>1, <1>3 DEF Kept, From, RefreshTypes
  <2>3. QED
    BY <2>1, <2>2
<1>8. QED
  BY <1>4, <1>5, <1>6, <1>7

\* Tokens expire from the front of the line.
LEMMA TickLines ==
  ASSUME FamilyInv, FamilyInv', LInv, Tick
  PROVE  LInv'
<1> USE DEF FamilyInv, LInv
<1> DEFINE T == {t \in Token : refresh[t].left <= 1}
<1>1. /\ UNCHANGED <<parent, made, known, replayed, revoked>>
      /\ expired' = expired \cup {t \in Token : refresh[t].left = 1}
  BY DEF Tick
<1>2. \A t \in Token :
        /\ refresh[t].left \in Nat
        /\ IF t \in T THEN refresh'[t] = Absent
           ELSE refresh'[t].left = refresh[t].left - 1 /\ refresh'[t].next = refresh[t].next
  <2> TAKE t \in Token
  <2>1. refresh[t] \in Record /\ refresh'[t] = Older(refresh[t])
    BY DEF RefreshTypes, Tick
  <2>2. refresh[t].left \in Nat
    BY <2>1 DEF Record
  <2>3. QED
    BY <2>1, <2>2 DEF Older, Record
<1>3. \A t \in Token : IF t \in T THEN refresh'[t] = Absent /\ ~Stored(t)'
                       ELSE refresh'[t].next = refresh[t].next /\ Stored(t)' /\ Stored(t)
  BY <1>2 DEF Stored, Absent
<1>4. ASSUME NEW t \in Token, NEW u \in Token, NEW w \in T, Stored(t)', Stored(u)', w \in Family(t), u \in Family(w)
      PROVE  FALSE
  <2>1. t \notin T /\ u \notin T /\ w \in Token /\ Stored(t) /\ Stored(u)
    BY <1>3, <1>4
  <2>2. CASE Stored(w)
    <3>1. t <= w
      BY <1>4, <2>1, FamilyIsFrom, FromEarlier
    <3>2. refresh[t].left <= refresh[w].left
      BY <1>2, <2>1, <2>2, <3>1 DEF Ages, Token
    <3>3. QED
      BY <1>2, <2>1, <3>2
  <2>3. CASE ~Stored(w)
    <3>1. Successor[w] = None
      BY <2>1, <2>3 DEF Marked, Superseded, Successor
    <3>2. u = w
      BY <1>4, <2>1, <3>1, ParentMaps, LineUnfolds DEF Family, Token, None
    <3>3. QED
      BY <2>1, <3>2
  <2>4. QED
    BY <2>2, <2>3
<1>5. /\ Parents' /\ Latest' /\ Marked' /\ OnLine'
      /\ \A t \in replayed, u \in Token : Stored(u)' /\ From(u, t)' => Cut(u, t)'
  <2>1. T \in SUBSET Token /\ revoked \subseteq revoked'
    BY <1>1
  <2> HIDE DEF T
  <2>2. QED
    BY <1>1, <1>3, <1>4, <2>1, Removing
<1>6. Ages'
  BY <1>2, <1>3 DEF Ages
<1>7. Dead'
  BY <1>1, <1>2, <1>3 DEF Dead, RefreshTypes
<1>8. Ended'
  BY <1>1, <1>5 DEF Ended
<1>9. Kept'
  <2>1. \A t \in Token : Stored(t) => Stored(t)' \/ t \in expired'
    BY <1>1, <1>2, <1>3 DEF Stored
  <2>2. \A t \in known : t \in Token
    BY DEF RefreshTypes
  <2>3. QED
    BY <1>1, <2>1, <2>2 DEF Kept, From
<1>10. QED
  BY <1>5, <1>6, <1>7, <1>8, <1>9

\* A family ends.
LEMMA ReplayLines ==
  ASSUME FamilyInv, FamilyInv', LInv, NEW t \in known, Replay(t), refresh' = Without(Family(t)),
         replayed' = replayed \cup {t}, UNCHANGED <<known, revoked>>
  PROVE  LInv'
<1> USE DEF FamilyInv, LInv
<1>1. t \in Token /\ Stored(t) /\ UNCHANGED <<made, parent, expired>>
  BY DEF Replay, Revokes, RefreshTypes
<1>2. Family(t) \in SUBSET Token /\ t \in Family(t)
  BY <1>1, ParentMaps, LineHas DEF Family
<1>3. \A u \in Token : IF u \in Family(t) THEN refresh'[u] = Absent /\ ~Stored(u)'
                       ELSE refresh'[u] = refresh[u] /\ (Stored(u)' <=> Stored(u))
  BY DEF Without, Stored, Absent
<1>4. /\ Parents' /\ Latest' /\ Marked' /\ OnLine'
      /\ \A v \in replayed, u \in Token : Stored(u)' /\ From(u, v)' => Cut(u, v)'
  <2>1. \A v, u \in Token, w \in Family(t) :
          Stored(v)' /\ Stored(u)' /\ w \in Family(v) /\ u \in Family(w) => Cut(u, v)'
    <3>1. \A w \in Family(t) : Family(w) \subseteq Family(t)
      BY <1>1, ParentMaps, LineOfLine DEF Family
    <3>2. QED
      BY <1>3, <3>1
  <2>2. QED
    BY <1>1, <1>2, <1>3, <2>1, Removing
<1>5. Ages'
  BY <1>3 DEF Ages
<1>6. Dead'
  BY <1>1, <1>2, <1>3 DEF Dead, RefreshTypes
<1>7. Ended'
  <2>1. ASSUME NEW u \in Token, Stored(u)', From(u, t)'
        PROVE  Cut(u, t)'
    <3>1. u \notin Family(t) /\ Stored(u) /\ From(u, t)
      BY <1>1, <1>3, <2>1 DEF From
    <3>2. Cut(u, t)
      BY <1>1, <3>1 DEF OnLine
    <3>3. QED
      BY <1>1, <3>2 DEF Cut, From
  <2>2. QED
    BY <1>4, <2>1 DEF Ended
<1>8. Kept'
  <2>1. \A u \in known : u \in Token /\ (Stored(u) => Stored(u)' \/ From(u, t))
    BY <1>1, <1>3, FamilyIsFrom DEF RefreshTypes
  <2>2. QED
    BY <1>1, <2>1 DEF Kept, From
<1>9. QED
  BY <1>4, <1>5, <1>6, <1>7, <1>8

\* A token is revoked on its own.
LEMMA RevokeLines ==
  ASSUME FamilyInv, FamilyInv', LInv, NEW t \in known, RevokeToken(t)
  PROVE  LInv'
<1> USE DEF FamilyInv, LInv
<1>1. t \in Token /\ revoked' = revoked \cup {t} /\ UNCHANGED <<made, parent, known, replayed, expired>>
  BY DEF RevokeToken, RefreshTypes
<1>2. \A u \in Token : IF u \in {t} THEN refresh'[u] = Absent /\ ~Stored(u)'
                       ELSE refresh'[u] = refresh[u] /\ (Stored(u)' <=> Stored(u))
  BY DEF RevokeToken, Write, Stored, Absent, RefreshTypes
<1>3. /\ Parents' /\ Latest' /\ Marked' /\ OnLine'
      /\ \A v \in replayed, u \in Token : Stored(u)' /\ From(u, v)' => Cut(u, v)'
  <2>1. ASSUME NEW v \in Token, NEW u \in Token, t \in Family(v), u \in Family(t)
        PROVE  Cut(u, v)'
    <3>1. From(u, t) /\ From(t, v)
      BY <1>1, <2>1, FamilyIsFrom
    <3>2. QED
      BY <1>1, <3>1 DEF Cut, From
  <2>2. {t} \in SUBSET Token /\ revoked \subseteq revoked'
    BY <1>1
  <2>3. QED
    BY <1>1, <1>2, <2>1, <2>2, Removing
<1>4. Ages'
  BY <1>2 DEF Ages
<1>5. Dead'
  BY <1>1, <1>2 DEF Dead, RefreshTypes
<1>6. Ended'
  BY <1>1, <1>3 DEF Ended
<1>7. Kept'
  <2>1. \A u \in known : u \in Token /\ (Stored(u) => Stored(u)' \/ u \in revoked')
    BY <1>1, <1>2 DEF RefreshTypes
  <2>2. QED
    BY <1>1, <2>1 DEF Kept, From
<1>8. QED
  BY <1>3, <1>4, <1>5, <1>6, <1>7

LEMMA StepLines == FamilyInv /\ FamilyInv' /\ LInv /\ [RefreshNext]_refreshVars => LInv'
<1> SUFFICES ASSUME FamilyInv, FamilyInv', LInv, [RefreshNext]_refreshVars PROVE LInv'
  OBVIOUS
<1>1. CASE UNCHANGED refreshVars
  BY <1>1, TellingLines DEF refreshVars, refreshGhosts
<1>2. CASE ExchangeCode
  BY <1>2, ExchangeLines
<1>3. CASE Tick
  BY <1>3, TickLines
<1>4. CASE CodeExpires
  BY <1>4, TellingLines DEF CodeExpires, refreshGhosts
<1>5. ASSUME NEW t \in known, Renew(t)
      PROVE  LInv'
  BY <1>5, RenewLines
<1>6. ASSUME NEW t \in known, Replay(t)
      PROVE  LInv'
  <2>1. CASE Lose
    BY <1>6, <2>1, TellingLines DEF Replay, Revokes, Lose
  <2>2. CASE Write(Without(Family(t))) /\ replayed' = replayed \cup {t} /\ UNCHANGED <<code, known, revoked>>
    BY <1>6, <2>2, ReplayLines DEF Write
  <2>3. QED
    BY <1>6, <2>1, <2>2 DEF Replay, Revokes
<1>7. ASSUME NEW t \in known, RevokeToken(t)
      PROVE  LInv'
  BY <1>7, RevokeLines
<1>8. ASSUME NEW s \in Provider, NEW t \in known, Rotate(s, t)
      PROVE  LInv'
  BY <1>8, RotateLines
<1>9. ASSUME NEW s \in Provider, NEW t \in known, Coalesce(s, t)
      PROVE  LInv'
  <2>1. Stored(recent[s][t]) /\ known' \in {known, known \cup {recent[s][t]}}
    BY <1>9 DEF Coalesce, Cached, Answer
  <2>2. known \subseteq known' /\ \A u \in known' : u \in known \/ Stored(u)
    BY <2>1
  <2>3. QED
    BY <1>9, <2>2, TellingLines DEF Coalesce
<1>10. ASSUME NEW s \in Provider, NEW t \in known, RejectRetry(s, t)
       PROVE  LInv'
  BY <1>10, TellingLines DEF RejectRetry, refreshVars, refreshGhosts
<1>11. ASSUME NEW s \in Provider, RestartServer(s)
       PROVE  LInv'
  BY <1>11, TellingLines DEF RestartServer, refreshGhosts
<1>12. QED
  BY <1>1, <1>2, <1>3, <1>4, <1>5, <1>6, <1>7, <1>8, <1>9, <1>10, <1>11 DEF RefreshNext

\* A late replay ends all that came from the token, up to where a token was revoked on
\* its own; and a token the client was told of is gone only by such a replay, by its
\* expiry or by its own revocation.
THEOREM FamilyEndsByReplay == RefreshSpec => []OnlyReplayEndsFamily
<1>1. FamilyInv /\ LInv => OnlyReplayEndsFamily
  <2> SUFFICES ASSUME FamilyInv, LInv PROVE ReplayEndsFamily /\ DeliveredStays
    BY DEF OnlyReplayEndsFamily
  <2> USE DEF FamilyInv, LInv
  <2>1. ReplayEndsFamily
    <3> SUFFICES ASSUME NEW t \in replayed, NEW u \in Token, Descends(u, t), Stored(u)
                 PROVE  \E v \in revoked : v = t \/ (Descends(v, t) /\ Descends(u, v))
      BY DEF ReplayEndsFamily
    <3>1. PICK v \in revoked : From(u, v) /\ From(v, t)
      BY DEF Ended, Cut, Descends, From
    <3>2. v # u
      BY DEF Dead
    <3>3. QED
      BY <3>1, <3>2 DEF Descends, From
  <2>2. DeliveredStays
    BY DEF DeliveredStays, Kept, Descends, From
  <2>3. QED
    BY <2>1, <2>2
<1>2. RefreshSpec => []LInv
  BY Invariance, InitLines, StepLines, PTL DEF RefreshSpec
<1>3. QED
  BY <1>1, <1>2, Invariance, PTL
=============================================================================
