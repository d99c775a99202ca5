----------------------------- MODULE ScopeLease -----------------------------
(***************************************************************************)
(* What BUSY promises: a scope has at most one owner, for a lease of at     *)
(* most MaxLease; it changes hands only when the owner gives it back, is    *)
(* recovered by name, or has let the lease run out; and nobody is told of   *)
(* more than that.                                                         *)
(***************************************************************************)
EXTENDS Integers

CONSTANTS Actor, Scope, MaxLease

VARIABLES
  now,    \* the time
  owner,  \* the owner of each scope, if any, and the end of its lease
  told    \* until when each actor has been told that it owns a scope

Init ==
  /\ now = 0
  /\ owner = [s \in Scope |-> {}]
  /\ told = [a \in Actor |-> [s \in Scope |-> 0]]

Expired(s) == \A o \in owner[s] : o.until <= now

\* The actor gets or renews the lease; it may not hear of it.
Take(a, s) ==
  /\ Expired(s) \/ \A o \in owner[s] : o.actor = a
  /\ \E l \in 1 .. MaxLease :
       /\ owner'[s] = {[actor |-> a, until |-> now + l]}
       /\ told'[a][s] <= now + l

\* The actor gives the lease back or loses it to a recovery.
GiveBack(a, s) ==
  /\ \A o \in owner[s] : o.actor = a
  /\ owner'[s] = {}
  /\ told'[a][s] = 0

\* An operation on behalf of one actor and scope; leases that have run out may
\* be dropped at the same time.
Operate(a, s) ==
  /\ now' = now
  /\ \A r \in Scope :
       \/ owner'[r] = owner[r]
       \/ Expired(r) /\ owner'[r] = {}
       \/ r = s /\ (Take(a, s) \/ GiveBack(a, s))
  /\ told' = [told EXCEPT ![a][s] = told'[a][s]]
  /\ told'[a][s] <= told[a][s] \/ Take(a, s)

Tick == now' = now + 1 /\ UNCHANGED <<owner, told>>

Next == Tick \/ \E a \in Actor, s \in Scope : Operate(a, s)

Spec == Init /\ [][Next]_<<now, owner, told>>
=============================================================================
