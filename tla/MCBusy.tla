-------------------------------- MODULE MCBusy --------------------------------
(***************************************************************************)
(* Instances of BusyLock and of LeaseGuard.  A behaviour is about the lock *)
(* file, with three writers; or about leases: a guard, an actor who        *)
(* competes with it, one scope.  What an operation of the coordinator does *)
(* to the store is one step of LeaseGuard, because of the lock.            *)
(***************************************************************************)
EXTENDS BusyLock, TLC

CONSTANTS w1, w2, w3, g1, a1, o1, o2, Guard, Actor, Id, Lease, MaxLease, Beat, MaxOps
VARIABLES scene,
    claim, known, ops, guard, child, coupled, gate, effects, forgotten, slow, taken, unheld
leaseVars == <<claim, known, ops, guard, child, coupled, gate, effects, forgotten, slow, taken, unheld>>

Three == {w1, w2, w3}

L == INSTANCE LeaseGuard
ASSUME LeaseAssumption == L!ConstantsAssumption

MCInit == Init /\ L!Init /\ scene \in {"lock", "lease"}
MCNext ==
    /\ UNCHANGED scene
    /\ \/ scene = "lock" /\ Next /\ UNCHANGED leaseVars
       \/ scene = "lease" /\ L!Next /\ UNCHANGED vars
\* Nothing that is fair is enabled in the initial state of the other part.
MCSpec ==
    /\ MCInit /\ [][MCNext]_<<vars, leaseVars, scene>>
    /\ Fairness /\ L!Fairness

\* Calls of the store come back and the lock of the dead is taken over (BusyLock).
LockGoesOn == CallSettles /\ DeadLockYields

\* While a guard's command runs, the guard has the lease; and a guard that returns the
\* command's exit code had it all along (LeaseGuard).
GuardIsHonest == L!RunsUnderLease /\ L!HonestExit
\* A repeated operation takes effect once (LeaseGuard).
EffectOnce == L!EffectOnce
\* No command outlives its guard, and one whose lease is gone is stopped (LeaseGuard).
CommandsAreStopped == []L!NoOrphanRuns /\ L!LosersAreStopped

\* In every state the variables have their types: TLC stops where they do not.
TypesHold == Assert(TypeOK /\ L!TypeOK, "types")
=============================================================================
