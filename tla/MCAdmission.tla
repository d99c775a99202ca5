------------------------------ MODULE MCAdmission ------------------------------
(***************************************************************************)
(* How start calls get in and are answered.  A behaviour is about the slot *)
(* files of the host, with a process of each of two servers; about the     *)
(* gate: three start calls of one caller, of which the first and the last  *)
(* ask for the same; or about the life of one process after it, from its   *)
(* start call to the return of its slot.                                   *)
(***************************************************************************)
EXTENDS HostAdmission, TLC

CONSTANTS m1, m2, c1, c2, c3, MaxSteps,
    Call, CallerOf, IdentityOf, Long, Plain, Signalled, MaxLivePerCaller
VARIABLES scene,
    call, process, claimed, follows, worker, posted, answers, waiters, verdict, overlapped,
    phase, entry, outcome, launching, repaired, resetting, killRequested, handlers, slots,
    launcher, launcherFailed, toLauncher, toMain, session, step, killPending, stepChild, signalled

callVars == <<call, process, claimed, follows, worker, posted, answers, waiters, verdict, overlapped>>
lifeVars == <<phase, entry, outcome, launching, repaired, resetting, killRequested, handlers, slots,
    launcher, launcherFailed, toLauncher, toMain, session, step, killPending, stepChild, signalled>>

FirstOfPair == [p \in Proc |-> p[1]]
OneEach == {<<m1, 1>>, <<m2, 1>>}

OneCaller == [c \in {c1, c2, c3} |-> "caller"]
TheOther == [c \in {c1, c2, c3} |-> IF c = c2 THEN "other" ELSE "same"]
Gate == INSTANCE StartGate WITH held <- claimed
ASSUME GateAssumption == Gate!GateAssumption

Life == INSTANCE ProcessLifecycle WITH
    Call <- {c1}, CallerOf <- [c \in {c1} |-> "caller"], IdentityOf <- [c \in {c1} |-> c],
    Repairable <- {c1}, Protected <- {}, Sync <- {},
    MaxLivePerCaller <- 1, MaxLiveTotal <- 1, MaxCompleted <- 1, child <- stepChild

MCInit == Init /\ Gate!GateInit /\ Life!Init /\ scene \in {"slots", "gate", "life"}
MCNext ==
    /\ UNCHANGED scene
    /\ \/ scene = "slots" /\ Next /\ UNCHANGED <<callVars, lifeVars>>
       \/ scene = "gate" /\ Gate!GateNext /\ UNCHANGED <<vars, lifeVars>>
       \/ scene = "life" /\ Life!Next /\ UNCHANGED <<vars, callVars>>
\* Nothing that is fair is enabled in the initial state of the other parts.
MCSpec ==
    /\ MCInit /\ [][MCNext]_<<vars, callVars, lifeVars, scene>>
    /\ Fairness /\ Gate!GateFairness /\ Life!Fairness

\* Nothing starts that the policy did not pass, and more than the cap of the caller only
\* where checks overlapped (StartGate).
StartsAreChecked == Gate!NoUncheckedStart /\ Gate!ExcessOverlaps
\* Every start call is answered (StartGate).
CallsAreAnswered == Gate!CallsAreAnswered
\* A kill, a launch and a slot all come to their end (ProcessLifecycle).
ProcessSettles == Life!KillSettles /\ Life!LaunchIsAnswered /\ Life!SlotIsReturned

\* In every state the variables have their types: TLC stops where they do not.
TypesHold == Assert(TypeOK /\ Gate!GateTypes /\ Life!TypeOK, "types")
=============================================================================
