----------------------- MODULE ProcessLifecycle_proofs -----------------------
(***************************************************************************)
(* Type correctness, the two safety invariants and the action property of   *)
(* ProcessLifecycle, for every set of calls and every limit.                *)
(*                                                                         *)
(* The argument is a token that each process passes on: the right to run a  *)
(* child is in a launch under way, then in the session, then in the exit    *)
(* message, then in the reset of the spools (and from there in a launch     *)
(* again) or in the published outcome.  Errors only lose it.                *)
(*                                                                         *)
(* At the end, the retrieval stop of the same run (Stop): a marker stays    *)
(* until its time is over, unless a sweep crossed its write.               *)
(***************************************************************************)
EXTENDS MCProcessLifecycle, TLAPS, FiniteSetTheorems

Has(q, M) == \E k \in 1 .. Len(q) : q[k] \in M

Once(q, M) == \A j, k \in 1 .. Len(q) : q[j] \in M /\ q[k] \in M => j = k

\* Nothing of the process exists before its start call has registered it.
Untouched(p) ==
  /\ entry[p] = "absent"
  /\ outcome[p] = "none"
  /\ ~resetting[p]
  /\ toLauncher[p] = <<>>
  /\ toMain[p] = <<>>
  /\ session[p] = "none"
  /\ child[p] # "running"

NotStarted == \A p \in Call : phase[p] # "returned" => Untouched(p)

LiveUntilOutcome == \A p \in Call : phase[p] = "returned" => (Live(p) <=> outcome[p] = "none")

\* No child runs and no session that could spawn one is open.
Quiet(p) == session[p] \in {"none", "closing"} /\ child[p] # "running"

Ended(p) == outcome[p] \in ExitKind

LaunchQueued(p) == Has(toLauncher[p], {"launch"})
OneLaunch(p) == Once(toLauncher[p], {"launch"})

ExitQueued(p) == Has(toMain[p], ExitKind)
OneExit(p) == Once(toMain[p], ExitKind)

Token(p) ==
  /\ OneLaunch(p)
  /\ OneExit(p)
  /\ LaunchQueued(p) => Quiet(p) /\ ~ExitQueued(p) /\ ~resetting[p] /\ ~Ended(p)
  /\ ExitQueued(p) => Quiet(p) /\ ~resetting[p] /\ ~Ended(p)
  /\ resetting[p] => Quiet(p) /\ ~Ended(p)
  /\ Ended(p) => Quiet(p)

OneToken == \A p \in Call : Token(p)

SlotsHeld ==
  /\ \A p \in Call : phase[p] = "spooling" \/ Live(p) => p \in slots
  /\ Cardinality(slots) <= MaxLiveTotal

IInv == TypeOK /\ NotStarted /\ LiveUntilOutcome /\ OneToken /\ SlotsHeld

-----------------------------------------------------------------------------
(* The message queues.                                                     *)

\* Posting a message adds one occurrence at most.
LEMMA AppendMessage ==
  ASSUME NEW S, NEW q \in Seq(S), NEW m \in S, NEW M
  PROVE  /\ Append(q, m) \in Seq(S)
         /\ Has(Append(q, m), M) <=> Has(q, M) \/ m \in M
         /\ Once(q, M) /\ (m \in M => ~Has(q, M)) => Once(Append(q, m), M)
  BY DEF Has, Once

\* Taking the first message removes it and brings no other.
LEMMA TakeMessage ==
  ASSUME NEW S, NEW q \in Seq(S), q # <<>>, NEW M
  PROVE  /\ Tail(q) \in Seq(S)
         /\ Head(q) \in S
         /\ Has(Tail(q), M) => Has(q, M)
         /\ Head(q) \in M => Has(q, M)
         /\ Once(q, M) => Once(Tail(q), M)
         /\ Once(q, M) /\ Head(q) \in M => ~Has(Tail(q), M)
<1> Len(q) \in Nat \ {0} /\ Len(Tail(q)) = Len(q) - 1 /\ Head(q) = q[1]
  OBVIOUS
<1>1. \A k \in 1 .. Len(Tail(q)) : Tail(q)[k] = q[k + 1] /\ k + 1 \in 2 .. Len(q)
  OBVIOUS
<1>2. Has(Tail(q), M) => Has(q, M)
  BY <1>1 DEF Has
<1>3. Head(q) \in M => Has(q, M)
  BY DEF Has
<1>4. Once(q, M) => Once(Tail(q), M)
  BY <1>1 DEF Once
<1>5. Once(q, M) /\ Head(q) \in M => ~Has(Tail(q), M)
  BY <1>1 DEF Once, Has
<1> QED
  BY <1>2, <1>3, <1>4, <1>5

\* An empty queue has no message of any kind.
LEMMA EmptyQueue ==
  ASSUME NEW M
  PROVE  ~Has(<<>>, M) /\ Once(<<>>, M)
  BY DEF Has, Once

-----------------------------------------------------------------------------
(* Type correctness.                                                       *)

\* Sending, posting and taking messages keep the queues typed.
LEMMA SendTyped ==
  ASSUME TypeOK, NEW p \in Call, NEW m \in Message, Send(p, m)
  PROVE  toMain' \in [Call -> Seq(Message)]
  BY DEF TypeOK, Send

LEMMA PostTyped ==
  ASSUME TypeOK, NEW p \in Call, NEW m \in {"launch", "kill"}, Post(p, m)
  PROVE  toLauncher' \in [Call -> Seq({"launch", "kill"})]
  BY DEF TypeOK, Post

LEMMA ReceiveTyped ==
  ASSUME TypeOK, NEW p \in Call, NEW M, Receive(p, M)
  PROVE  /\ toMain' \in [Call -> Seq(Message)]
         /\ Head(toMain[p]) \in M \cap Message
<1>1. toMain[p] \in Seq(Message) /\ toMain[p] # <<>>
  BY DEF TypeOK, Receive
<1>2. Tail(toMain[p]) \in Seq(Message) /\ Head(toMain[p]) \in Message
  BY <1>1, TakeMessage
<1> QED
  BY <1>2 DEF TypeOK, Receive

LEMMA DeliverTyped ==
  ASSUME TypeOK, NEW p \in Call, NEW m, Deliver(p, m)
  PROVE  toLauncher' \in [Call -> Seq({"launch", "kill"})]
<1>1. toLauncher[p] \in Seq({"launch", "kill"}) /\ toLauncher[p] # <<>>
  BY DEF TypeOK, Deliver
<1>2. Tail(toLauncher[p]) \in Seq({"launch", "kill"})
  BY <1>1, TakeMessage
<1> QED
  BY <1>2 DEF TypeOK, Deliver

LEMMA TypeStep == TypeOK /\ [Next]_vars => TypeOK'
<1> SUFFICES ASSUME TypeOK, [Next]_vars PROVE TypeOK'
  OBVIOUS
<1> USE ConstantsAssumption DEF Phase, ExitKind, Message, startVars, managerVars,
                               launcherVars, channelVars, sessionVars
<1> DEFINE Commands == {"launch", "kill"}
<1>1. ASSUME NEW p \in Call, BeginStart(p) PROVE TypeOK'
  BY <1>1 DEF TypeOK, BeginStart, Keepable, PrunedTo
<1>2. ASSUME NEW p \in Call, RefuseStart(p) PROVE TypeOK'
  BY <1>2 DEF TypeOK, RefuseStart
<1>3. ASSUME NEW p \in Call, CheckStart(p) PROVE TypeOK'
  BY <1>3 DEF TypeOK, CheckStart
<1>4. ASSUME NEW p \in Call, ClaimSlot(p) PROVE TypeOK'
  <2>1. phase' \in [Call -> Phase]
    <3>1. \/ phase' = [phase EXCEPT ![p] = "refused"]
          \/ phase' = [phase EXCEPT ![p] = "spooling"]
      BY <1>4 DEF ClaimSlot
    <3> QED
      BY <3>1 DEF TypeOK
  <2>2. slots' \subseteq Call
    BY <1>4 DEF TypeOK, ClaimSlot
  <2> QED
    BY <1>4, <2>1, <2>2 DEF TypeOK, ClaimSlot
<1>5. ASSUME NEW p \in Call, SpoolFails(p) PROVE TypeOK'
  BY <1>5 DEF TypeOK, SpoolFails
<1>6. ASSUME NEW p \in Call, Register(p) PROVE TypeOK'
  <2>1. toLauncher' \in [Call -> Seq(Commands)]
    BY <1>6, PostTyped DEF Register, Enter
  <2> QED
    BY <1>6, <2>1 DEF TypeOK, Register, Enter
<1>7. ASSUME NEW p \in Call, StartSync(p) PROVE TypeOK'
  <2>1. PICK kept \in Keepable :
          \/ /\ phase' = [phase EXCEPT ![p] = "returned"]
             /\ entry' = [PrunedTo(kept) EXCEPT ![p] = "live"]
             /\ Enter(p)
          \/ /\ phase' = [phase EXCEPT ![p] = "refused"]
             /\ entry' = PrunedTo(kept)
             /\ UNCHANGED <<outcome, launching, repaired, resetting, killRequested,
                            handlers, launcherVars, channelVars, sessionVars>>
    BY <1>7 DEF StartSync
  <2>2. toLauncher' \in [Call -> Seq(Commands)]
    BY <2>1, PostTyped DEF Enter, TypeOK
  <2>3. PrunedTo(kept) \in [Call -> {"absent", "live", "done"}]
    BY DEF TypeOK, PrunedTo
  <2>4. phase' \in [Call -> Phase] /\ entry' \in [Call -> {"absent", "live", "done"}]
    <3>1. phase \in [Call -> Phase] /\ "returned" \in Phase /\ "refused" \in Phase
      BY DEF TypeOK, Phase
    <3>2. phase' \in [Call -> Phase]
      BY <2>1, <3>1
    <3>3. entry' \in [Call -> {"absent", "live", "done"}]
      BY <2>1, <2>3
    <3> QED
      BY <3>2, <3>3
  <2>5. slots' \subseteq Call
    BY <1>7 DEF TypeOK, StartSync
  <2>6. launching' \in [Call -> BOOLEAN] /\ handlers' \subseteq Call /\ toMain' = toMain
    BY <2>1 DEF TypeOK, Enter
  <2>7. UNCHANGED <<outcome, repaired, resetting, killRequested, launcherVars, sessionVars>>
    BY <2>1 DEF Enter
  <2> QED
    BY <2>2, <2>4, <2>5, <2>6, <2>7 DEF TypeOK
<1>8. ASSUME NEW p \in Call, IgnoreMessage(p) PROVE TypeOK'
  <2>1. toMain' \in [Call -> Seq(Message)] /\ Head(toMain[p]) \in Message
    BY <1>8, ReceiveTyped DEF IgnoreMessage
  <2> QED
    BY <1>8, <2>1 DEF TypeOK, IgnoreMessage
<1>9. ASSUME NEW p \in Call, HandleStarted(p) PROVE TypeOK'
  <2>1. toMain' \in [Call -> Seq(Message)]
    BY <1>9, ReceiveTyped DEF HandleStarted
  <2>2. toLauncher' \in [Call -> Seq(Commands)]
    BY <1>9, PostTyped DEF HandleStarted, TypeOK
  <2> QED
    BY <1>9, <2>1, <2>2 DEF TypeOK, HandleStarted
<1>10. ASSUME NEW p \in Call, HandleError(p) PROVE TypeOK'
  <2>1. toMain' \in [Call -> Seq(Message)] /\ Head(toMain[p]) \in {"error"}
    BY <1>10, ReceiveTyped DEF HandleError
  <2> QED
    BY <1>10, <2>1 DEF TypeOK, HandleError, ObserveTerminal
<1>11. ASSUME NEW p \in Call, HandleExit(p) PROVE TypeOK'
  <2>1. toMain' \in [Call -> Seq(Message)] /\ Head(toMain[p]) \in ExitKind
    BY <1>11, ReceiveTyped DEF HandleExit
  <2> QED
    BY <1>11, <2>1 DEF TypeOK, HandleExit, ObserveTerminal
<1>12. ASSUME NEW p \in Call, Repair(p) PROVE TypeOK'
  <2>1. toMain' \in [Call -> Seq(Message)] /\ Head(toMain[p]) \in ExitKind
    BY <1>12, ReceiveTyped DEF Repair
  <2> QED
    BY <1>12, <2>1 DEF TypeOK, Repair
<1>13. ASSUME NEW p \in Call, Relaunch(p) PROVE TypeOK'
  <2>1. toLauncher' \in [Call -> Seq(Commands)]
    BY <1>13, PostTyped DEF Relaunch
  <2> QED
    BY <1>13, <2>1 DEF TypeOK, Relaunch
<1>14. ASSUME NEW p \in Call, ResetFails(p) PROVE TypeOK'
  BY <1>14 DEF TypeOK, ResetFails, ObserveTerminal
<1>15. ASSUME NEW p \in Call, SlotReleased(p) PROVE TypeOK'
  BY <1>15 DEF TypeOK, SlotReleased
<1>16. ASSUME NEW p \in Call, Kill(p) PROVE TypeOK'
  <2>1. toLauncher' \in [Call -> Seq(Commands)]
    BY <1>16, PostTyped DEF Kill
  <2> QED
    BY <1>16, <2>1 DEF TypeOK, Kill
<1>17. ASSUME NEW p \in Call, StartSession(p) PROVE TypeOK'
  <2>1. toLauncher' \in [Call -> Seq(Commands)]
    BY <1>17, DeliverTyped DEF StartSession
  <2>2. toMain' \in [Call -> Seq(Message)]
    BY <1>17, SendTyped DEF StartSession, TypeOK
  <2> QED
    BY <1>17, <2>1, <2>2 DEF TypeOK, StartSession
<1>18. ASSUME NEW p \in Call, DeliverKill(p) PROVE TypeOK'
  <2>1. toLauncher' \in [Call -> Seq(Commands)]
    BY <1>18, DeliverTyped DEF DeliverKill
  <2> QED
    BY <1>18, <2>1 DEF TypeOK, DeliverKill
<1>19. ASSUME NEW p \in Call, FirstStep(p) PROVE TypeOK'
  <2>1. toMain' \in [Call -> Seq(Message)]
    BY <1>19, SendTyped DEF FirstStep, RunStep
  <2>2. step' \in [Call -> 0 .. MaxSteps]
    <3>1. step[p] \in 0 .. MaxSteps /\ step[p] < MaxSteps
      BY <1>19 DEF FirstStep, TypeOK
    <3>2. step[p] + 1 \in 0 .. MaxSteps
      BY <3>1
    <3> QED
      BY <1>19, <3>2 DEF FirstStep, RunStep, TypeOK
  <2> QED
    <3>1. child' \in [Call -> {"none", "running", "exited"}] /\ signalled' \in [Call -> BOOLEAN]
      BY <1>19 DEF TypeOK, FirstStep, RunStep
    <3>2. session' \in [Call -> {"none", "starting", "running", "failing", "closing"}] /\ killPending' \in [Call -> BOOLEAN]
      BY <1>19 DEF TypeOK, FirstStep, RunStep
    <3> QED
      BY <1>19, <2>1, <2>2, <3>1, <3>2 DEF TypeOK, FirstStep
<1>20. ASSUME NEW p \in Call, NextStep(p) PROVE TypeOK'
  <2>1. toMain' \in [Call -> Seq(Message)]
    BY <1>20, SendTyped DEF NextStep, RunStep
  <2>2. step' \in [Call -> 0 .. MaxSteps]
    <3>1. step[p] \in 0 .. MaxSteps /\ step[p] < MaxSteps
      BY <1>20 DEF NextStep, TypeOK
    <3>2. step[p] + 1 \in 0 .. MaxSteps
      BY <3>1
    <3> QED
      <4>1. step' = [step EXCEPT ![p] = step[p] + 1] \/ step' = step
        BY <1>20 DEF NextStep, RunStep
      <4>2. step \in [Call -> 0 .. MaxSteps]
        BY DEF TypeOK
      <4> QED
        BY <3>2, <4>1, <4>2
  <2> QED
    BY <1>20, <2>1, <2>2 DEF TypeOK, NextStep, RunStep
<1>21. ASSUME NEW p \in Call, ReportExit(p) PROVE TypeOK'
  <2>1. toMain' \in [Call -> Seq(Message)]
    <3>1. PICK kind \in ExitKind : Send(p, kind)
      BY <1>21 DEF ReportExit
    <3> QED
      BY <3>1, SendTyped
  <2>2. session' \in [Call -> {"none", "starting", "running", "failing", "closing"}]
    BY <1>21 DEF TypeOK, ReportExit
  <2>3. step' \in [Call -> 0 .. MaxSteps]
    BY <1>21 DEF TypeOK, ReportExit
  <2>4. UNCHANGED <<startVars, managerVars, launcherVars, toLauncher, killPending, child, signalled>>
    BY <1>21 DEF ReportExit
  <2> QED
    BY <2>1, <2>2, <2>3, <2>4 DEF TypeOK
<1>22. ASSUME NEW p \in Call, SpoolAppendFails(p) PROVE TypeOK'
  <2>1. toMain' \in [Call -> Seq(Message)]
    BY <1>22, SendTyped DEF SpoolAppendFails
  <2> QED
    BY <1>22, <2>1 DEF TypeOK, SpoolAppendFails
<1>23. ASSUME NEW p \in Call, PipelineSpawnFails(p) PROVE TypeOK'
  <2>1. toMain' \in [Call -> Seq(Message)]
    BY <1>23, SendTyped DEF PipelineSpawnFails
  <2> QED
    BY <1>23, <2>1 DEF TypeOK, PipelineSpawnFails
<1>24. ASSUME NEW p \in Call, FinishSession(p) PROVE TypeOK'
  BY <1>24 DEF TypeOK, FinishSession
<1>25. ASSUME NEW p \in Call, SessionCrashes(p) PROVE TypeOK'
  <2>1. toMain' \in [Call -> Seq(Message)]
    BY <1>25, SendTyped DEF SessionCrashes
  <2> QED
    BY <1>25, <2>1 DEF TypeOK, SessionCrashes
<1>26. ASSUME NEW p \in Call, ChildExits(p) PROVE TypeOK'
  BY <1>26 DEF TypeOK, ChildExits
<1>27. CASE LauncherDies
  BY <1>27 DEF TypeOK, LauncherDies
<1>28. CASE FailSharedLauncher
  BY <1>28 DEF TypeOK, FailSharedLauncher, ObserveTerminal
<1>29. CASE UNCHANGED vars
  BY <1>29 DEF TypeOK, vars
<1> QED
  BY <1>1, <1>2, <1>3, <1>4, <1>5, <1>6, <1>7, <1>8, <1>9, <1>10, <1>11, <1>12, <1>13, <1>14, <1>15, <1>16, <1>17, <1>18, <1>19, <1>20, <1>21, <1>22, <1>23, <1>24, <1>25, <1>26, <1>27, <1>28, <1>29 DEF Next, Start, Manage, Launch

-----------------------------------------------------------------------------
(* What the channel operations do to the token.                            *)

LEMMA PostKeeps ==
  ASSUME TypeOK, NEW p \in Call, NEW m \in {"launch", "kill"}, Post(p, m)
  PROVE  /\ LaunchQueued(p)' => LaunchQueued(p) \/ m = "launch"
         /\ OneLaunch(p) /\ (m = "launch" => ~LaunchQueued(p)) => OneLaunch(p)'
         /\ \A q \in Call \ {p} : toLauncher'[q] = toLauncher[q]
<1>1. toLauncher[p] \in Seq({"launch", "kill"})
  BY DEF TypeOK
<1>2. toLauncher'[p] = toLauncher[p] \/ toLauncher'[p] = Append(toLauncher[p], m)
  BY DEF TypeOK, Post
<1>3. \A q \in Call \ {p} : toLauncher'[q] = toLauncher[q]
  BY DEF TypeOK, Post
<1>4. CASE toLauncher'[p] = toLauncher[p]
  BY <1>3, <1>4 DEF LaunchQueued, OneLaunch
<1>5. CASE toLauncher'[p] = Append(toLauncher[p], m)
  BY <1>1, <1>3, <1>5, AppendMessage DEF LaunchQueued, OneLaunch
<1> QED
  BY <1>2, <1>4, <1>5

LEMMA DeliverKeeps ==
  ASSUME TypeOK, NEW p \in Call, NEW m, Deliver(p, m)
  PROVE  /\ LaunchQueued(p)' => LaunchQueued(p)
         /\ m = "launch" => LaunchQueued(p)
         /\ OneLaunch(p) => OneLaunch(p)'
         /\ OneLaunch(p) /\ m = "launch" => ~LaunchQueued(p)'
         /\ \A q \in Call \ {p} : toLauncher'[q] = toLauncher[q]
<1>1. toLauncher[p] \in Seq({"launch", "kill"}) /\ toLauncher[p] # <<>>
  BY DEF TypeOK, Deliver
<1>2. toLauncher'[p] = Tail(toLauncher[p]) /\ Head(toLauncher[p]) = m
  BY DEF TypeOK, Deliver
<1>3. \A q \in Call \ {p} : toLauncher'[q] = toLauncher[q]
  BY DEF TypeOK, Deliver
<1> QED
  BY <1>1, <1>2, <1>3, TakeMessage DEF LaunchQueued, OneLaunch

LEMMA SendKeeps ==
  ASSUME TypeOK, NEW p \in Call, NEW m \in Message, Send(p, m)
  PROVE  /\ ExitQueued(p)' => ExitQueued(p) \/ m \in ExitKind
         /\ OneExit(p) /\ (m \in ExitKind => ~ExitQueued(p)) => OneExit(p)'
         /\ \A q \in Call \ {p} : toMain'[q] = toMain[q]
<1>1. toMain[p] \in Seq(Message)
  BY DEF TypeOK
<1>2. toMain'[p] = Append(toMain[p], m)
  BY DEF TypeOK, Send
<1>3. \A q \in Call \ {p} : toMain'[q] = toMain[q]
  BY DEF TypeOK, Send
<1> QED
  BY <1>1, <1>2, <1>3, AppendMessage DEF ExitQueued, OneExit

LEMMA ReceiveKeeps ==
  ASSUME TypeOK, NEW p \in Call, NEW M, Receive(p, M)
  PROVE  /\ ExitQueued(p)' => ExitQueued(p)
         /\ Head(toMain[p]) \in M
         /\ Head(toMain[p]) \in ExitKind => ExitQueued(p)
         /\ OneExit(p) => OneExit(p)'
         /\ OneExit(p) /\ Head(toMain[p]) \in ExitKind => ~ExitQueued(p)'
         /\ \A q \in Call \ {p} : toMain'[q] = toMain[q]
<1>1. toMain[p] \in Seq(Message) /\ toMain[p] # <<>>
  BY DEF TypeOK, Receive
<1>2. toMain'[p] = Tail(toMain[p]) /\ Head(toMain[p]) \in M
  BY DEF TypeOK, Receive
<1>3. \A q \in Call \ {p} : toMain'[q] = toMain[q]
  BY DEF TypeOK, Receive
<1> QED
  BY <1>1, <1>2, <1>3, TakeMessage DEF ExitQueued, OneExit

\* A step that does not touch a queue does not touch what is in it.
LEMMA SameQueue ==
  ASSUME NEW p \in Call
  PROVE  /\ toLauncher'[p] = toLauncher[p] =>
              (LaunchQueued(p)' <=> LaunchQueued(p)) /\ (OneLaunch(p)' <=> OneLaunch(p))
         /\ toMain'[p] = toMain[p] =>
              (ExitQueued(p)' <=> ExitQueued(p)) /\ (OneExit(p)' <=> OneExit(p))
  BY DEF LaunchQueued, OneLaunch, ExitQueued, OneExit

LEMMA SameToken ==
  ASSUME NEW p \in Call, Token(p), toLauncher'[p] = toLauncher[p], toMain'[p] = toMain[p],
         session'[p] = session[p], child'[p] = child[p],
         resetting'[p] = resetting[p], outcome'[p] = outcome[p]
  PROVE  Token(p)'
  BY SameQueue DEF Token, Quiet, Ended

-----------------------------------------------------------------------------
(* Preservation of the invariant, one part at a time.                      *)

LEMMA NotStartedStep == TypeOK /\ NotStarted /\ [Next]_vars => NotStarted'
<1> SUFFICES ASSUME TypeOK, NotStarted, [Next]_vars PROVE NotStarted'
  OBVIOUS
<1> USE DEF NotStarted, Untouched, startVars, managerVars, launcherVars, channelVars, sessionVars
<1>1. ASSUME NEW p \in Call, BeginStart(p) PROVE NotStarted'
  BY <1>1 DEF TypeOK, BeginStart, PrunedTo
<1>2. ASSUME NEW p \in Call, RefuseStart(p) PROVE NotStarted'
  BY <1>2 DEF TypeOK, RefuseStart
<1>3. ASSUME NEW p \in Call, CheckStart(p) PROVE NotStarted'
  BY <1>3 DEF TypeOK, CheckStart
<1>4. ASSUME NEW p \in Call, ClaimSlot(p) PROVE NotStarted'
  BY <1>4 DEF TypeOK, ClaimSlot
<1>5. ASSUME NEW p \in Call, SpoolFails(p) PROVE NotStarted'
  BY <1>5 DEF TypeOK, SpoolFails
<1>6. ASSUME NEW p \in Call, Register(p) PROVE NotStarted'
  BY <1>6 DEF TypeOK, Register, Enter, Post
<1>7. ASSUME NEW p \in Call, StartSync(p) PROVE NotStarted'
  <2>1. PICK kept \in Keepable :
          \/ /\ phase' = [phase EXCEPT ![p] = "returned"]
             /\ entry' = [PrunedTo(kept) EXCEPT ![p] = "live"]
             /\ Enter(p)
          \/ /\ phase' = [phase EXCEPT ![p] = "refused"]
             /\ entry' = PrunedTo(kept)
             /\ UNCHANGED <<outcome, launching, repaired, resetting, killRequested,
                            handlers, launcherVars, channelVars, sessionVars>>
    BY <1>7 DEF StartSync
  <2>2. PrunedTo(kept) = [q \in Call |-> PrunedTo(kept)[q]]
          /\ \A q \in Call : PrunedTo(kept)[q] # entry[q] => entry[q] = "done" /\ PrunedTo(kept)[q] = "absent"
    BY DEF PrunedTo, TypeOK
  <2>3. phase[p] = "idle"
    BY <1>7 DEF StartSync
  <2>4. CASE phase' = [phase EXCEPT ![p] = "returned"] /\ entry' = [PrunedTo(kept) EXCEPT ![p] = "live"] /\ Enter(p)
    BY <2>2, <2>3, <2>4 DEF TypeOK, Enter, Post
  <2>5. CASE phase' = [phase EXCEPT ![p] = "refused"] /\ entry' = PrunedTo(kept) /\ UNCHANGED <<outcome, resetting, channelVars, sessionVars>>
    BY <2>2, <2>3, <2>5 DEF TypeOK
  <2> QED
    BY <2>1, <2>4, <2>5
<1>8. ASSUME NEW p \in Call, IgnoreMessage(p) PROVE NotStarted'
  BY <1>8 DEF TypeOK, IgnoreMessage, Receive
<1>9. ASSUME NEW p \in Call, HandleStarted(p) PROVE NotStarted'
  BY <1>9 DEF TypeOK, HandleStarted, Heard, Live, Receive, Post
<1>10. ASSUME NEW p \in Call, HandleError(p) PROVE NotStarted'
  BY <1>10 DEF TypeOK, HandleError, Heard, Live, Receive, ObserveTerminal
<1>11. ASSUME NEW p \in Call, HandleExit(p) PROVE NotStarted'
  BY <1>11 DEF TypeOK, HandleExit, Heard, Live, Receive, ObserveTerminal
<1>12. ASSUME NEW p \in Call, Repair(p) PROVE NotStarted'
  BY <1>12 DEF TypeOK, Repair, Heard, Live, Receive
<1>13. ASSUME NEW p \in Call, Relaunch(p) PROVE NotStarted'
  BY <1>13 DEF TypeOK, Relaunch, Post
<1>14. ASSUME NEW p \in Call, ResetFails(p) PROVE NotStarted'
  BY <1>14 DEF TypeOK, ResetFails, Live, ObserveTerminal
<1>15. ASSUME NEW p \in Call, SlotReleased(p) PROVE NotStarted'
  BY <1>15 DEF TypeOK, SlotReleased
<1>16. ASSUME NEW p \in Call, Kill(p) PROVE NotStarted'
  BY <1>16 DEF TypeOK, Kill, Live, Post
<1>17. ASSUME NEW p \in Call, StartSession(p) PROVE NotStarted'
  BY <1>17 DEF TypeOK, StartSession, Deliver, Send
<1>18. ASSUME NEW p \in Call, DeliverKill(p) PROVE NotStarted'
  BY <1>18 DEF TypeOK, DeliverKill, Deliver
<1>19. ASSUME NEW p \in Call, FirstStep(p) PROVE NotStarted'
  BY <1>19 DEF TypeOK, FirstStep, RunStep, Send
<1>20. ASSUME NEW p \in Call, NextStep(p) PROVE NotStarted'
  BY <1>20 DEF TypeOK, NextStep, RunStep, Send
<1>21. ASSUME NEW p \in Call, ReportExit(p) PROVE NotStarted'
  BY <1>21 DEF TypeOK, ReportExit, Send
<1>22. ASSUME NEW p \in Call, SpoolAppendFails(p) PROVE NotStarted'
  BY <1>22 DEF TypeOK, SpoolAppendFails, Send
<1>23. ASSUME NEW p \in Call, PipelineSpawnFails(p) PROVE NotStarted'
  BY <1>23 DEF TypeOK, PipelineSpawnFails, Send
<1>24. ASSUME NEW p \in Call, FinishSession(p) PROVE NotStarted'
  BY <1>24 DEF TypeOK, FinishSession
<1>25. ASSUME NEW p \in Call, SessionCrashes(p) PROVE NotStarted'
  BY <1>25 DEF TypeOK, SessionCrashes, Send
<1>26. ASSUME NEW p \in Call, ChildExits(p) PROVE NotStarted'
  BY <1>26 DEF TypeOK, ChildExits
<1>27. CASE LauncherDies
  BY <1>27 DEF LauncherDies
<1>28. CASE FailSharedLauncher
  BY <1>28 DEF TypeOK, FailSharedLauncher, ObserveTerminal, Live
<1>29. CASE UNCHANGED vars
  BY <1>29 DEF vars
<1> QED
  BY <1>1, <1>2, <1>3, <1>4, <1>5, <1>6, <1>7, <1>8, <1>9, <1>10, <1>11, <1>12, <1>13, <1>14, <1>15, <1>16, <1>17, <1>18, <1>19, <1>20, <1>21, <1>22, <1>23, <1>24, <1>25, <1>26, <1>27, <1>28, <1>29 DEF Next, Start, Manage, Launch

LEMMA LiveUntilOutcomeStep ==
  TypeOK /\ NotStarted /\ LiveUntilOutcome /\ [Next]_vars => LiveUntilOutcome'
<1> SUFFICES ASSUME TypeOK, NotStarted, LiveUntilOutcome, [Next]_vars PROVE LiveUntilOutcome'
  OBVIOUS
<1> USE DEF LiveUntilOutcome, Live, startVars, managerVars, launcherVars, channelVars, sessionVars
<1>1. ASSUME NEW p \in Call, BeginStart(p) PROVE LiveUntilOutcome'
  BY <1>1 DEF TypeOK, BeginStart, PrunedTo
<1>2. ASSUME NEW p \in Call, RefuseStart(p) PROVE LiveUntilOutcome'
  BY <1>2 DEF TypeOK, RefuseStart
<1>3. ASSUME NEW p \in Call, CheckStart(p) PROVE LiveUntilOutcome'
  BY <1>3 DEF TypeOK, CheckStart
<1>4. ASSUME NEW p \in Call, ClaimSlot(p) PROVE LiveUntilOutcome'
  BY <1>4 DEF TypeOK, ClaimSlot
<1>5. ASSUME NEW p \in Call, SpoolFails(p) PROVE LiveUntilOutcome'
  BY <1>5 DEF TypeOK, SpoolFails
<1>6. ASSUME NEW p \in Call, Register(p) PROVE LiveUntilOutcome'
  BY <1>6 DEF TypeOK, NotStarted, Untouched, Register, Enter
<1>7. ASSUME NEW p \in Call, StartSync(p) PROVE LiveUntilOutcome'
  <2>1. PICK kept \in Keepable :
          \/ /\ phase' = [phase EXCEPT ![p] = "returned"]
             /\ entry' = [PrunedTo(kept) EXCEPT ![p] = "live"]
             /\ Enter(p)
          \/ /\ phase' = [phase EXCEPT ![p] = "refused"]
             /\ entry' = PrunedTo(kept)
             /\ UNCHANGED <<outcome, launching, repaired, resetting, killRequested,
                            handlers, launcherVars, channelVars, sessionVars>>
    BY <1>7 DEF StartSync
  <2>2. PrunedTo(kept) = [q \in Call |-> PrunedTo(kept)[q]]
          /\ \A q \in Call : PrunedTo(kept)[q] # entry[q] => entry[q] = "done" /\ PrunedTo(kept)[q] = "absent"
    BY DEF PrunedTo, TypeOK
  <2>3. phase[p] = "idle"
    BY <1>7 DEF StartSync
  <2>4. outcome' = outcome /\ outcome[p] = "none"
    BY <2>1, <2>3 DEF NotStarted, Untouched, Enter
  <2>5. CASE phase' = [phase EXCEPT ![p] = "returned"] /\ entry' = [PrunedTo(kept) EXCEPT ![p] = "live"]
    <3>1. entry'[p] = "live" /\ outcome'[p] = "none"
      BY <2>2, <2>4, <2>5
    <3>2. \A q \in Call \ {p} : phase'[q] = phase[q] /\ (entry'[q] = "live" <=> entry[q] = "live")
      BY <2>2, <2>5 DEF TypeOK
    <3> QED
      BY <2>4, <3>1, <3>2
  <2>6. CASE phase' = [phase EXCEPT ![p] = "refused"] /\ entry' = PrunedTo(kept)
    <3>1. \A q \in Call : phase'[q] = "returned" => phase[q] = "returned"
      BY <2>6 DEF TypeOK
    <3>2. \A q \in Call : entry'[q] = "live" <=> entry[q] = "live"
      BY <2>2, <2>6
    <3> QED
      BY <2>4, <3>1, <3>2
  <2> QED
    BY <2>1, <2>5, <2>6
<1>8. ASSUME NEW p \in Call, IgnoreMessage(p) PROVE LiveUntilOutcome'
  BY <1>8 DEF IgnoreMessage
<1>9. ASSUME NEW p \in Call, HandleStarted(p) PROVE LiveUntilOutcome'
  BY <1>9 DEF HandleStarted
<1>10. ASSUME NEW p \in Call, HandleError(p) PROVE LiveUntilOutcome'
  BY <1>10 DEF TypeOK, HandleError, ObserveTerminal
<1>11. ASSUME NEW p \in Call, HandleExit(p) PROVE LiveUntilOutcome'
  BY <1>11 DEF TypeOK, ExitKind, HandleExit, Receive, ObserveTerminal
<1>12. ASSUME NEW p \in Call, Repair(p) PROVE LiveUntilOutcome'
  BY <1>12 DEF Repair
<1>13. ASSUME NEW p \in Call, Relaunch(p) PROVE LiveUntilOutcome'
  BY <1>13 DEF Relaunch
<1>14. ASSUME NEW p \in Call, ResetFails(p) PROVE LiveUntilOutcome'
  BY <1>14 DEF TypeOK, ResetFails, ObserveTerminal
<1>15. ASSUME NEW p \in Call, SlotReleased(p) PROVE LiveUntilOutcome'
  BY <1>15 DEF SlotReleased
<1>16. ASSUME NEW p \in Call, Kill(p) PROVE LiveUntilOutcome'
  BY <1>16 DEF Kill
<1>17. ASSUME NEW p \in Call, StartSession(p) PROVE LiveUntilOutcome'
  BY <1>17 DEF StartSession
<1>18. ASSUME NEW p \in Call, DeliverKill(p) PROVE LiveUntilOutcome'
  BY <1>18 DEF DeliverKill
<1>19. ASSUME NEW p \in Call, FirstStep(p) PROVE LiveUntilOutcome'
  BY <1>19 DEF FirstStep
<1>20. ASSUME NEW p \in Call, NextStep(p) PROVE LiveUntilOutcome'
  BY <1>20 DEF NextStep
<1>21. ASSUME NEW p \in Call, ReportExit(p) PROVE LiveUntilOutcome'
  BY <1>21 DEF ReportExit
<1>22. ASSUME NEW p \in Call, SpoolAppendFails(p) PROVE LiveUntilOutcome'
  BY <1>22 DEF SpoolAppendFails
<1>23. ASSUME NEW p \in Call, PipelineSpawnFails(p) PROVE LiveUntilOutcome'
  BY <1>23 DEF PipelineSpawnFails
<1>24. ASSUME NEW p \in Call, FinishSession(p) PROVE LiveUntilOutcome'
  BY <1>24 DEF FinishSession
<1>25. ASSUME NEW p \in Call, SessionCrashes(p) PROVE LiveUntilOutcome'
  BY <1>25 DEF SessionCrashes
<1>26. ASSUME NEW p \in Call, ChildExits(p) PROVE LiveUntilOutcome'
  BY <1>26 DEF ChildExits
<1>27. CASE LauncherDies
  BY <1>27 DEF LauncherDies
<1>28. CASE FailSharedLauncher
  BY <1>28 DEF TypeOK, FailSharedLauncher, ObserveTerminal
<1>29. CASE UNCHANGED vars
  BY <1>29 DEF vars
<1> QED
  BY <1>1, <1>2, <1>3, <1>4, <1>5, <1>6, <1>7, <1>8, <1>9, <1>10, <1>11, <1>12, <1>13, <1>14, <1>15, <1>16, <1>17, <1>18, <1>19, <1>20, <1>21, <1>22, <1>23, <1>24, <1>25, <1>26, <1>27, <1>28, <1>29 DEF Next, Start, Manage, Launch

\* Registering gives the process its token.
LEMMA EnterKeeps ==
  ASSUME TypeOK, OneToken, NEW p \in Call, Untouched(p), Enter(p)
  PROVE  OneToken'
<1> USE DEF channelVars, sessionVars
<1>1. ~LaunchQueued(p) /\ OneLaunch(p) /\ ~ExitQueued(p) /\ OneExit(p)
  BY EmptyQueue DEF Untouched, LaunchQueued, OneLaunch, ExitQueued, OneExit
<1>2. Post(p, "launch") /\ UNCHANGED <<outcome, resetting, toMain, session, child>>
  BY DEF Enter
<1>3. OneLaunch(p)' /\ \A q \in Call \ {p} : toLauncher'[q] = toLauncher[q]
  BY <1>1, <1>2, PostKeeps
<1>4. Quiet(p)' /\ ~Ended(p)' /\ ~resetting'[p]
  BY <1>2 DEF Untouched, Quiet, Ended, ExitKind
<1>5. ~ExitQueued(p)' /\ OneExit(p)'
  BY <1>1, <1>2, SameQueue
<1>6. Token(p)'
  BY <1>3, <1>4, <1>5 DEF Token
<1>7. \A q \in Call \ {p} : Token(q)'
  BY <1>2, <1>3, SameToken DEF OneToken
<1> QED
  BY <1>6, <1>7 DEF OneToken

LEMMA OneTokenStep == TypeOK /\ NotStarted /\ OneToken /\ [Next]_vars => OneToken'
<1> SUFFICES ASSUME TypeOK, NotStarted, OneToken, [Next]_vars PROVE OneToken'
  OBVIOUS
<1> USE DEF startVars, managerVars, launcherVars, channelVars, sessionVars
<1>1. ASSUME NEW p \in Call, BeginStart(p) PROVE OneToken'
  BY <1>1, SameToken DEF OneToken, BeginStart
<1>2. ASSUME NEW p \in Call, RefuseStart(p) PROVE OneToken'
  BY <1>2, SameToken DEF OneToken, RefuseStart
<1>3. ASSUME NEW p \in Call, CheckStart(p) PROVE OneToken'
  BY <1>3, SameToken DEF OneToken, CheckStart
<1>4. ASSUME NEW p \in Call, ClaimSlot(p) PROVE OneToken'
  BY <1>4, SameToken DEF OneToken, ClaimSlot
<1>5. ASSUME NEW p \in Call, SpoolFails(p) PROVE OneToken'
  BY <1>5, SameToken DEF OneToken, SpoolFails
<1>6. ASSUME NEW p \in Call, Register(p) PROVE OneToken'
  BY <1>6, EnterKeeps DEF NotStarted, Register
<1>7. ASSUME NEW p \in Call, StartSync(p) PROVE OneToken'
  <2>1. Untouched(p)
    BY <1>7 DEF NotStarted, StartSync
  <2>2. Enter(p) \/ UNCHANGED <<outcome, resetting, channelVars, sessionVars>>
    BY <1>7 DEF StartSync
  <2>3. CASE UNCHANGED <<outcome, resetting, channelVars, sessionVars>>
    BY <2>3, SameToken DEF OneToken
  <2> QED
    BY <2>1, <2>2, <2>3, EnterKeeps
<1>8. ASSUME NEW p \in Call, IgnoreMessage(p) PROVE OneToken'
  <2>1. Token(p)
    BY DEF OneToken
  <2>2. Token(p)'
    BY <1>8, <2>1, SameQueue, ReceiveKeeps DEF TypeOK, Token, Quiet, Ended, ExitKind, Message, IgnoreMessage
  <2>3. \A q \in Call \ {p} : Token(q)'
    BY <1>8, SameToken, ReceiveKeeps DEF TypeOK, OneToken, ExitKind, Message, IgnoreMessage
  <2> QED
    BY <2>2, <2>3 DEF OneToken
<1>9. ASSUME NEW p \in Call, HandleStarted(p) PROVE OneToken'
  <2>1. Token(p)
    BY DEF OneToken
  <2>2. Token(p)'
    BY <1>9, <2>1, SameQueue, ReceiveKeeps, PostKeeps DEF TypeOK, Token, Quiet, Ended, ExitKind, Message, HandleStarted
  <2>3. \A q \in Call \ {p} : Token(q)'
    BY <1>9, SameToken, ReceiveKeeps, PostKeeps DEF TypeOK, OneToken, ExitKind, Message, HandleStarted
  <2> QED
    BY <2>2, <2>3 DEF OneToken
<1>10. ASSUME NEW p \in Call, HandleError(p) PROVE OneToken'
  <2>1. Token(p)
    BY DEF OneToken
  <2>2. Token(p)'
    BY <1>10, <2>1, SameQueue, ReceiveKeeps DEF TypeOK, Token, Quiet, Ended, ExitKind, Message, HandleError, ObserveTerminal
  <2>3. \A q \in Call \ {p} : Token(q)'
    BY <1>10, SameToken, ReceiveKeeps DEF TypeOK, OneToken, ExitKind, Message, HandleError, ObserveTerminal
  <2> QED
    BY <2>2, <2>3 DEF OneToken
<1>11. ASSUME NEW p \in Call, HandleExit(p) PROVE OneToken'
  <2>1. Token(p)
    BY DEF OneToken
  <2>2. Token(p)'
    BY <1>11, <2>1, SameQueue, ReceiveKeeps DEF TypeOK, Token, Quiet, Ended, ExitKind, Message, HandleExit, ObserveTerminal
  <2>3. \A q \in Call \ {p} : Token(q)'
    BY <1>11, SameToken, ReceiveKeeps DEF TypeOK, OneToken, ExitKind, Message, HandleExit, ObserveTerminal
  <2> QED
    BY <2>2, <2>3 DEF OneToken
<1>12. ASSUME NEW p \in Call, Repair(p) PROVE OneToken'
  <2>1. Token(p)
    BY DEF OneToken
  <2>2. Token(p)'
    BY <1>12, <2>1, SameQueue, ReceiveKeeps DEF TypeOK, Token, Quiet, Ended, ExitKind, Message, Repair
  <2>3. \A q \in Call \ {p} : Token(q)'
    BY <1>12, SameToken, ReceiveKeeps DEF TypeOK, OneToken, ExitKind, Message, Repair
  <2> QED
    BY <2>2, <2>3 DEF OneToken
<1>13. ASSUME NEW p \in Call, Relaunch(p) PROVE OneToken'
  <2>1. Token(p)
    BY DEF OneToken
  <2>2. Token(p)'
    BY <1>13, <2>1, SameQueue, PostKeeps DEF TypeOK, Token, Quiet, Ended, ExitKind, Message, Relaunch
  <2>3. \A q \in Call \ {p} : Token(q)'
    BY <1>13, SameToken, PostKeeps DEF TypeOK, OneToken, ExitKind, Message, Relaunch
  <2> QED
    BY <2>2, <2>3 DEF OneToken
<1>14. ASSUME NEW p \in Call, ResetFails(p) PROVE OneToken'
  <2>1. Token(p)
    BY DEF OneToken
  <2>2. Token(p)'
    BY <1>14, <2>1, SameQueue DEF TypeOK, Token, Quiet, Ended, ExitKind, Message, ResetFails, ObserveTerminal
  <2>3. \A q \in Call \ {p} : Token(q)'
    BY <1>14, SameToken DEF TypeOK, OneToken, ExitKind, Message, ResetFails, ObserveTerminal
  <2> QED
    BY <2>2, <2>3 DEF OneToken
<1>15. ASSUME NEW p \in Call, SlotReleased(p) PROVE OneToken'
  BY <1>15, SameToken DEF OneToken, SlotReleased
<1>16. ASSUME NEW p \in Call, Kill(p) PROVE OneToken'
  <2>1. Token(p)
    BY DEF OneToken
  <2>2. Token(p)'
    BY <1>16, <2>1, SameQueue, PostKeeps DEF TypeOK, Token, Quiet, Ended, ExitKind, Message, Kill
  <2>3. \A q \in Call \ {p} : Token(q)'
    BY <1>16, SameToken, PostKeeps DEF TypeOK, OneToken, ExitKind, Message, Kill
  <2> QED
    BY <2>2, <2>3 DEF OneToken
<1>17. ASSUME NEW p \in Call, StartSession(p) PROVE OneToken'
  <2>1. Token(p)
    BY DEF OneToken
  <2>2. Token(p)'
    BY <1>17, <2>1, SameQueue, DeliverKeeps, SendKeeps DEF TypeOK, Token, Quiet, Ended, ExitKind, Message, StartSession
  <2>3. \A q \in Call \ {p} : Token(q)'
    BY <1>17, SameToken, DeliverKeeps, SendKeeps DEF TypeOK, OneToken, ExitKind, Message, StartSession
  <2> QED
    BY <2>2, <2>3 DEF OneToken
<1>18. ASSUME NEW p \in Call, DeliverKill(p) PROVE OneToken'
  <2>1. Token(p)
    BY DEF OneToken
  <2>2. Token(p)'
    BY <1>18, <2>1, SameQueue, DeliverKeeps DEF TypeOK, Token, Quiet, Ended, ExitKind, Message, DeliverKill
  <2>3. \A q \in Call \ {p} : Token(q)'
    BY <1>18, SameToken, DeliverKeeps DEF TypeOK, OneToken, ExitKind, Message, DeliverKill
  <2> QED
    BY <2>2, <2>3 DEF OneToken
<1>19. ASSUME NEW p \in Call, FirstStep(p) PROVE OneToken'
  <2>1. Token(p)
    BY DEF OneToken
  <2>2. Token(p)'
    BY <1>19, <2>1, SameQueue, SendKeeps DEF TypeOK, Token, Quiet, Ended, ExitKind, Message, FirstStep, RunStep
  <2>3. \A q \in Call \ {p} : Token(q)'
    BY <1>19, SameToken, SendKeeps DEF TypeOK, OneToken, ExitKind, Message, FirstStep, RunStep
  <2> QED
    BY <2>2, <2>3 DEF OneToken
<1>20. ASSUME NEW p \in Call, NextStep(p) PROVE OneToken'
  <2>1. Token(p)
    BY DEF OneToken
  <2>2. Token(p)'
    BY <1>20, <2>1, SameQueue, SendKeeps DEF TypeOK, Token, Quiet, Ended, ExitKind, Message, NextStep, RunStep
  <2>3. \A q \in Call \ {p} : Token(q)'
    BY <1>20, SameToken, SendKeeps DEF TypeOK, OneToken, ExitKind, Message, NextStep, RunStep
  <2> QED
    BY <2>2, <2>3 DEF OneToken
<1>21. ASSUME NEW p \in Call, ReportExit(p) PROVE OneToken'
  <2>1. Token(p)
    BY DEF OneToken
  <2>2. Token(p)'
    BY <1>21, <2>1, SameQueue, SendKeeps DEF TypeOK, Token, Quiet, Ended, ExitKind, Message, ReportExit
  <2>3. \A q \in Call \ {p} : Token(q)'
    BY <1>21, SameToken, SendKeeps DEF TypeOK, OneToken, ExitKind, Message, ReportExit
  <2> QED
    BY <2>2, <2>3 DEF OneToken
<1>22. ASSUME NEW p \in Call, SpoolAppendFails(p) PROVE OneToken'
  <2>1. Token(p)
    BY DEF OneToken
  <2>2. Token(p)'
    BY <1>22, <2>1, SameQueue, SendKeeps DEF TypeOK, Token, Quiet, Ended, ExitKind, Message, SpoolAppendFails
  <2>3. \A q \in Call \ {p} : Token(q)'
    BY <1>22, SameToken, SendKeeps DEF TypeOK, OneToken, ExitKind, Message, SpoolAppendFails
  <2> QED
    BY <2>2, <2>3 DEF OneToken
<1>23. ASSUME NEW p \in Call, PipelineSpawnFails(p) PROVE OneToken'
  <2>1. Token(p)
    BY DEF OneToken
  <2>2. Token(p)'
    BY <1>23, <2>1, SameQueue, SendKeeps DEF TypeOK, Token, Quiet, Ended, ExitKind, Message, PipelineSpawnFails
  <2>3. \A q \in Call \ {p} : Token(q)'
    BY <1>23, SameToken, SendKeeps DEF TypeOK, OneToken, ExitKind, Message, PipelineSpawnFails
  <2> QED
    BY <2>2, <2>3 DEF OneToken
<1>24. ASSUME NEW p \in Call, FinishSession(p) PROVE OneToken'
  <2>1. Token(p)
    BY DEF OneToken
  <2>2. Token(p)'
    BY <1>24, <2>1, SameQueue DEF TypeOK, Token, Quiet, Ended, ExitKind, Message, FinishSession
  <2>3. \A q \in Call \ {p} : Token(q)'
    BY <1>24, SameToken DEF TypeOK, OneToken, ExitKind, Message, FinishSession
  <2> QED
    BY <2>2, <2>3 DEF OneToken
<1>25. ASSUME NEW p \in Call, SessionCrashes(p) PROVE OneToken'
  <2>1. Token(p)
    BY DEF OneToken
  <2>2. Token(p)'
    BY <1>25, <2>1, SameQueue, SendKeeps DEF TypeOK, Token, Quiet, Ended, ExitKind, Message, SessionCrashes
  <2>3. \A q \in Call \ {p} : Token(q)'
    BY <1>25, SameToken, SendKeeps DEF TypeOK, OneToken, ExitKind, Message, SessionCrashes
  <2> QED
    BY <2>2, <2>3 DEF OneToken
<1>26. ASSUME NEW p \in Call, ChildExits(p) PROVE OneToken'
  <2>1. Token(p)
    BY DEF OneToken
  <2>2. Token(p)'
    BY <1>26, <2>1, SameQueue DEF TypeOK, Token, Quiet, Ended, ExitKind, Message, ChildExits
  <2>3. \A q \in Call \ {p} : Token(q)'
    BY <1>26, SameToken DEF TypeOK, OneToken, ExitKind, Message, ChildExits
  <2> QED
    BY <2>2, <2>3 DEF OneToken
<1>27. CASE LauncherDies
  <2>1. ASSUME NEW q \in Call PROVE Token(q)'
    <3>1. toLauncher'[q] = <<>> /\ session'[q] = "none"
      BY <1>27 DEF LauncherDies
    <3>2. ~LaunchQueued(q)' /\ OneLaunch(q)'
      BY <3>1, EmptyQueue DEF LaunchQueued, OneLaunch
    <3> QED
      BY <1>27, <3>1, <3>2, SameQueue DEF OneToken, Token, Quiet, Ended, LauncherDies
  <2> QED
    BY <2>1 DEF OneToken
<1>28. CASE FailSharedLauncher
  <2>1. ASSUME NEW q \in Call PROVE Token(q)'
    <3>1. outcome'[q] = outcome[q] \/ outcome'[q] = "error"
      BY <1>28 DEF FailSharedLauncher, ObserveTerminal
    <3> QED
      BY <1>28, <3>1, SameQueue DEF OneToken, Token, Quiet, Ended, ExitKind, FailSharedLauncher
  <2> QED
    BY <2>1 DEF OneToken
<1>29. CASE UNCHANGED vars
  BY <1>29, SameToken DEF OneToken, vars
<1> QED
  BY <1>1, <1>2, <1>3, <1>4, <1>5, <1>6, <1>7, <1>8, <1>9, <1>10, <1>11, <1>12, <1>13, <1>14, <1>15, <1>16, <1>17, <1>18, <1>19, <1>20, <1>21, <1>22, <1>23, <1>24, <1>25, <1>26, <1>27, <1>28, <1>29 DEF Next, Start, Manage, Launch

LEMMA SlotsHeldStep ==
  TypeOK /\ NotStarted /\ SlotsHeld /\ [Next]_vars => SlotsHeld'
<1> SUFFICES ASSUME TypeOK, NotStarted, SlotsHeld, [Next]_vars PROVE SlotsHeld'
  OBVIOUS
<1> USE DEF SlotsHeld, Live, startVars, managerVars
<1>a. IsFiniteSet(slots) /\ Cardinality(slots) \in Nat /\ MaxLiveTotal \in Nat
  BY ConstantsAssumption, FS_Subset, FS_CardinalityType DEF TypeOK
<1>b. ASSUME NEW p \in Call, ~HostFull PROVE Cardinality(slots \cup {p}) <= MaxLiveTotal
  <2>1. Cardinality(slots \cup {p}) = IF p \in slots THEN Cardinality(slots) ELSE Cardinality(slots) + 1
    BY <1>a, FS_AddElement
  <2>2. Cardinality(slots) + 1 <= MaxLiveTotal
    BY <1>a, <1>b DEF HostFull
  <2> QED
    BY <1>a, <2>1, <2>2
<1>c. ASSUME NEW p \in Call PROVE Cardinality(slots \ {p}) <= MaxLiveTotal
  <2>1. Cardinality(slots \ {p}) = IF p \in slots THEN Cardinality(slots) - 1 ELSE Cardinality(slots)
    BY <1>a, FS_RemoveElement
  <2> QED
    BY <1>a, <2>1
<1>1. ASSUME NEW p \in Call, BeginStart(p) PROVE SlotsHeld'
  BY <1>1 DEF TypeOK, BeginStart, PrunedTo
<1>2. ASSUME NEW p \in Call, RefuseStart(p) PROVE SlotsHeld'
  BY <1>2 DEF TypeOK, RefuseStart
<1>3. ASSUME NEW p \in Call, CheckStart(p) PROVE SlotsHeld'
  BY <1>3 DEF TypeOK, CheckStart
<1>4. ASSUME NEW p \in Call, ClaimSlot(p) PROVE SlotsHeld'
  BY <1>4, <1>b DEF TypeOK, ClaimSlot
<1>5. ASSUME NEW p \in Call, SpoolFails(p) PROVE SlotsHeld'
  BY <1>5, <1>c DEF TypeOK, NotStarted, Untouched, SpoolFails
<1>6. ASSUME NEW p \in Call, Register(p) PROVE SlotsHeld'
  BY <1>6 DEF TypeOK, Register
<1>7. ASSUME NEW p \in Call, StartSync(p) PROVE SlotsHeld'
  <2>1. slots' = slots \cup {p} /\ Cardinality(slots') <= MaxLiveTotal
    BY <1>7, <1>b DEF StartSync
  <2>2. PICK kept \in Keepable : entry' \in {PrunedTo(kept), [PrunedTo(kept) EXCEPT ![p] = "live"]}
    BY <1>7 DEF StartSync
  <2>3. \A q \in Call \ {p} : entry'[q] = "live" => entry[q] = "live"
    BY <2>2 DEF TypeOK, PrunedTo
  <2>4. \A q \in Call \ {p} : phase'[q] = phase[q]
    BY <1>7 DEF TypeOK, StartSync
  <2> QED
    BY <2>1, <2>3, <2>4
<1>8. ASSUME NEW p \in Call, IgnoreMessage(p) PROVE SlotsHeld'
  BY <1>8 DEF IgnoreMessage
<1>9. ASSUME NEW p \in Call, HandleStarted(p) PROVE SlotsHeld'
  BY <1>9 DEF HandleStarted
<1>10. ASSUME NEW p \in Call, HandleError(p) PROVE SlotsHeld'
  BY <1>10 DEF TypeOK, HandleError, ObserveTerminal
<1>11. ASSUME NEW p \in Call, HandleExit(p) PROVE SlotsHeld'
  BY <1>11 DEF TypeOK, HandleExit, ObserveTerminal
<1>12. ASSUME NEW p \in Call, Repair(p) PROVE SlotsHeld'
  BY <1>12 DEF Repair
<1>13. ASSUME NEW p \in Call, Relaunch(p) PROVE SlotsHeld'
  BY <1>13 DEF Relaunch
<1>14. ASSUME NEW p \in Call, ResetFails(p) PROVE SlotsHeld'
  BY <1>14 DEF TypeOK, ResetFails, ObserveTerminal
<1>15. ASSUME NEW p \in Call, SlotReleased(p) PROVE SlotsHeld'
  BY <1>15, <1>c DEF TypeOK, SlotReleased
<1>16. ASSUME NEW p \in Call, Kill(p) PROVE SlotsHeld'
  BY <1>16 DEF Kill
<1>17. ASSUME NEW p \in Call, StartSession(p) PROVE SlotsHeld'
  BY <1>17 DEF StartSession
<1>18. ASSUME NEW p \in Call, DeliverKill(p) PROVE SlotsHeld'
  BY <1>18 DEF DeliverKill
<1>19. ASSUME NEW p \in Call, FirstStep(p) PROVE SlotsHeld'
  BY <1>19 DEF FirstStep
<1>20. ASSUME NEW p \in Call, NextStep(p) PROVE SlotsHeld'
  BY <1>20 DEF NextStep
<1>21. ASSUME NEW p \in Call, ReportExit(p) PROVE SlotsHeld'
  BY <1>21 DEF ReportExit
<1>22. ASSUME NEW p \in Call, SpoolAppendFails(p) PROVE SlotsHeld'
  BY <1>22 DEF SpoolAppendFails
<1>23. ASSUME NEW p \in Call, PipelineSpawnFails(p) PROVE SlotsHeld'
  BY <1>23 DEF PipelineSpawnFails
<1>24. ASSUME NEW p \in Call, FinishSession(p) PROVE SlotsHeld'
  BY <1>24 DEF FinishSession
<1>25. ASSUME NEW p \in Call, SessionCrashes(p) PROVE SlotsHeld'
  BY <1>25 DEF SessionCrashes
<1>26. ASSUME NEW p \in Call, ChildExits(p) PROVE SlotsHeld'
  BY <1>26 DEF ChildExits
<1>27. CASE LauncherDies
  BY <1>27 DEF LauncherDies
<1>28. CASE FailSharedLauncher
  BY <1>28 DEF TypeOK, FailSharedLauncher, ObserveTerminal
<1>29. CASE UNCHANGED vars
  BY <1>29 DEF vars
<1> QED
  BY <1>1, <1>2, <1>3, <1>4, <1>5, <1>6, <1>7, <1>8, <1>9, <1>10, <1>11, <1>12, <1>13, <1>14, <1>15, <1>16, <1>17, <1>18, <1>19, <1>20, <1>21, <1>22, <1>23, <1>24, <1>25, <1>26, <1>27, <1>28, <1>29 DEF Next, Start, Manage, Launch

-----------------------------------------------------------------------------
(* The theorems.                                                           *)

LEMMA InitEstablishes == Init => IInv
<1> SUFFICES ASSUME Init PROVE IInv
  OBVIOUS
<1>1. TypeOK
  <2>1. toLauncher \in [Call -> Seq({"launch", "kill"})] /\ toMain \in [Call -> Seq(Message)]
    BY DEF Init
  <2>2. step \in [Call -> 0 .. MaxSteps]
    BY ConstantsAssumption DEF Init
  <2>3. handlers \subseteq Call /\ slots \subseteq Call
    BY DEF Init
  <2> QED
    BY <2>1, <2>2, <2>3 DEF Init, TypeOK, Phase
<1>2. NotStarted /\ LiveUntilOutcome
  BY DEF Init, NotStarted, Untouched, LiveUntilOutcome
<1>3. OneToken
  BY EmptyQueue DEF Init, OneToken, Token, Ended, ExitKind,
                    LaunchQueued, OneLaunch, ExitQueued, OneExit
<1>4. SlotsHeld
  BY ConstantsAssumption, FS_EmptySet DEF Init, SlotsHeld, Live
<1> QED
  BY <1>1, <1>2, <1>3, <1>4 DEF IInv

LEMMA NextPreserves == IInv /\ [Next]_vars => IInv'
  BY TypeStep, NotStartedStep, LiveUntilOutcomeStep, OneTokenStep, SlotsHeldStep DEF IInv

\* The inductive invariant of the lifecycle holds in every reachable state.
THEOREM Invariance == Spec => []IInv
<1>1. Init => IInv
  BY InitEstablishes
<1>2. IInv /\ [Next]_vars => IInv'
  BY NextPreserves
<1> QED
  BY <1>1, <1>2, PTL DEF Spec

\* Every variable of the lifecycle keeps its type.
THEOREM TypeCorrect == Spec => []TypeOK
<1>1. IInv => TypeOK
  BY DEF IInv
<1> QED
  BY <1>1, Invariance, PTL

\* A process whose published outcome is an exit has no running child: with the
\* token in the outcome, no launch, session, exit message or reset can have it.
THEOREM ExitIsLast == Spec => []ExitMeansChildGone
<1>1. IInv => ExitMeansChildGone
  BY DEF IInv, OneToken, Token, Ended, Quiet, ExitMeansChildGone
<1> QED
  BY <1>1, Invariance, PTL

\* The host cap bounds the running children of the processes not reported with
\* an error: each of them is live and holds a slot of its own.
THEOREM HostCapIsKept == Spec => []HostCapBoundsChildren
<1>1. IInv => HostCapBoundsChildren
  <2> SUFFICES ASSUME IInv PROVE HostCapBoundsChildren
    OBVIOUS
  <2> DEFINE Running == {p \in Call : child[p] = "running" /\ outcome[p] # "error"}
  <2>1. ASSUME NEW p \in Running PROVE p \in slots
    <3>1. phase[p] = "returned" /\ ~Ended(p)
      BY DEF IInv, NotStarted, Untouched, OneToken, Token, Quiet
    <3>2. outcome[p] = "none"
      BY <3>1 DEF IInv, TypeOK, Ended
    <3> QED
      BY <3>1, <3>2 DEF IInv, LiveUntilOutcome, SlotsHeld
  <2>2. IsFiniteSet(slots)
    BY ConstantsAssumption, FS_Subset DEF IInv, TypeOK
  <2>3. Cardinality(Running) <= Cardinality(slots)
    BY <2>1, <2>2, FS_Subset
  <2>4. Cardinality(Running) \in Nat /\ Cardinality(slots) \in Nat
    BY <2>1, <2>2, FS_Subset, FS_CardinalityType
  <2> QED
    BY <2>3, <2>4, ConstantsAssumption DEF IInv, SlotsHeld, HostCapBoundsChildren
<1> QED
  BY <1>1, Invariance, PTL

\* No step rewrites a published outcome.
THEOREM OutcomeNeverRewritten == Spec => OutcomeIsFinal
<1>1. IInv /\ [Next]_vars => \A p \in Call : outcome[p] # "none" => outcome'[p] = outcome[p]
  <2> SUFFICES ASSUME IInv, [Next]_vars, NEW q \in Call, outcome[q] # "none"
               PROVE  outcome'[q] = outcome[q]
    OBVIOUS
  <2>1. ~Live(q)
    BY DEF IInv, NotStarted, Untouched, LiveUntilOutcome, Live
  <2>2. \A S, kind : ObserveTerminal(S, kind) => outcome'[q] = outcome[q]
    BY <2>1 DEF ObserveTerminal
  <2>3. ASSUME NEW p \in Call, Start(p) PROVE outcome' = outcome
    BY <2>3 DEF Start, BeginStart, RefuseStart, CheckStart, ClaimSlot, SpoolFails, Register,
                StartSync, Enter, managerVars
  <2>4. ASSUME NEW p \in Call, Manage(p) PROVE outcome'[q] = outcome[q]
    BY <2>2, <2>4 DEF Manage, IgnoreMessage, HandleStarted, HandleError, HandleExit, Repair,
                      Relaunch, ResetFails, SlotReleased, Kill, managerVars
  <2>5. ASSUME NEW p \in Call, Launch(p) PROVE outcome' = outcome
    BY <2>5 DEF Launch, StartSession, DeliverKill, FirstStep, NextStep, ReportExit,
                SpoolAppendFails, PipelineSpawnFails, FinishSession, SessionCrashes,
                ChildExits, managerVars
  <2>6. CASE LauncherDies
    BY <2>6 DEF LauncherDies, managerVars
  <2>7. CASE FailSharedLauncher
    BY <2>2, <2>7 DEF FailSharedLauncher
  <2>8. CASE UNCHANGED vars
    BY <2>8 DEF vars, managerVars
  <2> QED
    BY <2>3, <2>4, <2>5, <2>6, <2>7, <2>8 DEF Next
<1>2. [](IInv) /\ [][Next]_vars => [][\A p \in Call : outcome[p] # "none" => outcome'[p] = outcome[p]]_vars
  BY <1>1, PTL
<1> QED
  BY <1>2, Invariance DEF Spec, OutcomeIsFinal

-----------------------------------------------------------------------------
(* The retrieval stop.  A marker on file is as long-lived as every recall   *)
(* that ended well and has written its own, unless one was lost to a        *)
(* removal or a write that crossed it.                                     *)

RecallAt == {"running", "opening", "filling", "adrift", "written", "settled", "told", "lost"}
SearchAt == {"idle", "looking", "expiring", "refused", "passed", "lost"}
SweepAt == {"idle", "listing", "reading", "removing"}

StopTyped ==
  /\ now \in Nat /\ file \in Int /\ spoiled \in BOOLEAN
  /\ recall \in [Recall -> [at : RecallAt, end : Nat, armed : BOOLEAN]]
  /\ search \in [Search -> [at : SearchAt, read : Int]]
  /\ sweep \in [Server -> [at : SweepAt, since : Nat, read : Int]]

\* Who writes a marker ended well; who writes into a file without a name was crossed.
Writers ==
  \A r \in Recall : /\ recall[r].at \in {"opening", "filling", "adrift", "written"} => recall[r].armed
                    /\ recall[r].at = "adrift" => spoiled

\* What was written, is written by a recall that ended well, or that is gone since.
Wrote(r) ==
  \/ recall[r].at = "lost"
  \/ recall[r].at \in {"written", "settled", "told"} /\ recall[r].armed
Source(v) == \E r \in Recall : Wrote(r) /\ recall[r].end + Life = v
Sources ==
  /\ Stop!IsMarker(file) => Source(file)
  /\ \A q \in Search : search[q].at = "refused" => Source(search[q].read)

\* What is about to be removed had expired when it was read, or was no marker.
Removers ==
  /\ \A q \in Search : search[q].at = "expiring" => search[q].read <= now
  /\ \A s \in Server : /\ sweep[s].since <= now
                       /\ sweep[s].at = "removing" => Stop!Sweeps(sweep[s].read, sweep[s].since)

Covers(r) ==
  recall[r].at \in {"written", "settled", "told"} /\ recall[r].armed /\ now < recall[r].end + Life =>
    Stop!Filling # {} \/ file >= recall[r].end + Life
Covered == ~spoiled => \A r \in Recall : Covers(r)

LEMMA SweepBegins ==
  ASSUME StopTyped, NEW s \in Server, Stop!BeginsSweep(s)
  PROVE  /\ sweep' \in [Server -> [at : SweepAt, since : Nat, read : Int]]
         /\ (\A t \in Server : sweep[t].since <= now) => \A t \in Server : sweep'[t].since <= now
         /\ \A t \in Server : sweep'[t].at = "removing" => sweep'[t] = sweep[t]
BY DEF StopTyped, Stop!BeginsSweep, SweepAt

LEMMA StopTypedStep == StopTyped /\ [Stop!StopNext]_(Stop!stopVars) => StopTyped'
<1> SUFFICES ASSUME StopTyped, [Stop!StopNext]_(Stop!stopVars) PROVE StopTyped'
  OBVIOUS
<1> USE StopAssumption DEF Stop!StopAssumption, StopTyped
<1>1. ASSUME NEW r \in Recall, NEW code \in {0, 1}, Stop!Finish(r, code) PROVE StopTyped'
  BY <1>1 DEF Stop!Finish, RecallAt
<1>2. ASSUME NEW r \in Recall, Stop!Truncate(r) \/ Stop!Fill(r) \/ Stop!WriteFails(r) \/ Stop!Tell(r)
      PROVE  StopTyped'
  <2>a. \A at \in RecallAt : Stop!Goes(r, at) => recall' \in [Recall -> [at : RecallAt, end : Nat, armed : BOOLEAN]]
    BY DEF Stop!Goes
  <2>1. CASE Stop!Truncate(r) \/ Stop!Tell(r)
    <3>1. file' \in Int
      BY <2>1 DEF Stop!Truncate, Stop!Tell, Stop!Torn
    <3>2. Stop!Goes(r, "filling") \/ Stop!Goes(r, "told")
      BY <2>1 DEF Stop!Truncate, Stop!Tell
    <3>3. recall' \in [Recall -> [at : RecallAt, end : Nat, armed : BOOLEAN]]
      BY <2>a, <3>2 DEF RecallAt
    <3>4. QED
      BY <2>1, <3>1, <3>3 DEF Stop!Truncate, Stop!Tell
  <2>2. CASE Stop!Fill(r)
    BY <2>2 DEF Stop!Fill, Stop!Goes, Stop!Expiry, RecallAt
  <2>3. CASE Stop!WriteFails(r)
    <3>1. [recall[r] EXCEPT !.at = "settled", !.armed = FALSE] \in [at : RecallAt, end : Nat, armed : BOOLEAN]
      BY DEF RecallAt
    <3>2. recall' = [recall EXCEPT ![r] = [recall[r] EXCEPT !.at = "settled", !.armed = FALSE]]
      BY <2>3 DEF Stop!WriteFails
    <3>3. QED
      BY <2>3, <3>1, <3>2 DEF Stop!WriteFails
  <2>4. QED
    BY <1>2, <2>1, <2>2, <2>3
<1>3. ASSUME NEW r \in Recall, Stop!Settle(r) PROVE StopTyped'
  <2>1. HomeOf[r] \in Server
    OBVIOUS
  <2>2. QED
    BY <1>3, <2>1, SweepBegins DEF Stop!Settle, Stop!Goes, RecallAt
<1>4. ASSUME NEW s \in Server, Stop!List(s) \/ Stop!ReadEntry(s) PROVE StopTyped'
  <2>1. sweep' \in [Server -> [at : SweepAt, since : Nat, read : Int]]
    <3>1. CASE Stop!List(s)
      BY <3>1 DEF Stop!List, SweepAt
    <3>2. CASE Stop!ReadEntry(s)
      <4>1. Stop!Idle \in [at : SweepAt, since : Nat, read : Int]
        BY DEF Stop!Idle, SweepAt
      <4>2. [sweep[s] EXCEPT !.at = "removing", !.read = file] \in [at : SweepAt, since : Nat, read : Int]
        BY DEF SweepAt
      <4>3. QED
        BY <3>2, <4>1, <4>2 DEF Stop!ReadEntry
    <3>3. QED
      BY <1>4, <3>1, <3>2
  <2>2. QED
    BY <1>4, <2>1 DEF Stop!List, Stop!ReadEntry
<1>5. ASSUME NEW read, Stop!Remove(read)
      PROVE  file' \in Int /\ spoiled' \in BOOLEAN /\ recall' \in [Recall -> [at : RecallAt, end : Nat, armed : BOOLEAN]]
  <2>1. \A r \in Recall : [recall[r] EXCEPT !.at = "adrift"] \in [at : RecallAt, end : Nat, armed : BOOLEAN]
    BY DEF RecallAt
  <2>2. recall' \in [Recall -> [at : RecallAt, end : Nat, armed : BOOLEAN]]
    BY <1>5, <2>1 DEF Stop!Remove
  <2>3. QED
    BY <1>5, <2>2 DEF Stop!Remove, Stop!Absent
<1>6. ASSUME NEW s \in Server, Stop!RemoveEntry(s) PROVE StopTyped'
  BY <1>5, <1>6 DEF Stop!RemoveEntry, Stop!Idle, SweepAt
<1>7. ASSUME NEW q \in Search, Stop!BeginSearch(q) PROVE StopTyped'
  <2>1. HomeOf[q] \in Server
    OBVIOUS
  <2>2. QED
    BY <1>7, <2>1, SweepBegins DEF Stop!BeginSearch, SearchAt
<1>8. ASSUME NEW q \in Search, Stop!LookUp(q) PROVE StopTyped'
  BY <1>8 DEF Stop!LookUp, SearchAt
<1>9. ASSUME NEW q \in Search, Stop!RemoveExpired(q) PROVE StopTyped'
  BY <1>5, <1>9 DEF Stop!RemoveExpired, SearchAt
<1>10. ASSUME NEW s \in Server, Stop!Restart(s) PROVE StopTyped'
  <2>1. sweep' \in [Server -> [at : SweepAt, since : Nat, read : Int]]
    <3>1. Stop!Idle \in [at : SweepAt, since : Nat, read : Int]
      BY DEF Stop!Idle, SweepAt
    <3>2. sweep' = [sweep EXCEPT ![s] = Stop!Idle]
      BY <1>10 DEF Stop!Restart
    <3>3. QED
      BY <3>1, <3>2
  <2>2. search' \in [Search -> [at : SearchAt, read : Int]]
    BY <1>10 DEF Stop!Restart, SearchAt
  <2>3. recall' \in [Recall -> [at : RecallAt, end : Nat, armed : BOOLEAN]]
    <3>1. \A x \in [at : RecallAt, end : Nat, armed : BOOLEAN] :
            /\ [x EXCEPT !.at = "lost", !.armed = FALSE] \in [at : RecallAt, end : Nat, armed : BOOLEAN]
            /\ [x EXCEPT !.at = "adrift"] \in [at : RecallAt, end : Nat, armed : BOOLEAN]
      BY DEF RecallAt
    <3>2. /\ recall' = [r \in Recall |-> recall'[r]]
          /\ \A r \in Recall : \/ recall'[r] = recall[r]
                               \/ recall'[r] = [recall[r] EXCEPT !.at = "lost", !.armed = FALSE]
                               \/ recall'[r] = [recall[r] EXCEPT !.at = "adrift"]
      BY <1>10 DEF Stop!Restart
    <3>3. ASSUME NEW r \in Recall PROVE recall'[r] \in [at : RecallAt, end : Nat, armed : BOOLEAN]
      <4>1. recall[r] \in [at : RecallAt, end : Nat, armed : BOOLEAN]
        OBVIOUS
      <4>2. QED
        BY <3>1, <3>2, <4>1
    <3>4. QED
      BY <3>2, <3>3
  <2>4. file' \in Int /\ spoiled' \in BOOLEAN /\ now' = now
    <3>1. /\ file' = IF Stop!ClearedAtOnce THEN Stop!Absent ELSE file
          /\ spoiled' = (spoiled \/ Stop!Filling # {})
          /\ now' = now
      BY <1>10 DEF Stop!Restart
    <3>2. Stop!Absent \in Int
      BY DEF Stop!Absent
    <3>3. QED
      BY <3>1, <3>2
  <2>5. QED
    BY <2>1, <2>2, <2>3, <2>4
<1>11. CASE Stop!Tick \/ UNCHANGED Stop!stopVars
  BY <1>11 DEF Stop!Tick, Stop!stopVars
<1>12. QED
  BY <1>1, <1>2, <1>3, <1>4, <1>6, <1>7, <1>8, <1>9, <1>10, <1>11 DEF Stop!StopNext

\* What a step does to a recall: it goes on, or is lost or crossed; its end stays when
\* it has one, and what has been written stays written or is lost.
Goes(r) ==
  /\ recall[r].at # "running" => recall'[r].end = recall[r].end
  /\ Wrote(r) => recall[r].at # "running" /\ Wrote(r)'

LEMMA RecallsGo ==
  ASSUME StopTyped, [Stop!StopNext]_(Stop!stopVars), NEW r \in Recall
  PROVE  Goes(r)
<1> USE DEF StopTyped, Goes, Wrote
<1>0. recall[r] \in [at : RecallAt, end : Nat, armed : BOOLEAN]
  OBVIOUS
<1>1. CASE recall' = recall
  BY <1>1
<1>2. ASSUME NEW x \in Recall, NEW code \in {0, 1}, Stop!Finish(x, code) PROVE Goes(r)
  BY <1>2 DEF Stop!Finish
<1>3. ASSUME NEW x \in Recall, Stop!Truncate(x) \/ Stop!Fill(x) \/ Stop!WriteFails(x) \/ Stop!Tell(x) \/ Stop!Settle(x)
      PROVE  Goes(r)
  <2>1. CASE Stop!Truncate(x) \/ Stop!Fill(x)
    BY <2>1 DEF Stop!Truncate, Stop!Fill, Stop!Goes
  <2>2. CASE Stop!Tell(x) \/ Stop!Settle(x)
    <3>1. PICK at \in {"told", "settled"} : recall' = [recall EXCEPT ![x].at = at]
      BY <2>2 DEF Stop!Tell, Stop!Settle, Stop!Goes
    <3>2. recall[x].at \in {"settled", "written"}
      BY <2>2 DEF Stop!Tell, Stop!Settle, Stop!MayTell
    <3>3. CASE x = r
      BY <1>0, <3>1, <3>2, <3>3
    <3>4. CASE x # r
      BY <3>1, <3>4
    <3>5. QED
      BY <3>3, <3>4
  <2>3. CASE Stop!WriteFails(x)
    BY <2>3 DEF Stop!WriteFails
  <2>4. QED
    BY <1>3, <2>1, <2>2, <2>3
<1>4. ASSUME NEW read, Stop!Remove(read) PROVE Goes(r)
  BY <1>4 DEF Stop!Remove, Stop!Filling
<1>5. ASSUME NEW s \in Server, Stop!Restart(s) PROVE Goes(r)
  <2>1. \/ recall'[r] = recall[r]
        \/ recall'[r] = [recall[r] EXCEPT !.at = "lost", !.armed = FALSE]
        \/ recall[r].at = "filling" /\ recall'[r] = [recall[r] EXCEPT !.at = "adrift"]
    BY <1>5 DEF Stop!Restart, Stop!Filling
  <2>2. QED
    BY <1>0, <2>1
<1>6. QED
  BY <1>1, <1>2, <1>3, <1>4, <1>5
  DEF Stop!StopNext, Stop!Tick, Stop!List, Stop!ReadEntry, Stop!RemoveEntry, Stop!BeginSearch, Stop!LookUp,
      Stop!RemoveExpired, Stop!stopVars

\* What was written, after a step.
Sourced(v) == \E r \in Recall : Wrote(r)' /\ recall'[r].end + Life = v

LEMMA SourceStays ==
  ASSUME StopTyped, [Stop!StopNext]_(Stop!stopVars)
  PROVE  \A v : Source(v) => Sourced(v)
BY RecallsGo DEF Source, Sourced, Goes

\* What a removal and a restart do to a recall.
LEMMA RemoveEffect ==
  ASSUME StopTyped, NEW read, Stop!Remove(read), NEW r \in Recall
  PROVE  \/ recall'[r] = recall[r] /\ recall[r].at # "filling"
         \/ recall[r].at = "filling" /\ recall'[r] = [recall[r] EXCEPT !.at = "adrift"] /\ spoiled'
BY DEF StopTyped, Stop!Remove, Stop!Filling

LEMMA RestartEffect ==
  ASSUME StopTyped, NEW s \in Server, Stop!Restart(s), NEW r \in Recall
  PROVE  \/ recall'[r] = recall[r]
         \/ recall'[r] = [recall[r] EXCEPT !.at = "lost", !.armed = FALSE]
         \/ recall[r].at = "filling" /\ recall'[r] = [recall[r] EXCEPT !.at = "adrift"] /\ spoiled'
BY DEF StopTyped, Stop!Restart, Stop!Filling

LEMMA SpoiledStays == StopTyped /\ [Stop!StopNext]_(Stop!stopVars) => (spoiled => spoiled')
<1> SUFFICES ASSUME StopTyped, [Stop!StopNext]_(Stop!stopVars), spoiled PROVE spoiled'
  OBVIOUS
<1>1. ASSUME NEW r \in Recall, \/ \E code \in {0, 1} : Stop!Finish(r, code)
                               \/ Stop!Truncate(r) \/ Stop!Fill(r) \/ Stop!Settle(r) \/ Stop!WriteFails(r) \/ Stop!Tell(r)
      PROVE  spoiled'
  BY <1>1 DEF Stop!Finish, Stop!Truncate, Stop!Fill, Stop!Settle, Stop!WriteFails, Stop!Tell
<1>2. QED
  BY <1>1 DEF Stop!StopNext, Stop!Tick, Stop!List, Stop!ReadEntry, Stop!RemoveEntry, Stop!Remove, Stop!Restart,
              Stop!BeginSearch, Stop!LookUp, Stop!RemoveExpired, Stop!stopVars

LEMMA WritersStep == StopTyped /\ Writers /\ [Stop!StopNext]_(Stop!stopVars) => Writers'
<1> SUFFICES ASSUME StopTyped, Writers, [Stop!StopNext]_(Stop!stopVars), NEW r \in Recall
             PROVE  /\ recall'[r].at \in {"opening", "filling", "adrift", "written"} => recall'[r].armed
                    /\ recall'[r].at = "adrift" => spoiled'
  BY DEF Writers
<1>1. /\ recall[r] \in [at : RecallAt, end : Nat, armed : BOOLEAN]
      /\ recall[r].at \in {"opening", "filling", "adrift", "written"} => recall[r].armed
      /\ recall[r].at = "adrift" => spoiled'
  BY SpoiledStays DEF StopTyped, Writers
<1>2. CASE recall'[r] = recall[r]
  BY <1>1, <1>2
<1>3. ASSUME NEW code \in {0, 1}, Stop!Finish(r, code)
      PROVE  /\ recall'[r].at \in {"opening", "settled"}
             /\ recall'[r].at = "opening" => recall'[r].armed
  BY <1>3 DEF Stop!Finish, Stop!Arms, StopTyped
<1>4. CASE Stop!Truncate(r) \/ Stop!Fill(r) \/ Stop!Settle(r) \/ Stop!Tell(r)
  <2>1. /\ recall[r].at \in {"opening", "filling", "adrift", "written", "settled"}
        /\ recall'[r].armed = recall[r].armed
        /\ recall'[r].at \in {"filling", "written", "settled", "told"}
        /\ recall[r].at = "settled" => recall'[r].at = "told"
    BY <1>4 DEF Stop!Truncate, Stop!Fill, Stop!Settle, Stop!Tell, Stop!MayTell, Stop!Goes, StopTyped
  <2>2. QED
    BY <1>1, <2>1
<1>5. CASE Stop!WriteFails(r)
  BY <1>5 DEF Stop!WriteFails, StopTyped
<1>6. ASSUME NEW read, Stop!Remove(read)
      PROVE  \/ recall'[r] = recall[r]
             \/ recall[r].at = "filling" /\ recall'[r] = [recall[r] EXCEPT !.at = "adrift"] /\ spoiled'
  BY <1>6, RemoveEffect
<1>7. ASSUME NEW s \in Server, Stop!Restart(s)
      PROVE  \/ recall'[r] = recall[r]
             \/ recall'[r] = [recall[r] EXCEPT !.at = "lost", !.armed = FALSE]
             \/ recall[r].at = "filling" /\ recall'[r] = [recall[r] EXCEPT !.at = "adrift"] /\ spoiled'
  BY <1>7, RestartEffect
<1>8. ASSUME NEW x \in Recall \ {r}, \/ \E code \in {0, 1} : Stop!Finish(x, code)
                                     \/ Stop!Truncate(x) \/ Stop!Fill(x) \/ Stop!Settle(x) \/ Stop!WriteFails(x) \/ Stop!Tell(x)
      PROVE  recall'[r] = recall[r]
  BY <1>8 DEF Stop!Finish, Stop!Truncate, Stop!Fill, Stop!Settle, Stop!WriteFails, Stop!Tell, Stop!Goes, StopTyped
<1>9. \/ recall'[r] = recall[r]
      \/ \E code \in {0, 1} : Stop!Finish(r, code)
      \/ Stop!Truncate(r) \/ Stop!Fill(r) \/ Stop!Settle(r) \/ Stop!Tell(r)
      \/ Stop!WriteFails(r)
      \/ \E read : Stop!Remove(read)
      \/ \E s \in Server : Stop!Restart(s)
  <2>1. ASSUME NEW x \in Recall,
               \/ \E code \in {0, 1} : Stop!Finish(x, code)
               \/ Stop!Truncate(x) \/ Stop!Fill(x) \/ Stop!Settle(x) \/ Stop!WriteFails(x) \/ Stop!Tell(x)
        PROVE  \/ recall'[r] = recall[r]
               \/ \E code \in {0, 1} : Stop!Finish(r, code)
               \/ Stop!Truncate(r) \/ Stop!Fill(r) \/ Stop!Settle(r) \/ Stop!WriteFails(r) \/ Stop!Tell(r)
    <3>1. CASE x = r
      BY <2>1, <3>1
    <3>2. CASE x # r
      BY <1>8, <2>1, <3>2
    <3>3. QED
      BY <3>1, <3>2
  <2>2. ASSUME NEW s \in Server, Stop!List(s) \/ Stop!ReadEntry(s) \/ Stop!RemoveEntry(s) PROVE
          recall'[r] = recall[r] \/ \E read : Stop!Remove(read)
    BY <2>2 DEF Stop!List, Stop!ReadEntry, Stop!RemoveEntry
  <2>3. ASSUME NEW q \in Search, Stop!BeginSearch(q) \/ Stop!LookUp(q) \/ Stop!RemoveExpired(q) PROVE
          recall'[r] = recall[r] \/ \E read : Stop!Remove(read)
    BY <2>3 DEF Stop!BeginSearch, Stop!LookUp, Stop!RemoveExpired
  <2>4. CASE Stop!Tick \/ UNCHANGED Stop!stopVars
    BY <2>4 DEF Stop!Tick, Stop!stopVars
  <2>5. QED
    BY <2>1, <2>2, <2>3, <2>4 DEF Stop!StopNext
<1>10. QED
  BY <1>1, <1>2, <1>3, <1>4, <1>5, <1>6, <1>7, <1>9

\* What a step does to a search.
LEMMA SearchesGo ==
  ASSUME StopTyped, [Stop!StopNext]_(Stop!stopVars), NEW q \in Search
  PROVE  \/ search'[q] = search[q]
         \/ search'[q].at \in {"looking", "passed", "lost"}
         \/ /\ search'[q].read = file /\ Stop!IsMarker(file)
            /\ search'[q].at = "expiring" => ~Stop!Active(file)
<1> USE DEF StopTyped
<1>1. ASSUME NEW x \in Search, Stop!LookUp(x)
      PROVE  \/ search'[q] = search[q]
             \/ search'[q].at = "passed"
             \/ /\ search'[q].read = file /\ Stop!IsMarker(file)
                /\ search'[q].at = "expiring" => ~Stop!Active(file)
  BY <1>1 DEF Stop!LookUp, Stop!Active
<1>2. ASSUME NEW x \in Search, Stop!BeginSearch(x) \/ Stop!RemoveExpired(x)
      PROVE  search'[q] = search[q] \/ search'[q].at \in {"looking", "passed"}
  BY <1>2 DEF Stop!BeginSearch, Stop!RemoveExpired
<1>3. ASSUME NEW s \in Server, Stop!Restart(s)
      PROVE  search'[q] = search[q] \/ search'[q].at = "lost"
  BY <1>3 DEF Stop!Restart
<1>4. ASSUME NEW r \in Recall, \/ \E code \in {0, 1} : Stop!Finish(r, code)
                               \/ Stop!Truncate(r) \/ Stop!Fill(r) \/ Stop!Settle(r) \/ Stop!WriteFails(r) \/ Stop!Tell(r)
      PROVE  search' = search
  BY <1>4 DEF Stop!Finish, Stop!Truncate, Stop!Fill, Stop!Settle, Stop!WriteFails, Stop!Tell
<1>5. QED
  BY <1>1, <1>2, <1>3, <1>4
  DEF Stop!StopNext, Stop!Tick, Stop!List, Stop!ReadEntry, Stop!RemoveEntry, Stop!stopVars

LEMMA SourcesStep == StopTyped /\ Writers /\ Sources /\ [Stop!StopNext]_(Stop!stopVars) => Sources'
<1> SUFFICES ASSUME StopTyped, Writers, Sources, [Stop!StopNext]_(Stop!stopVars) PROVE Sources'
  OBVIOUS
<1>1. \A v : Source(v) => Sourced(v)
  BY SourceStays
<1>2. Stop!IsMarker(file') => Sourced(file')
  <2>1. CASE file' = file
    BY <1>1, <2>1 DEF Sources
  <2>2. CASE file' \in {Stop!Absent, Stop!Torn}
    BY <2>2 DEF Stop!IsMarker
  <2>3. ASSUME NEW r \in Recall, Stop!Fill(r), file' # file
        PROVE  Sourced(file')
    <3>1. /\ file' = recall[r].end + Life /\ recall[r].at = "filling"
          /\ recall'[r].at = "written" /\ recall'[r].end = recall[r].end /\ recall'[r].armed = recall[r].armed
      BY <2>3 DEF Stop!Fill, Stop!Goes, Stop!Expiry, StopTyped
    <3>2. QED
      BY <3>1 DEF Sourced, Wrote, Writers
  <2>4. \/ file' = file \/ file' \in {Stop!Absent, Stop!Torn}
        \/ \E r \in Recall : Stop!Fill(r)
    <3>1. ASSUME NEW r \in Recall, \/ \E code \in {0, 1} : Stop!Finish(r, code)
                                   \/ Stop!Truncate(r) \/ Stop!Settle(r) \/ Stop!WriteFails(r) \/ Stop!Tell(r)
          PROVE  file' = file \/ file' = Stop!Torn
      BY <3>1 DEF Stop!Finish, Stop!Truncate, Stop!Settle, Stop!WriteFails, Stop!Tell
    <3>2. QED
      BY <3>1 DEF Stop!StopNext, Stop!Tick, Stop!List, Stop!ReadEntry, Stop!RemoveEntry, Stop!Remove,
                  Stop!Restart, Stop!BeginSearch, Stop!LookUp, Stop!RemoveExpired, Stop!stopVars
  <2>5. QED
    BY <2>1, <2>2, <2>3, <2>4
<1>3. ASSUME NEW q \in Search, search'[q].at = "refused" PROVE Sourced(search'[q].read)
  <2>1. CASE search'[q] = search[q]
    BY <1>1, <1>3, <2>1 DEF Sources
  <2>2. search'[q] = search[q] \/ (search'[q].read = file /\ Stop!IsMarker(file))
    BY <1>3, SearchesGo
  <2>3. QED
    BY <1>1, <2>1, <2>2 DEF Sources
<1>4. QED
  BY <1>2, <1>3 DEF Sources, Source, Sourced, Stop!IsMarker, Stop!Absent, Stop!Torn

\* What a step does to a sweep.
LEMMA SweepsGo ==
  ASSUME StopTyped, [Stop!StopNext]_(Stop!stopVars), NEW s \in Server
  PROVE  \/ sweep'[s] = sweep[s]
         \/ sweep'[s].since = now /\ sweep'[s].at = "listing"
         \/ sweep'[s].since = 0 /\ sweep'[s].at = "idle"
         \/ sweep'[s].since = sweep[s].since /\ sweep'[s].at \in {"idle", "reading"}
         \/ /\ sweep'[s].since = sweep[s].since
            /\ Stop!Sweeps(sweep'[s].read, sweep'[s].since)
<1> USE DEF StopTyped
<1>1. ASSUME NEW t \in Server, Stop!BeginsSweep(t)
      PROVE  sweep'[s] = sweep[s] \/ (sweep'[s].since = now /\ sweep'[s].at = "listing")
  BY <1>1 DEF Stop!BeginsSweep
<1>2. ASSUME NEW t \in Server, Stop!List(t)
      PROVE  sweep'[s].since = sweep[s].since /\ (sweep'[s] = sweep[s] \/ sweep'[s].at \in {"idle", "reading"})
  BY <1>2 DEF Stop!List
<1>3. ASSUME NEW t \in Server, Stop!ReadEntry(t)
      PROVE  \/ sweep'[s] = sweep[s]
             \/ sweep'[s].since = 0 /\ sweep'[s].at = "idle"
             \/ sweep'[s].since = sweep[s].since /\ Stop!Sweeps(sweep'[s].read, sweep'[s].since)
  <2>1. CASE s = t /\ Stop!Sweeps(file, sweep[s].since)
    <3>1. sweep'[s] = [sweep[s] EXCEPT !.at = "removing", !.read = file]
      BY <1>3, <2>1 DEF Stop!ReadEntry
    <3>2. sweep'[s].since = sweep[s].since /\ sweep'[s].read = file
      BY <3>1
    <3>3. QED
      BY <2>1, <3>2
  <2>2. CASE ~(s = t /\ Stop!Sweeps(file, sweep[s].since))
    BY <1>3, <2>2 DEF Stop!ReadEntry, Stop!Idle
  <2>3. QED
    BY <2>1, <2>2
<1>4. ASSUME NEW t \in Server, Stop!RemoveEntry(t) \/ Stop!Restart(t)
      PROVE  sweep'[s] = sweep[s] \/ (sweep'[s].since = 0 /\ sweep'[s].at = "idle")
  <2>1. sweep' = [sweep EXCEPT ![t] = Stop!Idle]
    BY <1>4 DEF Stop!RemoveEntry, Stop!Restart
  <2>2. QED
    BY <2>1 DEF Stop!Idle
<1>5. \A x \in Recall \cup Search : HomeOf[x] \in Server
  BY StopAssumption DEF Stop!StopAssumption
<1>6. ASSUME NEW r \in Recall, \/ \E code \in {0, 1} : Stop!Finish(r, code)
                               \/ Stop!Truncate(r) \/ Stop!Fill(r) \/ Stop!Settle(r) \/ Stop!WriteFails(r) \/ Stop!Tell(r)
      PROVE  sweep' = sweep \/ Stop!BeginsSweep(HomeOf[r])
  BY <1>6 DEF Stop!Finish, Stop!Truncate, Stop!Fill, Stop!Settle, Stop!WriteFails, Stop!Tell
<1>7. ASSUME NEW q \in Search, Stop!BeginSearch(q) \/ Stop!LookUp(q) \/ Stop!RemoveExpired(q)
      PROVE  sweep' = sweep \/ Stop!BeginsSweep(HomeOf[q])
  BY <1>7 DEF Stop!BeginSearch, Stop!LookUp, Stop!RemoveExpired
<1>8. CASE Stop!Tick \/ UNCHANGED Stop!stopVars
  BY <1>8 DEF Stop!Tick, Stop!stopVars
<1>9. QED
  <2>1. CASE \E x \in Recall \cup Search : sweep' = sweep \/ Stop!BeginsSweep(HomeOf[x])
    BY <1>1, <1>5, <2>1
  <2>2. QED
    BY <1>2, <1>3, <1>4, <1>6, <1>7, <1>8, <2>1 DEF Stop!StopNext

LEMMA TimeGoes == StopTyped /\ [Stop!StopNext]_(Stop!stopVars) => now' \in {now, now + 1}
<1>1. ASSUME NEW r \in Recall, \/ \E code \in {0, 1} : Stop!Finish(r, code)
                               \/ Stop!Truncate(r) \/ Stop!Fill(r) \/ Stop!Settle(r) \/ Stop!WriteFails(r) \/ Stop!Tell(r)
      PROVE  now' = now
  BY <1>1 DEF Stop!Finish, Stop!Truncate, Stop!Fill, Stop!Settle, Stop!WriteFails, Stop!Tell
<1>2. QED
  BY <1>1 DEF Stop!StopNext, Stop!Tick, Stop!List, Stop!ReadEntry, Stop!RemoveEntry, Stop!Restart,
              Stop!BeginSearch, Stop!LookUp, Stop!RemoveExpired, Stop!stopVars

LEMMA RemoversStep == StopTyped /\ Removers /\ [Stop!StopNext]_(Stop!stopVars) => Removers'
<1> SUFFICES ASSUME StopTyped, Removers, [Stop!StopNext]_(Stop!stopVars) PROVE Removers'
  OBVIOUS
<1>1. now \in Nat /\ now' \in {now, now + 1} /\ now' >= now
  BY TimeGoes DEF StopTyped
<1>2. ASSUME NEW s \in Server
      PROVE  /\ sweep'[s].since <= now'
             /\ sweep'[s].at = "removing" => Stop!Sweeps(sweep'[s].read, sweep'[s].since)
  <2>1. /\ sweep[s].since \in Nat /\ sweep[s].since <= now
        /\ sweep[s].at = "removing" => Stop!Sweeps(sweep[s].read, sweep[s].since)
    BY DEF StopTyped, Removers
  <2>2. QED
    BY <1>1, <2>1, SweepsGo
<1>3. ASSUME NEW q \in Search, search'[q].at = "expiring" PROVE search'[q].read <= now'
  <2>1. CASE search'[q] = search[q]
    <3>1. search[q].read \in Int /\ search[q].read <= now
      BY <1>3, <2>1 DEF StopTyped, Removers
    <3>2. QED
      BY <1>1, <2>1, <3>1
  <2>2. search'[q] = search[q] \/ (search'[q].read = file /\ ~Stop!Active(file) /\ Stop!IsMarker(file))
    BY <1>3, SearchesGo
  <2>3. QED
    BY <1>1, <2>1, <2>2 DEF Stop!Active, StopTyped
<1>4. QED
  BY <1>2, <1>3 DEF Removers, Stop!Sweeps, Stop!IsMarker, Stop!Absent, Stop!Torn

\* A removal that crosses nothing removes no marker that holds.
LEMMA HarmlessRemoval ==
  ASSUME StopTyped, Covered, NEW read, Stop!Remove(read), ~spoiled',
         ~Stop!IsMarker(read) \/ read <= now, NEW r \in Recall, Wrote(r), recall[r].at # "lost"
  PROVE  now >= recall[r].end + Life
<1>1. Stop!Filling = {} /\ ~(Stop!Active(file) /\ file # read) /\ ~spoiled
  BY DEF Stop!Remove
<1>2. now < recall[r].end + Life => file >= recall[r].end + Life
  BY <1>1 DEF Covered, Covers, Wrote
<1>3. now < recall[r].end + Life => Stop!Active(file) /\ file = read /\ now < read
  <2>1. now \in Nat /\ file \in Int /\ recall[r].end + Life \in Int
    BY StopAssumption DEF Stop!StopAssumption, StopTyped
  <2>2. SUFFICES ASSUME now < recall[r].end + Life PROVE Stop!Active(file) /\ file = read /\ now < read
    OBVIOUS
  <2>3. now < file /\ file >= 0
    BY <1>2, <2>1, <2>2
  <2>4. Stop!Active(file)
    BY <2>1, <2>3 DEF Stop!Active, Stop!IsMarker, Stop!Absent, Stop!Torn
  <2>5. QED
    BY <1>1, <2>3, <2>4
<1>4. now \in Nat /\ file \in Int /\ recall[r].end + Life \in Int
  BY StopAssumption DEF Stop!StopAssumption, StopTyped
<1>5. Stop!Active(file) /\ file = read => Stop!IsMarker(read)
  BY DEF Stop!Active
<1>6. QED
  BY <1>3, <1>4, <1>5

LEMMA CoveredStep ==
  StopTyped /\ Writers /\ Removers /\ Covered /\ [Stop!StopNext]_(Stop!stopVars) => Covered'
<1> SUFFICES ASSUME StopTyped, Writers, Removers, Covered, [Stop!StopNext]_(Stop!stopVars), ~spoiled',
                    NEW r \in Recall, Wrote(r)', recall'[r].at # "lost", now' < recall'[r].end + Life
             PROVE  Stop!Filling' # {} \/ file' >= recall'[r].end + Life
  BY DEF Covered, Covers, Wrote
<1>1. /\ ~spoiled /\ now \in Nat /\ file \in Int /\ Life \in Nat
      /\ now' \in {now, now + 1}
      /\ \A x \in Recall : recall[x] \in [at : RecallAt, end : Nat, armed : BOOLEAN] /\ Covers(x)
  BY SpoiledStays, TimeGoes, StopAssumption DEF Stop!StopAssumption, StopTyped, Covered
<1>2. CASE recall' = recall /\ file' = file
  <2>1. now < recall[r].end + Life
    BY <1>1, <1>2
  <2>2. QED
    BY <1>1, <1>2, <2>1 DEF Covers, Wrote, Stop!Filling
<1>3. ASSUME NEW x \in Recall, NEW code \in {0, 1}, Stop!Finish(x, code)
      PROVE  Stop!Filling' # {} \/ file' >= recall'[r].end + Life
  <2>1. /\ recall[x].at = "running" /\ recall'[x].at # "filling" /\ file' = file /\ now' = now
        /\ recall'[x].at = "opening" \/ (recall'[x].at = "settled" /\ ~recall'[x].armed)
        /\ \A y \in Recall \ {x} : recall'[y] = recall[y]
    BY <1>1, <1>3 DEF Stop!Finish, Stop!Arms, StopTyped
  <2>2. r # x
    BY <2>1 DEF Wrote
  <2>3. Stop!Filling' = Stop!Filling
    BY <2>1 DEF Stop!Filling
  <2>4. QED
    BY <1>1, <2>1, <2>2, <2>3 DEF Covers, Wrote
<1>4. ASSUME NEW x \in Recall, Stop!Truncate(x)
      PROVE  Stop!Filling' # {}
  <2>1. recall'[x].at = "filling"
    BY <1>1, <1>4 DEF Stop!Truncate, Stop!Goes, StopTyped
  <2>2. QED
    BY <2>1 DEF Stop!Filling
<1>5. ASSUME NEW x \in Recall, Stop!Fill(x)
      PROVE  file' >= recall'[r].end + Life
  <2>1. recall[x].at # "adrift"
    BY <1>1 DEF Writers
  <2>2. /\ file' = recall[x].end + Life
        /\ ~\E o \in Recall : recall[o].armed /\ Stop!Expiry(o) > Stop!Expiry(x)
        /\ recall[x].at = "filling"
        /\ \A y \in Recall : recall'[y].armed = recall[y].armed /\ recall'[y].end = recall[y].end
    BY <1>1, <1>5, <2>1 DEF Stop!Fill, Stop!Goes, Stop!Expiry, StopTyped
  <2>3. recall[r].armed
    BY <2>2 DEF Wrote
  <2>4. QED
    BY <1>1, <2>2, <2>3 DEF Stop!Expiry
<1>6. ASSUME NEW x \in Recall, Stop!WriteFails(x)
      PROVE  Stop!Filling' # {} \/ file' >= recall'[r].end + Life
  <2>1. /\ recall[x].at = "opening" /\ recall'[x].at = "settled" /\ ~recall'[x].armed
        /\ file' = file /\ now' = now
        /\ \A y \in Recall \ {x} : recall'[y] = recall[y]
    BY <1>1, <1>6 DEF Stop!WriteFails, StopTyped
  <2>2. r # x
    BY <2>1 DEF Wrote
  <2>3. Stop!Filling' = Stop!Filling
    BY <2>1 DEF Stop!Filling
  <2>4. QED
    BY <1>1, <2>1, <2>2, <2>3 DEF Covers, Wrote
<1>7. ASSUME NEW x \in Recall, Stop!Settle(x) \/ Stop!Tell(x)
      PROVE  Stop!Filling' # {} \/ file' >= recall'[r].end + Life
  <2>1. /\ recall[x].at \in {"written", "settled"} /\ recall'[x].at \in {"settled", "told"}
        /\ recall'[x].armed = recall[x].armed /\ recall'[x].end = recall[x].end
        /\ file' = file /\ now' = now
        /\ \A y \in Recall \ {x} : recall'[y] = recall[y]
    BY <1>1, <1>7 DEF Stop!Settle, Stop!Tell, Stop!MayTell, Stop!Goes, StopTyped
  <2>2. Wrote(r) /\ recall[r].at # "lost" /\ recall'[r].end = recall[r].end
    BY <2>1 DEF Wrote
  <2>3. Stop!Filling' = Stop!Filling
    BY <2>1 DEF Stop!Filling
  <2>4. QED
    BY <1>1, <2>1, <2>2, <2>3 DEF Covers, Wrote
<1>8. ASSUME NEW read, Stop!Remove(read), now' = now, ~Stop!IsMarker(read) \/ read <= now
      PROVE  FALSE
  <2>1. recall'[r] = recall[r]
    BY <1>8, RemoveEffect DEF Wrote
  <2>2. now >= recall[r].end + Life
    BY <1>8, <2>1, HarmlessRemoval DEF Wrote
  <2>3. QED
    BY <1>1, <1>8, <2>1, <2>2
<1>9. ASSUME NEW s \in Server, Stop!RemoveEntry(s)
      PROVE  FALSE
  <2>1. /\ Stop!Remove(sweep[s].read) /\ now' = now /\ sweep[s].at = "removing"
        /\ sweep[s].since \in Nat /\ sweep[s].since <= now /\ sweep[s].read \in Int
    BY <1>9 DEF Stop!RemoveEntry, Removers, StopTyped
  <2>2. ~Stop!IsMarker(sweep[s].read) \/ sweep[s].read <= now
    BY <1>1, <2>1 DEF Removers, Stop!Sweeps
  <2>3. QED
    BY <1>8, <2>1, <2>2
<1>10. ASSUME NEW q \in Search, Stop!RemoveExpired(q)
       PROVE  FALSE
  BY <1>8, <1>10 DEF Stop!RemoveExpired, Removers
<1>11. ASSUME NEW s \in Server, Stop!Restart(s)
       PROVE  Stop!Filling' # {} \/ file' >= recall'[r].end + Life
  <2>1. /\ Stop!Filling = {} /\ now' = now
        /\ file' = IF Stop!ClearedAtOnce THEN Stop!Absent ELSE file
    BY <1>11 DEF Stop!Restart
  <2>2. recall'[r] = recall[r]
    BY <1>1, <1>11, RestartEffect DEF Wrote
  <2>3. file >= recall[r].end + Life /\ file > now
    BY <1>1, <2>1, <2>2 DEF Covers, Wrote
  <2>4. ~Stop!ClearedAtOnce
    BY <1>1, <2>3 DEF Stop!ClearedAtOnce, Stop!Sweeps, Stop!IsMarker, Stop!Absent, Stop!Torn
  <2>5. QED
    BY <2>1, <2>2, <2>3, <2>4
<1>12. QED
  <2>1. ASSUME NEW s \in Server, Stop!List(s) \/ Stop!ReadEntry(s) PROVE recall' = recall /\ file' = file
    BY <2>1 DEF Stop!List, Stop!ReadEntry
  <2>2. ASSUME NEW q \in Search, Stop!BeginSearch(q) \/ Stop!LookUp(q) PROVE recall' = recall /\ file' = file
    BY <2>2 DEF Stop!BeginSearch, Stop!LookUp
  <2>3. CASE Stop!Tick \/ UNCHANGED Stop!stopVars
    BY <1>2, <2>3 DEF Stop!Tick, Stop!stopVars
  <2>4. QED
    BY <1>2, <1>3, <1>4, <1>5, <1>6, <1>7, <1>9, <1>10, <1>11, <2>1, <2>2, <2>3 DEF Stop!StopNext

StopInv == StopTyped /\ Writers /\ Sources /\ Removers /\ Covered

LEMMA StopInvInit == Stop!StopInit => StopInv
<1> SUFFICES ASSUME Stop!StopInit PROVE StopInv
  OBVIOUS
<1>1. /\ now = 0 /\ file = Stop!Absent /\ spoiled = FALSE /\ Stop!Absent \in Int
      /\ \A r \in Recall : recall[r].at = "running"
      /\ \A q \in Search : search[q].at = "idle"
      /\ \A s \in Server : sweep[s].at = "idle" /\ sweep[s].since = 0
  BY DEF Stop!StopInit, Stop!Idle, Stop!Absent
<1>2. StopTyped
  <2>1. recall \in [Recall -> [at : RecallAt, end : Nat, armed : BOOLEAN]]
    BY DEF Stop!StopInit, RecallAt
  <2>2. search \in [Search -> [at : SearchAt, read : Int]]
    BY DEF Stop!StopInit, SearchAt
  <2>3. sweep \in [Server -> [at : SweepAt, since : Nat, read : Int]]
    BY DEF Stop!StopInit, Stop!Idle, SweepAt
  <2>4. QED
    BY <1>1, <2>1, <2>2, <2>3 DEF StopTyped
<1>3. Writers /\ Sources /\ Removers /\ Covered
  BY <1>1 DEF Stop!IsMarker, Writers, Sources, Removers, Covered, Covers
<1>4. QED
  BY <1>2, <1>3 DEF StopInv

\* Who was told that a recall ended well keeps the stop on every server until its time
\* is over, whatever sweeps, expires, fails or restarts, unless a write was crossed; and
\* a search is refused only for a recall that ended well, or whose server is gone
\* (armRetrievalStopAsync, pruneRetrievalStopDirectoryAsync, retrievalStopReady).
THEOREM StopIsKept == MCSpec => []StopHolds
<1>1. MCInit => StopInv
  BY StopInvInit DEF MCInit
<1>2. StopInv /\ [MCNext]_<<vars, retrievalVars, scene>> => StopInv'
  <2>1. [MCNext]_<<vars, retrievalVars, scene>> => [Stop!StopNext]_(Stop!stopVars)
    BY DEF MCNext, retrievalVars, Stop!stopVars
  <2>2. QED
    BY <2>1, StopTypedStep, WritersStep, SourcesStep, RemoversStep, CoveredStep DEF StopInv
<1>3. StopInv => StopHolds
  <2>1. SUFFICES ASSUME StopInv PROVE Stop!StopHolds
    BY DEF StopHolds
  <2>2. ASSUME NEW r \in Recall, recall[r].at = "told", recall[r].armed, now < Stop!Expiry(r), ~spoiled
        PROVE  Stop!Active(file) \/ Stop!Filling # {}
    <3>1. Stop!Filling # {} \/ file >= recall[r].end + Life
      BY <2>1, <2>2 DEF StopInv, Covered, Covers, Stop!Expiry
    <3>2. now \in Nat /\ file \in Int /\ recall[r].end + Life \in Int
      BY <2>1, StopAssumption DEF Stop!StopAssumption, StopInv, StopTyped
    <3>3. QED
      BY <2>2, <3>1, <3>2 DEF Stop!Expiry, Stop!Active, Stop!IsMarker, Stop!Absent, Stop!Torn
  <2>3. ASSUME NEW q \in Search, search[q].at = "refused"
        PROVE  \E r \in Recall : recall[r].end + Life = search[q].read /\ recall[r].at # "running"
                                 /\ (recall[r].armed \/ recall[r].at = "lost")
    BY <2>1, <2>3 DEF StopInv, Sources, Source, Wrote
  <2>4. QED
    BY <2>2, <2>3 DEF Stop!StopHolds
<1>4. QED
  BY <1>1, <1>2, <1>3, PTL DEF MCSpec
=============================================================================
