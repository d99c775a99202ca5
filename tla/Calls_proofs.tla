----------------------------- MODULE Calls_proofs -----------------------------
(***************************************************************************)
(* Proofs about the calls for a process, at the front door, at the servers  *)
(* without it and at its own.                                              *)
(*                                                                         *)
(* ControlMailbox, for any requests, sweeps and handlers: types, that a     *)
(* request is handled by one at a time, and that it is executed again only  *)
(* for a sweep that was overtaken.                                         *)
(*                                                                         *)
(* OutputPaging, for any overlapping reads, length of the output and page:  *)
(* types, that a caller is told to stop only after it was given everything, *)
(* and that no_change hides nothing.                                       *)
(*                                                                         *)
(* FrontDoor, for any backends, clients, requests and switches: types, that *)
(* a running process is reached where it was started, and that neither the  *)
(* target nor the file of routes falls behind.                             *)
(***************************************************************************)
EXTENDS FrontDoor, ControlMailbox, OutputPaging, TLAPS

(***************************************************************************)
(* The mailbox.                                                            *)
(***************************************************************************)

Busy(h) == handler[h].at # "free"

\* What is handled is marked as in flight, and by one handler.
Marked ==
  \A h \in Handler :
    Busy(h) => /\ handler[h].req \in inFlight
               /\ \A g \in Handler : Busy(g) /\ handler[g].req = handler[h].req => g = h

FreeIsEmpty == \A h \in Handler : ~Busy(h) => handler[h].req = None

\* A handler that has yet to execute may do so.
RoomToRun == \A h \in Handler : handler[h].at = "run" => runs[handler[h].req] < MaxRuns

\* A sweep or the owner has only what was written.
Written(r) == asker[r] \notin {"new", "writing"}
OnlyWritten ==
  \A r \in Request :
    \/ Written(r)
    \/ /\ r \notin request /\ runs[r] = 0
       /\ \A k \in Sweep : sweep[k].have # r
       /\ \A h \in Handler : handler[h].req # r

\* What was executed is about to be answered, or gone without a trace, or a sweep was
\* overtaken; or the owner has forgotten the process.
Settled(r) ==
  \/ \E h \in Handler : handler[h].req = r /\ handler[h].at \in {"respond", "unlink"}
  \/ /\ r \notin request
     /\ \A k \in Sweep : sweep[k].have # r
     /\ \A h \in Handler : handler[h].req # r
Done == knows => \A r \in Request : runs[r] > 0 => r \in overtaken \/ Settled(r)

AgainIsExcused ==
  \A h \in Handler : handler[h].at = "run" /\ runs[handler[h].req] > 0 => handler[h].req \in overtaken

IInv ==
  /\ TypeOK /\ Marked /\ FreeIsEmpty /\ RoomToRun /\ OnlyWritten
  /\ Done /\ AgainIsExcused /\ AgainOnlyWhenOvertaken

HandlerState == [req : Request \cup {None}, at : {"free", "run", "respond", "unlink"}]
SweepState == [todo : SUBSET Request, have : Request \cup {None}]

-----------------------------------------------------------------------------

LEMMA States ==
  /\ Free \in HandlerState /\ Free.req = None /\ Free.at = "free"
  /\ NotSweeping \in SweepState /\ NotSweeping.have = None
  /\ \A r \in Request, place \in {"run", "respond", "unlink"} : [req |-> r, at |-> place] \in HandlerState
BY DEF Free, NotSweeping, HandlerState, SweepState

LEMMA InitInv == Init => IInv
<1> SUFFICES ASSUME Init PROVE IInv
  OBVIOUS
<1>1. TypeOK
  BY ConstantsAssumption DEF Init, TypeOK, AskerState, Free, NotSweeping
<1>2. \A h \in Handler : handler[h].req = None /\ handler[h].at = "free"
  BY DEF Init, Free
<1>3. \A k \in Sweep : sweep[k].have = None
  BY DEF Init, NotSweeping
<1>4. \A r \in Request : r # None
  BY ConstantsAssumption
<1>5. QED
  BY <1>1, <1>2, <1>3, <1>4 DEF Init, IInv, Marked, Busy, FreeIsEmpty, RoomToRun, OnlyWritten, Done,
    AgainIsExcused, AgainOnlyWhenOvertaken

-----------------------------------------------------------------------------
(* The asker.                                                              *)

\* Askers only write what was not written, and nothing is unwritten again.
LEMMA AskerInv ==
  ASSUME IInv, TypeOK', UNCHANGED <<ownerVars, overtaken>>,
         \A r \in Request : Written(r) => asker'[r] \notin {"new", "writing"},
         \A r \in request' : r \in request \/ (~Written(r) /\ asker'[r] \notin {"new", "writing"})
  PROVE  IInv'
<1> USE DEF IInv
<1>1. UNCHANGED <<knows, sweep, inFlight, handler, runs, overtaken>>
  BY DEF ownerVars
<1>2. Marked' /\ FreeIsEmpty' /\ RoomToRun' /\ AgainIsExcused' /\ AgainOnlyWhenOvertaken'
  BY <1>1 DEF Marked, Busy, FreeIsEmpty, RoomToRun, AgainIsExcused, AgainOnlyWhenOvertaken
<1>3. OnlyWritten'
  BY <1>1 DEF OnlyWritten, Written
<1>4. Done'
  <2> SUFFICES ASSUME knows, NEW r \in Request, runs[r] > 0
               PROVE  r \in overtaken \/ Settled(r)'
    BY <1>1 DEF Done
  <2>1. runs[r] # 0
    OBVIOUS
  <2>2. r \in request' => r \in request
    BY <2>1 DEF OnlyWritten
  <2>3. r \in overtaken \/ Settled(r)
    BY DEF Done
  <2>4. QED
    BY <1>1, <2>2, <2>3 DEF Settled
<1>5. QED
  BY <1>2, <1>3, <1>4

\* What an asker does, and the passing of its deadline.
LEMMA AskerStep ==
  ASSUME IInv, NEW r \in Request,
         Ask(r) \/ AskerGoesOn(r) \/ GiveUp(r) \/ AskerDies(r) \/ DeadlinePasses(r)
  PROVE  IInv'
<1> USE DEF IInv
<1>1. /\ asker \in [Request -> AskerState] /\ late \in [Request -> BOOLEAN] /\ request \subseteq Request
      /\ response \in [Request -> 0 .. MaxRuns] /\ got \in [Request -> 0 .. MaxRuns]
  BY DEF TypeOK
<1>2. UNCHANGED <<ownerVars, overtaken>>
  BY DEF Ask, AskerGoesOn, WriteRequest, TryRead, Timeout, CleanRequest, CleanResponse, GiveUp, AskerDies,
    DeadlinePasses
<1>3. \/ UNCHANGED asker
      \/ \E to \in AskerState :
           /\ asker' = [asker EXCEPT ![r] = to]
           /\ to \in {"new", "writing"} => asker[r] \in {"new", "writing"}
  BY DEF Ask, AskerGoesOn, WriteRequest, TryRead, Timeout, CleanRequest, CleanResponse, GiveUp, AskerDies,
    DeadlinePasses, Asker, AskerState, askerVars
<1>4. \/ request' \subseteq request
      \/ request' = request \cup {r} /\ asker[r] = "writing" /\ asker' = [asker EXCEPT ![r] = "waiting"]
  BY DEF Ask, AskerGoesOn, WriteRequest, TryRead, Timeout, CleanRequest, CleanResponse, GiveUp, AskerDies,
    DeadlinePasses, Asker, files
<1>5. response' \in [Request -> 0 .. MaxRuns] /\ got' \in [Request -> 0 .. MaxRuns]
  BY <1>1, ConstantsAssumption DEF Ask, AskerGoesOn, WriteRequest, TryRead, Timeout, CleanRequest,
    CleanResponse, GiveUp, AskerDies, DeadlinePasses, askerVars, files
<1>6. late' \in [Request -> BOOLEAN]
  BY <1>1 DEF Ask, AskerGoesOn, WriteRequest, TryRead, Timeout, CleanRequest, CleanResponse, GiveUp, AskerDies,
    DeadlinePasses
<1>7. asker' \in [Request -> AskerState] /\ request' \subseteq Request
  BY <1>1, <1>3, <1>4
<1>8. TypeOK'
  BY <1>2, <1>5, <1>6, <1>7 DEF TypeOK, ownerVars
<1>9. \A q \in Request : Written(q) => asker'[q] \notin {"new", "writing"}
  BY <1>1, <1>3 DEF Written
<1>10. \A q \in request' : q \in request \/ (~Written(q) /\ asker'[q] \notin {"new", "writing"})
  BY <1>1, <1>4 DEF Written
<1>11. QED
  BY <1>2, <1>8, <1>9, <1>10, AskerInv

-----------------------------------------------------------------------------
(* The owner.                                                              *)

\* Sweeps read what is in the directory.
LEMMA ReadStep ==
  ASSUME IInv, NEW k \in Sweep, NEW r \in Request, BeginSweep(k) \/ SweepRead(k, r)
  PROVE  IInv'
<1> USE DEF IInv
<1>1. sweep \in [Sweep -> SweepState] /\ request \subseteq Request
  BY DEF TypeOK, SweepState
<1>2. UNCHANGED <<askerVars, late, files, knows, inFlight, handler, runs, overtaken>>
  BY DEF BeginSweep, SweepRead
<1>3. PICK new \in SweepState : /\ sweep' = [sweep EXCEPT ![k] = new]
                                /\ new.have \in request \/ new.have = None
  <2>1. CASE BeginSweep(k)
    <3>1. [todo |-> request, have |-> None] \in SweepState
      BY <1>1 DEF SweepState
    <3>2. [sweep[k] EXCEPT !.todo = request] = [todo |-> request, have |-> None]
      BY <2>1 DEF BeginSweep, NotSweeping
    <3>3. sweep' = [sweep EXCEPT ![k] = [todo |-> request, have |-> None]]
      BY <2>1, <3>2 DEF BeginSweep
    <3>4. QED
      BY <3>1, <3>3
  <2>2. CASE SweepRead(k, r)
    <3> DEFINE new == [todo |-> sweep[k].todo \ {r}, have |-> IF r \in request THEN r ELSE None]
    <3>1. new \in SweepState
      BY <1>1 DEF SweepState
    <3>2. sweep' = [sweep EXCEPT ![k] = new]
      BY <2>2 DEF SweepRead
    <3>3. QED
      BY <3>1, <3>2
  <2>3. QED
    BY <2>1, <2>2
<1>4. sweep' \in [Sweep -> SweepState] /\ TypeOK'
  BY <1>1, <1>2, <1>3 DEF TypeOK, askerVars, files, SweepState
<1>5. \A j \in Sweep, q \in Request : sweep'[j].have = q => sweep[j].have = q \/ q \in request
  BY <1>1, <1>3, ConstantsAssumption
<1>6. UNCHANGED <<asker, request, knows, inFlight, handler, runs, overtaken>>
  BY <1>2 DEF askerVars, files
<1>7. Marked' /\ FreeIsEmpty' /\ RoomToRun' /\ AgainIsExcused' /\ AgainOnlyWhenOvertaken'
  BY <1>6 DEF Marked, Busy, FreeIsEmpty, RoomToRun, AgainIsExcused, AgainOnlyWhenOvertaken
<1>8. OnlyWritten'
  BY <1>5, <1>6 DEF OnlyWritten, Written
<1>9. Done'
  <2> SUFFICES ASSUME knows, NEW q \in Request, runs[q] > 0
               PROVE  q \in overtaken \/ Settled(q)'
    BY <1>6 DEF Done
  <2>1. q \in overtaken \/ Settled(q)
    BY DEF Done
  <2>2. QED
    BY <1>5, <1>6, <2>1 DEF Settled
<1>10. QED
  BY <1>4, <1>7, <1>8, <1>9

\* A request is put aside or given to a free handler.
LEMMA DecideStep ==
  ASSUME IInv, NEW k \in Sweep, NEW r \in Request, SweepDecide(k, r)
  PROVE  IInv'
<1> USE DEF IInv
<1>1. /\ sweep \in [Sweep -> SweepState] /\ request \subseteq Request /\ handler \in [Handler -> HandlerState]
      /\ inFlight \subseteq Request /\ runs \in [Request -> 0 .. MaxRuns]
  BY DEF TypeOK, SweepState, HandlerState
<1>2. UNCHANGED <<askerVars, late, response, knows, runs, overtaken>> /\ sweep[k].have = r
  BY DEF SweepDecide
<1>3. sweep' = [sweep EXCEPT ![k].have = None]
  BY DEF SweepDecide
<1>4. /\ sweep' \in [Sweep -> SweepState]
      /\ \A j \in Sweep, q \in Request : sweep'[j].have = q => sweep[j].have = q
  BY <1>1, <1>3, ConstantsAssumption DEF SweepState
<1>5. Written(r)
  BY <1>2 DEF OnlyWritten
<1>6. UNCHANGED <<asker, got, late, knows, runs, overtaken>>
  BY <1>2 DEF askerVars
<1>7. CASE UNCHANGED <<inFlight, handler>>
  <2>1. request' \subseteq request
    BY <1>7 DEF SweepDecide
  <2>2. TypeOK'
    BY <1>1, <1>2, <1>4, <1>7, <2>1 DEF TypeOK, askerVars, SweepState
  <2>3. Marked' /\ FreeIsEmpty' /\ RoomToRun' /\ AgainIsExcused' /\ AgainOnlyWhenOvertaken'
    BY <1>6, <1>7 DEF Marked, Busy, FreeIsEmpty, RoomToRun, AgainIsExcused, AgainOnlyWhenOvertaken
  <2>4. OnlyWritten'
    BY <1>4, <1>6, <1>7, <2>1 DEF OnlyWritten, Written
  <2>5. Done'
    <3> SUFFICES ASSUME knows, NEW q \in Request, runs[q] > 0
                 PROVE  q \in overtaken \/ Settled(q)'
      BY <1>6 DEF Done
    <3>1. q \in overtaken \/ Settled(q)
      BY DEF Done
    <3>2. QED
      BY <1>4, <1>7, <2>1, <3>1 DEF Settled
  <2>6. QED
    BY <2>2, <2>3, <2>4, <2>5
<1>8. ASSUME NEW h \in Handler, knows, r \notin inFlight, handler[h] = Free, runs[r] < MaxRuns,
             inFlight' = inFlight \cup {r}, UNCHANGED request,
             handler' = [handler EXCEPT ![h] = [req |-> r, at |-> "run"]]
      PROVE  IInv'
  <2>1. /\ handler' \in [Handler -> HandlerState] /\ handler'[h].req = r /\ handler'[h].at = "run"
        /\ handler[h].req = None /\ handler[h].at = "free"
        /\ \A g \in Handler : g # h => handler'[g] = handler[g]
    BY <1>1, <1>8, States
  <2>2. TypeOK'
    BY <1>1, <1>2, <1>4, <1>8, <2>1 DEF TypeOK, askerVars, SweepState, HandlerState
  <2>3. \A g \in Handler : handler[g].req # r
    BY <1>8, ConstantsAssumption DEF Marked, FreeIsEmpty
  <2>4. Marked'
    BY <1>8, <2>1, <2>3 DEF Marked, Busy
  <2>5. FreeIsEmpty' /\ RoomToRun'
    BY <1>6, <1>8, <2>1 DEF FreeIsEmpty, Busy, RoomToRun
  <2>6. OnlyWritten'
    BY <1>4, <1>5, <1>6, <1>8, <2>1 DEF OnlyWritten, Written
  <2>7. runs[r] > 0 => r \in overtaken
    BY <1>2, <1>8, <2>3 DEF Done, Settled
  <2>8. Done'
    <3> SUFFICES ASSUME NEW q \in Request, runs[q] > 0
                 PROVE  q \in overtaken \/ Settled(q)'
      BY <1>6 DEF Done
    <3>1. q \in overtaken \/ (q # r /\ Settled(q))
      BY <1>8, <2>7 DEF Done
    <3>2. CASE \E g \in Handler : handler[g].req = q /\ handler[g].at \in {"respond", "unlink"}
      BY <2>1, <3>2 DEF Settled
    <3>3. QED
      BY <1>4, <1>8, <2>1, <3>1, <3>2 DEF Settled
  <2>9. AgainIsExcused' /\ AgainOnlyWhenOvertaken'
    BY <1>6, <2>1, <2>7 DEF AgainIsExcused, AgainOnlyWhenOvertaken
  <2>10. QED
    BY <2>2, <2>4, <2>5, <2>6, <2>8, <2>9
<1>9. QED
  BY <1>7, <1>8 DEF SweepDecide

\* The page is taken, answered, and the request unlinked.
LEMMA HandlerInv ==
  ASSUME IInv, NEW h \in Handler, HandlerStep(h)
  PROVE  IInv'
<1> USE DEF IInv
<1>1. /\ sweep \in [Sweep -> SweepState] /\ request \subseteq Request /\ handler \in [Handler -> HandlerState]
      /\ inFlight \subseteq Request /\ runs \in [Request -> 0 .. MaxRuns] /\ MaxRuns \in Nat
      /\ response \in [Request -> 0 .. MaxRuns] /\ overtaken \subseteq Request
  BY ConstantsAssumption DEF TypeOK, SweepState, HandlerState
<1>2. PICK r \in Request : Execute(h, r) \/ Respond(h, r) \/ Finish(h, r)
  BY DEF HandlerStep
<1>3. /\ Busy(h) /\ handler[h].req = r /\ r \in inFlight
      /\ \A g \in Handler : Busy(g) /\ handler[g].req = r => g = h
  BY <1>2 DEF Execute, Respond, Finish, Handling, Busy, Marked
<1>4. \A g \in Handler : g # h => handler[g].req # r
  BY <1>3, ConstantsAssumption DEF FreeIsEmpty
<1>5. CASE Execute(h, r) \/ Respond(h, r)
  <2>1. PICK place \in {"respond", "unlink"} : handler' = [handler EXCEPT ![h] = [req |-> r, at |-> place]]
    <3>1. PICK was, place \in {"run", "respond", "unlink"} :
            /\ handler[h] = [req |-> r, at |-> was]
            /\ handler' = [handler EXCEPT ![h].at = place]
            /\ place \in {"respond", "unlink"}
      BY <1>5 DEF Execute, Respond, Handling, Move
    <3>2. [handler[h] EXCEPT !.at = place] = [req |-> r, at |-> place]
      BY <3>1
    <3>3. QED
      BY <3>1, <3>2
  <2>2. /\ handler' \in [Handler -> HandlerState] /\ handler'[h].req = r /\ handler'[h].at \in {"respond", "unlink"}
        /\ \A g \in Handler : g # h => handler'[g] = handler[g]
    BY <1>1, <2>1, States
  <2>3. /\ UNCHANGED <<asker, got, late, request, knows, sweep, inFlight, overtaken>>
        /\ \/ UNCHANGED runs
           \/ /\ handler[h].at = "run" /\ UNCHANGED response
              /\ runs' = [runs EXCEPT ![r] = @ + 1]
    BY <1>5 DEF Execute, Respond, Handling, askerVars, files
  <2>4. /\ runs' \in [Request -> 0 .. MaxRuns]
        /\ \A q \in Request : q # r => runs'[q] = runs[q]
        /\ runs'[r] > 1 => runs[r] > 1 \/ (handler[h].at = "run" /\ runs[r] > 0)
        /\ \A q \in Request : runs[q] # 0 => runs'[q] # 0
    <3>1. CASE UNCHANGED runs
      BY <1>1, <3>1
    <3>2. CASE handler[h].at = "run" /\ runs' = [runs EXCEPT ![r] = @ + 1]
      <4>1. runs[r] < MaxRuns /\ runs[r] \in 0 .. MaxRuns
        BY <1>1, <1>3, <3>2 DEF RoomToRun
      <4>2. runs[r] + 1 \in 0 .. MaxRuns
        BY <1>1, <4>1
      <4>3. QED
        BY <1>1, <3>2, <4>1, <4>2
    <3>3. QED
      BY <2>3, <3>1, <3>2
  <2>5. response' \in [Request -> 0 .. MaxRuns]
    BY <1>1, <1>5 DEF Execute, Respond, files
  <2>6. TypeOK'
    BY <2>2, <2>3, <2>4, <2>5 DEF TypeOK, HandlerState
  <2>7. Marked' /\ FreeIsEmpty'
    BY <1>3, <1>4, <2>2, <2>3 DEF Marked, FreeIsEmpty, Busy
  <2>8. RoomToRun' /\ AgainIsExcused'
    <3> SUFFICES ASSUME NEW g \in Handler, handler'[g].at = "run"
                 PROVE  /\ runs'[handler'[g].req] < MaxRuns
                        /\ runs'[handler'[g].req] > 0 => handler'[g].req \in overtaken'
      BY DEF RoomToRun, AgainIsExcused
    <3>1. g # h /\ handler'[g] = handler[g] /\ handler[g].req # r
      BY <1>4, <2>2
    <3>2. handler[g].req \in Request
      BY <1>1, <3>1 DEF Marked, Busy
    <3>3. QED
      BY <1>1, <2>3, <2>4, <3>1, <3>2 DEF RoomToRun, AgainIsExcused
  <2>9. OnlyWritten'
    <3>1. Written(r)
      BY <1>3 DEF OnlyWritten
    <3>2. QED
      BY <2>2, <2>3, <2>4, <3>1 DEF OnlyWritten, Written
  <2>10. Done'
    <3> SUFFICES ASSUME knows, NEW q \in Request, runs'[q] > 0
                 PROVE  q \in overtaken \/ Settled(q)'
      BY <2>3 DEF Done
    <3>1. CASE q = r
      BY <2>2, <3>1 DEF Settled
    <3>2. CASE q # r
      <4>1. q \in overtaken \/ Settled(q)
        BY <2>4, <3>2 DEF Done
      <4>2. QED
        BY <1>3, <2>2, <2>3, <3>2, <4>1 DEF Settled
    <3>3. QED
      BY <3>1, <3>2
  <2>11. AgainOnlyWhenOvertaken'
    BY <1>3, <2>3, <2>4 DEF AgainOnlyWhenOvertaken, AgainIsExcused
  <2>12. QED
    BY <2>6, <2>7, <2>8, <2>9, <2>10, <2>11
<1>6. CASE Finish(h, r)
  <2>1. /\ UNCHANGED <<asker, got, late, response, knows, sweep, runs>>
        /\ request' = request \ {r} /\ inFlight' = inFlight \ {r}
        /\ handler' = [handler EXCEPT ![h] = Free]
        /\ overtaken' = overtaken \cup {q \in {r} : \E k \in Sweep : sweep[k].have = q}
    BY <1>6 DEF Finish, askerVars
  <2>2. /\ handler' \in [Handler -> HandlerState] /\ handler'[h].req = None /\ handler'[h].at = "free"
        /\ \A g \in Handler : g # h => handler'[g] = handler[g]
    BY <1>1, <2>1, States
  <2>3. TypeOK'
    BY <1>1, <2>1, <2>2 DEF TypeOK, HandlerState
  <2>4. overtaken \subseteq overtaken'
    BY <2>1
  <2>5. Marked' /\ FreeIsEmpty'
    BY <1>4, <2>1, <2>2 DEF Marked, FreeIsEmpty, Busy
  <2>6. RoomToRun' /\ AgainIsExcused' /\ AgainOnlyWhenOvertaken'
    BY <2>1, <2>2, <2>4 DEF RoomToRun, AgainIsExcused, AgainOnlyWhenOvertaken
  <2>7. OnlyWritten'
    BY <2>1, <2>2, ConstantsAssumption DEF OnlyWritten, Written
  <2>8. Done'
    <3> SUFFICES ASSUME knows, NEW q \in Request, runs[q] > 0
                 PROVE  q \in overtaken' \/ Settled(q)'
      BY <2>1 DEF Done
    <3>1. CASE q = r
      <4>1. \A g \in Handler : handler'[g].req # r
        BY <1>4, <2>2, ConstantsAssumption
      <4>2. QED
        BY <2>1, <3>1, <4>1 DEF Settled
    <3>2. CASE q # r
      <4>1. q \in overtaken \/ Settled(q)
        BY DEF Done
      <4>2. QED
        BY <1>3, <2>1, <2>2, <2>4, <3>2, <4>1, ConstantsAssumption DEF Settled
    <3>3. QED
      BY <3>1, <3>2
  <2>9. QED
    BY <2>3, <2>5, <2>6, <2>7, <2>8
<1>7. QED
  BY <1>2, <1>5, <1>6

\* The owner loses the process, or all it was doing.
LEMMA OwnerStep ==
  ASSUME IInv, Forget \/ OwnerDies
  PROVE  IInv'
<1> USE DEF IInv
<1>1. knows' = FALSE /\ UNCHANGED <<asker, got, late, request, response, runs, overtaken>>
  BY DEF Forget, OwnerDies, askerVars, files
<1>2. CASE UNCHANGED <<sweep, inFlight, handler>>
  BY <1>1, <1>2 DEF TypeOK, Marked, FreeIsEmpty, Busy, RoomToRun, OnlyWritten, Written, Done, AgainIsExcused,
    AgainOnlyWhenOvertaken
<1>3. CASE OwnerDies
  <2>1. \A h \in Handler : handler'[h] = Free
    BY <1>3 DEF OwnerDies
  <2>2. \A k \in Sweep : sweep'[k] = NotSweeping
    BY <1>3 DEF OwnerDies
  <2>3. TypeOK'
    BY <1>1, <1>3, States DEF OwnerDies, TypeOK, HandlerState, SweepState
  <2>4. Marked' /\ FreeIsEmpty' /\ RoomToRun' /\ AgainIsExcused' /\ AgainOnlyWhenOvertaken' /\ Done'
    BY <1>1, <2>1, States DEF Marked, FreeIsEmpty, Busy, RoomToRun, AgainIsExcused, AgainOnlyWhenOvertaken,
      Done
  <2>5. OnlyWritten'
    BY <1>1, <2>1, <2>2, States, ConstantsAssumption DEF OnlyWritten, Written
  <2>6. QED
    BY <2>3, <2>4, <2>5
<1>4. QED
  BY <1>2, <1>3 DEF Forget

LEMMA StepInv == IInv /\ [Next]_vars => IInv'
<1> SUFFICES ASSUME IInv, [Next]_vars PROVE IInv'
  OBVIOUS
<1>1. CASE UNCHANGED vars
  BY <1>1 DEF vars, askerVars, files, ownerVars, IInv, TypeOK, Marked, FreeIsEmpty, Busy, RoomToRun,
    OnlyWritten, Written, Done, Settled, AgainIsExcused, AgainOnlyWhenOvertaken
<1>2. ASSUME NEW r \in Request, Ask(r) \/ AskerGoesOn(r) \/ GiveUp(r) \/ AskerDies(r) \/ DeadlinePasses(r)
      PROVE  IInv'
  BY <1>2, AskerStep
<1>3. ASSUME NEW k \in Sweep, BeginSweep(k)
      PROVE  IInv'
  <2>1. request # {} /\ request \subseteq Request
    BY <1>3 DEF BeginSweep, IInv, TypeOK
  <2>2. QED
    BY <1>3, <2>1, ReadStep
<1>4. ASSUME NEW k \in Sweep, NEW r \in Request, SweepRead(k, r) \/ SweepDecide(k, r)
      PROVE  IInv'
  BY <1>4, ReadStep, DecideStep
<1>5. ASSUME NEW h \in Handler, HandlerStep(h)
      PROVE  IInv'
  BY <1>5, HandlerInv
<1>6. CASE Forget \/ OwnerDies
  BY <1>6, OwnerStep
<1>7. QED
  BY <1>1, <1>2, <1>3, <1>4, <1>5, <1>6 DEF Next, SweepStep

\* The invariant of the mailbox holds in every state.
THEOREM Invariance == Spec => []IInv
BY InitInv, StepInv, PTL DEF Spec

\* Every variable keeps its type.
THEOREM TypeCorrect == Spec => []TypeOK
<1>1. IInv => TypeOK
  BY DEF IInv
<1>2. QED
  BY <1>1, Invariance, PTL

\* No request is handled twice at the same time.
THEOREM HandledByOne == Spec => []OneAtATime
<1>1. IInv => OneAtATime
  <2> SUFFICES ASSUME IInv, NEW h \in Handler, NEW g \in Handler, h # g, Busy(h)
               PROVE  handler[g].req # handler[h].req
    BY DEF OneAtATime, Busy
  <2>1. handler[h].req \in Request
    BY DEF IInv, Marked, TypeOK
  <2>2. QED
    BY <2>1, ConstantsAssumption DEF IInv, Marked, FreeIsEmpty
<1>2. QED
  BY <1>1, Invariance, PTL

\* A request is executed again only for a sweep that had read it before.
THEOREM AgainOnlyForOvertaken == Spec => []AgainOnlyWhenOvertaken
<1>1. IInv => AgainOnlyWhenOvertaken
  BY DEF IInv
<1>2. QED
  BY <1>1, Invariance, PTL

\* A request takes effect once, unless a sweep was overtaken.
THEOREM EffectTakenOnce == Spec => []EffectIsTakenOnce
BY HandledByOne, AgainOnlyForOvertaken, PTL DEF EffectIsTakenOnce

(***************************************************************************)
(* The pages.                                                              *)
(***************************************************************************)

\* What ends an attempt is the last message, after all output; while the files are
\* emptied, and after the end, there are none.
LastWord ==
  /\ child = "exited" => ~unsent
  /\ \A i \in 1 .. Len(toMain) : toMain[i] # "output" => i = Len(toMain) /\ child = "exited"
  /\ ~running \/ resetting # "no" => child = "exited" /\ toMain = <<>>
  /\ resetting # "no" => running

\* Nothing is gone but by a prune, or while a retry empties the files.
Emptied ==
  gone = IF resetting = "forget" THEN written ELSE Start

\* What is before a cursor has been in a page.
Within(c) == \A s \in Stream : c[s] <= written[s]
Given(c) == Within(c) /\ Characters(Start, c) \subseteq seen
CursorGiven == resetting # "forget" => Given(cursor)

\* So has what a call takes to be before it.
Reading(r) ==
  /\ read[r].at = "look" => read[r].base = Start \/ resetting = "forget" \/ Given(read[r].base)
  /\ read[r].at = "cursor" => read[r].total = Start \/ resetting = "forget" \/ Within(read[r].total)
  /\ read[r].at = "slice" =>
       \/ read[r].base = Start /\ read[r].total = Start
       \/ resetting = "forget"
       \/ Within(read[r].total) /\ Given(read[r].base)

\* A call that was begun after the end has measured all that was written.
Final(r) ==
  /\ read[r].at \in {"sizes", "totals", "cursor", "slice"} /\ ~read[r].live => ~running
  /\ read[r].at \in {"cursor", "slice"} /\ ~read[r].live => read[r].total = written
  /\ read[r].stopped => read[r].at = "idle" /\ ~running /\ AllWritten \subseteq seen

\* Of what is not announced, a waiting call has left nothing unread.
Waiting(r) ==
  read[r].at = "wait" /\ ~unsent /\ toMain = <<>> => Characters(gone, written) \subseteq seen

\* No file is shorter than nothing, and no page ends before its begin.
Bounded ==
  /\ \A s \in Stream : gone[s] <= written[s]
  /\ \A r \in Read : read[r].at = "slice" => \A s \in Stream : read[r].base[s] <= read[r].total[s]

\* The inductive invariant; files that went under a cursor are left out.
Types == PagingTypes /\ Bounded
Calls == \A r \in Read : Reading(r) /\ Final(r) /\ Waiting(r)
PagingInv == Types /\ LastWord /\ (~disturbed => Emptied /\ CursorGiven /\ Calls)

-----------------------------------------------------------------------------
(* Types.                                                                  *)

LEMMA CallStates ==
  /\ Start \in Count
  /\ \A b \in BOOLEAN : NotReading(b) \in ReadState /\ NotReading(b).at = "idle" /\ NotReading(b).stopped = b
  /\ \A p \in Place : At(p) \in ReadState /\ At(p).at = p /\ At(p).stopped = FALSE
<1>1. Start \in Count
  BY PagingAssumption DEF Start, Count
<1>2. \A b \in BOOLEAN : NotReading(b) \in ReadState /\ NotReading(b).at = "idle" /\ NotReading(b).stopped = b
  BY <1>1 DEF NotReading, ReadState, Place
<1>3. ASSUME NEW p \in Place
      PROVE  At(p) \in ReadState /\ At(p).at = p /\ At(p).stopped = FALSE
  <2>1. NotReading(FALSE) \in ReadState /\ NotReading(FALSE).stopped = FALSE
    BY <1>2
  <2>2. QED
    BY <2>1 DEF At, ReadState
<1>4. QED
  BY <1>1, <1>2, <1>3

LEMMA Counting ==
  ASSUME Types
  PROVE  Sizes \in Count /\ AllWritten \subseteq Char
<1>1. \A s \in Stream : gone[s] \in Nat /\ written[s] \in 0 .. MaxOut /\ gone[s] <= written[s]
  BY DEF Types, PagingTypes, Bounded, Count
<1>2. \A s \in Stream : Size(s) \in 0 .. MaxOut
  BY <1>1, PagingAssumption DEF Size
<1>3. Sizes \in Count
  BY <1>2 DEF Sizes, Count
<1>4. AllWritten \subseteq Char
  BY DEF AllWritten, Characters
<1>5. QED
  BY <1>3, <1>4

\* Where the next page ends.
LEMMA NextPage ==
  ASSUME PagingTypes, NEW r \in Read, \A s \in Stream : read[r].base[s] <= read[r].total[s]
  PROVE  /\ NextAfter(r) \in Count
         /\ \A s \in Stream : read[r].base[s] <= NextAfter(r)[s] /\ NextAfter(r)[s] <= read[r].total[s]
<1>1. read[r] \in ReadState
  BY DEF PagingTypes
<1> DEFINE b == read[r].base
           t == read[r].total
           out == Least(Limit, t["stdout"] - b["stdout"])
           err == Least(Limit - out, t["stderr"] - b["stderr"])
<1>2. b \in Count /\ t \in Count
  BY <1>1 DEF ReadState
<1>3. b["stdout"] \in Nat /\ b["stderr"] \in Nat /\ t["stdout"] \in 0 .. MaxOut /\ t["stderr"] \in 0 .. MaxOut
  BY <1>2 DEF Count, Stream
<1>4. b["stdout"] <= t["stdout"] /\ b["stderr"] <= t["stderr"]
  BY DEF Stream
<1>5. out \in Nat /\ out <= Limit /\ out <= t["stdout"] - b["stdout"]
  BY <1>3, <1>4, PagingAssumption DEF Least
<1>6. err \in Nat /\ err <= t["stderr"] - b["stderr"]
  BY <1>3, <1>4, <1>5, PagingAssumption DEF Least
<1>7. NextAfter(r) = [b EXCEPT !["stdout"] = @ + out, !["stderr"] = @ + err]
  BY DEF NextAfter
<1> HIDE DEF b, t, out, err
<1>8. NextAfter(r)["stdout"] = b["stdout"] + out /\ NextAfter(r)["stderr"] = b["stderr"] + err
      /\ NextAfter(r) = [s \in Stream |-> IF s = "stdout" THEN b["stdout"] + out ELSE b["stderr"] + err]
  BY <1>2, <1>7 DEF Count, Stream
<1>9. NextAfter(r) \in Count
  BY <1>3, <1>4, <1>5, <1>6, <1>8, PagingAssumption DEF Count
<1>10. \A s \in Stream : b[s] <= NextAfter(r)[s] /\ NextAfter(r)[s] <= t[s]
  BY <1>3, <1>4, <1>5, <1>6, <1>8 DEF Stream
<1>11. QED
  BY <1>9, <1>10 DEF b, t

LEMMA PagingBegins == PagingInit => PagingInv
<1> SUFFICES ASSUME PagingInit PROVE PagingInv
  OBVIOUS
<1>1. Types
  <2>1. \A r \in Read : read[r] = NotReading(FALSE)
    BY DEF PagingInit
  <2>2. NotReading(FALSE) \in ReadState /\ NotReading(FALSE).at = "idle"
    BY CallStates
  <2>3. \A s \in Stream : gone[s] <= written[s]
    BY DEF PagingInit, Start
  <2>4. Bounded
    <3>1. \A r \in Read : read[r].at = "idle"
      BY <2>1, <2>2
    <3>2. QED
      BY <2>3, <3>1 DEF Bounded
  <2>5. unsent \in BOOLEAN /\ running \in BOOLEAN /\ unread \in BOOLEAN /\ hasCursor \in BOOLEAN /\ disturbed \in BOOLEAN
    BY DEF PagingInit
  <2>6. /\ attempt \in 1 .. 2 /\ toMain \in Seq(Message) /\ child \in {"running", "exited"}
        /\ resetting \in {"no", "truncate", "forget"} /\ seen \subseteq Char
    BY DEF PagingInit
  <2>7. written \in Count /\ gone \in Count /\ cursor \in Count /\ read \in [Read -> ReadState]
    BY <2>2, CallStates DEF PagingInit
  <2>8. QED
    BY <2>4, <2>5, <2>6, <2>7 DEF Types, PagingTypes
<1>2. LastWord
  BY DEF PagingInit, LastWord
<1>3. Emptied /\ CursorGiven
  BY PagingAssumption DEF PagingInit, Emptied, CursorGiven, Given, Within, Characters, Start, Char
<1>4. Calls
  BY CallStates DEF PagingInit, Calls, Reading, Final, Waiting, NotReading
<1>5. QED
  BY <1>1, <1>2, <1>3, <1>4 DEF PagingInv

LEMMA StepTypes == Types /\ [PagingNext]_pagingVars => Types'
<1> SUFFICES ASSUME Types, [PagingNext]_pagingVars PROVE Types'
  OBVIOUS
<1> USE DEF Types, PagingTypes
<1>a. \A r \in Read : read[r] \in ReadState
  OBVIOUS
<1>b. Start \in Count /\ Sizes \in Count
  BY CallStates, Counting
<1>c. Pending \in Seq(Message) /\ Append(Pending, "exit") \in Seq(Message) /\ Append(Pending, "fail") \in Seq(Message)
  BY DEF Pending, Message
<1>d. ASSUME Changed
      PROVE  unread' \in BOOLEAN /\ read' \in [Read -> ReadState]
             /\ \A r \in Read : read'[r].at = "slice" => read'[r] = read[r]
  BY <1>d, CallStates DEF Changed, Place
<1>e. ASSUME NEW r \in Read, NEW x \in ReadState, read' = [read EXCEPT ![r] = x],
             x.at = "slice" => \A s \in Stream : x.base[s] <= x.total[s], UNCHANGED <<gone, written>>
      PROVE  Bounded' /\ read' \in [Read -> ReadState]
  BY <1>a, <1>e DEF Bounded
<1>1. CASE UNCHANGED pagingVars
  BY <1>1 DEF pagingVars, sessionVars, managerVars, callerVars, ghostVars, Bounded
<1>2. ASSUME NEW s \in Stream, Write(s)
      PROVE  Types'
  <2>1. written' \in Count
    <3>1. written[s] + 1 \in 0 .. MaxOut
      BY <1>2, PagingAssumption DEF Write, Count
    <3>2. QED
      BY <1>2, <3>1 DEF Write, Count
  <2>2. \A u \in Stream : gone[u] <= written'[u]
    BY <1>2 DEF Write, Bounded, Count
  <2>3. QED
    BY <1>2, <2>1, <2>2 DEF Write, managerVars, callerVars, ghostVars, Bounded
<1>3. CASE Flush
  BY <1>3, <1>c DEF Flush, managerVars, callerVars, ghostVars, Bounded
<1>4. ASSUME NEW kind \in {"exit", "fail"}, Exit(kind)
      PROVE  Types'
  BY <1>4, <1>c DEF Exit, managerVars, callerVars, ghostVars, Bounded
<1>5. CASE HandleOutput \/ HandleExit \/ Repair
  <2>1. toMain' \in Seq(Message) /\ Changed /\ UNCHANGED <<written, gone>>
    BY <1>5 DEF HandleOutput, HandleExit, Repair, Receive, sessionVars
  <2>2. Bounded'
    BY <1>d, <2>1 DEF Bounded
  <2>3. QED
    BY <1>5, <1>d, <2>1, <2>2 DEF HandleOutput, HandleExit, Repair, sessionVars, ghostVars
<1>6. CASE Truncate
  BY <1>6 DEF Truncate, sessionVars, callerVars, ghostVars, Bounded, Count
<1>7. CASE ForgetCursors
  <2>1. disturbed' \in BOOLEAN
    BY <1>7 DEF ForgetCursors
  <2>2. Bounded'
    BY <1>7 DEF ForgetCursors, Bounded, Start
  <2>3. unsent' \in BOOLEAN /\ running' \in BOOLEAN /\ unread' \in BOOLEAN /\ hasCursor' \in BOOLEAN
    BY <1>7 DEF ForgetCursors
  <2>4. /\ attempt' \in 1 .. 2 /\ toMain' \in Seq(Message) /\ child' \in {"running", "exited"}
        /\ resetting' \in {"no", "truncate", "forget"} /\ seen' \subseteq Char
    BY <1>7 DEF ForgetCursors
  <2>5. written' \in Count /\ gone' \in Count /\ cursor' \in Count /\ read' \in [Read -> ReadState]
    BY <1>7, <1>b DEF ForgetCursors
  <2>6. QED
    BY <2>1, <2>2, <2>3, <2>4, <2>5
<1>8. ASSUME NEW s \in Stream, PruneSpool(s)
      PROVE  Types'
  <2>1. gone' \in Count /\ \A u \in Stream : gone'[u] <= written[u]
    BY <1>8 DEF PruneSpool, Bounded, Count
  <2>2. QED
    BY <1>8, <2>1 DEF PruneSpool, sessionVars, managerVars, callerVars, Bounded
<1>9. ASSUME NEW r \in Read, CallRead(r)
      PROVE  Types'
  <2> DEFINE x == [At("look") EXCEPT !.base = cursor]
  <2>1. At("begin") \in ReadState /\ At("begin").at = "begin" /\ x \in ReadState /\ x.at = "look"
    BY CallStates DEF Place, ReadState
  <2>2. Bounded' /\ read' \in [Read -> ReadState]
    BY <1>9, <1>e, <2>1 DEF CallRead, Go, sessionVars
  <2>3. QED
    BY <1>9, <2>2 DEF CallRead, sessionVars, managerVars, callerVars, ghostVars
<1>10. ASSUME NEW r \in Read, Look(r) \/ WaitTimeout(r) \/ Abort(r)
       PROVE  Types'
  <2>1. /\ At("begin") \in ReadState /\ At("begin").at = "begin" /\ At("wait") \in ReadState /\ At("wait").at = "wait"
        /\ NotReading(FALSE) \in ReadState /\ NotReading(FALSE).at = "idle"
    BY CallStates DEF Place
  <2>2. Bounded' /\ read' \in [Read -> ReadState]
    BY <1>10, <1>e, <2>1 DEF Look, WaitTimeout, Abort, Return, Go, sessionVars
  <2>3. QED
    BY <1>10, <2>2 DEF Look, WaitTimeout, Abort, sessionVars, managerVars, callerVars, ghostVars
<1>11. ASSUME NEW r \in Read, BeginRead(r)
       PROVE  Types'
  <2> DEFINE x == [At("sizes") EXCEPT !.live = running, !.had = hasCursor]
  <2>1. x \in ReadState /\ x.at = "sizes"
    <3>1. At("sizes") \in ReadState /\ running \in BOOLEAN /\ hasCursor \in BOOLEAN
      BY CallStates DEF Place, Types
    <3>2. QED
      BY <3>1 DEF At, ReadState
  <2>2. Bounded' /\ read' \in [Read -> ReadState]
    BY <1>11, <1>e, <2>1 DEF BeginRead, sessionVars
  <2>3. QED
    BY <1>11, <2>2 DEF BeginRead, sessionVars, managerVars, ghostVars
<1>12. ASSUME NEW r \in Read, ReadSizes(r)
       PROVE  Types'
  <2> DEFINE x == [read[r] EXCEPT !.at = "totals", !.had = FALSE]
  <2>1. x \in ReadState /\ x.at = "totals"
    BY <1>a DEF ReadState, Place
  <2>2. read' \in {[read EXCEPT ![r] = x], [read EXCEPT ![r] = NotReading(~read[r].live)]}
    BY <1>12 DEF ReadSizes, Return
  <2>3. NotReading(~read[r].live) \in ReadState /\ NotReading(~read[r].live).at = "idle"
    BY <1>a, CallStates DEF ReadState
  <2>4. UNCHANGED <<gone, written>>
    BY <1>12 DEF ReadSizes, sessionVars
  <2> HIDE DEF x
  <2>5. Bounded' /\ read' \in [Read -> ReadState]
    BY <1>e, <2>1, <2>2, <2>3, <2>4
  <2>6. seen' \subseteq Char
    BY <1>12, Counting DEF ReadSizes, InMemory
  <2>7. QED
    BY <1>12, <2>5, <2>6 DEF ReadSizes, sessionVars, managerVars, callerVars
<1>13. ASSUME NEW r \in Read, PageTotals(r)
       PROVE  Types'
  <2> DEFINE x == [read[r] EXCEPT !.at = "cursor", !.total = Sizes]
  <2>1. x \in ReadState /\ x.at = "cursor" /\ read' = [read EXCEPT ![r] = x]
    BY <1>13, <1>a, <1>b DEF ReadState, Place, PageTotals
  <2> HIDE DEF x
  <2>2. Bounded' /\ read' \in [Read -> ReadState]
    BY <1>13, <1>e, <2>1 DEF PageTotals, sessionVars
  <2>3. QED
    BY <1>13, <2>2 DEF PageTotals, sessionVars, managerVars, callerVars, ghostVars
<1>14. ASSUME NEW r \in Read, PageCursor(r)
       PROVE  Types'
  <2> DEFINE b == [s \in Stream |-> Least(cursor[s], read[r].total[s])]
             x == [read[r] EXCEPT !.at = "slice", !.base = b]
  <2>1. b \in Count /\ \A s \in Stream : b[s] <= read[r].total[s]
    BY <1>a DEF ReadState, Count, Least
  <2>2. x \in ReadState /\ x.base = b /\ x.total = read[r].total
    BY <1>a, <2>1 DEF ReadState, Place
  <2>3. read' = [read EXCEPT ![r] = x]
    BY <1>14 DEF PageCursor
  <2> HIDE DEF x, b
  <2>4. Bounded' /\ read' \in [Read -> ReadState]
    BY <1>14, <1>e, <2>1, <2>2, <2>3 DEF PageCursor, sessionVars
  <2>5. QED
    BY <1>14, <2>4 DEF PageCursor, sessionVars, managerVars, callerVars, ghostVars
<1>15. ASSUME NEW r \in Read, PageEnd(r)
       PROVE  Types'
  <2>1. NextAfter(r) \in Count
    BY <1>15, NextPage DEF PageEnd, Bounded
  <2>2. PICK stopped \in BOOLEAN : Return(r, stopped)
    BY <1>15, <1>a DEF PageEnd, ReadState
  <2>3. NotReading(stopped) \in ReadState /\ NotReading(stopped).at = "idle" /\ UNCHANGED <<gone, written>>
    BY <1>15, CallStates DEF PageEnd, sessionVars
  <2>4. Bounded' /\ read' \in [Read -> ReadState]
    BY <1>e, <2>2, <2>3 DEF Return
  <2>5. hasCursor' \in BOOLEAN /\ cursor' \in Count
    BY <1>15, <1>b, <2>1 DEF PageEnd
  <2>6. seen' \subseteq Char
    <3> DEFINE wanted == Characters(read[r].base, NextAfter(r))
               new == {<<c[1], gone[c[1]] + c[2]>> : c \in {d \in wanted : d[2] <= Size(d[1])}}
    <3>0. \A u \in Stream : gone[u] \in Nat /\ written[u] \in 0 .. MaxOut /\ gone[u] <= written[u]
      BY DEF Bounded, Count
    <3>1. ASSUME NEW c \in wanted, c[2] <= Size(c[1])
          PROVE  <<c[1], gone[c[1]] + c[2]>> \in Char
      <4>1. c[1] \in Stream /\ c[2] \in Nat /\ c[2] >= 1
        BY DEF Characters, Char
      <4>2. gone[c[1]] + c[2] \in 1 .. MaxOut
        BY <3>0, <3>1, <4>1, PagingAssumption DEF Size
      <4>3. QED
        BY <4>1, <4>2 DEF Char
    <3>2. new \subseteq Char
      BY <3>1
    <3>3. seen' = seen \/ seen' = seen \cup new
      BY <1>15 DEF PageEnd
    <3>4. QED
      BY <3>2, <3>3
  <2>7. QED
    BY <1>15, <2>4, <2>5, <2>6 DEF PageEnd, sessionVars, managerVars
<1>16. QED
  BY <1>1, <1>2, <1>3, <1>4, <1>5, <1>6, <1>7, <1>8, <1>9, <1>10, <1>11, <1>12, <1>13, <1>14, <1>15
  DEF PagingNext, Session, Manage, GoOn

-----------------------------------------------------------------------------
(* The last word of an attempt.                                            *)

LEMMA StepLastWord == PagingTypes /\ LastWord /\ [PagingNext]_pagingVars => LastWord'
<1> SUFFICES ASSUME PagingTypes, LastWord, [PagingNext]_pagingVars PROVE LastWord'
  OBVIOUS
<1>t. toMain \in Seq(Message) /\ child \in {"running", "exited"} /\ unsent \in BOOLEAN /\ running \in BOOLEAN
      /\ resetting \in {"no", "truncate", "forget"}
  BY DEF PagingTypes
<1>r. ASSUME child = "running"
      PROVE  /\ running /\ resetting = "no"
             /\ \A i \in 1 .. Len(toMain) : toMain[i] = "output"
             /\ Pending \in Seq(Message)
             /\ \A i \in 1 .. Len(Pending) : Pending[i] = "output"
  <2>1. running /\ resetting = "no" /\ \A i \in 1 .. Len(toMain) : toMain[i] = "output"
    BY <1>r, <1>t DEF LastWord
  <2>2. QED
    BY <2>1, <1>t DEF Pending, Message
<1>1. CASE UNCHANGED <<child, unsent, toMain, running, resetting>>
  BY <1>1 DEF LastWord
<1>2. ASSUME NEW s \in Stream, Write(s)
      PROVE  LastWord'
  BY <1>2, <1>r DEF Write, managerVars, LastWord
<1>3. CASE Flush
  <2>1. child = "running"
    BY <1>3, <1>t DEF Flush, LastWord
  <2>2. QED
    BY <1>3, <1>r, <2>1 DEF Flush, managerVars, LastWord
<1>4. ASSUME NEW kind \in {"exit", "fail"}, Exit(kind)
      PROVE  LastWord'
  <2>1. child = "running"
    BY <1>4 DEF Exit
  <2>2. running' /\ resetting' = "no" /\ ~unsent' /\ child' = "exited" /\ toMain' = Append(Pending, kind)
    BY <1>4, <1>r, <2>1 DEF Exit, managerVars
  <2>3. \A i \in 1 .. Len(toMain') : toMain'[i] # "output" => i = Len(toMain')
    BY <1>r, <2>1, <2>2 DEF Message
  <2>4. QED
    BY <2>2, <2>3 DEF LastWord
<1>5. ASSUME toMain # <<>>, toMain' = Tail(toMain)
      PROVE  /\ \A i \in 1 .. Len(toMain') : toMain'[i] # "output" => i = Len(toMain') /\ child = "exited"
             /\ Head(toMain) # "output" => toMain' = <<>> /\ child = "exited"
             /\ resetting = "no"
  <2>1. \A i \in 1 .. Len(toMain') : toMain'[i] = toMain[i + 1] /\ i + 1 \in 1 .. Len(toMain) /\ Len(toMain) = Len(toMain') + 1
    BY <1>t, <1>5
  <2>2. \A i \in 1 .. Len(toMain') : toMain'[i] # "output" => i = Len(toMain') /\ child = "exited"
    BY <1>t, <1>5, <2>1 DEF LastWord
  <2>3. 1 \in 1 .. Len(toMain) /\ Head(toMain) = toMain[1]
    BY <1>t, <1>5
  <2>4. Head(toMain) # "output" => Len(toMain) = 1 /\ child = "exited"
    BY <2>3 DEF LastWord
  <2>5. Len(toMain) = 1 => toMain' = <<>>
    BY <1>t, <1>5
  <2>6. resetting = "no"
    BY <1>t, <1>5 DEF LastWord
  <2>7. QED
    BY <2>2, <2>4, <2>5, <2>6
<1>6. CASE HandleOutput
  BY <1>6, <1>5, <1>t DEF HandleOutput, Receive, sessionVars, LastWord
<1>7. CASE HandleExit \/ Repair
  <2>1. toMain' = <<>> /\ child' = "exited" /\ ~unsent' /\ (resetting' # "no" => running')
    BY <1>7, <1>5, <1>t DEF HandleExit, Repair, Receive, sessionVars, LastWord
  <2>2. QED
    BY <2>1 DEF LastWord
<1>8. CASE Truncate
  BY <1>8 DEF Truncate, sessionVars, LastWord
<1>9. CASE ForgetCursors
  BY <1>9, <1>t DEF ForgetCursors, LastWord
<1>10. ASSUME NEW s \in Stream, PruneSpool(s)
       PROVE  LastWord'
  BY <1>10, <1>1 DEF PruneSpool, sessionVars, managerVars
<1>11. ASSUME NEW r \in Read, CallRead(r) \/ GoOn(r) \/ Abort(r)
       PROVE  LastWord'
  <2>1. UNCHANGED <<child, unsent, toMain, running, resetting>>
    BY <1>11 DEF CallRead, GoOn, Abort, Look, WaitTimeout, BeginRead, ReadSizes, PageTotals, PageCursor, PageEnd,
       sessionVars, managerVars
  <2>2. QED
    BY <1>1, <2>1
<1>12. CASE UNCHANGED pagingVars
  BY <1>12, <1>1 DEF pagingVars, sessionVars, managerVars
<1>13. QED
  BY <1>2, <1>3, <1>4, <1>6, <1>7, <1>8, <1>9, <1>10, <1>11, <1>12 DEF PagingNext, Session, Manage

-----------------------------------------------------------------------------
(* What has been in a page.                                                *)

\* Facts about counts, used below.
LEMMA Counts ==
  ASSUME Types
  PROVE  /\ \A s \in Stream : written[s] \in Nat /\ gone[s] \in Nat /\ cursor[s] \in Nat
         /\ \A r \in Read : read[r] \in ReadState /\ \A s \in Stream : read[r].base[s] \in Nat /\ read[r].total[s] \in Nat
         /\ \A s \in Stream : Start[s] = 0
<1>1. \A f \in Count, s \in Stream : f[s] \in Nat
  BY PagingAssumption DEF Count
<1>2. \A r \in Read : read[r] \in ReadState /\ read[r].base \in Count /\ read[r].total \in Count
  BY DEF Types, PagingTypes, ReadState
<1>3. QED
  BY <1>1, <1>2 DEF Types, PagingTypes, Start

LEMMA NoneBefore == \A f \in Count : Characters(f, f) = {}
<1>1. \A f \in Count, s \in Stream : f[s] \in Nat
  BY PagingAssumption DEF Count
<1>2. QED
  BY <1>1 DEF Characters, Char

LEMMA Fewer ==
  ASSUME NEW f \in Count, NEW g \in Count, \A s \in Stream : f[s] <= g[s]
  PROVE  Characters(Start, f) \subseteq Characters(Start, g)
<1>1. \A s \in Stream : f[s] \in Nat /\ g[s] \in Nat
  BY PagingAssumption DEF Count
<1>2. QED
  BY <1>1 DEF Characters, Char

LEMMA StartGiven == Types => Given(Start)
BY Counts, CallStates, NoneBefore DEF Given, Within

LEMMA SameSizes ==
  ASSUME Types, gone = Start
  PROVE  Sizes = written /\ \A s \in Stream : Size(s) = written[s]
<1>1. \A s \in Stream : Size(s) = written[s]
  BY Counts DEF Size
<1>2. QED
  BY <1>1 DEF Sizes, Types, PagingTypes, Count

\* A call that does not move keeps what it knows, whoever moves.
LEMMA Frame ==
  ASSUME Types, Types', LastWord, NEW q \in Read, read'[q] = read[q], Reading(q), Final(q), Waiting(q),
         seen \subseteq seen', \A s \in Stream : written[s] <= written'[s],
         resetting = "forget" => resetting' = "forget", running' => running,
         written' = written \/ running,
         \/ read'[q].at # "wait"
         \/ unsent' \/ toMain' # <<>>
         \/ ~unsent /\ toMain = <<>> /\ written' = written /\ gone' = gone
         \/ gone' = written'
  PROVE  Reading(q)' /\ Final(q)' /\ Waiting(q)'
<1>1. \A s \in Stream : written[s] \in Nat /\ written'[s] \in Nat /\ read[q].base[s] \in Nat /\ read[q].total[s] \in Nat
  <2>1. written' \in Count /\ \A f \in Count, s \in Stream : f[s] \in Nat
    BY PagingAssumption DEF Types, PagingTypes, Count
  <2>2. QED
    BY <2>1, Counts
<1>2. \A s \in Stream : read[q].base[s] <= written[s] => read[q].base[s] <= written'[s]
  BY <1>1
<1>3. \A s \in Stream : read[q].total[s] <= written[s] => read[q].total[s] <= written'[s]
  BY <1>1
<1>4. Given(read[q].base) => Given(read[q].base)'
  BY <1>2 DEF Given, Within, Characters
<1>5. Within(read[q].total) => Within(read[q].total)'
  BY <1>3 DEF Within
<1>6. Reading(q)'
  BY <1>4, <1>5 DEF Reading
<1>7. Final(q)'
  BY DEF Final, AllWritten, Characters
<1>8. Waiting(q)'
  BY NoneBefore DEF Waiting, Characters, Types, PagingTypes
<1>9. QED
  BY <1>6, <1>7, <1>8

\* What the page that ends adds is what its caller is given next.
LEMMA PageGiven ==
  ASSUME Types, NEW r \in Read, read[r].at = "slice", Reading(r), Emptied, resetting # "forget",
         UNCHANGED written,
         seen' = seen \cup {<<c[1], gone[c[1]] + c[2]>> :
                             c \in {d \in Characters(read[r].base, NextAfter(r)) : d[2] <= Size(d[1])}}
  PROVE  /\ \A s \in Stream : NextAfter(r)[s] <= written[s]
         /\ Characters(Start, NextAfter(r)) \subseteq seen'
<1> DEFINE b == read[r].base
           t == read[r].total
           n == NextAfter(r)
           new == {<<c[1], gone[c[1]] + c[2]>> : c \in {d \in Characters(b, n) : d[2] <= Size(d[1])}}
<1>1. n \in Count /\ \A s \in Stream : b[s] <= n[s] /\ n[s] <= t[s]
  BY NextPage DEF Types, Bounded
<1>2. \A s \in Stream : b[s] \in Nat /\ n[s] \in Nat /\ t[s] \in Nat /\ written[s] \in Nat /\ gone[s] = 0 /\ Size(s) = written[s]
  <2>1. \A s \in Stream : n[s] \in Nat
    BY <1>1, PagingAssumption DEF Count
  <2>2. QED
    BY <2>1, Counts, SameSizes DEF Emptied
<1>3. Within(t) /\ Given(b)
  <2>1. CASE b = Start /\ t = Start
    BY <2>1, <1>2, StartGiven, Counts DEF Within
  <2>2. QED
    BY <2>1 DEF Reading
<1> HIDE DEF b, t, n
<1>4. \A s \in Stream : n[s] <= written[s]
  BY <1>1, <1>2, <1>3 DEF Within
<1>5. ASSUME NEW c \in Characters(Start, n)
      PROVE  c \in seen'
  <2>1. c \in Char /\ c[1] \in Stream /\ c[2] \in Nat /\ c = <<c[1], c[2]>> /\ c[2] <= n[c[1]] /\ 0 < c[2]
    BY <1>5 DEF Characters, Char
  <2>2. CASE c[2] <= b[c[1]]
    <3>1. c \in Characters(Start, b)
      BY <2>1, <2>2, Counts DEF Characters
    <3>2. QED
      BY <3>1, <1>3 DEF Given
  <2>3. CASE b[c[1]] < c[2]
    <3>1. c \in Characters(b, n)
      BY <2>1, <2>3 DEF Characters
    <3>2. c[2] <= Size(c[1])
      BY <1>2, <1>4, <2>1
    <3>3. gone[c[1]] + c[2] = c[2]
      BY <1>2, <2>1
    <3>4. <<c[1], gone[c[1]] + c[2]>> \in new
      BY <3>1, <3>2
    <3>5. QED
      BY <2>1, <3>3, <3>4 DEF b, n
  <2>4. QED
    BY <1>2, <2>1, <2>2, <2>3
<1>6. QED
  BY <1>4, <1>5 DEF n

\* A step by one call: the others keep what they know.
LEMMA CallSteps ==
  ASSUME PagingInv, ~disturbed, Types', NEW r \in Read, \A q \in Read \ {r} : read'[q] = read[q],
         UNCHANGED <<written, gone, unsent, toMain, resetting, running>>, seen \subseteq seen',
         (Reading(r) /\ Final(r) /\ Waiting(r))', CursorGiven'
  PROVE  Emptied' /\ CursorGiven' /\ Calls'
<1>1. Emptied'
  BY DEF PagingInv, Emptied
<1>2. ASSUME NEW q \in Read, q # r
      PROVE  Reading(q)' /\ Final(q)' /\ Waiting(q)'
  <2>1. Types /\ LastWord /\ Reading(q) /\ Final(q) /\ Waiting(q) /\ read'[q] = read[q]
    BY <1>2 DEF PagingInv, Calls
  <2>2. \A s \in Stream : written[s] <= written'[s]
    BY <2>1, Counts
  <2>3. \/ unsent' \/ toMain' # <<>>
        \/ ~unsent /\ toMain = <<>> /\ written' = written /\ gone' = gone
    OBVIOUS
  <2>4. QED
    BY <2>1, <2>2, <2>3, Frame
<1>3. QED
  BY <1>1, <1>2 DEF Calls

\* A step that no call makes.
LEMMA OtherSteps ==
  ASSUME PagingInv, ~disturbed, Types', \A q \in Read : read'[q] = read[q] \/ read'[q] = At("begin"),
         UNCHANGED <<cursor, seen>>, Emptied', \A s \in Stream : written[s] <= written'[s],
         resetting = "forget" => resetting' = "forget", running' => running,
         written' = written \/ running,
         \/ unsent' \/ toMain' # <<>>
         \/ ~unsent /\ toMain = <<>> /\ written' = written /\ gone' = gone
         \/ gone' = written'
         \/ \A q \in Read : read'[q].at # "wait"
  PROVE  Emptied' /\ CursorGiven' /\ Calls'
<1>1. CursorGiven'
  <2>1. \A s \in Stream : cursor[s] \in Nat /\ written[s] \in Nat /\ written'[s] \in Nat
    <3>1. written' \in Count /\ \A f \in Count, s \in Stream : f[s] \in Nat
      BY PagingAssumption DEF Types, PagingTypes, Count
    <3>2. QED
      BY <3>1, Counts DEF PagingInv
  <2>2. \A s \in Stream : cursor[s] <= written[s] => cursor[s] <= written'[s]
    BY <2>1
  <2>3. QED
    BY <2>2 DEF PagingInv, CursorGiven, Given, Within, Characters
<1>2. ASSUME NEW q \in Read
      PROVE  Reading(q)' /\ Final(q)' /\ Waiting(q)'
  <2>1. Types /\ LastWord /\ Reading(q) /\ Final(q) /\ Waiting(q)
    BY DEF PagingInv, Calls
  <2>2. CASE read'[q] = At("begin")
    <3>1. read'[q].at = "begin" /\ read'[q].stopped = FALSE
      BY <2>2, CallStates DEF Place
    <3>2. QED
      BY <3>1 DEF Reading, Final, Waiting
  <2>3. CASE read'[q] = read[q]
    <3>1. \/ read'[q].at # "wait"
          \/ unsent' \/ toMain' # <<>>
          \/ ~unsent /\ toMain = <<>> /\ written' = written /\ gone' = gone
          \/ gone' = written'
      OBVIOUS
    <3>2. seen \subseteq seen'
      OBVIOUS
    <3>3. QED
      BY <2>1, <2>3, <3>1, <3>2, Frame
  <2>4. QED
    BY <2>2, <2>3
<1>3. QED
  BY <1>1, <1>2 DEF Calls

LEMMA StepCalls ==
  ASSUME PagingInv, [PagingNext]_pagingVars, Types', LastWord', ~disturbed'
  PROVE  Emptied' /\ CursorGiven' /\ Calls'
<1>i. Types /\ LastWord /\ PagingTypes
  BY DEF PagingInv, Types
<1>t. /\ toMain \in Seq(Message) /\ unsent \in BOOLEAN /\ running \in BOOLEAN /\ disturbed \in BOOLEAN
      /\ child \in {"running", "exited"} /\ resetting \in {"no", "truncate", "forget"}
      /\ read \in [Read -> ReadState] /\ hasCursor \in BOOLEAN
  BY <1>i DEF PagingTypes
<1>d. ~disturbed
  BY <1>t DEF PagingNext, Session, Manage, GoOn, Write, Flush, Exit, HandleOutput, HandleExit, Repair, Truncate, ForgetCursors,
     PruneSpool, CallRead, Abort, Look, WaitTimeout, BeginRead, ReadSizes, PageTotals, PageCursor, PageEnd, pagingVars, ghostVars
<1>e. Emptied /\ CursorGiven /\ \A q \in Read : Reading(q) /\ Final(q) /\ Waiting(q)
  BY <1>d DEF PagingInv, Calls
<1>n. \A s \in Stream : /\ written[s] \in Nat /\ gone[s] \in Nat /\ cursor[s] \in Nat /\ Start[s] = 0
                        /\ \A q \in Read : read[q].base[s] \in Nat /\ read[q].total[s] \in Nat
  BY <1>i, Counts
<1>m. \A s \in Stream : written[s] <= written[s]
  BY <1>n
<1>1. ASSUME NEW s \in Stream, Write(s)
      PROVE  Emptied' /\ CursorGiven' /\ Calls'
  <2>1. running /\ resetting = "no"
    BY <1>1, <1>i, <1>t DEF Write, LastWord
  <2>2. \A u \in Stream : written[u] <= written'[u]
    BY <1>1, <1>n, <1>i DEF Write, PagingTypes, Count
  <2>3. Emptied'
    BY <1>1, <1>e, <2>1 DEF Write, managerVars, Emptied
  <2>4. unsent' /\ UNCHANGED <<cursor, seen, read, resetting, running>>
    BY <1>1 DEF Write, managerVars, callerVars, ghostVars
  <2>5. QED
    BY <1>d, <2>1, <2>2, <2>3, <2>4, OtherSteps
<1>2. CASE Flush \/ \E kind \in {"exit", "fail"} : Exit(kind)
  <2>1. PICK kind \in Message : toMain' = Append(Pending, kind) \/ toMain' = Append(toMain, kind)
    BY <1>2 DEF Flush, Exit, Pending, Message
  <2>2. toMain' # <<>>
    BY <1>t, <2>1 DEF Pending, Message
  <2>3. UNCHANGED <<written, gone, cursor, seen, read, resetting, running>>
    BY <1>2 DEF Flush, Exit, managerVars, callerVars, ghostVars
  <2>4. Emptied'
    BY <1>e, <2>3 DEF Emptied
  <2>5. QED
    BY <1>d, <1>m, <2>2, <2>3, <2>4, OtherSteps
<1>3. CASE HandleOutput \/ HandleExit \/ Repair
  <2>1. toMain # <<>>
    BY <1>3 DEF HandleOutput, HandleExit, Repair, Receive
  <2>2. resetting = "no"
    BY <2>1, <1>i, <1>t DEF LastWord
  <2>3. UNCHANGED <<written, gone, cursor, seen>> /\ (running' => running) /\ resetting' # "forget" /\ Changed
    BY <1>3, <2>2 DEF HandleOutput, HandleExit, Repair, sessionVars, ghostVars
  <2>4. \A q \in Read : (read'[q] = read[q] /\ read'[q].at # "wait") \/ read'[q] = At("begin")
    BY <2>3 DEF Changed
  <2>5. At("begin").at # "wait"
    BY CallStates DEF Place
  <2>6. \A q \in Read : read'[q].at # "wait"
    BY <2>4, <2>5
  <2>7. Emptied'
    BY <1>e, <2>2, <2>3 DEF Emptied
  <2>8. QED
    BY <1>d, <1>m, <2>2, <2>3, <2>4, <2>6, <2>7, OtherSteps
<1>4. CASE Truncate
  <2>1. gone' = written' /\ resetting' = "forget" /\ UNCHANGED <<written, cursor, seen, read, running>>
    BY <1>4 DEF Truncate, sessionVars, callerVars, ghostVars
  <2>2. Emptied'
    BY <2>1 DEF Emptied
  <2>3. QED
    BY <1>d, <1>m, <2>1, <2>2, OtherSteps
<1>5. CASE ForgetCursors
  <2>1. /\ running /\ running' /\ resetting' = "no" /\ UNCHANGED read /\ ~StaleRead
        /\ cursor' = Start /\ written' = Start /\ gone' = Start /\ seen' = {}
    BY <1>5, <1>i, <1>t DEF ForgetCursors, LastWord
  <2>2. Emptied'
    BY <2>1 DEF Emptied
  <2>3. CursorGiven'
    BY <2>1, <1>n, CallStates, NoneBefore DEF CursorGiven, Given, Within
  <2>4. ASSUME NEW q \in Read
        PROVE  Reading(q)' /\ Final(q)' /\ Waiting(q)'
    <3>1. /\ read[q].at = "look" => read[q].base = Start
          /\ read[q].at \in {"cursor", "slice"} => read[q].total = Start
      BY <2>1 DEF StaleRead
    <3>2. read[q].at = "slice" => read[q].base = Start
      <4>1. ASSUME read[q].at = "slice"
            PROVE  \A s \in Stream : read[q].base[s] = Start[s]
        BY <4>1, <1>n, <3>1, <1>i DEF Types, Bounded
      <4>2. read[q].base \in Count /\ Start \in Count
        BY <1>t, CallStates DEF ReadState
      <4>3. QED
        BY <4>1, <4>2 DEF Count
    <3>3. Reading(q)'
      BY <2>1, <3>1, <3>2 DEF Reading
    <3>4. Final(q)'
      BY <1>e, <2>1 DEF Final
    <3>5. Waiting(q)'
      BY <2>1, CallStates, NoneBefore DEF Waiting
    <3>6. QED
      BY <3>3, <3>4, <3>5
  <2>5. QED
    BY <2>2, <2>3, <2>4 DEF Calls
<1>6. ASSUME NEW s \in Stream, PruneSpool(s)
      PROVE  FALSE
  BY <1>6 DEF PruneSpool
\* The rest are steps of a call.
<1>7. ASSUME NEW r \in Read, NEW x, read' = [read EXCEPT ![r] = x]
      PROVE  read'[r] = x /\ \A q \in Read \ {r} : read'[q] = read[q]
  BY <1>7, <1>t
<1>8. ASSUME UNCHANGED <<cursor, written, seen, resetting>>
      PROVE  CursorGiven'
  BY <1>8, <1>e DEF CursorGiven, Given, Within, Characters
<1>9. ASSUME NEW r \in Read, CallRead(r)
      PROVE  Emptied' /\ CursorGiven' /\ Calls'
  <2> DEFINE x == [At("look") EXCEPT !.base = cursor]
  <2>1. UNCHANGED <<written, gone, unsent, toMain, resetting, running, cursor, seen>>
    BY <1>9 DEF CallRead, sessionVars, managerVars, callerVars, ghostVars
  <2>2. At("begin").at = "begin" /\ At("begin").stopped = FALSE /\ x.at = "look" /\ x.base = cursor /\ x.stopped = FALSE
    <3>1. At("begin").at = "begin" /\ At("begin").stopped = FALSE /\ At("look") \in ReadState
          /\ At("look").at = "look" /\ At("look").stopped = FALSE
      BY CallStates DEF Place
    <3>2. QED
      BY <3>1 DEF ReadState
  <2>3. \A q \in Read \ {r} : read'[q] = read[q]
    BY <1>9, <1>t DEF CallRead, Go
  <2>4. read'[r] = At("begin") \/ read'[r] = x
    BY <1>9, <1>t DEF CallRead, Go
  <2> HIDE DEF x
  <2>5. (Reading(r) /\ Final(r) /\ Waiting(r))'
    BY <2>1, <2>2, <2>4, <1>e DEF Reading, Final, Waiting, CursorGiven, Given, Within, Characters
  <2>6. QED
    BY <1>d, <1>8, <2>1, <2>3, <2>5, CallSteps
<1>10. ASSUME NEW r \in Read, Look(r)
       PROVE  Emptied' /\ CursorGiven' /\ Calls'
  <2>1. UNCHANGED <<written, gone, unsent, toMain, resetting, running, cursor, seen>>
    BY <1>10 DEF Look, sessionVars, managerVars, callerVars, ghostVars
  <2>2. At("begin").at = "begin" /\ At("begin").stopped = FALSE /\ At("wait").at = "wait" /\ At("wait").stopped = FALSE
    BY CallStates DEF Place
  <2>3. \A q \in Read \ {r} : read'[q] = read[q]
    BY <1>10, <1>t DEF Look, Go
  <2>4. CASE read'[r] = At("begin")
    <3>1. (Reading(r) /\ Final(r) /\ Waiting(r))'
      BY <2>2, <2>4 DEF Reading, Final, Waiting
    <3>2. QED
      BY <1>d, <1>8, <2>1, <2>3, <3>1, CallSteps
  <2>5. CASE read'[r] = At("wait") /\ \A s \in Stream : ~(Size(s) > read[r].base[s])
    <3>1. Characters(gone, written) \subseteq seen
      <4>1. CASE resetting = "forget"
        BY <4>1, <1>e, <1>i, NoneBefore DEF Emptied, PagingTypes
      <4>2. CASE resetting # "forget"
        <5>1. \A s \in Stream : written[s] <= read[r].base[s]
          BY <4>2, <1>e, <1>i, <1>n, <2>5, SameSizes DEF Emptied
        <5>2. Given(read[r].base)
          BY <4>2, <1>10, <1>e, <1>i, StartGiven DEF Reading, Look
        <5>3. Characters(Start, written) \subseteq Characters(Start, read[r].base)
          BY <5>1, <1>i, <1>t, Fewer DEF PagingTypes, ReadState
        <5>4. QED
          BY <4>2, <5>2, <5>3, <1>e DEF Emptied, Given
      <4>3. QED
        BY <4>1, <4>2
    <3>2. (Reading(r) /\ Final(r) /\ Waiting(r))'
      BY <2>1, <2>2, <2>5, <3>1 DEF Reading, Final, Waiting, Characters
    <3>3. QED
      BY <1>d, <1>8, <2>1, <2>3, <3>2, CallSteps
  <2>6. QED
    BY <1>10, <1>t, <2>4, <2>5 DEF Look, Go
<1>11. ASSUME NEW r \in Read, WaitTimeout(r) \/ Abort(r)
       PROVE  Emptied' /\ CursorGiven' /\ Calls'
  <2>1. UNCHANGED <<written, gone, unsent, toMain, resetting, running, cursor, seen>>
    BY <1>11 DEF WaitTimeout, Abort, sessionVars, managerVars, callerVars, ghostVars
  <2>2. NotReading(FALSE).at = "idle" /\ NotReading(FALSE).stopped = FALSE
    BY CallStates
  <2>3. read'[r] = NotReading(FALSE) /\ \A q \in Read \ {r} : read'[q] = read[q]
    BY <1>11, <1>t DEF WaitTimeout, Abort, Return
  <2>4. (Reading(r) /\ Final(r) /\ Waiting(r))'
    BY <2>2, <2>3 DEF Reading, Final, Waiting
  <2>5. QED
    BY <1>d, <1>8, <2>1, <2>3, <2>4, CallSteps
<1>12. ASSUME NEW r \in Read, BeginRead(r)
       PROVE  Emptied' /\ CursorGiven' /\ Calls'
  <2> DEFINE x == [At("sizes") EXCEPT !.live = running, !.had = hasCursor]
  <2>1. UNCHANGED <<written, gone, unsent, toMain, resetting, running, cursor, seen>>
    BY <1>12 DEF BeginRead, sessionVars, managerVars, ghostVars
  <2>2. x.at = "sizes" /\ x.live = running /\ x.stopped = FALSE
    <3>1. At("sizes") \in ReadState /\ At("sizes").at = "sizes" /\ At("sizes").stopped = FALSE
      BY CallStates DEF Place
    <3>2. QED
      BY <3>1 DEF ReadState
  <2>3. read'[r] = x /\ \A q \in Read \ {r} : read'[q] = read[q]
    BY <1>12, <1>t DEF BeginRead
  <2> HIDE DEF x
  <2>4. (Reading(r) /\ Final(r) /\ Waiting(r))'
    BY <2>1, <2>2, <2>3 DEF Reading, Final, Waiting
  <2>5. QED
    BY <1>d, <1>8, <2>1, <2>3, <2>4, CallSteps
<1>13. ASSUME NEW r \in Read, ReadSizes(r)
       PROVE  Emptied' /\ CursorGiven' /\ Calls'
  <2> DEFINE x == [read[r] EXCEPT !.at = "totals", !.had = FALSE]
  <2>1. UNCHANGED <<written, gone, unsent, toMain, resetting, running, cursor>> /\ read[r].at = "sizes"
    BY <1>13 DEF ReadSizes, sessionVars, managerVars, callerVars
  <2>2. read[r] \in ReadState /\ ~read[r].stopped
    BY <1>t, <1>e, <2>1 DEF Final
  <2>3. x.at = "totals" /\ x.live = read[r].live /\ x.stopped = FALSE
    BY <2>2 DEF ReadState
  <2>4. seen \subseteq seen' /\ \A q \in Read \ {r} : read'[q] = read[q]
    BY <1>13, <1>t DEF ReadSizes, Return
  <2>5. CursorGiven'
    BY <1>e, <2>1, <2>4 DEF CursorGiven, Given, Within, Characters
  <2>6. CASE read'[r] = x
    <3> HIDE DEF x
    <3>1. (Reading(r) /\ Final(r) /\ Waiting(r))'
      BY <1>e, <2>1, <2>3, <2>6 DEF Reading, Final, Waiting
    <3>2. QED
      BY <1>d, <2>1, <2>4, <2>5, <3>1, CallSteps
  <2>7. CASE read'[r] = NotReading(~read[r].live) /\ (~read[r].live => seen' = seen \cup InMemory)
    <3>1. NotReading(~read[r].live).at = "idle" /\ NotReading(~read[r].live).stopped = ~read[r].live
      BY <2>2, CallStates DEF ReadState
    <3>2. ~read[r].live => ~running /\ toMain = <<>> /\ ~unsent
      BY <1>e, <1>i, <2>1 DEF Final, LastWord
    <3>3. ~read[r].live => AllWritten \subseteq seen'
      BY <2>7, <3>2 DEF InMemory
    <3>4. AllWritten' = AllWritten
      BY <2>1 DEF AllWritten, Characters
    <3>5. Reading(r)' /\ Waiting(r)'
      BY <2>7, <3>1 DEF Reading, Waiting
    <3>6. Final(r)'
      BY <2>1, <2>7, <3>1, <3>2, <3>3, <3>4 DEF Final
    <3>7. QED
      BY <1>d, <2>1, <2>4, <2>5, <3>5, <3>6, CallSteps
  <2>8. QED
    BY <1>13, <1>t, <2>6, <2>7 DEF ReadSizes, Return
<1>14. ASSUME NEW r \in Read, PageTotals(r)
       PROVE  Emptied' /\ CursorGiven' /\ Calls'
  <2> DEFINE x == [read[r] EXCEPT !.at = "cursor", !.total = Sizes]
  <2>1. UNCHANGED <<written, gone, unsent, toMain, resetting, running, cursor, seen>> /\ read[r].at = "totals"
    BY <1>14 DEF PageTotals, sessionVars, managerVars, callerVars, ghostVars
  <2>2. x.at = "cursor" /\ x.live = read[r].live /\ x.stopped = FALSE /\ x.total = Sizes
    <3>1. read[r] \in ReadState /\ ~read[r].stopped
      BY <1>t, <1>e, <2>1 DEF Final
    <3>2. QED
      BY <3>1 DEF ReadState
  <2>3. read'[r] = x /\ \A q \in Read \ {r} : read'[q] = read[q]
    BY <1>14, <1>t DEF PageTotals
  <2> HIDE DEF x
  <2>4. \A s \in Stream : Sizes[s] <= written[s]
    BY <1>n DEF Sizes, Size
  <2>5. ~read[r].live => ~running /\ Sizes = written
    <3>1. ~read[r].live => ~running
      BY <1>e, <2>1 DEF Final
    <3>2. ~running => resetting = "no"
      BY <1>i, <1>t DEF LastWord
    <3>3. resetting = "no" => Sizes = written
      BY <1>e, <1>i, SameSizes DEF Emptied
    <3>4. QED
      BY <3>1, <3>2, <3>3
  <2>6. \A s \in Stream : read'[r].total[s] <= written'[s]
    BY <2>1, <2>2, <2>3, <2>4
  <2>7. Reading(r)' /\ Waiting(r)'
    BY <2>2, <2>3, <2>6 DEF Reading, Waiting, Within
  <2>8. Final(r)'
    BY <2>1, <2>2, <2>3, <2>5 DEF Final
  <2>9. QED
    BY <1>d, <1>8, <2>1, <2>3, <2>7, <2>8, CallSteps
<1>15. ASSUME NEW r \in Read, PageCursor(r)
       PROVE  Emptied' /\ CursorGiven' /\ Calls'
  <2> DEFINE t == read[r].total
             b == [s \in Stream |-> Least(cursor[s], t[s])]
             x == [read[r] EXCEPT !.at = "slice", !.base = b]
  <2>1. UNCHANGED <<written, gone, unsent, toMain, resetting, running, cursor, seen>> /\ read[r].at = "cursor"
    BY <1>15 DEF PageCursor, sessionVars, managerVars, callerVars, ghostVars
  <2>2. x.at = "slice" /\ x.live = read[r].live /\ x.stopped = FALSE /\ x.total = t /\ x.base = b
    <3>1. read[r] \in ReadState /\ ~read[r].stopped
      BY <1>t, <1>e, <2>1 DEF Final
    <3>2. QED
      BY <3>1 DEF ReadState
  <2>3. read'[r] = x /\ \A q \in Read \ {r} : read'[q] = read[q]
    BY <1>15, <1>t DEF PageCursor
  <2>4. \A s \in Stream : b[s] \in Nat /\ b[s] <= cursor[s] /\ b[s] <= t[s]
    BY <1>n DEF Least
  <2>5. b \in Count /\ cursor \in Count
    BY <1>i, <1>t DEF PagingTypes, ReadState, Count, Least
  <2> HIDE DEF x
  <2>6. t = Start => b = Start
    BY <2>4, <1>n DEF Start
  <2>7. Within(t) /\ resetting # "forget" => Given(b)
    <3> SUFFICES ASSUME Within(t), resetting # "forget" PROVE Given(b)
      OBVIOUS
    <3>1. Given(cursor)
      BY <1>e DEF CursorGiven
    <3>2. Characters(Start, b) \subseteq Characters(Start, cursor)
      BY <2>4, <2>5, Fewer
    <3> HIDE DEF b
    <3>3. \A s \in Stream : b[s] <= written[s]
      BY <1>n, <2>4, <3>1 DEF Given, Within
    <3>4. QED
      BY <3>1, <3>2, <3>3 DEF Given, Within
  <2>8. t = Start \/ resetting = "forget" \/ Within(t)
    BY <1>e, <2>1 DEF Reading
  <2> HIDE DEF b, t
  <2>9. Reading(r)' /\ Waiting(r)'
    BY <2>1, <2>2, <2>3, <2>6, <2>7, <2>8 DEF Reading, Waiting, Given, Within, Characters
  <2>10. Final(r)'
    BY <1>e, <2>1, <2>2, <2>3 DEF Final, t
  <2>11. QED
    BY <1>d, <1>8, <2>1, <2>3, <2>9, <2>10, CallSteps
<1>16. ASSUME NEW r \in Read, PageEnd(r)
       PROVE  Emptied' /\ CursorGiven' /\ Calls'
  <2> DEFINE n == NextAfter(r)
             goesOn == n # read[r].total \/ read[r].live
             new == {<<c[1], gone[c[1]] + c[2]>> : c \in {d \in Characters(read[r].base, n) : d[2] <= Size(d[1])}}
  <2>1. UNCHANGED <<written, gone, unsent, toMain, resetting, running>> /\ read[r].at = "slice"
    BY <1>16 DEF PageEnd, sessionVars, managerVars
  <2>2. \A q \in Read \ {r} : read'[q] = read[q]
    BY <1>16, <1>t DEF PageEnd, Return
  <2>3. CASE read'[r] = NotReading(FALSE) /\ UNCHANGED <<seen, cursor>>
    <3>1. NotReading(FALSE).at = "idle" /\ NotReading(FALSE).stopped = FALSE
      BY CallStates
    <3>2. (Reading(r) /\ Final(r) /\ Waiting(r))'
      BY <2>3, <3>1 DEF Reading, Final, Waiting
    <3>3. QED
      BY <1>d, <1>8, <2>1, <2>2, <2>3, <3>2, CallSteps
  <2>4. CASE read'[r] = NotReading(~goesOn) /\ seen' = seen \cup new /\ cursor' = IF goesOn THEN n ELSE Start
    <3>1. goesOn \in BOOLEAN
      BY <1>t DEF ReadState
    <3>2. NotReading(~goesOn).at = "idle" /\ NotReading(~goesOn).stopped = ~goesOn
      BY <3>1, CallStates
    <3>3. resetting # "forget" => (\A s \in Stream : n[s] <= written[s]) /\ Characters(Start, n) \subseteq seen'
      BY <1>e, <1>i, <2>1, <2>4, PageGiven
    <3> HIDE DEF n, new
    <3>4. CursorGiven'
      <4>1. Given(Start)'
        BY <2>1, <1>n, CallStates, NoneBefore DEF Given, Within
      <4>2. CASE goesOn
        BY <2>1, <2>4, <3>3, <4>2 DEF CursorGiven, Given, Within, Characters
      <4>3. CASE ~goesOn
        <5>1. cursor' = Start
          BY <2>4, <4>3
        <5>2. QED
          BY <4>1, <5>1 DEF CursorGiven, Given, Within, Characters
      <4>4. QED
        BY <4>2, <4>3
    <3>5. ~goesOn => ~running /\ AllWritten \subseteq seen'
      <4>1. ~goesOn => ~read[r].live /\ n = read[r].total
        OBVIOUS
      <4>2. ~goesOn => ~running /\ n = written
        BY <1>e, <2>1, <4>1 DEF Final
      <4>3. ~goesOn => resetting = "no"
        BY <4>2, <1>i, <1>t DEF LastWord
      <4>4. QED
        BY <3>3, <4>2, <4>3 DEF AllWritten
    <3>6. AllWritten' = AllWritten
      BY <2>1 DEF AllWritten, Characters
    <3>7. Reading(r)' /\ Waiting(r)'
      BY <2>4, <3>2 DEF Reading, Waiting
    <3>8. Final(r)'
      BY <2>1, <2>4, <3>2, <3>5, <3>6 DEF Final
    <3>9. seen \subseteq seen'
      BY <2>4
    <3>10. QED
      BY <1>d, <2>1, <2>2, <3>4, <3>7, <3>8, <3>9, CallSteps
  <2>5. QED
    BY <1>16, <1>t, <2>3, <2>4 DEF PageEnd, Return
<1>17. CASE UNCHANGED pagingVars
  <2>1. UNCHANGED <<written, gone, unsent, toMain, cursor, seen, read, resetting, running>>
    BY <1>17 DEF pagingVars, sessionVars, managerVars, callerVars, ghostVars
  <2>2. Emptied' /\ CursorGiven'
    BY <1>e, <2>1 DEF Emptied, CursorGiven, Given, Within, Characters
  <2>3. Calls'
    BY <1>e, <2>1 DEF Calls, Reading, Final, Waiting, Given, Within, AllWritten, Characters
  <2>4. QED
    BY <2>2, <2>3
<1>18. QED
  BY <1>1, <1>2, <1>3, <1>4, <1>5, <1>6, <1>9, <1>10, <1>11, <1>12, <1>13, <1>14, <1>15, <1>16, <1>17
  DEF PagingNext, Session, Manage, GoOn

-----------------------------------------------------------------------------

LEMMA PagingInvariance == PagingSpec => []PagingInv
<1>1. PagingInit => PagingInv
  BY PagingBegins
<1>2. PagingInv /\ [PagingNext]_pagingVars => PagingInv'
  <2> SUFFICES ASSUME PagingInv, [PagingNext]_pagingVars PROVE PagingInv'
    OBVIOUS
  <2>1. Types' /\ LastWord'
    BY StepTypes, StepLastWord DEF PagingInv, Types
  <2>2. ~disturbed' => Emptied' /\ CursorGiven' /\ Calls'
    BY <2>1, StepCalls
  <2>3. QED
    BY <2>1, <2>2 DEF PagingInv
<1>3. QED
  BY <1>1, <1>2, PTL DEF PagingSpec

\* The counters of the output, the cursors and the pages of every read have their types.
THEOREM PagingTypeCorrect == PagingSpec => []PagingTypes
<1>1. PagingInv => PagingTypes
  BY DEF PagingInv, Types
<1>2. QED
  BY <1>1, PagingInvariance, PTL

\* Who is told to stop has been given every character of the final attempt, by one of the
\* reads that overlap (readAsync, pageOutput), files that went under a cursor excepted.
THEOREM StopIsComplete == PagingSpec => []StopMeansAll
<1>1. PagingInv => StopMeansAll
  BY DEF PagingInv, Calls, Final, StopMeansAll
<1>2. QED
  BY <1>1, PagingInvariance, PTL

\* A wait that ends without a change has left nothing unread that no message announces
\* (readWithWait).
THEOREM NoChangeHidesNothing == PagingSpec => NoChangeIsTrue
<1>1. PagingInv =>
        \A r \in Read : (WaitTimeout(r) /\ ~unsent /\ toMain = <<>> /\ ~disturbed)
                         => Characters(gone, written) \subseteq seen
  BY DEF PagingInv, Calls, Waiting, WaitTimeout
<1>2. QED
  BY <1>1, PagingInvariance, PTL DEF NoChangeIsTrue

(***************************************************************************)
(* The front door.                                                         *)
(***************************************************************************)

\* The loop: what is being written is what the routes are, or the loop goes on.
Loop ==
  /\ persist.writing = {} => ~persist.dirty
  /\ persist.writing # {} => \E w \in Routes : persist.writing = {w}
  /\ persist.writing # {} /\ ~persist.dirty => persist.writing = {routes}
  /\ RoutesAreSaved

\* It is not asked of the front door where the process is.
Gone(p) == p \in lost \/ proc[p].at = "ended"

\* What a request names, and where it is.
Named(r) ==
  LET q == req[r] IN
  /\ q.at \in {"stat", "wait", "sent"} => IF q.tool = "start_process" THEN q.id = NoProcess ELSE q.id \in told
  /\ Choosing(r) /\ q.id # NoProcess => Gone(q.id)
  /\ q.at = "sent" => q.to \in Backend /\ (q.id # NoProcess => Gone(q.id) \/ q.to = proc[q.id].by)
  /\ q.at = "answered" =>
       /\ q.id \in Process /\ proc[q.id].at # "none"
       /\ q.tool = "start_process" => q.to = proc[q.id].by
       /\ q.tool # "start_process" => q.id \in told /\ (q.ended => proc[q.id].at = "ended")

Home ==
  /\ \A r \in HttpRequest : Named(r)
  /\ \A p \in told : proc[p].at # "none"
  /\ \A p \in Process : proc[p].at # "none" => proc[p].by \in Backend
  /\ \A p \in told : Gone(p) \/ routes[p] = proc[p].by

\* The backend that is known is the configured one, unless the file says that it changed.
Follow ==
  /\ last.mtime <= config.mtime
  /\ refresh = "stat" \/ last.mtime = config.mtime => overlap \/ last.backend = config.backend
  /\ \A r \in HttpRequest : Choosing(r) => config.backend \in req[r].ok
  /\ FollowsTheSwitch

DoorInv == DoorTypes /\ Loop /\ Home /\ Follow

ConfigState == [backend : Backend, mtime : 0 .. MaxSwitches]
LastState == [backend : Backend, mtime : -1 .. MaxSwitches]
PersistState == [dirty : BOOLEAN, writing : SUBSET Routes]
ProcState == [by : Target, at : {"none", "running", "ended"}]

-----------------------------------------------------------------------------

LEMMA SentState ==
  ASSUME DoorTypes, NEW q \in RequestState
  PROVE  /\ Sent(q) \in RequestState
         /\ Sent(q).at = "sent" /\ Sent(q).to = last.backend
         /\ Sent(q).tool = q.tool /\ Sent(q).id = q.id /\ Sent(q).ended = q.ended
         /\ Sent(q).ok = IF overlap THEN Backend ELSE q.ok
BY DEF DoorTypes, Sent, RequestState, Target

LEMMA RequestStates ==
  /\ Idle \in RequestState /\ Idle.at = "idle"
  /\ \A q \in RequestState :
       /\ \A b \in Backend : /\ [q EXCEPT !.ok = @ \cup {b}] \in RequestState
                             /\ [q EXCEPT !.ok = @ \cup {b}].ok = q.ok \cup {b}
       /\ [q EXCEPT !.ok = Backend] \in RequestState
       /\ [q EXCEPT !.at = "wait"] \in RequestState
<1>1. Idle \in RequestState /\ Idle.at = "idle"
  BY DEF Idle, RequestState, Target, Tool
<1>2. \A q \in RequestState, b \in Backend : /\ [q EXCEPT !.ok = @ \cup {b}] \in RequestState
                                             /\ [q EXCEPT !.ok = @ \cup {b}].ok = q.ok \cup {b}
  <2> TAKE q \in RequestState, b \in Backend
  <2>1. q.ok \cup {b} \in SUBSET Backend
    BY DEF RequestState
  <2>2. QED
    BY <2>1 DEF RequestState
<1>3. \A q \in RequestState : [q EXCEPT !.ok = Backend] \in RequestState /\ [q EXCEPT !.at = "wait"] \in RequestState
  BY DEF RequestState
<1>4. QED
  BY <1>1, <1>2, <1>3

\* What a request is when it begins.
Named0(tool, p) == [Idle EXCEPT !.tool = tool, !.id = p]
Unpinned(tool, p, b) == [Named0(tool, p) EXCEPT !.at = "stat", !.ok = {b}]
Pinned(tool, p, b) == [Named0(tool, p) EXCEPT !.at = "sent", !.to = b, !.ok = {b}]

LEMMA BeginState ==
  ASSUME NEW tool \in Tool, NEW p \in Process \cup {NoProcess}, NEW b \in Backend
  PROVE  /\ Unpinned(tool, p, b) \in RequestState
         /\ Unpinned(tool, p, b).at = "stat" /\ Unpinned(tool, p, b).tool = tool /\ Unpinned(tool, p, b).id = p
         /\ Unpinned(tool, p, b).ok = {b}
         /\ Pinned(tool, p, b) \in RequestState
         /\ Pinned(tool, p, b).at = "sent" /\ Pinned(tool, p, b).tool = tool /\ Pinned(tool, p, b).id = p
         /\ Pinned(tool, p, b).ok = {b} /\ Pinned(tool, p, b).to = b
BY DEF Idle, RequestState, Target, Named0, Unpinned, Pinned

LEMMA BeginRequest ==
  ASSUME DoorTypes, NEW r \in HttpRequest, Begin(r)
  PROVE  \E tool \in Tool, p \in told \cup {NoProcess} :
           /\ p = NoProcess <=> tool = "start_process"
           /\ \A o \in HttpRequest : o # r => req'[o] = req[o]
           /\ \/ /\ p \in told => routes[p] = NoBackend
                 /\ req' = [req EXCEPT ![r] = Unpinned(tool, p, config.backend)]
              \/ /\ p \in told /\ routes[p] \in Backend
                 /\ req' = [req EXCEPT ![r] = Pinned(tool, p, routes[p])]
<1>1. PICK tool \in Tool, p \in told \cup {NoProcess} :
        /\ (p = NoProcess) = (tool = "start_process")
        /\ LET pinned == IF p = NoProcess THEN NoBackend ELSE routes[p]
               q == [Idle EXCEPT !.tool = tool, !.id = p]
           IN req' = [req EXCEPT ![r] = IF pinned = NoBackend THEN [q EXCEPT !.at = "stat", !.ok = {config.backend}]
                                        ELSE [q EXCEPT !.at = "sent", !.to = pinned, !.ok = {pinned}]]
  BY DEF Begin
<1>2. p = NoProcess <=> tool = "start_process"
  BY <1>1
<1>3. told \subseteq Process /\ (p \in told => p # NoProcess) /\ (p \in told => routes[p] \in Backend \cup {NoBackend})
  BY DoorAssumption DEF DoorTypes, Routes, Target
<1>4. \A o \in HttpRequest : o # r => req'[o] = req[o]
  BY <1>1 DEF DoorTypes
<1>5. CASE p = NoProcess
  <2>1. p \notin told /\ req' = [req EXCEPT ![r] = Unpinned(tool, p, config.backend)]
    BY <1>1, <1>3, <1>5 DEF Unpinned, Named0
  <2>2. QED
    BY <1>2, <1>4, <2>1
<1>6. CASE p # NoProcess
  <2>1. p \in told
    BY <1>6
  <2>2. routes[p] = NoBackend => req' = [req EXCEPT ![r] = Unpinned(tool, p, config.backend)]
    BY <1>1, <1>6 DEF Unpinned, Named0
  <2>3. routes[p] # NoBackend => req' = [req EXCEPT ![r] = Pinned(tool, p, routes[p])]
    BY <1>1, <1>6 DEF Pinned, Named0
  <2>4. QED
    BY <1>2, <1>3, <1>4, <2>1, <2>2, <2>3
<1>7. QED
  BY <1>5, <1>6

\* The loop is told of routes.
LEMMA LoopStates ==
  ASSUME DoorTypes
  PROVE  /\ WriteEnds \in PersistState
         /\ \A now \in Routes : Scheduled(now) \in PersistState
BY DEF DoorTypes, WriteEnds, Scheduled, PersistState

LEMMA RoutedIsRoutes ==
  ASSUME DoorTypes, NEW q \in RequestState
  PROVE  Routed(q) \in Routes
BY DEF DoorTypes, Routed, Routes, RequestState, Target

-----------------------------------------------------------------------------

LEMMA DoorBegins == DoorInit => DoorInv
<1> SUFFICES ASSUME DoorInit PROVE DoorInv
  OBVIOUS
<1>1. PICK b \in Backend : config = [backend |-> b, mtime |-> 0]
  BY DEF DoorInit
<1>2. last = [backend |-> b, mtime |-> -1]
  BY <1>1 DEF DoorInit
<1>3. NoRoutes \in Routes
  BY DEF NoRoutes, Routes, Target
<1>4. DoorTypes
  <2>1. config \in [backend : Backend, mtime : 0 .. MaxSwitches] /\ last \in [backend : Backend, mtime : -1 .. MaxSwitches]
    BY <1>1, <1>2, DoorAssumption
  <2>2. proc \in [Process -> [by : Target, at : {"none", "running", "ended"}]]
    BY DEF DoorInit, Target
  <2>3. persist \in [dirty : BOOLEAN, writing : SUBSET Routes] /\ req \in [HttpRequest -> RequestState]
    BY RequestStates DEF DoorInit
  <2>4. restarts \in 0 .. MaxRestarts /\ faults \in 0 .. MaxFaults
    BY DoorAssumption DEF DoorInit
  <2>5. QED
    BY <1>3, <2>1, <2>2, <2>3, <2>4 DEF DoorInit, DoorTypes
<1>5. \A r \in HttpRequest : req[r].at = "idle"
  BY RequestStates DEF DoorInit
<1>6. Loop
  BY DEF DoorInit, Loop, RoutesAreSaved
<1>7. Home
  BY <1>5 DEF DoorInit, Home, Named, Choosing
<1>8. Follow
  BY <1>1, <1>2, <1>5 DEF DoorInit, Follow, Choosing, FollowsTheSwitch
<1>9. QED
  BY <1>4, <1>6, <1>7, <1>8 DEF DoorInv

-----------------------------------------------------------------------------
(* Types.                                                                  *)

LEMMA StepType == DoorTypes /\ Home /\ [DoorNext]_doorVars => DoorTypes'
<1> SUFFICES ASSUME DoorTypes, Home, [DoorNext]_doorVars PROVE DoorTypes'
  OBVIOUS
<1>a. /\ config \in ConfigState /\ last \in LastState /\ persist \in PersistState
      /\ req \in [HttpRequest -> RequestState] /\ proc \in [Process -> ProcState]
      /\ routes \in Routes /\ saved \in Routes /\ told \subseteq Process /\ lost \subseteq Process
  BY DEF DoorTypes, ConfigState, LastState, PersistState, ProcState
<1>b. config.backend \in Backend /\ last.backend \in Backend /\ config.mtime \in 0 .. MaxSwitches
  BY <1>a DEF ConfigState, LastState
<1>c. MaxSwitches \in Nat /\ MaxFaults \in Nat /\ MaxRestarts \in Nat
  BY DoorAssumption
<1>f. ASSUME Fault
      PROVE  faults' \in 0 .. MaxFaults
  BY <1>c, <1>f DEF Fault, DoorTypes
<1>e. ASSUME NEW excuse \in SUBSET Backend, EndRefresh(excuse)
      PROVE  req' \in [HttpRequest -> RequestState] /\ refresh' = "none"
  <2>1. \A q \in RequestState : [q EXCEPT !.ok = @ \cup excuse] \in RequestState
    BY DEF RequestState
  <2>2. \A r \in HttpRequest : Sent([req[r] EXCEPT !.ok = @ \cup excuse]) \in RequestState
    BY <1>a, <2>1, SentState
  <2>3. QED
    BY <1>a, <1>e, <2>2 DEF EndRefresh
<1>1. CASE UNCHANGED doorVars
  BY <1>1 DEF doorVars, DoorTypes
<1>2. CASE Switch
  <2>1. PICK b \in Backend :
          /\ config' = [backend |-> b, mtime |-> config.mtime + 1]
          /\ req' = [r \in HttpRequest |-> IF Choosing(r) THEN [req[r] EXCEPT !.ok = @ \cup {b}] ELSE req[r]]
    BY <1>2 DEF Switch
  <2>2. config' \in ConfigState
    BY <1>b, <1>c, <1>2, <2>1 DEF Switch, ConfigState
  <2>3. req' \in [HttpRequest -> RequestState]
    BY <1>a, <2>1, RequestStates
  <2>4. overlap' \in BOOLEAN
    BY <1>2 DEF Switch, DoorTypes
  <2>5. QED
    BY <1>2, <2>2, <2>3, <2>4 DEF Switch, DoorTypes, ConfigState, bounds
<1>3. CASE Notice
  BY <1>3 DEF Notice, DoorTypes, bounds, ghosts
<1>4. CASE RefreshRead
  <2>1. last' \in LastState
    BY <1>a, <1>b, <1>4 DEF RefreshRead, LastState
  <2>2. QED
    BY <1>4, <2>1 DEF RefreshRead, DoorTypes, LastState, bounds
<1>5. CASE RefreshStat
  <2>1. last' \in LastState
    BY <1>a, <1>b, <1>c, <1>5 DEF RefreshStat, LastState
  <2>2. req' \in [HttpRequest -> RequestState] /\ refresh' = "none"
    BY <1>e, <1>5 DEF RefreshStat
  <2>3. QED
    BY <1>5, <2>1, <2>2 DEF RefreshStat, DoorTypes, LastState, bounds, ghosts
<1>6. CASE RefreshFails
  <2>1. req' \in [HttpRequest -> RequestState] /\ refresh' = "none"
    BY <1>e, <1>6 DEF RefreshFails
  <2>2. QED
    BY <1>6, <1>f, <2>1 DEF RefreshFails, DoorTypes, ghosts
<1>7. CASE PersistWrite
  <2>1. saved' \in Routes /\ persist' \in PersistState
    BY <1>a, <1>7, LoopStates DEF PersistWrite, PersistState
  <2>2. QED
    BY <1>7, <2>1 DEF PersistWrite, DoorTypes, PersistState, bounds
<1>8. CASE PersistFails
  BY <1>8, <1>f, LoopStates DEF PersistFails, DoorTypes, PersistState
<1>9. CASE Restart
  <2>1. routes' \in Routes
    BY <1>a, <1>9 DEF Restart, Routes, Target
  <2>2. persist' \in PersistState
    BY <1>9, <2>1 DEF Restart, PersistState
  <2>3. last' \in LastState /\ restarts' \in 0 .. MaxRestarts
    BY <1>b, <1>c, <1>9 DEF Restart, LastState, DoorTypes
  <2>4. req' \in [HttpRequest -> RequestState] /\ lost' \subseteq Process
    BY <1>9, RequestStates DEF Restart
  <2>5. QED
    BY <1>9, <2>1, <2>2, <2>3, <2>4 DEF Restart, DoorTypes, LastState, PersistState
<1>10. ASSUME NEW r \in HttpRequest, Begin(r)
       PROVE  DoorTypes'
  <2>1. PICK tool \in Tool, p \in told \cup {NoProcess} :
          \/ req' = [req EXCEPT ![r] = Unpinned(tool, p, config.backend)]
          \/ routes[p] \in Backend /\ req' = [req EXCEPT ![r] = Pinned(tool, p, routes[p])]
    BY <1>10, BeginRequest
  <2>3. p \in Process \cup {NoProcess}
    BY <1>a
  <2>4. Unpinned(tool, p, config.backend) \in RequestState
    BY <1>b, <2>3, BeginState
  <2>5. routes[p] \in Backend => Pinned(tool, p, routes[p]) \in RequestState
    BY <2>3, BeginState
  <2>6. req' \in [HttpRequest -> RequestState]
    BY <1>a, <2>1, <2>4, <2>5
  <2>2. QED
    BY <1>10, <2>6 DEF Begin, DoorTypes, bounds, ghosts
<1>11. ASSUME NEW r \in HttpRequest, Stat(r)
       PROVE  DoorTypes'
  <2>1. req' \in [HttpRequest -> RequestState]
    BY <1>a, <1>11, SentState, RequestStates DEF Stat
  <2>2. QED
    BY <1>11, <2>1 DEF Stat, DoorTypes, bounds, ghosts
<1>12. ASSUME NEW r \in HttpRequest, StatFails(r)
       PROVE  DoorTypes'
  <2>1. req' \in [HttpRequest -> RequestState]
    <3> DEFINE q == [req[r] EXCEPT !.ok = Backend]
    <3>1. q \in RequestState
      BY <1>a, RequestStates
    <3>2. [q EXCEPT !.at = "wait"] \in RequestState /\ Sent(q) \in RequestState
      BY <3>1, SentState, RequestStates
    <3>3. QED
      BY <1>a, <1>12, <3>2 DEF StatFails
  <2>2. QED
    BY <1>12, <1>f, <2>1 DEF StatFails, DoorTypes, ghosts
<1>13. ASSUME NEW r \in HttpRequest, Serve(r)
       PROVE  DoorTypes'
  <2>1. req[r] \in RequestState /\ req[r].at = "sent"
    BY <1>a, <1>13 DEF Serve
  <2>2. proc' \in [Process -> ProcState] /\ req' \in [HttpRequest -> RequestState]
    <3>1. CASE Failed(r)
      BY <1>a, <3>1, RequestStates DEF Failed
    <3>2. CASE Started(r)
      <4>1. PICK p \in Process :
              /\ proc' = [proc EXCEPT ![p] = [by |-> req[r].to, at |-> "running"]]
              /\ req' = [req EXCEPT ![r].at = "answered", ![r].id = p, ![r].ok = {}]
        BY <3>2 DEF Started
      <4>2. [by |-> req[r].to, at |-> "running"] \in ProcState
        BY <2>1 DEF RequestState, ProcState
      <4>3. [req[r] EXCEPT !.at = "answered", !.id = p, !.ok = {}] \in RequestState
        BY <2>1 DEF RequestState
      <4>4. req' = [req EXCEPT ![r] = [req[r] EXCEPT !.at = "answered", !.id = p, !.ok = {}]]
        BY <1>a, <4>1
      <4>5. QED
        BY <1>a, <4>1, <4>2, <4>3, <4>4
    <3>3. ASSUME NEW at \in {"none", "running", "ended"}, Looked(r, at), req[r].tool # "start_process"
          PROVE  proc' \in [Process -> ProcState] /\ req' \in [HttpRequest -> RequestState]
      <4>1. req[r].id \in Process
        BY <1>a, <2>1, <3>3 DEF Home, Named
      <4>2. [Idle EXCEPT !.at = "answered", !.tool = req[r].tool, !.id = req[r].id, !.ended = (at = "ended")] \in RequestState
        BY <2>1 DEF Idle, RequestState, Target
      <4>3. proc' = [proc EXCEPT ![req[r].id].at = at]
        BY <3>3 DEF Looked
      <4>4. QED
        BY <1>a, <3>3, <4>1, <4>2, <4>3 DEF Looked, ProcState
    <3>4. req[r].tool \in Tool
      BY <2>1 DEF RequestState
    <3>5. req[r].tool # "start_process" => proc[req[r].id].at \in {"none", "running", "ended"}
      BY <1>a, <2>1 DEF Home, Named, ProcState
    <3>6. QED
      BY <1>13, <3>1, <3>2, <3>3, <3>4, <3>5 DEF Serve, Tool
  <2>3. QED
    BY <1>13, <2>2 DEF Serve, DoorTypes, ProcState, bounds, ghosts
<1>14. ASSUME NEW r \in HttpRequest, Answer(r)
       PROVE  DoorTypes'
  <2>1. req[r] \in RequestState /\ req[r].id \in Process
    BY <1>a, <1>14 DEF Answer, Home, Named
  <2>2. Routed(req[r]) \in Routes
    BY <2>1, RoutedIsRoutes
  <2>3. persist' \in PersistState
    BY <1>a, <1>14, <2>2, LoopStates DEF Answer
  <2>4. req' \in [HttpRequest -> RequestState] /\ told' \subseteq Process
    BY <1>a, <1>14, <2>1, RequestStates DEF Answer
  <2>5. QED
    BY <1>14, <2>2, <2>3, <2>4 DEF Answer, DoorTypes, PersistState, bounds
<1>15. ASSUME NEW r \in HttpRequest, Unanswered(r)
       PROVE  DoorTypes'
  BY <1>a, <1>15, RequestStates DEF Unanswered, DoorTypes, bounds, ghosts
<1>16. ASSUME NEW b \in Backend, BackendDies(b)
       PROVE  DoorTypes'
  <2>1. proc' \in [Process -> ProcState]
    BY <1>a, <1>16 DEF BackendDies, ProcState
  <2>2. QED
    BY <1>16, <1>f, <2>1 DEF BackendDies, DoorTypes, ProcState, frontVars, ghosts
<1>17. ASSUME NEW p \in Process, Ends(p)
       PROVE  DoorTypes'
  <2>1. proc' \in [Process -> ProcState]
    BY <1>a, <1>17 DEF Ends, ProcState
  <2>2. QED
    BY <1>17, <2>1 DEF Ends, DoorTypes, ProcState, frontVars, bounds, ghosts
<1>18. QED
  BY <1>1, <1>2, <1>3, <1>4, <1>5, <1>6, <1>7, <1>8, <1>9, <1>10, <1>11, <1>12, <1>13, <1>14, <1>15, <1>16,
    <1>17 DEF DoorNext, Refresh, Persist, Proxy

-----------------------------------------------------------------------------
(* The loop that writes the routes.                                        *)

LEMMA StepLoop == DoorInv /\ [DoorNext]_doorVars => Loop'
<1> SUFFICES ASSUME DoorInv, [DoorNext]_doorVars PROVE Loop'
  OBVIOUS
<1>1. /\ persist \in PersistState /\ routes \in Routes /\ saved \in Routes /\ unsaved \in BOOLEAN
      /\ req \in [HttpRequest -> RequestState]
  BY DEF DoorInv, DoorTypes, PersistState
<1>2. ASSUME UNCHANGED <<persist, routes, saved, unsaved>>
      PROVE  Loop'
  BY <1>2 DEF DoorInv, Loop, RoutesAreSaved
<1>3. /\ WriteEnds.writing = IF persist.dirty THEN {routes} ELSE {}
      /\ ~WriteEnds.dirty \/ (~persist.dirty /\ WriteEnds.dirty = persist.dirty)
  BY <1>1 DEF WriteEnds, PersistState
<1>4. CASE PersistWrite
  <2>1. persist' = WriteEnds /\ saved' \in persist.writing /\ routes' = routes
    BY <1>4 DEF PersistWrite
  <2>2. ~persist.dirty => saved' = routes
    BY <1>4, <2>1 DEF PersistWrite, DoorInv, Loop
  <2>3. QED
    BY <1>1, <1>3, <2>1, <2>2 DEF Loop, RoutesAreSaved
<1>5. CASE PersistFails
  <2>1. persist' = WriteEnds /\ unsaved' = TRUE /\ routes' = routes
    BY <1>5 DEF PersistFails
  <2>2. QED
    BY <1>1, <1>3, <2>1 DEF Loop, RoutesAreSaved
<1>6. CASE Restart
  <2>1. routes' \in Routes
    BY StepType DEF DoorInv, DoorTypes
  <2>2. persist' = [dirty |-> FALSE, writing |-> IF routes' = saved THEN {} ELSE {routes'}] /\ saved' = saved
    BY <1>6 DEF Restart
  <2>3. QED
    BY <2>1, <2>2 DEF Loop, RoutesAreSaved
<1>7. ASSUME NEW r \in HttpRequest, Answer(r)
      PROVE  Loop'
  <2> DEFINE now == Routed(req[r])
  <2>1. now \in Routes /\ routes' = now /\ saved' = saved /\ unsaved' = unsaved
    BY <1>1, <1>7, RoutedIsRoutes DEF Answer, DoorInv
  <2>2. persist' = IF now = routes THEN persist ELSE Scheduled(now)
    BY <1>7 DEF Answer
  <2> HIDE DEF now
  <2>3. CASE now = routes
    BY <1>2, <2>1, <2>2, <2>3
  <2>4. CASE now # routes
    <3>1. /\ persist.writing = {} => persist' = [dirty |-> FALSE, writing |-> {now}]
          /\ persist.writing # {} => persist'.dirty = TRUE /\ persist'.writing = persist.writing
      BY <1>1, <2>2, <2>4 DEF Scheduled, PersistState
    <3>2. QED
      BY <2>1, <3>1 DEF DoorInv, Loop, RoutesAreSaved
  <2>5. QED
    BY <2>3, <2>4
<1>8. ASSUME NEW r \in HttpRequest, Begin(r) \/ Stat(r) \/ StatFails(r) \/ Serve(r) \/ Unanswered(r)
      PROVE  Loop'
  BY <1>2, <1>8 DEF Begin, Stat, StatFails, Serve, Unanswered, ghosts
<1>9. CASE Switch \/ Notice \/ Refresh \/ (\E b \in Backend : BackendDies(b)) \/ (\E p \in Process : Ends(p)) \/ UNCHANGED doorVars
  BY <1>2, <1>9 DEF Switch, Notice, Refresh, RefreshRead, RefreshStat, RefreshFails, BackendDies, Ends, frontVars,
    ghosts, doorVars
<1>10. QED
  BY <1>4, <1>5, <1>6, <1>7, <1>8, <1>9 DEF DoorNext, Persist, Proxy

-----------------------------------------------------------------------------
(* Where requests go.                                                      *)

\* What happens to the requests that wait for the target, and to those that end.
Forwarded ==
  \A r \in HttpRequest :
    \/ req'[r].at = "idle"
    \/ req'[r] = req[r]
    \/ /\ Choosing(r)
       /\ req'[r].tool = req[r].tool /\ req'[r].id = req[r].id
       /\ req'[r].at \in {"stat", "wait"} \/ (req'[r].at = "sent" /\ req'[r].to = last.backend)

LEMMA ForwardedEnds ==
  ASSUME DoorTypes, NEW excuse \in SUBSET Backend, EndRefresh(excuse)
  PROVE  Forwarded
<1>1. req \in [HttpRequest -> RequestState]
  BY DEF DoorTypes
<1> USE DEF Forwarded
<1> TAKE r \in HttpRequest
<1>2. CASE req[r].at = "wait"
  <2> DEFINE q == [req[r] EXCEPT !.ok = @ \cup excuse]
  <2>1. q \in RequestState /\ q.tool = req[r].tool /\ q.id = req[r].id
    BY <1>1 DEF RequestState
  <2>2. req'[r] = Sent(q)
    BY <1>2 DEF EndRefresh
  <2>3. QED
    BY <1>2, <2>1, <2>2, SentState DEF Choosing
<1>3. CASE req[r].at # "wait"
  BY <1>3 DEF EndRefresh
<1>4. QED
  BY <1>2, <1>3

\* Sending them where the target is, or nowhere, keeps what is known of processes.
LEMMA ForwardedHome ==
  ASSUME DoorTypes, Home, Forwarded, UNCHANGED <<routes, proc, told, lost>>
  PROVE  Home'
<1>1. last.backend \in Backend
  BY DEF DoorTypes
<1>2. ASSUME NEW r \in HttpRequest
      PROVE  Named(r)'
  BY <1>1, <1>2 DEF Home, Forwarded, Named, Choosing, Gone
<1>3. QED
  BY <1>2 DEF Home, Gone

\* So does the end of processes.
LEMMA EndingHome ==
  ASSUME DoorTypes, Home, UNCHANGED <<req, routes, told, lost>>,
         \A p \in Process : /\ proc'[p].by = proc[p].by
                            /\ proc'[p].at = proc[p].at \/ (proc'[p].at = "ended" /\ proc[p].by \in Backend)
  PROVE  Home'
<1>1. told \subseteq Process
  BY DEF DoorTypes
<1>2. ASSUME NEW r \in HttpRequest
      PROVE  Named(r)'
  <2>1. Named(r) /\ req'[r] = req[r] /\ (req[r].id = NoProcess \/ req[r].id \in Process)
    BY <1>2 DEF Home, DoorTypes, RequestState
  <2>2. CASE req[r].id \in Process
    BY <2>1, <2>2 DEF Named, Choosing, Gone
  <2>3. CASE req[r].id = NoProcess
    BY <1>1, <2>1, <2>3, DoorAssumption DEF Named, Choosing, Gone
  <2>4. QED
    BY <2>1, <2>2, <2>3
<1>3. \A p \in told : proc'[p].at # "none" /\ (Gone(p) \/ routes[p] = proc[p].by)'
  BY <1>1 DEF Home, Gone
<1>4. QED
  BY <1>2, <1>3 DEF Home

LEMMA StepHome == DoorInv /\ [DoorNext]_doorVars => Home'
<1> SUFFICES ASSUME DoorInv, [DoorNext]_doorVars PROVE Home'
  OBVIOUS
<1> USE DEF DoorInv
<1>a. /\ req \in [HttpRequest -> RequestState] /\ proc \in [Process -> ProcState] /\ routes \in Routes
      /\ told \subseteq Process
  BY DEF DoorTypes, ProcState
<1>1. CASE UNCHANGED doorVars
  BY <1>1, ForwardedHome DEF doorVars, Forwarded
<1>2. CASE Switch
  <2>1. Forwarded
    BY <1>a, <1>2 DEF Switch, Forwarded, Choosing, RequestState
  <2>2. QED
    BY <1>2, <2>1, ForwardedHome DEF Switch
<1>3. CASE Notice \/ RefreshRead \/ PersistWrite \/ PersistFails
  <2>1. UNCHANGED <<req, routes, proc, told, lost>>
    BY <1>3 DEF Notice, RefreshRead, PersistWrite, PersistFails, ghosts
  <2>2. Forwarded
    BY <2>1 DEF Forwarded
  <2>3. QED
    BY <2>1, <2>2, ForwardedHome
<1>4. CASE RefreshStat \/ RefreshFails
  <2>1. Forwarded
    BY <1>4, ForwardedEnds DEF RefreshStat, RefreshFails
  <2>2. QED
    BY <1>4, <2>1, ForwardedHome DEF RefreshStat, RefreshFails, ghosts
<1>5. CASE Restart
  <2>1. \A r \in HttpRequest : req'[r].at = "idle"
    BY <1>5, RequestStates DEF Restart
  <2>2. \A r \in HttpRequest : Named(r)'
    BY <2>1 DEF Named, Choosing
  <2>3. UNCHANGED <<proc, told>> /\ lost' = {p \in Process : routes'[p] # proc[p].by}
    BY <1>5 DEF Restart
  <2>4. QED
    BY <1>a, <2>2, <2>3 DEF Home, Gone
<1>6. ASSUME NEW r \in HttpRequest, Stat(r) \/ StatFails(r) \/ Unanswered(r)
      PROVE  Home'
  <2>1. Forwarded
    <3>1. \A q \in HttpRequest : q # r => req'[q] = req[q]
      BY <1>a, <1>6 DEF Stat, StatFails, Unanswered
    <3>2. CASE Stat(r)
      <4>1. req'[r] \in {[req[r] EXCEPT !.at = "wait"], Sent(req[r])}
        BY <1>a, <3>2 DEF Stat
      <4>2. QED
        BY <1>a, <3>1, <3>2, <4>1, SentState DEF Stat, Forwarded, Choosing, RequestState
    <3>3. CASE StatFails(r)
      <4> DEFINE q == [req[r] EXCEPT !.ok = Backend]
      <4>1. q \in RequestState /\ q.tool = req[r].tool /\ q.id = req[r].id
        BY <1>a DEF RequestState
      <4>2. req'[r] \in {[q EXCEPT !.at = "wait"], Sent(q)}
        BY <1>a, <3>3 DEF StatFails
      <4>3. [q EXCEPT !.at = "wait"].tool = q.tool /\ [q EXCEPT !.at = "wait"].id = q.id /\ [q EXCEPT !.at = "wait"].at = "wait"
        BY <4>1 DEF RequestState
      <4>4. Sent(q).at = "sent" /\ Sent(q).to = last.backend /\ Sent(q).tool = q.tool /\ Sent(q).id = q.id
        BY <4>1, SentState
      <4>5. Choosing(r)
        BY <3>3 DEF StatFails, Choosing
      <4> HIDE DEF q
      <4>6. QED
        BY <3>1, <4>1, <4>2, <4>3, <4>4, <4>5 DEF Forwarded
    <3>4. CASE Unanswered(r)
      BY <1>a, <3>1, <3>4, RequestStates DEF Unanswered, Forwarded
    <3>5. QED
      BY <1>6, <3>2, <3>3, <3>4
  <2>2. QED
    BY <1>6, <2>1, ForwardedHome DEF Stat, StatFails, Unanswered, ghosts
<1>7. ASSUME NEW r \in HttpRequest, Begin(r)
      PROVE  Home'
  <2>1. PICK tool \in Tool, p \in told \cup {NoProcess} :
          /\ p = NoProcess <=> tool = "start_process"
          /\ \A o \in HttpRequest : o # r => req'[o] = req[o]
          /\ \/ /\ p \in told => routes[p] = NoBackend
                /\ req' = [req EXCEPT ![r] = Unpinned(tool, p, config.backend)]
             \/ /\ p \in told /\ routes[p] \in Backend
                /\ req' = [req EXCEPT ![r] = Pinned(tool, p, routes[p])]
    BY <1>7, BeginRequest
  <2>2. p \in Process \cup {NoProcess} /\ config.backend \in Backend
    BY <1>a DEF DoorTypes
  <2>3. UNCHANGED <<routes, proc, told, lost>>
    BY <1>7 DEF Begin, ghosts
  <2>4. p \in told => Gone(p) \/ (routes[p] = proc[p].by /\ proc[p].by \in Backend)
    BY <1>a DEF Home
  <2>5. Named(r)'
    <3>1. CASE (p \in told => routes[p] = NoBackend) /\ req' = [req EXCEPT ![r] = Unpinned(tool, p, config.backend)]
      <4>5. req'[r] = Unpinned(tool, p, config.backend)
        BY <1>a, <3>1
      <4>1. req'[r].at = "stat" /\ req'[r].tool = tool /\ req'[r].id = p
        BY <2>2, <4>5, BeginState
      <4>2. p \in told => Gone(p)
        BY <2>4, <3>1, DoorAssumption
      <4>3. p # NoProcess => p \in told
        OBVIOUS
      <4>4. QED
        BY <2>1, <2>3, <4>1, <4>2, <4>3 DEF Named, Choosing, Gone
    <3>2. CASE p \in told /\ routes[p] \in Backend /\ req' = [req EXCEPT ![r] = Pinned(tool, p, routes[p])]
      <4>1. req'[r].at = "sent" /\ req'[r].tool = tool /\ req'[r].id = p /\ req'[r].to = routes[p]
        BY <1>a, <2>2, <3>2, BeginState
      <4>2. p # NoProcess
        BY <1>a, <3>2, DoorAssumption
      <4>3. QED
        BY <2>1, <2>3, <2>4, <3>2, <4>1, <4>2 DEF Named, Choosing, Gone
    <3>3. QED
      BY <2>1, <3>1, <3>2
  <2>6. ASSUME NEW o \in HttpRequest, o # r
        PROVE  Named(o)'
    BY <2>1, <2>3, <2>6 DEF Home, Named, Choosing, Gone
  <2>7. QED
    BY <2>3, <2>5, <2>6 DEF Home, Gone
<1>8. ASSUME NEW r \in HttpRequest, Serve(r)
      PROVE  Home'
  <2>1. req[r] \in RequestState /\ req[r].at = "sent" /\ Named(r) /\ UNCHANGED <<routes, told, lost>>
    BY <1>a, <1>8 DEF Serve, Home, ghosts
  <2>2. CASE Failed(r)
    <3>1. Forwarded
      BY <1>a, <2>2, RequestStates DEF Failed, Forwarded
    <3>2. QED
      BY <2>1, <2>2, <3>1, ForwardedHome DEF Failed
  <2>3. CASE Started(r) /\ req[r].tool = "start_process"
    <3>1. PICK p \in Process :
            /\ proc[p].at = "none"
            /\ proc' = [proc EXCEPT ![p] = [by |-> req[r].to, at |-> "running"]]
            /\ req' = [req EXCEPT ![r].at = "answered", ![r].id = p, ![r].ok = {}]
      BY <2>3 DEF Started
    <3>2. /\ req'[r].at = "answered" /\ req'[r].id = p /\ req'[r].tool = "start_process" /\ req'[r].to = req[r].to
          /\ \A o \in HttpRequest : o # r => req'[o] = req[o]
      BY <1>a, <2>1, <2>3, <3>1 DEF RequestState
    <3>3. /\ proc'[p].by = req[r].to /\ proc'[p].at = "running"
          /\ \A o \in Process : o # p => proc'[o] = proc[o]
      BY <1>a, <3>1
    <3>4. Named(r)'
      BY <3>2, <3>3 DEF Named, Choosing
    <3>5. ASSUME NEW o \in HttpRequest, o # r
          PROVE  Named(o)'
      <4>1. Named(o) /\ req'[o] = req[o] /\ p \notin told
        BY <3>1, <3>2, <3>5 DEF Home
      <4>2. CASE req[o].id = p
        BY <3>1, <4>1, <4>2, DoorAssumption DEF Named, Choosing
      <4>3. CASE req[o].id # p
        BY <1>a, <2>1, <3>3, <4>1, <4>3 DEF Named, Choosing, Gone
      <4>4. QED
        BY <4>2, <4>3
    <3>6. \A o \in HttpRequest : Named(o)'
      BY <3>4, <3>5
    <3>7. (\A o \in told : proc'[o].at # "none") /\ (\A o \in Process : proc'[o].at # "none" => proc'[o].by \in Backend)
      BY <1>a, <2>1, <3>3 DEF Home, Named
    <3>8. \A o \in told : o \in lost \/ proc'[o].at = "ended" \/ routes[o] = proc'[o].by
      BY <1>a, <3>1, <3>3 DEF Home, Gone
    <3>9. QED
      BY <2>1, <3>6, <3>7, <3>8 DEF Home, Gone
  <2>4. ASSUME NEW at \in {"none", "running", "ended"}, Looked(r, at), req[r].tool # "start_process",
               at = "ended" \/ at = proc[req[r].id].at
        PROVE  Home'
    <3> DEFINE p == req[r].id
    <3>1. p \in Process /\ p \in told /\ proc[p].at # "none"
      BY <1>a, <2>1, <2>4 DEF Home, Named
    <3>2. /\ proc'[p].at = at /\ at # "none" /\ \A o \in Process : proc'[o].by = proc[o].by
          /\ \A o \in Process : o # p => proc'[o] = proc[o]
          /\ proc[p].at = "ended" => at = "ended" \/ at = proc[p].at
      BY <1>a, <2>4, <3>1 DEF Looked, ProcState
    <3>3. /\ req'[r].at = "answered" /\ req'[r].id = p /\ req'[r].tool = req[r].tool /\ req'[r].ended = (at = "ended")
          /\ \A o \in HttpRequest : o # r => req'[o] = req[o]
      BY <1>a, <2>4 DEF Looked, Idle
    <3>4. \A o \in Process : (proc[o].at # "none" => proc'[o].at # "none") /\ (proc[o].at = "ended" => proc'[o].at = "ended")
      BY <2>4, <3>2
    <3>5. Named(r)'
      BY <2>1, <2>4, <3>1, <3>2, <3>3 DEF Named, Choosing
    <3>6. ASSUME NEW o \in HttpRequest, o # r
          PROVE  Named(o)'
      <4>1. Named(o) /\ req'[o] = req[o]
        BY <3>3, <3>6 DEF Home
      <4>2. CASE req[o].id \in Process
        BY <2>1, <3>2, <3>4, <4>1, <4>2 DEF Named, Choosing, Gone
      <4>3. CASE req[o].id \notin Process
        BY <1>a, <2>1, <4>1, <4>3 DEF Named, Choosing, Gone
      <4>4. QED
        BY <4>2, <4>3
    <3>7. \A o \in HttpRequest : Named(o)'
      BY <3>5, <3>6
    <3>8. \A o \in told : proc'[o].at # "none" /\ (o \in lost \/ proc'[o].at = "ended" \/ routes[o] = proc'[o].by)
      BY <1>a, <3>2, <3>4 DEF Home, Gone
    <3>9. \A o \in Process : proc'[o].at # "none" => proc'[o].by \in Backend
      BY <3>1, <3>2 DEF Home
    <3>10. QED
      BY <2>1, <3>7, <3>8, <3>9 DEF Home, Gone
  <2>5. req[r].tool \in Tool /\ (req[r].tool # "start_process" => proc[req[r].id].at \in {"none", "running", "ended"})
    BY <1>a, <2>1 DEF Named, RequestState, ProcState
  <2>6. QED
    BY <1>8, <2>2, <2>3, <2>4, <2>5 DEF Serve, Tool
<1>9. ASSUME NEW r \in HttpRequest, Answer(r)
      PROVE  Home'
  <2> DEFINE q == req[r]
  <2>1. /\ q \in RequestState /\ q.at = "answered" /\ Named(r)
        /\ routes' = Routed(q) /\ told' = told \cup {q.id} /\ req' = [req EXCEPT ![r] = Idle] /\ UNCHANGED <<proc, lost>>
    BY <1>a, <1>9 DEF Answer, Home
  <2>2. q.id \in Process /\ proc[q.id].at # "none"
    BY <2>1 DEF Named
  <2>3. /\ \A p \in Process : p # q.id => routes'[p] = routes[p]
        /\ q.tool = "start_process" => routes'[q.id] = q.to
        /\ q.tool # "start_process" /\ ~q.ended => routes' = routes
    BY <1>a, <2>1, <2>2 DEF Routed, Routes
  <2>4. \A p \in told' : proc[p].at # "none" /\ (Gone(p) \/ routes'[p] = proc[p].by)
    <3> SUFFICES ASSUME NEW p \in told' PROVE proc[p].at # "none" /\ (Gone(p) \/ routes'[p] = proc[p].by)
      OBVIOUS
    <3>1. CASE p # q.id
      BY <1>a, <2>1, <2>3, <3>1 DEF Home
    <3>2. CASE p = q.id
      BY <2>1, <2>2, <2>3, <3>2 DEF Named, Home, Gone
    <3>3. QED
      BY <3>1, <3>2
  <2>5. req'[r].at = "idle" /\ \A o \in HttpRequest : o # r => req'[o] = req[o]
    BY <1>a, <2>1, RequestStates
  <2>6. \A o \in HttpRequest : Named(o)'
    <3> SUFFICES ASSUME NEW o \in HttpRequest PROVE Named(o)'
      OBVIOUS
    <3>1. CASE o = r
      BY <2>5, <3>1 DEF Named, Choosing
    <3>2. CASE o # r
      BY <2>1, <2>5, <3>2 DEF Home, Named, Choosing, Gone
    <3>3. QED
      BY <3>1, <3>2
  <2>7. QED
    BY <2>1, <2>4, <2>6 DEF Home, Gone
<1>10. ASSUME NEW b \in Backend, BackendDies(b)
       PROVE  Home'
  <2>1. \A p \in Process : proc'[p] = IF proc[p].by = b THEN [proc[p] EXCEPT !.at = "ended"] ELSE proc[p]
    BY <1>a, <1>10 DEF BackendDies
  <2>2. \A p \in Process : [proc[p] EXCEPT !.at = "ended"].by = proc[p].by /\ [proc[p] EXCEPT !.at = "ended"].at = "ended"
    BY <1>a DEF ProcState
  <2>3. QED
    BY <1>10, <2>1, <2>2, EndingHome DEF BackendDies, frontVars, ghosts
<1>11. ASSUME NEW p \in Process, Ends(p)
       PROVE  Home'
  <2>1. proc[p].by \in Backend
    BY <1>11 DEF Ends, Home
  <2>2. /\ proc'[p].by = proc[p].by /\ proc'[p].at = "ended"
        /\ \A o \in Process : o # p => proc'[o] = proc[o]
    BY <1>a, <1>11 DEF Ends, ProcState
  <2>3. QED
    BY <1>11, <2>1, <2>2, EndingHome DEF Ends, frontVars, ghosts
<1>12. QED
  BY <1>1, <1>2, <1>3, <1>4, <1>5, <1>6, <1>7, <1>8, <1>9, <1>10, <1>11 DEF DoorNext, Refresh, Persist, Proxy

-----------------------------------------------------------------------------
(* The switch is followed.                                                 *)

LEMMA StepFollow == DoorInv /\ [DoorNext]_doorVars => Follow'
<1> SUFFICES ASSUME DoorInv, [DoorNext]_doorVars PROVE Follow'
  OBVIOUS
<1> USE DEF DoorInv
<1>a. /\ req \in [HttpRequest -> RequestState]
      /\ config \in ConfigState /\ last \in LastState /\ overlap \in BOOLEAN
      /\ config.backend \in Backend /\ last.backend \in Backend
      /\ config.mtime \in Int /\ last.mtime \in Int
  BY DoorAssumption DEF DoorTypes, ConfigState, LastState
<1>1. CASE UNCHANGED doorVars
  BY <1>1 DEF doorVars, Follow, Choosing, FollowsTheSwitch
\* Steps that leave the configuration and what is known of it, and send nothing.
<1>2. ASSUME UNCHANGED <<config, last, overlap>>, refresh' = "stat" => refresh = "stat",
             \A r \in HttpRequest : req'[r].at = "sent" => req'[r].to \in req'[r].ok,
             \A r \in HttpRequest : Choosing(r)' => config.backend \in req'[r].ok
      PROVE  Follow'
  BY <1>2 DEF Follow, FollowsTheSwitch
<1>3. CASE Switch
  <2>1. PICK b \in Backend :
          /\ config' = [backend |-> b, mtime |-> config.mtime + 1]
          /\ req' = [r \in HttpRequest |-> IF Choosing(r) THEN [req[r] EXCEPT !.ok = @ \cup {b}] ELSE req[r]]
    BY <1>3 DEF Switch
  <2>2. last' = last /\ refresh' = refresh /\ overlap' = (overlap \/ refresh = "stat")
    BY <1>3 DEF Switch
  <2>3. last.mtime < config'.mtime /\ config'.backend = b
    BY <1>a, <2>1 DEF Follow
  <2>4. ASSUME NEW r \in HttpRequest
        PROVE  (req'[r].at = "sent" => req'[r].to \in req'[r].ok) /\ (Choosing(r)' => b \in req'[r].ok)
    <3>1. CASE Choosing(r)
      <4>1. req'[r] = [req[r] EXCEPT !.ok = @ \cup {b}]
        BY <2>1, <3>1
      <4>2. req'[r].at = req[r].at /\ req'[r].ok = req[r].ok \cup {b}
        BY <1>a, <4>1 DEF RequestState
      <4>3. QED
        BY <3>1, <4>2 DEF Choosing
    <3>2. CASE ~Choosing(r)
      BY <2>1, <3>2 DEF Choosing, Follow, FollowsTheSwitch
    <3>3. QED
      BY <3>1, <3>2
  <2>5. last'.mtime <= config'.mtime /\ last'.mtime # config'.mtime
    <3>1. config'.mtime \in Int
      BY <1>a, <2>1
    <3>2. QED
      BY <1>a, <2>2, <2>3, <3>1
  <2>6. refresh' = "stat" => overlap'
    BY <2>2
  <2>7. QED
    BY <2>3, <2>4, <2>5, <2>6 DEF Follow, FollowsTheSwitch
<1>4. CASE Notice \/ Persist \/ (\E b \in Backend : BackendDies(b)) \/ (\E p \in Process : Ends(p))
  <2>1. UNCHANGED <<config, last, overlap, req>> /\ (refresh' = "stat" => refresh = "stat")
    BY <1>4 DEF Notice, Persist, PersistWrite, PersistFails, BackendDies, Ends, frontVars, ghosts
  <2>2. QED
    BY <1>2, <2>1 DEF Follow, FollowsTheSwitch, Choosing
<1>5. CASE RefreshRead
  <2>1. last'.backend = config.backend /\ last'.mtime = last.mtime /\ UNCHANGED <<config, req>>
    BY <1>a, <1>5 DEF RefreshRead, LastState
  <2>2. QED
    BY <2>1 DEF Follow, FollowsTheSwitch, Choosing
\* What is sent when a refresh ends.
<1>6. ASSUME NEW excuse \in SUBSET Backend, EndRefresh(excuse), UNCHANGED <<config, overlap>>,
             overlap \/ last.backend = config.backend \/ excuse = Backend
      PROVE  \A r \in HttpRequest : /\ req'[r].at = "sent" => req'[r].to \in req'[r].ok
                                    /\ Choosing(r)' => config.backend \in req'[r].ok
  <2> SUFFICES ASSUME NEW r \in HttpRequest
               PROVE  /\ req'[r].at = "sent" => req'[r].to \in req'[r].ok
                      /\ Choosing(r)' => config.backend \in req'[r].ok
    OBVIOUS
  <2>1. CASE req[r].at = "wait"
    <3> DEFINE q == [req[r] EXCEPT !.ok = @ \cup excuse]
    <3>1. q \in RequestState /\ q.ok = req[r].ok \cup excuse
      BY <1>a DEF RequestState
    <3>2. req'[r] = Sent(q)
      BY <1>6, <2>1 DEF EndRefresh
    <3>3. config.backend \in req[r].ok
      BY <2>1 DEF Choosing, Follow
    <3>4. Sent(q).at = "sent" /\ Sent(q).to = last.backend /\ Sent(q).ok = IF overlap THEN Backend ELSE q.ok
      BY <3>1, SentState
    <3> HIDE DEF q
    <3>5. QED
      BY <1>a, <1>6, <3>1, <3>2, <3>3, <3>4 DEF Choosing
  <2>2. CASE req[r].at # "wait"
    BY <1>6, <2>2 DEF EndRefresh, Choosing, Follow, FollowsTheSwitch
  <2>3. QED
    BY <2>1, <2>2
<1>7. CASE RefreshStat
  <2>1. refresh = "stat" /\ refresh' = "none" /\ EndRefresh({}) /\ UNCHANGED <<config, overlap>>
    BY <1>7 DEF RefreshStat, EndRefresh, ghosts
  <2>2. last'.backend = last.backend /\ last'.mtime = config.mtime
    BY <1>a, <1>7 DEF RefreshStat, LastState
  <2>3. overlap \/ last.backend = config.backend
    BY <2>1 DEF Follow
  <2>4. \A r \in HttpRequest : /\ req'[r].at = "sent" => req'[r].to \in req'[r].ok
                               /\ Choosing(r)' => config.backend \in req'[r].ok
    BY <1>6, <2>1, <2>3
  <2>5. last'.mtime <= config'.mtime
    BY <1>a, <2>1, <2>2
  <2>6. QED
    BY <2>1, <2>2, <2>3, <2>4, <2>5 DEF Follow, FollowsTheSwitch, Choosing
<1>8. CASE RefreshFails
  <2> DEFINE excuse == IF refresh = "read" THEN Backend ELSE {}
  <2>1. EndRefresh(excuse) /\ UNCHANGED <<config, last, overlap>> /\ refresh # "none" /\ refresh' = "none"
    BY <1>8 DEF RefreshFails, EndRefresh, ghosts
  <2>2. overlap \/ last.backend = config.backend \/ excuse = Backend
    BY <2>1 DEF Follow, DoorTypes
  <2> HIDE DEF excuse
  <2>3. excuse \in SUBSET Backend
    BY DEF excuse
  <2>4. \A r \in HttpRequest : /\ req'[r].at = "sent" => req'[r].to \in req'[r].ok
                               /\ Choosing(r)' => config.backend \in req'[r].ok
    BY <1>6, <2>1, <2>2, <2>3
  <2>5. QED
    BY <2>1, <2>4 DEF Follow, FollowsTheSwitch, Choosing
<1>9. CASE Restart
  <2>1. \A r \in HttpRequest : req'[r].at = "idle"
    BY <1>9, RequestStates DEF Restart
  <2>2. config' = config /\ last'.backend = config.backend /\ last'.mtime = -1
    BY <1>9 DEF Restart
  <2>3. -1 <= config.mtime
    BY DEF DoorTypes
  <2>4. QED
    BY <2>1, <2>2, <2>3 DEF Follow, FollowsTheSwitch, Choosing
\* The steps of one request.
<1>10. ASSUME NEW r \in HttpRequest, UNCHANGED <<config, last, overlap>>, refresh' = "stat" => refresh = "stat",
              \A o \in HttpRequest : o # r => req'[o] = req[o],
              req'[r].at = "sent" => req'[r].to \in req'[r].ok, Choosing(r)' => config.backend \in req'[r].ok
       PROVE  Follow'
  <2>1. \A o \in HttpRequest : req'[o].at = "sent" => req'[o].to \in req'[o].ok
    BY <1>10 DEF Follow, FollowsTheSwitch
  <2>2. \A o \in HttpRequest : Choosing(o)' => config.backend \in req'[o].ok
    BY <1>10 DEF Follow, Choosing
  <2>3. QED
    BY <1>2, <1>10, <2>1, <2>2
<1>11. ASSUME NEW r \in HttpRequest, Begin(r)
       PROVE  Follow'
  <2>1. PICK tool \in Tool, p \in told \cup {NoProcess} :
          /\ \A o \in HttpRequest : o # r => req'[o] = req[o]
          /\ \/ req' = [req EXCEPT ![r] = Unpinned(tool, p, config.backend)]
             \/ /\ p \in told /\ routes[p] \in Backend
                /\ req' = [req EXCEPT ![r] = Pinned(tool, p, routes[p])]
    BY <1>11, BeginRequest
  <2>2. p \in Process \cup {NoProcess}
    BY DEF DoorTypes
  <2>3. UNCHANGED <<config, last, overlap>> /\ refresh' = refresh
    BY <1>11 DEF Begin, ghosts
  <2>4. CASE req' = [req EXCEPT ![r] = Unpinned(tool, p, config.backend)]
    <3>1. req'[r] = Unpinned(tool, p, config.backend)
      BY <1>a, <2>4
    <3>2. req'[r].at = "stat" /\ req'[r].ok = {config.backend}
      BY <1>a, <2>2, <3>1, BeginState
    <3>3. QED
      BY <1>10, <2>1, <2>3, <3>2
  <2>5. CASE routes[p] \in Backend /\ req' = [req EXCEPT ![r] = Pinned(tool, p, routes[p])]
    <3>1. req'[r] = Pinned(tool, p, routes[p])
      BY <1>a, <2>5
    <3>4. routes[p] \in Backend
      BY <2>5
    <3>2. req'[r].at = "sent" /\ req'[r].to = routes[p] /\ req'[r].ok = {routes[p]}
      BY <2>2, <3>1, <3>4, BeginState
    <3>3. QED
      BY <1>10, <2>1, <2>3, <3>2 DEF Choosing
  <2>6. QED
    BY <2>1, <2>4, <2>5
<1>12. ASSUME NEW r \in HttpRequest, Stat(r)
       PROVE  Follow'
  <2>1. /\ UNCHANGED <<config, last, overlap>> /\ (refresh' = "stat" => refresh = "stat")
        /\ Choosing(r) /\ config.backend \in req[r].ok
    BY <1>12 DEF Stat, ghosts, Choosing, Follow
  <2>2. \A o \in HttpRequest : o # r => req'[o] = req[o]
    BY <1>a, <1>12 DEF Stat
  <2>3. CASE config.mtime # last.mtime \/ refresh # "none"
    <3>1. req'[r] = [req[r] EXCEPT !.at = "wait"]
      BY <1>a, <1>12, <2>3 DEF Stat
    <3>2. req'[r].at = "wait" /\ req'[r].ok = req[r].ok
      BY <1>a, <3>1 DEF RequestState
    <3>3. QED
      BY <1>10, <2>1, <2>2, <3>2
  <2>4. CASE config.mtime = last.mtime /\ refresh = "none"
    <3>1. req'[r] = Sent(req[r])
      BY <1>a, <1>12, <2>4 DEF Stat
    <3>2. req'[r].at = "sent" /\ req'[r].to = last.backend /\ req'[r].ok = IF overlap THEN Backend ELSE req[r].ok
      BY <1>a, <3>1, SentState
    <3>3. overlap \/ last.backend = config.backend
      BY <2>4 DEF Follow
    <3>4. QED
      BY <1>a, <1>10, <2>1, <2>2, <3>2, <3>3 DEF Choosing
  <2>5. QED
    BY <2>3, <2>4
<1>13. ASSUME NEW r \in HttpRequest, StatFails(r)
       PROVE  Follow'
  <2> DEFINE q == [req[r] EXCEPT !.ok = Backend]
  <2>1. q \in RequestState /\ q.ok = Backend
    BY <1>a DEF RequestState
  <2>2. UNCHANGED <<config, last, overlap, refresh>> /\ \A o \in HttpRequest : o # r => req'[o] = req[o]
    BY <1>a, <1>13 DEF StatFails, ghosts
  <2>3. req'[r] \in {[q EXCEPT !.at = "wait"], Sent(q)}
    BY <1>a, <1>13 DEF StatFails
  <2>4. [q EXCEPT !.at = "wait"].at = "wait" /\ [q EXCEPT !.at = "wait"].ok = Backend
    BY <2>1 DEF RequestState
  <2>5. Sent(q).at = "sent" /\ Sent(q).to = last.backend /\ Sent(q).ok = Backend
    BY <2>1, SentState
  <2> HIDE DEF q
  <2>6. QED
    BY <1>a, <1>10, <2>2, <2>3, <2>4, <2>5 DEF Choosing
<1>14. ASSUME NEW r \in HttpRequest, Serve(r) \/ Answer(r) \/ Unanswered(r)
       PROVE  Follow'
  <2>1. UNCHANGED <<config, last, overlap, refresh>> /\ \A o \in HttpRequest : o # r => req'[o] = req[o]
    BY <1>a, <1>14 DEF Serve, Started, Looked, Failed, Answer, Unanswered, ghosts
  <2>2. req'[r].at \in {"answered", "idle"}
    <3>1. CASE Answer(r) \/ Unanswered(r) \/ Failed(r)
      BY <1>a, <3>1, RequestStates DEF Answer, Unanswered, Failed
    <3>2. CASE Started(r)
      BY <1>a, <3>2 DEF Started, RequestState
    <3>3. ASSUME NEW at, Looked(r, at)
          PROVE  req'[r].at = "answered"
      BY <1>a, <3>3 DEF Looked, Idle
    <3>4. QED
      BY <1>14, <3>1, <3>2, <3>3 DEF Serve
  <2>3. QED
    BY <1>10, <2>1, <2>2 DEF Choosing
<1>15. QED
  BY <1>1, <1>3, <1>4, <1>5, <1>7, <1>8, <1>9, <1>11, <1>12, <1>13, <1>14 DEF DoorNext, Refresh, Proxy

-----------------------------------------------------------------------------
(* Theorems.                                                               *)

\* In every behaviour what is known of backends, processes and routes is what the three properties need.
THEOREM DoorInvariance == DoorSpec => []DoorInv
<1>1. DoorInv /\ [DoorNext]_doorVars => DoorInv'
  BY StepType, StepLoop, StepHome, StepFollow DEF DoorInv
<1>2. QED
  BY <1>1, DoorBegins, PTL DEF DoorSpec

\* Every variable has its type.
THEOREM DoorTypeCorrect == DoorSpec => []DoorTypes
BY DoorInvariance, PTL DEF DoorInv

\* A running process that a client was told of is reached where it was started.
THEOREM HomeIsReached == DoorSpec => []ReachedAtHome
<1>1. DoorInv => ReachedAtHome
  <2> SUFFICES ASSUME DoorInv, NEW p \in told, proc[p].at = "running", p \notin lost
               PROVE  /\ routes[p] = proc[p].by
                      /\ \A r \in HttpRequest : req[r].at = "sent" /\ req[r].id = p => req[r].to = proc[p].by
    BY DEF ReachedAtHome
  <2>1. ~Gone(p) /\ p # NoProcess
    BY DoorAssumption DEF Gone, DoorInv, DoorTypes
  <2>2. QED
    BY <2>1 DEF DoorInv, Home, Named
<1>2. QED
  BY <1>1, DoorInvariance, PTL

\* A request goes to a backend that was configured when it came or since, except as FollowsTheSwitch says.
THEOREM SwitchIsFollowed == DoorSpec => []FollowsTheSwitch
<1>1. DoorInv => FollowsTheSwitch
  BY DEF DoorInv, Follow
<1>2. QED
  BY <1>1, DoorInvariance, PTL

\* When the loop has ended, and its last write did not fail, the file has the routes.
THEOREM RoutesSaved == DoorSpec => []RoutesAreSaved
<1>1. DoorInv => RoutesAreSaved
  BY DEF DoorInv, Loop
<1>2. QED
  BY <1>1, DoorInvariance, PTL

\* Neither the target nor the file of routes falls behind.
THEOREM NothingBehind == DoorSpec => []NothingFallsBehind
BY SwitchIsFollowed, RoutesSaved, PTL DEF NothingFallsBehind
=============================================================================
