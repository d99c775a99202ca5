------------------------ MODULE MCProcessLifecycle ------------------------
(***************************************************************************)
(* A behaviour is about two start calls that share one slot, or about the  *)
(* retrieval stop: two servers, each with a process that recalls memory,   *)
(* and a search for the same target.                                       *)
(***************************************************************************)
EXTENDS ProcessLifecycle, TLC

CONSTANTS p1, p2, s1, s2, c1, c2, q1,
    Server, Recall, Search, HomeOf, Life, Interval, MaxTime, MaxFaults
VARIABLES scene, now, faults, file, recall, search, sweep, pruned, spoiled

OneCaller == [p \in Call |-> "caller"]
OwnIdentity == [p \in Call |-> p]
Homes == [x \in {c1, c2, q1} |-> IF x = c2 THEN s2 ELSE s1]

Stop == INSTANCE RetrievalStop
ASSUME StopAssumption == Stop!StopAssumption
retrievalVars == <<now, faults, file, recall, search, sweep, pruned, spoiled>>

MCInit == Init /\ Stop!StopInit /\ scene \in {"starts", "stop"}
MCNext ==
    /\ UNCHANGED scene
    /\ \/ scene = "starts" /\ Next /\ UNCHANGED retrievalVars
       \/ scene = "stop" /\ Stop!StopNext /\ UNCHANGED vars
MCSpec == MCInit /\ [][MCNext]_<<vars, retrievalVars, scene>>

\* Who was told keeps the stop (RetrievalStop).
StopHolds == Stop!StopHolds

\* In every state the variables have their types: TLC stops where they do not.
TypesHold == Assert(TypeOK /\ Stop!StopTypes, "types")
=============================================================================
