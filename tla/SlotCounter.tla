----------------------------- MODULE SlotCounter -----------------------------
(***************************************************************************)
(* What host admission promises: at most MaxLiveTotal processes hold a slot *)
(* at a time, over all server processes of the host.                        *)
(***************************************************************************)
EXTENDS Integers, FiniteSets

CONSTANTS
  Proc,         \* process ids
  MaxLiveTotal  \* number of slots

VARIABLE holders \* the processes that hold a slot

Init == holders = {}

\* A process is admitted while there is a slot left.
Admit(p) ==
  /\ Cardinality(holders) < MaxLiveTotal
  /\ holders' = holders \cup {p}

\* A process gives its slot back.
GiveBack(p) == holders' = holders \ {p}

Next == \E p \in Proc : Admit(p) \/ GiveBack(p)

Spec == Init /\ [][Next]_holders
=============================================================================
