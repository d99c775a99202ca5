----------------------------- MODULE MCFrontDoor -----------------------------
(* Small instances of FrontDoor.                                            *)
EXTENDS FrontDoor, TLC

CONSTANTS blue, green, p1, r1, r2

Interchangeable == Permutations(HttpRequest)

\* In every state the variables have their types: TLC stops where they do not.
TypesHold == Assert(DoorTypes, "types")
=============================================================================
