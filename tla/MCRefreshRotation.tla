--------------------------- MODULE MCRefreshRotation ---------------------------
(* Small instances of RefreshRotation: two servers.                         *)
EXTENDS RefreshRotation, TLC

CONSTANTS s1, s2

Interchangeable == Permutations({s1, s2})

\* In every state the variables have their types: TLC stops where they do not.
TypesHold == Assert(RefreshTypes, "RefreshTypes")
=============================================================================
