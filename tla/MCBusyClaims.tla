---------------------------- MODULE MCBusyClaims ----------------------------
(* Small instances of BusyClaims.                                          *)
EXTENDS BusyClaims, TLC

CONSTANTS v1, v2, a1, a2, s1

Symmetry == Permutations({v1, v2}) \cup Permutations({a1, a2})

\* In every state the variables have their types: TLC stops where they do not.
TypesHold == Assert(TypeOK, "TypeOK")
=============================================================================
