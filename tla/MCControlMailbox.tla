---------------------------- MODULE MCControlMailbox ----------------------------
(* Small instances of ControlMailbox: one or two requests, two sweeps.     *)
EXTENDS ControlMailbox, TLC

CONSTANTS r1, r2, k1, k2, h1, h2

\* In every state the variables have their types: TLC stops where they do not.
TypesHold == Assert(TypeOK, "TypeOK")
=============================================================================
