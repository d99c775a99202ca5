--------------------------- MODULE MCOutputPaging ---------------------------
(* Small instances of OutputPaging: one or two calls of a caller.          *)
EXTENDS OutputPaging, TLC

CONSTANTS r1, r2

\* In every state the variables have their types: TLC stops where they do not.
TypesHold == Assert(PagingTypes, "types")
=============================================================================
