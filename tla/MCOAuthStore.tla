----------------------------- MODULE MCOAuthStore -----------------------------
(* Small instances of OAuthStore: two requests, at one server or at two.    *)
EXTENDS OAuthStore, TLC

CONSTANTS s1, s2, r1, r2

Interchangeable == Permutations({s1, s2}) \cup Permutations({r1, r2})

\* Nothing is claimed of what follows a race or a mutation without its load.
Claimed == ~raced /\ ~blind

\* In every state the variables have their types: TLC stops where they do not.
TypesHold == Assert(TypeOK, "TypeOK")
=============================================================================
