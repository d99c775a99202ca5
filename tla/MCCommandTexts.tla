---------------------------- MODULE MCCommandTexts ----------------------------
(***************************************************************************)
(* All command lines up to a bound, over small alphabets: each alphabet    *)
(* holds the phrases of one question.                                      *)
(***************************************************************************)
EXTENDS CommandPlan, TLC

R == INSTANCE CommandRewrites
G == INSTANCE CommandGuards

VARIABLE subject   \* which alphabet the text is written in

W(tokens) == {<<t>> : t \in tokens}
Alphabets == <<
    W({"git", DQ, Slash, ";"}),                              \* quotes of a sequence
    W({"git", DQ, Tick, ";"}),
    W({"git", "bash", "&", "|", ";", Newline}),              \* operators
    W({"git", SQ, Call, "&", "|"}),
    W({"python", "-c", DQ, "$", "|", Slash}),                \* pipelines and inline code
    W({"python", "<", Newline, Terminator, ";"}),            \* heredocs
    W({Wrapper, "git", DQ, "&", "|"}),                       \* what cmd.exe is given
    W({R!SQ, R!DQ, R!PidWrite, R!PidRead, R!Hash, R!Newline}),
    W({R!DQ, R!Tick, R!Dollar, R!Template, R!Ref, R!SQ}),
    W({R!Loop, R!If, R!End, R!Pipe, R!Capture, R!Captured, R!Semicolon}),
    W({R!DQ, R!SQ, R!Slash, R!Tick, R!Hash, R!Newline}),
    W({R!Loop, R!End, R!Pipe, R!SQ, R!Newline, R!PidWrite}),
    W({"drive root", G!List, G!Recurse, R!SQ, R!Semicolon}),                 \* scans of roots
    W({"vault root", G!Search, "findstr", "/S", R!DQ, R!Newline, R!Hash}),
    {<<G!Fill, G!List, "temp root">>, <<R!Semicolon, G!Over, G!List, G!Var>>, <<R!End, R!Semicolon>>}
        \cup W({G!Recurse}),
    {<<G!List, "temp root">>, <<G!PerItem, G!List, G!Item>>} \cup W({R!Pipe, G!Recurse, R!End}),
    {<<G!Sleep, "5">>, <<G!Echo, "word">>} \cup W({R!Semicolon, R!Newline, R!SQ, "git"}),   \* waits
    {<<G!Router, "route">>} \cup W({"python", "route", R!SQ, R!Semicolon, R!Pipe}),         \* routes
    W({"-ErrorAction Ignore", G!List, "python", "&", R!Semicolon, "stack_atlas.py"}),       \* put right
    {<<R!DQ, "actor", R!DQ>>, <<"$a=", R!DQ, "actor", R!DQ>>, <<"claim", "$a">>} \cup W({G!Busy, "claim", "actor"}),
    W({G!Busy, "list", "--json", R!Semicolon, "heartbeat", "--ttl-seconds"}),
    {<<"git", "cat-file", "-e">>} \cup W({G!Peel, R!SQ, G!HereOpen, G!LineText, G!HereClose}),
    {<<G!Sub, R!SQ, R!Captured, R!SQ, R!Captured>>} \cup W({R!SQ, R!Tick, G!Var, G!Sub, R!Captured})>>                                   \* payloads

MaxLength == <<7, 7, 5, 6, 5, 6, 6, 5, 5, 5, 5, 5, 5, 4, 8, 6, 5, 5, 4, 6, 4, 5, 6>>
OfPlans == 1..7
OfRewrites == 8..12
OfGuards == 13..22
OfPayloads == {23}

MCInit == PlanInit /\ subject \in DOMAIN Alphabets
MCNext ==
    /\ UNCHANGED subject /\ Len(text) < MaxLength[subject]
    /\ \E phrase \in Alphabets[subject] : text' = text \o phrase

\* A plan cuts a text only where no quote is open, and its steps run what is
\* written, as the shell would (CommandPlan).
PlansAreSound ==
    subject \in OfPlans =>
        \A t \in {Unwrapped(text)} : \A plan \in {PlanOf(t)} :
            CutsAreTopLevel(t, plan) /\ StepsRunAsWritten(t, plan)

\* No rewriting changes what strings and comments say, a repaired text is read by
\* PowerShell as it was meant, and after the rewriting only what could not be rewritten
\* is refused (CommandRewrites).
RewritingsAreSound ==
    subject \in OfRewrites =>
        R!LiteralsAreKept(text) /\ R!RepairedAsMeant(text) /\ R!OnlyTheRestIsRefused(text)

\* The guards refuse what is done and not what is said, at the place where it is
\* done, and alike whether the command was put right before or not; a payload for a
\* nested shell is refused when the child would read as code what the parent put
\* into it (CommandGuards).
GuardsAreSteady ==
    /\ subject \in OfGuards => G!GuardsAreSteady(text)
    /\ subject \in OfPayloads => G!NestedAsTheChildReadsIt(text)
=============================================================================
