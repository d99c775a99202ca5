--------------------------- MODULE CommandRewrites ---------------------------
(***************************************************************************)
(* What start_process changes in a PowerShell command before it runs it,   *)
(* and what it then refuses (process-manager.ts): the mask that blanks     *)
(* strings and comments, the rewriting of references that PowerShell would *)
(* misread, of writes to $PID and of loops that are piped, the repair of   *)
(* quotes escaped as in C, and the preflight of the result.                *)
(*                                                                         *)
(* A text is a sequence of tokens.  A rewriting is wrong when it changes   *)
(* the text of a string or a comment, which no message would tell, or      *)
(* leaves what it was written to remove.                                   *)
(***************************************************************************)
EXTENDS Integers, Sequences, FiniteSets, SequencesExt

SQ == "single quote"
DQ == "double quote"
Tick == "backtick"
Slash == "backslash"
Newline == "line end"
Hash == "#"
Ref == "$x:"              \* to PowerShell a variable of the scope x
Braced == "${x}:"         \* what was meant
Dollar == "$"
Template == "{{"          \* after a dollar, of another language
PidWrite == "$PID="
PidRead == "$PID"
OwnWrite == "$mcpPid="
OwnRead == "$mcpPid"
Loop == "foreach(...){"    \* also for, while and switch
If == "if(...){"          \* also else, try, catch, ...
End == "}"
Semicolon == ";"
Pipe == "|"
Capture == "@("
Captured == ")"

(***************************************************************************)
(* Scanners: what each takes as an escape, besides a doubled single quote, *)
(* and whether it knows comments.                                          *)
(***************************************************************************)
MaskRules == {"tick", "bare tick"}       \* powershellCodeMask
RewriteRules == {"tick"}                 \* rewritePowerShellInterpolatedSyntax
RepairRules == {"tick", "slash"}         \* repairPowerShellCStyleDoubleQuotes

Code == [in |-> "code", skip |-> FALSE]

Skips(at, c, next, rules) ==
    \/ c = Tick /\ at.in = "code" /\ "bare tick" \in rules
    \/ c = Tick /\ at.in = DQ /\ "tick" \in rules
    \/ c = Slash /\ next = DQ /\ at.in = DQ /\ "slash" \in rules
    \/ c = SQ /\ next = SQ /\ at.in = SQ

After(at, c, next, rules) ==
    IF at.skip THEN [at EXCEPT !.skip = FALSE]
    ELSE IF Skips(at, c, next, rules) THEN [at EXCEPT !.skip = TRUE]
    ELSE IF at.in = "code" /\ c \in {SQ, DQ, Hash} THEN [at EXCEPT !.in = c]
    ELSE IF c = (IF at.in = Hash THEN Newline ELSE at.in) THEN Code
    ELSE at

NextOf(t, i) == IF i < Len(t) THEN t[i + 1] ELSE "end"
Positions(t) == [i \in 1..Len(t) |-> i]

\* The scanner's state before each token and after the last.
Scan(t, rules) ==
    FoldLeft(LAMBDA states, i : Append(states, After(states[i], t[i], NextOf(t, i), rules)),
             <<Code>>, Positions(t))

\* Mutant of Visible: strings and comments are read as code.
EverythingVisible(t) == {i \in 1..Len(t) : t[i] \notin {SQ, DQ, Hash, Tick}}

\* What is left of a text by powershellCodeMask: neither quoted, escaped nor a comment.
Visible(t) ==
    LET states == Scan(t, MaskRules)
    IN {i \in 1..Len(t) : /\ states[i] = Code /\ t[i] \notin {SQ, DQ, Hash, Tick}}

(***************************************************************************)
(* Rewriting: replayNormalizeStartProcessCommand                           *)
(***************************************************************************)
Each(t, Op(_)) == FlattenSeq([i \in 1..Len(t) |-> Op(i)])

\* Outside of single quotes and comments a reference gets braces; within double quotes a
\* dollar before {{ is escaped.
Interpolated(t) ==
    LET states == Scan(t, RewriteRules)
    IN Each(t, LAMBDA i :
          IF states[i].skip THEN <<t[i]>>
          ELSE IF t[i] = Ref /\ states[i].in \in {"code", DQ} THEN <<Braced>>
          ELSE IF t[i] = Dollar /\ NextOf(t, i) = Template /\ states[i].in = DQ THEN <<Tick, Dollar>>
          ELSE <<t[i]>>)

\* Mutant of Renamed: only the first name is replaced.
RenamedOnce(t) ==
    LET writes == {i \in Visible(t) : t[i] = PidWrite}
    IN IF writes = {} THEN t ELSE [t EXCEPT ![Min(writes)] = OwnWrite]

\* All visible uses of $PID get the name of a variable of its own if one of them is a write.
Renamed(t) ==
    LET seen == Visible(t)
    IN IF \E i \in seen : t[i] = PidWrite
       THEN [i \in 1..Len(t) |-> IF i \notin seen THEN t[i]
                                 ELSE IF t[i] = PidWrite THEN OwnWrite
                                 ELSE IF t[i] = PidRead THEN OwnRead
                                 ELSE t[i]]
       ELSE t

\* A block is recognised where a statement can begin: after nothing, ; or } or on a new line,
\* whatever masked text stands between.
Begins(t, seen, i) ==
    LET before == {j \in 1..(i - 1) : j \in seen \/ t[j] = Newline}
    IN before = {} \/ t[Max(before)] \in {Semicolon, End, Newline}

Opened(t, seen, i) ==
    LET one(kind) == [kind |-> kind, at |-> i]
    IN CASE t[i] \in {Loop, If} -> <<one(IF ~Begins(t, seen, i) THEN "plain" ELSE IF t[i] = If THEN "if" ELSE "loop")>>
         [] t[i] = Template -> <<one("plain"), one("plain")>>
         [] t[i] = Capture -> <<one("round")>>
         [] OTHER -> <<>>

Bracket(t, seen, b, i) ==
    LET top == b.stack[Len(b.stack)]
        fits == b.stack # <<>> /\ (t[i] = Captured) = (top.kind = "round")
    IN IF ~b.ok \/ i \notin seen THEN b
       ELSE IF t[i] \notin {End, Captured} THEN [b EXCEPT !.stack = @ \o Opened(t, seen, i)]
       ELSE IF ~fits THEN [b EXCEPT !.ok = FALSE]
       ELSE [b EXCEPT !.stack = Front(@),
                      !.closed = @ \cup {[kind |-> top.kind, from |-> top.at, to |-> i]}]

Brackets(t) ==
    LET seen == Visible(t)
    IN FoldLeft(LAMBDA b, i : Bracket(t, seen, b, i), [ok |-> TRUE, stack |-> <<>>, closed |-> {}],
                [i \in 1..Len(t) |-> i])
Balanced(b) == b.ok /\ b.stack = <<>>

\* The next visible character, which is not a blank, is a pipe: masked text counts as blanks.
PipedAt(t, i) ==
    LET later == {j \in Visible(t) : j > i /\ t[j] # Newline}
    IN later # {} /\ t[Min(later)] = Pipe
\* It is a single one, and not the operator ||.
OrAt(t, i) ==
    LET j == Min({k \in Visible(t) : k > i /\ t[k] = Pipe}) IN NextOf(t, j) = Pipe

PipedLoops(t) ==
    LET b == Brackets(t)
    IN IF Balanced(b) THEN {c \in b.closed : c.kind = "loop" /\ PipedAt(t, c.to) /\ ~OrAt(t, c.to)} ELSE {}

\* A loop whose output is piped is captured first.
LoopsCaptured(t) ==
    LET loops == PipedLoops(t)
    IN Each(t, LAMBDA i : IF \E c \in loops : c.from = i THEN <<Capture, t[i]>>
                          ELSE IF \E c \in loops : c.to = i THEN <<t[i], Captured>>
                          ELSE <<t[i]>>)

Rewritten(t) == LoopsCaptured(Renamed(Interpolated(t)))

\* An escaped double quote within double quotes, as PowerShell writes it.
Repaired(t) ==
    LET states == Scan(t, RepairRules)
    IN [i \in 1..Len(t) |->
           IF t[i] = Slash /\ states[i] = [in |-> DQ, skip |-> FALSE] /\ NextOf(t, i) = DQ THEN Tick
           ELSE t[i]]

\* replayPrepareStartProcessCommand, for what PowerShell will run.
Prepared(t) == Repaired(Rewritten(t))

(***************************************************************************)
(* Refusal: commandPreflightError.  The code returns the first problem.    *)
(***************************************************************************)
Problems(t) ==
    LET b == Brackets(t)
    IN (IF \E i \in Visible(t) : t[i] = PidWrite THEN {"pid"} ELSE {})
       \cup (IF ~Balanced(b) THEN {"unbalanced"} ELSE {})
       \cup {c.kind : c \in {d \in b.closed : d.kind \in {"loop", "if"} /\ PipedAt(t, d.to)}}

(***************************************************************************)
(* What holds of every text                                                *)
(***************************************************************************)
\* The scanners agree as long as no backtick stands outside of strings; without a backslash
\* there is nothing to repair.
Plain(t) == \A i \in 1..Len(t) : /\ t[i] = Tick => Scan(t, RewriteRules)[i].in # "code"
                                /\ t[i] # Slash

\* What a text says in its strings and comments; braces of references and the tick before
\* a template's dollar do not count.
Said(t) ==
    LET states == Scan(t, MaskRules)
    IN Each(t, LAMBDA i :
          IF states[i].in = "code" THEN <<>>
          ELSE IF states[i].in # DQ THEN <<t[i]>>
          ELSE IF t[i] = Ref THEN <<Braced>>
          ELSE IF /\ t[i] = Tick /\ ~states[i].skip
                  /\ NextOf(t, i) = Dollar /\ NextOf(t, i + 1) = Template THEN <<>>
          ELSE <<t[i]>>)

\* No rewriting changes what strings and comments say.
LiteralsAreKept(t) == Plain(t) => Said(Prepared(t)) = Said(t)

\* After the rewriting no write to $PID is refused and no loop whose output goes into a
\* pipe; everything else is refused as before.
OnlyTheRestIsRefused(t) ==
    LET before == Problems(t)
        after == Problems(Prepared(t))
        ors == {c \in Brackets(t).closed : c.kind = "loop" /\ PipedAt(t, c.to) /\ OrAt(t, c.to)}
    IN Plain(t) =>
          /\ "pid" \notin after
          /\ ("unbalanced" \in after) = ("unbalanced" \in before)
          /\ "unbalanced" \notin before => /\ ("if" \in after) = ("if" \in before)
                                          /\ ("loop" \in after) = (ors # {})

\* A repaired text means to PowerShell what the text means where a backslash escapes quotes.
RepairedAsMeant(t) ==
    (\A i \in 1..Len(t) : t[i] = Tick => Scan(t, RepairRules)[i].in # "code")
       => Scan(Repaired(t), MaskRules) = Scan(t, RepairRules)
=============================================================================
