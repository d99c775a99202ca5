----------------------------- MODULE CommandPlan -----------------------------
(***************************************************************************)
(* How a command line becomes a plan (command-execution-plan.ts): run by   *)
(* PowerShell, by the shell it names, as one native process, or as a       *)
(* sequence or pipeline of native processes which the server itself runs.  *)
(*                                                                         *)
(* A text is a sequence of tokens: words, which outside of quotes are      *)
(* followed by a blank, and the characters that the scanners look at.      *)
(* Three scanners read the same text with different rules for escapes;     *)
(* what is claimed is that their disagreements never show in a plan.       *)
(***************************************************************************)
EXTENDS Integers, Sequences, FiniteSets, SequencesExt

SQ == "single quote"
DQ == "double quote"
Tick == "backtick"
Slash == "backslash"
Newline == "line end"
Call == "& "          \* the call operator
Wrapper == "cmd /c"   \* cmd.exe with its options, up to the payload
Terminator == "EOF"   \* of a heredoc

Words == {"git", "python", "-c", "bash", "echo", Wrapper, Terminator}
Quotes == {SQ, DQ}
Amp == {"&", Call}

Native == {"git", "python"}     \* NATIVE_COMMANDS and paths of executables
Shells == {"bash", Wrapper}     \* EXPLICIT_SHELLS

(***************************************************************************)
(* Quotes                                                                  *)
(***************************************************************************)
\* What each scanner takes as an escape, besides a doubled quote within single quotes.
ParseRules == {"slash"}                   \* a backslash before a quote, within double quotes
SequenceRules == {"tick", "bare tick"}    \* a backtick within double quotes and outside
PipelineRules == {"slash", "tick", "bare tick"}

Outside == [quote |-> "none", skip |-> FALSE]

Escapes(at, c, next, rules) ==
    \/ c = Tick /\ at.quote = "none" /\ "bare tick" \in rules
    \/ c = Tick /\ at.quote = DQ /\ "tick" \in rules
    \/ c = Slash /\ next = DQ /\ at.quote = DQ /\ "slash" \in rules
    \/ c = SQ /\ next = SQ /\ at.quote = SQ

After(at, c, next, rules) ==
    IF at.skip THEN [at EXCEPT !.skip = FALSE]
    ELSE IF Escapes(at, c, next, rules) THEN [at EXCEPT !.skip = TRUE]
    ELSE IF c \in Quotes /\ at.quote = "none" THEN [at EXCEPT !.quote = c]
    ELSE IF c = at.quote THEN Outside
    ELSE at

NextOf(t, i) == IF i < Len(t) THEN t[i + 1] ELSE "end"

\* The scanner's state before each token and after the last.
Scan(t, rules) ==
    FoldLeft(LAMBDA states, i : Append(states, After(states[i], t[i], NextOf(t, i), rules)),
             <<Outside>>, [i \in 1..Len(t) |-> i])

Bare(t, rules) == LET states == Scan(t, rules) IN {i \in 1..Len(t) : states[i] = Outside}

\* Mutant of Closed: an open quote ends with the text.
ClosedByTheEnd(t, rules) == TRUE

Closed(t, rules) == Scan(t, rules)[Len(t) + 1] = Outside

(***************************************************************************)
(* Words: parseWords                                                       *)
(***************************************************************************)
ShellSyntax(t) ==
    \E i \in Bare(t, ParseRules) : t[i] \in {";", "|", "<", Newline} \cup Amp

Expands(t) ==
    LET states == Scan(t, ParseRules)
    IN \E i \in 1..Len(t) : \/ states[i] = Outside /\ t[i] \in {"$", Tick}
                            \/ states[i] = [quote |-> DQ, skip |-> FALSE] /\ t[i] = "$"

\* A word ends at a blank or a line end outside of quotes.
EndsWord(t, i) == i \in Bare(t, ParseRules) /\ (t[i] \in Words \/ t[i] = Newline)
\* What it is without its quotes.
Content(t, from, to) ==
    LET states == Scan(t, ParseRules)
        delimits(i) == t[i] \in Quotes /\ (states[i] = Outside \/ states[i + 1] = Outside)
    IN SelectSeq([i \in 1..(to - from + 1) |->
                     IF delimits(from + i - 1) \/ t[from + i - 1] = Newline THEN "" ELSE t[from + i - 1]],
                 LAMBDA c : c # "")

WordAt(t, from) ==
    LET ends == {i \in from..Len(t) : EndsWord(t, i)}
        to == IF ends = {} THEN Len(t) ELSE CHOOSE i \in ends : \A j \in ends : i <= j
    IN [text |-> Content(t, from, to), next |-> to + 1]

Start(t) == IF \E i \in 1..Len(t) : t[i] # Newline
            THEN CHOOSE i \in 1..Len(t) : t[i] # Newline /\ \A j \in 1..(i - 1) : t[j] = Newline
            ELSE Len(t) + 1
First(t) == WordAt(t, Start(t)).text
Second(t) == WordAt(t, WordAt(t, Start(t)).next).text

IsOne(word, of) == \E name \in of : word = <<name>>

(***************************************************************************)
(* One command: planSingleCommand                                          *)
(***************************************************************************)
Has(t, c) == \E i \in 1..Len(t) : t[i] = c
Unticked(t, c) == \E i \in 1..Len(t) : t[i] = c /\ (i = 1 \/ t[i - 1] # Tick)
Doubled(t, of) == \E i \in 1..(Len(t) - 1) : t[i] \in of /\ t[i + 1] \in of
IsQuoted(t) == Len(t) >= 2 /\ t[1] = DQ /\ t[Len(t)] = DQ

\* A heredoc that is given to python as its input.
Heredoc(t) ==
    /\ Len(t) > 4 /\ t[1] = "python" /\ t[Len(t)] = Terminator /\ t[Len(t) - 1] = Newline
    /\ \E i \in 2..(Len(t) - 3) :
          /\ t[i] = "<" /\ t[i + 1] = Newline
          /\ LET prefix == SubSeq(t, 1, i - 1)
             IN ~Has(prefix, Newline) /\ Closed(prefix, ParseRules) /\ ~ShellSyntax(prefix) /\ ~Expands(prefix)

\* shouldDirectExplicitShell: a shell that was asked for gets its words as they are, cmd also
\* what only cmd can read.
DirectShell(t) ==
    /\ IsOne(First(t), Shells)
    /\ \/ ~ShellSyntax(t)
       \/ /\ t[1] = Wrapper
          /\ LET payload == Tail(t)
             IN Unticked(payload, "<") \/ (IsQuoted(payload) /\ (Doubled(payload, Amp) \/ Doubled(payload, {"|"})))

InlineCode(t) == First(t) = <<"python">> /\ Second(t) = <<"-c">>

NativeArgv(t) ==
    IsOne(First(t), Native) /\ ~ShellSyntax(t) /\ (InlineCode(t) \/ ~Expands(t))

Uncalled(t) == IF t # <<>> /\ t[1] = Call THEN Tail(t) ELSE t

Single(t) ==
    LET u == Uncalled(t)
    IN IF Heredoc(t) THEN "native"
       ELSE IF ~Closed(u, ParseRules) \/ First(u) = <<>> THEN "powershell"
       ELSE IF DirectShell(u) THEN "explicit_shell"
       ELSE IF NativeArgv(u) THEN "native"
       ELSE "powershell"

(***************************************************************************)
(* Several: splitTopLevelPipeline, splitTopLevelSequence                   *)
(***************************************************************************)
Part(from, to, cond) == [from |-> from, to |-> to, runIf |-> cond]
TextOf(t, part) == SubSeq(t, part.from, part.to)
NoParts == <<>>

Pipeline(t) ==
    LET bare == Bare(t, PipelineRules)
        cuts == SetToSortSeq({i \in bare : t[i] = "|"}, <)
        ends == <<0>> \o cuts \o <<Len(t) + 1>>
        parts == [k \in 1..(Len(ends) - 1) |-> Part(ends[k] + 1, ends[k + 1] - 1, "always")]
    IN IF /\ cuts # <<>> /\ Closed(t, PipelineRules)
          /\ \A i \in bare : t[i] \notin {";", Newline} \cup Amp
          /\ \A k \in DOMAIN parts : parts[k].from <= parts[k].to
       THEN parts ELSE NoParts

\* On what the command after an operator depends.
NextRunIf(op) == CASE op \in Amp -> "success" [] op = "|" -> "failure" [] OTHER -> "always"

\* One token of the scan for operators.  A line end after nothing is skipped; a single | or &
\* belongs to a real shell.
Cut(t, bare, found, i) ==
    LET op == t[i]
        double == \/ op = "&" /\ NextOf(t, i) \in Amp
                  \/ op = "|" /\ NextOf(t, i) = "|"
        empty == found.from > i - 1
    IN IF ~found.ok \/ i = found.skip \/ i \notin bare \/ op \notin {";", "|", Newline} \cup Amp
       THEN found
       ELSE IF op \in {"|"} \cup Amp /\ ~double THEN [found EXCEPT !.ok = FALSE]
       ELSE IF empty /\ op # Newline THEN [found EXCEPT !.ok = FALSE]
       ELSE IF empty THEN [found EXCEPT !.from = i + 1]
       ELSE [found EXCEPT !.parts = Append(@, Part(found.from, i - 1, found.cond)),
                          !.cond = NextRunIf(op),
                          !.skip = IF double THEN i + 1 ELSE 0,
                          !.from = IF double THEN i + 2 ELSE i + 1]

Sequential(t) ==
    LET bare == Bare(t, SequenceRules)
        found == FoldLeft(LAMBDA f, i : Cut(t, bare, f, i),
                          [ok |-> TRUE, from |-> 1, skip |-> 0, cond |-> "always", parts |-> NoParts],
                          [i \in 1..Len(t) |-> i])
        parts == IF found.from > Len(t) THEN found.parts
                 ELSE Append(found.parts, Part(found.from, Len(t), found.cond))
    IN IF found.ok /\ Closed(t, SequenceRules) /\ Len(parts) > 1 THEN parts ELSE NoParts

(***************************************************************************)
(* The plan: planCommandExecution                                          *)
(***************************************************************************)
Plan(mode, parts) == [mode |-> mode, parts |-> parts]

PlanOf(t) ==
    LET pipes == Pipeline(t)
        steps == Sequential(t)
        modes(parts) == {Single(TextOf(t, parts[k])) : k \in DOMAIN parts}
    IN IF Heredoc(t) THEN Plan("native", NoParts)
       ELSE IF pipes # NoParts
       THEN IF modes(pipes) = {"native"} THEN Plan("native_pipeline", pipes) ELSE Plan(Single(t), NoParts)
       ELSE IF steps # NoParts
       THEN IF "powershell" \notin modes(steps) THEN Plan("native_sequence", steps) ELSE Plan(Single(t), NoParts)
       ELSE Plan(Single(t), NoParts)

\* cmdPayloadForNativePlanning: what cmd.exe would run, if it needs no cmd.exe.
Payload(t) ==
    IF t = <<>> \/ t[1] # Wrapper THEN <<>>
    ELSE LET rest == Tail(t)
             inner == IF IsQuoted(rest) THEN SubSeq(rest, 2, Len(rest) - 1) ELSE rest
         IN IF Unticked(inner, "<") THEN <<>> ELSE inner

\* The text that is planned in the end, without the wrappers that could be left out.
RECURSIVE Unwrapped(_)
Unwrapped(t) ==
    LET inner == Payload(t)
    IN IF inner # <<>> /\ PlanOf(Unwrapped(inner)).mode \in {"native", "native_sequence", "native_pipeline"}
       THEN Unwrapped(inner) ELSE t

(***************************************************************************)
(* Running a sequence: executePlan, shouldRunStep                          *)
(***************************************************************************)
ShouldRun(runIf, previous) ==
    runIf = "always" \/ previous = "none" \/ (runIf = "success") = (previous = "ok")

\* The steps that run, given how each would end.  (A step that a signal ends, ends the plan.)
Executed(parts, ends) ==
    FoldLeft(LAMBDA run, k : IF ShouldRun(parts[k].runIf, run.last)
                             THEN [ran |-> run.ran \cup {k}, last |-> ends[k]] ELSE run,
             [ran |-> {}, last |-> "none"], [k \in 1..Len(parts) |-> k])

(***************************************************************************)
(* What holds of every text                                                *)
(***************************************************************************)
VARIABLE text
PlanInit == text = <<>>

\* A text that is cut into steps is cut where the parser of the words of the whole text is
\* outside of quotes too, each step is closed for it, and no operator outside of quotes is
\* left in a native step: the three scanners' different escapes do not show.  (In the texts
\* of the run: a heredoc becomes a step of a sequence, with the quotes of its body, in one of
\* twelve tokens whose backticks hide its line ends from the sequence's scanner.)
CutsAreTopLevel(t, plan) ==
    LET top == Bare(t, ParseRules)
    IN plan.parts # NoParts =>
          \A k \in DOMAIN plan.parts :
              LET part == plan.parts[k]
              IN /\ part.from = 1 \/ part.from - 1 \in top
                 /\ part.to = Len(t) \/ part.to + 1 \in top
                 /\ Single(TextOf(t, part)) = "native" =>
                       \A i \in part.from..part.to :
                          t[i] \in {";", "|", Newline} \cup Amp =>
                              i \notin top \/ Heredoc(TextOf(t, part)) \/ (i = part.from /\ t[i] = Call)

\* The operator that a reader sees between two steps; a line end after an operator does not
\* count.
Seen(t, a, b) ==
    LET between == {t[i] : i \in (a.to + 1)..(b.from - 1)}
    IN IF between \cap Amp # {} THEN "&&" ELSE IF "|" \in between THEN "||" ELSE ";"

\* A sequence of steps is run as the shell would have run the text: && after success, ||
\* after failure of what ran last, ; and line ends always - however the steps end.
StepsRunAsWritten(t, plan) ==
    plan.mode = "native_sequence" =>
          \A ends \in [DOMAIN plan.parts -> {"ok", "failed"}] :
              LET runs[k \in 0..Len(plan.parts)] ==
                      IF k = 0 THEN [ran |-> {}, last |-> "none"]
                      ELSE LET so == runs[k - 1]
                               op == IF k = 1 THEN ";" ELSE Seen(t, plan.parts[k - 1], plan.parts[k])
                               due == \/ op = ";"
                                      \/ op = "&&" /\ so.last = "ok"
                                      \/ op = "||" /\ so.last = "failed"
                           IN IF due THEN [ran |-> so.ran \cup {k}, last |-> ends[k]] ELSE so
              IN Executed(plan.parts, ends) = runs[Len(plan.parts)]
=============================================================================
