---------------------------- MODULE CommandGuards ----------------------------
(***************************************************************************)
(* The guards of start_process (process-manager.ts): what is put right in  *)
(* a command before it is looked at, the policy of commandPolicyError, and *)
(* the check of what a nested PowerShell is given.                         *)
(*                                                                         *)
(* A text is a sequence of tokens, as in CommandRewrites; a token here is  *)
(* a word the guards look for.  They read a word either in the code of a   *)
(* text, which is what powershellCodeMask leaves of it, or anywhere.       *)
(***************************************************************************)
EXTENDS CommandRewrites

List == "Get-ChildItem"       \* also gci, dir and ls
Recurse == "-Recurse"
Search == "rg"                \* also fd
Roots == {"drive root", "vault root", "temp root"}
Fill == "$v="                 \* then a listing: $v = Get-ChildItem ...
Over == "foreach($x in $v){"
PerItem == "ForEach-Object{"
Item == "$_"
Var == "$x"
Sub == "$("
Sleep == "Start-Sleep"
Echo == "Write-Output"
Router == "swarm_route.py"
Busy == "busy.py"
HereOpen == "here begins"
HereClose == "here ends"
LineText == "line end in words"
Peel == "peeled"              \* abc1234^{commit}

WordsAt(t, S) == {t[i] : i \in S}
CodeWords(t, S) == WordsAt(t, S \cap Visible(t))
InOrder(t, S) == [k \in 1..Cardinality(S) |-> t[CHOOSE i \in S : Cardinality({j \in S : j < i}) = k - 1]]

\* The intervals that cuts leave of a range.
Between(from, to, cuts) ==
    LET all == cuts \cup {from - 1, to + 1}
    IN {(c[1] + 1)..(c[2] - 1) : c \in {d \in all \X all : d[1] < d[2] /\ \A e \in all : e <= d[1] \/ e >= d[2]}}

\* The mask leaves line ends where they are.
Boundary(t) == {i \in 1..Len(t) : t[i] = Newline \/ (t[i] = Semicolon /\ i \in Visible(t))}

\* Mutant of Statements: a text is one statement.
OneStatement(t) == {1..Len(t)}

Statements(t) == Between(1, Len(t), Boundary(t))

(***************************************************************************)
(* Scans of a root: drive, vault, Temp                                     *)
(***************************************************************************)
Scans(words) ==
    \/ {List, Recurse} \subseteq words
    \/ Search \in words \/ "tree" \in words
    \/ {"where", "/R"} \subseteq words \/ {"findstr", "/S"} \subseteq words
    \/ {"cmd", List, "/S"} \subseteq words

RootScan(t, root) ==
    \E s \in Statements(t) : root \in WordsAt(t, s) /\ Scans(CodeWords(t, s))

VaultScan(t) == RootScan(t, "vault root")

\* Pipes of a statement outside of its brackets, and not the operator ||.
InBrackets(t, seen, i) ==
    FoldLeft(LAMBDA open, j :
                 IF j >= i \/ j \notin seen THEN open
                 ELSE IF t[j] \in {Over, PerItem, Loop, If} THEN Append(open, End)
                 ELSE IF t[j] \in {Capture, Sub} THEN Append(open, Captured)
                 ELSE IF open # <<>> /\ t[j] = open[Len(open)] THEN Front(open) ELSE open,
             <<>>, Positions(t)) # <<>>
Bars(t, s) ==
    LET seen == s \cap Visible(t)
    IN {i \in seen : /\ t[i] = Pipe /\ NextOf(t, i) # Pipe /\ (i = 1 \/ t[i - 1] # Pipe)
                     /\ ~InBrackets(t, seen, i)}
Slices(t, s) == IF s = {} THEN {} ELSE Between(Min(s), Max(s), Bars(t, s))

\* A recursive listing of an item, in one statement.
FansOut(t, part, item) ==
    LET seen == part \cap Visible(t)
        at(word) == {i \in seen : t[i] = word}
        ends == {i \in part : t[i] = Newline \/ (i \in seen /\ t[i] \in {End, Semicolon, Pipe})}
    IN \E i \in at(List), j \in at(item), k \in at(Recurse) :
          i < j /\ i < k /\ \A m \in ends : m < i \/ m > Max({j, k})

OfTemp(t, slice) == "temp root" \in WordsAt(t, slice)
FilledFromTemp(t) ==
    LET seen == Visible(t)
    IN \E s \in Statements(t) : \E x \in Slices(t, s) :
          OfTemp(t, x) /\ \E i, j \in x \cap seen : t[i] = Fill /\ t[j] = List /\ i < j /\ ((i + 1)..(j - 1)) \cap seen = {}
TempScan(t) ==
    \/ \E s \in Statements(t) :
          LET slices == Slices(t, s) IN
          \/ \E x \in slices : OfTemp(t, x) /\ Scans(CodeWords(t, x))
          \/ \E x, y \in slices \ {{}} :
                /\ OfTemp(t, x) /\ List \in CodeWords(t, x) /\ Max(x) < Min(y)
                /\ ~OfTemp(t, y) /\ PerItem \in CodeWords(t, y) /\ FansOut(t, y, Item)
    \/ /\ FilledFromTemp(t)
       /\ \E p \in Visible(t) : t[p] = Over /\ FansOut(t, p..Len(t), Var)

(***************************************************************************)
(* Waiting, routing, encoded commands                                      *)
(***************************************************************************)
PlainWords == {"5", "word", List, Recurse, Search, "python", "route", Router, Sleep, Echo, "exit", "0"}
IsSleep(words) == words = <<Sleep, "5">>
SaysOnly(words) == words # <<>> /\ words[1] = Echo /\ Range(Tail(words)) \subseteq PlainWords
InertWait(t) ==
    LET said == {InOrder(t, s \cap Visible(t)) : s \in Statements(t)}
    IN (\E w \in said : IsSleep(w)) /\ \A w \in said : w = <<>> \/ IsSleep(w) \/ SaysOnly(w)

P3Wait(t) ==
    LET all == Range(t)
        code == CodeWords(t, 1..Len(t))
    IN \/ "Wait-Process" \in code /\ all \cap {"p3 build", "ubt"} # {}
       \/ {"p3 mutex", "p3 ubt"} \subseteq all /\ ".WaitOne(" \in code
       \/ "p3 build" \in all /\ {"while", "Get-Process", Sleep} \subseteq code

\* The first mention of the router counts.
Routes(t, s) ==
    LET closes(i) == i \notin Visible(t) /\ t[i] \in {SQ, DQ}
        at == {i \in s : t[i] = Router /\ \E j \in {i + 1, i + 2} \cap s :
                             t[j] = "route" /\ (j = i + 2 => i \notin Visible(t) /\ closes(i + 1))}
        verb == IF t[Min(at) + 1] = "route" THEN Min(at) + 1 ELSE Min(at) + 2
    IN "python" \in CodeWords(t, s) /\ at # {} /\ verb \in Visible(t)
RouteNotAlone(t) ==
    \E s \in Statements(t) :
        /\ Routes(t, s)
        /\ CodeWords(t, s) \cap {Pipe, "&&"} # {} \/ \E o \in Statements(t) \ {s} : CodeWords(t, o) # {}

Encoded(t) ==
    \/ {"pwsh", "-enc"} \subseteq Range(t)
    \/ {"python", "-c", "exec(b64decode("} \subseteq Range(t)

Rules == <<"encoded", "drive root", "vault root", "wait", "temp root", "p3 wait", "route">>
Refuses(rule, t) ==
    CASE rule = "encoded" -> Encoded(t)
      [] rule = "drive root" -> RootScan(t, rule)
      [] rule = "vault root" -> VaultScan(t)
      [] rule = "wait" -> InertWait(t)
      [] rule = "temp root" -> TempScan(t)
      [] rule = "p3 wait" -> P3Wait(t)
      [] rule = "route" -> RouteNotAlone(t)
Policy(t) == SelectSeq(Rules, LAMBDA rule : Refuses(rule, t))

(***************************************************************************)
(* What a nested shell is given                                            *)
(***************************************************************************)
TicksBefore(v, i) == Cardinality({j \in 1..(i - 1) : \A k \in j..(i - 1) : v[k] = Tick})
ExpandsAt(v, i) == v[i] \in {Var, Sub} /\ TicksBefore(v, i) % 2 = 0

\* The end of a subexpression, or 0: its own quotes and brackets are skipped.
SubEnd(v, from) ==
    FoldLeft(LAMBDA at, i :
                 IF at.end # 0 \/ i <= at.skip THEN at
                 ELSE IF v[i] = Tick /\ at.quote # SQ THEN [at EXCEPT !.skip = i + 1]
                 ELSE IF at.quote # "" THEN
                      IF v[i] # at.quote THEN at
                      ELSE IF v[i] = SQ /\ NextOf(v, i) = SQ THEN [at EXCEPT !.skip = i + 1]
                      ELSE [at EXCEPT !.quote = ""]
                 ELSE IF v[i] \in {SQ, DQ} THEN [at EXCEPT !.quote = v[i]]
                 ELSE IF v[i] \in {Capture, Sub} THEN [at EXCEPT !.depth = @ + 1]
                 ELSE IF v[i] = Captured /\ at.depth = 1 THEN [at EXCEPT !.end = i]
                 ELSE IF v[i] = Captured THEN [at EXCEPT !.depth = @ - 1] ELSE at,
             [end |-> 0, skip |-> from, quote |-> "", depth |-> 1], Positions(v)).end

\* hasUnsafeNestedPowerShellExpansion
Unsafe(v) ==
    LET cStyle == \E i \in 1..(Len(v) - 1) : v[i] = Slash /\ v[i + 1] = DQ
    IN FoldLeft(LAMBDA at, i :
                    IF at.found \/ i <= at.skip THEN at
                    ELSE IF v[i] = SQ /\ at.literal /\ NextOf(v, i) = SQ THEN [at EXCEPT !.skip = i + 1]
                    ELSE IF v[i] = SQ THEN [at EXCEPT !.literal = ~@]
                    ELSE IF ~ExpandsAt(v, i) THEN at
                    ELSE IF ~at.literal \/ cStyle THEN [at EXCEPT !.found = TRUE]
                    ELSE IF v[i] = Sub THEN [at EXCEPT !.skip = Max({i, SubEnd(v, i)})] ELSE at,
                [found |-> FALSE, literal |-> FALSE, skip |-> 0], Positions(v)).found

NestedExpansion(t) ==
    \E p \in Visible(t) :
        LET ends == {i \in Boundary(t) : i > p}
            end == IF ends = {} THEN Len(t) + 1 ELSE Min(ends)
            options == {i \in (p + 1)..(end - 1) : i \in Visible(t) /\ t[i] = "-Command"}
        IN /\ t[p] = "pwsh" /\ options # {} /\ Min(options) + 1 < end
           /\ t[Min(options) + 1] = DQ
           /\ Unsafe(SubSeq(t, Min(options) + 2, end - 1))

\* commandPreflightError, and of what an explicit shell is told to run.
Preflight(t, mode) ==
    Policy(t) # <<>> \/ (mode = "powershell" /\ (NestedExpansion(t) \/ Problems(t) # {}))
PayloadOf(plan) ==
    LET at == {i \in DOMAIN plan.args : plan.args[i] \in {"-Command", "-c"}}
    IN IF plan.mode = "explicit_shell" /\ plan.executable = "pwsh" /\ at # {}
       THEN SubSeq(plan.args, Min(at) + 1, Len(plan.args)) ELSE <<>>
ExecutionPreflight(t, plan) ==
    \/ Preflight(t, plan.mode)
    \/ PayloadOf(plan) # <<>> /\ Preflight(PayloadOf(plan), "powershell")

(***************************************************************************)
(* What is put right first: replayNormalizeStartProcessCommand             *)
(***************************************************************************)
AtStart(t, i) == i = 1 \/ t[i - 1] \in {Semicolon, Newline}
ToolEntrypoint(t) ==
    LET tool(i) == t[i] = "stack_atlas.py" /\ (AtStart(t, i) \/ (t[i - 1] = "&" /\ AtStart(t, i - 1)))
    IN Each(t, LAMBDA i : IF tool(i) THEN <<"python", SQ, "atlas path", SQ>>
                          ELSE IF t[i] = "&" /\ i < Len(t) /\ tool(i + 1) THEN <<>> ELSE <<t[i]>>)

Foreign == {"python", "git", Search, "cmd", "pwsh"}
Mutating == {Sleep, "Set-Item"}
\* A look at something that may fail ends with 0.
SilentProbe(t) ==
    IF /\ "-ErrorAction Ignore" \in Range(t) /\ Range(t) \cap {List, "Get-Process"} # {}
       /\ Range(t) \cap (Mutating \cup {"exit", "throw"}) = {}
       /\ \A i \in 1..Len(t) : t[i] \in Foreign =>
             ~(i = 1 \/ t[i - 1] \in {Semicolon, Pipe, "&"} \/ (i = 2 /\ t[1] = "&"))
    THEN t \o <<Semicolon, "exit", "0">> ELSE t

Verbs == {"claim", "heartbeat"}
\* The first --ttl-seconds after a verb, in its statement.
BusyCli(t) ==
    LET renamed(j) == \E c \in 1..(j - 1) : /\ t[c] \in Verbs
                                            /\ \A k \in c..(j - 1) : t[k] \notin {Semicolon, Newline, "--ttl-seconds"}
    IN IF Busy \notin Range(t) THEN t
       ELSE Each(t, LAMBDA i : IF t[i] = "--json" /\ i > 1 /\ t[i - 1] = "list" THEN <<>>
                               ELSE IF t[i] = "--ttl-seconds" /\ renamed(i) THEN <<"--lease-seconds">>
                               ELSE <<t[i]>>)

\* An actor gets the name of its harness: written after the verb, bare or quoted, or given
\* by a variable.
QuotedAt(t, i) == i > 2 /\ i < Len(t) /\ t[i - 1] \in {SQ, DQ} /\ t[i + 1] = t[i - 1]
ActorAt(t, i) ==
    \/ i > 1 /\ t[i - 1] \in Verbs
    \/ QuotedAt(t, i) /\ t[i - 2] \in Verbs
    \/ QuotedAt(t, i) /\ t[i - 2] = "$a=" /\ \E k \in 1..(Len(t) - 1) : t[k] \in Verbs /\ t[k + 1] = "$a"
BusyActor(t) ==
    IF Busy \notin Range(t) THEN t
    ELSE [i \in 1..Len(t) |-> IF t[i] = "actor" /\ ActorAt(t, i) THEN "ChatGPT:actor" ELSE t[i]]

HereStringNewlines(t) ==
    [i \in 1..Len(t) |-> IF t[i] = LineText /\ ((i > 1 /\ t[i - 1] = HereOpen) \/ NextOf(t, i) = HereClose)
                         THEN Newline ELSE t[i]]

CommitPeel(t) ==
    LET seen == Visible(t)
        asked(i) == LET before == InOrder(t, {j \in seen : j < i})
                    IN IsSuffix(<<"git", "cat-file", "-e">>, before)
    IN Each(t, LAMBDA i : IF t[i] = Peel /\ i \in seen /\ asked(i) THEN <<SQ, Peel, SQ>> ELSE <<t[i]>>)

Normalized(t) ==
    LoopsCaptured(CommitPeel(Renamed(Interpolated(HereStringNewlines(
        BusyActor(BusyCli(SilentProbe(ToolEntrypoint(t)))))))))

(***************************************************************************)
(* What holds of every text                                                *)
(***************************************************************************)
\* A scan is refused where it stands, whatever stands before and after it; only code that
\* waits alone is refused for waiting, and only a route that stands alone passes.
RefusedWhereItStands(t) ==
    \A i \in Boundary(t) \cap Visible(t) :
        LET p == SubSeq(t, 1, i - 1)
            q == SubSeq(t, i + 1, Len(t))
        IN /\ \A root \in {"drive root", "vault root"} :
                 RootScan(t, root) = (RootScan(p, root) \/ RootScan(q, root))
           /\ TempScan(p) \/ TempScan(q) => TempScan(t)
           /\ RouteNotAlone(p) \/ RouteNotAlone(q) => RouteNotAlone(t)
           /\ InertWait(t) => InertWait(p) \/ InertWait(q)
           /\ InertWait(p) /\ InertWait(q) => InertWait(t)

\* What a string or a comment says is no reason to refuse, but for the root it names.
SayingIsNotDoing(t) ==
    LET seen == Visible(t)
        kept == Roots \cup {Router, "route", SQ, DQ, Hash, Tick, Newline}
        silent == [i \in 1..Len(t) |-> IF i \in seen \/ t[i] \in kept THEN t[i] ELSE "word"]
        read == {"drive root", "vault root", "temp root", "wait", "route"}
    IN Range(Policy(t)) \cap read = Range(Policy(silent)) \cap read

\* What the parent shell puts into a payload, and what it passes on.
Delivered(v) ==
    FoldLeft(LAMBDA at, i :
                 IF i <= at.skip THEN at
                 ELSE IF v[i] = Tick /\ i < Len(v) THEN [skip |-> i + 1, text |-> Append(at.text, v[i + 1])]
                 ELSE IF v[i] = Sub THEN [skip |-> Max({i, SubEnd(v, i)}), text |-> Append(at.text, "value")]
                 ELSE [at EXCEPT !.text = Append(@, IF v[i] = Var THEN "value" ELSE v[i])],
             [skip |-> 0, text |-> <<>>], Positions(v)).text

\* A payload is unsafe if the child would read something as code that the parent put there.
NestedAsTheChildReadsIt(v) ==
    LET text == Delivered(v)
        child == Scan(text, {})
    IN Unsafe(v) = \E i \in 1..Len(text) : text[i] = "value" /\ child[i].in # SQ

\* To put a command right once is enough, and changes nothing in what the policy says of it.
PutRightOnce(t) ==
    LET once(option) == Cardinality({i \in 1..Len(t) : t[i] = option}) <= 1
        new == Normalized(t)
    IN (\A option \in {"--json", "--ttl-seconds", Peel} : once(option)) =>
          Normalized(new) = new /\ Policy(new) = Policy(t)

\* A shell that is asked for is refused what PowerShell would be refused, in quotes or not.
RefusedInAnyShell(t) ==
    LET args == SelectSeq(t, LAMBDA w : w \notin {SQ, DQ})
        plan == [mode |-> "explicit_shell", executable |-> "pwsh", args |-> <<"-Command">> \o args]
    IN args # <<>> /\ Preflight(args, "powershell")
         => /\ ExecutionPreflight(<<"pwsh", "-Command">> \o t, plan)
            /\ ExecutionPreflight(<<"pwsh", "-Command", SQ>> \o args \o <<SQ>>, plan)

\* The guards refuse what is done and not what is said, at the place where it is done, and
\* alike whether the command was put right before or not.
GuardsAreSteady(t) ==
    /\ RefusedWhereItStands(t) /\ SayingIsNotDoing(t)
    /\ PutRightOnce(t) /\ RefusedInAnyShell(t)
=============================================================================
