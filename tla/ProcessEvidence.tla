--------------------------- MODULE ProcessEvidence ---------------------------
(***************************************************************************)
(* What is kept of a command and told about it (ProcessManager): its       *)
(* output, bounded in memory, counted and hashed; the one retry of a       *)
(* command whose output complains of something that can be mended; the     *)
(* audit and the diagnosis, from the process and from its receipt.         *)
(*                                                                         *)
(* A command is the set of its features, an output a sequence of marks,    *)
(* which are what the code looks for in the one and the other.             *)
(***************************************************************************)
EXTENDS Integers, Sequences, FiniteSets, SequencesExt

CONSTANTS
    Jobs,        \* [command, submitted, reason, allowed, marks]: what is run, from what, why so,
                 \* whether it may be repaired, and what it may say
    MaxCapture,  \* MAX_CAPTURE_CHARS
    MaxOutput,   \* bound: of the marks an attempt writes
    Beyond,      \* features that stand behind MAX_COMMAND_REPORT_CHARS
    Refused,     \* features that the preflight refuses
    TinySource   \* the sources of tiny3d are where they are looked for

\* A command is run when it was rewritten, and its $PID renamed unless quotes hide it; what
\* only waits is refused.
ASSUME EvidenceAssumption ==
    /\ MaxCapture \in Nat \ {0} /\ MaxOutput \in Nat /\ TinySource \in BOOLEAN
    /\ "wait" \in Refused
    /\ \A j \in Jobs : /\ j.allowed \in BOOLEAN /\ "none" \notin j.command
                       /\ {"hidden write", "hidden wait"} \cap j.command # {} => "c quotes" \in j.command

VARIABLES
    job, command,
    phase,       \* "running" or "ended"
    resetting,   \* the second attempt waits for its spools to be emptied
    asked,       \* killRequested
    outcome,     \* exit code, signal, error and errorCode
    capture,     \* state.stdout, state.stderr
    counted, hashed,   \* stdoutChars..., stdoutHash...
    digest,      \* stdoutSha256..., or NoDigest
    submitted,   \* submittedCommand, or NoCommand
    attempts,    \* repairAttempts
    receipt,     \* what is in the receipt, or NoReceipt
    written,     \* ghost: what the attempt that runs, or ran last, has written
    first,       \* ghost: what the first attempt was and wrote
    spoiled      \* ghost: the spools were emptied too late, or could not be

evidenceVars == <<job, command, phase, resetting, asked, outcome, capture, counted, hashed, digest,
                  submitted, attempts, receipt, written, first, spoiled>>

Stream == {"stdout", "stderr"}
NoDigest == <<"none">>
NoCommand == {"none"}
NoReceipt == [schema |-> "none"]
Both(x) == [s \in Stream |-> x]
Pending == [code |-> 0 - 9, signal |-> FALSE, error |-> "no"]
EmptyCapture == [chunks |-> <<>>, truncated |-> FALSE]

(***************************************************************************)
(* BoundedCapture                                                          *)
(***************************************************************************)
Text(c) == FlattenSeq(c.chunks)
LastOf(text, n) == SubSeq(text, 1 + (IF Len(text) > n THEN Len(text) - n ELSE 0), Len(text))

\* Chunks are dropped, or cut, at the front until the rest is short enough.
Shortened(chunks) ==
    LET held == Len(FlattenSeq(chunks))
        from == CHOOSE i \in DOMAIN chunks :
                  /\ Len(FlattenSeq(SubSeq(chunks, i, Len(chunks)))) >= MaxCapture
                  /\ Len(FlattenSeq(SubSeq(chunks, i + 1, Len(chunks)))) < MaxCapture
        rest == SubSeq(chunks, from + 1, Len(chunks))
    IN IF held <= MaxCapture THEN chunks
       ELSE <<LastOf(chunks[from], MaxCapture - Len(FlattenSeq(rest)))>> \o rest
Appended(c, text) ==
    IF Len(text) >= MaxCapture
    THEN [chunks |-> <<LastOf(text, MaxCapture)>>, truncated |-> TRUE]
    ELSE [chunks |-> Shortened(Append(c.chunks, text)),
          truncated |-> c.truncated \/ Len(Text(c)) + Len(text) > MaxCapture]

CaptureTail(c, n) ==
    LET limit == IF n < 1 THEN 1 ELSE n IN
    [text |-> LastOf(Text(c), limit), truncated |-> c.truncated \/ Len(Text(c)) > n]

(***************************************************************************)
(* What can be mended, in the order in which it is tried                   *)
(***************************************************************************)
MendActor(cmd) ==
    IF "busy tool" \in cmd THEN cmd \ {"quoted actor", "bare actor", "assigned actor"} ELSE cmd
MendHereString(cmd) == cmd \ {"here single", "here double"}
MendLookup(cmd) == IF "lookup" \in cmd THEN (cmd \ {"lookup"}) \cup {"find"} ELSE cmd
MendReadText(cmd) == cmd \ {"newline argument"}
MendPath(cmd) == IF "tiny3d" \in cmd /\ TinySource THEN cmd \cup {"python path"} ELSE cmd
\* What the quotes hid is code from now on.
MendQuotes(cmd) ==
    IF "c quotes" \in cmd
    THEN (cmd \ {"c quotes", "hidden wait"}) \cup (IF "hidden wait" \in cmd THEN {"wait"} ELSE {})
    ELSE cmd

RuntimeRepair(cmd, out, err) ==
    LET all == Range(out) \cup Range(err)
        said == Range(err)
        tries == << [if |-> "actor error" \in all, then |-> MendActor(cmd)],
                    [if |-> "header error" \in said, then |-> MendHereString(cmd)],
                    [if |-> {"atlas usage", "unknown target"} \subseteq said, then |-> MendLookup(cmd)],
                    [if |-> "newline error" \in said, then |-> MendReadText(cmd)],
                    [if |-> "no tiny3d" \in said, then |-> MendPath(cmd)],
                    [if |-> "parser error" \in all, then |-> MendQuotes(cmd)] >>
        useful == {i \in DOMAIN tries : tries[i].if /\ tries[i].then # cmd}
    IN IF useful = {} THEN cmd ELSE tries[CHOOSE i \in useful : \A j \in useful : i <= j].then

\* The repaired command is rewritten as a submitted one is: $PID is renamed where no
\* quotes hide it any more.
Normalized(cmd) == IF "c quotes" \in cmd THEN cmd ELSE cmd \ {"hidden write"}
Passes(cmd) == cmd \cap Refused = {}

(***************************************************************************)
(* What is told of an end                                                  *)
(***************************************************************************)
ExecutionOutcome(o) ==
    IF o.error # "no" THEN "error" ELSE IF o.signal THEN "signaled"
    ELSE IF o.code = 0 THEN "success" ELSE "nonzero_exit"

ParserOrigin(cmd, reason, out, err) ==
    LET all == Range(out) \cup Range(err)
        said == Range(err)
        own == CASE reason = "powershell script" -> "create error" \in all
                 [] reason = "python script"     -> "stdin error" \in all
                 [] reason = "node script"       -> "eval error" \in all
                 [] reason = "bash script"       -> "shell error" \in said
                 [] OTHER                        -> FALSE
    IN IF own THEN reason
       ELSE IF "python -c" \in cmd /\ "string error" \in said THEN "python"
       ELSE IF "node -e" \in cmd /\ "eval error" \in said THEN "node"
       ELSE IF reason = "powershell" /\ "parser error" \in said THEN "powershell" ELSE "none"

CliOrigin(cmd, said) ==
    IF "busy usage" \in said /\ "busy tool" \in cmd THEN "busy_cli"
    ELSE IF "atlas usage" \in said /\ cmd \cap {"lookup", "find"} # {} THEN "stack_atlas_cli"
    ELSE IF "route usage" \in said /\ "route" \in cmd THEN "swarm_route_cli" ELSE "none"

NoDiagnosis == [kind |-> "none"]
\* The code of a parser error is looked for on stderr alone.
FailureCode(origin, err) ==
    (CASE origin \in {"powershell", "powershell script"} -> {"parser error", "create error"}
       [] origin \in {"python", "python script"}         -> {"stdin error", "string error"}
       [] origin \in {"node", "node script"}             -> {"eval error"}
       [] OTHER                                          -> {"shell error"}) \cap Range(err)

FailureDiagnostic(cmd, reason, out, err, o) ==
    LET parser == ParserOrigin(cmd, reason, out, err)
        cli == CliOrigin(cmd, Range(out) \cup Range(err)) IN
    IF o.error = "no" /\ o.code = 0 THEN NoDiagnosis
    ELSE IF o.error \notin {"no", "uncoded"} THEN [kind |-> "spawn_error", code |-> o.error]
    ELSE IF parser # "none"
      THEN [kind |-> "parser_error", origin |-> parser, code |-> FailureCode(parser, err),
            action |-> IF parser = "powershell script" /\ "heredoc" \in cmd
                       THEN "use_structured_python_script" ELSE "fix_source"]
    ELSE IF cli # "none"
      THEN [kind |-> "cli_usage", origin |-> cli,
            action |-> IF reason = "argv" THEN "fix_argv_contract" ELSE "use_structured_executable_args"]
    ELSE NoDiagnosis

\* Of a process that ended: the hashes are taken when somebody asks first.
Digested == [s \in Stream |-> IF digest[s] = NoDigest THEN hashed[s] ELSE digest[s]]
CompleteAudit(o) ==
    [chars |-> counted, sha |-> Digested, completeness |-> "complete", result |-> ExecutionOutcome(o)]
\* Of a receipt that has no audit, written by an earlier version.
OutputAudit(text, truncated, o) ==
    [chars |-> [s \in Stream |-> Len(text[s])], sha |-> text,
     completeness |-> IF truncated["stdout"] \/ truncated["stderr"] THEN "bounded" ELSE "complete",
     result |-> ExecutionOutcome(o)]

Reported(cmd) == cmd \ Beyond
ResponseState(running) ==
    IF running THEN [state |-> "RUNNING", next |-> "READ_SAME_PROCESS_ID"]
    ELSE [state |-> "COMPLETED", next |-> "STOP_READING"]

\* read, and formatReceipt, for a caller that takes all at once.
Told ==
    LET text == [s \in Stream |-> CaptureTail(capture[s], MaxCapture)] IN
    [response |-> ResponseState(phase # "ended"), command |-> Reported(command),
     submitted |-> Reported(submitted), attempts |-> attempts, output |-> text, outcome |-> outcome,
     audit |-> CompleteAudit(outcome),
     diagnosis |-> FailureDiagnostic(command, job.reason, Text(capture["stdout"]), Text(capture["stderr"]), outcome)]

ToldOfReceipt(r) ==
    [response |-> ResponseState(FALSE), command |-> r.command, submitted |-> r.submitted,
     attempts |-> r.attempts, output |-> r.output, outcome |-> r.outcome,
     audit |-> IF r.schema = "v1" THEN r.audit
               ELSE OutputAudit([s \in Stream |-> r.output[s].text],
                                [s \in Stream |-> r.output[s].truncated], r.outcome),
     diagnosis |-> FailureDiagnostic(r.command, job.reason, r.output["stdout"].text,
                                     r.output["stderr"].text, r.outcome)]

(***************************************************************************)
(* Steps                                                                   *)
(***************************************************************************)
EvidenceInit ==
    /\ job \in Jobs /\ command = job.command /\ submitted = job.submitted
    /\ phase = "running" /\ resetting = FALSE /\ asked = FALSE /\ outcome = Pending
    /\ capture = Both(EmptyCapture) /\ counted = Both(0) /\ hashed = Both(<<>>)
    /\ digest = Both(NoDigest) /\ attempts = <<>> /\ receipt = NoReceipt
    /\ written = Both(<<>>) /\ first = [command |-> job.command, asked |-> FALSE, written |-> Both(<<>>)]
    /\ spoiled = FALSE

Attempt == <<job, command, submitted, attempts>>
Ended == phase = "ended"

Output(s, text) ==
    /\ ~Ended /\ ~resetting
    /\ Len(written["stdout"]) + Len(written["stderr"]) + Len(text) <= MaxOutput
    /\ capture' = [capture EXCEPT ![s] = Appended(@, text)]
    /\ counted' = [counted EXCEPT ![s] = @ + Len(text)]
    /\ hashed' = [hashed EXCEPT ![s] = @ \o text]
    /\ written' = [written EXCEPT ![s] = @ \o text]
    /\ UNCHANGED <<Attempt, phase, resetting, asked, outcome, digest, receipt, first, spoiled>>

AskToStop ==
    /\ ~Ended /\ ~asked /\ asked' = TRUE
    /\ UNCHANGED <<Attempt, phase, resetting, outcome, capture, counted, hashed, digest, receipt,
                   written, first, spoiled>>

\* observeTerminal; the text of the receipt is made before anything else runs.
ReceiptOf(schema, o) ==
    [schema |-> schema, command |-> Reported(command), submitted |-> Reported(submitted),
     attempts |-> attempts, outcome |-> o, audit |-> CompleteAudit(o),
     output |-> [s \in Stream |-> CaptureTail(capture[s], MaxCapture)]]
Terminal(o) ==
    /\ phase' = "ended" /\ outcome' = o
    /\ digest' = Digested /\ receipt' = ReceiptOf("v1", o)
    /\ UNCHANGED <<Attempt, asked, capture, counted, hashed, written, first>>

Repaired ==
    RuntimeRepair(command, Text(capture["stdout"]), Text(capture["stderr"]))
MayRepair(o) ==
    /\ o.code # 0 /\ ~o.signal /\ ~asked /\ job.allowed /\ Len(attempts) = 0
    /\ Repaired # command /\ Passes(Normalized(Repaired))

TryRuntimeRepair(o) ==
    /\ MayRepair(o)
    /\ attempts' = Append(attempts,
           [command |-> Reported(command), code |-> o.code,
            output |-> [s \in Stream |-> LastOf(Text(capture[s]), MaxCapture)]])
    /\ submitted' = IF submitted = NoCommand THEN command ELSE submitted
    /\ command' = Normalized(Repaired)
    /\ capture' = Both(EmptyCapture) /\ resetting' = TRUE
    /\ first' = [command |-> command, asked |-> asked, written |-> written]
    /\ written' = Both(<<>>)
    /\ UNCHANGED <<job, phase, asked, outcome, counted, hashed, digest, receipt, spoiled>>

Exit(code, signal) ==
    LET o == [code |-> code, signal |-> signal, error |-> "no"] IN
    /\ ~Ended /\ ~resetting
    /\ \/ TryRuntimeRepair(o)
       \/ ~MayRepair(o) /\ Terminal(o) /\ UNCHANGED <<resetting, spoiled>>

\* The launch fails, or the launch worker, with which a second attempt ends before it began.
Error(code) ==
    /\ ~Ended
    /\ Terminal([code |-> 0 - 1, signal |-> FALSE, error |-> code])
    /\ UNCHANGED resetting /\ spoiled' = resetting

\* Mutant of Emptied: the hashes go on from the attempt before.
EmptiedButHashes ==
    /\ counted' = Both(0) /\ digest' = Both(NoDigest)
    /\ UNCHANGED hashed

Emptied ==
    /\ counted' = Both(0) /\ digest' = Both(NoDigest)
    /\ hashed' = Both(<<>>)
ResetOutputSpools ==
    /\ resetting /\ resetting' = FALSE
    /\ Emptied
    /\ UNCHANGED <<Attempt, phase, asked, outcome, capture, receipt, written, first, spoiled>>
ResetFails ==
    /\ resetting /\ resetting' = FALSE /\ ~Ended
    /\ Terminal([code |-> 0 - 1, signal |-> FALSE, error |-> "uncoded"])
    /\ spoiled' = TRUE

ReadEnded ==
    /\ Ended /\ digest' = Digested
    /\ UNCHANGED <<Attempt, phase, resetting, asked, outcome, capture, counted, hashed, receipt,
                   written, first, spoiled>>

\* The receipt is one of an earlier version.
OldReceipt ==
    /\ receipt.schema = "v1" /\ receipt' = [receipt EXCEPT !.schema = "old"]
    /\ UNCHANGED <<Attempt, phase, resetting, asked, outcome, capture, counted, hashed, digest,
                   written, first, spoiled>>

EvidenceNext ==
    \/ \E s \in Stream, a, b \in job.marks : Output(s, <<a>>) \/ Output(s, <<a, b>>)
    \/ AskToStop
    \/ \E code \in {0, 1}, signal \in BOOLEAN : Exit(code, signal)
    \/ \E code \in {"ENOENT", "uncoded"} : Error(code)
    \/ ResetOutputSpools \/ ResetFails \/ ReadEnded \/ OldReceipt
EvidenceSpec == EvidenceInit /\ [][EvidenceNext]_evidenceVars

(***************************************************************************)
(* Properties                                                              *)
(***************************************************************************)
ComplaintOf(feature) ==
    CASE feature \in {"quoted actor", "bare actor", "assigned actor"} -> {"actor error"}
      [] feature \in {"here single", "here double"} -> {"header error"}
      [] feature \in {"lookup"} -> {"atlas usage", "unknown target"}
      [] feature = "newline argument" -> {"newline error"}
      [] feature \in {"c quotes", "hidden write", "hidden wait"} -> {"parser error"}
      [] OTHER -> {"nothing"}

\* A command is repaired once at most, never after somebody asked to stop it; what is
\* changed is what its output complained of, the rest is run again as it was, the policy
\* passes it, and the first attempt's command, output and exit code are kept
\* (tryRuntimeRepair).
RepairIsSound ==
    attempts # <<>> =>
        /\ Len(attempts) = 1 /\ ~first.asked /\ attempts[1].code # 0
        /\ attempts[1].command = Reported(first.command)
        /\ \A s \in Stream : attempts[1].output[s] = LastOf(first.written[s], MaxCapture)
        /\ submitted # NoCommand /\ Passes(command)
        /\ \A f \in first.command \ command :
              ComplaintOf(f) \subseteq UNION {Range(first.written[s]) : s \in Stream}
        /\ command \ first.command \subseteq {"find", "python path"}

\* The audit of a process that has ended is that of the attempt it ended with: counters
\* and hashes have all its output and nothing of the attempt before; what is shown is the
\* end of it, and says so when there was more (completeProcessAudit, BoundedCapture).
AuditIsTrue ==
    Ended /\ ~spoiled =>
        \A s \in Stream :
            /\ Told.audit.chars[s] = Len(written[s]) /\ Told.audit.sha[s] = written[s]
            /\ Told.output[s].text = LastOf(written[s], MaxCapture)
            /\ Len(written[s]) > MaxCapture => Told.output[s].truncated

\* The receipt tells what the process told, diagnosis included, also one without an audit
\* as long as its text is whole; unless the diagnosis needs the part of a command that is
\* too long for the receipt (formatReceipt).
ReceiptTellsTheSame ==
    Ended /\ ~spoiled /\ command \cap Beyond = {} =>
        LET whole == \A s \in Stream : ~receipt.output[s].truncated IN
        receipt.schema = "v1" \/ whole => ToldOfReceipt(receipt) = Told

\* A diagnosis is made of failures only, and blames a parser only if it was run.
DiagnosisIsOfWhatRan ==
    Ended /\ Told.diagnosis # NoDiagnosis =>
        /\ outcome.error # "no" \/ outcome.code # 0
        /\ Told.diagnosis.kind = "parser_error" =>
              Told.diagnosis.origin \in {job.reason} \cup (IF "python -c" \in command THEN {"python"} ELSE {})
                                                    \cup (IF "node -e" \in command THEN {"node"} ELSE {})

EvidenceIsTrue == RepairIsSound /\ AuditIsTrue /\ ReceiptTellsTheSame /\ DiagnosisIsOfWhatRan
=============================================================================
