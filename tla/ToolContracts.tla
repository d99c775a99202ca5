---------------------------- MODULE ToolContracts ----------------------------
(***************************************************************************)
(* What the tools of a server (src/server.ts) take and what they answer,   *)
(* as fields: one call, from its input to the answer its client gets, at   *)
(* this server or through it at the server of OMEN.  The schemas of the    *)
(* answers are strict: an answer with a field or a value that its schema   *)
(* does not know is refused after its process was started, read or killed. *)
(*                                                                         *)
(* An answer is a function from its fields to what kind of value each      *)
(* holds, or to the fields of an object.  An id is a sequence:             *)
(* remoteProcessId puts "omen" before it.                                  *)
(***************************************************************************)
EXTENDS Naturals, Sequences, FiniteSets

CONSTANTS Deployment, \* environments: native, proxy, ssh, windows, default, identity
          MaxOptional \* bound: optional facts of a process, unless it has them all

VARIABLES deployment, \* of this server
          request,    \* where it is, the tool, the id, the fields given, the target
          stage,      \* of the call
          answer,     \* its fields, and the id in it
          holder      \* ghost: the server and the id there that the answer is about

contractVars == <<deployment, request, stage, answer, holder>>

ContractAssumption ==
    Deployment \subseteq [native : BOOLEAN, proxy : BOOLEAN, ssh : BOOLEAN, windows : BOOLEAN,
        default : {"local", "omen"}, identity : SUBSET {"backend_generation", "source_commit"}]

\* Of the same names and meaning in TLC, where the provers cannot expand them.
f @@ g == [x \in DOMAIN f \cup DOMAIN g |-> IF x \in DOMAIN f THEN f[x] ELSE g[x]]
x :> y == [z \in {x} |-> y]

(***************************************************************************)
(* Inputs                                                                  *)
(***************************************************************************)
StartFields == {"executable", "args", "stdin", "env", "script", "language",
    "working_directory", "wait_ms", "activity_target", "action_class"}
RoomFields == {"conversation_id", "message_id", "expected_room_head"}
ReadFields == {"max_chars", "wait_ms", "stdin", "has_attachments"} \cup RoomFields

Bootstrap == <<"bootstrap">>

\* A program with its arguments, or a script with its language.
StartAccepts(given) ==
    /\ given \subseteq StartFields
    /\ ("executable" \in given) # ("script" \in given)
    /\ given \cap {"args", "stdin"} # {} => "executable" \in given
    /\ ("script" \in given) = ("language" \in given)

ReadAccepts(id, given) ==
    /\ given \subseteq ReadFields /\ id # <<>>
    /\ ("conversation_id" \in given) = ("expected_room_head" \in given)
    /\ given \cap (RoomFields \cup {"stdin", "has_attachments"}) # {} => id = Bootstrap

\* z.object without strict leaves out what it does not know.
Accepts(r) ==
    CASE r.tool = "start_process" -> StartAccepts(r.given)
      [] r.tool = "read_output"   -> ReadAccepts(r.id, r.given)
      [] r.tool = "kill_process"  -> r.id # <<>>

(***************************************************************************)
(* Schemas of answers                                                      *)
(***************************************************************************)
TextFields == {"caller_id", "execution_caller_id", "process_id", "cwd", "action_class",
    "execution_reason", "command", "submitted_command", "stdout", "stderr", "started_at",
    "error", "error_code", "request_id", "stdout_sha256", "stderr_sha256", "generated_at"}
NatFields == {"elapsed_ms", "pid", "stdout_dropped_from_start", "stderr_dropped_from_start",
    "retained_chars", "retained_bytes"}
TrueFields == {"launching", "command_truncated", "submitted_command_truncated", "no_change",
    "stdout_truncated", "stderr_truncated", "snapshot_alias", "bootstrap_alias"}

processServingIdentitySchema ==
    [fields |-> [tool_contract_version |-> {"process-tools.v4"}, backend_generation |-> {"text"},
                 source_commit |-> {"commit"}],
     required |-> {"tool_contract_version"}]

failureDiagnosticSchema ==
    [fields |->
        [kind |-> {"parser_error", "cli_usage", "spawn_error"},
         origin |-> {"language", "cli", "process"},
         boundary |-> {"source", "legacy_command", "argv_contract", "spawn"}, code |-> {"token"},
         retry_without_change |-> {"false"}, retry_requires_change |-> {"true"},
         suggested_action |-> {"fix_source", "use_structured_python_script",
            "use_structured_executable_args", "fix_argv_contract", "fix_executable_or_path",
            "inspect_process_error"},
         input_target |-> {"script", "executable"}],
     required |-> {"kind", "origin", "boundary", "retry_without_change", "retry_requires_change",
        "suggested_action"}]

PageEnds == {"stdout_start", "stdout_end", "stdout_total", "stderr_start", "stderr_end",
    "stderr_total", "page_chars"}
outputPageSchema ==
    [fields |-> [f \in PageEnds |-> {"nat"}]
        @@ [page_limit |-> {"positive"}, more |-> {"true", "false"}],
     required |-> PageEnds \cup {"page_limit", "more"}]

snapshotFreshnessSchema ==
    LET fields == [status |-> {"FRESH", "STALE"}, as_of |-> {"text"}, age_seconds |-> {"nat"},
            stale_after_seconds |-> {"nat"},
            read_mode |-> {"MATERIALIZED_ONLY", "V3_ROOM_BOUND_READ"}] IN
    [fields |-> fields, required |-> DOMAIN fields]

\* The fields that hold an object, with the schema of each.
Objects ==
    [serving_identity |-> processServingIdentitySchema,
     execution_serving_identity |-> processServingIdentitySchema,
     failure_diagnostic |-> failureDiagnosticSchema,
     output_page |-> outputPageSchema,
     freshness |-> snapshotFreshnessSchema]

\* Where a call was executed, and what both kinds of answer say of it.
ServedFields ==
    [caller_id |-> {"text"}, execution_caller_id |-> {"text"}, process_id |-> {"text"},
     serving_identity |-> {}, execution_serving_identity |-> {},
     execution_target |-> {"local", "omen"}, execution_transport |-> {"native-mcp", "ssh-adapter"},
     running |-> {"true", "false"}, exit_code |-> {"int", "null"}, signal |-> {"text", "null"}]

processOutputSchema ==
    [fields |->
        ServedFields
        @@ [f \in TextFields |-> {"text"}] @@ [f \in NatFields |-> {"nat"}]
        @@ [f \in TrueFields |-> {"true"}] @@ [f \in DOMAIN Objects |-> {}]
        @@ [mcp_status |-> {"OK", "STALE"}, process_state |-> {"RUNNING", "COMPLETED", "SNAPSHOT"},
            next_action |-> {"READ_SAME_PROCESS_ID", "STOP_READING"},
            activity_target |-> {"target"}, repair_attempts |-> {"attempts"},
            execution_mode |-> {"planned"}, finished_at |-> {"text", "null"},
            audit_schema |-> {"process-output-evidence.v1"},
            evidence_completeness |-> {"complete", "bounded"},
            execution_outcome |-> {"success", "nonzero_exit", "signaled", "error", "unknown"}],
     required |-> {"caller_id", "serving_identity", "mcp_status", "process_state", "elapsed_ms",
        "next_action", "process_id", "running"}]

killProcessOutputSchema ==
    [fields |->
        ServedFields
        @@ [pid |-> {"nat"}, killed |-> {"true", "false"}, already_exited |-> {"true"},
            kill_requested |-> {"true"}, kill_timed_out |-> {"true"}, error |-> {"text"}],
     required |-> {"caller_id", "serving_identity", "process_id", "pid", "killed"}]

OutputSchema(tool) ==
    IF tool = "kill_process" THEN killProcessOutputSchema ELSE processOutputSchema

HasShape(fields, schema) ==
    /\ schema.required \subseteq DOMAIN fields
    /\ DOMAIN fields \subseteq DOMAIN schema.fields
HasValues(fields, schema, S) == \A f \in S : fields[f] \in schema.fields[f]

Fits(fields, schema) ==
    /\ HasShape(fields, schema)
    /\ HasValues(fields, schema, DOMAIN fields \ DOMAIN Objects)
    /\ \A f \in DOMAIN fields \cap DOMAIN Objects :
          HasShape(fields[f], Objects[f]) /\ HasValues(fields[f], Objects[f], DOMAIN fields[f])

(***************************************************************************)
(* Answers about a process.  A process runs or has ended; a set of         *)
(* optional facts is known of it.                                          *)
(***************************************************************************)
Always == {"activity_target", "action_class", "execution_mode", "execution_reason",
    "submitted_command", "command_truncated", "stdout_truncated", "repair_attempts",
    "structured"}
OnceEnded == {"signal", "error", "error_code", "parser_error", "cli_usage", "request_id"}

Process ==
    { p \in [state : {"launching", "running", "ended"}, has : SUBSET (Always \cup OnceEnded)] :
        /\ p.state # "ended" => p.has \subseteq Always
        /\ "error_code" \in p.has => "error" \in p.has
        /\ "structured" \in p.has => "execution_reason" \in p.has
        /\ \/ Cardinality(p.has \ {"execution_reason"}) <= MaxOptional
           \/ p.has = IF p.state = "ended" THEN Always \cup OnceEnded ELSE Always }

Texts(S) == [f \in S |-> "text"]
Bool(b) == IF b THEN "true" ELSE "false"
Given(p, f, v) == IF f \in p.has THEN f :> v ELSE <<>>

ProcessResponseState(running) ==
    [mcp_status |-> "OK", process_state |-> IF running THEN "RUNNING" ELSE "COMPLETED",
     elapsed_ms |-> "nat", next_action |-> IF running THEN "READ_SAME_PROCESS_ID" ELSE "STOP_READING"]

Identified(running) == [process_id |-> "text", pid |-> "nat", running |-> Bool(running)]
\* Mutant of Launching: the field says whether it is launching.
LaunchingOrNot(p) == "launching" :> Bool(p.state = "launching")

Launching(p) == IF p.state = "launching" THEN "launching" :> "true" ELSE <<>>

\* What startPrepared returns, and a read of a process that said nothing in time.
StartResult(p) ==
    ProcessResponseState(TRUE) @@ Identified(TRUE) @@ Texts({"cwd"}) @@ Launching(p)
NoChange(p) ==
    ProcessResponseState(TRUE) @@ Identified(TRUE) @@ Launching(p)
    @@ Texts({"stdout", "stderr"}) @@ ("no_change" :> "true")

\* exitCode is -1 where there was none (code ?? -1), so it is never null here.
Audit(p) ==
    Texts({"stdout_sha256", "stderr_sha256"} \cup (p.has \cap {"request_id"}))
    @@ [retained_chars |-> "nat", retained_bytes |-> "nat",
        audit_schema |-> "process-output-evidence.v1", evidence_completeness |-> "complete",
        execution_outcome |->
            IF "error" \in p.has THEN "error" ELSE IF "signal" \in p.has THEN "signaled" ELSE "success"]

\* What processFailureDiagnostic says: the spawn failed with a code, the source was
\* refused by its language, or the usage of a command line was printed.  (A heredoc
\* that PowerShell refused is told of as other sources are.)
Diagnosed(p) == p.has \cap {"error_code", "parser_error", "cli_usage"} # {}
Diagnostic(p) ==
    LET structured == "structured" \in p.has IN
    [retry_without_change |-> "false", retry_requires_change |-> "true"]
    @@ CASE "error_code" \in p.has ->
              [kind |-> "spawn_error", origin |-> "process", boundary |-> "spawn", code |-> "token",
               suggested_action |-> "inspect_process_error"]
         [] "error_code" \notin p.has /\ "parser_error" \in p.has ->
              [kind |-> "parser_error", origin |-> "language", code |-> "token",
               boundary |-> IF structured THEN "source" ELSE "legacy_command",
               suggested_action |-> "fix_source"]
         [] OTHER ->
              [kind |-> "cli_usage", origin |-> "cli",
               boundary |-> IF structured THEN "argv_contract" ELSE "legacy_command",
               suggested_action |->
                   IF structured THEN "fix_argv_contract" ELSE "use_structured_executable_args"]
              @@ (IF structured THEN <<>> ELSE "input_target" :> "executable")

\* What an answer about the process itself and one about its receipt both say of it.
Told(p) ==
    ProcessResponseState(p.state # "ended") @@ Identified(p.state # "ended")
    @@ Texts({"command", "cwd", "stdout", "stderr", "started_at"}
        \cup (p.has \cap {"action_class", "execution_reason", "submitted_command", "error", "error_code"}))
    @@ Given(p, "activity_target", "target") @@ Given(p, "execution_mode", "planned")
    @@ Given(p, "command_truncated", "true") @@ Given(p, "repair_attempts", "attempts")
    @@ (IF Diagnosed(p) THEN "failure_diagnostic" :> Diagnostic(p) ELSE <<>>)
    @@ (IF p.state = "ended" THEN Audit(p) ELSE <<>>)
    @@ [signal |-> IF "signal" \in p.has THEN "text" ELSE "null",
        exit_code |-> IF p.state = "ended" THEN "int" ELSE "null",
        finished_at |-> IF p.state = "ended" THEN "text" ELSE "null"]

Read(p) ==
    Told(p) @@ Launching(p) @@ Given(p, "stdout_truncated", "true")
    @@ (IF "stdout_truncated" \in p.has THEN "stdout_dropped_from_start" :> "nat" ELSE <<>>)

Without(v, S) == [f \in DOMAIN v \ S |-> v[f]]
Truncations == {"stdout_truncated", "stderr_truncated", "stdout_dropped_from_start",
    "stderr_dropped_from_start"}

\* A page of the spools instead of the tail of what was captured; more may follow.
PageSpoolOutput(v, more) ==
    [next_action |-> IF more \/ v.running = "true" THEN "READ_SAME_PROCESS_ID" ELSE "STOP_READING",
     output_page |-> [f \in PageEnds |-> "nat"] @@ [page_limit |-> "positive", more |-> Bool(more)]]
    @@ Without(v, Truncations)

\* The receipt of an ended process, whole from its spools or cut.
FormatReceipt(p) ==
    {Told(p)} \cup (IF "stdout_truncated" \in p.has THEN {Told(p) @@ ("stdout_truncated" :> "true")} ELSE {})

ReadAnswers(p) ==
    LET whole == {Read(p)} \cup (IF p.state = "ended" THEN FormatReceipt(p) ELSE {}) IN
    { PageSpoolOutput(v, more) : v \in whole, more \in BOOLEAN }
    \cup (IF p.state = "ended" THEN whole ELSE {NoChange(p)})

\* startStructuredWithWait: at once, or after the wait for its end.
StartAnswers(p) ==
    ReadAnswers(p) \cup (IF p.state = "ended" THEN {} ELSE {StartResult(p)})

KillAnswers(p) ==
    LET killed == [process_id |-> "text", pid |-> "nat", killed |-> "true"]
        not == [killed EXCEPT !.killed = "false"] IN
    IF p.state = "ended"
    THEN { not @@ [already_exited |-> "true", exit_code |-> "int"],
           killed @@ [running |-> "false", exit_code |-> "int",
                      signal |-> IF "signal" \in p.has THEN "text" ELSE "null"] }
    ELSE { not @@ [kill_requested |-> "true", running |-> "true", kill_timed_out |-> "true",
                   error |-> "text"] }

\* A document, whole or a page of it.
Snapshot(timeline, stale, mode) ==
    [mcp_status |-> IF stale THEN "STALE" ELSE "OK", process_state |-> "SNAPSHOT",
     process_id |-> "text", running |-> "false", generated_at |-> "text",
     freshness |-> [status |-> IF stale THEN "STALE" ELSE "FRESH", as_of |-> "text",
        age_seconds |-> "nat", stale_after_seconds |-> "nat", read_mode |-> mode],
     snapshot_alias |-> "true", elapsed_ms |-> "nat",
     next_action |-> "STOP_READING", stdout |-> "text", stderr |-> "text"]
    @@ (IF timeline THEN <<>> ELSE "bootstrap_alias" :> "true")

SnapshotAnswers(timeline) ==
    LET modes == {"MATERIALIZED_ONLY"} \cup (IF timeline THEN {} ELSE {"V3_ROOM_BOUND_READ"})
        documents == { Snapshot(timeline, stale, mode) : stale \in BOOLEAN, mode \in modes } IN
    documents \cup { PageSpoolOutput(v, more) : v \in documents, more \in BOOLEAN }

publicBootstrapAliasOutput(v) ==
    [bootstrap_alias |-> "true", process_id |-> "text"]
    @@ Without(v, {"command", "submitted_command", "cwd"})

(***************************************************************************)
(* One call                                                                *)
(***************************************************************************)
ContractInit ==
    /\ deployment \in Deployment
    /\ request = [at |-> "here", tool |-> "none", id |-> <<>>, given |-> {}, target |-> "none"]
    /\ stage = "idle" /\ answer = [id |-> <<>>, fields |-> <<>>]
    /\ holder = [at |-> "here", id |-> <<>>]

\* A process or document here, at OMEN, or of OMEN as this server calls it.
Ids == {<<"p">>, Bootstrap, <<"timeline">>, <<"omen", "p">>, <<"omen", "bootstrap">>}

Ask(r) ==
    /\ stage = "idle"
    /\ request' = r
    /\ stage' = IF Accepts(r) THEN "accepted" ELSE "refused"
    /\ UNCHANGED <<deployment, answer, holder>>

Asks ==
    \/ \E given \in SUBSET (StartFields \cup {"unknown"}), t \in {"none", "local", "omen"} :
         Ask([at |-> "here", tool |-> "start_process", id |-> <<>>, given |-> given, target |-> t])
    \/ \E id \in Ids, given \in SUBSET (ReadFields \cup {"unknown"}) :
         Ask([at |-> "here", tool |-> "read_output", id |-> id, given |-> given, target |-> "none"])
    \/ \E id \in Ids :
         Ask([at |-> "here", tool |-> "kill_process", id |-> id, given |-> {}, target |-> "none"])

\* The server of OMEN has MCP_NATIVE_OMEN_HOST and no proxy.
AtOmen == [native |-> TRUE, proxy |-> FALSE, ssh |-> FALSE, windows |-> FALSE, default |-> "local",
    identity |-> {"backend_generation", "source_commit"}]
Here == IF request.at = "here" THEN deployment ELSE AtOmen

Starts == request.tool = "start_process"
Target == IF request.target = "none" THEN Here.default ELSE request.target
IsRemote(id) == id # <<>> /\ Head(id) = "omen"

ToOmen ==
    IF Starts THEN Target = "omen" /\ ~Here.native /\ Here.proxy ELSE IsRemote(request.id)

\* What is asked of the server of OMEN.
ForwardedFields ==
    CASE Starts ->
           (IF "executable" \in request.given
            THEN {"executable", "args"} \cup (request.given \cap {"stdin", "env"})
            ELSE {"script", "language"} \cup (request.given \cap {"env"}))
           \cup (request.given \cap {"working_directory", "wait_ms", "activity_target", "action_class"})
      [] request.tool = "read_output" -> {"max_chars"} \cup (request.given \cap {"wait_ms"})
      [] OTHER -> {}

Forwarded ==
    [request EXCEPT !.at = "omen", !.given = ForwardedFields,
        !.target = IF Starts THEN "omen" ELSE "none",
        !.id = IF Starts THEN <<>> ELSE Tail(request.id)]

Forward ==
    /\ stage = "accepted" /\ request.at = "here" /\ ToOmen /\ Here.proxy
    /\ request' = Forwarded
    /\ stage' = IF Accepts(Forwarded) THEN "accepted" ELSE "lost"
    /\ UNCHANGED <<deployment, answer, holder>>

\* Where the process is started: by this server, or with the adapter for SSH.
Adapter == Starts /\ Target = "omen" /\ ~Here.native /\ ~Here.proxy
Refuses ==
    \/ Starts /\ Target = "omen" /\ Here.native /\ Here.windows
    \/ Adapter /\ (~Here.ssh \/ "executable" \notin request.given \/ request.given \cap {"stdin", "env"} # {})
    \/ ~Starts /\ IsRemote(request.id) /\ ~Here.proxy

\* A tool throws; the client gets an error, nothing was started.
Throw ==
    /\ stage = "accepted" /\ Refuses
    /\ stage' = "failed"
    /\ UNCHANGED <<deployment, request, answer, holder>>

\* The fields that start_process adds for a target that is not local.
Executed(v) ==
    IF Target # "omen" THEN v
    ELSE [execution_target |-> "omen",
          execution_transport |-> IF Here.native THEN "native-mcp" ELSE "ssh-adapter"] @@ v

Answers(fields, id) ==
    /\ answer' = [id |-> id, fields |-> fields]
    /\ holder' = [at |-> request.at, id |-> id]
    /\ stage' = "answered"
    /\ request' = [request EXCEPT !.given = {}, !.target = "none"]
    /\ UNCHANGED deployment

\* The tool calls the process manager or the documents, with what it was given: what
\* comes of it does not depend on that any more, but for the stdin of `bootstrap`.
Enter ==
    /\ stage = "accepted" /\ ~ToOmen /\ ~Refuses
    /\ stage' = "entered"
    /\ request' = [request EXCEPT !.target = Target,
            !.given = IF request.tool = "read_output" THEN @ \cap {"stdin"} ELSE {}]
    /\ UNCHANGED <<deployment, answer, holder>>

Start ==
    /\ stage = "entered" /\ Starts
    /\ \E p \in Process : \E v \in StartAnswers(p) : Answers(Executed(v), <<"p">>)

ReadOutput ==
    /\ stage = "entered" /\ request.tool = "read_output"
    /\ \/ /\ request.id = <<"p">>
          /\ \E p \in Process : \E v \in ReadAnswers(p) : Answers(v, request.id)
       \/ /\ request.id = Bootstrap
          /\ \E p \in Process : \E v \in StartAnswers(p) :
               Answers(publicBootstrapAliasOutput(v), Bootstrap)
       \/ /\ request.id \in {Bootstrap, <<"timeline">>} /\ "stdin" \notin request.given
          /\ \E v \in SnapshotAnswers(request.id = <<"timeline">>) : Answers(v, request.id)

Kill ==
    /\ stage = "entered" /\ request.tool = "kill_process" /\ request.id = <<"p">>
    /\ \E p \in Process : \E v \in KillAnswers(p) : Answers(v, request.id)

\* Neither a document nor a startup process is known under its alias to kill.
KillsNothing ==
    /\ stage = "entered" /\ request.tool = "kill_process" /\ request.id # <<"p">>
    /\ stage' = "failed"
    /\ UNCHANGED <<deployment, request, answer, holder>>

\* servingIdentity of createServer: the generation and the commit where they are known.
Identity(d) ==
    [f \in {"tool_contract_version"} \cup d.identity |->
        IF f = "tool_contract_version" THEN "process-tools.v4"
        ELSE IF f = "source_commit" THEN "commit" ELSE "text"]

resultData(v) == [caller_id |-> "text", serving_identity |-> Identity(Here)] @@ v

\* The result of the tool goes through its schema.
Validate ==
    /\ stage = "answered"
    /\ \E data \in {resultData(answer.fields)} :
         /\ answer' = [answer EXCEPT !.fields = data]
         /\ stage' = IF Fits(data, OutputSchema(request.tool)) THEN "delivered" ELSE "lost"
    /\ UNCHANGED <<deployment, request, holder>>

remoteProcessResult(v) ==
    [execution_target |-> "omen", execution_transport |-> "native-mcp"]
    @@ (IF "caller_id" \in DOMAIN v THEN "execution_caller_id" :> v.caller_id ELSE <<>>)
    @@ (IF "serving_identity" \in DOMAIN v THEN "execution_serving_identity" :> v.serving_identity ELSE <<>>)
    @@ v
\* Mutant of remoteProcessId: as the server of OMEN calls it.
BareProcessId(id) == id
remoteProcessId(id) == <<"omen">> \o id

Relay ==
    /\ stage = "delivered" /\ request.at = "omen"
    /\ answer' = [id |-> remoteProcessId(answer.id), fields |-> remoteProcessResult(answer.fields)]
    /\ request' = [request EXCEPT !.at = "here"]
    /\ stage' = "answered"
    /\ UNCHANGED <<deployment, holder>>

ContractNext ==
    Asks \/ Forward \/ Throw \/ Enter \/ Start \/ ReadOutput \/ Kill \/ KillsNothing \/ Validate \/ Relay
ContractSpec == ContractInit /\ [][ContractNext]_contractVars

(***************************************************************************)
(* Properties                                                              *)
(***************************************************************************)
ContractTypes ==
    /\ deployment \in Deployment
    /\ request.at \in {"here", "omen"}
    /\ stage \in {"idle", "accepted", "entered", "refused", "failed", "answered", "delivered", "lost"}

\* What reads and kills of an id lead to, from this server.
LeadsTo(id) ==
    IF IsRemote(id) THEN [at |-> "omen", id |-> Tail(id)] ELSE [at |-> "here", id |-> id]

\* No call is lost once it was accepted: what is forwarded to OMEN is an input its server
\* takes, every answer that any step of the way makes of a process, of its receipt, of a
\* kill or of a document fits the strict schema of its tool at both servers, an accepted
\* start knows its program or its script and language, and the id in the answer leads
\* back to what the answer is about (src/server.ts).
CallsSurviveTheirSchemas ==
    /\ stage # "lost"
    /\ (stage = "accepted" /\ Starts) =>
         ("executable" \in request.given \/ {"script", "language"} \subseteq request.given)
    /\ (stage = "delivered" /\ request.at = "here") => LeadsTo(answer.id) = holder
=============================================================================
