------------------------------- MODULE MCReading -------------------------------
(***************************************************************************)
(* Instances of Receipts, ProcessEvidence, ToolCalls and ToolContracts.  A *)
(* behaviour is about the receipt of one process, which is read at the     *)
(* server that ran it, before and after that has died, while another       *)
(* prunes too; about a command that runs, is mended and told about; about  *)
(* documents under `bootstrap`; about startup processes and the begin of a *)
(* read of a document; about clients for OMEN; or about one call, what it  *)
(* is given and what it answers, in one of five environments.              *)
(***************************************************************************)
EXTENDS Receipts, ProcessEvidence, TLC

CONSTANTS s1, s2, a, b, k1, k2, r1, r2, i1, i2, i3,
    Reads, Key, RoomBound, Documents, Limits, MaxSessions, Expiring, MaxReads,
    Calls, Caller, Serial, KeyOf, MaxProcesses, MaxClients, CacheLimit, Faults,
    Deployment, MaxOptional
VARIABLES scene,
    file, session, recency, read, begun, told,
    alias, process, owed, client, cached, toolCall,
    deployment, request, stage, answer, holder
contractVars == <<deployment, request, stage, answer, holder>>
toolVars == <<file, session, recency, read, begun, told, alias, process, owed, client, cached, toolCall>>

\* Two ranges of which the second is longer than the smaller page, one that is longer
\* than any page with text around it, and a document that was not finished.
ThreeDocuments ==
    << [length |-> 3, ranges |-> {<<0, 1>>, <<1, 3>>}, valid |-> TRUE],
       [length |-> 5, ranges |-> {<<1, 4>>}, valid |-> TRUE],
       [length |-> 2, ranges |-> {}, valid |-> FALSE] >>
OneKeyEach == [c \in {a, b} |-> IF c = a THEN k1 ELSE k2]

T == INSTANCE ToolCalls WITH seen <- told, call <- toolCall
ASSUME ToolAssumption == T!ToolAssumption

\* The server of Windows with a proxy to OMEN, with the adapter for SSH, with neither;
\* the server of OMEN; and a server of Windows that says it is that.
Environment(native, proxy, ssh, windows, default, identity) ==
    [native |-> native, proxy |-> proxy, ssh |-> ssh, windows |-> windows, default |-> default,
     identity |-> identity]
FiveEnvironments ==
    { Environment(FALSE, TRUE, FALSE, TRUE, "local", {"backend_generation"}),
      Environment(FALSE, FALSE, TRUE, TRUE, "omen", {}),
      Environment(FALSE, FALSE, FALSE, TRUE, "local", {}),
      Environment(TRUE, FALSE, FALSE, FALSE, "omen", {"backend_generation", "source_commit"}),
      Environment(TRUE, FALSE, FALSE, TRUE, "local", {}) }

\* Commands for each thing that can be mended, and two that the server does not mend.
Ran(features, reason, allowed, marks) ==
    [command |-> features, submitted |-> {"none"}, reason |-> reason, allowed |-> allowed, marks |-> marks]
MCJobs == {
    Ran({"busy tool", "quoted actor", "here single"}, "powershell", TRUE, {"actor error", "header error"}),
    Ran({"lookup"}, "native", TRUE, {"atlas usage", "unknown target"}),
    Ran({"newline argument", "tiny3d"}, "native", TRUE, {"newline error", "no tiny3d"}),
    Ran({"c quotes", "hidden write", "python -c"}, "powershell", TRUE, {"parser error", "string error"}),
    Ran({"node -e", "c quotes", "hidden wait"}, "native", TRUE, {"parser error", "eval error"}),
    Ran({"heredoc", "far"}, "powershell script", FALSE, {"create error", "parser error"}),
    Ran({"busy tool", "route"}, "argv", FALSE, {"busy usage", "route usage"})}


C == INSTANCE ToolContracts
ASSUME ContractAssumption == C!ContractAssumption

MCInit ==
    /\ Init /\ EvidenceInit /\ T!Init /\ C!ContractInit
    /\ \/ scene = "contract"
       \/ /\ scene \in {"receipts", "command", "documents", "startup", "omen"}
          /\ deployment = Environment(FALSE, TRUE, FALSE, TRUE, "local", {"backend_generation"})
    /\ scene # "command" => job = CHOOSE j \in Jobs : TRUE
MCNext ==
    /\ UNCHANGED scene
    /\ \/ scene = "receipts" /\ Next /\ UNCHANGED <<evidenceVars, toolVars, contractVars>>
       \/ scene = "command" /\ EvidenceNext /\ UNCHANGED <<vars, toolVars, contractVars>>
       \/ scene = "documents" /\ T!Documented /\ UNCHANGED <<vars, evidenceVars, contractVars>>
       \/ /\ scene = "startup" /\ UNCHANGED <<vars, evidenceVars, contractVars>>
          /\ T!Aliased \/ (begun = 0 /\ file.own = 0 /\ T!Documented)
       \/ scene = "omen" /\ T!Remote /\ UNCHANGED <<vars, evidenceVars, contractVars>>
       \/ scene = "contract" /\ C!ContractNext /\ UNCHANGED <<vars, evidenceVars, toolVars>>
MCSpec == MCInit /\ [][MCNext]_<<vars, evidenceVars, toolVars, contractVars, scene>>

\* The pages of a document join up and keep its ranges whole (SnapshotPages).
PagesJoinUp == T!PagesJoinUp /\ T!RangesStayWhole
\* The alias leads to the startup process that its reader was told to read (ToolCalls).
AliasFollowsReader == T!AliasFollowsReader
\* No client is closed under a call (ToolCalls).
ClientsOutliveCalls == T!ClientsOutliveCalls

\* No accepted call is lost to a schema on its way, and the id in its answer leads back
\* to what it is about (ToolContracts).
CallsSurviveTheirSchemas == C!CallsSurviveTheirSchemas

\* In every state the variables have their types: TLC stops where they do not.
TypesHold == Assert(TypeOK /\ T!ToolTypes /\ C!ContractTypes, "types")
=============================================================================
