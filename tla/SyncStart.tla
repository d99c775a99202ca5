------------------------------ MODULE SyncStart ------------------------------
(***************************************************************************)
(* A start call that awaits nothing (ProcessManager.start, startStructured *)
(* and startScript, all of them through startPrepared).  It has its        *)
(* server's event loop until it returns, so nothing of that server comes   *)
(* between its steps; but other servers work on the same files, and it may *)
(* fail, or its server die, after every one of them.                       *)
(*                                                                         *)
(* A slot file is known by the call that made it.  Without a directory of  *)
(* slots a server counts its own processes: left out, as are the pids of   *)
(* children in the records, which HostAdmission has.                       *)
(***************************************************************************)
EXTENDS Integers, FiniteSets

CONSTANTS
    Server, Call,
    CallerOf,
    Situations,        \* [server, identity]: which server each call asks, and which calls are one
                       \* in dedupeIdentity, cwd, target and action class
    Unfit,             \* calls that the preflight may refuse
    Searches,          \* calls that a retrieval stop concerns
    MaxLivePerCaller, MaxLiveTotal,
    Mortal             \* servers that may die

ASSUME SyncAssumption ==
    /\ IsFiniteSet(Call) /\ MaxLivePerCaller \in Nat /\ MaxLiveTotal \in Nat \ {0}
    /\ \A x \in Situations : x.server \in [Call -> Server]
    /\ "nobody" \notin Call

VARIABLES
    situation,  \* one of Situations
    up,       \* servers that run
    turn,     \* the call that has the event loop of each server
    at,       \* where each call is
    slot, attempt,   \* the slot it tries, and whether for the second time
    dir,      \* what the name of each slot refers to
    recorded, \* calls whose slot file has its record
    holds,    \* hostAdmissionSlots
    process,  \* the process of each call: "none", "live" or "ended"
    spools,   \* spool files
    note,     \* how far the rejection of each call is written
    archive,  \* what there is of it: the temporary file, the receipt
    marker    \* the marker of the retrieval stop: "none", "torn", "live", "expired"

syncVars == <<situation, up, turn, at, slot, attempt, dir, recorded, holds, process, spools,
              note, archive, marker>>

Slot == 0 .. MaxLiveTotal - 1
NoSlot == 0 - 1
NoCall == "nobody"
Stream == {"stdout", "stderr"}

SyncInit ==
    /\ situation \in Situations
    /\ up = Server /\ turn = [s \in Server |-> NoCall]
    /\ at = [c \in Call |-> "idle"]
    /\ slot = [c \in Call |-> 0] /\ attempt = [c \in Call |-> 0]
    /\ dir = [k \in Slot |-> NoCall] /\ recorded = {} /\ holds = [c \in Call |-> NoSlot]
    /\ process = [c \in Call |-> "none"] /\ spools = {}
    /\ note = [c \in Call |-> "none"] /\ archive = [c \in Call |-> {}]
    /\ marker = "none"

ServerOf == situation.server
IdentityOf == situation.identity

Files == <<dir, recorded, spools, archive, marker>>
Rejection == <<note, archive>>

\* The call goes on, in its turn ...
Goes(c, from, to) ==
    /\ ServerOf[c] \in up /\ turn[ServerOf[c]] = c /\ at[c] = from
    /\ at' = [at EXCEPT ![c] = to]
    /\ UNCHANGED <<situation, up, turn>>
\* ... or returns, or throws.
Returns(c, from, to) ==
    /\ ServerOf[c] \in up /\ turn[ServerOf[c]] = c /\ at[c] = from
    /\ at' = [at EXCEPT ![c] = to]
    /\ turn' = [turn EXCEPT ![ServerOf[c]] = NoCall]
    /\ UNCHANGED <<situation, up>>
\* Something else of the server, between two turns.
Later(c, from, to) ==
    /\ ServerOf[c] \in up /\ turn[ServerOf[c]] = NoCall /\ at[c] = from
    /\ at' = [at EXCEPT ![c] = to]
    /\ UNCHANGED <<situation, up, turn>>

(***************************************************************************)
(* What is asked before anything is made                                   *)
(***************************************************************************)
EnterVars == <<situation, up, slot, attempt, holds, process, dir, recorded, spools, archive>>
\* Nobody asked before what other servers have left as a marker.
Enter(c) ==
    /\ ServerOf[c] \in up /\ turn[ServerOf[c]] = NoCall /\ at[c] = "idle"
    /\ at' = [at EXCEPT ![c] = IF c \in Searches THEN "sweep" ELSE "check"]
    /\ turn' = [turn EXCEPT ![ServerOf[c]] = c]
    /\ marker' \in IF c \in Searches THEN {"none", "torn", "live", "expired"} ELSE {marker}
    /\ UNCHANGED <<EnterVars, note>>
\* The rejection of the preflight is written later, and not waited for.
PreflightFails(c) ==
    /\ c \in Unfit
    /\ ServerOf[c] \in up /\ turn[ServerOf[c]] = NoCall /\ at[c] = "idle"
    /\ at' = [at EXCEPT ![c] = "failed"] /\ note' = [note EXCEPT ![c] = "write"]
    /\ UNCHANGED <<EnterVars, turn, marker>>

StartVars == <<slot, attempt, holds, process, dir, recorded, spools, Rejection>>

\* pruneRetrievalStops, when it is time: what cannot be read goes as what has expired does.
SweepReads(c) ==
    /\ \/ Goes(c, "sweep", "look")
       \/ marker \in {"torn", "expired"} /\ Goes(c, "sweep", "unlink")
    /\ UNCHANGED <<StartVars, marker>>
SweepUnlinks(c) == Goes(c, "unlink", "look") /\ marker' = "none" /\ UNCHANGED StartVars

\* activeRetrievalStop
Look(c) ==
    /\ CASE marker = "live"    -> Returns(c, "look", "failed")
         [] marker = "expired" -> Goes(c, "look", "unlink expired")
         [] OTHER              -> Goes(c, "look", "check")
    /\ UNCHANGED <<StartVars, marker>>
UnlinkExpired(c) == Goes(c, "unlink expired", "check") /\ marker' = "none" /\ UNCHANGED StartVars

\* rejectConcurrency, which throws when the rejection is written.
Rejects(c, from) == Goes(c, from, "reject") /\ note' = [note EXCEPT ![c] = "write"]

LiveOf(s, caller) == {c \in Call : ServerOf[c] = s /\ CallerOf[c] = caller /\ process[c] = "live"}

\* Of the same caller: a process that does the same is its answer; else they are counted.
Check(c) ==
    LET others == LiveOf(ServerOf[c], CallerOf[c]) IN
    /\ IF \E d \in others : IdentityOf[d] = IdentityOf[c]
       THEN Returns(c, "check", "reused") /\ UNCHANGED note
       ELSE IF Cardinality(others) >= MaxLivePerCaller
       THEN Rejects(c, "check")
       ELSE /\ Goes(c, "check", "open") \/ Returns(c, "check", "failed")  \* sharedLauncherFailure
            /\ UNCHANGED note
    /\ UNCHANGED <<slot, attempt, holds, process, Files>>

(***************************************************************************)
(* The rejection: a temporary file, and its name.                          *)
(***************************************************************************)
Writes(c, from) ==
    /\ ServerOf[c] \in up /\ note[c] = from
    /\ turn[ServerOf[c]] = IF at[c] = "reject" THEN c ELSE NoCall
RejectionVars == <<situation, up, slot, attempt, dir, recorded, holds, process, spools, marker>>

WriteRejection(c) ==
    /\ Writes(c, "write")
    /\ \/ note' = [note EXCEPT ![c] = "rename"] /\ archive' = [archive EXCEPT ![c] = {"temporary"}]
       \/ note' = [note EXCEPT ![c] = "tidy"] /\ archive' \in {archive, [archive EXCEPT ![c] = {"temporary"}]}
    /\ UNCHANGED <<RejectionVars, at, turn>>
\* The directory for the rejection of a preflight cannot be made: nobody handles that,
\* and the server ends.
RejectionKills(c) ==
    /\ Writes(c, "write") /\ at[c] # "reject"
    /\ up' = up \ {ServerOf[c]}
    /\ UNCHANGED <<situation, turn, at, slot, attempt, holds, process, note, Files>>
RenameRejection(c) ==
    /\ Writes(c, "rename") /\ note' = [note EXCEPT ![c] = "tidy"]
    /\ archive' \in {archive, [archive EXCEPT ![c] = {"receipt"}]}
    /\ UNCHANGED <<RejectionVars, at, turn>>
TidyRejection(c) ==
    /\ Writes(c, "tidy") /\ note' = [note EXCEPT ![c] = "done"]
    /\ archive' = [archive EXCEPT ![c] = @ \ {"temporary"}]
    /\ IF at[c] = "reject"
       THEN at' = [at EXCEPT ![c] = "failed"] /\ turn' = [turn EXCEPT ![ServerOf[c]] = NoCall]
       ELSE UNCHANGED <<at, turn>>
    /\ UNCHANGED RejectionVars

(***************************************************************************)
(* claimHostAdmissionSlot                                                  *)
(***************************************************************************)
Record(k) == IF dir[k] \in recorded THEN {dir[k]} ELSE {}
ClaimVars == <<process, spools, archive, marker>>

NextSlot(c, from) ==
    \/ /\ slot[c] + 1 < MaxLiveTotal
       /\ Goes(c, from, "open") /\ slot' = [slot EXCEPT ![c] = @ + 1] /\ UNCHANGED note
       /\ attempt' = [attempt EXCEPT ![c] = 0]
    \/ /\ slot[c] + 1 = MaxLiveTotal
       /\ Rejects(c, from) /\ UNCHANGED <<slot, attempt>>

OpenSlot(c) ==
    /\ \/ /\ dir[slot[c]] = NoCall
          /\ \/ Goes(c, "open", "write") /\ dir' = [dir EXCEPT ![slot[c]] = c]
             \/ Returns(c, "open", "failed") /\ UNCHANGED dir
          /\ UNCHANGED <<slot, attempt, note>>
       \/ /\ dir[slot[c]] # NoCall /\ UNCHANGED dir
          /\ IF attempt[c] = 0
             THEN Goes(c, "open", "stale") /\ UNCHANGED <<slot, attempt, note>>
             ELSE NextSlot(c, "open")
    /\ UNCHANGED <<ClaimVars, recorded, holds>>

\* A file whose record cannot be written stays.
WriteSlot(c) ==
    /\ \/ /\ Goes(c, "write", "stdout")
          /\ recorded' = recorded \cup {c} /\ holds' = [holds EXCEPT ![c] = slot[c]]
       \/ Returns(c, "write", "unrecorded") /\ UNCHANGED <<recorded, holds>>
    /\ UNCHANGED <<ClaimVars, slot, attempt, note, dir>>

\* tryReclaimStaleHostAdmissionSlot
ReadStale(c) ==
    /\ IF \E d \in Record(slot[c]) : ServerOf[d] \notin up
       THEN Goes(c, "stale", "reclaim") /\ UNCHANGED <<slot, attempt, note>>
       ELSE NextSlot(c, "stale")
    /\ UNCHANGED <<ClaimVars, dir, recorded, holds>>
ReclaimSlot(c) ==
    /\ IF dir[slot[c]] = NoCall
       THEN NextSlot(c, "reclaim") /\ UNCHANGED dir
       ELSE /\ Goes(c, "reclaim", "open")
            /\ dir' = [dir EXCEPT ![slot[c]] = NoCall] /\ attempt' = [attempt EXCEPT ![c] = 1]
            /\ UNCHANGED <<slot, note>>
    /\ UNCHANGED <<ClaimVars, recorded, holds>>

(***************************************************************************)
(* Spools, launch, and what is undone when it fails                        *)
(***************************************************************************)
SpoolVars == <<slot, attempt, dir, recorded, Rejection, marker>>

\* initializeOutputSpools; nothing is undone when it fails.
MakeSpool(c, s) ==
    /\ \/ Goes(c, s, IF s = "stdout" THEN "stderr" ELSE "post") /\ spools' = spools \cup {<<c, s>>}
       \/ Returns(c, s, "unspooled") /\ UNCHANGED spools
    /\ UNCHANGED <<SpoolVars, holds, process>>

Post(c) ==
    /\ Returns(c, "post", "started") /\ process' = [process EXCEPT ![c] = "live"]
    /\ UNCHANGED <<SpoolVars, holds, spools>>

\* Mutant of PostFails: the slot is not given back.
PostFailsWithSlot(c) ==
    /\ Goes(c, "post", "drop")
    /\ UNCHANGED <<SpoolVars, holds, process, spools>>

PostFails(c) ==
    /\ Goes(c, "post", "give back") /\ holds' = [holds EXCEPT ![c] = NoSlot]
    /\ UNCHANGED <<SpoolVars, process, spools>>

\* releaseHostAdmissionSlot: the record must be its own.
ReadOwn(c) ==
    /\ Goes(c, "give back", IF c \in Record(slot[c]) THEN "unlink own" ELSE "drop")
    /\ UNCHANGED <<SpoolVars, holds, process, spools>>
UnlinkOwn(c) ==
    /\ Goes(c, "unlink own", "drop") /\ dir' = [dir EXCEPT ![slot[c]] = NoCall]
    /\ UNCHANGED <<slot, attempt, recorded, Rejection, marker, holds, process, spools>>
DropSpools(c) ==
    /\ Returns(c, "drop", "failed") /\ spools' = spools \ ({c} \X Stream)
    /\ UNCHANGED <<SpoolVars, holds, process>>

(***************************************************************************)
(* What else happens: ends of processes, other servers, deaths             *)
(***************************************************************************)
\* observeTerminal and the release with awaits, which HostAdmission has.
End(c) ==
    /\ Later(c, "started", "ended") /\ process' = [process EXCEPT ![c] = "ended"]
    /\ holds' = [holds EXCEPT ![c] = NoSlot]
    /\ UNCHANGED <<SpoolVars, spools>>
EndRead(c) ==
    /\ Later(c, "ended", IF c \in Record(slot[c]) THEN "ended, to unlink" ELSE "over")
    /\ UNCHANGED <<SpoolVars, holds, process, spools>>
EndUnlink(c) ==
    /\ Later(c, "ended, to unlink", "over") /\ dir' = [dir EXCEPT ![slot[c]] = NoCall]
    /\ UNCHANGED <<slot, attempt, recorded, Rejection, marker, holds, process, spools>>

\* Another server arms a marker, or time passes, while a call looks.
OthersMark ==
    /\ \E c \in Searches : at[c] \in {"sweep", "unlink", "look", "unlink expired"}
    /\ marker' \in CASE marker = "torn" -> {"live"}
                     [] marker = "live" -> {"expired", "torn"}
                     [] OTHER           -> {"torn"}
    /\ UNCHANGED <<situation, up, turn, at, slot, attempt, dir, recorded, holds, process, spools,
                   Rejection>>

Die(s) ==
    /\ s \in up \cap Mortal /\ up' = up \ {s}
    /\ UNCHANGED <<situation, turn, at, slot, attempt, holds, process, note, Files>>

SyncNext ==
    \/ \E c \in Call :
          \/ Enter(c) \/ PreflightFails(c) \/ SweepReads(c) \/ SweepUnlinks(c)
          \/ Look(c) \/ UnlinkExpired(c) \/ Check(c)
          \/ WriteRejection(c) \/ RejectionKills(c) \/ RenameRejection(c) \/ TidyRejection(c)
          \/ OpenSlot(c) \/ WriteSlot(c) \/ ReadStale(c) \/ ReclaimSlot(c)
          \/ \E s \in Stream : MakeSpool(c, s)
          \/ Post(c) \/ PostFails(c) \/ ReadOwn(c) \/ UnlinkOwn(c) \/ DropSpools(c)
          \/ End(c) \/ EndRead(c) \/ EndUnlink(c)
    \/ OthersMark
    \/ \E s \in Server : Die(s)

SyncSpec == SyncInit /\ [][SyncNext]_syncVars

(***************************************************************************)
(* Properties                                                              *)
(***************************************************************************)
Served(c) == ServerOf[c] \in up
TwoServers == \E s, t \in Server : \A c \in Call : ServerOf[c] \in {s, t}

\* Without awaits a caller has never more processes than its cap, and never two of one
\* identity, which the start with awaits cannot say (startPrepared).
CapIsStrict ==
    \A c \in Call :
        LET mine == LiveOf(ServerOf[c], CallerOf[c]) IN
        /\ Cardinality(mine) <= MaxLivePerCaller
        /\ \A d, e \in mine : IdentityOf[d] = IdentityOf[e] => d = e

\* A start that fails leaves nothing behind: no process, no slot in memory or as a file,
\* no spool, no temporary file once the rejection is written; unless the file of the slot
\* or a spool could not be written (startPrepared, rejectConcurrency).
NothingIsLeft ==
    \A c \in Call : Served(c) /\ at[c] \in {"failed", "reused"} =>
        /\ process[c] = "none" /\ holds[c] = NoSlot
        /\ \A k \in Slot : dir[k] # c
        /\ spools \cap ({c} \X Stream) = {}
        /\ note[c] \in {"none", "done"} => "temporary" \notin archive[c]

\* The slots of a server's memory and the files agree whatever other servers claim and
\* reclaim (claimHostAdmissionSlot): a file is that of a process, or of a call or a release
\* under way, or of a start that could not write it or its spools; and a process has its
\* file, unless two servers found one that a third had left behind, and the later took the
\* file of the earlier for it.
SlotsAreAccounted ==
    /\ \A k \in Slot : \A c \in Call :
          dir[k] = c /\ Served(c) =>
              holds[c] = k \/ at[c] \in {"write", "unrecorded", "give back", "unlink own",
                                         "ended", "ended, to unlink"}
    /\ (\A c \in Call : Served(c)) \/ TwoServers =>
          \A c \in Call : Served(c) /\ holds[c] # NoSlot => dir[holds[c]] = c

SyncStartsAreWhole == CapIsStrict /\ NothingIsLeft /\ SlotsAreAccounted

Notes == {"none", "write", "rename", "tidy", "done"}
SyncTypes ==
    /\ situation \in Situations /\ up \subseteq Server /\ note \in [Call -> Notes]
    /\ turn \in [Server -> Call \cup {NoCall}]
    /\ slot \in [Call -> Slot] /\ attempt \in [Call -> {0, 1}]
    /\ dir \in [Slot -> Call \cup {NoCall}] /\ recorded \subseteq Call
    /\ holds \in [Call -> Slot \cup {NoSlot}] /\ process \in [Call -> {"none", "live", "ended"}]
    /\ spools \subseteq Call \X Stream
    /\ archive \in [Call -> SUBSET {"temporary", "receipt"}]
    /\ marker \in {"none", "torn", "live", "expired"}
==============================================================================
