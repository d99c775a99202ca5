------------------------------ MODULE ToolCalls ------------------------------
(***************************************************************************)
(* The tools of a server (src/server.ts) where they keep state of their    *)
(* own: `bootstrap` names the startup process of each caller, or else a    *)
(* document that is given out by SnapshotPages; calls for OMEN go through  *)
(* one SDK client per caller, kept for the next call.  Processes are those *)
(* of the process manager, with as many pages as are left of their output. *)
(***************************************************************************)
EXTENDS SnapshotPages

CONSTANTS Calls, Caller,
          Serial,       \* callers that have one call at a time
          KeyOf,        \* the key under which a caller reads `bootstrap`
          MaxProcesses, \* bound: startup processes
          MaxClients,   \* bound: SDK clients made
          CacheLimit,   \* OMEN_CLIENT_CACHE_LIMIT
          Faults        \* what may fail: "start", "read", "connect", "transport"

VARIABLES alias,     \* bootstrapAliasProcesses: the process, 0 for none
          process,   \* startup processes: pages left, running
          owed,      \* ghost: the process whose start told the caller to read on, until
                     \* a read of it told the caller to stop
          client,    \* SDK clients: connection, calls in progress, closed or not
          cached,    \* omenMcpClients: a client is known by when it was made, and inserted then
          call       \* where each call is

ToolAssumption ==
    /\ SnapshotAssumption
    /\ Serial \subseteq Caller
    /\ KeyOf \in [Caller -> Key]
    /\ IsFiniteSet(Calls)

toolVars == <<alias, process, owed, client, cached, call>>
vars == <<snapshotVars, toolVars>>

Free == [at |-> "free", caller |-> CHOOSE c \in Caller : TRUE, of |-> 0]

Init ==
    /\ SnapshotInit
    /\ alias = [c \in Caller |-> 0] /\ process = <<>> /\ owed = [c \in Caller |-> 0]
    /\ client = <<>> /\ cached = {}
    /\ call = [i \in Calls |-> Free]

InProgress(c) == \E i \in Calls : call[i].at # "free" /\ call[i].caller = c
Begins(i, c) == call[i].at = "free" /\ (c \in Serial => ~InProgress(c))
Goes(i, at, c, of) == call' = [call EXCEPT ![i] = [at |-> at, caller |-> c, of |-> of]]
Ends(i) == call' = [call EXCEPT ![i] = Free]

(***************************************************************************)
(* bootstrap                                                               *)
(***************************************************************************)
AliasVars == <<alias, process, owed>>
ClientVars == <<client, cached>>

\* read_output of `bootstrap` with stdin starts a process, unless one is being read.
BeginStartup(i, c) ==
    /\ Begins(i, c) /\ alias[c] = 0
    /\ Len(process) < MaxProcesses
    /\ Goes(i, "starting", c, 0)
    /\ UNCHANGED <<snapshotVars, AliasVars, ClientVars>>

\* What an answer about p with these pages left tells the caller to do.
ReadOn(left, running) == left > 0 \/ running

\* The process is named if there is more to read of it.
Names(c, p, on) == [alias EXCEPT ![c] = IF on THEN p ELSE 0]
StartupStarted(i, left, running) ==
    /\ call[i].at = "starting"
    /\ Len(process) < MaxProcesses
    /\ LET p  == Len(process) + 1
           c  == call[i].caller
           on == ReadOn(left, running)
       IN /\ process' = Append(process, [left |-> left, running |-> running])
          /\ alias' = Names(c, p, on)
          /\ owed' = [owed EXCEPT ![c] = IF on THEN p ELSE 0]
    /\ Ends(i)
    /\ UNCHANGED <<snapshotVars, ClientVars>>
StartupFails(i) ==
    /\ call[i].at = "starting" /\ "start" \in Faults
    /\ Ends(i)
    /\ UNCHANGED <<snapshotVars, AliasVars, ClientVars>>

BeginAliasRead(i, c) ==
    /\ Begins(i, c) /\ alias[c] # 0
    /\ Goes(i, "reading", c, alias[c])
    /\ UNCHANGED <<snapshotVars, AliasVars, ClientVars>>

\* Mutant of Unnames: only a process that has ended loses its alias.
UnnamesEnded(c, p, on) == [alias EXCEPT ![c] = IF process[p].running THEN @ ELSE 0]

\* An answer that tells the caller to stop ends the alias, whatever it names by now.
Unnames(c, p, on) == [alias EXCEPT ![c] = IF on THEN @ ELSE 0]
AliasReadReturns(i) ==
    /\ call[i].at = "reading"
    /\ LET p    == call[i].of
           c    == call[i].caller
           left == IF process[p].left = 0 THEN 0 ELSE process[p].left - 1
           on   == ReadOn(left, process[p].running)
       IN /\ process' = [process EXCEPT ![p].left = left]
          /\ alias' = Unnames(c, p, on)
          /\ owed' = [owed EXCEPT ![c] = IF ~on /\ @ = p THEN 0 ELSE @]
    /\ Ends(i)
    /\ UNCHANGED <<snapshotVars, ClientVars>>

\* A read that fails, or is given up, leaves the alias.
AliasReadFails(i) ==
    /\ call[i].at = "reading" /\ "read" \in Faults
    /\ Ends(i)
    /\ UNCHANGED <<snapshotVars, AliasVars, ClientVars>>

\* Without an alias `bootstrap` is the document; the wait is that of the snapshot.
BeginDocumentRead(i, c, r, limit, expired) ==
    /\ Begins(i, c) /\ alias[c] = 0
    /\ BeginSnapshot(r, KeyOf[c], limit, expired)
    /\ UNCHANGED toolVars

StartupProcessEnds(p) ==
    /\ process[p].running
    /\ process' = [process EXCEPT ![p].running = FALSE]
    /\ UNCHANGED <<snapshotVars, alias, owed, ClientVars, call>>

(***************************************************************************)
(* Calls for OMEN                                                          *)
(***************************************************************************)
CallerOf(n) == client[n].caller
Live(n) == n \in cached
EntryOf(c, entries) == {n \in entries : CallerOf(n) = c}

\* Mutant of Stays: calls under way are not looked at.
StaysIfRecent(n, size, old) == size <= CacheLimit /\ n \notin old

\* pruneOmenClients: clients in use stay; the others stay while they are recent and
\* the cache is not too large.  old: those unused for ten minutes.  The oldest is looked at
\* first, and each with the size that those before it have left.
Stays(n, size, old) == client[n].active > 0 \/ (size <= CacheLimit /\ n \notin old)
PruneClients(gone, old) ==
    \A n \in cached : n \in gone <=> ~Stays(n, Cardinality(cached \ {m \in gone : m < n}), old)

\* client.close(), of those that leave the cache.
Shut(gone) == [n \in DOMAIN client |->
                 IF n \in gone THEN [client[n] EXCEPT !.shut = TRUE] ELSE client[n]]

\* remoteOmenClient: the caller's client, or a new one that is yet to connect.
BeginRemote(i, c, old) ==
    /\ Begins(i, c)
    /\ \E gone \in SUBSET cached :
          LET kept == cached \ gone
              rest == Shut(gone)
              new  == [caller |-> c, link |-> "connecting", active |-> 1, shut |-> FALSE,
                       broken |-> FALSE]
          IN /\ PruneClients(gone, old)
             /\ \/ \E n \in EntryOf(c, kept) :
                      /\ client' = [rest EXCEPT ![n].active = @ + 1]
                      /\ cached' = kept
                      /\ Goes(i, "connecting", c, n)
                \/ /\ EntryOf(c, kept) = {} /\ Len(client) < MaxClients
                   /\ client' = Append(rest, new)
                   /\ cached' = kept \cup {Len(client) + 1}
                   /\ Goes(i, "connecting", c, Len(client) + 1)
    /\ UNCHANGED <<snapshotVars, AliasVars>>

Connect(n) ==
    /\ client[n].link = "connecting"
    /\ \/ client' = [client EXCEPT ![n].link = "open"] /\ UNCHANGED cached
       \/ /\ "connect" \in Faults
          /\ client' = [client EXCEPT ![n].link = "failed"]
          /\ cached' = cached \ {n}
    /\ UNCHANGED <<snapshotVars, AliasVars, call>>

Leaves(n) == [client EXCEPT ![n].active = @ - 1]

\* entry.promise settles: the call is sent, or ends with the connection.
SendRemote(i) ==
    /\ call[i].at = "connecting"
    /\ LET n == call[i].of
       IN \/ /\ client[n].link = "open"
             /\ call' = [call EXCEPT ![i].at = "calling"]
             /\ UNCHANGED client
          \/ /\ client[n].link = "failed"
             /\ Ends(i) /\ client' = Leaves(n)
    /\ UNCHANGED <<snapshotVars, AliasVars, cached>>

\* The answer, or one that says the tool failed.
RemoteReturns(i) ==
    /\ call[i].at = "calling" /\ ~client[call[i].of].shut
    /\ Ends(i) /\ client' = Leaves(call[i].of)
    /\ UNCHANGED <<snapshotVars, AliasVars, cached>>

Disposes(n) == [Leaves(n) EXCEPT ![n].shut = @ \/ Live(n), ![n].broken = TRUE]

\* The transport fails, or the client was closed: it leaves the cache and is closed.
TransportFails(i) ==
    /\ call[i].at = "calling"
    /\ client[call[i].of].shut \/ "transport" \in Faults
    /\ LET n == call[i].of
       IN /\ client' = Disposes(n)
          /\ cached' = cached \ {n}
    /\ Ends(i)
    /\ UNCHANGED <<snapshotVars, AliasVars>>

Documented ==
    \/ \E i \in Calls, c \in Caller, r \in Reads, limit \in Limits, expired \in Expired :
          BeginDocumentRead(i, c, r, limit, expired)
    \/ SnapshotNext /\ UNCHANGED toolVars
Aliased ==
    \/ \E i \in Calls, c \in Caller : BeginStartup(i, c) \/ BeginAliasRead(i, c)
    \/ \E i \in Calls, left \in 0..2, running \in BOOLEAN : StartupStarted(i, left, running)
    \/ \E i \in Calls : StartupFails(i) \/ AliasReadReturns(i) \/ AliasReadFails(i)
    \/ \E p \in DOMAIN process : StartupProcessEnds(p)
Remote ==
    \/ \E i \in Calls, c \in Caller : \E old \in SUBSET cached : BeginRemote(i, c, old)
    \/ \E i \in Calls : SendRemote(i) \/ RemoteReturns(i) \/ TransportFails(i)
    \/ \E n \in DOMAIN client : Connect(n)
Next == Documented \/ Aliased \/ Remote
Spec == Init /\ [][Next]_vars

(***************************************************************************)
(* Properties                                                              *)
(***************************************************************************)
\* `bootstrap` names the process a caller has been told to read on with, until it is
\* told to stop, although starts and reads fail; for callers whose calls do not
\* overlap (an answer that stops ends the alias, whatever it names).
AliasFollowsReader ==
    \A c \in Serial : owed[c] # 0 => alias[c] = owed[c]

\* A client is not closed under a call, unless its transport had failed a call or all
\* were closed; and one that is not kept for another call is closed, or was never
\* connected: pruning, failing and connecting cross each other at every await
\* (pruneOmenClients, callRemoteOmenTool).
ClientsOutliveCalls ==
    /\ \A i \in Calls :
          call[i].at \in {"connecting", "calling"} /\ client[call[i].of].shut =>
              client[call[i].of].broken
    /\ \A n \in DOMAIN client :
          ~Live(n) => client[n].shut \/ client[n].link = "failed"
    /\ \A n \in DOMAIN client :
          client[n].active = Cardinality({i \in Calls :
              call[i].at \in {"connecting", "calling"} /\ call[i].of = n})

ToolTypes ==
    /\ SnapshotTypes
    /\ alias \in [Caller -> 0..Len(process)] /\ owed \in [Caller -> 0..Len(process)]
    /\ cached \subseteq DOMAIN client
    /\ \A c \in Caller : Cardinality(EntryOf(c, cached)) <= 1
=============================================================================
