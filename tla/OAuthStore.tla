------------------------------- MODULE OAuthStore -------------------------------
(***************************************************************************)
(* The durable OAuth store (local-oauth-provider.ts) that all servers of an *)
(* installation share: one JSON file that is replaced by rename, a lock     *)
(* file around every mutation, and in each server a copy of the store that  *)
(* every load replaces.  Its entries are what authorizations make: a code,  *)
(* a refresh token in exchange for the code, the next refresh token in      *)
(* exchange for that, and the registrations of clients.  What becomes of an *)
(* exchanged token, and the grace for a retry, are in RefreshRotation; an   *)
(* access token goes with the refresh token it was issued with.  Nothing    *)
(* expires here.                                                            *)
(*                                                                         *)
(* A server handles several requests at a time; a step ends where the code  *)
(* waits for a file.  What follows a load - the change and the snapshot     *)
(* that is written - is one step.                                          *)
(***************************************************************************)
EXTENDS Naturals, FiniteSets

CONSTANTS
  Server,
  Request,     \* what servers do at a time
  MaxTokens,   \* bound: tokens that are minted
  MaxMishaps   \* bound: restarts of servers and file operations that fail

ASSUME ConstantsAssumption ==
  /\ Server # {} /\ MaxTokens \in Nat \ {0} /\ MaxMishaps \in Nat

VARIABLES
  file,      \* the store file
  lock,      \* the lock file, if there is one
  mem,       \* each server's maps
  req,       \* each request
  minted,    \* tokens made so far: 1 .. minted
  mishaps,   \* restarts and failures so far
  given,     \* ghost: tokens that clients were told of
  dead,      \* ghost: tokens whose exchange or revocation reached the file
  swapped,   \* ghost: calls about to steal a lock that is another by now
  raced,     \* ghost: one of them did
  blind      \* ghost: a mutation went on without its load

ghosts == <<given, dead, swapped, raced, blind>>
vars == <<file, lock, mem, req, minted, mishaps, given, dead, swapped, raced, blind>>

Code == 0
Entry == Code .. MaxTokens
Store == SUBSET Entry

Op == [kind : {"none", "exchange", "revoke", "verify"}, entry : Entry]
Point == {"idle", "open", "sign", "stat", "peek", "steal", "load", "change", "write", "unlock",
          "miss", "reload", "rejected"}
Inside == {"load", "change", "write", "unlock"}

NoServer == "none"

\* data: what was read, or will be written.  answer: the new token, or an error.
RequestState == [at : Point, home : Server \cup {NoServer}, op : Op, data : SUBSET Store, answer : Entry, due : BOOLEAN]
At(s) == [at |-> "idle", home |-> s, op |-> [kind |-> "none", entry |-> Code], data |-> {}, answer |-> Code,
         due |-> FALSE]
Idle == At(NoServer)

TypeOK ==
  /\ file \in Store
  /\ lock \subseteq [by : Request, alive : BOOLEAN, signed : BOOLEAN, old : BOOLEAN] /\ Cardinality(lock) <= 1
  /\ mem \in [Server -> Store]
  /\ req \in [Request -> RequestState] /\ \A r \in Request : Cardinality(req[r].data) <= 1
  /\ minted \in 0 .. MaxTokens
  /\ mishaps \in 0 .. MaxMishaps
  /\ given \in Store /\ dead \in Store
  /\ swapped \subseteq Request /\ raced \in BOOLEAN /\ blind \in BOOLEAN

\* One code has been issued (authorize), and all servers have loaded it.
Init ==
  /\ file = {Code}
  /\ lock = {}
  /\ mem = [s \in Server |-> {Code}]
  /\ req = [r \in Request |-> Idle]
  /\ minted = 0 /\ mishaps = 0
  /\ given = {} /\ dead = {} /\ swapped = {} /\ raced = FALSE /\ blind = FALSE

Home(r) == req[r].home
Go(r, from, to) == req[r].at = from /\ req' = [req EXCEPT ![r].at = to]
Mishap == mishaps < MaxMishaps /\ mishaps' = mishaps + 1

-----------------------------------------------------------------------------
(* The lock of withStoreMutation.                                          *)

BeginMutation(r) ==
  /\ req[r].at = "idle"
  /\ \E s \in Server : req' = [req EXCEPT ![r].at = "open", ![r].home = s]
  /\ UNCHANGED <<file, lock, mem, minted, mishaps, ghosts>>

Open(r) ==
  /\ Go(r, "open", IF lock = {} THEN "sign" ELSE "stat")
  /\ lock' = IF lock = {} THEN {[by |-> r, alive |-> TRUE, signed |-> FALSE, old |-> FALSE]} ELSE lock
  /\ swapped' = swapped \cup {q \in Request : lock = {} /\ req[q].at \in {"peek", "steal"}}
  /\ UNCHANGED <<file, mem, minted, mishaps, given, dead, raced, blind>>

\* The pid goes to the file that was opened, whatever has its name by now.
Sign(r) ==
  /\ Go(r, "sign", "load")
  /\ lock' = {IF l.by = r /\ l.alive THEN [l EXCEPT !.signed = TRUE] ELSE l : l \in lock}
  /\ UNCHANGED <<file, mem, minted, mishaps, ghosts>>

\* If the pid cannot be written the call fails and the lock stays.
SignFails(r) ==
  /\ req[r].at = "sign" /\ Mishap
  /\ req' = [req EXCEPT ![r] = Idle]
  /\ lock' = {IF l.by = r THEN [l EXCEPT !.alive = FALSE] ELSE l : l \in lock}
  /\ UNCHANGED <<file, mem, minted, ghosts>>

\* Try again, or oauth_store_locked.
Wait(r) == req' = [req EXCEPT ![r].at = "open"] \/ req' = [req EXCEPT ![r] = Idle]

\* A lock that has gone meanwhile is not waited for; one that is old is read.
Stat(r) ==
  /\ req[r].at = "stat"
  /\ \/ lock = {} /\ Go(r, "stat", "open")
     \/ \E l \in lock : IF l.old THEN Go(r, "stat", "peek") ELSE Wait(r)
  /\ swapped' = swapped \ {r}
  /\ UNCHANGED <<file, lock, mem, minted, mishaps, given, dead, raced, blind>>

\* Mutant of Peek: an old lock is taken whoever holds it.
PeekNothing(r) ==
  /\ req[r].at = "peek"
  /\ Go(r, "peek", "steal")
  /\ UNCHANGED <<file, lock, mem, minted, mishaps, ghosts>>

\* No pid counts as a dead one.
Peek(r) ==
  /\ req[r].at = "peek"
  /\ \/ lock = {} /\ Go(r, "peek", "open")
     \/ \E l \in lock : IF l.signed /\ l.alive THEN Wait(r) ELSE Go(r, "peek", "steal")
  /\ UNCHANGED <<file, lock, mem, minted, mishaps, ghosts>>

Steal(r) ==
  /\ Go(r, "steal", "open")
  /\ lock' = {}
  /\ raced' = (raced \/ r \in swapped)
  /\ swapped' = swapped \ {r}
  /\ UNCHANGED <<file, mem, minted, mishaps, given, dead, blind>>

\* A server that is alive writes its pid before the lock is STORE_LOCK_STALE_MS old.
LockAges ==
  /\ \E l \in lock : ~l.old /\ (l.signed \/ ~l.alive)
  /\ lock' = {[l EXCEPT !.old = TRUE] : l \in lock}
  /\ UNCHANGED <<file, mem, req, minted, mishaps, ghosts>>

-----------------------------------------------------------------------------
(* The mutation: load, change and write.                                   *)

\* Mutant of Load: the maps in memory are taken for the store.
LoadNothing(r) ==
  /\ Go(r, "load", "change")
  /\ UNCHANGED <<file, lock, mem, minted, mishaps, ghosts>>

Load(r) ==
  /\ req[r].at = "load"
  /\ req' = [req EXCEPT ![r].at = "change", ![r].data = {file}]
  /\ UNCHANGED <<file, lock, mem, minted, mishaps, ghosts>>

\* A read that fails keeps the maps.
LoadFails(r) ==
  /\ Mishap /\ Go(r, "load", "change")
  /\ blind' = TRUE
  /\ UNCHANGED <<file, lock, mem, minted, given, dead, swapped, raced>>

Maps(r) == UNION IF req[r].data = {} THEN {mem[Home(r)]} ELSE req[r].data

\* The change is in the server's maps at once, and in the snapshot that will be written.
Change(r, kind, t, m, answer) ==
  /\ req[r].at = "change"
  /\ mem' = [mem EXCEPT ![Home(r)] = m]
  /\ req' = [req EXCEPT ![r] = [At(Home(r)) EXCEPT !.at = "write", !.op = [kind |-> kind, entry |-> t],
                                            !.data = {m}, !.answer = answer]]
  /\ UNCHANGED <<file, lock, mishaps, ghosts>>

\* The end of exchangeAuthorizationCode and of a rotation: a token is issued against an
\* entry.
Exchange(r) ==
  req[r].at = "change" /\ \E t \in Maps(r) :
    /\ minted < MaxTokens /\ minted' = minted + 1
    /\ Change(r, "exchange", t, (Maps(r) \ {t}) \cup {minted'}, minted')

\* authorize, and the registration or recovery of a client: an entry of its own.
Issue(r) == minted < MaxTokens /\ minted' = minted + 1 /\ Change(r, "none", Code, Maps(r) \cup {minted'}, minted')

\* An error in the mutation; what was loaded is written all the same.
Refuse(r) == Change(r, "none", Code, Maps(r), Code) /\ UNCHANGED minted

\* revokeToken.
Revoke(r) == \E t \in 1 .. minted : Change(r, "revoke", t, Maps(r) \ {t}, Code) /\ UNCHANGED minted

\* persistAsync.
Rename(r) ==
  /\ req[r].at = "write"
  /\ req' = [req EXCEPT ![r] = [At(Home(r)) EXCEPT !.at = "unlock", !.answer = req[r].answer]]
  /\ file' = Maps(r)
  /\ dead' = dead \cup IF req[r].op.kind \in {"exchange", "revoke"} THEN {req[r].op.entry} ELSE {}
  /\ UNCHANGED <<lock, mem, minted, mishaps, given, swapped, raced, blind>>

\* The call fails; the maps keep the change until the next load.
WriteFails(r) ==
  /\ req[r].at = "write" /\ Mishap
  /\ req' = [req EXCEPT ![r] = [At(Home(r)) EXCEPT !.at = "unlock"]]
  /\ UNCHANGED <<file, lock, mem, minted, ghosts>>

\* The lock file is unlinked whoever made it, and the answer reaches the client or not.
Unlock(r) ==
  /\ req[r].at = "unlock"
  /\ lock' = {}
  /\ req' = [req EXCEPT ![r] = Idle]
  /\ given' \in {given, given \cup ({req[r].answer} \ {Code})}
  /\ UNCHANGED <<file, mem, minted, mishaps, dead, swapped, raced, blind>>

-----------------------------------------------------------------------------
(* Reads: the maps are replaced outside the lock, by what was read before. *)

\* verifyAccessToken of a token that is not in the maps; or, without a token, the
\* loads of getClient, challengeForAuthorizationCode and isChatGptAuthorizationReconnect.
BeginVerify(r) ==
  /\ req[r].at = "idle"
  /\ \E s \in Server, t \in 0 .. minted :
       /\ t = Code \/ t \notin mem[s]
       /\ req' = [req EXCEPT ![r] = [At(s) EXCEPT !.at = "miss", !.op = [kind |-> "verify", entry |-> t],
                                                !.due = t \in given /\ t \in file]]
  /\ UNCHANGED <<file, lock, mem, minted, mishaps, ghosts>>

ReadMiss(r) ==
  /\ req[r].at = "miss"
  /\ req' = [req EXCEPT ![r].at = "reload", ![r].data = {file}]
  /\ UNCHANGED <<file, lock, mem, minted, mishaps, ghosts>>

\* A read that fails excuses the rejection.
ReadMissFails(r) ==
  /\ req[r].at = "miss" /\ Mishap
  /\ req' = [req EXCEPT ![r] = Idle]
  /\ UNCHANGED <<file, lock, mem, minted, ghosts>>

Reload(r) ==
  /\ req[r].at = "reload"
  /\ mem' = [mem EXCEPT ![Home(r)] = Maps(r)]
  /\ req' = [req EXCEPT ![r] = IF req[r].op.entry \in Maps(r) THEN Idle
                               ELSE [At(Home(r)) EXCEPT !.at = "rejected", !.op = req[r].op, !.due = req[r].due]]
  /\ UNCHANGED <<file, lock, minted, mishaps, ghosts>>

Rejected(r) ==
  /\ req[r].at = "rejected"
  /\ req' = [req EXCEPT ![r] = Idle]
  /\ UNCHANGED <<file, lock, mem, minted, mishaps, ghosts>>

-----------------------------------------------------------------------------

\* A server ends in the middle of everything and is started again: load.
Restart(s) ==
  /\ Mishap
  /\ mem' = [mem EXCEPT ![s] = file]
  /\ req' = [r \in Request |-> IF Home(r) = s THEN Idle ELSE req[r]]
  /\ lock' = {IF Home(l.by) = s THEN [l EXCEPT !.alive = FALSE] ELSE l : l \in lock}
  /\ swapped' = {r \in swapped : Home(r) # s}
  /\ UNCHANGED <<file, minted, given, dead, raced, blind>>

Goes(r) ==
  \/ Open(r) \/ Sign(r) \/ Stat(r) \/ Peek(r) \/ Steal(r)
  \/ Load(r) \/ Exchange(r) \/ Issue(r) \/ Refuse(r) \/ Revoke(r) \/ Rename(r) \/ Unlock(r)
  \/ ReadMiss(r) \/ Reload(r) \/ Rejected(r)

Next ==
  \/ \E r \in Request : \/ BeginMutation(r) \/ BeginVerify(r) \/ Goes(r)
                        \/ SignFails(r) \/ LoadFails(r) \/ WriteFails(r) \/ ReadMissFails(r)
  \/ LockAges
  \/ \E s \in Server : Restart(s)

Spec == Init /\ [][Next]_vars

-----------------------------------------------------------------------------
(* Properties.                                                             *)

\* Mutations change the store one after the other, whatever server ends and whatever
\* lock gets old; unless a call unlinks a lock that was made after it had looked at the
\* age of the one before.
MutationsExclude == raced \/ Cardinality({r \in Request : req[r].at \in Inside}) <= 1

\* The answers to exchanges and revocations hold whatever server the next call runs on:
\* a token that a client was told of is in the file until it is exchanged or revoked,
\* and never comes back.
FileIsTheTruth == raced \/ blind \/ (given \ dead \subseteq file /\ dead \cap file = {})

\* "cross-generation handoff sees newly issued durable state"
\* (local-oauth-provider.ts:350): no server rejects an access token its client was
\* told of before, as long as it is in the file.
HandoffSeesIssued ==
  raced \/ blind \/ \A r \in Request : req[r].at = "rejected" /\ req[r].due => req[r].op.entry \notin file

\* An answer given by one server holds at every other, for writers and for readers.
AnswersHoldEverywhere == FileIsTheTruth /\ HandoffSeesIssued
=============================================================================
