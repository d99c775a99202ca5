---------------------------- MODULE RefreshRotation ----------------------------
(***************************************************************************)
(* The tokens of one authorization (local-oauth-provider.ts): the code is   *)
(* exchanged for a refresh token.  A confidential client keeps that one.    *)
(* For a public client each use makes the next; a retry inside a grace gets *)
(* that one again, but only from the server that made it and has not        *)
(* restarted; a replay after the grace ends the family.                    *)
(*                                                                         *)
(* A mutation of the shared store is one step here (OAuthStore has its lock *)
(* and its file operations); it may fail to be written, and its answer may  *)
(* get lost.  A server reads the store before every mutation, so what it    *)
(* has of its own are the successors it handed out.                        *)
(***************************************************************************)
EXTENDS Integers, FiniteSets

CONSTANTS
  Provider,
  MaxRefresh,  \* bound: refresh tokens that are made
  Grace,      \* REFRESH_REUSE_GRACE_MS
  Life        \* REFRESH_TTL_SEC, in the same unit

ASSUME GraceAssumption == MaxRefresh \in Nat \ {0} /\ Grace \in Nat /\ Life \in Nat /\ Grace < Life

VARIABLES
  public,    \* the client's token_endpoint_auth_method is none
  code,      \* the code is stored
  refresh,   \* the refresh tokens that are stored
  recent,    \* each server's recentRefreshSuccessors
  made,      \* tokens made so far: 1 .. made
  parent,    \* ghost: what each of them was made from
  known,     \* ghost: tokens the client was told of
  replayed,  \* ghost: tokens that were replayed after the grace
  revoked,   \* ghost: tokens that were revoked on their own
  expired    \* ghost: tokens that expired
refreshGhosts == <<parent, known, replayed, revoked, expired>>
refreshVars == <<public, code, refresh, recent, made, parent, known, replayed, revoked, expired>>

Token == 1 .. MaxRefresh
None == 0

\* left: time until expiresAt, 0 if it is not stored.  next: successorRefreshDigest.
\* since: time since supersededAt, if there is a next.
Record == [left : 0 .. Life, next : Token \cup {None}, since : 0 .. Grace + 1]
Absent == [left |-> 0, next |-> None, since |-> 0]
Fresh == [left |-> Life, next |-> None, since |-> 0]

RefreshTypes ==
  /\ public \in BOOLEAN /\ code \in BOOLEAN
  /\ refresh \in [Token -> Record]
  /\ recent \in [Provider -> [Token -> Token \cup {None}]]
  /\ made \in 0 .. MaxRefresh
  /\ parent \in [Token -> Token \cup {None}]
  /\ \A G \in {known, replayed, revoked, expired} : G \subseteq Token

\* The code has been issued (authorize).
RefreshInit ==
  /\ public \in BOOLEAN
  /\ code = TRUE
  /\ refresh = [t \in Token |-> Absent]
  /\ recent = [s \in Provider |-> [t \in Token |-> None]]
  /\ made = 0
  /\ parent = [t \in Token |-> None]
  /\ known = {} /\ replayed = {} /\ revoked = {} /\ expired = {}

Stored(t) == refresh[t].left > 0
Superseded(t) == refresh[t].next # None

\* A mutation makes the store r, or is not written; only if it is, it is answered, and
\* the client is told of answer or not.
Answer(t) == known' \in {known, known \cup {t}}
Write(r) == refresh' = r
Lose == UNCHANGED <<code, refresh, known, replayed, revoked>>
Mint(from) ==
  /\ made < MaxRefresh /\ made' = made + 1
  /\ parent' = [parent EXCEPT ![made'] = from]

-----------------------------------------------------------------------------

\* exchangeAuthorizationCode.
ExchangeCode ==
  /\ code
  /\ Mint(None)
  /\ \/ code' = FALSE /\ Write([refresh EXCEPT ![made'] = Fresh]) /\ Answer(made') /\ UNCHANGED <<replayed, revoked>>
     \/ Lose
  /\ UNCHANGED <<public, recent, expired>>

\* exchangeRefreshToken of a confidential client.
Renew(t) ==
  /\ Stored(t) /\ ~public
  /\ Write([refresh EXCEPT ![t] = Fresh])
  /\ UNCHANGED <<public, code, recent, made, refreshGhosts>>

\* exchangeRefreshToken of a public client: the token's successor n.  Server s keeps it
\* even if the store cannot be written.
Succeed(s, t) ==
  /\ Stored(t) /\ public
  /\ Mint(t)
  /\ recent' = [recent EXCEPT ![s][t] = made']
  /\ \/ /\ Write([refresh EXCEPT ![t] = [left |-> Life, next |-> made', since |-> 0], ![made'] = Fresh])
        /\ Answer(made')
        /\ UNCHANGED <<code, replayed, revoked>>
     \/ Lose
  /\ UNCHANGED <<public, expired>>

Rotate(s, t) == ~Superseded(t) /\ Succeed(s, t)

\* A retry inside the grace; an advanced family is one whose successor was used.
InGrace(t) == Stored(t) /\ public /\ Superseded(t) /\ refresh[t].since <= Grace
Advanced(t) == Superseded(refresh[t].next)
Cached(s, t) == recent[s][t] = refresh[t].next /\ Stored(recent[s][t])

Coalesce(s, t) ==
  /\ InGrace(t) /\ ~Advanced(t) /\ Cached(s, t)
  /\ Answer(recent[s][t])
  /\ UNCHANGED <<public, code, refresh, recent, made, parent, replayed, revoked, expired>>

\* Where the map to leads from t: the tokens of every set with t that is closed under it.
Line(t, to) ==
  {u \in Token : \A C \in SUBSET Token : t \in C /\ (\A v \in C : to[v] \in C \cup {None}) => u \in C}

\* revokeRefreshFamily.
Successor == [t \in Token |-> refresh[t].next]
Family(t) == Line(t, Successor)
Without(T) == [t \in Token |-> IF t \in T THEN Absent ELSE refresh[t]]

\* Mutant of RejectRetry: a server without the successor makes another one.
RejectNever(s, t) == InGrace(t) /\ ~Advanced(t) /\ ~Cached(s, t) /\ Succeed(s, t)

\* "Never branch a refresh family after restart": the store stays as it is.
RejectRetry(s, t) ==
  /\ InGrace(t) /\ (Advanced(t) \/ ~Cached(s, t))
  /\ UNCHANGED refreshVars

Revokes(t, T) ==
  /\ Stored(t) /\ public /\ Superseded(t) /\ refresh[t].since > Grace
  /\ \/ Write(Without(T)) /\ replayed' = replayed \cup {t} /\ UNCHANGED <<code, known, revoked>>
     \/ Lose
  /\ UNCHANGED <<public, recent, made, parent, expired>>

\* Mutant of Replay: the successor is revoked, but not what came from it.
ReplayNext(t) == Revokes(t, {t, refresh[t].next})

\* A replay after the grace.
Replay(t) == Revokes(t, Family(t))

\* revokeToken.
RevokeToken(t) ==
  /\ Write([refresh EXCEPT ![t] = Absent])
  /\ revoked' = revoked \cup {t}
  /\ UNCHANGED <<public, code, recent, made, parent, known, replayed, expired>>

\* A server starts with no successors.
RestartServer(s) ==
  /\ recent' = [recent EXCEPT ![s] = [t \in Token |-> None]]
  /\ UNCHANGED <<public, code, refresh, made, refreshGhosts>>

\* Time: prune of the store.  What prune takes from recentRefreshSuccessors is not asked
\* for any more.
Older(r) ==
  IF r.left <= 1 THEN Absent
  ELSE [r EXCEPT !.left = @ - 1, !.since = IF r.next = None \/ @ > Grace THEN @ ELSE @ + 1]

Tick ==
  /\ refresh' = [t \in Token |-> Older(refresh[t])]
  /\ expired' = expired \cup {t \in Token : refresh[t].left = 1}
  /\ UNCHANGED <<public, code, recent, made, parent, known, replayed, revoked>>

\* The code is pruned after CODE_TTL_MS.
CodeExpires ==
  /\ code /\ code' = FALSE
  /\ UNCHANGED <<public, refresh, recent, made, refreshGhosts>>

\* Only a token the client was told of can be used; at any server.
RefreshNext ==
  \/ ExchangeCode \/ Tick \/ CodeExpires
  \/ \E t \in known : Renew(t) \/ Replay(t) \/ RevokeToken(t)
  \/ \E s \in Provider, t \in known : Rotate(s, t) \/ Coalesce(s, t) \/ RejectRetry(s, t)
  \/ \E s \in Provider : RestartServer(s)

RefreshSpec == RefreshInit /\ [][RefreshNext]_refreshVars

-----------------------------------------------------------------------------
(* Properties.                                                             *)

\* "Never branch a refresh family after restart" (local-oauth-provider.ts:321): the
\* family has at most one token that has not been superseded.
NeverBranches == Cardinality({t \in Token : Stored(t) /\ ~Superseded(t)}) <= 1

\* "all retries must return the same successor" (test-oauth-concurrent-refresh.mjs:63):
\* a client that used a token several times, anywhere, was told of one.
RetriesAgree == \A t, u \in known : parent[t] = parent[u] => t = u

\* The family stays one line, and a client that retries stays on it.
FamilyIsOneLine == NeverBranches /\ RetriesAgree

\* Strictly descended from t.
Descends(u, t) == u # t /\ t \in Line(u, parent)

\* A replay after the grace ends the family: nothing that came from the token is left;
\* unless a token between was revoked on its own before, which cuts the family.
ReplayEndsFamily ==
  \A t \in replayed, u \in Token :
    Descends(u, t) /\ Stored(u) => \E v \in revoked : v = t \/ (Descends(v, t) /\ Descends(u, v))

\* A retry "must not invalidate the successor already delivered to another request"
\* (local-oauth-provider.ts:321-322): a token the client was told of stays until it
\* expires, is revoked, or one it came from is replayed after its grace.
DeliveredStays ==
  \A t \in known :
    Stored(t) \/ t \in expired \cup revoked \cup replayed \/ \E u \in replayed : Descends(t, u)

\* A family ends by a late replay, and by nothing less.
OnlyReplayEndsFamily == ReplayEndsFamily /\ DeliveredStays
=============================================================================
