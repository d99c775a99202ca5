---------------------------- MODULE SnapshotPages ----------------------------
(***************************************************************************)
(* readBootstrapSnapshot (src/lib/bootstrap-snapshot.ts): the documents    *)
(* `bootstrap`, `timeline` and `checkup` are given out in pages, of one    *)
(* version each, from a session per alias, caller and room.  A read runs   *)
(* without interruption except for its wait for the document.  A document  *)
(* is a length, the ranges of it that should stay whole, and whether the   *)
(* producer had finished it.                                               *)
(***************************************************************************)
EXTENDS Naturals, Sequences, FiniteSets, SequencesExt

CONSTANTS Reads,        \* calls of read_output for a snapshot
          Key,          \* sessions' keys: alias, caller and room
          RoomBound,    \* keys with a room, whose document is made for the call
          Documents,    \* a sequence of records [length, ranges, valid]
          Limits,       \* page sizes that are asked for
          MaxSessions,  \* SNAPSHOT_PAGE_MAX_SESSIONS
          Expiring,     \* TRUE if sessions may be unread for half an hour
          MaxReads      \* bound: reads begun

\* The ranges are fields of one object, one behind the other (serializeSnapshotPayload).
SnapshotAssumption ==
    /\ Documents \in Seq([length : Nat, ranges : SUBSET (Nat \X Nat), valid : BOOLEAN])
    /\ Documents # <<>>
    /\ \A v \in DOMAIN Documents : \A p, q \in Documents[v].ranges :
          p[1] < p[2] /\ p[2] <= Documents[v].length /\ (p # q => p[2] <= q[1] \/ q[2] <= p[1])
    /\ Limits \subseteq Nat \ {0}
    /\ MaxSessions \in Nat \ {0}

VARIABLES file,      \* the version in the common file and in the caller's own, 0 for none
          session,   \* snapshotPageSessions: version and offset by key
          recency,   \* their keys, the one used last at the end
          read,      \* where each read is
          begun,     \* number of reads begun
          seen       \* ghost: what the caller of a key has been given: the version,
                     \* up to where, the cuts, whether it was told to stop, and whether
                     \* it got a document whole while a session of its key was open

snapshotVars == <<file, session, recency, read, begun, seen>>

Version == DOMAIN Documents
None == [version |-> 0, offset |-> 0]
Idle == [at |-> "idle", key |-> CHOOSE k \in Key : TRUE, limit |-> 0, version |-> 0]
Unseen == [version |-> 0, upto |-> 0, cuts |-> {}, stop |-> FALSE, joins |-> TRUE,
           crossed |-> FALSE]

SnapshotInit ==
    /\ file = [common |-> 1, own |-> 0]
    /\ session = [k \in Key |-> None]
    /\ recency = <<>>
    /\ read = [r \in Reads |-> Idle]
    /\ begun = 0
    /\ seen = [k \in Key |-> Unseen]

(***************************************************************************)
(* Pages                                                                   *)
(***************************************************************************)
Least(a, b) == IF a < b THEN a ELSE b

NominalPageEnd(d, start, limit) == Least(d.length, start + limit)

\* structuralPageEnd: the page ends before or behind a range that should stay
\* whole, where that can be.
StructuralPageEnd(d, start, limit) ==
    LET nominal == NominalPageEnd(d, start, limit)
        inside  == {r \in d.ranges : r[1] <= start /\ start < r[2] /\ r[2] - start <= limit}
        cut     == {r \in d.ranges : start < r[1] /\ r[1] < nominal /\ nominal < r[2]}
    IN IF nominal = d.length THEN nominal
       ELSE IF inside # {} THEN (CHOOSE r \in inside : TRUE)[2]
       ELSE IF cut # {} THEN LET r == CHOOSE r \in cut : TRUE
                             IN IF r[2] - start <= limit THEN r[2] ELSE r[1]
       ELSE nominal

\* The keys in the order of their last use, once k was used or is gone.
Without(keys, k) ==
    IF k \in Range(keys) THEN RemoveAt(keys, CHOOSE i \in DOMAIN keys : keys[i] = k) ELSE keys

\* What the caller of k has after a page from start to end of version v.
Given(k, v, start, end, limit) ==
    LET before == IF start = 0 THEN [Unseen EXCEPT !.version = v] ELSE seen[k]
        d == Documents[v]
    IN [version |-> v, upto |-> end,
        cuts    |-> before.cuts \cup (IF end < d.length THEN {<<start, end, limit>>} ELSE {}),
        stop    |-> end = d.length,
        crossed |-> before.crossed,
        joins   |-> before.joins /\ before.version = v /\ before.upto = start
                    /\ (~before.stop \/ start = 0)]

\* pageSnapshot: the next page of a session; the last one ends it.
PageSnapshot(k, s, limit, keys) ==
    LET end == StructuralPageEnd(Documents[s.version], s.offset, limit)
        more == end < Documents[s.version].length
    IN /\ session' = [[x \in Key |-> IF x \in Range(keys) THEN session[x] ELSE None]
                         EXCEPT ![k] = IF more THEN [s EXCEPT !.offset = end] ELSE None]
       /\ recency' = IF more THEN Append(Without(keys, k), k) ELSE Without(keys, k)
       /\ seen' = [seen EXCEPT ![k] = Given(k, s.version, s.offset, end, limit)]

\* pruneSnapshotPageSessions: those unread for long, then the ones used longest
\* ago until there is room for another.
Pruned(keys, expired) ==
    LET kept == SubSeq(keys, expired + 1, Len(keys))
        over == IF Len(kept) < MaxSessions THEN 0 ELSE Len(kept) - MaxSessions + 1
    IN SubSeq(kept, over + 1, Len(kept))
Expired == IF Expiring THEN 0..Len(recency) ELSE {0}

(***************************************************************************)
(* A read                                                                  *)
(***************************************************************************)
Forget(keys) == session' = [k \in Key |-> IF k \in Range(keys) THEN session[k] ELSE None]

BeginSnapshot(r, k, limit, expired) ==
    /\ read[r].at = "idle" /\ begun < MaxReads
    /\ begun' = begun + 1
    /\ LET keys == Pruned(recency, expired)
       IN IF k \in Range(keys)
          THEN /\ PageSnapshot(k, session[k], limit, keys)
               /\ UNCHANGED read
          ELSE /\ read' = [read EXCEPT ![r] =
                    [at |-> IF k \in RoomBound THEN "producer" ELSE "own",
                     key |-> k, limit |-> limit, version |-> 0]]
               /\ recency' = keys /\ Forget(keys)
               /\ UNCHANGED seen
    /\ UNCHANGED file

Loads(r, v) == read' = [read EXCEPT ![r].at = "loaded", ![r].version = v]

\* readMaterializedBootstrap: the caller's own file, or the common one.
ReadOwn(r) ==
    /\ read[r].at = "own"
    /\ IF file.own # 0 THEN Loads(r, file.own)
       ELSE read' = [read EXCEPT ![r].at = "common"]
    /\ UNCHANGED <<file, session, recency, begun, seen>>
ReadCommon(r) ==
    /\ read[r].at = "common"
    /\ Loads(r, file.common)
    /\ UNCHANGED <<file, session, recency, begun, seen>>

\* roomBoundV3BootstrapPayload: the producer makes a document, or fails.
AskProducer(r) ==
    /\ read[r].at = "producer"
    /\ \E v \in Version : Loads(r, v)
    /\ UNCHANGED <<file, session, recency, begun, seen>>
ReadFails(r) ==
    /\ read[r].at \in {"own", "common", "producer"}
    /\ read' = [read EXCEPT ![r] = Idle]
    /\ UNCHANGED <<file, session, recency, begun, seen>>

\* The checks of schema, end marker and coverage.
Accept(d) == d.valid

\* Mutant of NewSession: a new document is read on where the old one was left.
KeepsOffset(k, v) == [version |-> v, offset |-> session[k].offset]

\* The document is there: it is given whole, or has a session of its own, in the place
\* of any that another read of this key has begun meanwhile.
NewSession(k, v) == [version |-> v, offset |-> 0]
Loaded(r, expired) ==
    /\ read[r].at = "loaded"
    /\ read' = [read EXCEPT ![r] = Idle]
    /\ LET k == read[r].key
           v == read[r].version
           d == Documents[v]
           keys == Pruned(recency, expired)
       IN IF ~Accept(d) THEN UNCHANGED <<session, recency, seen>>
          ELSE IF d.length <= read[r].limit
               THEN /\ seen' = [seen EXCEPT ![k] = [Given(k, v, 0, d.length, read[r].limit)
                                                       EXCEPT !.crossed = session[k] # None]]
                    /\ UNCHANGED <<session, recency>>
               ELSE PageSnapshot(k, NewSession(k, v), read[r].limit, keys)
    /\ UNCHANGED <<file, begun>>

\* The producer puts a newer version in the place of a file, or the first one.
Publish ==
    /\ \E f \in {"common", "own"} : \E v \in Version :
          v > file[f] /\ file' = [file EXCEPT ![f] = v]
    /\ UNCHANGED <<session, recency, read, begun, seen>>

ReadSteps ==
    \/ \E r \in Reads : ReadOwn(r) \/ ReadCommon(r) \/ AskProducer(r) \/ ReadFails(r)
    \/ \E r \in Reads, expired \in Expired : Loaded(r, expired)
SnapshotNext == ReadSteps \/ Publish

(***************************************************************************)
(* Properties                                                              *)
(***************************************************************************)
\* The pages a caller is given under one key join up: from each first page on they
\* are of one version, none is skipped, and a caller told to stop has had them all,
\* although reads overlap, documents change in between and sessions are dropped
\* for their age or for room.  (Not so when a read was given its document whole while
\* a session that an overlapping read had begun under the key was open: the session
\* stays, and the next read goes on with it.)
PagesJoinUp ==
    \A k \in Key : seen[k].version # 0 =>
        /\ seen[k].crossed \/ seen[k].joins
        /\ Documents[seen[k].version].valid
        /\ seen[k].stop => seen[k].upto = Documents[seen[k].version].length

\* Not so (README, seen on the way): pages that join up also for overlapping reads.
OverlappingReadsJoinUp == \A k \in Key : seen[k].joins

\* A page ends inside a range that should stay whole only if what the page had to
\* hold of it was more than a page, whatever sizes were asked for before.
RangesStayWhole ==
    \A k \in Key : \A cut \in seen[k].cuts :
        \A range \in Documents[seen[k].version].ranges :
            range[1] < cut[2] /\ cut[2] < range[2] =>
                cut[1] >= range[1] /\ range[2] - cut[1] > cut[3]

\* The sessions are those used last, and there is room for no more than the limit.
SnapshotTypes ==
    /\ Len(recency) <= MaxSessions /\ IsInjective(recency)
    /\ \A k \in Key : session[k] # None <=> k \in Range(recency)
    /\ file \in [{"common", "own"} -> 0..Len(Documents)]
=============================================================================
