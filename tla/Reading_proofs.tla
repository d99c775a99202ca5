----------------------------- MODULE Reading_proofs -----------------------------
(***************************************************************************)
(* Proofs about what is read of processes that have ended and of documents, *)
(* for any servers, pages, crashes, keys, documents, page sizes, sessions,  *)
(* calls, callers, commands and environments:                              *)
(*   - Receipts: types, that a receipt once written stays readable, and that *)
(*     who is told to stop has had every page;                             *)
(*   - SnapshotPages, as ToolCalls uses it: the sessions, and that pages    *)
(*     join up and keep ranges whole;                                      *)
(*   - ToolCalls: that the alias follows its reader, and that no client is  *)
(*     closed under a call;                                                *)
(*   - ProcessEvidence: that what is told of a process is what it wrote;     *)
(*   - ToolContracts: that no accepted call is lost to a schema.             *)
(* The theorems are about the specifications of those modules, which have   *)
(* every step of MCReading that they concern.                              *)
(***************************************************************************)
EXTENDS MCReading, Sequences, FiniteSetTheorems, SequenceTheorems, TLAPS


-----------------------------------------------------------------------------
(* Receipts                                                                *)

\* What a prune is about to unlink is in the archive, and of a receipt that was written
\* there is one copy at least, until the archive is old enough to go.
Copies ==
  age # "expired" =>
    /\ \A s \in Server : prune[s].at = "unlink" => archived
    /\ kept => hot \/ archived

\* A call that began when the receipt was written has not been told that there is none,
\* and one that comes to the archive finds a copy in it.
Found(s) ==
  /\ call[s].at # "idle" => call[s].answer = "none"
  /\ call[s].at # "idle" /\ call[s].sure => kept /\ age # "expired"
  /\ call[s].at = "archive" /\ call[s].sure => archived
  /\ call[s].sure => call[s].answer # "unknown"

\* What a call has measured is all or nothing, and what is before the cursor, or before
\* the end, has been in a page.
Paged(s) ==
  /\ call[s].answer = "stop" => cursor[s] = 0
  /\ call[s].at \in {"hot", "archive", "measure", "totals"} => call[s].total = 0
  /\ call[s].at = "slice" => call[s].total = Pages
  /\ call[s].own => ~call[s].kill
  /\ ~disturbed[s] => 1 .. cursor[s] \subseteq seen[s] /\ (call[s].answer = "stop" => seen[s] = Page)

PruneState == [at : {"idle", "stat", "read", "archive", "unlink", "days"}, old : BOOLEAN]

\* The inductive invariant.
ReceiptInv == TypeOK /\ Copies /\ \A s \in Server : Found(s) /\ Paged(s)

\* No call is a state of a call.
LEMMA IdleCall == Idle \in CallState
BY ConstantsAssumption DEF Idle, CallState

\* The process has just ended, and nothing of it is read yet.
LEMMA ReceiptInitially == Init => ReceiptInv
<1> SUFFICES ASSUME Init PROVE ReceiptInv
  OBVIOUS
<1>1. TypeOK
  <2>2. call \in [Server -> CallState]
    BY IdleCall DEF Init
  <2>3. cursor \in [Server -> 0 .. Pages] /\ seen \in [Server -> SUBSET Page]
    BY ConstantsAssumption DEF Init
  <2>4. entry \in BOOLEAN /\ hot \in BOOLEAN /\ archived \in BOOLEAN /\ spools \in BOOLEAN /\ kept \in BOOLEAN
    BY DEF Init
  <2>5. disturbed \in [Server -> BOOLEAN]
    BY DEF Init
  <2>6. QED
    BY <2>2, <2>3, <2>4, <2>5 DEF Init, TypeOK, NotPruning
<1>2. Copies /\ \A s \in Server : Found(s) /\ Paged(s)
  BY DEF Init, Copies, Found, Paged, NotPruning, Idle
<1>3. QED
  BY <1>1, <1>2 DEF ReceiptInv

\* The fields of a call are typed, and so are those of one that was answered.
LEMMA Answered ==
  ASSUME TypeOK, NEW s \in Server, NEW what \in {"none", "unknown", "more", "stop"}, Answer(s, what)
  PROVE  /\ call' \in [Server -> CallState]
         /\ call'[s].at = "idle" /\ call'[s].answer = what /\ call'[s].sure = call[s].sure
         /\ call'[s].own = FALSE /\ call'[s].kill = FALSE
         /\ \A u \in Server \ {s} : call'[u] = call[u]
<1>1. call[s].sure \in BOOLEAN
  BY DEF TypeOK, CallState
<1>2. [Idle EXCEPT !.sure = call[s].sure, !.answer = what] \in CallState
  BY <1>1, IdleCall DEF CallState
<1>3. QED
  BY <1>2 DEF Answer, TypeOK, Idle

\* What a page adds to what the caller has.
LEMMA PageKept ==
  ASSUME TypeOK, NEW s \in Server, NEW pages \in SUBSET Page, NEW stop, Give(s, pages, stop)
  PROVE  /\ seen' \in [Server -> SUBSET Page] /\ disturbed' \in [Server -> BOOLEAN]
         /\ seen'[s] = IF call[s].kill THEN seen[s] ELSE seen[s] \cup pages
         /\ disturbed[s] => disturbed'[s]
         /\ call[s].total = 0 /\ pages # Page => disturbed'[s]
         /\ \A u \in Server \ {s} : seen'[u] = seen[u] /\ disturbed'[u] = disturbed[u]
<1>1. seen' \in [Server -> SUBSET Page]
  BY DEF Give, TypeOK
<1>2. disturbed' \in [Server -> BOOLEAN]
  BY DEF Give, TypeOK
<1>3. disturbed'[s] = (disturbed[s] \/ (call[s].kill /\ pages # {}) \/ (call[s].total = 0 /\ ~(pages = Page)))
  BY DEF Give, TypeOK
<1>4. QED
  BY <1>1, <1>2, <1>3 DEF Give, TypeOK

-----------------------------------------------------------------------------

\* What a step of one server's call leaves alone.
LEMMA OtherCalls ==
  ASSUME NEW s \in Server, \A u \in Server : Found(u) /\ Paged(u),
         UNCHANGED <<age, archived, kept>>,
         \A u \in Server \ {s} : /\ call'[u] = call[u] /\ cursor'[u] = cursor[u]
                                 /\ seen'[u] = seen[u] /\ disturbed'[u] = disturbed[u]
  PROVE  \A u \in Server \ {s} : Found(u)' /\ Paged(u)'
BY DEF Found, Paged

\* A page of all that was measured, or the answer that there is nothing.
LEMMA PageGiven ==
  ASSUME ReceiptInv, NEW s \in Server, call[s].at # "idle",
         NEW n \in {0, Pages}, GivePage(s, n), call[s].total = n,
         UNCHANGED <<age, evidence, persist, prune, kept>>
  PROVE  ReceiptInv'
<1> USE DEF ReceiptInv
<1> DEFINE from == IF cursor[s] < n THEN cursor[s] ELSE n
           next == IF from < n THEN from + 1 ELSE n
           pages == {p \in Page : from < p /\ p <= next}
           stop == next = n
<1>1. cursor[s] \in 0 .. Pages /\ Pages \in Nat \ {0}
  BY ConstantsAssumption DEF TypeOK
<1>2. from \in 0 .. Pages /\ next \in 0 .. Pages
  BY <1>1
<1>3. Give(s, pages, stop) /\ cursor' = [cursor EXCEPT ![s] = IF next = n THEN 0 ELSE next]
  BY DEF GivePage
<1>4. pages \in SUBSET Page /\ stop \in BOOLEAN
  OBVIOUS
<1> DEFINE what == IF call[s].kill THEN "none" ELSE IF stop THEN "stop" ELSE "more"
<1>5. /\ Answer(s, what)
      /\ seen' \in [Server -> SUBSET Page] /\ disturbed' \in [Server -> BOOLEAN]
      /\ seen'[s] = IF call[s].kill THEN seen[s] ELSE seen[s] \cup pages
      /\ disturbed[s] => disturbed'[s]
      /\ call[s].kill => pages = {} \/ disturbed'[s]
      /\ call[s].total = 0 /\ pages # Page => disturbed'[s]
      /\ \A u \in Server \ {s} : seen'[u] = seen[u] /\ disturbed'[u] = disturbed[u]
  <2>1. TypeOK /\ Give(s, pages, stop)
    BY <1>3
  <2>2. Answer(s, what)
    BY <2>1 DEF Give
  <2> HIDE DEF pages, stop, what, ReceiptInv
  <2>3. seen' \in [Server -> SUBSET Page]
    BY <1>4, <2>1, PageKept
  <2>4. disturbed' \in [Server -> BOOLEAN]
    BY <1>4, <2>1, PageKept
  <2>5. seen'[s] = IF call[s].kill THEN seen[s] ELSE seen[s] \cup pages
    BY <1>4, <2>1, PageKept
  <2>6. disturbed[s] => disturbed'[s]
    BY <1>4, <2>1, PageKept
  <2>7. \A u \in Server \ {s} : seen'[u] = seen[u] /\ disturbed'[u] = disturbed[u]
    BY <1>4, <2>1, PageKept
  <2>8. call[s].kill => pages = {} \/ disturbed'[s]
    BY <2>1 DEF Give, TypeOK
  <2>9. call[s].total = 0 /\ pages # Page => disturbed'[s]
    BY <1>4, <2>1, PageKept
  <2>10. QED
    BY <2>2, <2>3, <2>4, <2>5, <2>6, <2>7, <2>8, <2>9
<1>6. what \in {"none", "unknown", "more", "stop"}
  OBVIOUS
<1>7. /\ call' \in [Server -> CallState]
      /\ call'[s].at = "idle" /\ call'[s].answer = what /\ call'[s].sure = call[s].sure
      /\ call'[s].own = FALSE /\ call'[s].kill = FALSE
      /\ \A u \in Server \ {s} : call'[u] = call[u]
  <2> HIDE DEF what
  <2> QED
    BY <1>5, <1>6, Answered
<1>8. cursor' \in [Server -> 0 .. Pages] /\ cursor'[s] = IF next = n THEN 0 ELSE next
  BY <1>1, <1>2, <1>3 DEF TypeOK
<1>9. TypeOK'
  BY <1>5, <1>7, <1>8 DEF TypeOK, evidence
<1>10. Copies'
  BY DEF Copies, evidence
<1>11. Found(s)'
  BY <1>7 DEF Found, evidence
<1>12. Paged(s)'
  <2>1. n = 0 => pages # Page
    BY <1>1 DEF Page
  <2>2. n = 0 => disturbed'[s]
    BY <2>1, <1>5
  <2>3. CASE disturbed'[s]
    BY <2>3, <1>7, <1>8 DEF Paged
  <2>4. CASE ~disturbed'[s]
    <3>1. n = Pages /\ 1 .. cursor[s] \subseteq seen[s]
      BY <2>2, <2>4, <1>5 DEF Paged
    <3>2. CASE call[s].kill
      <4>1. pages = {}
        BY <2>4, <3>2, <1>5
      <4>2. from = Pages /\ next = Pages
        BY <3>1, <4>1, <1>1, <1>2 DEF Page
      <4>3. QED
        BY <3>1, <3>2, <4>2, <1>5, <1>7, <1>8 DEF Paged
    <3>3. CASE ~call[s].kill
      <4>1. from = cursor[s] /\ 1 .. next \subseteq (1 .. from) \cup pages
        BY <3>1, <1>1, <1>2 DEF Page
      <4>2. 1 .. next \subseteq seen'[s]
        BY <3>1, <3>3, <4>1, <1>5
      <4>3. seen'[s] \subseteq Page
        BY <1>5
      <4>4. next = n => seen'[s] = Page
        BY <3>1, <4>2, <4>3 DEF Page
      <4>5. 1 .. cursor'[s] \subseteq seen'[s]
        BY <4>2, <1>8, <1>2
      <4>6. QED
        BY <3>3, <4>4, <4>5, <1>7, <1>8 DEF Paged
    <3>4. QED
      BY <3>2, <3>3
  <2>5. QED
    BY <2>3, <2>4
<1>13. \A u \in Server \ {s} : Found(u)' /\ Paged(u)'
  <2>1. \A u \in Server \ {s} : cursor'[u] = cursor[u]
    BY <1>3 DEF TypeOK
  <2>2. QED
    BY <2>1, <1>5, <1>7, OtherCalls DEF evidence
<1>14. QED
  BY <1>9, <1>10, <1>11, <1>12, <1>13

-----------------------------------------------------------------------------

\* Steps of the directory: they leave every call as it is.
LEMMA DirectoryStep ==
  ASSUME ReceiptInv,
         \/ PersistHot \/ PersistArchive \/ TimePasses \/ PruneCompleted \/ PruneSpools
         \/ \E s \in Server : Pruning(s)
  PROVE  ReceiptInv'
<1> USE DEF ReceiptInv, evidence, ghosts
<1>1. UNCHANGED <<call, cursor, seen, disturbed>>
  BY DEF PersistHot, PersistArchive, TimePasses, PruneCompleted, PruneSpools, Pruning, BeginPrune, PruneStat,
         PruneRead, PruneArchive, PruneUnlink, PruneDays
<1>7. kept => kept'
  BY DEF PersistHot, PersistArchive, TimePasses, PruneCompleted, PruneSpools, Pruning, BeginPrune, PruneStat,
         PruneRead, PruneArchive, PruneUnlink, PruneDays
<1>2. TypeOK'
  <2>1. CASE PersistHot \/ PersistArchive \/ TimePasses \/ PruneCompleted \/ PruneSpools
    BY <2>1 DEF TypeOK, PersistHot, PersistArchive, TimePasses, PruneCompleted, PruneSpools
  <2>2. ASSUME NEW s \in Server, Pruning(s) PROVE TypeOK'
    <3>1. \A place \in {"stat", "read", "archive", "unlink", "days"} : PruneAt(s, place) => prune' \in [Server -> PruneState]
      BY DEF TypeOK, PruneAt, PruneState
    <3>2. prune' \in [Server -> PruneState]
      <4>1. CASE PruneStat(s) \/ PruneDays(s)
        <5>1. \A old \in BOOLEAN, place \in {"idle", "read", "days"} : [at |-> place, old |-> old] \in PruneState
          BY DEF PruneState
        <5>2. (age # "fresh") \in BOOLEAN /\ FALSE \in BOOLEAN
          OBVIOUS
        <5>3. \E new \in PruneState : prune' = [prune EXCEPT ![s] = new]
          BY <4>1, <5>1, <5>2 DEF PruneStat, PruneDays, NotPruning
        <5>4. QED
          BY <5>3 DEF TypeOK, PruneState
      <4>2. CASE BeginPrune(s) \/ PruneRead(s) \/ PruneArchive(s) \/ PruneUnlink(s)
        <5>1. \E place \in {"stat", "read", "archive", "unlink", "days"} : PruneAt(s, place)
          BY <4>2 DEF BeginPrune, PruneRead, PruneArchive, PruneUnlink
        <5>2. QED
          BY <3>1, <5>1
      <4>3. QED
        BY <2>2, <4>1, <4>2 DEF Pruning
    <3>3. archived' \in BOOLEAN /\ hot' \in BOOLEAN
      BY <2>2 DEF TypeOK, Pruning, BeginPrune, PruneStat, PruneRead, PruneArchive, PruneUnlink, PruneDays
    <3>4. UNCHANGED <<age, entry, spools, persist, call, cursor, seen, kept, disturbed>>
      BY <2>2 DEF Pruning, BeginPrune, PruneStat, PruneRead, PruneArchive, PruneUnlink, PruneDays
    <3>5. QED
      BY <3>2, <3>3, <3>4 DEF TypeOK, PruneState
  <2>3. QED
    BY <2>1, <2>2
<1>3. age' # "expired" => age # "expired" /\ (archived => archived')
  BY DEF TypeOK, PersistHot, PersistArchive, TimePasses, PruneCompleted, PruneSpools, Pruning, BeginPrune, PruneStat,
         PruneRead, PruneArchive, PruneUnlink, PruneDays
<1>4. Copies'
  <2>1. CASE PersistHot \/ PersistArchive \/ TimePasses \/ PruneCompleted \/ PruneSpools
    BY <2>1, <1>3 DEF Copies, PersistHot, PersistArchive, TimePasses, PruneCompleted, PruneSpools
  <2>2. ASSUME NEW s \in Server, Pruning(s) PROVE Copies'
    BY <2>2, <1>3 DEF Copies, TypeOK, Pruning, BeginPrune, PruneStat, PruneRead, PruneArchive, PruneUnlink, PruneDays,
                PruneAt, NotPruning
  <2>3. QED
    BY <2>1, <2>2
<1>5. ASSUME NEW s \in Server PROVE Found(s)' /\ Paged(s)'
  <2>1. call[s].at # "idle" => age' = age \/ age' # "expired"
    BY DEF PersistHot, PersistArchive, TimePasses, PruneCompleted, PruneSpools, Pruning, BeginPrune, PruneStat,
           PruneRead, PruneArchive, PruneUnlink, PruneDays
  <2>2. QED
    BY <2>1, <1>1, <1>3, <1>7 DEF Found, Paged
<1>6. QED
  BY <1>2, <1>4, <1>5

\* A call begins; after the end the pages begin anew.
LEMMA CallBegins ==
  ASSUME ReceiptInv, NEW s \in Server, Begin(s)
  PROVE  ReceiptInv'
<1> USE DEF ReceiptInv, evidence
<1>1. PICK kill \in BOOLEAN :
        LET own == s = Owner /\ entry /\ age = "fresh"
        IN /\ call' = [call EXCEPT ![s] = [Idle EXCEPT !.at = IF own THEN "measure" ELSE "hot", !.kill = kill,
                                                   !.own = own, !.sure = kept /\ age # "expired"]]
           /\ ~(own /\ kill)
  BY DEF Begin
<1> DEFINE own == s = Owner /\ entry /\ age = "fresh"
           fresh == [Idle EXCEPT !.at = IF own THEN "measure" ELSE "hot", !.kill = kill,
                                 !.own = own, !.sure = kept /\ age # "expired"]
<1>2. fresh \in CallState
  <2>1. own \in BOOLEAN /\ (kept /\ age # "expired") \in BOOLEAN
    OBVIOUS
  <2> HIDE DEF own
  <2>2. QED
    BY <2>1, IdleCall DEF CallState
<1>3. /\ call' \in [Server -> CallState] /\ call'[s] = fresh
      /\ \A u \in Server \ {s} : call'[u] = call[u]
  BY <1>1, <1>2 DEF TypeOK
<1>4. /\ seen' \in [Server -> SUBSET Page]
      /\ seen'[s] = IF call[s].answer = "stop" THEN {} ELSE seen[s]
      /\ \A u \in Server \ {s} : seen'[u] = seen[u]
  BY DEF Begin, TypeOK, Afresh
<1>5. disturbed' \in [Server -> BOOLEAN] /\ \A u \in Server \ {s} : disturbed'[u] = disturbed[u]
  BY DEF Begin, TypeOK
<1>6. call[s].answer # "stop" => (disturbed[s] => disturbed'[s])
  BY DEF Begin, TypeOK, Afresh
<1>7. UNCHANGED <<age, entry, hot, archived, spools, persist, prune, cursor, kept>>
  BY DEF Begin
<1>8. TypeOK'
  BY <1>3, <1>4, <1>5, <1>7 DEF TypeOK
<1>9. Copies'
  BY <1>7 DEF Copies
<1>10. Found(s)'
  <2>1. fresh.answer = "none" /\ fresh.at \in {"hot", "measure"}
    BY DEF Idle
  <2>2. fresh.sure => kept /\ age # "expired"
    BY DEF Idle
  <2> HIDE DEF fresh
  <2>3. QED
    BY <2>1, <2>2, <1>3, <1>7 DEF Found
<1>11. Paged(s)'
  <2>1. fresh.answer = "none" /\ fresh.at \in {"hot", "measure"} /\ fresh.total = 0 /\ (fresh.own => ~fresh.kill)
    BY <1>1 DEF Idle
  <2>2. call[s].answer = "stop" => 1 .. cursor[s] = {}
    BY DEF Paged
  <2> HIDE DEF fresh
  <2>3. QED
    BY <2>1, <2>2, <1>3, <1>4, <1>6, <1>7 DEF Paged
<1>12. \A u \in Server \ {s} : Found(u)' /\ Paged(u)'
  BY <1>3, <1>4, <1>5, <1>7, OtherCalls
<1>13. QED
  BY <1>8, <1>9, <1>10, <1>11, <1>12

\* A server dies: what it knew is gone, and its call with it.
LEMMA ServerDies ==
  ASSUME ReceiptInv, NEW s \in Server, Crash(s)
  PROVE  ReceiptInv'
<1> USE DEF ReceiptInv, evidence
<1>1. UNCHANGED <<age, hot, archived, spools, kept>>
  BY DEF Crash
<1>2. /\ call' \in [Server -> CallState] /\ call'[s] = Idle /\ cursor'[s] = 0
      /\ cursor' \in [Server -> 0 .. Pages] /\ seen' \in [Server -> SUBSET Page]
      /\ \A u \in Server \ {s} : call'[u] = call[u] /\ cursor'[u] = cursor[u] /\ seen'[u] = seen[u]
  BY IdleCall, ConstantsAssumption DEF Crash, TypeOK
<1>3. /\ prune' \in [Server -> PruneState] /\ prune'[s].at = "idle"
      /\ \A u \in Server \ {s} : prune'[u] = prune[u]
  BY DEF Crash, TypeOK, PruneState, NotPruning
<1>4. disturbed' \in [Server -> BOOLEAN] /\ \A u \in Server \ {s} : disturbed'[u] = disturbed[u]
  BY DEF Crash, TypeOK
<1>5. entry' \in BOOLEAN /\ persist' \in {"hot", "archive", "done"}
  BY DEF Crash, TypeOK
<1>6. TypeOK'
  BY <1>1, <1>2, <1>3, <1>4, <1>5 DEF TypeOK, PruneState
<1>7. Copies'
  BY <1>1, <1>3 DEF Copies
<1>8. Found(s)' /\ Paged(s)'
  BY <1>2 DEF Found, Paged, Idle
<1>9. \A u \in Server \ {s} : Found(u)' /\ Paged(u)'
  BY <1>1, <1>2, <1>4, OtherCalls
<1>10. QED
  BY <1>6, <1>7, <1>8, <1>9

\* The receipt or a copy of it is looked for.
LEMMA CallLooks ==
  ASSUME ReceiptInv, NEW s \in Server, FindHot(s) \/ FindArchived(s)
  PROVE  ReceiptInv'
<1> USE DEF ReceiptInv, evidence, ghosts
<1>1. UNCHANGED <<age, entry, hot, archived, spools, persist, prune, cursor, seen, kept, disturbed>>
  BY DEF FindHot, FindArchived
<1>2. Copies'
  BY <1>1 DEF Copies
<1>3. CASE FindArchived(s) /\ ~archived
  <2>1. Answer(s, "unknown")
    BY <1>3 DEF FindArchived
  <2>2. /\ call' \in [Server -> CallState]
        /\ call'[s].at = "idle" /\ call'[s].answer = "unknown" /\ call'[s].sure = call[s].sure
        /\ call'[s].own = FALSE /\ call'[s].kill = FALSE
        /\ \A u \in Server \ {s} : call'[u] = call[u]
    BY <2>1, Answered
  <2>3. ~call[s].sure
    BY <1>3 DEF FindArchived, Found
  <2>4. Found(s)' /\ Paged(s)'
    BY <2>2, <2>3, <1>1 DEF Found, Paged
  <2>5. \A u \in Server \ {s} : Found(u)' /\ Paged(u)'
    BY <1>1, <2>2, OtherCalls
  <2>6. QED
    BY <1>1, <1>2, <2>2, <2>4, <2>5 DEF TypeOK
<1>4. CASE FindHot(s) \/ archived
  <2>1. PICK place \in {"measure", "archive"} :
          /\ call' = [call EXCEPT ![s].at = place]
          /\ place = "archive" => ~hot /\ call[s].at = "hot"
    BY <1>4 DEF FindHot, FindArchived
  <2>2. call[s].at \in {"hot", "archive"}
    BY DEF FindHot, FindArchived
  <2>3. call' \in [Server -> CallState]
    <3>1. [call[s] EXCEPT !.at = place] \in CallState
      BY DEF TypeOK, CallState
    <3>2. QED
      BY <2>1, <3>1 DEF TypeOK
  <2>4. /\ call'[s].at = place /\ call'[s].answer = call[s].answer /\ call'[s].sure = call[s].sure
        /\ call'[s].total = call[s].total /\ call'[s].own = call[s].own /\ call'[s].kill = call[s].kill
        /\ \A u \in Server \ {s} : call'[u] = call[u]
    BY <2>1 DEF TypeOK, CallState
  <2>5. Found(s)'
    BY <1>1, <2>1, <2>2, <2>4 DEF Found, Copies
  <2>6. Paged(s)'
    BY <1>1, <2>2, <2>4 DEF Paged
  <2>7. \A u \in Server \ {s} : Found(u)' /\ Paged(u)'
    BY <1>1, <2>4, OtherCalls
  <2>8. QED
    BY <1>1, <1>2, <2>3, <2>5, <2>6, <2>7 DEF TypeOK
<1>5. QED
  BY <1>3, <1>4

\* A call goes on to read what it has measured.
LEMMA CallGoesOn ==
  ASSUME ReceiptInv, NEW s \in Server, call[s].at \in {"measure", "totals"},
         NEW place \in {"totals", "slice"}, NEW n \in {0, Pages}, place = "slice" => n = Pages,
         place = "totals" => n = 0,
         call' = [call EXCEPT ![s].at = place, ![s].total = n],
         UNCHANGED <<age, evidence, persist, prune, cursor, seen, kept, disturbed>>
  PROVE  ReceiptInv'
<1> USE DEF ReceiptInv, evidence
<1>1. call' \in [Server -> CallState]
  <2>1. n \in 0 .. Pages
    BY ConstantsAssumption
  <2>2. [call[s] EXCEPT !.at = place, !.total = n] \in CallState
    BY <2>1 DEF TypeOK, CallState
  <2>3. call' = [call EXCEPT ![s] = [call[s] EXCEPT !.at = place, !.total = n]]
    BY DEF TypeOK
  <2>4. QED
    BY <2>2, <2>3 DEF TypeOK
<1>2. /\ call'[s].at = place /\ call'[s].answer = call[s].answer /\ call'[s].sure = call[s].sure
      /\ call'[s].total = n /\ call'[s].own = call[s].own /\ call'[s].kill = call[s].kill
      /\ \A u \in Server \ {s} : call'[u] = call[u]
  BY DEF TypeOK, CallState
<1>3. Found(s)'
  BY <1>2 DEF Found
<1>4. Paged(s)'
  BY <1>2 DEF Paged
<1>5. \A u \in Server \ {s} : Found(u)' /\ Paged(u)'
  BY <1>2, OtherCalls
<1>6. QED
  BY <1>1, <1>3, <1>4, <1>5 DEF TypeOK, Copies

\* What fits in one page is returned whole.
LEMMA CallMeasures ==
  ASSUME ReceiptInv, NEW s \in Server, Measure(s)
  PROVE  ReceiptInv'
<1> USE DEF ReceiptInv, evidence
<1> DEFINE n == Measured
<1>1. n \in {0, Pages} /\ Pages \in Nat \ {0} /\ cursor[s] \in 0 .. Pages
  BY ConstantsAssumption DEF Measured, TypeOK
<1>2. call[s].at = "measure" /\ call[s].total = 0 /\ UNCHANGED <<age, entry, hot, archived, spools, persist, prune, kept>>
  BY DEF Measure, Paged
<1>3. CASE cursor[s] > 0 \/ n > 1
  <2>1. call' = [call EXCEPT ![s].at = "totals"] /\ UNCHANGED <<cursor, seen, disturbed>>
    BY <1>3 DEF Measure
  <2>2. call' = [call EXCEPT ![s].at = "totals", ![s].total = 0]
    BY <1>2, <2>1 DEF TypeOK, CallState
  <2>3. QED
    BY <1>2, <2>1, <2>2, CallGoesOn
<1>4. CASE cursor[s] = 0 /\ ~(n > 1) /\ ~call[s].own /\ n # 0
  <2>1. call' = [call EXCEPT ![s].at = "slice", ![s].total = Pages] /\ UNCHANGED <<cursor, seen, disturbed>>
    BY <1>1, <1>4 DEF Measure
  <2>2. QED
    BY <1>2, <2>1, CallGoesOn
<1>5. CASE cursor[s] = 0 /\ ~(n > 1) /\ (call[s].own \/ n = 0)
  <2>1. PICK pages \in {{Pages}, {}} :
          Give(s, pages, TRUE) /\ UNCHANGED cursor /\ (pages = {} => ~call[s].own)
    <3>1. CASE call[s].own
      <4>1. UNCHANGED cursor
        BY <1>1, <1>5, <3>1 DEF Measure
      <4>2. Give(s, {Pages}, TRUE)
        BY <1>1, <1>5, <3>1 DEF Measure, Give
      <4>3. QED
        BY <3>1, <4>1, <4>2
    <3>2. CASE ~call[s].own
      <4>1. UNCHANGED cursor
        BY <1>1, <1>5, <3>2 DEF Measure
      <4>2. Give(s, {}, TRUE)
        BY <1>1, <1>5, <3>2 DEF Measure, Give
      <4>3. QED
        BY <3>2, <4>1, <4>2
    <3>3. QED
      BY <3>1, <3>2
  <2> DEFINE what == IF call[s].kill THEN "none" ELSE "stop"
  <2>2. Answer(s, what) /\ pages \in SUBSET Page
    BY <1>1, <2>1 DEF Give, Page
  <2>3. what \in {"none", "unknown", "more", "stop"}
    OBVIOUS
  <2>4. /\ call' \in [Server -> CallState]
        /\ call'[s].at = "idle" /\ call'[s].answer = what /\ call'[s].sure = call[s].sure
        /\ call'[s].own = FALSE /\ call'[s].kill = FALSE
        /\ \A u \in Server \ {s} : call'[u] = call[u]
    <3> HIDE DEF what
    <3> QED
      BY <2>2, <2>3, Answered
  <2>5. /\ seen' \in [Server -> SUBSET Page] /\ disturbed' \in [Server -> BOOLEAN]
        /\ seen'[s] = IF call[s].kill THEN seen[s] ELSE seen[s] \cup pages
        /\ disturbed[s] => disturbed'[s]
        /\ call[s].total = 0 /\ pages # Page => disturbed'[s]
        /\ \A u \in Server \ {s} : seen'[u] = seen[u] /\ disturbed'[u] = disturbed[u]
    BY <2>1, <2>2, PageKept
  <2>6. TypeOK' /\ Copies'
    BY <1>2, <2>1, <2>4, <2>5 DEF TypeOK, Copies
  <2>7. Found(s)'
    BY <1>2, <2>4 DEF Found
  <2>8. ~disturbed'[s] => call[s].kill \/ seen'[s] = Page
    BY <1>2, <2>5 DEF TypeOK
  <2>9. Paged(s)'
    <3>1. cursor'[s] = 0 /\ 1 .. 0 = {}
      BY <1>5, <2>1
    <3>2. call[s].kill => what = "none"
      OBVIOUS
    <3> HIDE DEF what
    <3>3. QED
      BY <2>4, <2>8, <3>1, <3>2 DEF Paged
  <2>10. \A u \in Server \ {s} : Found(u)' /\ Paged(u)'
    BY <1>2, <2>1, <2>4, <2>5, OtherCalls
  <2>11. QED
    BY <2>6, <2>7, <2>9, <2>10
<1>6. QED
  BY <1>1, <1>3, <1>4, <1>5

\* What does not fit is measured again, and read.
LEMMA CallPages ==
  ASSUME ReceiptInv, NEW s \in Server, PageTotals(s) \/ Slice(s)
  PROVE  ReceiptInv'
<1>1. CASE PageTotals(s)
  <2>1. call[s].at = "totals" /\ call[s].total = 0 /\ UNCHANGED <<age, evidence, persist, prune, kept>>
    BY <1>1 DEF PageTotals, ReceiptInv, Paged
  <2>2. CASE spools
    BY <1>1, <2>1, <2>2, CallGoesOn DEF PageTotals
  <2>3. CASE ~spools
    BY <1>1, <2>1, <2>3, PageGiven DEF PageTotals
  <2>4. QED
    BY <2>2, <2>3
<1>2. CASE Slice(s)
  <2>1. call[s].at = "slice" /\ call[s].total = Pages /\ UNCHANGED <<age, evidence, persist, prune, kept>>
    BY <1>2 DEF Slice, ReceiptInv, Paged
  <2>2. CASE spools \/ ~call[s].own
    BY <1>2, <2>1, <2>2, PageGiven DEF Slice
  <2>3. CASE ~(spools \/ ~call[s].own)
    <3>1. Answer(s, "none") /\ UNCHANGED <<cursor, seen, disturbed>>
      BY <1>2, <2>3 DEF Slice
    <3>2. /\ call' \in [Server -> CallState]
          /\ call'[s].at = "idle" /\ call'[s].answer = "none" /\ call'[s].sure = call[s].sure
          /\ call'[s].own = FALSE /\ call'[s].kill = FALSE
          /\ \A u \in Server \ {s} : call'[u] = call[u]
      BY <3>1, Answered DEF ReceiptInv
    <3>3. Found(s)' /\ Paged(s)'
      BY <2>1, <3>1, <3>2 DEF Found, Paged, ReceiptInv
    <3>4. \A u \in Server \ {s} : Found(u)' /\ Paged(u)'
      BY <2>1, <3>1, <3>2, OtherCalls DEF ReceiptInv, evidence
    <3>5. QED
      BY <2>1, <3>1, <3>2, <3>3, <3>4 DEF ReceiptInv, TypeOK, Copies, evidence
  <2>4. QED
    BY <2>2, <2>3
<1>3. QED
  BY <1>1, <1>2

\* Every step of a server keeps the invariant.
LEMMA ReceiptStep == ReceiptInv /\ [Next]_vars => ReceiptInv'
<1> SUFFICES ASSUME ReceiptInv, [Next]_vars PROVE ReceiptInv'
  OBVIOUS
<1>1. CASE PersistHot \/ PersistArchive \/ TimePasses \/ PruneCompleted \/ PruneSpools
  BY <1>1, DirectoryStep
<1>2. ASSUME NEW s \in Server, Pruning(s) \/ Crash(s) PROVE ReceiptInv'
  BY <1>2, DirectoryStep, ServerDies
<1>3. ASSUME NEW s \in Reader, Begin(s) \/ GoOn(s) PROVE ReceiptInv'
  <2>1. s \in Server
    BY ConstantsAssumption
  <2>2. QED
    BY <1>3, <2>1, CallBegins, CallLooks, CallMeasures, CallPages DEF GoOn
<1>4. CASE UNCHANGED vars
  BY <1>4 DEF vars, evidence, ghosts, ReceiptInv, TypeOK, Copies, Found, Paged
<1>5. QED
  BY <1>1, <1>2, <1>3, <1>4 DEF Next

\* It holds in every state.
LEMMA ReceiptInvariant == Spec => []ReceiptInv
BY ReceiptInitially, ReceiptStep, PTL DEF Spec

\* The variables of Receipts have their types: the steps of writing, pruning and reading
\* are where the code can be, and no cursor is behind the last page.
THEOREM ReceiptTypes == Spec => []TypeOK
<1>1. ReceiptInv => TypeOK
  BY DEF ReceiptInv
<1>2. QED
  BY <1>1, ReceiptInvariant, PTL

\* A receipt that was written is in the directory or in the archive until the archive
\* expires (persistReceiptAsync, pruneReceiptsAsync), whatever servers prune it at once,
\* fail or die.
THEOREM CopyRemains == Spec => []EvidenceIsKept
<1>1. ReceiptInv => EvidenceIsKept
  BY DEF ReceiptInv, Copies, EvidenceIsKept
<1>2. QED
  BY <1>1, ReceiptInvariant, PTL

\* A call that begins when the receipt is written finds it, although prunes move it while
\* the call looks (receiptReadPaths), and a caller told to stop has had every page
\* (readAsync, pageSpoolOutputAsync).
THEOREM ReadToTheEnd == Spec => []ReadThroughAnyClone
<1>1. ReceiptInv => ReadThroughAnyClone
  BY DEF ReceiptInv, Found, Paged, ReadThroughAnyClone, ReadableThroughAnyClone, StopMeansAllPages
<1>2. QED
  BY <1>1, ReceiptInvariant, PTL

-----------------------------------------------------------------------------
(* The pages of a document                                                 *)

\* The end of a sequence of keys that differ.
LEMMA EndOfKeys ==
  ASSUME NEW K, NEW keys \in Seq(K), T!IsInjective(keys), NEW m \in 0 .. Len(keys)
  PROVE  LET end == SubSeq(keys, m + 1, Len(keys))
         IN /\ end \in Seq(K) /\ T!IsInjective(end) /\ Len(end) = Len(keys) - m
            /\ T!Range(end) \subseteq T!Range(keys)
<1> DEFINE end == SubSeq(keys, m + 1, Len(keys))
<1>1. /\ end \in Seq(K) /\ Len(end) = Len(keys) - m
      /\ \A i \in 1 .. Len(keys) - m : end[i] = keys[m + i]
  BY SubSeqProperties
<1> HIDE DEF end
<1>2. DOMAIN end = 1 .. Len(keys) - m /\ DOMAIN keys = 1 .. Len(keys)
  BY <1>1
<1>3. T!IsInjective(end)
  <2>1. ASSUME NEW i \in 1 .. Len(keys) - m, NEW j \in 1 .. Len(keys) - m, end[i] = end[j] PROVE i = j
    <3>1. end[i] = keys[m + i] /\ end[j] = keys[m + j]
      BY <1>1
    <3>2. m + i \in DOMAIN keys /\ m + j \in DOMAIN keys
      BY <1>2
    <3>3. m + i = m + j
      BY <2>1, <3>1, <3>2 DEF T!IsInjective
    <3>4. QED
      BY <3>3
  <2>2. QED
    BY <2>1, <1>2 DEF T!IsInjective
<1>4. T!Range(end) \subseteq T!Range(keys)
  BY <1>1, <1>2 DEF T!Range
<1>5. QED
  BY <1>1, <1>3, <1>4 DEF end

\* Without one of them.
LEMMA KeysWithout ==
  ASSUME NEW K, NEW keys \in Seq(K), T!IsInjective(keys), NEW k
  PROVE  LET rest == T!Without(keys, k)
         IN /\ rest \in Seq(K) /\ T!IsInjective(rest) /\ Len(rest) <= Len(keys)
            /\ k \in T!Range(keys) => Len(rest) = Len(keys) - 1
            /\ T!Range(rest) = T!Range(keys) \ {k}
<1>1. CASE k \notin T!Range(keys)
  BY <1>1 DEF T!Without
<1>2. CASE k \in T!Range(keys)
  <2> DEFINE i == CHOOSE j \in DOMAIN keys : keys[j] = k
             rest == T!RemoveAt(keys, i)
  <2>1. i \in 1 .. Len(keys) /\ keys[i] = k
    BY <1>2 DEF T!Range
  <2> HIDE DEF i
  <2> DEFINE before == SubSeq(keys, 1, i - 1)
             after == SubSeq(keys, i + 1, Len(keys))
  <2>2. /\ before \in Seq(K) /\ Len(before) = i - 1
        /\ \A j \in 1 .. i - 1 : before[j] = keys[j]
    BY <2>1, SubSeqProperties
  <2>3. /\ after \in Seq(K) /\ Len(after) = Len(keys) - i
        /\ \A j \in 1 .. Len(keys) - i : after[j] = keys[i + j]
    BY <2>1, SubSeqProperties
  <2>a. rest = before \o after
    BY DEF T!RemoveAt
  <2> HIDE DEF before, after, rest
  <2>4. rest \in Seq(K) /\ Len(rest) = Len(keys) - 1
    BY <2>1, <2>2, <2>3, <2>a
  <2>5. \A j \in 1 .. Len(keys) - 1 : rest[j] = IF j < i THEN keys[j] ELSE keys[j + 1]
    <3>1. ASSUME NEW j \in 1 .. Len(keys) - 1 PROVE rest[j] = IF j < i THEN keys[j] ELSE keys[j + 1]
      <4>1. rest[j] = IF j <= Len(before) THEN before[j] ELSE after[j - Len(before)]
        BY <2>1, <2>2, <2>3, <2>a, ConcatProperties
      <4>2. CASE j < i
        BY <4>1, <4>2, <2>1, <2>2
      <4>3. CASE j >= i
        <5>1. j - (i - 1) \in 1 .. Len(keys) - i /\ i + (j - (i - 1)) = j + 1
          BY <2>1, <4>3
        <5>2. ~(j <= Len(before)) /\ j - Len(before) = j - (i - 1)
          BY <2>1, <2>2, <4>3
        <5>3. after[j - (i - 1)] = keys[j + 1]
          BY <2>3, <5>1
        <5>4. rest[j] = after[j - (i - 1)]
          BY <4>1, <5>2
        <5>5. ~(j < i)
          BY <2>1, <4>3
        <5>6. QED
          BY <5>3, <5>4, <5>5
      <4>4. QED
        BY <2>1, <4>2, <4>3
    <3>2. QED
      BY <3>1
  <2>6. T!IsInjective(rest)
    <3>1. \A j, h \in 1 .. Len(keys) : keys[j] = keys[h] => j = h
      BY DEF T!IsInjective
    <3>2. \A j, h \in 1 .. Len(keys) - 1 : rest[j] = rest[h] => j = h
      BY <3>1, <2>1, <2>5
    <3>3. QED
      BY <3>2, <2>4 DEF T!IsInjective
  <2>7. T!Range(rest) \subseteq T!Range(keys) \ {k}
    BY <2>1, <2>4, <2>5 DEF T!IsInjective, T!Range
  <2>8. T!Range(keys) \ {k} \subseteq T!Range(rest)
    <3>1. ASSUME NEW j \in 1 .. Len(keys), keys[j] # k PROVE keys[j] \in T!Range(rest)
      <4>1. CASE j < i
        BY <2>1, <2>4, <2>5, <4>1 DEF T!Range
      <4>2. CASE j > i
        <5>1. j - 1 \in 1 .. Len(keys) - 1 /\ rest[j - 1] = keys[j]
          BY <2>1, <2>5, <4>2
        <5>2. QED
          BY <2>4, <5>1 DEF T!Range
      <4>3. QED
        BY <2>1, <3>1, <4>1, <4>2
    <3>2. QED
      BY <3>1 DEF T!Range
  <2>9. T!Without(keys, k) = rest
    BY <1>2 DEF T!Without, rest, i
  <2>10. QED
    BY <2>4, <2>6, <2>7, <2>8, <2>9
<1>3. QED
  BY <1>1, <1>2

\* And with one more.
LEMMA KeysAnd ==
  ASSUME NEW K, NEW keys \in Seq(K), T!IsInjective(keys), NEW k \in K, k \notin T!Range(keys)
  PROVE  LET more == Append(keys, k)
         IN more \in Seq(K) /\ T!IsInjective(more) /\ Len(more) = Len(keys) + 1 /\ T!Range(more) = T!Range(keys) \cup {k}
<1> DEFINE more == Append(keys, k)
<1>1. /\ more \in Seq(K) /\ Len(more) = Len(keys) + 1 /\ DOMAIN more = 1 .. Len(keys) + 1
      /\ \A j \in 1 .. Len(keys) : more[j] = keys[j] /\ keys[j] # k
      /\ more[Len(keys) + 1] = k
  BY DEF T!Range
<1> HIDE DEF more
<1>2. T!IsInjective(more)
  BY <1>1 DEF T!IsInjective
<1>3. T!Range(more) = T!Range(keys) \cup {k}
  BY <1>1 DEF T!Range
<1>4. QED
  BY <1>1, <1>2, <1>3 DEF more

\* Pruning leaves room for another session.
LEMMA PrunedKeys ==
  ASSUME NEW K, NEW keys \in Seq(K), T!IsInjective(keys), NEW expired \in 0 .. Len(keys)
  PROVE  LET rest == T!Pruned(keys, expired)
         IN /\ rest \in Seq(K) /\ T!IsInjective(rest) /\ T!Range(rest) \subseteq T!Range(keys) /\ Len(rest) < MaxSessions
<1> DEFINE unread == SubSeq(keys, expired + 1, Len(keys))
           over == IF Len(unread) < MaxSessions THEN 0 ELSE Len(unread) - MaxSessions + 1
<1>1. unread \in Seq(K) /\ T!IsInjective(unread) /\ T!Range(unread) \subseteq T!Range(keys)
  BY EndOfKeys
<1> HIDE DEF unread
<1>2. MaxSessions \in Nat \ {0}
  BY ToolAssumption DEF T!ToolAssumption, T!SnapshotAssumption
<1>3. over \in 0 .. Len(unread) /\ Len(unread) - over < MaxSessions
  BY <1>1, <1>2
<1> HIDE DEF over
<1> DEFINE rest == SubSeq(unread, over + 1, Len(unread))
<1>4. rest \in Seq(K) /\ T!IsInjective(rest) /\ Len(rest) = Len(unread) - over /\ T!Range(rest) \subseteq T!Range(unread)
  BY <1>1, <1>3, EndOfKeys
<1>5. T!Pruned(keys, expired) = rest
  BY DEF T!Pruned, rest, over, unread
<1>6. QED
  BY <1>1, <1>3, <1>4, <1>5

-----------------------------------------------------------------------------

\* What a session, what a caller has, and where a read is.
SessionState == [version : 0 .. Len(Documents), offset : Nat]
SeenState == [version : 0 .. Len(Documents), upto : Nat, cuts : SUBSET (Nat \X Nat \X Nat),
              stop : BOOLEAN, joins : BOOLEAN, crossed : BOOLEAN]
ReadState == [at : {"idle", "own", "common", "producer", "loaded"}, key : Key \cup {T!Idle.key},
              limit : Nat, version : 0 .. Len(Documents)]

ReadTypes ==
  /\ file \in [{"common", "own"} -> 0 .. Len(Documents)] /\ file.common # 0
  /\ session \in [Key -> SessionState]
  /\ recency \in Seq(Key) /\ T!IsInjective(recency) /\ Len(recency) <= MaxSessions
  /\ read \in [Reads -> ReadState]
  /\ told \in [Key -> SeenState]

\* A read that has begun is of a session's key, and what it has loaded is a document.
Underway(r) ==
  /\ read[r].at # "idle" => read[r].key \in Key /\ read[r].limit \in Limits
  /\ read[r].at = "loaded" => read[r].version \in T!Version

\* A session goes on where the pages that its caller was given end, unless the caller was
\* given a whole document meanwhile; then there are no cuts of another document.
GoesOn(k, v, start) ==
  \/ start = 0
  \/ told[k].version = v /\ told[k].upto = start /\ ~told[k].stop
  \/ told[k].crossed /\ (told[k].version = v \/ told[k].cuts = {})
OpenSession(k) ==
  /\ session[k] # T!None <=> k \in T!Range(recency)
  /\ session[k] # T!None =>
       /\ session[k].version \in T!Version /\ Documents[session[k].version].valid
       /\ GoesOn(k, session[k].version, session[k].offset)

\* The pages of a key join up, and no cut is inside a range that a page could have held.
WholeCuts(s) ==
  \A cut \in s.cuts : \A range \in Documents[s.version].ranges :
    range[1] < cut[2] /\ cut[2] < range[2] => cut[1] >= range[1] /\ range[2] - cut[1] > cut[3]
Joined(s) ==
  s.version # 0 =>
    /\ s.crossed \/ s.joins
    /\ Documents[s.version].valid
    /\ s.stop => s.upto = Documents[s.version].length
    /\ WholeCuts(s)
SeenWell(k) == Joined(told[k]) /\ (told[k].version = 0 => told[k].cuts = {})

\* The inductive invariant.
SnapshotInv == ReadTypes /\ (\A r \in Reads : Underway(r)) /\ (\A k \in Key : OpenSession(k) /\ SeenWell(k))

\* What is assumed of the documents, for one of them.
LEMMA OneDocument ==
  ASSUME NEW v \in T!Version
  PROVE  /\ v \in 1 .. Len(Documents) /\ Documents[v].length \in Nat
         /\ Documents[v].ranges \subseteq Nat \X Nat
         /\ \A p, q \in Documents[v].ranges :
              p[1] < p[2] /\ p[2] <= Documents[v].length /\ (p # q => p[2] <= q[1] \/ q[2] <= p[1])
<1> DEFINE D == [length : Nat, ranges : SUBSET (Nat \X Nat), valid : BOOLEAN]
<1>1. Documents \in Seq(D)
  BY ToolAssumption DEF T!ToolAssumption, T!SnapshotAssumption
<1> HIDE DEF D
<1>2. v \in 1 .. Len(Documents) /\ Documents[v] \in D
  BY <1>1 DEF T!Version
<1>3. Documents[v].length \in Nat /\ Documents[v].ranges \subseteq Nat \X Nat
  BY <1>2 DEF D
<1>4. QED
  BY <1>2, <1>3, ToolAssumption DEF T!ToolAssumption, T!SnapshotAssumption, T!Version

\* A page ends in the document, and inside a range that should stay whole only if what
\* is left of the range is longer than a page (structuralPageEnd).
LEMMA PageEnd ==
  ASSUME NEW v \in T!Version, NEW start \in Nat, NEW limit \in Nat \ {0}
  PROVE  LET d == Documents[v]
             end == T!StructuralPageEnd(d, start, limit)
         IN /\ end \in 0 .. d.length
            /\ end < d.length =>
                 \A q \in d.ranges : q[1] < end /\ end < q[2] => start >= q[1] /\ q[2] - start > limit
<1> DEFINE d == Documents[v]
           end == T!StructuralPageEnd(d, start, limit)
           nominal == T!NominalPageEnd(d, start, limit)
           inside == {r \in d.ranges : r[1] <= start /\ start < r[2] /\ r[2] - start <= limit}
           cut == {r \in d.ranges : start < r[1] /\ r[1] < nominal /\ nominal < r[2]}
<1>1. d.length \in Nat /\ d.ranges \subseteq Nat \X Nat
  BY OneDocument
<1>2. \A p, q \in d.ranges : p[1] < p[2] /\ p[2] <= d.length /\ (p # q => p[2] <= q[1] \/ q[2] <= p[1])
  BY OneDocument
<1>3. \A q \in d.ranges : q[1] \in Nat /\ q[2] \in Nat
  BY <1>1
<1> HIDE DEF d
<1>4. nominal \in Nat /\ nominal <= d.length /\ (nominal # d.length => nominal = start + limit)
  BY <1>1 DEF T!NominalPageEnd, T!Least
<1> HIDE DEF nominal
<1>5. CASE nominal = d.length
  <2>1. end = nominal
    BY <1>5 DEF T!StructuralPageEnd, nominal
  <2>2. QED
    BY <2>1, <1>1, <1>5 DEF d
<1>6. CASE nominal # d.length /\ inside # {}
  <2>1. PICK r \in inside : end = r[2]
    BY <1>6 DEF T!StructuralPageEnd, nominal
  <2>2. QED
    BY <2>1, <1>2, <1>3 DEF d
<1>7. CASE nominal # d.length /\ inside = {} /\ cut # {}
  <2>1. PICK r \in cut : end = r[2] \/ end = r[1]
    BY <1>7 DEF T!StructuralPageEnd, nominal
  <2>2. r \in d.ranges /\ r[1] < r[2] /\ r[2] <= d.length /\ r[1] \in Nat /\ r[2] \in Nat
    BY <2>1, <1>2, <1>3
  <2> HIDE DEF end
  <2>3. end \in 0 .. d.length
    BY <2>1, <2>2, <1>1
  <2>4. ASSUME NEW q \in d.ranges, q[1] < end, end < q[2] PROVE FALSE
    <3>1. q # r
      BY <2>1, <2>2, <2>4
    <3>2. r[2] <= q[1] \/ q[2] <= r[1]
      BY <2>2, <3>1, <1>2
    <3>3. QED
      BY <2>1, <2>2, <2>4, <3>2, <1>3
  <2>5. QED
    BY <2>3, <2>4 DEF d, end
<1>8. CASE nominal # d.length /\ inside = {} /\ cut = {}
  <2>1. end = nominal
    BY <1>8 DEF T!StructuralPageEnd, nominal
  <2>2. ASSUME NEW q \in d.ranges, q[1] < end, end < q[2] PROVE start >= q[1] /\ q[2] - start > limit
    <3>1. ~(start < q[1])
      BY <2>1, <2>2, <1>8
    <3>2. end = start + limit
      BY <2>1, <1>4, <1>8
    <3>3. QED
      BY <3>1, <3>2, <2>2, <1>3
  <2>3. QED
    BY <2>1, <2>2, <1>1, <1>4 DEF d
<1>9. QED
  BY <1>5, <1>6, <1>7, <1>8

\* There is no session before the first read.
LEMMA SnapshotInitially == T!Init => SnapshotInv
<1> SUFFICES ASSUME T!Init PROVE SnapshotInv
  OBVIOUS
<1> USE DEF T!Init, T!SnapshotInit
<1>1. Documents \in Seq([length : Nat, ranges : SUBSET (Nat \X Nat), valid : BOOLEAN]) /\ Documents # <<>> /\ MaxSessions \in Nat
  BY ToolAssumption DEF T!ToolAssumption, T!SnapshotAssumption
<1>2. Len(Documents) \in Nat \ {0}
  BY <1>1
<1>3. file \in [{"common", "own"} -> 0 .. Len(Documents)] /\ file.common # 0
  BY <1>2
<1>4. session \in [Key -> SessionState]
  BY <1>2 DEF T!None, SessionState
<1>5. recency \in Seq(Key) /\ T!IsInjective(recency) /\ Len(recency) <= MaxSessions
  BY <1>1 DEF T!IsInjective
<1>6. read \in [Reads -> ReadState]
  <2>1. T!Idle \in ReadState
    BY <1>2 DEF T!Idle, ReadState
  <2>2. QED
    BY <2>1
<1>7. told \in [Key -> SeenState]
  <2>1. T!Unseen \in SeenState
    BY <1>2 DEF T!Unseen, SeenState
  <2>2. QED
    BY <2>1
<1>8. ReadTypes
  BY <1>3, <1>4, <1>5, <1>6, <1>7 DEF ReadTypes
<1>9. \A r \in Reads : Underway(r)
  BY DEF Underway, T!Idle
<1>10. \A k \in Key : OpenSession(k) /\ SeenWell(k)
  BY DEF OpenSession, GoesOn, SeenWell, Joined, T!Range, T!Unseen
<1>11. QED
  BY <1>8, <1>9, <1>10 DEF SnapshotInv

-----------------------------------------------------------------------------

\* A page joins what its caller has, or is a first page.
LEMMA PageJoins ==
  ASSUME SnapshotInv, NEW k \in Key, NEW v \in T!Version, Documents[v].valid,
         NEW start \in Nat, NEW end \in 0 .. Documents[v].length, NEW limit \in Nat,
         GoesOn(k, v, start),
         end < Documents[v].length =>
           \A q \in Documents[v].ranges : q[1] < end /\ end < q[2] => start >= q[1] /\ q[2] - start > limit
  PROVE  LET given == T!Given(k, v, start, end, limit)
         IN /\ given \in SeenState /\ Joined(given)
            /\ given.version = v /\ given.upto = end /\ (given.stop <=> end = Documents[v].length)
            /\ start = 0 => given.joins
<1> DEFINE before == IF start = 0 THEN [T!Unseen EXCEPT !.version = v] ELSE told[k]
           given == T!Given(k, v, start, end, limit)
           new == IF end < Documents[v].length THEN {<<start, end, limit>>} ELSE {}
<1>1. v # 0 /\ v \in 0 .. Len(Documents) /\ Documents[v].length \in Nat
  BY OneDocument
<1>2. told[k] \in SeenState /\ Joined(told[k])
  BY DEF SnapshotInv, ReadTypes, SeenWell
<1>3. before \in SeenState
  <2>1. [T!Unseen EXCEPT !.version = v] \in SeenState
    BY <1>1 DEF T!Unseen, SeenState
  <2>2. QED
    BY <1>2, <2>1
<1> DEFINE joined == before.joins /\ before.version = v /\ before.upto = start /\ (~before.stop \/ start = 0)
<1>4. /\ before.crossed \/ joined
      /\ \A cut \in before.cuts : \A range \in Documents[v].ranges :
           range[1] < cut[2] /\ cut[2] < range[2] => cut[1] >= range[1] /\ range[2] - cut[1] > cut[3]
  <2>1. CASE start = 0
    <3>1. before.version = v /\ before.upto = 0 /\ before.joins /\ before.cuts = {}
      BY <2>1 DEF T!Unseen
    <3>2. QED
      BY <2>1, <3>1
  <2>2. CASE start # 0 /\ told[k].version = v
    <3>1. before = told[k] /\ (told[k].crossed \/ told[k].joins) /\ WholeCuts(told[k])
      BY <2>2, <1>1, <1>2 DEF Joined
    <3>2. told[k].crossed \/ (told[k].upto = start /\ ~told[k].stop)
      BY <2>2 DEF GoesOn
    <3> HIDE DEF before
    <3>3. QED
      BY <2>2, <3>1, <3>2 DEF WholeCuts
  <2>3. CASE start # 0 /\ told[k].version # v
    <3>1. before = told[k] /\ told[k].crossed /\ told[k].cuts = {}
      BY <2>3 DEF GoesOn
    <3> HIDE DEF before
    <3>2. QED
      BY <3>1
  <2>4. QED
    BY <2>1, <2>2, <2>3
<1> HIDE DEF before
<1> HIDE DEF joined
<1>5. /\ given = [version |-> v, upto |-> end, cuts |-> before.cuts \cup new, stop |-> end = Documents[v].length,
                  crossed |-> before.crossed, joins |-> joined]
      /\ given.joins = joined /\ given.crossed = before.crossed
  BY DEF T!Given, before, joined
<1>6. before.cuts \cup new \in SUBSET (Nat \X Nat \X Nat)
  <2>1. before.cuts \in SUBSET (Nat \X Nat \X Nat)
    BY <1>3 DEF SeenState
  <2>2. QED
    BY <2>1, <1>1
<1>7. given.cuts = before.cuts \cup new /\ given.version = v /\ given.upto = end
  BY <1>5
<1>8. given.crossed \/ given.joins
  BY <1>4, <1>5
<1>9. given.stop <=> end = Documents[v].length
  <2> DEFINE last == end = Documents[v].length
  <2> HIDE DEF last
  <2>1. given.stop = last
    BY DEF T!Given, last
  <2>2. QED
    BY <2>1 DEF last
<1>10. given \in SeenState
  <2>1. (end = Documents[v].length) \in BOOLEAN
    OBVIOUS
  <2>2. joined \in BOOLEAN /\ before.crossed \in BOOLEAN
    BY <1>3 DEF joined, SeenState
  <2>3. end \in Nat
    BY <1>1
  <2> HIDE DEF given, new
  <2>4. QED
    BY <1>1, <1>5, <1>6, <2>1, <2>2, <2>3 DEF SeenState
<1> HIDE DEF given
<1>11. WholeCuts(given)
  <2>2. \A cut \in new : \A range \in Documents[v].ranges :
          range[1] < cut[2] /\ cut[2] < range[2] => cut[1] >= range[1] /\ range[2] - cut[1] > cut[3]
    OBVIOUS
  <2>3. QED
    BY <1>4, <1>7, <2>2 DEF WholeCuts
<1>12. Joined(given)
  BY <1>5, <1>7, <1>8, <1>9, <1>11 DEF Joined
<1>13. start = 0 => given.joins
  <2>1. start = 0 => joined
    BY DEF joined, before, T!Unseen
  <2>2. QED
    BY <2>1, <1>5
<1>14. QED
  BY <1>7, <1>9, <1>10, <1>12, <1>13 DEF given

\* A page of a session: the sessions that pruning left go on, this one too unless the
\* page is its last.
LEMMA PageOfSession ==
  ASSUME SnapshotInv, NEW k \in Key, NEW s \in SessionState, s.version \in T!Version, Documents[s.version].valid,
         GoesOn(k, s.version, s.offset),
         NEW limit \in Limits, NEW expired \in 0 .. Len(recency),
         T!PageSnapshot(k, s, limit, T!Pruned(recency, expired)), UNCHANGED file,
         read' \in [Reads -> ReadState], \A r \in Reads : Underway(r)'
  PROVE  SnapshotInv'
<1> DEFINE keys == T!Pruned(recency, expired)
           end == T!StructuralPageEnd(Documents[s.version], s.offset, limit)
           more == end < Documents[s.version].length
           rest == T!Without(keys, k)
           given == T!Given(k, s.version, s.offset, end, limit)
<1> USE DEF SnapshotInv
<1>1. /\ keys \in Seq(Key) /\ T!IsInjective(keys) /\ T!Range(keys) \subseteq T!Range(recency) /\ Len(keys) < MaxSessions
  BY PrunedKeys DEF ReadTypes
<1>2. limit \in Nat \ {0} /\ MaxSessions \in Nat
  BY ToolAssumption DEF T!ToolAssumption, T!SnapshotAssumption
<1>3. s.offset \in Nat /\ s.version # 0
  BY OneDocument DEF SessionState
<1>4. /\ end \in 0 .. Documents[s.version].length
      /\ end < Documents[s.version].length =>
           \A q \in Documents[s.version].ranges : q[1] < end /\ end < q[2] => s.offset >= q[1] /\ q[2] - s.offset > limit
  BY <1>2, <1>3, PageEnd
<1>5. /\ session' = [[x \in Key |-> IF x \in T!Range(keys) THEN session[x] ELSE T!None]
                        EXCEPT ![k] = IF more THEN [s EXCEPT !.offset = end] ELSE T!None]
      /\ recency' = IF more THEN Append(rest, k) ELSE rest
      /\ told' = [told EXCEPT ![k] = given]
  BY DEF T!PageSnapshot
<1> HIDE DEF end, keys
<1>6. /\ given \in SeenState /\ Joined(given)
      /\ given.version = s.version /\ given.upto = end /\ (given.stop <=> end = Documents[s.version].length)
  BY <1>2, <1>3, <1>4, PageJoins
<1> HIDE DEF given
<1>7. /\ rest \in Seq(Key) /\ T!IsInjective(rest) /\ Len(rest) <= Len(keys) /\ T!Range(rest) = T!Range(keys) \ {k}
  BY <1>1, KeysWithout
<1> HIDE DEF rest
<1>8. /\ Append(rest, k) \in Seq(Key) /\ T!IsInjective(Append(rest, k)) /\ Len(Append(rest, k)) = Len(rest) + 1
      /\ T!Range(Append(rest, k)) = T!Range(rest) \cup {k}
  BY <1>7, KeysAnd
<1>9. /\ recency' \in Seq(Key) /\ T!IsInjective(recency') /\ Len(recency') <= MaxSessions
      /\ T!Range(recency') = IF more THEN (T!Range(keys) \ {k}) \cup {k} ELSE T!Range(keys) \ {k}
  <2>1. CASE more
    BY <2>1, <1>1, <1>2, <1>5, <1>7, <1>8
  <2>2. CASE ~more
    BY <2>2, <1>1, <1>2, <1>5, <1>7
  <2>3. QED
    BY <2>1, <2>2
<1>10. end \in Nat /\ Documents[s.version].length \in Nat
  BY <1>4, OneDocument
<1>11. [s EXCEPT !.offset = end] \in SessionState /\ T!None \in SessionState
  <2>1. 0 \in 0 .. Len(Documents)
    BY OneDocument
  <2>2. QED
    BY <1>10, <2>1 DEF SessionState, T!None
<1>12. /\ session' \in [Key -> SessionState]
       /\ session'[k] = IF more THEN [s EXCEPT !.offset = end] ELSE T!None
       /\ \A x \in Key \ {k} : session'[x] = IF x \in T!Range(keys) THEN session[x] ELSE T!None
  BY <1>5, <1>11 DEF ReadTypes
<1>13. /\ told' \in [Key -> SeenState] /\ told'[k] = given
       /\ \A x \in Key \ {k} : told'[x] = told[x]
  BY <1>5, <1>6 DEF ReadTypes
<1>14. ReadTypes'
  BY <1>9, <1>12, <1>13 DEF ReadTypes
<1>15. OpenSession(k)' /\ SeenWell(k)'
  <2>1. [s EXCEPT !.offset = end].version = s.version /\ [s EXCEPT !.offset = end].offset = end
    BY DEF SessionState
  <2>2. [s EXCEPT !.offset = end] # T!None
    BY <2>1, <1>3 DEF T!None
  <2>3. session'[k] # T!None <=> k \in T!Range(recency')
    BY <1>9, <1>12, <2>2
  <2>4. session'[k] # T!None => /\ session'[k].version = s.version /\ session'[k].offset = end
                              /\ told'[k].version = s.version /\ told'[k].upto = end /\ ~told'[k].stop
    BY <1>6, <1>10, <1>12, <1>13, <2>1
  <2>5. SeenWell(k)'
    BY <1>3, <1>6, <1>13 DEF SeenWell, Joined, WholeCuts
  <2>6. OpenSession(k)'
    BY <2>3, <2>4 DEF OpenSession, GoesOn
  <2>7. QED
    BY <2>5, <2>6
<1>16. ASSUME NEW x \in Key \ {k} PROVE OpenSession(x)' /\ SeenWell(x)'
  <2>1. x \in T!Range(recency') <=> x \in T!Range(keys)
    BY <1>9
  <2>2. x \in T!Range(keys) => x \in T!Range(recency) /\ session[x] # T!None
    BY <1>1 DEF OpenSession
  <2>3. session'[x] # T!None <=> x \in T!Range(recency')
    BY <1>12, <2>1, <2>2
  <2>4. session'[x] # T!None => session'[x] = session[x]
    BY <1>12
  <2>5. OpenSession(x)'
    BY <1>13, <2>3, <2>4 DEF OpenSession, GoesOn
  <2>6. SeenWell(x)'
    BY <1>13 DEF SeenWell, Joined, WholeCuts
  <2>7. QED
    BY <2>5, <2>6
<1>17. QED
  BY <1>14, <1>15, <1>16

\* So many sessions may be unread for long.
LEMMA ExpiredSome == SnapshotInv => T!Expired \subseteq 0 .. Len(recency)
<1> SUFFICES ASSUME SnapshotInv PROVE T!Expired \subseteq 0 .. Len(recency)
  OBVIOUS
<1>1. Len(recency) \in Nat
  BY DEF SnapshotInv, ReadTypes
<1>2. QED
  BY <1>1 DEF T!Expired

\* A read is typed, and so is one that is over.
LEMMA OneRead ==
  ASSUME SnapshotInv, NEW r \in Reads
  PROVE  read[r] \in ReadState /\ T!Idle \in ReadState
<1>1. 0 \in 0 .. Len(Documents)
  BY ToolAssumption DEF T!ToolAssumption, T!SnapshotAssumption
<1>2. T!Idle \in ReadState
  BY <1>1 DEF T!Idle, ReadState
<1>3. QED
  BY <1>2 DEF SnapshotInv, ReadTypes

\* A read begins: with the next page of a session, or it has to find the document.
LEMMA SnapshotBegins ==
  ASSUME SnapshotInv, NEW r \in Reads, NEW k \in Key, NEW limit \in Limits, NEW expired \in T!Expired,
         T!BeginSnapshot(r, k, limit, expired)
  PROVE  SnapshotInv'
<1> USE DEF SnapshotInv
<1> DEFINE keys == T!Pruned(recency, expired)
<1>1. expired \in 0 .. Len(recency)
  BY ExpiredSome
<1>2. /\ keys \in Seq(Key) /\ T!IsInjective(keys) /\ T!Range(keys) \subseteq T!Range(recency) /\ Len(keys) < MaxSessions
  BY <1>1, PrunedKeys DEF ReadTypes
<1>3. CASE k \in T!Range(keys)
  <2>1. T!PageSnapshot(k, session[k], limit, keys) /\ UNCHANGED <<file, read>>
    BY <1>3 DEF T!BeginSnapshot
  <2>2. session[k] # T!None
    BY <1>2, <1>3 DEF OpenSession
  <2>3. /\ session[k] \in SessionState /\ session[k].version \in T!Version /\ Documents[session[k].version].valid
        /\ GoesOn(k, session[k].version, session[k].offset)
    BY <2>2 DEF OpenSession, ReadTypes
  <2>4. read' \in [Reads -> ReadState] /\ \A q \in Reads : Underway(q)'
    BY <2>1 DEF ReadTypes, Underway
  <2> HIDE DEF SnapshotInv
  <2>5. QED
    BY <1>1, <2>1, <2>3, <2>4, PageOfSession
<1>4. CASE k \notin T!Range(keys)
  <2>1. PICK at \in {"producer", "own"} :
          read' = [read EXCEPT ![r] = [at |-> at, key |-> k, limit |-> limit, version |-> 0]]
    BY <1>4 DEF T!BeginSnapshot
  <2>2. recency' = keys /\ session' = [x \in Key |-> IF x \in T!Range(keys) THEN session[x] ELSE T!None] /\ UNCHANGED <<file, told>>
    BY <1>4 DEF T!BeginSnapshot, T!Forget
  <2> HIDE DEF keys
  <2>3. limit \in Nat /\ MaxSessions \in Nat /\ 0 \in 0 .. Len(Documents)
    BY ToolAssumption DEF T!ToolAssumption, T!SnapshotAssumption
  <2>4. [at |-> at, key |-> k, limit |-> limit, version |-> 0] \in ReadState
    BY <2>3 DEF ReadState
  <2>5. read' \in [Reads -> ReadState]
    BY <2>1, <2>4 DEF ReadTypes
  <2>6. session' \in [Key -> SessionState]
    BY <2>2, <2>3 DEF ReadTypes, SessionState, T!None
  <2>7. recency' \in Seq(Key) /\ T!IsInjective(recency') /\ Len(recency') <= MaxSessions
    BY <1>2, <2>2, <2>3
  <2>8. ReadTypes'
    BY <2>2, <2>5, <2>6, <2>7 DEF ReadTypes
  <2>9. \A q \in Reads : Underway(q)'
    BY <2>1 DEF ReadTypes, Underway
  <2>10. ASSUME NEW x \in Key PROVE OpenSession(x)' /\ SeenWell(x)'
    <3>1. x \in T!Range(keys) => session[x] # T!None
      BY <1>2 DEF OpenSession
    <3>2. session'[x] # T!None <=> x \in T!Range(recency')
      BY <2>2, <3>1
    <3>3. session'[x] # T!None => session'[x] = session[x]
      BY <2>2
    <3>4. OpenSession(x)'
      BY <2>2, <3>2, <3>3 DEF OpenSession, GoesOn
    <3>5. QED
      BY <2>2, <3>4 DEF SeenWell, Joined, WholeCuts
  <2>11. QED
    BY <2>8, <2>9, <2>10
<1>5. QED
  BY <1>3, <1>4

\* A read that looks for its document changes itself only.
LEMMA SnapshotLooks ==
  ASSUME SnapshotInv, NEW r \in Reads, T!ReadOwn(r) \/ T!ReadCommon(r) \/ T!AskProducer(r) \/ T!ReadFails(r)
  PROVE  SnapshotInv'
<1> USE DEF SnapshotInv
<1>1. UNCHANGED <<file, session, recency, told>>
  BY DEF T!ReadOwn, T!ReadCommon, T!AskProducer, T!ReadFails
<1>2. PICK new \in ReadState :
        /\ read' = [read EXCEPT ![r] = new]
        /\ new.at # "idle" => new.key = read[r].key /\ new.limit = read[r].limit /\ read[r].at # "idle"
        /\ new.at = "loaded" => new.version \in T!Version
  <2>1. read[r] \in ReadState /\ T!Idle \in ReadState
    BY OneRead
  <2>2. ASSUME NEW v \in T!Version, T!Loads(r, v), read[r].at # "idle"
        PROVE  \E new \in ReadState :
                 /\ read' = [read EXCEPT ![r] = new]
                 /\ new.at # "idle" => new.key = read[r].key /\ new.limit = read[r].limit /\ read[r].at # "idle"
                 /\ new.at = "loaded" => new.version \in T!Version
    <3> DEFINE new == [read[r] EXCEPT !.at = "loaded", !.version = v]
    <3>1. v \in 0 .. Len(Documents)
      BY OneDocument
    <3>2. new \in ReadState /\ new.at = "loaded" /\ new.version = v /\ new.key = read[r].key /\ new.limit = read[r].limit
      BY <2>1, <3>1 DEF ReadState
    <3>3. read' = [read EXCEPT ![r] = new]
      BY <2>2 DEF T!Loads, ReadTypes
    <3>4. QED
      BY <2>2, <3>2, <3>3
  <2>3. DOMAIN Documents = 1 .. Len(Documents) /\ Len(Documents) \in Nat /\ file \in [{"common", "own"} -> 0 .. Len(Documents)]
    BY ToolAssumption DEF T!ToolAssumption, T!SnapshotAssumption, ReadTypes
  <2>4. CASE T!ReadOwn(r) /\ file.own # 0
    <3>1. file.own \in T!Version
      BY <2>3, <2>4 DEF T!Version
    <3>2. QED
      BY <2>2, <2>4, <3>1 DEF T!ReadOwn
  <2>5. CASE T!ReadOwn(r) /\ file.own = 0
    <3> DEFINE new == [read[r] EXCEPT !.at = "common"]
    <3>1. new \in ReadState /\ new.at = "common" /\ new.key = read[r].key /\ new.limit = read[r].limit
      BY <2>1 DEF ReadState
    <3>2. read' = [read EXCEPT ![r] = new] /\ read[r].at # "idle"
      BY <2>5 DEF T!ReadOwn, ReadTypes
    <3>3. QED
      BY <3>1, <3>2
  <2>6. CASE T!ReadCommon(r)
    <3>1. file.common \in T!Version
      BY <2>3 DEF T!Version, ReadTypes
    <3>2. QED
      BY <2>2, <2>6, <3>1 DEF T!ReadCommon
  <2>7. CASE T!AskProducer(r)
    BY <2>2, <2>7 DEF T!AskProducer
  <2>8. CASE T!ReadFails(r)
    BY <2>1, <2>8 DEF T!ReadFails, T!Idle
  <2>9. QED
    BY <2>4, <2>5, <2>6, <2>7, <2>8
<1>3. ReadTypes'
  BY <1>1, <1>2 DEF ReadTypes
<1>4. \A q \in Reads : Underway(q)'
  BY <1>2 DEF ReadTypes, Underway
<1>5. \A k \in Key : OpenSession(k)' /\ SeenWell(k)'
  BY <1>1 DEF OpenSession, GoesOn, SeenWell, Joined, WholeCuts
<1>6. QED
  BY <1>3, <1>4, <1>5

\* The document is there.
LEMMA SnapshotLoaded ==
  ASSUME SnapshotInv, NEW r \in Reads, NEW expired \in T!Expired, T!Loaded(r, expired)
  PROVE  SnapshotInv'
<1> USE DEF SnapshotInv
<1>1. PICK k \in Key, v \in T!Version, limit \in Limits :
        /\ k = read[r].key /\ v = read[r].version /\ limit = read[r].limit
        /\ read' = [read EXCEPT ![r] = T!Idle] /\ UNCHANGED file
  BY DEF T!Loaded, Underway
<1> DEFINE d == Documents[v]
<1>2. read' \in [Reads -> ReadState] /\ \A q \in Reads : Underway(q)'
  BY <1>1, OneRead DEF ReadTypes, Underway, T!Idle
<1>3. expired \in 0 .. Len(recency)
  BY ExpiredSome
<1>4. CASE ~d.valid
  <2>1. UNCHANGED <<session, recency, told>>
    BY <1>1, <1>4 DEF T!Loaded, T!Accept
  <2>2. QED
    BY <2>1, <1>1, <1>2 DEF ReadTypes, OpenSession, GoesOn, SeenWell, Joined, WholeCuts
<1>5. CASE d.valid /\ d.length <= limit
  <2> DEFINE page == T!Given(k, v, 0, d.length, limit)
             given == [page EXCEPT !.crossed = session[k] # T!None]
  <2>1. told' = [told EXCEPT ![k] = given] /\ UNCHANGED <<session, recency>>
    BY <1>1, <1>5 DEF T!Loaded, T!Accept
  <2>2. d.length \in Nat /\ limit \in Nat
    BY <1>1, OneDocument, ToolAssumption DEF T!ToolAssumption, T!SnapshotAssumption
  <2>3. page \in SeenState /\ Joined(page) /\ page.version = v /\ page.upto = d.length /\ page.joins
    <3>1. GoesOn(k, v, 0) /\ d.length \in 0 .. d.length /\ ~(d.length < d.length)
      BY <2>2 DEF GoesOn
    <3> HIDE DEF SnapshotInv
    <3>2. QED
      BY <1>1, <1>5, <2>2, <3>1, PageJoins
  <2>4. page.cuts = {}
    BY <2>2 DEF T!Given, T!Unseen
  <2> HIDE DEF page
  <2>5. given \in SeenState /\ (session[k] # T!None => given.crossed) /\ given.cuts = {}
    BY <2>3, <2>4 DEF SeenState
  <2>6. given.version = v /\ given.upto = page.upto /\ given.stop = page.stop /\ given.joins = page.joins
    BY <2>3 DEF SeenState
  <2> HIDE DEF given
  <2>8. Joined(given)
    BY <2>3, <2>5, <2>6 DEF Joined, WholeCuts
  <2>9. told' \in [Key -> SeenState] /\ told'[k] = given /\ \A x \in Key \ {k} : told'[x] = told[x]
    BY <1>1, <2>1, <2>5 DEF ReadTypes
  <2>10. ReadTypes'
    BY <1>1, <1>2, <2>1, <2>9 DEF ReadTypes
  <2>11. OpenSession(k)' /\ SeenWell(k)'
    <3>1. /\ session[k] # T!None <=> k \in T!Range(recency)
          /\ session[k] # T!None => session[k].version \in T!Version /\ Documents[session[k].version].valid
      BY <1>1 DEF OpenSession
    <3>2. OpenSession(k)'
      BY <1>1, <2>1, <2>5, <2>9, <3>1 DEF OpenSession, GoesOn
    <3>3. v # 0
      BY <1>1, OneDocument
    <3>4. SeenWell(k)'
      BY <2>6, <2>8, <2>9, <3>3 DEF SeenWell, Joined, WholeCuts
    <3>5. QED
      BY <3>2, <3>4
  <2>12. ASSUME NEW x \in Key \ {k} PROVE OpenSession(x)' /\ SeenWell(x)'
    BY <2>1, <2>9 DEF OpenSession, GoesOn, SeenWell, Joined, WholeCuts
  <2>13. QED
    BY <1>2, <2>10, <2>11, <2>12
<1>6. CASE d.valid /\ ~(d.length <= limit)
  <2>1. T!PageSnapshot(k, T!NewSession(k, v), limit, T!Pruned(recency, expired))
    BY <1>1, <1>6 DEF T!Loaded, T!Accept
  <2>2. T!NewSession(k, v) \in SessionState /\ T!NewSession(k, v).version = v /\ T!NewSession(k, v).offset = 0
        /\ GoesOn(k, v, 0)
    BY <1>1, OneDocument DEF T!NewSession, SessionState, GoesOn
  <2> HIDE DEF SnapshotInv
  <2>3. QED
    BY <1>1, <1>2, <1>3, <1>6, <2>1, <2>2, PageOfSession
<1>7. QED
  BY <1>4, <1>5, <1>6

\* The producer puts a newer version in the place of a file.
LEMMA Published ==
  ASSUME SnapshotInv, T!Publish
  PROVE  SnapshotInv'
<1> USE DEF SnapshotInv
<1>1. UNCHANGED <<session, recency, read, told>>
  BY DEF T!Publish
<1>2. PICK f \in {"common", "own"}, v \in T!Version : v > file[f] /\ file' = [file EXCEPT ![f] = v]
  BY DEF T!Publish
<1>3. v \in 0 .. Len(Documents) /\ v # 0
  BY OneDocument
<1>4. file' \in [{"common", "own"} -> 0 .. Len(Documents)] /\ file'.common # 0
  BY <1>2, <1>3 DEF ReadTypes
<1>5. QED
  BY <1>1, <1>4 DEF ReadTypes, Underway, OpenSession, GoesOn, SeenWell, Joined, WholeCuts

\* Every step of the tools keeps the invariant; those that are not of a document leave it
\* alone.
LEMMA SnapshotStep == SnapshotInv /\ [T!Next]_T!vars => SnapshotInv'
<1> SUFFICES ASSUME SnapshotInv, [T!Next]_T!vars PROVE SnapshotInv'
  OBVIOUS
<1>1. ASSUME NEW i \in Calls, NEW c \in Caller, NEW r \in Reads, NEW limit \in Limits, NEW expired \in T!Expired,
             T!BeginDocumentRead(i, c, r, limit, expired)
      PROVE  SnapshotInv'
  <2>1. KeyOf[c] \in Key
    BY ToolAssumption DEF T!ToolAssumption
  <2>2. QED
    BY <1>1, <2>1, SnapshotBegins DEF T!BeginDocumentRead
<1>2. CASE T!SnapshotNext
  BY <1>2, SnapshotLooks, SnapshotLoaded, Published DEF T!SnapshotNext, T!ReadSteps
<1>3. CASE T!Aliased \/ T!Remote \/ UNCHANGED T!vars
  <2>1. UNCHANGED T!snapshotVars
    BY <1>3 DEF T!Aliased, T!BeginStartup, T!BeginAliasRead, T!StartupStarted, T!StartupFails, T!AliasReadReturns, T!AliasReadFails,
                T!StartupProcessEnds, T!Remote, T!BeginRemote, T!SendRemote, T!RemoteReturns, T!TransportFails, T!Connect, T!vars
  <2>2. QED
    BY <2>1 DEF T!snapshotVars, SnapshotInv, ReadTypes, Underway, OpenSession, GoesOn, SeenWell, Joined, WholeCuts
<1>4. QED
  BY <1>1, <1>2, <1>3 DEF T!Next, T!Documented

\* The invariant holds in every state.
LEMMA SnapshotInvariant == T!Spec => []SnapshotInv
BY SnapshotInitially, SnapshotStep, PTL DEF T!Spec

\* The keys in use are those of the sessions, each once and never more than the limit
\* (snapshotPageSessions, pruneSnapshotPageSessions), and the files have versions.
THEOREM SessionTypes == T!Spec => []T!SnapshotTypes
<1>1. SnapshotInv => T!SnapshotTypes
  BY DEF SnapshotInv, ReadTypes, OpenSession, T!SnapshotTypes
<1>2. QED
  BY <1>1, SnapshotInvariant, PTL

\* The pages of a document join up, and a page ends inside a range that should stay whole
\* only if no page could hold what is left of it (pageSnapshot, structuralPageEnd), for
\* overlapping reads of any documents and any page sizes; unless a caller was given a
\* document whole while a session of its key was open (SnapshotPages).
THEOREM PagesAreWhole == T!Spec => []PagesJoinUp
<1>1. ASSUME SnapshotInv PROVE T!PagesJoinUp
  BY <1>1 DEF SnapshotInv, SeenWell, Joined, T!PagesJoinUp
<1>2. ASSUME SnapshotInv PROVE T!RangesStayWhole
  BY <1>2 DEF SnapshotInv, SeenWell, Joined, WholeCuts, T!RangesStayWhole
<1>3. SnapshotInv => PagesJoinUp
  BY <1>1, <1>2 DEF PagesJoinUp
<1>4. QED
  BY <1>3, SnapshotInvariant, PTL

-----------------------------------------------------------------------------
(* The alias of the startup process                                        *)

\* A call of c is under way.
Busy(i, c) == toolCall[i].at # "free" /\ toolCall[i].caller = c

\* The processes that are named have been started, and so have those that are read.
AliasTypes ==
  /\ process \in Seq([left : Nat, running : BOOLEAN])
  /\ alias \in [Caller -> 0 .. Len(process)] /\ owed \in [Caller -> 0 .. Len(process)]
  /\ DOMAIN toolCall = Calls
  /\ \A i \in Calls :
       /\ DOMAIN toolCall[i] = {"at", "caller", "of"}
       /\ toolCall[i].at # "free" => toolCall[i].caller \in Caller
       /\ toolCall[i].at = "reading" => toolCall[i].of \in 1 .. Len(process)

\* A caller that has one call at a time reads the process that it is told to read on
\* with, if it is told to read on with any.
Follows(c) ==
  /\ \A i, j \in Calls : Busy(i, c) /\ Busy(j, c) => i = j
  /\ \A i \in Calls : Busy(i, c) /\ toolCall[i].at = "reading" => owed[c] = 0 \/ owed[c] = toolCall[i].of
  /\ owed[c] # 0 => alias[c] = owed[c]

\* The inductive invariant.
AliasInv == AliasTypes /\ \A c \in Serial : Follows(c)

\* A process that was started is typed.
LEMMA StartedTyped ==
  ASSUME AliasTypes, NEW p \in 1 .. Len(process)
  PROVE  process[p] \in [left : Nat, running : BOOLEAN]
<1> DEFINE S == [left : Nat, running : BOOLEAN]
<1>1. process \in Seq(S)
  BY DEF AliasTypes
<1> HIDE DEF S
<1>2. process[p] \in S
  BY <1>1
<1>3. QED
  BY <1>2 DEF S

\* No alias is set at first.
LEMMA AliasInitially == T!Init => AliasInv
BY ToolAssumption DEF T!Init, AliasInv, AliasTypes, Follows, Busy, T!Free, T!ToolAssumption

\* A call that is none of startup leaves the alias alone.
LEMMA CallElsewhere ==
  ASSUME AliasInv, NEW i \in Calls, UNCHANGED <<alias, process, owed>>,
         DOMAIN toolCall' = Calls, \A j \in Calls \ {i} : toolCall'[j] = toolCall[j],
         DOMAIN toolCall'[i] = {"at", "caller", "of"},
         \/ toolCall'[i].at = "free"
         \/ /\ toolCall'[i].at \in {"connecting", "calling", "starting"} /\ toolCall'[i].caller \in Caller
            /\ toolCall'[i].caller \in Serial => ~T!InProgress(toolCall'[i].caller) \/ Busy(i, toolCall'[i].caller)
  PROVE  AliasInv'
<1> USE DEF AliasInv
<1>1. AliasTypes'
  BY DEF AliasTypes
<1>2. ASSUME NEW c \in Serial PROVE Follows(c)'
  <2>1. \A j, k \in Calls : Busy(j, c)' /\ Busy(k, c)' => j = k
    BY DEF Follows, Busy, T!InProgress
  <2>2. \A j \in Calls : Busy(j, c)' /\ toolCall'[j].at = "reading" => owed[c] = 0 \/ owed[c] = toolCall'[j].of
    BY DEF Follows, Busy
  <2>3. QED
    BY <2>1, <2>2 DEF Follows
<1>3. QED
  BY <1>1, <1>2

\* A startup process is started, or fails to.
LEMMA StartReturns ==
  ASSUME AliasInv, NEW i \in Calls, NEW left \in 0 .. 2, NEW running \in BOOLEAN, T!StartupStarted(i, left, running)
  PROVE  AliasInv'
<1> USE DEF AliasInv
<1> DEFINE p == Len(process) + 1
           c == toolCall[i].caller
           on == T!ReadOn(left, running)
<1>1. c \in Caller /\ Len(process) \in Nat /\ toolCall[i].at = "starting"
  BY DEF T!StartupStarted, AliasTypes
<1>2. process' = Append(process, [left |-> left, running |-> running])
  BY DEF T!StartupStarted
<1>3. process' \in Seq([left : Nat, running : BOOLEAN]) /\ Len(process') = p
  BY <1>2 DEF AliasTypes
<1>4. PICK n \in {0, p} : alias' = [alias EXCEPT ![c] = n] /\ owed' = [owed EXCEPT ![c] = n]
  BY DEF T!StartupStarted, T!Names
<1>5. alias' \in [Caller -> 0 .. Len(process')] /\ owed' \in [Caller -> 0 .. Len(process')]
  BY <1>1, <1>3, <1>4 DEF AliasTypes
<1>6. /\ DOMAIN toolCall' = Calls /\ toolCall'[i].at = "free" /\ DOMAIN toolCall'[i] = {"at", "caller", "of"}
      /\ \A j \in Calls \ {i} : toolCall'[j] = toolCall[j]
  BY DEF T!StartupStarted, T!Ends, T!Free, AliasTypes
<1>7. AliasTypes'
  <2>1. \A j \in Calls : toolCall'[j].at = "reading" => j # i /\ toolCall[j].of \in 1 .. p
    BY <1>1, <1>6 DEF AliasTypes
  <2>2. \A j \in Calls : DOMAIN toolCall'[j] = {"at", "caller", "of"} /\ (toolCall'[j].at # "free" => toolCall'[j].caller \in Caller)
    BY <1>6 DEF AliasTypes
  <2>3. QED
    BY <2>1, <2>2, <1>3, <1>5, <1>6 DEF AliasTypes
<1>8. ASSUME NEW d \in Serial PROVE Follows(d)'
  <2>1. \A j \in Calls \ {i} : d = c => ~Busy(j, d)
    BY <1>1 DEF Follows, Busy
  <2>2. \A j \in Calls : Busy(j, d)' => j # i /\ Busy(j, d) /\ d # c
    BY <2>1, <1>6 DEF Busy
  <2>3. d # c => alias'[d] = alias[d] /\ owed'[d] = owed[d]
    BY <1>4, ToolAssumption DEF AliasTypes, T!ToolAssumption
  <2>4. d = c => alias'[d] = owed'[d]
    BY <1>1, <1>4 DEF AliasTypes
  <2>5. \A j, k \in Calls : Busy(j, d)' /\ Busy(k, d)' => j = k
    BY <2>2 DEF Follows
  <2>6. \A j \in Calls : Busy(j, d)' /\ toolCall'[j].at = "reading" => owed'[d] = 0 \/ owed'[d] = toolCall'[j].of
    BY <2>2, <2>3, <1>6 DEF Follows
  <2>7. owed'[d] # 0 => alias'[d] = owed'[d]
    BY <2>3, <2>4 DEF Follows
  <2>8. QED
    BY <2>5, <2>6, <2>7 DEF Follows
<1>9. QED
  BY <1>7, <1>8

\* A read of the alias begins: it is of the process the caller is to read.
LEMMA AliasReadBegins ==
  ASSUME AliasInv, NEW i \in Calls, NEW c \in Caller, T!BeginAliasRead(i, c)
  PROVE  AliasInv'
<1> USE DEF AliasInv
<1>1. UNCHANGED <<alias, process, owed>> /\ alias[c] # 0 /\ (c \in Serial => ~T!InProgress(c))
  BY DEF T!BeginAliasRead, T!AliasVars, T!Begins
<1>2. /\ DOMAIN toolCall' = Calls /\ DOMAIN toolCall'[i] = {"at", "caller", "of"}
      /\ toolCall'[i].at = "reading" /\ toolCall'[i].caller = c /\ toolCall'[i].of = alias[c]
      /\ \A j \in Calls \ {i} : toolCall'[j] = toolCall[j]
  BY DEF T!BeginAliasRead, T!Goes, AliasTypes
<1>3. AliasTypes'
  <2>1. alias[c] \in 1 .. Len(process)
    BY <1>1 DEF AliasTypes
  <2>2. QED
    BY <2>1, <1>1, <1>2 DEF AliasTypes
<1>4. ASSUME NEW d \in Serial PROVE Follows(d)'
  <2>1. \A j, k \in Calls : Busy(j, d)' /\ Busy(k, d)' => j = k
    BY <1>1, <1>2 DEF Follows, Busy, T!InProgress
  <2>2. \A j \in Calls : Busy(j, d)' /\ toolCall'[j].at = "reading" => owed[d] = 0 \/ owed[d] = toolCall'[j].of
    BY <1>1, <1>2 DEF Follows, Busy
  <2>3. QED
    BY <2>1, <2>2, <1>1 DEF Follows
<1>5. QED
  BY <1>3, <1>4

\* The read returns, and ends the alias when it tells the caller to stop.
LEMMA AliasReadEnds ==
  ASSUME AliasInv, NEW i \in Calls, T!AliasReadReturns(i)
  PROVE  AliasInv'
<1> USE DEF AliasInv
<1> DEFINE p == toolCall[i].of
           c == toolCall[i].caller
           left == IF process[p].left = 0 THEN 0 ELSE process[p].left - 1
           on == T!ReadOn(left, process[p].running)
<1>1. toolCall[i].at = "reading" /\ c \in Caller /\ p \in 1 .. Len(process)
  BY DEF T!AliasReadReturns, AliasTypes
<1>2. process[p] \in [left : Nat, running : BOOLEAN]
  BY <1>1, StartedTyped
<1>3. process' = [process EXCEPT ![p].left = left] /\ left \in Nat
  BY <1>2 DEF T!AliasReadReturns
<1>4. process' \in Seq([left : Nat, running : BOOLEAN]) /\ Len(process') = Len(process)
  <2> DEFINE S == [left : Nat, running : BOOLEAN]
             e == [process[p] EXCEPT !.left = left]
  <2>1. e \in S /\ process' = [process EXCEPT ![p] = e]
    BY <1>2, <1>3
  <2>2. process \in Seq(S)
    BY DEF AliasTypes
  <2> HIDE DEF S, e, p
  <2>3. process' \in Seq(S) /\ Len(process') = Len(process)
    BY <1>1, <2>1, <2>2, ExceptSeq
  <2>4. QED
    BY <2>3 DEF S
<1>5. /\ DOMAIN toolCall' = Calls /\ toolCall'[i].at = "free" /\ DOMAIN toolCall'[i] = {"at", "caller", "of"}
      /\ \A j \in Calls \ {i} : toolCall'[j] = toolCall[j]
  BY DEF T!AliasReadReturns, T!Ends, T!Free, AliasTypes
<1>6. \/ on /\ alias' = alias /\ owed' = owed
      \/ ~on /\ alias' = [alias EXCEPT ![c] = 0] /\ owed' = [owed EXCEPT ![c] = IF @ = p THEN 0 ELSE @]
  BY DEF T!AliasReadReturns, T!Unnames, AliasTypes
<1>7. alias' \in [Caller -> 0 .. Len(process)] /\ owed' \in [Caller -> 0 .. Len(process)]
  <2>1. /\ alias \in [Caller -> 0 .. Len(process)] /\ owed \in [Caller -> 0 .. Len(process)]
        /\ 0 \in 0 .. Len(process)
    BY <1>1 DEF AliasTypes
  <2>2. alias' \in [Caller -> 0 .. Len(process)]
    BY <1>1, <1>6, <2>1
  <2>3. owed' = owed \/ owed' = [owed EXCEPT ![c] = 0]
    BY <1>1, <1>6, <2>1
  <2>4. owed' \in [Caller -> 0 .. Len(process)]
    BY <1>1, <2>1, <2>3
  <2>5. QED
    BY <2>2, <2>4
<1>8. AliasTypes'
  BY <1>4, <1>5, <1>7 DEF AliasTypes
<1>9. ASSUME NEW d \in Serial PROVE Follows(d)'
  <2>1. \A j \in Calls \ {i} : d = c => ~Busy(j, d)
    BY <1>1 DEF Follows, Busy
  <2>2. \A j \in Calls : Busy(j, d)' => j # i /\ Busy(j, d) /\ d # c
    BY <2>1, <1>5 DEF Busy
  <2>3. d # c => alias'[d] = alias[d] /\ owed'[d] = owed[d]
    BY <1>6, ToolAssumption DEF AliasTypes, T!ToolAssumption
  <2>4. d = c => owed'[d] = 0 \/ alias'[d] = owed'[d]
    <3>1. d = c => owed[d] = 0 \/ owed[d] = p
      BY <1>1 DEF Follows, Busy
    <3>2. d = c => owed[d] = 0 \/ alias[d] = owed[d]
      BY DEF Follows
    <3>3. QED
      BY <3>1, <3>2, <1>1, <1>6 DEF AliasTypes
  <2>5. \A j, k \in Calls : Busy(j, d)' /\ Busy(k, d)' => j = k
    BY <2>2 DEF Follows
  <2>6. \A j \in Calls : Busy(j, d)' /\ toolCall'[j].at = "reading" => owed'[d] = 0 \/ owed'[d] = toolCall'[j].of
    BY <2>2, <2>3, <1>5 DEF Follows
  <2>7. owed'[d] # 0 => alias'[d] = owed'[d]
    BY <2>3, <2>4 DEF Follows
  <2>8. QED
    BY <2>5, <2>6, <2>7 DEF Follows
<1>10. QED
  BY <1>8, <1>9

\* A startup process ends.
LEMMA StartupEnds ==
  ASSUME AliasInv, NEW p \in DOMAIN process, T!StartupProcessEnds(p)
  PROVE  AliasInv'
<1> USE DEF AliasInv
<1>1. UNCHANGED <<alias, owed, toolCall>> /\ process' = [process EXCEPT ![p].running = FALSE]
  BY DEF T!StartupProcessEnds
<1>2. [process[p] EXCEPT !.running = FALSE] \in [left : Nat, running : BOOLEAN]
  <2>1. DOMAIN process = 1 .. Len(process)
    BY DEF AliasTypes
  <2>2. process[p] \in [left : Nat, running : BOOLEAN]
    BY <2>1, StartedTyped
  <2>3. QED
    BY <2>2
<1>3. process' \in Seq([left : Nat, running : BOOLEAN]) /\ Len(process') = Len(process)
  BY <1>1, <1>2 DEF AliasTypes
<1>4. QED
  BY <1>1, <1>3 DEF AliasTypes, Follows, Busy

\* Calls of startup that change nothing of it but where they are.
LEMMA StartupCalls ==
  ASSUME AliasInv, NEW i \in Calls,
         (\E c \in Caller : T!BeginStartup(i, c)) \/ T!StartupFails(i) \/ T!AliasReadFails(i)
  PROVE  AliasInv'
<1>1. UNCHANGED <<alias, process, owed>>
  BY DEF T!BeginStartup, T!StartupFails, T!AliasReadFails, T!AliasVars
<1>2. DOMAIN toolCall' = Calls /\ \A j \in Calls \ {i} : toolCall'[j] = toolCall[j]
  BY DEF AliasInv, AliasTypes, T!BeginStartup, T!StartupFails, T!AliasReadFails, T!Goes, T!Ends
<1>3. /\ DOMAIN toolCall'[i] = {"at", "caller", "of"}
      /\ \/ toolCall'[i].at = "free"
         \/ toolCall'[i].at = "starting" /\ toolCall'[i].caller \in Caller /\ (toolCall'[i].caller \in Serial => ~T!InProgress(toolCall'[i].caller))
  BY DEF AliasInv, AliasTypes, T!BeginStartup, T!StartupFails, T!AliasReadFails, T!Goes, T!Ends, T!Free, T!Begins
<1>4. QED
  BY <1>1, <1>2, <1>3, CallElsewhere

\* Calls for OMEN.
LEMMA RemoteCalls ==
  ASSUME AliasInv, NEW i \in Calls,
         \/ \E c \in Caller, old \in SUBSET cached : T!BeginRemote(i, c, old)
         \/ T!SendRemote(i) \/ T!RemoteReturns(i) \/ T!TransportFails(i)
  PROVE  AliasInv'
<1>1. UNCHANGED <<alias, process, owed>>
  BY DEF T!BeginRemote, T!SendRemote, T!RemoteReturns, T!TransportFails, T!AliasVars
<1>2. CASE T!SendRemote(i) \/ T!RemoteReturns(i) \/ T!TransportFails(i)
  <2>1. T!Ends(i) \/ toolCall' = [toolCall EXCEPT ![i].at = "calling"]
    BY <1>2 DEF T!SendRemote, T!RemoteReturns, T!TransportFails
  <2>2. toolCall[i].at \in {"connecting", "calling"}
    BY <1>2 DEF T!SendRemote, T!RemoteReturns, T!TransportFails
  <2>3. DOMAIN toolCall' = Calls /\ \A j \in Calls \ {i} : toolCall'[j] = toolCall[j]
    BY <2>1 DEF AliasInv, AliasTypes, T!Ends
  <2>4. DOMAIN toolCall'[i] = {"at", "caller", "of"}
    BY <2>1 DEF AliasInv, AliasTypes, T!Ends, T!Free
  <2>5. toolCall'[i].at = "free" \/ (toolCall'[i].at = "calling" /\ toolCall'[i].caller = toolCall[i].caller)
    BY <2>1 DEF AliasInv, AliasTypes, T!Ends, T!Free
  <2>6. toolCall[i].caller \in Caller /\ Busy(i, toolCall[i].caller)
    BY <2>2 DEF AliasInv, AliasTypes, Busy
  <2>7. QED
    BY <2>3, <2>4, <2>5, <2>6, <1>1, CallElsewhere
<1>3. ASSUME NEW c \in Caller, NEW old \in SUBSET cached, T!BeginRemote(i, c, old) PROVE AliasInv'
  <2>1. T!Begins(i, c) /\ \E n : T!Goes(i, "connecting", c, n)
    BY <1>3 DEF T!BeginRemote
  <2>2. DOMAIN toolCall' = Calls /\ \A j \in Calls \ {i} : toolCall'[j] = toolCall[j]
    BY <2>1 DEF AliasInv, AliasTypes, T!Goes
  <2>3. DOMAIN toolCall'[i] = {"at", "caller", "of"} /\ toolCall'[i].at = "connecting" /\ toolCall'[i].caller = c
    BY <2>1 DEF AliasInv, AliasTypes, T!Goes
  <2>4. c \in Serial => ~T!InProgress(c)
    BY <2>1 DEF T!Begins
  <2>5. QED
    BY <2>2, <2>3, <2>4, <1>1, CallElsewhere
<1>4. QED
  BY <1>2, <1>3

\* Every step of the tools keeps the invariant.
LEMMA AliasStep == AliasInv /\ [T!Next]_T!vars => AliasInv'
<1> SUFFICES ASSUME AliasInv, [T!Next]_T!vars PROVE AliasInv'
  OBVIOUS
<1>1. CASE T!Documented \/ (\E n \in DOMAIN client : T!Connect(n)) \/ UNCHANGED T!vars
  <2>1. UNCHANGED <<alias, process, owed, toolCall>>
    BY <1>1 DEF T!Documented, T!BeginDocumentRead, T!Connect, T!AliasVars, T!vars, T!toolVars
  <2>2. QED
    BY <2>1 DEF AliasInv, AliasTypes, Follows, Busy
<1>2. CASE T!Aliased
  <2>1. ASSUME NEW i \in Calls, NEW c \in Caller, T!BeginStartup(i, c) \/ T!BeginAliasRead(i, c) PROVE AliasInv'
    BY <2>1, StartupCalls, AliasReadBegins
  <2>2. ASSUME NEW i \in Calls, NEW left \in 0 .. 2, NEW running \in BOOLEAN, T!StartupStarted(i, left, running)
        PROVE  AliasInv'
    BY <2>2, StartReturns
  <2>3. ASSUME NEW i \in Calls, T!StartupFails(i) \/ T!AliasReadReturns(i) \/ T!AliasReadFails(i) PROVE AliasInv'
    BY <2>3, StartupCalls, AliasReadEnds
  <2>4. ASSUME NEW p \in DOMAIN process, T!StartupProcessEnds(p) PROVE AliasInv'
    BY <2>4, StartupEnds
  <2>5. QED
    BY <1>2, <2>1, <2>2, <2>3, <2>4 DEF T!Aliased
<1>3. CASE \E i \in Calls : \/ \E c \in Caller, old \in SUBSET cached : T!BeginRemote(i, c, old)
                           \/ T!SendRemote(i) \/ T!RemoteReturns(i) \/ T!TransportFails(i)
  BY <1>3, RemoteCalls
<1>4. QED
  BY <1>1, <1>2, <1>3 DEF T!Next, T!Remote

\* `bootstrap` names the process that its caller was told to read on with (src/server.ts),
\* for every caller that has one call at a time, whatever starts and reads fail.
THEOREM AliasIsFollowed == T!Spec => []AliasFollowsReader
<1>1. AliasInv => AliasFollowsReader
  BY DEF AliasInv, Follows, AliasFollowsReader, T!AliasFollowsReader
<1>2. QED
  BY <1>1, AliasInitially, AliasStep, PTL DEF T!Spec

(***************************************************************************)
(* Clients for OMEN                                                        *)
(***************************************************************************)
ClientState == [caller : Caller, link : {"connecting", "open", "failed"}, active : Nat,
                shut : BOOLEAN, broken : BOOLEAN]

Uses(i, n) == toolCall[i].at \in {"connecting", "calling"} /\ toolCall[i].of = n
Users(n) == {i \in Calls : Uses(i, n)}

ClientTypes ==
  /\ client \in Seq(ClientState) /\ cached \subseteq 1 .. Len(client)
  /\ \A i \in Calls : toolCall[i].at \in {"connecting", "calling"} => toolCall[i].of \in 1 .. Len(client)

\* A client is in the cache until it is closed or fails; it counts its calls.
Sound(n) ==
  /\ n \in cached => ~client[n].shut /\ client[n].link # "failed"
  /\ n \notin cached => client[n].shut \/ client[n].link = "failed"
  /\ client[n].active = Cardinality(Users(n))
  /\ Users(n) # {} /\ client[n].shut => client[n].broken

\* The inductive invariant.
ClientInv == ClientTypes /\ \A n \in 1 .. Len(client) : Sound(n)

LEMMA CountedAlike == \A S : T!Cardinality(S) = Cardinality(S)
  BY DEF T!Cardinality, Cardinality

LEMMA FiniteAlike == \A S : T!IsFiniteSet(S) <=> IsFiniteSet(S)
  BY DEF T!IsFiniteSet, IsFiniteSet

LEMMA UsersCounted ==
  ASSUME NEW n
  PROVE  /\ IsFiniteSet(Users(n)) /\ Cardinality(Users(n)) \in Nat
         /\ Cardinality(Users(n)) = 0 <=> Users(n) = {}
<1>1. IsFiniteSet(Calls)
  BY ToolAssumption, FiniteAlike DEF T!ToolAssumption
<1>2. Users(n) \subseteq Calls
  BY DEF Users
<1>3. IsFiniteSet(Users(n))
  BY <1>1, <1>2, FS_Subset
<1>4. QED
  BY <1>3, FS_CardinalityType, FS_EmptySet

\* A call begins to use a client, goes on, or leaves it.
LEMMA UsersStep ==
  ASSUME NEW i \in Calls, \A j \in Calls \ {i} : toolCall'[j] = toolCall[j], NEW n
  PROVE  /\ (Uses(i, n)' <=> Uses(i, n)) => Users(n)' = Users(n)
         /\ Uses(i, n)' /\ ~Uses(i, n) =>
               Users(n)' # {} /\ Cardinality(Users(n)') = Cardinality(Users(n)) + 1
         /\ ~Uses(i, n)' /\ Uses(i, n) =>
               Users(n) # {} /\ Cardinality(Users(n)') = Cardinality(Users(n)) - 1
<1>1. /\ Uses(i, n) <=> i \in Users(n)
      /\ Uses(i, n)' <=> i \in Users(n)'
      /\ \A j \in Calls \ {i} : j \in Users(n)' <=> j \in Users(n)
      /\ Users(n) \subseteq Calls /\ Users(n)' \subseteq Calls
  BY DEF Users, Uses
<1>2. IsFiniteSet(Users(n))
  BY UsersCounted
<1>3. ASSUME Uses(i, n)' <=> Uses(i, n) PROVE Users(n)' = Users(n)
  BY <1>1, <1>3
<1>4. ASSUME Uses(i, n)', ~Uses(i, n)
      PROVE  Users(n)' # {} /\ Cardinality(Users(n)') = Cardinality(Users(n)) + 1
  <2>1. Users(n)' = Users(n) \cup {i} /\ i \notin Users(n)
    BY <1>1, <1>4
  <2>2. QED
    BY <1>2, <2>1, FS_AddElement
<1>5. ASSUME ~Uses(i, n)', Uses(i, n)
      PROVE  Users(n) # {} /\ Cardinality(Users(n)') = Cardinality(Users(n)) - 1
  <2>1. Users(n)' = Users(n) \ {i} /\ i \in Users(n)
    BY <1>1, <1>5
  <2>2. QED
    BY <1>2, <2>1, FS_RemoveElement
<1>6. QED
  BY <1>3, <1>4, <1>5

\* A step that leaves the clients and their calls alone.
LEMMA ClientsAlone ==
  ASSUME ClientInv, UNCHANGED <<client, cached>>,
         \A i \in Calls : toolCall'[i].at \in {"connecting", "calling"} \/ toolCall[i].at \in {"connecting", "calling"} =>
                             toolCall'[i] = toolCall[i]
  PROVE  ClientInv'
<1>1. \A i \in Calls : \A n : Uses(i, n)' <=> Uses(i, n)
  BY DEF Uses
<1>2. \A n : Users(n)' = Users(n)
  BY <1>1 DEF Users
<1>3. ClientTypes'
  BY DEF ClientInv, ClientTypes
<1>4. QED
  BY <1>2, <1>3 DEF ClientInv, Sound

\* One client changes, and a call of it.
LEMMA OneClient ==
  ASSUME ClientInv, NEW n \in 1 .. Len(client), NEW r \in ClientState,
         client' = [client EXCEPT ![n] = r], cached' = cached \/ cached' = cached \ {n},
         \A i \in Calls : toolCall'[i].at \in {"connecting", "calling"} => toolCall'[i].of \in 1 .. Len(client),
         \A m : m # n => Users(m)' = Users(m),
         n \in cached' => ~r.shut /\ r.link # "failed",
         n \notin cached' => r.shut \/ r.link = "failed",
         r.active = Cardinality(Users(n)'),
         Users(n)' # {} /\ r.shut => r.broken
  PROVE  ClientInv'
<1>1. client \in Seq(ClientState) /\ cached \subseteq 1 .. Len(client)
  BY DEF ClientInv, ClientTypes
<1>2. /\ client' \in Seq(ClientState) /\ Len(client') = Len(client) /\ client'[n] = r
      /\ \A m \in 1 .. Len(client) : m # n => client'[m] = client[m]
  BY <1>1, ExceptSeq
<1>3. ClientTypes'
  BY <1>1, <1>2 DEF ClientTypes
<1>4. Sound(n)'
  BY <1>2 DEF Sound
<1>5. ASSUME NEW m \in 1 .. Len(client), m # n PROVE Sound(m)'
  <2>1. Users(m)' = Users(m)
    BY <1>5
  <2>2. client'[m] = client[m] /\ (m \in cached' <=> m \in cached)
    BY <1>2, <1>5
  <2>3. Sound(m)
    BY DEF ClientInv
  <2>4. QED
    BY <2>1, <2>2, <2>3 DEF Sound
<1>6. QED
  BY <1>2, <1>3, <1>4, <1>5 DEF ClientInv

LEMMA ClientTyped ==
  ASSUME ClientInv, NEW n \in 1 .. Len(client)
  PROVE  client[n] \in ClientState /\ Sound(n)
<1>1. client \in Seq(ClientState)
  BY DEF ClientInv, ClientTypes
<1>2. client[n] \in ClientState
  BY <1>1, ElementOfSeq
<1>3. QED
  BY <1>2 DEF ClientInv

\* A connection is made, or fails.
LEMMA Connects ==
  ASSUME ClientInv, NEW n \in DOMAIN client, T!Connect(n)
  PROVE  ClientInv'
<1>1. n \in 1 .. Len(client)
  BY DEF ClientInv, ClientTypes
<1>2. client[n] \in ClientState /\ Sound(n)
  BY <1>1, ClientTyped
<1>3. PICK link \in {"open", "failed"} :
        /\ client' = [client EXCEPT ![n].link = link] /\ toolCall' = toolCall
        /\ \/ link = "open" /\ cached' = cached
           \/ link = "failed" /\ cached' = cached \ {n}
  BY DEF T!Connect
<1> DEFINE r == [client[n] EXCEPT !.link = link]
<1>4. r \in ClientState /\ client' = [client EXCEPT ![n] = r]
  BY <1>2, <1>3 DEF ClientState
<1>5. r.shut = client[n].shut /\ r.broken = client[n].broken /\ r.active = client[n].active /\ r.link = link
  BY <1>2 DEF ClientState
<1>6. client[n].link = "connecting"
  BY DEF T!Connect
<1> HIDE DEF r
<1>7. \A m : Users(m)' = Users(m)
  BY <1>3 DEF Users, Uses
<1>8. n \in cached' => ~r.shut /\ r.link # "failed"
  BY <1>2, <1>3, <1>5 DEF Sound
<1>9. n \notin cached' => r.shut \/ r.link = "failed"
  BY <1>2, <1>3, <1>5, <1>6 DEF Sound
<1>10. r.active = Cardinality(Users(n)') /\ (Users(n)' # {} /\ r.shut => r.broken)
  BY <1>2, <1>5, <1>7 DEF Sound
<1>11. \A i \in Calls : toolCall'[i].at \in {"connecting", "calling"} => toolCall'[i].of \in 1 .. Len(client)
  BY <1>3 DEF ClientInv, ClientTypes
<1>12. QED
  BY <1>1, <1>3, <1>4, <1>7, <1>8, <1>9, <1>10, <1>11, OneClient

\* A call is sent, or is over: it was answered, its connection failed, or its transport.
LEMMA ClientCalls ==
  ASSUME AliasInv, ClientInv, NEW i \in Calls,
         T!SendRemote(i) \/ T!RemoteReturns(i) \/ T!TransportFails(i)
  PROVE  ClientInv'
<1>1. PICK n \in 1 .. Len(client) :
        /\ n = toolCall[i].of /\ Uses(i, n)
        /\ DOMAIN toolCall = Calls /\ DOMAIN toolCall[i] = {"at", "caller", "of"}
  BY DEF AliasInv, AliasTypes, ClientInv, ClientTypes, Uses, T!SendRemote, T!RemoteReturns, T!TransportFails
<1>2. client[n] \in ClientState /\ Sound(n)
  BY <1>1, ClientTyped
<1>3. CASE client' = client /\ cached' = cached /\ toolCall' = [toolCall EXCEPT ![i].at = "calling"]
  <2>1. /\ \A j \in Calls \ {i} : toolCall'[j] = toolCall[j]
        /\ toolCall'[i].at = "calling" /\ toolCall'[i].of = n
    BY <1>1, <1>3
  <2>2. \A m : Uses(i, m)' <=> Uses(i, m)
    BY <1>1, <2>1 DEF Uses
  <2>3. \A m : Users(m)' = Users(m)
    BY <2>1, <2>2, UsersStep
  <2>4. ClientTypes'
    BY <1>1, <1>3, <2>1 DEF ClientInv, ClientTypes
  <2>5. QED
    BY <1>3, <2>3, <2>4 DEF ClientInv, Sound
<1>4. CASE T!Ends(i) /\ \/ client' = T!Leaves(n) /\ cached' = cached
                        \/ client' = T!Disposes(n) /\ cached' = cached \ {n}
  <2>1. /\ \A j \in Calls \ {i} : toolCall'[j] = toolCall[j]
        /\ toolCall'[i].at = "free"
    BY <1>1, <1>4 DEF T!Ends, T!Free
  <2>2. \A m : ~Uses(i, m)' /\ (Uses(i, m) <=> m = n)
    BY <1>1, <2>1 DEF Uses
  <2>3. \A m : m # n => Users(m)' = Users(m)
    BY <2>1, <2>2, UsersStep
  <2>4. Users(n) # {} /\ Cardinality(Users(n)') = Cardinality(Users(n)) - 1
    BY <2>1, <2>2, UsersStep
  <2>5. Cardinality(Users(n)) - 1 \in Nat
    BY <2>4, UsersCounted
  <2>6. \A j \in Calls : toolCall'[j].at \in {"connecting", "calling"} => toolCall'[j].of \in 1 .. Len(client)
    BY <2>1 DEF ClientInv, ClientTypes
  <2>7. CASE client' = T!Leaves(n) /\ cached' = cached
    <3> DEFINE r == [client[n] EXCEPT !.active = @ - 1]
    <3>1. r \in ClientState /\ client' = [client EXCEPT ![n] = r]
      BY <1>2, <2>5, <2>7 DEF ClientState, Sound, T!Leaves
    <3>2. /\ r.shut = client[n].shut /\ r.broken = client[n].broken /\ r.link = client[n].link
          /\ r.active = client[n].active - 1
      BY <1>2 DEF ClientState
    <3> HIDE DEF r
    <3>3. r.active = Cardinality(Users(n)') /\ (Users(n)' # {} /\ r.shut => r.broken)
      BY <1>2, <2>4, <3>2 DEF Sound
    <3>4. (n \in cached' => ~r.shut /\ r.link # "failed") /\ (n \notin cached' => r.shut \/ r.link = "failed")
      BY <1>2, <2>7, <3>2 DEF Sound
    <3>5. QED
      BY <1>1, <2>3, <2>6, <2>7, <3>1, <3>3, <3>4, OneClient
  <2>8. CASE client' = T!Disposes(n) /\ cached' = cached \ {n}
    <3> DEFINE r == [client[n] EXCEPT !.active = @ - 1, !.shut = @ \/ n \in cached, !.broken = TRUE]
    <3>1. r \in ClientState /\ client' = [client EXCEPT ![n] = r]
      BY <1>2, <2>5, <2>8 DEF ClientState, Sound, T!Leaves, T!Disposes, T!Live
    <3>2. /\ r.shut = (client[n].shut \/ n \in cached) /\ r.broken /\ r.link = client[n].link
          /\ r.active = client[n].active - 1
      BY <1>2 DEF ClientState
    <3> HIDE DEF r
    <3>3. r.active = Cardinality(Users(n)')
      BY <1>2, <2>4, <3>2 DEF Sound
    <3>4. n \notin cached' /\ (r.shut \/ r.link = "failed")
      BY <1>2, <2>8, <3>2 DEF Sound
    <3>5. QED
      BY <1>1, <2>3, <2>6, <2>8, <3>1, <3>2, <3>3, <3>4, OneClient
  <2>9. QED
    BY <1>4, <2>7, <2>8
<1>5. ASSUME T!SendRemote(i) PROVE ClientInv'
  <2>1. cached' = cached /\ \/ client' = client /\ toolCall' = [toolCall EXCEPT ![i].at = "calling"]
                            \/ T!Ends(i) /\ client' = T!Leaves(n)
    BY <1>1, <1>5 DEF T!SendRemote
  <2>2. QED
    BY <1>3, <1>4, <2>1
<1>6. ASSUME T!RemoteReturns(i) PROVE ClientInv'
  <2>1. cached' = cached /\ T!Ends(i) /\ client' = T!Leaves(n)
    BY <1>1, <1>6 DEF T!RemoteReturns
  <2>2. QED
    BY <1>4, <2>1
<1>7. ASSUME T!TransportFails(i) PROVE ClientInv'
  <2>1. cached' = cached \ {n} /\ T!Ends(i) /\ client' = T!Disposes(n)
    BY <1>1, <1>7 DEF T!TransportFails
  <2>2. QED
    BY <1>4, <2>1
<1>8. QED
  BY <1>5, <1>6, <1>7

LEMMA FunctionIsSequence ==
  ASSUME NEW S, NEW k \in Nat, NEW f \in [1 .. k -> S]
  PROVE  f \in Seq(S) /\ Len(f) = k
<1>1. f \in Seq(S)
  BY SeqDef
<1>2. QED
  BY <1>1, LenProperties

\* A call begins: the cache is pruned, which closes no client that is in use.
LEMMA RemoteBegins ==
  ASSUME AliasInv, ClientInv, NEW i \in Calls, NEW c \in Caller, NEW old \in SUBSET cached,
         T!BeginRemote(i, c, old)
  PROVE  ClientInv'
<1>1. /\ client \in Seq(ClientState) /\ cached \subseteq 1 .. Len(client) /\ DOMAIN toolCall = Calls
      /\ toolCall[i].at = "free" /\ DOMAIN client = 1 .. Len(client) /\ Len(client) \in Nat
  BY DEF AliasInv, AliasTypes, ClientInv, ClientTypes, T!BeginRemote, T!Begins
<1> DEFINE new == [caller |-> c, link |-> "connecting", active |-> 1, shut |-> FALSE, broken |-> FALSE]
<1>2. PICK gone \in SUBSET cached :
        /\ T!PruneClients(gone, old)
        /\ \/ \E n \in cached \ gone :
                 /\ client' = [T!Shut(gone) EXCEPT ![n].active = @ + 1]
                 /\ cached' = cached \ gone /\ T!Goes(i, "connecting", c, n)
           \/ /\ client' = Append(T!Shut(gone), new)
              /\ cached' = (cached \ gone) \cup {Len(client) + 1}
              /\ T!Goes(i, "connecting", c, Len(client) + 1)
  BY DEF T!BeginRemote, T!EntryOf
<1>3. \A n \in 1 .. Len(client) : client[n] \in ClientState /\ Sound(n)
  BY ClientTyped
<1>4. \A n \in gone : Users(n) = {} /\ client[n].active = 0
  <2> TAKE n \in gone
  <2>1. ~(client[n].active > 0) /\ n \in 1 .. Len(client)
    BY <1>1, <1>2 DEF T!PruneClients, T!Stays
  <2>2. client[n].active = 0
    BY <1>3, <2>1 DEF ClientState
  <2>3. QED
    BY <1>3, <2>1, <2>2, UsersCounted DEF Sound
\* The clients that are pruned are closed.
<1> DEFINE rest == T!Shut(gone)
<1>5. /\ rest \in [1 .. Len(client) -> ClientState]
      /\ \A n \in 1 .. Len(client) :
            /\ n \notin gone => rest[n] = client[n]
            /\ n \in gone => rest[n].shut /\ rest[n].active = client[n].active
  BY <1>1, <1>3 DEF T!Shut, ClientState
<1>6. rest \in Seq(ClientState) /\ Len(rest) = Len(client)
  BY <1>1, <1>5, FunctionIsSequence
<1> HIDE DEF rest, new
<1>7. ASSUME NEW n \in Nat, T!Goes(i, "connecting", c, n)
      PROVE  /\ \A j \in Calls \ {i} : toolCall'[j] = toolCall[j]
             /\ toolCall'[i].at = "connecting" /\ toolCall'[i].of = n
             /\ \A m : m # n => Users(m)' = Users(m)
             /\ Users(n)' # {} /\ Cardinality(Users(n)') = Cardinality(Users(n)) + 1
  <2>1. /\ \A j \in Calls \ {i} : toolCall'[j] = toolCall[j]
        /\ toolCall'[i].at = "connecting" /\ toolCall'[i].of = n
    BY <1>1, <1>7 DEF T!Goes
  <2>2. \A m : ~Uses(i, m) /\ (Uses(i, m)' <=> m = n)
    BY <1>1, <2>1 DEF Uses
  <2>3. QED
    BY <2>1, <2>2, UsersStep
\* Of the clients that the call does not use.
<1>8. ASSUME NEW n \in 1 .. Len(client), Users(n)' = Users(n), client'[n] = rest[n],
             n \in cached' <=> n \in cached \ gone
      PROVE  Sound(n)'
  <2>1. CASE n \in gone
    BY <1>2, <1>3, <1>4, <1>5, <1>8, <2>1 DEF Sound
  <2>2. CASE n \notin gone
    BY <1>3, <1>5, <1>8, <2>2 DEF Sound
  <2>3. QED
    BY <2>1, <2>2
<1>9. ASSUME NEW n \in cached \ gone, client' = [rest EXCEPT ![n].active = @ + 1],
             cached' = cached \ gone, T!Goes(i, "connecting", c, n)
      PROVE  ClientInv'
  <2> DEFINE r == [client[n] EXCEPT !.active = @ + 1]
  <2>1. n \in 1 .. Len(client) /\ rest[n] = client[n]
    BY <1>1, <1>5, <1>9
  <2>2. r \in ClientState /\ client' = [rest EXCEPT ![n] = r]
    BY <1>3, <1>9, <2>1 DEF ClientState
  <2>3. /\ r.shut = client[n].shut /\ r.link = client[n].link /\ r.active = client[n].active + 1
        /\ r.broken = client[n].broken
    BY <1>3, <2>1 DEF ClientState
  <2> HIDE DEF r
  <2>4. /\ client' \in Seq(ClientState) /\ Len(client') = Len(client) /\ client'[n] = r
        /\ \A m \in 1 .. Len(client) : m # n => client'[m] = rest[m]
    BY <1>6, <2>1, <2>2, ExceptSeq
  <2>5. Sound(n)'
    BY <1>3, <1>7, <1>9, <2>1, <2>3, <2>4 DEF Sound
  <2>6. \A m \in 1 .. Len(client) : m # n => Sound(m)'
    BY <1>7, <1>8, <1>9, <2>1, <2>4
  <2>7. ClientTypes'
    BY <1>1, <1>7, <1>9, <2>1, <2>4 DEF ClientInv, ClientTypes
  <2>8. QED
    BY <2>4, <2>5, <2>6, <2>7 DEF ClientInv
<1>10. ASSUME client' = Append(rest, new), cached' = (cached \ gone) \cup {Len(client) + 1},
              T!Goes(i, "connecting", c, Len(client) + 1)
       PROVE  ClientInv'
  <2>1. PICK n \in Nat : n = Len(client) + 1
    BY <1>1
  <2>2. new \in ClientState /\ new.active = 1 /\ ~new.shut /\ new.link = "connecting"
    BY DEF new, ClientState
  <2>3. /\ client' \in Seq(ClientState) /\ Len(client') = n /\ client'[n] = new
        /\ \A m \in 1 .. Len(client) : client'[m] = rest[m]
    BY <1>1, <1>6, <1>10, <2>1, <2>2
  <2>4. Users(n) = {}
    BY <1>1, <2>1 DEF Users, Uses, ClientInv, ClientTypes
  <2>5. Sound(n)'
    <3>1. Cardinality(Users(n)') = 1 /\ n \in cached'
      BY <1>7, <1>10, <2>1, <2>4, UsersCounted
    <3>2. QED
      BY <2>2, <2>3, <3>1 DEF Sound
  <2>6. \A m \in 1 .. Len(client) : Sound(m)'
    BY <1>1, <1>7, <1>8, <1>10, <2>1, <2>3
  <2>7. ClientTypes'
    <3>1. \A j \in Calls : toolCall'[j].at \in {"connecting", "calling"} => toolCall'[j].of \in 1 .. n
      BY <1>1, <1>7, <1>10, <2>1 DEF ClientInv, ClientTypes
    <3>2. cached' \subseteq 1 .. n
      <4>1. \A m \in 1 .. Len(client) : m \in 1 .. n
        BY <1>1, <2>1
      <4>2. n \in 1 .. n
        BY <1>1, <2>1
      <4>3. cached' \subseteq (cached \cup {n})
        BY <1>10, <2>1
      <4>4. QED
        BY <1>1, <4>1, <4>2, <4>3
    <3>3. QED
      BY <2>3, <3>1, <3>2 DEF ClientTypes
  <2>8. QED
    BY <1>1, <2>1, <2>3, <2>5, <2>6, <2>7 DEF ClientInv
<1>11. QED
  BY <1>2, <1>9, <1>10 DEF rest, new

\* Every step of the tools keeps the invariant.
LEMMA ClientStep == AliasInv /\ ClientInv /\ [T!Next]_T!vars => ClientInv'
<1> SUFFICES ASSUME AliasInv, ClientInv, [T!Next]_T!vars PROVE ClientInv'
  OBVIOUS
<1>1. CASE T!Documented \/ UNCHANGED T!vars
  <2>1. UNCHANGED <<client, cached, toolCall>>
    BY <1>1 DEF T!Documented, T!BeginDocumentRead, T!vars, T!toolVars
  <2>2. QED
    BY <2>1, ClientsAlone
<1>2. CASE T!Aliased
  <2>1. UNCHANGED <<client, cached>>
    BY <1>2 DEF T!Aliased, T!BeginStartup, T!BeginAliasRead, T!StartupStarted, T!StartupFails,
                T!AliasReadReturns, T!AliasReadFails, T!StartupProcessEnds, T!ClientVars
  <2>2. DOMAIN toolCall = Calls
    BY DEF AliasInv, AliasTypes
  <2>3. ASSUME NEW i \in Calls, toolCall[i].at \in {"free", "starting", "reading"},
               \/ T!Ends(i)
               \/ \E at \in {"starting", "reading"} : \E d \in Caller : \E p : T!Goes(i, at, d, p)
        PROVE  ClientInv'
    <3>1. toolCall'[i].at \in {"free", "starting", "reading"} /\ \A j \in Calls \ {i} : toolCall'[j] = toolCall[j]
      BY <2>2, <2>3 DEF T!Ends, T!Free, T!Goes
    <3>2. QED
      BY <2>1, <2>3, <3>1, ClientsAlone
  <2>4. ASSUME NEW i \in Calls, NEW c \in Caller, T!BeginStartup(i, c) \/ T!BeginAliasRead(i, c) PROVE ClientInv'
    BY <2>3, <2>4 DEF T!BeginStartup, T!BeginAliasRead, T!Begins
  <2>5. ASSUME NEW i \in Calls, NEW left \in 0 .. 2, NEW running \in BOOLEAN, T!StartupStarted(i, left, running)
        PROVE  ClientInv'
    BY <2>3, <2>5 DEF T!StartupStarted
  <2>6. ASSUME NEW i \in Calls, T!StartupFails(i) \/ T!AliasReadReturns(i) \/ T!AliasReadFails(i) PROVE ClientInv'
    BY <2>3, <2>6 DEF T!StartupFails, T!AliasReadReturns, T!AliasReadFails
  <2>7. ASSUME NEW p \in DOMAIN process, T!StartupProcessEnds(p) PROVE ClientInv'
    BY <2>1, <2>7, ClientsAlone DEF T!StartupProcessEnds
  <2>8. QED
    BY <1>2, <2>4, <2>5, <2>6, <2>7 DEF T!Aliased
<1>3. CASE T!Remote
  BY <1>3, RemoteBegins, ClientCalls, Connects DEF T!Remote
<1>4. QED
  BY <1>1, <1>2, <1>3 DEF T!Next

\* No client is closed under a call (pruneOmenClients, src/server.ts), each counts its calls, and
\* one that is not kept is closed or was never connected, for any number of callers and calls.
THEOREM ClientsAreKept == T!Spec => []ClientsOutliveCalls
<1>1. T!Init => ClientInv
  BY DEF T!Init, T!Free, ClientInv, ClientTypes
<1>2. ASSUME ClientInv PROVE ClientsOutliveCalls
  <2>1. \A i \in Calls : toolCall[i].at \in {"connecting", "calling"} =>
          toolCall[i].of \in 1 .. Len(client) /\ i \in Users(toolCall[i].of)
    BY <1>2 DEF ClientInv, ClientTypes, Users, Uses
  <2>2. \A n \in 1 .. Len(client) : Sound(n)
    BY <1>2 DEF ClientInv
  <2>3. DOMAIN client = 1 .. Len(client)
    BY <1>2 DEF ClientInv, ClientTypes
  <2>4. \A n : Users(n) = {i \in Calls : toolCall[i].at \in {"connecting", "calling"} /\ toolCall[i].of = n}
    BY DEF Users, Uses
  <2>5. QED
    BY <2>1, <2>2, <2>3, <2>4, CountedAlike DEF ClientsOutliveCalls, T!ClientsOutliveCalls, T!Live, Sound
<1>3. QED
  BY <1>1, <1>2, AliasInitially, AliasStep, ClientStep, PTL DEF T!Spec

-----------------------------------------------------------------------------
(* Every set of numbers has a least one: what inductions are made with.     *)

LEMMA Least ==
  ASSUME NEW S \in SUBSET Nat, S # {}
  PROVE  \E n \in S : \A m \in S : n <= m
<1> DEFINE R == {p \in Nat \X Nat : p[1] < p[2]}
<1>1. IsWellFoundedOn(R, Nat)
  BY NatLessThanWellFounded DEF OpToRel
<1>2. PICK n \in S : \A m \in S : ~ (<<m, n>> \in R)
  BY <1>1, WFMin
<1>3. \A m \in Nat, k \in Nat : m < k => <<m, k>> \in R
  OBVIOUS
<1> HIDE DEF R
<1>4. \A m \in S : ~(m < n)
  BY <1>2, <1>3
<1> QED  BY <1>4

-----------------------------------------------------------------------------
(* FlattenSeq is a function defined by itself: there is one, and only one.  *)

\* f holds the first n texts of a sequence of texts, one behind the other.
Flattens(f, texts, n) ==
  f = [i \in 1 .. n |-> IF i = 1 THEN texts[i] ELSE f[i - 1] \o texts[i]]

LEMMA FlattensOnce ==
  ASSUME NEW texts, NEW n \in Nat, NEW f, NEW g, Flattens(f, texts, n), Flattens(g, texts, n)
  PROVE  f = g
<1> DEFINE Unequal == {i \in 1 .. n : f[i] # g[i]}
<1>0. Unequal \in SUBSET Nat
  OBVIOUS
<1>1. ASSUME Unequal # {} PROVE FALSE
  <2>1. PICK i \in Unequal : \A j \in Unequal : i <= j
    BY <1>1, <1>0, Least
  <2>2. i \in 1 .. n /\ f[i] # g[i]
    BY <2>1
  <2>3. i # 1 => f[i - 1] = g[i - 1]
    BY <2>1, <2>2
  <2>4. /\ f[i] = IF i = 1 THEN texts[i] ELSE f[i - 1] \o texts[i]
        /\ g[i] = IF i = 1 THEN texts[i] ELSE g[i - 1] \o texts[i]
    BY <2>2, Zenon DEF Flattens
  <2> QED  BY <2>2, <2>3, <2>4
<1>2. \A i \in 1 .. n : f[i] = g[i]
  BY <1>1
<1>3. /\ f = [i \in 1 .. n |-> f[i]]
      /\ g = [i \in 1 .. n |-> g[i]]
  BY DEF Flattens
<1> QED  BY <1>2, <1>3

LEMMA FlattensTypes ==
  ASSUME NEW M, NEW texts \in Seq(Seq(M)), NEW n \in 0 .. Len(texts), NEW f, Flattens(f, texts, n)
  PROVE  \A i \in 1 .. n : f[i] \in Seq(M)
<1> DEFINE Wrong == {i \in 1 .. n : f[i] \notin Seq(M)}
<1>0. Wrong \in SUBSET Nat
  OBVIOUS
<1>1. ASSUME Wrong # {} PROVE FALSE
  <2>1. PICK i \in Wrong : \A j \in Wrong : i <= j
    BY <1>1, <1>0, Least
  <2>2. i \in 1 .. n /\ f[i] \notin Seq(M) /\ texts[i] \in Seq(M)
    BY <2>1
  <2>3. i # 1 => f[i - 1] \in Seq(M)
    BY <2>1, <2>2
  <2>4. f[i] = IF i = 1 THEN texts[i] ELSE f[i - 1] \o texts[i]
    BY <2>2, Zenon DEF Flattens
  <2> QED  BY <2>2, <2>3, <2>4, ConcatProperties
<1> QED  BY <1>1

LEMMA FlattensLess ==
  ASSUME NEW texts, NEW n \in Nat, NEW f, Flattens(f, texts, n + 1)
  PROVE  Flattens([i \in 1 .. n |-> f[i]], texts, n)
<1> DEFINE h == [i \in 1 .. n |-> f[i]]
<1>1. ASSUME NEW i \in 1 .. n PROVE h[i] = IF i = 1 THEN texts[i] ELSE h[i - 1] \o texts[i]
  <2>1. i \in 1 .. n + 1 /\ (i # 1 => i - 1 \in 1 .. n)
    OBVIOUS
  <2>2. f[i] = IF i = 1 THEN texts[i] ELSE f[i - 1] \o texts[i]
    BY <2>1, Zenon DEF Flattens
  <2> QED  BY <2>1, <2>2
<1>2. h = [i \in 1 .. n |-> IF i = 1 THEN texts[i] ELSE h[i - 1] \o texts[i]]
  BY <1>1
<1> QED  BY <1>2 DEF Flattens

LEMMA FlattensMore ==
  ASSUME NEW texts, NEW n \in Nat, NEW f, Flattens(f, texts, n)
  PROVE  \E g : Flattens(g, texts, n + 1)
<1> DEFINE g == [i \in 1 .. n + 1 |->
                   IF i = n + 1 THEN IF i = 1 THEN texts[i] ELSE f[n] \o texts[i] ELSE f[i]]
<1>1. \A i \in 1 .. n : f[i] = IF i = 1 THEN texts[i] ELSE f[i - 1] \o texts[i]
  BY DEF Flattens
<1>2. \A i \in 1 .. n + 1 : g[i] = IF i = 1 THEN texts[i] ELSE g[i - 1] \o texts[i]
  BY <1>1
<1>3. Flattens(g, texts, n + 1)
  BY <1>2 DEF Flattens
<1> QED  BY <1>3

LEMMA FlattensSome == ASSUME NEW texts, NEW n \in Nat PROVE \E f : Flattens(f, texts, n)
<1> DEFINE Without == {k \in Nat : ~ \E f : Flattens(f, texts, k)}
<1>1. ASSUME Without # {} PROVE FALSE
  <2>1. PICK k \in Without : \A j \in Without : k <= j
    BY <1>1, Least
  <2>2. k # 0
    <3>1. Flattens([i \in 1 .. 0 |-> 0], texts, 0)
      BY DEF Flattens
    <3> QED  BY <2>1, <3>1
  <2>3. PICK f : Flattens(f, texts, k - 1)
    BY <2>1, <2>2
  <2>4. \E g : Flattens(g, texts, (k - 1) + 1)
    BY <2>2, <2>3, FlattensMore
  <2> QED  BY <2>1, <2>2, <2>4
<1> QED  BY <1>1

LEMMA FlattenIs ==
  ASSUME NEW texts, Len(texts) \in Nat \ {0}, NEW f, Flattens(f, texts, Len(texts))
  PROVE  FlattenSeq(texts) = f[Len(texts)]
<1> DEFINE g == CHOOSE h : Flattens(h, texts, Len(texts))
<1>1. Flattens(g, texts, Len(texts))
  BY FlattensSome
<1>2. g = f
  BY <1>1, FlattensOnce
<1>3. FlattenSeq(texts) = g[Len(texts)]
  BY Zenon DEF FlattenSeq, Flattens
<1> QED  BY <1>2, <1>3

-----------------------------------------------------------------------------
(* The texts of a capture, one behind the other                            *)

LEMMA FlatNone == FlattenSeq(<<>>) = <<>>
  BY DEF FlattenSeq

LEMMA FlatType == ASSUME NEW M, NEW texts \in Seq(Seq(M)) PROVE FlattenSeq(texts) \in Seq(M)
<1>1. Len(texts) \in Nat
  OBVIOUS
<1>2. CASE Len(texts) = 0
  <2>1. texts = <<>>
    BY <1>2, EmptySeq
  <2>2. <<>> \in Seq(M)
    OBVIOUS
  <2> QED  BY <2>1, <2>2, FlatNone
<1>3. CASE Len(texts) # 0
  <2>1. PICK f : Flattens(f, texts, Len(texts))
    BY <1>1, FlattensSome
  <2>2. f[Len(texts)] \in Seq(M)
    BY <1>1, <1>3, <2>1, FlattensTypes
  <2> QED  BY <1>1, <1>3, <2>1, <2>2, FlattenIs
<1> QED  BY <1>2, <1>3

LEMMA FlatAppend ==
  ASSUME NEW M, NEW texts \in Seq(Seq(M)), NEW text \in Seq(M)
  PROVE  FlattenSeq(Append(texts, text)) = FlattenSeq(texts) \o text
<1> DEFINE more == Append(texts, text)
           n == Len(texts)
<1>1. /\ n \in Nat /\ Len(more) = n + 1 /\ more[n + 1] = text
      /\ \A i \in 1 .. n : more[i] = texts[i]
  BY AppendProperties
<1> HIDE DEF more, n
<1>2. PICK g : Flattens(g, more, n + 1)
  <2>1. n + 1 \in Nat
    BY <1>1
  <2> QED  BY <2>1, FlattensSome
<1>3. FlattenSeq(more) = g[n + 1]
  BY <1>1, <1>2, FlattenIs
<1>4. g[n + 1] = IF n + 1 = 1 THEN more[n + 1] ELSE g[n] \o more[n + 1]
  <2>1. n + 1 \in 1 .. n + 1 /\ (n + 1) - 1 = n
    BY <1>1
  <2>2. g[n + 1] = IF n + 1 = 1 THEN more[n + 1] ELSE g[(n + 1) - 1] \o more[n + 1]
    BY <1>2, <2>1, Zenon DEF Flattens
  <2> QED  BY <2>1, <2>2
<1>5. CASE n = 0
  <2>1. texts = <<>>
    BY <1>5, EmptySeq DEF n
  <2>2. <<>> \o text = text
    BY ConcatEmptySeq
  <2> QED  BY <1>1, <1>3, <1>4, <1>5, <2>1, <2>2, FlatNone DEF more
<1>6. CASE n # 0
  <2> DEFINE h == [i \in 1 .. n |-> g[i]]
  <2>1. Flattens(h, more, n)
    BY <1>1, <1>2, FlattensLess
  <2>2. \A i \in 1 .. n : h[i] = IF i = 1 THEN more[i] ELSE h[i - 1] \o more[i]
    BY <2>1, Zenon DEF Flattens
  <2>3. h = [i \in 1 .. n |-> IF i = 1 THEN texts[i] ELSE h[i - 1] \o texts[i]]
    BY <1>1, <2>2
  <2>6. Flattens(h, texts, n)
    BY <2>3 DEF Flattens
  <2> HIDE DEF h
  <2>4. FlattenSeq(texts) = h[n]
    BY <1>1, <1>6, <2>6, FlattenIs DEF n
  <2>5. h[n] = g[n] /\ n + 1 # 1
    BY <1>1, <1>6 DEF h
  <2> QED  BY <1>1, <1>3, <1>4, <2>4, <2>5 DEF more
<1> QED  BY <1>5, <1>6

LEMMA FlatOne == ASSUME NEW M, NEW text \in Seq(M) PROVE FlattenSeq(<<text>>) = text
<1>1. Append(<<>>, text) = <<text>> /\ <<>> \in Seq(Seq(M)) /\ <<>> \o text = text
  BY ConcatEmptySeq
<1> QED  BY <1>1, FlatAppend, FlatNone

LEMMA Rejoined ==
  ASSUME NEW M, NEW one \in Seq(M), NEW two \in Seq(M), NEW three \in Seq(M)
  PROVE  (one \o two) \o three = one \o (two \o three)
  BY ConcatAssociative

LEMMA FlatContinues ==
  ASSUME NEW M, NEW some \in Seq(Seq(M)), NEW others \in Seq(Seq(M)), NEW text \in Seq(M),
         FlattenSeq(some \o others) = FlattenSeq(some) \o FlattenSeq(others)
  PROVE  FlattenSeq(some \o Append(others, text)) = FlattenSeq(some) \o FlattenSeq(Append(others, text))
<1>1. some \o Append(others, text) = Append(some \o others, text) /\ some \o others \in Seq(Seq(M))
  <2>1. <<text>> \in Seq(Seq(M)) /\ some \o others \in Seq(Seq(M))
    OBVIOUS
  <2>2. (some \o others) \o <<text>> = some \o (others \o <<text>>)
    BY <2>1, Rejoined
  <2>3. /\ Append(others, text) = others \o <<text>>
        /\ Append(some \o others, text) = (some \o others) \o <<text>>
    BY <2>1, AppendIsConcat
  <2> QED  BY <2>1, <2>2, <2>3
<1>2. FlattenSeq(some \o Append(others, text)) = (FlattenSeq(some) \o FlattenSeq(others)) \o text
  BY <1>1, FlatAppend
<1>3. FlattenSeq(Append(others, text)) = FlattenSeq(others) \o text
  BY FlatAppend
<1>4. FlattenSeq(some) \in Seq(M) /\ FlattenSeq(others) \in Seq(M)
  BY FlatType
<1>5. (FlattenSeq(some) \o FlattenSeq(others)) \o text = FlattenSeq(some) \o (FlattenSeq(others) \o text)
  BY <1>4, Rejoined
<1> QED  BY <1>2, <1>3, <1>5

LEMMA FlatConcat ==
  ASSUME NEW M, NEW some \in Seq(Seq(M)), NEW others \in Seq(Seq(M))
  PROVE  FlattenSeq(some \o others) = FlattenSeq(some) \o FlattenSeq(others)
<1> DEFINE Wrong == {n \in Nat : \E t \in Seq(Seq(M)) :
                       Len(t) = n /\ FlattenSeq(some \o t) # FlattenSeq(some) \o FlattenSeq(t)}
<1>0. Wrong \in SUBSET Nat
  OBVIOUS
<1>1. ASSUME Wrong # {} PROVE FALSE
  <2>1. PICK n \in Wrong : \A m \in Wrong : n <= m
    BY <1>0, <1>1, Least
  <2>2. PICK t \in Seq(Seq(M)) :
          Len(t) = n /\ FlattenSeq(some \o t) # FlattenSeq(some) \o FlattenSeq(t)
    BY <2>1
  <2>3. t # <<>>
    <3>1. some \o <<>> = some /\ FlattenSeq(some) \o <<>> = FlattenSeq(some)
      BY ConcatEmptySeq, FlatType
    <3> QED  BY <2>2, <3>1, FlatNone
  <2>4. PICK u \in Seq(Seq(M)), text \in Seq(M) : t = Append(u, text)
    BY <2>2, <2>3, SequenceEmptyOrAppend
  <2>5. Len(u) \in Nat /\ Len(t) = Len(u) + 1
    BY <2>4, AppendProperties
  <2>6. FlattenSeq(some \o u) = FlattenSeq(some) \o FlattenSeq(u)
    <3>1. ~(n <= Len(u)) /\ Len(u) \in Nat
      BY <2>1, <2>2, <2>5
    <3>2. Len(u) \notin Wrong
      BY <2>1, <3>1
    <3> QED  BY <2>4, <3>1, <3>2
  <2>7. FlattenSeq(some \o t) = FlattenSeq(some) \o FlattenSeq(t)
    BY <2>4, <2>6, FlatContinues
  <2> QED  BY <2>2, <2>7
<1>2. Len(others) \in Nat
  OBVIOUS
<1>3. Len(others) \notin Wrong
  <2> HIDE DEF Wrong
  <2> QED  BY <1>1
<1> QED  BY <1>2, <1>3

-----------------------------------------------------------------------------
(* The end of a text                                                       *)

LEMMA LastTypes ==
  ASSUME NEW M, NEW w \in Seq(M), NEW n \in Nat
  PROVE  /\ LastOf(w, n) \in Seq(M)
         /\ Len(LastOf(w, n)) = IF Len(w) > n THEN n ELSE Len(w)
         /\ \A i \in 1 .. Len(LastOf(w, n)) : LastOf(w, n)[i] = w[(Len(w) - Len(LastOf(w, n))) + i]
<1>1. Len(w) \in Nat /\ \A i \in 1 .. Len(w) : w[i] \in M
  OBVIOUS
<1> DEFINE k == IF Len(w) > n THEN Len(w) - n ELSE 0
<1>2. k \in Nat /\ k <= Len(w) /\ \A i \in 1 + k .. Len(w) : w[i] \in M
  BY <1>1
<1> HIDE DEF k
<1>3. /\ SubSeq(w, 1 + k, Len(w)) \in Seq(M)
      /\ Len(SubSeq(w, 1 + k, Len(w))) = IF 1 + k <= Len(w) THEN Len(w) - (1 + k) + 1 ELSE 0
      /\ \A i \in 1 .. Len(w) - (1 + k) + 1 : SubSeq(w, 1 + k, Len(w))[i] = w[(1 + k) + i - 1]
  BY <1>1, <1>2, SubSeqProperties
<1>4. LastOf(w, n) = SubSeq(w, 1 + k, Len(w))
  BY DEF LastOf, k
<1>5. k = IF Len(w) > n THEN Len(w) - n ELSE 0
  BY DEF k
<1>6. Len(LastOf(w, n)) = Len(w) - k
  BY <1>1, <1>2, <1>3, <1>4
<1>7. Len(LastOf(w, n)) = IF Len(w) > n THEN n ELSE Len(w)
  BY <1>1, <1>5, <1>6
<1>8. ASSUME NEW i \in 1 .. Len(LastOf(w, n))
      PROVE  LastOf(w, n)[i] = w[(Len(w) - Len(LastOf(w, n))) + i]
  <2>1. i \in 1 .. Len(w) - (1 + k) + 1 /\ (1 + k) + i - 1 = (Len(w) - Len(LastOf(w, n))) + i
    BY <1>1, <1>2, <1>6
  <2> QED  BY <1>3, <1>4, <2>1
<1> QED  BY <1>3, <1>4, <1>7, <1>8

\* What the end of a text is.
LEMMA LastIs ==
  ASSUME NEW M, NEW w \in Seq(M), NEW n \in Nat, NEW v \in Seq(M),
         Len(v) = IF Len(w) > n THEN n ELSE Len(w),
         \A i \in 1 .. Len(v) : v[i] = w[(Len(w) - Len(v)) + i]
  PROVE  v = LastOf(w, n)
<1> DEFINE e == LastOf(w, n)
<1>1. e \in Seq(M) /\ Len(e) = Len(v) /\ \A i \in 1 .. Len(e) : e[i] = w[(Len(w) - Len(e)) + i]
  BY LastTypes
<1> HIDE DEF e
<1>2. v = e
  BY <1>1, SeqEqual
<1> QED  BY <1>2 DEF e

\* Of a text that grows, the end is known from the end that it had.
LEMMA LastGrows ==
  ASSUME NEW M, NEW w \in Seq(M), NEW t \in Seq(M), NEW n \in Nat
  PROVE  LastOf(LastOf(w, n) \o t, n) = LastOf(w \o t, n)
<1> DEFINE v == LastOf(w, n)
<1>1. /\ v \in Seq(M) /\ Len(v) = (IF Len(w) > n THEN n ELSE Len(w))
      /\ \A i \in 1 .. Len(v) : v[i] = w[(Len(w) - Len(v)) + i]
  BY LastTypes
<1> HIDE DEF v
<1> DEFINE s == v \o t
           u == w \o t
           e == LastOf(s, n)
<1>2. /\ s \in Seq(M) /\ Len(s) = Len(v) + Len(t)
      /\ \A i \in 1 .. Len(v) + Len(t) : s[i] = IF i <= Len(v) THEN v[i] ELSE t[i - Len(v)]
  BY <1>1, ConcatProperties
<1>3. /\ u \in Seq(M) /\ Len(u) = Len(w) + Len(t)
      /\ \A i \in 1 .. Len(w) + Len(t) : u[i] = IF i <= Len(w) THEN w[i] ELSE t[i - Len(w)]
  BY ConcatProperties
<1>4. Len(v) \in Nat /\ Len(w) \in Nat /\ Len(t) \in Nat
  BY <1>1
<1> HIDE DEF s, u
<1>5. /\ e \in Seq(M) /\ Len(e) = (IF Len(s) > n THEN n ELSE Len(s))
      /\ \A i \in 1 .. Len(e) : e[i] = s[(Len(s) - Len(e)) + i]
  BY <1>2, LastTypes
<1> HIDE DEF e
<1>6. Len(e) = IF Len(u) > n THEN n ELSE Len(u)
  BY <1>1, <1>2, <1>3, <1>4, <1>5
<1>7. ASSUME NEW i \in 1 .. Len(e) PROVE e[i] = u[(Len(u) - Len(e)) + i]
  <2> DEFINE j == (Len(s) - Len(e)) + i
             k == (Len(u) - Len(e)) + i
  <2>1. /\ i \in Nat /\ Len(e) \in Nat /\ i >= 1 /\ i <= Len(e)
    BY <1>5
  <2>2. j \in 1 .. Len(s) /\ k \in 1 .. Len(u) /\ k - j = Len(w) - Len(v)
    <3>1. /\ Len(s) = Len(v) + Len(t) /\ Len(u) = Len(w) + Len(t)
          /\ Len(e) <= Len(s) /\ Len(e) <= Len(u)
      BY <1>1, <1>2, <1>3, <1>4, <1>5, <1>6
    <3> QED  BY <1>4, <2>1, <3>1
  <2>3. e[i] = s[j]
    BY <1>5
  <2> HIDE DEF j, k
  <2>4. CASE j <= Len(v)
    <3>3. /\ j \in 1 .. Len(v) /\ j \in 1 .. Len(v) + Len(t)
          /\ k <= Len(w) /\ k \in 1 .. Len(w) + Len(t)
      BY <1>2, <1>3, <1>4, <2>2, <2>4
    <3>1. s[j] = v[j] /\ u[k] = w[k] /\ v[j] = w[(Len(w) - Len(v)) + j]
      BY <1>1, <1>2, <1>3, <2>4, <3>3
    <3>2. (Len(w) - Len(v)) + j = k
      BY <1>4, <2>2
    <3> QED  BY <2>3, <3>1, <3>2 DEF k
  <2>5. CASE j > Len(v)
    <3>1. s[j] = t[j - Len(v)] /\ u[k] = t[k - Len(w)] /\ j - Len(v) = k - Len(w)
      BY <1>2, <1>3, <1>4, <2>2, <2>5
    <3> QED  BY <2>3, <3>1 DEF k
  <2>6. j \in Int /\ Len(v) \in Int
    BY <1>4, <2>2
  <2> QED  BY <2>4, <2>5, <2>6
<1>8. e = LastOf(u, n)
  BY <1>3, <1>5, <1>6, <1>7, LastIs
<1> QED  BY <1>8 DEF e, s, u, v

\* The end of a text that has an end of its own in it.
LEMMA LastJoins ==
  ASSUME NEW M, NEW p \in Seq(M), NEW x \in Seq(M), NEW r \in Seq(M), NEW n \in Nat,
         Len(r) <= n, n <= Len(x) + Len(r)
  PROVE  LastOf(p \o (x \o r), n) = LastOf(x, n - Len(r)) \o r
<1> DEFINE w == p \o (x \o r)
           m == n - Len(r)
           y == LastOf(x, m)
           v == y \o r
<1>1. m \in Nat /\ m <= Len(x) /\ n = m + Len(r) /\ Len(x) \in Nat /\ Len(r) \in Nat /\ Len(p) \in Nat
  OBVIOUS
<1> HIDE DEF m
<1>2. /\ y \in Seq(M) /\ Len(y) = (IF Len(x) > m THEN m ELSE Len(x))
      /\ \A i \in 1 .. Len(y) : y[i] = x[(Len(x) - Len(y)) + i]
  BY <1>1, LastTypes
<1>3. Len(y) = m
  BY <1>1, <1>2
<1> HIDE DEF y
<1>4. /\ v \in Seq(M) /\ Len(v) = m + Len(r)
      /\ \A i \in 1 .. m + Len(r) : v[i] = IF i <= m THEN y[i] ELSE r[i - m]
  BY <1>2, <1>3, ConcatProperties
<1>5. /\ x \o r \in Seq(M) /\ Len(x \o r) = Len(x) + Len(r)
      /\ \A i \in 1 .. Len(x) + Len(r) : (x \o r)[i] = IF i <= Len(x) THEN x[i] ELSE r[i - Len(x)]
  BY ConcatProperties
<1>6. /\ w \in Seq(M) /\ Len(w) = Len(p) + (Len(x) + Len(r))
      /\ \A i \in 1 .. Len(p) + (Len(x) + Len(r)) :
           w[i] = IF i <= Len(p) THEN p[i] ELSE (x \o r)[i - Len(p)]
  BY <1>5, ConcatProperties
<1> HIDE DEF v, w
<1>7. Len(v) = IF Len(w) > n THEN n ELSE Len(w)
  <2>1. Len(v) = n /\ Len(w) \in Nat /\ Len(w) >= n
    BY <1>1, <1>4, <1>6
  <2> QED  BY <2>1
<1>8. ASSUME NEW i \in 1 .. Len(v) PROVE v[i] = w[(Len(w) - Len(v)) + i]
  <2> DEFINE j == (Len(w) - Len(v)) + i
             k == (Len(x) - m) + i
  <2>1. /\ i \in 1 .. m + Len(r) /\ j = Len(p) + k /\ k \in 1 .. Len(x) + Len(r)
        /\ j \in 1 .. Len(p) + (Len(x) + Len(r)) /\ ~(j <= Len(p)) /\ j - Len(p) = k
        /\ (k <= Len(x) <=> i <= m) /\ k - Len(x) = i - m
    BY <1>1, <1>4, <1>6
  <2>2. k = (Len(x) - m) + i
    OBVIOUS
  <2> HIDE DEF j, k
  <2>3. w[j] = (x \o r)[k]
    BY <1>6, <2>1
  <2>4. w[j] = IF i <= m THEN x[k] ELSE r[i - m]
    BY <1>5, <2>1, <2>3
  <2>5. i <= m => i \in 1 .. Len(y) /\ y[i] = x[k]
    <3>1. i <= m => i \in 1 .. Len(y)
      BY <1>1, <1>3, <2>1
    <3>2. (Len(x) - Len(y)) + i = k
      BY <1>3, <2>2
    <3> QED  BY <1>2, <3>1, <3>2
  <2>6. v[i] = IF i <= m THEN y[i] ELSE r[i - m]
    BY <1>4, <2>1
  <2> QED  BY <2>4, <2>5, <2>6 DEF j
<1>9. v = LastOf(w, n)
  BY <1>4, <1>6, <1>7, <1>8, LastIs
<1> QED  BY <1>9 DEF v, w, y, m

\* A text that is long enough is the end of itself and of what comes before it.
LEMMA LastCovers ==
  ASSUME NEW M, NEW w \in Seq(M), NEW t \in Seq(M), NEW n \in Nat, Len(t) >= n
  PROVE  LastOf(w \o t, n) = LastOf(t, n)
<1>1. <<>> \in Seq(M) /\ Len(<<>>) = 0 /\ t \o <<>> = t /\ LastOf(t, n) \o <<>> = LastOf(t, n)
  BY LastTypes, ConcatEmptySeq
<1>2. Len(t) \in Nat /\ 0 <= n /\ n <= Len(t) + 0 /\ n - 0 = n
  OBVIOUS
<1>3. LastOf(w \o (t \o <<>>), n) = LastOf(t, n - Len(<<>>)) \o <<>>
  <2> DEFINE e == <<>>
  <2>1. e \in Seq(M) /\ Len(e) <= n /\ n <= Len(t) + Len(e)
    BY <1>1, <1>2
  <2> HIDE DEF e
  <2>2. LastOf(w \o (t \o e), n) = LastOf(t, n - Len(e)) \o e
    BY <2>1, LastJoins
  <2> QED  BY <2>2 DEF e
<1> QED  BY <1>1, <1>2, <1>3

LEMMA LastAgain ==
  ASSUME NEW M, NEW w \in Seq(M), NEW n \in Nat, Len(w) <= n
  PROVE  LastOf(w, n) = w
<1>1. Len(w) \in Nat
  OBVIOUS
<1>2. Len(w) = IF Len(w) > n THEN n ELSE Len(w)
  BY <1>1
<1>3. \A i \in 1 .. Len(w) : w[i] = w[(Len(w) - Len(w)) + i]
  BY <1>1
<1> QED  BY <1>2, <1>3, LastIs

LEMMA LastRange ==
  ASSUME NEW M, NEW w \in Seq(M), NEW n \in Nat
  PROVE  Range(LastOf(w, n)) \subseteq Range(w)
<1> DEFINE v == LastOf(w, n)
<1>1. /\ v \in Seq(M) /\ Len(v) = (IF Len(w) > n THEN n ELSE Len(w)) /\ Len(w) \in Nat
      /\ \A i \in 1 .. Len(v) : v[i] = w[(Len(w) - Len(v)) + i]
  BY LastTypes
<1> HIDE DEF v
<1>2. \A i \in DOMAIN v : \E j \in DOMAIN w : v[i] = w[j]
  <2>1. \A i \in 1 .. Len(v) : (Len(w) - Len(v)) + i \in 1 .. Len(w)
    BY <1>1
  <2>2. DOMAIN v = 1 .. Len(v) /\ DOMAIN w = 1 .. Len(w)
    BY <1>1
  <2> QED  BY <1>1, <2>1, <2>2
<1>3. Range(v) \subseteq Range(w)
  BY <1>2 DEF Range
<1> QED  BY <1>3 DEF v

-----------------------------------------------------------------------------
(* BoundedCapture                                                          *)

\* Of chunks that are too long there is one at which the others behind it are short enough.
LEMMA ChunkIsFound ==
  ASSUME NEW M, NEW chunks \in Seq(Seq(M)), MaxCapture \in Nat \ {0},
         Len(FlattenSeq(chunks)) > MaxCapture
  PROVE  \E i \in DOMAIN chunks :
           /\ Len(FlattenSeq(SubSeq(chunks, i, Len(chunks)))) >= MaxCapture
           /\ Len(FlattenSeq(SubSeq(chunks, i + 1, Len(chunks)))) < MaxCapture
<1> DEFINE n == Len(chunks)
           Held(i) == Len(FlattenSeq(SubSeq(chunks, i, n)))
           Short == {i \in 1 .. n + 1 : Held(i) < MaxCapture}
<1>1. n \in Nat /\ DOMAIN chunks = 1 .. n
  OBVIOUS
<1>2. \A i \in 1 .. n + 1 : Held(i) \in Nat
  <2>1. ASSUME NEW i \in 1 .. n + 1 PROVE SubSeq(chunks, i, n) \in Seq(Seq(M))
    BY <1>1
  <2> QED  BY <2>1, FlatType, LenProperties
<1>3. Held(1) > MaxCapture
  BY SubSeqFull
<1>4. n + 1 \in Short
  <2>1. SubSeq(chunks, n + 1, n) = <<>>
    BY <1>1, SubSeqEmpty
  <2>2. Held(n + 1) = 0
    BY <2>1, FlatNone, EmptySeq
  <2> QED  BY <1>1, <2>2
<1>5. Short \in SUBSET Nat
  BY <1>1
<1>6. PICK m \in Short : \A k \in Short : m <= k
  BY <1>4, <1>5, Least
<1>7. m \in 1 .. n + 1 /\ Held(m) < MaxCapture
  BY <1>6
<1>8. m # 1
  BY <1>1, <1>2, <1>3, <1>7
<1>9. m - 1 \in 1 .. n /\ m - 1 \notin Short /\ (m - 1) + 1 = m
  BY <1>1, <1>6, <1>7, <1>8
<1>10. Held(m - 1) >= MaxCapture
  BY <1>2, <1>9
<1> QED  BY <1>1, <1>7, <1>9, <1>10

LEMMA ShortenedIs ==
  ASSUME NEW M, NEW chunks \in Seq(Seq(M)), MaxCapture \in Nat \ {0}
  PROVE  /\ Shortened(chunks) \in Seq(Seq(M))
         /\ FlattenSeq(Shortened(chunks)) = LastOf(FlattenSeq(chunks), MaxCapture)
<1> DEFINE n == Len(chunks)
           all == FlattenSeq(chunks)
<1>1. n \in Nat /\ DOMAIN chunks = 1 .. n /\ all \in Seq(M) /\ Len(all) \in Nat
  BY FlatType, LenProperties
<1>2. CASE Len(all) <= MaxCapture
  <2>1. Shortened(chunks) = chunks
    BY <1>2 DEF Shortened
  <2>2. all = LastOf(all, MaxCapture)
    BY <1>1, <1>2, LastAgain
  <2> QED  BY <2>1, <2>2
<1>3. CASE Len(all) > MaxCapture
  <2> DEFINE Crosses(i) ==
               /\ Len(FlattenSeq(SubSeq(chunks, i, n))) >= MaxCapture
               /\ Len(FlattenSeq(SubSeq(chunks, i + 1, n))) < MaxCapture
             from == CHOOSE i \in DOMAIN chunks : Crosses(i)
             rest == SubSeq(chunks, from + 1, n)
             before == SubSeq(chunks, 1, from - 1)
             x == chunks[from]
             r == FlattenSeq(rest)
             cut == MaxCapture - Len(r)
             p == FlattenSeq(before)
  <2>1. \E i \in DOMAIN chunks : Crosses(i)
    BY <1>3, ChunkIsFound
  <2>2. from \in 1 .. n /\ Crosses(from)
    BY <1>1, <2>1
  <2>3. Shortened(chunks) = <<LastOf(x, cut)>> \o rest
    <3>1. ~(Len(all) <= MaxCapture)
      BY <1>1, <1>3
    <3> QED  BY <3>1, Zenon DEF Shortened
  <2> HIDE DEF from, Crosses
  <2>4. /\ rest \in Seq(Seq(M)) /\ before \in Seq(Seq(M)) /\ x \in Seq(M)
        /\ SubSeq(chunks, from, n) \in Seq(Seq(M))
    BY <1>1, <2>2
  <2>5. SubSeq(chunks, from, n) = <<x>> \o rest
    BY <1>1, <2>2, SubSeqRecursiveFirst
  <2>6. chunks = before \o SubSeq(chunks, from, n)
    <3>1. /\ 1 \in 1 .. n + 1 /\ from - 1 \in 0 .. n /\ n \in from - 1 .. n /\ (from - 1) + 1 = from
      BY <1>1, <2>2
    <3> DEFINE k == from - 1
    <3>2. k + 1 = from /\ k \in 1 - 1 .. Len(chunks) /\ Len(chunks) \in k .. Len(chunks) /\ 1 \in 1 .. Len(chunks) + 1
      BY <3>1
    <3> HIDE DEF k
    <3>3. SubSeq(chunks, 1, k) \o SubSeq(chunks, k + 1, Len(chunks)) = SubSeq(chunks, 1, Len(chunks))
      BY <3>2, ConcatAdjacentSubSeq
    <3> QED  BY <3>2, <3>3, SubSeqFull DEF k
  <2>7. r \in Seq(M) /\ p \in Seq(M)
    BY <2>4, FlatType
  <2>8. FlattenSeq(SubSeq(chunks, from, n)) = x \o r
    <3>1. <<x>> \in Seq(Seq(M)) /\ FlattenSeq(<<x>>) = x
      BY <2>4, FlatOne
    <3> QED  BY <2>4, <2>5, <3>1, FlatConcat
  <2>9. all = p \o (x \o r)
    BY <2>4, <2>6, <2>8, FlatConcat
  <2>10. Len(r) < MaxCapture /\ MaxCapture <= Len(x) + Len(r) /\ Len(r) \in Nat /\ Len(x) \in Nat
    <3>1. Len(x \o r) = Len(x) + Len(r) /\ Len(r) \in Nat /\ Len(x) \in Nat
      BY <2>4, <2>7
    <3> QED  BY <2>2, <2>8, <3>1 DEF Crosses
  <2>11. LastOf(all, MaxCapture) = LastOf(x, cut) \o r
    <3> HIDE DEF x, r, p, all
    <3>1. Len(r) <= MaxCapture /\ MaxCapture <= Len(x) + Len(r) /\ MaxCapture \in Nat
      BY <2>10
    <3>2. LastOf(p \o (x \o r), MaxCapture) = LastOf(x, MaxCapture - Len(r)) \o r
      BY <2>4, <2>7, <3>1, LastJoins
    <3> QED  BY <2>9, <3>2
  <2> HIDE DEF rest, x, before
  <2>12. cut \in Nat /\ LastOf(x, cut) \in Seq(M)
    BY <2>4, <2>10, LastTypes
  <2>13. <<LastOf(x, cut)>> \in Seq(Seq(M)) /\ FlattenSeq(<<LastOf(x, cut)>>) = LastOf(x, cut)
    BY <2>12, FlatOne
  <2>14. FlattenSeq(<<LastOf(x, cut)>> \o rest) = LastOf(x, cut) \o r
    BY <2>4, <2>13, FlatConcat
  <2>15. <<LastOf(x, cut)>> \o rest \in Seq(Seq(M))
    BY <2>4, <2>13, ConcatProperties
  <2> QED  BY <2>3, <2>11, <2>14, <2>15
<1> QED  BY <1>1, <1>2, <1>3

\* A capture that is what is left of a text stays so, when both get more; and it says so
\* when it is not all.
Captures(c, w) ==
  /\ Text(c) = LastOf(w, MaxCapture)
  /\ Len(w) > MaxCapture => c.truncated

LEMMA CaptureGrows ==
  ASSUME NEW M, NEW c \in [chunks : Seq(Seq(M)), truncated : BOOLEAN], NEW w \in Seq(M),
         NEW text \in Seq(M), MaxCapture \in Nat \ {0}, Captures(c, w)
  PROVE  /\ Appended(c, text) \in [chunks : Seq(Seq(M)), truncated : BOOLEAN]
         /\ Captures(Appended(c, text), w \o text)
<1>1. /\ Len(text) \in Nat /\ Len(w) \in Nat /\ w \o text \in Seq(M)
      /\ Len(w \o text) = Len(w) + Len(text)
  OBVIOUS
<1>2. CASE Len(text) >= MaxCapture
  <2> DEFINE end == LastOf(text, MaxCapture)
  <2>1. Appended(c, text) = [chunks |-> <<end>>, truncated |-> TRUE]
    BY <1>2 DEF Appended
  <2>2. end \in Seq(M)
    BY LastTypes
  <2>3. end = LastOf(w \o text, MaxCapture)
    BY <1>2, LastCovers
  <2> HIDE DEF end
  <2>4. <<end>> \in Seq(Seq(M)) /\ FlattenSeq(<<end>>) = end
    BY <2>2, FlatOne
  <2> QED  BY <2>1, <2>3, <2>4 DEF Captures, Text
<1>3. CASE Len(text) < MaxCapture
  <2> DEFINE longer == Append(c.chunks, text)
             over == c.truncated \/ Len(Text(c)) + Len(text) > MaxCapture
  <2>1. Appended(c, text) = [chunks |-> Shortened(longer), truncated |-> over]
    BY <1>1, <1>3 DEF Appended
  <2>2. longer \in Seq(Seq(M)) /\ FlattenSeq(longer) = Text(c) \o text
    BY FlatAppend DEF Text
  <2> HIDE DEF longer
  <2>3. /\ Shortened(longer) \in Seq(Seq(M))
        /\ FlattenSeq(Shortened(longer)) = LastOf(Text(c) \o text, MaxCapture)
    BY <2>2, ShortenedIs
  <2>4. LastOf(Text(c) \o text, MaxCapture) = LastOf(w \o text, MaxCapture)
    BY LastGrows DEF Captures
  <2>5. ASSUME Len(w \o text) > MaxCapture PROVE over
    <3>1. CASE Len(w) > MaxCapture
      BY <3>1 DEF Captures
    <3>2. CASE Len(w) <= MaxCapture
      <4>1. Text(c) = w
        BY <3>2, LastAgain DEF Captures
      <4> QED  BY <1>1, <2>5, <4>1
    <3> QED  BY <1>1, <3>1, <3>2
  <2>6. over \in BOOLEAN
    OBVIOUS
  <2> HIDE DEF over
  <2> QED  BY <2>1, <2>3, <2>4, <2>5, <2>6 DEF Captures, Text
<1> QED  BY <1>1, <1>2, <1>3
-----------------------------------------------------------------------------
(* What is mended                                                          *)

\* A mend that is used was asked for by what it mends.
LEMMA MendIs ==
  ASSUME NEW cmd, NEW out, NEW err, RuntimeRepair(cmd, out, err) # cmd
  PROVE  LET mended == RuntimeRepair(cmd, out, err)
             all == Range(out) \cup Range(err)
         IN \/ "actor error" \in all /\ mended = MendActor(cmd)
            \/ "header error" \in all /\ mended = MendHereString(cmd)
            \/ {"atlas usage", "unknown target"} \subseteq all /\ mended = MendLookup(cmd)
            \/ "newline error" \in all /\ mended = MendReadText(cmd)
            \/ mended = MendPath(cmd)
            \/ "parser error" \in all /\ mended = MendQuotes(cmd)
<1> DEFINE all == Range(out) \cup Range(err)
           said == Range(err)
           tries == << [if |-> "actor error" \in all, then |-> MendActor(cmd)],
                       [if |-> "header error" \in said, then |-> MendHereString(cmd)],
                       [if |-> {"atlas usage", "unknown target"} \subseteq said, then |-> MendLookup(cmd)],
                       [if |-> "newline error" \in said, then |-> MendReadText(cmd)],
                       [if |-> "no tiny3d" \in said, then |-> MendPath(cmd)],
                       [if |-> "parser error" \in all, then |-> MendQuotes(cmd)] >>
           useful == {i \in DOMAIN tries : tries[i].if /\ tries[i].then # cmd}
           i == CHOOSE k \in useful : \A j \in useful : k <= j
<1>1. useful # {} /\ RuntimeRepair(cmd, out, err) = tries[i].then
  BY Zenon DEF RuntimeRepair
<1>2. DOMAIN tries = 1 .. 6
  OBVIOUS
<1>3. useful \in SUBSET Nat
  <2> HIDE DEF tries
  <2> QED  BY <1>2
<1>4. i \in useful
  <2> HIDE DEF tries
  <2>1. \E k \in useful : \A j \in useful : k <= j
    BY <1>1, <1>3, Least
  <2> HIDE DEF useful
  <2> QED  BY <2>1
<1> HIDE DEF i
<1>5. i \in 1 .. 6 /\ tries[i].if
  BY <1>2, <1>4
<1>6. /\ tries[1].if = ("actor error" \in all) /\ tries[1].then = MendActor(cmd)
      /\ tries[2].if = ("header error" \in said) /\ tries[2].then = MendHereString(cmd)
      /\ tries[3].if = ({"atlas usage", "unknown target"} \subseteq said) /\ tries[3].then = MendLookup(cmd)
      /\ tries[4].if = ("newline error" \in said) /\ tries[4].then = MendReadText(cmd)
      /\ tries[5].then = MendPath(cmd)
      /\ tries[6].if = ("parser error" \in all) /\ tries[6].then = MendQuotes(cmd)
  OBVIOUS
<1>7. i = 1 \/ i = 2 \/ i = 3 \/ i = 4 \/ i = 5 \/ i = 6
  <2> HIDE DEF tries
  <2> QED  BY <1>5
<1>8. said \subseteq all
  OBVIOUS
<1> HIDE DEF tries, all, said, useful
<1>9. \/ "actor error" \in all /\ tries[i].then = MendActor(cmd)
      \/ "header error" \in all /\ tries[i].then = MendHereString(cmd)
      \/ {"atlas usage", "unknown target"} \subseteq all /\ tries[i].then = MendLookup(cmd)
      \/ "newline error" \in all /\ tries[i].then = MendReadText(cmd)
      \/ tries[i].then = MendPath(cmd)
      \/ "parser error" \in all /\ tries[i].then = MendQuotes(cmd)
  BY <1>5, <1>6, <1>7, <1>8
<1> QED  BY <1>1, <1>9 DEF all

\* Only what the output complains of is taken away, and nothing is put in its place that the
\* preflight passes but the two that were looked for.
LEMMA MendsComplaints ==
  ASSUME NEW cmd, NEW out, NEW err,
         {"hidden write", "hidden wait"} \cap cmd # {} => "c quotes" \in cmd,
         RuntimeRepair(cmd, out, err) # cmd
  PROVE  LET mended == Normalized(RuntimeRepair(cmd, out, err)) IN
         /\ \A f \in cmd \ mended : ComplaintOf(f) \subseteq Range(out) \cup Range(err)
         /\ mended \ cmd \subseteq {"find", "python path", "wait"}
<1> DEFINE all == Range(out) \cup Range(err)
           r == RuntimeRepair(cmd, out, err)
           mended == Normalized(r)
<1>1. /\ \A f : f \notin r => f \notin mended
      /\ \A f : f \in r /\ f \notin mended => f = "hidden write" /\ "c quotes" \notin r
      /\ \A f \in mended : f \in r
  BY DEF Normalized
<1>2. \/ "actor error" \in all /\ r = MendActor(cmd)
      \/ "header error" \in all /\ r = MendHereString(cmd)
      \/ {"atlas usage", "unknown target"} \subseteq all /\ r = MendLookup(cmd)
      \/ "newline error" \in all /\ r = MendReadText(cmd)
      \/ r = MendPath(cmd)
      \/ "parser error" \in all /\ r = MendQuotes(cmd)
  BY MendIs
<1> HIDE DEF r, all, mended
<1>3. \A f \in cmd : f \notin r => ComplaintOf(f) \subseteq all
  <2>1. CASE "actor error" \in all /\ r = MendActor(cmd)
    BY <2>1 DEF MendActor, ComplaintOf
  <2>2. CASE "header error" \in all /\ r = MendHereString(cmd)
    BY <2>2 DEF MendHereString, ComplaintOf
  <2>3. CASE {"atlas usage", "unknown target"} \subseteq all /\ r = MendLookup(cmd)
    BY <2>3 DEF MendLookup, ComplaintOf
  <2>4. CASE "newline error" \in all /\ r = MendReadText(cmd)
    BY <2>4 DEF MendReadText, ComplaintOf
  <2>5. CASE r = MendPath(cmd)
    BY <2>5 DEF MendPath
  <2>6. CASE "parser error" \in all /\ r = MendQuotes(cmd)
    BY <2>6 DEF MendQuotes, ComplaintOf
  <2> QED  BY <1>2, <2>1, <2>2, <2>3, <2>4, <2>5, <2>6
<1>4. \A f \in cmd : f \in r /\ f \notin mended => ComplaintOf(f) \subseteq all
  <2> SUFFICES ASSUME "hidden write" \in cmd, "c quotes" \notin r
               PROVE  ComplaintOf("hidden write") \subseteq all
    BY <1>1
  <2>1. "c quotes" \in cmd
    OBVIOUS
  <2>2. "parser error" \in all
    BY <1>2, <2>1 DEF MendActor, MendHereString, MendLookup, MendReadText, MendPath
  <2> QED  BY <2>2 DEF ComplaintOf
<1>5. \A f \in r : f \in cmd \/ f \in {"find", "python path", "wait"}
  BY <1>2 DEF MendActor, MendHereString, MendLookup, MendReadText, MendPath, MendQuotes
<1>6. /\ \A f \in cmd \ mended : ComplaintOf(f) \subseteq all
      /\ mended \ cmd \subseteq {"find", "python path", "wait"}
  BY <1>1, <1>3, <1>4, <1>5
<1> QED  BY <1>6 DEF all, mended, r
-----------------------------------------------------------------------------
(* ProcessEvidence                                                         *)

EvidenceTypes ==
  /\ job \in Jobs
  /\ capture \in [Stream -> [chunks : Seq(Seq(job.marks)), truncated : BOOLEAN]]
  /\ written \in [Stream -> Seq(job.marks)] /\ hashed \in [Stream -> Seq(job.marks)]
  /\ counted \in [Stream -> Nat] /\ DOMAIN digest = Stream
  /\ phase \in {"running", "ended"}
  /\ asked \in BOOLEAN /\ resetting \in BOOLEAN /\ spoiled \in BOOLEAN

\* The captures have the end of what the attempt wrote; counters and hashes have all of it,
\* once the spools of the attempt before are empty; until then it writes nothing.
Evident ==
  \A s \in Stream :
    /\ Captures(capture[s], written[s])
    /\ resetting => written[s] = <<>>
    /\ ~resetting /\ ~spoiled => counted[s] = Len(written[s]) /\ hashed[s] = written[s]

\* Nothing is told of a process that runs; the receipt of one that ended has what it tells.
Receipted ==
  /\ ~Ended => receipt = NoReceipt /\ ~spoiled /\ \A s \in Stream : digest[s] = NoDigest
  /\ Ended /\ ~spoiled => /\ ~resetting /\ \A s \in Stream : digest[s] = hashed[s]
                          /\ \E schema \in {"v1", "old"} : receipt = ReceiptOf(schema, outcome)

EvidenceInv ==
  /\ EvidenceTypes /\ Evident /\ Receipted
  /\ attempts = <<>> => command = job.command
  /\ RepairIsSound

LEMMA JobIs ==
  ASSUME NEW j \in Jobs
  PROVE  /\ "none" \notin j.command
         /\ {"hidden write", "hidden wait"} \cap j.command # {} => "c quotes" \in j.command
  BY EvidenceAssumption

LEMMA NothingCaptured == Captures(EmptyCapture, <<>>)
<1>1. MaxCapture \in Nat /\ <<>> \in Seq({}) /\ Len(<<>>) = 0
  <2>1. MaxCapture \in Nat
    BY EvidenceAssumption
  <2> QED  BY <2>1
<1>2. LastOf(<<>>, MaxCapture) = <<>>
  <2>1. Len(<<>>) <= MaxCapture
    BY <1>1
  <2> QED  BY <1>1, <2>1, LastAgain
<1>3. EmptyCapture.chunks = <<>>
  BY DEF EmptyCapture
<1>4. ~(Len(<<>>) > MaxCapture)
  BY <1>1
<1> QED  BY <1>2, <1>3, <1>4, FlatNone DEF Captures, Text

LEMMA EvidenceBegins == EvidenceInit => EvidenceInv
<1> SUFFICES ASSUME EvidenceInit PROVE EvidenceInv
  OBVIOUS
<1> USE DEF EvidenceInit, Both, EmptyCapture
<1>1. EvidenceTypes
  <2>1. <<>> \in Seq(job.marks) /\ <<>> \in Seq(Seq(job.marks))
    OBVIOUS
  <2>2. EmptyCapture \in [chunks : Seq(Seq(job.marks)), truncated : BOOLEAN]
    BY <2>1
  <2> HIDE DEF EmptyCapture
  <2> QED  BY <2>1, <2>2 DEF EvidenceTypes, Stream
<1>2. Evident
  <2> HIDE DEF EmptyCapture
  <2> QED  BY NothingCaptured DEF Evident, Stream
<1>3. Receipted
  BY DEF Receipted, Ended
<1> QED  BY <1>1, <1>2, <1>3 DEF EvidenceInv, RepairIsSound

LEMMA DigestedIs ==
  ASSUME DOMAIN digest = Stream, hashed \in [Stream -> Seq(job.marks)],
         \A s \in Stream : digest[s] = NoDigest \/ digest[s] = hashed[s]
  PROVE  Digested = hashed
  BY DEF Digested

LEMMA OutputKept == ASSUME EvidenceInv, NEW s \in Stream, NEW text \in Seq(job.marks), Output(s, text)
                    PROVE  EvidenceInv'
<1> USE DEF Output, Attempt
<1>1. EvidenceTypes /\ Evident /\ ~Ended /\ ~resetting
  BY DEF EvidenceInv
<1>2. /\ Appended(capture[s], text) \in [chunks : Seq(Seq(job.marks)), truncated : BOOLEAN]
      /\ Captures(Appended(capture[s], text), written[s] \o text)
  BY <1>1, EvidenceAssumption, CaptureGrows DEF EvidenceTypes, Evident
<1>3. /\ written[s] \o text \in Seq(job.marks) /\ hashed[s] \o text \in Seq(job.marks)
      /\ Len(written[s] \o text) = Len(written[s]) + Len(text)
      /\ counted[s] + Len(text) \in Nat
  BY <1>1 DEF EvidenceTypes
<1>4. EvidenceTypes'
  BY <1>1, <1>2, <1>3 DEF EvidenceTypes
<1>5. Evident'
  <2> SUFFICES ASSUME NEW r \in Stream
               PROVE  /\ Captures(capture'[r], written'[r])
                      /\ ~spoiled => counted'[r] = Len(written'[r]) /\ hashed'[r] = written'[r]
    BY <1>1 DEF Evident, Captures, Text
  <2>1. CASE r = s
    BY <1>1, <1>2, <1>3, <2>1 DEF EvidenceTypes, Evident
  <2>2. CASE r # s
    BY <1>1, <2>2 DEF EvidenceTypes, Evident
  <2> QED  BY <2>1, <2>2
<1>6. Receipted'
  BY <1>1 DEF EvidenceInv, Receipted, Ended
<1> QED  BY <1>4, <1>5, <1>6 DEF EvidenceInv, RepairIsSound

LEMMA EndKept ==
  ASSUME EvidenceInv, ~Ended, NEW o, Terminal(o), resetting' \in BOOLEAN, spoiled' \in BOOLEAN,
         resetting' => resetting, spoiled' \/ ~resetting
  PROVE  EvidenceInv'
<1> USE DEF Terminal, Attempt
<1>1. EvidenceTypes /\ Evident /\ Receipted
  BY DEF EvidenceInv
<1>2. Digested = hashed
  BY <1>1, DigestedIs DEF EvidenceTypes, Receipted
<1>3. EvidenceTypes'
  BY <1>1, <1>2 DEF EvidenceTypes
<1>4. Evident'
  BY <1>1 DEF Evident, Captures, Text, Receipted
<1>5. digest' = hashed /\ Digested' = hashed
  BY <1>1, <1>2 DEF Digested, EvidenceTypes
<1>6. receipt' = ReceiptOf("v1", o)'
  BY <1>2, <1>5 DEF ReceiptOf, CompleteAudit, CaptureTail, Text
<1>7. Receipted'
  BY <1>5, <1>6 DEF Receipted, Ended
<1> QED  BY <1>3, <1>4, <1>7 DEF EvidenceInv, RepairIsSound

LEMMA RepairKept ==
  ASSUME EvidenceInv, ~Ended, ~resetting, NEW o, TryRuntimeRepair(o) PROVE EvidenceInv'
<1> USE DEF TryRuntimeRepair, Both, EmptyCapture
<1> DEFINE out == Text(capture["stdout"])
           err == Text(capture["stderr"])
<1>1. EvidenceTypes /\ Evident /\ Receipted
  BY DEF EvidenceInv
<1>2. attempts = <<>> /\ command = job.command
  BY DEF EvidenceInv, RepairIsSound, MayRepair
<1>3. EvidenceTypes'
  BY <1>1 DEF EvidenceTypes, Stream
<1>4. Evident'
  <2> HIDE DEF EmptyCapture
  <2> QED  BY NothingCaptured DEF Evident, Captures, Text
<1>5. Receipted'
  BY <1>1 DEF Receipted, Ended
<1>6. Len(attempts') = 1 /\ attempts' # <<>>
      /\ attempts'[1] = [command |-> Reported(command), code |-> o.code,
                         output |-> [s \in Stream |-> LastOf(Text(capture[s]), MaxCapture)]]
  BY <1>2
<1>7. RepairIsSound'
  <2>1. \A s \in Stream : LastOf(Text(capture[s]), MaxCapture) = LastOf(written[s], MaxCapture)
    <3> SUFFICES ASSUME NEW s \in Stream
                 PROVE  LastOf(Text(capture[s]), MaxCapture) = LastOf(written[s], MaxCapture)
      OBVIOUS
    <3>1. Text(capture[s]) = LastOf(written[s], MaxCapture) /\ written[s] \in Seq(job.marks)
      BY <1>1 DEF Evident, Captures, EvidenceTypes
    <3>2. /\ LastOf(written[s], MaxCapture) \in Seq(job.marks)
          /\ Len(LastOf(written[s], MaxCapture)) <= MaxCapture
      <4>1. MaxCapture \in Nat /\ Len(written[s]) \in Nat
        <5>1. MaxCapture \in Nat
          BY EvidenceAssumption
        <5> QED  BY <3>1, <5>1
      <4> QED  BY <3>1, <4>1, LastTypes
    <3> QED  BY <3>1, <3>2, EvidenceAssumption, LastAgain
  <2>2. /\ Range(out) \subseteq Range(written["stdout"])
        /\ Range(err) \subseteq Range(written["stderr"])
    BY <1>1, EvidenceAssumption, LastRange DEF Evident, Captures, EvidenceTypes, Stream
  <2>3. {"hidden write", "hidden wait"} \cap command # {} => "c quotes" \in command
    BY <1>1, <1>2, JobIs DEF EvidenceTypes
  <2>4. RuntimeRepair(command, out, err) # command /\ Passes(command')
    BY DEF MayRepair, Repaired
  <2>5. command' = Normalized(RuntimeRepair(command, out, err))
    BY DEF Repaired
  <2> HIDE DEF out, err
  <2>6. /\ \A f \in command \ command' : ComplaintOf(f) \subseteq Range(out) \cup Range(err)
        /\ command' \ command \subseteq {"find", "python path", "wait"}
    BY <2>3, <2>4, <2>5, MendsComplaints
  <2>7. command' \ command \subseteq {"find", "python path"}
    BY <2>4, <2>6, EvidenceAssumption DEF Passes
  <2>8. Range(out) \cup Range(err) \subseteq UNION {Range(written[s]) : s \in Stream}
    BY <2>2 DEF Stream
  <2>9. submitted' # NoCommand
    BY <1>1, <1>2, JobIs DEF NoCommand, EvidenceTypes
  <2>10. ~asked /\ o.code # 0 /\ first' = [command |-> command, asked |-> asked, written |-> written]
    BY DEF MayRepair
  <2>11. \A f \in command \ command' :
            ComplaintOf(f) \subseteq UNION {Range(written[s]) : s \in Stream}
    BY <2>6, <2>8
  <2>12. /\ ~first'.asked /\ attempts'[1].code # 0 /\ attempts'[1].command = Reported(first'.command)
         /\ \A s \in Stream : attempts'[1].output[s] = LastOf(first'.written[s], MaxCapture)
    BY <1>6, <2>1, <2>10
  <2>13. first'.command = command /\ first'.written = written
    BY <2>10
  <2> HIDE DEF TryRuntimeRepair
  <2> QED  BY <1>6, <2>4, <2>7, <2>9, <2>11, <2>12, <2>13 DEF RepairIsSound
<1> QED  BY <1>3, <1>4, <1>5, <1>6, <1>7 DEF EvidenceInv

LEMMA EvidenceKept == ASSUME EvidenceInv, EvidenceNext PROVE EvidenceInv'
<1>0. EvidenceTypes /\ Evident /\ Receipted
  BY DEF EvidenceInv
<1>1. ASSUME NEW s \in Stream, NEW a1 \in job.marks, NEW b1 \in job.marks,
             Output(s, <<a1>>) \/ Output(s, <<a1, b1>>)
      PROVE  EvidenceInv'
  <2>1. <<a1>> \in Seq(job.marks) /\ <<a1, b1>> \in Seq(job.marks)
    <3> DEFINE M == job.marks
    <3>1. a1 \in M /\ b1 \in M
      OBVIOUS
    <3> HIDE DEF M
    <3>2. <<a1>> \in Seq(M) /\ <<a1, b1>> \in Seq(M)
      BY <3>1
    <3> QED  BY <3>2 DEF M
  <2> QED  BY <1>1, <2>1, OutputKept
<1>2. CASE AskToStop
  <2> USE DEF AskToStop, Attempt
  <2>1. EvidenceTypes'
    BY <1>0, <1>2 DEF EvidenceTypes
  <2>2. Evident'
    BY <1>0, <1>2 DEF Evident, Captures, Text
  <2>3. Receipted'
    BY <1>0, <1>2 DEF Receipted, Ended
  <2> QED  BY <1>2, <2>1, <2>2, <2>3 DEF EvidenceInv, RepairIsSound
<1>3. ASSUME NEW code \in {0, 1}, NEW signal \in BOOLEAN, Exit(code, signal) PROVE EvidenceInv'
  <2> DEFINE o == [code |-> code, signal |-> signal, error |-> "no"]
  <2>1. ~Ended /\ ~resetting /\ (TryRuntimeRepair(o) \/ (Terminal(o) /\ UNCHANGED <<resetting, spoiled>>))
    BY <1>3 DEF Exit
  <2> HIDE DEF o
  <2> QED  BY <1>0, <2>1, RepairKept, EndKept DEF EvidenceTypes
<1>4. ASSUME NEW code, Error(code) PROVE EvidenceInv'
  <2> DEFINE o == [code |-> 0 - 1, signal |-> FALSE, error |-> code]
  <2>1. ~Ended /\ Terminal(o) /\ resetting' = resetting /\ spoiled' = resetting
    BY <1>4 DEF Error
  <2> HIDE DEF o
  <2> QED  BY <1>0, <2>1, EndKept DEF EvidenceTypes
<1>5. CASE ResetOutputSpools
  <2> USE DEF ResetOutputSpools, Emptied, Attempt, Both
  <2>1. EvidenceTypes'
    <3>1. <<>> \in Seq(job.marks)
      OBVIOUS
    <3> QED  BY <1>0, <1>5, <3>1 DEF EvidenceTypes
  <2>2. Evident'
    BY <1>0, <1>5 DEF Evident, Captures, Text
  <2>3. Receipted'
    BY <1>0, <1>5 DEF Receipted, Ended
  <2> QED  BY <1>5, <2>1, <2>2, <2>3 DEF EvidenceInv, RepairIsSound
<1>6. CASE ResetFails
  <2> DEFINE o == [code |-> 0 - 1, signal |-> FALSE, error |-> "uncoded"]
  <2>1. ~Ended /\ Terminal(o) /\ resetting' = FALSE /\ spoiled' = TRUE
    BY <1>6 DEF ResetFails
  <2> HIDE DEF o
  <2> QED  BY <2>1, EndKept
<1>7. CASE ReadEnded
  <2> USE DEF ReadEnded, Attempt
  <2>1. EvidenceTypes'
    BY <1>0, <1>7 DEF EvidenceTypes, Digested
  <2>2. Evident'
    BY <1>0, <1>7 DEF Evident, Captures, Text
  <2>3. ASSUME ~spoiled PROVE Digested = hashed /\ digest' = hashed /\ Digested' = hashed
    <3>1. Digested = hashed
      BY <1>0, <1>7, <2>3, DigestedIs DEF Receipted, EvidenceTypes
    <3> QED  BY <1>0, <1>7, <3>1 DEF EvidenceTypes, Digested
  <2>4. Receipted'
    BY <1>0, <1>7, <2>3 DEF Receipted, Ended, ReceiptOf, CompleteAudit, CaptureTail, Text
  <2> QED  BY <1>7, <2>1, <2>2, <2>4 DEF EvidenceInv, RepairIsSound
<1>8. CASE OldReceipt
  <2> USE DEF OldReceipt, Attempt
  <2>1. EvidenceTypes'
    BY <1>0, <1>8 DEF EvidenceTypes
  <2>2. Evident'
    BY <1>0, <1>8 DEF Evident, Captures, Text
  <2>3. Ended
    BY <1>0, <1>8 DEF Receipted, NoReceipt
  <2>4. ASSUME ~spoiled PROVE receipt' = ReceiptOf("old", outcome)
    <3>1. PICK schema \in {"v1", "old"} : receipt = ReceiptOf(schema, outcome)
      BY <1>0, <2>3, <2>4 DEF Receipted
    <3> QED  BY <1>8, <3>1 DEF ReceiptOf
  <2>5. ReceiptOf("old", outcome)' = ReceiptOf("old", outcome)
    BY <1>8 DEF ReceiptOf, CompleteAudit, Digested, CaptureTail, Text
  <2>6. Receipted'
    BY <1>0, <1>8, <2>3, <2>4, <2>5 DEF Receipted, Ended
  <2> QED  BY <1>8, <2>1, <2>2, <2>6 DEF EvidenceInv, RepairIsSound
<1> QED  BY <1>1, <1>2, <1>3, <1>4, <1>5, <1>6, <1>7, <1>8 DEF EvidenceNext

LEMMA TailIs ==
  ASSUME NEW M, NEW c \in [chunks : Seq(Seq(M)), truncated : BOOLEAN], NEW w \in Seq(M), Captures(c, w)
  PROVE  /\ CaptureTail(c, MaxCapture) = [text |-> Text(c), truncated |-> c.truncated]
         /\ Text(c) = LastOf(w, MaxCapture) /\ Text(c) \in Seq(M)
<1>1. MaxCapture \in Nat \ {0}
  BY EvidenceAssumption
<1>2. Text(c) = LastOf(w, MaxCapture)
  BY DEF Captures
<1>3. Text(c) \in Seq(M) /\ Len(Text(c)) \in Nat /\ Len(Text(c)) <= MaxCapture
  <2>1. /\ LastOf(w, MaxCapture) \in Seq(M) /\ Len(w) \in Nat
        /\ Len(LastOf(w, MaxCapture)) = IF Len(w) > MaxCapture THEN MaxCapture ELSE Len(w)
    BY <1>1, LastTypes
  <2> QED  BY <1>1, <1>2, <2>1
<1>4. LastOf(Text(c), MaxCapture) = Text(c)
  BY <1>1, <1>3, LastAgain
<1>5. ~(MaxCapture < 1) /\ ~(Len(Text(c)) > MaxCapture) /\ c.truncated \in BOOLEAN
  BY <1>1, <1>3
<1> QED  BY <1>2, <1>3, <1>4, <1>5 DEF CaptureTail

\* A command is repaired once at most, for what its output complained of; counters, hashes,
\* text, receipt and diagnosis are of the attempt that ended, and of all it wrote
\* (BoundedCapture, tryRuntimeRepair, completeProcessAudit, formatReceipt), for any commands,
\* any size of a capture and any output.
THEOREM EvidenceHolds == EvidenceSpec => []EvidenceIsTrue
<1>1. EvidenceInv /\ [EvidenceNext]_evidenceVars => EvidenceInv'
  <2>1. CASE EvidenceNext
    BY <2>1, EvidenceKept
  <2>2. ASSUME EvidenceInv, UNCHANGED evidenceVars PROVE EvidenceInv'
    <3> USE DEF evidenceVars
    <3>1. EvidenceTypes'
      BY <2>2 DEF EvidenceInv, EvidenceTypes
    <3>2. Evident'
      BY <2>2 DEF EvidenceInv, Evident, Captures, Text
    <3>3. Receipted'
      BY <2>2 DEF EvidenceInv, Receipted, Ended, ReceiptOf, CompleteAudit, Digested, CaptureTail, Text
    <3> QED  BY <2>2, <3>1, <3>2, <3>3 DEF EvidenceInv, RepairIsSound
  <2> QED  BY <2>1, <2>2
<1>2. ASSUME EvidenceInv PROVE EvidenceIsTrue
  <2>1. EvidenceTypes /\ Evident /\ Receipted /\ RepairIsSound
    BY <1>2 DEF EvidenceInv
  <2>2. \A s \in Stream :
          /\ CaptureTail(capture[s], MaxCapture) = [text |-> Text(capture[s]), truncated |-> capture[s].truncated]
          /\ Text(capture[s]) = LastOf(written[s], MaxCapture) /\ Text(capture[s]) \in Seq(job.marks)
    BY <2>1, TailIs DEF EvidenceTypes, Evident
  <2>3. ASSUME Ended, ~spoiled PROVE Digested = hashed
    BY <2>1, <2>3, DigestedIs DEF EvidenceTypes, Receipted
  <2>4. AuditIsTrue
    <3> SUFFICES ASSUME Ended, ~spoiled, NEW s \in Stream
                 PROVE  /\ Told.audit.chars[s] = Len(written[s]) /\ Told.audit.sha[s] = written[s]
                        /\ Told.output[s].text = LastOf(written[s], MaxCapture)
                        /\ Len(written[s]) > MaxCapture => Told.output[s].truncated
      BY DEF AuditIsTrue
    <3>1. counted[s] = Len(written[s]) /\ hashed[s] = written[s]
      BY <2>1 DEF Evident, Receipted
    <3>2. Told.audit.chars = counted /\ Told.audit.sha = hashed
      BY <2>3 DEF Told, CompleteAudit
    <3>3. Told.output[s] = CaptureTail(capture[s], MaxCapture)
      BY DEF Told
    <3>4. /\ Told.output[s].text = Text(capture[s]) /\ Told.output[s].truncated = capture[s].truncated
          /\ Text(capture[s]) = LastOf(written[s], MaxCapture)
      <4>1. /\ CaptureTail(capture[s], MaxCapture)
                 = [text |-> Text(capture[s]), truncated |-> capture[s].truncated]
            /\ Text(capture[s]) = LastOf(written[s], MaxCapture)
        BY <2>2
      <4> HIDE DEF Told
      <4> QED  BY <3>3, <4>1
    <3>5. Len(written[s]) > MaxCapture => capture[s].truncated
      BY <2>1 DEF Evident, Captures
    <3> QED  BY <3>1, <3>2, <3>4, <3>5
  <2>5. ReceiptTellsTheSame
    <3> DEFINE whole == \A s \in Stream : ~receipt.output[s].truncated
    <3> SUFFICES ASSUME Ended, ~spoiled, command \cap Beyond = {}, receipt.schema = "v1" \/ whole
                 PROVE  ToldOfReceipt(receipt) = Told
      BY DEF ReceiptTellsTheSame
    <3>1. PICK schema \in {"v1", "old"} : receipt = ReceiptOf(schema, outcome)
      BY <2>1 DEF Receipted
    <3>2. /\ receipt.schema = schema /\ receipt.command = Reported(command)
          /\ receipt.submitted = Reported(submitted) /\ receipt.attempts = attempts
          /\ receipt.outcome = outcome /\ receipt.audit = CompleteAudit(outcome)
          /\ receipt.output = [s \in Stream |-> CaptureTail(capture[s], MaxCapture)]
      BY <3>1 DEF ReceiptOf
    <3>3. ASSUME NEW s \in Stream
          PROVE  /\ receipt.output[s].text = Text(capture[s])
                 /\ receipt.output[s].truncated = capture[s].truncated
      <4>1. receipt.output[s] = CaptureTail(capture[s], MaxCapture)
        BY <3>2
      <4>2. CaptureTail(capture[s], MaxCapture)
              = [text |-> Text(capture[s]), truncated |-> capture[s].truncated]
        BY <2>2
      <4> QED  BY <4>1, <4>2
    <3>4. Reported(command) = command
      BY DEF Reported
    <3>5. ASSUME schema = "old"
          PROVE  OutputAudit([s \in Stream |-> receipt.output[s].text],
                             [s \in Stream |-> receipt.output[s].truncated], receipt.outcome)
                   = CompleteAudit(outcome)
      <4>1. \A s \in Stream : ~receipt.output[s].truncated
        BY <3>2, <3>5
      <4>2. \A s \in Stream : Text(capture[s]) = written[s]
        <5> SUFFICES ASSUME NEW s \in Stream PROVE Text(capture[s]) = written[s]
          OBVIOUS
        <5>1. ~capture[s].truncated
          BY <3>3, <4>1
        <5>2. Len(written[s]) \in Nat /\ MaxCapture \in Nat /\ ~(Len(written[s]) > MaxCapture)
          <6>1. Len(written[s]) \in Nat
            BY <2>1 DEF EvidenceTypes
          <6>2. Len(written[s]) > MaxCapture => capture[s].truncated
            BY <2>1 DEF Evident, Captures
          <6> QED  BY <5>1, <6>1, <6>2, EvidenceAssumption
        <5>3. Len(written[s]) <= MaxCapture /\ written[s] \in Seq(job.marks)
          BY <2>1, <5>2 DEF EvidenceTypes
        <5>4. LastOf(written[s], MaxCapture) = written[s]
          BY <5>2, <5>3, LastAgain
        <5> QED  BY <2>2, <5>4
      <4>3. \A s \in Stream : counted[s] = Len(written[s]) /\ hashed[s] = written[s]
        BY <2>1 DEF Evident, Receipted
      <4>4. [s \in Stream |-> receipt.output[s].text] = hashed
        BY <2>1, <3>3, <4>2, <4>3 DEF EvidenceTypes
      <4>5. [s \in Stream |-> Len(hashed[s])] = counted
        BY <2>1, <4>3 DEF EvidenceTypes
      <4>6. CompleteAudit(outcome) = [chars |-> counted, sha |-> hashed, completeness |-> "complete",
                                      result |-> ExecutionOutcome(outcome)]
        BY <2>3 DEF CompleteAudit
      <4>7. /\ ~[s \in Stream |-> receipt.output[s].truncated]["stdout"]
            /\ ~[s \in Stream |-> receipt.output[s].truncated]["stderr"]
        BY <4>1 DEF Stream
      <4> QED  BY <3>2, <4>4, <4>5, <4>6, <4>7 DEF OutputAudit
    <3>6. (IF receipt.schema = "v1" THEN receipt.audit
           ELSE OutputAudit([s \in Stream |-> receipt.output[s].text],
                            [s \in Stream |-> receipt.output[s].truncated], receipt.outcome))
            = CompleteAudit(outcome)
      BY <3>1, <3>2, <3>5
    <3>7. FailureDiagnostic(receipt.command, job.reason, receipt.output["stdout"].text,
                            receipt.output["stderr"].text, receipt.outcome)
            = FailureDiagnostic(command, job.reason, Text(capture["stdout"]), Text(capture["stderr"]),
                                outcome)
      BY <3>2, <3>3, <3>4 DEF Stream
    <3> QED  BY <3>2, <3>6, <3>7 DEF ToldOfReceipt, Told, Ended
  <2>6. DiagnosisIsOfWhatRan
    <3> DEFINE out == Text(capture["stdout"])
               err == Text(capture["stderr"])
               parser == ParserOrigin(command, job.reason, out, err)
    <3>1. Told.diagnosis = FailureDiagnostic(command, job.reason, out, err, outcome)
      BY DEF Told
    <3>2. ASSUME FailureDiagnostic(command, job.reason, out, err, outcome) # NoDiagnosis
          PROVE  outcome.error # "no" \/ outcome.code # 0
      BY <3>2 DEF FailureDiagnostic
    <3>3. ASSUME FailureDiagnostic(command, job.reason, out, err, outcome).kind = "parser_error"
          PROVE  /\ parser # "none"
                 /\ FailureDiagnostic(command, job.reason, out, err, outcome).origin = parser
      BY <3>3 DEF FailureDiagnostic, NoDiagnosis
    <3>4. parser # "none" =>
            parser \in {job.reason} \cup (IF "python -c" \in command THEN {"python"} ELSE {})
                                    \cup (IF "node -e" \in command THEN {"node"} ELSE {})
      BY DEF ParserOrigin
    <3> QED  BY <3>1, <3>2, <3>3, <3>4 DEF DiagnosisIsOfWhatRan
  <2> QED  BY <2>1, <2>4, <2>5, <2>6 DEF EvidenceIsTrue
<1> QED  BY <1>1, <1>2, EvidenceBegins, PTL DEF EvidenceSpec

-----------------------------------------------------------------------------
(* ToolContracts: an answer is put together of pieces that the schema takes, *)
(* one field after the other.                                              *)

\* A schema takes a field with this value.
Takes(schema, f, x) ==
  /\ f \in DOMAIN schema.fields
  /\ IF f \in DOMAIN C!Objects
     THEN C!HasShape(x, C!Objects[f]) /\ C!HasValues(x, C!Objects[f], DOMAIN x)
     ELSE x \in schema.fields[f]
HasAll(v, S) == \A f \in S : f \in DOMAIN v
Known(v, schema) == \A f \in DOMAIN v : Takes(schema, f, v[f])

LEMMA FitsIs ==
  ASSUME NEW v, NEW schema, Known(v, schema), schema.required \subseteq DOMAIN v
  PROVE  C!Fits(v, schema)
BY DEF Known, Takes, C!Fits, C!HasShape, C!HasValues

LEMMA BothFields ==
  ASSUME NEW v, NEW w, NEW f
  PROVE  /\ f \in DOMAIN C!@@(v, w) <=> f \in DOMAIN v \/ f \in DOMAIN w
         /\ f \in DOMAIN v => C!@@(v, w)[f] = v[f]
         /\ f \in DOMAIN w => f \in DOMAIN v \/ C!@@(v, w)[f] = w[f]
<1>1. f \in DOMAIN C!@@(v, w) <=> f \in DOMAIN v \/ f \in DOMAIN w
  BY DEF C!@@
<1>2. ASSUME f \in DOMAIN v PROVE C!@@(v, w)[f] = v[f]
  BY <1>2 DEF C!@@
<1>3. ASSUME f \in DOMAIN w, f \notin DOMAIN v PROVE C!@@(v, w)[f] = w[f]
  BY <1>3 DEF C!@@
<1> QED  BY <1>1, <1>2, <1>3

LEMMA KnownBoth ==
  ASSUME NEW v, NEW w, NEW schema, Known(v, schema), Known(w, schema)
  PROVE  Known(C!@@(v, w), schema)
<1> SUFFICES ASSUME NEW f \in DOMAIN C!@@(v, w) PROVE Takes(schema, f, C!@@(v, w)[f])
  BY DEF Known
<1>1. CASE f \in DOMAIN v
  BY <1>1, BothFields DEF Known
<1>2. CASE f \notin DOMAIN v
  BY <1>2, BothFields DEF Known
<1> QED  BY <1>1, <1>2

LEMMA KnownOne ==
  ASSUME NEW f, NEW x, NEW schema, Takes(schema, f, x)
  PROVE  Known(C!:>(f, x), schema)
BY DEF Known, C!:>

LEMMA KnownNone == ASSUME NEW schema PROVE Known(<<>>, schema)
BY DEF Known

LEMMA KnownWithout ==
  ASSUME NEW v, NEW S, NEW schema, Known(v, schema)
  PROVE  Known(C!Without(v, S), schema)
BY DEF Known, C!Without

LEMMA HasEither ==
  ASSUME NEW v, NEW w, NEW S, HasAll(v, S) \/ HasAll(w, S)
  PROVE  HasAll(C!@@(v, w), S)
BY BothFields DEF HasAll

LEMMA HasWithout ==
  ASSUME NEW v, NEW S, NEW left, HasAll(v, S), S \cap left = {}
  PROVE  HasAll(C!Without(v, left), S)
BY DEF HasAll, C!Without

LEMMA ObjectFields ==
  DOMAIN C!Objects = {"serving_identity", "execution_serving_identity", "failure_diagnostic",
                      "output_page", "freshness"}
BY DEF C!Objects

\* The other fields of an answer about a process.
OtherFields ==
  [mcp_status |-> {"OK", "STALE"}, process_state |-> {"RUNNING", "COMPLETED", "SNAPSHOT"},
   next_action |-> {"READ_SAME_PROCESS_ID", "STOP_READING"},
   activity_target |-> {"target"}, repair_attempts |-> {"attempts"},
   execution_mode |-> {"planned"}, finished_at |-> {"text", "null"},
   audit_schema |-> {"process-output-evidence.v1"},
   evidence_completeness |-> {"complete", "bounded"},
   execution_outcome |-> {"success", "nonzero_exit", "signaled", "error", "unknown"}]

LEMMA ProcessSchema ==
  /\ \A f \in DOMAIN C!ServedFields :
        f \in DOMAIN C!processOutputSchema.fields /\ C!processOutputSchema.fields[f] = C!ServedFields[f]
  /\ \A f \in C!TextFields : f \notin DOMAIN C!ServedFields =>
        f \in DOMAIN C!processOutputSchema.fields /\ C!processOutputSchema.fields[f] = {"text"}
  /\ \A f \in C!NatFields : 
        f \in DOMAIN C!processOutputSchema.fields /\ C!processOutputSchema.fields[f] = {"nat"}
  /\ \A f \in C!TrueFields :
        f \in DOMAIN C!processOutputSchema.fields /\ C!processOutputSchema.fields[f] = {"true"}
  /\ \A f \in DOMAIN C!Objects : f \in DOMAIN C!processOutputSchema.fields
  /\ \A f \in DOMAIN OtherFields :
        f \in DOMAIN C!processOutputSchema.fields /\ C!processOutputSchema.fields[f] = OtherFields[f]
<1> DEFINE texts == [f \in C!TextFields |-> {"text"}]
           nats  == [f \in C!NatFields |-> {"nat"}]
           trues == [f \in C!TrueFields |-> {"true"}]
           objects == [f \in DOMAIN C!Objects |-> {}]
           upToTexts == C!@@(C!ServedFields, texts)
           upToNats  == C!@@(upToTexts, nats)
           upToTrues == C!@@(upToNats, trues)
           upToObjects == C!@@(upToTrues, objects)
<1>1. C!processOutputSchema.fields = C!@@(upToObjects, OtherFields)
  BY DEF C!processOutputSchema, OtherFields
<1>2. /\ DOMAIN texts = C!TextFields /\ DOMAIN nats = C!NatFields /\ DOMAIN trues = C!TrueFields
      /\ DOMAIN objects = DOMAIN C!Objects
      /\ \A f \in C!TextFields : texts[f] = {"text"}
      /\ \A f \in C!NatFields : nats[f] = {"nat"}
      /\ \A f \in C!TrueFields : trues[f] = {"true"}
  OBVIOUS
<1> HIDE DEF texts, nats, trues, objects
<1>3. /\ \A f : f \in DOMAIN upToTexts <=> f \in DOMAIN C!ServedFields \/ f \in C!TextFields
      /\ \A f \in DOMAIN C!ServedFields : upToTexts[f] = C!ServedFields[f]
      /\ \A f \in C!TextFields : f \notin DOMAIN C!ServedFields => upToTexts[f] = {"text"}
  BY <1>2, BothFields
<1> HIDE DEF upToTexts
<1>4. /\ \A f : f \in DOMAIN upToNats <=> f \in DOMAIN upToTexts \/ f \in C!NatFields
      /\ \A f \in DOMAIN upToTexts : upToNats[f] = upToTexts[f]
      /\ \A f \in C!NatFields : f \notin DOMAIN upToTexts => upToNats[f] = {"nat"}
  BY <1>2, BothFields
<1> HIDE DEF upToNats
<1>5. /\ \A f : f \in DOMAIN upToTrues <=> f \in DOMAIN upToNats \/ f \in C!TrueFields
      /\ \A f \in DOMAIN upToNats : upToTrues[f] = upToNats[f]
      /\ \A f \in C!TrueFields : f \notin DOMAIN upToNats => upToTrues[f] = {"true"}
  BY <1>2, BothFields
<1> HIDE DEF upToTrues
<1>6. /\ \A f : f \in DOMAIN upToObjects <=> f \in DOMAIN upToTrues \/ f \in DOMAIN C!Objects
      /\ \A f \in DOMAIN upToTrues : upToObjects[f] = upToTrues[f]
  BY <1>2, BothFields
<1> HIDE DEF upToObjects
<1>7. /\ \A f : f \in DOMAIN C!processOutputSchema.fields <=> f \in DOMAIN upToObjects \/ f \in DOMAIN OtherFields
      /\ \A f \in DOMAIN upToObjects : C!processOutputSchema.fields[f] = upToObjects[f]
      /\ \A f \in DOMAIN OtherFields :
            f \notin DOMAIN upToObjects => C!processOutputSchema.fields[f] = OtherFields[f]
  BY <1>1, BothFields
<1>8. /\ \A f \in C!NatFields : f \notin DOMAIN upToTexts
      /\ \A f \in C!TrueFields : f \notin DOMAIN upToNats
      /\ \A f \in DOMAIN OtherFields : f \notin DOMAIN upToObjects
  <2>1. \A f \in C!NatFields : f \notin DOMAIN C!ServedFields /\ f \notin C!TextFields
    BY DEF C!NatFields, C!TextFields, C!ServedFields
  <2>2. \A f \in C!TrueFields :
           f \notin DOMAIN C!ServedFields /\ f \notin C!TextFields /\ f \notin C!NatFields
    BY DEF C!TrueFields, C!NatFields, C!TextFields, C!ServedFields
  <2>3. \A f \in DOMAIN OtherFields :
           f \notin DOMAIN C!ServedFields /\ f \notin C!TextFields /\ f \notin C!NatFields
    BY DEF OtherFields, C!NatFields, C!TextFields, C!ServedFields
  <2>4. \A f \in DOMAIN OtherFields : f \notin C!TrueFields /\ f \notin DOMAIN C!Objects
    BY ObjectFields DEF OtherFields, C!TrueFields
  <2> QED  BY <2>1, <2>2, <2>3, <2>4, <1>3, <1>4, <1>5, <1>6
<1> QED  BY <1>3, <1>4, <1>5, <1>6, <1>7, <1>8

LEMMA TextTaken == \A f \in C!TextFields : Takes(C!processOutputSchema, f, "text")
<1>1. \A f \in C!TextFields : f \in DOMAIN C!ServedFields => C!ServedFields[f] = {"text"}
  BY DEF C!TextFields, C!ServedFields
<1>2. \A f \in C!TextFields : f \notin DOMAIN C!Objects
  BY ObjectFields DEF C!TextFields
<1> QED  BY <1>1, <1>2, ProcessSchema DEF Takes

LEMMA PlainTaken ==
  /\ \A f \in C!NatFields : Takes(C!processOutputSchema, f, "nat")
  /\ \A f \in C!TrueFields : Takes(C!processOutputSchema, f, "true")
<1>1. \A f \in C!NatFields : f \notin DOMAIN C!Objects
  BY ObjectFields DEF C!NatFields
<1>2. \A f \in C!TrueFields : f \notin DOMAIN C!Objects
  BY ObjectFields DEF C!TrueFields
<1> QED  BY <1>1, <1>2, ProcessSchema DEF Takes

LEMMA OtherTaken == \A f \in DOMAIN OtherFields : \A x \in OtherFields[f] : Takes(C!processOutputSchema, f, x)
<1>1. \A f \in DOMAIN OtherFields : f \notin DOMAIN C!Objects
  BY ObjectFields DEF OtherFields
<1> QED  BY <1>1, ProcessSchema DEF Takes

LEMMA ObjectTaken ==
  ASSUME NEW f \in DOMAIN C!Objects, NEW x,
         C!HasShape(x, C!Objects[f]), C!HasValues(x, C!Objects[f], DOMAIN x)
  PROVE  Takes(C!processOutputSchema, f, x)
BY ProcessSchema DEF Takes

\* What an answer has before it gets the caller and the server.
Needed == {"mcp_status", "process_state", "elapsed_ms", "next_action", "process_id", "running"}

LEMMA StateKnown ==
  ASSUME NEW running \in BOOLEAN
  PROVE  /\ Known(C!ProcessResponseState(running), C!processOutputSchema)
         /\ Known(C!Identified(running), C!processOutputSchema)
         /\ HasAll(C!@@(C!ProcessResponseState(running), C!Identified(running)), Needed)
<1>1. Known(C!ProcessResponseState(running), C!processOutputSchema)
  BY PlainTaken, OtherTaken DEF Known, C!ProcessResponseState, C!NatFields, OtherFields
<1>2. Known(C!Identified(running), C!processOutputSchema)
  <2>1. Takes(C!processOutputSchema, "running", C!Bool(running))
    BY ProcessSchema, ObjectFields DEF Takes, C!Bool, C!ServedFields
  <2> QED  BY <2>1, TextTaken, PlainTaken DEF Known, C!Identified, C!TextFields, C!NatFields
<1>3. HasAll(C!@@(C!ProcessResponseState(running), C!Identified(running)), Needed)
  <2>1. DOMAIN C!ProcessResponseState(running) = {"mcp_status", "process_state", "elapsed_ms", "next_action"}
    BY DEF C!ProcessResponseState
  <2>2. DOMAIN C!Identified(running) = {"process_id", "pid", "running"}
    BY DEF C!Identified
  <2> QED  BY <2>1, <2>2, BothFields DEF HasAll, Needed
<1> QED  BY <1>1, <1>2, <1>3

LEMMA TextsKnown == ASSUME NEW S \in SUBSET C!TextFields PROVE Known(C!Texts(S), C!processOutputSchema)
BY TextTaken DEF Known, C!Texts

LEMMA GivenKnown ==
  ASSUME NEW p, NEW f, NEW x, NEW schema, Takes(schema, f, x)
  PROVE  Known(C!Given(p, f, x), schema)
BY KnownOne, KnownNone DEF C!Given

LEMMA LaunchingKnown == ASSUME NEW p PROVE Known(C!Launching(p), C!processOutputSchema)
<1>1. Takes(C!processOutputSchema, "launching", "true")
  BY PlainTaken DEF C!TrueFields
<1> QED  BY <1>1, KnownOne, KnownNone DEF C!Launching

LEMMA AuditKnown == ASSUME NEW p PROVE Known(C!Audit(p), C!processOutputSchema)
<1> DEFINE rest == [retained_chars |-> "nat", retained_bytes |-> "nat",
        audit_schema |-> "process-output-evidence.v1", evidence_completeness |-> "complete",
        execution_outcome |->
            IF "error" \in p.has THEN "error" ELSE IF "signal" \in p.has THEN "signaled" ELSE "success"]
<1>1. Known(rest, C!processOutputSchema)
  BY PlainTaken, OtherTaken DEF Known, C!NatFields, OtherFields
<1>2. {"stdout_sha256", "stderr_sha256"} \cup (p.has \cap {"request_id"}) \in SUBSET C!TextFields
  BY DEF C!TextFields
<1> HIDE DEF rest
<1>3. Known(C!@@(C!Texts({"stdout_sha256", "stderr_sha256"} \cup (p.has \cap {"request_id"})), rest),
            C!processOutputSchema)
  BY <1>1, <1>2, TextsKnown, KnownBoth
<1> QED  BY <1>3 DEF C!Audit, rest

LEMMA DiagnosticTaken ==
  ASSUME NEW p, C!Diagnosed(p)
  PROVE  Takes(C!processOutputSchema, "failure_diagnostic", C!Diagnostic(p))
<1>1. C!Objects["failure_diagnostic"] = C!failureDiagnosticSchema
  BY DEF C!Objects
<1> DEFINE structured == "structured" \in p.has
           always == [retry_without_change |-> "false", retry_requires_change |-> "true"]
           spawned == [kind |-> "spawn_error", origin |-> "process", boundary |-> "spawn", code |-> "token",
                       suggested_action |-> "inspect_process_error"]
           refused == [kind |-> "parser_error", origin |-> "language", code |-> "token",
                       boundary |-> IF structured THEN "source" ELSE "legacy_command",
                       suggested_action |-> "fix_source"]
           misused == [kind |-> "cli_usage", origin |-> "cli",
                       boundary |-> IF structured THEN "argv_contract" ELSE "legacy_command",
                       suggested_action |->
                           IF structured THEN "fix_argv_contract" ELSE "use_structured_executable_args"]
           target == IF structured THEN <<>> ELSE C!:>("input_target", "executable")
           Good(v) == \A f \in DOMAIN v : f \in DOMAIN C!failureDiagnosticSchema.fields
                                         /\ v[f] \in C!failureDiagnosticSchema.fields[f]
           Must == {"kind", "origin", "boundary", "suggested_action"}
<1>2. Good(always) /\ Good(spawned) /\ Good(refused) /\ Good(misused)
  BY DEF C!failureDiagnosticSchema
<1>3. Good(target)
  BY DEF C!failureDiagnosticSchema, C!:>
<1>4. HasAll(spawned, Must) /\ HasAll(refused, Must) /\ HasAll(misused, Must)
  BY DEF HasAll
<1>5. HasAll(always, {"retry_without_change", "retry_requires_change"})
  BY DEF HasAll
<1>6. C!Diagnostic(p) \in {C!@@(always, spawned), C!@@(always, refused), C!@@(always, C!@@(misused, target))}
  BY DEF C!Diagnostic
<1> HIDE DEF always, spawned, refused, misused, target
<1>7. ASSUME NEW v, NEW w, Good(v), Good(w) PROVE Good(C!@@(v, w))
  <2> TAKE f \in DOMAIN C!@@(v, w)
  <2>1. CASE f \in DOMAIN v
    BY <1>7, <2>1, BothFields
  <2>2. CASE f \notin DOMAIN v
    BY <1>7, <2>2, BothFields
  <2> QED  BY <2>1, <2>2
<1> HIDE DEF Good
<1>8. Good(C!Diagnostic(p))
  BY <1>2, <1>3, <1>6, <1>7
<1>9. HasAll(C!Diagnostic(p), Must) /\ HasAll(C!Diagnostic(p), {"retry_without_change", "retry_requires_change"})
  BY <1>4, <1>5, <1>6, HasEither
<1>10. C!HasShape(C!Diagnostic(p), C!failureDiagnosticSchema)
  BY <1>8, <1>9 DEF HasAll, Good, C!HasShape, C!failureDiagnosticSchema
<1>11. C!HasValues(C!Diagnostic(p), C!failureDiagnosticSchema, DOMAIN C!Diagnostic(p))
  BY <1>8 DEF Good, C!HasValues
<1> QED  BY <1>1, <1>10, <1>11, ObjectTaken, ObjectFields

Answering(v) == Known(v, C!processOutputSchema) /\ HasAll(v, Needed)

LEMMA AnsweringMore ==
  ASSUME NEW v, NEW w, Answering(v), Known(w, C!processOutputSchema)
  PROVE  Answering(C!@@(v, w)) /\ Answering(C!@@(w, v))
BY KnownBoth, HasEither DEF Answering

LEMMA StateAnswers ==
  ASSUME NEW running \in BOOLEAN
  PROVE  Answering(C!@@(C!ProcessResponseState(running), C!Identified(running)))
BY StateKnown, KnownBoth DEF Answering

LEMMA ToldAnswers == ASSUME NEW p PROVE Answering(C!Told(p))
<1> DEFINE running == p.state # "ended"
           texts == {"command", "cwd", "stdout", "stderr", "started_at"}
             \cup (p.has \cap {"action_class", "execution_reason", "submitted_command", "error", "error_code"})
           diagnosis == IF C!Diagnosed(p) THEN C!:>("failure_diagnostic", C!Diagnostic(p)) ELSE <<>>
           audit == IF p.state = "ended" THEN C!Audit(p) ELSE <<>>
           ended == [signal |-> IF "signal" \in p.has THEN "text" ELSE "null",
                     exit_code |-> IF p.state = "ended" THEN "int" ELSE "null",
                     finished_at |-> IF p.state = "ended" THEN "text" ELSE "null"]
           v1 == C!@@(C!ProcessResponseState(running), C!Identified(running))
           v2 == C!@@(v1, C!Texts(texts))
           v3 == C!@@(v2, C!Given(p, "activity_target", "target"))
           v4 == C!@@(v3, C!Given(p, "execution_mode", "planned"))
           v5 == C!@@(v4, C!Given(p, "command_truncated", "true"))
           v6 == C!@@(v5, C!Given(p, "repair_attempts", "attempts"))
           v7 == C!@@(v6, diagnosis)
           v8 == C!@@(v7, audit)
<1>1. C!Told(p) = C!@@(v8, ended)
  BY DEF C!Told
<1>2. Known(C!Texts(texts), C!processOutputSchema)
  <2>1. texts \in SUBSET C!TextFields
    BY DEF C!TextFields
  <2> QED  BY <2>1, TextsKnown
<1>3. /\ Takes(C!processOutputSchema, "activity_target", "target")
      /\ Takes(C!processOutputSchema, "execution_mode", "planned")
      /\ Takes(C!processOutputSchema, "command_truncated", "true")
      /\ Takes(C!processOutputSchema, "repair_attempts", "attempts")
  BY OtherTaken, PlainTaken DEF OtherFields, C!TrueFields
<1>4. Known(diagnosis, C!processOutputSchema)
  BY DiagnosticTaken, KnownOne, KnownNone
<1>5. Known(audit, C!processOutputSchema)
  BY AuditKnown, KnownNone
<1>6. Known(ended, C!processOutputSchema)
  <2>1. /\ \A x \in {"text", "null"} : Takes(C!processOutputSchema, "signal", x)
        /\ \A x \in {"int", "null"} : Takes(C!processOutputSchema, "exit_code", x)
    BY ProcessSchema, ObjectFields DEF Takes, C!ServedFields
  <2> QED  BY <2>1, OtherTaken DEF Known, OtherFields
<1>7. Answering(v1)
  BY StateAnswers
<1> HIDE DEF texts, diagnosis, audit, ended, v1
<1>8. Answering(v2)
  BY <1>2, <1>7, AnsweringMore
<1> HIDE DEF v2
<1>9. Answering(v3)
  BY <1>3, <1>8, GivenKnown, AnsweringMore
<1> HIDE DEF v3
<1>10. Answering(v4)
  BY <1>3, <1>9, GivenKnown, AnsweringMore
<1> HIDE DEF v4
<1>11. Answering(v5)
  BY <1>3, <1>10, GivenKnown, AnsweringMore
<1> HIDE DEF v5
<1>12. Answering(v6)
  BY <1>3, <1>11, GivenKnown, AnsweringMore
<1> HIDE DEF v6
<1>13. Answering(v7)
  BY <1>4, <1>12, AnsweringMore
<1> HIDE DEF v7
<1>14. Answering(v8)
  BY <1>5, <1>13, AnsweringMore
<1> QED  BY <1>1, <1>6, <1>14, AnsweringMore

LEMMA ReadIsAnswer == ASSUME NEW p PROVE Answering(C!Read(p))
<1> DEFINE dropped == IF "stdout_truncated" \in p.has THEN C!:>("stdout_dropped_from_start", "nat") ELSE <<>>
           v1 == C!@@(C!Told(p), C!Launching(p))
           v2 == C!@@(v1, C!Given(p, "stdout_truncated", "true"))
<1>1. C!Read(p) = C!@@(v2, dropped)
  BY DEF C!Read
<1>2. /\ Takes(C!processOutputSchema, "stdout_truncated", "true")
      /\ Takes(C!processOutputSchema, "stdout_dropped_from_start", "nat")
  BY PlainTaken DEF C!TrueFields, C!NatFields
<1>3. Known(dropped, C!processOutputSchema)
  BY <1>2, KnownOne, KnownNone
<1> HIDE DEF dropped
<1>4. Answering(v1)
  BY ToldAnswers, LaunchingKnown, AnsweringMore
<1> HIDE DEF v1
<1>5. Answering(v2)
  BY <1>2, <1>4, GivenKnown, AnsweringMore
<1> HIDE DEF v2
<1> QED  BY <1>1, <1>3, <1>5, AnsweringMore

\* A page leaves nothing out that is needed.
LEMMA PageAnswers ==
  ASSUME NEW v, NEW more \in BOOLEAN, Answering(v)
  PROVE  Answering(C!PageSpoolOutput(v, more))
<1> DEFINE page == C!@@([f \in C!PageEnds |-> "nat"], [page_limit |-> "positive", more |-> C!Bool(more)])
           next == IF more \/ v.running = "true" THEN "READ_SAME_PROCESS_ID" ELSE "STOP_READING"
           head == [next_action |-> next, output_page |-> page]
<1>1. C!PageSpoolOutput(v, more) = C!@@(head, C!Without(v, C!Truncations))
  BY DEF C!PageSpoolOutput
<1>2. Takes(C!processOutputSchema, "output_page", page)
  <2>1. C!Objects["output_page"] = C!outputPageSchema
    BY DEF C!Objects
  <2>2. C!HasShape(page, C!outputPageSchema) /\ C!HasValues(page, C!outputPageSchema, DOMAIN page)
    <3> DEFINE ends == [f \in C!PageEnds |-> "nat"]
               rest == [page_limit |-> "positive", more |-> C!Bool(more)]
               nats == [f \in C!PageEnds |-> {"nat"}]
               others == [page_limit |-> {"positive"}, more |-> {"true", "false"}]
    <3>1. /\ page = C!@@(ends, rest) /\ C!outputPageSchema.fields = C!@@(nats, others)
          /\ C!outputPageSchema.required = C!PageEnds \cup {"page_limit", "more"}
      BY DEF C!outputPageSchema
    <3>2. /\ DOMAIN ends = C!PageEnds /\ DOMAIN nats = C!PageEnds
          /\ \A f \in C!PageEnds : ends[f] = "nat" /\ nats[f] = {"nat"}
      OBVIOUS
    <3>3. /\ DOMAIN rest = {"page_limit", "more"} /\ DOMAIN others = {"page_limit", "more"}
          /\ rest["page_limit"] \in others["page_limit"] /\ rest["more"] \in others["more"]
      BY DEF C!Bool
    <3> HIDE DEF ends, rest, nats, others, page
    <3>4. \A f : /\ f \in DOMAIN page <=> f \in C!PageEnds \cup {"page_limit", "more"}
                 /\ f \in DOMAIN C!outputPageSchema.fields <=> f \in C!PageEnds \cup {"page_limit", "more"}
      BY <3>1, <3>2, <3>3, BothFields
    <3>5. \A f \in DOMAIN page : page[f] \in C!outputPageSchema.fields[f]
      <4> TAKE f \in DOMAIN page
      <4>1. CASE f \in C!PageEnds
        BY <4>1, <3>1, <3>2, BothFields
      <4>2. CASE f \notin C!PageEnds
        <5>1. page[f] = rest[f] /\ C!outputPageSchema.fields[f] = others[f]
          BY <4>2, <3>1, <3>2, <3>3, <3>4, BothFields
        <5> QED  BY <4>2, <5>1, <3>3, <3>4
      <4> QED  BY <4>1, <4>2
    <3> QED  BY <3>1, <3>4, <3>5 DEF C!HasShape, C!HasValues
  <2> QED  BY <2>1, <2>2, ObjectTaken, ObjectFields
<1> HIDE DEF page
<1>3. Takes(C!processOutputSchema, "next_action", next)
  BY OtherTaken DEF OtherFields
<1> HIDE DEF next
<1>4. Known(head, C!processOutputSchema)
  BY <1>2, <1>3 DEF Known
<1>5. Needed \cap C!Truncations = {}
  BY DEF Needed, C!Truncations
<1>6. Answering(C!Without(v, C!Truncations))
  BY <1>5, KnownWithout, HasWithout DEF Answering
<1> HIDE DEF head
<1> QED  BY <1>1, <1>4, <1>6, AnsweringMore

LEMMA ReadAnswersFit == ASSUME NEW p, NEW v \in C!ReadAnswers(p) PROVE Answering(v)
<1> DEFINE whole == {C!Read(p)} \cup (IF p.state = "ended" THEN C!FormatReceipt(p) ELSE {})
<1>1. \/ \E w \in whole, more \in BOOLEAN : v = C!PageSpoolOutput(w, more)
      \/ v \in whole \/ v = C!NoChange(p)
  BY DEF C!ReadAnswers
<1>2. \A w \in whole : Answering(w)
  <2>1. Takes(C!processOutputSchema, "stdout_truncated", "true")
    BY PlainTaken DEF C!TrueFields
  <2>2. Answering(C!@@(C!Told(p), C!:>("stdout_truncated", "true")))
    BY <2>1, ToldAnswers, KnownOne, AnsweringMore
  <2> QED  BY <2>2, ReadIsAnswer, ToldAnswers DEF C!FormatReceipt
<1>3. Answering(C!NoChange(p))
  <2>1. Takes(C!processOutputSchema, "no_change", "true")
    BY PlainTaken DEF C!TrueFields
  <2>2. Known(C!Texts({"stdout", "stderr"}), C!processOutputSchema)
    BY TextsKnown DEF C!TextFields
  <2> DEFINE v1 == C!@@(C!ProcessResponseState(TRUE), C!Identified(TRUE))
             v2 == C!@@(v1, C!Launching(p))
             v3 == C!@@(v2, C!Texts({"stdout", "stderr"}))
  <2>3. C!NoChange(p) = C!@@(v3, C!:>("no_change", "true"))
    BY DEF C!NoChange
  <2>4. Answering(v1)
    BY StateAnswers
  <2> HIDE DEF v1
  <2>5. Answering(v2)
    BY <2>4, LaunchingKnown, AnsweringMore
  <2> HIDE DEF v2
  <2>6. Answering(v3)
    BY <2>2, <2>5, AnsweringMore
  <2> HIDE DEF v3
  <2> QED  BY <2>1, <2>3, <2>6, KnownOne, AnsweringMore
<1> HIDE DEF whole
<1> QED  BY <1>1, <1>2, <1>3, PageAnswers

LEMMA StartAnswersFit == ASSUME NEW p, NEW v \in C!StartAnswers(p) PROVE Answering(v)
<1>1. v \in C!ReadAnswers(p) \/ v = C!StartResult(p)
  BY DEF C!StartAnswers
<1>2. Known(C!Texts({"cwd"}), C!processOutputSchema)
  BY TextsKnown DEF C!TextFields
<1> DEFINE v1 == C!@@(C!ProcessResponseState(TRUE), C!Identified(TRUE))
           v2 == C!@@(v1, C!Texts({"cwd"}))
<1>3. C!StartResult(p) = C!@@(v2, C!Launching(p))
  BY DEF C!StartResult
<1>4. Answering(v1)
  BY StateAnswers
<1> HIDE DEF v1
<1>5. Answering(v2)
  BY <1>2, <1>4, AnsweringMore
<1> HIDE DEF v2
<1> QED  BY <1>1, <1>3, <1>5, LaunchingKnown, AnsweringMore, ReadAnswersFit

\* A document, whole, and its freshness.
LEMMA DocumentAnswers ==
  ASSUME NEW timeline \in BOOLEAN, NEW v \in C!SnapshotAnswers(timeline)
  PROVE  Answering(v)
<1> DEFINE freshness(stale, mode) ==
             [status |-> IF stale THEN "STALE" ELSE "FRESH", as_of |-> "text",
              age_seconds |-> "nat", stale_after_seconds |-> "nat", read_mode |-> mode]
           plain(stale, mode) ==
             [mcp_status |-> IF stale THEN "STALE" ELSE "OK", process_state |-> "SNAPSHOT",
              process_id |-> "text", running |-> "false", generated_at |-> "text",
              freshness |-> freshness(stale, mode),
              snapshot_alias |-> "true", elapsed_ms |-> "nat",
              next_action |-> "STOP_READING", stdout |-> "text", stderr |-> "text"]
           alias1 == IF timeline THEN <<>> ELSE C!:>("bootstrap_alias", "true")
<1>1. PICK stale \in BOOLEAN, mode \in {"MATERIALIZED_ONLY", "V3_ROOM_BOUND_READ"} :
         \/ v = C!Snapshot(timeline, stale, mode)
         \/ \E more \in BOOLEAN : v = C!PageSpoolOutput(C!Snapshot(timeline, stale, mode), more)
  BY DEF C!SnapshotAnswers
<1>2. Takes(C!processOutputSchema, "freshness", freshness(stale, mode))
  <2>1. C!Objects["freshness"] = C!snapshotFreshnessSchema
    BY DEF C!Objects
  <2>2. /\ C!HasShape(freshness(stale, mode), C!snapshotFreshnessSchema)
        /\ C!HasValues(freshness(stale, mode), C!snapshotFreshnessSchema, DOMAIN freshness(stale, mode))
    BY DEF C!HasShape, C!HasValues, C!snapshotFreshnessSchema
  <2> QED  BY <2>1, <2>2, ObjectTaken, ObjectFields
<1> HIDE DEF freshness
<1>3. Answering(plain(stale, mode))
  <2>1. Takes(C!processOutputSchema, "running", "false")
    BY ProcessSchema, ObjectFields DEF Takes, C!ServedFields
  <2>2. \A f \in {"process_id", "generated_at", "stdout", "stderr"} : Takes(C!processOutputSchema, f, "text")
    BY TextTaken DEF C!TextFields
  <2>3. /\ Takes(C!processOutputSchema, "elapsed_ms", "nat")
        /\ Takes(C!processOutputSchema, "snapshot_alias", "true")
    BY PlainTaken DEF C!NatFields, C!TrueFields
  <2>4. /\ Takes(C!processOutputSchema, "mcp_status", IF stale THEN "STALE" ELSE "OK")
        /\ Takes(C!processOutputSchema, "process_state", "SNAPSHOT")
        /\ Takes(C!processOutputSchema, "next_action", "STOP_READING")
    BY OtherTaken DEF OtherFields
  <2>5. Known(plain(stale, mode), C!processOutputSchema)
    BY <1>2, <2>1, <2>2, <2>3, <2>4 DEF Known
  <2> QED  BY <2>5 DEF Answering, HasAll, Needed
<1> HIDE DEF plain
<1>4. Known(alias1, C!processOutputSchema)
  <2>1. Takes(C!processOutputSchema, "bootstrap_alias", "true")
    BY PlainTaken DEF C!TrueFields
  <2> QED  BY <2>1, KnownOne, KnownNone
<1> HIDE DEF alias1
<1>5. C!Snapshot(timeline, stale, mode) = C!@@(plain(stale, mode), alias1)
  BY DEF C!Snapshot, plain, alias1, freshness
<1>6. Answering(C!Snapshot(timeline, stale, mode))
  BY <1>3, <1>4, <1>5, AnsweringMore
<1> QED  BY <1>1, <1>6, PageAnswers

LEMMA AliasAnswers ==
  ASSUME NEW v, Answering(v)
  PROVE  Answering(C!publicBootstrapAliasOutput(v))
<1> DEFINE named == [bootstrap_alias |-> "true", process_id |-> "text"]
           hidden == {"command", "submitted_command", "cwd"}
<1>1. Known(named, C!processOutputSchema)
  BY PlainTaken, TextTaken DEF Known, C!TrueFields, C!TextFields
<1>2. Answering(C!Without(v, hidden))
  <2>1. Needed \cap hidden = {}
    BY DEF Needed
  <2> QED  BY <2>1, KnownWithout, HasWithout DEF Answering
<1> HIDE DEF named, hidden
<1>3. Answering(C!@@(named, C!Without(v, hidden)))
  BY <1>1, <1>2, AnsweringMore
<1> QED  BY <1>3 DEF C!publicBootstrapAliasOutput, named, hidden

-----------------------------------------------------------------------------
(* Answers to kills, and what every answer gets on its way.                *)

NeededToKill == {"process_id", "pid", "killed"}
Good(tool, v) ==
  /\ Known(v, C!OutputSchema(tool))
  /\ HasAll(v, IF tool = "kill_process" THEN NeededToKill ELSE Needed)

LEMMA KillSchema ==
  /\ \A f \in DOMAIN C!ServedFields : /\ f \in DOMAIN C!killProcessOutputSchema.fields
                                      /\ C!killProcessOutputSchema.fields[f] = C!ServedFields[f]
  /\ \A f \in {"already_exited", "kill_requested", "kill_timed_out"} :
        f \in DOMAIN C!killProcessOutputSchema.fields /\ C!killProcessOutputSchema.fields[f] = {"true"}
  /\ "pid" \in DOMAIN C!killProcessOutputSchema.fields /\ C!killProcessOutputSchema.fields["pid"] = {"nat"}
  /\ "killed" \in DOMAIN C!killProcessOutputSchema.fields
  /\ C!killProcessOutputSchema.fields["killed"] = {"true", "false"}
  /\ "error" \in DOMAIN C!killProcessOutputSchema.fields
  /\ C!killProcessOutputSchema.fields["error"] = {"text"}
<1> DEFINE rest == [pid |-> {"nat"}, killed |-> {"true", "false"}, already_exited |-> {"true"},
            kill_requested |-> {"true"}, kill_timed_out |-> {"true"}, error |-> {"text"}]
<1>1. C!killProcessOutputSchema.fields = C!@@(C!ServedFields, rest)
  BY DEF C!killProcessOutputSchema
<1>2. /\ \A f \in {"already_exited", "kill_requested", "kill_timed_out"} :
             f \in DOMAIN rest /\ rest[f] = {"true"}
      /\ "pid" \in DOMAIN rest /\ rest["pid"] = {"nat"}
      /\ "killed" \in DOMAIN rest /\ rest["killed"] = {"true", "false"}
      /\ "error" \in DOMAIN rest /\ rest["error"] = {"text"}
  OBVIOUS
<1>3. \A f \in {"already_exited", "kill_requested", "kill_timed_out", "pid", "killed", "error"} :
         f \notin DOMAIN C!ServedFields
  BY DEF C!ServedFields
<1> HIDE DEF rest
<1> QED  BY <1>1, <1>2, <1>3, BothFields

\* Both schemas take where a call was executed.
LEMMA ServedTaken ==
  ASSUME NEW tool, NEW f \in DOMAIN C!ServedFields
  PROVE  /\ f \notin DOMAIN C!Objects =>
               \A x \in C!ServedFields[f] : Takes(C!OutputSchema(tool), f, x)
         /\ f \in DOMAIN C!Objects =>
               \A x : C!HasShape(x, C!Objects[f]) /\ C!HasValues(x, C!Objects[f], DOMAIN x)
                         <=> Takes(C!OutputSchema(tool), f, x)
<1>1. /\ f \in DOMAIN C!killProcessOutputSchema.fields
      /\ C!killProcessOutputSchema.fields[f] = C!ServedFields[f]
  BY KillSchema
<1>2. /\ f \in DOMAIN C!processOutputSchema.fields
      /\ C!processOutputSchema.fields[f] = C!ServedFields[f]
  BY ProcessSchema
<1> QED  BY <1>1, <1>2 DEF Takes, C!OutputSchema

LEMMA KillAnswersFit ==
  ASSUME NEW p, NEW v \in C!KillAnswers(p)
  PROVE  Good("kill_process", v)
<1> DEFINE K == C!killProcessOutputSchema
           killed == [process_id |-> "text", pid |-> "nat", killed |-> "true"]
           not == [process_id |-> "text", pid |-> "nat", killed |-> "false"]
           v1 == [already_exited |-> "true", exit_code |-> "int"]
           v2 == [running |-> "false", exit_code |-> "int",
                  signal |-> IF "signal" \in p.has THEN "text" ELSE "null"]
           v3 == [kill_requested |-> "true", running |-> "true", kill_timed_out |-> "true", error |-> "text"]
<1>1. v \in {C!@@(not, v1), C!@@(killed, v2), C!@@(not, v3)}
  BY DEF C!KillAnswers
<1>2. /\ \A f \in DOMAIN C!ServedFields : f \in DOMAIN K.fields /\ K.fields[f] = C!ServedFields[f]
      /\ \A f \in {"already_exited", "kill_requested", "kill_timed_out"} :
            f \in DOMAIN K.fields /\ K.fields[f] = {"true"}
      /\ "pid" \in DOMAIN K.fields /\ K.fields["pid"] = {"nat"}
      /\ "killed" \in DOMAIN K.fields /\ K.fields["killed"] = {"true", "false"}
      /\ "error" \in DOMAIN K.fields /\ K.fields["error"] = {"text"}
  BY KillSchema
<1> HIDE DEF K
<1>3. Known(killed, K) /\ Known(not, K)
  BY <1>2, ObjectFields DEF Known, Takes, C!ServedFields
<1>4. Known(v1, K) /\ Known(v2, K) /\ Known(v3, K)
  BY <1>2, ObjectFields DEF Known, Takes, C!ServedFields
<1>5. HasAll(killed, NeededToKill) /\ HasAll(not, NeededToKill)
  BY DEF HasAll, NeededToKill
<1> HIDE DEF killed, not, v1, v2, v3
<1>6. Known(v, K)
  BY <1>1, <1>3, <1>4, KnownBoth
<1>7. HasAll(v, NeededToKill)
  BY <1>1, <1>5, HasEither
<1> QED  BY <1>6, <1>7 DEF Good, C!OutputSchema, K

LEMMA GoodMore ==
  ASSUME NEW tool, NEW v, NEW w, Good(tool, v), Known(w, C!OutputSchema(tool))
  PROVE  Good(tool, C!@@(w, v))
BY KnownBoth, HasEither DEF Good

LEMMA ExecutedIsGood == ASSUME NEW tool, NEW v, Good(tool, v) PROVE Good(tool, C!Executed(v))
<1> DEFINE at == [execution_target |-> "omen",
                  execution_transport |-> IF C!Here.native THEN "native-mcp" ELSE "ssh-adapter"]
<1>1. Known(at, C!OutputSchema(tool))
  BY ServedTaken, ObjectFields DEF Known, C!ServedFields
<1>2. C!Executed(v) = v \/ C!Executed(v) = C!@@(at, v)
  BY DEF C!Executed
<1> HIDE DEF at
<1> QED  BY <1>1, <1>2, GoodMore

LEMMA HereIs ==
  ASSUME deployment \in Deployment
  PROVE  C!Here.identity \subseteq {"backend_generation", "source_commit"}
BY ContractAssumption DEF C!ContractAssumption, C!Here, C!AtOmen

LEMMA ResultFits ==
  ASSUME deployment \in Deployment, NEW tool, NEW v, Good(tool, v)
  PROVE  /\ Good(tool, C!resultData(v))
         /\ C!Fits(C!resultData(v), C!OutputSchema(tool))
<1> DEFINE head == [caller_id |-> "text", serving_identity |-> C!Identity(C!Here)]
           identity == C!Identity(C!Here)
<1>1. C!HasShape(identity, C!processServingIdentitySchema)
      /\ C!HasValues(identity, C!processServingIdentitySchema, DOMAIN identity)
  BY HereIs DEF C!Identity, C!HasShape, C!HasValues, C!processServingIdentitySchema
<1>2. C!Objects["serving_identity"] = C!processServingIdentitySchema
  BY DEF C!Objects
<1>3. Takes(C!OutputSchema(tool), "serving_identity", identity)
  BY <1>1, <1>2, ServedTaken, ObjectFields DEF C!ServedFields
<1>4. Takes(C!OutputSchema(tool), "caller_id", "text")
  BY ServedTaken, ObjectFields DEF C!ServedFields
<1> HIDE DEF identity
<1>5. Known(head, C!OutputSchema(tool))
  BY <1>3, <1>4 DEF Known, identity
<1>6. HasAll(head, {"caller_id", "serving_identity"})
  BY DEF HasAll
<1>7. C!resultData(v) = C!@@(head, v)
  BY DEF C!resultData
<1> HIDE DEF head
<1>8. Good(tool, C!resultData(v))
  BY <1>5, <1>7, GoodMore
<1>9. HasAll(C!resultData(v), {"caller_id", "serving_identity"})
  BY <1>6, <1>7, HasEither
<1>10. C!OutputSchema(tool).required \subseteq DOMAIN C!resultData(v)
  <2>1. C!OutputSchema(tool).required =
          {"caller_id", "serving_identity"} \cup (IF tool = "kill_process" THEN NeededToKill ELSE Needed)
    BY DEF C!OutputSchema, C!killProcessOutputSchema, C!processOutputSchema, NeededToKill, Needed
  <2> QED  BY <2>1, <1>8, <1>9 DEF Good, HasAll
<1> QED  BY <1>8, <1>10, FitsIs DEF Good

LEMMA RelayedIsGood ==
  ASSUME NEW tool, NEW v, Good(tool, v)
  PROVE  Good(tool, C!remoteProcessResult(v))
<1> DEFINE schema == C!OutputSchema(tool)
           at == [execution_target |-> "omen", execution_transport |-> "native-mcp"]
           caller == IF "caller_id" \in DOMAIN v THEN C!:>("execution_caller_id", v.caller_id) ELSE <<>>
           server == IF "serving_identity" \in DOMAIN v
                     THEN C!:>("execution_serving_identity", v.serving_identity) ELSE <<>>
           v1 == C!@@(at, caller)
           v2 == C!@@(v1, server)
<1>1. C!remoteProcessResult(v) = C!@@(v2, v)
  BY DEF C!remoteProcessResult
<1>2. Known(at, schema)
  BY ServedTaken, ObjectFields DEF Known, C!ServedFields
<1>3. Known(caller, schema)
  <2>1. CASE "caller_id" \in DOMAIN v
    <3>1. Takes(schema, "caller_id", v.caller_id)
      BY <2>1 DEF Good, Known
    <3>2. schema.fields["caller_id"] = {"text"} /\ "caller_id" \notin DOMAIN C!Objects
      BY ProcessSchema, KillSchema, ObjectFields DEF C!OutputSchema, C!ServedFields
    <3>3. v.caller_id = "text"
      BY <3>1, <3>2 DEF Takes
    <3>4. Takes(schema, "execution_caller_id", "text")
      BY ServedTaken, ObjectFields DEF C!ServedFields
    <3> QED  BY <2>1, <3>3, <3>4, KnownOne
  <2>2. CASE "caller_id" \notin DOMAIN v
    BY <2>2, KnownNone
  <2> QED  BY <2>1, <2>2
<1>4. Known(server, schema)
  <2>1. CASE "serving_identity" \in DOMAIN v
    <3>1. Takes(schema, "serving_identity", v.serving_identity)
      BY <2>1 DEF Good, Known
    <3>2. C!Objects["execution_serving_identity"] = C!Objects["serving_identity"]
      BY DEF C!Objects
    <3>3. Takes(schema, "execution_serving_identity", v.serving_identity)
      BY <3>1, <3>2, ServedTaken, ObjectFields DEF C!ServedFields
    <3> QED  BY <2>1, <3>3, KnownOne
  <2>2. CASE "serving_identity" \notin DOMAIN v
    BY <2>2, KnownNone
  <2> QED  BY <2>1, <2>2
<1> HIDE DEF at, caller, server
<1>5. Known(v2, schema)
  BY <1>2, <1>3, <1>4, KnownBoth
<1> HIDE DEF v1, v2
<1> QED  BY <1>1, <1>5, GoodMore

-----------------------------------------------------------------------------
(* One call.                                                               *)

Tools == {"start_process", "read_output", "kill_process"}
RequestIds == {<<>>, <<"p">>, <<"bootstrap">>, <<"timeline">>, <<"omen", "p">>, <<"omen", "bootstrap">>}
Requests ==
  [at : {"here", "omen"}, tool : Tools \cup {"none"}, id : RequestIds,
   given : SUBSET (C!StartFields \cup C!ReadFields \cup {"unknown"}), target : {"none", "local", "omen"}]

LEMMA TailsAre ==
  ASSUME NEW id \in RequestIds, C!IsRemote(id)
  PROVE  Tail(id) \in {<<"p">>, <<"bootstrap">>}
<1>1. /\ Head(<<"p">>) = "p" /\ Head(<<"bootstrap">>) = "bootstrap" /\ Head(<<"timeline">>) = "timeline"
  OBVIOUS
<1>2. /\ Tail(<<"omen", "p">>) = <<"p">> /\ Tail(<<"omen", "bootstrap">>) = <<"bootstrap">>
  OBVIOUS
<1>3. id \notin {<<>>, <<"p">>, <<"bootstrap">>, <<"timeline">>}
  BY <1>1 DEF C!IsRemote
<1> QED  BY <1>2, <1>3 DEF RequestIds

\* What is asked of OMEN is an input there.
LEMMA ForwardedAccepted ==
  ASSUME request \in Requests, request.tool \in Tools, C!Accepts(request), C!ToOmen
  PROVE  C!Accepts(C!Forwarded) /\ C!Forwarded \in Requests /\ C!Forwarded.tool = request.tool
<1> DEFINE id == IF C!Starts THEN <<>> ELSE Tail(request.id)
           target == IF C!Starts THEN "omen" ELSE "none"
           fields == C!ForwardedFields
<1>1. /\ C!Forwarded = [at |-> "omen", tool |-> request.tool, id |-> id, given |-> fields, target |-> target]
      /\ C!Forwarded.tool = request.tool /\ C!Forwarded.given = fields /\ C!Forwarded.id = id
  <2> HIDE DEF id, target, fields
  <2>1. C!Forwarded = [request EXCEPT !.at = "omen", !.given = fields, !.target = target, !.id = id]
    BY DEF C!Forwarded, id, target, fields
  <2>2. C!Forwarded = [at |-> "omen", tool |-> request.tool, id |-> id, given |-> fields, target |-> target]
    BY <2>1 DEF Requests
  <2> QED  BY <2>2
<1>2. C!ForwardedFields \subseteq C!StartFields \cup C!ReadFields
  BY DEF C!ForwardedFields, C!StartFields, C!ReadFields
<1>3. ~C!Starts => Tail(request.id) \in {<<"p">>, <<"bootstrap">>}
  BY TailsAre DEF C!ToOmen, Requests
<1>4. C!Forwarded \in Requests
  BY <1>1, <1>2, <1>3 DEF Requests, RequestIds
<1>5. CASE request.tool = "start_process"
  <2>1. C!StartAccepts(request.given)
    BY <1>5 DEF C!Accepts
  <2>2. C!StartAccepts(C!ForwardedFields)
    BY <1>5, <2>1 DEF C!StartAccepts, C!ForwardedFields, C!Starts, C!StartFields
  <2> QED  BY <1>1, <1>4, <1>5, <2>2 DEF C!Accepts
<1>6. CASE request.tool = "read_output"
  <2>1. C!ReadAccepts(Tail(request.id), C!ForwardedFields)
    BY <1>3, <1>6 DEF C!ReadAccepts, C!ForwardedFields, C!Starts, C!ReadFields, C!RoomFields
  <2> QED  BY <1>1, <1>4, <1>6, <2>1 DEF C!Accepts, C!Starts
<1>7. CASE request.tool = "kill_process"
  <2>1. id # <<>>
    <3>1. <<"p">> # <<>> /\ <<"bootstrap">> # <<>>
      OBVIOUS
    <3> QED  BY <3>1, <1>3, <1>7 DEF C!Starts
  <2>2. C!Forwarded.tool = "kill_process" /\ C!Forwarded.id # <<>>
    BY <1>1, <1>7, <2>1
  <2> QED  BY <1>4, <2>2, <1>7 DEF C!Accepts
<1> QED  BY <1>5, <1>6, <1>7 DEF Tools

\* Until it is answered a call is one that its server takes; an answer is one that only
\* lacks its caller and server, or has them, and is about what its id leads to, or will
\* lead to once it is relayed.
ContractInv ==
  /\ deployment \in Deployment /\ request \in Requests /\ DOMAIN answer = {"id", "fields"}
  /\ stage \in {"idle", "accepted", "entered", "refused", "failed", "answered", "delivered"}
  /\ stage # "idle" => request.tool \in Tools
  /\ stage = "accepted" => C!Accepts(request)
  /\ stage \in {"answered", "delivered"} =>
        /\ Good(request.tool, answer.fields)
        /\ request.at = "here" => C!LeadsTo(answer.id) = holder
        /\ request.at = "omen" => holder = [at |-> "omen", id |-> answer.id] /\ answer.id \in RequestIds

LEMMA ContractBegins == C!ContractInit => ContractInv
BY DEF C!ContractInit, ContractInv, Requests, RequestIds

\* What a tool answers, about a process or a document of its own server.
LEMMA AnswersKept ==
  ASSUME ContractInv, stage = "entered", NEW v, Good(request.tool, v),
         NEW id \in {<<"p">>, <<"bootstrap">>, <<"timeline">>}, C!Answers(v, id)
  PROVE  ContractInv'
<1>1. /\ request.at \in {"here", "omen"} /\ request.tool \in Tools
      /\ request' \in Requests /\ request'.at = request.at /\ request'.tool = request.tool
  BY DEF ContractInv, C!Answers, Requests
<1>2. answer'.fields = v /\ answer'.id = id /\ DOMAIN answer' = {"id", "fields"}
      /\ holder' = [at |-> request.at, id |-> id]
  BY DEF C!Answers
<1>3. ~C!IsRemote(id)
  <2>1. /\ Head(<<"p">>) = "p" /\ Head(<<"bootstrap">>) = "bootstrap" /\ Head(<<"timeline">>) = "timeline"
    OBVIOUS
  <2> QED  BY <2>1 DEF C!IsRemote
<1>4. C!LeadsTo(id) = [at |-> "here", id |-> id]
  BY <1>3 DEF C!LeadsTo
<1>5. deployment' = deployment /\ stage' = "answered"
  BY DEF C!Answers
<1>6. id \in RequestIds
  BY DEF RequestIds
<1> QED  BY <1>1, <1>2, <1>4, <1>5, <1>6 DEF ContractInv

LEMMA ContractKept == ASSUME ContractInv, C!ContractNext PROVE ContractInv'
<1>1. CASE C!Asks
  <2>1. PICK r : C!Ask(r) /\ r \in Requests /\ r.tool \in Tools
    <3>1. CASE \E given \in SUBSET (C!StartFields \cup {"unknown"}), t \in {"none", "local", "omen"} :
                 C!Ask([at |-> "here", tool |-> "start_process", id |-> <<>>, given |-> given, target |-> t])
      BY <3>1 DEF Requests, RequestIds, Tools
    <3>2. CASE \E id \in C!Ids, given \in SUBSET (C!ReadFields \cup {"unknown"}) :
                 C!Ask([at |-> "here", tool |-> "read_output", id |-> id, given |-> given, target |-> "none"])
      BY <3>2 DEF Requests, RequestIds, Tools, C!Ids, C!Bootstrap
    <3>3. CASE \E id \in C!Ids :
                 C!Ask([at |-> "here", tool |-> "kill_process", id |-> id, given |-> {}, target |-> "none"])
      BY <3>3 DEF Requests, RequestIds, Tools, C!Ids, C!Bootstrap
    <3> QED  BY <1>1, <3>1, <3>2, <3>3 DEF C!Asks
  <2>2. request' = r /\ deployment' = deployment /\ answer' = answer /\ stage' \in {"accepted", "refused"}
        /\ (stage' = "accepted" => C!Accepts(r))
    BY <2>1 DEF C!Ask
  <2>3. stage' = "accepted" => C!Accepts(request)'
    BY <2>2 DEF C!Accepts
  <2> QED  BY <2>1, <2>2, <2>3 DEF ContractInv
<1>2. CASE C!Forward
  <2>1. request \in Requests /\ request.tool \in Tools /\ C!Accepts(request) /\ C!ToOmen
    BY <1>2 DEF C!Forward, ContractInv
  <2>2. C!Accepts(C!Forwarded) /\ C!Forwarded \in Requests /\ C!Forwarded.tool = request.tool
    BY <2>1, ForwardedAccepted
  <2>3. request' = C!Forwarded /\ stage' = "accepted" /\ deployment' = deployment /\ answer' = answer
    BY <1>2, <2>2 DEF C!Forward
  <2>4. C!Accepts(request)'
    BY <2>2, <2>3 DEF C!Accepts
  <2> QED  BY <2>1, <2>2, <2>3, <2>4 DEF ContractInv
<1>3. CASE C!Throw \/ C!KillsNothing
  BY <1>3 DEF C!Throw, C!KillsNothing, ContractInv
<1>4. CASE C!Enter
  <2>1. /\ stage' = "entered" /\ deployment' = deployment /\ answer' = answer
        /\ request' = [request EXCEPT !.target = C!Target,
             !.given = IF request.tool = "read_output" THEN request.given \cap {"stdin"} ELSE {}]
        /\ request.tool \in Tools
    BY <1>4 DEF C!Enter, ContractInv
  <2>2. C!Target \in {"none", "local", "omen"}
    BY ContractAssumption DEF C!Target, C!Here, C!AtOmen, C!ContractAssumption, ContractInv, Requests
  <2>3. request' \in Requests /\ request'.tool = request.tool
    BY <2>1, <2>2 DEF ContractInv, Requests
  <2> QED  BY <2>1, <2>3 DEF ContractInv
<1>5. CASE C!Start
  <2>1. PICK p \in C!Process : \E v \in C!StartAnswers(p) : C!Answers(C!Executed(v), <<"p">>)
    BY <1>5 DEF C!Start
  <2>2. PICK v \in C!StartAnswers(p) : C!Answers(C!Executed(v), <<"p">>)
    BY <2>1
  <2>3. request.tool = "start_process" /\ stage = "entered"
    BY <1>5 DEF C!Start, C!Starts
  <2>4. Good(request.tool, v)
    BY <2>3, StartAnswersFit DEF Good, Answering, C!OutputSchema
  <2>5. Good(request.tool, C!Executed(v))
    BY <2>4, ExecutedIsGood
  <2> QED  BY <2>2, <2>3, <2>5, AnswersKept
<1>6. CASE C!ReadOutput
  <2>1. stage = "entered" /\ request.tool = "read_output"
    BY <1>6 DEF C!ReadOutput
  <2>2. \A v : Answering(v) => Good(request.tool, v)
    BY <2>1 DEF Good, Answering, C!OutputSchema
  <2>3. CASE request.id = <<"p">> /\ \E p \in C!Process : \E v \in C!ReadAnswers(p) : C!Answers(v, request.id)
    <3>1. PICK p \in C!Process : \E v \in C!ReadAnswers(p) : C!Answers(v, <<"p">>)
      BY <2>3
    <3>2. PICK v \in C!ReadAnswers(p) : C!Answers(v, <<"p">>)
      BY <3>1
    <3> QED  BY <2>1, <2>2, <3>2, ReadAnswersFit, AnswersKept
  <2>4. CASE \E p \in C!Process : \E v \in C!StartAnswers(p) :
               C!Answers(C!publicBootstrapAliasOutput(v), C!Bootstrap)
    <3>1. PICK p \in C!Process : \E v \in C!StartAnswers(p) :
            C!Answers(C!publicBootstrapAliasOutput(v), <<"bootstrap">>)
      BY <2>4 DEF C!Bootstrap
    <3>2. PICK v \in C!StartAnswers(p) : C!Answers(C!publicBootstrapAliasOutput(v), <<"bootstrap">>)
      BY <3>1
    <3>3. Good(request.tool, C!publicBootstrapAliasOutput(v))
      BY <2>2, StartAnswersFit, AliasAnswers
    <3> QED  BY <2>1, <3>2, <3>3, AnswersKept
  <2>5. CASE /\ request.id \in {C!Bootstrap, <<"timeline">>}
             /\ \E v \in C!SnapshotAnswers(request.id = <<"timeline">>) : C!Answers(v, request.id)
    <3> DEFINE timeline == request.id = <<"timeline">>
    <3>1. PICK v \in C!SnapshotAnswers(timeline) : C!Answers(v, request.id)
      BY <2>5
    <3>2. request.id \in {<<"p">>, <<"bootstrap">>, <<"timeline">>}
      BY <2>5 DEF C!Bootstrap
    <3>3. timeline \in BOOLEAN
      OBVIOUS
    <3> HIDE DEF timeline
    <3>4. Good(request.tool, v)
      BY <2>2, <3>1, <3>3, DocumentAnswers
    <3> QED  BY <2>1, <3>1, <3>2, <3>4, AnswersKept
  <2> QED  BY <1>6, <2>3, <2>4, <2>5 DEF C!ReadOutput
<1>7. CASE C!Kill
  <2>1. PICK p \in C!Process : \E v \in C!KillAnswers(p) : C!Answers(v, <<"p">>)
    BY <1>7 DEF C!Kill
  <2>2. PICK v \in C!KillAnswers(p) : C!Answers(v, <<"p">>)
    BY <2>1
  <2>3. request.tool = "kill_process" /\ stage = "entered"
    BY <1>7 DEF C!Kill
  <2>4. Good(request.tool, v)
    BY <2>3, KillAnswersFit
  <2> QED  BY <2>2, <2>3, <2>4, AnswersKept
<1>8. CASE C!Validate
  <2>1. /\ stage = "answered" /\ deployment' = deployment /\ request' = request /\ holder' = holder
        /\ answer' = [answer EXCEPT !.fields = C!resultData(answer.fields)]
        /\ stage' = IF C!Fits(C!resultData(answer.fields), C!OutputSchema(request.tool))
                    THEN "delivered" ELSE "lost"
    BY <1>8 DEF C!Validate
  <2>2. deployment \in Deployment /\ Good(request.tool, answer.fields)
    BY <2>1 DEF ContractInv
  <2>3. /\ Good(request.tool, C!resultData(answer.fields))
        /\ C!Fits(C!resultData(answer.fields), C!OutputSchema(request.tool))
    BY <2>2, ResultFits
  <2>4. stage' = "delivered"
    BY <2>1, <2>3
  <2>5. answer'.fields = C!resultData(answer.fields) /\ answer'.id = answer.id
        /\ DOMAIN answer' = {"id", "fields"}
    BY <2>1 DEF ContractInv
  <2>6. C!LeadsTo(answer.id)' = C!LeadsTo(answer.id)
    BY <2>5 DEF C!LeadsTo, C!IsRemote
  <2> QED  BY <2>1, <2>3, <2>4, <2>5, <2>6 DEF ContractInv
<1>9. CASE C!Relay
  <2>1. /\ stage = "delivered" /\ request.at = "omen" /\ stage' = "answered"
        /\ answer'.id = C!remoteProcessId(answer.id) /\ DOMAIN answer' = {"id", "fields"}
        /\ answer'.fields = C!remoteProcessResult(answer.fields)
        /\ request' = [request EXCEPT !.at = "here"] /\ deployment' = deployment /\ holder' = holder
    BY <1>9 DEF C!Relay
  <2>2. Good(request.tool, C!remoteProcessResult(answer.fields))
    BY <2>1, RelayedIsGood DEF ContractInv
  <2>3. request' \in Requests /\ request'.tool = request.tool /\ request'.at = "here"
    BY <2>1 DEF ContractInv, Requests
  <2>4. C!LeadsTo(C!remoteProcessId(answer.id)) = holder
    <3> DEFINE Names == {"p", "bootstrap", "timeline", "omen"}
    <3>1. holder = [at |-> "omen", id |-> answer.id] /\ answer.id \in RequestIds
      BY <2>1 DEF ContractInv
    <3>2. answer.id \in Seq(Names)
      <4>1. <<>> \in Seq(Names)
        OBVIOUS
      <4>2. <<"p">> \in Seq(Names) /\ <<"bootstrap">> \in Seq(Names) /\ <<"timeline">> \in Seq(Names)
        OBVIOUS
      <4>3. <<"omen", "p">> \in Seq(Names) /\ <<"omen", "bootstrap">> \in Seq(Names)
        OBVIOUS
      <4> QED  BY <4>1, <4>2, <4>3, <3>1 DEF RequestIds
    <3>3. /\ <<"omen">> \o answer.id # <<>>
          /\ Head(<<"omen">> \o answer.id) = "omen" /\ Tail(<<"omen">> \o answer.id) = answer.id
      BY <3>2
    <3> QED  BY <3>1, <3>3 DEF C!LeadsTo, C!IsRemote, C!remoteProcessId
  <2>5. C!LeadsTo(answer.id)' = holder'
    BY <2>1, <2>4 DEF C!LeadsTo, C!IsRemote
  <2> QED  BY <2>1, <2>2, <2>3, <2>5 DEF ContractInv
<1> QED
  BY <1>1, <1>2, <1>3, <1>4, <1>5, <1>6, <1>7, <1>8, <1>9 DEF C!ContractNext

\* No call is lost once it was accepted: what is forwarded to OMEN is an input there, every
\* answer fits its schema at both servers, and the id in it leads back to what it is about
\* (src/server.ts), for any environment and any set of facts that is known of a process.
THEOREM CallsSurvive == C!ContractSpec => []CallsSurviveTheirSchemas
<1>1. ContractInv /\ [C!ContractNext]_C!contractVars => ContractInv'
  <2>1. CASE C!ContractNext
    BY <2>1, ContractKept
  <2>2. CASE UNCHANGED C!contractVars
    BY <2>2 DEF C!contractVars, ContractInv, C!Accepts, C!LeadsTo, C!IsRemote
  <2> QED  BY <2>1, <2>2
<1>2. ContractInv => CallsSurviveTheirSchemas
  <2> SUFFICES ASSUME ContractInv PROVE CallsSurviveTheirSchemas
    OBVIOUS
  <2>1. stage = "accepted" /\ C!Starts =>
          "executable" \in request.given \/ {"script", "language"} \subseteq request.given
    BY DEF ContractInv, C!Accepts, C!StartAccepts, C!Starts
  <2> QED  BY <2>1 DEF ContractInv, CallsSurviveTheirSchemas, C!CallsSurviveTheirSchemas
<1> QED  BY <1>1, <1>2, ContractBegins, PTL DEF C!ContractSpec
=============================================================================
